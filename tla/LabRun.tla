------------------------------- MODULE LabRun -------------------------------
(***************************************************************************)
(* Runs of the lab (scripts/lab.mjs, runProfile, runCommand and            *)
(* cancelCommand), each of which may ask for the device of DeviceLease.    *)
(*                                                                         *)
(* A run keeps its record in memory and writes it as a whole to run.json.  *)
(* A step is a child process in a group of its own: it outlives a runner   *)
(* that is killed, and nobody sends it more than SIGTERM.  Another process *)
(* may cancel a run: it reads run.json, kills what is named there and      *)
(* writes the file back, while the runner, which it does not tell, goes on.*)
(* Which steps a profile has and when it needs the device or a preview is  *)
(* data; here any order is possible within its try, catch and finally.     *)
(***************************************************************************)
EXTENDS Integers, DeviceLease

CONSTANTS MaxWork,   \* bound: profiles, steps, cancels and runs elsewhere together
          Working    \* bound: runs that are followed as a whole; of the others
                     \* only the lease is seen

ASSUME LabAssumption == MaxWork \in Nat /\ Working \subseteq Runs

VARIABLES at,         \* how far the runner is, beside its lease
          profiles,   \* how many profiles it has begun
          steps,      \* how many steps it has begun
          statuses,   \* how those that are over ended
          listed,     \* run.services: the profile whose preview it names, or 0
          late,       \* the timer of the present step has fired
          proc,       \* the process of the present step, or how it exited
          preview,    \* runs whose preview process lives and was not told to end
          disk,       \* what run.json says
          cancel,     \* the process that cancels
          work,       \* what counts for MaxWork
          killed,     \* history: runs of which a step was killed by it
          spoiled,    \* history: runs in which something has gone wrong
          unnamed     \* history: living processes of a run that no file has named

memory == <<profiles, steps, statuses, listed, late>>
processes == <<proc, preview>>
notes == <<killed, spoiled, unnamed>>
labVars == <<at, memory, processes, disk, cancel, work, notes>>

\* The runner may go on with its work: it is not in the midst of a lease.
Free(r) == pc[r] \notin Acquiring \cup Holding \cup Removing
MayWork(r) == Free(r) \/ pc[r] = "hold"
Record(status, pid, service) == [status |-> status, pid |-> pid, service |-> service]

NoCancel(pos) == [pc |-> pos, run |-> NoRun, seen |-> Record("none", 0, 0)]

LabInit ==
  /\ Init
  /\ at = [r \in Runs |-> "new"]
  /\ profiles = [r \in Runs |-> 0] /\ steps = [r \in Runs |-> 0]
  /\ statuses = [r \in Runs |-> {}]
  /\ listed = [r \in Runs |-> 0] /\ late = [r \in Runs |-> FALSE]
  /\ proc = [r \in Runs |-> "none"] /\ preview = {}
  /\ disk = [r \in Runs |-> Record("none", 0, 0)]
  /\ cancel = NoCancel("none")
  /\ work = 0
  /\ killed = {} /\ spoiled = {} /\ unnamed = [r \in Runs |-> {}]

Goes(r, from, to) == at[r] = from /\ at' = [at EXCEPT ![r] = to]
Stays(r, where) == at[r] = where /\ UNCHANGED at

\* save(): the record of the runner replaces the file.
SaveAs(r, pid, service) == disk' = [disk EXCEPT ![r] = Record("running", pid, service)]
Save(r, pid) == SaveAs(r, pid, listed[r])

Note(r, status) == statuses' = [statuses EXCEPT ![r] = @ \cup {status}]
Works == work < MaxWork /\ work' = work + 1
Spoil(r) == spoiled' = spoiled \cup {r}

-----------------------------------------------------------------------------
Start(r) ==
  /\ Goes(r, "new", "between")
  /\ Save(r, 0)
  /\ UNCHANGED <<memory, processes, cancel, work, notes, vars>>

BeginProfile(r) ==
  /\ Goes(r, "between", "profile") /\ Works
  /\ profiles' = [profiles EXCEPT ![r] = @ + 1]
  /\ UNCHANGED <<steps, statuses, listed, late, processes, disk, cancel, notes, vars>>

\* blockedStep() for want of a prerequisite.
BlockedStep(r) ==
  /\ Stays(r, "profile") /\ MayWork(r)
  /\ Note(r, "blocked") /\ Spoil(r)
  /\ Save(r, 0)
  /\ UNCHANGED <<profiles, steps, listed, late, processes, cancel, work, killed, unnamed, vars>>

\* A call in acquireLease or releaseLease.  A device that is busy is a blocked
\* step; an exception leaves the try.  On the way out the lease is released.
UseLease(r) ==
  /\ \/ at[r] = "profile" /\ Acquire(r)
     \/ at[r] \in {"profile", "throw"} /\ Release(r)
  /\ CASE pc'[r] = "busy" -> Note(r, "blocked") /\ Spoil(r) /\ Save(r, 0) /\ UNCHANGED at
       [] pc'[r] = "failed" -> /\ at' = [at EXCEPT ![r] = "throw"] /\ Spoil(r)
                               /\ UNCHANGED <<statuses, disk>>
       [] pc'[r] = "hold" -> Save(r, 0) /\ UNCHANGED <<at, statuses, spoiled>>
       [] OTHER -> UNCHANGED <<at, statuses, spoiled, disk>>
  /\ UNCHANGED <<profiles, steps, listed, late, processes, cancel, work, killed, unnamed>>

\* step(): its entry is written before there is a process.
BeginStep(r) ==
  /\ Goes(r, "profile", "spawn") /\ MayWork(r) /\ Works
  /\ steps' = [steps EXCEPT ![r] = @ + 1]
  /\ Save(r, 0)
  /\ UNCHANGED <<profiles, statuses, listed, late, processes, cancel, notes, vars>>

\* spawn() returns: the process lives, and no file names it.
Spawn(r) ==
  /\ Goes(r, "spawn", "started")
  /\ proc' = [proc EXCEPT ![r] = "alive"]
  /\ unnamed' = [unnamed EXCEPT ![r] = @ \cup {"step"}]
  /\ UNCHANGED <<memory, preview, disk, cancel, work, killed, spoiled, vars>>

SpawnFails(r) ==
  /\ Goes(r, "spawn", "profile")
  /\ Note(r, "failed") /\ Spoil(r)
  /\ Save(r, 0)
  /\ UNCHANGED <<profiles, steps, listed, late, processes, cancel, work, killed, unnamed, vars>>

\* Mutant: the pid is written with the result only.
SavePidLater(r) ==
  /\ Goes(r, "started", "step")
  /\ unnamed' = [unnamed EXCEPT ![r] = @ \ {"step"}]
  /\ UNCHANGED <<memory, processes, disk, cancel, work, killed, spoiled, vars>>

\* onStart: the pid is written.
SavePid(r) ==
  /\ Goes(r, "started", "step")
  /\ Save(r, steps[r])
  /\ unnamed' = [unnamed EXCEPT ![r] = @ \ {"step"}]
  /\ UNCHANGED <<memory, processes, cancel, work, killed, spoiled, vars>>

\* The timer of spawnCapture: SIGTERM to the group, until the exit is heard of.
StepTimer(r) ==
  /\ Stays(r, "step") /\ ~late[r]
  /\ late' = [late EXCEPT ![r] = TRUE]
  /\ Spoil(r)
  /\ UNCHANGED <<profiles, steps, statuses, listed, processes, disk, cancel, work, killed, unnamed,
                 vars>>

\* The process of a step exits by itself or for a SIGTERM, which it may also
\* ignore, or take and then exit as it likes.
ProcessExits(r) ==
  /\ proc[r] = "alive"
  /\ IF at[r] = "dead"
     THEN proc' = [proc EXCEPT ![r] = "none"] /\ UNCHANGED spoiled
     ELSE \E code \in {"zero", "two", "other"} :
            /\ proc' = [proc EXCEPT ![r] = code]
            /\ IF code = "zero" THEN UNCHANGED spoiled ELSE Spoil(r)
  /\ unnamed' = [unnamed EXCEPT ![r] = @ \ {"step"}]
  /\ UNCHANGED <<at, memory, preview, disk, cancel, work, killed, vars>>

\* Mutant: the timeout is forgotten.
VerdictByCode(r) ==
  CASE proc[r] = "zero" -> "passed"
    [] proc[r] = "two" -> "blocked"
    [] OTHER -> "failed"

\* How a step counts: by its timeout, then by the exit code alone.
Verdict(r) ==
  CASE late[r] \/ proc[r] = "two" -> "blocked"
    [] ~late[r] /\ proc[r] = "zero" -> "passed"
    [] OTHER -> "failed"

StepEnds(r) ==
  /\ Goes(r, "step", "profile") /\ proc[r] # "alive"
  /\ Note(r, Verdict(r))
  /\ proc' = [proc EXCEPT ![r] = "none"]
  /\ late' = [late EXCEPT ![r] = FALSE]
  /\ Save(r, 0)
  /\ UNCHANGED <<profiles, steps, listed, preview, cancel, work, notes, vars>>

-----------------------------------------------------------------------------
\* startDevicePreview() and the preview of the web profile: once in a profile.
StartPreview(r) ==
  /\ Goes(r, "profile", "preview") /\ MayWork(r) /\ listed[r] = 0
  /\ preview' = preview \cup {r}
  /\ unnamed' = [unnamed EXCEPT ![r] = @ \cup {"preview"}]
  /\ UNCHANGED <<memory, proc, disk, cancel, work, killed, spoiled, vars>>

\* It is listed at once (web) or when it has answered (devices).
PreviewUp(r) ==
  /\ Goes(r, "preview", "profile")
  /\ listed' = [listed EXCEPT ![r] = profiles[r]]
  /\ SaveAs(r, 0, profiles[r])
  /\ unnamed' = [unnamed EXCEPT ![r] = @ \ {"preview"}]
  /\ UNCHANGED <<profiles, steps, statuses, late, processes, cancel, work, killed, spoiled, vars>>

\* preview.stop(): a SIGTERM, whose effect is not waited for.
Stopped(r) == preview \ {r}

\* It does not answer.
PreviewFails(r) ==
  /\ Goes(r, "preview", "throw")
  /\ preview' = Stopped(r)
  /\ unnamed' = [unnamed EXCEPT ![r] = @ \ {"preview"}]
  /\ Spoil(r)
  /\ UNCHANGED <<memory, proc, disk, cancel, work, killed, vars>>

PreviewExits(r) ==
  /\ r \in preview
  /\ preview' = preview \ {r}
  /\ unnamed' = [unnamed EXCEPT ![r] = @ \ {"preview"}]
  /\ UNCHANGED <<at, memory, proc, disk, cancel, work, killed, spoiled, vars>>

\* catch, when the lease is given back: a blocked step.
Catch(r) ==
  /\ Goes(r, "throw", "finally") /\ Free(r)
  /\ Note(r, "blocked")
  /\ Save(r, 0)
  /\ UNCHANGED <<profiles, steps, listed, late, processes, cancel, work, notes, vars>>

\* Mutant: the preview is stopped at the end of the try, not in finally.
EndProfileOfTry(r) ==
  /\ \/ Goes(r, "profile", "between") /\ preview' = Stopped(r)
     \/ Goes(r, "finally", "between") /\ preview' = preview
  /\ Free(r)
  /\ listed' = [listed EXCEPT ![r] = 0]
  /\ SaveAs(r, 0, 0)
  /\ UNCHANGED <<profiles, steps, statuses, late, proc, cancel, work, notes, vars>>

\* Mutant: finally waits for a preview that a cancel has already stopped.
EndProfileWithPreview(r) ==
  /\ Goes(r, "profile", "between") \/ Goes(r, "finally", "between")
  /\ Free(r) /\ (listed[r] # 0 => r \in preview)
  /\ preview' = Stopped(r)
  /\ listed' = [listed EXCEPT ![r] = 0]
  /\ SaveAs(r, 0, 0)
  /\ UNCHANGED <<profiles, steps, statuses, late, proc, cancel, work, notes, vars>>

\* finally: the preview is stopped and struck from the services.  A profile that
\* has none does not write the file here.
EndProfile(r) ==
  /\ Goes(r, "profile", "between") \/ Goes(r, "finally", "between")
  /\ Free(r)
  /\ preview' = IF listed[r] # 0 THEN Stopped(r) ELSE preview
  /\ listed' = [listed EXCEPT ![r] = 0]
  /\ \/ SaveAs(r, 0, 0)
     \/ listed[r] = 0 /\ UNCHANGED disk
  /\ UNCHANGED <<profiles, steps, statuses, late, proc, cancel, work, notes, vars>>

\* The memory of a process that is over is gone.
Forgets(r) ==
  /\ statuses' = [statuses EXCEPT ![r] = {}]
  /\ listed' = [listed EXCEPT ![r] = 0]
  /\ late' = [late EXCEPT ![r] = FALSE]
  /\ UNCHANGED <<profiles, steps>>

\* finalRunState
FinalRunState(s) ==
  CASE "failed" \in s -> "failed"
    [] "failed" \notin s /\ ("blocked" \in s \/ s = {}) -> "blocked"
    [] OTHER -> "passed"

\* The end of runCommand.
EndRun(r) ==
  /\ Goes(r, "between", "ended")
  /\ disk' = [disk EXCEPT ![r] = Record(FinalRunState(statuses[r]), 0, listed[r])]
  /\ Forgets(r)
  /\ UNCHANGED <<processes, cancel, work, notes, vars>>

\* The runner is killed, or throws outside of a try: its children go on.
CrashRun(r) ==
  /\ at[r] \notin {"new", "ended", "dead"} /\ at' = [at EXCEPT ![r] = "dead"]
  /\ IF Free(r) THEN UNCHANGED vars ELSE Crash(r)
  /\ Forgets(r)
  /\ UNCHANGED <<processes, disk, cancel, work, notes>>

-----------------------------------------------------------------------------
(* cancelCommand, run once. *)

CancelRead(r) ==
  /\ cancel.pc = "none" /\ Works /\ disk[r].status = "running"
  /\ cancel' = [pc |-> "kill", run |-> r, seen |-> disk[r]]
  /\ UNCHANGED <<at, memory, processes, disk, notes, vars>>

\* What was read may be over by now.
CancelKill(r) ==
  /\ cancel.pc = "kill" /\ cancel.run = r
  /\ cancel' = [NoCancel("write") EXCEPT !.run = r]
  /\ killed' = IF cancel.seen.pid = steps[r] /\ proc[r] = "alive"
               THEN killed \cup {r} ELSE killed
  /\ preview' = IF cancel.seen.service = profiles[r] THEN Stopped(r) ELSE preview
  /\ UNCHANGED <<at, memory, proc, disk, work, spoiled, unnamed, vars>>

CancelWrite(r) ==
  /\ cancel.pc = "write" /\ cancel.run = r
  /\ cancel' = NoCancel("done")
  /\ disk' = [disk EXCEPT ![r] = Record("cancelled", 0, 0)]
  /\ UNCHANGED <<at, memory, processes, work, notes, vars>>

Cancel(r) == CancelRead(r) \/ CancelKill(r) \/ CancelWrite(r)

\* What the runner does of itself.
Runner(r) ==
  \/ Start(r) \/ BeginProfile(r) \/ BlockedStep(r) \/ UseLease(r)
  \/ BeginStep(r) \/ Spawn(r) \/ SpawnFails(r) \/ SavePid(r) \/ StepEnds(r)
  \/ StartPreview(r) \/ PreviewUp(r) \/ PreviewFails(r)
  \/ Catch(r) \/ EndProfile(r) \/ EndRun(r)

\* A run of which only the lease is seen.
Elsewhere(r) ==
  /\ IF pc[r] = "idle" THEN Works ELSE UNCHANGED work
  /\ Acquire(r) \/ Release(r) \/ Crash(r)
  /\ UNCHANGED <<at, memory, processes, disk, cancel, notes>>

LabNext ==
  \/ \E r \in Working : \/ Runner(r) \/ StepTimer(r) \/ CrashRun(r)
                        \/ ProcessExits(r) \/ PreviewExits(r) \/ Cancel(r)
  \/ \E r \in Runs \ Working : Elsewhere(r)
  \/ Expire /\ UNCHANGED labVars

\* A runner goes on until it is killed.  Nothing is assumed of the processes.
Fairness == \A r \in Working : WF_<<vars, labVars>>(Runner(r))

LabSpec == LabInit /\ [][LabNext]_<<vars, labVars>> /\ Fairness

-----------------------------------------------------------------------------
Statuses == {"passed", "failed", "blocked"}
Records == [status : Statuses \cup {"none", "running", "cancelled"},
            pid : Nat, service : Nat]

LabTypeOK ==
  /\ at \in [Runs -> {"new", "between", "profile", "spawn", "started", "step", "preview",
                      "throw", "finally", "ended", "dead"}]
  /\ profiles \in [Runs -> Nat] /\ steps \in [Runs -> Nat] /\ work \in 0..MaxWork
  /\ statuses \in [Runs -> SUBSET Statuses]
  /\ listed \in [Runs -> Nat] /\ late \in [Runs -> BOOLEAN]
  /\ proc \in [Runs -> {"none", "alive", "zero", "two", "other"}]
  /\ preview \subseteq Runs
  /\ disk \in [Runs -> Records]
  /\ cancel \in [pc : {"none", "kill", "write", "done"}, run : Runs \cup {NoRun},
                 seen : Records]
  /\ killed \subseteq Runs /\ spoiled \subseteq Runs
  /\ unnamed \in [Runs -> SUBSET {"step", "preview"}]

\* A run that ended in order has left no process of a step, no preview that was
\* not told to end and no lease, and it does not stand as running.
EndedLeavesNothing ==
  \A r \in Runs : at[r] = "ended" =>
    proc[r] # "alive" /\ r \notin preview /\ lease # r /\ disk[r].status # "running"

\* However runs, their children, a cancel, exceptions and kills meet, an ended run
\* has taken everything with it and is not written down as running, even if a
\* cancel wrote last (runProfile, its try, catch and finally).
LabInv == LabTypeOK /\ EndedLeavesNothing

\* A file that says passed is earned: in no step or acquisition of the run, nor in
\* its previews, has anything gone wrong, be it an exit code, a timeout, a process
\* that did not start, a busy device or an exception, and it had a step.
PassedIsEarned ==
  \A r \in Runs : disk[r].status = "passed" => r \notin spoiled /\ steps[r] > 0

\* What a first cancel must stop it finds in the file: a living process of a step
\* and a preview are named there, and the run is open, whether the runner still
\* lives or was killed and left them behind.  Excepted are the moments in which a
\* process lives and its number is not yet written, and a runner killed in one.
CancelFindsAll ==
  cancel.pc = "none" =>
    \A r \in Runs :
      /\ proc[r] = "alive" /\ "step" \notin unnamed[r] =>
           disk[r].status = "running" /\ disk[r].pid = steps[r]
      /\ r \in preview /\ "preview" \notin unnamed[r] =>
           disk[r].status = "running" /\ disk[r].service = profiles[r]

\* A run whose step was killed by cancel gives the device back and ends, though
\* nobody told its runner, unless that one is killed, provided that processes do
\* end: a step that ignores SIGTERM is waited for without limit.
CancelledRunEnds ==
  (\A r \in Runs : []<>(proc[r] # "alive")) =>
    \A r \in Runs : r \in killed ~> at[r] \in {"ended", "dead"}
=============================================================================
