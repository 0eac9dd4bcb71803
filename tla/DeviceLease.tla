----------------------------- MODULE DeviceLease -----------------------------
(***************************************************************************)
(* The lease of one device between the processes of the lab runner         *)
(* (scripts/lab.mjs, acquireLease and releaseLease).                       *)
(*                                                                         *)
(* A lease is a directory with a file lease.json, which names its run, the *)
(* process and the time at which it expires.  There is no lock: every call *)
(* on the file system is an action, and other processes come between.  A   *)
(* process may die at any point.  Reading a lease and asking whether its   *)
(* process lives is one action, and so is the unlinking of all files of a  *)
(* directory.  A call fails for what other runs have done, not for want of *)
(* space or rights, and all runs are of one user.                          *)
(***************************************************************************)
CONSTANTS Runs,    \* each is one process that asks for the device once
          NoRun    \* there is no readable lease.json

ASSUME NoRunAssumption == NoRun \notin Runs

VARIABLES pc,        \* how far each run is
          dir,       \* the lease directory exists
          lease,     \* the run that lease.json names
          expired,   \* its time is over
          temps,     \* runs whose temporary file lies in the directory
          raced,     \* history: two runs changed the directory at the same time
          outstayed  \* history: runs whose expired lease was taken over

vars == <<pc, dir, lease, expired, temps, raced, outstayed>>
history == <<raced, outstayed>>

Taking == {"remove", "rmdir", "remake", "make", "write", "rename"}
Removing == {"delete", "drop"}
Acquiring == {"judge"} \cup Taking
Holding == {"hold", "release"}
Over == {"busy", "failed", "done", "dead"}

Changers == {r \in Runs : pc[r] \in Taking \cup Removing}
Holders == {r \in Runs : pc[r] \in Holding}

Init ==
  /\ pc = [r \in Runs |-> "idle"]
  /\ dir = FALSE
  /\ lease = NoRun
  /\ expired = FALSE
  /\ temps = {}
  /\ raced = FALSE
  /\ outstayed = {}

Step(r, from, to) == pc[r] = from /\ pc' = [pc EXCEPT ![r] = to]

\* It is noted when a run begins to change the directory while another does.
Notice == raced' = (raced \/ \E r, s \in Changers' : r # s)

-----------------------------------------------------------------------------
(* rmSync() of the directory: its files are unlinked, then it is removed.  *)

Empty(r, from, to, gone) ==
  /\ Step(r, from, IF dir THEN to ELSE gone)
  /\ lease' = NoRun
  /\ expired' = FALSE
  /\ temps' = {}
  /\ UNCHANGED <<dir, history>>

\* Mutant: the directory itself is left.
RmdirForgotten(r, from, again, gone) ==
  /\ Step(r, from, gone)
  /\ UNCHANGED <<dir, lease, expired, temps, history>>

\* A directory that another run has written to meanwhile is not empty: rmSync()
\* throws or starts over.
Rmdir(r, from, again, gone) ==
  /\ \/ /\ lease = NoRun /\ temps = {}
        /\ Step(r, from, gone)
        /\ dir' = FALSE
     \/ /\ lease # NoRun \/ temps # {}
        /\ Step(r, from, again) \/ Step(r, from, "failed")
        /\ UNCHANGED dir
  /\ UNCHANGED <<lease, expired, temps, history>>

-----------------------------------------------------------------------------
\* acquireLease: the first mkdirSync().
Begin(r) ==
  /\ Step(r, "idle", IF dir THEN "judge" ELSE "make")
  /\ dir' = TRUE
  /\ Notice
  /\ UNCHANGED <<lease, expired, temps, outstayed>>

\* What processAlive() may say.  A run that is over may still be at other work,
\* or its number may belong to another process by now.
SaidOf(r) == IF pc[r] \in Over THEN BOOLEAN ELSE {TRUE}

\* There is a readable lease, and its time is not over.
Unexpired == lease # NoRun /\ ~expired

MayRefuse == Unexpired /\ TRUE \in SaidOf(lease)
MayPass == Unexpired => FALSE \in SaidOf(lease)

\* The directory exists: it is somebody's, or left behind.  That an owner at
\* work has let its time run out is noted.
Judge(r) ==
  \/ /\ MayRefuse
     /\ Step(r, "judge", "busy")
     /\ UNCHANGED <<dir, lease, expired, temps, history>>
  \/ /\ MayPass
     /\ Step(r, "judge", "remove")
     /\ Notice
     /\ outstayed' = outstayed \cup ({lease} \cap Holders)
     /\ UNCHANGED <<dir, lease, expired, temps>>

Unlink(r) == Empty(r, "remove", "rmdir", "remake")
RemoveDir(r) == Rmdir(r, "rmdir", "remove", "remake")

\* The second mkdirSync() throws if the directory is there again.
Remake(r) ==
  /\ Step(r, "remake", IF dir THEN "failed" ELSE "make")
  /\ dir' = TRUE
  /\ UNCHANGED <<lease, expired, temps, history>>

\* writeJsonAtomic: mkdirSync() does not mind that the directory exists.
Make(r) ==
  /\ Step(r, "make", "write")
  /\ dir' = TRUE
  /\ UNCHANGED <<lease, expired, temps, history>>

\* writeFileSync() of the temporary file.
Write(r) ==
  /\ Step(r, "write", IF dir THEN "rename" ELSE "failed")
  /\ temps' = IF dir THEN temps \cup {r} ELSE temps
  /\ UNCHANGED <<dir, lease, expired, history>>

\* renameSync() throws if the temporary file was removed with the directory.
Rename(r) ==
  \/ /\ r \in temps
     /\ Step(r, "rename", "hold")
     /\ temps' = temps \ {r}
     /\ lease' = r
     /\ expired' = FALSE
     /\ UNCHANGED <<dir, history>>
  \/ /\ r \notin temps
     /\ Step(r, "rename", "failed")
     /\ UNCHANGED <<dir, lease, expired, temps, history>>

-----------------------------------------------------------------------------
\* Mutant: a lease past its time is left to others.
FinishUnlessExpired(r) ==
  /\ Step(r, "hold", IF expired THEN "done" ELSE "release")
  /\ UNCHANGED <<dir, lease, expired, temps, history>>

\* The work on the device ends or throws: finally.
Finish(r) ==
  /\ Step(r, "hold", "release")
  /\ UNCHANGED <<dir, lease, expired, temps, history>>

\* Mutant: the lease is removed whoever it belongs to.
CheckNothing(r) ==
  /\ Step(r, "release", "delete")
  /\ Notice
  /\ UNCHANGED <<dir, lease, expired, temps, outstayed>>

\* releaseLease: the lease of another run stays.
Check(r) ==
  /\ Step(r, "release", IF lease \in Runs \ {r} THEN "done" ELSE "delete")
  /\ Notice
  /\ UNCHANGED <<dir, lease, expired, temps, outstayed>>

Delete(r) == Empty(r, "delete", "drop", "done")
Drop(r) == Rmdir(r, "drop", "delete", "done")

\* The process is killed.
Crash(r) ==
  /\ pc[r] \in Acquiring \cup Holding \cup Removing
  /\ pc' = [pc EXCEPT ![r] = "dead"]
  /\ UNCHANGED <<dir, lease, expired, temps, history>>

\* expiresAt passes.  A step of a run has its own, shorter timeout, but a child
\* that ignores SIGTERM is waited for.
Expire ==
  /\ lease # NoRun /\ ~expired
  /\ expired' = TRUE
  /\ UNCHANGED <<pc, dir, lease, temps, history>>

Acquire(r) ==
  \/ Begin(r) \/ Judge(r) \/ Unlink(r) \/ RemoveDir(r) \/ Remake(r) \/ Make(r) \/ Write(r)
  \/ Rename(r)
Release(r) == Finish(r) \/ Check(r) \/ Delete(r) \/ Drop(r)

Next == Expire \/ \E r \in Runs : Acquire(r) \/ Release(r) \/ Crash(r)

Spec == Init /\ [][Next]_vars

-----------------------------------------------------------------------------
TypeOK ==
  /\ pc \in [Runs -> {"idle"} \cup Acquiring \cup Holding \cup Removing \cup Over]
  /\ dir \in BOOLEAN
  /\ lease \in Runs \cup {NoRun}
  /\ expired \in BOOLEAN
  /\ temps \subseteq Runs
  /\ raced \in BOOLEAN
  /\ outstayed \subseteq Runs

\* The device is released when the run ends (docs/plan/13, 34): a lease on disk is
\* that of a run at work or of one that was killed, however the runs race.
EndedLeavesNoLease == lease # NoRun => pc[lease] \in Holding \cup {"delete", "dead"}

\* The types, and no lease without a run to answer for it.
Inv == TypeOK /\ EndedLeavesNoLease

\* One run has the device, and lease.json names it: who asks, ends or is killed
\* takes it from nobody, as long as no two runs changed the directory at the same
\* time.  A run that outstays its lease loses the device to the next one, but
\* does not take it back or free it when it ends.
HolderIsAlone == ~raced => \A r \in Holders \ outstayed : lease = r

\* A run that is alone at the directory gets the device or hears that it is busy,
\* and gives it back: whatever a killed one has left behind, no call throws.
FailsOnlyInRace == ~raced => \A r \in Runs : pc[r] # "failed"
=============================================================================
