---------------------------- MODULE LabRunProofs ----------------------------
(***************************************************************************)
(* The device lab, for any number of runs, profiles and steps.             *)
(*                                                                         *)
(* The leases: whatever the runs do, one that ended in order has left no   *)
(* lease; and as long as no two changed the directory at the same time,    *)
(* who has the device is the run that lease.json names, or has outstayed   *)
(* its lease.  The second needs to know what an acquisition has behind it  *)
(* (AloneInv): once it is about to remove or to make the directory, nobody *)
(* else does, and nobody holds the device but for those who outstayed.     *)
(*                                                                         *)
(* The runs: the lab uses the device as DeviceLease says, so what is proved *)
(* of that holds of it; an ended run has taken everything with it; a run   *)
(* recorded as passed is one in which nothing went wrong; and a first      *)
(* cancel finds what there is to stop.  Where a run can be (Placed), what  *)
(* the file names (Named) and what became of a thing that went wrong       *)
(* (Marked) are kept together, run by run: no step of a run touches what   *)
(* belongs to another (OthersSame).                                        *)
(***************************************************************************)
EXTENDS LabRun, TLAPS

\* What holds as long as no two runs changed the directory at the same time.
AloneInv ==
  /\ HolderIsAlone
  /\ FailsOnlyInRace
  /\ ~raced =>
       /\ \A r, s \in Changers : r = s
       /\ \A r \in Holders \ outstayed : dir
       /\ \A r \in Changers : Holders \subseteq outstayed
       /\ \A r \in Runs : pc[r] \in {"rmdir", "drop"} => lease = NoRun /\ temps = {}
       /\ \A r \in Runs : pc[r] = "remake" => ~dir
       /\ \A r \in Runs : pc[r] = "write" => dir
       /\ \A r \in Runs : pc[r] = "rename" => dir /\ r \in temps

-----------------------------------------------------------------------------
\* The types and the claim on ended runs are kept by every step.
LEMMA InvKept == Inv /\ [Next]_vars => Inv'
<1>. SUFFICES ASSUME Inv, [Next]_vars PROVE Inv'
  OBVIOUS
<1>. USE NoRunAssumption DEF Inv, TypeOK, EndedLeavesNoLease, Acquiring, Taking, Removing,
                             Holding, Holders, Over, history, Step, Notice
<1>1. ASSUME NEW r \in Runs, Begin(r) PROVE Inv'
  BY <1>1 DEF Begin
<1>2. ASSUME NEW r \in Runs, Judge(r) PROVE Inv'
  BY <1>2 DEF Judge
<1>3. ASSUME NEW r \in Runs, Unlink(r) PROVE Inv'
  BY <1>3 DEF Unlink, Empty
<1>4. ASSUME NEW r \in Runs, RemoveDir(r) PROVE Inv'
  BY <1>4 DEF RemoveDir, Rmdir
<1>5. ASSUME NEW r \in Runs, Remake(r) \/ Make(r) PROVE Inv'
  BY <1>5 DEF Remake, Make
<1>6. ASSUME NEW r \in Runs, Write(r) PROVE Inv'
  BY <1>6 DEF Write
<1>7. ASSUME NEW r \in Runs, Rename(r) PROVE Inv'
  BY <1>7 DEF Rename
<1>8. ASSUME NEW r \in Runs, Finish(r) PROVE Inv'
  BY <1>8 DEF Finish
<1>9. ASSUME NEW r \in Runs, Check(r) PROVE Inv'
  BY <1>9 DEF Check
<1>10. ASSUME NEW r \in Runs, Delete(r) PROVE Inv'
  BY <1>10 DEF Delete, Empty
<1>11. ASSUME NEW r \in Runs, Drop(r) PROVE Inv'
  BY <1>11 DEF Drop, Rmdir
<1>12. ASSUME NEW r \in Runs, Crash(r) PROVE Inv'
  BY <1>12 DEF Crash
<1>13. CASE Expire
  BY <1>13 DEF Expire
<1>14. CASE UNCHANGED vars
  BY <1>14 DEF vars
<1>. QED
  BY <1>1, <1>2, <1>3, <1>4, <1>5, <1>6, <1>7, <1>8, <1>9, <1>10, <1>11, <1>12, <1>13,
     <1>14 DEF Next, Acquire, Release

\* That two runs have met at the directory is not forgotten.
LEMMA RacedStays == raced /\ [Next]_vars => raced'
  BY DEF Next, vars, history, Acquire, Release, Begin, Judge, Unlink, RemoveDir, Empty, Rmdir,
         Remake, Make, Write, Rename, Finish, Check, Delete, Drop, Crash, Expire, Notice

\* A step after which no two runs have met keeps exclusion.
LEMMA AloneKept == Inv /\ AloneInv /\ [Next]_vars => AloneInv'
<1>. SUFFICES ASSUME Inv, AloneInv, [Next]_vars, ~raced' PROVE AloneInv'
  BY DEF AloneInv, HolderIsAlone, FailsOnlyInRace
<1>0. /\ ~raced
      /\ \A r \in Holders \ outstayed : lease = r /\ dir
      /\ \A r \in Runs : pc[r] # "failed"
      /\ \A r, s \in Changers : r = s
      /\ \A r \in Changers : Holders \subseteq outstayed
      /\ \A r \in Runs : pc[r] \in {"rmdir", "drop"} => lease = NoRun /\ temps = {}
      /\ \A r \in Runs : pc[r] = "remake" => ~dir
      /\ \A r \in Runs : pc[r] = "write" => dir
      /\ \A r \in Runs : pc[r] = "rename" => dir /\ r \in temps
  BY RacedStays DEF AloneInv, HolderIsAlone, FailsOnlyInRace
<1>. USE <1>0 DEF Inv, TypeOK, AloneInv, HolderIsAlone, FailsOnlyInRace, Changers, Holders,
                  Acquiring, Taking, Removing, Holding, Step, history
<1>1. ASSUME NEW r \in Runs, Begin(r) PROVE AloneInv'
  <2>1. \A q, s \in Changers' : q = s
    BY <1>1 DEF Begin, Notice
  <2>2. CASE dir
    BY <1>1, <2>1, <2>2 DEF Begin
  <2>3. CASE ~dir
    <3>1. Holders \subseteq outstayed /\ Holders' = Holders
      BY <1>1, <2>3 DEF Begin
    <3>2. r \in Changers' /\ pc'[r] = "make"
      BY <1>1, <2>3 DEF Begin
    <3>3. Changers' = {r}
      BY <2>1, <3>2
    <3>. QED
      BY <1>1, <2>1, <2>3, <3>1, <3>2, <3>3 DEF Begin
  <2>. QED
    BY <2>2, <2>3
<1>2. ASSUME NEW r \in Runs, Judge(r) PROVE AloneInv'
  <2>1. CASE pc' = [pc EXCEPT ![r] = "busy"] /\ UNCHANGED <<dir, lease, temps, history>>
    BY <1>2, <2>1
  <2>2. CASE /\ pc' = [pc EXCEPT ![r] = "remove"] /\ pc[r] = "judge" /\ MayPass /\ Notice
             /\ outstayed' = outstayed \cup ({lease} \cap Holders)
             /\ UNCHANGED <<dir, lease, expired, temps>>
    <3>1. ASSUME NEW s \in Holders PROVE s \in outstayed'
      <4>1. CASE s \in outstayed
        BY <2>2, <4>1
      <4>2. CASE s \notin outstayed
        <5>1. lease = s /\ pc[s] \in {"hold", "release"}
          BY <4>2
        <5>. QED
          BY <2>2, <5>1
      <4>. QED
        BY <4>1, <4>2
    <3>2. Changers' = {r} /\ Holders' = Holders
      <4>1. r \in Changers'
        BY <2>2
      <4>2. \A q, s \in Changers' : q = s
        BY <2>2 DEF Notice
      <4>. QED
        BY <2>2, <4>1, <4>2
    <3>. QED
      BY <2>2, <3>1, <3>2
  <2>. QED
    BY <1>2, <2>1, <2>2 DEF Judge
<1>3. ASSUME NEW r \in Runs, Unlink(r) PROVE AloneInv'
  BY <1>3 DEF Unlink, Empty
<1>4. ASSUME NEW r \in Runs, RemoveDir(r) PROVE AloneInv'
  BY <1>4 DEF RemoveDir, Rmdir
<1>5. ASSUME NEW r \in Runs, Remake(r) \/ Make(r) PROVE AloneInv'
  BY <1>5 DEF Remake, Make
<1>6. ASSUME NEW r \in Runs, Write(r) PROVE AloneInv'
  BY <1>6 DEF Write
<1>7. ASSUME NEW r \in Runs, Rename(r) PROVE AloneInv'
  <2>1. Holders \subseteq outstayed /\ dir /\ r \in temps /\ Changers = {r}
    BY <1>7 DEF Rename
  <2>2. Holders' = Holders \cup {r} /\ Changers' = {} /\ lease' = r /\ dir'
    BY <1>7, <2>1 DEF Rename
  <2>3. \A s \in Runs : pc'[s] \notin {"rmdir", "drop", "remake", "write", "rename", "failed"}
    <3>1. \A s \in Runs : s \notin Changers'
      BY <2>2
    <3>2. pc' = [pc EXCEPT ![r] = "hold"]
      BY <1>7, <2>1 DEF Rename
    <3>. QED
      BY <3>1, <3>2
  <2>4. outstayed' = outstayed
    BY <1>7 DEF Rename
  <2>. QED
    BY <2>1, <2>2, <2>3, <2>4
<1>8. ASSUME NEW r \in Runs, Finish(r) PROVE AloneInv'
  BY <1>8 DEF Finish
<1>9. ASSUME NEW r \in Runs, Check(r) PROVE AloneInv'
  <2>1. CASE lease \in Runs \ {r}
    BY <1>9, <2>1 DEF Check
  <2>2. CASE lease \in {r, NoRun}
    <3>1. pc' = [pc EXCEPT ![r] = "delete"]
      BY <1>9, <2>2, NoRunAssumption DEF Check
    <3>2. Changers' = {r}
      <4>1. r \in Changers'
        BY <3>1
      <4>2. \A q, s \in Changers' : q = s
        BY <1>9 DEF Check, Notice
      <4>. QED
        BY <4>1, <4>2
    <3>3. Holders' \subseteq outstayed
      BY <2>2, <3>1, NoRunAssumption
    <3>. QED
      BY <1>9, <3>1, <3>2, <3>3 DEF Check
  <2>. QED
    BY <2>1, <2>2
<1>10. ASSUME NEW r \in Runs, Delete(r) PROVE AloneInv'
  BY <1>10 DEF Delete, Empty
<1>11. ASSUME NEW r \in Runs, Drop(r) PROVE AloneInv'
  BY <1>11 DEF Drop, Rmdir
<1>12. ASSUME NEW r \in Runs, Crash(r) PROVE AloneInv'
  BY <1>12 DEF Crash
<1>13. CASE Expire
  BY <1>13 DEF Expire
<1>14. CASE UNCHANGED vars
  BY <1>14 DEF vars
<1>. QED
  BY <1>1, <1>2, <1>3, <1>4, <1>5, <1>6, <1>7, <1>8, <1>9, <1>10, <1>11, <1>12, <1>13,
     <1>14 DEF Next, Acquire, Release

-----------------------------------------------------------------------------
\* A run that ended in order has left no lease, however the runs race: only its
\* own rename makes it the owner, and releaseLease removes that lease or finds
\* it replaced.
THEOREM LeaseInvariant == Spec => []Inv
<1>1. Init => Inv
  BY NoRunAssumption DEF Init, Inv, TypeOK, EndedLeavesNoLease
<1>. QED
  BY <1>1, InvKept, PTL DEF Spec

LEMMA AloneAtFirst == Init => AloneInv
  BY DEF Init, AloneInv, HolderIsAlone, FailsOnlyInRace, Changers, Holders, Taking, Removing,
         Holding

\* Exclusion: as long as no two runs met at the directory, whoever has the device
\* is the run that lease.json names, except one whose expired lease was taken
\* over (acquireLease, releaseLease).
THEOREM Exclusion == Spec => []HolderIsAlone
<1>1. AloneInv => HolderIsAlone
  BY DEF AloneInv
<1>. QED
  BY <1>1, AloneAtFirst, AloneKept, LeaseInvariant, PTL DEF Spec

\* As long as no two runs met at the directory, no call of acquireLease or
\* releaseLease throws, whatever a killed run has left there.
THEOREM AcquisitionSucceeds == Spec => []FailsOnlyInRace
<1>1. AloneInv => FailsOnlyInRace
  BY DEF AloneInv
<1>. QED
  BY <1>1, AloneAtFirst, AloneKept, LeaseInvariant, PTL DEF Spec

-----------------------------------------------------------------------------
\* Where a run can be, with its process, its preview and the device.
Placed(r) ==
  /\ r \notin Working => at[r] = "new"
  /\ r \in Working => /\ at[r] \in {"new", "between", "finally", "ended"} => Free(r)
                      /\ pc[r] = "dead" => at[r] = "dead"
  /\ proc[r] # "none" => at[r] \in {"started", "step", "dead"}
  /\ at[r] \in {"new", "between", "ended"} => listed[r] = 0
  /\ listed[r] \in {0, profiles[r]}
  /\ r \in preview => listed[r] # 0 \/ at[r] \in {"preview", "dead"}
  /\ at[r] \notin {"new", "between", "ended", "dead"} => profiles[r] > 0
  /\ at[r] = "ended" => disk[r].status # "running"

\* What is named in the file, and what is not yet.
Named(r) ==
  /\ at[r] = "started" /\ proc[r] = "alive" => "step" \in unnamed[r]
  /\ at[r] = "preview" /\ r \in preview => "preview" \in unnamed[r]
  /\ cancel.pc = "none" =>
       /\ proc[r] = "alive" /\ "step" \notin unnamed[r] =>
            disk[r].status = "running" /\ disk[r].pid = steps[r]
       /\ r \in preview /\ "preview" \notin unnamed[r] =>
            disk[r].status = "running" /\ disk[r].service = profiles[r]

\* What has gone wrong is about to be noted, or stands among the statuses of
\* which the last record is made.
Marked(r) ==
  /\ disk[r].status = "passed" => at[r] = "ended" /\ r \notin spoiled /\ steps[r] > 0
  /\ r \in spoiled =>
       \/ at[r] \in {"throw", "dead", "ended"}
       \/ at[r] \in {"started", "step"} /\ proc[r] \in {"two", "other"}
       \/ at[r] = "step" /\ late[r]
       \/ "failed" \in statuses[r] \/ "blocked" \in statuses[r]
  /\ at[r] \in {"spawn", "started", "step"} => steps[r] > 0
  /\ "passed" \in statuses[r] => steps[r] > 0

Told(r) == Placed(r) /\ Named(r) /\ Marked(r)

LabIInv == LabTypeOK /\ Inv /\ \A r \in Runs : Told(r)

-----------------------------------------------------------------------------
\* What a run does with the device is what DeviceLease lets it do.
LEMMA LabStepIsLeaseStep == [LabNext]_<<vars, labVars>> => [Next]_vars
<1>. SUFFICES ASSUME [LabNext]_<<vars, labVars>> PROVE [Next]_vars
  OBVIOUS
<1>. USE LabAssumption
<1>1. ASSUME NEW r \in Working, UseLease(r) PROVE Next
  BY <1>1 DEF UseLease, Next
<1>2. ASSUME NEW r \in Working, CrashRun(r) PROVE [Next]_vars
  BY <1>2 DEF CrashRun, Next
<1>3. ASSUME NEW r \in Working, Runner(r) PROVE [Next]_vars
  BY <1>1, <1>3 DEF Runner, Start, BeginProfile, BlockedStep, BeginStep, Spawn, SpawnFails,
       SavePid, StepEnds, StartPreview, PreviewUp, PreviewFails, Catch, EndProfile, EndRun
<1>4. ASSUME NEW r \in Working, StepTimer(r) \/ ProcessExits(r) \/ PreviewExits(r) \/ Cancel(r)
      PROVE  UNCHANGED vars
  BY <1>4 DEF StepTimer, ProcessExits, PreviewExits, Cancel, CancelRead, CancelKill,
       CancelWrite
<1>5. ASSUME NEW r \in Runs \ Working, Elsewhere(r) PROVE Next
  BY <1>5 DEF Elsewhere, Next
<1>6. CASE Expire
  BY <1>6 DEF Next
<1>. QED
  BY <1>2, <1>3, <1>4, <1>5, <1>6 DEF LabNext

\* Every run of the lab keeps to DeviceLease (runProfile, acquireLease and
\* releaseLease), whatever its steps, its preview and a cancel do meanwhile.
THEOREM LabImplementsLease == LabSpec => Spec
<1>1. LabInit => Init
  BY DEF LabInit
<1>. QED
  BY <1>1, LabStepIsLeaseStep, PTL DEF LabSpec, Spec

-----------------------------------------------------------------------------
LEMMA InitHolds == LabInit => LabIInv
<1>. SUFFICES ASSUME LabInit PROVE LabIInv
  OBVIOUS
<1>1. Inv
  BY NoRunAssumption DEF LabInit, Init, Inv, TypeOK, EndedLeavesNoLease
<1>2. LabTypeOK
  BY LabAssumption DEF LabInit, LabTypeOK, Records, Record, Statuses, NoCancel
<1>3. ASSUME NEW r \in Runs PROVE Told(r)
  BY DEF LabInit, Init, Told, Placed, Named, Marked, Record, Free, Acquiring, Taking, Holding,
         Removing
<1>. QED
  BY <1>1, <1>2, <1>3 DEF LabIInv

\* What save() writes is a record.
LEMMA SaveTyped ==
  ASSUME LabTypeOK, NEW r \in Runs, NEW pid \in Nat, NEW service \in Nat,
         SaveAs(r, pid, service)
  PROVE  disk' \in [Runs -> Records]
  BY DEF LabTypeOK, SaveAs, Record, Records

LEMMA WorksTyped == LabTypeOK /\ Works => work' \in 0..MaxWork
  BY LabAssumption DEF LabTypeOK, Works

LEMMA TypesKept == LabTypeOK /\ [LabNext]_<<vars, labVars>> => LabTypeOK'
<1>. SUFFICES ASSUME LabTypeOK, [LabNext]_<<vars, labVars>> PROVE LabTypeOK'
  OBVIOUS
<1>0. /\ Works => work' \in 0..MaxWork
      /\ \A r \in Runs : listed[r] \in Nat /\ profiles[r] \in Nat /\ steps[r] \in Nat
  BY WorksTyped DEF LabTypeOK
<1>a. ASSUME NEW r \in Runs, NEW pid \in Nat, Save(r, pid) PROVE disk' \in [Runs -> Records]
  BY <1>0, <1>a, SaveTyped DEF Save
<1>. USE LabAssumption, <1>0 DEF LabTypeOK, Statuses, Goes, Stays, Note, Spoil, memory,
                                 processes, notes
<1>1. ASSUME NEW r \in Working, Start(r) PROVE LabTypeOK'
  BY <1>1, <1>a DEF Start
<1>2. ASSUME NEW r \in Working, BeginProfile(r) PROVE LabTypeOK'
  BY <1>2 DEF BeginProfile
<1>3. ASSUME NEW r \in Working, BlockedStep(r) PROVE LabTypeOK'
  BY <1>3, <1>a DEF BlockedStep
<1>4. ASSUME NEW r \in Working, UseLease(r) PROVE LabTypeOK'
  <2>1. \/ Note(r, "blocked") /\ Spoil(r) /\ Save(r, 0) /\ UNCHANGED at
        \/ /\ at' = [at EXCEPT ![r] = "throw"] /\ Spoil(r) /\ UNCHANGED <<statuses, disk>>
        \/ Save(r, 0) /\ UNCHANGED <<at, statuses, spoiled>>
        \/ UNCHANGED <<at, statuses, spoiled, disk>>
    BY <1>4 DEF UseLease
  <2>2. UNCHANGED <<profiles, steps, listed, late, processes, cancel, work, killed, unnamed>>
    BY <1>4 DEF UseLease
  <2>3. disk' \in [Runs -> Records]
    BY <2>1, <1>a
  <2>. QED
    BY <2>1, <2>2, <2>3
<1>5. ASSUME NEW r \in Working, BeginStep(r) PROVE LabTypeOK'
  BY <1>5, <1>a DEF BeginStep
<1>6. ASSUME NEW r \in Working, Spawn(r) PROVE LabTypeOK'
  BY <1>6 DEF Spawn
<1>7. ASSUME NEW r \in Working, SpawnFails(r) PROVE LabTypeOK'
  BY <1>7, <1>a DEF SpawnFails
<1>8. ASSUME NEW r \in Working, SavePid(r) PROVE LabTypeOK'
  BY <1>8, <1>a DEF SavePid
<1>9. ASSUME NEW r \in Working, StepEnds(r) PROVE LabTypeOK'
  <2>1. Verdict(r) \in {"passed", "blocked", "failed"}
    BY DEF Verdict
  <2>2. statuses' \in [Runs -> SUBSET {"passed", "failed", "blocked"}]
    BY <1>9, <2>1 DEF StepEnds
  <2>3. at' \in [Runs -> {"new", "between", "profile", "spawn", "started", "step", "preview",
                          "throw", "finally", "ended", "dead"}]
    BY <1>9 DEF StepEnds
  <2>4. /\ proc' \in [Runs -> {"none", "alive", "zero", "two", "other"}]
        /\ late' \in [Runs -> BOOLEAN]
    BY <1>9 DEF StepEnds
  <2>5. disk' \in [Runs -> Records]
    BY <1>9, <1>a DEF StepEnds
  <2>6. UNCHANGED <<profiles, steps, listed, preview, cancel, work, notes>>
    BY <1>9 DEF StepEnds
  <2>. QED
    BY <2>2, <2>3, <2>4, <2>5, <2>6
<1>10. ASSUME NEW r \in Working, StartPreview(r) PROVE LabTypeOK'
  BY <1>10 DEF StartPreview
<1>11. ASSUME NEW r \in Working, PreviewUp(r) PROVE LabTypeOK'
  <2>1. disk' \in [Runs -> Records]
    BY <1>11, SaveTyped DEF PreviewUp
  <2>. QED
    BY <1>11, <2>1 DEF PreviewUp
<1>12. ASSUME NEW r \in Working, PreviewFails(r) PROVE LabTypeOK'
  BY <1>12 DEF PreviewFails, Stopped
<1>13. ASSUME NEW r \in Working, Catch(r) PROVE LabTypeOK'
  BY <1>13, <1>a DEF Catch
<1>14. ASSUME NEW r \in Working, EndProfile(r) PROVE LabTypeOK'
  <2>1. disk' \in [Runs -> Records]
    BY <1>14, SaveTyped DEF EndProfile
  <2>. QED
    BY <1>14, <2>1 DEF EndProfile, Stopped
<1>15. ASSUME NEW r \in Working, EndRun(r) PROVE LabTypeOK'
  BY <1>15 DEF EndRun, Forgets, FinalRunState, Record, Records
<1>16. ASSUME NEW r \in Working, StepTimer(r) PROVE LabTypeOK'
  BY <1>16 DEF StepTimer
<1>17. ASSUME NEW r \in Working, ProcessExits(r) PROVE LabTypeOK'
  <2>1. /\ proc' \in [Runs -> {"none", "alive", "zero", "two", "other"}]
        /\ spoiled' \subseteq Runs
    BY <1>17 DEF ProcessExits
  <2>2. unnamed' \in [Runs -> SUBSET {"step", "preview"}]
    BY <1>17 DEF ProcessExits
  <2>3. UNCHANGED <<at, memory, preview, disk, cancel, work, killed>>
    BY <1>17 DEF ProcessExits
  <2>. QED
    BY <2>1, <2>2, <2>3
<1>18. ASSUME NEW r \in Working, PreviewExits(r) PROVE LabTypeOK'
  BY <1>18 DEF PreviewExits
<1>19. ASSUME NEW r \in Working, CrashRun(r) PROVE LabTypeOK'
  BY <1>19 DEF CrashRun, Forgets
<1>20. ASSUME NEW r \in Working, CancelRead(r) PROVE LabTypeOK'
  BY <1>20 DEF CancelRead
<1>21. ASSUME NEW r \in Working, CancelKill(r) PROVE LabTypeOK'
  <2>1. /\ cancel' = [pc |-> "write", run |-> r, seen |-> Record("none", 0, 0)]
        /\ killed' \subseteq Runs /\ preview' \subseteq Runs
        /\ UNCHANGED <<at, memory, proc, disk, work, spoiled, unnamed>>
    BY <1>21 DEF CancelKill, NoCancel, Stopped
  <2>. QED
    BY <2>1 DEF Record, Records
<1>22. ASSUME NEW r \in Working, CancelWrite(r) PROVE LabTypeOK'
  BY <1>22 DEF CancelWrite, NoCancel, Record, Records
<1>23. ASSUME NEW r \in Runs, Elsewhere(r) PROVE LabTypeOK'
  BY <1>23 DEF Elsewhere
<1>24. CASE UNCHANGED labVars
  BY <1>24 DEF labVars
<1>. QED
  BY <1>1, <1>2, <1>3, <1>4, <1>5, <1>6, <1>7, <1>8, <1>9, <1>10, <1>11, <1>12, <1>13,
     <1>14, <1>15, <1>16, <1>17, <1>18, <1>19, <1>20, <1>21, <1>22, <1>23, <1>24
     DEF LabNext, Runner, Cancel

-----------------------------------------------------------------------------
\* A step leaves alone what belongs to a run, but perhaps for its lease.
SameBut(q) ==
  /\ at'[q] = at[q] /\ profiles'[q] = profiles[q] /\ steps'[q] = steps[q]
  /\ statuses'[q] = statuses[q] /\ listed'[q] = listed[q] /\ late'[q] = late[q]
  /\ proc'[q] = proc[q] /\ (q \in preview' <=> q \in preview)
  /\ disk'[q] = disk[q] /\ (q \in spoiled' <=> q \in spoiled)
  /\ unnamed'[q] = unnamed[q]

LEMMA OthersKept ==
  ASSUME NEW q \in Runs, Told(q), SameBut(q), q \in Working => pc'[q] = pc[q],
         cancel'.pc = "none" => cancel.pc = "none"
  PROVE  Told(q)'
<1>1. Placed(q)'
  BY DEF Told, Placed, SameBut, Free
<1>2. Named(q)'
  BY DEF Told, Named, SameBut
<1>3. Marked(q)'
  BY DEF Told, Marked, SameBut
<1>. QED
  BY <1>1, <1>2, <1>3 DEF Told

\* What the actions of a run may change of the leases.
LEMMA OwnLease ==
  ASSUME Inv, NEW r \in Runs, Acquire(r) \/ Release(r) \/ Crash(r)
  PROVE  /\ pc' = [pc EXCEPT ![r] = pc'[r]]
         /\ Acquire(r) \/ Release(r) => pc[r] # "dead" /\ pc'[r] # "dead"
  BY DEF Inv, TypeOK, Acquire, Release, Begin, Judge, Unlink, RemoveDir, Empty, Rmdir, Remake,
     Make, Write, Rename, Finish, Check, Delete, Drop, Crash, Step

\* What is told of the run that takes a step.
LEMMA OwnKept ==
  ASSUME LabIInv, NEW r \in Working,
         \/ Runner(r) \/ StepTimer(r) \/ CrashRun(r) \/ ProcessExits(r) \/ PreviewExits(r)
         \/ Cancel(r)
  PROVE  Told(r)'
<1>. DEFINE OwnTypes == /\ r \in Runs /\ profiles[r] \in Nat /\ steps[r] \in Nat
                        /\ listed[r] \in Nat
<1>0. OwnTypes /\ Told(r)
  BY LabAssumption DEF LabIInv, LabTypeOK
<1>. USE LabAssumption, <1>0 DEF LabIInv, LabTypeOK, Told, Placed, Named, Marked, Goes, Stays,
         Note, Spoil, Save, SaveAs, Record, Free, MayWork
<1>1. ASSUME Start(r) PROVE Told(r)'
  BY <1>1 DEF Start, memory, processes, notes, vars
<1>2. ASSUME BeginProfile(r) PROVE Told(r)'
  BY <1>2 DEF BeginProfile, processes, notes, vars
<1>3. ASSUME BlockedStep(r) PROVE Told(r)'
  BY <1>3 DEF BlockedStep, processes, vars
<1>4. ASSUME UseLease(r) PROVE Told(r)'
  <2>1. /\ pc'[r] # "dead" /\ at[r] \in {"profile", "throw"} /\ at'[r] \in {at[r], "throw"}
        /\ UNCHANGED <<profiles, steps, listed, late, proc, preview, cancel, unnamed>>
    BY <1>4, OwnLease DEF UseLease, processes
  <2>2. \/ disk'[r] = Record("running", 0, listed[r])
        \/ disk'[r] = disk[r]
    BY <1>4 DEF UseLease
  <2>3. /\ statuses'[r] \in {statuses[r], statuses[r] \cup {"blocked"}}
        /\ r \in spoiled' /\ r \notin spoiled => "blocked" \in statuses'[r] \/ at'[r] = "throw"
    BY <1>4 DEF UseLease
  <2>4. Placed(r)'
    BY <2>1
  <2>5. Named(r)'
    BY <2>1, <2>2
  <2>6. Marked(r)'
    BY <2>1, <2>2, <2>3
  <2>. QED
    BY <2>4, <2>5, <2>6
<1>5. ASSUME BeginStep(r) PROVE Told(r)'
  BY <1>5 DEF BeginStep, processes, notes, vars
<1>6. ASSUME Spawn(r) PROVE Told(r)'
  BY <1>6 DEF Spawn, memory, vars
<1>7. ASSUME SpawnFails(r) PROVE Told(r)'
  BY <1>7 DEF SpawnFails, processes, vars
<1>8. ASSUME SavePid(r) PROVE Told(r)'
  BY <1>8 DEF SavePid, memory, processes, vars
<1>9. ASSUME StepEnds(r) PROVE Told(r)'
  <2>1. /\ at[r] = "step" /\ at'[r] = "profile" /\ proc'[r] = "none" /\ proc[r] # "alive"
        /\ UNCHANGED <<profiles, steps, listed, preview, cancel, spoiled, unnamed, pc>>
        /\ disk'[r] = Record("running", 0, listed[r])
        /\ statuses'[r] = statuses[r] \cup {Verdict(r)}
    BY <1>9 DEF StepEnds, notes, vars
  <2>2. late[r] \/ proc[r] \in {"two", "other"} => Verdict(r) \in {"failed", "blocked"}
    BY DEF Verdict
  <2>3. Placed(r)'
    BY <2>1
  <2>4. Named(r)'
    BY <2>1
  <2>5. Marked(r)'
    BY <2>1, <2>2
  <2>. QED
    BY <2>3, <2>4, <2>5
<1>10. ASSUME StartPreview(r) PROVE Told(r)'
  BY <1>10 DEF StartPreview, memory, vars
<1>11. ASSUME PreviewUp(r) PROVE Told(r)'
  BY <1>11 DEF PreviewUp, processes, vars
<1>12. ASSUME PreviewFails(r) PROVE Told(r)'
  BY <1>12 DEF PreviewFails, Stopped, memory, vars
<1>13. ASSUME Catch(r) PROVE Told(r)'
  BY <1>13 DEF Catch, processes, notes, vars
<1>14. ASSUME EndProfile(r) PROVE Told(r)'
  BY <1>14 DEF EndProfile, Stopped, notes, vars
<1>15. ASSUME EndRun(r) PROVE Told(r)'
  BY <1>15 DEF EndRun, Forgets, FinalRunState, Statuses, processes, notes, vars
<1>16. ASSUME StepTimer(r) PROVE Told(r)'
  BY <1>16 DEF StepTimer, processes, vars
<1>17. ASSUME ProcessExits(r) PROVE Told(r)'
  <2>1. /\ proc[r] = "alive" /\ proc'[r] \in {"none", "zero", "two", "other"}
        /\ at[r] = "dead" \/ r \in spoiled' <=> (r \in spoiled \/ proc'[r] # "zero")
        /\ proc'[r] = "none" => at[r] = "dead"
        /\ "preview" \in unnamed'[r] <=> "preview" \in unnamed[r]
        /\ UNCHANGED <<at, profiles, steps, statuses, listed, late, preview, disk, cancel, pc>>
    BY <1>17 DEF ProcessExits, memory, vars
  <2>2. at[r] \in {"started", "step", "dead"}
    BY <2>1
  <2>3. Placed(r)'
    BY <2>1, <2>2
  <2>4. Named(r)'
    BY <2>1, <2>2
  <2>5. Marked(r)'
    BY <2>1, <2>2
  <2>. QED
    BY <2>3, <2>4, <2>5
<1>18. ASSUME PreviewExits(r) PROVE Told(r)'
  BY <1>18 DEF PreviewExits, memory, vars
<1>19. ASSUME CrashRun(r) PROVE Told(r)'
  BY <1>19 DEF CrashRun, Forgets, processes, notes
<1>20. ASSUME Cancel(r) PROVE Told(r)'
  <2>1. CASE CancelRead(r)
    BY <2>1 DEF CancelRead, memory, processes, notes, vars
  <2>2. CASE CancelKill(r)
    BY <2>2 DEF CancelKill, NoCancel, Stopped, memory, vars
  <2>3. CASE CancelWrite(r)
    BY <2>3 DEF CancelWrite, NoCancel, memory, processes, notes, vars
  <2>. QED
    BY <1>20, <2>1, <2>2, <2>3 DEF Cancel
<1>. QED
  BY <1>1, <1>2, <1>3, <1>4, <1>5, <1>6, <1>7, <1>8, <1>9, <1>10, <1>11, <1>12, <1>13,
     <1>14, <1>15, <1>16, <1>17, <1>18, <1>19, <1>20 DEF Runner

\* A step of a run leaves the others alone.
LEMMA OthersSame ==
  ASSUME LabIInv, NEW r \in Working, NEW q \in Runs \ {r},
         \/ Runner(r) \/ StepTimer(r) \/ CrashRun(r) \/ ProcessExits(r) \/ PreviewExits(r)
         \/ Cancel(r)
  PROVE  SameBut(q) /\ pc'[q] = pc[q] /\ (cancel'.pc = "none" => cancel.pc = "none")
<1>. USE LabAssumption DEF LabIInv, LabTypeOK, SameBut, Goes, Stays, Note, Spoil, Save, SaveAs,
         memory, processes, notes, vars
<1>. DEFINE Goal == /\ SameBut(q) /\ pc'[q] = pc[q]
                    /\ cancel'.pc = "none" => cancel.pc = "none"
<1>1. ASSUME Start(r) \/ BeginProfile(r) \/ BlockedStep(r) \/ BeginStep(r) PROVE Goal
  BY <1>1 DEF Start, BeginProfile, BlockedStep, BeginStep
<1>2. ASSUME UseLease(r) PROVE Goal
  <2>1. pc'[q] = pc[q]
    BY <1>2, OwnLease DEF UseLease, Inv, TypeOK
  <2>2. /\ statuses'[q] = statuses[q] /\ disk'[q] = disk[q] /\ at'[q] = at[q]
        /\ q \in spoiled' <=> q \in spoiled
    BY <1>2 DEF UseLease
  <2>3. UNCHANGED <<profiles, steps, listed, late, proc, preview, cancel, unnamed>>
    BY <1>2 DEF UseLease
  <2>. QED
    BY <2>1, <2>2, <2>3
<1>3. ASSUME Spawn(r) \/ SpawnFails(r) \/ SavePid(r) \/ StepEnds(r) PROVE Goal
  BY <1>3 DEF Spawn, SpawnFails, SavePid, StepEnds
<1>4. ASSUME StartPreview(r) \/ PreviewUp(r) \/ PreviewFails(r) PROVE Goal
  BY <1>4 DEF StartPreview, PreviewUp, PreviewFails, Stopped
<1>5. ASSUME Catch(r) \/ EndProfile(r) \/ EndRun(r) PROVE Goal
  BY <1>5 DEF Catch, EndProfile, EndRun, Forgets, Stopped
<1>6. ASSUME StepTimer(r) \/ PreviewExits(r) PROVE Goal
  BY <1>6 DEF StepTimer, PreviewExits
<1>7. ASSUME ProcessExits(r) PROVE Goal
  BY <1>7 DEF ProcessExits
<1>8. ASSUME CrashRun(r) PROVE Goal
  <2>1. pc' = pc \/ pc' = [pc EXCEPT ![r] = "dead"]
    BY <1>8 DEF CrashRun, Crash
  <2>2. pc'[q] = pc[q]
    BY <2>1 DEF Inv, TypeOK
  <2>. QED
    BY <1>8, <2>2 DEF CrashRun, Forgets
<1>9. ASSUME Cancel(r) PROVE Goal
  BY <1>9 DEF Cancel, CancelRead, CancelKill, CancelWrite, NoCancel, Stopped
<1>. QED
  BY <1>1, <1>2, <1>3, <1>4, <1>5, <1>6, <1>7, <1>8, <1>9 DEF Runner

LEMMA ToldKept ==
  LabIInv /\ [LabNext]_<<vars, labVars>> => (\A q \in Runs : Told(q))'
<1>. SUFFICES ASSUME LabIInv, [LabNext]_<<vars, labVars>>, NEW q \in Runs PROVE Told(q)'
  OBVIOUS
<1>0. Told(q)
  BY DEF LabIInv
<1>1. ASSUME NEW r \in Working,
             \/ Runner(r) \/ StepTimer(r) \/ CrashRun(r) \/ ProcessExits(r) \/ PreviewExits(r)
             \/ Cancel(r)
      PROVE  Told(q)'
  <2>1. CASE q = r
    BY <1>1, <2>1, OwnKept
  <2>2. CASE q # r
    <3>1. SameBut(q) /\ pc'[q] = pc[q] /\ (cancel'.pc = "none" => cancel.pc = "none")
      BY <1>1, <2>2, OthersSame
    <3>. QED
      BY <1>0, <3>1, OthersKept
  <2>. QED
    BY <2>1, <2>2
<1>2. ASSUME NEW r \in Runs \ Working, Elsewhere(r) PROVE Told(q)'
  <2>1. SameBut(q) /\ UNCHANGED cancel
    BY <1>2 DEF Elsewhere, SameBut, memory, processes, notes
  <2>2. q \in Working => pc'[q] = pc[q]
    BY <1>2, OwnLease DEF Elsewhere, LabIInv, Inv, TypeOK
  <2>. QED
    BY <1>0, <2>1, <2>2, OthersKept
<1>3. CASE Expire /\ UNCHANGED labVars
  BY <1>0, <1>3, OthersKept DEF Expire, SameBut, labVars, memory, processes, notes
<1>4. CASE UNCHANGED <<vars, labVars>>
  BY <1>0, <1>4, OthersKept DEF SameBut, vars, labVars, memory, processes, notes
<1>. QED
  BY <1>1, <1>2, <1>3, <1>4 DEF LabNext

LEMMA IInvHolds == LabSpec => []LabIInv
<1>1. LabIInv /\ [LabNext]_<<vars, labVars>> => LabIInv'
  <2>1. Inv /\ [LabNext]_<<vars, labVars>> => Inv'
    BY LabStepIsLeaseStep, InvKept
  <2>. QED
    BY <2>1, TypesKept, ToldKept DEF LabIInv
<1>. QED
  BY <1>1, InitHolds, PTL DEF LabSpec

\* However runs, their processes, exceptions, kills and a cancel meet, a run that
\* ended in order has no process of a step, no preview that was not told to end
\* and no lease, and does not stand as running (runProfile, cancelCommand).
THEOREM EndedRunsAreClean == LabSpec => []LabInv
<1>1. LabIInv => LabInv
  <2>. SUFFICES ASSUME LabIInv PROVE LabInv
    OBVIOUS
  <2>1. ASSUME NEW r \in Runs, at[r] = "ended"
        PROVE  /\ proc[r] # "alive" /\ r \notin preview /\ lease # r
               /\ disk[r].status # "running"
    <3>1. Placed(r) /\ r \in Working
      BY <2>1 DEF LabIInv, Told, Placed
    <3>2. lease # r
      BY <2>1, <3>1, NoRunAssumption DEF LabIInv, Placed, Inv, EndedLeavesNoLease, Free,
         Holding, Acquiring, Removing
    <3>. QED
      BY <2>1, <3>1, <3>2 DEF Placed
  <2>. QED
    BY <2>1 DEF LabIInv, LabInv, EndedLeavesNothing
<1>. QED
  BY <1>1, IInvHolds, PTL

\* A run.json that says passed is of a run that had a step, and in which no step,
\* preview or acquisition went wrong, whatever a cancel or a kill did meanwhile
\* (runCommand, step and finalRunState).
THEOREM PassedMeansEarned == LabSpec => []PassedIsEarned
<1>1. LabIInv => PassedIsEarned
  BY DEF LabIInv, Told, Marked, PassedIsEarned
<1>. QED
  BY <1>1, IInvHolds, PTL

\* What a first cancel must stop is named in the file it reads (save() of
\* runProfile) but for the moments in which its number is not yet written, also
\* when the runner was killed and left it behind.
THEOREM CancelFindsWhatRuns == LabSpec => []CancelFindsAll
<1>1. LabIInv => CancelFindsAll
  BY DEF LabIInv, Told, Named, CancelFindsAll
<1>. QED
  BY <1>1, IInvHolds, PTL

\* What is proved of the lease holds of the lab: as long as no two runs met at
\* the directory, one run has the device, but for those that outstayed their
\* lease (acquireLease, releaseLease).
COROLLARY LabHolderIsAlone == LabSpec => []HolderIsAlone
  BY LabImplementsLease, Exclusion, PTL
=============================================================================
