----------------------------- MODULE PageProofs -----------------------------
(***************************************************************************)
(* Proofs about the two ends of a backend and the contract between them:   *)
(* what the contract of ApplicationApi implies for its user, the page that *)
(* is its user (DemoUi), and the worker that does the work (CoreWorker).   *)
(* The three share nothing; each has a section of its own.                 *)
(***************************************************************************)
EXTENDS ApplicationApi, DemoUi, CoreWorker, SequenceTheorems, FiniteSetTheorems, TLAPS

(***************************************************************************)
(* The contract.  BrowserBackendProofs and TauriBackendProofs show that    *)
(* the backends implement it, so what is proved here holds for them.       *)
(***************************************************************************)

(* The cause is saved exactly when the instance has ended, the factory     *)
(* waits exactly while it is being created.                                *)
Contract ==
  /\ phase \in {"creating", "ready", "failed", "disposed"}
  /\ DOMAIN answer = Calls
  /\ cause = "none" <=> phase \in {"creating", "ready"}
  /\ cause # "waiting"
  /\ factory = "waiting" <=> phase = "creating"
  /\ phase = "creating" => \A c \in Calls : answer[c] = "none"
  /\ NobodyWaitsAfterTheEnd

LEMMA ContractInit == ApiInit => Contract
  BY DEF ApiInit, Contract, NobodyWaitsAfterTheEnd

LEMMA ContractStep == Contract /\ [ApiNext]_apiVars => Contract'
<1>. SUFFICES ASSUME Contract, [ApiNext]_apiVars PROVE Contract'
  OBVIOUS
<1>. USE DEF Contract, NobodyWaitsAfterTheEnd, Waiting
<1>1. CASE FactorySucceeds
  BY <1>1 DEF FactorySucceeds
<1>2. ASSUME NEW code \in Fatal, FactoryFails(code) PROVE Contract'
  BY <1>2 DEF FactoryFails, Fatal
<1>3. ASSUME NEW c \in Calls, Accept(c) \/ Refuse(c) \/ Answer(c) PROVE Contract'
  <2>1. CASE Accept(c)
    BY <2>1 DEF Accept
  <2>2. CASE Refuse(c)
    BY <2>2 DEF Refuse
  <2>3. CASE Answer(c)
    BY <2>3 DEF Answer, Single
  <2>. QED
    BY <1>3, <2>1, <2>2, <2>3
<1>4. ASSUME NEW new, NEW code \in Fatal, Break(new, code) PROVE Contract'
  BY <1>4 DEF Break, Fatal
<1>5. CASE DisposeInstance
  BY <1>5 DEF DisposeInstance
<1>6. CASE UNCHANGED apiVars
  BY <1>6 DEF apiVars
<1>. QED
  BY <1>1, <1>2, <1>3, <1>4, <1>5, <1>6 DEF ApiNext

LEMMA ContractHolds == ApiSpec => []Contract
  BY ContractInit, ContractStep, PTL DEF ApiSpec

(* No caller and no factory waits for an instance that failed or was       *)
(* disposed (the lifecycle of docs/plan/04-contracts.md).                  *)
THEOREM NobodyWaits == ApiSpec => []NobodyWaitsAfterTheEnd
<1>1. Contract => NobodyWaitsAfterTheEnd
  BY DEF Contract
<1>. QED
  BY <1>1, ContractHolds, PTL

(* A promise of getInfo, transform or the factory is settled once: neither *)
(* a failure nor dispose tells an answered caller something else.          *)
THEOREM AnswersAreFinal == ApiSpec => AnsweredOnce
<1>1. ASSUME Contract, [ApiNext]_apiVars
      PROVE  /\ \A c \in Calls :
                  answer[c] \notin {"none", "waiting"} => answer'[c] = answer[c]
             /\ factory # "waiting" => factory' = factory
  <2>. USE <1>1 DEF Contract, Waiting
  <2>1. CASE FactorySucceeds \/ DisposeInstance \/ UNCHANGED apiVars
    BY <2>1 DEF FactorySucceeds, DisposeInstance, apiVars
  <2>2. CASE \E code \in Fatal : FactoryFails(code)
    BY <2>2 DEF FactoryFails
  <2>3. CASE \E c \in Calls : Accept(c) \/ Refuse(c) \/ Answer(c)
    BY <2>3 DEF Accept, Refuse, Answer
  <2>4. CASE \E code \in Fatal : Break({}, code)
    BY <2>4 DEF Break
  <2>5. CASE \E c \in Calls, code \in Fatal : answer[c] = "none" /\ Break({c}, code)
    BY <2>5 DEF Break
  <2>. QED
    BY <2>1, <2>2, <2>3, <2>4, <2>5 DEF ApiNext
<1>2. Contract /\ [ApiNext]_apiVars =>
        [/\ \A c \in Calls :
              answer[c] \notin {"none", "waiting"} => answer'[c] = answer[c]
         /\ factory # "waiting" => factory' = factory]_apiVars
  BY <1>1
<1>. QED
  BY <1>2, ContractHolds, PTL DEF ApiSpec, AnsweredOnce

-----------------------------------------------------------------------------
(***************************************************************************)
(* The page.  The invariant says which generation every pending setup and  *)
(* task belongs to.                                                        *)
(***************************************************************************)
Statuses == {"creating", "live", "failed", "disposed"}
Count == Cardinality(Instances)

(* The instances are numbered in the order they were created.              *)
Numbered == Count \in Nat /\ Instances = 1 .. Count

(* A setup waits for the factory exactly while its instance is being       *)
(* created; the current setup is that of the instance held; the instance   *)
(* of a setup whose generation has gone is not alive; no two setups share  *)
(* an instance or a generation.                                            *)
SetupsOfInstances ==
  /\ \A s \in setups :
       /\ s.step = "factory" <=> Creating(s.inst)
       /\ IsCurrent(s) => backend = (IF s.step = "factory" THEN 0 ELSE s.inst)
       /\ s.step = "info" /\ ~IsCurrent(s) => ~Live(s.inst)
  /\ \A s, r \in setups : s.inst = r.inst => s = r
  /\ \A s, r \in setups : s.gen = r.gen => s = r

(* A generation is used by one task or by one setup, and the busy flag     *)
(* says that the current one is used by a task.                            *)
TasksOfGenerations ==
  /\ \A t \in tasks : ~Creating(t.inst)
  /\ \A t, u \in tasks : t.gen = u.gen => t = u
  /\ \A t \in tasks, s \in setups : t.gen # s.gen
  /\ busy <=> \E t \in tasks : IsCurrent(t)

(* The instance the page holds was made and not disposed.                  *)
BackendIsAlive == backend # 0 => instance[backend] \in {"live", "failed"}

(* What every turn of the page keeps.  NoInstanceForgotten needs the       *)
(* setups of older generations: theirs are the factories that may still    *)
(* make an instance.                                                       *)
PageInv ==
  /\ TypeOK
  /\ Numbered
  /\ SetupsOfInstances
  /\ TasksOfGenerations
  /\ BackendIsAlive
  /\ NoInstanceForgotten
  /\ InitializingIsCurrent
  /\ ReadyHoldsBackend
  /\ ButtonsTruthful

(* The types, spelled out.                                                 *)
LEMMA Typed ==
  ASSUME TypeOK, Numbered
  PROVE  /\ generation \in Nat /\ generation >= 1 /\ generation <= MaxGeneration
         /\ MaxGeneration \in Nat
         /\ backend \in Nat /\ (backend # 0 => backend \in Instances)
         /\ instance = [i \in Instances |-> instance[i]]
         /\ \A i \in Instances : i \in Nat /\ i # 0 /\ instance[i] \in Statuses
         /\ \A s \in setups : /\ s.gen \in 1 .. generation /\ s.inst \in Instances
                              /\ s.step \in {"factory", "info"}
                              /\ s = Setup(s.gen, s.inst, s.step)
         /\ \A t \in tasks : t.gen \in 1 .. generation /\ t.inst \in Instances
  BY UiAssumption DEF TypeOK, Numbered, MaxGeneration, Statuses, Setup

(* Boot starts the first setup.                                            *)
LEMMA PageStart == Init => PageInv
<1>. SUFFICES ASSUME Init PROVE PageInv
  OBVIOUS
<1>1. Instances = {1} /\ {1} = 1..1
  BY DEF Init, Instances
<1>2. Count = 1
  BY <1>1, FS_Singleton DEF Count
<1>3. Numbered
  BY <1>1, <1>2 DEF Numbered
<1>4. TypeOK
  <2>1. generation \in 1 .. MaxGeneration /\ shown \in 0 .. generation
    BY UiAssumption DEF Init, MaxGeneration
  <2>2. instance \in [Instances -> Statuses]
    BY <1>1 DEF Init, Statuses
  <2>3. setups \subseteq [gen : 1 .. generation, inst : Instances, step : {"factory", "info"}]
    BY <1>1 DEF Init, Setup
  <2>. QED
    BY <1>1, <2>1, <2>2, <2>3 DEF TypeOK, Init, Statuses
<1>5. SetupsOfInstances /\ TasksOfGenerations
  BY DEF Init, SetupsOfInstances, TasksOfGenerations, Setup, IsCurrent, Creating, Live
<1>6. BackendIsAlive /\ NoInstanceForgotten /\ ReadyHoldsBackend /\ ButtonsTruthful
  BY <1>1 DEF Init, BackendIsAlive, NoInstanceForgotten, ReadyHoldsBackend, ButtonsTruthful, Live
<1>7. InitializingIsCurrent
  BY DEF Init, InitializingIsCurrent, Setup, IsCurrent
<1>. QED
  BY <1>3, <1>4, <1>5, <1>6, <1>7 DEF PageInv

(* The instances stay the same in number.                                  *)
LEMMA SameInstances ==
  ASSUME Numbered, DOMAIN instance' = DOMAIN instance
  PROVE  Numbered' /\ Instances' = Instances
  BY DEF Numbered, Count, Instances

(* createBackend resolves: the instance is held, or disposed when it comes *)
(* too late.                                                               *)
LEMMA CreationSucceedsKeeps ==
  ASSUME PageInv, NEW s \in setups, CreationSucceeds(s)
  PROVE  PageInv'
<1>. USE DEF CreationSucceeds
<1>1. TypeOK /\ Numbered /\ SetupsOfInstances /\ TasksOfGenerations
  BY DEF PageInv
<1>2. s.inst \in Instances /\ s.gen \in 1 .. generation /\ Creating(s.inst)
  BY <1>1, Typed DEF SetupsOfInstances
<1>3. Instances' = Instances /\ Numbered'
  BY <1>1, SameInstances DEF Instances
<1>4. /\ \A i \in Instances : i # s.inst => instance'[i] = instance[i]
      /\ instance'[s.inst] = IF IsCurrent(s) THEN "live" ELSE "disposed"
      /\ instance' \in [Instances -> Statuses]
  BY <1>1, <1>2 DEF TypeOK, Statuses
<1>. DEFINE r == Setup(s.gen, s.inst, "info")
<1>5. r.gen = s.gen /\ r.inst = s.inst /\ r.step = "info"
  BY DEF Setup
<1>6. setups' = (setups \ {s}) \cup (IF IsCurrent(s) THEN {r} ELSE {})
  OBVIOUS
<1>7. TypeOK'
  BY <1>1, <1>2, <1>3, <1>4 DEF TypeOK, Setup, Statuses
<1>8. backend' = IF IsCurrent(s) THEN s.inst ELSE backend
  OBVIOUS
<1>9. UNCHANGED <<generation, uiState, busy, runEnabled, reinitEnabled, shown, tasks>>
  OBVIOUS
<1>. HIDE DEF CreationSucceeds, r
<1>10. SetupsOfInstances'
  BY <1>1, <1>2, <1>4, <1>5, <1>6, <1>8, <1>9, Typed
     DEF SetupsOfInstances, IsCurrent, Creating, Live
<1>11. TasksOfGenerations'
  BY <1>1, <1>2, <1>4, <1>5, <1>6, <1>9, Typed
     DEF TasksOfGenerations, SetupsOfInstances, IsCurrent, Creating
<1>12. BackendIsAlive'
  BY <1>1, <1>2, <1>4, <1>8, Typed DEF PageInv, BackendIsAlive, Creating
<1>13. NoInstanceForgotten'
  BY <1>1, <1>2, <1>3, <1>4, <1>8, Typed
     DEF PageInv, NoInstanceForgotten, SetupsOfInstances, IsCurrent, Live, Creating
<1>14. InitializingIsCurrent'
  BY <1>5, <1>6, <1>9 DEF PageInv, InitializingIsCurrent, IsCurrent
<1>15. ReadyHoldsBackend'
  BY <1>1, <1>2, <1>4, <1>8, <1>9, <1>12, Typed DEF PageInv, ReadyHoldsBackend, BackendIsAlive
<1>16. ButtonsTruthful'
  BY <1>9 DEF PageInv, ButtonsTruthful
<1>. QED
  BY <1>3, <1>7, <1>10, <1>11, <1>12, <1>13, <1>14, <1>15, <1>16 DEF PageInv

(* A setup that ends, with an instance or without one.                     *)
LEMMA SetupEnds ==
  ASSUME PageInv, NEW s \in setups,
         setups' = setups \ {s},
         UNCHANGED <<generation, backend, busy, shown, tasks>>,
         instance' \in [Instances -> Statuses],
         \A i \in Instances : i # s.inst => instance'[i] = instance[i],
         Live(s.inst)' => Live(s.inst),
         ~Creating(s.inst)',
         backend = s.inst => instance'[s.inst] \in {"live", "failed"},
         IF IsCurrent(s)
         THEN /\ uiState' \in {"ready", "failed"}
              /\ uiState' = "ready" => s.step = "info"
              /\ SetButtonsEnabled(uiState', busy)
         ELSE UNCHANGED <<uiState, runEnabled, reinitEnabled>>
  PROVE  PageInv'
<1>1. TypeOK /\ Numbered /\ SetupsOfInstances /\ TasksOfGenerations
  BY DEF PageInv
<1>2. s.inst \in Instances /\ s.gen \in 1 .. generation
  BY <1>1, Typed
<1>3. Instances' = Instances /\ Numbered'
  BY <1>1, SameInstances DEF Instances
<1>4. instance'[s.inst] \in Statuses /\ instance'[s.inst] # "creating"
  BY <1>2 DEF Creating
<1>5. TypeOK'
  BY <1>1, <1>3 DEF TypeOK, Statuses, SetButtonsEnabled
<1>6. SetupsOfInstances'
  BY <1>1, <1>2, <1>4, Typed DEF SetupsOfInstances, IsCurrent, Creating, Live
<1>7. TasksOfGenerations'
  BY <1>1, <1>2, <1>4, Typed DEF TasksOfGenerations, IsCurrent, Creating
<1>8. BackendIsAlive'
  BY <1>1, <1>2, Typed DEF PageInv, BackendIsAlive
<1>9. NoInstanceForgotten'
  BY <1>1, <1>2, <1>3 DEF PageInv, NoInstanceForgotten, Live
<1>10. InitializingIsCurrent'
  <2>1. CASE IsCurrent(s)
    <3>1. \A x \in setups' : ~IsCurrent(x)
      BY <1>1, <2>1 DEF SetupsOfInstances, IsCurrent
    <3>. QED
      BY <2>1, <3>1 DEF InitializingIsCurrent, IsCurrent
  <2>2. CASE ~IsCurrent(s)
    BY <2>2 DEF PageInv, InitializingIsCurrent, IsCurrent
  <2>. QED
    BY <2>1, <2>2
<1>11. ReadyHoldsBackend'
  <2>1. CASE IsCurrent(s)
    <3>1. uiState' = "ready" => backend = s.inst /\ s.inst # 0
      BY <1>1, <1>2, <2>1, Typed DEF SetupsOfInstances
    <3>. QED
      BY <3>1, <1>8 DEF ReadyHoldsBackend, BackendIsAlive
  <2>2. CASE ~IsCurrent(s)
    BY <1>8, <2>2 DEF PageInv, ReadyHoldsBackend, BackendIsAlive
  <2>. QED
    BY <2>1, <2>2
<1>12. ButtonsTruthful'
  BY DEF PageInv, ButtonsTruthful, SetButtonsEnabled
<1>. QED
  BY <1>3, <1>5, <1>6, <1>7, <1>8, <1>9, <1>10, <1>11, <1>12 DEF PageInv

(* createBackend rejects.                                                  *)
LEMMA CreationFailsKeeps ==
  ASSUME PageInv, NEW s \in setups, CreationFails(s)
  PROVE  PageInv'
<1>1. TypeOK /\ Numbered /\ SetupsOfInstances /\ BackendIsAlive
  BY DEF PageInv
<1>2. s.inst \in Instances /\ Creating(s.inst)
  BY <1>1, Typed DEF SetupsOfInstances, CreationFails
<1>3. /\ \A i \in Instances : i # s.inst => instance'[i] = instance[i]
      /\ instance'[s.inst] = "failed"
      /\ instance' \in [Instances -> Statuses]
  BY <1>1, <1>2 DEF TypeOK, Statuses, CreationFails
<1>4. IF IsCurrent(s)
      THEN uiState' = "failed" /\ SetButtonsEnabled(uiState', busy)
      ELSE UNCHANGED <<uiState, runEnabled, reinitEnabled>>
  BY DEF CreationFails
<1>5. setups' = setups \ {s} /\ UNCHANGED <<generation, backend, busy, shown, tasks>>
  BY DEF CreationFails
<1>. QED
  BY <1>2, <1>3, <1>4, <1>5, SetupEnds DEF Live, Creating

(* An answered getInfo belongs to the instance the page holds now.         *)
LEMMA InfoIsCurrent ==
  ASSUME PageInv, NEW s \in setups, s.step = "info", Live(s.inst)
  PROVE  IsCurrent(s)
  BY DEF PageInv, SetupsOfInstances

(* getInfo is answered.                                                    *)
LEMMA InfoArrivesKeeps ==
  ASSUME PageInv, NEW s \in setups, InfoArrives(s)
  PROVE  PageInv'
<1>1. TypeOK /\ Numbered
  BY DEF PageInv
<1>2. IsCurrent(s)
  BY InfoIsCurrent DEF InfoArrives
<1>3. s.step = "info" /\ Live(s.inst) /\ uiState' = "ready" /\ SetButtonsEnabled(uiState', busy)
  BY DEF InfoArrives
<1>4. UNCHANGED instance /\ instance \in [Instances -> Statuses]
  BY <1>1 DEF InfoArrives, TypeOK, Statuses
<1>5. setups' = setups \ {s} /\ UNCHANGED <<generation, backend, busy, shown, tasks>>
  BY DEF InfoArrives
<1>. QED
  BY <1>2, <1>3, <1>4, <1>5, SetupEnds DEF Live, Creating

(* getInfo is rejected.                                                    *)
LEMMA InfoFailsKeeps ==
  ASSUME PageInv, NEW s \in setups, InfoFails(s)
  PROVE  PageInv'
<1>1. TypeOK /\ Numbered /\ SetupsOfInstances /\ BackendIsAlive
  BY DEF PageInv
<1>2. s.inst \in Instances /\ ~Creating(s.inst)
  BY <1>1, Typed DEF SetupsOfInstances, InfoFails
<1>3. /\ \A i \in Instances : i # s.inst => instance'[i] = instance[i]
      /\ instance'[s.inst] = IF Live(s.inst) THEN "failed" ELSE instance[s.inst]
      /\ instance' \in [Instances -> Statuses]
  BY <1>1, <1>2 DEF TypeOK, Statuses, InfoFails
<1>4. IF IsCurrent(s)
      THEN uiState' = "failed" /\ SetButtonsEnabled(uiState', busy)
      ELSE UNCHANGED <<uiState, runEnabled, reinitEnabled>>
  BY DEF InfoFails
<1>5. setups' = setups \ {s} /\ UNCHANGED <<generation, backend, busy, shown, tasks>>
  BY DEF InfoFails
<1>6. backend = s.inst => instance[s.inst] \in {"live", "failed"}
  BY <1>1, <1>2, Typed DEF BackendIsAlive
<1>. QED
  BY <1>2, <1>3, <1>4, <1>5, <1>6, SetupEnds DEF Live, Creating

(* An instance may have broken, and a task may have ended.                 *)
LEMMA TaskEnds ==
  ASSUME PageInv, NEW t \in tasks,
         tasks' = tasks \ {t},
         UNCHANGED <<generation, backend, setups>>,
         instance' \in [Instances -> Statuses],
         \A i \in Instances : instance'[i] = instance[i] \/ (Live(i) /\ instance'[i] = "failed"),
         shown' \in 0 .. generation,
         uiState' = uiState \/ (IsCurrent(t) /\ uiState' = "failed"),
         IF IsCurrent(t)
         THEN busy' = FALSE /\ SetButtonsEnabled(uiState', FALSE)
         ELSE UNCHANGED <<busy, runEnabled, reinitEnabled>>
  PROVE  PageInv'
<1>1. TypeOK /\ Numbered /\ SetupsOfInstances /\ TasksOfGenerations
  BY DEF PageInv
<1>2. Instances' = Instances /\ Numbered'
  BY <1>1, SameInstances DEF Instances
<1>3. TypeOK'
  BY <1>1, <1>2 DEF TypeOK, Statuses, SetButtonsEnabled
<1>4. SetupsOfInstances'
  BY <1>1, Typed DEF SetupsOfInstances, IsCurrent, Creating, Live
<1>5. TasksOfGenerations'
  BY <1>1, Typed DEF TasksOfGenerations, IsCurrent, Creating, Live
<1>6. BackendIsAlive'
  BY <1>1, Typed DEF PageInv, BackendIsAlive, Live
<1>7. NoInstanceForgotten'
  BY <1>1, <1>2 DEF PageInv, NoInstanceForgotten, Live
<1>8. IsCurrent(t) => uiState # "initializing"
  <2>1. \A s \in setups : s.gen # t.gen
    BY <1>1 DEF TasksOfGenerations
  <2>. QED
    BY <2>1 DEF PageInv, InitializingIsCurrent, IsCurrent
<1>9. InitializingIsCurrent'
  BY <1>8 DEF PageInv, InitializingIsCurrent, IsCurrent
<1>10. ReadyHoldsBackend'
  BY <1>6 DEF PageInv, ReadyHoldsBackend, BackendIsAlive
<1>11. ButtonsTruthful'
  BY DEF PageInv, ButtonsTruthful, SetButtonsEnabled
<1>. QED
  BY <1>2, <1>3, <1>4, <1>5, <1>6, <1>7, <1>9, <1>10, <1>11 DEF PageInv

(* The statuses a step of a task leaves.                                   *)
LEMMA Failed ==
  ASSUME TypeOK, NEW i \in Instances,
         instance' = [instance EXCEPT ![i] = IF Live(i) THEN "failed" ELSE @]
  PROVE  /\ instance' \in [Instances -> Statuses]
         /\ \A j \in Instances : instance'[j] = instance[j] \/ (Live(j) /\ instance'[j] = "failed")
  BY DEF TypeOK, Statuses, Live

(* Every end of a run or of a self-test.                                   *)
LEMMA TaskStepKeeps ==
  ASSUME PageInv, NEW t \in tasks, TaskStep(t)
  PROVE  PageInv'
<1>1. TypeOK /\ Numbered /\ t.inst \in Instances
  BY Typed DEF PageInv
<1>2. generation \in Nat /\ shown \in 0 .. generation /\ instance \in [Instances -> Statuses]
  BY <1>1, Typed DEF TypeOK, Statuses
<1>3. CASE RunSucceeds(t)
  <2>1. shown' \in 0 .. generation
    BY <1>2, <1>3 DEF RunSucceeds
  <2>2. UNCHANGED <<generation, backend, uiState, instance, setups>> /\ EndTask(t, uiState)
    BY <1>3 DEF RunSucceeds
  <2>. QED
    BY <1>2, <2>1, <2>2, TaskEnds DEF EndTask
<1>4. CASE RunRejected(t)
  <2>1. shown' \in 0 .. generation
    BY <1>2, <1>4 DEF RunRejected
  <2>2. UNCHANGED <<generation, backend, uiState, instance, setups>> /\ EndTask(t, uiState)
    BY <1>4 DEF RunRejected
  <2>. QED
    BY <1>2, <2>1, <2>2, TaskEnds DEF EndTask
<1>5. ASSUME NEW code \in FatalKinds, RunFatal(t, code)
      PROVE  PageInv'
  <2>1. /\ instance' \in [Instances -> Statuses]
        /\ \A j \in Instances : instance'[j] = instance[j] \/ (Live(j) /\ instance'[j] = "failed")
    BY <1>1, <1>5, Failed DEF RunFatal
  <2>2. /\ shown' \in 0 .. generation
        /\ uiState' = uiState \/ (IsCurrent(t) /\ uiState' = "failed")
    BY <1>2, <1>5 DEF RunFatal
  <2>3. EndTask(t, uiState') /\ UNCHANGED <<generation, backend, setups>>
    BY <1>5 DEF RunFatal
  <2>. QED
    BY <2>1, <2>2, <2>3, TaskEnds DEF EndTask
<1>6. CASE SelfTestEnds(t)
  <2>1. /\ instance' \in [Instances -> Statuses]
        /\ \A j \in Instances : instance'[j] = instance[j] \/ (Live(j) /\ instance'[j] = "failed")
    BY <1>1, <1>2, <1>6 DEF SelfTestEnds, Live, Statuses
  <2>2. /\ shown' = shown /\ uiState' = uiState
        /\ UNCHANGED <<generation, backend, setups>>
        /\ EndTask(t, uiState)
    BY <1>6 DEF SelfTestEnds
  <2>. QED
    BY <1>2, <2>1, <2>2, TaskEnds DEF EndTask
<1>. QED
  BY <1>3, <1>4, <1>5, <1>6 DEF TaskStep

(* A broken instance changes nothing the page knows.                       *)
LEMMA InstanceBreaksKeeps ==
  ASSUME PageInv, NEW i \in Instances, InstanceBreaks(i)
  PROVE  PageInv'
<1>1. TypeOK /\ Numbered /\ SetupsOfInstances /\ TasksOfGenerations
  BY DEF PageInv
<1>2. /\ instance' \in [Instances -> Statuses]
      /\ \A j \in Instances : instance'[j] = instance[j] \/ (Live(j) /\ instance'[j] = "failed")
  BY <1>1 DEF InstanceBreaks, TypeOK, Live, Statuses
<1>3. Instances' = Instances /\ Numbered'
  BY <1>1, <1>2, SameInstances DEF Instances
<1>4. UNCHANGED <<generation, backend, uiState, busy, runEnabled, reinitEnabled,
                  shown, setups, tasks>>
  BY DEF InstanceBreaks
<1>5. TypeOK'
  BY <1>1, <1>2, <1>3, <1>4 DEF TypeOK, Statuses
<1>6. SetupsOfInstances'
  BY <1>1, <1>2, <1>4, Typed DEF SetupsOfInstances, IsCurrent, Creating, Live
<1>7. TasksOfGenerations'
  BY <1>1, <1>2, <1>4, Typed DEF TasksOfGenerations, IsCurrent, Creating, Live
<1>8. BackendIsAlive' /\ ReadyHoldsBackend'
  BY <1>1, <1>2, <1>4, Typed DEF PageInv, BackendIsAlive, ReadyHoldsBackend, Live
<1>9. NoInstanceForgotten'
  BY <1>2, <1>3, <1>4 DEF PageInv, NoInstanceForgotten, Live
<1>10. InitializingIsCurrent' /\ ButtonsTruthful'
  BY <1>4 DEF PageInv, InitializingIsCurrent, ButtonsTruthful, IsCurrent
<1>. QED
  BY <1>3, <1>5, <1>6, <1>7, <1>8, <1>9, <1>10 DEF PageInv

(* The run and self-test buttons start the one task of the generation.     *)
LEMMA ClickTaskKeeps ==
  ASSUME PageInv, NEW kind \in {"run", "selftest"}, ClickTask(kind)
  PROVE  PageInv'
<1>1. TypeOK /\ Numbered /\ SetupsOfInstances /\ TasksOfGenerations
  BY DEF PageInv
<1>. DEFINE t == [gen |-> generation, inst |-> backend, kind |-> kind]
<1>2. tasks' = tasks \cup {t} /\ t.gen = generation /\ t.inst = backend
  BY DEF ClickTask
<1>3. /\ backend \in Instances /\ uiState = "ready" /\ ~busy
      /\ instance[backend] \in {"live", "failed"}
  BY <1>1, Typed DEF ClickTask, PageInv, ReadyHoldsBackend
<1>4. /\ UNCHANGED <<generation, backend, uiState, shown, instance, setups>>
      /\ busy' = TRUE /\ runEnabled' = FALSE /\ reinitEnabled' = FALSE
  BY <1>3 DEF ClickTask, SetButtonsEnabled
<1>5. Instances' = Instances /\ Numbered'
  BY <1>1, <1>4, SameInstances DEF Instances
<1>6. TypeOK'
  <2>1. tasks' \subseteq [gen : 1 .. generation, inst : Instances, kind : {"run", "selftest"}]
    BY <1>1, <1>2, <1>3, Typed DEF TypeOK
  <2>. QED
    BY <1>1, <1>4, <1>5, <2>1 DEF TypeOK
<1>. HIDE DEF t
<1>7. SetupsOfInstances'
  BY <1>1, <1>4 DEF SetupsOfInstances, IsCurrent, Creating, Live
<1>8. \A s \in setups : s.gen # generation
  BY <1>3 DEF PageInv, InitializingIsCurrent, IsCurrent
<1>9. TasksOfGenerations'
  BY <1>1, <1>2, <1>3, <1>4, <1>8 DEF TasksOfGenerations, IsCurrent, Creating
<1>10. BackendIsAlive' /\ ReadyHoldsBackend' /\ ButtonsTruthful'
  BY <1>4 DEF PageInv, BackendIsAlive, ReadyHoldsBackend, ButtonsTruthful
<1>11. NoInstanceForgotten' /\ InitializingIsCurrent'
  BY <1>4, <1>5 DEF PageInv, NoInstanceForgotten, InitializingIsCurrent, IsCurrent, Live
<1>. QED
  BY <1>5, <1>6, <1>7, <1>9, <1>10, <1>11 DEF PageInv

(* Dispose moves to a generation nothing belongs to.                       *)
LEMMA ClickDisposeKeeps ==
  ASSUME PageInv, generation + 2 <= MaxGeneration, ClickDispose
  PROVE  PageInv'
<1>1. TypeOK /\ Numbered /\ SetupsOfInstances /\ TasksOfGenerations
  BY DEF PageInv
<1>2. /\ generation' = generation + 1 /\ backend' = 0 /\ busy' = FALSE /\ shown' = 0
      /\ uiState' = "disposed" /\ runEnabled' = FALSE /\ reinitEnabled' = TRUE
      /\ UNCHANGED <<setups, tasks>>
  BY DEF ClickDispose, SetButtonsEnabled
<1>3. /\ instance' \in [Instances -> Statuses]
      /\ \A i \in Instances : instance'[i] = IF i = backend THEN "disposed" ELSE instance[i]
  BY <1>1 DEF ClickDispose, DisposeHeld, TypeOK, Statuses
<1>4. Instances' = Instances /\ Numbered'
  BY <1>1, <1>3, SameInstances DEF Instances
<1>5. TypeOK'
  <2>1. generation' \in 1 .. MaxGeneration /\ 1 .. generation \subseteq 1 .. generation'
    BY <1>1, <1>2, Typed
  <2>2. setups' \subseteq [gen : 1 .. generation', inst : Instances', step : {"factory", "info"}]
    BY <1>1, <1>2, <1>4, <2>1 DEF TypeOK
  <2>3. tasks' \subseteq [gen : 1 .. generation', inst : Instances', kind : {"run", "selftest"}]
    BY <1>1, <1>2, <1>4, <2>1 DEF TypeOK
  <2>4. backend' \in {0} \cup Instances' /\ shown' \in 0 .. generation'
    BY <1>1, <1>2, Typed
  <2>. QED
    BY <1>2, <1>3, <1>4, <2>1, <2>2, <2>3, <2>4 DEF TypeOK, Statuses, MaxGeneration
<1>6. \A x \in setups \cup tasks : x.gen # generation'
  BY <1>1, <1>2, Typed
<1>7. \A i \in Instances : ~Live(i)'
  BY <1>2, <1>3 DEF PageInv, NoInstanceForgotten, Live
<1>8. backend # 0 => ~Creating(backend)
  BY DEF PageInv, BackendIsAlive, Creating
<1>9. \A i \in Instances : Creating(i)' <=> Creating(i)
  BY <1>1, <1>3, <1>8, Typed DEF Creating
<1>10. SetupsOfInstances'
  BY <1>1, <1>2, <1>6, <1>7, <1>9, Typed DEF SetupsOfInstances, IsCurrent
<1>11. TasksOfGenerations'
  BY <1>1, <1>2, <1>6, <1>9, Typed DEF TasksOfGenerations, IsCurrent
<1>12. BackendIsAlive' /\ ReadyHoldsBackend' /\ ButtonsTruthful'
  BY <1>2 DEF BackendIsAlive, ReadyHoldsBackend, ButtonsTruthful
<1>13. NoInstanceForgotten' /\ InitializingIsCurrent'
  BY <1>2, <1>4, <1>6, <1>7 DEF NoInstanceForgotten, InitializingIsCurrent, IsCurrent
<1>. QED
  BY <1>4, <1>5, <1>10, <1>11, <1>12, <1>13 DEF PageInv

(* Reinitialize disposes the instance held and numbers the next.           *)
LEMMA ClickReinitKeeps ==
  ASSUME PageInv, generation + 2 <= MaxGeneration, ClickReinit
  PROVE  PageInv'
<1>1. TypeOK /\ Numbered /\ SetupsOfInstances /\ TasksOfGenerations
  BY DEF PageInv
<1>0. PICK new \in Nat : new = Count + 1
  BY <1>1 DEF Numbered
<1>. DEFINE s == Setup(generation + 2, new, "factory")
<1>2. /\ generation' = generation + 2 /\ backend' = 0 /\ busy' = busy /\ busy = FALSE
      /\ shown' = shown /\ tasks' = tasks /\ setups' = setups \cup {s}
      /\ uiState' = "initializing" /\ runEnabled' = FALSE /\ reinitEnabled' = TRUE
  BY <1>0, <1>1 DEF ClickReinit, SetButtonsEnabled, Count, TypeOK
<1>3. new \in Nat /\ new \notin Instances /\ 1 .. new = Instances \cup {new} /\ new >= 1
  BY <1>0, <1>1 DEF Numbered
<1>4. /\ Instances' = Instances \cup {new} /\ Instances' = 1 .. new
      /\ instance' \in [Instances' -> Statuses]
      /\ instance'[new] = "creating"
      /\ \A i \in Instances : instance'[i] = IF i = backend THEN "disposed" ELSE instance[i]
  <2>1. instance' = [i \in 1 .. new |-> IF i = new THEN "creating"
                                        ELSE IF i = backend THEN "disposed" ELSE instance[i]]
    BY <1>0 DEF ClickReinit, Count
  <2>2. Instances' = 1 .. new
    BY <2>1 DEF Instances
  <2>3. \A i \in Instances : i # new
    BY <1>3
  <2>. QED
    BY <1>1, <1>3, <2>1, <2>2, <2>3 DEF TypeOK, Statuses
<1>5. Numbered'
  <2>1. Cardinality(1 .. new) = new
    BY <1>3, FS_Interval
  <2>. QED
    BY <1>3, <1>4, <2>1 DEF Numbered, Count
<1>6. s.gen = generation' /\ s.inst = new /\ s.step = "factory"
  BY <1>2 DEF Setup
<1>7. TypeOK'
  <2>1. /\ generation' \in 1 .. MaxGeneration /\ generation' \in 1 .. generation'
        /\ 1 .. generation \subseteq 1 .. generation'
    BY <1>1, <1>2, Typed
  <2>2. setups' \subseteq [gen : 1 .. generation', inst : Instances', step : {"factory", "info"}]
    <3>1. s \in [gen : 1 .. generation', inst : Instances', step : {"factory", "info"}]
      BY <1>2, <1>3, <1>4, <2>1 DEF Setup
    <3>. HIDE DEF s
    <3>. QED
      BY <1>1, <1>2, <1>4, <2>1, <3>1 DEF TypeOK
  <2>3. tasks' \subseteq [gen : 1 .. generation', inst : Instances', kind : {"run", "selftest"}]
    BY <1>1, <1>2, <1>4, <2>1 DEF TypeOK
  <2>4. backend' \in {0} \cup Instances' /\ shown' \in 0 .. generation'
    BY <1>1, <1>2, Typed DEF TypeOK
  <2>. QED
    BY <1>2, <1>4, <2>1, <2>2, <2>3, <2>4 DEF TypeOK, Statuses, MaxGeneration
<1>. HIDE DEF s
<1>8. \A x \in setups \cup tasks : x.gen # generation'
  BY <1>1, <1>2, Typed
<1>9. \A i \in Instances : ~Live(i)'
  BY <1>2, <1>4 DEF PageInv, NoInstanceForgotten, Live
<1>10. backend # 0 => ~Creating(backend)
  BY DEF PageInv, BackendIsAlive, Creating
<1>11. \A i \in Instances : Creating(i)' <=> Creating(i)
  BY <1>1, <1>4, <1>10, Typed DEF Creating
<1>12. Creating(new)' /\ ~Live(new)'
  BY <1>4 DEF Creating, Live
<1>13. \A x \in setups : x.inst \in Instances /\ x.inst # new
  BY <1>1, <1>3, Typed
<1>14. SetupsOfInstances'
  BY <1>1, <1>2, <1>6, <1>8, <1>9, <1>11, <1>12, <1>13 DEF SetupsOfInstances, IsCurrent
<1>15. TasksOfGenerations'
  BY <1>1, <1>2, <1>6, <1>8, <1>11, Typed DEF TasksOfGenerations, IsCurrent
<1>16. BackendIsAlive' /\ ReadyHoldsBackend' /\ ButtonsTruthful'
  BY <1>2 DEF BackendIsAlive, ReadyHoldsBackend, ButtonsTruthful
<1>17. NoInstanceForgotten' /\ InitializingIsCurrent'
  BY <1>2, <1>4, <1>6, <1>9, <1>12 DEF NoInstanceForgotten, InitializingIsCurrent, IsCurrent
<1>. QED
  BY <1>5, <1>7, <1>14, <1>15, <1>16, <1>17 DEF PageInv

(* Every turn of the page keeps the invariant.                             *)
LEMMA PageStep == PageInv /\ [Next]_vars => PageInv'
<1>. SUFFICES ASSUME PageInv, [Next]_vars PROVE PageInv'
  OBVIOUS
<1>1. ASSUME NEW s \in setups, SetupStep(s) PROVE PageInv'
  BY <1>1, CreationSucceedsKeeps, CreationFailsKeeps, InfoArrivesKeeps, InfoFailsKeeps
     DEF SetupStep
<1>2. ASSUME NEW t \in tasks, TaskStep(t) PROVE PageInv'
  BY <1>2, TaskStepKeeps
<1>3. CASE generation + 2 <= MaxGeneration /\ Click
  BY <1>3, ClickTaskKeeps, ClickDisposeKeeps, ClickReinitKeeps DEF Click
<1>4. ASSUME NEW i \in Instances, InstanceBreaks(i) PROVE PageInv'
  BY <1>4, InstanceBreaksKeeps
<1>5. CASE UNCHANGED vars
  BY <1>5 DEF vars, PageInv, TypeOK, Numbered, Count, Instances, SetupsOfInstances,
              TasksOfGenerations, BackendIsAlive, NoInstanceForgotten, InitializingIsCurrent,
              ReadyHoldsBackend, ButtonsTruthful, IsCurrent, Creating, Live
<1>. QED
  BY <1>1, <1>2, <1>3, <1>4, <1>5 DEF Next

(* It holds always.                                                        *)
LEMMA PageKept == Spec => []PageInv
  BY PageStart, PageStep, PTL DEF Spec

(* The busy flag counts the tasks of this generation.                      *)
LEMMA BusyCounts == PageInv => BusyIsCurrentTask
<1>. SUFFICES ASSUME PageInv PROVE BusyIsCurrentTask
  OBVIOUS
<1>. DEFINE mine == {t \in tasks : IsCurrent(t)}
<1>1. TasksOfGenerations /\ busy \in BOOLEAN
  BY DEF PageInv, TypeOK
<1>2. CASE busy
  <2>1. PICK t \in tasks : IsCurrent(t)
    BY <1>1, <1>2 DEF TasksOfGenerations
  <2>2. mine = {t}
    BY <1>1, <2>1 DEF TasksOfGenerations, IsCurrent
  <2>. QED
    BY <1>2, <2>2, FS_Singleton DEF BusyIsCurrentTask
<1>3. CASE ~busy
  <2>1. mine = {}
    BY <1>1, <1>3 DEF TasksOfGenerations
  <2>. QED
    BY <1>3, <2>1, FS_EmptySet DEF BusyIsCurrentTask
<1>. QED
  BY <1>1, <1>2, <1>3

(* What ui.ts shows (state, buttons, busy) is true of the current          *)
(* generation, for every number of instances and every order of clicks and *)
(* completions.                                                            *)
THEOREM PageShowsThisGeneration == Spec => []Inv
<1>1. PageInv => Inv
  BY BusyCounts DEF PageInv, Inv
<1>. QED
  BY <1>1, PageKept, PTL

(* An instance that is alive is the one the page holds: setupBackend       *)
(* disposes the one whose factory resolves after a dispose or a reinit     *)
(* (ui.ts, 84-92).                                                       *)
THEOREM PageForgetsNoInstance == Spec => []NoInstanceForgotten
<1>1. PageInv => NoInstanceForgotten
  BY DEF PageInv
<1>. QED
  BY <1>1, PageKept, PTL

(* A setup or a task of an older generation ends without a trace on the    *)
(* page.                                                                   *)
LEMMA StaleEnds ==
  ASSUME PageInv, [Next]_vars,
         NEW x \in (setups \ setups') \cup (tasks \ tasks'), x.gen # generation
  PROVE  UNCHANGED <<uiState, shown, busy, runEnabled, reinitEnabled, backend>>
<1>1. ASSUME NEW s \in setups, SetupStep(s)
      PROVE  UNCHANGED <<uiState, shown, busy, runEnabled, reinitEnabled, backend>>
  <2>1. tasks' = tasks /\ setups \ setups' \subseteq {s}
    BY <1>1 DEF SetupStep, CreationSucceeds, CreationFails, InfoArrives, InfoFails
  <2>2. ~IsCurrent(s)
    BY <2>1 DEF IsCurrent
  <2>3. ~InfoArrives(s)
    BY <2>2, InfoIsCurrent DEF InfoArrives
  <2>. QED
    BY <1>1, <2>2, <2>3 DEF SetupStep, CreationSucceeds, CreationFails, InfoFails
<1>2. ASSUME NEW t \in tasks, TaskStep(t)
      PROVE  UNCHANGED <<uiState, shown, busy, runEnabled, reinitEnabled, backend>>
  <2>1. setups' = setups /\ tasks \ tasks' \subseteq {t}
    BY <1>2 DEF TaskStep, RunSucceeds, RunRejected, RunFatal, SelfTestEnds, EndTask
  <2>2. ~IsCurrent(t)
    BY <2>1 DEF IsCurrent
  <2>. QED
    BY <1>2, <2>2 DEF TaskStep, RunSucceeds, RunRejected, RunFatal, SelfTestEnds, EndTask
<1>3. CASE Click
  <2>1. setups \subseteq setups' /\ tasks \subseteq tasks'
    BY <1>3 DEF Click, ClickTask, ClickDispose, ClickReinit
  <2>. QED
    BY <2>1
<1>4. ASSUME NEW i \in Instances, InstanceBreaks(i)
      PROVE  UNCHANGED <<uiState, shown, busy, runEnabled, reinitEnabled, backend>>
  BY <1>4 DEF InstanceBreaks
<1>5. CASE UNCHANGED vars
  BY <1>5 DEF vars
<1>. QED
  BY <1>1, <1>2, <1>3, <1>4, <1>5 DEF Next

(* The end of a setup or a task of an older generation changes nothing on  *)
(* the page (the comparisons of generation in ui.ts).                      *)
THEOREM PageIgnoresTheStale == Spec => StaleChangesNothing
<1>1. PageInv /\ [Next]_vars =>
        [\A x \in (setups \ setups') \cup (tasks \ tasks') :
           x.gen # generation =>
             UNCHANGED <<uiState, shown, busy, runEnabled, reinitEnabled, backend>>]_vars
  BY StaleEnds
<1>. QED
  BY <1>1, PageKept, PTL DEF Spec, StaleChangesNothing

-----------------------------------------------------------------------------
(***************************************************************************)
(* The worker.  The invariant says how far the handler is and what it has  *)
(* allocated by then.                                                      *)
(***************************************************************************)
(* The requests, replies and blocks there are.                             *)
AllRequests == UNION {Requests(id) : id \in 1 .. MaxRequests}
Transforms == [id : 1 .. MaxRequests, method : {"transform"}, empty : BOOLEAN]
Block == [id : Nat, name : {"in", "out", "sum"}]
Results == {"ok", "INITIALIZATION_FAILED", "ABI_MISMATCH", "CORE_FAILURE",
            "INVALID_ARGUMENT", "OUT_OF_MEMORY"}
ReplyForm == [id : Nat, method : Methods, result : Results]
Listed == {allocated[i] : i \in DOMAIN allocated}

(* The types WorkerTypeOK does not give.                                   *)
WorkerTyped ==
  /\ current \in AllRequests \cup {NoRequest}
  /\ allocated \in Seq(Block)
  /\ received \in Seq(Nat)
  /\ replies \in Seq(ReplyForm)

(* How far the handler is says what it handles and what it has allocated.  *)
Stage ==
  /\ pc = "idle" <=> current = NoRequest
  /\ pc \in {"init", "importing", "instantiating"} => current.method = "init"
  /\ pc = "getInfo" => current.method = "getInfo"
  /\ pc \in {"transform", "alloc", "free"} => current \in Transforms
  /\ state = "initializing" => AwaitsOutside
  /\ pc \in {"alloc", "free"} => mod /\ state # "uninitialized"
  /\ pc \notin {"alloc", "free"} => allocated = <<>>
  /\ pc = "alloc" =>
       /\ state = "ready"
       /\ Len(allocated) <= Len(Blocks(current))
       /\ \A i \in 1 .. Len(allocated) :
            allocated[i] = [id |-> current.id, name |-> Blocks(current)[i]]

(* No block is listed twice.                                               *)
EachOnce == \A i, j \in 1 .. Len(allocated) : i # j => allocated[i] # allocated[j]

(* The heap of the module holds what the handler lists and nothing else;   *)
(* before init has made a module there is none.                            *)
HeapKnown ==
  /\ mod => heap = Listed
  /\ state = "uninitialized" \/ AwaitsOutside => heap = {}

(* What every turn of the worker keeps.                                    *)
WorkerIInv == WorkerTypeOK /\ WorkerTyped /\ Stage /\ EachOnce /\ HeapKnown

(* The form of a request.                                                  *)
LEMMA RequestShape ==
  ASSUME NEW r \in AllRequests
  PROVE  /\ r # NoRequest
         /\ r.id \in 1 .. MaxRequests
         /\ r.method \in Methods
         /\ r.method = "transform" => r \in Transforms
  BY WorkerAssumption DEF AllRequests, Requests, Transforms, NoRequest, Methods

(* A transform allocates at most three blocks, each once.                  *)
LEMMA TransformShape ==
  ASSUME NEW r \in Transforms
  PROVE  /\ r \in AllRequests
         /\ Blocks(r) \in Seq({"in", "out", "sum"})
         /\ Len(Blocks(r)) \in 1..3
         /\ \A i, j \in 1 .. Len(Blocks(r)) : i # j => Blocks(r)[i] # Blocks(r)[j]
<1>1. r \in AllRequests
  BY WorkerAssumption DEF AllRequests, Requests, Transforms
<1>2. r.empty \in BOOLEAN
  BY DEF Transforms
<1>3. CASE r.empty
  BY <1>1, <1>3 DEF Blocks
<1>4. CASE ~r.empty
  <2>1. Blocks(r) = <<"in", "out", "sum">>
    BY <1>4 DEF Blocks
  <2>2. Len(Blocks(r)) = 3 /\ Blocks(r)[1] = "in" /\ Blocks(r)[2] = "out" /\ Blocks(r)[3] = "sum"
    BY <2>1
  <2>3. Blocks(r) \in Seq({"in", "out", "sum"})
    BY <2>1
  <2>. QED
    BY <1>1, <2>2, <2>3
<1>. QED
  BY <1>2, <1>3, <1>4

(* A new worker has done nothing.                                          *)
LEMMA WorkerStart == WorkerInit => WorkerIInv
<1>. SUFFICES ASSUME WorkerInit PROVE WorkerIInv
  OBVIOUS
<1>. USE WorkerAssumption DEF WorkerInit
<1>1. WorkerTypeOK
  <2>1. IsFiniteSet(heap)
    BY FS_EmptySet
  <2>2. queue \in Seq(UNION {Requests(id) : id \in 1 .. MaxRequests})
    OBVIOUS
  <2>3. mod \in BOOLEAN /\ (state = "ready" => mod)
    BY Zenon
  <2>4. /\ state \in {"uninitialized", "initializing", "ready", "failed"}
        /\ pc \in Methods \cup {"idle", "importing", "instantiating", "alloc", "free"}
        /\ errors \in 0 .. MaxErrors
    BY DEF Methods
  <2>. HIDE DEF WorkerInit
  <2>. QED
    BY <2>1, <2>2, <2>3, <2>4 DEF WorkerTypeOK
<1>2. WorkerTyped /\ Stage /\ EachOnce /\ HeapKnown
  BY DEF WorkerTyped, Stage, EachOnce, HeapKnown, Listed, AwaitsOutside
<1>. QED
  BY <1>1, <1>2 DEF WorkerIInv

(* A turn between those of the handler leaves the handler as it is.        *)
LEMMA OutsideKeeps ==
  ASSUME WorkerIInv,
         pc = "idle" \/ AwaitsOutside,
         UNCHANGED <<current, pc, heap, allocated, replies>>,
         \/ state' = state /\ mod' = mod
         \/ state' = "failed" /\ mod' = mod
         \/ state' = "failed" /\ mod' = FALSE,
         queue' \in Seq(AllRequests),
         received' \in Seq(Nat),
         errors' \in 0 .. MaxErrors
  PROVE  WorkerIInv'
<1>1. WorkerTypeOK'
  <2>1. IsFiniteSet(heap')
    BY DEF WorkerIInv, WorkerTypeOK
  <2>2. mod' \in BOOLEAN /\ (state' = "ready" => mod')
    BY DEF WorkerIInv, WorkerTypeOK
  <2>3. queue' \in Seq(UNION {Requests(id) : id \in 1 .. MaxRequests})
    BY DEF AllRequests
  <2>. QED
    BY <2>1, <2>2, <2>3 DEF WorkerIInv, WorkerTypeOK
<1>2. WorkerTyped' /\ EachOnce'
  BY DEF WorkerIInv, WorkerTyped, EachOnce
<1>3. Stage'
  BY DEF WorkerIInv, Stage, AwaitsOutside
<1>4. HeapKnown'
  <2>1. Listed' = Listed
    BY DEF Listed
  <2>2. (mod' => heap' = Listed') /\ (AwaitsOutside' => heap' = {})
    BY <2>1 DEF WorkerIInv, HeapKnown, AwaitsOutside
  <2>3. state' = "uninitialized" => heap' = {}
    BY DEF WorkerIInv, HeapKnown
  <2>. QED
    BY <2>2, <2>3 DEF HeapKnown
<1>. QED
  BY <1>1, <1>2, <1>3, <1>4 DEF WorkerIInv

(* The empty list names no block.                                          *)
LEMMA NothingListed ==
  ASSUME allocated = <<>> PROVE Listed = {}
  BY DEF Listed

(* A reply has the form of one.                                            *)
LEMMA PostTyped ==
  ASSUME WorkerIInv, pc # "idle", NEW result \in Results,
         replies' = Append(replies, [id |-> current.id, method |-> current.method, result |-> result])
  PROVE  replies' \in Seq(ReplyForm)
<1>1. current.id \in Nat /\ current.method \in Methods
  BY WorkerAssumption, RequestShape DEF WorkerIInv, WorkerTyped, Stage
<1>2. [id |-> current.id, method |-> current.method, result |-> result] \in ReplyForm
  BY <1>1 DEF ReplyForm
<1>. QED
  BY <1>2 DEF WorkerIInv, WorkerTyped

(* A handler ends.                                                         *)
LEMMA FinishKeeps ==
  ASSUME WorkerIInv, Finish,
         UNCHANGED <<queue, received, errors, heap>>,
         replies' \in Seq(ReplyForm),
         allocated' = <<>>,
         mod' \in BOOLEAN,
         state' \in {"uninitialized", "ready", "failed"},
         state' = "ready" => mod',
         mod' \/ state' = "uninitialized" => heap = {}
  PROVE  WorkerIInv'
<1>1. WorkerTypeOK'
  <2>1. pc' \in Methods \cup {"idle", "importing", "instantiating", "alloc", "free"}
    BY DEF Finish
  <2>. QED
    BY <2>1 DEF WorkerIInv, WorkerTypeOK
<1>2. WorkerTyped'
  BY DEF WorkerIInv, WorkerTyped, Finish
<1>3. Stage' /\ EachOnce'
  BY DEF Stage, EachOnce, Finish
<1>4. HeapKnown'
  <2>1. Listed' = {}
    BY DEF Listed
  <2>2. (mod' => heap' = Listed') /\ (state' = "uninitialized" => heap' = {})
    BY <2>1
  <2>3. ~AwaitsOutside'
    BY DEF AwaitsOutside, Finish
  <2>. QED
    BY <2>2, <2>3 DEF HeapKnown
<1>. QED
  BY <1>1, <1>2, <1>3, <1>4 DEF WorkerIInv

(* The module is as clean when a handler ends that allocated nothing.      *)
LEMMA CleanWhenNothingListed ==
  ASSUME WorkerIInv, pc \notin {"alloc", "free"} \/ allocated = <<>>
  PROVE  allocated = <<>> /\ (mod => heap = {})
  BY NothingListed DEF WorkerIInv, Stage, HeapKnown

(* The next handler starts.                                                *)
LEMMA StartKeeps == ASSUME WorkerIInv, Start PROVE WorkerIInv'
<1>. USE DEF Start
<1>1. queue \in Seq(AllRequests) /\ queue # <<>>
  BY DEF WorkerIInv, WorkerTypeOK, AllRequests
<1>2. Head(queue) \in AllRequests /\ queue' \in Seq(AllRequests)
  BY <1>1
<1>3. current' \in AllRequests /\ current' # NoRequest /\ current'.method \in Methods
      /\ (current'.method = "transform" => current' \in Transforms) /\ pc' = current'.method
  BY <1>2, RequestShape
<1>4. WorkerTypeOK'
  BY <1>2, <1>3 DEF WorkerIInv, WorkerTypeOK, AllRequests
<1>5. WorkerTyped' /\ EachOnce'
  BY <1>3 DEF WorkerIInv, WorkerTyped, EachOnce
<1>6. Stage'
  BY <1>3 DEF WorkerIInv, Stage, Methods, AwaitsOutside
<1>7. HeapKnown'
  BY <1>3 DEF WorkerIInv, HeapKnown, Listed, AwaitsOutside, Methods
<1>. QED
  BY <1>4, <1>5, <1>6, <1>7 DEF WorkerIInv

(* The handler goes on with nothing allocated.                             *)
LEMMA GoOnKeeps ==
  ASSUME WorkerIInv,
         UNCHANGED <<mod, queue, current, heap, allocated, received, replies, errors>>,
         pc \notin {"idle", "alloc", "free"},
         \/ pc' = "importing" /\ pc = "init" /\ state = "uninitialized" /\ state' = "initializing"
         \/ pc' = "instantiating" /\ pc = "importing" /\ state' = state
         \/ pc' = "alloc" /\ pc = "transform" /\ state = "ready" /\ state' = state
  PROVE  WorkerIInv'
<1>1. WorkerTypeOK'
  BY DEF WorkerIInv, WorkerTypeOK
<1>2. WorkerTyped' /\ EachOnce'
  BY DEF WorkerIInv, WorkerTyped, EachOnce
<1>3. allocated = <<>> /\ Len(allocated) = 0
  BY DEF WorkerIInv, Stage
<1>4. Stage'
  <2>1. (pc' = "idle") <=> current' = NoRequest
    BY DEF WorkerIInv, Stage
  <2>2. pc' = "alloc" => mod' /\ Len(Blocks(current')) \in Nat
    BY TransformShape DEF WorkerIInv, WorkerTypeOK, Stage
  <2>. QED
    BY <1>3, <2>1, <2>2 DEF WorkerIInv, Stage, AwaitsOutside
<1>5. HeapKnown'
  BY DEF WorkerIInv, HeapKnown, Listed, AwaitsOutside
<1>. QED
  BY <1>1, <1>2, <1>4, <1>5 DEF WorkerIInv

(* The next block is a new one.                                            *)
LEMMA MallocKeeps == ASSUME WorkerIInv, Malloc PROVE WorkerIInv'
<1>. USE DEF Malloc
<1>. DEFINE n == Len(allocated)  names == Blocks(current)
<1>1. /\ current \in Transforms /\ current.id \in Nat
      /\ allocated \in Seq(Block) /\ n \in Nat /\ n < Len(names)
      /\ names \in Seq({"in", "out", "sum"}) /\ Len(names) \in 1..3
  <2>1. current \in Transforms /\ allocated \in Seq(Block)
    BY DEF WorkerIInv, Stage, WorkerTyped
  <2>2. current.id \in Nat
    BY <2>1 DEF Transforms
  <2>3. names \in Seq({"in", "out", "sum"}) /\ Len(names) \in 1..3
    BY <2>1, TransformShape
  <2>4. n \in Nat /\ n <= Len(names) /\ n # Len(names)
    BY <2>1 DEF WorkerIInv, Stage, AllAllocated
  <2>. QED
    BY <2>1, <2>2, <2>3, <2>4
<1>2. \A i, j \in 1 .. Len(names) : i # j => names[i] # names[j]
  BY <1>1, TransformShape
<1>3. NextBlock \in Block /\ NextBlock = [id |-> current.id, name |-> names[n + 1]]
  BY <1>1 DEF NextBlock, Block
<1>4. /\ allocated' \in Seq(Block) /\ Len(allocated') = n + 1
      /\ \A i \in 1..n : allocated'[i] = allocated[i]
      /\ allocated'[n + 1] = NextBlock
  BY <1>1, <1>3
<1>5. \A i \in 1..n + 1 : allocated'[i] = [id |-> current.id, name |-> names[i]]
  BY <1>1, <1>3, <1>4 DEF WorkerIInv, Stage
<1>6. WorkerTypeOK'
  <2>1. IsFiniteSet(heap')
    BY FS_AddElement DEF WorkerIInv, WorkerTypeOK
  <2>. QED
    BY <2>1 DEF WorkerIInv, WorkerTypeOK
<1>7. WorkerTyped'
  BY <1>4 DEF WorkerIInv, WorkerTyped
<1>8. Stage'
  BY <1>1, <1>4, <1>5 DEF WorkerIInv, Stage
<1>9. EachOnce'
  <2>1. \A i, j \in 1..n + 1 : i # j => names[i] # names[j]
    BY <1>1, <1>2
  <2>. HIDE DEF Malloc
  <2>2. ASSUME NEW i \in 1..n + 1 PROVE allocated'[i].name = names[i]
    <3>1. allocated'[i] = [id |-> current.id, name |-> names[i]]
      BY <1>5
    <3>. QED
      BY <3>1
  <2>3. \A i, j \in 1..n + 1 : i # j => allocated'[i] # allocated'[j]
    BY <2>1, <2>2
  <2>. QED
    BY <1>4, <2>3 DEF EachOnce
<1>10. HeapKnown'
  <2>1. Listed' = Listed \cup {NextBlock}
    <3>1. Listed = {allocated[i] : i \in 1..n}
      BY <1>1 DEF Listed
    <3>2. DOMAIN allocated' = 1..n + 1
      BY <1>1, <1>4
    <3>3. Listed' = {allocated'[i] : i \in 1..n + 1}
      BY <3>2 DEF Listed
    <3>4. ASSUME NEW b \in Listed' PROVE b \in Listed \cup {NextBlock}
      BY <1>1, <1>4, <3>1, <3>3
    <3>5. n + 1 \in 1..n + 1 /\ \A i \in 1..n : i \in 1..n + 1
      BY <1>1
    <3>6. Listed \cup {NextBlock} \subseteq Listed'
      BY <1>4, <3>1, <3>3, <3>5
    <3>. QED
      BY <3>4, <3>6
  <2>2. mod /\ state = "ready" /\ ~AwaitsOutside'
    BY DEF WorkerIInv, Stage, AwaitsOutside
  <2>. QED
    BY <2>1, <2>2 DEF WorkerIInv, HeapKnown
<1>. QED
  BY <1>6, <1>7, <1>8, <1>9, <1>10 DEF WorkerIInv

(* The request is answered; what it allocated is still to be freed.        *)
LEMMA AnsweredKeeps ==
  ASSUME WorkerIInv, pc = "alloc", pc' = "free",
         UNCHANGED <<mod, queue, current, heap, allocated, received, errors>>,
         replies' \in Seq(ReplyForm),
         state' \in {state, "failed"}
  PROVE  WorkerIInv'
<1>1. WorkerTypeOK'
  BY DEF WorkerIInv, WorkerTypeOK
<1>2. WorkerTyped' /\ EachOnce'
  BY DEF WorkerIInv, WorkerTyped, EachOnce
<1>3. Stage'
  BY DEF WorkerIInv, Stage, AwaitsOutside
<1>4. HeapKnown'
  BY DEF WorkerIInv, HeapKnown, Listed, AwaitsOutside, Stage
<1>. QED
  BY <1>1, <1>2, <1>3, <1>4 DEF WorkerIInv

(* A block that is freed is no longer listed, since it was listed once.    *)
LEMMA FreeKeeps == ASSUME WorkerIInv, Free PROVE WorkerIInv'
<1>. USE DEF Free
<1>. DEFINE n == Len(allocated)
<1>1. /\ allocated \in Seq(Block) /\ n \in Nat /\ n >= 1
      /\ allocated' \in Seq(Block) /\ Len(allocated') = n - 1
      /\ \A i \in 1..n - 1 : allocated'[i] = allocated[i + 1]
      /\ Head(allocated) = allocated[1]
  BY DEF WorkerIInv, WorkerTyped
<1>2. WorkerTypeOK'
  <2>1. IsFiniteSet(heap')
    BY FS_RemoveElement DEF WorkerIInv, WorkerTypeOK
  <2>. QED
    BY <2>1 DEF WorkerIInv, WorkerTypeOK
<1>3. WorkerTyped'
  BY <1>1 DEF WorkerIInv, WorkerTyped
<1>4. Stage'
  BY DEF WorkerIInv, Stage, AwaitsOutside
<1>5. \A i, j \in 1..n : i # j => allocated[i] # allocated[j]
  BY DEF WorkerIInv, EachOnce
<1>6. EachOnce'
  BY <1>1, <1>5 DEF EachOnce
<1>7. HeapKnown'
  <2>1. Listed' = Listed \ {allocated[1]}
    <3>1. Listed = {allocated[i] : i \in 1..n}
      BY <1>1 DEF Listed
    <3>2. Listed' = {allocated[i + 1] : i \in 1..n - 1}
      <4>1. DOMAIN allocated' = 1..n - 1
        BY <1>1
      <4>2. Listed' = {allocated'[i] : i \in 1..n - 1}
        BY <4>1 DEF Listed
      <4>. QED
        BY <1>1, <4>2
    <3>3. ASSUME NEW b \in Listed, b # allocated[1] PROVE b \in Listed'
      <4>1. PICK i \in 1..n : b = allocated[i]
        BY <3>1, <3>3
      <4>2. i - 1 \in 1..n - 1 /\ i = (i - 1) + 1
        BY <1>1, <3>3, <4>1
      <4>. QED
        BY <3>2, <4>1, <4>2
    <3>4. ASSUME NEW b \in Listed' PROVE b \in Listed /\ b # allocated[1]
      <4>1. PICK i \in 1..n - 1 : b = allocated[i + 1]
        BY <3>2, <3>4
      <4>2. i + 1 \in 1..n /\ 1 \in 1..n /\ i + 1 # 1
        BY <1>1
      <4>. QED
        BY <1>5, <3>1, <4>1, <4>2
    <3>. QED
      BY <3>3, <3>4
  <2>2. state # "uninitialized" /\ ~AwaitsOutside
    BY DEF WorkerIInv, Stage, AwaitsOutside
  <2>. QED
    BY <1>1, <2>1, <2>2 DEF WorkerIInv, HeapKnown, AwaitsOutside
<1>. QED
  BY <1>2, <1>3, <1>4, <1>6, <1>7 DEF WorkerIInv

(* Outside the awaits of init the worker is not initializing.              *)
LEMMA SettledState ==
  ASSUME WorkerIInv, pc \notin {"importing", "instantiating"}
  PROVE  state \in {"uninitialized", "ready", "failed"}
  BY DEF WorkerIInv, WorkerTypeOK, Stage, AwaitsOutside

(* Every turn of the worker keeps the invariant.                           *)
LEMMA WorkerStep == WorkerIInv /\ [WorkerNext]_workerVars => WorkerIInv'
<1>. SUFFICES ASSUME WorkerIInv, [WorkerNext]_workerVars PROVE WorkerIInv'
  OBVIOUS
<1>. USE WorkerAssumption
<1>0. /\ queue \in Seq(AllRequests) /\ received \in Seq(Nat) /\ Len(received) \in Nat
      /\ errors \in 0 .. MaxErrors
  BY DEF WorkerIInv, WorkerTypeOK, AllRequests, WorkerTyped
<1>1. CASE Receive
  <2>1. PICK req \in Requests(Len(received) + 1) : queue' = Append(queue, req)
    BY <1>1 DEF Receive
  <2>2. req \in AllRequests
    BY <1>0, <1>1, <2>1 DEF Receive, AllRequests
  <2>3. queue' \in Seq(AllRequests) /\ received' \in Seq(Nat)
    BY <1>0, <1>1, <2>1, <2>2 DEF Receive
  <2>. QED
    BY <1>0, <1>1, <2>3, OutsideKeeps DEF Receive
<1>2. CASE ReceiveMalformed
  <2>1. errors' \in 0 .. MaxErrors
    BY <1>0, <1>2 DEF ReceiveMalformed
  <2>. QED
    BY <1>0, <1>2, <2>1, OutsideKeeps DEF ReceiveMalformed
<1>3. CASE OnError
  BY <1>0, <1>3, OutsideKeeps DEF OnError
<1>4. CASE Start
  BY <1>4, StartKeeps
<1>5. CASE RejectInit
  <2>1. replies' \in Seq(ReplyForm)
    BY <1>5, PostTyped DEF RejectInit, Post, Results
  <2>2. allocated = <<>> /\ (mod => heap = {}) /\ state # "uninitialized"
    BY <1>5, CleanWhenNothingListed DEF RejectInit
  <2>. QED
    BY <1>5, <2>1, <2>2, FinishKeeps, SettledState DEF RejectInit, WorkerIInv, WorkerTypeOK
<1>6. CASE BeginInit
  BY <1>6, GoOnKeeps DEF BeginInit
<1>7. CASE RefuseUrls
  <2>1. replies' \in Seq(ReplyForm)
    BY <1>7, PostTyped DEF RefuseUrls, Post, Results
  <2>2. allocated = <<>> /\ (mod => heap = {})
    BY <1>7, CleanWhenNothingListed DEF RefuseUrls
  <2>. QED
    BY <1>7, <2>1, <2>2, FinishKeeps DEF RefuseUrls, WorkerIInv, WorkerTypeOK
<1>8. CASE Imported
  <2>1. CASE pc' = "instantiating"
    BY <1>8, <2>1, GoOnKeeps DEF Imported, Finish
  <2>2. CASE pc' # "instantiating"
    <3>1. state' = "failed" /\ Post("INITIALIZATION_FAILED") /\ Finish
      BY <1>8, <2>2 DEF Imported
    <3>2. replies' \in Seq(ReplyForm)
      BY <1>8, <3>1, PostTyped DEF Post, Results, Imported
    <3>3. allocated = <<>> /\ (mod => heap = {})
      BY <1>8, CleanWhenNothingListed DEF Imported
    <3>. QED
      BY <1>8, <3>1, <3>2, <3>3, FinishKeeps DEF Imported, WorkerIInv, WorkerTypeOK
  <2>. QED
    BY <2>1, <2>2
<1>9. CASE Instantiated
  <2>1. heap = {} /\ allocated = <<>>
    BY <1>9, CleanWhenNothingListed DEF Instantiated, WorkerIInv, HeapKnown, AwaitsOutside
  <2>2. PICK result \in Results :
         replies' = Append(replies, [id |-> current.id, method |-> current.method, result |-> result])
    BY <1>9 DEF Instantiated, Post, Results
  <2>3. replies' \in Seq(ReplyForm)
    BY <1>9, <2>2, PostTyped DEF Instantiated
  <2>4. /\ mod' \in BOOLEAN
        /\ state' \in {"ready", "failed"}
        /\ state' = "ready" => mod'
    BY <1>9 DEF Instantiated, WorkerIInv, WorkerTypeOK
  <2>. QED
    BY <1>9, <2>1, <2>3, <2>4, FinishKeeps DEF Instantiated
<1>10. CASE GetInfo
  <2>1. PICK result \in Results :
         replies' = Append(replies, [id |-> current.id, method |-> current.method, result |-> result])
    BY <1>10 DEF GetInfo, Post, Results
  <2>2. replies' \in Seq(ReplyForm)
    BY <1>10, <2>1, PostTyped DEF GetInfo
  <2>3. allocated = <<>> /\ (mod => heap = {})
    BY <1>10, CleanWhenNothingListed DEF GetInfo
  <2>4. state' \in {state, "failed"}
    BY <1>10 DEF GetInfo, Post, Results
  <2>5. state = "uninitialized" => heap = {}
    BY DEF WorkerIInv, HeapKnown
  <2>. QED
    BY <1>10, <2>2, <2>3, <2>4, <2>5, FinishKeeps, SettledState DEF GetInfo, WorkerIInv, WorkerTypeOK
<1>11. CASE RefuseTransform
  <2>1. PICK result \in Results :
         replies' = Append(replies, [id |-> current.id, method |-> current.method, result |-> result])
    BY <1>11 DEF RefuseTransform, Post, Results
  <2>2. replies' \in Seq(ReplyForm)
    BY <1>11, <2>1, PostTyped DEF RefuseTransform
  <2>3. allocated = <<>> /\ (mod => heap = {})
    BY <1>11, CleanWhenNothingListed DEF RefuseTransform
  <2>4. state = "uninitialized" => heap = {}
    BY DEF WorkerIInv, HeapKnown
  <2>. QED
    BY <1>11, <2>2, <2>3, <2>4, FinishKeeps, SettledState DEF RefuseTransform, WorkerIInv, WorkerTypeOK
<1>12. CASE BeginTransform
  <2>1. allocated' = allocated
    BY <1>12 DEF BeginTransform, WorkerIInv, Stage
  <2>. QED
    BY <1>12, <2>1, GoOnKeeps DEF BeginTransform
<1>13. CASE Malloc
  BY <1>13, MallocKeeps
<1>14. CASE MallocReturnsZero \/ CoreTraps \/ CoreRuns
  <2>1. PICK result \in Results :
         replies' = Append(replies, [id |-> current.id, method |-> current.method, result |-> result])
    BY <1>14 DEF MallocReturnsZero, CoreTraps, CoreRuns, Post, Results
  <2>2. replies' \in Seq(ReplyForm)
    BY <1>14, <2>1, PostTyped DEF MallocReturnsZero, CoreTraps, CoreRuns
  <2>. QED
    BY <1>14, <2>2, AnsweredKeeps DEF MallocReturnsZero, CoreTraps, CoreRuns
<1>15. CASE Free
  BY <1>15, FreeKeeps
<1>16. CASE FreeDone
  <2>1. allocated = <<>> /\ (mod => heap = {}) /\ state # "uninitialized"
    BY <1>16, CleanWhenNothingListed DEF FreeDone, WorkerIInv, Stage
  <2>. QED
    BY <1>16, <2>1, FinishKeeps, SettledState DEF FreeDone, WorkerIInv, WorkerTypeOK, WorkerTyped
<1>17. CASE FreeTraps
  BY <1>17, FinishKeeps DEF FreeTraps, WorkerIInv, WorkerTyped
<1>18. CASE UNCHANGED workerVars
  BY <1>18
     DEF workerVars, WorkerIInv, WorkerTypeOK, WorkerTyped, Stage, EachOnce, HeapKnown, Listed,
     AwaitsOutside
<1>. QED
  BY <1>1, <1>2, <1>3, <1>4, <1>5, <1>6, <1>7, <1>8, <1>9, <1>10, <1>11, <1>12, <1>13,
     <1>14, <1>15, <1>16, <1>17, <1>18 DEF WorkerNext, Handler

(* It holds always.                                                        *)
LEMMA WorkerKept == WorkerSpec => []WorkerIInv
  BY WorkerStart, WorkerStep, PTL DEF WorkerSpec

(* The heap is clean between two requests while the module is kept, and    *)
(* finally of handleTransform frees only what is allocated, each block     *)
(* once, whichever call failed.                                            *)
THEOREM WorkerInvariant == WorkerSpec => []WorkerInv
<1>1. WorkerIInv => WorkerInv
  <2>. SUFFICES ASSUME WorkerIInv PROVE WorkerInv
    OBVIOUS
  <2>1. HeapClean
    BY CleanWhenNothingListed DEF WorkerIInv, Stage, HeapClean
  <2>2. FreesOnlyLive
    <3>1. allocated \in Seq(Block) /\ DOMAIN allocated = 1 .. Len(allocated)
      BY DEF WorkerIInv, WorkerTyped
    <3>2. allocated # <<>> => heap = Listed
      BY DEF WorkerIInv, Stage, HeapKnown
    <3>. QED
      BY <3>1, <3>2 DEF FreesOnlyLive, Listed, WorkerIInv, EachOnce
  <2>. QED
    BY <2>1, <2>2 DEF WorkerInv, WorkerIInv
<1>. QED
  BY <1>1, WorkerKept, PTL

-----------------------------------------------------------------------------
(* Where the parts of a list meet does not matter.                         *)
LEMMA ThreeParts ==
  ASSUME NEW a \in Seq(Nat), NEW b \in Seq(Nat), NEW c \in Seq(Nat)
  PROVE  (a \o b) \o c = a \o (b \o c)
  BY ConcatAssociative

(* One in front moves the others by one place.                             *)
LEMMA InFront ==
  ASSUME NEW x \in Nat, NEW q \in Seq(Nat)
  PROVE  /\ <<x>> \o q \in Seq(Nat)
         /\ Len(<<x>> \o q) = 1 + Len(q)
         /\ (<<x>> \o q)[1] = x
         /\ \A i \in 1 .. Len(q) : (<<x>> \o q)[i + 1] = q[i]
<1>1. <<x>> \in Seq(Nat) /\ Len(<<x>>) = 1 /\ <<x>>[1] = x
  OBVIOUS
<1>. QED
  BY <1>1, ConcatProperties

(* What has an id: a request or a reply.                                   *)
Handled == AllRequests \cup ReplyForm

(* Ids are numbers.                                                        *)
LEMMA HandledIds == \A x \in Handled : x.id \in Nat
  BY WorkerAssumption, RequestShape DEF Handled, ReplyForm

(* The ids of a list, one by one.                                          *)
LEMMA IdsTyped ==
  ASSUME NEW s \in Seq(Handled)
  PROVE  /\ Ids(s) \in Seq(Nat)
         /\ Len(Ids(s)) = Len(s)
         /\ \A i \in 1 .. Len(s) : Ids(s)[i] = s[i].id
<1>1. Len(s) \in Nat /\ DOMAIN s = 1 .. Len(s) /\ \A i \in 1 .. Len(s) : s[i] \in Handled
  OBVIOUS
<1>2. Ids(s) = [i \in 1 .. Len(s) |-> s[i].id] /\ \A i \in 1 .. Len(s) : s[i].id \in Nat
  BY <1>1, HandledIds DEF Ids
<1>3. Ids(s) \in [1 .. Len(s) -> Nat]
  BY <1>2
<1>. QED
  BY <1>1, <1>2, <1>3, IsASeq, LenProperties

(* A new one comes last.                                                   *)
LEMMA IdsOfAppend ==
  ASSUME NEW s \in Seq(Handled), NEW e \in Handled
  PROVE  Ids(Append(s, e)) = Append(Ids(s), e.id)
<1>. DEFINE a == Append(s, e)
<1>1. /\ a \in Seq(Handled) /\ e.id \in Nat /\ Len(s) \in Nat /\ Len(a) = Len(s) + 1
      /\ \A i \in 1 .. Len(s) : a[i] = s[i]
      /\ a[Len(s) + 1] = e
  BY HandledIds
<1>. HIDE DEF a
<1>2. /\ Ids(s) \in Seq(Nat) /\ Len(Ids(s)) = Len(s)
      /\ \A i \in 1 .. Len(s) : Ids(s)[i] = s[i].id
  BY IdsTyped
<1>3. /\ Ids(a) \in Seq(Nat) /\ Len(Ids(a)) = Len(s) + 1
      /\ \A i \in 1 .. Len(s) + 1 : Ids(a)[i] = a[i].id
  BY <1>1, IdsTyped
<1>4. ASSUME NEW i \in 1 .. Len(s) + 1 PROVE Ids(a)[i] = Append(Ids(s), e.id)[i]
  <2>. DEFINE b == Ids(s)
  <2>1. b \in Seq(Nat) /\ Len(b) = Len(s) /\ Ids(a)[i] = a[i].id
    BY <1>2, <1>3
  <2>2. CASE i = Len(s) + 1
    BY <1>1, <2>1, <2>2
  <2>3. CASE i # Len(s) + 1
    <3>1. i \in 1 .. Len(s)
      BY <1>1, <2>3
    <3>2. b[i] = s[i].id
      BY <1>2, <3>1
    <3>. HIDE DEF b
    <3>3. Append(b, e.id)[i] = b[i]
      BY <1>1, <2>1, <3>1
    <3>. QED
      BY <1>1, <2>1, <3>1, <3>2, <3>3 DEF b
  <2>. QED
    BY <2>2, <2>3
<1>5. Append(Ids(s), e.id) \in Seq(Nat) /\ Len(Append(Ids(s), e.id)) = Len(s) + 1
  BY <1>1, <1>2
<1>6. Ids(a) = Append(Ids(s), e.id)
  BY <1>3, <1>4, <1>5, SeqEqual
<1>. QED
  BY <1>6 DEF a

(* The first one is the head of the ids.                                   *)
LEMMA IdsOfTail ==
  ASSUME NEW s \in Seq(Handled), s # <<>>
  PROVE  <<Head(s).id>> \o Ids(Tail(s)) = Ids(s)
<1>. DEFINE t == Tail(s)  x == Head(s).id  q == Ids(t)  all == Ids(s)
<1>1. /\ t \in Seq(Handled) /\ Len(s) \in Nat \ {0} /\ Len(t) = Len(s) - 1
      /\ \A i \in 1 .. Len(s) - 1 : t[i] = s[i + 1]
      /\ x \in Nat /\ x = s[1].id
  BY HandledIds
<1>2. all \in Seq(Nat) /\ Len(all) = Len(s) /\ \A i \in 1 .. Len(s) : all[i] = s[i].id
  BY IdsTyped
<1>3. q \in Seq(Nat) /\ Len(q) = Len(s) - 1 /\ \A i \in 1 .. Len(s) - 1 : q[i] = s[i + 1].id
  <2>. HIDE DEF t
  <2>. QED
    BY <1>1, IdsTyped
<1>. HIDE DEF t, x, q, all
<1>. DEFINE w == <<x>> \o q
<1>4. /\ w \in Seq(Nat) /\ Len(w) = Len(s)
      /\ w[1] = x /\ \A i \in 1 .. Len(q) : w[i + 1] = q[i]
  BY <1>1, <1>3, InFront
<1>. HIDE DEF w
<1>5. ASSUME NEW i \in 1 .. Len(s) PROVE w[i] = all[i]
  <2>1. CASE i = 1
    BY <1>1, <1>2, <1>4, <2>1
  <2>2. CASE i # 1
    <3>1. i - 1 \in 1 .. Len(s) - 1 /\ (i - 1) + 1 = i
      BY <1>1, <2>2
    <3>2. w[i] = q[i - 1] /\ q[i - 1] = s[i].id
      BY <1>3, <1>4, <3>1
    <3>. QED
      BY <1>2, <3>2
  <2>. QED
    BY <2>1, <2>2
<1>6. w = all
  BY <1>2, <1>4, <1>5, SeqEqual
<1>. QED
  BY <1>6 DEF w, t, x, q, all

(* What is answered, being handled and waiting, as one list.               *)
LEMMA IdsKnown ==
  ASSUME WorkerIInv
  PROVE  /\ queue \in Seq(Handled) /\ replies \in Seq(Handled)
         /\ Ids(queue) \in Seq(Nat) /\ Ids(replies) \in Seq(Nat)
         /\ InProgress \in Seq(Nat)
         /\ (pc # "idle" /\ pc # "free" => InProgress = <<current.id>>)
         /\ (pc = "idle" \/ pc = "free" => InProgress = <<>>)
         /\ current.id \in Nat
<1>1. queue \in Seq(AllRequests) /\ replies \in Seq(ReplyForm)
  BY DEF WorkerIInv, WorkerTypeOK, WorkerTyped, AllRequests
<1>2. AllRequests \subseteq Handled /\ ReplyForm \subseteq Handled
  BY DEF Handled
<1>3. queue \in Seq(Handled) /\ replies \in Seq(Handled)
  BY <1>1, <1>2, SeqMonotonic
<1>4. current.id \in Nat
  BY RequestShape, WorkerAssumption DEF WorkerIInv, WorkerTyped, NoRequest
<1>5. /\ pc # "idle" /\ pc # "free" => InProgress = <<current.id>>
      /\ pc = "idle" \/ pc = "free" => InProgress = <<>>
  BY DEF InProgress, WorkerIInv, Stage
<1>. QED
  <2>1. Ids(queue) \in Seq(Nat) /\ Ids(replies) \in Seq(Nat)
    BY <1>3, IdsTyped
  <2>2. InProgress \in Seq(Nat)
    BY <1>4 DEF InProgress
  <2>. QED
    BY <1>3, <1>4, <1>5, <2>1, <2>2

(* The request being handled becomes the last reply.                       *)
LEMMA AnswerKeepsOrder ==
  ASSUME WorkerIInv, WorkerIInv', RepliesInOrder,
         pc # "idle", pc # "free", pc' \in {"idle", "free"},
         NEW result \in Results,
         replies' = Append(replies, [id |-> current.id, method |-> current.method, result |-> result]),
         UNCHANGED <<queue, received>>
  PROVE  RepliesInOrder'
<1>. DEFINE e == [id |-> current.id, method |-> current.method, result |-> result]
<1>1. e \in Handled /\ e.id = current.id
  BY IdsKnown, RequestShape DEF ReplyForm, Handled, WorkerIInv, WorkerTyped, Stage
<1>2. Ids(replies') = Append(Ids(replies), current.id)
  BY <1>1, IdsKnown, IdsOfAppend
<1>3. InProgress = <<current.id>>
  BY IdsKnown
<1>4. InProgress' = <<>>
  BY DEF WorkerIInv, Stage, InProgress
<1>5. /\ Ids(replies) \in Seq(Nat) /\ Ids(queue) \in Seq(Nat) /\ current.id \in Nat
      /\ received = Ids(replies) \o InProgress \o Ids(queue)
  BY IdsKnown DEF RepliesInOrder
<1>6. Ids(replies) \o <<current.id>> = Append(Ids(replies), current.id)
  BY <1>5, AppendIsConcat
<1>7. Ids(replies') \o InProgress' = Append(Ids(replies), current.id)
  BY <1>2, <1>4, <1>5, ConcatEmptySeq
<1>8. Ids(replies)' = Ids(replies') /\ Ids(queue)' = Ids(queue)
  BY DEF Ids
<1>. QED
  BY <1>3, <1>5, <1>6, <1>7, <1>8 DEF RepliesInOrder

(* No turn drops, repeats or overtakes a request.                          *)
LEMMA StepKeepsOrder ==
  WorkerIInv /\ WorkerIInv' /\ RepliesInOrder /\ [WorkerNext]_workerVars => RepliesInOrder'
<1>. SUFFICES ASSUME WorkerIInv, WorkerIInv', RepliesInOrder, [WorkerNext]_workerVars
              PROVE  RepliesInOrder'
  OBVIOUS
<1>1. CASE UNCHANGED <<replies, queue, received>> /\ InProgress' = InProgress
  BY <1>1 DEF RepliesInOrder, Ids
<1>2. CASE Receive
  <2>1. PICK req \in Requests(Len(received) + 1) : queue' = Append(queue, req)
    BY <1>2 DEF Receive
  <2>2. req.id = Len(received) + 1 /\ req \in Handled
    <3>1. Len(received) \in Nat /\ Len(received) < MaxRequests
      BY <1>2, WorkerAssumption DEF Receive, WorkerIInv, WorkerTypeOK, WorkerTyped
    <3>. QED
      BY <3>1, WorkerAssumption DEF Requests, AllRequests, Handled
  <2>3. Ids(queue') = Append(Ids(queue), req.id) /\ req.id \in Nat
    BY <2>1, <2>2, IdsKnown, IdsOfAppend, HandledIds
  <2>4. InProgress' = InProgress /\ replies' = replies
    BY <1>2 DEF Receive, InProgress
  <2>5. /\ Ids(replies) \o InProgress \in Seq(Nat) /\ Ids(queue) \in Seq(Nat)
    BY IdsKnown
  <2>6. (Ids(replies) \o InProgress) \o Append(Ids(queue), req.id)
          = Append((Ids(replies) \o InProgress) \o Ids(queue), req.id)
    <3>. DEFINE m == Ids(replies) \o InProgress  q == Ids(queue)
    <3>1. m \in Seq(Nat) /\ q \in Seq(Nat) /\ req.id \in Nat
      BY <2>3, <2>5
    <3>. HIDE DEF m, q
    <3>2. m \o Append(q, req.id) = Append(m \o q, req.id)
      BY <3>1, ConcatAssociative, AppendIsConcat, ConcatProperties
    <3>. QED
      BY <3>2 DEF m, q
  <2>7. received' = Append(received, req.id)
    BY <1>2, <2>2 DEF Receive
  <2>8. Ids(replies)' = Ids(replies) /\ Ids(queue)' = Ids(queue')
    BY <2>4 DEF Ids
  <2>. QED
    BY <2>3, <2>4, <2>6, <2>7, <2>8 DEF RepliesInOrder
<1>3. CASE Start
  <2>1. queue # <<>> /\ pc = "idle" /\ current' = Head(queue) /\ queue' = Tail(queue)
        /\ replies' = replies /\ received' = received
    BY <1>3 DEF Start
  <2>2. Head(queue) \in AllRequests /\ Tail(queue) \in Seq(Handled) /\ Head(queue).id \in Nat
    <3>1. queue \in Seq(AllRequests)
      BY DEF WorkerIInv, WorkerTypeOK, AllRequests
    <3>. QED
      BY <2>1, <3>1, IdsKnown, HandledIds DEF Handled
  <2>3. InProgress = <<>>
    BY <2>1, IdsKnown
  <2>4. InProgress' = <<Head(queue).id>>
    <3>1. pc' \in Methods /\ current' # NoRequest
      BY <1>3, <2>1, <2>2, RequestShape DEF Start
    <3>. QED
      BY <2>1, <3>1 DEF InProgress, Methods
  <2>5. <<Head(queue).id>> \o Ids(queue') = Ids(queue)
    BY <2>1, IdsKnown, IdsOfTail
  <2>6. Ids(queue') \in Seq(Nat) /\ <<Head(queue).id>> \in Seq(Nat) /\ Ids(replies) \in Seq(Nat)
    <3>1. Ids(Tail(queue)) \in Seq(Nat)
      BY <2>2, IdsTyped
    <3>2. <<Head(queue).id>> \in Seq(Nat)
      BY <2>2
    <3>. QED
      BY <2>1, <3>1, <3>2, IdsKnown
  <2>7. Ids(replies) \o <<>> = Ids(replies)
    BY <2>6, ConcatEmptySeq
  <2>8. (Ids(replies) \o <<Head(queue).id>>) \o Ids(queue') = Ids(replies) \o Ids(queue)
    <3>. DEFINE m == Ids(replies)  h == <<Head(queue).id>>  q == Ids(queue')
    <3>1. m \in Seq(Nat) /\ h \in Seq(Nat) /\ q \in Seq(Nat)
      BY <2>6
    <3>2. h \o q = Ids(queue)
      BY <2>5
    <3>. HIDE DEF m, h, q
    <3>3. (m \o h) \o q = m \o (h \o q)
      BY <3>1, ThreeParts
    <3>. QED
      BY <3>2, <3>3 DEF m, h, q
  <2>9. Ids(replies)' = Ids(replies) /\ Ids(queue)' = Ids(queue')
    BY <2>1 DEF Ids
  <2>. QED
    BY <2>1, <2>3, <2>4, <2>7, <2>8, <2>9 DEF RepliesInOrder
<1>4. CASE \E result \in Results :
             /\ replies' = Append(replies, [id |-> current.id, method |-> current.method, result |-> result])
             /\ pc # "idle" /\ pc # "free" /\ pc' \in {"idle", "free"}
             /\ UNCHANGED <<queue, received>>
  BY <1>4, AnswerKeepsOrder
<1>5. CASE ReceiveMalformed \/ OnError \/ BeginInit \/ BeginTransform \/ Malloc \/ Free
           \/ FreeDone \/ FreeTraps
  <2>1. UNCHANGED <<replies, queue, received>>
    BY <1>5 DEF ReceiveMalformed, OnError, BeginInit, BeginTransform, Malloc, Free, FreeDone,
       FreeTraps
  <2>2. InProgress' = InProgress
    <3>1. CASE ReceiveMalformed \/ OnError \/ Malloc \/ Free
      BY <3>1 DEF InProgress, ReceiveMalformed, OnError, Malloc, Free
    <3>2. CASE BeginInit \/ BeginTransform
      BY <3>2 DEF InProgress, BeginInit, BeginTransform
    <3>3. CASE FreeDone \/ FreeTraps
      BY <3>3 DEF InProgress, FreeDone, FreeTraps, Finish
    <3>. QED
      BY <1>5, <3>1, <3>2, <3>3
  <2>. QED
    BY <1>1, <2>1, <2>2
<1>6. CASE RejectInit \/ RefuseUrls \/ Instantiated \/ GetInfo \/ RefuseTransform
           \/ MallocReturnsZero \/ CoreTraps \/ CoreRuns
  BY <1>4, <1>6 DEF RejectInit, RefuseUrls, Instantiated, GetInfo, RefuseTransform,
     MallocReturnsZero, CoreTraps, CoreRuns, Post, Finish, Results
<1>7. CASE Imported
  <2>1. CASE pc' = "instantiating" /\ UNCHANGED <<state, replies, current>>
    BY <1>1, <1>7, <2>1 DEF Imported, InProgress
  <2>2. CASE state' = "failed" /\ Post("INITIALIZATION_FAILED") /\ Finish
    BY <1>4, <1>7, <2>2 DEF Imported, Post, Finish, Results
  <2>. QED
    BY <1>7, <2>1, <2>2 DEF Imported
<1>8. CASE UNCHANGED workerVars
  BY <1>1, <1>8 DEF workerVars, InProgress
<1>. QED
  BY <1>2, <1>3, <1>5, <1>6, <1>7, <1>8 DEF WorkerNext, Handler

(* The SerialQueue of core.worker.ts answers every request once and in the *)
(* order of arrival, for every number of requests.                         *)
THEOREM WorkerRepliesInOrder == WorkerSpec => []RepliesInOrder
<1>1. WorkerInit => RepliesInOrder
  BY DEF WorkerInit, RepliesInOrder, Ids, InProgress
<1>. QED
  BY <1>1, WorkerKept, StepKeepsOrder, PTL DEF WorkerSpec

(* The reply just posted, as the contract of the worker reads it.          *)
LEMMA Posted ==
  ASSUME WorkerIInv, pc # "idle", NEW result, Post(result)
  PROVE  /\ Len(replies') = Len(replies) + 1
         /\ SubSeq(replies', 1, Len(replies)) = replies
         /\ replies'[Len(replies')].method = current.method
         /\ replies'[Len(replies')].result = result
<1>. DEFINE r == [id |-> current.id, method |-> current.method, result |-> result]
<1>1. replies \in Seq(ReplyForm \cup {r}) /\ Len(replies) \in Nat
  BY SeqMonotonic DEF WorkerIInv, WorkerTyped
<1>2. replies' = Append(replies, r) /\ r.method = current.method /\ r.result = result
  BY DEF Post
<1>. HIDE DEF r
<1>3. Len(replies') = Len(replies) + 1 /\ replies'[Len(replies')] = r
  BY <1>1, <1>2
<1>4. SubSeq(replies', 1, Len(replies)) = replies
  <2>. DEFINE S == ReplyForm \cup {r}  n == Len(replies)
  <2>1. replies \in Seq(S) /\ <<r>> \in Seq(S) /\ replies' = replies \o <<r>> /\ n \in Nat
    BY <1>1, <1>2, AppendIsConcat
  <2>. HIDE DEF S
  <2>2. SubSeq(replies \o <<r>>, 1, n) = SubSeq(replies, 1, n)
    BY <2>1, SubSeqOfConcat1
  <2>. QED
    BY <2>1, <2>2, SubSeqFull
<1>. QED
  BY <1>2, <1>3, <1>4

(* What the page knows of the worker's state.                              *)
Seen == IF AwaitsOutside THEN "uninitialized" ELSE state

(* The reply just posted is an answer of the contract.                     *)
LEMMA PostIsAnswer ==
  ASSUME WorkerIInv, pc # "idle", NEW result, Post(result),
         <<result, Seen'>> \in ToPage!Answers(current.method)
  PROVE  ToPage!Next
<1>1. current.method \in Methods
  BY RequestShape DEF WorkerIInv, WorkerTyped, Stage
<1>2. ToPage!Answer(current.method)
  BY Posted DEF ToPage!Answer, Seen
<1>. QED
  BY <1>1, <1>2 DEF ToPage!Next, ToPage!Methods, Methods

(* Every turn of the worker is a step of the contract or none.             *)
LEMMA WorkerSimulates ==
  WorkerIInv /\ [WorkerNext]_workerVars => [ToPage!Next]_<<Seen, replies>>
<1>. SUFFICES ASSUME WorkerIInv, [WorkerNext]_workerVars
              PROVE  ToPage!Next \/ UNCHANGED <<Seen, replies>>
  OBVIOUS
<1>1. CASE Receive \/ Start \/ BeginTransform \/ Malloc \/ Free \/ FreeDone
           \/ UNCHANGED workerVars
  <2>1. UNCHANGED <<replies, state>>
    BY <1>1 DEF Receive, Start, BeginTransform, Malloc, Free, FreeDone, workerVars
  <2>2. AwaitsOutside' <=> AwaitsOutside
    <3>1. CASE Receive \/ Malloc \/ Free \/ UNCHANGED workerVars
      BY <3>1 DEF Receive, Malloc, Free, workerVars, AwaitsOutside
    <3>2. CASE Start
      <4>1. pc' \in Methods /\ pc = "idle"
        <5>1. queue \in Seq(AllRequests) /\ queue # <<>>
          BY <3>2 DEF Start, WorkerIInv, WorkerTypeOK, AllRequests
        <5>2. Head(queue) \in AllRequests
          BY <5>1
        <5>. QED
          BY <3>2, <5>2, RequestShape DEF Start
      <4>. QED
        BY <4>1 DEF Methods, AwaitsOutside
    <3>3. CASE BeginTransform \/ FreeDone
      BY <3>3 DEF BeginTransform, FreeDone, Finish, AwaitsOutside
    <3>. QED
      BY <1>1, <3>1, <3>2, <3>3
  <2>. QED
    BY <2>1, <2>2 DEF Seen
<1>2. CASE ReceiveMalformed \/ OnError
  <2>1. state' = "failed" /\ replies' = replies /\ pc' = pc
    BY <1>2 DEF ReceiveMalformed, OnError
  <2>. QED
    BY <2>1 DEF ToPage!Next, ToPage!Break, Seen, AwaitsOutside
<1>3. CASE RejectInit \/ RefuseUrls
  <2>1. /\ pc = "init" /\ pc' = "idle" /\ current.method = "init"
        /\ Post("INITIALIZATION_FAILED")
        /\ \/ state # "uninitialized" /\ state' = state
           \/ state = "uninitialized" /\ state' = "failed"
    BY <1>3 DEF RejectInit, RefuseUrls, Finish, WorkerIInv, Stage
  <2>2. Seen = state /\ Seen' = state'
    BY <2>1 DEF Seen, AwaitsOutside
  <2>3. <<"INITIALIZATION_FAILED", Seen'>> \in ToPage!Answers(current.method)
    BY <2>1, <2>2 DEF ToPage!Answers, Seen
  <2>. QED
    BY <2>1, <2>3, PostIsAnswer
<1>4. CASE BeginInit
  BY <1>4 DEF BeginInit, Seen, AwaitsOutside
<1>5. CASE Imported \/ Instantiated
  <2>1. Seen = "uninitialized" /\ current.method = "init" /\ pc # "idle"
    BY <1>5 DEF Imported, Instantiated, WorkerIInv, Stage, Seen, AwaitsOutside
  <2>2. CASE pc' = "instantiating" /\ UNCHANGED <<state, replies, current>>
    BY <2>1, <2>2 DEF Seen, AwaitsOutside
  <2>3. CASE Finish /\ Post("ok") /\ state' = "ready"
    <3>1. <<"ok", Seen'>> \in ToPage!Answers(current.method)
      BY <2>1, <2>3 DEF ToPage!Answers, Seen, AwaitsOutside, Finish
    <3>. QED
      BY <2>1, <2>3, <3>1, PostIsAnswer
  <2>4. CASE Finish /\ state' = "failed"
             /\ \E code \in {"INITIALIZATION_FAILED", "ABI_MISMATCH"} : Post(code)
    <3>1. PICK code \in {"INITIALIZATION_FAILED", "ABI_MISMATCH"} : Post(code)
      BY <2>4
    <3>2. <<code, Seen'>> \in ToPage!Answers(current.method)
      BY <2>1, <2>4 DEF ToPage!Answers, Seen, AwaitsOutside, Finish
    <3>. QED
      BY <2>1, <3>1, <3>2, PostIsAnswer
  <2>. QED
    BY <1>5, <2>2, <2>3, <2>4 DEF Imported, Instantiated
<1>6. CASE GetInfo
  <2>1. /\ pc = "getInfo" /\ pc' = "idle" /\ current.method = "getInfo"
        /\ Seen = state /\ Seen' = state' /\ (state = "ready" => mod)
    BY <1>6 DEF GetInfo, Finish, WorkerIInv, WorkerTypeOK, Stage, Seen, AwaitsOutside
  <2>2. CASE state = "ready" /\ Post("ok") /\ state' = state
    <3>1. <<"ok", Seen'>> \in ToPage!Answers(current.method)
      BY <2>1, <2>2 DEF ToPage!Answers, Seen
    <3>. QED
      BY <2>1, <2>2, <3>1, PostIsAnswer
  <2>3. CASE state = "ready" /\ state' = "failed"
             /\ \E code \in {"ABI_MISMATCH", "CORE_FAILURE"} : Post(code)
    <3>1. PICK code \in {"ABI_MISMATCH", "CORE_FAILURE"} : Post(code)
      BY <2>3
    <3>2. <<code, Seen'>> \in ToPage!Answers(current.method)
      BY <2>1, <2>3 DEF ToPage!Answers, Seen
    <3>. QED
      BY <2>1, <3>1, <3>2, PostIsAnswer
  <2>4. CASE state # "ready" /\ Post("INITIALIZATION_FAILED") /\ state' = state
    <3>1. <<"INITIALIZATION_FAILED", Seen'>> \in ToPage!Answers(current.method)
      BY <2>1, <2>4 DEF ToPage!Answers, Seen
    <3>. QED
      BY <2>1, <2>4, <3>1, PostIsAnswer
  <2>. QED
    BY <1>6, <2>1, <2>2, <2>3, <2>4 DEF GetInfo
<1>7. CASE RefuseTransform \/ MallocReturnsZero \/ CoreTraps \/ CoreRuns
  <2>1. /\ pc \in {"transform", "alloc"} /\ pc' \in {"idle", "free"}
        /\ current.method = "transform"
        /\ Seen = state /\ Seen' = state' /\ (state = "ready" => mod)
    BY <1>7 DEF RefuseTransform, MallocReturnsZero, CoreTraps, CoreRuns, Finish, WorkerIInv,
       WorkerTypeOK, Stage, Seen, AwaitsOutside, Transforms
  <2>2. CASE state # "ready" /\ Post("INITIALIZATION_FAILED") /\ state' = state
    <3>1. <<"INITIALIZATION_FAILED", Seen'>> \in ToPage!Answers(current.method)
      BY <2>1, <2>2 DEF ToPage!Answers, Seen
    <3>. QED
      BY <2>1, <2>2, <3>1, PostIsAnswer
  <2>3. CASE /\ state = "ready"
             /\ \/ /\ \E code \in {"ok", "INVALID_ARGUMENT", "OUT_OF_MEMORY"} : Post(code)
                   /\ state' = state
                \/ Post("CORE_FAILURE") /\ state' = "failed"
    <3>1. PICK code \in {"ok", "INVALID_ARGUMENT", "OUT_OF_MEMORY", "CORE_FAILURE"} :
            /\ Post(code)
            /\ \/ code = "CORE_FAILURE" /\ state' = "failed"
               \/ code # "CORE_FAILURE" /\ state' = "ready"
      BY <2>3
    <3>2. <<code, Seen'>> \in ToPage!Answers(current.method)
      BY <2>1, <2>3, <3>1 DEF ToPage!Answers, Seen
    <3>. QED
      BY <2>1, <3>1, <3>2, PostIsAnswer
  <2>. QED
    BY <1>7, <2>1, <2>2, <2>3 DEF RefuseTransform, MallocReturnsZero, CoreTraps, CoreRuns,
       WorkerIInv, Stage
<1>8. CASE FreeTraps
  BY <1>8 DEF FreeTraps, Finish, ToPage!Next, ToPage!Break, Seen, AwaitsOutside
<1>. QED
  BY <1>1, <1>2, <1>3, <1>4, <1>5, <1>6, <1>7, <1>8 DEF WorkerNext, Handler

(* Whatever is sent to the worker and whatever fails in it, its replies are*)
(* those its contract allows: init succeeds once at most, nothing before   *)
(* it, and a worker that has failed answers nothing but errors, but for    *)
(* the init that is loading meanwhile.                                     *)
THEOREM WorkerImplementsContract == WorkerSpec => ImplementsContract
<1>1. WorkerInit => ToPage!Init
  BY DEF WorkerInit, ToPage!Init, AwaitsOutside
<1>2. WorkerIInv /\ [WorkerNext]_workerVars => [ToPage!Next]_<<Seen, replies>>
  BY WorkerSimulates
<1>. QED
  BY <1>1, <1>2, WorkerKept, PTL DEF WorkerSpec, ImplementsContract, ToPage!Spec, Seen
=============================================================================
