------------------------------- MODULE DemoUi -------------------------------
(***************************************************************************)
(* apps/demo/ui.ts: the page that creates a backend, runs requests on it,  *)
(* disposes it and creates the next.  Creating, asking for the info and    *)
(* running take many turns of the event loop, and the user may click in    *)
(* between; a generation number tells a completion whether it still        *)
(* matters.                                                                *)
(*                                                                         *)
(* A backend instance is what ApplicationApi says it is: it settles its    *)
(* factory, may break at any time, and rejects everything when disposed.   *)
(* Rejections caused by a dispose reach their continuations a few          *)
(* microtasks later; the model lets them come at any later time.           *)
(***************************************************************************)
EXTENDS Integers, FiniteSets

CONSTANT MaxInstances   (* bound on the backends created in one session    *)

ASSUME UiAssumption == MaxInstances \in Nat \ {0}

VARIABLES generation,
          backend,      (* the instance the page holds, 0 for null         *)
          uiState,
          busy,
          runEnabled,   (* ~runBtn.disabled, ~selfBtn.disabled             *)
          reinitEnabled,
          shown,        (* generation whose result is shown, 0 for none    *)
          instance,     (* sequence of instances and how each is           *)
          setups,       (* setupBackend calls that have not ended          *)
          tasks         (* withBusy tasks that have not ended              *)

vars == <<generation, backend, uiState, busy, runEnabled, reinitEnabled, shown,
          instance, setups, tasks>>

Instances == DOMAIN instance
Creating(i) == instance[i] = "creating"
Live(i) == instance[i] = "live"

(* setButtonsEnabled, called with the state the turn ends in.              *)
SetButtonsEnabled(ui, b) ==
  /\ runEnabled' = (ui = "ready" /\ ~b)
  /\ reinitEnabled' = ~b

Setup(gen, i, step) == [gen |-> gen, inst |-> i, step |-> step]
IsCurrent(x) == x.gen = generation

(* boot: buttons are set, then the first setupBackend begins.              *)
Init ==
  /\ generation = 1
  /\ backend = 0
  /\ uiState = "initializing"
  /\ busy = FALSE
  /\ runEnabled = FALSE
  /\ reinitEnabled = TRUE
  /\ shown = 0
  /\ instance = [i \in {1} |-> "creating"]
  /\ setups = {Setup(1, 1, "factory")}
  /\ tasks = {}

-----------------------------------------------------------------------------
(* setupBackend after createBackend.                                       *)

(* Mutant: an instance that comes too late is dropped, not disposed.       *)
CreationForgets(s) ==
  /\ s.step = "factory"
  /\ instance' = [instance EXCEPT ![s.inst] = "live"]
  /\ IF IsCurrent(s)
     THEN /\ backend' = s.inst
          /\ setups' = (setups \ {s}) \cup {Setup(s.gen, s.inst, "info")}
     ELSE /\ setups' = setups \ {s}
          /\ UNCHANGED backend
  /\ UNCHANGED <<generation, uiState, busy, runEnabled, reinitEnabled, shown, tasks>>

CreationSucceeds(s) ==
  /\ s.step = "factory"
  /\ IF IsCurrent(s)
     THEN /\ instance' = [instance EXCEPT ![s.inst] = "live"]
          /\ backend' = s.inst
          /\ setups' = (setups \ {s}) \cup {Setup(s.gen, s.inst, "info")}
     ELSE /\ instance' = [instance EXCEPT ![s.inst] = "disposed"]
          /\ setups' = setups \ {s}
          /\ UNCHANGED backend
  /\ UNCHANGED <<generation, uiState, busy, runEnabled, reinitEnabled, shown, tasks>>

CreationFails(s) ==
  /\ s.step = "factory"
  /\ instance' = [instance EXCEPT ![s.inst] = "failed"]
  /\ setups' = setups \ {s}
  /\ IF IsCurrent(s)
     THEN uiState' = "failed" /\ SetButtonsEnabled("failed", busy)
     ELSE UNCHANGED <<uiState, runEnabled, reinitEnabled>>
  /\ UNCHANGED <<generation, backend, busy, shown, tasks>>

(* getInfo of the new instance.  It is answered only while the instance    *)
(* lives, and then nobody has moved the generation on.                     *)
InfoArrives(s) ==
  /\ s.step = "info"
  /\ Live(s.inst)
  /\ setups' = setups \ {s}
  /\ uiState' = "ready"
  /\ SetButtonsEnabled("ready", busy)
  /\ UNCHANGED <<generation, backend, busy, shown, instance, tasks>>

(* Mutant: the failure of getInfo is swallowed.                            *)
InfoFailsSilently(s) ==
  /\ s.step = "info"
  /\ instance' = [instance EXCEPT ![s.inst] = IF Live(s.inst) THEN "failed" ELSE @]
  /\ setups' = setups \ {s}
  /\ UNCHANGED <<generation, backend, uiState, busy, runEnabled, reinitEnabled,
                 shown, tasks>>

InfoFails(s) ==
  /\ s.step = "info"
  /\ instance' = [instance EXCEPT ![s.inst] = IF Live(s.inst) THEN "failed" ELSE @]
  /\ setups' = setups \ {s}
  /\ IF IsCurrent(s)
     THEN uiState' = "failed" /\ SetButtonsEnabled("failed", busy)
     ELSE UNCHANGED <<uiState, runEnabled, reinitEnabled>>
  /\ UNCHANGED <<generation, backend, busy, shown, tasks>>

-----------------------------------------------------------------------------
(* Clicks.                                                                 *)

(* withBusy up to the first await of its task, for the run and self-test   *)
(* buttons.                                                                *)
ClickTask(kind) ==
  /\ runEnabled
  /\ backend # 0 /\ uiState = "ready" /\ ~busy
  /\ busy' = TRUE
  /\ SetButtonsEnabled(uiState, TRUE)
  /\ tasks' = tasks \cup {[gen |-> generation, inst |-> backend, kind |-> kind]}
  /\ UNCHANGED <<generation, backend, uiState, shown, instance, setups>>

DisposeHeld ==
  instance' = [i \in Instances |-> IF i = backend THEN "disposed" ELSE instance[i]]

ClickDispose ==
  /\ backend' = 0
  /\ generation' = generation + 1
  /\ busy' = FALSE
  /\ DisposeHeld
  /\ shown' = 0
  /\ uiState' = "disposed"
  /\ SetButtonsEnabled("disposed", FALSE)
  /\ UNCHANGED <<setups, tasks>>

(* The old instance is disposed before the next is created, in one turn:   *)
(* dispose of either backend needs no answer from outside.  The generation *)
(* moves by two.                                                           *)
ClickReinit ==
  /\ reinitEnabled /\ ~busy
  /\ Cardinality(Instances) < MaxInstances
  /\ generation' = generation + 2
  /\ LET new == Cardinality(Instances) + 1 IN
     /\ instance' = [i \in 1 .. new |->
                       IF i = new THEN "creating"
                       ELSE IF i = backend THEN "disposed" ELSE instance[i]]
     /\ setups' = setups \cup {Setup(generation + 2, new, "factory")}
  /\ backend' = 0
  /\ uiState' = "initializing"
  /\ SetButtonsEnabled("initializing", busy)
  /\ UNCHANGED <<busy, shown, tasks>>

-----------------------------------------------------------------------------
(* Completions of a task.                                                  *)

(* Mutant: a task of an older backend ends the busy of the next.           *)
EndTaskStale(t, ui) ==
  /\ tasks' = tasks \ {t}
  /\ busy' = FALSE
  /\ SetButtonsEnabled(ui, FALSE)

(* finally of withBusy; ui is the state the task left.                     *)
EndTask(t, ui) ==
  /\ tasks' = tasks \ {t}
  /\ IF IsCurrent(t)
     THEN busy' = FALSE /\ SetButtonsEnabled(ui, FALSE)
     ELSE UNCHANGED <<busy, runEnabled, reinitEnabled>>

RunSucceeds(t) ==
  /\ t.kind = "run"
  /\ Live(t.inst)
  /\ shown' = IF IsCurrent(t) THEN generation ELSE shown
  /\ EndTask(t, uiState)
  /\ UNCHANGED <<generation, backend, uiState, instance, setups>>

(* Rejected because of its input: the instance lives on.                   *)
RunRejected(t) ==
  /\ t.kind = "run"
  /\ Live(t.inst)
  /\ shown' = IF IsCurrent(t) THEN 0 ELSE shown
  /\ EndTask(t, uiState)
  /\ UNCHANGED <<generation, backend, uiState, instance, setups>>

(* Mutant: the rejection is shown without comparing the generation.        *)
RunFatalStale(t, code) ==
  /\ t.kind = "run"
  /\ (instance[t.inst] = "disposed") = (code = "DISPOSED")
  /\ instance' = [instance EXCEPT ![t.inst] = IF Live(t.inst) THEN "failed" ELSE @]
  /\ shown' = 0
  /\ uiState' = IF code = "listed" THEN "failed" ELSE uiState
  /\ EndTask(t, uiState')
  /\ UNCHANGED <<generation, backend, setups>>

(* Rejected because the instance broke, broke earlier or was disposed.     *)
(* INITIALIZATION_FAILED, which a worker without its module answers, is    *)
(* not among the codes that set the state.                                 *)
RunFatal(t, code) ==
  /\ t.kind = "run"
  /\ (instance[t.inst] = "disposed") = (code = "DISPOSED")
  /\ instance' = [instance EXCEPT ![t.inst] = IF Live(t.inst) THEN "failed" ELSE @]
  /\ shown' = IF IsCurrent(t) THEN 0 ELSE shown
  /\ uiState' = IF IsCurrent(t) /\ code = "listed" THEN "failed" ELSE uiState
  /\ EndTask(t, uiState')
  /\ UNCHANGED <<generation, backend, setups>>

FatalKinds == {"listed", "INITIALIZATION_FAILED", "DISPOSED"}

(* The self-test notes every rejection and always returns; it may have     *)
(* broken the instance.                                                    *)
SelfTestEnds(t) ==
  /\ t.kind = "selftest"
  /\ \/ UNCHANGED instance
     \/ Live(t.inst) /\ instance' = [instance EXCEPT ![t.inst] = "failed"]
  /\ EndTask(t, uiState)
  /\ UNCHANGED <<generation, backend, uiState, shown, setups>>

(* A worker error, a bad message: the page is not told.                    *)
InstanceBreaks(i) ==
  /\ Live(i)
  /\ instance' = [instance EXCEPT ![i] = "failed"]
  /\ UNCHANGED <<generation, backend, uiState, busy, runEnabled, reinitEnabled,
                 shown, setups, tasks>>

-----------------------------------------------------------------------------
SetupStep(s) ==
  CreationSucceeds(s) \/ CreationFails(s) \/ InfoArrives(s) \/ InfoFails(s)

TaskStep(t) ==
  \/ RunSucceeds(t) \/ RunRejected(t)
  \/ \E code \in FatalKinds : RunFatal(t, code)
  \/ SelfTestEnds(t)

Click ==
  \/ \E kind \in {"run", "selftest"} : ClickTask(kind)
  \/ ClickDispose
  \/ ClickReinit

MaxGeneration == 2 * MaxInstances + 2

(* Clicks are bounded by the generations they use up.                      *)
Next ==
  \/ \E s \in setups : SetupStep(s)
  \/ \E t \in tasks : TaskStep(t)
  \/ generation + 2 <= MaxGeneration /\ Click
  \/ \E i \in Instances : InstanceBreaks(i)

Spec == Init /\ [][Next]_vars

(* The factory and every request settle: the backends' timers see to it.   *)
FairSpec ==
  /\ Spec
  /\ WF_vars(\E s \in setups : SetupStep(s))
  /\ WF_vars(\E t \in tasks : TaskStep(t))

-----------------------------------------------------------------------------
(* The type of every variable.                                             *)
TypeOK ==
  /\ generation \in 1 .. MaxGeneration
  /\ backend \in {0} \cup Instances
  /\ uiState \in {"initializing", "ready", "failed", "disposed"}
  /\ busy \in BOOLEAN /\ runEnabled \in BOOLEAN /\ reinitEnabled \in BOOLEAN
  /\ shown \in 0 .. generation
  /\ instance \in [Instances -> {"creating", "live", "failed", "disposed"}]
  /\ setups \subseteq [gen : 1 .. generation, inst : Instances, step : {"factory", "info"}]
  /\ tasks \subseteq [gen : 1 .. generation, inst : Instances, kind : {"run", "selftest"}]

(* Every instance that is alive is the one the page holds: whatever was    *)
(* clicked while a factory was pending, an instance that comes too late is *)
(* disposed and none is forgotten.                                         *)
NoInstanceForgotten == \A i \in Instances : Live(i) => i = backend

(* The page shows initializing exactly while the setup of this generation  *)
(* runs; no older factory completion or error changes what it shows.       *)
InitializingIsCurrent ==
  (uiState = "initializing") = (\E s \in setups : IsCurrent(s))

(* Ready means that the page holds an instance that was not disposed.      *)
ReadyHoldsBackend ==
  uiState = "ready" => backend # 0 /\ instance[backend] \in {"live", "failed"}

(* The page is busy exactly while one task of this generation runs, so a   *)
(* task that outlives its backend neither blocks nor unblocks the next.    *)
BusyIsCurrentTask ==
  Cardinality({t \in tasks : IsCurrent(t)}) = IF busy THEN 1 ELSE 0

(* The buttons tell the truth at the end of every turn.                    *)
ButtonsTruthful ==
  /\ runEnabled = (uiState = "ready" /\ ~busy)
  /\ reinitEnabled = ~busy

(* What the page shows is true of this generation.                         *)
Inv ==
  /\ TypeOK
  /\ InitializingIsCurrent
  /\ ReadyHoldsBackend
  /\ BusyIsCurrentTask
  /\ ButtonsTruthful

(* What an older generation has left behind, a factory, a getInfo or a     *)
(* task, changes nothing on the page when it ends, however it ends.        *)
StaleChangesNothing ==
  [][\A x \in (setups \ setups') \cup (tasks \ tasks') :
       x.gen # generation =>
         UNCHANGED <<uiState, shown, busy, runEnabled, reinitEnabled, backend>>]_vars

(* The page does not stay in initializing, nor busy.                       *)
EveryWaitEnds ==
  /\ uiState = "initializing" ~> uiState # "initializing"
  /\ busy ~> ~busy

(* A new backend is created only when no creation is still pending         *)
(* (docs/plan/04-contracts.md, 134).                                       *)
OneCreationAtATime == Cardinality({i \in Instances : Creating(i)}) <= 1
=============================================================================
