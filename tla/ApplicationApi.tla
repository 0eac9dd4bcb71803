--------------------------- MODULE ApplicationApi ---------------------------
(***************************************************************************)
(* What packages/api/application-api.ts and the lifecycle rules promise    *)
(* the user interface, whatever backend stands behind: a factory that      *)
(* settles once, getInfo and transform calls that settle once, and a       *)
(* dispose that ends everything with DISPOSED.  No ids, timers, workers or *)
(* messages appear here; the backends are shown to implement it.           *)
(***************************************************************************)
EXTENDS Integers, FiniteSets

CONSTANTS Calls,        (* the getInfo and transform calls of one user     *)
          MaxPending    (* how many may be unanswered                      *)

VARIABLES phase,        (* creating, ready, failed, disposed               *)
          cause,        (* why it failed, "none" while it has not          *)
          factory,      (* the promise of BackendFactory                   *)
          answer        (* call -> the promise of that call                *)

apiVars == <<phase, cause, factory, answer>>

(* Errors that concern one call only.                                      *)
Single == {"INVALID_ARGUMENT", "LIMIT_EXCEEDED", "BUSY", "OUT_OF_MEMORY"}

(* Errors after which the instance is of no further use.                   *)
Fatal == {"INITIALIZATION_FAILED", "ABI_MISMATCH", "CORE_FAILURE",
          "TRANSPORT_ERROR", "WORKER_FAILED", "TIMEOUT"}

Waiting == {c \in Calls : answer[c] = "waiting"}

ApiInit ==
  /\ phase = "creating"
  /\ cause = "none"
  /\ factory = "waiting"
  /\ answer = [c \in Calls |-> "none"]

-----------------------------------------------------------------------------
FactorySucceeds ==
  /\ phase = "creating"
  /\ phase' = "ready"
  /\ factory' = "ok"
  /\ UNCHANGED <<cause, answer>>

FactoryFails(code) ==
  /\ phase = "creating"
  /\ phase' = "failed"
  /\ cause' = code
  /\ factory' = code
  /\ UNCHANGED answer

(* A call is taken on.                                                     *)
Accept(c) ==
  /\ phase = "ready"
  /\ answer[c] = "none"
  /\ Cardinality(Waiting) < MaxPending
  /\ answer' = [answer EXCEPT ![c] = "waiting"]
  /\ UNCHANGED <<phase, cause, factory>>

(* A call is refused at once: with the saved cause after the end, with     *)
(* BUSY only when the limit is reached, or because of its arguments.       *)
Refuse(c) ==
  /\ factory = "ok"
  /\ answer[c] = "none"
  /\ \/ /\ phase \in {"failed", "disposed"}
        /\ answer' = [answer EXCEPT ![c] = cause]
     \/ /\ phase = "ready"
        /\ Cardinality(Waiting) >= MaxPending
        /\ answer' = [answer EXCEPT ![c] = "BUSY"]
     \/ /\ phase = "ready"
        /\ \E code \in {"INVALID_ARGUMENT", "LIMIT_EXCEEDED"} :
             answer' = [answer EXCEPT ![c] = code]
  /\ UNCHANGED <<phase, cause, factory>>

(* One call is answered; the others do not notice.                         *)
Answer(c) ==
  /\ phase = "ready"
  /\ answer[c] = "waiting"
  /\ \E result \in {"ok"} \cup Single : answer' = [answer EXCEPT ![c] = result]
  /\ UNCHANGED <<phase, cause, factory>>

(* The instance breaks: every waiting call, and the new calls (at most     *)
(* one) that met the failure, end with the same cause.                     *)
Break(new, code) ==
  /\ phase = "ready"
  /\ phase' = "failed"
  /\ cause' = code
  /\ answer' = [c \in Calls |-> IF c \in Waiting \cup new THEN code ELSE answer[c]]
  /\ UNCHANGED factory

DisposeInstance ==
  /\ factory = "ok"
  /\ phase' = "disposed"
  /\ cause' = "DISPOSED"
  /\ answer' = [c \in Calls |-> IF c \in Waiting THEN "DISPOSED" ELSE answer[c]]
  /\ UNCHANGED factory

ApiNext ==
  \/ FactorySucceeds
  \/ \E code \in Fatal : FactoryFails(code)
  \/ \E c \in Calls : Accept(c) \/ Refuse(c) \/ Answer(c)
  \/ \E code \in Fatal : Break({}, code)
  \/ \E c \in Calls, code \in Fatal : answer[c] = "none" /\ Break({c}, code)
  \/ DisposeInstance

ApiSpec == ApiInit /\ [][ApiNext]_apiVars

-----------------------------------------------------------------------------
(* Nobody waits for an instance that has ended.                            *)
NobodyWaitsAfterTheEnd ==
  phase \in {"failed", "disposed"} => Waiting = {} /\ factory # "waiting"

(* A promise keeps the value it was settled with, the factory's too.       *)
AnsweredOnce ==
  [][/\ \A c \in Calls : answer[c] \notin {"none", "waiting"} => answer'[c] = answer[c]
     /\ factory # "waiting" => factory' = factory]_apiVars
=============================================================================
