---------------------------- MODULE RequestState ----------------------------
(***************************************************************************)
(* The bookkeeping both backends share: packages/backends/request-state.ts *)
(* gives every request an id, a promise and a timer, limits how many may   *)
(* be open, and ends all of them at once when the backend fails or is      *)
(* disposed.                                                               *)
(*                                                                         *)
(* JavaScript runs one turn of the event loop to its end, so every method  *)
(* of the class is one action.  Where a backend calls several methods in   *)
(* one turn the module has one action for the sequence (InitSucceeds,      *)
(* RegisterThenFail).  An id is a positive integer; outcome[id] is what    *)
(* the promise of that request was settled with, "waiting" until it is.    *)
(***************************************************************************)
EXTENDS Integers, FiniteSets

CONSTANTS MaxPending,   (* MAX_PENDING, 8 in the source                    *)
          MaxSafeId     (* the last safe integer, 2^53 - 1 in JavaScript   *)

ASSUME MaxPendingAssumption == MaxPending \in Nat \ {0}
ASSUME MaxSafeIdAssumption == MaxSafeId \in Nat \ {0}

VARIABLES state,          (* lifecycle                                     *)
          savedFailure,   (* code of the saved AppError, "none" for null   *)
          nextId,
          pending,        (* keys of the Map of open entries               *)
          timers,         (* ids whose timer is armed                      *)
          outcome         (* issued id -> how its promise was settled      *)

rsVars == <<state, savedFailure, nextId, pending, timers, outcome>>

(* Codes that end one request and leave the backend ready (pipeline.ts).   *)
SingleCodes == {"INVALID_ARGUMENT", "LIMIT_EXCEEDED", "BUSY", "OUT_OF_MEMORY"}

(* Codes that end the backend.  TIMEOUT is the timers' own.                *)
FatalCodes == {"INITIALIZATION_FAILED", "ABI_MISMATCH", "CORE_FAILURE",
               "TRANSPORT_ERROR", "WORKER_FAILED", "TIMEOUT"}

CauseCodes == FatalCodes \ {"TIMEOUT"}

Codes == SingleCodes \cup FatalCodes \cup {"DISPOSED"}

Lifecycles == {"creating", "ready", "failed", "disposed"}
Over == state \in {"failed", "disposed"}

IssuedIds == 1 .. nextId - 1

RSInit ==
  /\ state = "creating"
  /\ savedFailure = "none"
  /\ nextId = 1
  /\ pending = {}
  /\ timers = {}
  /\ outcome = [id \in 1 .. 0 |-> "waiting"]

-----------------------------------------------------------------------------
(* Mutant: the timers of the settled entries stay armed.                   *)
SettleKeepsTimers(S, result) ==
  /\ pending' = pending \ S
  /\ timers' = timers
  /\ outcome' = [id \in DOMAIN outcome |->
                   IF id \in S THEN result ELSE outcome[id]]

(* The entries of S leave the map, their timers are cleared and their      *)
(* promises are settled with result.                                       *)
Settle(S, result) ==
  /\ pending' = pending \ S
  /\ timers' = timers \ S
  /\ outcome' = [id \in DOMAIN outcome |->
                   IF id \in S THEN result ELSE outcome[id]]

(* failAll: the first failure ends every open request with its own code;   *)
(* a failure after the end changes nothing.                                *)
FailAll(code) ==
  IF Over
  THEN UNCHANGED rsVars
  ELSE /\ state' = "failed"
       /\ savedFailure' = code
       /\ Settle(pending, code)
       /\ UNCHANGED nextId

(* What ensureCanSend throws, "none" when the request may go out.          *)
SendRefusal ==
  IF Over THEN savedFailure
  ELSE IF Cardinality(pending) >= MaxPending THEN "BUSY"
  ELSE IF nextId > MaxSafeId THEN "TRANSPORT_ERROR"
  ELSE "none"

(* What throwIfNotReady throws, "none" when the backend is ready.          *)
ReadyRefusal ==
  IF Over THEN savedFailure
  ELSE IF state # "ready" THEN "INITIALIZATION_FAILED"
  ELSE "none"

(* register, when ensureCanSend lets the request through.                  *)
Register ==
  /\ SendRefusal = "none"
  /\ nextId' = nextId + 1
  /\ pending' = pending \cup {nextId}
  /\ timers' = timers \cup {nextId}
  /\ outcome' = [id \in 1 .. nextId |->
                   IF id = nextId THEN "waiting" ELSE outcome[id]]
  /\ UNCHANGED <<state, savedFailure>>

(* register, when the ids are used up: the backend fails before it throws. *)
RegisterExhausted ==
  /\ ~Over
  /\ SendRefusal = "TRANSPORT_ERROR"
  /\ FailAll("TRANSPORT_ERROR")

(* register followed in the same turn by a send that throws: the new entry *)
(* and all the others end with the failure.                                *)
RegisterThenFail ==
  /\ SendRefusal = "none"
  /\ nextId' = nextId + 1
  /\ state' = "failed"
  /\ savedFailure' = "TRANSPORT_ERROR"
  /\ pending' = {}
  /\ timers' = timers \ pending
  /\ outcome' = [id \in 1 .. nextId |->
                   IF id \in pending \cup {nextId}
                   THEN "TRANSPORT_ERROR"
                   ELSE outcome[id]]

ResolveOne(id) ==
  /\ id \in pending
  /\ Settle({id}, "resolved")
  /\ UNCHANGED <<state, savedFailure, nextId>>

RejectOne(id, code) ==
  /\ id \in pending
  /\ Settle({id}, code)
  /\ UNCHANGED <<state, savedFailure, nextId>>

(* resolveOne of the init request and markReady, in the turn in which the  *)
(* answer to init is accepted.                                             *)
InitSucceeds(id) ==
  /\ id \in pending
  /\ Settle({id}, "resolved")
  /\ state' = IF state = "creating" THEN "ready" ELSE state
  /\ UNCHANGED <<savedFailure, nextId>>

MarkReady ==
  /\ state = "creating"
  /\ state' = "ready"
  /\ UNCHANGED <<savedFailure, nextId, pending, timers, outcome>>

MarkInitFailed(code) ==
  /\ state = "creating"
  /\ FailAll(code)

(* The callback of one timer.  onTimeout does not look at which request    *)
(* the timer belonged to: it fails them all.                               *)
TimerFires(id) ==
  /\ id \in timers
  /\ IF Over
     THEN /\ timers' = timers \ {id}
          /\ UNCHANGED <<state, savedFailure, nextId, pending, outcome>>
     ELSE /\ state' = "failed"
          /\ savedFailure' = "TIMEOUT"
          /\ pending' = {}
          /\ timers' = (timers \ {id}) \ pending
          /\ outcome' = [i \in DOMAIN outcome |->
                           IF i \in pending THEN "TIMEOUT" ELSE outcome[i]]
          /\ UNCHANGED nextId

Dispose ==
  IF state = "disposed"
  THEN UNCHANGED rsVars
  ELSE /\ savedFailure' = "DISPOSED"
       /\ Settle(pending, "DISPOSED")
       /\ state' = "disposed"
       /\ UNCHANGED nextId

(* classifyReplyId: a settled request is recognised by its id alone.       *)
ClassifyReplyId(id) ==
  IF id \in pending THEN "pending"
  ELSE IF id \in Nat \ {0} /\ id < nextId THEN "stale"
  ELSE "invalid"

RSNext ==
  \/ Register
  \/ RegisterExhausted
  \/ RegisterThenFail
  \/ \E id \in pending : ResolveOne(id)
  \/ \E id \in pending, code \in SingleCodes : RejectOne(id, code)
  \/ \E id \in pending : InitSucceeds(id)
  \/ MarkReady
  \/ \E code \in CauseCodes : MarkInitFailed(code)
  \/ \E code \in CauseCodes : FailAll(code)
  \/ \E id \in timers : TimerFires(id)
  \/ Dispose

RSSpec == RSInit /\ [][RSNext]_rsVars

-----------------------------------------------------------------------------
(* The type of every variable.                                             *)
RSTypeOK ==
  /\ state \in Lifecycles
  /\ savedFailure \in FatalCodes \cup {"none", "DISPOSED"}
  /\ nextId \in 1 .. MaxSafeId + 1
  /\ pending \in SUBSET IssuedIds
  /\ timers \in SUBSET IssuedIds
  /\ outcome \in [IssuedIds -> Codes \cup {"waiting", "resolved"}]

(* A timer is armed for exactly the open requests.  onTimeout fails the    *)
(* whole backend whatever request its timer belonged to, so one timer that *)
(* outlives its request kills a healthy backend five seconds later, and    *)
(* one request without a timer can hang for ever.                          *)
TimersMatchPending == timers = pending

(* A promise waits if and only if its entry is still in the map: no caller *)
(* is left with a promise nobody holds, and no answered request can be     *)
(* answered again through a leftover entry.                                *)
WaitingIsPending == pending = {id \in IssuedIds : outcome[id] = "waiting"}

(* At most MaxPending requests are open, whatever mixture of answers,      *)
(* failures and new requests came before.                                  *)
PendingBounded == Cardinality(pending) <= MaxPending

(* Once the backend has failed or is disposed nobody waits, no timer is    *)
(* armed, and the reason later calls are refused with is the one saved:    *)
(* DISPOSED exactly when it is disposed.                                   *)
OverMeansQuiet ==
  /\ Over => pending = {} /\ timers = {}
  /\ (savedFailure = "none") = ~Over
  /\ (savedFailure = "DISPOSED") = (state = "disposed")

(* The class keeps its books: the five facts, each of which needs others.  *)
RSInv ==
  /\ RSTypeOK
  /\ TimersMatchPending
  /\ WaitingIsPending
  /\ PendingBounded
  /\ OverMeansQuiet

(* A settled promise never changes: a late timer, failure or dispose does  *)
(* not settle a request a second time, nor with another code.              *)
SettledOnce ==
  [][\A id \in IssuedIds :
       outcome[id] # "waiting" => outcome'[id] = outcome[id]]_rsVars

(* When the backend ends, every request that was open ends in that very    *)
(* step with the one cause that is saved, and no later failure replaces    *)
(* the cause: only dispose may.                                            *)
OneCause ==
  [][savedFailure' # savedFailure =>
       /\ savedFailure = "none" \/ savedFailure' = "DISPOSED"
       /\ \A id \in pending : outcome'[id] = savedFailure']_rsVars

(* The backend times out only when some request really is unanswered.      *)
TimeoutIsReal ==
  [][(state' = "failed" /\ state # "failed" /\ savedFailure' = "TIMEOUT")
       => \E id \in IssuedIds : outcome[id] = "waiting"]_rsVars
=============================================================================
