------------------------- MODULE RequestStateProofs -------------------------
(***************************************************************************)
(* Proofs about RequestState for every MaxPending and every MaxSafeId.     *)
(*                                                                         *)
(* RSInv is inductive as it stands: the safety properties of the module    *)
(* support each other.  That TimerFires leaves no timer behind needs       *)
(* TimersMatchPending, that settling an entry is settling a waiting        *)
(* promise needs WaitingIsPending, and that nothing is registered in a     *)
(* failed backend needs the third conjunct of OverMeansQuiet, because      *)
(* ensureCanSend refuses through the saved failure.                        *)
(***************************************************************************)
EXTENDS RequestState, FiniteSetTheorems, TLAPS

USE MaxPendingAssumption, MaxSafeIdAssumption

(* The open requests are finitely many, so counting them makes sense.      *)
LEMMA PendingFinite == RSTypeOK => IsFiniteSet(pending)
<1>1. SUFFICES ASSUME RSTypeOK PROVE IsFiniteSet(pending)
  OBVIOUS
<1>2. IsFiniteSet(1 .. nextId - 1)
  BY <1>1, FS_Interval DEF RSTypeOK
<1>3. QED
  BY <1>1, <1>2, FS_Subset DEF RSTypeOK, IssuedIds

(* A saved failure is no refusal code of its own: register goes ahead only *)
(* in a live backend with room and an id left.                             *)
LEMMA SendAllowed ==
  ASSUME RSInv, SendRefusal = "none"
  PROVE  ~Over /\ Cardinality(pending) < MaxPending /\ nextId <= MaxSafeId
<1>1. IsFiniteSet(pending) /\ Cardinality(pending) \in Nat
  BY PendingFinite, FS_CardinalityType DEF RSInv
<1>2. ~Over
  BY DEF SendRefusal, RSInv, OverMeansQuiet, RSTypeOK
<1>3. QED
  BY <1>1, <1>2 DEF SendRefusal, RSInv, RSTypeOK

(* Removing entries from the map never makes it larger.                    *)
LEMMA FewerPending ==
  ASSUME RSInv, NEW S
  PROVE  Cardinality(pending \ S) <= MaxPending
<1>1. IsFiniteSet(pending)
  BY PendingFinite DEF RSInv
<1>2. IsFiniteSet(pending \ S) /\ Cardinality(pending \ S) <= Cardinality(pending)
  BY <1>1, FS_Subset
<1>3. Cardinality(pending) \in Nat /\ Cardinality(pending \ S) \in Nat
  BY <1>1, <1>2, FS_CardinalityType
<1>4. QED
  BY <1>2, <1>3 DEF RSInv, PendingBounded

(* Ending every open request at once, with a code that is saved.           *)
LEMMA EndKeepsInvariant ==
  ASSUME RSInv, NEW code \in FatalCodes \cup {"DISPOSED"},
         Settle(pending, code), nextId' = nextId, savedFailure' = code,
         state' = IF code = "DISPOSED" THEN "disposed" ELSE "failed"
  PROVE  RSInv'
<1>1. pending' = {} /\ timers' = {}
  BY DEF Settle, RSInv, TimersMatchPending
<1>2. RSTypeOK'
  BY <1>1 DEF RSInv, RSTypeOK, Settle, IssuedIds, Codes, Lifecycles
<1>3. WaitingIsPending'
  BY <1>1 DEF RSInv, RSTypeOK, WaitingIsPending, Settle, IssuedIds, FatalCodes
<1>4. PendingBounded'
  BY <1>1, FS_EmptySet DEF PendingBounded
<1>5. OverMeansQuiet'
  BY <1>1 DEF OverMeansQuiet, Over, FatalCodes
<1>6. QED
  BY <1>1, <1>2, <1>3, <1>4, <1>5 DEF RSInv, TimersMatchPending

(* failAll, called in any state.                                           *)
LEMMA FailAllKeepsInvariant ==
  ASSUME RSInv, NEW code \in FatalCodes, FailAll(code)
  PROVE  RSInv'
<1>1. CASE Over
  BY <1>1 DEF FailAll, rsVars, RSInv, RSTypeOK, TimersMatchPending,
     WaitingIsPending, PendingBounded, OverMeansQuiet, Over, IssuedIds
<1>2. CASE ~Over
  <2>1. code # "DISPOSED"
    BY DEF FatalCodes
  <2>2. QED
    BY <1>2, <2>1, EndKeepsInvariant DEF FailAll
<1>3. QED
  BY <1>1, <1>2

(* register, when the request is let through.                              *)
LEMMA RegisterKeepsInvariant ==
  ASSUME RSInv, Register
  PROVE  RSInv'
<1>1. ~Over /\ Cardinality(pending) < MaxPending /\ nextId <= MaxSafeId
  BY SendAllowed DEF Register
<1>2. nextId \notin pending
  BY DEF RSInv, RSTypeOK, IssuedIds
<1>3. RSTypeOK'
  BY <1>1 DEF Register, RSInv, RSTypeOK, IssuedIds, Codes, Lifecycles
<1>4. WaitingIsPending'
  BY <1>1 DEF Register, RSInv, RSTypeOK, WaitingIsPending, IssuedIds
<1>5. PendingBounded'
  <2>1. IsFiniteSet(pending) /\ Cardinality(pending) \in Nat
    BY PendingFinite, FS_CardinalityType DEF RSInv
  <2>2. Cardinality(pending') = Cardinality(pending) + 1
    BY <1>2, <2>1, FS_AddElement DEF Register
  <2>3. QED
    BY <1>1, <2>1, <2>2 DEF PendingBounded
<1>6. OverMeansQuiet'
  BY <1>1 DEF Register, RSInv, OverMeansQuiet, Over
<1>7. QED
  BY <1>3, <1>4, <1>5, <1>6 DEF Register, RSInv, TimersMatchPending

(* register and a send that throws.                                        *)
LEMMA RegisterThenFailKeepsInvariant ==
  ASSUME RSInv, RegisterThenFail
  PROVE  RSInv'
<1>1. ~Over /\ nextId <= MaxSafeId
  BY SendAllowed DEF RegisterThenFail
<1>2. pending' = {} /\ timers' = {}
  BY DEF RegisterThenFail, RSInv, TimersMatchPending
<1>3. RSTypeOK'
  BY <1>1, <1>2 DEF RegisterThenFail, RSInv, RSTypeOK, IssuedIds, Codes,
     FatalCodes, Lifecycles
<1>4. WaitingIsPending'
  BY <1>2 DEF RegisterThenFail, RSInv, RSTypeOK, WaitingIsPending, IssuedIds
<1>5. PendingBounded'
  BY <1>2, FS_EmptySet DEF PendingBounded
<1>6. OverMeansQuiet'
  BY <1>2 DEF RegisterThenFail, OverMeansQuiet, Over
<1>7. QED
  BY <1>2, <1>3, <1>4, <1>5, <1>6 DEF RSInv, TimersMatchPending

(* One request is answered, in a backend that stays in a live state.       *)
LEMMA AnswerKeepsInvariant ==
  ASSUME RSInv, NEW id \in pending,
         NEW result \in Codes \cup {"resolved"}, Settle({id}, result),
         state' \in {state, "ready"}, UNCHANGED <<savedFailure, nextId>>
  PROVE  RSInv'
<1>1. ~Over
  BY DEF RSInv, OverMeansQuiet
<1>2. state' \in {"creating", "ready"}
  BY <1>1 DEF Over, RSInv, RSTypeOK, Lifecycles
<1>3. RSTypeOK'
  BY <1>2 DEF RSInv, RSTypeOK, Settle, IssuedIds, Lifecycles
<1>4. result # "waiting"
  BY DEF Codes, SingleCodes, FatalCodes
<1>5. WaitingIsPending'
  BY <1>4 DEF RSInv, RSTypeOK, WaitingIsPending, Settle, IssuedIds
<1>6. PendingBounded'
  BY FewerPending DEF Settle, PendingBounded
<1>7. OverMeansQuiet'
  BY <1>1, <1>2 DEF RSInv, OverMeansQuiet, Over
<1>8. QED
  BY <1>3, <1>5, <1>6, <1>7 DEF RSInv, TimersMatchPending, Settle

(* A timer that fires belongs to a live backend, so it ends everything.    *)
LEMMA TimerKeepsInvariant ==
  ASSUME RSInv, NEW id \in timers, TimerFires(id)
  PROVE  RSInv'
<1>1. ~Over
  BY DEF RSInv, OverMeansQuiet
<1>2. Settle(pending, "TIMEOUT")
  BY <1>1 DEF TimerFires, Settle, RSInv, TimersMatchPending
<1>3. QED
  BY <1>1, <1>2, EndKeepsInvariant DEF TimerFires, FatalCodes

(* dispose, the first time and again.                                      *)
LEMMA DisposeKeepsInvariant ==
  ASSUME RSInv, Dispose
  PROVE  RSInv'
<1>1. CASE state = "disposed"
  BY <1>1 DEF Dispose, rsVars, RSInv, RSTypeOK, TimersMatchPending,
     WaitingIsPending, PendingBounded, OverMeansQuiet, Over, IssuedIds
<1>2. CASE state # "disposed"
  BY <1>2, EndKeepsInvariant DEF Dispose
<1>3. QED
  BY <1>1, <1>2

(* The constructor establishes the invariant.                              *)
LEMMA RSInitInvariant == RSInit => RSInv
<1>1. SUFFICES ASSUME RSInit PROVE RSInv
  OBVIOUS
<1>2. PendingBounded
  BY <1>1, FS_EmptySet DEF RSInit, PendingBounded
<1>3. RSTypeOK
  BY <1>1 DEF RSInit, RSTypeOK, IssuedIds, Lifecycles
<1>4. QED
  BY <1>1, <1>2, <1>3 DEF RSInit, RSInv, TimersMatchPending, WaitingIsPending,
     OverMeansQuiet, Over, IssuedIds

(* Every method of the class keeps the invariant.                          *)
LEMMA RSStepInvariant == RSInv /\ [RSNext]_rsVars => RSInv'
<1> SUFFICES ASSUME RSInv, [RSNext]_rsVars PROVE RSInv'
  OBVIOUS
<1>1. CASE Register
  BY <1>1, RegisterKeepsInvariant
<1>2. CASE RegisterExhausted
  BY <1>2, FailAllKeepsInvariant DEF RegisterExhausted, FatalCodes
<1>3. CASE RegisterThenFail
  BY <1>3, RegisterThenFailKeepsInvariant
<1>4. CASE \E id \in pending : ResolveOne(id)
  BY <1>4, AnswerKeepsInvariant DEF ResolveOne
<1>5. CASE \E id \in pending, code \in SingleCodes : RejectOne(id, code)
  BY <1>5, AnswerKeepsInvariant DEF RejectOne, Codes
<1>6. CASE \E id \in pending : InitSucceeds(id)
  BY <1>6, AnswerKeepsInvariant DEF InitSucceeds
<1>7. CASE MarkReady
  BY <1>7 DEF MarkReady, RSInv, RSTypeOK, TimersMatchPending,
     WaitingIsPending, PendingBounded, OverMeansQuiet, Over, IssuedIds, Lifecycles
<1>8. CASE \E code \in CauseCodes : MarkInitFailed(code)
  BY <1>8, FailAllKeepsInvariant DEF MarkInitFailed, CauseCodes
<1>9. CASE \E code \in CauseCodes : FailAll(code)
  BY <1>9, FailAllKeepsInvariant DEF CauseCodes
<1>10. CASE \E id \in timers : TimerFires(id)
  BY <1>10, TimerKeepsInvariant
<1>11. CASE Dispose
  BY <1>11, DisposeKeepsInvariant
<1>12. CASE UNCHANGED rsVars
  BY <1>12 DEF rsVars, RSInv, RSTypeOK, TimersMatchPending,
     WaitingIsPending, PendingBounded, OverMeansQuiet, Over, IssuedIds
<1>13. QED
  BY <1>1, <1>2, <1>3, <1>4, <1>5, <1>6, <1>7, <1>8, <1>9, <1>10, <1>11, <1>12
     DEF RSNext

(* For every bound on ids and open requests, whatever methods are called:  *)
(* variables keep their types, one timer is armed for each open request    *)
(* and no other, no promise waits without an entry and no entry is left of *)
(* a settled one, at most MAX_PENDING are open, and failAll and dispose    *)
(* leave nothing waiting and nothing armed.                                *)
THEOREM RSInvariant == RSSpec => []RSInv
<1>1. QED
  BY RSInitInvariant, RSStepInvariant, PTL DEF RSSpec

-----------------------------------------------------------------------------
(* What one step does to the promises.                                     *)
LEMMA StepSettlesOnce ==
  ASSUME RSInv, [RSNext]_rsVars, NEW id \in IssuedIds, outcome[id] # "waiting"
  PROVE  outcome'[id] = outcome[id]
<1>1. id \notin pending /\ id # nextId /\ id \in 1 .. nextId
  BY DEF RSInv, RSTypeOK, WaitingIsPending, IssuedIds
<1>2. id \in DOMAIN outcome
  BY DEF RSInv, RSTypeOK
<1>3. CASE \E S \in SUBSET pending : \E r \in Codes \cup {"resolved"} : Settle(S, r)
  BY <1>1, <1>2, <1>3 DEF Settle
<1>4. CASE Register \/ RegisterThenFail
  BY <1>1, <1>4 DEF Register, RegisterThenFail
<1>5. CASE \E t \in timers : TimerFires(t)
  BY <1>1, <1>2, <1>5 DEF TimerFires
<1>6. CASE outcome' = outcome
  BY <1>6
<1>7. \/ \E S \in SUBSET pending : \E r \in Codes \cup {"resolved"} : Settle(S, r)
      \/ Register \/ RegisterThenFail
      \/ \E t \in timers : TimerFires(t)
      \/ outcome' = outcome
  <2>1. ASSUME NEW code \in FatalCodes, FailAll(code)
        PROVE  \/ \E S \in SUBSET pending :
                    \E r \in Codes \cup {"resolved"} : Settle(S, r)
               \/ outcome' = outcome
    BY <2>1 DEF FailAll, rsVars, Codes
  <2>2. ASSUME NEW p \in pending, NEW r \in Codes \cup {"resolved"}, Settle({p}, r)
        PROVE  \E S \in SUBSET pending :
                 \E q \in Codes \cup {"resolved"} : Settle(S, q)
    <3>1. {p} \in SUBSET pending
      OBVIOUS
    <3>2. QED
      BY <2>2, <3>1
  <2>3. CASE \/ RegisterExhausted
             \/ \E code \in CauseCodes : MarkInitFailed(code)
             \/ \E code \in CauseCodes : FailAll(code)
    BY <2>1, <2>3 DEF RegisterExhausted, MarkInitFailed, CauseCodes, FatalCodes
  <2>4. CASE \/ \E p \in pending : ResolveOne(p)
             \/ \E p \in pending, code \in SingleCodes : RejectOne(p, code)
             \/ \E p \in pending : InitSucceeds(p)
    BY <2>2, <2>4 DEF ResolveOne, RejectOne, InitSucceeds, Codes
  <2>5. CASE MarkReady \/ UNCHANGED rsVars
    BY <2>5 DEF MarkReady, rsVars
  <2>6. CASE Dispose
    BY <2>6 DEF Dispose, rsVars, Codes
  <2>7. QED
    BY <2>3, <2>4, <2>5, <2>6 DEF RSNext
<1>8. QED
  BY <1>3, <1>4, <1>5, <1>6, <1>7

(* A promise is settled at most once: no later answer, timer, failure or   *)
(* dispose changes what a caller was told.                                 *)
THEOREM RSSettledOnce == RSSpec => SettledOnce
<1>1. RSInv /\ [RSNext]_rsVars =>
        [\A id \in IssuedIds :
           outcome[id] # "waiting" => outcome'[id] = outcome[id]]_rsVars
  BY StepSettlesOnce
<1>2. QED
  BY <1>1, RSInvariant, PTL DEF RSSpec, SettledOnce

(* Ending the backend tells every open request the one saved cause, and    *)
(* the first cause stays until dispose replaces it.                        *)
THEOREM RSOneCause == RSSpec => OneCause
<1>1. ASSUME RSInv, [RSNext]_rsVars, savedFailure' # savedFailure
      PROVE  /\ savedFailure = "none" \/ savedFailure' = "DISPOSED"
             /\ \A id \in pending : outcome'[id] = savedFailure'
  <2>1. /\ DOMAIN outcome = IssuedIds
        /\ pending \in SUBSET IssuedIds
        /\ nextId \in Nat
        /\ pending \subseteq 1 .. nextId
    BY <1>1 DEF RSInv, RSTypeOK, IssuedIds
  <2>2. ~Over => savedFailure = "none"
    BY <1>1 DEF RSInv, OverMeansQuiet
  <2>3. ASSUME NEW code, FailAll(code)
        PROVE  /\ savedFailure = "none"
               /\ \A id \in pending : outcome'[id] = savedFailure'
    BY <1>1, <2>1, <2>2, <2>3 DEF FailAll, Settle, rsVars
  <2>4. CASE \/ RegisterExhausted
             \/ \E code \in CauseCodes : MarkInitFailed(code)
             \/ \E code \in CauseCodes : FailAll(code)
    BY <2>3, <2>4 DEF RegisterExhausted, MarkInitFailed
  <2>5. CASE RegisterThenFail
    <3>1. savedFailure = "none"
      BY <1>1, <2>2, <2>5, SendAllowed DEF RegisterThenFail
    <3>2. \A id \in pending : outcome'[id] = savedFailure'
      BY <2>1, <2>5 DEF RegisterThenFail
    <3>3. QED
      BY <3>1, <3>2
  <2>6. CASE \E t \in timers : TimerFires(t)
    <3>1. savedFailure = "none"
      BY <1>1, <2>2, <2>6 DEF TimerFires
    <3>2. \A id \in pending : outcome'[id] = savedFailure'
      BY <1>1, <2>1, <2>6 DEF TimerFires
    <3>3. QED
      BY <3>1, <3>2
  <2>7. CASE Dispose
    BY <1>1, <2>1, <2>7 DEF Dispose, Settle, rsVars
  <2>8. QED
    BY <1>1, <2>4, <2>5, <2>6, <2>7 DEF RSNext, Register, ResolveOne,
       RejectOne, InitSucceeds, MarkReady, rsVars
<1>2. RSInv /\ [RSNext]_rsVars =>
        [savedFailure' # savedFailure =>
           /\ savedFailure = "none" \/ savedFailure' = "DISPOSED"
           /\ \A id \in pending : outcome'[id] = savedFailure']_rsVars
  BY <1>1
<1>3. QED
  BY <1>2, RSInvariant, PTL DEF RSSpec, OneCause

(* Only an unanswered request times a backend out: the timer that fires    *)
(* belongs to an open one, because TimersMatchPending holds.               *)
THEOREM RSTimeoutIsReal == RSSpec => TimeoutIsReal
<1>1. ASSUME RSInv, [RSNext]_rsVars, state' = "failed", state # "failed",
             savedFailure' = "TIMEOUT"
      PROVE  \E id \in IssuedIds : outcome[id] = "waiting"
  <2>1. savedFailure # "TIMEOUT"
    BY <1>1 DEF RSInv, OverMeansQuiet, RSTypeOK, Over, Lifecycles
  <2>2. \E t \in timers : TimerFires(t)
    BY <1>1, <2>1 DEF RSNext, RegisterExhausted, FailAll, MarkInitFailed,
       CauseCodes, RegisterThenFail, Register, ResolveOne, RejectOne,
       InitSucceeds, MarkReady, Dispose, rsVars
  <2>3. QED
    BY <1>1, <2>2 DEF RSInv, TimersMatchPending, WaitingIsPending
<1>2. RSInv /\ [RSNext]_rsVars =>
        [(state' = "failed" /\ state # "failed" /\ savedFailure' = "TIMEOUT")
           => \E id \in IssuedIds : outcome[id] = "waiting"]_rsVars
  BY <1>1
<1>3. QED
  BY <1>2, RSInvariant, PTL DEF RSSpec, TimeoutIsReal
=============================================================================
