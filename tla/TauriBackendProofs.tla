------------------------- MODULE TauriBackendProofs -------------------------
(***************************************************************************)
(* For any number of calls, any limit, any number of ids and any settings  *)
(* of the data plane: the native backend fails only for a reason and never *)
(* falls back in silence; and but for a dispose that finds a transform open*)
(* on a binary plane, it implements the contract of ApplicationApi.        *)
(*                                                                         *)
(* Three books have to agree for that: the ids of the calls with the open  *)
(* requests, the step init has reached with what the factory has told, and *)
(* the queue of the port with what the native side has not answered.       *)
(***************************************************************************)
EXTENDS TauriBackend, RequestStateProofs, SequenceTheorems

Routes == {"getInfo", "json", "scheme", "port"}

\* The calls that were let in have the ids after that of init, one each, and
\* wait as long as their request is open.
CallersHaveIds ==
  /\ \A c \in Calls : callId[c] # InitId
  /\ \A c, d \in Calls : callId[c] = callId[d] /\ callId[c] # 0 => c = d
  /\ \A id \in IssuedIds \ {InitId} : \E c \in Calls : callId[c] = id
  /\ \A c \in Calls : answer[c] = "none" => callId[c] = 0
  /\ \A c \in Calls : callId[c] = 0 => answer[c] # "waiting"
  /\ \A c \in Calls : callId[c] # 0 =>
       (answer[c] = "waiting" <=> outcome[callId[c]] = "waiting")

\* How far init has come, in its own state, in RequestState and in the promise
\* of the factory.
InitMatches ==
  /\ initStep = "none" => nextId = 1 /\ created = "none" /\ state = "creating"
  /\ initStep = "info" => InitId \in pending /\ created = "waiting" /\ state = "creating"
  /\ initStep = "plane" => pending = {} /\ created = "waiting" /\ state = "creating"
  /\ initStep = "done" => state # "creating" /\ created \notin {"none", "waiting"}
  /\ initStep # "none" => nextId > 1 /\ route[InitId] = "getInfo"
  /\ initStep # "info" => InitId \notin pending
  /\ state = "ready" => created = "ok"
  /\ created = "ok" => initStep = "done"
  /\ created # "ok" => \A c \in Calls : answer[c] = "none"

\* The port's queue holds what is to be answered over the port, each once.
QueueMatches ==
  /\ route \in Seq(Routes) /\ Len(route) = nextId - 1
  /\ inflight \in SUBSET IssuedIds
  /\ portQueue \in Seq(IssuedIds)
  /\ \A i, j \in 1 .. Len(portQueue) : portQueue[i] = portQueue[j] => i = j
  /\ \A i \in 1 .. Len(portQueue) : portQueue[i] \in inflight /\ route[portQueue[i]] = "port"
  /\ \A id \in inflight : route[id] = "port" => \E i \in 1 .. Len(portQueue) : portQueue[i] = id
  /\ DOMAIN native \in SUBSET (IssuedIds \ inflight)

\* What every step keeps.
Kept ==
  /\ RSInv
  /\ TypeOK
  /\ FailureHasCause
  /\ NoSilentFallback
  /\ CallersHaveIds
  /\ InitMatches
  /\ QueueMatches

-----------------------------------------------------------------------------
\* What may arrive of an answer.
LEMMA ArrivingCodes ==
  ASSUME NEW id, NEW result \in NativeResults(id)
  PROVE  /\ ArrivesAs(id, result) \in
              {"ok", "TRANSPORT_ERROR", "CORE_FAILURE", "ABI_MISMATCH", "OUT_OF_MEMORY"}
         /\ ArrivesAs(id, result) \in {"ok", "OUT_OF_MEMORY"} => result \notin
              {"lost", "CORE_FAILURE", "ABI_MISMATCH"}
         /\ ArrivesAs(id, result) = "ok" <=> result = "ok"
         /\ ArrivesAs(id, result) \notin {"ok", "OUT_OF_MEMORY"} =>
              \/ result \in {"lost", "ABI_MISMATCH", "CORE_FAILURE"}
              \/ result # "ok" /\ route[id] = "port"
         /\ InitCode(ArrivesAs(id, result)) \in CauseCodes
BY DEF NativeResults, ArrivesAs, InitCode, CauseCodes, FatalCodes

\* Every turn of the backend is one use of RequestState.
LEMMA StepUsesRequestState == [Next]_vars => [RSNext]_rsVars
<1>. SUFFICES ASSUME [Next]_vars PROVE [RSNext]_rsVars
  OBVIOUS
<1>1. CASE Create \/ \E c \in Calls, m \in ApiMethods : Call(c, m)
  BY <1>1 DEF Create, Call, RSNext
<1>2. ASSUME NEW c \in Calls, CallRefused(c) \/ CallExhausted(c) PROVE [RSNext]_rsVars
  BY <1>2 DEF CallRefused, CallExhausted, RSNext
<1>3. CASE DisposeCall
  BY <1>3 DEF DisposeCall, RSNext
<1>4. CASE \E id \in timers : OnTimer(id)
  BY <1>4 DEF OnTimer, RSNext
<1>5. CASE OnInfoOfInit
  BY <1>5, ArrivingCodes DEF OnInfoOfInit, RSNext
<1>6. CASE ResolveDataPlane
  BY <1>6 DEF ResolveDataPlane, RSNext, CauseCodes, FatalCodes
<1>7. ASSUME NEW id \in inflight, OnAnswer(id) PROVE [RSNext]_rsVars
  <2>1. PICK result \in NativeResults(id) :
          IF id \notin pending THEN UNCHANGED rsVars
          ELSE IF ArrivesAs(id, result) \in {"ok"} \cup SingleCodes
          THEN IF ArrivesAs(id, result) = "ok" THEN ResolveOne(id)
               ELSE RejectOne(id, ArrivesAs(id, result))
          ELSE FailAll(ArrivesAs(id, result))
    BY <1>7 DEF OnAnswer
  <2>2. ArrivesAs(id, result) \in {"ok"} \cup SingleCodes \/ ArrivesAs(id, result) \in CauseCodes
    BY ArrivingCodes DEF SingleCodes, CauseCodes, FatalCodes
  <2>. QED
    BY <2>1, <2>2 DEF RSNext
<1>8. CASE UNCHANGED vars
  BY <1>8 DEF vars
<1>. QED
  BY <1>1, <1>2, <1>3, <1>4, <1>5, <1>6, <1>7, <1>8 DEF Next

-----------------------------------------------------------------------------
\* The queue after a request was sent.
LEMMA QueueSend ==
  ASSUME QueueMatches, nextId \in Nat \ {0}, NEW r \in Routes, Send(r), nextId' = nextId + 1
  PROVE  /\ QueueMatches'
         /\ route'[nextId] = r /\ \A id \in IssuedIds : route'[id] = route[id]
<1>1. /\ Append(route, r) \in Seq(Routes) /\ Len(Append(route, r)) = nextId
      /\ Append(route, r)[nextId] = r
      /\ \A id \in 1 .. nextId - 1 : Append(route, r)[id] = route[id]
  BY AppendProperties DEF QueueMatches
<1>2. route' = Append(route, r) /\ inflight' = inflight \cup {nextId} /\ native' = native
  BY DEF Send
<1>3. IssuedIds' = IssuedIds \cup {nextId} /\ nextId \notin IssuedIds
  BY DEF IssuedIds
<1>4. CASE r # "port"
  <2>1. portQueue' = portQueue
    BY <1>4 DEF Send
  <2>2. portQueue' \in Seq(IssuedIds')
    BY <1>3, <2>1, SeqMonotonic DEF QueueMatches
  <2>3. \A i \in 1 .. Len(portQueue) : portQueue[i] \in IssuedIds
    BY ElementOfSeq DEF QueueMatches
  <2>. QED
    BY <1>1, <1>2, <1>3, <1>4, <2>1, <2>2, <2>3 DEF QueueMatches, IssuedIds
<1>5. CASE r = "port"
  <2>1. portQueue' = Append(portQueue, nextId)
    BY <1>5 DEF Send
  <2>2. portQueue \in Seq(IssuedIds') /\ nextId \in IssuedIds' /\ Len(portQueue) \in Nat
    BY <1>3, SeqMonotonic, LenProperties DEF QueueMatches
  <2>3. /\ portQueue' \in Seq(IssuedIds') /\ Len(portQueue') = Len(portQueue) + 1
        /\ \A i \in 1 .. Len(portQueue) : portQueue'[i] = portQueue[i]
        /\ portQueue'[Len(portQueue) + 1] = nextId
    BY <2>1, <2>2, AppendProperties
  <2>4. \A i \in 1 .. Len(portQueue) : portQueue[i] \in IssuedIds
    BY ElementOfSeq DEF QueueMatches
  <2>5. \A i \in 1 .. Len(portQueue') : i \in 1 .. Len(portQueue) \/ i = Len(portQueue) + 1
    BY <2>2, <2>3
  <2>6. \A i, j \in 1 .. Len(portQueue') : portQueue'[i] = portQueue'[j] => i = j
    BY <1>3, <2>3, <2>4, <2>5 DEF QueueMatches
  <2>7. \A i \in 1 .. Len(portQueue') : portQueue'[i] \in inflight' /\ route'[portQueue'[i]] = "port"
    BY <1>1, <1>2, <1>5, <2>3, <2>4, <2>5 DEF QueueMatches, IssuedIds
  <2>8. \A id \in inflight' : route'[id] = "port" => \E i \in 1 .. Len(portQueue') : portQueue'[i] = id
    <3>1. SUFFICES ASSUME NEW id \in inflight', route'[id] = "port"
                   PROVE  \E i \in 1 .. Len(portQueue') : portQueue'[i] = id
      OBVIOUS
    <3>2. CASE id = nextId
      BY <2>2, <2>3, <3>2
    <3>3. CASE id \in inflight
      <4>1. route[id] = "port"
        BY <1>1, <1>2, <3>1, <3>3 DEF QueueMatches, IssuedIds
      <4>2. PICK i \in 1 .. Len(portQueue) : portQueue[i] = id
        BY <3>3, <4>1 DEF QueueMatches
      <4>. QED
        BY <2>2, <2>3, <4>2
    <3>. QED
      BY <1>2, <3>2, <3>3
  <2>. QED
    BY <1>1, <1>2, <1>3, <2>3, <2>6, <2>7, <2>8 DEF QueueMatches, IssuedIds
<1>. QED
  BY <1>1, <1>2, <1>4, <1>5 DEF IssuedIds

\* The queue after an answer: over the port it was the first in the queue.
LEMMA QueueAnswered ==
  ASSUME QueueMatches, NEW id, NEW result, Answered(id, result), nextId' = nextId
  PROVE  /\ QueueMatches' /\ id \in IssuedIds /\ id \notin DOMAIN native
         /\ DOMAIN native' = DOMAIN native \cup {id} /\ native'[id] = result
         /\ \A i \in DOMAIN native : native'[i] = native[i]
<1>1. /\ id \in inflight /\ inflight' = inflight \ {id} /\ route' = route
      /\ native' = [i \in DOMAIN native \cup {id} |-> IF i = id THEN result ELSE native[i]]
  BY DEF Answered
<1>2. id \in IssuedIds /\ id \notin DOMAIN native
  BY <1>1 DEF QueueMatches
<1>3. CASE route[id] # "port"
  <2>1. portQueue' = portQueue
    BY <1>3 DEF Answered
  <2>. QED
    BY <1>1, <1>2, <1>3, <2>1 DEF QueueMatches, IssuedIds
<1>4. CASE route[id] = "port"
  <2>1. id = Head(portQueue) /\ portQueue' = Tail(portQueue)
    BY <1>4 DEF Answered
  <2>2. PICK k \in 1 .. Len(portQueue) : portQueue[k] = id
    BY <1>1, <1>4 DEF QueueMatches
  <2>3. portQueue # <<>> /\ Len(portQueue) \in Nat
    BY <2>2, EmptySeq, LenProperties DEF QueueMatches
  <2>4. /\ portQueue' \in Seq(IssuedIds) /\ Len(portQueue') = Len(portQueue) - 1
        /\ \A i \in 1 .. Len(portQueue') : portQueue'[i] = portQueue[i + 1]
    BY <2>1, <2>3, HeadTailProperties DEF QueueMatches
  <2>5. portQueue[1] = id
    BY <2>1, <2>3 DEF QueueMatches
  <2>6. \A i \in 1 .. Len(portQueue') : i + 1 \in 1 .. Len(portQueue) /\ i + 1 # 1 /\ 1 \in 1 .. Len(portQueue)
    BY <2>3, <2>4
  <2>7. \A i, j \in 1 .. Len(portQueue') : portQueue'[i] = portQueue'[j] => i = j
    BY <2>4, <2>6 DEF QueueMatches
  <2>8. \A i \in 1 .. Len(portQueue') : portQueue'[i] # id
    BY <2>4, <2>5, <2>6 DEF QueueMatches
  <2>9. \A i \in 1 .. Len(portQueue') : portQueue'[i] \in inflight' /\ route'[portQueue'[i]] = "port"
    <3>1. SUFFICES ASSUME NEW i \in 1 .. Len(portQueue')
                   PROVE  portQueue'[i] \in inflight' /\ route'[portQueue'[i]] = "port"
      OBVIOUS
    <3>2. portQueue[i + 1] \in inflight /\ route[portQueue[i + 1]] = "port"
      BY <2>6 DEF QueueMatches
    <3>3. portQueue'[i] = portQueue[i + 1] /\ portQueue'[i] # id
      BY <2>4, <2>8
    <3>. QED
      BY <1>1, <3>2, <3>3
  <2>10. \A d \in inflight' : route'[d] = "port" => \E i \in 1 .. Len(portQueue') : portQueue'[i] = d
    <3>1. SUFFICES ASSUME NEW d \in inflight', route'[d] = "port"
                   PROVE  \E i \in 1 .. Len(portQueue') : portQueue'[i] = d
      OBVIOUS
    <3>2. PICK j \in 1 .. Len(portQueue) : portQueue[j] = d
      BY <1>1, <3>1 DEF QueueMatches
    <3>3. j # 1
      BY <1>1, <2>5, <3>1, <3>2
    <3>4. j - 1 \in 1 .. Len(portQueue') /\ (j - 1) + 1 = j
      BY <2>3, <2>4, <3>2, <3>3
    <3>5. portQueue'[j - 1] = portQueue[(j - 1) + 1]
      BY <2>4, <3>4
    <3>. QED
      BY <3>2, <3>4, <3>5
  <2>. QED
    BY <1>1, <1>2, <2>4, <2>7, <2>9, <2>10 DEF QueueMatches, IssuedIds
<1>. QED
  BY <1>1, <1>2, <1>3, <1>4

-----------------------------------------------------------------------------
\* A turn that ends the backend: those in new have no id yet, and told is
\* what each caller hears.
EndsAll(code, new, told) ==
  /\ code \in FatalCodes \cup {"DISPOSED"} /\ told \in [Calls -> Codes]
  /\ new = {} \/ \E c \in Calls : new = {c} /\ answer[c] = "none" /\ state = "ready"
  /\ IF code = "DISPOSED" THEN created = "ok" /\ new = {} ELSE ~Over
  /\ state' = IF code = "DISPOSED" THEN "disposed" ELSE "failed"
  /\ savedFailure' = code
  /\ pending' = {}
  /\ outcome' = [id \in IssuedIds |-> IF id \in pending THEN code ELSE outcome[id]]
  /\ answer' = [c \in Calls |-> IF c \in WaitingCalls \cup new THEN told[c] ELSE answer[c]]
  /\ created' = IF created = "waiting" THEN code ELSE created
  /\ initStep # "none" /\ initStep' = "done"
  /\ option = "auto" /\ created = "waiting" => code # "INITIALIZATION_FAILED"
  /\ UNCHANGED <<nextId, callId, route, option, plane>>

\* Everybody hears the same.
TellsAll(code) == [c \in Calls |-> code]

\* The call that sent the request.
Caller(id) == CHOOSE c \in Calls : callId[c] = id

\* An open request that is not that of init is one of a call that waits.
LEMMA OpenHasCaller ==
  ASSUME Kept, NEW id \in pending, id # InitId
  PROVE  /\ id \in IssuedIds /\ Caller(id) \in Calls /\ callId[Caller(id)] = id
         /\ answer[Caller(id)] = "waiting"
         /\ created = "ok" /\ initStep = "done" /\ state = "ready" /\ ~Over
<1>1. id \in IssuedIds /\ outcome[id] = "waiting" /\ ~Over /\ id # 0
  BY DEF Kept, RSInv, RSTypeOK, WaitingIsPending, OverMeansQuiet, IssuedIds
<1>2. Caller(id) \in Calls /\ callId[Caller(id)] = id
  BY <1>1 DEF Kept, CallersHaveIds, Caller
<1>3. answer[Caller(id)] = "waiting"
  BY <1>1, <1>2 DEF Kept, CallersHaveIds
<1>4. created = "ok" /\ initStep = "done"
  BY <1>2, <1>3 DEF Kept, InitMatches
<1>. QED
  BY <1>1, <1>2, <1>3, <1>4 DEF Kept, InitMatches, RSInv, RSTypeOK, Lifecycles, Over

\* Kept survives the end of the backend.
LEMMA EndsAllKeeps ==
  ASSUME Kept, NEW code, NEW new, NEW told, EndsAll(code, new, told), RSInv',
         QueueMatches', FailureHasCause'
  PROVE  Kept'
<1>1. /\ code \in Codes /\ code \notin {"waiting", "ok", "none"}
      /\ \A c \in Calls : told[c] \in Codes /\ told[c] \notin {"waiting", "ok", "none"}
      /\ new \in SUBSET {c \in Calls : answer[c] = "none"}
      /\ created # "ok" => new = {}
      /\ state' \in {"failed", "disposed"} /\ pending' = {}
      /\ outcome' = [id \in IssuedIds |-> IF id \in pending THEN code ELSE outcome[id]]
      /\ answer' = [c \in Calls |-> IF c \in WaitingCalls \cup new THEN told[c] ELSE answer[c]]
      /\ created' = IF created = "waiting" THEN code ELSE created
      /\ initStep # "none" /\ initStep' = "done"
      /\ nextId' = nextId /\ callId' = callId /\ route' = route /\ option' = option
      /\ plane' = plane
      /\ option = "auto" /\ created = "waiting" => code # "INITIALIZATION_FAILED"
  BY DEF EndsAll, Codes, SingleCodes, FatalCodes, Kept, InitMatches
<1>2. TypeOK /\ IssuedIds' = IssuedIds
  BY <1>1 DEF Kept, IssuedIds
<1>3. TypeOK'
  <2>1. RSTypeOK'
    BY DEF RSInv
  <2>2. answer' \in [Calls -> Codes \cup {"none", "waiting", "ok"}]
    BY <1>1, <1>2 DEF TypeOK
  <2>3. \A i \in DOMAIN portQueue' : portQueue'[i] \in inflight'
    BY LenProperties DEF QueueMatches
  <2>4. inflight' \in SUBSET IssuedIds'
    BY DEF QueueMatches
  <2>. QED
    BY <1>1, <1>2, <2>1, <2>2, <2>3, <2>4 DEF TypeOK
<1>4. NoSilentFallback'
  BY <1>1 DEF Kept, NoSilentFallback, Codes
<1>5. CallersHaveIds'
  <2>1. \A id \in IssuedIds : id \in pending <=> outcome[id] = "waiting"
    BY DEF Kept, RSInv, WaitingIsPending
  <2>2. \A c \in Calls : callId[c] # 0 => callId[c] \in IssuedIds /\ answer[c] # "none"
    BY <1>2 DEF Kept, TypeOK, CallersHaveIds
  <2>3. \A c \in Calls : answer'[c] # "waiting"
    BY <1>1, <1>2 DEF WaitingCalls
  <2>4. \A id \in IssuedIds : outcome'[id] # "waiting"
    BY <1>1, <2>1
  <2>5. \A c \in Calls : answer'[c] = "none" => answer[c] = "none"
    BY <1>1
  <2>. QED
    BY <1>1, <1>2, <2>2, <2>3, <2>4, <2>5 DEF Kept, CallersHaveIds
<1>6. InitMatches'
  <2>1. created' \notin {"none", "waiting"}
    BY <1>1 DEF Kept, InitMatches, TypeOK
  <2>2. created' # "ok" => \A c \in Calls : answer'[c] = "none"
    BY <1>1 DEF Kept, InitMatches, WaitingCalls
  <2>. QED
    BY <1>1, <2>1, <2>2 DEF Kept, InitMatches
<1>. QED
  BY <1>3, <1>4, <1>5, <1>6 DEF Kept

\* What has happened stays a cause.
LEMMA CausesStay ==
  ASSUME Kept, savedFailure' \in {savedFailure, "TIMEOUT", "DISPOSED"},
         DOMAIN native \in SUBSET DOMAIN native', nextId' \in {nextId, nextId + 1},
         \A id \in DOMAIN native : native'[id] = native[id],
         \A id \in IssuedIds : route'[id] = route[id],
         created # "ok" /\ created' = "ok" => savedFailure = "none"
  PROVE  FailureHasCause'
<1>1. SUFFICES ASSUME savedFailure' \in FatalCodes \ {"TIMEOUT"} PROVE FailureHasCause'
  BY DEF FailureHasCause
<1>2. savedFailure' = savedFailure /\ savedFailure # "none"
  BY <1>1 DEF FatalCodes
<1>3. DOMAIN native \in SUBSET IssuedIds
  BY DEF Kept, QueueMatches
<1>4. CASE \E id \in DOMAIN native :
             \/ native[id] \in {"lost", "ABI_MISMATCH", "CORE_FAILURE"}
             \/ native[id] # "ok" /\ route[id] = "port"
  BY <1>3, <1>4 DEF FailureHasCause
<1>5. CASE nextId > MaxSafeId
  BY <1>5, MaxSafeIdAssumption DEF FailureHasCause, Kept, RSInv, RSTypeOK
<1>6. CASE created # "ok"
  BY <1>2, <1>6 DEF FailureHasCause
<1>. QED
  BY <1>1, <1>2, <1>4, <1>5, <1>6 DEF Kept, FailureHasCause

\* The wires are as they were.
LEMMA QueueUnchanged ==
  ASSUME Kept, UNCHANGED wireVars, nextId' = nextId
  PROVE  QueueMatches' /\ route' = route /\ native' = native /\ portQueue' = portQueue
BY DEF Kept, QueueMatches, wireVars, IssuedIds

\* Every request that was issued has an outcome.
LEMMA OutcomeTyped ==
  ASSUME Kept
  PROVE  outcome \in [IssuedIds -> Codes \cup {"waiting", "resolved"}]
BY DEF Kept, RSInv, RSTypeOK

\* A timer that still runs ends a living backend.
LEMMA TimerKeeps ==
  ASSUME Kept, NEW id \in timers, OnTimer(id), RSInv'
  PROVE  EndsAll("TIMEOUT", {}, TellsAll("TIMEOUT")) /\ Kept'
<1>1. ~Over /\ initStep # "none"
  BY DEF Kept, RSInv, OverMeansQuiet, InitMatches, IssuedIds, RSTypeOK
<1>2. UNCHANGED <<nextId, callId, route, option, plane>> /\ QueueMatches' /\ native' = native
  BY <1>1, QueueUnchanged DEF OnTimer, TimerFires, EndPromises, setupVars
<1>3. EndsAll("TIMEOUT", {}, TellsAll("TIMEOUT"))
  BY <1>1, <1>2, OutcomeTyped DEF OnTimer, TimerFires, EndPromises, EndsAll, TellsAll, Over, WaitingCalls,
     Codes, FatalCodes
<1>4. FailureHasCause'
  BY <1>2, <1>3, CausesStay DEF EndsAll
<1>. QED
  BY <1>2, <1>3, <1>4, EndsAllKeeps

\* So does the call that finds the ids used up, which is the cause.
LEMMA ExhaustedKeeps ==
  ASSUME Kept, NEW c \in Calls, CallExhausted(c), RSInv'
  PROVE  EndsAll("TRANSPORT_ERROR", {c}, TellsAll("TRANSPORT_ERROR")) /\ Kept'
<1>1. /\ created = "ok" /\ answer[c] = "none" /\ ~Over /\ state = "ready"
      /\ initStep = "done" /\ FailAll("TRANSPORT_ERROR") /\ nextId' = nextId
  BY DEF CallExhausted, Callable, RegisterExhausted, ReadyRefusal, FailAll, Kept, InitMatches,
     RSInv, OverMeansQuiet, FatalCodes
<1>2. UNCHANGED <<nextId, callId, route, option, plane, created>> /\ QueueMatches' /\ initStep' = "done"
  BY <1>1, QueueUnchanged DEF CallExhausted, setupVars
<1>3. EndsAll("TRANSPORT_ERROR", {c}, TellsAll("TRANSPORT_ERROR"))
  BY <1>1, <1>2, OutcomeTyped DEF CallExhausted, FailAll, Settle, EndsAll, TellsAll, WaitingCalls, Codes,
     FatalCodes
<1>4. nextId > MaxSafeId
  <2>1. Cardinality(pending) < MaxPending \/ SendRefusal = "BUSY"
    BY <1>1, PendingFinite, FS_CardinalityType, MaxPendingAssumption DEF SendRefusal, Kept, RSInv
  <2>. QED
    BY <1>1, <2>1 DEF CallExhausted, RegisterExhausted, SendRefusal
<1>5. FailureHasCause'
  BY <1>2, <1>4 DEF FailureHasCause
<1>. QED
  BY <1>2, <1>3, <1>5, EndsAllKeeps

\* Dispose ends it too; each caller hears what its plane makes of it.
LEMMA DisposeKeeps ==
  ASSUME Kept, DisposeCall, state # "disposed", RSInv'
  PROVE  EndsAll("DISPOSED", {}, [c \in Calls |-> DisposedAs(c)]) /\ Kept'
<1>1. created = "ok" /\ initStep = "done" /\ nextId' = nextId
  BY DEF DisposeCall, Dispose, Kept, InitMatches
<1>2. /\ UNCHANGED <<nextId, callId, route, option, plane, created, native>>
      /\ QueueMatches' /\ initStep' = "done"
  BY <1>1, QueueUnchanged DEF DisposeCall, setupVars
<1>3. \A c \in Calls : DisposedAs(c) \in Codes
  BY DEF DisposedAs, Codes, FatalCodes
<1>4. EndsAll("DISPOSED", {}, [c \in Calls |-> DisposedAs(c)])
  BY <1>1, <1>2, <1>3, OutcomeTyped DEF DisposeCall, Dispose, Settle, EndsAll, WaitingCalls
<1>5. FailureHasCause'
  BY <1>2, <1>4, CausesStay DEF EndsAll
<1>. QED
  BY <1>2, <1>4, <1>5, EndsAllKeeps

\* Kept survives the first half of createTauriBackend.
LEMMA CreateKeeps ==
  ASSUME Kept, Create, RSInv'
  PROVE  Kept'
<1>1. /\ initStep = "none" /\ nextId = 1 /\ created = "none" /\ state = "creating"
      /\ nextId' = 2 /\ state' = "creating" /\ savedFailure' = savedFailure
      /\ pending' = pending \cup {1}
      /\ initStep' = "info" /\ created' = "waiting"
      /\ UNCHANGED <<option, plane, callId, answer>>
  BY DEF Kept, InitMatches, Create, Register, setupVars
<1>2. /\ QueueMatches' /\ route'[1] = "getInfo" /\ native' = native
      /\ \A id \in IssuedIds : route'[id] = route[id]
  <2>1. /\ Send("getInfo") /\ "getInfo" \in Routes /\ QueueMatches
        /\ nextId \in Nat \ {0} /\ nextId' = nextId + 1
    BY <1>1 DEF Kept, Create, Routes
  <2>2. native' = native
    BY <2>1 DEF Send
  <2>. QED
    BY <1>1, <2>1, <2>2, QueueSend
<1>3. IssuedIds = {} /\ IssuedIds' = {1}
  BY <1>1 DEF IssuedIds
<1>4. TypeOK'
  <2>1. RSTypeOK'
    BY DEF RSInv
  <2>2. route' \in [IssuedIds' -> Routes] /\ DOMAIN portQueue' = 1 .. Len(portQueue')
    BY <1>2, LenProperties DEF QueueMatches, IssuedIds
  <2>3. callId' \in [Calls -> {0} \cup IssuedIds']
    BY <1>1, <1>3 DEF Kept, TypeOK
  <2>. QED
    BY <1>1, <1>2, <2>1, <2>2, <2>3 DEF Kept, TypeOK, QueueMatches, Routes
<1>5. FailureHasCause' /\ NoSilentFallback'
  BY <1>1, <1>2, CausesStay DEF NoSilentFallback
<1>6. CallersHaveIds'
  BY <1>1, <1>3 DEF Kept, CallersHaveIds, InitId, TypeOK
<1>7. InitMatches'
  BY <1>1, <1>2 DEF Kept, InitMatches, InitId
<1>. QED
  BY <1>2, <1>4, <1>5, <1>6, <1>7 DEF Kept

\* Kept survives a call: its id is new, and on the port it queues.
LEMMA CallKeeps ==
  ASSUME Kept, NEW c \in Calls, NEW m \in ApiMethods, Call(c, m), RSInv'
  PROVE  Kept'
<1>1. /\ created = "ok" /\ answer[c] = "none" /\ callId[c] = 0
      /\ initStep = "done" /\ nextId \in Nat /\ nextId > 1 /\ nextId' = nextId + 1
      /\ state' = state /\ savedFailure' = savedFailure /\ created' = created
      /\ pending' = pending \cup {nextId}
      /\ callId' = [callId EXCEPT ![c] = nextId]
      /\ answer' = [answer EXCEPT ![c] = "waiting"]
      /\ UNCHANGED <<option, plane, initStep>>
      /\ outcome' = [id \in 1 .. nextId |-> IF id = nextId THEN "waiting" ELSE outcome[id]]
  BY DEF Kept, InitMatches, CallersHaveIds, Call, Callable, Register, RSInv, RSTypeOK, setupVars
<1>2. /\ QueueMatches' /\ native' = native /\ \A id \in IssuedIds : route'[id] = route[id]
  <2>1. (IF m = "getInfo" THEN "getInfo" ELSE plane) \in Routes
    BY DEF Kept, TypeOK, Routes
  <2>2. Send(IF m = "getInfo" THEN "getInfo" ELSE plane) /\ QueueMatches
    BY DEF Kept, Call
  <2>3. native' = native
    BY <2>2 DEF Send
  <2>4. nextId \in Nat \ {0}
    BY <1>1
  <2>. QED
    BY <1>1, <2>1, <2>2, <2>3, <2>4, QueueSend
<1>3. IssuedIds' = IssuedIds \cup {nextId} /\ nextId \notin IssuedIds /\ InitId \in IssuedIds
  BY <1>1 DEF IssuedIds, InitId
<1>4. callId \in [Calls -> {0} \cup IssuedIds] /\ DOMAIN answer = Calls
  BY DEF Kept, TypeOK
<1>5. TypeOK'
  <2>1. RSTypeOK'
    BY DEF RSInv
  <2>2. route' \in [IssuedIds' -> Routes] /\ DOMAIN portQueue' = 1 .. Len(portQueue')
    BY <1>2, LenProperties DEF QueueMatches, IssuedIds
  <2>3. callId' \in [Calls -> {0} \cup IssuedIds']
    BY <1>1, <1>3, <1>4
  <2>4. answer' \in [Calls -> Codes \cup {"none", "waiting", "ok"}]
    BY <1>1 DEF Kept, TypeOK
  <2>. QED
    BY <1>1, <1>2, <2>1, <2>2, <2>3, <2>4 DEF Kept, TypeOK, QueueMatches, Routes
<1>6. FailureHasCause' /\ NoSilentFallback'
  BY <1>1, <1>2, CausesStay DEF Kept, NoSilentFallback
<1>7. CallersHaveIds'
  <2>1. \A d \in Calls : callId[d] # nextId
    BY <1>3, <1>4, <1>1
  <2>2. \A d \in Calls : /\ callId'[d] = IF d = c THEN nextId ELSE callId[d]
                         /\ answer'[d] = IF d = c THEN "waiting" ELSE answer[d]
    BY <1>1, <1>4
  <2>3. \A id \in IssuedIds' \ {InitId} : \E d \in Calls : callId'[d] = id
    <3>1. SUFFICES ASSUME NEW id \in IssuedIds \ {InitId} PROVE \E d \in Calls : callId'[d] = id
      BY <1>3, <2>2
    <3>2. PICK d \in Calls : callId[d] = id
      BY DEF Kept, CallersHaveIds
    <3>3. d # c
      BY <1>1, <3>1, <3>2 DEF IssuedIds
    <3>. QED
      BY <2>2, <3>2, <3>3
  <2>4. \A d \in Calls : callId'[d] # 0 =>
          (answer'[d] = "waiting" <=> outcome'[callId'[d]] = "waiting")
    <3>. SUFFICES ASSUME NEW d \in Calls, callId'[d] # 0
                  PROVE  answer'[d] = "waiting" <=> outcome'[callId'[d]] = "waiting"
      OBVIOUS
    <3>1. outcome'[nextId] = "waiting"
      BY <1>1
    <3>2. CASE d = c
      BY <2>2, <3>1, <3>2
    <3>3. CASE d # c
      <4>1. callId'[d] = callId[d] /\ answer'[d] = answer[d] /\ callId[d] # 0
        BY <2>2, <3>3
      <4>2. outcome'[callId[d]] = outcome[callId[d]]
        BY <1>1, <1>3, <1>4, <4>1 DEF IssuedIds
      <4>. QED
        BY <4>1, <4>2 DEF Kept, CallersHaveIds
    <3>. QED
      BY <3>2, <3>3
  <2>. QED
    BY <1>1, <2>1, <2>2, <2>3, <2>4 DEF Kept, CallersHaveIds, InitId
<1>8. InitMatches'
  BY <1>1, <1>2, <1>3 DEF Kept, InitMatches, InitId
<1>. QED
  BY <1>2, <1>5, <1>6, <1>7, <1>8 DEF Kept

\* One promise of a call is settled, and one answer may have come in.
LEMMA OneAnswerKeeps ==
  ASSUME Kept, RSInv', QueueMatches', NEW c \in Calls, created = "ok",
         NEW told \in Codes \cup {"ok"}, answer' = [answer EXCEPT ![c] = told],
         callId[c] # 0 => /\ outcome'[callId[c]] # "waiting"
                          /\ \A id \in IssuedIds \ {callId[c]} : outcome'[id] = outcome[id],
         callId[c] = 0 => outcome' = outcome,
         pending' \in SUBSET pending, DOMAIN native \in SUBSET DOMAIN native',
         \A id \in DOMAIN native : native'[id] = native[id],
         UNCHANGED <<state, savedFailure, nextId, option, plane, initStep, created, callId, route>>
  PROVE  Kept'
<1>1. told \notin {"none", "waiting"} /\ initStep = "done"
  BY DEF Codes, SingleCodes, FatalCodes, Kept, InitMatches
<1>2. TypeOK /\ IssuedIds' = IssuedIds
  BY DEF Kept, IssuedIds
<1>3. TypeOK'
  <2>1. RSTypeOK'
    BY DEF RSInv
  <2>2. answer' \in [Calls -> Codes \cup {"none", "waiting", "ok"}]
    BY <1>2 DEF TypeOK
  <2>3. \A i \in DOMAIN portQueue' : portQueue'[i] \in inflight'
    BY LenProperties DEF QueueMatches
  <2>4. inflight' \in SUBSET IssuedIds'
    BY DEF QueueMatches
  <2>. QED
    BY <1>2, <2>1, <2>2, <2>3, <2>4 DEF TypeOK
<1>4. FailureHasCause' /\ NoSilentFallback'
  BY CausesStay DEF Kept, NoSilentFallback
<1>5. CallersHaveIds'
  <2>1. \A d \in Calls : answer'[d] = IF d = c THEN told ELSE answer[d]
    BY <1>2 DEF TypeOK
  <2>2. \A d \in Calls : callId[d] # 0 =>
          (answer'[d] = "waiting" <=> outcome'[callId[d]] = "waiting")
    BY <1>1, <1>2, <2>1 DEF Kept, CallersHaveIds, TypeOK
  <2>. QED
    BY <1>1, <1>2, <2>1, <2>2 DEF Kept, CallersHaveIds
<1>6. InitMatches'
  BY <1>1 DEF Kept, InitMatches
<1>. QED
  BY <1>3, <1>4, <1>5, <1>6 DEF Kept

\* Kept survives a refused call.
LEMMA CallRefusedKeeps ==
  ASSUME Kept, NEW c \in Calls, CallRefused(c), RSInv'
  PROVE  Kept'
<1>1. /\ created = "ok" /\ answer[c] = "none" /\ callId[c] = 0
      /\ UNCHANGED <<state, savedFailure, nextId, pending, outcome>>
      /\ UNCHANGED <<option, plane, initStep, created, callId>>
  BY DEF CallRefused, Callable, Kept, CallersHaveIds, rsVars, setupVars
<1>2. QueueMatches' /\ route' = route /\ native' = native
  BY <1>1, QueueUnchanged DEF CallRefused
<1>3. PICK code \in Codes : answer' = [answer EXCEPT ![c] = code]
  BY DEF CallRefused
<1>. QED
  BY <1>1, <1>2, <1>3, OneAnswerKeeps

-----------------------------------------------------------------------------
\* An answer to init that succeeded: what is left is to settle on a plane.
InfoArrived ==
  /\ initStep = "info" /\ InitId \in pending /\ initStep' = "plane"
  /\ pending' = pending \ {InitId}
  /\ outcome' = [id \in IssuedIds |-> IF id = InitId THEN "resolved" ELSE outcome[id]]
  /\ UNCHANGED <<state, savedFailure, nextId, option, plane, callVars, route>>

\* While the request of init is open the backend is being created.
LEMMA InitOpenMeansCreating ==
  ASSUME Kept, InitId \in pending
  PROVE  initStep = "info" /\ state = "creating" /\ created = "waiting" /\ pending = {InitId}
<1>1. initStep = "info" /\ state = "creating" /\ created = "waiting"
  BY DEF Kept, InitMatches
<1>2. \A id \in pending : id = InitId
  BY <1>1, OpenHasCaller
<1>. QED
  BY <1>1, <1>2

\* Kept survives the answer to init.
LEMMA InfoArrivedKeeps ==
  ASSUME Kept, InfoArrived, RSInv', QueueMatches', DOMAIN native \in SUBSET DOMAIN native',
         \A id \in DOMAIN native : native'[id] = native[id]
  PROVE  Kept'
<1>1. pending = {InitId} /\ state = "creating" /\ created = "waiting" /\ pending' = {}
  BY InitOpenMeansCreating DEF InfoArrived
<1>2. /\ TypeOK /\ IssuedIds' = IssuedIds /\ InitId \in IssuedIds
      /\ created' = created /\ answer' = answer /\ callId' = callId /\ route' = route
      /\ state' = state /\ savedFailure' = savedFailure /\ nextId' = nextId
      /\ option' = option /\ plane' = plane /\ initStep' = "plane"
      /\ outcome' = [id \in IssuedIds |-> IF id = InitId THEN "resolved" ELSE outcome[id]]
  BY DEF Kept, IssuedIds, InfoArrived, callVars, RSInv, RSTypeOK
<1>3. TypeOK'
  <2>1. RSTypeOK'
    BY DEF RSInv
  <2>2. \A i \in DOMAIN portQueue' : portQueue'[i] \in inflight'
    BY LenProperties DEF QueueMatches
  <2>3. inflight' \in SUBSET IssuedIds'
    BY DEF QueueMatches
  <2>. QED
    BY <1>2, <2>1, <2>2, <2>3 DEF TypeOK
<1>4. FailureHasCause' /\ NoSilentFallback'
  BY <1>1, <1>2, CausesStay DEF Kept, NoSilentFallback
<1>5. CallersHaveIds'
  BY <1>2 DEF Kept, CallersHaveIds, TypeOK
<1>6. InitMatches'
  BY <1>1, <1>2 DEF Kept, InitMatches
<1>. QED
  BY <1>3, <1>4, <1>5, <1>6 DEF Kept

\* What the answer to init may do: nothing, let init go on, or end the backend.
LEMMA InfoOfInitSplits ==
  ASSUME Kept, OnInfoOfInit
  PROVE  /\ QueueMatches' /\ DOMAIN native \in SUBSET DOMAIN native'
         /\ \A id \in DOMAIN native : native'[id] = native[id]
         /\ \/ UNCHANGED <<rsVars, initStep, callVars, option, plane, route>>
            \/ InfoArrived
            \/ \E code \in CauseCodes : EndsAll(code, {}, TellsAll(code)) /\ FailureHasCause'
<1>1. PICK result \in NativeResults(InitId) :
        /\ Answered(InitId, result)
        /\ IF InitId \notin pending
           THEN UNCHANGED <<rsVars, initStep, callVars>>
           ELSE IF result = "ok"
           THEN ResolveOne(InitId) /\ initStep' = "plane" /\ UNCHANGED callVars
           ELSE /\ FailAll(InitCode(ArrivesAs(InitId, result)))
                /\ EndPromises(InitCode(ArrivesAs(InitId, result)))
                /\ initStep' = "done"
  BY DEF OnInfoOfInit
<1>2. option' = option /\ plane' = plane /\ route' = route
  BY <1>1 DEF OnInfoOfInit, setupVars, Answered
<1>3. nextId' = nextId
  BY <1>1 DEF ResolveOne, FailAll, rsVars
<1>4. /\ QueueMatches' /\ DOMAIN native' = DOMAIN native \cup {InitId} /\ native'[InitId] = result
      /\ \A id \in DOMAIN native : native'[id] = native[id]
  BY <1>1, <1>3, QueueAnswered DEF Kept
<1>5. CASE InitId \notin pending
  BY <1>1, <1>2, <1>4, <1>5
<1>6. CASE InitId \in pending /\ result = "ok"
  <2>1. initStep = "info"
    BY <1>6, InitOpenMeansCreating
  <2>2. InfoArrived
    BY <1>1, <1>2, <1>6, <2>1, OutcomeTyped DEF ResolveOne, Settle, InfoArrived
  <2>. QED
    BY <1>4, <2>2
<1>7. CASE InitId \in pending /\ result # "ok"
  <2>. DEFINE code == InitCode(ArrivesAs(InitId, result))
  <2>1. code \in CauseCodes /\ code \in FatalCodes /\ code \in Codes /\ code # "DISPOSED"
    BY ArrivingCodes DEF CauseCodes, Codes, FatalCodes
  <2>2. route[InitId] = "getInfo" /\ initStep # "none" /\ state = "creating" /\ created = "waiting"
    BY <1>7, InitOpenMeansCreating DEF Kept, InitMatches
  <2>3. code # "INITIALIZATION_FAILED"
    BY <1>7, <2>2 DEF InitCode, ArrivesAs, NativeResults
  <2>4. FailAll(code) /\ EndPromises(code) /\ initStep' = "done"
    BY <1>1, <1>7
  <2>. HIDE DEF code
  <2>5. EndsAll(code, {}, TellsAll(code))
    <3>1. /\ state' = "failed" /\ savedFailure' = code /\ pending' = {}
          /\ outcome' = [id \in IssuedIds |-> IF id \in pending THEN code ELSE outcome[id]]
      BY <2>2, <2>4, OutcomeTyped DEF FailAll, Settle, Over
    <3>2. /\ answer' = [c \in Calls |-> IF c \in WaitingCalls \cup {} THEN TellsAll(code)[c]
                                        ELSE answer[c]]
          /\ created' = code /\ callId' = callId
      BY <2>2, <2>4 DEF EndPromises, WaitingCalls, TellsAll
    <3>3. TellsAll(code) \in [Calls -> Codes] /\ ~Over
      BY <2>1, <2>2 DEF TellsAll, Over
    <3>. QED
      BY <1>2, <1>3, <2>1, <2>2, <2>3, <2>4, <3>1, <3>2, <3>3 DEF EndsAll
  <2>6. created' # "ok"
    BY <2>1, <2>2, <2>4 DEF EndPromises, FatalCodes
  <2>7. FailureHasCause'
    BY <2>6 DEF FailureHasCause
  <2>. QED
    BY <1>4, <2>1, <2>5, <2>7
<1>. QED
  BY <1>5, <1>6, <1>7

\* Kept survives the choice of the plane: the one asked for is there, or the
\* backend fails.
LEMMA ResolvePlaneKeeps ==
  ASSUME Kept, ResolveDataPlane, RSInv'
  PROVE  /\ Kept'
         /\ \/ EndsAll("INITIALIZATION_FAILED", {}, TellsAll("INITIALIZATION_FAILED"))
            \/ MarkReady /\ created' = "ok" /\ answer' = answer
<1>1. /\ initStep = "plane" /\ initStep' = "done" /\ pending = {} /\ created = "waiting"
      /\ state = "creating" /\ ~Over /\ option' = option /\ UNCHANGED wireVars
  BY DEF ResolveDataPlane, Kept, InitMatches, Over, setupVars
<1>2. CASE PlaneFound = "none"
  <2>. DEFINE code == "INITIALIZATION_FAILED"
  <2>1. FailAll(code) /\ EndPromises(code) /\ plane' = plane
    BY <1>2 DEF ResolveDataPlane
  <2>2. option # "auto"
    BY <1>2 DEF PlaneFound
  <2>3. nextId' = nextId
    BY <1>1, <2>1 DEF FailAll
  <2>4. QueueMatches' /\ route' = route
    BY <1>1, <2>3, QueueUnchanged
  <2>5. EndsAll(code, {}, TellsAll(code))
    BY <1>1, <2>1, <2>2, <2>3, <2>4, OutcomeTyped
       DEF FailAll, Settle, EndPromises, EndsAll, TellsAll, WaitingCalls, Codes, FatalCodes
  <2>6. FailureHasCause'
    BY <1>1, <2>1 DEF EndPromises, FailureHasCause
  <2>. QED
    BY <2>4, <2>5, <2>6, EndsAllKeeps
<1>3. CASE PlaneFound # "none"
  <2>1. /\ MarkReady /\ plane' = PlaneFound /\ created' = "ok"
        /\ callId' = callId /\ answer' = answer
    BY <1>3 DEF ResolveDataPlane
  <2>2. /\ state' = "ready" /\ savedFailure' = savedFailure /\ nextId' = nextId
        /\ pending' = pending /\ outcome' = outcome
    BY <2>1 DEF MarkReady
  <2>3. QueueMatches' /\ route' = route /\ native' = native
    BY <1>1, <2>2, QueueUnchanged
  <2>4. PlaneFound \in {"json", "scheme", "port"} /\ option \in {"auto", PlaneFound}
    BY <1>3 DEF PlaneFound
  <2>5. TypeOK'
    <3>1. RSTypeOK'
      BY DEF RSInv
    <3>2. \A i \in DOMAIN portQueue' : portQueue'[i] \in inflight'
      BY <2>3, LenProperties DEF QueueMatches
    <3>3. inflight' \in SUBSET IssuedIds'
      BY <2>3 DEF QueueMatches
    <3>. QED
      BY <1>1, <2>1, <2>2, <2>3, <2>4, <3>1, <3>2, <3>3 DEF Kept, TypeOK, IssuedIds
  <2>6. FailureHasCause'
    <3>1. savedFailure = "none"
      BY <1>1 DEF Kept, RSInv, OverMeansQuiet
    <3>. QED
      BY <2>2, <2>3, <3>1, CausesStay
  <2>7. NoSilentFallback'
    BY <1>1, <2>1, <2>4 DEF NoSilentFallback
  <2>8. CallersHaveIds'
    BY <2>1, <2>2 DEF Kept, CallersHaveIds, IssuedIds
  <2>9. InitMatches'
    BY <1>1, <2>1, <2>2, <2>3 DEF Kept, InitMatches
  <2>. QED
    BY <2>1, <2>3, <2>5, <2>6, <2>7, <2>8, <2>9 DEF Kept
<1>. QED
  BY <1>2, <1>3

\* A call was answered and the backend lives on.
CallAnswered(id, told) ==
  /\ id \in pending /\ id # InitId /\ told \in {"ok"} \cup SingleCodes
  /\ answer' = [answer EXCEPT ![Caller(id)] = told]
  /\ pending' = pending \ {id}
  /\ outcome' = [i \in IssuedIds |->
                   IF i = id THEN IF told = "ok" THEN "resolved" ELSE told ELSE outcome[i]]
  /\ UNCHANGED <<state, savedFailure, nextId, option, plane, initStep, created, callId, route>>

\* What an answer to a call may do: nothing, settle it, or end the backend for
\* the reason it brings.
LEMMA AnswerSplits ==
  ASSUME Kept, NEW id, OnAnswer(id)
  PROVE  /\ QueueMatches' /\ DOMAIN native \in SUBSET DOMAIN native'
         /\ \A i \in DOMAIN native : native'[i] = native[i]
         /\ \/ UNCHANGED <<rsVars, initStep, callVars, option, plane, route>>
            \/ \E told \in {"ok"} \cup SingleCodes : CallAnswered(id, told)
            \/ \E code \in CauseCodes : EndsAll(code, {}, TellsAll(code)) /\ FailureHasCause'
<1>1. PICK result \in NativeResults(id) :
        /\ Answered(id, result)
        /\ IF id \notin pending
           THEN UNCHANGED <<rsVars, callVars>>
           ELSE IF ArrivesAs(id, result) \in {"ok"} \cup SingleCodes
           THEN /\ IF ArrivesAs(id, result) = "ok" THEN ResolveOne(id)
                   ELSE RejectOne(id, ArrivesAs(id, result))
                /\ answer' = [answer EXCEPT ![Caller(id)] = ArrivesAs(id, result)]
                /\ UNCHANGED <<created, callId>>
           ELSE FailAll(ArrivesAs(id, result)) /\ EndPromises(ArrivesAs(id, result))
  BY DEF OnAnswer, Caller
<1>2. /\ option' = option /\ plane' = plane /\ route' = route /\ initStep' = initStep
      /\ id # InitId
  BY <1>1 DEF OnAnswer, setupVars, Answered
<1>3. nextId' = nextId
  BY <1>1 DEF ResolveOne, RejectOne, FailAll, rsVars
<1>4. /\ QueueMatches' /\ DOMAIN native' = DOMAIN native \cup {id} /\ native'[id] = result
      /\ \A i \in DOMAIN native : native'[i] = native[i]
  BY <1>1, <1>3, QueueAnswered DEF Kept
<1>. DEFINE code == ArrivesAs(id, result)
<1>5. CASE id \notin pending
  BY <1>1, <1>2, <1>4, <1>5
<1>6. CASE id \in pending /\ code \in {"ok"} \cup SingleCodes
  <2>. HIDE DEF code
  <2>1. /\ IF code = "ok" THEN ResolveOne(id) ELSE RejectOne(id, code)
        /\ answer' = [answer EXCEPT ![Caller(id)] = code]
        /\ UNCHANGED <<created, callId>>
    BY <1>1, <1>6 DEF code
  <2>2. CallAnswered(id, code)
    BY <1>2, <1>6, <2>1, OutcomeTyped DEF ResolveOne, RejectOne, Settle, CallAnswered
  <2>. QED
    BY <1>4, <1>6, <2>2
<1>7. CASE id \in pending /\ code \notin {"ok"} \cup SingleCodes
  <2>1. /\ code \in CauseCodes /\ code \in FatalCodes /\ code \in Codes /\ code # "DISPOSED"
        /\ \/ result \in {"lost", "ABI_MISMATCH", "CORE_FAILURE"}
           \/ result # "ok" /\ route[id] = "port"
    BY <1>7, ArrivingCodes DEF CauseCodes, Codes, FatalCodes, SingleCodes
  <2>2. FailAll(code) /\ EndPromises(code)
    BY <1>1, <1>7
  <2>3. created = "ok" /\ initStep = "done" /\ state = "ready" /\ ~Over
    BY <1>2, <1>7, OpenHasCaller
  <2>4. FailureHasCause'
    BY <1>2, <1>4, <2>1 DEF FailureHasCause
  <2>. HIDE DEF code
  <2>5. EndsAll(code, {}, TellsAll(code))
    <3>1. /\ state' = "failed" /\ savedFailure' = code /\ pending' = {}
          /\ outcome' = [i \in IssuedIds |-> IF i \in pending THEN code ELSE outcome[i]]
      BY <2>2, <2>3, OutcomeTyped DEF FailAll, Settle
    <3>2. /\ answer' = [c \in Calls |-> IF c \in WaitingCalls \cup {} THEN TellsAll(code)[c]
                                        ELSE answer[c]]
          /\ created' = created /\ callId' = callId
      BY <2>2, <2>3 DEF EndPromises, WaitingCalls, TellsAll
    <3>3. TellsAll(code) \in [Calls -> Codes]
      BY <2>1 DEF TellsAll
    <3>. QED
      BY <1>2, <1>3, <2>1, <2>3, <3>1, <3>2, <3>3 DEF EndsAll
  <2>. QED
    BY <1>4, <2>1, <2>4, <2>5
<1>. QED
  BY <1>5, <1>6, <1>7

\* Kept survives the answer to a call.
LEMMA CallAnsweredKeeps ==
  ASSUME Kept, NEW id, NEW told, CallAnswered(id, told), RSInv', QueueMatches',
         DOMAIN native \in SUBSET DOMAIN native',
         \A i \in DOMAIN native : native'[i] = native[i]
  PROVE  Kept'
<1>1. /\ id \in IssuedIds /\ Caller(id) \in Calls /\ callId[Caller(id)] = id
      /\ created = "ok" /\ id # 0
  BY OpenHasCaller DEF CallAnswered, Kept, RSInv, RSTypeOK, IssuedIds
<1>2. told \in Codes \cup {"ok"} /\ told \notin {"waiting", "none"}
  BY DEF CallAnswered, Codes, SingleCodes
<1>3. /\ outcome'[id] # "waiting" /\ \A i \in IssuedIds \ {id} : outcome'[i] = outcome[i]
      /\ pending' \in SUBSET pending
      /\ answer' = [answer EXCEPT ![Caller(id)] = told]
      /\ UNCHANGED <<state, savedFailure, nextId, option, plane, initStep, created, callId, route>>
  BY <1>1, <1>2 DEF CallAnswered
<1>. QED
  BY <1>1, <1>2, <1>3, OneAnswerKeeps

\* Nothing moves but what the native side still owes.
LEMMA LateAnswerKeeps ==
  ASSUME Kept, RSInv', QueueMatches', DOMAIN native \in SUBSET DOMAIN native',
         \A i \in DOMAIN native : native'[i] = native[i],
         UNCHANGED <<rsVars, initStep, callVars, option, plane, route>>
  PROVE  Kept'
<1>1. UNCHANGED <<state, savedFailure, nextId, pending, outcome, initStep, created, callId, answer,
                  option, plane, route>>
  BY DEF rsVars, callVars
<1>2. TypeOK'
  <2>1. RSTypeOK'
    BY DEF RSInv
  <2>2. \A i \in DOMAIN portQueue' : portQueue'[i] \in inflight'
    BY LenProperties DEF QueueMatches
  <2>3. inflight' \in SUBSET IssuedIds'
    BY DEF QueueMatches
  <2>. QED
    BY <1>1, <2>1, <2>2, <2>3 DEF Kept, TypeOK, IssuedIds
<1>3. FailureHasCause' /\ NoSilentFallback'
  BY <1>1, CausesStay DEF Kept, NoSilentFallback
<1>4. CallersHaveIds'
  BY <1>1 DEF Kept, CallersHaveIds, IssuedIds
<1>5. InitMatches'
  BY <1>1 DEF Kept, InitMatches
<1>. QED
  BY <1>2, <1>3, <1>4, <1>5 DEF Kept

-----------------------------------------------------------------------------
\* Kept holds at the start.
LEMMA KeptInit == Init => Kept
<1>. SUFFICES ASSUME Init PROVE Kept
  OBVIOUS
<1>1. RSInv
  BY RSInitInvariant DEF Init
<1>2. nextId = 1 /\ state = "creating" /\ savedFailure = "none" /\ pending = {} /\ IssuedIds = {}
  BY DEF Init, RSInit, IssuedIds
<1>3. QueueMatches
  BY <1>2, EmptySeq DEF Init, QueueMatches
<1>4. TypeOK
  <2>1. RSTypeOK
    BY <1>1 DEF RSInv
  <2>2. route \in [IssuedIds -> Routes] /\ DOMAIN portQueue = 1 .. Len(portQueue)
    BY <1>3, LenProperties DEF QueueMatches, IssuedIds
  <2>3. plane \in {"json", "scheme", "port"}
    BY DEF Init
  <2>. QED
    BY <1>2, <1>3, <2>1, <2>2, <2>3 DEF Init, TypeOK, QueueMatches, Routes
<1>5. CallersHaveIds /\ InitMatches
  BY <1>2 DEF Init, CallersHaveIds, InitMatches, InitId
<1>6. FailureHasCause /\ NoSilentFallback
  BY <1>2 DEF Init, FailureHasCause, NoSilentFallback, FatalCodes
<1>. QED
  BY <1>1, <1>3, <1>4, <1>5, <1>6 DEF Kept

\* A second dispose finds nobody waiting.
LEMMA DisposedIsQuiet ==
  ASSUME Kept, DisposeCall, state = "disposed"
  PROVE  UNCHANGED vars
<1>1. \A c \in Calls : answer[c] # "waiting"
  <2>1. SUFFICES ASSUME NEW c \in Calls, answer[c] = "waiting" PROVE FALSE
    OBVIOUS
  <2>2. callId[c] \in IssuedIds /\ outcome[callId[c]] = "waiting"
    BY <2>1 DEF Kept, TypeOK, CallersHaveIds
  <2>. QED
    BY <2>2 DEF Kept, RSInv, WaitingIsPending, OverMeansQuiet, Over
<1>2. answer' = answer
  BY <1>1 DEF DisposeCall, Kept, TypeOK
<1>. QED
  BY <1>2 DEF DisposeCall, Dispose, vars, callVars

\* Kept is inductive.
LEMMA KeptStep == Kept /\ [Next]_vars => Kept'
<1>. SUFFICES ASSUME Kept, [Next]_vars PROVE Kept'
  OBVIOUS
<1>1. RSInv'
  BY StepUsesRequestState, RSStepInvariant DEF Kept
<1>2. CASE UNCHANGED vars
  <2>1. UNCHANGED <<rsVars, setupVars, plane, initStep, callVars, wireVars, nextId>>
    BY <1>2 DEF vars, rsVars
  <2>2. QueueMatches' /\ route' = route /\ native' = native
    BY <2>1, QueueUnchanged
  <2>. QED
    BY <1>1, <2>1, <2>2, LateAnswerKeeps DEF setupVars
<1>3. CASE DisposeCall
  BY <1>1, <1>2, <1>3, DisposedIsQuiet, DisposeKeeps
<1>4. CASE OnInfoOfInit
  BY <1>1, <1>4, InfoOfInitSplits, LateAnswerKeeps, InfoArrivedKeeps, EndsAllKeeps
<1>5. ASSUME NEW id \in inflight, OnAnswer(id) PROVE Kept'
  BY <1>1, <1>5, AnswerSplits, LateAnswerKeeps, CallAnsweredKeeps, EndsAllKeeps
<1>. QED
  BY <1>1, <1>2, <1>3, <1>4, <1>5, CreateKeeps, CallKeeps, CallRefusedKeeps, ExhaustedKeeps,
     TimerKeeps, ResolvePlaneKeeps DEF Next

(* The types hold, every call has an id of its own, the factory tells how  *)
(* far init came, and the port's queue is what it still has to answer.     *)
THEOREM TauriKept == Spec => []Kept
<1>1. QED
  BY KeptInit, KeptStep, PTL DEF Spec

(* The backend is failed for a reason: a lost or fatal answer, used-up ids *)
(* or a creation that did not succeed.                                     *)
THEOREM TauriInv == Spec => []Inv
<1>1. Kept => Inv
  BY DEF Kept, Inv
<1>2. QED
  BY <1>1, TauriKept, PTL

(* Only auto falls back to another data plane, and never fails for want of *)
(* one.                                                                    *)
THEOREM TauriNoSilentFallback == Spec => []NoSilentFallback
<1>1. Kept => NoSilentFallback
  BY DEF Kept
<1>2. QED
  BY <1>1, TauriKept, PTL

-----------------------------------------------------------------------------
\* While the backend lives, its waiting calls are the open requests.
LEMMA WaitingCallsAreOpen ==
  ASSUME Kept, state = "ready"
  PROVE  Cardinality(WaitingCalls) = Cardinality(pending)
<1>. DEFINE f == [c \in WaitingCalls |-> callId[c]]
<1>1. IsFiniteSet(WaitingCalls)
  BY TauriAssumption, FS_Subset DEF WaitingCalls
<1>2. \A c \in WaitingCalls : callId[c] \in pending
  <2>1. SUFFICES ASSUME NEW c \in Calls, answer[c] = "waiting" PROVE callId[c] \in pending
    BY DEF WaitingCalls
  <2>2. callId[c] \in IssuedIds /\ outcome[callId[c]] = "waiting"
    BY <2>1 DEF Kept, TypeOK, CallersHaveIds
  <2>. QED
    BY <2>2 DEF Kept, RSInv, WaitingIsPending
<1>3. \A c, d \in WaitingCalls : callId[c] = callId[d] => c = d
  BY DEF Kept, CallersHaveIds, WaitingCalls
<1>4. \A id \in pending : \E c \in WaitingCalls : callId[c] = id
  <2>1. InitId \notin pending
    BY InitOpenMeansCreating
  <2>. QED
    BY <2>1, OpenHasCaller DEF WaitingCalls
<1>5. f \in [WaitingCalls -> pending]
  BY <1>2
<1>6. f \in Bijection(WaitingCalls, pending)
  BY <1>3, <1>4, <1>5 DEF Bijection, Injection, Surjection, IsInjective
<1>. QED
  BY <1>1, <1>6, FS_Bijection DEF ExistsBijection

\* The contract counts as the backend does.
LEMMA SameCardinality ==
  ASSUME NEW S
  PROVE  Api!Cardinality(S) = Cardinality(S)
BY DEF Api!Cardinality, Cardinality

\* A failure of the backend is a failure of the contract.
LEMMA ApiFails ==
  ASSUME Kept, NEW code, NEW new, EndsAll(code, new, TellsAll(code)), code # "DISPOSED"
  PROVE  Api!ApiNext
<1>. USE DEF Api!Waiting, WaitingCalls
<1>1. /\ code \in Api!Fatal /\ ~Over /\ state' = "failed" /\ savedFailure' = code
      /\ new = {} \/ \E c \in Calls : new = {c} /\ answer[c] = "none" /\ state = "ready"
      /\ answer' = [c \in Calls |-> IF c \in WaitingCalls \cup new THEN code ELSE answer[c]]
      /\ created' = IF created = "waiting" THEN code ELSE created
      /\ initStep # "none"
  BY DEF EndsAll, TellsAll, Api!Fatal, FatalCodes
<1>2. CASE state = "creating"
  <2>1. created = "waiting" /\ \A c \in Calls : answer[c] = "none"
    BY <1>1, <1>2 DEF Kept, InitMatches, TypeOK
  <2>2. answer' = answer
    BY <1>1, <1>2, <2>1 DEF Kept, TypeOK
  <2>3. created' # "none"
    BY <1>1, <2>1 DEF Api!Fatal
  <2>4. Api!FactoryFails(code)
    BY <1>1, <1>2, <2>1, <2>2, <2>3 DEF Api!FactoryFails
  <2>. QED
    BY <1>1, <2>4 DEF Api!ApiNext
<1>3. CASE state = "ready"
  <2>1. created = "ok"
    BY <1>3 DEF Kept, InitMatches
  <2>2. Api!Break(new, code)
    BY <1>1, <1>3, <2>1 DEF Api!Break
  <2>. QED
    BY <1>1, <2>2 DEF Api!ApiNext
<1>. QED
  BY <1>1, <1>2, <1>3 DEF Over, Kept, RSInv, RSTypeOK, Lifecycles

\* Every step of the backend is one of the contract, or the one exception.
LEMMA ApiStep == Kept /\ [Next]_vars => [Api!ApiNext \/ BinaryDispose]_(Api!apiVars)
<1>. SUFFICES ASSUME Kept, [Next]_vars PROVE [Api!ApiNext \/ BinaryDispose]_(Api!apiVars)
  OBVIOUS
<1>0. RSInv'
  BY StepUsesRequestState, RSStepInvariant DEF Kept
<1>1. CASE Create
  <2>1. created = "none" /\ created' = "waiting"
    BY <1>1 DEF Create, Kept, InitMatches
  <2>. QED
    BY <1>1, <2>1 DEF Create, Register, Api!apiVars
<1>2. ASSUME NEW c \in Calls, NEW m \in ApiMethods, Call(c, m) PROVE Api!ApiNext
  <2>1. state = "ready" /\ Cardinality(pending) < MaxPending
    BY <1>2, SendAllowed DEF Kept, Call, Callable, Register, InitMatches, RSInv, RSTypeOK,
       Lifecycles, Over
  <2>2. Api!Cardinality(Api!Waiting) < MaxPending
    BY <2>1, WaitingCallsAreOpen, SameCardinality DEF Api!Waiting, WaitingCalls
  <2>3. /\ answer[c] = "none" /\ answer' = [answer EXCEPT ![c] = "waiting"]
        /\ created' = created /\ state' = state /\ savedFailure' = savedFailure
    BY <1>2 DEF Call, Callable, Register
  <2>4. Api!Accept(c)
    BY <2>1, <2>2, <2>3 DEF Api!Accept
  <2>. QED
    BY <2>4 DEF Api!ApiNext
<1>3. ASSUME NEW c \in Calls, CallRefused(c) PROVE Api!ApiNext
  <2>1. created = "ok" /\ answer[c] = "none" /\ UNCHANGED <<state, savedFailure, created>>
    BY <1>3 DEF CallRefused, Callable, rsVars
  <2>2. state \in {"ready", "failed", "disposed"} /\ (savedFailure = "none") = ~Over
    BY <2>1 DEF Kept, InitMatches, RSInv, RSTypeOK, Lifecycles, OverMeansQuiet
  <2>3. CASE Over
    <3>1. answer' = [answer EXCEPT ![c] = savedFailure]
      BY <1>3, <2>2, <2>3 DEF CallRefused, ReadyRefusal
    <3>2. Api!Refuse(c)
      BY <2>1, <2>2, <2>3, <3>1 DEF Api!Refuse, Over
    <3>. QED
      BY <3>2 DEF Api!ApiNext
  <2>4. CASE ~Over
    <3>1. state = "ready" /\ ReadyRefusal = "none" /\ "none" \notin Codes
      BY <2>2, <2>4 DEF Over, ReadyRefusal, Codes, SingleCodes, FatalCodes
    <3>2. SendRefusal = "BUSY" => Api!Cardinality(Api!Waiting) >= MaxPending
      BY <2>4, <3>1, WaitingCallsAreOpen, SameCardinality DEF SendRefusal, Api!Waiting, WaitingCalls
    <3>3. \/ /\ Api!Cardinality(Api!Waiting) >= MaxPending
             /\ answer' = [answer EXCEPT ![c] = "BUSY"]
          \/ answer' = [answer EXCEPT ![c] = "INVALID_ARGUMENT"]
      BY <1>3, <3>1, <3>2 DEF CallRefused
    <3>4. Api!Refuse(c)
      BY <2>1, <3>1, <3>3 DEF Api!Refuse
    <3>. QED
      BY <3>4 DEF Api!ApiNext
  <2>. QED
    BY <2>3, <2>4
<1>4. ASSUME NEW c \in Calls, CallExhausted(c) PROVE Api!ApiNext
  BY <1>0, <1>4, ExhaustedKeeps, ApiFails
<1>5. CASE DisposeCall
  <2>1. CASE state = "disposed"
    BY <1>5, <2>1, DisposedIsQuiet DEF vars, rsVars, callVars, Api!apiVars
  <2>2. CASE state # "disposed"
    <3>1. EndsAll("DISPOSED", {}, [c \in Calls |-> DisposedAs(c)])
      BY <1>0, <1>5, <2>2, DisposeKeeps
    <3>2. /\ state' = "disposed" /\ savedFailure' = "DISPOSED" /\ created = "ok" /\ created' = "ok"
          /\ answer' = [c \in Calls |-> IF c \in WaitingCalls THEN DisposedAs(c) ELSE answer[c]]
      BY <3>1 DEF EndsAll
    <3>3. CASE \E c \in WaitingCalls : route[callId[c]] \in {"scheme", "port"}
      BY <3>2, <3>3 DEF BinaryDispose
    <3>4. CASE \A c \in WaitingCalls : route[callId[c]] \notin {"scheme", "port"}
      <4>1. \A c \in WaitingCalls : DisposedAs(c) = "DISPOSED"
        BY <3>4 DEF DisposedAs
      <4>2. Api!DisposeInstance
        BY <3>2, <4>1 DEF Api!DisposeInstance, Api!Waiting, WaitingCalls
      <4>. QED
        BY <4>2 DEF Api!ApiNext
    <3>. QED
      BY <3>3, <3>4
  <2>. QED
    BY <2>1, <2>2
<1>6. ASSUME NEW id \in timers, OnTimer(id) PROVE Api!ApiNext
  BY <1>0, <1>6, TimerKeeps, ApiFails
<1>7. CASE OnInfoOfInit
  <2>1. CASE UNCHANGED <<rsVars, initStep, callVars, option, plane, route>> \/ InfoArrived
    BY <2>1 DEF InfoArrived, rsVars, callVars, Api!apiVars
  <2>2. ASSUME NEW code \in CauseCodes, EndsAll(code, {}, TellsAll(code)) PROVE Api!ApiNext
    BY <2>2, ApiFails DEF CauseCodes, FatalCodes
  <2>. QED
    BY <1>7, <2>1, <2>2, InfoOfInitSplits
<1>8. CASE ResolveDataPlane
  <2>1. CASE EndsAll("INITIALIZATION_FAILED", {}, TellsAll("INITIALIZATION_FAILED"))
    BY <2>1, ApiFails
  <2>2. CASE MarkReady /\ created' = "ok" /\ answer' = answer
    <3>1. Api!FactorySucceeds
      BY <2>2 DEF MarkReady, Api!FactorySucceeds
    <3>. QED
      BY <3>1 DEF Api!ApiNext
  <2>. QED
    BY <1>0, <1>8, <2>1, <2>2, ResolvePlaneKeeps
<1>9. ASSUME NEW id \in inflight, OnAnswer(id) PROVE [Api!ApiNext]_(Api!apiVars)
  <2>1. CASE UNCHANGED <<rsVars, initStep, callVars, option, plane, route>>
    BY <2>1 DEF rsVars, callVars, Api!apiVars
  <2>2. ASSUME NEW told \in {"ok"} \cup SingleCodes, CallAnswered(id, told) PROVE Api!ApiNext
    <3>1. /\ id \in pending /\ id # InitId
          /\ answer' = [answer EXCEPT ![Caller(id)] = told]
          /\ UNCHANGED <<state, savedFailure, created>>
      BY <2>2 DEF CallAnswered
    <3>2. Caller(id) \in Calls /\ answer[Caller(id)] = "waiting" /\ state = "ready"
      BY <3>1, OpenHasCaller
    <3>3. Api!Answer(Caller(id))
      BY <3>1, <3>2 DEF Api!Answer, Api!Single, SingleCodes
    <3>. QED
      BY <3>2, <3>3 DEF Api!ApiNext
  <2>3. ASSUME NEW code \in CauseCodes, EndsAll(code, {}, TellsAll(code)) PROVE Api!ApiNext
    BY <2>3, ApiFails DEF CauseCodes, FatalCodes
  <2>. QED
    BY <1>9, <2>1, <2>2, <2>3, AnswerSplits
<1>10. CASE UNCHANGED vars
  BY <1>10 DEF vars, rsVars, callVars, Api!apiVars
<1>. QED
  BY <1>1, <1>2, <1>3, <1>4, <1>5, <1>6, <1>7, <1>8, <1>9, <1>10 DEF Next

(* The native backend keeps the contract of application-api.ts on every    *)
(* plane, but for a dispose that finds a transform open on a binary plane. *)
THEOREM TauriImplementsApi == Spec => ImplementsApi
<1>1. Init => Api!ApiInit
  BY DEF Init, RSInit, Api!ApiInit
<1>2. Kept /\ [Next]_vars => [Api!ApiNext \/ BinaryDispose]_(Api!apiVars)
  BY ApiStep
<1>3. QED
  BY <1>1, <1>2, TauriKept, PTL DEF Spec, ImplementsApi
=============================================================================
