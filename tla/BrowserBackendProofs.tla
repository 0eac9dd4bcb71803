------------------------ MODULE BrowserBackendProofs ------------------------
(***************************************************************************)
(* For any number of calls, any limit, any number of ids and any number of *)
(* faults on the link: a call succeeds only with an answer of the core     *)
(* that was addressed to it; the backend fails only for a cause; its books *)
(* agree; and it implements the contract of ApplicationApi.                *)
(*                                                                         *)
(* Kept is what every step keeps, whatever arrives.  Recorded says that the*)
(* history variables account for all that is on its way to the page: a     *)
(* reply nothing has touched, or one whose damage gives reason to fail and *)
(* whose new address is on record.  Books, the agreement                   *)
(* of the backend's own map and of its callers with RequestState, and the  *)
(* contract also need that no reply comes without its data: index.ts reads *)
(* the data of getInfo before it checks it, and then answers the caller but*)
(* leaves the request open.                                                *)
(***************************************************************************)
EXTENDS BrowserBackend, RequestStateProofs, SequenceTheorems

\* What a reply may say.
Results == {"ok", "INITIALIZATION_FAILED", "ABI_MISMATCH", "CORE_FAILURE",
            "OUT_OF_MEMORY", "INVALID_ARGUMENT"} \cup BrokenPayloads

Replies == [event : {"reply"}, id : IssuedIds \cup {UnissuedId},
            method : Methods, result : Results, from : IssuedIds]

(* What may be on its way to the page.                                     *)
Events == {ErrorEvent, MessageErrorEvent, Junk} \cup Replies

\* What is on the link is well formed.
LinkTyped ==
  /\ inbox \in Seq([id : IssuedIds, method : Methods])
  /\ outbox \in Seq(Events)

\* The calls that were let in have the ids after that of init, one each.
CallersHaveIds ==
  /\ Len(method) = nextId - 1
  /\ \A c \in Calls : callId[c] # InitId
  /\ \A c, d \in Calls : callId[c] = callId[d] /\ callId[c] # 0 => c = d
  /\ \A id \in IssuedIds \ {InitId} : \E c \in Calls : callId[c] = id
  /\ \A c \in Calls : callId[c] = 0 => answer[c] \notin {"waiting", "ok"}
  /\ \A c \in Calls : answer[c] = "none" => callId[c] = 0

\* The factory's promise tells what became of request InitId.
FactorySeesOutcome ==
  IF created = "none"
  THEN nextId = 1 /\ state = "creating" /\ ~listening /\ inbox = <<>> /\ outbox = <<>>
  ELSE /\ nextId > 1
       /\ \/ created = outcome[InitId]
          \/ created = "ok" /\ outcome[InitId] = "resolved"

\* Where the instance is in its life is what the factory has told.
PhaseMatches ==
  /\ state = "creating" => created \in {"none", "waiting"}
  /\ state = "ready" => created = "ok"
  /\ created # "ok" => \A c \in Calls : answer[c] = "none"

\* What every step keeps, whatever arrives.
Kept ==
  /\ RSInv
  /\ PageTypeOK
  /\ LinkTyped
  /\ CallersHaveIds
  /\ FactorySeesOutcome
  /\ PhaseMatches
  /\ EndedIsSilent

\* A turn that ends the backend, as its callers see it: those in new have
\* no id yet.
EndsAll(code, new) ==
  /\ code \in FatalCodes \cup {"DISPOSED"}
  /\ new = {} \/ \E c \in Calls : new = {c} /\ answer[c] = "none" /\ state = "ready"
  /\ IF code = "DISPOSED" THEN created = "ok" /\ new = {} ELSE created # "none" /\ ~Over
  /\ state' = IF code = "DISPOSED" THEN "disposed" ELSE "failed"
  /\ savedFailure' = code
  /\ pending' = {}
  /\ outcome' = [id \in IssuedIds |-> IF id \in pending THEN code ELSE outcome[id]]
  /\ answer' = [c \in Calls |-> IF c \in WaitingCalls \cup new THEN code ELSE answer[c]]
  /\ created' = IF created = "waiting" THEN code ELSE created
  /\ replies' \in SUBSET (replies \ WaitingIds)
  /\ StopWorker
  /\ UNCHANGED <<nextId, method, callId>>

\* The page takes well formed events off the link one by one.
LEMMA HeadEvent ==
  ASSUME LinkTyped, outbox # <<>>
  PROVE  Head(outbox) \in Events /\ Tail(outbox) \in Seq(Events)
BY HeadTailProperties DEF LinkTyped

\* A reply that arrives is a reply.
LEMMA HeadReply ==
  ASSUME LinkTyped, HeadIs("reply")
  PROVE  Head(outbox) \in Replies
<1>1. Head(outbox) \in Events
  BY HeadEvent DEF HeadIs
<1>2. Head(outbox).event = "reply"
  BY DEF HeadIs
<1>3. ErrorEvent.event # "reply" /\ MessageErrorEvent.event # "reply" /\ Junk.event # "reply"
  BY DEF ErrorEvent, MessageErrorEvent, Junk
<1>. QED
  BY <1>1, <1>2, <1>3 DEF Events

\* Every turn of the backend is one use of RequestState.
LEMMA StepUsesRequestState ==
  ASSUME LinkTyped, [Next]_vars
  PROVE  [RSNext]_rsVars
<1>1. ASSUME NEW code \in CauseCodes, NEW kept, Fail(code, kept)
      PROVE  RSNext
  BY <1>1 DEF Fail, RSNext
<1>2. CASE Create
  BY <1>2 DEF Create, RSNext
<1>3. CASE CreateSendThrows
  BY <1>3 DEF CreateSendThrows, RSNext
<1>4. CASE \E c \in Calls, m \in ApiMethods : Call(c, m)
  BY <1>4 DEF Call, RSNext
<1>5. CASE \E c \in Calls : CallRefused(c)
  BY <1>5 DEF CallRefused
<1>6. CASE \E c \in Calls : CallExhausted(c)
  BY <1>6 DEF CallExhausted, RSNext
<1>7. CASE \E c \in Calls, m \in ApiMethods : CallSendThrows(c, m)
  BY <1>7 DEF CallSendThrows, RSNext
<1>8. CASE DisposeCall
  BY <1>8 DEF DisposeCall, RSNext
<1>9. CASE OnError \/ OnMessageError \/ OnBadMessage
  BY <1>1, <1>9 DEF OnError, OnMessageError, OnBadMessage, CauseCodes, FatalCodes
<1>10. CASE OnStaleReply
  BY <1>10 DEF OnStaleReply
<1>11. CASE OnInitReply
  <2>1. Head(outbox).id \in pending
    BY <1>11 DEF OnInitReply, ExpectedReply, ClassifyReplyId
  <2>2. InitFailureCode(Head(outbox).result) \in CauseCodes
    BY DEF InitFailureCode, CauseCodes, FatalCodes
  <2>. QED
    BY <1>1, <1>11, <2>1, <2>2 DEF OnInitReply, RSNext
<1>12. CASE OnCallReply
  <2>1. Head(outbox).id \in pending
    BY <1>12 DEF OnCallReply, ExpectedReply, ClassifyReplyId
  <2>2. Head(outbox).result \in Results
    BY <1>12, HeadReply DEF OnCallReply, ExpectedReply, Replies
  <2>3. Head(outbox).result # "TIMEOUT"
    BY <2>2, CallsAssumption DEF Results
  <2>4. (IF Head(outbox).result \in FatalCodes THEN Head(outbox).result ELSE "TRANSPORT_ERROR")
          \in CauseCodes
    BY <2>3 DEF CauseCodes, FatalCodes
  <2>. QED
    BY <1>1, <1>12, <2>1, <2>4 DEF OnCallReply, RSNext
<1>13. CASE \E id \in timers : OnTimer(id)
  BY <1>13 DEF OnTimer, RSNext
<1>14. CASE WorkerStep \/ LinkFault
  BY <1>14 DEF WorkerStep, LinkFault
<1>15. CASE UNCHANGED vars
  BY <1>15 DEF vars
<1>. QED
  BY <1>2, <1>3, <1>4, <1>5, <1>6, <1>7, <1>8, <1>9, <1>10, <1>11, <1>12, <1>13,
     <1>14, <1>15 DEF Next

\* Kept survives the end of the backend.
LEMMA EndsAllKeeps ==
  ASSUME Kept, NEW code, NEW new, EndsAll(code, new), RSInv'
  PROVE  Kept'
<1>1. /\ code \in Codes /\ code \notin {"waiting", "ok", "none", "resolved"}
      /\ new \in SUBSET {c \in Calls : answer[c] = "none"}
      /\ created # "ok" => new = {}
      /\ created # "none" /\ Over'
      /\ outcome' = [id \in IssuedIds |-> IF id \in pending THEN code ELSE outcome[id]]
      /\ answer' = [c \in Calls |-> IF c \in WaitingCalls \cup new THEN code ELSE answer[c]]
      /\ created' = IF created = "waiting" THEN code ELSE created
      /\ replies' \in SUBSET replies
      /\ listening' = FALSE /\ inbox' = <<>> /\ outbox' = <<>>
      /\ worker' = worker /\ faults' = faults
      /\ nextId' = nextId /\ method' = method /\ callId' = callId
  BY DEF EndsAll, StopWorker, Codes, SingleCodes, FatalCodes, Over, Kept, PhaseMatches
<1>2. PageTypeOK'
  <2>1. PageTypeOK
    BY DEF Kept
  <2>2. RSTypeOK'
    BY DEF RSInv
  <2>3. answer' \in [Calls -> Codes \cup {"none", "waiting", "ok", "TypeError"}]
    BY <1>1, <2>1 DEF PageTypeOK
  <2>4. created' \in Codes \cup {"none", "waiting", "ok"}
    BY <1>1, <2>1 DEF PageTypeOK
  <2>. QED
    BY <1>1, <2>1, <2>2, <2>3, <2>4 DEF PageTypeOK, IssuedIds
<1>3. LinkTyped'
  BY <1>1, EmptySeq DEF LinkTyped
<1>4. CallersHaveIds'
  BY <1>1 DEF Kept, CallersHaveIds, WaitingCalls, IssuedIds, PageTypeOK
<1>5. FactorySeesOutcome'
  <2>1. InitId \in IssuedIds /\ created' # "none"
    BY <1>1 DEF Kept, FactorySeesOutcome, IssuedIds, InitId, PageTypeOK, RSTypeOK
  <2>2. pending = {id \in IssuedIds : outcome[id] = "waiting"}
    BY DEF Kept, RSInv, WaitingIsPending
  <2>. QED
    BY <1>1, <2>1, <2>2 DEF Kept, FactorySeesOutcome
<1>6. PhaseMatches'
  BY <1>1 DEF Kept, PhaseMatches, WaitingCalls, Over
<1>. QED
  BY <1>1, <1>2, <1>3, <1>4, <1>5, <1>6 DEF Kept, EndedIsSilent

\* Every turn that ends a backend which had been created is such a turn.
LEMMA FailEndsAll ==
  ASSUME Kept, ~Over, created # "none", NEW code \in FatalCodes,
         NEW kept \in SUBSET (replies \ WaitingIds), Fail(code, kept)
  PROVE  EndsAll(code, {})
<1>1. outcome \in [IssuedIds -> Codes \cup {"waiting", "resolved"}]
  BY DEF Kept, RSInv, RSTypeOK
<1>. QED
  BY <1>1 DEF Fail, FailAll, Settle, EndPromises, EndsAll, Over, WaitingCalls, FatalCodes

\* A timer that still runs belongs to a living backend, and ends it.
LEMMA TimerEndsAll ==
  ASSUME Kept, NEW id \in timers, OnTimer(id)
  PROVE  EndsAll("TIMEOUT", {})
<1>1. outcome \in [IssuedIds -> Codes \cup {"waiting", "resolved"}]
  BY DEF Kept, RSInv, RSTypeOK
<1>2. ~Over /\ created # "none"
  BY DEF Kept, RSInv, OverMeansQuiet, RSTypeOK, FactorySeesOutcome, IssuedIds
<1>. QED
  BY <1>1, <1>2 DEF OnTimer, TimerFires, EndPromises, EndsAll, Over, WaitingCalls, Codes,
     FatalCodes

\* So does dispose.
LEMMA DisposeEndsAll ==
  ASSUME Kept, DisposeCall, state # "disposed"
  PROVE  EndsAll("DISPOSED", {})
<1>1. outcome \in [IssuedIds -> Codes \cup {"waiting", "resolved"}]
  BY DEF Kept, RSInv, RSTypeOK
<1>. QED
  BY <1>1 DEF DisposeCall, Dispose, Settle, EndPromises, EndsAll, Over, WaitingCalls, Codes

\* So does the call that finds the ids used up.
LEMMA ExhaustedEndsAll ==
  ASSUME Kept, NEW c \in Calls, CallExhausted(c)
  PROVE  EndsAll("TRANSPORT_ERROR", {c})
<1>1. outcome \in [IssuedIds -> Codes \cup {"waiting", "resolved"}]
  BY DEF Kept, RSInv, RSTypeOK
<1>. QED
  BY <1>1 DEF CallExhausted, Callable, ReadyRefusal, RegisterExhausted, FailAll, Settle,
     EndsAll, Over, WaitingCalls, FatalCodes

-----------------------------------------------------------------------------
\* What has been sent stays well formed when ids are added.
LEMMA LinkGrows ==
  ASSUME LinkTyped, nextId \in Nat, nextId' \in {nextId, nextId + 1}
  PROVE  /\ inbox \in Seq([id : IssuedIds', method : Methods])
         /\ Events \subseteq Events'
         /\ outbox \in Seq(Events')
<1>1. IssuedIds \subseteq IssuedIds'
  <2>1. CASE nextId' = nextId
    BY <2>1 DEF IssuedIds
  <2>2. CASE nextId' = nextId + 1
    BY <2>2 DEF IssuedIds
  <2>. QED
    BY <2>1, <2>2
<1>2. Replies \subseteq Replies'
  BY <1>1 DEF Replies
<1>3. Events \subseteq Events'
  BY <1>2 DEF Events
<1>4. [id : IssuedIds, method : Methods] \subseteq [id : IssuedIds', method : Methods]
  BY <1>1
<1>. QED
  BY <1>3, <1>4, SeqMonotonic DEF LinkTyped

\* Kept survives createBrowserBackend.
LEMMA CreateKeeps ==
  ASSUME Kept, Create, RSInv'
  PROVE  Kept'
<1>. DEFINE req == [id |-> nextId, method |-> "init"]
<1>1. /\ created = "none" /\ nextId = 1 /\ nextId' = 2
      /\ state' = "creating" /\ ~Over'
      /\ inbox = <<>> /\ outbox = <<>>
  BY DEF Kept, FactorySeesOutcome, Create, Register, Over
<1>2. /\ replies' = replies \cup {1}
      /\ method' = Append(method, "getInfo")
      /\ inbox' = Append(inbox, req)
      /\ created' = "waiting"
      /\ listening' = TRUE
      /\ callId' = callId /\ answer' = answer /\ outbox' = outbox /\ worker' = worker
      /\ faults' = faults
      /\ outcome' = [id \in 1 .. nextId |-> IF id = nextId THEN "waiting" ELSE outcome[id]]
  BY <1>1 DEF Create, Send, NotedMethod, Register
<1>3. Append(method, "getInfo") \in Seq(ApiMethods) /\ Len(Append(method, "getInfo")) = 1
  BY <1>1, AppendProperties DEF Kept, PageTypeOK, CallersHaveIds, ApiMethods
<1>4. PageTypeOK'
  <2>1. PageTypeOK
    BY DEF Kept
  <2>2. RSTypeOK'
    BY DEF RSInv
  <2>. QED
    BY <1>1, <1>2, <1>3, <2>1, <2>2 DEF PageTypeOK, IssuedIds
<1>5. LinkTyped'
  <2>1. req \in [id : IssuedIds', method : Methods]
    BY <1>1 DEF IssuedIds, Methods
  <2>2. Append(inbox, req) \in Seq([id : IssuedIds', method : Methods])
    BY <2>1, <1>1, EmptySeq, AppendProperties
  <2>. QED
    BY <1>1, <1>2, <2>2, EmptySeq DEF LinkTyped
<1>6. CallersHaveIds'
  BY <1>1, <1>2, <1>3 DEF Kept, CallersHaveIds, IssuedIds, InitId
<1>7. FactorySeesOutcome'
  BY <1>1, <1>2 DEF FactorySeesOutcome, InitId
<1>8. PhaseMatches'
  BY <1>1, <1>2 DEF Kept, PhaseMatches
<1>. QED
  BY <1>1, <1>4, <1>5, <1>6, <1>7, <1>8 DEF Kept, EndedIsSilent

\* Kept survives a createBrowserBackend that cannot send init.
LEMMA CreateSendThrowsKeeps ==
  ASSUME Kept, CreateSendThrows, RSInv'
  PROVE  Kept'
<1>1. created = "none" /\ nextId = 1 /\ nextId' = 2 /\ Over' /\ state' = "failed"
  BY DEF Kept, FactorySeesOutcome, CreateSendThrows, RegisterThenFail, Over
<1>2. /\ method' = Append(method, "getInfo")
      /\ created' = "TRANSPORT_ERROR" /\ created' \in Codes
      /\ listening' = FALSE /\ inbox' = <<>> /\ outbox' = <<>>
      /\ replies' = replies /\ callId' = callId /\ answer' = answer
      /\ worker' = worker /\ faults' = faults
      /\ outcome'[1] = "TRANSPORT_ERROR"
  BY <1>1 DEF CreateSendThrows, StopWorker, NotedMethod, RegisterThenFail, Codes, FatalCodes
<1>3. Append(method, "getInfo") \in Seq(ApiMethods) /\ Len(Append(method, "getInfo")) = 1
  BY <1>1, AppendProperties DEF Kept, PageTypeOK, CallersHaveIds, ApiMethods
<1>4. PageTypeOK'
  <2>1. PageTypeOK
    BY DEF Kept
  <2>2. RSTypeOK'
    BY DEF RSInv
  <2>3. /\ replies' \in SUBSET IssuedIds' 
        /\ callId' \in [Calls -> {0} \cup IssuedIds']
    BY <1>1, <1>2, <2>1 DEF PageTypeOK, IssuedIds
  <2>. QED
    BY <1>2, <1>3, <2>1, <2>2, <2>3 DEF PageTypeOK
<1>5. LinkTyped'
  BY <1>2, EmptySeq DEF LinkTyped
<1>6. CallersHaveIds'
  BY <1>1, <1>2, <1>3 DEF Kept, CallersHaveIds, IssuedIds, InitId
<1>7. FactorySeesOutcome'
  BY <1>1, <1>2 DEF FactorySeesOutcome, InitId
<1>8. PhaseMatches'
  BY <1>1, <1>2 DEF Kept, PhaseMatches
<1>. QED
  BY <1>2, <1>4, <1>5, <1>6, <1>7, <1>8 DEF Kept, EndedIsSilent

\* Kept survives a call: its id is new.
LEMMA CallKeeps ==
  ASSUME Kept, NEW c \in Calls, NEW m \in ApiMethods, Call(c, m), RSInv'
  PROVE  Kept'
<1>. DEFINE req == [id |-> nextId, method |-> m]
<1>1. /\ created = "ok" /\ answer[c] = "none" /\ callId[c] = 0
      /\ nextId \in Nat /\ nextId > 1 /\ nextId' = nextId + 1
      /\ state' = state /\ ~Over
  BY SendAllowed DEF Kept, FactorySeesOutcome, CallersHaveIds, Call, Callable, Register,
     RSInv, RSTypeOK
<1>2. /\ replies' = replies \cup {nextId}
      /\ method' = Append(method, m)
      /\ inbox' = Append(inbox, req)
      /\ callId' = [callId EXCEPT ![c] = nextId]
      /\ answer' = [answer EXCEPT ![c] = "waiting"]
      /\ created' = created /\ listening' = listening /\ outbox' = outbox
      /\ worker' = worker /\ faults' = faults
      /\ outcome' = [id \in 1 .. nextId |-> IF id = nextId THEN "waiting" ELSE outcome[id]]
  BY DEF Call, Send, NotedMethod, ApiMethods, Register
<1>3. Append(method, m) \in Seq(ApiMethods) /\ Len(Append(method, m)) = nextId
  BY <1>1, AppendProperties DEF Kept, PageTypeOK, CallersHaveIds
<1>4. PageTypeOK'
  <2>1. PageTypeOK
    BY DEF Kept
  <2>2. RSTypeOK'
    BY DEF RSInv
  <2>3. callId' \in [Calls -> {0} \cup IssuedIds']
    BY <1>1, <1>2, <2>1 DEF PageTypeOK, IssuedIds
  <2>4. answer' \in [Calls -> Codes \cup {"none", "waiting", "ok", "TypeError"}]
    BY <1>2, <2>1 DEF PageTypeOK
  <2>5. replies' \in SUBSET IssuedIds' 
    BY <1>1, <1>2, <2>1 DEF PageTypeOK, IssuedIds
  <2>. QED
    BY <1>2, <1>3, <2>1, <2>2, <2>3, <2>4, <2>5 DEF PageTypeOK
<1>5. LinkTyped'
  <2>1. req \in [id : IssuedIds', method : Methods]
    BY <1>1 DEF IssuedIds, Methods
  <2>2. inbox \in Seq([id : IssuedIds', method : Methods]) /\ outbox \in Seq(Events')
    BY <1>1, <1>2, LinkGrows DEF Kept
  <2>3. Append(inbox, req) \in Seq([id : IssuedIds', method : Methods])
    BY <2>1, <2>2, AppendProperties
  <2>. QED
    BY <1>2, <2>2, <2>3 DEF LinkTyped
<1>6. CallersHaveIds'
  <2>1. callId \in [Calls -> {0} \cup IssuedIds] /\ answer \in [Calls -> {answer[d] : d \in Calls}]
    BY DEF Kept, PageTypeOK
  <2>2. \A d \in Calls : callId[d] # nextId
    BY <1>1, <2>1 DEF IssuedIds
  <2>3. \A id \in IssuedIds' \ {InitId} : \E d \in Calls : callId'[d] = id
    <3>1. SUFFICES ASSUME NEW id \in IssuedIds' \ {InitId}
                   PROVE  \E d \in Calls : callId'[d] = id
      OBVIOUS
    <3>2. CASE id = nextId
      BY <1>2, <2>1, <3>2
    <3>3. CASE id # nextId
      <4>1. id \in IssuedIds \ {InitId}
        BY <1>1, <3>1, <3>3 DEF IssuedIds
      <4>2. PICK d \in Calls : callId[d] = id
        BY <4>1 DEF Kept, CallersHaveIds
      <4>3. d # c
        BY <1>1, <4>1, <4>2 DEF IssuedIds
      <4>. QED
        BY <1>2, <2>1, <4>2, <4>3
    <3>. QED
      BY <3>2, <3>3
  <2>. QED
    BY <1>1, <1>2, <1>3, <2>1, <2>2, <2>3 DEF Kept, CallersHaveIds, InitId
<1>7. FactorySeesOutcome'
  BY <1>1, <1>2 DEF Kept, FactorySeesOutcome, InitId
<1>8. PhaseMatches'
  BY <1>1, <1>2 DEF Kept, PhaseMatches
<1>. QED
  BY <1>1, <1>4, <1>5, <1>6, <1>7, <1>8 DEF Kept, EndedIsSilent, Over

\* Kept survives a call that cannot be sent.
LEMMA CallSendThrowsKeeps ==
  ASSUME Kept, NEW c \in Calls, NEW m \in ApiMethods, CallSendThrows(c, m), RSInv'
  PROVE  Kept'
<1>. DEFINE code == "TRANSPORT_ERROR"
<1>1. /\ created = "ok" /\ answer[c] = "none" /\ callId[c] = 0
      /\ nextId \in Nat /\ nextId > 1 /\ nextId' = nextId + 1
      /\ state' = "failed" /\ Over'
      /\ pending = {id \in IssuedIds : outcome[id] = "waiting"}
  BY DEF Kept, FactorySeesOutcome, CallersHaveIds, CallSendThrows, Callable, RegisterThenFail,
     RSInv, RSTypeOK, Over, WaitingIsPending
<1>2. /\ replies' \in SUBSET replies
      /\ method' = Append(method, m)
      /\ callId' = [callId EXCEPT ![c] = nextId]
      /\ answer' = [d \in Calls |-> IF d = c \/ answer[d] = "waiting" THEN code ELSE answer[d]]
      /\ created' = created /\ listening' = FALSE /\ inbox' = <<>> /\ outbox' = <<>>
      /\ worker' = worker /\ faults' = faults
      /\ outcome' = [id \in 1 .. nextId |->
                       IF id \in pending \cup {nextId} THEN code ELSE outcome[id]]
  BY DEF CallSendThrows, StopWorker, RegisterThenFail
<1>3. Append(method, m) \in Seq(ApiMethods) /\ Len(Append(method, m)) = nextId
  BY <1>1, AppendProperties DEF Kept, PageTypeOK, CallersHaveIds
<1>4. PageTypeOK'
  <2>1. PageTypeOK
    BY DEF Kept
  <2>2. RSTypeOK'
    BY DEF RSInv
  <2>3. callId' \in [Calls -> {0} \cup IssuedIds']
    BY <1>1, <1>2, <2>1 DEF PageTypeOK, IssuedIds
  <2>4. code \in Codes
    BY DEF Codes, FatalCodes
  <2>5. answer' \in [Calls -> Codes \cup {"none", "waiting", "ok", "TypeError"}]
    BY <1>2, <2>1, <2>4 DEF PageTypeOK
  <2>6. replies' \in SUBSET IssuedIds' 
    BY <1>1, <1>2, <2>1 DEF PageTypeOK, IssuedIds
  <2>. QED
    BY <1>2, <1>3, <2>1, <2>2, <2>3, <2>5, <2>6 DEF PageTypeOK
<1>5. LinkTyped'
  BY <1>2, EmptySeq DEF LinkTyped
<1>6. CallersHaveIds'
  <2>1. callId \in [Calls -> {0} \cup IssuedIds]
    BY DEF Kept, PageTypeOK
  <2>2. \A d \in Calls : callId[d] # nextId
    BY <1>1, <2>1 DEF IssuedIds
  <2>3. \A id \in IssuedIds' \ {InitId} : \E d \in Calls : callId'[d] = id
    <3>1. SUFFICES ASSUME NEW id \in IssuedIds' \ {InitId}
                   PROVE  \E d \in Calls : callId'[d] = id
      OBVIOUS
    <3>2. CASE id = nextId
      BY <1>2, <2>1, <3>2
    <3>3. CASE id # nextId
      <4>1. id \in IssuedIds \ {InitId}
        BY <1>1, <3>1, <3>3 DEF IssuedIds
      <4>2. PICK d \in Calls : callId[d] = id
        BY <4>1 DEF Kept, CallersHaveIds
      <4>3. d # c
        BY <1>1, <4>1, <4>2 DEF IssuedIds
      <4>. QED
        BY <1>2, <2>1, <4>2, <4>3
    <3>. QED
      BY <3>2, <3>3
  <2>. QED
    BY <1>1, <1>2, <1>3, <2>1, <2>2, <2>3 DEF Kept, CallersHaveIds, InitId
<1>7. FactorySeesOutcome'
  <2>1. InitId \in IssuedIds /\ outcome[InitId] \in {"ok", "resolved"}
    BY <1>1 DEF Kept, FactorySeesOutcome, InitId, IssuedIds
  <2>2. outcome'[InitId] = outcome[InitId]
    BY <1>1, <1>2, <2>1 DEF InitId, IssuedIds
  <2>. QED
    BY <1>1, <1>2, <2>2 DEF Kept, FactorySeesOutcome
<1>8. PhaseMatches'
  BY <1>1, <1>2 DEF Kept, PhaseMatches
<1>. QED
  BY <1>2, <1>4, <1>5, <1>6, <1>7, <1>8 DEF Kept, EndedIsSilent

\* One promise is settled, and the page has looked at one event at most.
LEMMA OneAnswerKeeps ==
  ASSUME Kept, RSInv', NEW c \in Calls, created = "ok",
         NEW result \in Codes \cup {"ok", "TypeError"},
         result = "ok" => callId[c] # 0,
         answer' = [answer EXCEPT ![c] = result],
         replies' \in SUBSET replies, created' = created, nextId' = nextId, state' = state,
         outcome'[InitId] = outcome[InitId],
         outbox' = outbox \/ (outbox # <<>> /\ outbox' = Tail(outbox)),
         UNCHANGED <<method, callId, listening, inbox, worker, faults>>
  PROVE  Kept'
<1>1. result \notin {"none", "waiting"}
  BY DEF Codes, SingleCodes, FatalCodes
<1>2. PageTypeOK'
  <2>1. PageTypeOK
    BY DEF Kept
  <2>2. RSTypeOK'
    BY DEF RSInv
  <2>3. answer' \in [Calls -> Codes \cup {"none", "waiting", "ok", "TypeError"}]
    BY <2>1 DEF PageTypeOK
  <2>. QED
    BY <2>1, <2>2, <2>3 DEF PageTypeOK, IssuedIds
<1>3. LinkTyped'
  <2>1. nextId \in Nat /\ LinkTyped
    BY DEF Kept, RSInv, RSTypeOK
  <2>2. /\ inbox \in Seq([id : IssuedIds', method : Methods])
        /\ outbox \in Seq(Events')
    BY <2>1, LinkGrows
  <2>3. outbox' \in Seq(Events')
    BY <2>2, HeadTailProperties
  <2>. QED
    BY <2>2, <2>3 DEF LinkTyped
<1>4. CallersHaveIds'
  <2>1. result = "ok" => callId[c] # 0
    BY DEF Kept, PageTypeOK, IssuedIds
  <2>. QED
    BY <1>1, <2>1 DEF Kept, CallersHaveIds, PageTypeOK, IssuedIds
<1>5. FactorySeesOutcome'
  BY DEF Kept, FactorySeesOutcome
<1>6. PhaseMatches'
  BY DEF Kept, PhaseMatches
<1>8. EndedIsSilent'
  BY DEF Kept, EndedIsSilent, Over
<1>. QED
  BY <1>2, <1>3, <1>4, <1>5, <1>6, <1>8 DEF Kept

\* What a refused call is told.
LEMMA Refusals ==
  ASSUME Kept, NEW c \in Calls, CallRefused(c)
  PROVE  /\ created = "ok" /\ answer[c] = "none"
         /\ \E code \in Codes : answer' = [answer EXCEPT ![c] = code]
<1>1. savedFailure \in Codes \cup {"none"}
  BY DEF Kept, RSInv, RSTypeOK, Codes
<1>2. ReadyRefusal \in Codes \cup {"none"}
  BY <1>1 DEF ReadyRefusal, Codes, FatalCodes
<1>. QED
  BY <1>2 DEF CallRefused, Callable, Codes, SingleCodes

\* Kept survives a refused call.
LEMMA CallRefusedKeeps ==
  ASSUME Kept, NEW c \in Calls, CallRefused(c), RSInv'
  PROVE  Kept'
<1>1. PICK code \in Codes : answer' = [answer EXCEPT ![c] = code]
  BY Refusals
<1>2. UNCHANGED <<rsVars, replies, method, callId, created, linkVars>> /\ created = "ok"
  BY DEF CallRefused, Callable
<1>3. /\ replies' = replies /\ created' = created /\ nextId' = nextId /\ state' = state
      /\ outcome' = outcome /\ outbox' = outbox
      /\ UNCHANGED <<method, callId, listening, inbox, worker, faults>>
  BY <1>2 DEF rsVars, linkVars
<1>4. code # "ok"
  BY DEF Codes, SingleCodes, FatalCodes
<1>. QED
  BY <1>1, <1>2, <1>3, <1>4, OneAnswerKeeps

\* Nothing but the link moves.
LEMMA LinkStepKeeps ==
  ASSUME Kept, RSInv', LinkTyped', UNCHANGED rsVars,
         UNCHANGED <<method, callId, answer, created, listening>>,
         replies' \in SUBSET replies,
         worker' \in {"uninitialized", "ready", "failed"},
         faults' \in 0 .. MaxFaults,
         Over \/ created = "none" => inbox' = <<>> /\ outbox' = <<>>
  PROVE  Kept'
<1>1. /\ state' = state /\ nextId' = nextId /\ outcome' = outcome
  BY DEF rsVars
<1>2. PageTypeOK'
  <2>1. PageTypeOK
    BY DEF Kept
  <2>2. RSTypeOK'
    BY DEF RSInv
  <2>. QED
    BY <1>1, <2>1, <2>2 DEF PageTypeOK, IssuedIds
<1>3. CallersHaveIds'
  BY <1>1 DEF Kept, CallersHaveIds, IssuedIds
<1>4. FactorySeesOutcome'
  BY <1>1 DEF Kept, FactorySeesOutcome
<1>5. PhaseMatches'
  BY <1>1 DEF Kept, PhaseMatches
<1>7. EndedIsSilent'
  BY <1>1 DEF Kept, EndedIsSilent, Over
<1>. QED
  BY <1>2, <1>3, <1>4, <1>5, <1>7 DEF Kept

\* What the worker may answer is something a reply may say.
LEMMA AnswersTyped ==
  ASSUME NEW m \in Methods, worker \in {"uninitialized", "ready", "failed"},
         NEW a \in Worker!Answers(m)
  PROVE  a[1] \in Results /\ a[2] \in {"uninitialized", "ready", "failed"}
BY DEF Worker!Answers, Methods, ApiMethods, Results

\* Kept survives the worker.
LEMMA WorkerStepKeeps ==
  ASSUME Kept, WorkerStep, RSInv'
  PROVE  Kept'
<1>. DEFINE req == Head(inbox)
<1>1. PICK a \in Worker!Answers(req.method) :
        /\ outbox' = Append(outbox, Reply(req.id, req.method, a[1]))
        /\ worker' = a[2]
  BY DEF WorkerStep
<1>2. /\ UNCHANGED rsVars
      /\ UNCHANGED <<replies, method, callId, answer, created, listening, faults>>
      /\ inbox # <<>> /\ inbox' = Tail(inbox)
  BY DEF WorkerStep, pageVars
<1>3. nextId' = nextId /\ nextId \in 1 .. MaxSafeId + 1
  BY <1>2 DEF rsVars, Kept, RSInv, RSTypeOK
<1>4. LinkTyped /\ PageTypeOK
  BY DEF Kept
<1>5. req \in [id : IssuedIds, method : Methods]
      /\ Tail(inbox) \in Seq([id : IssuedIds, method : Methods])
  BY <1>2, <1>4, HeadTailProperties DEF LinkTyped
<1>6. req.id \in IssuedIds /\ req.method \in Methods
  BY <1>5
<1>7. a[1] \in Results /\ a[2] \in {"uninitialized", "ready", "failed"}
  BY <1>4, <1>6, AnswersTyped DEF PageTypeOK
<1>. DEFINE rep == Reply(req.id, req.method, a[1])
<1>8. rep \in Replies'
  BY <1>1, <1>3, <1>6, <1>7 DEF Reply, Replies, IssuedIds
<1>9. rep \in Events'
  BY <1>8 DEF Events
<1>11. outbox \in Seq(Events')
  BY <1>3, <1>4, LinkGrows
<1>12. outbox' \in Seq(Events')
  BY <1>1, <1>9, <1>11, AppendProperties
<1>13. LinkTyped'
  BY <1>2, <1>3, <1>5, <1>12 DEF LinkTyped, IssuedIds
<1>14. ~Over /\ created # "none"
  BY <1>2 DEF Kept, EndedIsSilent, FactorySeesOutcome
<1>. QED
  BY <1>1, <1>2, <1>4, <1>7, <1>13, <1>14, LinkStepKeeps DEF PageTypeOK

\* A damaged reply is a reply, or junk.
LEMMA DamageTyped ==
  ASSUME LinkTyped, HeadIs("reply"), NEW d \in Damaged(Head(outbox))
  PROVE  d \in Events
<1>. DEFINE r == Head(outbox)
<1>1. r \in Replies
  BY HeadReply
<1>2. CASE d = Junk
  BY <1>2 DEF Events
<1>3. CASE d # Junk
  BY <1>1, <1>3 DEF Damaged, Replies, Results, Events
<1>. QED
  BY <1>2, <1>3

\* Kept survives a fault of the link.
LEMMA LinkFaultKeeps ==
  ASSUME Kept, LinkFault, RSInv'
  PROVE  Kept'
<1>1. /\ UNCHANGED rsVars
      /\ UNCHANGED <<replies, method, callId, answer, created, listening, inbox, worker>>
      /\ listening /\ faults < MaxFaults /\ faults' = faults + 1
  BY DEF LinkFault, pageVars
<1>2. LinkTyped /\ PageTypeOK
  BY DEF Kept
<1>3. outbox' \in Seq(Events)
  <2>1. outbox \in Seq(Events)
    BY <1>2 DEF LinkTyped
  <2>2. ASSUME NEW e \in {ErrorEvent, MessageErrorEvent}, outbox' = Append(outbox, e)
        PROVE  outbox' \in Seq(Events)
    BY <2>1, <2>2, AppendProperties DEF Events
  <2>3. ASSUME HeadIs("reply"), outbox' = Append(outbox, Head(outbox))
        PROVE  outbox' \in Seq(Events)
    BY <1>2, <2>1, <2>3, HeadEvent, AppendProperties DEF HeadIs
  <2>4. ASSUME HeadIs("reply"), NEW d \in Damaged(Head(outbox)), outbox' = <<d>> \o Tail(outbox)
        PROVE  outbox' \in Seq(Events)
    <3>1. <<d>> \in Seq(Events) /\ Tail(outbox) \in Seq(Events)
      BY <1>2, <2>4, DamageTyped, HeadEvent DEF HeadIs
    <3>. QED
      BY <2>4, <3>1, ConcatProperties
  <2>. QED
    BY <2>2, <2>3, <2>4 DEF LinkFault, ErrorEventComes, ReplyRepeated, ReplyDamaged
<1>4. nextId' = nextId
  BY <1>1 DEF rsVars
<1>5. Events' = Events
  BY <1>1, <1>4 DEF Events, Replies, IssuedIds
<1>6. LinkTyped'
  BY <1>1, <1>2, <1>3, <1>4, <1>5 DEF LinkTyped, IssuedIds
<1>7. faults' \in 0 .. MaxFaults
  BY <1>1, <1>2, CallsAssumption DEF PageTypeOK
<1>8. ~Over /\ created # "none"
  BY <1>1 DEF Kept, EndedIsSilent, FactorySeesOutcome
<1>. QED
  BY <1>1, <1>2, <1>6, <1>7, <1>8, LinkStepKeeps DEF PageTypeOK

\* Kept survives a stale reply.
LEMMA StaleReplyKeeps ==
  ASSUME Kept, OnStaleReply, RSInv'
  PROVE  Kept'
<1>1. /\ UNCHANGED rsVars
      /\ UNCHANGED <<method, callId, answer, created, listening, inbox, worker, faults>>
      /\ replies' \in SUBSET replies
      /\ listening /\ outbox # <<>> /\ outbox' = Tail(outbox)
  BY DEF OnStaleReply, HeadIs
<1>2. LinkTyped /\ PageTypeOK
  BY DEF Kept
<1>3. nextId' = nextId
  BY <1>1 DEF rsVars
<1>4. Events' = Events
  BY <1>1, <1>3 DEF Events, Replies, IssuedIds
<1>5. LinkTyped'
  BY <1>1, <1>2, <1>3, <1>4, HeadEvent DEF LinkTyped, IssuedIds
<1>6. ~Over /\ created # "none"
  BY <1>1 DEF Kept, EndedIsSilent, FactorySeesOutcome
<1>. QED
  BY <1>1, <1>2, <1>5, <1>6, LinkStepKeeps DEF PageTypeOK

\* What the page knows of a reply it expects.
LEMMA ExpectedReplyKnown ==
  ASSUME Kept, ExpectedReply
  PROVE  /\ Head(outbox) \in Replies
         /\ Head(outbox).id \in pending /\ Head(outbox).id \in IssuedIds
         /\ outcome[Head(outbox).id] = "waiting"
         /\ ~Over /\ outbox # <<>> /\ created # "none"
<1>1. Head(outbox).id \in pending /\ HeadIs("reply") /\ outbox # <<>>
  BY DEF ExpectedReply, ClassifyReplyId, HeadIs
<1>2. Head(outbox) \in Replies
  BY <1>1, HeadReply DEF Kept
<1>3. pending \in SUBSET IssuedIds /\ nextId \in 1 .. MaxSafeId + 1
  BY DEF Kept, RSInv, RSTypeOK
<1>4. Head(outbox).id # UnissuedId
  BY <1>1, <1>3, MaxSafeIdAssumption DEF UnissuedId, IssuedIds
<1>5. outcome[Head(outbox).id] = "waiting" /\ ~Over
  BY <1>1 DEF Kept, RSInv, WaitingIsPending, OverMeansQuiet
<1>6. created # "none"
  BY <1>1 DEF Kept, FactorySeesOutcome
<1>. QED
  BY <1>1, <1>2, <1>3, <1>4, <1>5, <1>6

\* While request InitId is open the instance is being created.
LEMMA InitOpenMeansCreating ==
  ASSUME Kept, InitId \in pending
  PROVE  state = "creating" /\ created = "waiting" /\ WaitingCalls = {}
<1>1. outcome[InitId] = "waiting" /\ ~Over /\ state \in Lifecycles /\ InitId \in IssuedIds
  BY DEF Kept, RSInv, RSTypeOK, WaitingIsPending, OverMeansQuiet
<1>2. created # "none"
  BY <1>1 DEF Kept, FactorySeesOutcome, InitId, IssuedIds
<1>3. created = "waiting"
  BY <1>1, <1>2 DEF Kept, FactorySeesOutcome
<1>. QED
  BY <1>1, <1>3 DEF Kept, PhaseMatches, Lifecycles, Over, WaitingCalls

\* The answer to init is accepted.
InitAnswered ==
  /\ InitId \in pending
  /\ state' = "ready" /\ savedFailure' = savedFailure
  /\ created' = "ok"
  /\ pending' = pending \ {InitId}
  /\ outcome' = [id \in IssuedIds |-> IF id = InitId THEN "resolved" ELSE outcome[id]]
  /\ replies' = replies \ {InitId}
  /\ outbox # <<>> /\ outbox' = Tail(outbox)
  /\ UNCHANGED <<nextId, method, callId, answer, listening, inbox, worker, faults>>

\* The reply to init is accepted or ends the backend.
LEMMA InitReplySplits ==
  ASSUME Kept, OnInitReply
  PROVE  \/ InitAnswered
         \/ \E code \in CauseCodes : Fail(code, replies \ {InitId}) /\ InitId \in pending
<1>1. InitId \in pending /\ Head(outbox).id = InitId /\ outbox # <<>>
  BY ExpectedReplyKnown DEF OnInitReply
<1>2. state = "creating" /\ DOMAIN outcome = IssuedIds
  BY <1>1, InitOpenMeansCreating DEF Kept, RSInv, RSTypeOK
<1>3. InitFailureCode(Head(outbox).result) \in CauseCodes
  BY DEF InitFailureCode, CauseCodes, FatalCodes
<1>. QED
  BY <1>1, <1>2, <1>3 DEF OnInitReply, InitSucceeds, Settle, InitAnswered

\* Kept survives the answer to init.
LEMMA InitAnsweredKeeps ==
  ASSUME Kept, InitAnswered, RSInv'
  PROVE  Kept'
<1>. USE DEF InitAnswered
<1>1. LinkTyped /\ PageTypeOK /\ nextId \in Nat
  BY DEF Kept, RSInv, RSTypeOK
<1>2. PageTypeOK'
  <2>1. RSTypeOK'
    BY DEF RSInv
  <2>. QED
    BY <1>1, <2>1 DEF PageTypeOK, IssuedIds
<1>3. Events' = Events
  BY DEF Events, Replies, IssuedIds
<1>4. LinkTyped'
  BY <1>1, <1>3, HeadEvent DEF LinkTyped, IssuedIds
<1>5. CallersHaveIds'
  BY DEF Kept, CallersHaveIds, IssuedIds
<1>6. FactorySeesOutcome'
  <2>1. created = "waiting" /\ InitId \in IssuedIds
    BY InitOpenMeansCreating DEF Kept, RSInv, RSTypeOK
  <2>. QED
    BY <1>1, <2>1 DEF IssuedIds, InitId, FactorySeesOutcome
<1>7. PhaseMatches'
  BY DEF PhaseMatches
<1>9. EndedIsSilent'
  BY DEF EndedIsSilent, Over
<1>. QED
  BY <1>2, <1>4, <1>5, <1>6, <1>7, <1>9 DEF Kept

\* The call that sent the request.
Caller(id) == CHOOSE c \in Calls : callId[c] = id

\* A call is answered; a payload without data answers it and nothing else.
CallAnswered(id, result) ==
  /\ id \in pending /\ id # InitId
  /\ answer' = [answer EXCEPT ![Caller(id)] = result]
  /\ \/ /\ result \in {"ok"} \cup SingleCodes
        /\ pending' = pending \ {id}
        /\ outcome' = [i \in IssuedIds |->
                         IF i = id THEN IF result = "ok" THEN "resolved" ELSE result
                         ELSE outcome[i]]
     \/ /\ result = "TypeError" /\ "noData" \in BrokenPayloads
        /\ UNCHANGED <<pending, outcome>>
  /\ replies' = replies \ {id}
  /\ outbox # <<>> /\ outbox' = Tail(outbox)
  /\ UNCHANGED <<state, savedFailure, nextId, method, callId, created, listening, inbox, worker, faults>>

\* A reply to a call answers that call or ends the backend.
LEMMA CallReplySplits ==
  ASSUME Kept, OnCallReply
  PROVE  \/ \E id \in IssuedIds, result \in {"ok", "TypeError"} \cup SingleCodes :
              CallAnswered(id, result)
         \/ \E code \in CauseCodes : Fail(code, replies \ WaitingIds)
<1>. DEFINE r == Head(outbox)
<1>1. /\ r \in Replies /\ r.id \in pending /\ r.id \in IssuedIds /\ r.id # InitId
      /\ outbox # <<>>
  BY ExpectedReplyKnown DEF OnCallReply
<1>2. DOMAIN outcome = IssuedIds
  BY DEF Kept, RSInv, RSTypeOK
<1>3. r.result \in Results /\ r.result # "TIMEOUT"
  BY <1>1, CallsAssumption DEF Replies, Results
<1>4. CASE r.result = "noData" /\ method[r.id] = "getInfo"
  <2>1. "noData" \in BrokenPayloads
    BY <1>3, <1>4 DEF Results
  <2>2. CallAnswered(r.id, "TypeError")
    BY <1>1, <1>4, <2>1 DEF OnCallReply, CallAnswered, Caller, rsVars
  <2>. QED
    BY <1>1, <2>2
<1>. DEFINE unread == ~(r.result = "noData" /\ method[r.id] = "getInfo")
<1>5. CASE unread /\ PayloadFits(r)
  <2>1. CallAnswered(r.id, "ok")
    BY <1>1, <1>2, <1>5 DEF OnCallReply, ResolveOne, Settle, CallAnswered, Caller
  <2>. QED
    BY <1>1, <2>1
<1>6. CASE unread /\ ~PayloadFits(r) /\ r.result \in SingleCodes
  <2>1. CallAnswered(r.id, r.result)
    BY <1>1, <1>2, <1>6 DEF OnCallReply, RejectOne, Settle, CallAnswered, Caller, SingleCodes
  <2>. QED
    BY <1>1, <1>6, <2>1
<1>7. CASE unread /\ ~PayloadFits(r) /\ r.result \notin SingleCodes
  <2>1. (IF r.result \in FatalCodes THEN r.result ELSE "TRANSPORT_ERROR") \in CauseCodes
    BY <1>3 DEF CauseCodes, FatalCodes
  <2>. QED
    BY <1>7, <2>1 DEF OnCallReply
<1>. QED
  BY <1>4, <1>5, <1>6, <1>7

\* Kept survives the answer to a call: its caller is the one that sent it.
LEMMA CallAnsweredKeeps ==
  ASSUME Kept, NEW id \in IssuedIds, NEW result \in {"ok", "TypeError"} \cup SingleCodes,
         CallAnswered(id, result), RSInv'
  PROVE  Kept'
<1>1. id \in IssuedIds \ {InitId} /\ InitId \in IssuedIds
  BY DEF CallAnswered, IssuedIds, InitId, Kept, RSInv, RSTypeOK
<1>2. Caller(id) \in Calls /\ callId[Caller(id)] = id
  BY <1>1 DEF Kept, CallersHaveIds, Caller
<1>3. created = "ok"
  <2>1. answer[Caller(id)] # "none"
    BY <1>1, <1>2 DEF Kept, CallersHaveIds, IssuedIds
  <2>. QED
    BY <1>2, <2>1 DEF Kept, PhaseMatches
<1>4. outcome'[InitId] = outcome[InitId]
  BY <1>1 DEF CallAnswered
<1>5. result \in Codes \cup {"ok", "TypeError"}
  BY DEF Codes
<1>6. callId[Caller(id)] # 0
  BY <1>2 DEF IssuedIds
<1>. QED
  BY <1>2, <1>3, <1>4, <1>5, <1>6, OneAnswerKeeps DEF CallAnswered

-----------------------------------------------------------------------------
\* A turn in which everybody fails comes from an event of a living backend.
LEMMA FailTurns ==
  ASSUME Kept, OnError \/ OnMessageError \/ OnBadMessage \/ OnInitReply \/ OnCallReply
  PROVE  \/ \E code \in CauseCodes : EndsAll(code, {})
         \/ InitAnswered
         \/ \E id \in IssuedIds, result \in {"ok", "TypeError"} \cup SingleCodes :
              CallAnswered(id, result)
<1>1. outbox # <<>> /\ listening
  BY DEF OnError, OnMessageError, OnBadMessage, OnInitReply, OnCallReply, ExpectedReply, HeadIs
<1>2. ~Over /\ created # "none"
  BY <1>1 DEF Kept, EndedIsSilent, FactorySeesOutcome
<1>3. ASSUME NEW code \in CauseCodes, NEW kept \in SUBSET (replies \ WaitingIds),
             Fail(code, kept)
      PROVE  EndsAll(code, {})
  BY <1>2, <1>3, FailEndsAll DEF CauseCodes
<1>4. CASE OnError \/ OnMessageError \/ OnBadMessage
  BY <1>3, <1>4 DEF OnError, OnMessageError, OnBadMessage, CauseCodes, FatalCodes
<1>5. CASE OnInitReply
  <2>1. InitId \in pending => WaitingIds = {}
    BY InitOpenMeansCreating DEF WaitingIds
  <2>. QED
    BY <1>3, <1>5, <2>1, InitReplySplits
<1>6. CASE OnCallReply
  BY <1>3, <1>6, CallReplySplits
<1>. QED
  BY <1>4, <1>5, <1>6

\* Kept holds at the start.
LEMMA KeptInit == Init => Kept
<1>. SUFFICES ASSUME Init PROVE Kept
  OBVIOUS
<1>1. RSInv
  BY RSInitInvariant DEF Init
<1>2. nextId = 1 /\ state = "creating" /\ ~Over
  BY DEF Init, RSInit, Over
<1>3. PageTypeOK
  <2>1. RSTypeOK
    BY <1>1 DEF RSInv
  <2>2. method \in Seq(ApiMethods)
    BY EmptySeq DEF Init
  <2>3. faults \in 0 .. MaxFaults
    BY CallsAssumption DEF Init
  <2>. QED
    BY <2>1, <2>2, <2>3 DEF Init, PageTypeOK
<1>4. LinkTyped
  BY EmptySeq DEF Init, LinkTyped
<1>5. CallersHaveIds
  BY <1>2, EmptySeq DEF Init, CallersHaveIds, IssuedIds, InitId
<1>. QED
  BY <1>1, <1>2, <1>3, <1>4, <1>5
     DEF Init, Kept, FactorySeesOutcome, PhaseMatches, EndedIsSilent

\* Kept is inductive.
LEMMA KeptStep == Kept /\ [Next]_vars => Kept'
<1>. SUFFICES ASSUME Kept, [Next]_vars PROVE Kept'
  OBVIOUS
<1>1. RSInv'
  BY StepUsesRequestState, RSStepInvariant DEF Kept
<1>2. CASE Create
  BY <1>1, <1>2, CreateKeeps
<1>3. CASE CreateSendThrows
  BY <1>1, <1>3, CreateSendThrowsKeeps
<1>4. CASE \E c \in Calls, m \in ApiMethods : Call(c, m)
  BY <1>1, <1>4, CallKeeps
<1>5. CASE \E c \in Calls : CallRefused(c)
  BY <1>1, <1>5, CallRefusedKeeps
<1>6. CASE \E c \in Calls : CallExhausted(c)
  BY <1>1, <1>6, ExhaustedEndsAll, EndsAllKeeps
<1>7. CASE \E c \in Calls, m \in ApiMethods : CallSendThrows(c, m)
  BY <1>1, <1>7, CallSendThrowsKeeps
<1>8. CASE UNCHANGED vars
  <2>1. /\ UNCHANGED <<replies, method, callId, answer, created, listening, inbox, outbox, worker,
                       faults>>
        /\ UNCHANGED rsVars
    BY <1>8 DEF vars, pageVars, linkVars
  <2>2. nextId' = nextId
    BY <2>1 DEF rsVars
  <2>3. LinkTyped'
    BY <2>1, <2>2 DEF Kept, LinkTyped, Events, Replies, IssuedIds
  <2>4. Over \/ created = "none" => inbox = <<>> /\ outbox = <<>>
    BY DEF Kept, EndedIsSilent, FactorySeesOutcome
  <2>. QED
    BY <1>1, <2>1, <2>3, <2>4, LinkStepKeeps DEF Kept, PageTypeOK
<1>9. CASE DisposeCall
  <2>1. CASE state = "disposed"
    BY <1>8, <1>9, <2>1 DEF DisposeCall, Dispose, vars
  <2>2. CASE state # "disposed"
    BY <1>1, <1>9, <2>2, DisposeEndsAll, EndsAllKeeps
  <2>. QED
    BY <2>1, <2>2
<1>10. CASE OnError \/ OnMessageError \/ OnBadMessage \/ OnInitReply \/ OnCallReply
  BY <1>1, <1>10, FailTurns, EndsAllKeeps, InitAnsweredKeeps, CallAnsweredKeeps
<1>11. CASE OnStaleReply
  BY <1>1, <1>11, StaleReplyKeeps
<1>12. CASE \E id \in timers : OnTimer(id)
  BY <1>1, <1>12, TimerEndsAll, EndsAllKeeps
<1>13. CASE WorkerStep
  BY <1>1, <1>13, WorkerStepKeeps
<1>14. CASE LinkFault
  BY <1>1, <1>14, LinkFaultKeeps
<1>. QED
  BY <1>2, <1>3, <1>4, <1>5, <1>6, <1>7, <1>8, <1>9, <1>10, <1>11, <1>12, <1>13, <1>14 DEF Next

(* Whatever arrives, the types hold, every call has an id of its own, the  *)
(* factory tells what became of init, and an ended backend is silent.      *)
THEOREM BrowserKept == Spec => []Kept
<1>1. QED
  BY KeptInit, KeptStep, PTL DEF Spec

-----------------------------------------------------------------------------
(* What was recorded for the properties agrees with what is on the way.    *)

\* A reply that nothing has touched: it comes from the request it names, under
\* the method of that request, with an answer a worker gives.
Undamaged(r) ==
  /\ r.id = r.from
  /\ r.result \notin BrokenPayloads
  /\ method[r.id] = NotedMethod(r.method)
  /\ r.id = InitId => r.result \in {"ok", "INITIALIZATION_FAILED", "ABI_MISMATCH"}

\* What an event can do to the backend is accounted for.
Justified(e) ==
  /\ e = ErrorEvent => "WORKER_FAILED" \in reasons
  /\ e \in {MessageErrorEvent, Junk} => "TRANSPORT_ERROR" \in reasons
  /\ e \in Replies =>
       /\ e.result = "ok" => e.from \in executed
       /\ e.id = e.from \/ <<e.from, e.id>> \in misled
       /\ e.result \in FatalCodes => e.result \in reasons
       /\ Undamaged(e) \/ "TRANSPORT_ERROR" \in reasons

JustifiedEvents == {e \in Events : Justified(e)}

\* A request on its way carries the method that was noted for it.
NotedRequests ==
  {q \in [id : IssuedIds, method : Methods] :
     method[q.id] = NotedMethod(q.method) /\ (q.id = InitId => q.method = "init")}

Recorded ==
  /\ HistoryTypeOK
  /\ inbox \in Seq(NotedRequests)
  /\ outbox \in Seq(JustifiedEvents)
  /\ OkMeansExecuted
  /\ FailureHasReason

\* What no step takes back.
Grows ==
  /\ executed \subseteq executed' /\ misled \subseteq misled' /\ reasons \subseteq reasons'
  /\ \A id \in IssuedIds : id \in IssuedIds' /\ method'[id] = method[id]

\* What is on the way stays accounted for.
LEMMA AccountsStay ==
  ASSUME Grows
  PROVE  JustifiedEvents \subseteq JustifiedEvents' /\ NotedRequests \subseteq NotedRequests'
<1>1. Events \subseteq Events'
  BY DEF Grows, Events, Replies
<1>2. ASSUME NEW e \in Events, Justified(e) PROVE Justified(e)'
  <2>1. e \in Replies' => e \in Replies
    <3>1. ErrorEvent.event # "reply" /\ MessageErrorEvent.event # "reply"
          /\ Junk.event # "reply"
      BY DEF ErrorEvent, MessageErrorEvent, Junk
    <3>. QED
      BY <1>2, <3>1 DEF Events, Replies
  <2>2. ASSUME e \in Replies, Undamaged(e) PROVE Undamaged(e)'
    BY <2>2 DEF Grows, Undamaged, Replies
  <2>. QED
    BY <1>2, <2>1, <2>2 DEF Justified, Grows
<1>3. ASSUME NEW q \in NotedRequests PROVE q \in NotedRequests'
  <2>1. q.id \in IssuedIds /\ q \in [id : IssuedIds, method : Methods]
    BY DEF NotedRequests
  <2>2. q \in [id : IssuedIds', method : Methods]
    BY <2>1 DEF Grows
  <2>. QED
    BY <2>1, <2>2 DEF NotedRequests, Grows
<1>. QED
  BY <1>1, <1>2, <1>3 DEF JustifiedEvents

\* Callers that were told ok before were told the truth and still are.
LEMMA OkStays ==
  ASSUME Kept, Recorded, Grows,
         \A c \in Calls : answer'[c] = "ok" =>
           answer[c] = "ok" /\ source'[c] = source[c] /\ callId'[c] = callId[c]
  PROVE  OkMeansExecuted'
<1>1. SUFFICES ASSUME NEW c \in Calls, answer'[c] = "ok"
               PROVE  /\ source'[c] \in executed'
                      /\ method'[source'[c]] = method'[callId'[c]]
                      /\ source'[c] = callId'[c] \/ <<source'[c], callId'[c]>> \in misled'
  BY DEF OkMeansExecuted
<1>2. /\ source[c] \in executed /\ method[source[c]] = method[callId[c]]
      /\ source[c] = callId[c] \/ <<source[c], callId[c]>> \in misled
  BY <1>1 DEF Recorded, OkMeansExecuted
<1>3. callId[c] \in IssuedIds /\ source[c] \in IssuedIds
  BY <1>1, <1>2 DEF Kept, CallersHaveIds, PageTypeOK, Recorded, HistoryTypeOK
<1>. QED
  BY <1>1, <1>2, <1>3 DEF Grows

\* Recorded survives a step that sends nothing and looks at one event at most.
LEMMA QuietRecords ==
  ASSUME Kept, Recorded, Grows, HistoryTypeOK', OkMeansExecuted', FailureHasReason',
         inbox' \in {inbox, <<>>},
         outbox' \in {outbox, <<>>} \/ (outbox # <<>> /\ outbox' = Tail(outbox))
  PROVE  Recorded'
<1>1. JustifiedEvents \subseteq JustifiedEvents' /\ NotedRequests \subseteq NotedRequests'
  BY AccountsStay
<1>2. /\ outbox \in Seq(JustifiedEvents') /\ inbox \in Seq(NotedRequests')
      /\ <<>> \in Seq(JustifiedEvents') /\ <<>> \in Seq(NotedRequests')
  BY <1>1, SeqMonotonic, EmptySeq DEF Recorded
<1>3. outbox # <<>> => Tail(outbox) \in Seq(JustifiedEvents')
  BY <1>2, HeadTailProperties
<1>. QED
  BY <1>2, <1>3 DEF Recorded

\* Nothing is recorded in most turns.
LEMMA SameHistory ==
  ASSUME Kept, Recorded, UNCHANGED <<executed, misled, reasons>>, UNCHANGED <<method, nextId>>,
         source' \in [Calls -> {0} \cup IssuedIds]
  PROVE  Grows /\ HistoryTypeOK'
BY DEF Recorded, HistoryTypeOK, Grows, IssuedIds

\* The backend fails with a code it was given reason for.
LEMMA FailRecords ==
  ASSUME Kept, Recorded, NEW code \in reasons, NEW kept, Fail(code, kept)
  PROVE  Recorded'
<1>1. /\ UNCHANGED <<executed, misled, reasons, source>> /\ UNCHANGED <<method, nextId, callId>>
      /\ inbox' = <<>> /\ outbox' = <<>>
  BY DEF Fail, StopWorker, historyVars, FailAll, rsVars
<1>2. Grows /\ HistoryTypeOK'
  BY <1>1, SameHistory DEF Recorded, HistoryTypeOK
<1>3. OkMeansExecuted'
  <2>1. \A c \in Calls : answer'[c] = "ok" => answer[c] = "ok"
    BY DEF Fail, EndPromises, Recorded, HistoryTypeOK, FatalCodes
  <2>. QED
    BY <1>1, <1>2, <2>1, OkStays
<1>4. FailureHasReason'
  BY <1>1 DEF Fail, FailAll, rsVars, Recorded, FailureHasReason
<1>. QED
  BY <1>1, <1>2, <1>3, <1>4, QuietRecords

\* The page looks at accounted events only.
LEMMA HeadAccounted ==
  ASSUME Recorded, outbox # <<>>
  PROVE  Justified(Head(outbox))
BY HeadTailProperties DEF Recorded, JustifiedEvents

\* An untouched reply to an open request is never taken for a bad message.
LEMMA BadMessageRecords ==
  ASSUME Kept, Recorded, OnBadMessage
  PROVE  Recorded'
<1>. DEFINE e == Head(outbox)
<1>1. outbox # <<>> /\ Justified(e)
  BY HeadAccounted DEF OnBadMessage, HeadIs
<1>2. CASE HeadIs("junk")
  <2>1. e \in Events /\ e.event = "junk"
    BY <1>1, <1>2, HeadEvent DEF Kept, HeadIs
  <2>2. ErrorEvent.event # "junk" /\ \A r \in Replies : r.event # "junk"
    BY DEF ErrorEvent, Replies
  <2>3. "TRANSPORT_ERROR" \in reasons
    BY <1>1, <2>1, <2>2 DEF Events, Justified
  <2>. QED
    BY <2>3, FailRecords DEF OnBadMessage
<1>3. CASE HeadIs("reply")
  <2>1. e \in Replies
    BY <1>3, HeadReply DEF Kept
  <2>2. /\ e.id \in IssuedIds \cup {UnissuedId} /\ e.from \in IssuedIds
        /\ e.method \in Methods
    BY <2>1 DEF Replies
  <2>3. IssuedIds = 1 .. nextId - 1 /\ nextId \in 1 .. MaxSafeId + 1
    BY DEF IssuedIds, Kept, RSInv, RSTypeOK
  <2>4. Undamaged(e) => ClassifyReplyId(e.id) # "invalid" /\ MethodFits(e)
    BY <2>2, <2>3 DEF Undamaged, ClassifyReplyId, MethodFits, NotedMethod
  <2>5. ~HeadIs("junk")
    BY <1>3 DEF HeadIs
  <2>6. "TRANSPORT_ERROR" \in reasons
    BY <1>1, <2>1, <2>4, <2>5 DEF OnBadMessage, Justified
  <2>. QED
    BY <2>6, FailRecords DEF OnBadMessage
<1>. QED
  BY <1>2, <1>3 DEF OnBadMessage

\* Recorded survives an error event.
LEMMA ErrorRecords ==
  ASSUME Kept, Recorded, OnError \/ OnMessageError
  PROVE  Recorded'
<1>. DEFINE e == Head(outbox)
<1>1. outbox # <<>> /\ Justified(e) /\ e \in Events
  BY HeadAccounted, HeadEvent DEF OnError, OnMessageError, HeadIs, Kept
<1>2. /\ \A r \in Replies : r.event = "reply"
      /\ ErrorEvent.event = "error" /\ MessageErrorEvent.event = "messageerror"
      /\ Junk.event = "junk"
  BY DEF Replies, ErrorEvent, MessageErrorEvent, Junk
<1>3. CASE OnError
  <2>1. "WORKER_FAILED" \in reasons
    BY <1>1, <1>2, <1>3 DEF OnError, HeadIs, Events, Justified
  <2>. QED
    BY <1>3, <2>1, FailRecords DEF OnError
<1>4. CASE OnMessageError
  <2>1. "TRANSPORT_ERROR" \in reasons
    BY <1>1, <1>2, <1>4 DEF OnMessageError, HeadIs, Events, Justified
  <2>. QED
    BY <1>4, <2>1, FailRecords DEF OnMessageError
<1>. QED
  BY <1>3, <1>4

\* Recorded survives the reply to init.
LEMMA InitReplyRecords ==
  ASSUME Kept, Recorded, OnInitReply
  PROVE  Recorded'
<1>. DEFINE r == Head(outbox)
<1>1. r \in Replies /\ r.id = InitId /\ outbox # <<>> /\ Justified(r)
  BY ExpectedReplyKnown, HeadAccounted DEF OnInitReply
<1>2. CASE r.result = "ok"
  <2>1. /\ UNCHANGED <<executed, misled, reasons, source>> /\ UNCHANGED <<method, nextId, callId>>
        /\ inbox' = inbox /\ outbox' = Tail(outbox) /\ answer' = answer
        /\ savedFailure' = savedFailure /\ (state' = "failed" => state = "failed")
    BY <1>2 DEF OnInitReply, InitSucceeds, historyVars
  <2>2. Grows /\ HistoryTypeOK'
    BY <2>1, SameHistory DEF Recorded, HistoryTypeOK
  <2>3. OkMeansExecuted'
    BY <2>1, <2>2, OkStays
  <2>4. FailureHasReason'
    BY <2>1 DEF Recorded, FailureHasReason
  <2>. QED
    BY <1>1, <2>1, <2>2, <2>3, <2>4, QuietRecords
<1>3. CASE r.result # "ok"
  <2>1. InitFailureCode(r.result) \in reasons
    BY <1>1, <1>3 DEF Justified, Undamaged, InitFailureCode, FatalCodes
  <2>. QED
    BY <1>3, <2>1, FailRecords DEF OnInitReply
<1>. QED
  BY <1>2, <1>3

\* Recorded survives the reply to a call: whoever is told ok is told whose
\* answer it is, and a fatal end has its reason.
LEMMA CallReplyRecords ==
  ASSUME Kept, Recorded, OnCallReply
  PROVE  Recorded'
<1>. DEFINE r == Head(outbox)
<1>1. /\ r \in Replies /\ r.id # InitId /\ outbox # <<>> /\ Justified(r)
      /\ r.id \in pending /\ r.id \in IssuedIds /\ r.from \in IssuedIds
      /\ r.result \in Results
  BY ExpectedReplyKnown, HeadAccounted DEF OnCallReply, Replies
<1>2. Caller(r.id) \in Calls /\ callId[Caller(r.id)] = r.id
  BY <1>1 DEF Kept, CallersHaveIds, Caller
<1>3. source \in [Calls -> {0} \cup IssuedIds]
      /\ answer \in [Calls -> Codes \cup {"none", "waiting", "ok", "TypeError"}]
  BY DEF Recorded, HistoryTypeOK, Kept, PageTypeOK
<1>4. ASSUME UNCHANGED <<method, callId, executed, misled, reasons, inbox>>,
             NEW told, answer' = [answer EXCEPT ![Caller(r.id)] = told],
             \/ told # "ok" /\ source' = source
             \/ PayloadFits(r) /\ source' = [source EXCEPT ![Caller(r.id)] = r.from],
             UNCHANGED <<nextId, state, savedFailure>>, outbox' = Tail(outbox)
      PROVE  Recorded'
  <2>1. source' \in [Calls -> {0} \cup IssuedIds]
    BY <1>1, <1>2, <1>3, <1>4
  <2>2. Grows /\ HistoryTypeOK'
    BY <1>4, <2>1, SameHistory
  <2>3. OkMeansExecuted'
    <3>1. CASE told # "ok" /\ source' = source
      <4>1. \A c \in Calls : answer'[c] = "ok" => answer[c] = "ok"
        BY <1>3, <1>4, <3>1
      <4>. QED
        BY <1>4, <2>2, <3>1, <4>1, OkStays
    <3>2. CASE PayloadFits(r) /\ source' = [source EXCEPT ![Caller(r.id)] = r.from]
      <4>1. SUFFICES ASSUME NEW c \in Calls, answer'[c] = "ok"
                     PROVE  /\ source'[c] \in executed
                            /\ method[source'[c]] = method[callId[c]]
                            /\ \/ source'[c] = callId[c]
                               \/ <<source'[c], callId[c]>> \in misled
        BY <1>4 DEF OkMeansExecuted
      <4>2. CASE c = Caller(r.id)
        BY <1>1, <1>2, <1>3, <3>2, <4>2 DEF PayloadFits, Justified
      <4>3. CASE c # Caller(r.id)
        BY <1>2, <1>3, <1>4, <3>2, <4>1, <4>3 DEF Recorded, OkMeansExecuted
      <4>. QED
        BY <4>2, <4>3
    <3>. QED
      BY <1>4, <3>1, <3>2
  <2>4. FailureHasReason'
    BY <1>4 DEF Recorded, FailureHasReason
  <2>. QED
    BY <1>1, <1>4, <2>2, <2>3, <2>4, QuietRecords
<1>5. CASE r.result = "noData" /\ method[r.id] = "getInfo"
  BY <1>4, <1>5 DEF OnCallReply, Caller, rsVars
<1>. DEFINE unread == ~(r.result = "noData" /\ method[r.id] = "getInfo")
<1>6. CASE unread /\ PayloadFits(r)
  BY <1>4, <1>6 DEF OnCallReply, Caller, ResolveOne, Settle
<1>7. CASE unread /\ ~PayloadFits(r) /\ r.result \in SingleCodes
  <2>1. r.result # "ok"
    BY <1>7 DEF SingleCodes
  <2>. QED
    BY <1>4, <1>7, <2>1 DEF OnCallReply, Caller, RejectOne, Settle
<1>8. CASE unread /\ ~PayloadFits(r) /\ r.result \notin SingleCodes
  <2>. DEFINE code == IF r.result \in FatalCodes THEN r.result ELSE "TRANSPORT_ERROR"
  <2>1. code \in reasons
    BY <1>1, <1>8 DEF Justified, Undamaged, PayloadFits, Results, FatalCodes, SingleCodes
  <2>2. Fail(code, replies \ WaitingIds)
    BY <1>8 DEF OnCallReply
  <2>. QED
    BY <2>1, <2>2, FailRecords
<1>. QED
  BY <1>5, <1>6, <1>7, <1>8

\* Recorded survives a request that is sent.
LEMMA SendRecords ==
  ASSUME Kept, Recorded, NEW m \in Methods, m = "init" <=> nextId = InitId,
         Send(m), Register, UNCHANGED <<outbox, executed, misled, reasons, source>>,
         FailureHasReason',
         \A c \in Calls : answer'[c] = "ok" => answer[c] = "ok" /\ callId'[c] = callId[c]
  PROVE  Recorded'
<1>. DEFINE req == [id |-> nextId, method |-> m]
<1>1. /\ nextId' = nextId + 1 /\ nextId \in Nat \ {0} /\ Len(method) = nextId - 1
      /\ method \in Seq(ApiMethods) /\ NotedMethod(m) \in ApiMethods
      /\ method' = Append(method, NotedMethod(m)) /\ inbox' = Append(inbox, req)
  BY DEF Register, Send, Kept, RSInv, RSTypeOK, CallersHaveIds, PageTypeOK, NotedMethod,
     Methods, ApiMethods
<1>2. IssuedIds = 1 .. nextId - 1 /\ IssuedIds' = 1 .. nextId
  BY <1>1 DEF IssuedIds
<1>3. (\A id \in IssuedIds : method'[id] = method[id]) /\ method'[nextId] = NotedMethod(m)
  BY <1>1, <1>2, AppendProperties
<1>4. Grows
  BY <1>1, <1>2, <1>3 DEF Grows
<1>5. HistoryTypeOK'
  BY <1>1, <1>2 DEF Recorded, HistoryTypeOK
<1>6. req \in NotedRequests'
  BY <1>1, <1>2, <1>3 DEF NotedRequests
<1>7. /\ inbox \in Seq(NotedRequests') /\ outbox \in Seq(JustifiedEvents')
  BY <1>4, AccountsStay, SeqMonotonic DEF Recorded
<1>8. inbox' \in Seq(NotedRequests')
  BY <1>1, <1>6, <1>7, AppendProperties
<1>9. OkMeansExecuted'
  BY <1>4, OkStays
<1>. QED
  BY <1>5, <1>7, <1>8, <1>9 DEF Recorded

\* Recorded survives a request that cannot be sent, the new id used or not.
LEMMA SendThrowsRecords ==
  ASSUME Kept, Recorded, GivesReason("TRANSPORT_ERROR"), StopWorker,
         \/ nextId' = nextId /\ method' = method
         \/ \E m \in ApiMethods : nextId' = nextId + 1 /\ method' = Append(method, m),
         savedFailure' = "TRANSPORT_ERROR",
         \A c \in Calls : answer'[c] = "ok" => answer[c] = "ok" /\ callId'[c] = callId[c]
  PROVE  Recorded'
<1>1. /\ reasons' = reasons \cup {"TRANSPORT_ERROR"} /\ UNCHANGED <<executed, misled, source>>
      /\ inbox' = <<>> /\ outbox' = <<>>
      /\ nextId \in Nat \ {0} /\ Len(method) = nextId - 1 /\ method \in Seq(ApiMethods)
  BY DEF GivesReason, StopWorker, Kept, RSInv, RSTypeOK, CallersHaveIds, PageTypeOK
<1>2. /\ IssuedIds = 1 .. nextId - 1
      /\ IssuedIds' = 1 .. nextId - 1 \/ IssuedIds' = 1 .. nextId
  BY <1>1 DEF IssuedIds
<1>3. \A id \in IssuedIds : method'[id] = method[id]
  BY <1>1, <1>2, AppendProperties
<1>4. Grows
  BY <1>1, <1>2, <1>3 DEF Grows
<1>5. HistoryTypeOK'
  BY <1>1, <1>2 DEF Recorded, HistoryTypeOK, FatalCodes
<1>6. OkMeansExecuted'
  BY <1>1, <1>4, OkStays
<1>7. FailureHasReason'
  BY <1>1 DEF FailureHasReason
<1>. QED
  BY <1>1, <1>4, <1>5, <1>6, <1>7, QuietRecords

\* Recorded survives the worker: every answer is the untouched answer to the
\* request it names.
LEMMA WorkerRecords ==
  ASSUME Kept, Recorded, WorkerStep
  PROVE  Recorded'
<1>. DEFINE req == Head(inbox)
<1>1. PICK a \in Worker!Answers(req.method) :
        /\ outbox' = Append(outbox, Reply(req.id, req.method, a[1]))
        /\ worker' = a[2]
        /\ executed' = IF a[1] = "ok" THEN executed \cup {req.id} ELSE executed
        /\ reasons' = reasons \cup ({a[1]} \cap FatalCodes)
  BY DEF WorkerStep
<1>2. /\ UNCHANGED <<misled, source>> /\ UNCHANGED <<nextId, state, savedFailure>>
      /\ UNCHANGED <<method, callId, answer>>
      /\ inbox # <<>> /\ inbox' = Tail(inbox)
  BY DEF WorkerStep, pageVars, rsVars
<1>3. IssuedIds' = IssuedIds
  BY <1>2 DEF IssuedIds
<1>4. req \in NotedRequests /\ Tail(inbox) \in Seq(NotedRequests)
  BY <1>2, HeadTailProperties DEF Recorded
<1>5. /\ req.id \in IssuedIds /\ req.method \in Methods
      /\ method[req.id] = NotedMethod(req.method) /\ (req.id = InitId => req.method = "init")
  BY <1>4 DEF NotedRequests
<1>6. worker \in {"uninitialized", "ready", "failed"}
  BY DEF Kept, PageTypeOK
<1>7. /\ a[1] \in {"ok", "INITIALIZATION_FAILED", "ABI_MISMATCH", "CORE_FAILURE",
                   "OUT_OF_MEMORY", "INVALID_ARGUMENT"}
      /\ req.method = "init" => a[1] \in {"ok", "INITIALIZATION_FAILED", "ABI_MISMATCH"}
  BY <1>1, <1>5, <1>6 DEF Worker!Answers, Methods, ApiMethods
<1>8. a[1] \notin BrokenPayloads
  BY <1>7, CallsAssumption
<1>9. Grows
  BY <1>1, <1>2, <1>3 DEF Grows
<1>10. HistoryTypeOK'
  BY <1>1, <1>2, <1>3, <1>5 DEF Recorded, HistoryTypeOK
<1>r. PICK rep : rep = Reply(req.id, req.method, a[1])
  OBVIOUS
<1>11. /\ rep.event = "reply" /\ rep.id = req.id /\ rep.from = req.id
       /\ rep.method = req.method /\ rep.result = a[1]
  BY <1>r DEF Reply
<1>12. rep \in Replies'
  BY <1>3, <1>5, <1>7, <1>r DEF Reply, Replies, Results
<1>13. Undamaged(rep)'
  BY <1>2, <1>5, <1>7, <1>8, <1>11 DEF Undamaged
<1>14. Justified(rep)'
  <2>1. ErrorEvent.event # "reply" /\ MessageErrorEvent.event # "reply" /\ Junk.event # "reply"
    BY DEF ErrorEvent, MessageErrorEvent, Junk
  <2>2. rep \notin {ErrorEvent, MessageErrorEvent, Junk}
    BY <1>11, <2>1
  <2>. QED
    BY <1>1, <1>11, <1>13, <2>2 DEF Justified
<1>15. rep \in JustifiedEvents'
  BY <1>12, <1>14 DEF JustifiedEvents, Events
<1>16. outbox \in Seq(JustifiedEvents') /\ Tail(inbox) \in Seq(NotedRequests')
  BY <1>4, <1>9, AccountsStay, SeqMonotonic DEF Recorded
<1>17. outbox' \in Seq(JustifiedEvents')
  BY <1>1, <1>15, <1>16, <1>r, AppendProperties
<1>18. OkMeansExecuted'
  BY <1>2, <1>9, OkStays
<1>19. FailureHasReason'
  BY <1>2, <1>9 DEF Recorded, FailureHasReason, Grows
<1>. QED
  BY <1>2, <1>10, <1>16, <1>17, <1>18, <1>19 DEF Recorded

\* Damage is on record, and so is where the reply was sent to.
LEMMA DamageAccounted ==
  ASSUME Kept, Recorded, ReplyDamaged, UNCHANGED <<nextId, method>>
  PROVE  /\ Grows /\ HistoryTypeOK'
         /\ \E d \in JustifiedEvents' : outbox' = <<d>> \o Tail(outbox)
<1>. DEFINE r == Head(outbox)
<1>1. PICK d \in Damaged(r) :
        /\ outbox' = <<d>> \o Tail(outbox)
        /\ misled' = IF d # Junk /\ d.id # d.from THEN misled \cup {<<d.from, d.id>>} ELSE misled
  BY DEF ReplyDamaged
<1>2. HeadIs("reply") /\ reasons' = reasons \cup {"TRANSPORT_ERROR"}
      /\ executed' = executed /\ source' = source
  BY DEF ReplyDamaged
<1>3. r \in Replies /\ outbox # <<>> /\ Justified(r)
  BY <1>2, HeadReply, HeadAccounted DEF HeadIs, Kept
<1>4. IssuedIds' = IssuedIds
  BY DEF IssuedIds
<1>5. \/ d = Junk
      \/ d \in Replies /\ d.from = r.from /\ d.result \in {r.result} \cup BrokenPayloads
  BY <1>1, <1>3 DEF Damaged, Replies, Results
<1>6. Grows
  BY <1>1, <1>2, <1>4 DEF Grows
<1>7. HistoryTypeOK'
  <2>1. misled' \in SUBSET (IssuedIds \X (IssuedIds \cup {UnissuedId}))
    BY <1>1, <1>5 DEF Recorded, HistoryTypeOK, Replies
  <2>. QED
    BY <1>2, <1>4, <2>1 DEF Recorded, HistoryTypeOK, FatalCodes
<1>8. d \in Events'
  BY <1>4, <1>5 DEF Events, Replies
<1>9. Justified(d)'
  <2>1. "TRANSPORT_ERROR" \in reasons'
    BY <1>2
  <2>2. ErrorEvent.event = "error" /\ Junk.event = "junk" /\ \A q \in Replies : q.event = "reply"
    BY DEF ErrorEvent, Junk, Replies
  <2>3. CASE d = Junk
    BY <2>1, <2>2, <2>3, <1>4 DEF Justified, Replies
  <2>4. CASE d # Junk
    <3>1. d \in Replies /\ d.from = r.from /\ d.result \in {r.result} \cup BrokenPayloads
      BY <1>5, <2>4
    <3>2. d.result = "ok" => d.from \in executed
      BY <1>3, <3>1, CallsAssumption DEF Justified
    <3>3. d.result \in FatalCodes => d.result \in reasons
      BY <1>3, <3>1, CallsAssumption DEF Justified, FatalCodes
    <3>4. d # ErrorEvent
      BY <2>2, <3>1
    <3>. QED
      BY <1>1, <1>2, <2>1, <2>4, <3>2, <3>3, <3>4 DEF Justified
  <2>. QED
    BY <2>3, <2>4
<1>. QED
  BY <1>1, <1>6, <1>7, <1>8, <1>9 DEF JustifiedEvents

\* Recorded survives a fault of the link.
LEMMA LinkRecords ==
  ASSUME Kept, Recorded, LinkFault
  PROVE  Recorded'
<1>1. /\ UNCHANGED <<nextId, state, savedFailure>> /\ UNCHANGED <<method, callId, answer>>
      /\ inbox' = inbox
  BY DEF LinkFault, pageVars, rsVars
<1>2. IssuedIds' = IssuedIds
  BY <1>1 DEF IssuedIds
<1>3. ASSUME Grows, HistoryTypeOK', outbox' \in Seq(JustifiedEvents'), source' = source
      PROVE  Recorded'
  <2>1. OkMeansExecuted'
    BY <1>1, <1>3, OkStays
  <2>2. FailureHasReason'
    BY <1>1, <1>3 DEF Recorded, FailureHasReason, Grows
  <2>3. inbox' \in Seq(NotedRequests')
    BY <1>1, <1>3, AccountsStay, SeqMonotonic DEF Recorded
  <2>. QED
    BY <1>3, <2>1, <2>2, <2>3 DEF Recorded
<1>4. ASSUME NEW e \in {ErrorEvent, MessageErrorEvent}, NEW code \in {"WORKER_FAILED", "TRANSPORT_ERROR"},
             e = ErrorEvent <=> code = "WORKER_FAILED",
             outbox' = Append(outbox, e), GivesReason(code)
      PROVE  Recorded'
  <2>1. Grows /\ HistoryTypeOK' /\ source' = source /\ code \in reasons'
    BY <1>1, <1>2, <1>4 DEF GivesReason, Grows, Recorded, HistoryTypeOK, FatalCodes
  <2>2. /\ ErrorEvent.event = "error" /\ MessageErrorEvent.event = "messageerror"
        /\ Junk.event = "junk" /\ \A q \in Replies' : q.event = "reply"
    BY DEF ErrorEvent, MessageErrorEvent, Junk, Replies
  <2>3. e \in JustifiedEvents'
    BY <1>4, <2>1, <2>2 DEF JustifiedEvents, Events, Justified
  <2>4. outbox \in Seq(JustifiedEvents')
    BY <2>1, AccountsStay, SeqMonotonic DEF Recorded
  <2>. QED
    BY <1>3, <1>4, <2>1, <2>3, <2>4, AppendProperties
<1>5. CASE ErrorEventComes
  <2>1. ErrorEvent # MessageErrorEvent
    BY DEF ErrorEvent, MessageErrorEvent
  <2>. QED
    BY <1>4, <1>5, <2>1 DEF ErrorEventComes
<1>6. CASE ReplyRepeated
  <2>1. /\ UNCHANGED <<executed, misled, reasons, source>>
        /\ outbox # <<>> /\ outbox' = Append(outbox, Head(outbox))
    BY <1>6 DEF ReplyRepeated, historyVars, HeadIs
  <2>2. Grows /\ HistoryTypeOK'
    BY <1>1, <2>1, SameHistory DEF Recorded, HistoryTypeOK
  <2>3. outbox \in Seq(JustifiedEvents')
    BY <2>2, AccountsStay, SeqMonotonic DEF Recorded
  <2>. QED
    BY <1>3, <2>1, <2>2, <2>3, HeadTailProperties, AppendProperties
<1>7. CASE ReplyDamaged
  <2>1. Grows /\ HistoryTypeOK' /\ source' = source /\ outbox # <<>>
    BY <1>1, <1>7, DamageAccounted DEF ReplyDamaged, HeadIs
  <2>2. PICK d \in JustifiedEvents' : outbox' = <<d>> \o Tail(outbox)
    BY <1>1, <1>7, DamageAccounted
  <2>3. outbox \in Seq(JustifiedEvents')
    BY <2>1, AccountsStay, SeqMonotonic DEF Recorded
  <2>4. Tail(outbox) \in Seq(JustifiedEvents') /\ <<d>> \in Seq(JustifiedEvents')
    BY <2>1, <2>3, HeadTailProperties
  <2>. QED
    BY <1>3, <2>1, <2>2, <2>4, ConcatProperties
<1>. QED
  BY <1>5, <1>6, <1>7 DEF LinkFault

\* Every step keeps the record.
LEMMA RecordedStep ==
  ASSUME Kept, Recorded, [Next]_vars
  PROVE  Recorded'
<1>1. savedFailure \in Codes \cup {"none"} /\ "ok" \notin Codes
  BY DEF Kept, RSInv, RSTypeOK, Codes, SingleCodes, FatalCodes
<1>2. ASSUME UNCHANGED <<executed, misled, reasons, source>>, UNCHANGED <<method, nextId, callId>>,
             inbox' \in {inbox, <<>>},
             outbox' \in {outbox, <<>>} \/ (outbox # <<>> /\ outbox' = Tail(outbox)),
             \A c \in Calls : answer'[c] = "ok" => answer[c] = "ok",
             state' = "failed" => \/ savedFailure' = "TIMEOUT"
                                  \/ state = "failed" /\ savedFailure' = savedFailure
      PROVE  Recorded'
  <2>1. Grows /\ HistoryTypeOK'
    BY <1>2, SameHistory DEF Recorded, HistoryTypeOK
  <2>2. OkMeansExecuted'
    BY <1>2, <2>1, OkStays
  <2>3. FailureHasReason'
    BY <1>2 DEF Recorded, FailureHasReason
  <2>. QED
    BY <1>2, <2>1, <2>2, <2>3, QuietRecords
<1>3. CASE Create
  <2>1. nextId = InitId
    BY <1>3 DEF Create, Kept, FactorySeesOutcome, InitId
  <2>2. FailureHasReason'
    BY <1>3 DEF Create, Register, historyVars, Recorded, FailureHasReason
  <2>. QED
    BY <1>3, <2>1, <2>2, SendRecords DEF Create, historyVars, Methods
<1>4. CASE CreateSendThrows
  <2>1. method' = Append(method, "getInfo") /\ "getInfo" \in ApiMethods
    BY <1>4 DEF CreateSendThrows, NotedMethod, ApiMethods
  <2>. QED
    BY <1>4, <2>1, SendThrowsRecords DEF CreateSendThrows, RegisterThenFail
<1>5. ASSUME NEW c \in Calls, NEW m \in ApiMethods, Call(c, m) PROVE Recorded'
  <2>1. nextId # InitId /\ m # "init" /\ m \in Methods
    BY <1>5 DEF Call, Callable, Kept, FactorySeesOutcome, InitId, ApiMethods, Methods
  <2>2. FailureHasReason'
    BY <1>5 DEF Call, Register, historyVars, Recorded, FailureHasReason
  <2>3. \A d \in Calls : answer'[d] = "ok" => answer[d] = "ok" /\ callId'[d] = callId[d]
    BY <1>5 DEF Call, Kept, PageTypeOK
  <2>. QED
    BY <1>5, <2>1, <2>2, <2>3, SendRecords DEF Call, historyVars
<1>6. ASSUME NEW c \in Calls, CallRefused(c) PROVE Recorded'
  <2>1. PICK code \in Codes : answer' = [answer EXCEPT ![c] = code]
    BY <1>6, Refusals
  <2>2. \A d \in Calls : answer'[d] = "ok" => answer[d] = "ok"
    BY <1>1, <2>1 DEF Kept, PageTypeOK
  <2>. QED
    BY <1>2, <1>6, <2>2 DEF CallRefused, rsVars, linkVars, historyVars
<1>7. ASSUME NEW c \in Calls, CallExhausted(c) PROVE Recorded'
  <2>1. \A d \in Calls : answer'[d] = "ok" => answer[d] = "ok"
    BY <1>7 DEF CallExhausted
  <2>. QED
    BY <1>7, <2>1, SendThrowsRecords DEF CallExhausted, RegisterExhausted, FailAll
<1>8. ASSUME NEW c \in Calls, NEW m \in ApiMethods, CallSendThrows(c, m) PROVE Recorded'
  <2>1. \A d \in Calls : answer'[d] = "ok" => answer[d] = "ok" /\ callId'[d] = callId[d]
    BY <1>8 DEF CallSendThrows, Kept, PageTypeOK
  <2>. QED
    BY <1>8, <2>1, SendThrowsRecords DEF CallSendThrows, RegisterThenFail
<1>9. CASE DisposeCall
  <2>1. CASE state = "disposed"
    BY <1>2, <1>9, <2>1 DEF DisposeCall, Dispose, rsVars, pageVars, linkVars, historyVars
  <2>2. CASE state # "disposed"
    BY <1>2, <1>9, <2>2 DEF DisposeCall, Dispose, EndPromises, StopWorker, historyVars
  <2>. QED
    BY <2>1, <2>2
<1>10. CASE OnError \/ OnMessageError
  BY <1>10, ErrorRecords
<1>11. CASE OnBadMessage
  BY <1>11, BadMessageRecords
<1>12. CASE OnStaleReply
  BY <1>2, <1>12 DEF OnStaleReply, HeadIs, rsVars, historyVars
<1>13. CASE OnInitReply
  BY <1>13, InitReplyRecords
<1>14. CASE OnCallReply
  BY <1>14, CallReplyRecords
<1>15. ASSUME NEW id \in timers, OnTimer(id) PROVE Recorded'
  <2>1. EndsAll("TIMEOUT", {}) /\ UNCHANGED historyVars
    BY <1>15, TimerEndsAll DEF OnTimer
  <2>2. \A c \in Calls : answer'[c] = "ok" => answer[c] = "ok"
    BY <2>1 DEF EndsAll
  <2>3. /\ inbox' = <<>> /\ outbox' = <<>> /\ savedFailure' = "TIMEOUT"
        /\ UNCHANGED <<method, nextId, callId>>
    BY <2>1 DEF EndsAll, StopWorker
  <2>4. UNCHANGED <<executed, misled, reasons, source>>
    BY <2>1 DEF historyVars
  <2>. QED
    BY <1>2, <2>2, <2>3, <2>4
<1>16. CASE WorkerStep
  BY <1>16, WorkerRecords
<1>17. CASE LinkFault
  BY <1>17, LinkRecords
<1>18. CASE UNCHANGED vars
  BY <1>2, <1>18 DEF vars, rsVars, pageVars, linkVars, historyVars
<1>. QED
  BY <1>3, <1>4, <1>5, <1>6, <1>7, <1>8, <1>9, <1>10, <1>11, <1>12, <1>13, <1>14, <1>15,
     <1>16, <1>17, <1>18 DEF Next

\* Nothing has happened at the start.
LEMMA RecordedInit == Init => Recorded
<1>1. SUFFICES ASSUME Init PROVE Recorded
  OBVIOUS
<1>2. <<>> \in Seq(NotedRequests) /\ <<>> \in Seq(JustifiedEvents)
  BY EmptySeq
<1>. QED
  BY <1>1, <1>2 DEF Init, RSInit, Recorded, HistoryTypeOK, OkMeansExecuted, FailureHasReason

THEOREM BrowserRecorded == Spec => []Recorded
<1>1. Kept /\ Recorded /\ [Next]_vars => Recorded'
  BY RecordedStep
<1>2. QED
  BY <1>1, RecordedInit, BrowserKept, PTL DEF Spec

(* A call succeeds only with an answer of the core to a request of its     *)
(* kind: its own, unless the link has addressed another's reply to it.     *)
(* Repeated, late and otherwise damaged replies make no call succeed.      *)
THEOREM BrowserOkMeansExecuted == Spec => []OkMeansExecuted
<1>1. Recorded => OkMeansExecuted
  BY DEF Recorded
<1>2. QED
  BY <1>1, BrowserRecorded, PTL

(* The backend never ends in failure without a cause: not for a reply that *)
(* comes twice or too late, and not for the refusal of a single request.   *)
THEOREM BrowserFailureHasReason == Spec => []FailureHasReason
<1>1. Recorded => FailureHasReason
  BY DEF Recorded
<1>2. QED
  BY <1>1, BrowserRecorded, PTL

-----------------------------------------------------------------------------
(* core.worker.ts never says ok without the data of the answer.            *)
NoReplyWithoutData == "noData" \notin BrokenPayloads

\* The backend's map and its callers agree with RequestState.
Books == HandlersMatchPending /\ CallersSeeOutcome

\* Every open request but init has a caller that waits for it.
LEMMA OpenHasWaiter ==
  ASSUME Kept, Books
  PROVE  replies \ WaitingIds \subseteq {InitId}
<1>1. CASE Over
  BY <1>1 DEF Books, HandlersMatchPending
<1>2. CASE ~Over
  <2>1. SUFFICES ASSUME NEW id \in pending, id # InitId PROVE id \in WaitingIds
    BY <1>2 DEF Books, HandlersMatchPending
  <2>2. id \in IssuedIds /\ outcome[id] = "waiting" /\ id # 0
    BY DEF Kept, RSInv, WaitingIsPending, RSTypeOK, IssuedIds
  <2>3. PICK c \in Calls : callId[c] = id
    BY <2>1, <2>2 DEF Kept, CallersHaveIds
  <2>4. answer[c] = "waiting"
    BY <2>2, <2>3 DEF Books, CallersSeeOutcome
  <2>. QED
    BY <2>3, <2>4 DEF WaitingIds, WaitingCalls
<1>. QED
  BY <1>1, <1>2

\* What a step that leaves the calls of before alone does to their outcome.
LEMMA CallersUndisturbed ==
  ASSUME Kept, Books, UNCHANGED <<callId, answer>>,
         \A id \in IssuedIds \ {InitId} : outcome'[id] = outcome[id]
  PROVE  CallersSeeOutcome'
<1>1. \A c \in Calls : callId[c] # 0 => callId[c] \in IssuedIds \ {InitId}
  BY DEF Kept, PageTypeOK, CallersHaveIds
<1>. QED
  BY <1>1 DEF Books, CallersSeeOutcome

\* The books agree after the end of the backend.
LEMMA BooksEnd ==
  ASSUME Kept, Books, NEW code, NEW new, EndsAll(code, new)
  PROVE  Books'
<1>1. HandlersMatchPending'
  BY OpenHasWaiter DEF EndsAll, HandlersMatchPending, Over
<1>2. CallersSeeOutcome'
  <2>1. SUFFICES ASSUME NEW c \in Calls, callId[c] # 0
                 PROVE  \/ answer'[c] = outcome'[callId[c]]
                        \/ answer'[c] = "ok" /\ outcome'[callId[c]] = "resolved"
    BY DEF CallersSeeOutcome, EndsAll
  <2>2. callId[c] \in IssuedIds /\ answer[c] # "none"
    BY <2>1 DEF Kept, PageTypeOK, CallersHaveIds
  <2>3. callId[c] \in pending <=> outcome[callId[c]] = "waiting"
    BY <2>2 DEF Kept, RSInv, WaitingIsPending
  <2>4. \/ answer[c] = outcome[callId[c]]
        \/ answer[c] = "ok" /\ outcome[callId[c]] = "resolved"
    BY <2>1 DEF Books, CallersSeeOutcome
  <2>5. /\ answer'[c] = IF answer[c] = "waiting" THEN code ELSE answer[c]
        /\ outcome'[callId[c]] = IF callId[c] \in pending THEN code ELSE outcome[callId[c]]
    BY <2>2 DEF EndsAll, WaitingCalls
  <2>. QED
    BY <2>3, <2>4, <2>5
<1>. QED
  BY <1>1, <1>2 DEF Books

\* The books agree after createBrowserBackend.
LEMMA BooksCreate ==
  ASSUME Kept, Books, Create \/ CreateSendThrows
  PROVE  Books'
<1>1. created = "none" /\ nextId = 1 /\ state = "creating" /\ nextId' = 2
  BY DEF Kept, FactorySeesOutcome, Create, CreateSendThrows, Register, RegisterThenFail
<1>2. IssuedIds = {} /\ replies = pending /\ pending = {} /\ UNCHANGED <<callId, answer>>
  BY <1>1 DEF IssuedIds, Kept, PageTypeOK, RSTypeOK, Create, CreateSendThrows, Books,
     HandlersMatchPending, Over
<1>3. HandlersMatchPending'
  <2>1. CASE Create
    BY <1>1, <1>2, <2>1 DEF Create, Send, Register, HandlersMatchPending, Over
  <2>2. CASE CreateSendThrows
    BY <1>1, <1>2, <2>2 DEF CreateSendThrows, RegisterThenFail, HandlersMatchPending, Over
  <2>. QED
    BY <2>1, <2>2
<1>. QED
  BY <1>2, <1>3, CallersUndisturbed DEF Books

\* The books agree after a call.
LEMMA BooksCall ==
  ASSUME Kept, Books, NEW c \in Calls, NEW m \in ApiMethods, Call(c, m)
  PROVE  Books'
<1>1. /\ nextId \in Nat /\ ~Over /\ state' = state
      /\ replies' = replies \cup {nextId} /\ pending' = pending \cup {nextId}
      /\ callId' = [callId EXCEPT ![c] = nextId]
      /\ answer' = [answer EXCEPT ![c] = "waiting"]
      /\ outcome' = [id \in 1 .. nextId |-> IF id = nextId THEN "waiting" ELSE outcome[id]]
      /\ nextId > 0
  BY SendAllowed DEF Kept, RSInv, RSTypeOK, Call, Register, Send
<1>2. HandlersMatchPending'
  BY <1>1 DEF Books, HandlersMatchPending, Over
<1>3. CallersSeeOutcome'
  <2>1. callId \in [Calls -> {0} \cup IssuedIds] /\ DOMAIN answer = Calls
    BY DEF Kept, PageTypeOK
  <2>2. callId'[c] = nextId /\ answer'[c] = "waiting" /\ outcome'[nextId] = "waiting"
    BY <1>1, <2>1
  <2>3. ASSUME NEW d \in Calls, d # c, callId'[d] # 0
        PROVE  \/ answer'[d] = outcome'[callId'[d]]
               \/ answer'[d] = "ok" /\ outcome'[callId'[d]] = "resolved"
    <3>1. callId'[d] = callId[d] /\ answer'[d] = answer[d] /\ callId[d] \in IssuedIds
      BY <1>1, <2>1, <2>3
    <3>2. outcome'[callId[d]] = outcome[callId[d]]
      BY <1>1, <3>1 DEF IssuedIds
    <3>. QED
      BY <2>3, <3>1, <3>2 DEF Books, CallersSeeOutcome
  <2>. QED
    BY <2>2, <2>3 DEF CallersSeeOutcome
<1>. QED
  BY <1>2, <1>3 DEF Books

\* The books agree after a call that cannot be sent.
LEMMA BooksCallSendThrows ==
  ASSUME Kept, Books, NEW c \in Calls, NEW m \in ApiMethods, CallSendThrows(c, m)
  PROVE  Books'
<1>. DEFINE code == "TRANSPORT_ERROR"
<1>1. /\ nextId \in Nat /\ nextId > 0 /\ Over' /\ answer[c] = "none"
      /\ replies' = replies \ WaitingIds
      /\ callId' = [callId EXCEPT ![c] = nextId]
      /\ answer' = [d \in Calls |-> IF d = c \/ answer[d] = "waiting" THEN code ELSE answer[d]]
      /\ outcome' = [id \in 1 .. nextId |->
                       IF id \in pending \cup {nextId} THEN code ELSE outcome[id]]
  BY DEF Kept, RSInv, RSTypeOK, CallSendThrows, Callable, RegisterThenFail, Over
<1>2. HandlersMatchPending'
  BY <1>1, OpenHasWaiter DEF HandlersMatchPending
<1>3. CallersSeeOutcome'
  <2>1. callId \in [Calls -> {0} \cup IssuedIds]
    BY DEF Kept, PageTypeOK
  <2>2. callId'[c] = nextId /\ answer'[c] = code /\ outcome'[nextId] = code
    BY <1>1, <2>1
  <2>3. ASSUME NEW d \in Calls, d # c, callId'[d] # 0
        PROVE  \/ answer'[d] = outcome'[callId'[d]]
               \/ answer'[d] = "ok" /\ outcome'[callId'[d]] = "resolved"
    <3>1. /\ callId'[d] = callId[d] /\ callId[d] \in IssuedIds
          /\ answer'[d] = IF answer[d] = "waiting" THEN code ELSE answer[d]
      BY <1>1, <2>1, <2>3
    <3>2. outcome'[callId[d]] = IF callId[d] \in pending THEN code ELSE outcome[callId[d]]
      BY <1>1, <3>1 DEF IssuedIds
    <3>3. callId[d] \in pending <=> outcome[callId[d]] = "waiting"
      BY <3>1 DEF Kept, RSInv, WaitingIsPending
    <3>4. \/ answer[d] = outcome[callId[d]]
          \/ answer[d] = "ok" /\ outcome[callId[d]] = "resolved"
      BY <2>3, <3>1 DEF Books, CallersSeeOutcome
    <3>. QED
      BY <3>1, <3>2, <3>3, <3>4
  <2>. QED
    BY <2>2, <2>3 DEF CallersSeeOutcome
<1>. QED
  BY <1>2, <1>3 DEF Books

\* The books agree after an answer, if it came with its data.
LEMMA BooksCallAnswered ==
  ASSUME Kept, Books, NoReplyWithoutData, NEW id \in IssuedIds,
         NEW result \in {"ok", "TypeError"} \cup SingleCodes, CallAnswered(id, result)
  PROVE  Books'
<1>. DEFINE c == Caller(id)
            shown == IF result = "ok" THEN "resolved" ELSE result
<1>1. /\ id \in pending /\ id # InitId /\ pending' = pending \ {id} /\ replies' = replies \ {id}
      /\ outcome' = [i \in IssuedIds |-> IF i = id THEN shown ELSE outcome[i]]
      /\ answer' = [answer EXCEPT ![c] = result]
      /\ callId' = callId /\ state' = state
  BY DEF CallAnswered, NoReplyWithoutData
<1>2. c \in Calls /\ callId[c] = id
  BY <1>1 DEF Kept, CallersHaveIds, Caller
<1>3. HandlersMatchPending'
  BY <1>1 DEF Books, HandlersMatchPending, Over
<1>4. CallersSeeOutcome'
  <2>1. callId \in [Calls -> {0} \cup IssuedIds] /\ DOMAIN answer = Calls
    BY DEF Kept, PageTypeOK
  <2>2. answer'[c] = result /\ outcome'[id] = shown
    BY <1>1, <1>2, <2>1
  <2>3. ASSUME NEW d \in Calls, d # c, callId[d] # 0
        PROVE  \/ answer'[d] = outcome'[callId[d]]
               \/ answer'[d] = "ok" /\ outcome'[callId[d]] = "resolved"
    <3>1. callId[d] # id /\ answer'[d] = answer[d] /\ callId[d] \in IssuedIds
      BY <1>1, <1>2, <2>1, <2>3 DEF Kept, CallersHaveIds
    <3>2. outcome'[callId[d]] = outcome[callId[d]]
      BY <1>1, <3>1
    <3>. QED
      BY <2>3, <3>1, <3>2 DEF Books, CallersSeeOutcome
  <2>. QED
    BY <1>1, <1>2, <2>2, <2>3 DEF CallersSeeOutcome
<1>. QED
  BY <1>3, <1>4 DEF Books

\* The books agree after the answer to init.
LEMMA BooksInitAnswered ==
  ASSUME Kept, Books, InitAnswered
  PROVE  Books'
<1>1. ~Over
  BY DEF InitAnswered, Kept, RSInv, OverMeansQuiet
<1>2. HandlersMatchPending'
  BY <1>1 DEF Books, InitAnswered, HandlersMatchPending, Over
<1>3. \A id \in IssuedIds \ {InitId} : outcome'[id] = outcome[id]
  BY DEF InitAnswered
<1>. QED
  BY <1>2, <1>3, CallersUndisturbed DEF Books, InitAnswered

\* The books agree after a refused call, which has no id.
LEMMA BooksCallRefused ==
  ASSUME Kept, Books, NEW c \in Calls, CallRefused(c)
  PROVE  Books'
<1>1. UNCHANGED <<rsVars, replies, callId>>
  BY DEF CallRefused
<1>2. callId[c] = 0 /\ \E code \in Codes : answer' = [answer EXCEPT ![c] = code]
  BY Refusals DEF Kept, CallersHaveIds
<1>3. \A d \in Calls : callId[d] # 0 => answer'[d] = answer[d]
  BY <1>2 DEF Kept, PageTypeOK
<1>. QED
  BY <1>1, <1>3 DEF Books, HandlersMatchPending, CallersSeeOutcome, rsVars, Over

\* The books agree whatever the link does: a stale id is in no map.
LEMMA BooksLink ==
  ASSUME Kept, Books, OnStaleReply \/ WorkerStep \/ LinkFault \/ UNCHANGED vars
  PROVE  Books'
<1>1. UNCHANGED <<rsVars, callId, answer>>
  BY DEF OnStaleReply, WorkerStep, LinkFault, vars, pageVars
<1>2. replies' = replies
  <2>1. CASE OnStaleReply
    <3>1. Head(outbox).id \notin pending /\ replies' = replies \ {Head(outbox).id} /\ listening
      BY <2>1 DEF OnStaleReply, ClassifyReplyId, HeadIs
    <3>2. replies = pending
      BY <3>1 DEF Kept, EndedIsSilent, Books, HandlersMatchPending
    <3>. QED
      BY <3>1, <3>2
  <2>. QED
    BY <2>1 DEF WorkerStep, LinkFault, vars, pageVars
<1>. QED
  BY <1>1, <1>2 DEF Books, HandlersMatchPending, CallersSeeOutcome, rsVars, Over

\* Books is inductive relative to Kept.
LEMMA BooksStep ==
  ASSUME NoReplyWithoutData
  PROVE  Kept /\ Books /\ [Next]_vars => Books'
<1>. SUFFICES ASSUME Kept, Books, [Next]_vars PROVE Books'
  OBVIOUS
<1>1. CASE DisposeCall
  <2>1. CASE state = "disposed"
    BY <1>1, <2>1, BooksLink DEF DisposeCall, Dispose, vars
  <2>2. CASE state # "disposed"
    BY <1>1, <2>2, DisposeEndsAll, BooksEnd
  <2>. QED
    BY <2>1, <2>2
<1>2. CASE OnError \/ OnMessageError \/ OnBadMessage \/ OnInitReply \/ OnCallReply
  BY <1>2, FailTurns, BooksEnd, BooksInitAnswered, BooksCallAnswered
<1>3. CASE \E id \in timers : OnTimer(id)
  BY <1>3, TimerEndsAll, BooksEnd
<1>4. CASE \E c \in Calls : CallExhausted(c)
  BY <1>4, ExhaustedEndsAll, BooksEnd
<1>. QED
  BY <1>1, <1>2, <1>3, <1>4, BooksCreate, BooksCall, BooksCallSendThrows, BooksCallRefused,
     BooksLink DEF Next

(* As long as no reply comes without its data, the reply handlers are the  *)
(* open requests, callers are told what their request was settled with,    *)
(* and an ended backend is silent.                                         *)
THEOREM BrowserInv ==
  ASSUME NoReplyWithoutData
  PROVE  Spec => []Inv
<1>1. Init => Books
  BY DEF Init, RSInit, Books, HandlersMatchPending, CallersSeeOutcome, Over
<1>2. Kept /\ Books /\ [Next]_vars => Books'
  BY BooksStep
<1>3. Kept /\ Recorded /\ Books => Inv
  BY DEF Kept, Recorded, Books, Inv, TypeOK
<1>4. QED
  BY <1>1, <1>2, <1>3, BrowserKept, BrowserRecorded, PTL DEF Spec

-----------------------------------------------------------------------------
\* While the backend lives, its waiting calls are the open requests.
LEMMA WaitingCallsAreOpen ==
  ASSUME Kept, Books, state = "ready"
  PROVE  Cardinality(WaitingCalls) = Cardinality(pending)
<1>. DEFINE f == [c \in WaitingCalls |-> callId[c]]
<1>1. IsFiniteSet(WaitingCalls)
  BY CallsAssumption, FS_Subset DEF WaitingCalls
<1>2. \A c \in WaitingCalls : callId[c] \in pending
  <2>1. SUFFICES ASSUME NEW c \in Calls, answer[c] = "waiting" PROVE callId[c] \in pending
    BY DEF WaitingCalls
  <2>2. callId[c] \in IssuedIds /\ callId[c] # 0
    BY <2>1 DEF Kept, PageTypeOK, CallersHaveIds
  <2>3. outcome[callId[c]] = "waiting"
    BY <2>1, <2>2 DEF Books, CallersSeeOutcome
  <2>. QED
    BY <2>2, <2>3 DEF Kept, RSInv, WaitingIsPending
<1>3. \A c, d \in WaitingCalls : callId[c] = callId[d] => c = d
  BY DEF Kept, CallersHaveIds, WaitingCalls
<1>4. \A id \in pending : \E c \in WaitingCalls : callId[c] = id
  <2>1. ~Over /\ InitId \notin pending
    BY InitOpenMeansCreating DEF Over
  <2>2. pending \subseteq WaitingIds
    BY <2>1, OpenHasWaiter DEF Books, HandlersMatchPending
  <2>. QED
    BY <2>2 DEF WaitingIds
<1>5. f \in [WaitingCalls -> pending]
  BY <1>2
<1>6. f \in Bijection(WaitingCalls, pending)
  BY <1>3, <1>4, <1>5 DEF Bijection, Injection, Surjection, IsInjective
<1>. QED
  BY <1>1, <1>6, FS_Bijection DEF ExistsBijection

\* The contract counts as the backend does.
LEMMA SameCardinality ==
  ASSUME NEW S
  PROVE  Api!Cardinality(S) = Cardinality(S)
BY DEF Api!Cardinality, Cardinality

\* The end of the backend is one of the contract's three ends.
LEMMA ApiEnds ==
  ASSUME Kept, NEW code, NEW new, EndsAll(code, new)
  PROVE  Api!ApiNext
<1>. USE DEF Api!Waiting, WaitingCalls
<1>1. CASE code = "DISPOSED"
  BY <1>1 DEF EndsAll, Api!ApiNext, Api!DisposeInstance
<1>2. CASE code # "DISPOSED" /\ state = "creating"
  <2>1. created = "waiting" /\ \A c \in Calls : answer[c] = "none"
    BY <1>2 DEF EndsAll, Kept, PhaseMatches
  <2>2. answer' = answer
    BY <1>2, <2>1 DEF EndsAll, Kept, PageTypeOK
  <2>3. Api!FactoryFails(code) /\ code \in Api!Fatal
    BY <1>2, <2>1, <2>2 DEF EndsAll, Api!FactoryFails, Api!Fatal, FatalCodes
  <2>. QED
    BY <2>3 DEF Api!ApiNext
<1>3. CASE code # "DISPOSED" /\ state = "ready"
  <2>1. created = "ok"
    BY <1>3 DEF Kept, PhaseMatches
  <2>2. Api!Break(new, code) /\ code \in Api!Fatal
    BY <1>3, <2>1 DEF EndsAll, Api!Break, Api!Fatal, FatalCodes
  <2>. QED
    BY <2>2 DEF Api!ApiNext, EndsAll
<1>. QED
  BY <1>1, <1>2, <1>3 DEF EndsAll, Over, Kept, RSInv, RSTypeOK, Lifecycles

\* Every step of the backend is a step of the contract or changes none of it.
LEMMA ApiStep ==
  ASSUME NoReplyWithoutData
  PROVE  Kept /\ Books /\ [Next]_vars => [Api!ApiNext]_(Api!apiVars)
<1>. SUFFICES ASSUME Kept, Books, [Next]_vars PROVE [Api!ApiNext]_(Api!apiVars)
  OBVIOUS
<1>1. CASE Create
  BY <1>1 DEF Create, Register, Api!apiVars
<1>2. CASE CreateSendThrows
  <2>1. Api!FactoryFails("TRANSPORT_ERROR")
    BY <1>2 DEF CreateSendThrows, RegisterThenFail, Kept, FactorySeesOutcome, Api!FactoryFails
  <2>. QED
    BY <2>1 DEF Api!ApiNext, Api!Fatal
<1>3. ASSUME NEW c \in Calls, NEW m \in ApiMethods, Call(c, m) PROVE Api!ApiNext
  <2>1. state = "ready" /\ Cardinality(pending) < MaxPending
    BY <1>3, SendAllowed DEF Kept, Call, Callable, Register, PhaseMatches, RSInv, RSTypeOK,
       Lifecycles, Over
  <2>2. Api!Cardinality(Api!Waiting) < MaxPending
    BY <2>1, WaitingCallsAreOpen, SameCardinality DEF Api!Waiting, WaitingCalls
  <2>3. /\ answer[c] = "none" /\ answer' = [answer EXCEPT ![c] = "waiting"]
        /\ created' = created /\ state' = state /\ savedFailure' = savedFailure
    BY <1>3 DEF Call, Callable, Register
  <2>4. Api!Accept(c)
    BY <2>1, <2>2, <2>3 DEF Api!Accept
  <2>. QED
    BY <2>4 DEF Api!ApiNext
<1>4. ASSUME NEW c \in Calls, CallRefused(c) PROVE Api!ApiNext
  <2>1. created = "ok" /\ answer[c] = "none" /\ UNCHANGED <<state, savedFailure, created>>
    BY <1>4 DEF CallRefused, Callable, rsVars
  <2>2. state \in {"ready", "failed", "disposed"} /\ (savedFailure = "none") = ~Over
    BY <2>1 DEF Kept, PhaseMatches, RSInv, RSTypeOK, Lifecycles, OverMeansQuiet
  <2>3. CASE Over
    <3>1. answer' = [answer EXCEPT ![c] = savedFailure]
      BY <1>4, <2>2, <2>3 DEF CallRefused, ReadyRefusal
    <3>. QED
      BY <2>1, <2>2, <2>3, <3>1 DEF Api!ApiNext, Api!Refuse, Over
  <2>4. CASE ~Over
    <3>1. state = "ready" /\ ReadyRefusal = "none"
      BY <2>2, <2>4 DEF Over, ReadyRefusal
    <3>2. SendRefusal = "BUSY" => Api!Cardinality(Api!Waiting) >= MaxPending
      BY <2>4, <3>1, WaitingCallsAreOpen, SameCardinality DEF SendRefusal, Api!Waiting, WaitingCalls
    <3>3. \/ /\ Api!Cardinality(Api!Waiting) >= MaxPending
             /\ answer' = [answer EXCEPT ![c] = "BUSY"]
          \/ \E code \in {"INVALID_ARGUMENT", "LIMIT_EXCEEDED"} :
               answer' = [answer EXCEPT ![c] = code]
      BY <1>4, <3>1, <3>2 DEF CallRefused
    <3>4. Api!Refuse(c)
      BY <2>1, <3>1, <3>3 DEF Api!Refuse
    <3>. QED
      BY <3>4 DEF Api!ApiNext
  <2>. QED
    BY <2>3, <2>4
<1>5. ASSUME NEW c \in Calls, NEW m \in ApiMethods, CallSendThrows(c, m) PROVE Api!ApiNext
  <2>1. /\ created = "ok" /\ answer[c] = "none" /\ state = "ready"
        /\ state' = "failed" /\ savedFailure' = "TRANSPORT_ERROR" /\ created' = created
        /\ answer' = [d \in Calls |-> IF d = c \/ answer[d] = "waiting"
                                      THEN "TRANSPORT_ERROR" ELSE answer[d]]
    BY <1>5, SendAllowed DEF CallSendThrows, Callable, RegisterThenFail, Kept, PhaseMatches,
       RSInv, RSTypeOK, Lifecycles, Over
  <2>2. Api!Break({c}, "TRANSPORT_ERROR")
    BY <2>1 DEF Api!Break, Api!Waiting
  <2>. QED
    BY <2>1, <2>2 DEF Api!ApiNext, Api!Fatal
<1>6. ASSUME InitAnswered PROVE Api!ApiNext
  <2>1. Api!FactorySucceeds
    BY <1>6, InitOpenMeansCreating DEF InitAnswered, Api!FactorySucceeds
  <2>. QED
    BY <2>1 DEF Api!ApiNext
<1>7. ASSUME NEW id \in IssuedIds, NEW result \in {"ok", "TypeError"} \cup SingleCodes,
             CallAnswered(id, result)
      PROVE  Api!ApiNext
  <2>1. /\ id \in pending /\ id # InitId /\ result \in {"ok"} \cup SingleCodes
        /\ answer' = [answer EXCEPT ![Caller(id)] = result]
        /\ UNCHANGED <<state, savedFailure, created>>
    BY <1>7 DEF CallAnswered, NoReplyWithoutData
  <2>2. Caller(id) \in Calls /\ callId[Caller(id)] = id
    BY <2>1 DEF Kept, CallersHaveIds, Caller
  <2>3. outcome[id] = "waiting" /\ ~Over /\ id # 0
    BY <2>1 DEF Kept, RSInv, WaitingIsPending, OverMeansQuiet, RSTypeOK, IssuedIds
  <2>4. answer[Caller(id)] = "waiting"
    BY <2>2, <2>3 DEF Books, CallersSeeOutcome
  <2>5. state = "ready"
    BY <2>2, <2>3, <2>4 DEF Kept, PhaseMatches, RSInv, RSTypeOK, Lifecycles, Over
  <2>6. Api!Answer(Caller(id))
    BY <2>1, <2>4, <2>5 DEF Api!Answer, Api!Single, SingleCodes
  <2>. QED
    BY <2>2, <2>6 DEF Api!ApiNext
<1>8. CASE DisposeCall
  <2>1. CASE state = "disposed"
    BY <1>8, <2>1 DEF DisposeCall, Dispose, rsVars, pageVars, Api!apiVars
  <2>2. CASE state # "disposed"
    BY <1>8, <2>2, DisposeEndsAll, ApiEnds
  <2>. QED
    BY <2>1, <2>2
<1>9. CASE OnError \/ OnMessageError \/ OnBadMessage \/ OnInitReply \/ OnCallReply
  BY <1>6, <1>7, <1>9, FailTurns, ApiEnds
<1>10. CASE \E c \in Calls : CallExhausted(c)
  BY <1>10, ExhaustedEndsAll, ApiEnds
<1>11. CASE \E id \in timers : OnTimer(id)
  BY <1>11, TimerEndsAll, ApiEnds
<1>12. CASE OnStaleReply \/ WorkerStep \/ LinkFault \/ UNCHANGED vars
  BY <1>12 DEF OnStaleReply, WorkerStep, LinkFault, vars, rsVars, pageVars, Api!apiVars
<1>. QED
  BY <1>1, <1>2, <1>3, <1>4, <1>5, <1>8, <1>9, <1>10, <1>11, <1>12 DEF Next

(* As long as no reply comes without its data, the browser backend keeps   *)
(* the contract of application-api.ts.                                     *)
THEOREM BrowserImplementsApi ==
  ASSUME NoReplyWithoutData
  PROVE  Spec => ImplementsApi
<1>1. Init => Books
  BY DEF Init, RSInit, Books, HandlersMatchPending, CallersSeeOutcome, Over
<1>2. Kept /\ Books /\ [Next]_vars => Books'
  BY BooksStep
<1>3. Init => Api!ApiInit
  BY DEF Init, RSInit, Api!ApiInit
<1>4. Kept /\ Books /\ [Next]_vars => [Api!ApiNext]_(Api!apiVars)
  BY ApiStep
<1>5. QED
  BY <1>1, <1>2, <1>3, <1>4, BrowserKept, PTL DEF Spec, ImplementsApi, Api!ApiSpec
=============================================================================
