--------------------------- MODULE BrowserBackend ---------------------------
(***************************************************************************)
(* packages/backends/browser/index.ts: the backend of the web page, which  *)
(* keeps its requests in a RequestState and a map of reply handlers, and   *)
(* talks to a Dedicated Worker by postMessage.                             *)
(*                                                                         *)
(* A message, a timer, an error event or a call of the user interface is   *)
(* one turn of the event loop.  The await after a reply continues in the   *)
(* same turn, so each action runs from the event to the settled promise.   *)
(*                                                                         *)
(* The worker appears as seen through its messages: it takes requests in   *)
(* order and gives the answers of WorkerContract, which CoreWorker, the    *)
(* detailed model, implements.  Up to MaxFaults times something goes wrong *)
(* on the way: a reply is repeated or damaged, or an error event arrives.  *)
(* Damage may put another id, or another method, on a reply.  Nothing      *)
(* obliges the worker to answer at all.                                    *)
(***************************************************************************)
EXTENDS RequestState, Sequences

CONSTANTS Calls,        (* the getInfo and transform calls of the user     *)
          MaxFaults,    (* bound on what goes wrong on the way             *)
          BrokenPayloads  (* how the data of a reply may be broken         *)

ASSUME CallsAssumption ==
  /\ IsFiniteSet(Calls)
  /\ MaxFaults \in Nat
  /\ BrokenPayloads \subseteq {"wrongShape", "noData"}

VARIABLES replies,      (* ids in the map of reply handlers (pending)      *)
          method,       (* issued id -> method noted in its reply handler  *)
          callId,       (* call -> its id, 0 before it has one             *)
          answer,       (* call -> what its promise was settled with       *)
          created,      (* what createBrowserBackend was settled with      *)
          listening,    (* handlers attached, worker not terminated        *)
          inbox,        (* postMessage queue to the worker                 *)
          outbox,       (* events on their way to the page                 *)
          worker,       (* state of core.worker.ts                         *)
          faults

(* Kept for the properties alone.                                          *)
VARIABLES executed,     (* ids the core was run for, without failure       *)
          misled,       (* <<i, j>>: the reply to i was addressed to j     *)
          reasons,      (* what the backend was given reason to fail with  *)
          source        (* call -> the request whose answer it was told    *)

pageVars == <<replies, method, callId, answer, created>>
linkVars == <<listening, inbox, outbox, worker, faults>>
historyVars == <<executed, misled, reasons, source>>
vars == <<rsVars, pageVars, linkVars, historyVars>>

InitId == 1
UnissuedId == MaxSafeId + 1
ApiMethods == {"getInfo", "transform"}
Methods == ApiMethods \cup {"init"}

(* from is not in the message: it tells whose answer the payload is.       *)
Reply(id, m, result) ==
  [event |-> "reply", id |-> id, method |-> m, result |-> result, from |-> id]
ErrorEvent == [event |-> "error"]
MessageErrorEvent == [event |-> "messageerror"]
Junk == [event |-> "junk"]

Init ==
  /\ RSInit
  /\ replies = {}
  /\ method = <<>>
  /\ callId = [c \in Calls |-> 0]
  /\ answer = [c \in Calls |-> "none"]
  /\ created = "none"
  /\ listening = FALSE
  /\ inbox = <<>>
  /\ outbox = <<>>
  /\ worker = "uninitialized"
  /\ faults = 0
  /\ executed = {} /\ misled = {} /\ reasons = {}
  /\ source = [c \in Calls |-> 0]

WaitingCalls == {c \in Calls : answer[c] = "waiting"}
WaitingIds == {callId[c] : c \in WaitingCalls}

-----------------------------------------------------------------------------
(* How a turn ends the backend.                                            *)

(* onFatal and onDispose: the handlers are removed and the worker is       *)
(* terminated, so nothing that is still queued is ever looked at.          *)
StopWorker ==
  /\ listening' = FALSE
  /\ inbox' = <<>>
  /\ outbox' = <<>>
  /\ UNCHANGED <<worker, faults>>

(* Mutants: the saved failure is not asked for and everybody hears TIMEOUT;*)
(* the factory is forgotten.                                               *)
EndPromisesAsTimeout(code) ==
  /\ answer' = [c \in Calls |-> IF answer[c] = "waiting" THEN "TIMEOUT" ELSE answer[c]]
  /\ created' = IF created = "waiting" THEN code ELSE created

EndPromisesOfCalls(code) ==
  /\ answer' = [c \in Calls |-> IF answer[c] = "waiting" THEN code ELSE answer[c]]
  /\ created' = created

(* Every promise still waiting is rejected with code by its race.          *)
EndPromises(code) ==
  /\ answer' = [c \in Calls |-> IF answer[c] = "waiting" THEN code ELSE answer[c]]
  /\ created' = IF created = "waiting" THEN code ELSE created

(* failAll in a turn in which no new call is made; kept is what stays in   *)
(* the map of reply handlers.                                              *)
Fail(code, kept) ==
  /\ FailAll(code)
  /\ EndPromises(code)
  /\ StopWorker
  /\ replies' = kept
  /\ UNCHANGED <<method, callId, historyVars>>

(* Something happens that gives the backend reason to fail with code.      *)
GivesReason(code) ==
  /\ reasons' = reasons \cup {code}
  /\ UNCHANGED <<executed, misled, source>>

-----------------------------------------------------------------------------
(* Calls of the user interface.                                            *)

(* The handler of init is noted under getInfo.                             *)
NotedMethod(m) == IF m = "init" THEN "getInfo" ELSE m

Send(m) ==
  /\ replies' = replies \cup {nextId}
  /\ method' = Append(method, NotedMethod(m))
  /\ inbox' = Append(inbox, [id |-> nextId, method |-> m])

(* createBrowserBackend: the worker is made, the listeners are attached    *)
(* and the init request is sent.                                           *)
Create ==
  /\ created = "none"
  /\ Register
  /\ Send("init")
  /\ created' = "waiting"
  /\ listening' = TRUE
  /\ UNCHANGED <<callId, answer, outbox, worker, faults, historyVars>>

CreateSendThrows ==
  /\ created = "none"
  /\ RegisterThenFail
  /\ GivesReason("TRANSPORT_ERROR")
  /\ method' = Append(method, NotedMethod("init"))
  /\ created' = "TRANSPORT_ERROR"
  /\ StopWorker
  /\ UNCHANGED <<replies, callId, answer>>

Callable(c) == created = "ok" /\ answer[c] = "none"

(* getInfo or transform, up to its first await.                            *)
Call(c, m) ==
  /\ Callable(c)
  /\ ReadyRefusal = "none"
  /\ Register
  /\ Send(m)
  /\ callId' = [callId EXCEPT ![c] = nextId]
  /\ answer' = [answer EXCEPT ![c] = "waiting"]
  /\ UNCHANGED <<created, listening, outbox, worker, faults, historyVars>>

(* The call is rejected before it gets an id.                              *)
CallRefused(c) ==
  /\ Callable(c)
  /\ \/ /\ ReadyRefusal # "none"
        /\ answer' = [answer EXCEPT ![c] = ReadyRefusal]
     \/ /\ ReadyRefusal = "none"
        /\ SendRefusal = "BUSY"
        /\ answer' = [answer EXCEPT ![c] = "BUSY"]
     \/ /\ ReadyRefusal = "none"
        /\ \E code \in {"INVALID_ARGUMENT", "LIMIT_EXCEEDED"} :
             answer' = [answer EXCEPT ![c] = code]
  /\ UNCHANGED <<rsVars, replies, method, callId, created, linkVars, historyVars>>

(* register finds the ids used up: everybody fails.                        *)
CallExhausted(c) ==
  /\ Callable(c)
  /\ ReadyRefusal = "none"
  /\ RegisterExhausted
  /\ GivesReason("TRANSPORT_ERROR")
  /\ answer' = [d \in Calls |-> IF d = c \/ answer[d] = "waiting"
                                THEN "TRANSPORT_ERROR" ELSE answer[d]]
  /\ replies' = replies \ WaitingIds
  /\ StopWorker
  /\ UNCHANGED <<method, callId, created>>

(* postMessage throws: the new call and everybody else fail.               *)
CallSendThrows(c, m) ==
  /\ Callable(c)
  /\ ReadyRefusal = "none"
  /\ RegisterThenFail
  /\ GivesReason("TRANSPORT_ERROR")
  /\ method' = Append(method, m)
  /\ callId' = [callId EXCEPT ![c] = nextId]
  /\ answer' = [d \in Calls |-> IF d = c \/ answer[d] = "waiting"
                                THEN "TRANSPORT_ERROR" ELSE answer[d]]
  /\ replies' = replies \ WaitingIds
  /\ StopWorker
  /\ UNCHANGED created

DisposeCall ==
  /\ created = "ok"
  /\ Dispose
  /\ IF state = "disposed"
     THEN UNCHANGED <<pageVars, linkVars>>
     ELSE /\ EndPromises("DISPOSED")
          /\ replies' = {}
          /\ StopWorker
          /\ UNCHANGED <<method, callId>>
  /\ UNCHANGED historyVars

-----------------------------------------------------------------------------
(* Events of the page.  Each takes the head of outbox.                     *)

HeadIs(kind) == listening /\ outbox # <<>> /\ Head(outbox).event = kind

OnError ==
  /\ HeadIs("error")
  /\ Fail("WORKER_FAILED", {})

OnMessageError ==
  /\ HeadIs("messageerror")
  /\ Fail("TRANSPORT_ERROR", {})

(* A message that is no WorkerResponse, whose id was never issued or whose *)
(* method is not the one asked for.                                        *)
MethodFits(r) ==
  \/ method[r.id] = r.method
  \/ method[r.id] = "getInfo" /\ r.method = "init"

OnBadMessage ==
  /\ \/ HeadIs("junk")
     \/ /\ HeadIs("reply")
        /\ \/ ClassifyReplyId(Head(outbox).id) = "invalid"
           \/ /\ ClassifyReplyId(Head(outbox).id) = "pending"
              /\ ~MethodFits(Head(outbox))
  /\ Fail("TRANSPORT_ERROR", {})

(* Mutant: a reply answers the oldest open call, whatever its id.          *)
StaleReplyAnswersOldest ==
  /\ HeadIs("reply")
  /\ ClassifyReplyId(Head(outbox).id) = "stale"
  /\ Head(outbox).result = "ok"
  /\ \E c \in WaitingCalls :
       /\ \A d \in WaitingCalls : callId[c] <= callId[d]
       /\ ResolveOne(callId[c])
       /\ answer' = [answer EXCEPT ![c] = "ok"]
       /\ source' = [source EXCEPT ![c] = Head(outbox).from]
       /\ replies' = replies \ {callId[c]}
  /\ outbox' = Tail(outbox)
  /\ UNCHANGED <<method, callId, created, listening, inbox, worker, faults, executed, misled,
                 reasons>>

(* Mutant: what is not in the map counts as an unknown id.                 *)
StaleReplyEnds ==
  /\ HeadIs("reply")
  /\ ClassifyReplyId(Head(outbox).id) = "stale"
  /\ Fail("TRANSPORT_ERROR", {})

(* A reply to a request that is settled already is dropped.                *)
OnStaleReply ==
  /\ HeadIs("reply")
  /\ ClassifyReplyId(Head(outbox).id) = "stale"
  /\ replies' = replies \ {Head(outbox).id}
  /\ outbox' = Tail(outbox)
  /\ UNCHANGED <<rsVars, method, callId, answer, created,
                 listening, inbox, worker, faults, historyVars>>

ExpectedReply ==
  /\ HeadIs("reply")
  /\ ClassifyReplyId(Head(outbox).id) = "pending"
  /\ Head(outbox).id \in replies
  /\ MethodFits(Head(outbox))

(* extractCore knows two error codes of init; any other is TRANSPORT_ERROR.*)
InitFailureCode(result) ==
  IF result \in {"ABI_MISMATCH", "INITIALIZATION_FAILED"}
  THEN result ELSE "TRANSPORT_ERROR"

OnInitReply ==
  /\ ExpectedReply
  /\ Head(outbox).id = InitId
  /\ LET r == Head(outbox) IN
     IF r.result = "ok"
     THEN /\ InitSucceeds(r.id)
          /\ created' = "ok"
          /\ replies' = replies \ {r.id}
          /\ outbox' = Tail(outbox)
          /\ UNCHANGED <<method, callId, answer, listening, inbox, worker, faults,
                         historyVars>>
     ELSE Fail(InitFailureCode(r.result), replies \ {r.id})

(* Whether the payload has what the request asked for: init and getInfo are*)
(* answered alike, transform otherwise.                                    *)
PayloadFits(r) == r.result = "ok" /\ method[r.from] = method[r.id]

(* The reply to a call: accepted, rejected on its own, or fatal because of *)
(* its code or because the payload does not pass the checks.  Nothing in   *)
(* the message but its id says whose answer it is.  getInfo reads the      *)
(* payload before it checks it: when there is none, the TypeError goes to  *)
(* the caller and the request stays open.                                  *)
OnCallReply ==
  /\ ExpectedReply
  /\ Head(outbox).id # InitId
  /\ LET r == Head(outbox)
         caller == CHOOSE c \in Calls : callId[c] = r.id
         Answer(result) ==
           /\ answer' = [answer EXCEPT ![caller] = result]
           /\ replies' = replies \ {r.id}
           /\ outbox' = Tail(outbox)
           /\ UNCHANGED <<method, callId, created, listening, inbox, worker, faults,
                          executed, misled, reasons>>
     IN
     IF r.result = "noData" /\ method[r.id] = "getInfo"
     THEN Answer("TypeError") /\ UNCHANGED <<rsVars, source>>
     ELSE
     IF PayloadFits(r)
     THEN /\ ResolveOne(r.id)
          /\ Answer("ok")
          /\ source' = [source EXCEPT ![caller] = r.from]
     ELSE
     IF r.result \in SingleCodes
     THEN RejectOne(r.id, r.result) /\ Answer(r.result) /\ UNCHANGED source
     ELSE Fail(IF r.result \in FatalCodes THEN r.result ELSE "TRANSPORT_ERROR",
               replies \ WaitingIds)

(* Mutant: the reply is awaited without racing it against the guard.       *)
OnTimerWithoutRace(id) ==
  /\ TimerFires(id)
  /\ StopWorker
  /\ UNCHANGED <<pageVars, historyVars>>

(* A timer: the calls take their own ids out of the map, init does not.    *)
OnTimer(id) ==
  /\ TimerFires(id)
  /\ IF Over
     THEN UNCHANGED <<pageVars, linkVars>>
     ELSE /\ EndPromises("TIMEOUT")
          /\ replies' = replies \ WaitingIds
          /\ StopWorker
          /\ UNCHANGED <<method, callId>>
  /\ UNCHANGED historyVars

-----------------------------------------------------------------------------
(* The worker and the link.                                                *)

Worker == INSTANCE WorkerContract WITH phase <- worker, replies <- outbox

WorkerStep ==
  /\ inbox # <<>>
  /\ LET req == Head(inbox) IN
     \E a \in Worker!Answers(req.method) :
       /\ outbox' = Append(outbox, Reply(req.id, req.method, a[1]))
       /\ worker' = a[2]
       /\ executed' = IF a[1] = "ok" THEN executed \cup {req.id} ELSE executed
       /\ reasons' = reasons \cup ({a[1]} \cap FatalCodes)
  /\ inbox' = Tail(inbox)
  /\ UNCHANGED <<rsVars, pageVars, listening, faults, misled, source>>

(* What may happen to the head of outbox: it becomes unreadable, or any of *)
(* its id, its method and its payload change.  Values of another length    *)
(* than the request that the id now names are of the wrong shape.          *)
Damaged(r) ==
  {Junk} \cup
  ([event : {"reply"}, id : IssuedIds \cup {UnissuedId}, method : Methods,
    result : {r.result} \cup BrokenPayloads, from : {r.from}] \ {r})

ErrorEventComes ==
  \/ outbox' = Append(outbox, ErrorEvent) /\ GivesReason("WORKER_FAILED")
  \/ outbox' = Append(outbox, MessageErrorEvent) /\ GivesReason("TRANSPORT_ERROR")

ReplyRepeated ==
  /\ HeadIs("reply")
  /\ outbox' = Append(outbox, Head(outbox))
  /\ UNCHANGED historyVars

ReplyDamaged ==
  /\ HeadIs("reply")
  /\ \E d \in Damaged(Head(outbox)) :
       /\ outbox' = <<d>> \o Tail(outbox)
       /\ misled' = IF d # Junk /\ d.id # d.from
                    THEN misled \cup {<<d.from, d.id>>}
                    ELSE misled
  /\ reasons' = reasons \cup {"TRANSPORT_ERROR"}
  /\ UNCHANGED <<executed, source>>

LinkFault ==
  /\ listening
  /\ faults < MaxFaults
  /\ faults' = faults + 1
  /\ ErrorEventComes \/ ReplyRepeated \/ ReplyDamaged
  /\ UNCHANGED <<rsVars, pageVars, listening, inbox, worker>>

-----------------------------------------------------------------------------
Next ==
  \/ Create
  \/ CreateSendThrows
  \/ \E c \in Calls, m \in ApiMethods : Call(c, m)
  \/ \E c \in Calls : CallRefused(c)
  \/ \E c \in Calls : CallExhausted(c)
  \/ \E c \in Calls, m \in ApiMethods : CallSendThrows(c, m)
  \/ DisposeCall
  \/ OnError
  \/ OnMessageError
  \/ OnBadMessage
  \/ OnStaleReply
  \/ OnInitReply
  \/ OnCallReply
  \/ \E id \in timers : OnTimer(id)
  \/ WorkerStep
  \/ LinkFault

Spec == Init /\ [][Next]_vars

(* Only the host's timers are relied on.                                   *)
Fairness == \A id \in 1 .. MaxSafeId : WF_vars(OnTimer(id))

FairSpec == Spec /\ Fairness

-----------------------------------------------------------------------------
PageTypeOK ==
  /\ RSTypeOK
  /\ replies \in SUBSET IssuedIds
  /\ method \in Seq(ApiMethods)
  /\ callId \in [Calls -> {0} \cup IssuedIds]
  /\ answer \in [Calls -> Codes \cup {"none", "waiting", "ok", "TypeError"}]
  /\ created \in Codes \cup {"none", "waiting", "ok"}
  /\ listening \in BOOLEAN
  /\ worker \in {"uninitialized", "ready", "failed"}
  /\ faults \in 0 .. MaxFaults

HistoryTypeOK ==
  /\ executed \in SUBSET IssuedIds
  /\ misled \in SUBSET (IssuedIds \X (IssuedIds \cup {UnissuedId}))
  /\ reasons \in SUBSET FatalCodes
  /\ source \in [Calls -> {0} \cup IssuedIds]

(* The type of every variable.                                             *)
TypeOK == PageTypeOK /\ HistoryTypeOK

(* The two books of the backend agree: while it lives, the reply handlers  *)
(* are exactly the open requests, so a reply that is classified pending    *)
(* always finds its handler; afterwards at most the init handler is left.  *)
HandlersMatchPending ==
  IF Over THEN replies \subseteq {InitId} ELSE replies = pending

(* What a caller was told is what the guard promise of its request was     *)
(* settled with: the race between the reply and the timer never tells the  *)
(* two different stories.                                                  *)
CallersSeeOutcome ==
  \A c \in Calls :
    callId[c] # 0 =>
      \/ answer[c] = outcome[callId[c]]
      \/ answer[c] = "ok" /\ outcome[callId[c]] = "resolved"

(* A call succeeds only with an answer the core gave to a request of the   *)
(* same kind, and that request is its own unless the link has addressed the*)
(* reply to it: a repeated or late reply, and one damaged in any other way,*)
(* never makes another call succeed.  A reply of the same method whose id  *)
(* was changed cannot be told from the right one, and is not.              *)
OkMeansExecuted ==
  \A c \in Calls :
    answer[c] = "ok" =>
      /\ source[c] \in executed
      /\ method[source[c]] = method[callId[c]]
      /\ source[c] = callId[c] \/ <<source[c], callId[c]>> \in misled

(* The backend ends in failure only for a cause: a request whose time ran  *)
(* out, a fatal code the worker answered, an error event, a reply that was *)
(* damaged, a message that could not be sent, or the end of the ids.  A    *)
(* reply that comes twice or too late, a refusal of one request and the    *)
(* reply to init, which is noted under another method, end nothing.        *)
FailureHasReason ==
  state = "failed" => savedFailure \in {"TIMEOUT"} \cup reasons

(* The worker runs only for a backend that is alive: a failed or disposed  *)
(* backend hears nothing and leaves no request queued.                     *)
EndedIsSilent == Over => ~listening /\ inbox = <<>> /\ outbox = <<>>

(* The books of the backend, of RequestState and of the callers agree, and *)
(* the worker is stopped when they are closed.                             *)
Inv ==
  /\ TypeOK
  /\ HandlersMatchPending
  /\ CallersSeeOutcome
  /\ EndedIsSilent

(* The backend implements what the user interface is promised.             *)
Api == INSTANCE ApplicationApi
         WITH phase <- state, cause <- savedFailure,
              factory <- IF created = "none" THEN "waiting" ELSE created

ImplementsApi == Api!ApiSpec

(* Every call and the factory are answered, even if the worker never says  *)
(* anything.                                                               *)
EveryCallAnswered ==
  /\ created = "waiting" ~> created # "waiting"
  /\ \A c \in Calls : answer[c] = "waiting" ~> answer[c] # "waiting"
=============================================================================
