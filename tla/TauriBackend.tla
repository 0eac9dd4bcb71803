---------------------------- MODULE TauriBackend ----------------------------
(***************************************************************************)
(* packages/backends/tauri/index.ts: the backend of the native             *)
(* applications.  getInfo always goes through the Tauri invoke; transform  *)
(* goes over the data plane that init settles on: invoke with JSON, a      *)
(* fetch of the corebin scheme, or the MessagePort Android exposes as      *)
(* window.corebin, which carries one request at a time.                    *)
(*                                                                         *)
(* The native side is seen through its answers.  native[id] remembers how  *)
(* it dealt with a request; the planes differ in what of that reaches the  *)
(* caller.                                                                 *)
(***************************************************************************)
EXTENDS RequestState, Sequences

CONSTANTS Calls,        (* the getInfo and transform calls of the user     *)
          Options       (* the dataPlane settings to consider              *)

ASSUME TauriAssumption ==
  /\ IsFiniteSet(Calls)
  /\ Options \subseteq {"json", "scheme", "port", "auto"}

VARIABLES option,       (* deps.dataPlane                                  *)
          portThere,    (* window.corebin exists                           *)
          schemeThere,  (* the probe of the corebin scheme succeeds        *)
          plane,        (* data plane of transform                         *)
          initStep,     (* none, info, plane, done                         *)
          created,      (* what createTauriBackend was settled with        *)
          callId,       (* call -> its id, 0 before it has one             *)
          answer,       (* call -> what its promise was settled with       *)
          route,        (* issued id -> getInfo, json, scheme or port      *)
          inflight,     (* ids the native side has not answered            *)
          portQueue,    (* SerialQueue of WebMessageTransport, head posted *)
          native        (* ids answered so far -> how                      *)

setupVars == <<option, portThere, schemeThere>>
callVars == <<created, callId, answer>>
wireVars == <<route, inflight, portQueue, native>>
vars == <<rsVars, setupVars, plane, initStep, callVars, wireVars>>

InitId == 1
ApiMethods == {"getInfo", "transform"}

(* json is the constructor's default; scheme and port are set at once when *)
(* asked for, auto starts from json.                                       *)
Init ==
  /\ RSInit
  /\ option \in Options
  /\ portThere \in BOOLEAN
  /\ schemeThere \in BOOLEAN
  /\ plane = IF option \in {"scheme", "port"} THEN option ELSE "json"
  /\ initStep = "none"
  /\ created = "none"
  /\ callId = [c \in Calls |-> 0]
  /\ answer = [c \in Calls |-> "none"]
  /\ route = <<>>
  /\ inflight = {}
  /\ portQueue = <<>>
  /\ native = [id \in {} |-> "ok"]

WaitingCalls == {c \in Calls : answer[c] = "waiting"}

-----------------------------------------------------------------------------
Send(r) ==
  /\ route' = Append(route, r)
  /\ inflight' = inflight \cup {nextId}
  /\ portQueue' = IF r = "port" THEN Append(portQueue, nextId) ELSE portQueue
  /\ UNCHANGED native

(* Mutant: only the factory is told.                                       *)
EndPromisesOfFactory(code) ==
  /\ created' = IF created = "waiting" THEN code ELSE created
  /\ UNCHANGED <<callId, answer>>

(* Every promise still waiting is rejected with the failure that was saved.*)
EndPromises(code) ==
  /\ answer' = [c \in Calls |-> IF answer[c] = "waiting" THEN code ELSE answer[c]]
  /\ created' = IF created = "waiting" THEN code ELSE created
  /\ UNCHANGED callId

(* init up to the answer of core_get_info.                                 *)
Create ==
  /\ initStep = "none"
  /\ Register
  /\ Send("getInfo")
  /\ initStep' = "info"
  /\ created' = "waiting"
  /\ UNCHANGED <<setupVars, plane, callId, answer>>

Callable(c) == created = "ok" /\ answer[c] = "none"

Call(c, m) ==
  /\ Callable(c)
  /\ ReadyRefusal = "none"
  /\ Register
  /\ Send(IF m = "getInfo" THEN "getInfo" ELSE plane)
  /\ callId' = [callId EXCEPT ![c] = nextId]
  /\ answer' = [answer EXCEPT ![c] = "waiting"]
  /\ UNCHANGED <<setupVars, plane, initStep, created>>

CallRefused(c) ==
  /\ Callable(c)
  /\ \E code \in Codes :
       /\ \/ code = ReadyRefusal
          \/ code = "INVALID_ARGUMENT" /\ ReadyRefusal = "none"
          \/ code = "BUSY" /\ ReadyRefusal = "none" /\ SendRefusal = "BUSY"
       /\ answer' = [answer EXCEPT ![c] = code]
  /\ UNCHANGED <<rsVars, setupVars, plane, initStep, created, callId, wireVars>>

CallExhausted(c) ==
  /\ Callable(c)
  /\ ReadyRefusal = "none"
  /\ RegisterExhausted
  /\ answer' = [d \in Calls |-> IF d = c \/ answer[d] = "waiting"
                                THEN "TRANSPORT_ERROR" ELSE answer[d]]
  /\ UNCHANGED <<setupVars, plane, initStep, created, callId, wireVars>>

(* dispose.  The guard rejects with a plain AppError.  Where the catch     *)
(* normalises with normalizeBinaryRejection, which knows instances of      *)
(* TransportError and Error only, the code is lost.                        *)
DisposedAs(c) ==
  IF route[callId[c]] \in {"scheme", "port"} THEN "TRANSPORT_ERROR" ELSE "DISPOSED"

DisposeCall ==
  /\ created = "ok"
  /\ Dispose
  /\ answer' = [c \in Calls |-> IF answer[c] = "waiting" THEN DisposedAs(c) ELSE answer[c]]
  /\ UNCHANGED <<setupVars, plane, initStep, created, callId, wireVars>>

(* Mutant: a timer ends its own request only.                              *)
OnTimerOwnRequest(id) ==
  /\ RejectOne(id, "TIMEOUT")
  /\ answer' = [c \in Calls |-> IF callId[c] = id THEN "TIMEOUT" ELSE answer[c]]
  /\ created' = IF id = InitId THEN "TIMEOUT" ELSE created
  /\ initStep' = "done"
  /\ UNCHANGED <<setupVars, plane, callId, wireVars>>

OnTimer(id) ==
  /\ TimerFires(id)
  /\ EndPromises("TIMEOUT")
  /\ initStep' = "done"
  /\ UNCHANGED <<setupVars, plane, wireVars>>

-----------------------------------------------------------------------------
(* How the native side may deal with a request: ok, an error of its own,   *)
(* or "lost" when the call fails or the answer is unreadable.              *)
NativeResults(id) ==
  {"ok", "CORE_FAILURE", "lost",
   IF route[id] = "getInfo" THEN "ABI_MISMATCH" ELSE "OUT_OF_MEMORY"}

(* Mutant: the code of a native error is lost on every route.              *)
ArrivesAsLost(id, result) == IF result = "ok" THEN "ok" ELSE "TRANSPORT_ERROR"

(* What arrives in the page.  The port answers every error with an empty   *)
(* message (CorebinPort.handleMessage), so its code does not arrive.       *)
ArrivesAs(id, result) ==
  CASE result = "ok" -> "ok"
    [] result = "lost" -> "TRANSPORT_ERROR"
    [] OTHER -> IF route[id] = "port" THEN "TRANSPORT_ERROR" ELSE result

(* The native side answers.  Whatever happened to the backend, the next    *)
(* request of the SerialQueue is posted then.                              *)
Answered(id, result) ==
  /\ id \in inflight
  /\ route[id] = "port" => id = Head(portQueue)
  /\ inflight' = inflight \ {id}
  /\ portQueue' = IF route[id] = "port" THEN Tail(portQueue) ELSE portQueue
  /\ native' = [i \in DOMAIN native \cup {id} |-> IF i = id THEN result ELSE native[i]]
  /\ UNCHANGED route

InitCode(code) ==
  IF code \in {"ABI_MISMATCH", "TRANSPORT_ERROR", "CORE_FAILURE"}
  THEN code ELSE "INITIALIZATION_FAILED"

OnInfoOfInit ==
  /\ InitId \in inflight
  /\ \E result \in NativeResults(InitId) :
       /\ Answered(InitId, result)
       /\ IF InitId \notin pending
          THEN UNCHANGED <<rsVars, initStep, callVars>>
          ELSE IF result = "ok"
          THEN /\ ResolveOne(InitId)
               /\ initStep' = "plane"
               /\ UNCHANGED callVars
          ELSE LET code == InitCode(ArrivesAs(InitId, result)) IN
               /\ FailAll(code)
               /\ EndPromises(code)
               /\ initStep' = "done"
  /\ UNCHANGED <<setupVars, plane>>

(* Mutant: JSON stands in for whatever is not there.                       *)
PlaneFoundOrJson ==
  IF option \in {"port", "auto"} /\ portThere THEN "port"
  ELSE IF option \in {"scheme", "auto"} /\ schemeThere THEN "scheme" ELSE "json"

(* resolveDataPlane: auto takes the port, then the scheme, then JSON; what *)
(* was asked for by name has to be there.                                  *)
PlaneFound ==
  IF option = "port" /\ portThere THEN "port"
  ELSE IF option = "scheme" /\ schemeThere THEN "scheme"
  ELSE IF option = "auto" THEN IF portThere THEN "port"
                               ELSE IF schemeThere THEN "scheme" ELSE "json"
  ELSE IF option = "json" THEN "json"
  ELSE "none"

ResolveDataPlane ==
  /\ initStep = "plane"
  /\ initStep' = "done"
  /\ IF PlaneFound = "none"
     THEN /\ FailAll("INITIALIZATION_FAILED")
          /\ EndPromises("INITIALIZATION_FAILED")
          /\ UNCHANGED plane
     ELSE /\ MarkReady
          /\ plane' = PlaneFound
          /\ created' = "ok"
          /\ UNCHANGED <<callId, answer>>
  /\ UNCHANGED <<setupVars, wireVars>>

(* The answer to a call; one that comes after its request was settled is   *)
(* dropped.                                                                *)
OnAnswer(id) ==
  /\ id # InitId
  /\ \E result \in NativeResults(id) :
       /\ Answered(id, result)
       /\ IF id \notin pending
          THEN UNCHANGED <<rsVars, callVars>>
          ELSE LET code == ArrivesAs(id, result)
                   caller == CHOOSE c \in Calls : callId[c] = id
               IN
               IF code \in {"ok"} \cup SingleCodes
               THEN /\ IF code = "ok" THEN ResolveOne(id) ELSE RejectOne(id, code)
                    /\ answer' = [answer EXCEPT ![caller] = code]
                    /\ UNCHANGED <<created, callId>>
               ELSE FailAll(code) /\ EndPromises(code)
  /\ UNCHANGED <<setupVars, plane, initStep>>

-----------------------------------------------------------------------------
Next ==
  \/ Create
  \/ \E c \in Calls, m \in ApiMethods : Call(c, m)
  \/ \E c \in Calls : CallRefused(c) \/ CallExhausted(c)
  \/ DisposeCall
  \/ \E id \in timers : OnTimer(id)
  \/ OnInfoOfInit
  \/ ResolveDataPlane
  \/ \E id \in inflight : OnAnswer(id)

Spec == Init /\ [][Next]_vars

(* The host's timers fire; the probe of the scheme ends by its own timer.  *)
Fairness ==
  /\ \A id \in 1 .. MaxSafeId : WF_vars(OnTimer(id))
  /\ WF_vars(ResolveDataPlane)

FairSpec == Spec /\ Fairness

-----------------------------------------------------------------------------
(* The type of every variable.                                             *)
TypeOK ==
  /\ RSTypeOK
  /\ plane \in {"json", "scheme", "port"}
  /\ initStep \in {"none", "info", "plane", "done"}
  /\ created \in Codes \cup {"none", "waiting", "ok"}
  /\ callId \in [Calls -> {0} \cup IssuedIds]
  /\ answer \in [Calls -> Codes \cup {"none", "waiting", "ok"}]
  /\ route \in [IssuedIds -> {"getInfo", "json", "scheme", "port"}]
  /\ inflight \in SUBSET IssuedIds
  /\ \A i \in DOMAIN portQueue : portQueue[i] \in inflight

(* A plane that was asked for by name is used or creation fails; only auto *)
(* falls back, and it never fails for want of a plane.                     *)
NoSilentFallback ==
  /\ created = "ok" => option \in {"auto", plane}
  /\ option = "auto" => created # "INITIALIZATION_FAILED"

(* The backend is failed for a reason: a request that was lost or failed   *)
(* fatally, a timer, or used-up ids.  A failure the error table calls the  *)
(* request's own leaves it ready (docs/plan/04-contracts.md, 105), except  *)
(* over the port, which drops the code of every error.                     *)
FailureHasCause ==
  savedFailure \in FatalCodes \ {"TIMEOUT"} =>
    \/ \E id \in DOMAIN native :
         \/ native[id] \in {"lost", "ABI_MISMATCH", "CORE_FAILURE"}
         \/ native[id] # "ok" /\ route[id] = "port"
    \/ nextId > MaxSafeId
    \/ created # "ok"

(* The types, and what a failure may come from.                            *)
Inv == TypeOK /\ FailureHasCause

(* dispose rejects every unfinished call with DISPOSED                     *)
(* (docs/plan/04-contracts.md, 110 and 132).                               *)
DisposeTellsDisposed ==
  [][state # "disposed" /\ state' = "disposed" =>
       \A c \in WaitingCalls : answer'[c] = "DISPOSED"]_vars

(* The backend implements what the user interface is promised, on every    *)
(* plane and whatever the native side does; the one step that does not is  *)
(* a dispose that finds a transform open on a binary plane.                *)
Api == INSTANCE ApplicationApi
         WITH phase <- state, cause <- savedFailure,
              factory <- IF created = "none" THEN "waiting" ELSE created

BinaryDispose ==
  /\ state' = "disposed"
  /\ \E c \in WaitingCalls : route[callId[c]] \in {"scheme", "port"}

ImplementsApi == Api!ApiInit /\ [][Api!ApiNext \/ BinaryDispose]_(Api!apiVars)

(* Every call and the factory are answered, even if the native side never  *)
(* says anything.                                                          *)
EveryCallAnswered ==
  /\ created = "waiting" ~> created # "waiting"
  /\ \A c \in Calls : answer[c] = "waiting" ~> answer[c] # "waiting"
=============================================================================
