----------------------------- MODULE SharedPort -----------------------------
(***************************************************************************)
(* Backends that follow each other on the one window.corebin of Android    *)
(* (transport-android.ts, class WebMessageTransport, as                    *)
(* backends/tauri/index.ts uses it on the port plane).                     *)
(*                                                                         *)
(* A transport is never taken off the port: its listener hears every       *)
(* message for as long as the page lives, and its SerialQueue goes on      *)
(* posting what was queued when its backend had ended.  Every backend      *)
(* counts its requests from one, and a reply carries a number and nothing  *)
(* else, so a reply may be taken for the answer to somebody else.          *)
(*                                                                         *)
(* One action is one turn, Post the microtasks at the end of it.  Requests *)
(* are numbered by call; the ids that getInfo takes between them and the   *)
(* reduction to 16 bits are left out, as are calls refused for their       *)
(* arguments.                                                              *)
(***************************************************************************)
EXTENDS Integers, Sequences

CONSTANTS LastInstance,   \* bound: backends created one after the other
          MaxCalls        \* bound: transforms of each

ASSUME BoundsAssumption == LastInstance \in Nat \ {0} /\ MaxCalls \in Nat \ {0}

Instances == 1..LastInstance
Calls == 1..MaxCalls
Requests == [from : Instances, id : Calls]
NoRequest == [from |-> 0, id |-> 0]

VARIABLES phase,     \* absent, ready, failed or disposed
          called,    \* how many transforms each instance has registered
          queue,     \* tasks of its SerialQueue that have not started
          pending,   \* requests its transport holds for a reply
          port,      \* requests posted and not answered by the native side
          outcome,   \* what the promise of a call was settled with
          answer,    \* the request whose reply resolved it
          quiet      \* history: no older request was left at creation

vars == <<phase, called, queue, pending, port, outcome, answer, quiet>>

Init ==
  /\ phase = [i \in Instances |-> "absent"]
  /\ called = [i \in Instances |-> 0]
  /\ queue = [i \in Instances |-> <<>>]
  /\ pending = [i \in Instances |-> <<>>]
  /\ port = <<>>
  /\ outcome = [i \in Instances |-> [c \in Calls |-> "none"]]
  /\ answer = [i \in Instances |-> [c \in Calls |-> NoRequest]]
  /\ quiet = [i \in Instances |-> FALSE]

Waiting(i) == {c \in Calls : outcome[i][c] = "waiting"}

\* The promises of an instance when it ends with a code.
EndedWith(i, code) ==
  [c \in Calls |-> IF outcome[i][c] = "waiting" THEN code ELSE outcome[i][c]]

\* A task of the SerialQueue may start: the one before has settled.
MayPost(i) == pending[i] = <<>> /\ queue[i] # <<>>

\* No microtask is left, so that the next turn may begin.
TurnOver == \A i \in Instances : ~MayPost(i)

-----------------------------------------------------------------------------
\* init() of the next backend up to ready; the page disposed the former one.
Create(i) ==
  /\ TurnOver
  /\ phase[i] = "absent"
  /\ i > 1 => phase[i - 1] = "disposed"
  /\ phase' = [phase EXCEPT ![i] = "ready"]
  /\ quiet' = [quiet EXCEPT ![i] =
                 port = <<>> /\ \A j \in Instances : queue[j] = <<>>]
  /\ UNCHANGED <<called, queue, pending, port, outcome, answer>>

\* Mutant: a call is taken on after the end.
TransformAlways(i) ==
  /\ TurnOver
  /\ phase[i] # "absent"
  /\ called[i] < MaxCalls
  /\ called' = [called EXCEPT ![i] = @ + 1]
  /\ queue' = [queue EXCEPT ![i] = Append(@, called[i] + 1)]
  /\ outcome' = [outcome EXCEPT ![i][called[i] + 1] = "waiting"]
  /\ UNCHANGED <<phase, pending, port, answer, quiet>>

\* transform(), send() and sendBatch()
Transform(i) ==
  /\ TurnOver
  /\ phase[i] = "ready"
  /\ called[i] < MaxCalls
  /\ called' = [called EXCEPT ![i] = @ + 1]
  /\ queue' = [queue EXCEPT ![i] = Append(@, called[i] + 1)]
  /\ outcome' = [outcome EXCEPT ![i][called[i] + 1] = "waiting"]
  /\ UNCHANGED <<phase, pending, port, answer, quiet>>

\* The SerialQueue starts the next task, whatever became of the backend:
\* postMessage() succeeds, or throws, which ends a backend that is ready.
Post(i) ==
  /\ MayPost(i)
  /\ \A j \in 1..i - 1 : ~MayPost(j)
  /\ queue' = [queue EXCEPT ![i] = Tail(@)]
  /\ \/ /\ pending' = [pending EXCEPT ![i] = <<Head(queue[i])>>]
        /\ port' = Append(port, [from |-> i, id |-> Head(queue[i])])
        /\ UNCHANGED <<phase, outcome>>
     \/ /\ phase[i] = "ready"
        /\ phase' = [phase EXCEPT ![i] = "failed"]
        /\ outcome' = [outcome EXCEPT ![i] = EndedWith(i, "TRANSPORT_ERROR")]
        /\ UNCHANGED <<pending, port>>
     \/ /\ phase[i] # "ready"
        /\ UNCHANGED <<phase, outcome, pending, port>>
  /\ UNCHANGED <<called, answer, quiet>>

\* The timer of a request fires.
OnTimer(i) ==
  /\ TurnOver
  /\ phase[i] = "ready"
  /\ Waiting(i) # {}
  /\ phase' = [phase EXCEPT ![i] = "failed"]
  /\ outcome' = [outcome EXCEPT ![i] = EndedWith(i, "TIMEOUT")]
  /\ UNCHANGED <<called, queue, pending, port, answer, quiet>>

\* dispose(): the transport is not told.
Dispose(i) ==
  /\ TurnOver
  /\ phase[i] \in {"ready", "failed"}
  /\ phase' = [phase EXCEPT ![i] = "disposed"]
  /\ outcome' = [outcome EXCEPT ![i] = EndedWith(i, "DISPOSED")]
  /\ UNCHANGED <<called, queue, pending, port, answer, quiet>>

-----------------------------------------------------------------------------
\* The native side handles messages in order and answers synchronously: with a
\* frame, with an empty message for every error, or not at all if it cannot.
NativeReplies == {"frame", "empty", "lost"}

\* onMessage() finds the request it waits for.
TakesForItsOwn(i, r, kind) ==
  /\ kind = "frame"
  /\ pending[i] # <<>>
  /\ Head(pending[i]) = r.id

\* A backend that is ready gets a result whose length it expects.
Resolves(i, r, kind, fits) ==
  phase[i] = "ready" /\ TakesForItsOwn(i, r, kind) /\ (r.from = i \/ fits)

\* Its request is rejected, or resolved with what is no result of it.
Breaks(i, r, kind, fits) ==
  phase[i] = "ready" /\ pending[i] # <<>> /\ ~Resolves(i, r, kind, fits)

\* The native side answers the oldest message, and every transport ever created
\* hears it: onMessage() and failAll() of each, and the rest of transform().
\* "fits" says whether the result of a request has the length another expects.
Deliver(kind, fits) ==
  /\ TurnOver
  /\ port # <<>>
  /\ port' = Tail(port)
  /\ IF kind = "lost" THEN UNCHANGED <<phase, pending, outcome, answer>>
     ELSE LET r == Head(port) IN
          /\ pending' = [i \in Instances |-> <<>>]
          /\ phase' = [i \in Instances |->
                         IF Breaks(i, r, kind, fits) THEN "failed" ELSE phase[i]]
          /\ outcome' = [i \in Instances |->
               IF Breaks(i, r, kind, fits) THEN EndedWith(i, "TRANSPORT_ERROR")
               ELSE IF Resolves(i, r, kind, fits)
               THEN [outcome[i] EXCEPT ![Head(pending[i])] = "resolved"]
               ELSE outcome[i]]
          /\ answer' = [i \in Instances |->
               IF Resolves(i, r, kind, fits)
               THEN [answer[i] EXCEPT ![Head(pending[i])] = r]
               ELSE answer[i]]
  /\ UNCHANGED <<called, queue, quiet>>

Next ==
  \/ \E i \in Instances : Create(i)
  \/ \E i \in Instances : Transform(i)
  \/ \E i \in Instances : Post(i)
  \/ \E i \in Instances : OnTimer(i)
  \/ \E i \in Instances : Dispose(i)
  \/ \E kind \in NativeReplies, fits \in BOOLEAN : Deliver(kind, fits)

Spec == Init /\ [][Next]_vars

-----------------------------------------------------------------------------
Codes == {"none", "waiting", "resolved", "TRANSPORT_ERROR", "TIMEOUT", "DISPOSED"}

\* The types; a transport holds one request at most, so the oldest is the one.
TypeOK ==
  /\ phase \in [Instances -> {"absent", "ready", "failed", "disposed"}]
  /\ called \in [Instances -> 0..MaxCalls]
  /\ queue \in [Instances -> Seq(Calls)]
  /\ pending \in [Instances -> {<<>>} \cup {<<c>> : c \in Calls}]
  /\ port \in Seq(Requests)
  /\ outcome \in [Instances -> [Calls -> Codes]]
  /\ answer \in [Instances -> [Calls -> Requests \cup {NoRequest}]]
  /\ quiet \in [Instances -> BOOLEAN]

\* Backends follow each other: every earlier one is disposed.
OneAfterTheOther ==
  \A i, j \in Instances : phase[i] # "absent" /\ j < i => phase[j] = "disposed"

\* What is queued and posted is of backends that were created.
TrafficIsOfCreated ==
  /\ \A i \in Instances : queue[i] # <<>> => phase[i] # "absent"
  /\ \A k \in 1..Len(port) : phase[port[k].from] # "absent"

\* A backend that found the port quiet never has an older request before it.
QuietLasts ==
  \A i \in Instances : quiet[i] =>
    /\ phase[i] # "absent"
    /\ \A j \in Instances : j < i => queue[j] = <<>>
    /\ \A k \in 1..Len(port) : port[k].from >= i

\* The port between turns: one live backend at most, and nothing that was posted
\* or waits to be posted is older than a backend that found the port quiet.
Inv == TypeOK /\ OneAfterTheOther /\ TrafficIsOfCreated /\ QuietLasts

\* The reply to a request of another instance is being delivered.
ReplyToAnother(i) ==
  port # <<>> /\ port' = Tail(port) /\ Head(port).from # i

\* An instance created when nothing older was posted or queued is never touched
\* by what is said to another: ended backends do not come back to the port.
QuietPortIsOwn ==
  [][\A i \in Instances : quiet[i] /\ ReplyToAnother(i) =>
       UNCHANGED <<phase[i], outcome[i], answer[i]>>]_vars

\* Replies to an old instance do not update the page of the new one
\* (docs/plan/04-contracts.md, 133).
OldReplyChangesNothing ==
  [][\A i \in Instances : ReplyToAnother(i) =>
       UNCHANGED <<phase[i], outcome[i], answer[i]>>]_vars
=============================================================================
