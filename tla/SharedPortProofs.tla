-------------------------- MODULE SharedPortProofs --------------------------
(***************************************************************************)
(* For any number of backends and calls: a reply resolves a call of its    *)
(* own number only, and a backend that was created when nothing older was  *)
(* posted or queued is never touched by a reply to another.                *)
(*                                                                         *)
(* The second follows from what Inv says of the port.  Whoever was before  *)
(* such a backend is disposed, so it takes on no call and has nothing left *)
(* to post; whoever comes after it finds it disposed, and a disposed       *)
(* backend changes no more.                                                *)
(***************************************************************************)
EXTENDS SharedPort, SequenceTheorems, TLAPS

\* What the end of a backend does to its promises.
LEMMA EndedWithProperties ==
  ASSUME TypeOK, NEW i \in Instances,
         NEW code \in {"TRANSPORT_ERROR", "TIMEOUT", "DISPOSED"}
  PROVE  /\ EndedWith(i, code) \in [Calls -> Codes]
         /\ \A c \in Calls : EndedWith(i, code)[c] = "resolved" =>
              outcome[i][c] = "resolved"
  BY DEF TypeOK, EndedWith, Codes

\* The types are kept by every step.
LEMMA TypeKept == TypeOK /\ [Next]_vars => TypeOK'
<1>. SUFFICES ASSUME TypeOK, [Next]_vars PROVE TypeOK'
  OBVIOUS
<1>. USE DEF TypeOK
<1>1. ASSUME NEW i \in Instances, Create(i) PROVE TypeOK'
  BY <1>1 DEF Create
<1>2. ASSUME NEW i \in Instances, Transform(i) PROVE TypeOK'
  <2>1. called[i] + 1 \in Calls /\ called[i] + 1 \in 0..MaxCalls
    BY <1>2, BoundsAssumption DEF Transform, Calls
  <2>2. Append(queue[i], called[i] + 1) \in Seq(Calls)
    BY <2>1, AppendProperties
  <2>3. called' \in [Instances -> 0..MaxCalls] /\ queue' \in [Instances -> Seq(Calls)]
    BY <1>2, <2>1, <2>2 DEF Transform
  <2>4. outcome' \in [Instances -> [Calls -> Codes]]
    BY <1>2, <2>1 DEF Transform, Codes
  <2>. QED
    BY <1>2, <2>3, <2>4 DEF Transform
<1>3. ASSUME NEW i \in Instances, Post(i) PROVE TypeOK'
  <2>1. queue[i] \in Seq(Calls) /\ queue[i] # <<>>
    BY <1>3 DEF Post, MayPost
  <2>2. Head(queue[i]) \in Calls /\ Tail(queue[i]) \in Seq(Calls)
    BY <2>1, HeadTailProperties
  <2>3. queue' \in [Instances -> Seq(Calls)]
    BY <1>3, <2>2 DEF Post
  <2>4. [from |-> i, id |-> Head(queue[i])] \in Requests
    BY <2>2 DEF Requests
  <2>5. CASE /\ pending' = [pending EXCEPT ![i] = <<Head(queue[i])>>]
             /\ port' = Append(port, [from |-> i, id |-> Head(queue[i])])
             /\ UNCHANGED <<phase, outcome>>
    <3>1. port' \in Seq(Requests)
      BY <2>4, <2>5, AppendProperties
    <3>2. pending' \in [Instances -> {<<>>} \cup {<<c>> : c \in Calls}]
      BY <2>2, <2>5
    <3>. QED
      BY <1>3, <2>3, <2>5, <3>1, <3>2 DEF Post
  <2>6. CASE /\ phase' = [phase EXCEPT ![i] = "failed"]
             /\ outcome' = [outcome EXCEPT ![i] = EndedWith(i, "TRANSPORT_ERROR")]
             /\ UNCHANGED <<pending, port>>
    <3>1. EndedWith(i, "TRANSPORT_ERROR") \in [Calls -> Codes]
      BY EndedWithProperties
    <3>. QED
      BY <1>3, <2>3, <2>6, <3>1 DEF Post
  <2>7. CASE UNCHANGED <<phase, outcome, pending, port>>
    BY <1>3, <2>3, <2>7 DEF Post
  <2>. QED
    BY <1>3, <2>5, <2>6, <2>7 DEF Post
<1>4. ASSUME NEW i \in Instances, OnTimer(i) PROVE TypeOK'
  <2>1. EndedWith(i, "TIMEOUT") \in [Calls -> Codes]
    BY EndedWithProperties
  <2>. QED
    BY <1>4, <2>1 DEF OnTimer
<1>5. ASSUME NEW i \in Instances, Dispose(i) PROVE TypeOK'
  <2>1. EndedWith(i, "DISPOSED") \in [Calls -> Codes]
    BY EndedWithProperties
  <2>. QED
    BY <1>5, <2>1 DEF Dispose
<1>6. ASSUME NEW kind \in NativeReplies, NEW fits \in BOOLEAN, Deliver(kind, fits)
      PROVE  TypeOK'
  <2>1. Head(port) \in Requests /\ port' \in Seq(Requests)
    BY <1>6, HeadTailProperties DEF Deliver
  <2>2. CASE kind = "lost"
    BY <1>6, <2>1, <2>2 DEF Deliver
  <2>3. CASE kind # "lost"
    <3>1. pending' \in [Instances -> {<<>>} \cup {<<c>> : c \in Calls}]
      BY <1>6, <2>3 DEF Deliver
    <3>2. phase' \in [Instances -> {"absent", "ready", "failed", "disposed"}]
      BY <1>6, <2>3 DEF Deliver
    <3>3. \A i \in Instances : EndedWith(i, "TRANSPORT_ERROR") \in [Calls -> Codes]
      BY EndedWithProperties
    <3>. DEFINE r == Head(port)
    <3>4. outcome' \in [Instances -> [Calls -> Codes]]
      <4>1. ASSUME NEW i \in Instances
            PROVE  [outcome[i] EXCEPT ![Head(pending[i])] = "resolved"] \in [Calls -> Codes]
        BY DEF Codes
      <4>2. outcome' = [i \in Instances |->
                          IF Breaks(i, r, kind, fits) THEN EndedWith(i, "TRANSPORT_ERROR")
                          ELSE IF Resolves(i, r, kind, fits)
                          THEN [outcome[i] EXCEPT ![Head(pending[i])] = "resolved"]
                          ELSE outcome[i]]
        BY <1>6, <2>3 DEF Deliver
      <4>. QED
        BY <3>3, <4>1, <4>2
    <3>5. answer' \in [Instances -> [Calls -> Requests \cup {NoRequest}]]
      <4>1. ASSUME NEW i \in Instances
            PROVE  [answer[i] EXCEPT ![Head(pending[i])] = r]
                     \in [Calls -> Requests \cup {NoRequest}]
        BY <2>1
      <4>2. answer' = [i \in Instances |->
                         IF Resolves(i, r, kind, fits)
                         THEN [answer[i] EXCEPT ![Head(pending[i])] = r]
                         ELSE answer[i]]
        BY <1>6, <2>3 DEF Deliver
      <4>. QED
        BY <4>1, <4>2
    <3>. QED
      BY <1>6, <2>1, <3>1, <3>2, <3>4, <3>5 DEF Deliver
  <2>. QED
    BY <2>2, <2>3
<1>7. CASE UNCHANGED vars
  BY <1>7 DEF vars
<1>. QED
  BY <1>1, <1>2, <1>3, <1>4, <1>5, <1>6, <1>7 DEF Next

-----------------------------------------------------------------------------
\* No backend comes back: a phase changes forward only, and a new one starts
\* when the former was disposed.
LEMMA OrderKept == TypeOK /\ OneAfterTheOther /\ [Next]_vars => OneAfterTheOther'
<1>. SUFFICES ASSUME TypeOK, OneAfterTheOther, [Next]_vars PROVE OneAfterTheOther'
  OBVIOUS
<1>. USE DEF TypeOK, OneAfterTheOther
<1>1. ASSUME NEW i \in Instances, Create(i) PROVE OneAfterTheOther'
  <2>. SUFFICES ASSUME NEW a \in Instances, NEW b \in Instances,
                       phase'[a] # "absent", b < a
                PROVE  phase'[b] = "disposed"
    OBVIOUS
  <2>1. CASE a # i
    <3>1. phase[a] # "absent"
      BY <1>1, <2>1 DEF Create
    <3>2. phase[b] = "disposed"
      BY <3>1
    <3>. QED
      BY <1>1, <3>2 DEF Create
  <2>2. CASE a = i
    <3>1. i - 1 \in Instances /\ (b < i - 1 \/ b = i - 1)
      BY <2>2, BoundsAssumption DEF Instances
    <3>2. phase[i - 1] = "disposed"
      BY <1>1, <2>2, <3>1, BoundsAssumption DEF Create, Instances
    <3>3. phase[b] = "disposed"
      BY <3>1, <3>2
    <3>. QED
      BY <1>1, <3>3 DEF Create
  <2>. QED
    BY <2>1, <2>2
<1>2. ASSUME NEW i \in Instances, Transform(i) PROVE OneAfterTheOther'
  BY <1>2 DEF Transform
<1>3. ASSUME NEW i \in Instances, Post(i) PROVE OneAfterTheOther'
  BY <1>3 DEF Post
<1>4. ASSUME NEW i \in Instances, OnTimer(i) PROVE OneAfterTheOther'
  BY <1>4 DEF OnTimer
<1>5. ASSUME NEW i \in Instances, Dispose(i) PROVE OneAfterTheOther'
  BY <1>5 DEF Dispose
<1>6. ASSUME NEW kind \in NativeReplies, NEW fits \in BOOLEAN, Deliver(kind, fits)
      PROVE  OneAfterTheOther'
  BY <1>6 DEF Deliver, Breaks
<1>7. CASE UNCHANGED vars
  BY <1>7 DEF vars
<1>. QED
  BY <1>1, <1>2, <1>3, <1>4, <1>5, <1>6, <1>7 DEF Next

\* A step neither brings a queue nor a request into being but by Transform of a
\* ready backend and by Post of what was queued.
LEMMA Traffic ==
  ASSUME TypeOK, TrafficIsOfCreated, [Next]_vars
  PROVE  /\ \A i \in Instances : phase[i] # "absent" => phase'[i] # "absent"
         /\ \A i \in Instances : phase[i] = "disposed" => phase'[i] = "disposed"
         /\ \A i \in Instances : queue'[i] # <<>> =>
              queue[i] # <<>> \/ phase[i] = "ready"
         /\ \A k \in 1..Len(port') :
              \/ \E m \in 1..Len(port) : port'[k] = port[m]
              \/ queue[port'[k].from] # <<>> /\ port'[k].from \in Instances
<1>. USE DEF TypeOK
<1>. DEFINE Forward ==
       /\ \A i \in Instances : phase[i] # "absent" => phase'[i] # "absent"
       /\ \A i \in Instances : phase[i] = "disposed" => phase'[i] = "disposed"
     Queued == \A i \in Instances : queue'[i] # <<>> =>
                 queue[i] # <<>> \/ phase[i] = "ready"
     Posted == \A k \in 1..Len(port') :
                 \/ \E m \in 1..Len(port) : port'[k] = port[m]
                 \/ queue[port'[k].from] # <<>> /\ port'[k].from \in Instances
<1>1. ASSUME NEW i \in Instances, Create(i) PROVE Forward /\ Queued /\ Posted
  BY <1>1 DEF Create
<1>2. ASSUME NEW i \in Instances, Transform(i) PROVE Forward /\ Queued /\ Posted
  BY <1>2 DEF Transform
<1>3. ASSUME NEW i \in Instances, Post(i) PROVE Forward /\ Queued /\ Posted
  <2>1. queue[i] # <<>>
    BY <1>3 DEF Post, MayPost
  <2>2. Forward
    BY <1>3 DEF Post
  <2>3. Queued
    BY <1>3, <2>1 DEF Post
  <2>4. ASSUME port' = port PROVE Posted
    BY <2>4
  <2>5. ASSUME port' = Append(port, [from |-> i, id |-> Head(queue[i])]) PROVE Posted
    <3>. SUFFICES ASSUME NEW k \in 1..Len(port')
                  PROVE  \/ \E m \in 1..Len(port) : port'[k] = port[m]
                         \/ queue[port'[k].from] # <<>> /\ port'[k].from \in Instances
      OBVIOUS
    <3>1. Head(queue[i]) \in Calls
      BY <2>1, HeadTailProperties
    <3>2. [from |-> i, id |-> Head(queue[i])] \in Requests
      BY <3>1 DEF Requests
    <3>3. Len(port') = Len(port) + 1 /\ Len(port) \in Nat
      BY <2>5, <3>2, AppendProperties, LenProperties
    <3>4. CASE k \in 1..Len(port)
      <4>1. port'[k] = port[k]
        BY <2>5, <3>2, <3>4, AppendProperties
      <4>. QED
        BY <3>4, <4>1
    <3>5. CASE k = Len(port) + 1
      <4>1. port'[k] = [from |-> i, id |-> Head(queue[i])]
        BY <2>5, <3>2, <3>5, AppendProperties
      <4>. QED
        BY <2>1, <4>1
    <3>. QED
      BY <3>3, <3>4, <3>5
  <2>. QED
    BY <1>3, <2>2, <2>3, <2>4, <2>5 DEF Post
<1>4. ASSUME NEW i \in Instances, OnTimer(i) PROVE Forward /\ Queued /\ Posted
  BY <1>4 DEF OnTimer
<1>5. ASSUME NEW i \in Instances, Dispose(i) PROVE Forward /\ Queued /\ Posted
  BY <1>5 DEF Dispose
<1>6. ASSUME NEW kind \in NativeReplies, NEW fits \in BOOLEAN, Deliver(kind, fits)
      PROVE  Forward /\ Queued /\ Posted
  <2>1. Forward /\ Queued
    BY <1>6 DEF Deliver, Breaks
  <2>2. /\ Len(port') = Len(port) - 1
        /\ \A k \in 1..Len(port') : k + 1 \in 1..Len(port) /\ port'[k] = port[k + 1]
    BY <1>6, HeadTailProperties DEF Deliver
  <2>. QED
    BY <2>1, <2>2
<1>7. CASE UNCHANGED vars
  BY <1>7 DEF vars
<1>. QED
  BY <1>1, <1>2, <1>3, <1>4, <1>5, <1>6, <1>7 DEF Next

\* Only a created backend queues and posts.
LEMMA TrafficKept == TypeOK /\ TrafficIsOfCreated /\ [Next]_vars => TrafficIsOfCreated'
<1>. SUFFICES ASSUME TypeOK, TrafficIsOfCreated, [Next]_vars PROVE TrafficIsOfCreated'
  OBVIOUS
<1>1. ASSUME NEW i \in Instances, queue'[i] # <<>> PROVE phase'[i] # "absent"
  BY <1>1, Traffic DEF TrafficIsOfCreated
<1>2. ASSUME NEW k \in 1..Len(port') PROVE phase'[port'[k].from] # "absent"
  <2>1. CASE \E m \in 1..Len(port) : port'[k] = port[m]
    <3>1. PICK m \in 1..Len(port) : port'[k] = port[m]
      BY <2>1
    <3>2. port[m].from \in Instances
      <4>1. port \in Seq(Requests)
        BY DEF TypeOK
      <4>2. port[m] \in Requests
        BY <4>1, ElementOfSeq
      <4>. QED
        BY <4>2 DEF Requests
    <3>. QED
      BY <3>1, <3>2, Traffic DEF TrafficIsOfCreated
  <2>2. CASE queue[port'[k].from] # <<>> /\ port'[k].from \in Instances
    BY <2>2, Traffic DEF TrafficIsOfCreated
  <2>. QED
    BY <2>1, <2>2, Traffic
<1>. QED
  BY <1>1, <1>2 DEF TrafficIsOfCreated

\* A backend that found the port quiet keeps it free of older requests.
LEMMA QuietKept == Inv /\ [Next]_vars => QuietLasts'
<1>. SUFFICES ASSUME Inv, [Next]_vars, NEW i \in Instances, quiet'[i]
              PROVE  /\ phase'[i] # "absent"
                     /\ \A j \in Instances : j < i => queue'[j] = <<>>
                     /\ \A k \in 1..Len(port') : port'[k].from >= i
  BY DEF QuietLasts
<1>. USE DEF Inv
<1>1. CASE quiet[i]
  <2>1. phase[i] # "absent" /\ phase'[i] # "absent"
    BY <1>1, Traffic DEF QuietLasts
  <2>2. ASSUME NEW j \in Instances, j < i PROVE queue[j] = <<>> /\ queue'[j] = <<>>
    <3>1. phase[j] = "disposed" /\ queue[j] = <<>>
      BY <1>1, <2>1, <2>2 DEF OneAfterTheOther, QuietLasts
    <3>. QED
      BY <3>1, Traffic
  <2>3. ASSUME NEW k \in 1..Len(port') PROVE port'[k].from >= i
    <3>1. CASE \E m \in 1..Len(port) : port'[k] = port[m]
      BY <1>1, <3>1 DEF QuietLasts
    <3>2. CASE queue[port'[k].from] # <<>> /\ port'[k].from \in Instances
      BY <2>2, <3>2 DEF Instances
    <3>. QED
      BY <3>1, <3>2, Traffic
  <2>. QED
    BY <2>1, <2>2, <2>3
<1>2. CASE ~quiet[i]
  <2>1. Create(i)
    <3>1. ASSUME NEW j \in Instances, Create(j) PROVE j = i
      BY <1>2, <3>1 DEF Create, TypeOK
    <3>2. quiet' # quiet
      BY <1>2
    <3>. QED
      BY <3>1, <3>2 DEF Next, vars, Transform, Post, OnTimer, Dispose, Deliver
  <2>2. port = <<>> /\ \A j \in Instances : queue[j] = <<>>
    BY <2>1 DEF Create, TypeOK
  <2>3. phase'[i] = "ready" /\ queue' = queue /\ port' = port
    BY <2>1 DEF Create, TypeOK
  <2>4. 1..Len(port') = {}
    BY <2>2, <2>3
  <2>. QED
    BY <2>2, <2>3, <2>4
<1>. QED
  BY <1>1, <1>2

-----------------------------------------------------------------------------
\* The port between turns: the types, at most one backend that is not disposed,
\* and nothing older before a backend that found the port quiet.
THEOREM PortInvariant == Spec => []Inv
<1>1. Init => Inv
  <2>. SUFFICES ASSUME Init PROVE Inv
    OBVIOUS
  <2>1. TypeOK
    BY BoundsAssumption, EmptySeq DEF Init, TypeOK, Codes
  <2>2. OneAfterTheOther
    BY DEF Init, OneAfterTheOther
  <2>3. TrafficIsOfCreated
    BY DEF Init, TrafficIsOfCreated
  <2>4. QuietLasts
    BY DEF Init, QuietLasts
  <2>. QED
    BY <2>1, <2>2, <2>3, <2>4 DEF Inv
<1>2. Inv /\ [Next]_vars => Inv'
  BY TypeKept, OrderKept, TrafficKept, QuietKept DEF Inv
<1>. QED
  BY <1>1, <1>2, PTL DEF Spec

\* A backend created on a quiet port is never touched by what the native side
\* says to another one.
THEOREM QuietPortsAreOwn == Spec => QuietPortIsOwn
<1>1. ASSUME Inv, Next, NEW i \in Instances, quiet[i], ReplyToAnother(i)
      PROVE  UNCHANGED <<phase[i], outcome[i], answer[i]>>
  <2>. USE DEF Inv
  <2>1. port # <<>> /\ port' = Tail(port) /\ port \in Seq(Requests)
    BY <1>1 DEF ReplyToAnother, TypeOK
  <2>2. Len(port) \in Nat \ {0} /\ Len(port') = Len(port) - 1 /\ Head(port) = port[1]
    BY <2>1, HeadTailProperties, EmptySeq, LenProperties
  <2>3. Head(port).from \in Instances /\ Head(port).from > i
    <3>1. Head(port) \in Requests
      BY <2>1, HeadTailProperties
    <3>2. port[1].from >= i
      BY <1>1, <2>2 DEF QuietLasts
    <3>. QED
      BY <1>1, <2>2, <3>1, <3>2 DEF ReplyToAnother, Requests, Instances
  <2>4. phase[i] = "disposed"
    <3>1. phase[Head(port).from] # "absent"
      BY <1>1, <2>2 DEF TrafficIsOfCreated
    <3>. QED
      BY <1>1, <2>3, <3>1 DEF OneAfterTheOther
  <2>5. PICK kind \in NativeReplies, fits \in BOOLEAN : Deliver(kind, fits)
    <3>1. port' # port
      BY <2>2
    <3>2. ASSUME NEW j \in Instances, Post(j) PROVE FALSE
      <4>1. port' = Append(port, [from |-> j, id |-> Head(queue[j])])
        BY <3>1, <3>2 DEF Post
      <4>2. queue[j] \in Seq(Calls) /\ queue[j] # <<>>
        BY <1>1, <3>2 DEF Post, MayPost, TypeOK
      <4>3. [from |-> j, id |-> Head(queue[j])] \in Requests
        BY <4>2, HeadTailProperties DEF Requests
      <4>4. Len(port') = Len(port) + 1
        BY <2>1, <4>1, <4>3, AppendProperties
      <4>. QED
        BY <2>2, <4>4
    <3>. QED
      BY <1>1, <3>1, <3>2 DEF Next, Create, Transform, OnTimer, Dispose
  <2>. QED
    BY <1>1, <2>4, <2>5 DEF Deliver, Breaks, Resolves, TypeOK
<1>2. Inv /\ [Next]_vars =>
        [\A i \in Instances : quiet[i] /\ ReplyToAnother(i) =>
           UNCHANGED <<phase[i], outcome[i], answer[i]>>]_vars
  BY <1>1
<1>. QED
  BY <1>2, PortInvariant, PTL DEF Spec, QuietPortIsOwn
=============================================================================
