------------------------- MODULE BatchAndRingProofs ---------------------------
(***************************************************************************)
(* Many frames in one send, and the ring that may carry them: the classes  *)
(* FrameBatcher and WireRing of wire-ring.ts with the bridge above them.   *)
(*                                                                         *)
(* For every set of submissions and every limit of the batcher: promises   *)
(* stay aligned with frames, nobody is lost or settled twice, a rejected   *)
(* frame is never sent, no frame is sent twice and the byte count is that  *)
(* of the frames kept.                                                     *)
(*                                                                         *)
(* WaitingIsHeld is not inductive by itself: a reply settles the promises  *)
(* of one list, and they must be in no other.  Held says so, and Fresh     *)
(* says that what was sent is in no list from which it could be sent.      *)
(*                                                                         *)
(* For every capacity and every set of frames: the cursors stay inside the *)
(* region, a view shown without a copy is never overwritten, and the ring  *)
(* implements the bounded first-in first-out queue of ByteQueue.  The      *)
(* argument rests on one lemma (SpansArePlaced): the k-th unread byte is at *)
(* Place(k), whether or not the unread bytes wrap.  Writing, taking and the *)
(* gap of one byte then become arithmetic on places.                       *)
(***************************************************************************)
EXTENDS BatchingBridge, WireRing, SequenceTheorems, WellFoundedInduction, TLAPS

-----------------------------------------------------------------------------
\* Elements of sequences.
LEMMA ElementsTyped ==
  ASSUME NEW S, NEW q \in Seq(S)
  PROVE  ToSet(q) \subseteq S
  BY ElementOfSeq, LenProperties DEF ToSet

LEMMA ElementsOfEmpty == ToSet(<<>>) = {}
  BY DEF ToSet

LEMMA ElementsOfAppend ==
  ASSUME NEW S, NEW q \in Seq(S), NEW e \in S
  PROVE  /\ Append(q, e) \in Seq(S)
         /\ DOMAIN Append(q, e) = 1..Len(q) + 1
         /\ DOMAIN q = 1..Len(q)
         /\ Len(q) \in Nat
         /\ \A i \in 1..Len(q) : Append(q, e)[i] = q[i]
         /\ Append(q, e)[Len(q) + 1] = e
         /\ ToSet(Append(q, e)) = ToSet(q) \cup {e}
<1>1. /\ Append(q, e) \in Seq(S)
      /\ DOMAIN Append(q, e) = 1..Len(q) + 1
      /\ DOMAIN q = 1..Len(q)
      /\ Len(q) \in Nat
  BY LenProperties
<1>2. /\ \A i \in 1..Len(q) : Append(q, e)[i] = q[i]
      /\ Append(q, e)[Len(q) + 1] = e
  BY LenProperties
<1>3. ToSet(Append(q, e)) = ToSet(q) \cup {e}
  <2>1. \A x : x \in ToSet(Append(q, e)) <=>
                 \E i \in 1..Len(q) + 1 : x = Append(q, e)[i]
    BY <1>1 DEF ToSet
  <2>2. \A x : x \in ToSet(q) <=> \E i \in 1..Len(q) : x = q[i]
    BY <1>1 DEF ToSet
  <2>3. \A i \in 1..Len(q) + 1 : i \in 1..Len(q) \/ i = Len(q) + 1
    BY <1>1
  <2>4. \A i \in 1..Len(q) : i \in 1..Len(q) + 1
    BY <1>1
  <2>5. Len(q) + 1 \in 1..Len(q) + 1
    BY <1>1
  <2>. QED
    BY <1>2, <2>1, <2>2, <2>3, <2>4, <2>5
<1>. QED
  BY <1>1, <1>2, <1>3

LEMMA ElementsOfTail ==
  ASSUME NEW S, NEW q \in Seq(S), q # <<>>
  PROVE  /\ Head(q) \in S
         /\ Tail(q) \in Seq(S)
         /\ 1 \in DOMAIN q /\ Head(q) = q[1]
         /\ \A i \in DOMAIN Tail(q) :
              i \in Nat /\ i + 1 \in DOMAIN q /\ i + 1 # 1 /\ Tail(q)[i] = q[i + 1]
         /\ \A i \in DOMAIN q : i = 1 \/ \E j \in DOMAIN Tail(q) : i = j + 1
<1>1. /\ Len(q) \in Nat \ {0}
      /\ DOMAIN q = 1..Len(q)
  BY EmptySeq, LenProperties
<1>2. /\ Head(q) \in S
      /\ Tail(q) \in Seq(S)
      /\ Len(Tail(q)) = Len(q) - 1
      /\ \A i \in 1..Len(Tail(q)) : Tail(q)[i] = q[i + 1]
  BY HeadTailProperties
<1>3. DOMAIN Tail(q) = 1..Len(q) - 1
  BY <1>2, LenProperties
<1>4. Head(q) = q[1] /\ 1 \in DOMAIN q
  BY <1>1
<1>5. ASSUME NEW i \in DOMAIN q
      PROVE  i = 1 \/ \E j \in DOMAIN Tail(q) : i = j + 1
  <2>1. i = 1 \/ (i - 1 \in 1..Len(q) - 1 /\ i = (i - 1) + 1)
    BY <1>1, <1>5
  <2>. QED
    BY <1>3, <2>1
<1>6. \A i \in DOMAIN Tail(q) :
        i \in Nat /\ i + 1 \in DOMAIN q /\ i + 1 # 1 /\ Tail(q)[i] = q[i + 1]
  BY <1>1, <1>2, <1>3
<1>. QED
  BY <1>2, <1>4, <1>5, <1>6

\* A set of places that is not empty has a last one.
LEMMA LastPlace ==
  ASSUME NEW n \in Nat, NEW P \in SUBSET (1..n), P # {}
  PROVE  \E i \in P : \A j \in P : j <= i
<1>. DEFINE T == {n - i : i \in P}
<1>1. T \subseteq Nat /\ T # {}
  <2>1. \A i \in P : n - i \in Nat
    OBVIOUS
  <2>. QED
    BY <2>1, Zenon
<1>2. PICK m \in T : \A k \in T : <<k, m>> \notin OpToRel(<, Nat)
  BY <1>1, WFMin, NatLessThanWellFounded, Zenon
<1>3. \A k \in T : ~(k < m)
  BY <1>1, <1>2, Zenon DEF OpToRel
<1>4. PICK i \in P : m = n - i
  OBVIOUS
<1>5. ASSUME NEW j \in P PROVE j <= i
  <2>1. ~(n - j < n - i)
    BY <1>3, <1>4
  <2>. QED
    BY <2>1
<1>. QED
  BY <1>5

-----------------------------------------------------------------------------
Answered(reply) ==
  {s \in ToSet(sending.snapshot) : Matching(reply, s) # {}}

\* A reply frame chosen for a caller is one of the reply, under its number.
LEMMA LastMatchingProperties ==
  ASSUME NEW reply \in Seq(Submits), NEW s, Matching(reply, s) # {}
  PROVE  /\ LastMatching(reply, s) \in Submits
         /\ LastMatching(reply, s) \in ToSet(reply)
         /\ SequenceOf[LastMatching(reply, s)] = SequenceOf[s]
<1>1. Len(reply) \in Nat /\ DOMAIN reply = 1..Len(reply)
  BY LenProperties
<1>2. Matching(reply, s) \in SUBSET (1..Len(reply))
  BY <1>1 DEF Matching
<1>3. \E i \in Matching(reply, s) : \A j \in Matching(reply, s) : j <= i
  BY <1>1, <1>2, LastPlace
<1>4. PICK k \in Matching(reply, s) : LastMatching(reply, s) = reply[k]
  BY <1>2, <1>3, Zenon DEF LastMatching
<1>. QED
  BY <1>1, <1>2, <1>4, ElementOfSeq DEF Matching, ToSet

\* What comes back for a batch is a sequence of its frames.
LEMMA RepliesTyped ==
  ASSUME NEW batch \in Seq(Submits), NEW reply \in Replies(batch)
  PROVE  reply \in Seq(Submits) /\ ToSet(reply) \subseteq ToSet(batch)
<1>1. ToSet(batch) \subseteq Submits /\ Len(batch) \in Nat
  BY ElementsTyped, LenProperties
<1>2. PICK n \in 0..Len(batch) : reply \in [1..n -> ToSet(batch)]
  BY DEF Replies, SeqOf
<1>3. \A i \in DOMAIN reply : reply[i] \in ToSet(batch)
  BY <1>2
<1>4. ToSet(reply) \subseteq ToSet(batch)
  BY <1>3 DEF ToSet
<1>. QED
  BY <1>1, <1>2, <1>4

-----------------------------------------------------------------------------
LEMMA TaskTyped ==
  ASSUME NEW b \in Seq(Submits), NEW q \in Seq(Submits)
  PROVE  Send(b, q) \in TaskType
  BY DEF Send, TaskType

LEMMA ConstantTasksTyped == Idle \in TaskType /\ Flush \in TaskType
  BY EmptySeq DEF Idle, Flush, TaskType

LEMMA RejectTyped ==
  ASSUME NEW list \in Seq(Submits), outcome \in [Submits -> Outcomes],
         RejectAll(list)
  PROVE  outcome' \in [Submits -> Outcomes]
  BY DEF RejectAll, Outcomes

\* Every step keeps the types.
LEMMA StepIsTyped == TypeOK /\ [Next]_vars => TypeOK'
<1>. SUFFICES ASSUME TypeOK, [Next]_vars PROVE TypeOK'
  OBVIOUS
<1>. USE DEF TypeOK
<1>1. <<>> \in Seq(Submits)
  BY EmptySeq
<1>2. ASSUME NEW s \in Submits, SubmitRefused(s) PROVE TypeOK'
  BY <1>2 DEF SubmitRefused, Outcomes
<1>3. ASSUME NEW s \in Submits, SubmitFull(s) PROVE TypeOK'
  <2>1. Append(chunks, s) \in Seq(Submits) /\ Append(entries, s) \in Seq(Submits)
    BY ElementsOfAppend
  <2>2. tasks' \in Seq(TaskType)
    BY <1>3, <2>1, TaskTyped, ElementsOfAppend DEF SubmitFull
  <2>3. outcome' \in [Submits -> Outcomes]
    BY <1>3 DEF SubmitFull, Outcomes
  <2>. QED
    BY <1>1, <1>3, <2>2, <2>3 DEF SubmitFull, TakeChunks
<1>4. ASSUME NEW s \in Submits, SubmitKept(s) PROVE TypeOK'
  <2>1. chunks' \in Seq(Submits) /\ entries' \in Seq(Submits)
    BY <1>4, ElementsOfAppend DEF SubmitKept
  <2>2. outcome' \in [Submits -> Outcomes]
    BY <1>4 DEF SubmitKept, Outcomes
  <2>3. bytes' \in Nat
    <3>1. Size[s] \in Nat
      BY SizeAssumption
    <3>. QED
      BY <1>4, <3>1 DEF SubmitKept
  <2>4. timer' \in BOOLEAN
    BY <1>4, IntervalAssumption DEF SubmitKept
  <2>. QED
    BY <1>4, <2>1, <2>2, <2>3, <2>4 DEF SubmitKept
<1>5. CASE FlushNow
  BY <1>5, ConstantTasksTyped, ElementsOfAppend DEF FlushNow
<1>6. CASE TimerFires
  BY <1>6, ConstantTasksTyped, ElementsOfAppend DEF TimerFires
<1>7. CASE Close
  BY <1>1, <1>7, RejectTyped DEF Close, TakeChunks
<1>8. CASE StartSend
  <2>1. Head(tasks) \in TaskType /\ Tail(tasks) \in Seq(TaskType)
    BY <1>8, ElementsOfTail DEF StartSend
  <2>2. Head(tasks).batch \in Seq(Submits)
    BY <2>1 DEF TaskType
  <2>3. sent' \in Seq(Seq(Submits))
    BY <1>8, <2>2, ElementsOfAppend DEF StartSend
  <2>. QED
    BY <1>8, <2>1, <2>3 DEF StartSend
<1>9. CASE StartFlush
  <2>1. Tail(tasks) \in Seq(TaskType)
    BY <1>9, ElementsOfTail DEF StartFlush
  <2>2. Append(sent, chunks) \in Seq(Seq(Submits))
    BY ElementsOfAppend
  <2>3. Send(chunks, entries) \in TaskType
    BY TaskTyped
  <2>. QED
    BY <1>1, <1>9, <2>1, <2>2, <2>3 DEF StartFlush, TakeChunks
<1>10. CASE SendFails
  <2>1. sending.snapshot \in Seq(Submits)
    BY DEF TaskType
  <2>. QED
    BY <1>10, <2>1, RejectTyped, ConstantTasksTyped DEF SendFails
<1>11. ASSUME NEW reply \in Replies(sending.batch), SendReplies(reply)
       PROVE  TypeOK'
  <2>1. reply \in Seq(Submits)
    BY RepliesTyped DEF TaskType
  <2>2. outcome' \in [Submits -> Outcomes]
    BY <1>11 DEF SendReplies, Outcomes
  <2>3. \A s \in Submits :
          Matching(reply, s) # {} => LastMatching(reply, s) \in Submits
    BY <2>1, LastMatchingProperties
  <2>4. answer' = [s \in Submits |-> IF s \in Answered(reply)
                                     THEN LastMatching(reply, s)
                                     ELSE answer[s]]
    BY <1>11 DEF SendReplies, Answered
  <2>5. answer' \in [Submits -> Submits \cup {None}]
    BY <2>3, <2>4 DEF Answered
  <2>. QED
    BY <1>11, <2>2, <2>5, ConstantTasksTyped DEF SendReplies
<1>12. CASE UNCHANGED vars
  BY <1>12 DEF vars
<1>. QED
  BY <1>2, <1>3, <1>4, <1>5, <1>6, <1>7, <1>8, <1>9, <1>10, <1>11, <1>12 DEF Next

LEMMA InitIsTyped == Init => TypeOK
<1>1. /\ <<>> \in Seq(Submits)
      /\ <<>> \in Seq(TaskType)
      /\ <<>> \in Seq(Seq(Submits))
  BY EmptySeq
<1>2. Init => outcome \in [Submits -> Outcomes]
  BY DEF Init, Outcomes
<1>3. Init => answer \in [Submits -> Submits \cup {None}]
  BY DEF Init
<1>4. Init => entries \in Seq(Submits) /\ chunks \in Seq(Submits) /\ bytes \in Nat
  BY <1>1 DEF Init
<1>6. Init => timer \in BOOLEAN /\ closed \in BOOLEAN
  BY Zenon DEF Init
<1>5. Init => tasks \in Seq(TaskType) /\ sending \in TaskType
              /\ sent \in Seq(Seq(Submits))
  BY <1>1, ConstantTasksTyped DEF Init
<1>. QED
  BY <1>2, <1>3, <1>4, <1>5, <1>6 DEF TypeOK

\* Every state of the bridge is typed.
THEOREM TypeCorrect == Spec => []TypeOK
  BY InitIsTyped, StepIsTyped, PTL DEF Spec

\* The frames kept stay below both limits and fill what was counted for them.
LEMMA StepKeepsBounds == TypeOK /\ BatcherBounded /\ [Next]_vars => BatcherBounded'
<1>. SUFFICES ASSUME TypeOK, BatcherBounded, [Next]_vars PROVE BatcherBounded'
  OBVIOUS
<1>1. bytes \in Nat /\ chunks \in Seq(Submits) /\ Len(chunks) \in Nat
  BY LenProperties DEF TypeOK
<1>2. CASE UNCHANGED <<chunks, bytes>>
  BY <1>2 DEF BatcherBounded, FillsBuffer
<1>3. CASE TakeChunks
  <2>1. Len(chunks') = 0 /\ bytes' = 0
    BY <1>3 DEF TakeChunks
  <2>2. [i \in 0..0 |-> 0] \in [0..Len(chunks') -> 0..bytes']
    BY <2>1
  <2>3. FillsBuffer([i \in 0..0 |-> 0])'
    BY <2>1 DEF FillsBuffer
  <2>. QED
    BY <2>1, <2>2, <2>3, LimitsAssumption DEF BatcherBounded
<1>4. ASSUME NEW s \in Submits, SubmitKept(s) PROVE BatcherBounded'
  <2>. PICK n : n = Len(chunks)
    OBVIOUS
  <2>1. Size[s] \in Nat
    BY SizeAssumption
  <2>2. /\ bytes' = bytes + Size[s]
        /\ bytes' < MaxBytes
        /\ n + 1 < MaxFrames
    BY <1>1, <1>4, <2>1, LimitsAssumption DEF SubmitKept, Full
  <2>3. /\ Len(chunks') = n + 1
        /\ \A i \in 1..n : chunks'[i] = chunks[i]
        /\ chunks'[n + 1] = s
    BY <1>1, <1>4, ElementsOfAppend, LenProperties DEF SubmitKept
  <2>4. PICK offset \in [0..n -> 0..bytes] : FillsBuffer(offset)
    BY DEF BatcherBounded
  <2>. PICK next : next = [i \in 0..n + 1 |-> IF i = n + 1 THEN bytes' ELSE offset[i]]
    OBVIOUS
  <2>5. next \in [0..Len(chunks') -> 0..bytes']
    <3>1. \A i \in 0..n + 1 : i # n + 1 => i \in 0..n
      BY <1>1
    <3>2. \A i \in 0..n : offset[i] \in 0..bytes'
      BY <1>1, <2>1, <2>2, <2>4
    <3>3. bytes' \in 0..bytes'
      BY <1>1, <2>1, <2>2
    <3>. QED
      BY <2>3, <3>1, <3>2, <3>3
  <2>6. next[0] = 0 /\ next[n + 1] = bytes' /\ next[n] = bytes
    BY <1>1, <2>4 DEF FillsBuffer
  <2>7. ASSUME NEW i \in 1..n + 1
        PROVE  next[i] = next[i - 1] + Size[chunks'[i]]
    <3>1. CASE i = n + 1
      BY <1>1, <2>2, <2>3, <2>6, <3>1
    <3>2. CASE i # n + 1
      <4>1. i \in 1..n /\ i - 1 \in 0..n /\ i - 1 # n + 1
        BY <1>1, <3>2
      <4>2. next[i] = offset[i] /\ next[i - 1] = offset[i - 1]
        BY <1>1, <4>1
      <4>. QED
        BY <2>3, <2>4, <4>1, <4>2 DEF FillsBuffer
    <3>. QED
      BY <3>1, <3>2
  <2>8. FillsBuffer(next)'
    BY <2>3, <2>6, <2>7 DEF FillsBuffer
  <2>. QED
    BY <2>2, <2>3, <2>5, <2>8 DEF BatcherBounded
<1>. QED
  BY <1>2, <1>3, <1>4
     DEF Next, vars, SubmitRefused, SubmitFull, FlushNow, TimerFires, Close,
         StartSend, StartFlush, SendFails, SendReplies

LEMMA InitIsBounded == Init => BatcherBounded
<1>. SUFFICES ASSUME Init PROVE BatcherBounded
  OBVIOUS
<1>1. Len(chunks) = 0 /\ bytes = 0
  BY DEF Init
<1>2. [i \in 0..0 |-> 0] \in [0..Len(chunks) -> 0..bytes]
  BY <1>1
<1>3. FillsBuffer([i \in 0..0 |-> 0])
  BY <1>1 DEF FillsBuffer
<1>. QED
  BY <1>1, <1>2, <1>3, LimitsAssumption DEF BatcherBounded

\* Between calls the batcher is below both limits, and the frames it keeps fill
\* exactly the buffer flush() will allocate: no copy runs past its end.
THEOREM BatcherStaysBounded == Spec => []BatcherBounded
  BY InitIsTyped, InitIsBounded, StepIsTyped, StepKeepsBounds, PTL DEF Spec

-----------------------------------------------------------------------------
\* The four lists of the invariant, as sets of submissions.
Kept == ToSet(entries)
Underway == ToSet(sending.snapshot)
Queued(s) == \E i \in DOMAIN tasks : s \in ToSet(tasks[i].snapshot)

\* A caller waits if and only if it is in one of them, and it is in only one.
Held ==
  \A s \in Submits :
    /\ outcome[s] = "waiting" <=> s \in Kept \/ s \in Underway \/ Queued(s)
    /\ ~(s \in Kept /\ s \in Underway)
    /\ Queued(s) => s \notin Kept /\ s \notin Underway

\* No submission is in two tasks.
TasksApart ==
  \A s \in Submits : \A i, j \in DOMAIN tasks :
    s \in ToSet(tasks[i].snapshot) /\ s \in ToSet(tasks[j].snapshot) => i = j

\* What was sent is neither new nor in a list that is still to be sent.
Fresh ==
  \A s \in Submits :
    WasSent(s) => outcome[s] # "new" /\ s \notin Kept /\ ~Queued(s)

IInv == TypeOK /\ ListsAgree /\ Held /\ TasksApart /\ Fresh /\ SentOnce

\* One more task in the queue.
LEMMA TaskAdded ==
  ASSUME TypeOK, NEW t \in TaskType, tasks' = Append(tasks, t)
  PROVE  /\ \A s : Queued(s)' <=> Queued(s) \/ s \in ToSet(t.snapshot)
         /\ TasksApart /\ (\A s \in Submits :
              s \in ToSet(t.snapshot) => ~Queued(s)) => TasksApart'
         /\ ListsAgree /\ t.batch = t.snapshot =>
              \A i \in DOMAIN tasks' : tasks'[i].batch = tasks'[i].snapshot
<1>1. /\ DOMAIN tasks' = 1..Len(tasks) + 1
      /\ DOMAIN tasks = 1..Len(tasks)
      /\ Len(tasks) \in Nat
      /\ \A i \in 1..Len(tasks) : tasks'[i] = tasks[i]
      /\ tasks'[Len(tasks) + 1] = t
  BY ElementsOfAppend DEF TypeOK
<1>2. /\ \A i \in DOMAIN tasks' : i \in DOMAIN tasks \/ i = Len(tasks) + 1
      /\ \A i \in DOMAIN tasks : i \in DOMAIN tasks'
      /\ Len(tasks) + 1 \in DOMAIN tasks'
  BY <1>1
<1>3. \A i \in DOMAIN tasks : tasks'[i] = tasks[i]
  BY <1>1
<1>4. \A s : Queued(s)' <=> Queued(s) \/ s \in ToSet(t.snapshot)
  BY <1>1, <1>2, <1>3 DEF Queued, ToSet
<1>5. TasksApart /\ (\A s \in Submits : s \in ToSet(t.snapshot) => ~Queued(s))
        => TasksApart'
  <2>. SUFFICES ASSUME TasksApart, NEW s \in Submits,
                       s \in ToSet(t.snapshot) => ~Queued(s),
                       NEW i \in DOMAIN tasks', NEW j \in DOMAIN tasks',
                       s \in ToSet(tasks'[i].snapshot),
                       s \in ToSet(tasks'[j].snapshot)
                PROVE  i = j
    BY DEF TasksApart, ToSet
  <2>1. CASE i \in DOMAIN tasks /\ j \in DOMAIN tasks
    BY <1>3, <2>1 DEF TasksApart
  <2>2. CASE i \in DOMAIN tasks /\ j = Len(tasks) + 1
    BY <1>1, <1>3, <2>2 DEF Queued
  <2>3. CASE i = Len(tasks) + 1 /\ j \in DOMAIN tasks
    BY <1>1, <1>3, <2>3 DEF Queued
  <2>. QED
    BY <1>2, <2>1, <2>2, <2>3
<1>6. ListsAgree /\ t.batch = t.snapshot =>
        \A i \in DOMAIN tasks' : tasks'[i].batch = tasks'[i].snapshot
  BY <1>1, <1>2, <1>3 DEF ListsAgree
<1>. QED
  BY <1>4, <1>5, <1>6

\* The oldest task leaves the queue.
LEMMA TaskTaken ==
  ASSUME TypeOK, tasks # <<>>, tasks' = Tail(tasks)
  PROVE  /\ Head(tasks) \in TaskType
         /\ \A s : Queued(s) <=> s \in ToSet(Head(tasks).snapshot) \/ Queued(s)'
         /\ TasksApart => TasksApart'
         /\ TasksApart => \A s \in Submits :
              s \in ToSet(Head(tasks).snapshot) => ~Queued(s)'
         /\ ListsAgree =>
              /\ Head(tasks).batch = Head(tasks).snapshot
              /\ \A i \in DOMAIN tasks' : tasks'[i].batch = tasks'[i].snapshot
<1>1. /\ Head(tasks) \in TaskType
      /\ 1 \in DOMAIN tasks /\ Head(tasks) = tasks[1]
      /\ \A i \in DOMAIN tasks' : /\ i \in Nat /\ i + 1 \in DOMAIN tasks
                                  /\ i + 1 # 1 /\ tasks'[i] = tasks[i + 1]
      /\ \A i \in DOMAIN tasks : i = 1 \/ \E j \in DOMAIN tasks' : i = j + 1
  BY ElementsOfTail DEF TypeOK
<1>2. \A s : Queued(s) <=> s \in ToSet(Head(tasks).snapshot) \/ Queued(s)'
  <2>. SUFFICES ASSUME NEW s
                PROVE  Queued(s) <=> \/ s \in ToSet(Head(tasks).snapshot)
                                     \/ Queued(s)'
    OBVIOUS
  <2>1. ASSUME Queued(s)
        PROVE  s \in ToSet(Head(tasks).snapshot) \/ Queued(s)'
    <3>1. PICK i \in DOMAIN tasks : s \in ToSet(tasks[i].snapshot)
      BY <2>1 DEF Queued
    <3>2. CASE i = 1
      BY <1>1, <3>1, <3>2
    <3>3. CASE \E j \in DOMAIN tasks' : i = j + 1
      BY <1>1, <3>1, <3>3 DEF Queued, ToSet
    <3>. QED
      BY <1>1, <3>2, <3>3
  <2>2. ASSUME Queued(s)' PROVE Queued(s)
    BY <1>1, <2>2 DEF Queued, ToSet
  <2>3. s \in ToSet(Head(tasks).snapshot) => Queued(s)
    BY <1>1 DEF Queued
  <2>. QED
    BY <2>1, <2>2, <2>3
<1>3. TasksApart => TasksApart'
  <2>. SUFFICES ASSUME TasksApart, NEW s \in Submits,
                       NEW i \in DOMAIN tasks', NEW j \in DOMAIN tasks',
                       s \in ToSet(tasks'[i].snapshot),
                       s \in ToSet(tasks'[j].snapshot)
                PROVE  i = j
    BY DEF TasksApart, ToSet
  <2>1. i + 1 = j + 1 /\ i \in Nat /\ j \in Nat
    BY <1>1 DEF TasksApart
  <2>. QED
    BY <2>1
<1>4. ASSUME TasksApart, NEW s \in Submits,
             s \in ToSet(Head(tasks).snapshot), Queued(s)'
      PROVE  FALSE
  <2>1. PICK i \in DOMAIN tasks' : s \in ToSet(tasks'[i].snapshot)
    BY <1>4 DEF Queued, ToSet
  <2>. QED
    BY <1>1, <1>4, <2>1 DEF TasksApart
<1>5. ListsAgree =>
        /\ Head(tasks).batch = Head(tasks).snapshot
        /\ \A i \in DOMAIN tasks' : tasks'[i].batch = tasks'[i].snapshot
  BY <1>1 DEF ListsAgree
<1>. QED
  BY <1>1, <1>2, <1>3, <1>4, <1>5

\* One more batch handed to the transport.
LEMMA BatchSent ==
  ASSUME TypeOK, SentOnce, NEW b \in Seq(Submits), sent' = Append(sent, b),
         \A s \in Submits : s \in ToSet(b) => ~WasSent(s)
  PROVE  /\ \A s : WasSent(s)' <=> WasSent(s) \/ s \in ToSet(b)
         /\ SentOnce'
<1>1. /\ DOMAIN sent' = 1..Len(sent) + 1
      /\ DOMAIN sent = 1..Len(sent)
      /\ Len(sent) \in Nat
      /\ \A i \in 1..Len(sent) : sent'[i] = sent[i]
      /\ sent'[Len(sent) + 1] = b
  BY ElementsOfAppend DEF TypeOK
<1>2. /\ \A i \in DOMAIN sent' : i \in DOMAIN sent \/ i = Len(sent) + 1
      /\ \A i \in DOMAIN sent : i \in DOMAIN sent'
      /\ Len(sent) + 1 \in DOMAIN sent'
  BY <1>1
<1>3. \A i \in DOMAIN sent : sent'[i] = sent[i]
  BY <1>1
<1>4. \A s : WasSent(s)' <=> WasSent(s) \/ s \in ToSet(b)
  BY <1>1, <1>2, <1>3 DEF WasSent, ToSet
<1>5. SentOnce'
  <2>0. \A s \in ToSet(b) : s \in Submits
    BY ElementsTyped
  <2>. SUFFICES ASSUME NEW i \in DOMAIN sent', NEW j \in DOMAIN sent', i # j,
                       NEW s, s \in ToSet(sent'[i]), s \in ToSet(sent'[j])
                PROVE  FALSE
    BY DEF SentOnce, ToSet
  <2>1. CASE i \in DOMAIN sent /\ j \in DOMAIN sent
    BY <1>3, <2>1 DEF SentOnce
  <2>2. CASE i \in DOMAIN sent /\ j = Len(sent) + 1
    BY <1>1, <1>3, <2>0, <2>2 DEF WasSent
  <2>3. CASE i = Len(sent) + 1 /\ j \in DOMAIN sent
    BY <1>1, <1>3, <2>0, <2>3 DEF WasSent
  <2>. QED
    BY <1>2, <2>1, <2>2, <2>3
<1>. QED
  BY <1>4, <1>5

-----------------------------------------------------------------------------
\* A flush that is queued carries nothing yet.
FlushesEmpty ==
  \A i \in DOMAIN tasks : tasks[i].kind = "flush" => tasks[i].snapshot = <<>>

LEMMA FlushesStayEmpty == TypeOK /\ FlushesEmpty /\ [Next]_vars => FlushesEmpty'
<1>. SUFFICES ASSUME TypeOK, FlushesEmpty, [Next]_vars PROVE FlushesEmpty'
  OBVIOUS
<1>1. ASSUME NEW t \in TaskType, tasks' = Append(tasks, t),
             t.kind = "flush" => t.snapshot = <<>>
      PROVE  FlushesEmpty'
  <2>1. /\ DOMAIN tasks' = 1..Len(tasks) + 1
        /\ DOMAIN tasks = 1..Len(tasks)
        /\ Len(tasks) \in Nat
        /\ \A i \in 1..Len(tasks) : tasks'[i] = tasks[i]
        /\ tasks'[Len(tasks) + 1] = t
    BY <1>1, ElementsOfAppend DEF TypeOK
  <2>2. \A i \in DOMAIN tasks' : i \in DOMAIN tasks \/ i = Len(tasks) + 1
    BY <2>1
  <2>. QED
    BY <1>1, <2>1, <2>2 DEF FlushesEmpty
<1>2. ASSUME tasks # <<>>, tasks' = Tail(tasks) PROVE FlushesEmpty'
  <2>1. \A i \in DOMAIN tasks' : i + 1 \in DOMAIN tasks /\ tasks'[i] = tasks[i + 1]
    BY <1>2, ElementsOfTail DEF TypeOK
  <2>. QED
    BY <2>1 DEF FlushesEmpty
<1>3. ASSUME UNCHANGED tasks PROVE FlushesEmpty'
  BY <1>3 DEF FlushesEmpty
<1>4. ASSUME NEW s \in Submits, SubmitFull(s) PROVE FlushesEmpty'
  <2>. DEFINE t == Send(Append(chunks, s), Append(entries, s))
  <2>1. t \in TaskType
    <3>1. Append(chunks, s) \in Seq(Submits) /\ Append(entries, s) \in Seq(Submits)
      BY ElementsOfAppend DEF TypeOK
    <3>. QED
      BY <3>1, TaskTyped
  <2>2. t.kind # "flush"
    BY DEF Send
  <2>. QED
    BY <1>1, <1>4, <2>1, <2>2 DEF SubmitFull
<1>5. CASE FlushNow \/ TimerFires
  <2>1. tasks' = Append(tasks, Flush) /\ Flush.snapshot = <<>>
    BY <1>5 DEF FlushNow, TimerFires, Flush
  <2>. QED
    BY <1>1, <2>1, ConstantTasksTyped
<1>6. CASE StartSend \/ StartFlush
  BY <1>2, <1>6 DEF StartSend, StartFlush
<1>7. CASE \/ \E s \in Submits : SubmitRefused(s) \/ SubmitKept(s)
           \/ Close
           \/ SendFails
           \/ \E reply \in Replies(sending.batch) : SendReplies(reply)
           \/ UNCHANGED vars
  BY <1>3, <1>7 DEF SubmitRefused, SubmitKept, Close, SendFails, SendReplies, vars
<1>. QED
  BY <1>4, <1>5, <1>6, <1>7 DEF Next

-----------------------------------------------------------------------------
\* Every step preserves the invariant.  Kept, Underway and Queued are described
\* before and after each action; the rest is a case on the submission.
LEMMA StepKeepsInv == IInv /\ FlushesEmpty /\ [Next]_vars => IInv'
<1>. SUFFICES ASSUME IInv, FlushesEmpty, [Next]_vars PROVE IInv'
  OBVIOUS
<1>. USE DEF IInv
<1>t. TypeOK'
  BY StepIsTyped
<1>e. ToSet(<<>>) = {}
  BY ElementsOfEmpty
<1>k. ToSet(entries) = ToSet(chunks)
  BY DEF ListsAgree
<1>o. outcome \in [Submits -> Outcomes]
  BY DEF TypeOK
<1>1. ASSUME NEW s \in Submits, SubmitRefused(s) PROVE IInv'
  <2>1. /\ UNCHANGED <<entries, chunks, sending, tasks, sent>>
        /\ \A r \in Submits : outcome'[r] = IF r = s THEN "rejected" ELSE outcome[r]
        /\ outcome[s] = "new"
    BY <1>1, <1>o DEF SubmitRefused
  <2>2. Held' /\ TasksApart' /\ Fresh'
    BY <2>1 DEF Held, TasksApart, Fresh, Kept, Underway, Queued, WasSent
  <2>. QED
    BY <1>t, <2>1, <2>2 DEF ListsAgree, SentOnce
<1>2. ASSUME NEW s \in Submits, SubmitFull(s) PROVE IInv'
  <2>. DEFINE t == Send(Append(chunks, s), Append(entries, s))
  <2>1. /\ outcome[s] = "new"
        /\ \A r \in Submits : outcome'[r] = IF r = s THEN "waiting" ELSE outcome[r]
        /\ tasks' = Append(tasks, t)
        /\ entries' = <<>> /\ chunks' = <<>>
        /\ UNCHANGED <<sending, sent>>
    BY <1>2, <1>o DEF SubmitFull, TakeChunks
  <2>2. /\ t \in TaskType
        /\ t.batch = t.snapshot
        /\ ToSet(t.snapshot) = Kept \cup {s}
    <3>1. Append(chunks, s) \in Seq(Submits) /\ Append(entries, s) \in Seq(Submits)
      BY ElementsOfAppend DEF TypeOK
    <3>2. t \in TaskType
      BY <3>1, TaskTyped
    <3>3. t.batch = Append(chunks, s) /\ t.snapshot = Append(entries, s)
      BY DEF Send
    <3>4. ToSet(Append(entries, s)) = Kept \cup {s}
      BY ElementsOfAppend DEF TypeOK, Kept
    <3>. QED
      BY <3>2, <3>3, <3>4 DEF ListsAgree
  <2>3. s \notin Kept /\ s \notin Underway /\ ~Queued(s) /\ ~WasSent(s)
    BY <2>1 DEF Held, Fresh
  <2>. HIDE DEF t
  <2>4. /\ \A r : Queued(r)' <=> Queued(r) \/ r \in Kept \cup {s}
        /\ TasksApart'
        /\ \A i \in DOMAIN tasks' : tasks'[i].batch = tasks'[i].snapshot
    <3>1. \A r \in Submits : r \in ToSet(t.snapshot) => ~Queued(r)
      BY <2>2, <2>3 DEF Held
    <3>. QED
      BY <2>1, <2>2, <3>1, TaskAdded
  <2>5. Kept' = {} /\ Underway' = Underway
    BY <1>e, <2>1 DEF Kept, Underway
  <2>6. \A r : WasSent(r)' <=> WasSent(r)
    BY <2>1 DEF WasSent
  <2>7. Held'
    BY <2>1, <2>3, <2>4, <2>5 DEF Held
  <2>8. Fresh'
    BY <2>1, <2>3, <2>4, <2>5, <2>6 DEF Fresh
  <2>. QED
    BY <1>t, <2>1, <2>4, <2>7, <2>8 DEF ListsAgree, SentOnce
<1>3. ASSUME NEW s \in Submits, SubmitKept(s) PROVE IInv'
  <2>1. /\ outcome[s] = "new"
        /\ \A r \in Submits : outcome'[r] = IF r = s THEN "waiting" ELSE outcome[r]
        /\ entries' = Append(entries, s) /\ chunks' = Append(chunks, s)
        /\ UNCHANGED <<sending, sent, tasks>>
    BY <1>3, <1>o DEF SubmitKept
  <2>2. Kept' = Kept \cup {s} /\ Underway' = Underway
    BY <2>1, ElementsOfAppend DEF TypeOK, Kept, Underway
  <2>3. \A r : (Queued(r)' <=> Queued(r)) /\ (WasSent(r)' <=> WasSent(r))
    BY <2>1 DEF Queued, WasSent
  <2>4. s \notin Kept /\ s \notin Underway /\ ~Queued(s) /\ ~WasSent(s)
    BY <2>1 DEF Held, Fresh
  <2>5. Held'
    BY <2>1, <2>2, <2>3, <2>4 DEF Held
  <2>6. Fresh'
    BY <2>1, <2>2, <2>3, <2>4 DEF Fresh
  <2>. QED
    BY <1>t, <2>1, <2>5, <2>6 DEF ListsAgree, SentOnce, TasksApart
<1>4. CASE FlushNow \/ TimerFires
  <2>1. /\ tasks' = Append(tasks, Flush)
        /\ UNCHANGED <<entries, chunks, sending, sent, outcome>>
    BY <1>4 DEF FlushNow, TimerFires
  <2>2. Flush.batch = Flush.snapshot /\ ToSet(Flush.snapshot) = {}
    BY <1>e DEF Flush
  <2>3. /\ \A r : Queued(r)' <=> Queued(r)
        /\ TasksApart'
        /\ \A i \in DOMAIN tasks' : tasks'[i].batch = tasks'[i].snapshot
    BY <2>1, <2>2, TaskAdded, ConstantTasksTyped
  <2>4. /\ Kept' = Kept /\ Underway' = Underway
        /\ \A r : WasSent(r)' <=> WasSent(r)
    BY <2>1 DEF Kept, Underway, WasSent
  <2>5. Held' /\ Fresh'
    BY <2>1, <2>3, <2>4 DEF Held, Fresh
  <2>. QED
    BY <1>t, <2>1, <2>3, <2>5 DEF ListsAgree, SentOnce
<1>5. CASE Close
  <2>1. /\ \A r \in Submits :
             outcome'[r] = IF r \in Kept THEN "rejected" ELSE outcome[r]
        /\ entries' = <<>> /\ chunks' = <<>>
        /\ UNCHANGED <<sending, sent, tasks>>
    BY <1>5, <1>o DEF Close, RejectAll, TakeChunks, Kept
  <2>2. /\ Kept' = {} /\ Underway' = Underway
        /\ \A r : (Queued(r)' <=> Queued(r)) /\ (WasSent(r)' <=> WasSent(r))
    BY <1>e, <2>1 DEF Kept, Underway, Queued, WasSent
  <2>3. Held' /\ Fresh'
    BY <2>1, <2>2 DEF Held, Fresh
  <2>. QED
    BY <1>t, <2>1, <2>3 DEF ListsAgree, SentOnce, TasksApart
<1>6. CASE StartSend
  <2>1. /\ sending = Idle /\ tasks # <<>>
        /\ sending' = Head(tasks) /\ tasks' = Tail(tasks)
        /\ sent' = Append(sent, Head(tasks).batch)
        /\ UNCHANGED <<entries, chunks, outcome>>
    BY <1>6 DEF StartSend
  <2>2. /\ Head(tasks) \in TaskType
        /\ \A r : Queued(r) <=> r \in Underway' \/ Queued(r)'
        /\ TasksApart'
        /\ \A r \in Submits : r \in Underway' => ~Queued(r)'
        /\ Head(tasks).batch = Head(tasks).snapshot
        /\ \A i \in DOMAIN tasks' : tasks'[i].batch = tasks'[i].snapshot
    BY <2>1, TaskTaken DEF Underway
  <2>3. Underway = {} /\ Kept' = Kept
    BY <1>e, <2>1 DEF Idle, Underway, Kept
  <2>4. Head(tasks).batch \in Seq(Submits) /\ ToSet(Head(tasks).batch) = Underway'
    BY <2>1, <2>2 DEF TaskType, Underway
  <2>5. /\ \A r : WasSent(r)' <=> WasSent(r) \/ r \in Underway'
        /\ SentOnce'
    <3>1. \A r \in Submits : r \in Underway' => ~WasSent(r)
      BY <2>2 DEF Fresh
    <3>. QED
      BY <2>1, <2>4, <3>1, BatchSent
  <2>6. Held'
    BY <2>1, <2>2, <2>3 DEF Held
  <2>7. Fresh'
    BY <2>1, <2>2, <2>3, <2>5 DEF Fresh, Held
  <2>. QED
    BY <1>t, <2>1, <2>2, <2>5, <2>6, <2>7 DEF ListsAgree
<1>7. CASE StartFlush
  <2>1. /\ sending = Idle /\ tasks # <<>> /\ Head(tasks).kind = "flush"
        /\ tasks' = Tail(tasks) /\ chunks' = <<>>
        /\ UNCHANGED outcome
    BY <1>7 DEF StartFlush, TakeChunks
  <2>2. /\ \A r : Queued(r)' => Queued(r)
        /\ \A r : Queued(r) <=> r \in ToSet(Head(tasks).snapshot) \/ Queued(r)'
        /\ TasksApart'
        /\ \A i \in DOMAIN tasks' : tasks'[i].batch = tasks'[i].snapshot
    BY <2>1, TaskTaken
  <2>3. Underway = {}
    BY <1>e, <2>1 DEF Idle, Underway
  <2>f. ToSet(Head(tasks).snapshot) = {}
    <3>1. 1 \in DOMAIN tasks /\ Head(tasks) = tasks[1]
      BY <2>1, ElementsOfTail DEF TypeOK
    <3>. QED
      BY <1>e, <2>1, <3>1 DEF FlushesEmpty
  <2>4. CASE (chunks = <<>> \/ entries = <<>>) /\ UNCHANGED <<entries, sending, sent>>
    <3>1. entries = <<>> /\ Kept = {} /\ Kept' = {} /\ Underway' = {}
      BY <1>e, <2>3, <2>4 DEF Kept, Underway, ListsAgree
    <3>2. \A r : (Queued(r)' <=> Queued(r)) /\ (WasSent(r)' <=> WasSent(r))
      BY <2>2, <2>f, <2>4 DEF WasSent
    <3>3. Held' /\ Fresh'
      BY <2>1, <2>3, <3>1, <3>2 DEF Held, Fresh
    <3>. QED
      BY <1>t, <2>1, <2>2, <2>4, <3>1, <3>3 DEF ListsAgree, SentOnce
  <2>5. CASE /\ entries' = <<>> /\ sending' = Send(chunks, entries)
             /\ sent' = Append(sent, chunks)
    <3>1. Kept' = {}
      BY <1>e, <2>5 DEF Kept
    <3>2. sending'.snapshot = entries /\ sending'.batch = chunks
      BY <2>5 DEF Send
    <3>3. Underway' = Kept
      BY <3>2 DEF Kept, Underway
    <3>4. \A r : Queued(r)' <=> Queued(r)
      BY <2>2, <2>f
    <3>5. /\ \A r : WasSent(r)' <=> WasSent(r) \/ r \in Kept
          /\ SentOnce'
      <4>1. chunks \in Seq(Submits) /\ ToSet(chunks) = Kept
        BY <1>k DEF TypeOK, Kept
      <4>2. \A r \in Submits : r \in Kept => ~WasSent(r)
        BY DEF Fresh
      <4>. QED
        BY <2>5, <4>1, <4>2, BatchSent
    <3>6. Held'
      BY <2>1, <2>3, <3>1, <3>3, <3>4 DEF Held
    <3>7. Fresh'
      BY <2>1, <3>1, <3>4, <3>5 DEF Fresh, Held
    <3>. QED
      BY <1>t, <2>1, <2>2, <2>5, <3>2, <3>5, <3>6, <3>7 DEF ListsAgree
  <2>. QED
    BY <1>7, <2>4, <2>5 DEF StartFlush
<1>8. CASE SendFails
  <2>1. /\ \A r \in Submits :
             outcome'[r] = IF r \in Underway THEN "rejected" ELSE outcome[r]
        /\ sending' = Idle
        /\ UNCHANGED <<entries, chunks, sent, tasks>>
    BY <1>8, <1>o DEF SendFails, RejectAll, Underway
  <2>2. /\ Kept' = Kept /\ Underway' = {} /\ Idle.batch = Idle.snapshot
        /\ \A r : (Queued(r)' <=> Queued(r)) /\ (WasSent(r)' <=> WasSent(r))
    BY <1>e, <2>1 DEF Kept, Underway, Queued, WasSent, Idle
  <2>3. Held' /\ Fresh'
    BY <2>1, <2>2 DEF Held, Fresh
  <2>. QED
    BY <1>t, <2>1, <2>2, <2>3 DEF ListsAgree, SentOnce, TasksApart
<1>9. ASSUME NEW reply \in Replies(sending.batch), SendReplies(reply)
      PROVE  IInv'
  <2>1. /\ \A r \in Submits :
             outcome'[r] = IF r \in Answered(reply) THEN "resolved"
                           ELSE IF r \in Underway THEN "rejected" ELSE outcome[r]
        /\ sending' = Idle
        /\ UNCHANGED <<entries, chunks, sent, tasks>>
    BY <1>9, <1>o DEF SendReplies, Answered, Underway
  <2>2. /\ Kept' = Kept /\ Underway' = {} /\ Idle.batch = Idle.snapshot
        /\ \A r : (Queued(r)' <=> Queued(r)) /\ (WasSent(r)' <=> WasSent(r))
    BY <1>e, <2>1 DEF Kept, Underway, Queued, WasSent, Idle
  <2>3. \A r \in Submits : r \in Answered(reply) => r \in Underway
    BY DEF Answered, Underway
  <2>4. Held' /\ Fresh'
    BY <2>1, <2>2, <2>3 DEF Held, Fresh
  <2>. QED
    BY <1>t, <2>1, <2>2, <2>4 DEF ListsAgree, SentOnce, TasksApart
<1>10. CASE UNCHANGED vars
  BY <1>t, <1>10 DEF vars, ListsAgree, Held, TasksApart, Fresh, SentOnce, Kept,
                     Underway, Queued, WasSent
<1>. QED
  BY <1>1, <1>2, <1>3, <1>4, <1>5, <1>6, <1>7, <1>8, <1>9, <1>10 DEF Next

\* Both invariants hold in the first state.
LEMMA InitHolds == Init => IInv /\ FlushesEmpty
<1>. SUFFICES ASSUME Init PROVE IInv /\ FlushesEmpty
  OBVIOUS
<1>1. /\ entries = <<>> /\ chunks = <<>> /\ tasks = <<>> /\ sent = <<>>
      /\ sending = Idle
      /\ \A s \in Submits : outcome[s] = "new"
  BY DEF Init
<1>2. TypeOK
  BY InitIsTyped
<1>3. DOMAIN tasks = {} /\ DOMAIN sent = {}
  BY <1>1
<1>4. Kept = {} /\ Underway = {} /\ Idle.batch = Idle.snapshot
  BY <1>1, ElementsOfEmpty DEF Kept, Underway, Idle
<1>5. Held /\ TasksApart /\ Fresh
  BY <1>1, <1>3, <1>4 DEF Held, TasksApart, Fresh, Queued, WasSent
<1>. QED
  BY <1>1, <1>2, <1>3, <1>4, <1>5 DEF IInv, ListsAgree, SentOnce, FlushesEmpty

LEMMA InvHolds == Spec => [](IInv /\ FlushesEmpty)
<1>1. IInv => TypeOK
  BY DEF IInv
<1>2. IInv /\ FlushesEmpty /\ [Next]_vars => IInv' /\ FlushesEmpty'
  BY <1>1, StepKeepsInv, FlushesStayEmpty
<1>. QED
  BY <1>2, InitHolds, PTL DEF Spec

-----------------------------------------------------------------------------
\* No caller is lost between the lists, and none stays in a list it was settled
\* from (submit(), close() and sendBatch() of batching.ts).
LEMMA NobodyIsLost == IInv => WaitingIsHeld
<1>. SUFFICES ASSUME IInv, NEW s \in Submits
              PROVE  outcome[s] = "waiting" <=>
                       \E list \in Holders : s \in ToSet(list)
  BY DEF WaitingIsHeld
<1>1. outcome[s] = "waiting" <=> s \in Kept \/ s \in Underway \/ Queued(s)
  BY DEF IInv, Held
<1>2. (\E list \in Holders : s \in ToSet(list)) <=>
        s \in Kept \/ s \in Underway \/ Queued(s)
  BY Zenon DEF Holders, Kept, Underway, Queued
<1>. QED
  BY <1>1, <1>2

\* Whatever is pushed, flushed, closed, sent or answered: the i-th promise of every
\* list belongs to its i-th frame, a caller waits exactly as long as its promise is
\* in a list, and no frame is handed to the transport twice (batching.ts).
THEOREM BridgeInvariant == Spec => []Inv
<1>1. IInv => Inv
  BY NobodyIsLost DEF IInv, Inv
<1>. QED
  BY <1>1, InvHolds, PTL

-----------------------------------------------------------------------------
\* The batch under way is one of those that were sent.
UnderwayWasSent == sending # Idle => \E i \in DOMAIN sent : sent[i] = sending.batch

\* More batches may have been sent, and none is forgotten.
LEMMA SentGrows ==
  ASSUME TypeOK, NEW b \in Seq(Submits), sent' = Append(sent, b)
  PROVE  /\ \A i \in DOMAIN sent : i \in DOMAIN sent' /\ sent'[i] = sent[i]
         /\ \E i \in DOMAIN sent' : sent'[i] = b
<1>1. /\ DOMAIN sent' = 1..Len(sent) + 1
      /\ DOMAIN sent = 1..Len(sent)
      /\ Len(sent) \in Nat
      /\ \A i \in 1..Len(sent) : sent'[i] = sent[i]
      /\ sent'[Len(sent) + 1] = b
  BY ElementsOfAppend DEF TypeOK
<1>. QED
  BY <1>1

LEMMA UnderwayStaysSent ==
  ASSUME IInv, UnderwayWasSent, [Next]_vars
  PROVE  /\ UnderwayWasSent'
         /\ \A i \in DOMAIN sent : i \in DOMAIN sent' /\ sent'[i] = sent[i]
<1>1. CASE StartSend
  <2>1. Head(tasks) \in TaskType
    BY <1>1, ElementsOfTail DEF StartSend, IInv, TypeOK
  <2>2. Head(tasks).batch \in Seq(Submits)
    BY <2>1 DEF TaskType
  <2>. QED
    BY <1>1, <2>2, SentGrows DEF StartSend, UnderwayWasSent, IInv
<1>2. CASE StartFlush
  <2>1. chunks \in Seq(Submits)
    BY DEF IInv, TypeOK
  <2>2. CASE UNCHANGED <<sending, sent>>
    BY <2>2 DEF UnderwayWasSent
  <2>3. CASE sending' = Send(chunks, entries) /\ sent' = Append(sent, chunks)
    BY <2>1, <2>3, SentGrows DEF UnderwayWasSent, IInv, Send
  <2>. QED
    BY <1>2, <2>2, <2>3 DEF StartFlush
<1>3. CASE UNCHANGED sent /\ (UNCHANGED sending \/ sending' = Idle)
  BY <1>3 DEF UnderwayWasSent
<1>. QED
  BY <1>1, <1>2, <1>3 DEF Next, vars, SubmitRefused, SubmitFull, SubmitKept, FlushNow,
     TimerFires, Close, SendFails, SendReplies

\* A caller that is resolved hears the reply to a frame of its own batch that has
\* its own sequence number (sendBatch() of batching.ts).
THEOREM RepliesAreOwn == Spec => []OwnReply
<1>1. ASSUME IInv, FlushesEmpty, UnderwayWasSent, OwnReply, [Next]_vars PROVE OwnReply'
  <2>. SUFFICES ASSUME NEW s \in Submits, outcome'[s] = "resolved"
                PROVE  /\ SequenceOf[answer'[s]] = SequenceOf[s]
                       /\ \E i \in DOMAIN sent' : {s, answer'[s]} \subseteq ToSet(sent'[i])
    BY DEF OwnReply
  <2>1. CASE outcome[s] = "resolved" /\ answer'[s] = answer[s]
    BY <1>1, <2>1, UnderwayStaysSent DEF OwnReply
  <2>2. CASE \E reply \in Replies(sending.batch) : SendReplies(reply)
    <3>1. PICK reply \in Replies(sending.batch) : SendReplies(reply)
      BY <2>2
    <3>2. CASE s \in ToSet(sending.snapshot) /\ Matching(reply, s) # {}
      <4>1. answer'[s] = LastMatching(reply, s)
        BY <1>1, <3>1, <3>2 DEF SendReplies, IInv, TypeOK
      <4>2. /\ LastMatching(reply, s) \in ToSet(sending.batch)
            /\ SequenceOf[LastMatching(reply, s)] = SequenceOf[s]
        <5>1. reply \in Seq(Submits) /\ ToSet(reply) \subseteq ToSet(sending.batch)
          BY <1>1, RepliesTyped DEF IInv, TypeOK, TaskType
        <5>. QED
          BY <3>2, <5>1, LastMatchingProperties
      <4>3. PICK i \in DOMAIN sent : sent[i] = sending.batch
        BY <1>1, <3>1 DEF UnderwayWasSent, SendReplies
      <4>. QED
        BY <1>1, <3>2, <4>1, <4>2, <4>3, UnderwayStaysSent DEF IInv, ListsAgree
    <3>3. CASE ~(s \in ToSet(sending.snapshot) /\ Matching(reply, s) # {})
      BY <1>1, <2>1, <3>1, <3>3 DEF SendReplies, IInv, TypeOK
    <3>. QED
      BY <3>2, <3>3
  <2>3. CASE ~\E reply \in Replies(sending.batch) : SendReplies(reply)
    BY <1>1, <2>1, <2>3 DEF IInv, TypeOK, Next, vars, SubmitRefused, SubmitFull, SubmitKept,
       FlushNow, TimerFires, Close, StartSend, StartFlush, SendFails, RejectAll
  <2>. QED
    BY <2>2, <2>3
<1>2. Init => UnderwayWasSent /\ OwnReply
  BY DEF Init, UnderwayWasSent, OwnReply
<1>3. IInv /\ FlushesEmpty /\ UnderwayWasSent /\ OwnReply /\ [Next]_vars
        => UnderwayWasSent' /\ OwnReply'
  BY <1>1, UnderwayStaysSent
<1>. QED
  BY <1>2, <1>3, InvHolds, PTL DEF Spec

\* No promise is settled a second time, by a reply, a failure or close().
THEOREM SettledAtMostOnce == Spec => SettledOnce
<1>1. ASSUME IInv, [Next]_vars, NEW s \in Submits,
             outcome[s] \in {"resolved", "rejected"}
      PROVE  UNCHANGED <<outcome[s], answer[s]>>
  <2>1. /\ outcome[s] # "new" /\ outcome[s] # "waiting"
        /\ s \notin ToSet(entries) /\ s \notin ToSet(sending.snapshot)
    BY <1>1 DEF IInv, Held, Kept, Underway
  <2>. QED
    BY <1>1, <2>1
       DEF IInv, TypeOK, Next, vars, SubmitRefused, SubmitFull, SubmitKept,
           FlushNow, TimerFires, Close, StartSend, StartFlush, SendFails,
           SendReplies, RejectAll
<1>2. IInv /\ [Next]_vars =>
        [\A s \in Submits : outcome[s] \in {"resolved", "rejected"} =>
           UNCHANGED <<outcome[s], answer[s]>>]_vars
  BY <1>1
<1>. QED
  BY <1>2, InvHolds, PTL DEF Spec, SettledOnce

\* What was rejected before it was sent is never sent: close() empties both lists
\* and a queued flush that starts later finds nothing of them.
THEOREM RejectedNeverSent == Spec => RejectedIsNotSent
<1>1. ASSUME IInv, FlushesEmpty, [Next]_vars, NEW s \in Submits,
             outcome[s] = "rejected", ~WasSent(s), WasSent(s)'
      PROVE  FALSE
  <2>1. s \notin ToSet(chunks) /\ ~Queued(s)
    BY <1>1 DEF IInv, Held, Kept, ListsAgree
  <2>2. ASSUME NEW b \in Seq(Submits), sent' = Append(sent, b), s \notin ToSet(b)
        PROVE  FALSE
    <3>1. /\ DOMAIN sent' = 1..Len(sent) + 1
          /\ DOMAIN sent = 1..Len(sent)
          /\ Len(sent) \in Nat
          /\ \A i \in 1..Len(sent) : sent'[i] = sent[i]
          /\ sent'[Len(sent) + 1] = b
      BY <2>2, ElementsOfAppend DEF IInv, TypeOK
    <3>2. PICK i \in DOMAIN sent' : s \in ToSet(sent'[i])
      BY <1>1 DEF WasSent, ToSet
    <3>3. i \in 1..Len(sent) \/ i = Len(sent) + 1
      BY <3>1
    <3>. QED
      BY <1>1, <2>2, <3>1, <3>2, <3>3 DEF WasSent
  <2>3. CASE StartSend
    <3>1. Head(tasks) \in TaskType /\ Head(tasks) = tasks[1] /\ 1 \in DOMAIN tasks
      BY <1>1, <2>3, ElementsOfTail DEF StartSend, IInv, TypeOK
    <3>2. Head(tasks).batch \in Seq(Submits) /\ s \notin ToSet(Head(tasks).batch)
      BY <1>1, <2>1, <3>1 DEF TaskType, Queued, IInv, ListsAgree
    <3>. QED
      BY <2>2, <2>3, <3>2 DEF StartSend
  <2>4. CASE StartFlush
    <3>1. chunks \in Seq(Submits)
      BY <1>1 DEF IInv, TypeOK
    <3>2. sent' = sent \/ sent' = Append(sent, chunks)
      BY <2>4 DEF StartFlush
    <3>. QED
      BY <1>1, <2>1, <2>2, <3>1, <3>2 DEF WasSent
  <2>5. CASE UNCHANGED sent
    BY <1>1, <2>5 DEF WasSent
  <2>. QED
    BY <1>1, <2>3, <2>4, <2>5
       DEF Next, vars, SubmitRefused, SubmitFull, SubmitKept, FlushNow,
           TimerFires, Close, SendFails, SendReplies
<1>2. IInv /\ FlushesEmpty /\ [Next]_vars =>
        [\A s \in Submits : outcome[s] = "rejected" /\ ~WasSent(s) => ~WasSent(s)']_vars
  BY <1>1
<1>. QED
  BY <1>2, InvHolds, PTL DEF Spec, RejectedIsNotSent
-----------------------------------------------------------------------------
\* The offset of the k-th unread byte.
Place(k) ==
  IF tail + k - 1 < Capacity THEN tail + k - 1 ELSE tail + k - 1 - Capacity

\* The unread bytes, read place by place.
PlacedSpans ==
  /\ Used \in 0..Capacity - 1
  /\ Spans \in Seq(Byte)
  /\ Len(Spans) = Used
  /\ \A k \in 1..Used : Place(k) \in Offsets /\ Spans[k] = data[Place(k)]

-----------------------------------------------------------------------------
\* The remainder of a cursor moved by at most one turn: subtract once, or not.
LEMMA AdvanceWraps ==
  ASSUME NEW c \in Offsets, NEW n \in 0..Capacity
  PROVE  /\ Advance(c, n) = IF c + n < Capacity THEN c + n ELSE c + n - Capacity
         /\ Advance(c, n) \in Offsets
  BY CapacityAssumption DEF Advance, Offsets

\* A span is a sequence of the bytes between its two offsets.
LEMMA SpanProperties ==
  ASSUME NEW a \in 0..Capacity, NEW b \in a..Capacity,
         data \in [Offsets -> Byte]
  PROVE  /\ Span(a, b) \in Seq(Byte)
         /\ Len(Span(a, b)) = b - a
         /\ \A i \in 1..b - a : Span(a, b)[i] = data[a + i - 1]
<1>1. b - a \in Nat
  BY CapacityAssumption
<1>2. \A i \in 1..b - a : data[a + i - 1] \in Byte
  BY CapacityAssumption DEF Offsets
<1>3. Span(a, b) \in Seq(Byte)
  BY <1>1, <1>2, IsASeq DEF Span
<1>4. Len(Span(a, b)) = b - a
  BY <1>1, <1>2 DEF Span
<1>. QED
  BY <1>3, <1>4 DEF Span

\* Where the unread bytes are, in the two cases of readableSpans().
LEMMA SpansArePlaced == RingTypeOK => PlacedSpans
<1>. SUFFICES ASSUME RingTypeOK PROVE PlacedSpans
  OBVIOUS
<1>1. Used \in 0..Capacity - 1
  BY CapacityAssumption DEF RingTypeOK, Offsets, Used
<1>2. CASE Used = 0
  BY <1>1, <1>2, EmptySeq DEF PlacedSpans, Spans
<1>3. CASE Used # 0 /\ head > tail
  <2>1. /\ Span(tail, head) \in Seq(Byte)
        /\ Len(Span(tail, head)) = head - tail
        /\ \A i \in 1..head - tail : Span(tail, head)[i] = data[tail + i - 1]
    <3>1. tail \in 0..Capacity /\ head \in tail..Capacity
      BY <1>3, CapacityAssumption DEF RingTypeOK, Offsets
    <3>2. data \in [Offsets -> Byte]
      BY DEF RingTypeOK
    <3>. QED
      BY ONLY <3>1, <3>2, SpanProperties
  <2>2. Spans = Span(tail, head) /\ Used = head - tail
    BY <1>3, CapacityAssumption DEF Spans, Used, RingTypeOK, Offsets
  <2>. QED
    BY <1>1, <1>3, <2>1, <2>2, CapacityAssumption
       DEF PlacedSpans, Place, RingTypeOK, Offsets
<1>4. CASE Used # 0 /\ ~(head > tail)
  <2>. DEFINE last == Span(tail, Capacity)
              first == Span(0, head)
  <2>1. head < tail
    BY <1>4, CapacityAssumption DEF RingTypeOK, Offsets, Used
  <2>2. /\ last \in Seq(Byte)
        /\ Len(last) = Capacity - tail
        /\ \A i \in 1..Capacity - tail : last[i] = data[tail + i - 1]
    <3>1. tail \in 0..Capacity /\ Capacity \in tail..Capacity
      BY CapacityAssumption DEF RingTypeOK, Offsets
    <3>2. data \in [Offsets -> Byte]
      BY DEF RingTypeOK
    <3>. QED
      BY ONLY <3>1, <3>2, SpanProperties
  <2>3. /\ first \in Seq(Byte)
        /\ Len(first) = head
        /\ \A i \in 1..head : first[i] = data[i - 1]
    <3>1. head \in 0..Capacity /\ 0 \in 0..Capacity
      BY CapacityAssumption DEF RingTypeOK, Offsets
    <3>2. data \in [Offsets -> Byte]
      BY DEF RingTypeOK
    <3>3. /\ first \in Seq(Byte)
          /\ Len(first) = head - 0
          /\ \A i \in 1..head - 0 : first[i] = data[0 + i - 1]
      BY ONLY <3>1, <3>2, SpanProperties
    <3>. QED
      BY <3>1, <3>3
  <2>4. Spans = last \o first /\ Used = Capacity - tail + head
    BY <1>4, <2>1, CapacityAssumption DEF Spans, Used, RingTypeOK, Offsets
  <2>. HIDE DEF last, first
  <2>5. /\ Spans \in Seq(Byte)
        /\ Len(Spans) = Used
        /\ \A k \in 1..Used :
             Spans[k] = IF k <= Capacity - tail THEN last[k]
                        ELSE first[k - (Capacity - tail)]
    <3>1. /\ last \o first \in Seq(Byte)
          /\ Len(last \o first) = Len(last) + Len(first)
          /\ \A k \in 1..Len(last) + Len(first) :
               (last \o first)[k] = IF k <= Len(last) THEN last[k]
                                    ELSE first[k - Len(last)]
      BY <2>2, <2>3, ConcatProperties
    <3>2. Used = Len(last) + Len(first)
      BY <2>2, <2>3, <2>4
    <3>. QED
      BY <2>2, <2>4, <3>1, <3>2
  <2>6. ASSUME NEW k \in 1..Used
        PROVE  Place(k) \in Offsets /\ Spans[k] = data[Place(k)]
    <3>1. CASE k <= Capacity - tail
      BY <2>1, <2>2, <2>4, <2>5, <3>1, CapacityAssumption
         DEF RingTypeOK, Offsets, Place
    <3>2. CASE k > Capacity - tail
      <4>1. /\ k - (Capacity - tail) \in 1..head
            /\ Place(k) = k - (Capacity - tail) - 1
            /\ Place(k) \in Offsets
        BY <1>1, <2>1, <2>4, <3>2, CapacityAssumption
           DEF RingTypeOK, Offsets, Place
      <4>2. Spans[k] = first[k - (Capacity - tail)]
        BY <1>1, <2>5, <3>2, CapacityAssumption DEF RingTypeOK, Offsets
      <4>. QED
        BY <2>3, <4>1, <4>2
    <3>. QED
      BY <1>1, <3>1, <3>2, CapacityAssumption DEF RingTypeOK, Offsets
  <2>. QED
    BY <1>1, <2>5, <2>6 DEF PlacedSpans
<1>. QED
  BY <1>2, <1>3, <1>4

-----------------------------------------------------------------------------
\* What a sliced sequence is.
LEMMA Sliced ==
  ASSUME NEW S, NEW s \in Seq(S), NEW n \in Nat
  PROVE  /\ SubSeq(s, n + 1, Len(s)) \in Seq(S)
         /\ Len(SubSeq(s, n + 1, Len(s))) =
              IF n < Len(s) THEN Len(s) - n ELSE 0
         /\ \A i \in 1..Len(s) - n : SubSeq(s, n + 1, Len(s))[i] = s[n + i]
<1>1. n + 1 \in Int /\ Len(s) \in Int /\ Len(s) >= 0
  BY LenProperties
<1>2. \A i \in n + 1..Len(s) : s[i] \in S
  BY <1>1, ElementOfSeq
<1>3. /\ SubSeq(s, n + 1, Len(s)) \in Seq(S)
      /\ Len(SubSeq(s, n + 1, Len(s))) =
           IF n + 1 <= Len(s) THEN Len(s) - (n + 1) + 1 ELSE 0
      /\ \A i \in 1..Len(s) - (n + 1) + 1 :
           SubSeq(s, n + 1, Len(s))[i] = s[n + 1 + i - 1]
  BY ONLY <1>1, <1>2, SubSeqProperties
<1>4. Len(s) - (n + 1) + 1 = Len(s) - n
  BY <1>1
<1>5. \A i \in 1..Len(s) - n : n + 1 + i - 1 = n + i
  BY <1>1
<1>. QED
  BY <1>1, <1>3, <1>4, <1>5

\* Every step leaves the cursors inside the data area, and the rest typed.
LEMMA RingStepIsTyped == RingTypeOK /\ [RingNext]_ringVars => RingTypeOK'
<1>. SUFFICES ASSUME RingTypeOK, [RingNext]_ringVars PROVE RingTypeOK'
  OBVIOUS
<1>1. PlacedSpans
  BY SpansArePlaced
<1>2. <<>> \in Seq(Byte)
  BY EmptySeq
<1>. DEFINE Answers == [ok : BOOLEAN, bytes : Seq(Byte)]
            Requests == [frame : Seq(Byte), n : 0..Capacity]
<1>a. \A ok \in BOOLEAN : [ok |-> ok, bytes |-> <<>>] \in Answers
  BY <1>2
<1>b. /\ \A f \in Seq(Byte) : [frame |-> f, n |-> 0] \in Requests
      /\ \A n \in 0..Capacity : [frame |-> <<>>, n |-> n] \in Requests
  BY <1>2, CapacityAssumption
<1>c. [frame |-> <<>>, n |-> 0] \in Requests
  BY <1>b, CapacityAssumption
<1>. USE DEF Returns, Given
<1>3. ASSUME NEW f \in Frames, Write(f) PROVE RingTypeOK'
  <2>1. f \in Seq(Byte) /\ Len(f) \in Nat /\ \A i \in 1..Len(f) : f[i] \in Byte
    BY FramesAssumption, LenProperties, ElementOfSeq
  <2>2. returned' \in Answers /\ asked' \in Requests /\ UNCHANGED <<tail, view>>
    BY <1>3, <1>a, <1>b, <2>1 DEF Write
  <2>3. CASE UNCHANGED <<data, head>>
    BY <2>2, <2>3 DEF RingTypeOK
  <2>4. CASE Len(f) <= Free /\ Store(f) /\ head' = Advance(head, Len(f))
    <3>1. Len(f) \in 0..Capacity
      <4>1. Used \in 0..Capacity - 1
        BY <1>1 DEF PlacedSpans
      <4>. QED
        BY <2>1, <2>4, <4>1, CapacityAssumption DEF Free
    <3>2. head' \in Offsets
      BY <2>4, <3>1, AdvanceWraps DEF RingTypeOK
    <3>3. data' \in [Offsets -> Byte]
      BY <2>1, <2>4, CapacityAssumption DEF RingTypeOK, Store, Offsets
    <3>. QED
      BY <2>2, <3>2, <3>3 DEF RingTypeOK
  <2>. QED
    BY <1>3, <2>3, <2>4 DEF Write
<1>4. CASE ReadableSpans
  BY <1>1, <1>4, <1>c DEF RingTypeOK, ReadableSpans, PlacedSpans
<1>5. ASSUME NEW n \in 0..Capacity, Consume(n) PROVE RingTypeOK'
  <2>1. SubSeq(view, n + 1, Len(view)) \in Seq(Byte)
    BY Sliced DEF RingTypeOK
  <2>2. Advance(tail, n) \in Offsets
    BY AdvanceWraps DEF RingTypeOK
  <2>3. returned' \in Answers /\ asked' \in Requests /\ UNCHANGED <<data, head>>
    BY <1>5, <1>a, <1>b DEF Consume
  <2>4. tail' \in Offsets /\ view' \in Seq(Byte)
    BY <1>5, <2>1, <2>2 DEF Consume, RingTypeOK
  <2>. QED
    BY <2>3, <2>4 DEF RingTypeOK
<1>6. CASE DrainCompacted
  BY <1>1, <1>2, <1>6, <1>c DEF RingTypeOK, DrainCompacted, PlacedSpans
<1>7. CASE Clear
  BY <1>2, <1>7, <1>c DEF RingTypeOK, Clear
<1>8. CASE Attach
  BY <1>2, <1>8, <1>c, CapacityAssumption DEF RingTypeOK, Attach, Offsets
<1>9. CASE Reopen
  BY <1>1, <1>2, <1>9, <1>c DEF RingTypeOK, Reopen, PlacedSpans
<1>10. CASE UNCHANGED ringVars
  BY <1>10 DEF RingTypeOK, ringVars
<1>. QED
  BY <1>3, <1>4, <1>5, <1>6, <1>7, <1>8, <1>9, <1>10 DEF RingNext

\* Every state of the ring is typed; its cursors are always inside the data
\* area, so reopen() never refuses the header a ring left behind.
THEOREM RingTypeCorrect == RingSpec => []RingTypeOK
<1>1. RingInit => RingTypeOK
  BY CapacityAssumption, EmptySeq DEF RingInit, RingTypeOK, Offsets
<1>. QED
  BY <1>1, RingStepIsTyped, PTL DEF RingSpec

-----------------------------------------------------------------------------
\* The byte at each offset after the two copies of write().
LEMMA StoreWrites ==
  ASSUME RingTypeOK, NEW f \in Seq(Byte), Len(f) <= Capacity, Store(f),
         NEW p \in Offsets
  PROVE  data'[p] = IF p >= head /\ p < head + Len(f) THEN f[p - head + 1]
                    ELSE IF p < head + Len(f) - Capacity
                    THEN f[Capacity - head + p + 1]
                    ELSE data[p]
<1>1. Len(f) \in Nat
  BY LenProperties
<1>2. CASE Len(f) <= Capacity - head
  BY <1>1, <1>2, CapacityAssumption DEF RingTypeOK, Offsets, Store
<1>3. CASE Len(f) > Capacity - head
  BY <1>1, <1>3, CapacityAssumption DEF RingTypeOK, Offsets, Store
<1>. QED
  BY <1>1, <1>2, <1>3, CapacityAssumption DEF RingTypeOK, Offsets

\* A write that succeeds appends the frame, wrapped or not, and disturbs no
\* unread byte.
LEMMA WriteAppends ==
  ASSUME RingTypeOK, RingTypeOK', NEW f \in Seq(Byte),
         Len(f) <= Free, Store(f), head' = Advance(head, Len(f)), tail' = tail
  PROVE  Spans' = Spans \o f
<1>0. /\ head \in 0..Capacity - 1
      /\ tail \in 0..Capacity - 1
      /\ Capacity \in Nat \ {0}
  BY CapacityAssumption DEF RingTypeOK, Offsets
<1>1. PlacedSpans /\ PlacedSpans'
  BY SpansArePlaced, PTL
<1>2. Len(f) \in 0..Capacity - 1 - Used
  BY <1>1, LenProperties DEF Free, PlacedSpans
<1>3. Len(f) \in 0..Capacity
  BY <1>1, <1>2, <1>0 DEF PlacedSpans
<1>4. head' = IF head + Len(f) < Capacity THEN head + Len(f)
              ELSE head + Len(f) - Capacity
  BY <1>3, AdvanceWraps DEF RingTypeOK
<1>5. Used' = Used + Len(f)
  <2>1. /\ Used \in 0..Capacity - 1
        /\ Len(f) \in Nat
        /\ Used + Len(f) <= Capacity - 1
    BY <1>1, <1>2, <1>0 DEF PlacedSpans
  <2>2. CASE head + Len(f) < Capacity
    BY <1>4, <2>1, <2>2, <1>0 DEF Used
  <2>3. CASE head + Len(f) >= Capacity
    BY <1>4, <2>1, <2>3, <1>0 DEF Used
  <2>. QED
    BY <2>1, <2>2, <2>3, <1>0
<1>6. /\ Spans \o f \in Seq(Byte)
      /\ Len(Spans \o f) = Used + Len(f)
      /\ \A i \in 1..Used + Len(f) :
           (Spans \o f)[i] = IF i <= Used THEN Spans[i] ELSE f[i - Used]
  <2>1. /\ Spans \o f \in Seq(Byte)
        /\ Len(Spans \o f) = Len(Spans) + Len(f)
        /\ \A i \in 1..Len(Spans) + Len(f) :
             (Spans \o f)[i] = IF i <= Len(Spans) THEN Spans[i]
                               ELSE f[i - Len(Spans)]
    BY <1>1, ConcatProperties DEF PlacedSpans
  <2>. QED
    BY <1>1, <2>1 DEF PlacedSpans
<1>7. ASSUME NEW i \in 1..Used + Len(f)
      PROVE  Spans'[i] = (Spans \o f)[i]
  <2>1. Spans'[i] = data'[Place(i)] /\ Place(i) \in Offsets
    <3>1. Place(i)' = Place(i)
      BY DEF Place
    <3>. QED
      BY <1>1, <1>5, <3>1 DEF PlacedSpans, Offsets
  <2>2. /\ Used \in 0..Capacity - 1
        /\ Len(f) \in 0..Capacity - 1 - Used
        /\ i \in Nat \ {0}
        /\ i <= Used + Len(f)
    BY <1>1, <1>2, <1>0 DEF PlacedSpans
  <2>3. data'[Place(i)] =
          IF Place(i) >= head /\ Place(i) < head + Len(f)
          THEN f[Place(i) - head + 1]
          ELSE IF Place(i) < head + Len(f) - Capacity
          THEN f[Capacity - head + Place(i) + 1]
          ELSE data[Place(i)]
    <3>1. Len(f) <= Capacity /\ Place(i) \in Offsets
      BY <2>1, <2>2, <1>0
    <3>. QED
      BY ONLY <3>1, RingTypeOK, Store(f), f \in Seq(Byte), StoreWrites
  <2>4. CASE i <= Used
    <3>1. ~(Place(i) >= head /\ Place(i) < head + Len(f))
      BY <2>2, <2>4, <1>0 DEF Place, Used
    <3>2. ~(Place(i) < head + Len(f) - Capacity)
      BY <2>2, <2>4, <1>0 DEF Place, Used
    <3>3. Spans[i] = data[Place(i)]
      BY <1>1, <2>4 DEF PlacedSpans
    <3>. QED
      BY <1>6, <2>1, <2>3, <2>4, <3>1, <3>2, <3>3
  <2>5. CASE i > Used
    <3>1. CASE head + i - Used - 1 < Capacity
      <4>1. Place(i) = head + i - Used - 1
        BY <2>2, <2>5, <3>1, <1>0 DEF Place, Used
      <4>2. Place(i) >= head /\ Place(i) < head + Len(f)
        BY <2>2, <2>5, <4>1, <1>0
      <4>3. Place(i) - head + 1 = i - Used
        BY <2>2, <2>5, <4>1, <1>0
      <4>. QED
        BY <1>6, <2>1, <2>2, <2>3, <2>5, <4>2, <4>3
    <3>2. CASE head + i - Used - 1 >= Capacity
      <4>1. Place(i) = head + i - Used - 1 - Capacity
        BY <2>2, <2>5, <3>2, <1>0 DEF Place, Used
      <4>2. /\ Place(i) < head + Len(f) - Capacity
            /\ Place(i) < head
        BY <2>2, <2>5, <4>1, <1>0
      <4>3. Capacity - head + Place(i) + 1 = i - Used
        BY <2>2, <2>5, <4>1, <1>0
      <4>4. data'[Place(i)] = f[Capacity - head + Place(i) + 1]
        <5>1. ~(Place(i) >= head)
          BY <1>0, <2>1, <4>2 DEF Offsets
        <5>. QED
          BY <2>3, <4>2, <5>1
      <4>. QED
        BY <1>6, <2>1, <2>2, <2>5, <4>3, <4>4
    <3>3. head \in Int /\ Used \in Int /\ i \in Int /\ Capacity \in Int
      BY <2>2, <1>0
    <3>4. head + i - Used - 1 < Capacity \/ head + i - Used - 1 >= Capacity
      BY ONLY <3>3
    <3>. QED
      BY <3>1, <3>2, <3>4
  <2>6. i <= Used \/ i > Used
    BY <2>2, <1>0
  <2>. QED
    BY <2>4, <2>5, <2>6
<1>. QED
  BY <1>1, <1>5, <1>6, <1>7, SeqEqual DEF PlacedSpans

\* A consumption that succeeds drops exactly the oldest n bytes.
LEMMA ConsumeDrops ==
  ASSUME RingTypeOK, RingTypeOK', NEW n \in 0..Capacity,
         n <= Used, tail' = Advance(tail, n), data' = data, head' = head
  PROVE  Spans' = SubSeq(Spans, n + 1, Len(Spans))
<1>0. /\ head \in 0..Capacity - 1
      /\ tail \in 0..Capacity - 1
      /\ Capacity \in Nat \ {0}
  BY CapacityAssumption DEF RingTypeOK, Offsets
<1>1. PlacedSpans /\ PlacedSpans'
  BY SpansArePlaced, PTL
<1>2. tail' = IF tail + n < Capacity THEN tail + n ELSE tail + n - Capacity
  BY AdvanceWraps DEF RingTypeOK
<1>3. Used' = Used - n
  <2>1. Used \in 0..Capacity - 1 /\ n <= Used
    BY <1>1 DEF PlacedSpans
  <2>2. CASE tail + n < Capacity
    BY <1>2, <2>1, <2>2, <1>0 DEF Used
  <2>3. CASE tail + n >= Capacity
    BY <1>2, <2>1, <2>3, <1>0 DEF Used
  <2>. QED
    BY <2>2, <2>3, <1>0
<1>4. /\ SubSeq(Spans, n + 1, Len(Spans)) \in Seq(Byte)
      /\ Len(SubSeq(Spans, n + 1, Len(Spans))) = Used - n
      /\ \A i \in 1..Used - n :
           SubSeq(Spans, n + 1, Len(Spans))[i] = Spans[n + i]
  <2>1. Spans \in Seq(Byte) /\ n \in Nat /\ Len(Spans) = Used /\ Used \in Nat
    BY <1>1 DEF PlacedSpans
  <2>2. /\ SubSeq(Spans, n + 1, Len(Spans)) \in Seq(Byte)
        /\ Len(SubSeq(Spans, n + 1, Len(Spans))) =
             IF n < Len(Spans) THEN Len(Spans) - n ELSE 0
        /\ \A i \in 1..Len(Spans) - n :
             SubSeq(Spans, n + 1, Len(Spans))[i] = Spans[n + i]
    BY ONLY <2>1, Sliced
  <2>. QED
    BY <2>1, <2>2
<1>5. ASSUME NEW i \in 1..Used - n
      PROVE  Spans'[i] = Spans[n + i]
  <2>1. Place(i)' = Place(n + i)
    BY <1>1, <1>2, <1>0 DEF Place, PlacedSpans
  <2>2. Spans'[i] = data'[Place(i)']
    BY <1>1, <1>3 DEF PlacedSpans
  <2>3. Spans[n + i] = data[Place(n + i)]
    BY <1>1 DEF PlacedSpans
  <2>. QED
    BY <2>1, <2>2, <2>3
<1>. QED
  BY <1>1, <1>3, <1>4, <1>5, SeqEqual DEF PlacedSpans

\* Cursors that meet leave nothing unread.
LEMMA MetCursorsAreEmpty == RingTypeOK /\ head = tail => Spans = <<>>
  BY CapacityAssumption DEF RingTypeOK, Offsets, Spans, Used

\* Equal regions have equal unread bytes.
LEMMA SpansUnchanged == UNCHANGED <<data, head, tail>> => UNCHANGED Spans
  BY DEF Spans, Span, Used

-----------------------------------------------------------------------------
\* What each step does to the unread bytes, to the returned and to the view: the
\* five operations of a byte queue.
LEMMA StepOnSpans ==
  ASSUME RingTypeOK, RingTypeOK', RingNext
  PROVE  \/ \E f \in Frames : Queue!Put(f) /\ view' = view
         \/ \E n \in 0..Capacity :
              /\ Queue!Take(n)
              /\ \/ n <= Len(Spans) /\ view' = SubSeq(view, n + 1, Len(view))
                 \/ n > Len(Spans) /\ view' = view
         \/ Queue!Peek /\ view' \in {<<>>, Spans}
         \/ Queue!TakeAll /\ view' = <<>>
         \/ Queue!Drop /\ view' = <<>>
<1>1. PlacedSpans
  BY SpansArePlaced
<1>. USE DEF Returns, Given, Queue!Done, Queue!Given
<1>2. ASSUME NEW f \in Frames, Write(f)
      PROVE  Queue!Put(f) /\ view' = view
  <2>1. f \in Seq(Byte) /\ Len(f) \in Nat
    BY FramesAssumption, LenProperties
  <2>2. Len(Spans) = Used /\ Used \in Nat
    BY <1>1, CapacityAssumption DEF PlacedSpans
  <2>3. (Len(f) <= Free) <=> (Len(Spans) + Len(f) <= Capacity - 1)
    BY <2>1, <2>2, CapacityAssumption DEF Free
  <2>4. (Len(f) > Free) <=> (Len(Spans) + Len(f) > Capacity - 1)
    BY <2>1, <2>2, CapacityAssumption DEF Free
  <2>0. Queue!Given(f, 0)
    BY <1>2 DEF Write
  <2>5. CASE Len(f) <= Free /\ Store(f) /\ head' = Advance(head, Len(f))
             /\ returned' = [ok |-> TRUE, bytes |-> <<>>]
             /\ UNCHANGED <<tail, view>>
    <3>1. Spans' = Spans \o f
      BY <2>1, <2>5, WriteAppends
    <3>. QED
      BY <2>0, <2>3, <2>5, <3>1 DEF Queue!Put
  <2>6. CASE Len(f) > Free /\ returned' = [ok |-> FALSE, bytes |-> <<>>]
             /\ UNCHANGED <<data, head, tail, view>>
    BY <2>0, <2>4, <2>6, SpansUnchanged DEF Queue!Put
  <2>. QED
    BY <1>2, <2>5, <2>6 DEF Write
<1>3. CASE ReadableSpans
  BY <1>3, SpansUnchanged DEF ReadableSpans, Queue!Peek
<1>4. ASSUME NEW n \in 0..Capacity, Consume(n)
      PROVE  /\ Queue!Take(n)
             /\ \/ n <= Len(Spans) /\ view' = SubSeq(view, n + 1, Len(view))
                \/ n > Len(Spans) /\ view' = view
  <2>1. Len(Spans) = Used
    BY <1>1 DEF PlacedSpans
  <2>0. Queue!Given(<<>>, n)
    BY <1>4 DEF Consume
  <2>2. CASE n <= Used /\ tail' = Advance(tail, n)
             /\ view' = SubSeq(view, n + 1, Len(view))
             /\ returned' = [ok |-> TRUE, bytes |-> <<>>]
             /\ UNCHANGED <<data, head>>
    <3>1. Spans' = SubSeq(Spans, n + 1, Len(Spans))
      BY <2>2, ConsumeDrops
    <3>. QED
      BY <2>0, <2>1, <2>2, <3>1 DEF Queue!Take
  <2>3. CASE n > Used /\ returned' = [ok |-> FALSE, bytes |-> <<>>]
             /\ UNCHANGED <<data, head, tail, view>>
    BY <2>0, <2>1, <2>3, SpansUnchanged DEF Queue!Take
  <2>. QED
    BY <1>4, <2>2, <2>3 DEF Consume
<1>5. head' = tail' => Spans' = <<>>
  <2>1. (RingTypeOK /\ head = tail => Spans = <<>>)'
    BY MetCursorsAreEmpty, PTL
  <2>. QED
    BY <2>1
<1>6. CASE DrainCompacted
  BY <1>5, <1>6 DEF DrainCompacted, Queue!TakeAll
<1>7. CASE Clear
  BY <1>5, <1>7 DEF Clear, Queue!Drop
<1>8. CASE Attach
  BY <1>5, <1>8 DEF Attach, Queue!Drop
<1>9. CASE Reopen
  <2>1. head < Capacity /\ tail < Capacity
    BY CapacityAssumption DEF RingTypeOK, Offsets
  <2>. QED
    BY <1>9, <2>1, SpansUnchanged DEF Reopen, Queue!Peek
<1>. QED
  BY <1>2, <1>3, <1>4, <1>6, <1>7, <1>8, <1>9 DEF RingNext

\* Every step keeps the bytes under a borrowed view.
LEMMA StepKeepsView ==
  RingTypeOK /\ RingTypeOK' /\ ViewIsStable /\ [RingNext]_ringVars => ViewIsStable'
<1>. SUFFICES ASSUME RingTypeOK, RingTypeOK', ViewIsStable, [RingNext]_ringVars
              PROVE  ViewIsStable'
  OBVIOUS
<1>1. PlacedSpans /\ PlacedSpans'
  BY SpansArePlaced, PTL
<1>2. Spans \in Seq(Byte) /\ view \in Seq(Byte) /\ Spans' \in Seq(Byte)
  BY <1>1 DEF PlacedSpans, RingTypeOK
<1>3. Len(Spans) \in Nat /\ Len(view) \in Nat /\ Len(Spans') \in Nat
  BY <1>2, LenProperties
<1>4. CASE view' = <<>>
  BY <1>3, <1>4 DEF ViewIsStable
<1>5. CASE Spans' = Spans /\ view' \in {view, Spans}
  BY <1>3, <1>5 DEF ViewIsStable
<1>6. ASSUME NEW f \in Frames, Spans' = Spans \o f, view' = view
      PROVE  ViewIsStable'
  <2>1. f \in Seq(Byte) /\ Len(f) \in Nat
    BY FramesAssumption, LenProperties
  <2>2. /\ Len(Spans \o f) = Len(Spans) + Len(f)
        /\ \A i \in 1..Len(Spans) : (Spans \o f)[i] = Spans[i]
    BY <1>2, <1>3, <2>1, ConcatProperties
  <2>. QED
    BY <1>3, <1>6, <2>1, <2>2 DEF ViewIsStable
<1>7. ASSUME NEW n \in 0..Capacity,
             Spans' = SubSeq(Spans, n + 1, Len(Spans)),
             view' = SubSeq(view, n + 1, Len(view)),
             n <= Len(Spans)
      PROVE  ViewIsStable'
  <2>1. n \in Nat
    BY CapacityAssumption
  <2>2. /\ Len(Spans') = Len(Spans) - n
        /\ \A i \in 1..Len(Spans) - n : Spans'[i] = Spans[n + i]
    <3>1. /\ Len(Spans') = IF n < Len(Spans) THEN Len(Spans) - n ELSE 0
          /\ \A i \in 1..Len(Spans) - n : Spans'[i] = Spans[n + i]
      BY <1>2, <1>7, <2>1, Sliced
    <3>. QED
      BY <1>3, <1>7, <2>1, <3>1
  <2>3. /\ Len(view') = IF n < Len(view) THEN Len(view) - n ELSE 0
        /\ \A i \in 1..Len(view) - n : view'[i] = view[n + i]
    BY <1>2, <1>3, <1>7, <2>1, Sliced
  <2>4. Len(view') <= Len(Spans')
    BY <1>3, <1>7, <2>1, <2>2, <2>3 DEF ViewIsStable
  <2>5. ASSUME NEW i \in 1..Len(view') PROVE view'[i] = Spans'[i]
    <3>1. i \in 1..Len(view) - n /\ i \in 1..Len(Spans) - n
      BY <1>3, <1>7, <2>1, <2>2, <2>3, <2>4
    <3>2. n + i \in 1..Len(view)
      BY <1>3, <2>1, <3>1
    <3>. QED
      BY <2>2, <2>3, <3>1, <3>2 DEF ViewIsStable
  <2>. QED
    BY <2>4, <2>5 DEF ViewIsStable
<1>8. CASE UNCHANGED ringVars
  BY <1>5, <1>8, SpansUnchanged DEF ringVars
<1>9. CASE RingNext
  <2>1. ASSUME NEW f \in Frames, Queue!Put(f), view' = view
        PROVE  ViewIsStable'
    BY <1>5, <1>6, <2>1 DEF Queue!Put
  <2>2. ASSUME NEW n \in 0..Capacity, Queue!Take(n),
               \/ n <= Len(Spans) /\ view' = SubSeq(view, n + 1, Len(view))
               \/ n > Len(Spans) /\ view' = view
        PROVE  ViewIsStable'
    <3>1. CASE n <= Len(Spans)
      <4>1. ~(n > Len(Spans))
        BY <1>3, <3>1, CapacityAssumption
      <4>. QED
        BY <1>7, <2>2, <3>1, <4>1 DEF Queue!Take
    <3>2. CASE n > Len(Spans)
      <4>1. ~(n <= Len(Spans))
        BY <1>3, <3>2, CapacityAssumption
      <4>. QED
        BY <1>5, <2>2, <3>2, <4>1 DEF Queue!Take
    <3>. QED
      BY <2>2, <3>1, <3>2
  <2>3. CASE Queue!Peek /\ view' \in {<<>>, Spans}
    BY <1>4, <1>5, <2>3 DEF Queue!Peek
  <2>. QED
    BY <1>4, <1>9, <2>1, <2>2, <2>3, StepOnSpans
<1>. QED
  BY <1>8, <1>9

\* A view shown without a copy holds the oldest unread bytes until they are
\* consumed, whatever is written meanwhile: readableSpans() is safe to hand out.
THEOREM ViewsAreStable == RingSpec => []ViewIsStable
<1>1. RingInit => ViewIsStable
  <2>. SUFFICES ASSUME RingInit PROVE ViewIsStable
    OBVIOUS
  <2>1. RingTypeOK
    BY CapacityAssumption, EmptySeq DEF RingInit, RingTypeOK, Offsets
  <2>2. Len(Spans) \in Nat
    BY <2>1, SpansArePlaced, CapacityAssumption DEF PlacedSpans
  <2>. QED
    BY <2>2 DEF RingInit, ViewIsStable
<1>2. RingTypeOK /\ RingTypeOK' /\ ViewIsStable /\ [RingNext]_ringVars => ViewIsStable'
  BY StepKeepsView
<1>. QED
  BY <1>1, <1>2, RingTypeCorrect, PTL DEF RingSpec

\* The ring implements the bounded first-in first-out queue of bytes: frames are
\* stored whole or refused, refused only when they do not fit in Capacity - 1
\* bytes, and bytes come out in the order in which they were written.
THEOREM ImplementsByteQueue == RingSpec => IsByteQueue
<1>1. RingInit => Queue!QInit
  <2>. SUFFICES ASSUME RingInit PROVE Queue!QInit
    OBVIOUS
  <2>1. RingTypeOK /\ head = tail
    BY CapacityAssumption, EmptySeq DEF RingInit, RingTypeOK, Offsets
  <2>. QED
    BY <2>1, MetCursorsAreEmpty DEF RingInit, Queue!QInit
<1>2. RingTypeOK /\ RingTypeOK' /\ [RingNext]_ringVars => [Queue!QNext]_Queue!qvars
  <2>. SUFFICES ASSUME RingTypeOK, RingTypeOK', [RingNext]_ringVars
                PROVE  [Queue!QNext]_Queue!qvars
    OBVIOUS
  <2>1. CASE UNCHANGED ringVars
    BY <2>1, SpansUnchanged DEF ringVars, Queue!qvars
  <2>2. CASE RingNext
    <3>1. 0..Capacity = 0..Capacity - 1 + 1
      BY CapacityAssumption
    <3>. QED
      BY <2>2, <3>1, StepOnSpans DEF Queue!QNext
  <2>. QED
    BY <2>1, <2>2
<1>. QED
  BY <1>1, <1>2, RingTypeCorrect, PTL DEF RingSpec, IsByteQueue, Queue!QSpec
=============================================================================
