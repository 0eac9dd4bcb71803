---------------------------- MODULE BatchingBridge ----------------------------
(***************************************************************************)
(* Many small requests bundled into few sends                              *)
(* (backends/transport/batching.ts, with FrameBatcher of api/wire-ring.ts  *)
(* and SerialQueue of bridge-interface.ts).                                *)
(*                                                                         *)
(* A submitted frame is kept twice: its promise in `entries', its bytes in *)
(* the batcher's `chunks'.  Nothing but the order of the two lists ties a  *)
(* promise to its frame.  When the batcher is full both lists become a     *)
(* task of the serial queue; a timer or flushNow() queues a flush instead, *)
(* which takes both lists only when its turn comes.  A queued task starts  *)
(* in a later microtask, so submits, timers and close() may come first.    *)
(*                                                                         *)
(* A frame is named by its submission; SequenceOf is the number in its     *)
(* header, by which replies are matched and which need not be unique.      *)
(* Settling a promise again has no effect in JavaScript; here the second   *)
(* outcome replaces the first, so that SettledOnce can see it.             *)
(***************************************************************************)
EXTENDS Integers, SequencesExt

CONSTANTS Submits,      \* the submissions
          SequenceOf,   \* the sequence number of each frame
          Size,         \* the length of each frame
          MaxBytes,     \* the batcher's limits
          MaxFrames,
          Interval,     \* whether flushIntervalMs is positive
          FlushBound,   \* bound: tasks in the queue when flushNow() is called
          None

ASSUME LimitsAssumption == MaxBytes \in Nat \ {0} /\ MaxFrames \in Nat \ {0}
ASSUME SizeAssumption == Size \in [Submits -> Nat \ {0}]
ASSUME IntervalAssumption == Interval \in BOOLEAN
ASSUME NoneAssumption == None \notin Submits

VARIABLES entries,   \* promises of the frames kept, oldest first
          chunks,    \* the batcher's frames, oldest first
          bytes,     \* the batcher's byte count
          timer,     \* whether the flush timer is armed
          closed,    \* whether close() was called
          tasks,     \* the serial queue: tasks that have not started
          sending,   \* the send that is under way, or Idle
          outcome,   \* what each caller was told
          answer,    \* the frame whose reply resolved the caller
          sent       \* history: the batches handed to the transport

vars == <<entries, chunks, bytes, timer, closed, tasks, sending, outcome,
          answer, sent>>

Flush == [kind |-> "flush", batch |-> <<>>, snapshot |-> <<>>]
Idle == [kind |-> "idle", batch |-> <<>>, snapshot |-> <<>>]
Send(b, s) == [kind |-> "send", batch |-> b, snapshot |-> s]

Init ==
  /\ entries = <<>> /\ chunks = <<>> /\ bytes = 0
  /\ timer = FALSE /\ closed = FALSE
  /\ tasks = <<>> /\ sending = Idle
  /\ outcome = [s \in Submits |-> "new"]
  /\ answer = [s \in Submits |-> None]
  /\ sent = <<>>

-----------------------------------------------------------------------------
\* Mutant: the limit of frames is noticed one frame late.
FullOneLate(s) == bytes + Size[s] >= MaxBytes \/ Len(chunks) + 1 > MaxFrames

\* FrameBatcher.push() hands out a batch with this frame.
Full(s) == bytes + Size[s] >= MaxBytes \/ Len(chunks) + 1 >= MaxFrames

\* FrameBatcher.flush()
TakeChunks == chunks' = <<>> /\ bytes' = 0

RejectAll(list) ==
  outcome' = [s \in Submits |->
                IF s \in ToSet(list) THEN "rejected" ELSE outcome[s]]

\* submit() of a frame that is not one complete frame, or after close().
SubmitRefused(s) ==
  /\ outcome[s] = "new"
  /\ outcome' = [outcome EXCEPT ![s] = "rejected"]
  /\ UNCHANGED <<entries, chunks, bytes, timer, closed, tasks, sending,
                 answer, sent>>

\* Mutant: the promise joins after the snapshot was taken.
SubmitFullLate(s) ==
  /\ outcome[s] = "new" /\ ~closed /\ Full(s)
  /\ outcome' = [outcome EXCEPT ![s] = "waiting"]
  /\ tasks' = Append(tasks, Send(Append(chunks, s), entries))
  /\ entries' = <<s>>
  /\ TakeChunks
  /\ UNCHANGED <<timer, closed, sending, answer, sent>>

\* submit(), and the batcher is full with this frame: everything kept goes.
SubmitFull(s) ==
  /\ outcome[s] = "new" /\ ~closed /\ Full(s)
  /\ outcome' = [outcome EXCEPT ![s] = "waiting"]
  /\ tasks' = Append(tasks, Send(Append(chunks, s), Append(entries, s)))
  /\ entries' = <<>>
  /\ TakeChunks
  /\ UNCHANGED <<timer, closed, sending, answer, sent>>

\* Mutant: the timer is armed by the first frame kept and by no later one.
SubmitKeptArmsFirst(s) ==
  /\ outcome[s] = "new" /\ ~closed /\ ~Full(s)
  /\ outcome' = [outcome EXCEPT ![s] = "waiting"]
  /\ entries' = Append(entries, s)
  /\ chunks' = Append(chunks, s)
  /\ bytes' = bytes + Size[s]
  /\ timer' = (timer \/ (Interval /\ entries = <<>> /\ tasks = <<>>))
  /\ UNCHANGED <<closed, tasks, sending, answer, sent>>

\* submit(), and the frame is kept: the flush timer is armed if it was not.
SubmitKept(s) ==
  /\ outcome[s] = "new" /\ ~closed /\ ~Full(s)
  /\ outcome' = [outcome EXCEPT ![s] = "waiting"]
  /\ entries' = Append(entries, s)
  /\ chunks' = Append(chunks, s)
  /\ bytes' = bytes + Size[s]
  /\ timer' = (timer \/ Interval)
  /\ UNCHANGED <<closed, tasks, sending, answer, sent>>

\* flushNow()
FlushNow ==
  /\ Len(tasks) < FlushBound
  /\ tasks' = Append(tasks, Flush)
  /\ UNCHANGED <<entries, chunks, bytes, timer, closed, sending, outcome,
                 answer, sent>>

\* The flush timer fires.
TimerFires ==
  /\ timer
  /\ timer' = FALSE
  /\ tasks' = Append(tasks, Flush)
  /\ UNCHANGED <<entries, chunks, bytes, closed, sending, outcome, answer,
                 sent>>

\* Mutant: the lists are rejected but not emptied.
CloseKeepsLists ==
  /\ ~closed
  /\ closed' = TRUE
  /\ timer' = FALSE
  /\ RejectAll(entries)
  /\ UNCHANGED <<entries, chunks, bytes, tasks, sending, answer, sent>>

\* Mutant: promises whose batch is already queued are rejected as well.
CloseRejectsQueued ==
  /\ ~closed
  /\ closed' = TRUE
  /\ timer' = FALSE
  /\ outcome' = [s \in Submits |->
                   IF outcome[s] = "waiting" THEN "rejected" ELSE outcome[s]]
  /\ entries' = <<>>
  /\ TakeChunks
  /\ UNCHANGED <<tasks, sending, answer, sent>>

\* close(): frames still kept are dropped and their callers told; a batch
\* that is already a task is sent all the same.
Close ==
  /\ ~closed
  /\ closed' = TRUE
  /\ timer' = FALSE
  /\ RejectAll(entries)
  /\ entries' = <<>>
  /\ TakeChunks
  /\ UNCHANGED <<tasks, sending, answer, sent>>

-----------------------------------------------------------------------------
\* The serial queue reaches a batch: transport.send() is called.
StartSend ==
  /\ sending = Idle /\ tasks # <<>> /\ Head(tasks).kind = "send"
  /\ sending' = Head(tasks)
  /\ sent' = Append(sent, Head(tasks).batch)
  /\ tasks' = Tail(tasks)
  /\ UNCHANGED <<entries, chunks, bytes, timer, closed, outcome, answer>>

\* The serial queue reaches a flush: the timer is stopped and whatever is kept
\* by now is sent, which may be nothing.
StartFlush ==
  /\ sending = Idle /\ tasks # <<>> /\ Head(tasks).kind = "flush"
  /\ tasks' = Tail(tasks)
  /\ timer' = FALSE
  /\ TakeChunks
  /\ \/ /\ chunks = <<>> \/ entries = <<>>
        /\ UNCHANGED <<entries, sending, sent>>
     \/ /\ chunks # <<>> /\ entries # <<>>
        /\ entries' = <<>>
        /\ sending' = Send(chunks, entries)
        /\ sent' = Append(sent, chunks)
  /\ UNCHANGED <<closed, outcome, answer>>

\* The transport rejects the whole batch, or its reply is not a row of frames.
SendFails ==
  /\ sending # Idle
  /\ RejectAll(sending.snapshot)
  /\ sending' = Idle
  /\ UNCHANGED <<entries, chunks, bytes, timer, closed, tasks, answer, sent>>

\* What may come back for a batch: reply frames to its frames, in any order, some
\* missing and some repeated; process_batch replies to all of them, in order.
Replies(batch) == SeqOf(ToSet(batch), Len(batch))

\* The places in a reply whose sequence number is that of frame s.
Matching(reply, s) ==
  {i \in DOMAIN reply : SequenceOf[reply[i]] = SequenceOf[s]}

\* Mutant: replies are taken in the order of the requests.
LastMatchingByOrder(reply, s) ==
  LET i == CHOOSE k \in DOMAIN sending.snapshot : sending.snapshot[k] = s
  IN  IF i \in DOMAIN reply THEN reply[i] ELSE reply[1]

\* Frames of equal number: the map keeps the last.
LastMatching(reply, s) ==
  reply[CHOOSE i \in Matching(reply, s) :
          \A j \in Matching(reply, s) : j <= i]

\* The reply is a row of frames: each caller of the batch gets the last one with
\* its sequence number, or a rejection if there is none.
SendReplies(reply) ==
  /\ sending # Idle
  /\ LET callers == ToSet(sending.snapshot)
         answered == {s \in callers : Matching(reply, s) # {}}
     IN /\ outcome' = [s \in Submits |->
                         IF s \in answered THEN "resolved"
                         ELSE IF s \in callers THEN "rejected"
                         ELSE outcome[s]]
        /\ answer' = [s \in Submits |->
                        IF s \in answered THEN LastMatching(reply, s)
                        ELSE answer[s]]
  /\ sending' = Idle
  /\ UNCHANGED <<entries, chunks, bytes, timer, closed, tasks, sent>>

-----------------------------------------------------------------------------
Next ==
  \/ \E s \in Submits : SubmitRefused(s)
  \/ \E s \in Submits : SubmitFull(s)
  \/ \E s \in Submits : SubmitKept(s)
  \/ FlushNow
  \/ TimerFires
  \/ Close
  \/ StartSend
  \/ StartFlush
  \/ SendFails
  \/ \E reply \in Replies(sending.batch) : SendReplies(reply)

\* Timers fire and the microtask queue runs.  Nothing here makes a transport
\* settle the promise of send(): the bridge has no timer for that.
Fairness == WF_vars(TimerFires) /\ WF_vars(StartSend) /\ WF_vars(StartFlush)

Spec == Init /\ [][Next]_vars /\ Fairness

-----------------------------------------------------------------------------
Outcomes == {"new", "waiting", "resolved", "rejected"}

TaskType == [kind : {"idle", "flush", "send"}, batch : Seq(Submits),
             snapshot : Seq(Submits)]

\* Every variable has its type.
TypeOK ==
  /\ entries \in Seq(Submits) /\ chunks \in Seq(Submits) /\ bytes \in Nat
  /\ timer \in BOOLEAN /\ closed \in BOOLEAN
  /\ tasks \in Seq(TaskType) /\ sending \in TaskType
  /\ outcome \in [Submits -> Outcomes]
  /\ answer \in [Submits -> Submits \cup {None}]
  /\ sent \in Seq(Seq(Submits))

\* The i-th promise belongs to the i-th frame, in the lists being filled and in
\* every batch taken from them, over pushes, full batches, flushes and close().
ListsAgree ==
  /\ entries = chunks
  /\ \A i \in DOMAIN tasks : tasks[i].batch = tasks[i].snapshot
  /\ sending.batch = sending.snapshot

\* The offsets at which flush() copies the frames kept, one after the other, into
\* a buffer of as many bytes as the batcher counted.
FillsBuffer(offset) ==
  /\ offset[0] = 0
  /\ \A i \in 1..Len(chunks) : offset[i] = offset[i - 1] + Size[chunks[i]]
  /\ offset[Len(chunks)] = bytes

\* What the batcher keeps between calls is below both limits, and its byte count
\* is that of the frames it keeps: they fill the buffer flush() allocates.
BatcherBounded ==
  /\ Len(chunks) < MaxFrames
  /\ bytes < MaxBytes
  /\ \E offset \in [0..Len(chunks) -> 0..bytes] : FillsBuffer(offset)

Holders ==
  {entries, sending.snapshot} \cup {tasks[i].snapshot : i \in DOMAIN tasks}

\* A caller waits exactly as long as its promise is in one of the lists: being
\* kept, queued, or under way; nobody is lost between two of them.
WaitingIsHeld ==
  \A s \in Submits :
    outcome[s] = "waiting" <=> \E list \in Holders : s \in ToSet(list)

\* No frame goes to the transport twice.
SentOnce ==
  \A i, j \in DOMAIN sent : i # j => ToSet(sent[i]) \cap ToSet(sent[j]) = {}

\* The lists hold what they should: over pushes, full batches, flushes, close() and
\* replies, promises and frames stay aligned, nobody who waits is lost and no frame
\* goes out again.
Inv == TypeOK /\ ListsAgree /\ WaitingIsHeld /\ SentOnce

\* A caller is resolved with the reply to a frame sent in its own batch under its
\* own sequence number: with its own reply wherever numbers are unique.
OwnReply ==
  \A s \in Submits :
    outcome[s] = "resolved" =>
      /\ SequenceOf[answer[s]] = SequenceOf[s]
      /\ \E i \in DOMAIN sent : {s, answer[s]} \subseteq ToSet(sent[i])

\* No promise is settled twice.
SettledOnce ==
  [][\A s \in Submits : outcome[s] \in {"resolved", "rejected"} =>
        UNCHANGED <<outcome[s], answer[s]>>]_vars

WasSent(s) == \E i \in DOMAIN sent : s \in ToSet(sent[i])

\* A frame whose caller was rejected before it was sent is never sent: close()
\* leaves nothing behind that a later flush could pick up.
RejectedIsNotSent ==
  [][\A s \in Submits : outcome[s] = "rejected" /\ ~WasSent(s) => ~WasSent(s)']_vars

\* If the transport settles whatever it is given, every caller is settled: by the
\* interval timer where there is one, and by close() in any case.
EverySubmitSettles ==
  []<>(sending = Idle) =>
    \A s \in Submits :
      outcome[s] = "waiting" /\ (Interval \/ closed) ~> outcome[s] # "waiting"
=============================================================================
