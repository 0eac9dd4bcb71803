------------------------------ MODULE ByteQueue ------------------------------
(***************************************************************************)
(* What the shared ring promises to a producer and a consumer: a queue of  *)
(* bytes that holds at most Room of them.  A frame is put whole or not at  *)
(* all, and the caller is told which; bytes leave in the order they came.  *)
(* The queue knows nothing of a region, of a head or of a tail.            *)
(***************************************************************************)
EXTENDS Naturals, Sequences

CONSTANTS Room,     \* how many bytes the queue holds
          Frames    \* the byte sequences a producer may put

VARIABLES queue,    \* the bytes put and not yet taken, oldest first
          asked,    \* what the last call was given
          returned     \* what the last call returned

qvars == <<queue, asked, returned>>

Given(frame, n) == asked' = [frame |-> frame, n |-> n]

Done(ok, bytes) == returned' = [ok |-> ok, bytes |-> bytes]

QInit ==
  /\ queue = <<>>
  /\ asked = [frame |-> <<>>, n |-> 0]
  /\ returned = [ok |-> TRUE, bytes |-> <<>>]

\* A frame that fits is put; one that does not leaves the queue as it was.
Put(f) ==
  /\ Given(f, 0)
  /\ \/ /\ Len(queue) + Len(f) <= Room
        /\ queue' = queue \o f
        /\ Done(TRUE, <<>>)
     \/ /\ Len(queue) + Len(f) > Room
        /\ Done(FALSE, <<>>)
        /\ UNCHANGED queue

\* The oldest n bytes leave, if there are so many.
Take(n) ==
  /\ Given(<<>>, n)
  /\ \/ /\ n <= Len(queue)
        /\ queue' = SubSeq(queue, n + 1, Len(queue))
        /\ Done(TRUE, <<>>)
     \/ /\ n > Len(queue)
        /\ Done(FALSE, <<>>)
        /\ UNCHANGED queue

\* The unread bytes are shown, in order, and stay.
Peek == Given(<<>>, 0) /\ Done(TRUE, queue) /\ UNCHANGED queue

\* The unread bytes are shown and leave.
TakeAll == Given(<<>>, 0) /\ Done(TRUE, queue) /\ queue' = <<>>

\* Everything unread is dropped.
Drop == Given(<<>>, 0) /\ Done(TRUE, <<>>) /\ queue' = <<>>

QNext ==
  \/ \E f \in Frames : Put(f)
  \/ \E n \in 0..Room + 1 : Take(n)
  \/ Peek
  \/ TakeAll
  \/ Drop

QSpec == QInit /\ [][QNext]_qvars
=============================================================================
