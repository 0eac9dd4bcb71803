------------------------------- MODULE WireRing -------------------------------
(***************************************************************************)
(* The byte ring that JavaScript and the core may share                    *)
(* (packages/api/wire-ring.ts, class WireRing; the same layout is          *)
(* CORE_RING_* of core_wire.h).  The state is the region itself: its two   *)
(* cursors and its data bytes, so several WireRing objects over one region *)
(* are one state here, and a call is one step, since every access is made  *)
(* synchronously by one JavaScript thread.                                 *)
(*                                                                         *)
(* The region may hold anything before it is attached, and clear() or      *)
(* consume() leave stale bytes behind, so data is never assumed clean.     *)
(* readableSpans() returns views and no copy: the bytes a reader was shown *)
(* are kept in `view' until the reader consumes or drops them, to say that *)
(* later writes leave them alone.                                          *)
(***************************************************************************)
EXTENDS Integers, Sequences

CONSTANTS Capacity,   \* bytes of the data area
          Byte,       \* the byte values
          Frames      \* the byte sequences a producer writes

ASSUME CapacityAssumption == Capacity \in Nat \ {0}
ASSUME FramesAssumption == Frames \subseteq Seq(Byte)

VARIABLES data,     \* the data area
          head,     \* where the next byte is written
          tail,     \* where the oldest unread byte is
          view,     \* bytes shown by readableSpans() and not consumed yet
          asked,    \* what the last call was given
          returned  \* what the last call returned

ringVars == <<data, head, tail, view, asked, returned>>

Offsets == 0..Capacity - 1

Used == IF head >= tail THEN head - tail ELSE Capacity - (tail - head)

\* Mutant: one byte too many is free, so a full ring looks empty.
FreeWithoutGap == Capacity - Used

Free == Capacity - 1 - Used

\* A cursor moved on by n, for n at most the capacity.
Advance(cursor, n) == (cursor + n) % Capacity

\* The bytes from offset a up to b, b excluded.
Span(a, b) == [i \in 1..b - a |-> data[a + i - 1]]

\* The unread bytes: one span, or the end of the data area and its start.
Spans ==
  IF Used = 0 THEN <<>>
  ELSE IF head > tail THEN Span(tail, head)
  ELSE Span(tail, Capacity) \o Span(0, head)

Given(frame, n) == asked' = [frame |-> frame, n |-> n]

Returns(ok, bytes) == returned' = [ok |-> ok, bytes |-> bytes]

-----------------------------------------------------------------------------
\* Mutant: the second part of a frame that wraps is not written.
StoreWithoutWrap(f) ==
  data' = [i \in Offsets |->
             IF i >= head /\ i < head + Len(f) THEN f[i - head + 1]
             ELSE data[i]]

\* At most two set() calls: up to the end of the data area, then from its start.
Store(f) ==
  LET room == Capacity - head
      first == IF Len(f) <= room THEN Len(f) ELSE room
  IN  data' = [i \in Offsets |->
                 IF i >= head /\ i < head + first THEN f[i - head + 1]
                 ELSE IF i < Len(f) - first THEN f[first + i + 1]
                 ELSE data[i]]

\* create() and attach(): cursors at zero, data bytes as they are found.
RingInit ==
  /\ data \in [Offsets -> Byte]
  /\ head = 0
  /\ tail = 0
  /\ view = <<>>
  /\ asked = [frame |-> <<>>, n |-> 0]
  /\ returned = [ok |-> TRUE, bytes |-> <<>>]

\* write(), writeFrame()
Write(f) ==
  /\ Given(f, 0)
  /\ \/ /\ Len(f) <= Free
        /\ Store(f)
        /\ head' = Advance(head, Len(f))
        /\ Returns(TRUE, <<>>)
        /\ UNCHANGED <<tail, view>>
     \/ /\ Len(f) > Free
        /\ Returns(FALSE, <<>>)
        /\ UNCHANGED <<data, head, tail, view>>

\* readableSpans()
ReadableSpans ==
  /\ Given(<<>>, 0)
  /\ view' = Spans
  /\ Returns(TRUE, Spans)
  /\ UNCHANGED <<data, head, tail>>

\* consume(n)
Consume(n) ==
  /\ Given(<<>>, n)
  /\ \/ /\ n <= Used
        /\ tail' = Advance(tail, n)
        /\ view' = SubSeq(view, n + 1, Len(view))
        /\ Returns(TRUE, <<>>)
        /\ UNCHANGED <<data, head>>
     \/ /\ n > Used
        /\ Returns(FALSE, <<>>)
        /\ UNCHANGED <<data, head, tail, view>>

\* drainCompacted()
DrainCompacted ==
  /\ Given(<<>>, 0)
  /\ Returns(TRUE, Spans)
  /\ tail' = head
  /\ view' = <<>>
  /\ UNCHANGED <<data, head>>

\* clear()
Clear ==
  /\ Given(<<>>, 0)
  /\ tail' = head
  /\ view' = <<>>
  /\ Returns(TRUE, <<>>)
  /\ UNCHANGED <<data, head>>

\* attach() on a region in use: the cursors start again, the bytes stay.
Attach ==
  /\ Given(<<>>, 0)
  /\ head' = 0
  /\ tail' = 0
  /\ view' = <<>>
  /\ Returns(TRUE, <<>>)
  /\ UNCHANGED data

\* reopen() after the memory grew: the header is checked and the cursors
\* are taken over; the reader's old views are of the old buffer.
Reopen ==
  /\ Given(<<>>, 0)
  /\ view' = <<>>
  /\ Returns(head < Capacity /\ tail < Capacity, Spans)
  /\ UNCHANGED <<data, head, tail>>

RingNext ==
  \/ \E f \in Frames : Write(f)
  \/ ReadableSpans
  \/ \E n \in 0..Capacity : Consume(n)
  \/ DrainCompacted
  \/ Clear
  \/ Attach
  \/ Reopen

RingSpec == RingInit /\ [][RingNext]_ringVars
-----------------------------------------------------------------------------
\* Every variable has its type; in particular the cursors are inside the data
\* area, so that reopen() accepts the header a ring of its own left behind.
RingTypeOK ==
  /\ data \in [Offsets -> Byte]
  /\ head \in Offsets
  /\ tail \in Offsets
  /\ view \in Seq(Byte)
  /\ asked \in [frame : Seq(Byte), n : 0..Capacity]
  /\ returned \in [ok : BOOLEAN, bytes : Seq(Byte)]

\* The bytes readableSpans() showed without a copy are still the oldest unread
\* bytes, whatever was written since: a write never lands under a borrowed view.
ViewIsStable ==
  /\ Len(view) <= Len(Spans)
  /\ \A i \in 1..Len(view) : view[i] = Spans[i]

\* The ring is a first-in first-out queue of Capacity - 1 bytes: a frame that
\* fits is stored whole, one that does not changes nothing, drainCompacted()
\* and readableSpans() return what was written in the order it was written, and
\* reopen() accepts every header the ring can leave.
Queue == INSTANCE ByteQueue WITH Room <- Capacity - 1, queue <- Spans

IsByteQueue == Queue!QSpec
=============================================================================
