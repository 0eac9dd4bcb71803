-------------------------- MODULE DataPlaneProofs --------------------------
(***************************************************************************)
(* The data plane, for every width of a byte, all limits, any number of    *)
(* calls and any damage to their bytes: the four invariants of DataPlane,  *)
(* and what the functions of the wire format and of the calculation do.    *)
(*                                                                         *)
(* Verdicts.  A list of checks accepts when none of them holds, in         *)
(* whatever order they come; it refuses with the code of the first that    *)
(* does.  Two lists are compared by the checks in which they differ.       *)
(* Validation follows: JSON changes no check that the page passed.         *)
(*                                                                         *)
(* Bytes.  Holds(b, o, t) says that the bytes t are in b at offset o.      *)
(* Written numbers are held where they are read (NumberHeld), by the       *)
(* uniqueness of digits; so are headers and payloads.  Then every frame    *)
(* that is taken is the encoding of what it says, and the other way round. *)
(*                                                                         *)
(* Recursion.  What the fold of the checksum, the sum it is compared with  *)
(* and the scan over frames compute is shown for every input by least      *)
(* counterexamples.  A scan that succeeds is a Row: offsets at each of     *)
(* which a frame fits, and each after the end of the one before.           *)
(*                                                                         *)
(* The plane.  PlaneInv says of an undamaged batch that its row is made of *)
(* the frames of the calls (Held), of the host that the frames it has read *)
(* are a row, and what it has written is a row of the right answers to     *)
(* them (Hosted), and of the end that the caller has been told so.  The    *)
(* row of a batch is the only one (RowsAlike), so that the n-th answer is  *)
(* the n-th call's.                                                        *)
(***************************************************************************)
EXTENDS DataPlane, SequenceTheorems, WellFoundedInduction, FiniteSetTheorems, TLAPS

-----------------------------------------------------------------------------
(* Verdicts and frames. *)

Codes == {"OK", "SMALL", "MAGIC", "INVALID", "LIMIT"}

\* A check whose condition holds names a refusal.
Checks == {k \in BOOLEAN \X Codes : k[1] => k[2] # "OK"}

\* A condition with a code of refusal is a check.
LEMMA Refusal ==
  ASSUME NEW p \in BOOLEAN, NEW verdict \in Codes, p => verdict # "OK"
  PROVE  <<p, verdict>> \in Checks /\ (<<p, verdict>>[1] <=> p)
  BY DEF Checks

\* Sets of numbers have a smallest one.
LEMMA MinIsLeast ==
  ASSUME NEW S \in SUBSET Nat, S # {}
  PROVE  Min(S) \in S /\ \A j \in S : Min(S) <= j
<1>1. PICK m \in S : \A k \in S : <<k, m>> \notin OpToRel(<, Nat)
  BY WFMin, NatLessThanWellFounded, Zenon
<1>2. \A k \in S : ~(k < m)
  BY <1>1, Zenon DEF OpToRel
<1>3. \A k \in S : m <= k
  BY <1>2
<1>4. QED
  BY <1>3 DEF Min

\* A function of the code accepts when no check of it holds.
LEMMA NoCheckHolds ==
  ASSUME NEW c \in Seq(Checks)
  PROVE  /\ Verdict(c) \in Codes
         /\ Verdict(c) = "OK" <=> \A i \in 1..Len(c) : ~c[i][1]
<1> DEFINE failed == {i \in DOMAIN c : c[i][1]}
<1>1. DOMAIN c = 1..Len(c) /\ \A i \in 1..Len(c) : c[i] \in Checks
  BY ElementOfSeq, LenProperties
<1>2. CASE failed = {}
  BY <1>1, <1>2 DEF Verdict, Codes
<1>3. CASE failed # {}
  <2>1. failed \subseteq Nat
    BY <1>1
  <2>2. Min(failed) \in failed
    BY <2>1, <1>3, MinIsLeast
  <2>3. c[Min(failed)] \in Checks /\ c[Min(failed)][1]
    BY <2>2, <1>1
  <2>4. c[Min(failed)][2] \in Codes \ {"OK"}
    BY <2>3 DEF Checks
  <2>5. Verdict(c) = c[Min(failed)][2]
    BY <1>3, Zenon DEF Verdict
  <2>6. QED
    BY <2>2, <2>4, <2>5, <1>1
<1>4. QED
  BY <1>2, <1>3

\* Two lists of checks, one after the other.
LEMMA BothAccept ==
  ASSUME NEW c \in Seq(Checks), NEW d \in Seq(Checks)
  PROVE  /\ c \o d \in Seq(Checks)
         /\ Verdict(c \o d) = "OK" <=> Verdict(c) = "OK" /\ Verdict(d) = "OK"
<1> DEFINE e == c \o d
<1>1. /\ e \in Seq(Checks) /\ Len(e) = Len(c) + Len(d)
      /\ Len(c) \in Nat /\ Len(d) \in Nat
      /\ \A i \in 1..Len(c) : e[i] = c[i]
      /\ \A i \in 1..Len(d) : e[Len(c) + i] = d[i]
  BY ConcatProperties, LenProperties
<1>2. (\A i \in 1..Len(e) : ~e[i][1]) <=>
        (\A i \in 1..Len(c) : ~c[i][1]) /\ (\A i \in 1..Len(d) : ~d[i][1])
  <2>1. ASSUME \A i \in 1..Len(e) : ~e[i][1], NEW i \in 1..Len(c) PROVE ~c[i][1]
    BY <1>1, <2>1
  <2>2. ASSUME \A i \in 1..Len(e) : ~e[i][1], NEW i \in 1..Len(d) PROVE ~d[i][1]
    <3>1. Len(c) + i \in 1..Len(e) /\ e[Len(c) + i] = d[i]
      BY <1>1
    <3>2. QED
      BY <2>2, <3>1
  <2>3. ASSUME \A i \in 1..Len(c) : ~c[i][1], \A i \in 1..Len(d) : ~d[i][1],
               NEW i \in 1..Len(e)
        PROVE  ~e[i][1]
    <3>1. CASE i <= Len(c)
      BY <1>1, <2>3, <3>1
    <3>2. CASE ~(i <= Len(c))
      <4>1. PICK j \in 1..Len(d) : i = Len(c) + j
        <5>1. i - Len(c) \in 1..Len(d) /\ i = Len(c) + (i - Len(c))
          BY <1>1, <3>2
        <5>2. QED
          BY <5>1
      <4>2. QED
        BY <1>1, <2>3, <4>1
    <3>3. QED
      BY <3>1, <3>2
  <2>4. QED
    BY <2>1, <2>2, <2>3
<1>3. QED
  BY <1>1, <1>2, NoCheckHolds

-----------------------------------------------------------------------------
Buffers == Seq(0..Base - 1)

\* What is read is a number, at any offset.
LEMMA Reads ==
  ASSUME NEW b \in Buffers, NEW o \in Nat
  PROVE  /\ Len(b) \in Nat /\ MaxPayload \in Nat /\ MaxValues \in Nat
         /\ ReadU16LE(b, o) \in Nat /\ ReadU32LE(b, o) \in Nat
         /\ Header(b, o).payloadLen \in Nat
<1>1. /\ Base \in Nat /\ Half \in Nat /\ MaxValues \in Nat
  BY WireAssumption DEF WireAssumption, Half
<1>2. Len(b) \in Nat /\ \A i \in 1..Len(b) : b[i] \in 0..Base - 1
  BY ElementOfSeq, LenProperties DEF Buffers
<1>3. ASSUME NEW i \in Nat PROVE At(b, i) \in Nat
  <2>1. CASE i < Len(b)
    BY <1>1, <1>2, <2>1 DEF At
  <2>2. CASE ~(i < Len(b))
    BY <2>2 DEF At
  <2>3. QED
    BY <2>1, <2>2
<1>4. ASSUME NEW i \in Nat PROVE ReadU16LE(b, i) \in Nat
  BY <1>1, <1>3 DEF ReadU16LE
<1>5. ASSUME NEW i \in Nat PROVE ReadU32LE(b, i) \in Nat
  BY <1>1, <1>4 DEF ReadU32LE
<1>6. MaxPayload \in Nat
  BY <1>1, WireAssumption DEF WireAssumption, Half, Word
<1>7. Header(b, o).payloadLen = ReadU32LE(b, o + 8)
  BY DEF Header
<1>8. ReadU32LE(b, o + 8) \in Nat
  BY <1>5
<1>9. QED
  BY <1>1, <1>2, <1>4, <1>5, <1>6, <1>7, <1>8

\* What a header must say to be taken, in any language.
HeaderFits(b, o) ==
  /\ ~(Len(b) < o + WireSize) /\ ReadU16LE(b, o) = Magic
  /\ Header(b, o).command \in {GetInfoCmd, TransformCmd}
  /\ HeaderFlags(Header(b, o).flags)
  /\ ~(Header(b, o).payloadLen > MaxPayload) /\ ReadU32LE(b, o + 12) = 0

\* Every check of a header is one in this sense.
LEMMA HeaderChecks ==
  ASSUME NEW b \in Buffers, NEW o \in Nat
  PROVE  /\ Short(b, o) \in Checks /\ NoMagic(b, o) \in Checks
         /\ NoCommand(b, o) \in Checks /\ NoFlags(b, o) \in Checks
         /\ TooLong(b, o) \in Checks /\ Reserved(b, o) \in Checks
<1>1. Short(b, o) \in Checks
  <2>1. (Len(b) < o + WireSize) \in BOOLEAN
    BY Reads DEF WireSize
  <2>2. QED
    BY <2>1, Refusal DEF Short, Codes
<1>2. NoMagic(b, o) \in Checks
  BY DEF Checks, Codes, NoMagic
<1>3. NoCommand(b, o) \in Checks
  BY DEF Checks, Codes, NoCommand
<1>4. NoFlags(b, o) \in Checks
  BY DEF Checks, Codes, NoFlags, HeaderFlags
<1>5. TooLong(b, o) \in Checks
  <2>1. (Header(b, o).payloadLen > MaxPayload) \in BOOLEAN
    BY Reads
  <2>2. QED
    BY <2>1, Refusal DEF TooLong, Codes
<1>6. Reserved(b, o) \in Checks
  BY DEF Checks, Codes, Reserved
<1>7. QED
  BY <1>1, <1>2, <1>3, <1>4, <1>5, <1>6

\* Three orders, one condition.
LEMMA HeadersTaken ==
  ASSUME NEW b \in Buffers, NEW o \in Nat
  PROVE  /\ TsHeader(b, o) \in Codes /\ CHeader(b, o) \in Codes /\ RsHeader(b, o) \in Codes
         /\ TsHeader(b, o) = "OK" <=> HeaderFits(b, o)
         /\ CHeader(b, o) = "OK" <=> HeaderFits(b, o)
         /\ RsHeader(b, o) = "OK" <=> HeaderFits(b, o)
<1> DEFINE S == Short(b, o)  M == NoMagic(b, o)  K == NoCommand(b, o)
           F == NoFlags(b, o)  L == TooLong(b, o)  R == Reserved(b, o)
           ts == <<S, M, K, F, L, R>>
           c == <<S, M, K, F, R, L>>
<1>1. HeaderFits(b, o) <=> ~S[1] /\ ~M[1] /\ ~K[1] /\ ~F[1] /\ ~L[1] /\ ~R[1]
  BY DEF HeaderFits, Short, NoMagic, NoCommand, NoFlags, TooLong, Reserved
<1>2. S \in Checks /\ M \in Checks /\ K \in Checks /\ F \in Checks /\ L \in Checks /\ R \in Checks
  BY HeaderChecks
<1> HIDE DEF S, M, K, F, L, R
<1>3. ts \in Seq(Checks) /\ c \in Seq(Checks) /\ Len(ts) = 6 /\ Len(c) = 6
  BY <1>2
<1>4. (\A i \in 1..6 : ~ts[i][1]) <=> ~S[1] /\ ~M[1] /\ ~K[1] /\ ~F[1] /\ ~L[1] /\ ~R[1]
  OBVIOUS
<1>5. (\A i \in 1..6 : ~c[i][1]) <=> ~S[1] /\ ~M[1] /\ ~K[1] /\ ~F[1] /\ ~L[1] /\ ~R[1]
  OBVIOUS
<1>6. TsHeader(b, o) = Verdict(ts) /\ RsHeader(b, o) = Verdict(ts) /\ CHeader(b, o) = Verdict(c)
  BY DEF TsHeader, RsHeader, CHeader, S, M, K, F, L, R
<1>7. /\ Verdict(ts) \in Codes /\ Verdict(c) \in Codes
      /\ Verdict(ts) = "OK" <=> HeaderFits(b, o)
      /\ Verdict(c) = "OK" <=> HeaderFits(b, o)
  BY <1>1, <1>3, <1>4, <1>5, NoCheckHolds
<1>8. QED
  BY <1>6, <1>7

-----------------------------------------------------------------------------
\* A frame that is there as a whole.
FrameFits(b, o) == HeaderFits(b, o) /\ o + FrameLen(b, o) <= Len(b)

\* A code passed on refuses unless it is "OK".
LEMMA PassedOn ==
  ASSUME NEW verdict \in Codes
  PROVE  Passed(verdict) \in Checks /\ (Passed(verdict)[1] <=> verdict # "OK")
<1>1. (verdict # "OK") \in BOOLEAN
  OBVIOUS
<1>2. Passed(verdict) = <<verdict # "OK", verdict>>
  BY DEF Passed
<1>3. QED
  BY <1>1, <1>2, Refusal

\* A frame has a header at least.
LEMMA FrameLengths ==
  ASSUME NEW b \in Buffers, NEW o \in Nat
  PROVE  FrameLen(b, o) \in Nat /\ FrameLen(b, o) >= WireSize
<1>1. Header(b, o).payloadLen \in Nat
  BY Reads
<1>2. QED
  BY <1>1 DEF FrameLen, WireSize

\* The check that a frame is there as a whole.
LEMMA TruncatedCheck ==
  ASSUME NEW b \in Buffers, NEW o \in Nat
  PROVE  /\ Truncated(b, o) \in Checks
         /\ Truncated(b, o)[1] <=> ~(o + FrameLen(b, o) <= Len(b))
<1>1. Len(b) \in Nat /\ FrameLen(b, o) \in Nat
  BY FrameLengths, Reads
<1>2. (Len(b) < o + FrameLen(b, o)) \in BOOLEAN
  BY <1>1
<1>3. /\ Truncated(b, o) \in Checks
      /\ Truncated(b, o)[1] <=> Len(b) < o + FrameLen(b, o)
  BY <1>2, Refusal DEF Truncated, Codes
<1>4. QED
  BY <1>1, <1>3

(* For every width of a byte: TypeScript, C and Rust find a frame at an    *)
(* offset of a buffer in the same cases (nextFrame, core_wire_next_frame,  *)
(* next_frame), and then it has a header at least and ends in the buffer,  *)
(* so that a scan moves on and never reads beyond the end.                 *)
THEOREM FramesAgree ==
  ASSUME NEW b \in Buffers, NEW o \in Nat
  PROVE  /\ TsNextFrame(b, o) = "OK" <=> CNextFrame(b, o) = "OK"
         /\ TsNextFrame(b, o) = "OK" <=> RsNextFrame(b, o) = "OK"
         /\ TsNextFrame(b, o) = "OK" <=> FrameFits(b, o)
         /\ TsNextFrame(b, o) = "OK" =>
              FrameLen(b, o) \in WireSize .. Len(b) - o
         /\ {TsNextFrame(b, o), CNextFrame(b, o), RsNextFrame(b, o)} \subseteq Codes
<1> DEFINE P == Passed(TsHeader(b, o))  Q == Passed(CHeader(b, o))
           R == Passed(RsHeader(b, o))
           T == Truncated(b, o)  L == TooLong(b, o)
           ts == <<P, T>>  c == <<Q, L, T>>  rs == <<R, L, T>>
<1>1. /\ TsNextFrame(b, o) = Verdict(ts) /\ CNextFrame(b, o) = Verdict(c)
      /\ RsNextFrame(b, o) = Verdict(rs)
  BY DEF TsNextFrame, CNextFrame, RsNextFrame
<1>2. P \in Checks /\ Q \in Checks /\ R \in Checks /\ T \in Checks /\ L \in Checks
  BY HeadersTaken, PassedOn, TruncatedCheck, HeaderChecks
<1>3. /\ ~P[1] <=> HeaderFits(b, o)
      /\ ~Q[1] <=> HeaderFits(b, o)
      /\ ~R[1] <=> HeaderFits(b, o)
  BY HeadersTaken, PassedOn
<1>4. HeaderFits(b, o) => ~L[1]
  BY DEF HeaderFits, TooLong
<1>5. T[1] <=> ~(o + FrameLen(b, o) <= Len(b))
  BY TruncatedCheck
<1>6. FrameLen(b, o) \in Nat /\ FrameLen(b, o) >= WireSize /\ Len(b) \in Nat
  BY FrameLengths, Reads
<1> HIDE DEF P, Q, R, T, L
<1>7. /\ ts \in Seq(Checks) /\ Len(ts) = 2
      /\ c \in Seq(Checks) /\ Len(c) = 3
      /\ rs \in Seq(Checks) /\ Len(rs) = 3
  BY <1>2
<1>8. /\ (\A i \in 1..2 : ~ts[i][1]) <=> ~P[1] /\ ~T[1]
      /\ (\A i \in 1..3 : ~c[i][1]) <=> ~Q[1] /\ ~L[1] /\ ~T[1]
      /\ (\A i \in 1..3 : ~rs[i][1]) <=> ~R[1] /\ ~L[1] /\ ~T[1]
  OBVIOUS
<1>9. /\ Verdict(ts) \in Codes /\ Verdict(c) \in Codes /\ Verdict(rs) \in Codes
      /\ Verdict(ts) = "OK" <=> ~P[1] /\ ~T[1]
      /\ Verdict(c) = "OK" <=> ~Q[1] /\ ~L[1] /\ ~T[1]
      /\ Verdict(rs) = "OK" <=> ~R[1] /\ ~L[1] /\ ~T[1]
  BY <1>7, <1>8, NoCheckHolds
<1>10. /\ TsNextFrame(b, o) = "OK" <=> FrameFits(b, o)
       /\ CNextFrame(b, o) = "OK" <=> FrameFits(b, o)
       /\ RsNextFrame(b, o) = "OK" <=> FrameFits(b, o)
  BY <1>1, <1>3, <1>4, <1>5, <1>9 DEF FrameFits
<1>11. FrameFits(b, o) => FrameLen(b, o) \in WireSize .. Len(b) - o
  BY <1>6 DEF FrameFits, WireSize
<1>12. QED
  BY <1>1, <1>9, <1>10, <1>11

-----------------------------------------------------------------------------
\* One check before a list of checks.
LEMMA FirstThenRest ==
  ASSUME NEW verdict \in Codes, NEW d \in Seq(Checks)
  PROVE  Verdict(<<Passed(verdict)>> \o d) = "OK" <=> verdict = "OK" /\ Verdict(d) = "OK"
<1> DEFINE c == <<Passed(verdict)>>
<1>1. Passed(verdict) \in Checks /\ (Passed(verdict)[1] <=> verdict # "OK")
  BY PassedOn
<1>2. c \in Seq(Checks) /\ Len(c) = 1 /\ c[1] = Passed(verdict)
  BY <1>1
<1>3. Verdict(c) = "OK" <=> \A i \in 1..1 : ~c[i][1]
  BY <1>2, NoCheckHolds
<1>4. (\A i \in 1..1 : ~c[i][1]) <=> ~c[1][1]
  OBVIOUS
<1>5. Verdict(c) = "OK" <=> verdict = "OK"
  BY <1>1, <1>2, <1>3, <1>4
<1>6. QED
  BY <1>2, <1>5, BothAccept

\* The count of values of a payload of a fixed part and so many values.
LEMMA CountChecks ==
  ASSUME NEW f \in Buffers, NEW fixed \in {8, 12}
  PROVE  /\ CountFits(f, fixed) \in Seq(Checks)
         /\ Verdict(CountFits(f, fixed)) = "OK" <=>
              /\ ReadU32LE(f, WireSize) \in 0..MaxValues
              /\ Len(f) = WireSize + fixed + 4 * ReadU32LE(f, WireSize)
<1> DEFINE size == Len(f) - WireSize  count == ReadU32LE(f, WireSize)
           p == size < fixed \/ (size - fixed) % 4 # 0
           q == count > MaxValues
           r == size # fixed + 4 * count
           A == <<p, "INVALID">>  B == <<q, "LIMIT">>  D == <<r, "INVALID">>
<1>1. count \in Nat /\ Len(f) \in Nat /\ MaxValues \in Nat
  BY Reads DEF WireSize
<1>2. size \in Int /\ Len(f) = WireSize + size /\ WireSize \in Nat
  BY <1>1 DEF WireSize
<1>3. CountFits(f, fixed) = <<A, B, D>>
  BY DEF CountFits
<1> HIDE DEF size, count
<1>4. p \in BOOLEAN /\ q \in BOOLEAN /\ r \in BOOLEAN
  BY <1>1, <1>2
<1> HIDE DEF p, q, r
<1>5. /\ A \in Checks /\ (A[1] <=> p)
      /\ B \in Checks /\ (B[1] <=> q)
      /\ D \in Checks /\ (D[1] <=> r)
  BY <1>4, Refusal DEF Codes
<1> HIDE DEF A, B, D
<1>6. <<A, B, D>> \in Seq(Checks) /\ Len(<<A, B, D>>) = 3
  BY <1>5
<1>7. Verdict(<<A, B, D>>) = "OK" <=> ~A[1] /\ ~B[1] /\ ~D[1]
  <2>1. Verdict(<<A, B, D>>) = "OK" <=> \A i \in 1..3 : ~<<A, B, D>>[i][1]
    BY <1>6, NoCheckHolds
  <2>2. (\A i \in 1..3 : ~<<A, B, D>>[i][1]) <=> ~A[1] /\ ~B[1] /\ ~D[1]
    OBVIOUS
  <2>3. QED
    BY <2>1, <2>2
<1>8. ~p /\ ~q /\ ~r <=> count \in 0..MaxValues /\ Len(f) = WireSize + fixed + 4 * count
  <2>1. ~q /\ ~r <=> count \in 0..MaxValues /\ Len(f) = WireSize + fixed + 4 * count
    BY <1>1, <1>2 DEF q, r
  <2>2. ~r => ~p
    BY <1>1, <1>2 DEF p, r
  <2>3. QED
    BY <2>1, <2>2
<1>9. QED
  BY <1>3, <1>5, <1>6, <1>7, <1>8 DEF count

\* The checks of a frame against its command.
LEMMA FrameChecks ==
  ASSUME NEW f \in Buffers, NEW command, NEW flags
  PROVE  <<IsWhole(f), IsOf(f, command), Carries(f, flags)>> \in Seq(Checks)
<1>1. IsWhole(f) \in Checks
  BY Refusal DEF IsWhole, Codes
<1>2. IsOf(f, command) \in Checks
  BY Refusal DEF IsOf, Codes
<1>3. Carries(f, flags) \in Checks
  BY Refusal DEF Carries, Codes
<1>4. QED
  BY <1>1, <1>2, <1>3

(* For every width of a byte and every limit: what one language takes for  *)
(* a request the others take (decodeTransformRequest and its counterparts  *)
(* in core_wire.h and wire.rs), and then the count that it was sent with   *)
(* keeps the limit and the buffer holds just that many values.             *)
THEOREM RequestsAgree ==
  ASSUME NEW f \in Buffers
  PROVE  /\ TsRequestCode(f) = "OK" <=> CRequestCode(f) = "OK"
         /\ TsRequestCode(f) = "OK" <=> RsRequestCode(f) = "OK"
         /\ CRequestCode(f) = "OK" =>
              /\ ReadU32LE(f, WireSize) \in 0..MaxValues
              /\ Len(f) = WireSize + 12 + 4 * ReadU32LE(f, WireSize)
<1>1. /\ TsNextFrame(f, 0) \in Codes /\ CNextFrame(f, 0) \in Codes /\ RsNextFrame(f, 0) \in Codes
      /\ TsNextFrame(f, 0) = "OK" <=> CNextFrame(f, 0) = "OK"
      /\ TsNextFrame(f, 0) = "OK" <=> RsNextFrame(f, 0) = "OK"
  BY FramesAgree
<1>2. /\ RequestChecks(f) \in Seq(Checks)
      /\ Verdict(RequestChecks(f)) = "OK" => Verdict(CountFits(f, 12)) = "OK"
  BY FrameChecks, CountChecks, BothAccept DEF RequestChecks
<1>3. /\ TsRequestCode(f) = "OK" <=> TsNextFrame(f, 0) = "OK" /\ Verdict(RequestChecks(f)) = "OK"
      /\ CRequestCode(f) = "OK" <=> CNextFrame(f, 0) = "OK" /\ Verdict(RequestChecks(f)) = "OK"
      /\ RsRequestCode(f) = "OK" <=> RsNextFrame(f, 0) = "OK" /\ Verdict(RequestChecks(f)) = "OK"
  BY <1>1, <1>2, FirstThenRest DEF TsRequestCode, CRequestCode, RsRequestCode
<1>4. QED
  BY <1>1, <1>2, <1>3, CountChecks

(* The same for responses (decodeTransformResponse and its counterparts).  *)
THEOREM ResponsesAgree ==
  ASSUME NEW f \in Buffers
  PROVE  /\ TsResponseCode(f) = "OK" <=> CResponseCode(f) = "OK"
         /\ TsResponseCode(f) = "OK" <=> RsResponseCode(f) = "OK"
         /\ CResponseCode(f) = "OK" =>
              /\ ReadU32LE(f, WireSize) \in 0..MaxValues
              /\ Len(f) = WireSize + 8 + 4 * ReadU32LE(f, WireSize)
<1>1. /\ TsNextFrame(f, 0) \in Codes /\ CNextFrame(f, 0) \in Codes /\ RsNextFrame(f, 0) \in Codes
      /\ TsNextFrame(f, 0) = "OK" <=> CNextFrame(f, 0) = "OK"
      /\ TsNextFrame(f, 0) = "OK" <=> RsNextFrame(f, 0) = "OK"
  BY FramesAgree
<1>2. /\ ResponseChecks(f) \in Seq(Checks)
      /\ Verdict(ResponseChecks(f)) = "OK" => Verdict(CountFits(f, 8)) = "OK"
  BY FrameChecks, CountChecks, BothAccept DEF ResponseChecks
<1>3. /\ TsResponseCode(f) = "OK" <=> TsNextFrame(f, 0) = "OK" /\ Verdict(ResponseChecks(f)) = "OK"
      /\ CResponseCode(f) = "OK" <=> CNextFrame(f, 0) = "OK" /\ Verdict(ResponseChecks(f)) = "OK"
      /\ RsResponseCode(f) = "OK" <=> RsNextFrame(f, 0) = "OK" /\ Verdict(ResponseChecks(f)) = "OK"
  BY <1>1, <1>2, FirstThenRest DEF TsResponseCode, CResponseCode, RsResponseCode
<1>4. QED
  BY <1>1, <1>2, <1>3, CountChecks

-----------------------------------------------------------------------------
\* What a transform request must be to be written, in any language.
RequestWritable(r, flags, room) ==
  /\ Len(r.values) <= MaxValues /\ flags \in {0, ContinuedFlag}
  /\ WireSize + RequestSize(r) <= room

\* The header of a writable request is writable.
LEMMA HeaderWritable ==
  ASSUME NEW flags \in Nat, NEW size \in Nat, NEW room \in Nat
  PROVE  /\ HeaderRefusal(TransformCmd, flags, size, room) \in Codes
         /\ flags \in {0, ContinuedFlag} /\ size <= MaxPayload /\ WireSize + size <= room
              => HeaderRefusal(TransformCmd, flags, size, room) = "OK"
<1> DEFINE q == ~HeaderFlags(flags)  l == size > MaxPayload  s == room < WireSize
           A == <<TransformCmd \notin {GetInfoCmd, TransformCmd}, "INVALID">>
           B == <<q, "INVALID">>  D == <<l, "LIMIT">>  E == <<s, "SMALL">>
           c == <<A, B, D, E>>
<1>1. MaxPayload \in Nat
  BY WireAssumption DEF WireAssumption, Half, Word
<1>2. q \in BOOLEAN /\ l \in BOOLEAN /\ s \in BOOLEAN
  BY <1>1 DEF HeaderFlags, CompressedFlag, WireSize
<1>3. flags \in {0, ContinuedFlag} /\ size <= MaxPayload /\ WireSize + size <= room
        => ~q /\ ~l /\ ~s
  BY <1>1 DEF HeaderFlags, CompressedFlag, ContinuedFlag, WireSize
<1> HIDE DEF q, l, s
<1>4. /\ A \in Checks /\ ~A[1]
      /\ B \in Checks /\ (B[1] <=> q)
      /\ D \in Checks /\ (D[1] <=> l)
      /\ E \in Checks /\ (E[1] <=> s)
  BY <1>2, Refusal DEF Codes
<1>5. HeaderRefusal(TransformCmd, flags, size, room) = Verdict(c)
  BY DEF HeaderRefusal, q, l, s
<1> HIDE DEF A, B, D, E
<1>6. c \in Seq(Checks) /\ Len(c) = 4
  BY <1>4
<1>7. (\A i \in 1..4 : ~c[i][1]) <=> ~A[1] /\ ~B[1] /\ ~D[1] /\ ~E[1]
  OBVIOUS
<1>8. Verdict(c) \in Codes /\ (Verdict(c) = "OK" <=> ~A[1] /\ ~B[1] /\ ~D[1] /\ ~E[1])
  BY <1>6, <1>7, NoCheckHolds
<1>9. QED
  BY <1>3, <1>4, <1>5, <1>8

(* For every width of a byte and every limit: whatever the order of their  *)
(* checks, the three encoders write the same requests, those that keep the *)
(* limits and fit into the room that is left (encodeTransformRequest,      *)
(* core_wire_encode_transform_request, encode_transform_request).          *)
THEOREM EncodersAgree ==
  ASSUME NEW r, r.values \in Seq(Int), NEW flags \in Nat, NEW room \in Nat
  PROVE  /\ TsRequestRefusal(r, flags, room) = "OK" <=> RequestWritable(r, flags, room)
         /\ CRequestRefusal(r, flags, room) = "OK" <=> RequestWritable(r, flags, room)
         /\ RsRequestRefusal(r, flags, room) = "OK" <=> RequestWritable(r, flags, room)
<1> DEFINE size == RequestSize(r)
           h == HeaderRefusal(TransformCmd, flags, size, room)
           M == ManyValues(r)  F == NoRequestFlags(flags)  R == NoRoom(size, room)
           L == <<size > MaxPayload, "LIMIT">>  H == Passed(h)
           ts == <<F, M, R, H>>  c == <<M, F, R, H>>  rs == <<M, F, L, R, H>>
<1>1. /\ size \in Nat /\ MaxPayload \in Nat /\ MaxValues \in Nat /\ Len(r.values) \in Nat
      /\ size = 12 + 4 * Len(r.values)
      /\ Len(r.values) <= MaxValues => size <= MaxPayload
  BY LenProperties, WireAssumption DEF WireAssumption, Half, Word, RequestSize
<1>2. TsRequestRefusal(r, flags, room) = Verdict(ts) /\ CRequestRefusal(r, flags, room) = Verdict(c)
      /\ RsRequestRefusal(r, flags, room) = Verdict(rs)
  BY DEF TsRequestRefusal, CRequestRefusal, RsRequestRefusal
<1>3. M \in Checks /\ (M[1] <=> ~(Len(r.values) <= MaxValues))
  <2>1. (Len(r.values) > MaxValues) \in BOOLEAN
    BY <1>1
  <2>2. M \in Checks /\ (M[1] <=> Len(r.values) > MaxValues)
    BY <2>1, Refusal DEF ManyValues, Codes
  <2>3. QED
    BY <1>1, <2>2
<1>4. F \in Checks /\ (F[1] <=> flags \notin {0, ContinuedFlag})
  BY Refusal DEF NoRequestFlags, Codes
<1>5. R \in Checks /\ (R[1] <=> ~(WireSize + size <= room))
  <2>1. (WireSize + size > room) \in BOOLEAN
    BY <1>1 DEF WireSize
  <2>2. R \in Checks /\ (R[1] <=> WireSize + size > room)
    BY <2>1, Refusal DEF NoRoom, Codes
  <2>3. QED
    BY <1>1, <2>2 DEF WireSize
<1>6. L \in Checks /\ (L[1] <=> ~(size <= MaxPayload))
  <2>1. (size > MaxPayload) \in BOOLEAN
    BY <1>1
  <2>2. L \in Checks /\ (L[1] <=> size > MaxPayload)
    BY <2>1, Refusal DEF Codes
  <2>3. QED
    BY <1>1, <2>2
<1>7. /\ H \in Checks
      /\ flags \in {0, ContinuedFlag} /\ size <= MaxPayload /\ WireSize + size <= room => ~H[1]
  BY <1>1, HeaderWritable, PassedOn
<1>8. RequestWritable(r, flags, room) <=>
        /\ Len(r.values) <= MaxValues /\ flags \in {0, ContinuedFlag}
        /\ WireSize + size <= room
  BY DEF RequestWritable
<1> HIDE DEF M, F, R, L, H
<1>9. /\ ts \in Seq(Checks) /\ Len(ts) = 4
      /\ c \in Seq(Checks) /\ Len(c) = 4
      /\ rs \in Seq(Checks) /\ Len(rs) = 5
  BY <1>3, <1>4, <1>5, <1>6, <1>7
<1>10. /\ (\A i \in 1..4 : ~ts[i][1]) <=> ~F[1] /\ ~M[1] /\ ~R[1] /\ ~H[1]
       /\ (\A i \in 1..4 : ~c[i][1]) <=> ~M[1] /\ ~F[1] /\ ~R[1] /\ ~H[1]
       /\ (\A i \in 1..5 : ~rs[i][1]) <=> ~M[1] /\ ~F[1] /\ ~L[1] /\ ~R[1] /\ ~H[1]
  OBVIOUS
<1>11. /\ Verdict(ts) = "OK" <=> ~F[1] /\ ~M[1] /\ ~R[1] /\ ~H[1]
       /\ Verdict(c) = "OK" <=> ~M[1] /\ ~F[1] /\ ~R[1] /\ ~H[1]
       /\ Verdict(rs) = "OK" <=> ~M[1] /\ ~F[1] /\ ~L[1] /\ ~R[1] /\ ~H[1]
  BY <1>9, <1>10, NoCheckHolds
<1>12. QED
  BY <1>1, <1>2, <1>3, <1>4, <1>5, <1>6, <1>7, <1>8, <1>11

-----------------------------------------------------------------------------
(* Validation. *)

\* The code of a list of checks is that of the first that holds.
LEMMA FirstRefusal ==
  ASSUME NEW n \in Nat, NEW c, DOMAIN c = 1..n
  PROVE  /\ (\A i \in 1..n : ~c[i][1]) => Verdict(c) = "OK"
         /\ \A i \in 1..n : c[i][1] /\ (\A j \in 1..i - 1 : ~c[j][1])
                              => Verdict(c) = c[i][2]
         /\ \/ \A i \in 1..n : ~c[i][1]
            \/ \E i \in 1..n : c[i][1] /\ \A j \in 1..i - 1 : ~c[j][1]
<1>. DEFINE failed == {i \in DOMAIN c : c[i][1]}
<1>1. failed \in SUBSET Nat
  OBVIOUS
<1>2. CASE failed = {}
  BY <1>2 DEF Verdict
<1>3. CASE failed # {}
  <2>. DEFINE least == Min(failed)
  <2>1. least \in failed /\ \A j \in failed : least <= j
    BY <1>1, <1>3, MinIsLeast
  <2>2. Verdict(c) = c[least][2]
    BY <1>3, Zenon DEF Verdict
  <2>. HIDE DEF least
  <2>3. \A j \in 1..least - 1 : ~c[j][1]
    BY <2>1
  <2>4. ASSUME NEW i \in 1..n, c[i][1], \A j \in 1..i - 1 : ~c[j][1]
        PROVE  i = least
    BY <2>1, <2>3, <2>4
  <2>. QED
    BY <2>1, <2>2, <2>3, <2>4
<1>. QED
  BY <1>2, <1>3

\* Two lists of checks that hold alike refuse alike.
LEMMA SameVerdict ==
  ASSUME NEW n \in Nat, NEW c, NEW d, DOMAIN c = 1..n, DOMAIN d = 1..n,
         \A i \in 1..n : (c[i][1] <=> d[i][1]) /\ c[i][2] = d[i][2]
  PROVE  Verdict(c) = Verdict(d)
<1>1. CASE \A i \in 1..n : ~c[i][1]
  BY <1>1, FirstRefusal
<1>2. CASE \E i \in 1..n : c[i][1] /\ \A j \in 1..i - 1 : ~c[j][1]
  <2>1. PICK i \in 1..n : c[i][1] /\ \A j \in 1..i - 1 : ~c[j][1]
    BY <1>2
  <2>2. d[i][1] /\ \A j \in 1..i - 1 : ~d[j][1]
    BY <2>1
  <2>3. Verdict(c) = c[i][2]
    BY <2>1, FirstRefusal
  <2>4. Verdict(d) = d[i][2]
    BY <2>2, FirstRefusal
  <2>. QED
    BY <2>3, <2>4
<1>. QED
  BY <1>1, <1>2, FirstRefusal

-----------------------------------------------------------------------------
\* What JSON makes of a value: an array of as many items, an int32 of the same
\* number, or neither.
Carried(v, w) ==
  /\ (v.is = "array" <=> w.is = "array")
  /\ Len(w.items) = Len(v.items) /\ DOMAIN w.items = DOMAIN v.items
  /\ \A i \in DOMAIN v.items :
       /\ TsIsInt32(v.items[i]) <=> RsIsInt32(w.items[i])
       /\ TsIsInt32(v.items[i]) => w.items[i].n = v.items[i].n
  /\ TsIsInt32(v) <=> RsIsInt32(w)
  /\ TsIsInt32(v) => w.n = v.n

\* Zero is a number of 32 bits, however wide a byte is.
LEMMA ZeroIsInt32 == 0 \in Int32
<1>1. Base \in Nat /\ Base >= 4
  BY WireAssumption DEF WireAssumption
<1>2. Half \in Nat /\ Half >= 4
  BY <1>1 DEF Half
<1>3. Word \in Nat /\ Word >= 4
  BY <1>2 DEF Word
<1>. QED
  BY <1>3 DEF Int32, IntMin, IntMax

\* JSON keeps what an item is: an int32 with its number, or none.
LEMMA ItemsCarried ==
  ASSUME NEW v \in Scalars
  PROVE  /\ JsonItem(v).is # "array" /\ v.is # "array"
         /\ JsonItem(v).items = <<>> /\ v.items = <<>>
         /\ TsIsInt32(v) <=> RsIsInt32(JsonItem(v))
         /\ TsIsInt32(v) => JsonItem(v).n = v.n
<1>1. /\ v.is \in Kinds /\ v.items = <<>> /\ v.n \in Int
      /\ v.is = "minusZero" => v.n = 0
  BY DEF Scalars
<1>2. CASE v.is = "minusZero"
  BY <1>1, <1>2, ZeroIsInt32 DEF JsonItem, Number, Value, TsIsInt32, RsIsInt32
<1>3. CASE v.is \in {"nan", "hole", "undefined"}
  BY <1>1, <1>3 DEF JsonItem, Value, TsIsInt32, RsIsInt32
<1>4. CASE v.is \notin {"minusZero", "nan", "hole", "undefined"}
  <2>1. JsonItem(v) = v
    BY <1>4 DEF JsonItem
  <2>. QED
    BY <1>1, <1>4, <2>1 DEF Kinds, TsIsInt32, RsIsInt32
<1>. QED
  BY <1>2, <1>3, <1>4

\* JSON keeps what a field is, and the items of an array.
LEMMA FieldsCarried ==
  ASSUME NEW v \in JsValues
  PROVE  Carried(v, JsonField(v))
<1>1. CASE v \in Scalars
  <2>1. JsonField(v) = JsonItem(v)
    BY <1>1, ItemsCarried DEF JsonField
  <2>2. DOMAIN JsonItem(v).items = DOMAIN v.items /\ DOMAIN v.items = {}
    BY <1>1, ItemsCarried
  <2>. QED
    BY <1>1, <2>1, <2>2, ItemsCarried DEF Carried
<1>2. CASE v \in [is : {"array"}, n : {0}, items : Seq(Scalars)]
  <2>1. v.is = "array" /\ v.items \in Seq(Scalars)
    BY <1>2
  <2>. DEFINE items == [i \in DOMAIN v.items |-> JsonItem(v.items[i])]
  <2>2. JsonField(v) = ArrayOf(items)
    BY <2>1 DEF JsonField
  <2>3. ArrayOf(items).is = "array" /\ ArrayOf(items).items = items
    BY DEF ArrayOf, Value
  <2>4. DOMAIN v.items = 1..Len(v.items) /\ Len(v.items) \in Nat
    BY <2>1, LenProperties
  <2>5. Len(items) = Len(v.items) /\ DOMAIN items = DOMAIN v.items
    BY <2>4
  <2>6. \A i \in DOMAIN v.items : v.items[i] \in Scalars
    BY <2>1, <2>4, ElementOfSeq
  <2>7. ~TsIsInt32(v) /\ ~RsIsInt32(ArrayOf(items))
    BY <2>1, <2>3 DEF TsIsInt32, RsIsInt32
  <2>. QED
    BY <2>1, <2>2, <2>3, <2>5, <2>6, <2>7, ItemsCarried DEF Carried
<1>. QED
  BY <1>1, <1>2 DEF JsValues

\* A missing field is a value.
LEMMA UndefinedIsValue == Value("undefined") \in JsValues
  BY DEF Value, JsValues, Scalars, Kinds

\* Over JSON each field is carried, the missing ones included.
LEMMA RequestCarried ==
  ASSUME NEW r, IsRequest(r)
  PROVE  /\ JsonOf(r).plain = r.plain
         /\ DOMAIN JsonOf(r).own = {f \in DOMAIN r.own : r.own[f].is # "undefined"}
         /\ \A f : /\ Field(r, f) \in JsValues
                   /\ Carried(Field(r, f), Field(JsonOf(r), f))
<1>. DEFINE kept == {f \in DOMAIN r.own : r.own[f].is # "undefined"}
            own == [f \in kept |-> JsonField(r.own[f])]
<1>1. r.own \in [DOMAIN r.own -> JsValues] /\ r \in [plain : BOOLEAN, own : {r.own}]
  BY DEF IsRequest
<1>2. JsonOf(r) = [r EXCEPT !.own = own]
  BY DEF JsonOf
<1>3. JsonOf(r).plain = r.plain /\ JsonOf(r).own = own
  BY <1>1, <1>2
<1>4. ASSUME NEW f
      PROVE  Field(r, f) \in JsValues /\ Carried(Field(r, f), Field(JsonOf(r), f))
  <2>1. CASE f \in kept
    <3>1. Field(r, f) = r.own[f] /\ r.own[f] \in JsValues
      BY <1>1, <2>1 DEF Field
    <3>2. Field(JsonOf(r), f) = JsonField(r.own[f])
      BY <1>3, <2>1 DEF Field
    <3>. QED
      BY <3>1, <3>2, FieldsCarried
  <2>2. CASE f \notin kept
    <3>1. Field(JsonOf(r), f) = Value("undefined")
      BY <1>3, <2>2 DEF Field
    <3>2. Field(r, f) \in JsValues /\ Field(r, f).is = "undefined"
      BY <1>1, <2>2, UndefinedIsValue DEF Field, Value
    <3>3. Field(r, f) \in Scalars
      BY <3>2 DEF JsValues
    <3>4. Field(r, f).items = <<>>
      BY <3>3 DEF Scalars
    <3>. QED
      BY <3>1, <3>2, <3>4 DEF Carried, Value, TsIsInt32, RsIsInt32
  <2>. QED
    BY <2>1, <2>2
<1>. QED
  BY <1>3, <1>4

\* The numbers a language takes for an int32.
TsInts(r) == {v \in Numbers(r) : TsIsInt32(v)}
RsInts(r) == {v \in Numbers(r) : RsIsInt32(v)}

\* A field or an item is among the numbers of its request.
LEMMA AmongNumbers ==
  ASSUME NEW r
  PROVE  /\ \A f \in {"multiplier", "offset"} :
              /\ Field(r, f) \notin TsInts(r) <=> ~TsIsInt32(Field(r, f))
              /\ Field(r, f) \notin RsInts(r) <=> ~RsIsInt32(Field(r, f))
         /\ \A item \in ToSet(Field(r, "values").items) :
              /\ item \notin TsInts(r) <=> ~TsIsInt32(item)
              /\ item \notin RsInts(r) <=> ~RsIsInt32(item)
  BY DEF TsInts, RsInts, Numbers

\* Where JSON leaves out no field, both shapes are refused alike.
LEMMA ShapesAlike ==
  ASSUME NEW r, IsRequest(r), \A f \in DOMAIN r.own : r.own[f].is # "undefined"
  PROVE  TsValidate(r) = RsValidate(JsonOf(r))
<1>. PICK j : j = JsonOf(r)
  OBVIOUS
<1>. DEFINE c == RequestShape(r, TsInts(r))
            d == RequestShape(j, RsInts(j))
            vs == Field(r, "values")
            ws == Field(j, "values")
<1>1. /\ j.plain = r.plain
      /\ DOMAIN j.own = DOMAIN r.own
      /\ \A f : Carried(Field(r, f), Field(j, f))
  BY RequestCarried
<1>2. MaxValues \in Nat
  BY WireAssumption DEF WireAssumption
<1>3. DOMAIN c = 1..8 /\ DOMAIN d = 1..8
  BY DEF RequestShape
<1>4. (c[1][1] <=> d[1][1]) /\ c[1][2] = d[1][2]
  BY <1>1 DEF RequestShape
<1>5. (c[2][1] <=> d[2][1]) /\ c[2][2] = d[2][2]
  BY <1>1 DEF RequestShape
<1>6. (c[3][1] <=> d[3][1]) /\ c[3][2] = d[3][2]
  BY <1>1 DEF RequestShape
<1>7. (c[4][1] <=> d[4][1]) /\ c[4][2] = d[4][2]
  BY <1>1 DEF RequestShape, Carried
<1>8. (c[5][1] <=> d[5][1]) /\ c[5][2] = d[5][2]
  BY <1>1 DEF RequestShape, Carried
<1>9. (c[6][1] <=> d[6][1]) /\ c[6][2] = d[6][2]
  <2>1. /\ c[6][1] <=> \E item \in ToSet(vs.items) : ~TsIsInt32(item)
        /\ d[6][1] <=> \E item \in ToSet(ws.items) : ~RsIsInt32(item)
    <3>1. c[6][1] <=> \E item \in ToSet(vs.items) : item \notin TsInts(r)
      BY DEF RequestShape
    <3>2. d[6][1] <=> \E item \in ToSet(ws.items) : item \notin RsInts(j)
      BY DEF RequestShape
    <3>. QED
      BY <3>1, <3>2, AmongNumbers
  <2>2. /\ ToSet(vs.items) = {vs.items[i] : i \in DOMAIN vs.items}
        /\ ToSet(ws.items) = {ws.items[i] : i \in DOMAIN ws.items}
    BY DEF ToSet
  <2>3. /\ DOMAIN ws.items = DOMAIN vs.items
        /\ \A i \in DOMAIN vs.items : TsIsInt32(vs.items[i]) <=> RsIsInt32(ws.items[i])
    BY <1>1 DEF Carried
  <2>4. c[6][2] = d[6][2]
    BY DEF RequestShape
  <2>. HIDE DEF vs, ws, c, d
  <2>. QED
    BY <2>1, <2>2, <2>3, <2>4
<1>10. ASSUME NEW k \in {7, 8} PROVE (c[k][1] <=> d[k][1]) /\ c[k][2] = d[k][2]
  <2>1. PICK f \in {"multiplier", "offset"} :
          /\ c[k] = <<Field(r, f) \notin TsInts(r), "INVALID_ARGUMENT">>
          /\ d[k] = <<Field(j, f) \notin RsInts(j), "INVALID_ARGUMENT">>
    <3>1. /\ c[7] = <<Field(r, "multiplier") \notin TsInts(r), "INVALID_ARGUMENT">>
          /\ d[7] = <<Field(j, "multiplier") \notin RsInts(j), "INVALID_ARGUMENT">>
      BY DEF RequestShape
    <3>2. /\ c[8] = <<Field(r, "offset") \notin TsInts(r), "INVALID_ARGUMENT">>
          /\ d[8] = <<Field(j, "offset") \notin RsInts(j), "INVALID_ARGUMENT">>
      BY DEF RequestShape
    <3>. QED
      BY <1>10, <3>1, <3>2
  <2>2. TsIsInt32(Field(r, f)) <=> RsIsInt32(Field(j, f))
    BY <1>1 DEF Carried
  <2>3. /\ Field(r, f) \notin TsInts(r) <=> ~TsIsInt32(Field(r, f))
        /\ Field(j, f) \notin RsInts(j) <=> ~RsIsInt32(Field(j, f))
    BY AmongNumbers
  <2>. QED
    BY <2>1, <2>2, <2>3
<1>11. TsValidate(r) = Verdict(c) /\ RsValidate(JsonOf(r)) = Verdict(d)
  BY DEF TsValidate, RsValidate, TsInts, RsInts
<1>. HIDE DEF c, d
<1>12. \A i \in 1..8 : (c[i][1] <=> d[i][1]) /\ c[i][2] = d[i][2]
  BY <1>4, <1>5, <1>6, <1>7, <1>8, <1>9, <1>10
<1>13. 8 \in Nat
  OBVIOUS
<1>14. ASSUME NEW n \in Nat, n = 8 PROVE Verdict(c) = Verdict(d)
  <2>1. DOMAIN c = 1..n /\ DOMAIN d = 1..n
    BY <1>3, <1>14
  <2>2. \A i \in 1..n : (c[i][1] <=> d[i][1]) /\ c[i][2] = d[i][2]
    BY <1>12, <1>14
  <2>. QED
    BY <2>1, <2>2, SameVerdict
<1>. QED
  BY <1>11, <1>13, <1>14

\* What the page accepts.
LEMMA PageAccepts ==
  ASSUME NEW r, IsRequest(r), TsValidate(r) = "OK"
  PROVE  /\ DOMAIN r.own = RequestFields
         /\ \A f \in DOMAIN r.own : r.own[f].is # "undefined"
         /\ Field(r, "values").is = "array"
         /\ Len(Field(r, "values").items) \in 0..MaxValues
         /\ \A i \in DOMAIN Field(r, "values").items : TsIsInt32(Field(r, "values").items[i])
         /\ TsIsInt32(Field(r, "multiplier")) /\ TsIsInt32(Field(r, "offset"))
<1>. DEFINE c == RequestShape(r, TsInts(r))
            values == Field(r, "values")
<1>1. \A i \in 1..8 : ~c[i][1]
  <2>1. DOMAIN c = 1..8 /\ \A i \in 1..8 : c[i][2] # "OK"
    BY DEF RequestShape
  <2>2. Verdict(c) = "OK"
    BY DEF TsValidate, TsInts
  <2>. HIDE DEF c
  <2>3. ASSUME NEW n \in Nat, n = 8 PROVE \A i \in 1..n : ~c[i][1]
    <3>1. DOMAIN c = 1..n /\ \A i \in 1..n : c[i][2] # "OK"
      BY <2>1, <2>3
    <3>. QED
      BY <2>2, <3>1, FirstRefusal
  <2>. QED
    BY <2>3
<1>2. ~c[2][1] /\ ~c[3][1] /\ ~c[4][1] /\ ~c[5][1] /\ ~c[6][1] /\ ~c[7][1] /\ ~c[8][1]
  BY <1>1
<1>3. DOMAIN r.own = RequestFields
  BY <1>2 DEF RequestShape
<1>4. values.is = "array" /\ ~(Len(values.items) > MaxValues)
  BY <1>2 DEF RequestShape
<1>5. values \in JsValues
  BY RequestCarried
<1>6. values.items \in Seq(Scalars)
  BY <1>4, <1>5, ItemsCarried DEF JsValues
<1>7. Len(values.items) \in 0..MaxValues
  BY <1>4, <1>6, LenProperties, WireAssumption DEF WireAssumption
<1>8. \A i \in DOMAIN values.items : TsIsInt32(values.items[i])
  <2>1. \A item \in ToSet(values.items) : item \in TsInts(r)
    BY <1>2 DEF RequestShape
  <2>2. \A i \in DOMAIN values.items : values.items[i] \in ToSet(values.items)
    BY DEF ToSet
  <2>. QED
    BY <2>1, <2>2 DEF TsInts
<1>9. Field(r, "multiplier") \in TsInts(r) /\ Field(r, "offset") \in TsInts(r)
  BY <1>2 DEF RequestShape
<1>10. TsIsInt32(Field(r, "multiplier")) /\ TsIsInt32(Field(r, "offset"))
  BY <1>9 DEF TsInts
<1>11. \A f \in DOMAIN r.own : r.own[f].is # "undefined"
  <2>1. \A f \in DOMAIN r.own : Field(r, f) = r.own[f]
    BY DEF Field
  <2>2. \A f \in RequestFields : Field(r, f).is # "undefined"
    BY <1>4, <1>10 DEF RequestFields, TsIsInt32
  <2>. QED
    BY <1>3, <2>1, <2>2
<1>. QED
  BY <1>3, <1>4, <1>7, <1>8, <1>10, <1>11

\* What is accepted arrives with its numbers, which are int32.
LEMMA NumbersArrive ==
  ASSUME NEW r, IsRequest(r), TsValidate(r) = "OK"
  PROVE  /\ RsValidate(JsonOf(r)) = "OK"
         /\ Snapshot(JsonOf(r)) = Snapshot(r)
         /\ Snapshot(r).values \in Seq(Int32) /\ Len(Snapshot(r).values) \in 0..MaxValues
         /\ Snapshot(r).multiplier \in Int32 /\ Snapshot(r).offset \in Int32
<1>. DEFINE values == Field(r, "values")
<1>1. RsValidate(JsonOf(r)) = "OK"
  BY PageAccepts, ShapesAlike
<1>2. \A f : Field(r, f) \in JsValues /\ Carried(Field(r, f), Field(JsonOf(r), f))
  BY RequestCarried
<1>3. /\ DOMAIN Field(JsonOf(r), "values").items = DOMAIN values.items
      /\ \A i \in DOMAIN values.items :
           Field(JsonOf(r), "values").items[i].n = values.items[i].n
  BY <1>2, PageAccepts DEF Carried
<1>4. \A f \in {"multiplier", "offset"} : Field(JsonOf(r), f).n = Field(r, f).n
  BY <1>2, PageAccepts DEF Carried
<1>5. Snapshot(JsonOf(r)) = Snapshot(r)
  BY <1>3, <1>4 DEF Snapshot
<1>6. \A v \in JsValues : TsIsInt32(v) => v.n \in Int32
  BY ZeroIsInt32 DEF JsValues, Scalars, TsIsInt32
<1>7. values.items \in Seq(Scalars)
  BY <1>2, PageAccepts, ItemsCarried DEF JsValues
<1>8. DOMAIN values.items = 1..Len(values.items) /\ Len(values.items) \in Nat
  BY <1>7, LenProperties
<1>9. \A i \in 1..Len(values.items) : values.items[i].n \in Int32
  BY <1>6, <1>7, <1>8, PageAccepts, ElementOfSeq DEF JsValues
<1>10. Snapshot(r).values = [i \in 1..Len(values.items) |-> values.items[i].n]
  BY <1>8 DEF Snapshot
<1>11. Snapshot(r).values \in Seq(Int32) /\ Len(Snapshot(r).values) = Len(values.items)
  BY <1>8, <1>9, <1>10, IsASeq
<1>12. Snapshot(r).multiplier \in Int32 /\ Snapshot(r).offset \in Int32
  BY <1>2, <1>6, PageAccepts DEF Snapshot
<1>. QED
  BY <1>1, <1>5, <1>11, <1>12, PageAccepts

\* An information is refused for its host, then for its ABI.
LEMMA InfosJudged ==
  ASSUME NEW os \in {"macos", "ios", "linux"}, NEW abi \in 0..2
  PROVE  InfoJudged(NativeInfo(os, abi)) =
           IF os = "linux" THEN "TRANSPORT_ERROR" ELSE IF abi = 1 THEN "OK" ELSE "ABI_MISMATCH"
<1>. PICK info : info = NativeInfo(os, abi)
  OBVIOUS
<1>. DEFINE c ==
       << <<info.apiVersion # ApiVersion, "TRANSPORT_ERROR">>,
          <<info.backend \notin {"tauri-native", "wasm-worker"}, "TRANSPORT_ERROR">>,
          <<info.hostOs \notin Hosts, "TRANSPORT_ERROR">>,
          <<info.execution \notin {"native-ffi", "dedicated-worker"}, "TRANSPORT_ERROR">>,
          << (info.backend = "tauri-native") # (info.execution = "native-ffi"),
             "TRANSPORT_ERROR">>,
          << (info.backend = "wasm-worker") # (info.hostOs = "browser"), "TRANSPORT_ERROR">>,
          <<info.version = <<>>, "TRANSPORT_ERROR">>,
          <<info.abi # 1, "ABI_MISMATCH">> >>
<1>1. InfoJudged(info) = Verdict(c)
  BY DEF InfoJudged
<1>2. /\ info.apiVersion = ApiVersion /\ info.backend = "tauri-native"
      /\ info.hostOs = os /\ info.execution = "native-ffi"
      /\ info.abi = abi /\ info.version # <<>>
  BY CoreAssumption DEF NativeInfo, CoreAssumption
<1>3. DOMAIN c = 1..8
  OBVIOUS
<1>4. /\ ~c[1][1] /\ ~c[2][1] /\ ~c[4][1] /\ ~c[5][1] /\ ~c[6][1] /\ ~c[7][1]
      /\ c[3][1] <=> os = "linux"
      /\ c[8][1] <=> abi # 1
      /\ c[3][2] = "TRANSPORT_ERROR" /\ c[8][2] = "ABI_MISMATCH"
  BY <1>2 DEF Hosts
<1>. HIDE DEF c
<1>5. ASSUME NEW n \in Nat, n = 8
      PROVE  Verdict(c) = IF os = "linux" THEN "TRANSPORT_ERROR"
                          ELSE IF abi = 1 THEN "OK" ELSE "ABI_MISMATCH"
  <2>1. DOMAIN c = 1..n
    BY <1>3, <1>5
  <2>2. \A i \in 1..n : i \in {1, 2, 3, 4, 5, 6, 7, 8}
    BY <1>5
  <2>3. CASE os = "linux"
    <3>1. 3 \in 1..n /\ c[3][1] /\ \A j \in 1..3 - 1 : ~c[j][1]
      BY <1>4, <1>5, <2>3
    <3>2. Verdict(c) = c[3][2]
      BY <2>1, <3>1, FirstRefusal
    <3>. QED
      BY <1>4, <2>3, <3>2
  <2>4. CASE os # "linux" /\ abi = 1
    <3>1. \A i \in 1..n : ~c[i][1]
      BY <1>4, <2>2, <2>4
    <3>. QED
      BY <2>1, <2>4, <3>1, FirstRefusal
  <2>5. CASE os # "linux" /\ abi # 1
    <3>1. PICK i : i = 8
      OBVIOUS
    <3>2. i \in 1..n /\ c[i][1] /\ \A j \in 1..i - 1 : ~c[j][1]
      BY <1>4, <1>5, <2>5, <3>1
    <3>3. \A k \in 1..n : c[k][1] /\ (\A j \in 1..k - 1 : ~c[j][1]) => Verdict(c) = c[k][2]
      BY <2>1, FirstRefusal
    <3>4. Verdict(c) = c[i][2]
      BY <3>2, <3>3
    <3>. QED
      BY <1>4, <2>5, <3>1, <3>4
  <2>. QED
    BY <2>3, <2>4, <2>5
<1>. QED
  BY <1>1, <1>5

\* What the page accepts the host accepts, with the same numbers, and refuses with the
\* same code what JSON carries there: TsValidate, JSON.stringify and RsValidate, for
\* every argument of transform() and every limit.
THEOREM ValidationsAreAlike == Spec => []ValidationsAgree
<1>1. ASSUME IsRequest(request) PROVE ValidationsAgree
  BY <1>1, NumbersArrive, ShapesAlike, InfosJudged DEF ValidationsAgree
<1>2. Init => IsRequest(request)
  <2>1. NoRequest \in [plain : BOOLEAN, own : [{} -> JsValues]] /\ DOMAIN NoRequest.own = {}
    BY DEF NoRequest
  <2>. QED
    BY <2>1 DEF Init, IsRequest
<1>3. IsRequest(request) /\ [Next]_vars => IsRequest(request)'
  <2>1. ASSUME NEW r \in Inputs, Submit(r) PROVE IsRequest(request)'
    BY <2>1, PlaneAssumption DEF Submit, IsRequest
  <2>. QED
    BY <2>1 DEF Next, vars, collected, SubmitInfo, SubmitForeign, DamageRequest, SendBundle,
          SendCall, SendOver, HostRefusesEmpty, HostFails, HostFrame, HostDone, JsonCall,
          InvokeFrame, InvokeDone, DamageReply, Receive
<1>. QED
  BY <1>1, <1>2, <1>3, PTL DEF Spec

-----------------------------------------------------------------------------
(* Numbers and their digits. *)

\* A number, its quotient and its remainder; a digit and a rest are found again.
LEMMA Digits ==
  ASSUME NEW M \in Nat, M >= 2, NEW v \in Int
  PROVE  /\ v = M * (v \div M) + (v % M)
         /\ v % M \in 0..M - 1 /\ v \div M \in Int
         /\ \A x \in 0..M - 1, y \in Int : (x + M * y) % M = x /\ (x + M * y) \div M = y
  OBVIOUS

\* A factor of a factor.
LEMMA Distributes ==
  ASSUME NEW M \in Nat, NEW p \in Int, NEW x \in Int, NEW y \in Int
  PROVE  x + M * (y + M * p) = (x + M * y) + (M * M) * p
  OBVIOUS

\* Two digits stay below the square of the base.
LEMMA DigitBounds ==
  ASSUME NEW M \in Nat, M >= 2, NEW x \in 0..M - 1, NEW y \in 0..M - 1
  PROVE  /\ M * M \in Nat /\ M * M >= 2
         /\ x + M * y \in 0..M * M - 1
<1>1. M * y \in Int /\ M * y <= M * (M - 1) /\ M * y >= 0
  OBVIOUS
<1>2. M * (M - 1) = M * M - M
  OBVIOUS
<1>. QED
  BY <1>1, <1>2

\* Two digits are the number up to the square of the base, and no others are.
LEMMA TwoDigits ==
  ASSUME NEW M \in Nat, M >= 2, NEW v \in Int
  PROVE  /\ (v % M) + M * ((v \div M) % M) = v % (M * M)
         /\ \A x, y \in 0..M - 1 :
              x + M * y = v % (M * M) => x = v % M /\ y = (v \div M) % M
<1>1. PICK q \in Int, x \in 0..M - 1 : q = v \div M /\ x = v % M /\ v = M * q + x
  <2>1. v \div M \in Int /\ v % M \in 0..M - 1 /\ v = M * (v \div M) + (v % M)
    BY Digits
  <2>. QED
    BY <2>1, Zenon
<1>2. PICK p \in Int, y \in 0..M - 1 : p = q \div M /\ y = q % M /\ q = M * p + y
  <2>1. q \div M \in Int /\ q % M \in 0..M - 1 /\ q = M * (q \div M) + (q % M)
    BY Digits
  <2>. QED
    BY <2>1, Zenon
<1>3. v = (x + M * y) + (M * M) * p
  <2>1. v = x + M * (y + M * p)
    BY <1>1, <1>2
  <2>. QED
    BY <2>1, Distributes
<1>4. PICK n \in Nat : n = M * M /\ n >= 2 /\ x + M * y \in 0..n - 1
  BY DigitBounds
<1>5. v % n = x + M * y
  <2>1. PICK z \in 0..n - 1 : z = x + M * y
    BY <1>4
  <2>2. v = z + n * p
    BY <1>3, <1>4, <2>1
  <2>. QED
    <3>1. /\ n \in Nat /\ n >= 2 /\ z \in 0..n - 1 /\ p \in Int
          /\ \A u \in 0..n - 1, w \in Int : (u + n * w) % n = u
      BY <1>4, Digits
    <3>2. (z + n * p) % n = z
      BY <3>1
    <3>. QED
      BY <2>1, <2>2, <3>2
<1>6. ASSUME NEW c \in 0..M - 1, NEW d \in 0..M - 1, c + M * d = x + M * y
      PROVE  c = x /\ d = y
  <2>1. (c + M * d) % M = c /\ (c + M * d) \div M = d
    BY Digits
  <2>2. (x + M * y) % M = x /\ (x + M * y) \div M = y
    BY Digits
  <2>. QED
    BY <1>6, <2>1, <2>2
<1>7. \A c, d \in 0..M - 1 : c + M * d = v % n => c = x /\ d = y
  BY <1>5, <1>6
<1>. QED
  BY <1>1, <1>2, <1>4, <1>5, <1>7

-----------------------------------------------------------------------------
(* Bytes that are written and read. *)

\* What the assumption says of the sizes of a byte, a u16 and a u32, and of the limits.
LEMMA Sizes ==
  /\ Base \in Nat /\ Base >= 4 /\ Half \in Nat /\ Half >= 16 /\ Word \in Nat /\ Word >= 256
  /\ Half = Base * Base /\ Word = Half * Half /\ Base <= Half
  /\ Word = 2 * (Word \div 2) /\ Word \div 2 \in Nat /\ Word \div 2 >= 128
  /\ IntMax = Word \div 2 - 1 /\ IntMin = -(Word \div 2)
  /\ MaxValues \in Nat \ {0} /\ MaxPayload \in Nat /\ MaxPayload >= 12 + 4 * MaxValues
  /\ MaxPayload < Word /\ MaxVersionLen \in 1..MaxPayload - 8
  /\ Magic \in 0..Half - 1
<1>1. Base \in Nat /\ Base >= 4 /\ Base % 2 = 0
  BY WireAssumption DEF WireAssumption
<1>2. PICK k \in Nat : Base = 2 * k
  BY <1>1
<1>3. Half \in Nat /\ Half >= 16 /\ Half = Base * Base /\ Base <= Half
  BY <1>1 DEF Half
<1>4. Word \in Nat /\ Word >= 256 /\ Word = Half * Half
  BY <1>3 DEF Word
<1>5. PICK m \in Nat : Half = 2 * m
  <2>1. Half = 2 * (k * Base) /\ k * Base \in Nat
    BY <1>1, <1>2, <1>3
  <2>. QED
    BY <2>1
<1>6. PICK w \in Nat : Word = 2 * w
  <2>1. Word = 2 * (m * Half) /\ m * Half \in Nat
    BY <1>3, <1>4, <1>5
  <2>. QED
    BY <2>1
<1>7. w = Word \div 2 /\ w >= 128
  BY <1>4, <1>6
<1>8. /\ MaxValues \in Nat \ {0} /\ MaxPayload \in Nat /\ MaxPayload >= 12 + 4 * MaxValues
      /\ MaxPayload < Word /\ MaxVersionLen \in 1..MaxPayload - 8 /\ Magic \in 0..Half - 1
  BY <1>3, <1>4, WireAssumption DEF WireAssumption
<1>. QED
  BY <1>1, <1>3, <1>4, <1>6, <1>7, <1>8 DEF IntMax, IntMin

Byte == 0..Base - 1

\* The bytes of a buffer.
LEMMA BufferBytes ==
  ASSUME NEW b \in Buffers
  PROVE  /\ Len(b) \in Nat /\ DOMAIN b = 1..Len(b)
         /\ \A i \in 1..Len(b) : b[i] \in Byte
         /\ \A i \in Nat : At(b, i) \in Byte
<1>1. /\ Len(b) \in Nat /\ DOMAIN b = 1..Len(b)
      /\ \A i \in 1..Len(b) : b[i] \in Byte
  BY ElementOfSeq, LenProperties DEF Buffers, Byte
<1>2. 0 \in Byte
  BY Sizes DEF Byte
<1>3. \A i \in Nat : i < Len(b) => i + 1 \in 1..Len(b)
  BY <1>1
<1>. QED
  BY <1>1, <1>2, <1>3 DEF At

\* Two buffers after one another.
LEMMA Joined ==
  ASSUME NEW s \in Buffers, NEW t \in Buffers
  PROVE  /\ s \o t \in Buffers /\ Len(s \o t) = Len(s) + Len(t)
         /\ \A i \in 1..Len(s) : (s \o t)[i] = s[i]
         /\ \A i \in 1..Len(t) : (s \o t)[Len(s) + i] = t[i]
  BY ConcatProperties DEF Buffers

\* What can be read at all.
LEMMA ReadBounds ==
  ASSUME NEW b \in Buffers, NEW o \in Nat
  PROVE  ReadU16LE(b, o) \in 0..Half - 1 /\ ReadU32LE(b, o) \in 0..Word - 1
<1>1. ASSUME NEW i \in Nat PROVE ReadU16LE(b, i) \in 0..Half - 1
  <2>1. At(b, i) \in 0..Base - 1 /\ At(b, i + 1) \in 0..Base - 1
    <3>1. \A j \in Nat : At(b, j) \in Byte
      BY BufferBytes
    <3>2. i + 1 \in Nat
      OBVIOUS
    <3>. QED
      BY <3>1, <3>2 DEF Byte
  <2>. QED
    BY <2>1, Sizes, DigitBounds DEF ReadU16LE
<1>2. ReadU16LE(b, o) \in 0..Half - 1 /\ ReadU16LE(b, o + 2) \in 0..Half - 1
  BY <1>1
<1>3. ReadU32LE(b, o) \in 0..Word - 1
  BY <1>2, Sizes, DigitBounds DEF ReadU32LE
<1>. QED
  BY <1>2, <1>3

\* What is written of a number.
LEMMA Written ==
  ASSUME NEW v \in Int
  PROVE  /\ WriteU16LE(v) \in Buffers /\ Len(WriteU16LE(v)) = 2
         /\ WriteU16LE(v)[1] = v % Base /\ WriteU16LE(v)[2] = (v \div Base) % Base
         /\ WriteU32LE(v) \in Buffers /\ Len(WriteU32LE(v)) = 4
         /\ WriteU32LE(v)[1] = v % Base /\ WriteU32LE(v)[2] = (v \div Base) % Base
         /\ WriteU32LE(v)[3] = (v \div Half) % Base
         /\ WriteU32LE(v)[4] = ((v \div Half) \div Base) % Base
<1>1. ASSUME NEW u \in Int
      PROVE  /\ WriteU16LE(u) \in Buffers /\ Len(WriteU16LE(u)) = 2
             /\ WriteU16LE(u)[1] = u % Base /\ WriteU16LE(u)[2] = (u \div Base) % Base
  <2>1. PICK x \in Byte, y \in Byte : x = u % Base /\ y = (u \div Base) % Base
    <3>1. u % Base \in Byte /\ u \div Base \in Int
      BY Sizes, Digits DEF Byte
    <3>2. PICK q \in Int : q = u \div Base
      BY <3>1
    <3>3. q % Base \in Byte
      BY Sizes, Digits DEF Byte
    <3>. QED
      BY <3>1, <3>2, <3>3
  <2>2. WriteU16LE(u) = <<x, y>>
    BY <2>1 DEF WriteU16LE
  <2>. QED
    BY <2>1, <2>2 DEF Buffers, Byte
<1>2. v \div Half \in Int
  BY Sizes, Digits
<1>3. PICK s \in Buffers, t \in Buffers : s = WriteU16LE(v) /\ t = WriteU16LE(v \div Half)
  BY <1>1, <1>2
<1>4. /\ s \o t \in Buffers /\ Len(s \o t) = 4
      /\ (s \o t)[1] = s[1] /\ (s \o t)[2] = s[2]
      /\ (s \o t)[3] = t[1] /\ (s \o t)[4] = t[2]
  <2>1. Len(s) = 2 /\ Len(t) = 2
    BY <1>1, <1>2, <1>3
  <2>2. PICK u \in Buffers : u = s \o t
    BY Joined
  <2>3. /\ Len(u) = Len(s) + Len(t)
        /\ \A i \in 1..Len(s) : u[i] = s[i]
        /\ \A i \in 1..Len(t) : u[Len(s) + i] = t[i]
    BY <2>2, Joined
  <2>4. Len(u) = 4 /\ \A i \in 1..2 : u[i] = s[i] /\ u[2 + i] = t[i]
    BY <2>1, <2>3
  <2>5. u[1] = s[1] /\ u[2] = s[2] /\ u[3] = t[1] /\ u[4] = t[2]
    BY <2>4
  <2>. QED
    BY <2>2, <2>4, <2>5
<1>5. WriteU32LE(v) = s \o t
  BY <1>3 DEF WriteU32LE
<1>. QED
  BY <1>1, <1>2, <1>3, <1>4, <1>5

\* Two bytes are a u16, two of these a u32.
LEMMA HalfDigits ==
  ASSUME NEW v \in Int
  PROVE  /\ (v % Base) + Base * ((v \div Base) % Base) = v % Half
         /\ \A x, y \in 0..Base - 1 :
              x + Base * y = v % Half => x = v % Base /\ y = (v \div Base) % Base
<1>1. Base \in Nat /\ Base >= 2 /\ Half = Base * Base
  BY Sizes
<1>. QED
  BY <1>1, TwoDigits, Zenon

\* Two u16 are a u32, and no others are.
LEMMA WordDigits ==
  ASSUME NEW v \in Int
  PROVE  /\ (v % Half) + Half * ((v \div Half) % Half) = v % Word
         /\ \A x, y \in 0..Half - 1 :
              x + Half * y = v % Word => x = v % Half /\ y = (v \div Half) % Half
<1>1. Half \in Nat /\ Half >= 2 /\ Word = Half * Half
  BY Sizes
<1>. QED
  BY <1>1, TwoDigits, Zenon

\* A remainder is known by what it leaves.
LEMMA WordRemainder ==
  ASSUME NEW x \in 0..Word - 1, NEW y \in Int, NEW v, v = x + Word * y
  PROVE  v % Word = x
<1>1. Word \in Nat /\ Word >= 2
  BY Sizes
<1>. QED
  BY <1>1, Digits, Zenon

\* The bytes t are found in b at offset o.
Holds(b, o, t) == o + Len(t) <= Len(b) /\ \A k \in 1..Len(t) : b[o + k] = t[k]

\* A byte that is held is read.
LEMMA HeldAt ==
  ASSUME NEW b \in Buffers, NEW o \in Nat, NEW t, Len(t) \in Nat, Holds(b, o, t),
         NEW i \in 0..Len(t) - 1
  PROVE  At(b, o + i) = t[i + 1]
<1>1. Len(b) \in Nat
  BY BufferBytes
<1>2. o + i < Len(b) /\ b[o + (i + 1)] = t[i + 1] /\ o + i + 1 = o + (i + 1)
  BY <1>1 DEF Holds
<1>. QED
  BY <1>2 DEF At

\* A number written somewhere is read there.
LEMMA ReadBack ==
  ASSUME NEW b \in Buffers, NEW o \in Nat, NEW v \in Int
  PROVE  /\ Holds(b, o, WriteU16LE(v)) => ReadU16LE(b, o) = v % Half
         /\ Holds(b, o, WriteU32LE(v)) => ReadU32LE(b, o) = v % Word
<1>1. ASSUME Holds(b, o, WriteU16LE(v)) PROVE ReadU16LE(b, o) = v % Half
  <2>1. PICK t : t = WriteU16LE(v) /\ Len(t) = 2
    BY Written
  <2>2. Holds(b, o, t) /\ Len(t) \in Nat
    BY <1>1, <2>1
  <2>3. At(b, o) = t[1] /\ At(b, o + 1) = t[2]
    <3>1. \A i \in 0..Len(t) - 1 : At(b, o + i) = t[i + 1]
      BY <2>2, HeldAt
    <3>2. At(b, o + 0) = t[0 + 1] /\ At(b, o + 1) = t[1 + 1]
      BY <2>1, <3>1
    <3>. QED
      BY <3>2
  <2>4. ReadU16LE(b, o) = (v % Base) + Base * ((v \div Base) % Base)
    BY <2>1, <2>3, Written DEF ReadU16LE
  <2>. QED
    BY <2>4, HalfDigits
<1>2. ASSUME Holds(b, o, WriteU32LE(v)) PROVE ReadU32LE(b, o) = v % Word
  <2>1. PICK t : t = WriteU32LE(v) /\ Len(t) = 4
    BY Written
  <2>2. Holds(b, o, t) /\ Len(t) \in Nat
    BY <1>2, <2>1
  <2>3. /\ At(b, o) = t[1] /\ At(b, o + 1) = t[2]
        /\ At(b, o + 2) = t[3] /\ At(b, (o + 2) + 1) = t[4]
    <3>1. \A i \in 0..Len(t) - 1 : At(b, o + i) = t[i + 1]
      BY <2>2, HeldAt
    <3>2. /\ At(b, o + 0) = t[0 + 1] /\ At(b, o + 1) = t[1 + 1]
          /\ At(b, o + 2) = t[2 + 1] /\ At(b, o + 3) = t[3 + 1]
      BY <2>1, <3>1
    <3>. QED
      BY <3>2
  <2>4. PICK w \in Int : w = v \div Half
    BY Sizes, Digits
  <2>5. ReadU16LE(b, o) = (v % Base) + Base * ((v \div Base) % Base)
    BY <2>1, <2>3, Written DEF ReadU16LE
  <2>6. ReadU16LE(b, o + 2) = (w % Base) + Base * ((w \div Base) % Base)
    BY <2>1, <2>3, <2>4, Written DEF ReadU16LE
  <2>7. ReadU16LE(b, o) = v % Half /\ ReadU16LE(b, o + 2) = w % Half
    BY <2>5, <2>6, HalfDigits
  <2>8. ReadU32LE(b, o) = (v % Half) + Half * (w % Half)
    BY <2>7 DEF ReadU32LE
  <2>. QED
    BY <2>4, <2>8, WordDigits
<1>. QED
  BY <1>1, <1>2

\* A number read somewhere is written there.
LEMMA WriteBack ==
  ASSUME NEW b \in Buffers, NEW o \in Nat, NEW v \in Int
  PROVE  /\ o + 2 <= Len(b) /\ ReadU16LE(b, o) = v % Half => Holds(b, o, WriteU16LE(v))
         /\ o + 4 <= Len(b) /\ ReadU32LE(b, o) = v % Word => Holds(b, o, WriteU32LE(v))
<1>1. \A i \in Nat : At(b, i) \in 0..Base - 1
  BY BufferBytes DEF Byte
<1>2. ASSUME NEW i \in Nat, NEW u \in Int, ReadU16LE(b, i) = u % Half
      PROVE  At(b, i) = u % Base /\ At(b, i + 1) = (u \div Base) % Base
  <2>1. At(b, i) \in 0..Base - 1 /\ At(b, i + 1) \in 0..Base - 1
    BY <1>1
  <2>2. At(b, i) + Base * At(b, i + 1) = u % Half
    BY <1>2 DEF ReadU16LE
  <2>. QED
    BY <2>1, <2>2, HalfDigits, Zenon
<1>3. ASSUME o + 2 <= Len(b), ReadU16LE(b, o) = v % Half
      PROVE  Holds(b, o, WriteU16LE(v))
  <2>1. At(b, o) = b[o + 1] /\ At(b, o + 1) = b[o + 2]
    BY <1>3, BufferBytes DEF At
  <2>2. \A k \in 1..2 : b[o + k] = WriteU16LE(v)[k]
    BY <1>2, <1>3, <2>1, Written
  <2>. QED
    BY <1>3, <2>2, Written DEF Holds
<1>4. ASSUME o + 4 <= Len(b), ReadU32LE(b, o) = v % Word
      PROVE  Holds(b, o, WriteU32LE(v))
  <2>1. /\ At(b, o) = b[o + 1] /\ At(b, o + 1) = b[o + 2]
        /\ At(b, o + 2) = b[o + 3] /\ At(b, (o + 2) + 1) = b[o + 4]
    BY <1>4, BufferBytes DEF At
  <2>2. ReadU16LE(b, o) \in 0..Half - 1 /\ ReadU16LE(b, o + 2) \in 0..Half - 1
    BY ReadBounds
  <2>3. ReadU16LE(b, o) = v % Half /\ ReadU16LE(b, o + 2) = (v \div Half) % Half
    <3>1. ReadU16LE(b, o) + Half * ReadU16LE(b, o + 2) = v % Word
      BY <1>4 DEF ReadU32LE
    <3>. QED
      BY <2>2, <3>1, WordDigits, Zenon
  <2>4. PICK w \in Int : w = v \div Half
    BY Sizes, Digits
  <2>5. /\ b[o + 1] = v % Base /\ b[o + 2] = (v \div Base) % Base
        /\ b[o + 3] = w % Base /\ b[o + 4] = (w \div Base) % Base
    BY <1>2, <2>1, <2>3, <2>4
  <2>6. PICK t : t = WriteU32LE(v)
    OBVIOUS
  <2>7. /\ Len(t) = 4 /\ b[o + 1] = t[1] /\ b[o + 2] = t[2]
        /\ b[o + 3] = t[3] /\ b[o + 4] = t[4]
    BY <2>4, <2>5, <2>6, Written
  <2>8. \A k \in 1..4 : b[o + k] = t[k]
    BY <2>7
  <2>. QED
    BY <1>4, <2>6, <2>7, <2>8 DEF Holds
<1>. QED
  BY <1>3, <1>4

\* The signed reading is a number's own, and keeps its bytes.
LEMMA SignedNumbers ==
  /\ \A v \in Int32 : Signed(v % Word) = v
  /\ \A u \in 0..Word - 1 : Signed(u) \in Int32 /\ Signed(u) % Word = u
  /\ \A u \in 0..Word - 1 : u % Word = u
  /\ \A u \in 0..Half - 1 : u % Half = u
<1>1. ASSUME NEW v \in Int32 PROVE Signed(v % Word) = v
  <2>1. CASE v >= 0
    <3>1. v % Word = v
      BY <1>1, <2>1, Sizes DEF Int32
    <3>. QED
      BY <1>1, <2>1, <3>1, Sizes DEF Signed, Int32
  <2>2. CASE v < 0
    <3>1. v + Word \in 0..Word - 1 /\ v = (v + Word) + Word * (-1) /\ -1 \in Int
      BY <1>1, <2>2, Sizes DEF Int32
    <3>2. v % Word = v + Word
      BY <3>1, WordRemainder, Zenon
    <3>. QED
      BY <1>1, <2>2, <3>2, Sizes DEF Signed, Int32
  <2>. QED
    BY <1>1, <2>1, <2>2, Sizes DEF Int32
<1>2. ASSUME NEW u \in 0..Word - 1 PROVE Signed(u) \in Int32 /\ Signed(u) % Word = u
  <2>1. CASE u > IntMax
    <3>1. Signed(u) = u + Word * (-1) /\ Signed(u) \in Int32 /\ -1 \in Int
      BY <2>1, Sizes DEF Signed, Int32
    <3>2. Signed(u) % Word = u
      BY <3>1, WordRemainder, Zenon
    <3>. QED
      BY <3>1, <3>2
  <2>2. CASE ~(u > IntMax)
    <3>1. Signed(u) = u /\ Signed(u) \in Int32
      BY <2>2, Sizes DEF Signed, Int32
    <3>. QED
      BY <3>1, Sizes
  <2>. QED
    BY <2>1, <2>2
<1>. QED
  BY <1>1, <1>2, Sizes

\* Held at one offset: the bytes there; held one after the other: the whole.
LEMMA HeldWhole ==
  ASSUME NEW b \in Buffers
  PROVE  /\ Holds(b, 0, b)
         /\ \A t \in Buffers : Holds(b, 0, t) /\ Len(b) = Len(t) => b = t
<1>1. Holds(b, 0, b)
  BY BufferBytes DEF Holds
<1>2. ASSUME NEW t \in Buffers, Holds(b, 0, t), Len(b) = Len(t) PROVE b = t
  <2>1. \A k \in 1..Len(t) : b[k] = t[k]
    BY <1>2, BufferBytes DEF Holds
  <2>. QED
    BY <1>2, <2>1, SeqEqual DEF Buffers
<1>. QED
  BY <1>1, <1>2

\* Pieces are held one after the other.
LEMMA HeldJoined ==
  ASSUME NEW b \in Buffers, NEW o \in Nat, NEW s \in Buffers, NEW t \in Buffers
  PROVE  Holds(b, o, s \o t) <=> Holds(b, o, s) /\ Holds(b, o + Len(s), t)
<1>1. PICK u \in Buffers : u = s \o t
  BY Joined
<1>2. /\ Len(u) = Len(s) + Len(t)
      /\ \A i \in 1..Len(s) : u[i] = s[i]
      /\ \A i \in 1..Len(t) : u[Len(s) + i] = t[i]
      /\ Len(s) \in Nat /\ Len(t) \in Nat /\ Len(b) \in Nat
  BY <1>1, Joined, BufferBytes
<1>3. ASSUME Holds(b, o, u) PROVE Holds(b, o, s) /\ Holds(b, o + Len(s), t)
  <2>1. \A k \in 1..Len(s) : k \in 1..Len(u)
    BY <1>2
  <2>2. \A k \in 1..Len(t) : Len(s) + k \in 1..Len(u) /\ o + (Len(s) + k) = (o + Len(s)) + k
    BY <1>2
  <2>3. \A k \in 1..Len(u) : b[o + k] = u[k]
    BY <1>3 DEF Holds
  <2>4. o + Len(s) <= Len(b) /\ (o + Len(s)) + Len(t) <= Len(b)
    BY <1>2, <1>3 DEF Holds
  <2>. QED
    BY <1>2, <2>1, <2>2, <2>3, <2>4 DEF Holds
<1>4. ASSUME Holds(b, o, s), Holds(b, o + Len(s), t) PROVE Holds(b, o, u)
  <2>1. ASSUME NEW k \in 1..Len(u) PROVE b[o + k] = u[k]
    <3>1. CASE k <= Len(s)
      BY <1>2, <1>4, <3>1 DEF Holds
    <3>2. CASE k > Len(s)
      <4>1. PICK j \in 1..Len(t) : k = Len(s) + j
        <5>1. k - Len(s) \in 1..Len(t) /\ k = Len(s) + (k - Len(s))
          BY <1>2, <3>2
        <5>. QED
          BY <5>1
      <4>2. b[(o + Len(s)) + j] = t[j] /\ (o + Len(s)) + j = o + k
        BY <1>2, <1>4, <4>1 DEF Holds
      <4>. QED
        BY <1>2, <4>1, <4>2
    <3>. QED
      BY <1>2, <3>1, <3>2
  <2>2. o + Len(u) <= Len(b)
    BY <1>2, <1>4 DEF Holds
  <2>. QED
    BY <2>1, <2>2 DEF Holds
<1>. QED
  BY <1>1, <1>3, <1>4

\* Numbers are held where they are read.
LEMMA NumberHeld ==
  ASSUME NEW b \in Buffers, NEW o \in Nat, NEW v \in Int
  PROVE  /\ Holds(b, o, WriteU16LE(v)) <=> o + 2 <= Len(b) /\ ReadU16LE(b, o) = v % Half
         /\ Holds(b, o, WriteU32LE(v)) <=> o + 4 <= Len(b) /\ ReadU32LE(b, o) = v % Word
<1>1. /\ Holds(b, o, WriteU16LE(v)) => o + 2 <= Len(b)
      /\ Holds(b, o, WriteU32LE(v)) => o + 4 <= Len(b)
  BY Written DEF Holds
<1>. QED
  BY <1>1, ReadBack, WriteBack

\* A signed number is held where it is read.
LEMMA SignedHeld ==
  ASSUME NEW b \in Buffers, NEW o \in Nat, NEW v \in Int32
  PROVE  Holds(b, o, WriteU32LE(v)) <=> o + 4 <= Len(b) /\ ReadI32LE(b, o) = v
<1>1. v \in Int /\ ReadU32LE(b, o) \in 0..Word - 1
  BY ReadBounds, Sizes DEF Int32
<1>2. PICK u \in 0..Word - 1 : u = ReadU32LE(b, o)
  BY <1>1
<1>3. u = v % Word <=> Signed(u) = v
  BY SignedNumbers
<1>. QED
  BY <1>1, <1>2, <1>3, NumberHeld DEF ReadI32LE

\* All values are.
LEMMA ItemsWritten ==
  ASSUME NEW values \in Seq(Int)
  PROVE  /\ WriteI32s(values) \in Buffers /\ Len(WriteI32s(values)) = 4 * Len(values)
         /\ \A i \in 1..Len(values), k \in 1..4 :
              WriteI32s(values)[4 * (i - 1) + k] = WriteU32LE(values[i])[k]
<1>1. Len(values) \in Nat /\ \A i \in 1..Len(values) : values[i] \in Int
  BY ElementOfSeq, LenProperties
<1>2. PICK n \in Nat : n = 4 * Len(values)
  BY <1>1
<1>3. ASSUME NEW j \in 1..n
      PROVE  /\ (j - 1) \div 4 + 1 \in 1..Len(values)
             /\ j - 4 * ((j - 1) \div 4) \in 1..4
  BY <1>1, <1>2
<1>4. \A i \in 1..Len(values) : \A k \in 1..4 : WriteU32LE(values[i])[k] \in Byte
  BY <1>1, Written, BufferBytes
<1>5. WriteI32s(values) =
        [j \in 1..n |-> WriteU32LE(values[(j - 1) \div 4 + 1])[j - 4 * ((j - 1) \div 4)]]
  BY <1>2 DEF WriteI32s
<1>6. \A j \in 1..n : WriteU32LE(values[(j - 1) \div 4 + 1])[j - 4 * ((j - 1) \div 4)] \in Byte
  BY <1>3, <1>4
<1>7. WriteI32s(values) \in Buffers /\ Len(WriteI32s(values)) = n
  BY <1>5, <1>6, IsASeq DEF Buffers, Byte
<1>8. ASSUME NEW i \in 1..Len(values), NEW k \in 1..4
      PROVE  WriteI32s(values)[4 * (i - 1) + k] = WriteU32LE(values[i])[k]
  <2>1. PICK j \in 1..n : j = 4 * (i - 1) + k /\ (j - 1) \div 4 = i - 1
    <3>1. 4 * (i - 1) + k \in 1..n /\ (4 * (i - 1) + k - 1) \div 4 = i - 1
      BY <1>1, <1>2
    <3>. QED
      BY <3>1
  <2>2. (j - 1) \div 4 + 1 = i /\ j - 4 * ((j - 1) \div 4) = k
    BY <1>1, <2>1
  <2>. QED
    BY <1>5, <2>1, <2>2
<1>. QED
  BY <1>2, <1>7, <1>8

\* So are all values of a payload.
LEMMA ItemsHeld ==
  ASSUME NEW b \in Buffers, NEW o \in Nat, NEW values \in Seq(Int32)
  PROVE  Holds(b, o, WriteI32s(values)) <=>
           o + 4 * Len(values) <= Len(b) /\ Ints(b, o, Len(values)) = values
<1>1. /\ values \in Seq(Int) /\ Len(values) \in Nat /\ Len(b) \in Nat
      /\ DOMAIN values = 1..Len(values)
      /\ \A i \in 1..Len(values) : values[i] \in Int32
      /\ Int32 \subseteq Int
  <2>1. Int32 \subseteq Int
    BY Sizes DEF Int32
  <2>2. Len(values) \in Nat /\ DOMAIN values = 1..Len(values)
        /\ \A i \in 1..Len(values) : values[i] \in Int32
    BY ElementOfSeq, LenProperties
  <2>. QED
    BY <2>1, <2>2, BufferBytes, SeqMonotonic
<1>2. PICK t \in Buffers : t = WriteI32s(values)
  BY <1>1, ItemsWritten
<1>3. /\ Len(t) = 4 * Len(values)
      /\ \A i \in 1..Len(values), k \in 1..4 : t[4 * (i - 1) + k] = WriteU32LE(values[i])[k]
  BY <1>1, <1>2, ItemsWritten
<1>4. \A i \in 1..Len(values) : Len(WriteU32LE(values[i])) = 4
  BY <1>1, Written
<1>5. ASSUME o + 4 * Len(values) <= Len(b)
      PROVE  /\ Holds(b, o, t) <=>
                  \A i \in 1..Len(values) : Holds(b, o + 4 * (i - 1), WriteU32LE(values[i]))
             /\ \A i \in 1..Len(values) : o + 4 * (i - 1) \in Nat /\ o + 4 * (i - 1) + 4 <= Len(b)
  <2>1. \A i \in 1..Len(values) : o + 4 * (i - 1) \in Nat /\ o + 4 * (i - 1) + 4 <= Len(b)
    BY <1>1, <1>5
  <2>2. ASSUME Holds(b, o, t), NEW i \in 1..Len(values)
        PROVE  Holds(b, o + 4 * (i - 1), WriteU32LE(values[i]))
    <3>1. ASSUME NEW k \in 1..4 PROVE b[(o + 4 * (i - 1)) + k] = WriteU32LE(values[i])[k]
      <4>1. PICK j \in 1..Len(t) : j = 4 * (i - 1) + k /\ (o + 4 * (i - 1)) + k = o + j
        <5>1. 4 * (i - 1) + k \in 1..Len(t)
          BY <1>1, <1>3
        <5>. QED
          BY <1>1, <5>1
      <4>. QED
        BY <1>3, <2>2, <4>1 DEF Holds
    <3>. QED
      BY <1>4, <2>1, <3>1 DEF Holds
  <2>3. ASSUME \A i \in 1..Len(values) : Holds(b, o + 4 * (i - 1), WriteU32LE(values[i]))
        PROVE  Holds(b, o, t)
    <3>1. ASSUME NEW j \in 1..Len(t) PROVE b[o + j] = t[j]
      <4>1. PICK i \in 1..Len(values), k \in 1..4 : j = 4 * (i - 1) + k
        <5>1. /\ (j - 1) \div 4 + 1 \in 1..Len(values)
              /\ j - 4 * ((j - 1) \div 4) \in 1..4
          BY <1>1, <1>3
        <5>2. j = 4 * (((j - 1) \div 4 + 1) - 1) + (j - 4 * ((j - 1) \div 4))
          BY <1>1, <1>3
        <5>. QED
          BY <5>1, <5>2
      <4>2. b[(o + 4 * (i - 1)) + k] = WriteU32LE(values[i])[k]
        BY <1>4, <2>3 DEF Holds
      <4>3. (o + 4 * (i - 1)) + k = o + j
        BY <1>1, <4>1
      <4>. QED
        BY <1>3, <4>1, <4>2, <4>3
    <3>. QED
      BY <1>3, <1>5, <3>1 DEF Holds
  <2>. QED
    BY <2>1, <2>2, <2>3
<1>6. ASSUME o + 4 * Len(values) <= Len(b)
      PROVE  Holds(b, o, t) <=> \A i \in 1..Len(values) : ReadI32LE(b, o + 4 * (i - 1)) = values[i]
  BY <1>1, <1>5, <1>6, SignedHeld
<1>7. (\A i \in 1..Len(values) : ReadI32LE(b, o + 4 * (i - 1)) = values[i])
        <=> Ints(b, o, Len(values)) = values
  <2>1. ASSUME \A i \in 1..Len(values) : ReadI32LE(b, o + 4 * (i - 1)) = values[i]
        PROVE  Ints(b, o, Len(values)) = values
    <3>1. PICK w : w = Ints(b, o, Len(values))
      OBVIOUS
    <3>2. /\ w = [i \in 1..Len(values) |-> ReadI32LE(b, o + 4 * (i - 1))]
          /\ \A i \in 1..Len(values) : w[i] = values[i]
      BY <2>1, <3>1 DEF Ints
    <3>3. w \in Seq(Int32) /\ Len(w) = Len(values)
      BY <1>1, <3>2, IsASeq
    <3>. QED
      BY <3>1, <3>2, <3>3, SeqEqual
  <2>2. \A i \in 1..Len(values) :
          Ints(b, o, Len(values))[i] = ReadI32LE(b, o + 4 * (i - 1))
    BY DEF Ints
  <2>. QED
    BY <2>1, <2>2
<1>8. Holds(b, o, t) => o + 4 * Len(values) <= Len(b)
  BY <1>3 DEF Holds
<1>. QED
  BY <1>2, <1>6, <1>7, <1>8

-----------------------------------------------------------------------------
(* Frames that are written and read. *)

\* One piece after the other, and where the second starts.
Joint(s, t) == s \o t

\* A joint is held where its pieces are.
LEMMA JointHeld ==
  ASSUME NEW b \in Buffers, NEW o \in Nat, NEW s \in Buffers, NEW t \in Buffers
  PROVE  /\ Joint(s, t) \in Buffers /\ Len(Joint(s, t)) = Len(s) + Len(t)
         /\ Holds(b, o, Joint(s, t)) <=> Holds(b, o, s) /\ Holds(b, o + Len(s), t)
  BY Joined, HeldJoined DEF Joint

\* Numbers that fit are written as they are.
LEMMA Unwrapped ==
  /\ \A n \in 0..Half - 1 : n \in Int /\ n % Half = n
  /\ \A n \in 0..Word - 1 : n \in Int /\ n % Word = n
  /\ \A n \in 0..MaxValues : n \in Nat /\ n \in 0..Word - 1
  /\ 0 \in 0..Half - 1 /\ 0 \in 0..Word - 1 /\ 1 \in 0..Half - 1 /\ 2 \in 0..Half - 1
  /\ Int32 \subseteq Int
  BY Sizes, SignedNumbers DEF Int32

\* A header is held where its fields are read.
HeaderSays(b, o, command, flags, sequence, size) ==
  /\ o + WireSize <= Len(b) /\ ReadU16LE(b, o) = Magic
  /\ Header(b, o) = [command |-> command, flags |-> flags, sequence |-> sequence,
                     payloadLen |-> size]
  /\ ReadU32LE(b, o + 12) = 0

\* A header that is held says what it was written from, and the other way round.
LEMMA HeaderHeld ==
  ASSUME NEW b \in Buffers, NEW o \in Nat, NEW command \in 0..Half - 1,
         NEW flags \in 0..Half - 1, NEW sequence \in Int, NEW size \in 0..Word - 1
  PROVE  /\ EncodedHeader(command, flags, sequence, size) \in Buffers
         /\ Len(EncodedHeader(command, flags, sequence, size)) = WireSize
         /\ Holds(b, o, EncodedHeader(command, flags, sequence, size)) <=>
              HeaderSays(b, o, command, flags, sequence % Half, size)
<1>1. /\ Magic \in Int /\ command \in Int /\ flags \in Int /\ size \in Int
      /\ Magic % Half = Magic /\ command % Half = command /\ flags % Half = flags
      /\ size % Word = size /\ 0 % Word = 0
  BY Sizes, Unwrapped
<1>2. PICK m, c, k, s, z, n :
        /\ m = WriteU16LE(Magic) /\ c = WriteU16LE(command) /\ k = WriteU16LE(flags)
        /\ s = WriteU16LE(sequence) /\ z = WriteU32LE(size) /\ n = WriteU32LE(0)
  OBVIOUS
<1>3. PICK q1, q2, q3, q4, f :
        /\ q1 = Joint(m, c) /\ q2 = Joint(q1, k)
        /\ q3 = Joint(q2, s) /\ q4 = Joint(q3, z)
        /\ f = Joint(q4, n)
  OBVIOUS
<1>4. /\ m \in Buffers /\ c \in Buffers /\ k \in Buffers
      /\ s \in Buffers /\ z \in Buffers /\ n \in Buffers
      /\ Len(m) = 2 /\ Len(c) = 2 /\ Len(k) = 2 /\ Len(s) = 2 /\ Len(z) = 4 /\ Len(n) = 4
  BY <1>1, <1>2, Written
<1>5. /\ q1 \in Buffers /\ Len(q1) = Len(m) + Len(c)
      /\ Holds(b, o, q1) <=> Holds(b, o, m) /\ Holds(b, o + Len(m), c)
      /\ q2 \in Buffers /\ Len(q2) = Len(q1) + Len(k)
      /\ Holds(b, o, q2) <=> Holds(b, o, q1) /\ Holds(b, o + Len(q1), k)
      /\ q3 \in Buffers /\ Len(q3) = Len(q2) + Len(s)
      /\ Holds(b, o, q3) <=> Holds(b, o, q2) /\ Holds(b, o + Len(q2), s)
      /\ q4 \in Buffers /\ Len(q4) = Len(q3) + Len(z)
      /\ Holds(b, o, q4) <=> Holds(b, o, q3) /\ Holds(b, o + Len(q3), z)
      /\ f \in Buffers /\ Len(f) = Len(q4) + Len(n)
      /\ Holds(b, o, f) <=> Holds(b, o, q4) /\ Holds(b, o + Len(q4), n)
  <2>1. q1 \in Buffers /\ Len(q1) = Len(m) + Len(c)
        /\ (Holds(b, o, q1) <=> Holds(b, o, m) /\ Holds(b, o + Len(m), c))
    <3>1. q1 = Joint(m, c)
      BY <1>3
    <3>2. m \in Buffers /\ c \in Buffers
      BY <1>4
    <3>. QED
      BY <3>1, <3>2, JointHeld, Zenon
  <2>2. q2 \in Buffers /\ Len(q2) = Len(q1) + Len(k)
        /\ (Holds(b, o, q2) <=> Holds(b, o, q1) /\ Holds(b, o + Len(q1), k))
    <3>1. q2 = Joint(q1, k)
      BY <1>3
    <3>2. q1 \in Buffers /\ k \in Buffers
      BY <1>4, <2>1
    <3>. QED
      BY <3>1, <3>2, JointHeld, Zenon
  <2>3. q3 \in Buffers /\ Len(q3) = Len(q2) + Len(s)
        /\ (Holds(b, o, q3) <=> Holds(b, o, q2) /\ Holds(b, o + Len(q2), s))
    <3>1. q3 = Joint(q2, s)
      BY <1>3
    <3>2. q2 \in Buffers /\ s \in Buffers
      BY <1>4, <2>2
    <3>. QED
      BY <3>1, <3>2, JointHeld, Zenon
  <2>4. q4 \in Buffers /\ Len(q4) = Len(q3) + Len(z)
        /\ (Holds(b, o, q4) <=> Holds(b, o, q3) /\ Holds(b, o + Len(q3), z))
    <3>1. q4 = Joint(q3, z)
      BY <1>3
    <3>2. q3 \in Buffers /\ z \in Buffers
      BY <1>4, <2>3
    <3>. QED
      BY <3>1, <3>2, JointHeld, Zenon
  <2>5. f \in Buffers /\ Len(f) = Len(q4) + Len(n)
        /\ (Holds(b, o, f) <=> Holds(b, o, q4) /\ Holds(b, o + Len(q4), n))
    <3>1. f = Joint(q4, n)
      BY <1>3
    <3>2. q4 \in Buffers /\ n \in Buffers
      BY <1>4, <2>4
    <3>. QED
      BY <3>1, <3>2, JointHeld, Zenon
  <2>. QED
    BY <2>1, <2>2, <2>3, <2>4, <2>5
<1>6. /\ Len(q1) = 4 /\ Len(q2) = 6 /\ Len(q3) = 8 /\ Len(q4) = 12 /\ Len(f) = 16
  BY <1>4, <1>5
<1>7. /\ o + Len(m) = o + 2 /\ o + Len(q1) = o + 4 /\ o + Len(q2) = o + 6
      /\ o + Len(q3) = o + 8 /\ o + Len(q4) = o + 12
      /\ o + 2 \in Nat /\ o + 4 \in Nat /\ o + 6 \in Nat /\ o + 8 \in Nat
      /\ o + 12 \in Nat /\ Len(b) \in Nat
  BY <1>4, <1>6, BufferBytes
<1>8. Holds(b, o, f) <=>
        /\ Holds(b, o, m) /\ Holds(b, o + 2, c) /\ Holds(b, o + 4, k)
        /\ Holds(b, o + 6, s) /\ Holds(b, o + 8, z) /\ Holds(b, o + 12, n)
  BY <1>5, <1>7
<1>9. /\ Holds(b, o, m) <=> o + 2 <= Len(b) /\ ReadU16LE(b, o) = Magic % Half
      /\ Holds(b, o + 2, c) <=> (o + 2) + 2 <= Len(b) /\ ReadU16LE(b, o + 2) = command % Half
      /\ Holds(b, o + 4, k) <=> (o + 4) + 2 <= Len(b) /\ ReadU16LE(b, o + 4) = flags % Half
      /\ Holds(b, o + 6, s) <=> (o + 6) + 2 <= Len(b) /\ ReadU16LE(b, o + 6) = sequence % Half
      /\ Holds(b, o + 8, z) <=> (o + 8) + 4 <= Len(b) /\ ReadU32LE(b, o + 8) = size % Word
      /\ Holds(b, o + 12, n) <=> (o + 12) + 4 <= Len(b) /\ ReadU32LE(b, o + 12) = 0 % Word
  <2>1. /\ Holds(b, o, m) <=> o + 2 <= Len(b) /\ ReadU16LE(b, o) = Magic % Half
        /\ Holds(b, o + 2, c) <=> (o + 2) + 2 <= Len(b) /\ ReadU16LE(b, o + 2) = command % Half
    BY <1>1, <1>2, <1>7, NumberHeld
  <2>2. /\ Holds(b, o + 4, k) <=> (o + 4) + 2 <= Len(b) /\ ReadU16LE(b, o + 4) = flags % Half
        /\ Holds(b, o + 6, s) <=> (o + 6) + 2 <= Len(b) /\ ReadU16LE(b, o + 6) = sequence % Half
    BY <1>1, <1>2, <1>7, NumberHeld
  <2>3. /\ Holds(b, o + 8, z) <=> (o + 8) + 4 <= Len(b) /\ ReadU32LE(b, o + 8) = size % Word
        /\ Holds(b, o + 12, n) <=> (o + 12) + 4 <= Len(b) /\ ReadU32LE(b, o + 12) = 0 % Word
    BY <1>1, <1>2, <1>7, NumberHeld
  <2>. QED
    BY <2>1, <2>2, <2>3
<1>10. PICK h : h = sequence % Half
  OBVIOUS
<1>11. Header(b, o) = [command |-> command, flags |-> flags, sequence |-> h, payloadLen |-> size]
         <=> /\ ReadU16LE(b, o + 2) = command /\ ReadU16LE(b, o + 4) = flags
             /\ ReadU16LE(b, o + 6) = h /\ ReadU32LE(b, o + 8) = size
  BY DEF Header
<1>12. /\ Holds(b, o, m) <=> o + 2 <= Len(b) /\ ReadU16LE(b, o) = Magic
       /\ Holds(b, o + 2, c) <=> (o + 2) + 2 <= Len(b) /\ ReadU16LE(b, o + 2) = command
       /\ Holds(b, o + 4, k) <=> (o + 4) + 2 <= Len(b) /\ ReadU16LE(b, o + 4) = flags
       /\ Holds(b, o + 6, s) <=> (o + 6) + 2 <= Len(b) /\ ReadU16LE(b, o + 6) = h
       /\ Holds(b, o + 8, z) <=> (o + 8) + 4 <= Len(b) /\ ReadU32LE(b, o + 8) = size
       /\ Holds(b, o + 12, n) <=> (o + 12) + 4 <= Len(b) /\ ReadU32LE(b, o + 12) = 0
  BY <1>1, <1>9, <1>10
<1>13. Holds(b, o, f) <=> HeaderSays(b, o, command, flags, h, size)
  BY <1>7, <1>8, <1>11, <1>12 DEF HeaderSays, WireSize
<1>14. EncodedHeader(command, flags, sequence, size) = f
  BY <1>2, <1>3 DEF EncodedHeader, Joint
<1>. QED
  BY <1>5, <1>6, <1>10, <1>13, <1>14 DEF WireSize

\* A header is 16 bytes.
LEMMA HeaderLength ==
  ASSUME NEW command \in 0..Half - 1, NEW flags \in 0..Half - 1, NEW sequence \in Int,
         NEW size \in 0..Word - 1
  PROVE  /\ EncodedHeader(command, flags, sequence, size) \in Buffers
         /\ Len(EncodedHeader(command, flags, sequence, size)) = 16
<1>1. <<>> \in Buffers /\ 0 \in Nat
  BY DEF Buffers
<1>. QED
  BY <1>1, HeaderHeld DEF WireSize

\* The three kinds of frames with a payload.
IsRequestBody(r) ==
  /\ r.values \in Seq(Int32) /\ Len(r.values) \in 0..MaxValues
  /\ r.multiplier \in Int32 /\ r.offset \in Int32 /\ r.sequence \in Int

RequestSays(b, o, r, flags) ==
  /\ HeaderSays(b, o, TransformCmd, flags, r.sequence % Half, RequestSize(r))
  /\ (o + 28) + 4 * Len(r.values) <= Len(b)
  /\ ReadU32LE(b, o + 16) = Len(r.values)
  /\ ReadI32LE(b, o + 20) = r.multiplier /\ ReadI32LE(b, o + 24) = r.offset
  /\ Ints(b, o + 28, Len(r.values)) = r.values

\* A request that is held says what it was written from, and the other way round.
LEMMA RequestHeld ==
  ASSUME NEW b \in Buffers, NEW o \in Nat, NEW r, IsRequestBody(r), NEW flags \in 0..Half - 1
  PROVE  /\ RequestFrame(r, flags) \in Buffers
         /\ Len(RequestFrame(r, flags)) = 28 + 4 * Len(r.values)
         /\ Holds(b, o, RequestFrame(r, flags)) <=> RequestSays(b, o, r, flags)
<1>1. PICK n : n = Len(r.values)
  OBVIOUS
<1>2. n \in Nat /\ n \in 0..MaxValues /\ n \in 0..Word - 1
  BY <1>1, Unwrapped DEF IsRequestBody
<1>3. PICK size : size = RequestSize(r)
  OBVIOUS
<1>4. size \in 0..Word - 1
  BY <1>1, <1>2, <1>3, Sizes DEF RequestSize
<1>5. TransformCmd \in 0..Half - 1 /\ n % Word = n /\ n \in Int
  BY <1>2, Unwrapped DEF TransformCmd
<1>6. /\ r.values \in Seq(Int) /\ r.values \in Seq(Int32) /\ r.sequence \in Int
      /\ r.multiplier \in Int /\ r.multiplier \in Int32
      /\ r.offset \in Int /\ r.offset \in Int32
  BY Unwrapped, SeqMonotonic DEF IsRequestBody
<1>7. PICK h, c, m, d, t :
        /\ h = EncodedHeader(TransformCmd, flags, r.sequence, size)
        /\ c = WriteU32LE(n) /\ m = WriteU32LE(r.multiplier) /\ d = WriteU32LE(r.offset)
        /\ t = WriteI32s(r.values)
  OBVIOUS
<1>8. PICK q1, q2, q3, f :
        /\ q1 = Joint(h, c) /\ q2 = Joint(q1, m)
        /\ q3 = Joint(q2, d) /\ f = Joint(q3, t)
  OBVIOUS
<1>9. /\ h \in Buffers /\ c \in Buffers /\ m \in Buffers /\ d \in Buffers /\ t \in Buffers
      /\ Len(h) = 16 /\ Len(c) = 4 /\ Len(m) = 4 /\ Len(d) = 4 /\ Len(t) = 4 * n
  <2>1. h \in Buffers /\ Len(h) = 16
    BY <1>6, <1>7, <1>4, <1>5, HeaderLength
  <2>2. /\ c \in Buffers /\ m \in Buffers /\ d \in Buffers
        /\ Len(c) = 4 /\ Len(m) = 4 /\ Len(d) = 4
    BY <1>6, <1>7, <1>5, Written
  <2>3. t \in Buffers /\ Len(t) = 4 * Len(r.values)
    BY <1>6, <1>7, ItemsWritten
  <2>. QED
    BY <1>1, <2>1, <2>2, <2>3
<1>10. /\ q1 \in Buffers /\ Len(q1) = Len(h) + Len(c)
       /\ Holds(b, o, q1) <=> Holds(b, o, h) /\ Holds(b, o + Len(h), c)
       /\ q2 \in Buffers /\ Len(q2) = Len(q1) + Len(m)
       /\ Holds(b, o, q2) <=> Holds(b, o, q1) /\ Holds(b, o + Len(q1), m)
       /\ q3 \in Buffers /\ Len(q3) = Len(q2) + Len(d)
       /\ Holds(b, o, q3) <=> Holds(b, o, q2) /\ Holds(b, o + Len(q2), d)
       /\ f \in Buffers /\ Len(f) = Len(q3) + Len(t)
       /\ Holds(b, o, f) <=> Holds(b, o, q3) /\ Holds(b, o + Len(q3), t)
  <2>1. q1 \in Buffers /\ Len(q1) = Len(h) + Len(c)
        /\ (Holds(b, o, q1) <=> Holds(b, o, h) /\ Holds(b, o + Len(h), c))
    <3>1. q1 = Joint(h, c)
      BY <1>8
    <3>2. h \in Buffers /\ c \in Buffers
      BY <1>9
    <3>. QED
      BY <3>1, <3>2, JointHeld, Zenon
  <2>2. q2 \in Buffers /\ Len(q2) = Len(q1) + Len(m)
        /\ (Holds(b, o, q2) <=> Holds(b, o, q1) /\ Holds(b, o + Len(q1), m))
    <3>1. q2 = Joint(q1, m)
      BY <1>8
    <3>2. q1 \in Buffers /\ m \in Buffers
      BY <1>9, <2>1
    <3>. QED
      BY <3>1, <3>2, JointHeld, Zenon
  <2>3. q3 \in Buffers /\ Len(q3) = Len(q2) + Len(d)
        /\ (Holds(b, o, q3) <=> Holds(b, o, q2) /\ Holds(b, o + Len(q2), d))
    <3>1. q3 = Joint(q2, d)
      BY <1>8
    <3>2. q2 \in Buffers /\ d \in Buffers
      BY <1>9, <2>2
    <3>. QED
      BY <3>1, <3>2, JointHeld, Zenon
  <2>4. f \in Buffers /\ Len(f) = Len(q3) + Len(t)
        /\ (Holds(b, o, f) <=> Holds(b, o, q3) /\ Holds(b, o + Len(q3), t))
    <3>1. f = Joint(q3, t)
      BY <1>8
    <3>2. q3 \in Buffers /\ t \in Buffers
      BY <1>9, <2>3
    <3>. QED
      BY <3>1, <3>2, JointHeld, Zenon
  <2>. QED
    BY <2>1, <2>2, <2>3, <2>4
<1>11. /\ Len(q1) = 20 /\ Len(q2) = 24 /\ Len(q3) = 28 /\ Len(f) = 28 + 4 * n
  BY <1>9, <1>10
<1>12. /\ o + Len(h) = o + 16 /\ o + Len(q1) = o + 20 /\ o + Len(q2) = o + 24
       /\ o + Len(q3) = o + 28
       /\ o + 16 \in Nat /\ o + 20 \in Nat /\ o + 24 \in Nat /\ o + 28 \in Nat /\ Len(b) \in Nat
  BY <1>9, <1>11, BufferBytes
<1>13. Holds(b, o, f) <=>
         /\ Holds(b, o, h) /\ Holds(b, o + 16, c) /\ Holds(b, o + 20, m)
         /\ Holds(b, o + 24, d) /\ Holds(b, o + 28, t)
  BY <1>10, <1>12
<1>14. Holds(b, o, h) <=> HeaderSays(b, o, TransformCmd, flags, r.sequence % Half, size)
  BY <1>6, <1>7, <1>4, <1>5, HeaderHeld
<1>15. Holds(b, o + 16, c) <=> (o + 16) + 4 <= Len(b) /\ ReadU32LE(b, o + 16) = n % Word
  BY <1>7, <1>12, <1>5, NumberHeld
<1>16. /\ Holds(b, o + 20, m) <=> (o + 20) + 4 <= Len(b) /\ ReadI32LE(b, o + 20) = r.multiplier
       /\ Holds(b, o + 24, d) <=> (o + 24) + 4 <= Len(b) /\ ReadI32LE(b, o + 24) = r.offset
  BY <1>6, <1>7, <1>12, SignedHeld
<1>17. Holds(b, o + 28, t) <=>
         (o + 28) + 4 * Len(r.values) <= Len(b) /\ Ints(b, o + 28, Len(r.values)) = r.values
  BY <1>6, <1>7, <1>12, ItemsHeld
<1>18. Holds(b, o, f) <=> RequestSays(b, o, r, flags)
  <2>1. (o + 28) + 4 * n <= Len(b) => /\ (o + 16) + 4 <= Len(b) /\ (o + 20) + 4 <= Len(b)
                                      /\ (o + 24) + 4 <= Len(b)
    BY <1>2, <1>12
  <2>. QED
    BY <1>1, <1>3, <1>5, <1>13, <1>14, <1>15, <1>16, <1>17, <2>1 DEF RequestSays
<1>19. RequestFrame(r, flags) = f
  BY <1>7, <1>8, <1>1, <1>3 DEF RequestFrame, Joint
<1>. QED
  BY <1>1, <1>10, <1>11, <1>18, <1>19

IsResponseBody(r) ==
  /\ r.values \in Seq(Int32) /\ Len(r.values) \in 0..MaxValues
  /\ r.checksum \in 0..Word - 1 /\ r.sequence \in Int

ResponseSays(b, o, r) ==
  /\ HeaderSays(b, o, TransformCmd, 0, r.sequence % Half, ResponseSize(r))
  /\ (o + 24) + 4 * Len(r.values) <= Len(b)
  /\ ReadU32LE(b, o + 16) = Len(r.values) /\ ReadU32LE(b, o + 20) = r.checksum
  /\ Ints(b, o + 24, Len(r.values)) = r.values

\* So does a response,
LEMMA ResponseHeld ==
  ASSUME NEW b \in Buffers, NEW o \in Nat, NEW r, IsResponseBody(r)
  PROVE  /\ ResponseFrame(r) \in Buffers
         /\ Len(ResponseFrame(r)) = 24 + 4 * Len(r.values)
         /\ Holds(b, o, ResponseFrame(r)) <=> ResponseSays(b, o, r)
<1>1. PICK n : n = Len(r.values)
  OBVIOUS
<1>2. n \in Nat /\ n \in 0..MaxValues /\ n \in 0..Word - 1
  BY <1>1, Unwrapped DEF IsResponseBody
<1>3. PICK size : size = ResponseSize(r)
  OBVIOUS
<1>4. size \in 0..Word - 1
  BY <1>1, <1>2, <1>3, Sizes DEF ResponseSize
<1>5. /\ TransformCmd \in 0..Half - 1 /\ 0 \in 0..Half - 1
      /\ n % Word = n /\ n \in Int /\ r.checksum % Word = r.checksum
  BY <1>2, Unwrapped DEF TransformCmd, IsResponseBody
<1>6. /\ r.values \in Seq(Int) /\ r.values \in Seq(Int32) /\ r.sequence \in Int
      /\ r.checksum \in Int
  BY Unwrapped, SeqMonotonic DEF IsResponseBody
<1>7. PICK h, c, m, t :
        /\ h = EncodedHeader(TransformCmd, 0, r.sequence, size)
        /\ c = WriteU32LE(n) /\ m = WriteU32LE(r.checksum) /\ t = WriteI32s(r.values)
  OBVIOUS
<1>8. PICK q1, q2, f :
        /\ q1 = Joint(h, c) /\ q2 = Joint(q1, m)
        /\ f = Joint(q2, t)
  OBVIOUS
<1>9. /\ h \in Buffers /\ c \in Buffers /\ m \in Buffers /\ t \in Buffers
      /\ Len(h) = 16 /\ Len(c) = 4 /\ Len(m) = 4 /\ Len(t) = 4 * n
  <2>1. h \in Buffers /\ Len(h) = 16
    BY <1>6, <1>7, <1>4, <1>5, HeaderLength
  <2>2. c \in Buffers /\ m \in Buffers /\ Len(c) = 4 /\ Len(m) = 4
    BY <1>6, <1>7, <1>5, Written
  <2>3. t \in Buffers /\ Len(t) = 4 * Len(r.values)
    BY <1>6, <1>7, ItemsWritten
  <2>. QED
    BY <1>1, <2>1, <2>2, <2>3
<1>10. /\ q1 \in Buffers /\ Len(q1) = Len(h) + Len(c)
       /\ Holds(b, o, q1) <=> Holds(b, o, h) /\ Holds(b, o + Len(h), c)
       /\ q2 \in Buffers /\ Len(q2) = Len(q1) + Len(m)
       /\ Holds(b, o, q2) <=> Holds(b, o, q1) /\ Holds(b, o + Len(q1), m)
       /\ f \in Buffers /\ Len(f) = Len(q2) + Len(t)
       /\ Holds(b, o, f) <=> Holds(b, o, q2) /\ Holds(b, o + Len(q2), t)
  <2>1. q1 \in Buffers /\ Len(q1) = Len(h) + Len(c)
        /\ (Holds(b, o, q1) <=> Holds(b, o, h) /\ Holds(b, o + Len(h), c))
    <3>1. q1 = Joint(h, c)
      BY <1>8
    <3>2. h \in Buffers /\ c \in Buffers
      BY <1>9
    <3>. QED
      BY <3>1, <3>2, JointHeld, Zenon
  <2>2. q2 \in Buffers /\ Len(q2) = Len(q1) + Len(m)
        /\ (Holds(b, o, q2) <=> Holds(b, o, q1) /\ Holds(b, o + Len(q1), m))
    <3>1. q2 = Joint(q1, m)
      BY <1>8
    <3>2. q1 \in Buffers /\ m \in Buffers
      BY <1>9, <2>1
    <3>. QED
      BY <3>1, <3>2, JointHeld, Zenon
  <2>3. f \in Buffers /\ Len(f) = Len(q2) + Len(t)
        /\ (Holds(b, o, f) <=> Holds(b, o, q2) /\ Holds(b, o + Len(q2), t))
    <3>1. f = Joint(q2, t)
      BY <1>8
    <3>2. q2 \in Buffers /\ t \in Buffers
      BY <1>9, <2>2
    <3>. QED
      BY <3>1, <3>2, JointHeld, Zenon
  <2>. QED
    BY <2>1, <2>2, <2>3
<1>11. /\ Len(q1) = 20 /\ Len(q2) = 24 /\ Len(f) = 24 + 4 * n
  BY <1>9, <1>10
<1>12. /\ o + Len(h) = o + 16 /\ o + Len(q1) = o + 20 /\ o + Len(q2) = o + 24
       /\ o + 16 \in Nat /\ o + 20 \in Nat /\ o + 24 \in Nat /\ Len(b) \in Nat
  BY <1>9, <1>11, BufferBytes
<1>13. Holds(b, o, f) <=>
         /\ Holds(b, o, h) /\ Holds(b, o + 16, c) /\ Holds(b, o + 20, m)
         /\ Holds(b, o + 24, t)
  BY <1>10, <1>12
<1>14. Holds(b, o, h) <=> HeaderSays(b, o, TransformCmd, 0, r.sequence % Half, size)
  BY <1>6, <1>7, <1>4, <1>5, HeaderHeld
<1>15. /\ Holds(b, o + 16, c) <=> (o + 16) + 4 <= Len(b) /\ ReadU32LE(b, o + 16) = n % Word
       /\ Holds(b, o + 20, m) <=>
            (o + 20) + 4 <= Len(b) /\ ReadU32LE(b, o + 20) = r.checksum % Word
  BY <1>6, <1>7, <1>12, <1>5, NumberHeld
<1>16. Holds(b, o + 24, t) <=>
         (o + 24) + 4 * Len(r.values) <= Len(b) /\ Ints(b, o + 24, Len(r.values)) = r.values
  BY <1>6, <1>7, <1>12, ItemsHeld
<1>17. Holds(b, o, f) <=> ResponseSays(b, o, r)
  <2>1. (o + 24) + 4 * n <= Len(b) => (o + 16) + 4 <= Len(b) /\ (o + 20) + 4 <= Len(b)
    BY <1>2, <1>12
  <2>. QED
    BY <1>1, <1>3, <1>5, <1>13, <1>14, <1>15, <1>16, <2>1 DEF ResponseSays
<1>18. ResponseFrame(r) = f
  BY <1>7, <1>8, <1>1, <1>3 DEF ResponseFrame, Joint
<1>. QED
  BY <1>1, <1>10, <1>11, <1>17, <1>18

IsInfoBody(i) ==
  /\ i.version \in Buffers /\ Len(i.version) \in 0..MaxPayload - 8
  /\ i.abi \in 0..Word - 1 /\ i.sequence \in Int

InfoSays(b, o, i) ==
  /\ HeaderSays(b, o, GetInfoCmd, 0, i.sequence % Half, 8 + Len(i.version))
  /\ ReadU32LE(b, o + 16) = i.abi /\ ReadU32LE(b, o + 20) = Len(i.version)
  /\ Holds(b, o + 24, i.version)

\* and an information.
LEMMA InfoHeld ==
  ASSUME NEW b \in Buffers, NEW o \in Nat, NEW i, IsInfoBody(i)
  PROVE  /\ InfoFrame(i) \in Buffers
         /\ Len(InfoFrame(i)) = 24 + Len(i.version)
         /\ Holds(b, o, InfoFrame(i)) <=> InfoSays(b, o, i)
<1>1. PICK n : n = Len(i.version)
  OBVIOUS
<1>2. n \in Nat /\ n \in 0..Word - 1 /\ 8 + n \in 0..Word - 1
  BY <1>1, Sizes DEF IsInfoBody
<1>3. /\ GetInfoCmd \in 0..Half - 1 /\ 0 \in 0..Half - 1
      /\ n % Word = n /\ n \in Int /\ i.abi % Word = i.abi
  BY <1>2, Unwrapped DEF GetInfoCmd, IsInfoBody
<1>4. i.version \in Buffers /\ i.sequence \in Int /\ i.abi \in Int
  BY Unwrapped DEF IsInfoBody
<1>5. PICK h, c, m, t :
        /\ h = EncodedHeader(GetInfoCmd, 0, i.sequence, 8 + n)
        /\ c = WriteU32LE(i.abi) /\ m = WriteU32LE(n) /\ t = i.version
  OBVIOUS
<1>6. PICK q1, q2, f :
        /\ q1 = Joint(h, c) /\ q2 = Joint(q1, m)
        /\ f = Joint(q2, t)
  OBVIOUS
<1>7. /\ h \in Buffers /\ c \in Buffers /\ m \in Buffers /\ t \in Buffers
      /\ Len(h) = 16 /\ Len(c) = 4 /\ Len(m) = 4 /\ Len(t) = n
  <2>1. h \in Buffers /\ Len(h) = 16
    BY <1>4, <1>5, <1>2, <1>3, HeaderLength
  <2>2. c \in Buffers /\ m \in Buffers /\ Len(c) = 4 /\ Len(m) = 4
    BY <1>4, <1>5, <1>3, Written
  <2>. QED
    BY <1>4, <1>5, <1>1, <2>1, <2>2
<1>8. /\ q1 \in Buffers /\ Len(q1) = Len(h) + Len(c)
      /\ Holds(b, o, q1) <=> Holds(b, o, h) /\ Holds(b, o + Len(h), c)
      /\ q2 \in Buffers /\ Len(q2) = Len(q1) + Len(m)
      /\ Holds(b, o, q2) <=> Holds(b, o, q1) /\ Holds(b, o + Len(q1), m)
      /\ f \in Buffers /\ Len(f) = Len(q2) + Len(t)
      /\ Holds(b, o, f) <=> Holds(b, o, q2) /\ Holds(b, o + Len(q2), t)
  <2>1. q1 \in Buffers /\ Len(q1) = Len(h) + Len(c)
        /\ (Holds(b, o, q1) <=> Holds(b, o, h) /\ Holds(b, o + Len(h), c))
    <3>1. q1 = Joint(h, c)
      BY <1>6
    <3>2. h \in Buffers /\ c \in Buffers
      BY <1>7
    <3>. QED
      BY <3>1, <3>2, JointHeld, Zenon
  <2>2. q2 \in Buffers /\ Len(q2) = Len(q1) + Len(m)
        /\ (Holds(b, o, q2) <=> Holds(b, o, q1) /\ Holds(b, o + Len(q1), m))
    <3>1. q2 = Joint(q1, m)
      BY <1>6
    <3>2. q1 \in Buffers /\ m \in Buffers
      BY <1>7, <2>1
    <3>. QED
      BY <3>1, <3>2, JointHeld, Zenon
  <2>3. f \in Buffers /\ Len(f) = Len(q2) + Len(t)
        /\ (Holds(b, o, f) <=> Holds(b, o, q2) /\ Holds(b, o + Len(q2), t))
    <3>1. f = Joint(q2, t)
      BY <1>6
    <3>2. q2 \in Buffers /\ t \in Buffers
      BY <1>7, <2>2
    <3>. QED
      BY <3>1, <3>2, JointHeld, Zenon
  <2>. QED
    BY <2>1, <2>2, <2>3
<1>9. /\ Len(q1) = 20 /\ Len(q2) = 24 /\ Len(f) = 24 + n
  BY <1>7, <1>8
<1>10. /\ o + Len(h) = o + 16 /\ o + Len(q1) = o + 20 /\ o + Len(q2) = o + 24
       /\ o + 16 \in Nat /\ o + 20 \in Nat /\ o + 24 \in Nat /\ Len(b) \in Nat
  BY <1>7, <1>9, BufferBytes
<1>11. Holds(b, o, f) <=>
         /\ Holds(b, o, h) /\ Holds(b, o + 16, c) /\ Holds(b, o + 20, m)
         /\ Holds(b, o + 24, t)
  BY <1>8, <1>10
<1>12. Holds(b, o, h) <=> HeaderSays(b, o, GetInfoCmd, 0, i.sequence % Half, 8 + n)
  BY <1>4, <1>5, <1>2, <1>3, HeaderHeld
<1>13. /\ Holds(b, o + 16, c) <=> (o + 16) + 4 <= Len(b) /\ ReadU32LE(b, o + 16) = i.abi % Word
       /\ Holds(b, o + 20, m) <=> (o + 20) + 4 <= Len(b) /\ ReadU32LE(b, o + 20) = n % Word
  BY <1>4, <1>5, <1>10, <1>3, NumberHeld
<1>14. Holds(b, o, f) <=> InfoSays(b, o, i)
  <2>1. Holds(b, o + 24, t) => (o + 16) + 4 <= Len(b) /\ (o + 20) + 4 <= Len(b)
    <3>1. Holds(b, o + 24, t) => (o + 24) + Len(t) <= Len(b)
      BY DEF Holds
    <3>. QED
      BY <1>2, <1>7, <1>10, <3>1
  <2>. QED
    BY <1>5, <1>1, <1>3, <1>11, <1>12, <1>13, <2>1 DEF InfoSays
<1>15. InfoFrame(i) = f
  BY <1>5, <1>6, <1>1 DEF InfoFrame, Joint
<1>. QED
  BY <1>1, <1>8, <1>9, <1>14, <1>15

\* The order of two checks matters only where both hold.
LEMMA SwappedChecks ==
  ASSUME NEW n \in Nat, NEW c, NEW d, DOMAIN c = 1..n, DOMAIN d = 1..n, n >= 2,
         \A i \in 1..n - 2 : c[i] = d[i],
         c[n - 1] = d[n], c[n] = d[n - 1], ~(c[n - 1][1] /\ c[n][1])
  PROVE  Verdict(c) = Verdict(d)
<1>1. CASE \A i \in 1..n : ~c[i][1]
  <2>1. \A i \in 1..n : ~d[i][1]
    <3>1. \A i \in 1..n : i \in 1..n - 2 \/ i = n - 1 \/ i = n
      OBVIOUS
    <3>2. n - 1 \in 1..n /\ n \in 1..n /\ \A i \in 1..n - 2 : i \in 1..n
      OBVIOUS
    <3>. QED
      BY <1>1, <3>1, <3>2
  <2>. QED
    BY <1>1, <2>1, FirstRefusal
<1>2. CASE \E i \in 1..n : c[i][1] /\ \A j \in 1..i - 1 : ~c[j][1]
  <2>1. PICK i \in 1..n : c[i][1] /\ \A j \in 1..i - 1 : ~c[j][1]
    BY <1>2
  <2>2. Verdict(c) = c[i][2]
    BY <2>1, FirstRefusal
  <2>3. CASE i <= n - 2
    <3>1. i \in 1..n - 2 /\ d[i][1] /\ \A j \in 1..i - 1 : j \in 1..n - 2 /\ ~d[j][1]
      BY <2>1, <2>3
    <3>. QED
      BY <2>2, <3>1, FirstRefusal
  <2>4. CASE i = n - 1
    <3>1. \A j \in 1..n - 1 : ~d[j][1]
      <4>1. \A j \in 1..n - 1 : j \in 1..n - 2 \/ j = n - 1
        OBVIOUS
      <4>2. \A j \in 1..n - 2 : j \in 1..i - 1
        BY <2>4
      <4>. QED
        BY <2>1, <2>4, <4>1, <4>2
    <3>2. d[n][1] /\ n \in 1..n /\ d[n][2] = c[i][2]
      BY <2>1, <2>4
    <3>. QED
      BY <2>2, <3>1, <3>2, FirstRefusal
  <2>5. CASE i = n
    <3>1. \A j \in 1..(n - 1) - 1 : ~d[j][1]
      <4>1. \A j \in 1..(n - 1) - 1 : j \in 1..n - 2 /\ j \in 1..i - 1
        BY <2>5
      <4>. QED
        BY <2>1, <4>1
    <3>2. d[n - 1][1] /\ n - 1 \in 1..n /\ d[n - 1][2] = c[i][2]
      BY <2>1, <2>5
    <3>. QED
      BY <2>2, <3>1, <3>2, FirstRefusal
  <2>. QED
    BY <2>3, <2>4, <2>5
<1>. QED
  BY <1>1, <1>2, FirstRefusal

\* The header: the same code, but for the order of the last two checks in C.
LEMMA HeaderCodes ==
  ASSUME NEW b \in Buffers, NEW o \in Nat
  PROVE  /\ TsHeader(b, o) = RsHeader(b, o)
         /\ ~(TooLong(b, o)[1] /\ Reserved(b, o)[1]) => CHeader(b, o) = TsHeader(b, o)
<1>1. TsHeader(b, o) = RsHeader(b, o)
  BY DEF TsHeader, RsHeader
<1>2. ASSUME ~(TooLong(b, o)[1] /\ Reserved(b, o)[1]) PROVE CHeader(b, o) = TsHeader(b, o)
  <2>1. PICK S, M, K, F, L, R :
          /\ S = Short(b, o) /\ M = NoMagic(b, o) /\ K = NoCommand(b, o)
          /\ F = NoFlags(b, o) /\ L = TooLong(b, o) /\ R = Reserved(b, o)
    OBVIOUS
  <2>2. PICK c, d : c = <<S, M, K, F, L, R>> /\ d = <<S, M, K, F, R, L>>
    OBVIOUS
  <2>3. TsHeader(b, o) = Verdict(c) /\ CHeader(b, o) = Verdict(d)
    BY <2>1, <2>2 DEF TsHeader, CHeader
  <2>4. /\ DOMAIN c = 1..6 /\ DOMAIN d = 1..6
        /\ c[1] = d[1] /\ c[2] = d[2] /\ c[3] = d[3] /\ c[4] = d[4]
        /\ c[5] = d[6] /\ c[6] = d[5] /\ ~(c[5][1] /\ c[6][1])
    BY <1>2, <2>1, <2>2
  <2>5. ASSUME NEW n \in Nat, n = 6 PROVE Verdict(c) = Verdict(d)
    <3>1. /\ DOMAIN c = 1..n /\ DOMAIN d = 1..n /\ n >= 2
          /\ \A i \in 1..n - 2 : c[i] = d[i]
          /\ c[n - 1] = d[n] /\ c[n] = d[n - 1] /\ ~(c[n - 1][1] /\ c[n][1])
      BY <2>4, <2>5
    <3>. QED
      BY <3>1, SwappedChecks
  <2>. QED
    BY <2>3, <2>5
<1>. QED
  BY <1>1, <1>2

\* Rust looks twice at the length.
LEMMA NextFrameCodes ==
  ASSUME NEW b \in Buffers, NEW o \in Nat
  PROVE  TsNextFrame(b, o) = RsNextFrame(b, o)
<1>1. PICK P, L, T : P = Passed(TsHeader(b, o)) /\ L = TooLong(b, o) /\ T = Truncated(b, o)
  OBVIOUS
<1>2. PICK c, d : c = <<P, T>> /\ d = <<P, L, T>>
  OBVIOUS
<1>3. TsNextFrame(b, o) = Verdict(c) /\ RsNextFrame(b, o) = Verdict(d)
  BY <1>1, <1>2, HeaderCodes DEF TsNextFrame, RsNextFrame
<1>4. L[1] => P[1]
  <2>1. P[1] <=> ~HeaderFits(b, o)
    BY <1>1, HeadersTaken, PassedOn
  <2>. QED
    BY <1>1, <2>1 DEF HeaderFits, TooLong
<1>5. /\ DOMAIN c = 1..2 /\ c[1] = P /\ c[2] = T
      /\ DOMAIN d = 1..3 /\ d[1] = P /\ d[2] = L /\ d[3] = T
  BY <1>2
<1>6. ASSUME NEW m \in Nat, m = 2, NEW n \in Nat, n = 3 PROVE Verdict(c) = Verdict(d)
  <2>1. DOMAIN c = 1..m /\ DOMAIN d = 1..n /\ 1 \in 1..m /\ 2 \in 1..m /\ 1 \in 1..n /\ 3 \in 1..n
    BY <1>5, <1>6
  <2>2. /\ \A j \in 1..m : j = 1 \/ j = 2
        /\ \A j \in 1..n : j = 1 \/ j = 2 \/ j = 3
        /\ \A j \in 1..1 - 1 : FALSE
        /\ \A j \in 1..2 - 1 : j = 1
        /\ \A j \in 1..3 - 1 : j = 1 \/ j = 2
    BY <1>6
  <2>3. CASE P[1]
    <3>1. c[1][1] /\ d[1][1]
      BY <1>5, <2>3
    <3>2. Verdict(c) = c[1][2] /\ Verdict(d) = d[1][2]
      BY <2>1, <2>2, <3>1, FirstRefusal
    <3>. QED
      BY <1>5, <3>2
  <2>4. CASE ~P[1] /\ T[1]
    <3>1. /\ c[2][1] /\ \A j \in 1..2 - 1 : ~c[j][1]
          /\ d[3][1] /\ \A j \in 1..3 - 1 : ~d[j][1]
      BY <1>4, <1>5, <2>2, <2>4
    <3>2. /\ \A i \in 1..m : c[i][1] /\ (\A j \in 1..i - 1 : ~c[j][1])
                              => Verdict(c) = c[i][2]
          /\ \A i \in 1..n : d[i][1] /\ (\A j \in 1..i - 1 : ~d[j][1])
                              => Verdict(d) = d[i][2]
      BY <2>1, FirstRefusal
    <3>3. Verdict(c) = c[2][2]
      BY <2>1, <3>1, <3>2
    <3>4. Verdict(d) = d[3][2]
      BY <2>1, <3>1, <3>2
    <3>. QED
      BY <1>5, <3>3, <3>4
  <2>5. CASE ~P[1] /\ ~T[1]
    <3>1. (\A j \in 1..m : ~c[j][1]) /\ (\A j \in 1..n : ~d[j][1])
      BY <1>4, <1>5, <2>2, <2>5
    <3>. QED
      BY <2>1, <3>1, FirstRefusal
  <2>. QED
    BY <2>3, <2>4, <2>5
<1>. QED
  BY <1>3, <1>6

\* The checks of an information.
LEMMA InfoChecked ==
  ASSUME NEW f \in Buffers
  PROVE  /\ InfoChecks(f) \in Seq(Checks)
         /\ RsInfoCode(f) = "OK" <=>
              RsNextFrame(f, 0) = "OK" /\ Verdict(InfoChecks(f)) = "OK"
         /\ TsInfoCode(f) = "OK" <=> RsInfoCode(f) = "OK" /\ ~NoUtf8(InfoVersion(f))[1]
<1>1. PICK n : n = ReadU32LE(f, WireSize + 4)
  OBVIOUS
<1>2. n \in Nat /\ Len(f) \in Nat /\ MaxVersionLen \in Nat
  BY <1>1, Reads, Sizes DEF WireSize
<1>3. PICK A, B, C, D, E, F, G :
        /\ A = IsWhole(f) /\ B = IsOf(f, GetInfoCmd) /\ C = Carries(f, {ErrorFlag})
        /\ D = <<Len(f) - WireSize < 8, "INVALID">> /\ E = BadVersionLen(n)
        /\ F = <<Len(f) - WireSize # 8 + n, "INVALID">> /\ G = HasNul(InfoVersion(f))
  OBVIOUS
<1>4. /\ A \in Checks /\ B \in Checks /\ C \in Checks /\ D \in Checks
      /\ E \in Checks /\ F \in Checks /\ G \in Checks
  <2>1. A \in Checks /\ B \in Checks /\ C \in Checks
    BY <1>3, Refusal DEF IsWhole, IsOf, Carries, Codes
  <2>2. (Len(f) - WireSize < 8) \in BOOLEAN /\ (n = 0 \/ n > MaxVersionLen) \in BOOLEAN
    BY <1>2 DEF WireSize
  <2>3. D \in Checks /\ E \in Checks
    BY <1>3, <2>2, Refusal DEF BadVersionLen, Codes
  <2>4. F \in Checks /\ G \in Checks
    BY <1>3, Refusal DEF HasNul, Codes
  <2>. QED
    BY <2>1, <2>3, <2>4
<1>5. InfoChecks(f) = <<A, B, C, D, E, F, G>>
  BY <1>1, <1>3 DEF InfoChecks
<1>6. InfoChecks(f) \in Seq(Checks)
  <2>1. <<A, B, C, D, E, F, G>> \in Seq(Checks)
    BY <1>4
  <2>. QED
    BY <1>5, <2>1
<1>7. NoUtf8(InfoVersion(f)) \in Checks
  BY Refusal DEF NoUtf8, Codes
<1>8. PICK U : U = NoUtf8(InfoVersion(f))
  OBVIOUS
<1>9. <<U>> \in Seq(Checks) /\ (Verdict(<<U>>) = "OK" <=> ~U[1])
  <2>1. <<U>> \in Seq(Checks) /\ Len(<<U>>) = 1 /\ <<U>>[1] = U
    BY <1>7, <1>8
  <2>2. Verdict(<<U>>) = "OK" <=> \A i \in 1..1 : ~<<U>>[i][1]
    BY <2>1, NoCheckHolds
  <2>3. (\A i \in 1..1 : ~<<U>>[i][1]) <=> ~U[1]
    OBVIOUS
  <2>. QED
    BY <2>1, <2>2, <2>3
<1>10. PICK k, p, q : k = InfoChecks(f) /\ p = <<Passed(TsNextFrame(f, 0))>> /\ q = p \o k
  OBVIOUS
<1>11. p \in Seq(Checks) /\ TsNextFrame(f, 0) \in Codes
  <2>1. TsNextFrame(f, 0) \in Codes
    BY FramesAgree
  <2>2. Passed(TsNextFrame(f, 0)) \in Checks
    BY <2>1, PassedOn
  <2>. QED
    BY <1>10, <2>1, <2>2
<1>12. q \in Seq(Checks) /\ (Verdict(q) = "OK" <=> TsNextFrame(f, 0) = "OK" /\ Verdict(k) = "OK")
  BY <1>6, <1>10, <1>11, BothAccept, FirstThenRest
<1>13. Verdict(q \o <<U>>) = "OK" <=> Verdict(q) = "OK" /\ ~U[1]
  BY <1>9, <1>12, BothAccept
<1>14. TsInfoCode(f) = Verdict(q \o <<U>>) /\ RsInfoCode(f) = Verdict(q)
  <2>1. TsNextFrame(f, 0) = RsNextFrame(f, 0)
    BY NextFrameCodes
  <2>. QED
    BY <1>8, <1>10, <2>1 DEF TsInfoCode, RsInfoCode
<1>15. TsNextFrame(f, 0) = RsNextFrame(f, 0)
  BY NextFrameCodes
<1>. QED
  BY <1>6, <1>8, <1>10, <1>12, <1>13, <1>14, <1>15

\* What the three decoders make of any buffer.
LEMMA AllDecodedAlike ==
  ASSUME NEW b \in Buffers
  PROVE  DecodedAlike(b)
<1>1. TsNextFrame(b, 0) = RsNextFrame(b, 0) /\ TsHeader(b, 0) = RsHeader(b, 0)
  BY HeaderCodes, NextFrameCodes
<1>2. Alike(TsHeader(b, 0), CHeader(b, 0), RsHeader(b, 0))
  BY <1>1, HeadersTaken DEF Alike
<1>3. Alike(TsNextFrame(b, 0), CNextFrame(b, 0), RsNextFrame(b, 0))
  BY <1>1, FramesAgree DEF Alike
<1>4. Alike(TsRequestCode(b), CRequestCode(b), RsRequestCode(b))
  <2>1. TsRequestCode(b) = RsRequestCode(b)
    BY <1>1 DEF TsRequestCode, RsRequestCode
  <2>. QED
    BY <2>1, RequestsAgree DEF Alike
<1>5. Alike(TsResponseCode(b), CResponseCode(b), RsResponseCode(b))
  <2>1. TsResponseCode(b) = RsResponseCode(b)
    BY <1>1 DEF TsResponseCode, RsResponseCode
  <2>. QED
    BY <2>1, ResponsesAgree DEF Alike
<1>. QED
  BY <1>2, <1>3, <1>4, <1>5, HeaderCodes, InfoChecked DEF DecodedAlike

\* A frame against its command and the flags it may not carry.
LEMMA FrameTaken ==
  ASSUME NEW f \in Buffers, NEW command, NEW flags
  PROVE  Verdict(<<IsWhole(f), IsOf(f, command), Carries(f, flags)>>) = "OK" <=>
           /\ FrameLen(f, 0) = Len(f) /\ Header(f, 0).command = command
           /\ \A flag \in flags : ~Has(Header(f, 0).flags, flag)
<1>1. PICK A, B, C : A = IsWhole(f) /\ B = IsOf(f, command) /\ C = Carries(f, flags)
  OBVIOUS
<1>2. PICK c : c = <<A, B, C>>
  OBVIOUS
<1>3. c \in Seq(Checks) /\ Len(c) = 3 /\ c[1] = A /\ c[2] = B /\ c[3] = C
  <2>1. c \in Seq(Checks)
    BY <1>1, <1>2, FrameChecks
  <2>. QED
    BY <1>2, <2>1
<1>4. Verdict(c) = "OK" <=> \A i \in 1..3 : ~c[i][1]
  BY <1>3, NoCheckHolds
<1>5. (\A i \in 1..3 : ~c[i][1]) <=> ~A[1] /\ ~B[1] /\ ~C[1]
  BY <1>3
<1>6. /\ ~A[1] <=> FrameLen(f, 0) = Len(f)
      /\ ~B[1] <=> Header(f, 0).command = command
      /\ ~C[1] <=> \A flag \in flags : ~Has(Header(f, 0).flags, flag)
  BY <1>1 DEF IsWhole, IsOf, Carries
<1>. QED
  BY <1>1, <1>2, <1>4, <1>5, <1>6

\* What a request and a response must be to be taken.
IsTransform(f, flags, fixed) ==
  /\ FrameFits(f, 0) /\ FrameLen(f, 0) = Len(f) /\ Header(f, 0).command = TransformCmd
  /\ \A flag \in flags : ~Has(Header(f, 0).flags, flag)
  /\ ReadU32LE(f, WireSize) \in 0..MaxValues
  /\ Len(f) = WireSize + fixed + 4 * ReadU32LE(f, WireSize)

\* The checks of a request and of a response, as one condition.
LEMMA TransformsTaken ==
  ASSUME NEW f \in Buffers
  PROVE  /\ RsRequestCode(f) = "OK" <=> IsTransform(f, {ErrorFlag, CompressedFlag}, 12)
         /\ RsResponseCode(f) = "OK" <=> IsTransform(f, {CompressedFlag}, 8)
<1>1. RsNextFrame(f, 0) \in Codes /\ (RsNextFrame(f, 0) = "OK" <=> FrameFits(f, 0))
  BY FramesAgree
<1>2. ASSUME NEW flags, NEW fixed \in {8, 12}
      PROVE  Verdict(<<Passed(RsNextFrame(f, 0))>> \o
                     (<<IsWhole(f), IsOf(f, TransformCmd), Carries(f, flags)>>
                      \o CountFits(f, fixed))) = "OK" <=> IsTransform(f, flags, fixed)
  <2>1. PICK c, d : c = <<IsWhole(f), IsOf(f, TransformCmd), Carries(f, flags)>>
                    /\ d = CountFits(f, fixed)
    OBVIOUS
  <2>2. c \in Seq(Checks) /\ d \in Seq(Checks)
    BY <2>1, FrameChecks, CountChecks
  <2>3. c \o d \in Seq(Checks)
        /\ (Verdict(c \o d) = "OK" <=> Verdict(c) = "OK" /\ Verdict(d) = "OK")
    BY <2>2, BothAccept
  <2>4. Verdict(<<Passed(RsNextFrame(f, 0))>> \o (c \o d)) = "OK" <=>
          RsNextFrame(f, 0) = "OK" /\ Verdict(c \o d) = "OK"
    BY <1>1, <2>3, FirstThenRest
  <2>. QED
    BY <1>1, <2>1, <2>3, <2>4, FrameTaken, CountChecks DEF IsTransform
<1>3. /\ RsRequestCode(f) = "OK" <=> IsTransform(f, {ErrorFlag, CompressedFlag}, 12)
  BY <1>2, Zenon DEF RsRequestCode, RequestChecks
<1>4. RsResponseCode(f) = "OK" <=> IsTransform(f, {CompressedFlag}, 8)
  BY <1>2, Zenon DEF RsResponseCode, ResponseChecks
<1>. QED
  BY <1>3, <1>4

\* The numbers of a payload.
LEMMA IntsRead ==
  ASSUME NEW b \in Buffers, NEW o \in Nat, NEW n \in Nat
  PROVE  Ints(b, o, n) \in Seq(Int32) /\ Len(Ints(b, o, n)) = n
<1>1. ASSUME NEW i \in 1..n PROVE ReadI32LE(b, o + 4 * (i - 1)) \in Int32
  <2>1. o + 4 * (i - 1) \in Nat
    OBVIOUS
  <2>2. PICK u \in 0..Word - 1 : u = ReadU32LE(b, o + 4 * (i - 1))
    BY <2>1, ReadBounds
  <2>. QED
    BY <2>2, SignedNumbers DEF ReadI32LE
<1>. QED
  BY <1>1, IsASeq DEF Ints

\* A header of a frame that fits says what is read.
LEMMA FitSays ==
  ASSUME NEW b \in Buffers, HeaderFits(b, 0)
  PROVE  /\ HeaderSays(b, 0, Header(b, 0).command, Header(b, 0).flags,
                       Header(b, 0).sequence % Half, Header(b, 0).payloadLen)
         /\ Header(b, 0).command \in 0..Half - 1 /\ Header(b, 0).flags \in 0..Half - 1
         /\ Header(b, 0).sequence \in 0..Half - 1
         /\ Header(b, 0).payloadLen \in 0..Word - 1
         /\ Header(b, 0).payloadLen <= MaxPayload /\ Len(b) >= 16
<1>1. PICK c, k, s, z : /\ c = ReadU16LE(b, 2) /\ k = ReadU16LE(b, 4) /\ s = ReadU16LE(b, 6)
                        /\ z = ReadU32LE(b, 8)
  OBVIOUS
<1>2. c \in 0..Half - 1 /\ k \in 0..Half - 1 /\ s \in 0..Half - 1 /\ z \in 0..Word - 1
  BY <1>1, ReadBounds
<1>3. s % Half = s
  BY <1>2, Unwrapped
<1>4. Header(b, 0) = [command |-> c, flags |-> k, sequence |-> s, payloadLen |-> z]
  BY <1>1 DEF Header
<1>5. z <= MaxPayload /\ 0 + WireSize <= Len(b) /\ Len(b) >= 16
  BY <1>2, <1>4, Sizes, BufferBytes DEF HeaderFits, WireSize
<1>. QED
  BY <1>2, <1>3, <1>4, <1>5 DEF HeaderFits, HeaderSays

\* A decoded frame is the encoding of what it says.
LEMMA RequestRewritten ==
  ASSUME NEW b \in Buffers, RsRequestCode(b) = "OK"
  PROVE  /\ IsRequestBody(Request(b)) /\ Request(b).sequence \in 0..Half - 1
         /\ RequestFrame(Request(b), Header(b, 0).flags) = b
<1>1. PICK n : n = ReadU32LE(b, 16)
  OBVIOUS
<1>2. PICK r : r = Request(b)
  OBVIOUS
<1>3. /\ HeaderFits(b, 0) /\ Header(b, 0).command = TransformCmd
      /\ n \in 0..MaxValues /\ Len(b) = 28 + 4 * n /\ FrameLen(b, 0) = Len(b)
  <2>1. IsTransform(b, {ErrorFlag, CompressedFlag}, 12)
    BY TransformsTaken
  <2>2. n \in 0..MaxValues /\ Len(b) = (16 + 12) + 4 * n
    BY <1>1, <2>1 DEF IsTransform, WireSize
  <2>3. n \in Nat /\ Len(b) = 28 + 4 * n
    BY <2>2, Unwrapped
  <2>. QED
    BY <2>1, <2>2, <2>3 DEF IsTransform, FrameFits
<1>4. /\ r.sequence = Header(b, 0).sequence /\ r.multiplier = ReadI32LE(b, 20)
      /\ r.offset = ReadI32LE(b, 24) /\ r.values = Ints(b, 28, n)
  BY <1>1, <1>2 DEF Request, WireSize
<1>5. /\ r.values \in Seq(Int32) /\ Len(r.values) = n
      /\ r.multiplier \in Int32 /\ r.offset \in Int32 /\ r.sequence \in 0..Half - 1
  <2>1. /\ r.values \in Seq(Int32) /\ Len(r.values) = n
    <3>1. PICK v : v = Ints(b, 28, n)
      OBVIOUS
    <3>2. MaxValues \in Nat
      BY Sizes
    <3>3. n \in Nat /\ 28 \in Nat
      BY <1>3, <3>2
    <3>4. v \in Seq(Int32) /\ Len(v) = n
      BY <3>1, <3>3, IntsRead
    <3>. QED
      BY <1>4, <3>1, <3>4
  <2>2. r.multiplier \in Int32 /\ r.offset \in Int32
    BY <1>4, ReadBounds, SignedNumbers DEF ReadI32LE
  <2>. QED
    BY <1>3, <1>4, <2>1, <2>2, FitSays
<1>6. IsRequestBody(r)
  BY <1>3, <1>5, Sizes DEF IsRequestBody
<1>7. PICK k : k = Header(b, 0).flags
  OBVIOUS
<1>8. Header(b, 0).payloadLen = RequestSize(r)
  <2>1. 16 + Header(b, 0).payloadLen = 28 + 4 * n /\ Header(b, 0).payloadLen \in 0..Word - 1
    BY <1>3, FitSays DEF FrameLen, WireSize
  <2>2. n \in Nat /\ Word \in Nat
    BY <1>3, Sizes
  <2>3. PICK z : z = Header(b, 0).payloadLen
    OBVIOUS
  <2>4. z = 12 + 4 * n
    BY <2>1, <2>2, <2>3
  <2>5. RequestSize(r) = 12 + 4 * n
    BY <1>5 DEF RequestSize
  <2>. QED
    BY <2>3, <2>4, <2>5
<1>9. RequestSays(b, 0, r, k)
  <2>1. HeaderSays(b, 0, TransformCmd, k, r.sequence % Half, RequestSize(r))
    BY <1>3, <1>4, <1>7, <1>8, FitSays
  <2>2. (0 + 28) + 4 * Len(r.values) <= Len(b)
    BY <1>3, <1>5, Sizes
  <2>. QED
    BY <1>1, <1>4, <1>5, <2>1, <2>2 DEF RequestSays
<1>10. k \in 0..Half - 1
  BY <1>3, <1>7, FitSays
<1>11. RequestFrame(r, k) = b
  <2>1. /\ RequestFrame(r, k) \in Buffers /\ Len(RequestFrame(r, k)) = 28 + 4 * Len(r.values)
        /\ Holds(b, 0, RequestFrame(r, k))
    BY <1>6, <1>9, <1>10, RequestHeld
  <2>2. Len(RequestFrame(r, k)) = Len(b)
    BY <1>3, <1>5, <2>1
  <2>. QED
    BY <2>1, <2>2, HeldWhole
<1>. QED
  BY <1>2, <1>5, <1>6, <1>7, <1>11

\* A decoded response without flags is the encoding of what it says,
LEMMA ResponseRewritten ==
  ASSUME NEW b \in Buffers, RsResponseCode(b) = "OK"
  PROVE  /\ IsResponseBody(Response(b)) /\ Response(b).sequence \in 0..Half - 1
         /\ Header(b, 0).flags = 0 => ResponseFrame(Response(b)) = b
<1>1. PICK n : n = ReadU32LE(b, 16)
  OBVIOUS
<1>2. PICK r : r = Response(b)
  OBVIOUS
<1>3. /\ HeaderFits(b, 0) /\ Header(b, 0).command = TransformCmd
      /\ n \in 0..MaxValues /\ Len(b) = 24 + 4 * n /\ FrameLen(b, 0) = Len(b)
  <2>1. IsTransform(b, {CompressedFlag}, 8)
    BY TransformsTaken
  <2>2. n \in 0..MaxValues /\ Len(b) = (16 + 8) + 4 * n
    BY <1>1, <2>1 DEF IsTransform, WireSize
  <2>3. n \in Nat /\ Len(b) = 24 + 4 * n
    BY <2>2, Unwrapped
  <2>. QED
    BY <2>1, <2>2, <2>3 DEF IsTransform, FrameFits
<1>4. /\ r.sequence = Header(b, 0).sequence /\ r.checksum = ReadU32LE(b, 20)
      /\ r.values = Ints(b, 24, n)
  BY <1>1, <1>2 DEF Response, WireSize
<1>5. /\ r.values \in Seq(Int32) /\ Len(r.values) = n
      /\ r.checksum \in 0..Word - 1 /\ r.sequence \in 0..Half - 1
  <2>1. r.values \in Seq(Int32) /\ Len(r.values) = n
    <3>1. n \in Nat /\ 24 \in Nat
      BY <1>3, Unwrapped
    <3>. QED
      BY <1>4, <3>1, IntsRead
  <2>2. r.checksum \in 0..Word - 1
    BY <1>4, ReadBounds
  <2>. QED
    BY <1>3, <1>4, <2>1, <2>2, FitSays
<1>6. IsResponseBody(r)
  BY <1>3, <1>5, Sizes DEF IsResponseBody
<1>7. Header(b, 0).payloadLen = ResponseSize(r)
  <2>1. 16 + Header(b, 0).payloadLen = 24 + 4 * n /\ Header(b, 0).payloadLen \in 0..Word - 1
    BY <1>3, FitSays DEF FrameLen, WireSize
  <2>. QED
    BY <1>3, <1>5, <2>1, Sizes DEF ResponseSize
<1>8. ASSUME Header(b, 0).flags = 0 PROVE ResponseSays(b, 0, r)
  <2>1. HeaderSays(b, 0, TransformCmd, 0, r.sequence % Half, ResponseSize(r))
    BY <1>3, <1>4, <1>7, <1>8, FitSays
  <2>2. (0 + 24) + 4 * Len(r.values) <= Len(b)
    BY <1>3, <1>5, Sizes
  <2>. QED
    BY <1>1, <1>4, <1>5, <2>1, <2>2 DEF ResponseSays
<1>9. ASSUME Header(b, 0).flags = 0 PROVE ResponseFrame(r) = b
  <2>1. /\ ResponseFrame(r) \in Buffers /\ Len(ResponseFrame(r)) = 24 + 4 * Len(r.values)
        /\ Holds(b, 0, ResponseFrame(r))
    BY <1>6, <1>8, <1>9, ResponseHeld
  <2>2. Len(ResponseFrame(r)) = Len(b)
    BY <1>3, <1>5, <2>1
  <2>. QED
    BY <2>1, <2>2, HeldWhole
<1>. QED
  BY <1>2, <1>5, <1>6, <1>9

\* What an information must be to be taken.
LEMMA InfoTaken ==
  ASSUME NEW f \in Buffers
  PROVE  RsInfoCode(f) = "OK" <=>
           /\ FrameFits(f, 0) /\ FrameLen(f, 0) = Len(f) /\ Header(f, 0).command = GetInfoCmd
           /\ ~Has(Header(f, 0).flags, ErrorFlag)
           /\ ReadU32LE(f, 20) \in 1..MaxVersionLen /\ Len(f) = 24 + ReadU32LE(f, 20)
           /\ ~HasNul(InfoVersion(f))[1]
<1>1. PICK n : n = ReadU32LE(f, WireSize + 4)
  OBVIOUS
<1>2. n \in Nat /\ Len(f) \in Nat /\ MaxVersionLen \in Nat /\ n = ReadU32LE(f, 20)
  <2>1. n = ReadU32LE(f, 20)
    BY <1>1 DEF WireSize
  <2>. QED
    BY <2>1, Reads, Sizes
<1>3. PICK A, B, C, D, E, F, G :
        /\ A = IsWhole(f) /\ B = IsOf(f, GetInfoCmd) /\ C = Carries(f, {ErrorFlag})
        /\ D = <<Len(f) - WireSize < 8, "INVALID">> /\ E = BadVersionLen(n)
        /\ F = <<Len(f) - WireSize # 8 + n, "INVALID">> /\ G = HasNul(InfoVersion(f))
  OBVIOUS
<1>4. PICK c : c = <<A, B, C, D, E, F, G>>
  OBVIOUS
<1>5. InfoChecks(f) = c /\ c \in Seq(Checks)
  BY <1>1, <1>3, <1>4, InfoChecked DEF InfoChecks
<1>6. Verdict(c) = "OK" <=> \A i \in 1..7 : ~c[i][1]
  <2>1. Len(c) = 7
    BY <1>4
  <2>. QED
    BY <1>5, <2>1, NoCheckHolds
<1>7. (\A i \in 1..7 : ~c[i][1]) <=> /\ ~A[1] /\ ~B[1] /\ ~C[1] /\ ~D[1]
                                     /\ ~E[1] /\ ~F[1] /\ ~G[1]
  BY <1>4
<1>8. /\ ~A[1] <=> FrameLen(f, 0) = Len(f)
      /\ ~B[1] <=> Header(f, 0).command = GetInfoCmd
      /\ ~C[1] <=> ~Has(Header(f, 0).flags, ErrorFlag)
  BY <1>3 DEF IsWhole, IsOf, Carries
<1>9. ~D[1] /\ ~E[1] /\ ~F[1] <=> n \in 1..MaxVersionLen /\ Len(f) = 24 + n
  <2>1. /\ D[1] <=> Len(f) - 16 < 8
        /\ E[1] <=> n = 0 \/ n > MaxVersionLen
        /\ F[1] <=> Len(f) - 16 # 8 + n
    BY <1>3 DEF BadVersionLen, WireSize
  <2>. QED
    BY <1>2, <2>1
<1>10. RsNextFrame(f, 0) = "OK" <=> FrameFits(f, 0)
  BY FramesAgree
<1>. QED
  BY <1>2, <1>3, <1>5, <1>6, <1>7, <1>8, <1>9, <1>10, InfoChecked

\* A view of a buffer is the bytes there.
LEMMA Viewed ==
  ASSUME NEW b \in Buffers, NEW o \in Nat, NEW n \in Nat, o + n <= Len(b)
  PROVE  /\ View(b, o, n) \in Buffers /\ Len(View(b, o, n)) = n
         /\ Holds(b, o, View(b, o, n))
         /\ \A t \in Buffers : Len(t) = n /\ Holds(b, o, t) => View(b, o, n) = t
<1>1. Len(b) \in Nat /\ \A i \in 1..Len(b) : b[i] \in Byte
  BY BufferBytes
<1>2. o + 1 \in Int /\ o + n \in Int /\ \A i \in o + 1..o + n : b[i] \in Byte
  BY <1>1
<1>3. PICK v : v = SubSeq(b, o + 1, o + n)
  OBVIOUS
<1>4. /\ v \in Buffers
      /\ Len(v) = IF o + 1 <= o + n THEN (o + n) - (o + 1) + 1 ELSE 0
      /\ \A i \in 1..(o + n) - (o + 1) + 1 : v[i] = b[(o + 1) + i - 1]
  <2>1. PICK l \in Int, h \in Int : l = o + 1 /\ h = o + n
    BY <1>2
  <2>2. /\ SubSeq(b, l, h) \in Seq(Byte)
        /\ Len(SubSeq(b, l, h)) = IF l <= h THEN h - l + 1 ELSE 0
        /\ \A i \in 1..h - l + 1 : SubSeq(b, l, h)[i] = b[l + i - 1]
    <3>1. \A i \in l..h : b[i] \in Byte
      BY <1>2, <2>1
    <3>. QED
      BY <3>1, SubSeqProperties
  <2>3. Buffers = Seq(Byte)
    BY DEF Buffers, Byte
  <2>. QED
    BY <1>3, <2>1, <2>2, <2>3
<1>5. Len(v) = n
  BY <1>4
<1>6. \A i \in 1..n : v[i] = b[o + i]
  <2>1. \A i \in 1..n : i \in 1..(o + n) - (o + 1) + 1 /\ (o + 1) + i - 1 = o + i
    OBVIOUS
  <2>. QED
    BY <1>4, <2>1
<1>7. Holds(b, o, v)
  BY <1>5, <1>6 DEF Holds
<1>8. ASSUME NEW t \in Buffers, Len(t) = n, Holds(b, o, t) PROVE v = t
  <2>1. \A i \in 1..Len(v) : v[i] = t[i]
    BY <1>5, <1>6, <1>8 DEF Holds
  <2>. QED
    BY <1>4, <1>5, <1>8, <2>1, SeqEqual DEF Buffers
<1>. QED
  BY <1>3, <1>4, <1>5, <1>7, <1>8 DEF View

\* A decoded information without flags is the encoding of what it says.
LEMMA InfoRewritten ==
  ASSUME NEW b \in Buffers, RsInfoCode(b) = "OK"
  PROVE  /\ IsInfoBody(Info(b)) /\ Info(b).sequence \in 0..Half - 1
         /\ Header(b, 0).flags = 0 => InfoFrame(Info(b)) = b
<1>1. PICK n : n = ReadU32LE(b, 20)
  OBVIOUS
<1>2. PICK i : i = Info(b)
  OBVIOUS
<1>3. /\ HeaderFits(b, 0) /\ Header(b, 0).command = GetInfoCmd
      /\ n \in 1..MaxVersionLen /\ Len(b) = 24 + n /\ FrameLen(b, 0) = Len(b)
  BY <1>1, InfoTaken DEF FrameFits
<1>4. n \in Nat /\ n \in 0..MaxPayload - 8
  BY <1>3, Sizes
<1>5. i.sequence = Header(b, 0).sequence /\ i.abi = ReadU32LE(b, 16)
      /\ i.version = View(b, 24, n)
  <2>1. i.sequence = Header(b, 0).sequence /\ i.abi = ReadU32LE(b, 16)
        /\ i.version = View(b, 16 + 8, Len(b) - 16 - 8)
    BY <1>2 DEF Info, InfoVersion, WireSize
  <2>2. Len(b) - 16 - 8 = n
    BY <1>3, <1>4
  <2>. QED
    BY <2>1, <2>2
<1>6. i.version \in Buffers /\ Len(i.version) = n /\ Holds(b, 24, i.version)
  <2>1. 24 \in Nat /\ 24 + n <= Len(b)
    BY <1>3, <1>4
  <2>. QED
    BY <1>4, <1>5, <2>1, Viewed
<1>7. i.abi \in 0..Word - 1 /\ i.sequence \in 0..Half - 1
  BY <1>3, <1>5, ReadBounds, FitSays
<1>8. IsInfoBody(i)
  BY <1>4, <1>6, <1>7, Sizes DEF IsInfoBody
<1>9. Header(b, 0).payloadLen = 8 + n
  <2>1. 16 + Header(b, 0).payloadLen = 24 + n /\ Header(b, 0).payloadLen \in 0..Word - 1
    BY <1>3, FitSays DEF FrameLen, WireSize
  <2>. QED
    BY <1>4, <2>1, Sizes
<1>10. ASSUME Header(b, 0).flags = 0 PROVE InfoFrame(i) = b
  <2>1. HeaderSays(b, 0, GetInfoCmd, 0, i.sequence % Half, 8 + Len(i.version))
    BY <1>3, <1>5, <1>6, <1>9, <1>10, FitSays
  <2>2. InfoSays(b, 0, i)
    BY <1>1, <1>5, <1>6, <2>1 DEF InfoSays
  <2>3. /\ InfoFrame(i) \in Buffers /\ Len(InfoFrame(i)) = 24 + Len(i.version)
        /\ Holds(b, 0, InfoFrame(i))
    BY <1>8, <2>2, InfoHeld
  <2>4. Len(InfoFrame(i)) = Len(b)
    BY <1>3, <1>6, <2>3
  <2>. QED
    BY <2>3, <2>4, HeldWhole
<1>. QED
  BY <1>2, <1>7, <1>8, <1>10

\* Reads inside of bytes that are held.
LEMMA SameReads ==
  ASSUME NEW b \in Buffers, NEW o \in Nat, NEW f \in Buffers, Holds(b, o, f), NEW i \in Nat
  PROVE  /\ i + 2 <= Len(f) => ReadU16LE(b, o + i) = ReadU16LE(f, i)
         /\ i + 4 <= Len(f) => /\ ReadU32LE(b, o + i) = ReadU32LE(f, i)
                               /\ ReadI32LE(b, o + i) = ReadI32LE(f, i)
<1>1. Len(f) \in Nat
  BY BufferBytes
<1>2. ASSUME NEW j \in Nat, j < Len(f) PROVE At(b, o + j) = At(f, j)
  <2>1. j \in 0..Len(f) - 1
    BY <1>1, <1>2
  <2>2. At(b, o + j) = f[j + 1]
    BY <1>1, <2>1, HeldAt
  <2>. QED
    BY <1>2, <2>2 DEF At
<1>3. ASSUME NEW j \in Nat, j + 2 <= Len(f) PROVE ReadU16LE(b, o + j) = ReadU16LE(f, j)
  <2>1. At(b, o + j) = At(f, j) /\ At(b, o + (j + 1)) = At(f, j + 1)
    <3>1. j < Len(f) /\ j + 1 \in Nat /\ j + 1 < Len(f)
      BY <1>1, <1>3
    <3>. QED
      BY <1>2, <3>1
  <2>2. o + (j + 1) = (o + j) + 1
    OBVIOUS
  <2>. QED
    BY <2>1, <2>2 DEF ReadU16LE
<1>4. ASSUME i + 4 <= Len(f) PROVE ReadU32LE(b, o + i) = ReadU32LE(f, i)
  <2>1. ReadU16LE(b, o + i) = ReadU16LE(f, i) /\ ReadU16LE(b, o + (i + 2)) = ReadU16LE(f, i + 2)
    <3>1. i + 2 \in Nat /\ i + 2 <= Len(f) /\ (i + 2) + 2 <= Len(f)
      BY <1>1, <1>4
    <3>. QED
      BY <1>3, <3>1
  <2>2. o + (i + 2) = (o + i) + 2
    OBVIOUS
  <2>. QED
    BY <2>1, <2>2 DEF ReadU32LE
<1>. QED
  BY <1>3, <1>4 DEF ReadI32LE

\* A frame that stands by itself, and one in a buffer.
Alone(f) == f \in Buffers /\ FrameFits(f, 0) /\ FrameLen(f, 0) = Len(f)

\* The header of a frame is the same wherever the frame is held.
LEMMA SameHeader ==
  ASSUME NEW b \in Buffers, NEW o \in Nat, NEW f \in Buffers, Holds(b, o, f), 16 <= Len(f)
  PROVE  /\ Header(b, o) = Header(f, 0) /\ FrameLen(b, o) = FrameLen(f, 0)
         /\ HeaderFits(f, 0) <=> HeaderFits(b, o)
<1>1. Len(f) \in Nat /\ Len(b) \in Nat /\ o + Len(f) <= Len(b)
  BY BufferBytes DEF Holds
<1>2. /\ ReadU16LE(b, o + 0) = ReadU16LE(f, 0) /\ ReadU16LE(b, o + 2) = ReadU16LE(f, 2)
      /\ ReadU16LE(b, o + 4) = ReadU16LE(f, 4) /\ ReadU16LE(b, o + 6) = ReadU16LE(f, 6)
      /\ ReadU32LE(b, o + 8) = ReadU32LE(f, 8) /\ ReadU32LE(b, o + 12) = ReadU32LE(f, 12)
  <2>1. /\ 0 + 2 <= Len(f) /\ 2 + 2 <= Len(f) /\ 4 + 2 <= Len(f) /\ 6 + 2 <= Len(f)
        /\ 8 + 4 <= Len(f) /\ 12 + 4 <= Len(f)
    BY <1>1
  <2>. QED
    BY <2>1, SameReads
<1>3. ReadU16LE(b, o) = ReadU16LE(f, 0)
  BY <1>2
<1>4. Header(b, o) = Header(f, 0)
  BY <1>2 DEF Header
<1>5. ~(Len(b) < o + WireSize) /\ ~(Len(f) < 0 + WireSize)
  BY <1>1 DEF WireSize
<1>6. ReadU32LE(f, 0 + 12) = ReadU32LE(f, 12)
  OBVIOUS
<1>. QED
  BY <1>2, <1>3, <1>4, <1>5, <1>6 DEF HeaderFits, FrameLen

\* A frame held at an offset is found there,
LEMMA FrameHeld ==
  ASSUME NEW b \in Buffers, NEW o \in Nat, NEW f, Alone(f), Holds(b, o, f)
  PROVE  /\ FrameFits(b, o) /\ TsNextFrame(b, o) = "OK" /\ RsNextFrame(b, o) = "OK"
         /\ FrameLen(b, o) = Len(f) /\ Len(f) >= 16 /\ FrameAt(b, o) = f
         /\ Header(b, o) = Header(f, 0)
<1>1. f \in Buffers /\ Len(f) \in Nat /\ HeaderFits(f, 0) /\ FrameLen(f, 0) = Len(f)
  BY BufferBytes DEF Alone, FrameFits
<1>2. Len(f) >= 16
  BY <1>1, FrameLengths DEF WireSize
<1>3. HeaderFits(b, o) /\ FrameLen(b, o) = Len(f) /\ Header(b, o) = Header(f, 0)
  BY <1>1, <1>2, SameHeader
<1>4. o + Len(f) <= Len(b)
  BY DEF Holds
<1>5. FrameFits(b, o)
  BY <1>3, <1>4 DEF FrameFits
<1>6. FrameAt(b, o) = f
  BY <1>1, <1>3, <1>4, Viewed DEF FrameAt
<1>. QED
  BY <1>2, <1>3, <1>5, <1>6, FramesAgree

\* and what is found at an offset is a frame held there.
LEMMA FrameFound ==
  ASSUME NEW b \in Buffers, NEW o \in Nat, FrameFits(b, o)
  PROVE  /\ Alone(FrameAt(b, o)) /\ Holds(b, o, FrameAt(b, o))
         /\ Len(FrameAt(b, o)) = FrameLen(b, o) /\ FrameLen(b, o) \in Nat
         /\ FrameLen(b, o) >= 16 /\ o + FrameLen(b, o) <= Len(b)
         /\ Header(FrameAt(b, o), 0) = Header(b, o)
<1>1. FrameLen(b, o) \in Nat /\ FrameLen(b, o) >= 16 /\ o + FrameLen(b, o) <= Len(b)
  BY FrameLengths DEF FrameFits, WireSize
<1>2. PICK f : f = FrameAt(b, o)
  OBVIOUS
<1>3. f \in Buffers /\ Len(f) = FrameLen(b, o) /\ Holds(b, o, f)
  BY <1>1, <1>2, Viewed DEF FrameAt
<1>4. Header(b, o) = Header(f, 0) /\ FrameLen(b, o) = FrameLen(f, 0) /\ HeaderFits(f, 0)
  BY <1>1, <1>3, SameHeader DEF FrameFits
<1>5. Alone(f)
  BY <1>1, <1>3, <1>4 DEF Alone, FrameFits
<1>. QED
  BY <1>1, <1>2, <1>3, <1>4, <1>5

\* A buffer whose header says what its length is.
LEMMA WrittenFits ==
  ASSUME NEW f \in Buffers, NEW command \in {GetInfoCmd, TransformCmd},
         NEW flags \in {0, ContinuedFlag}, NEW sequence, NEW size \in Nat, size <= MaxPayload,
         HeaderSays(f, 0, command, flags, sequence, size), Len(f) = 16 + size
  PROVE  /\ Alone(f) /\ Header(f, 0).command = command /\ Header(f, 0).flags = flags
         /\ Header(f, 0).sequence = sequence /\ Header(f, 0).payloadLen = size
<1>1. /\ Header(f, 0).command = command /\ Header(f, 0).flags = flags
      /\ Header(f, 0).sequence = sequence /\ Header(f, 0).payloadLen = size
  BY DEF HeaderSays
<1>2. HeaderFlags(flags) /\ ~(size > MaxPayload) /\ ~(Len(f) < 0 + WireSize)
  BY Sizes DEF HeaderFlags, ContinuedFlag, CompressedFlag, WireSize
<1>3. HeaderFits(f, 0)
  BY <1>1, <1>2 DEF HeaderSays, HeaderFits
<1>4. FrameLen(f, 0) = Len(f) /\ 0 + FrameLen(f, 0) <= Len(f)
  BY <1>1 DEF FrameLen, WireSize
<1>. QED
  BY <1>1, <1>3, <1>4 DEF Alone, FrameFits

\* The flag of a continued frame is neither of an error nor of compression.
LEMMA NoOtherFlags ==
  \A flags \in {0, ContinuedFlag}, flag \in {ErrorFlag, CompressedFlag} : ~Has(flags, flag)
<1>1. /\ (0 \div 1) % 2 = 0 /\ (0 \div 4) % 2 = 0
      /\ (2 \div 1) % 2 = 0 /\ (2 \div 4) % 2 = 0
  OBVIOUS
<1>. QED
  BY <1>1 DEF Has, ContinuedFlag, ErrorFlag, CompressedFlag

\* The empty buffer.
LEMMA NoBytes == <<>> \in Buffers /\ Len(<<>>) = 0 /\ 0 \in Nat
  BY DEF Buffers

\* What is written is taken, and says what was written.
LEMMA RequestEncoded ==
  ASSUME NEW r, IsRequestBody(r), NEW flags \in {0, ContinuedFlag}
  PROVE  LET f == RequestFrame(r, flags)
         IN /\ Alone(f) /\ RsRequestCode(f) = "OK" /\ Len(f) = 28 + 4 * Len(r.values)
            /\ Header(f, 0).command = TransformCmd /\ Header(f, 0).flags = flags
            /\ Header(f, 0).sequence = r.sequence % Half
            /\ Request(f) = [sequence |-> r.sequence % Half, multiplier |-> r.multiplier,
                             offset |-> r.offset, values |-> r.values]
<1>1. flags \in 0..Half - 1
  BY Unwrapped DEF ContinuedFlag
<1>2. PICK f : f = RequestFrame(r, flags)
  OBVIOUS
<1>3. f \in Buffers /\ Len(f) = 28 + 4 * Len(r.values)
  BY <1>1, <1>2, NoBytes, RequestHeld
<1>4. RequestSays(f, 0, r, flags)
  BY <1>1, <1>2, <1>3, HeldWhole, RequestHeld
<1>5. PICK n : n = Len(r.values)
  OBVIOUS
<1>6. n \in Nat /\ n \in 0..MaxValues
  BY <1>5, Unwrapped DEF IsRequestBody
<1>7. PICK size : size = RequestSize(r)
  OBVIOUS
<1>8. size \in Nat /\ size = 12 + 4 * n /\ size <= MaxPayload
  BY <1>5, <1>6, <1>7, Sizes DEF RequestSize
<1>9. PICK h : h = r.sequence % Half
  OBVIOUS
<1>10. HeaderSays(f, 0, TransformCmd, flags, h, size)
  BY <1>4, <1>7, <1>9 DEF RequestSays
<1>11. Len(f) = 16 + size
  BY <1>3, <1>5, <1>6, <1>8
<1>12. /\ Alone(f) /\ Header(f, 0).command = TransformCmd /\ Header(f, 0).flags = flags
       /\ Header(f, 0).sequence = h
  BY <1>3, <1>8, <1>10, <1>11, WrittenFits
<1>13. /\ ReadU32LE(f, 16) = n /\ ReadI32LE(f, 20) = r.multiplier
       /\ ReadI32LE(f, 24) = r.offset /\ Ints(f, 28, n) = r.values
  BY <1>4, <1>5 DEF RequestSays
<1>14. RsRequestCode(f) = "OK"
  <2>1. Len(f) = (16 + 12) + 4 * n
    BY <1>3, <1>5, <1>6
  <2>2. ReadU32LE(f, WireSize) = n /\ Len(f) = WireSize + 12 + 4 * n
    BY <1>13, <2>1 DEF WireSize
  <2>3. \A flag \in {ErrorFlag, CompressedFlag} : ~Has(Header(f, 0).flags, flag)
    BY <1>12, NoOtherFlags
  <2>. QED
    BY <1>3, <1>6, <1>12, <2>2, <2>3, TransformsTaken DEF IsTransform, Alone
<1>15. Request(f) = [sequence |-> h, multiplier |-> r.multiplier,
                     offset |-> r.offset, values |-> r.values]
  BY <1>12, <1>13 DEF Request, WireSize
<1>. QED
  BY <1>2, <1>3, <1>9, <1>12, <1>14, <1>15

\* A response that is written is taken,
LEMMA ResponseEncoded ==
  ASSUME NEW r, IsResponseBody(r)
  PROVE  LET f == ResponseFrame(r)
         IN /\ Alone(f) /\ RsResponseCode(f) = "OK" /\ Len(f) = 24 + 4 * Len(r.values)
            /\ Header(f, 0).command = TransformCmd /\ Header(f, 0).flags = 0
            /\ Header(f, 0).sequence = r.sequence % Half
            /\ Response(f) = [sequence |-> r.sequence % Half, checksum |-> r.checksum,
                              values |-> r.values]
<1>1. PICK f : f = ResponseFrame(r)
  OBVIOUS
<1>2. f \in Buffers /\ Len(f) = 24 + 4 * Len(r.values)
  BY <1>1, NoBytes, ResponseHeld
<1>3. ResponseSays(f, 0, r)
  BY <1>1, <1>2, HeldWhole, ResponseHeld
<1>4. PICK n : n = Len(r.values)
  OBVIOUS
<1>5. n \in Nat /\ n \in 0..MaxValues
  BY <1>4, Unwrapped DEF IsResponseBody
<1>6. PICK size : size = ResponseSize(r)
  OBVIOUS
<1>7. size \in Nat /\ size = 8 + 4 * n /\ size <= MaxPayload
  BY <1>4, <1>5, <1>6, Sizes DEF ResponseSize
<1>8. PICK h : h = r.sequence % Half
  OBVIOUS
<1>9. HeaderSays(f, 0, TransformCmd, 0, h, size)
  BY <1>3, <1>6, <1>8 DEF ResponseSays
<1>10. Len(f) = 16 + size
  BY <1>2, <1>4, <1>5, <1>7
<1>11. /\ Alone(f) /\ Header(f, 0).command = TransformCmd /\ Header(f, 0).flags = 0
       /\ Header(f, 0).sequence = h
  BY <1>2, <1>7, <1>9, <1>10, WrittenFits
<1>12. /\ ReadU32LE(f, 16) = n /\ ReadU32LE(f, 20) = r.checksum /\ Ints(f, 24, n) = r.values
  BY <1>3, <1>4 DEF ResponseSays
<1>13. RsResponseCode(f) = "OK"
  <2>1. Len(f) = (16 + 8) + 4 * n
    BY <1>2, <1>4, <1>5
  <2>2. ReadU32LE(f, WireSize) = n /\ Len(f) = WireSize + 8 + 4 * n
    BY <1>12, <2>1 DEF WireSize
  <2>3. \A flag \in {CompressedFlag} : ~Has(Header(f, 0).flags, flag)
    BY <1>11, NoOtherFlags
  <2>. QED
    BY <1>2, <1>5, <1>11, <2>2, <2>3, TransformsTaken DEF IsTransform, Alone
<1>14. Response(f) = [sequence |-> h, checksum |-> r.checksum, values |-> r.values]
  BY <1>11, <1>12 DEF Response, WireSize
<1>. QED
  BY <1>1, <1>2, <1>8, <1>11, <1>13, <1>14

\* as is an information,
LEMMA InfoEncoded ==
  ASSUME NEW i, IsInfoBody(i), Len(i.version) \in 1..MaxVersionLen,
         \A k \in 1..Len(i.version) : i.version[k] # 0 /\ i.version[k] # Base - 1
  PROVE  LET f == InfoFrame(i)
         IN /\ Alone(f) /\ TsInfoCode(f) = "OK" /\ Len(f) = 24 + Len(i.version)
            /\ Header(f, 0).command = GetInfoCmd /\ Header(f, 0).flags = 0
            /\ Header(f, 0).sequence = i.sequence % Half /\ Info(f).abi = i.abi
<1>1. PICK f : f = InfoFrame(i)
  OBVIOUS
<1>2. PICK n : n = Len(i.version)
  OBVIOUS
<1>3. n \in Nat /\ n \in 1..MaxVersionLen /\ 8 + n \in Nat /\ 8 + n <= MaxPayload
  BY <1>2, Sizes DEF IsInfoBody
<1>4. f \in Buffers /\ Len(f) = 24 + n
  BY <1>1, <1>2, NoBytes, InfoHeld
<1>5. InfoSays(f, 0, i)
  BY <1>1, <1>4, HeldWhole, InfoHeld
<1>6. PICK h : h = i.sequence % Half
  OBVIOUS
<1>7. HeaderSays(f, 0, GetInfoCmd, 0, h, 8 + n) /\ Len(f) = 16 + (8 + n)
  BY <1>2, <1>3, <1>4, <1>5, <1>6 DEF InfoSays
<1>8. /\ Alone(f) /\ Header(f, 0).command = GetInfoCmd /\ Header(f, 0).flags = 0
      /\ Header(f, 0).sequence = h
  BY <1>3, <1>4, <1>7, WrittenFits
<1>9. ReadU32LE(f, 16) = i.abi /\ ReadU32LE(f, 20) = n /\ Holds(f, 24, i.version)
  BY <1>2, <1>5 DEF InfoSays
<1>10. InfoVersion(f) = i.version
  <2>1. InfoVersion(f) = View(f, 24, n)
    <3>1. Len(f) - 16 - 8 = n
      BY <1>3, <1>4
    <3>. QED
      BY <3>1 DEF InfoVersion, WireSize
  <2>2. i.version \in Buffers /\ 24 \in Nat /\ 24 + n <= Len(f)
    BY <1>3, <1>4 DEF IsInfoBody
  <2>. QED
    <3>1. PICK o \in Nat : o = 24
      BY <2>2
    <3>2. o + n <= Len(f) /\ Holds(f, o, i.version) /\ InfoVersion(f) = View(f, o, n)
      BY <1>9, <2>1, <2>2, <3>1
    <3>3. \A t \in Buffers : Len(t) = n /\ Holds(f, o, t) => View(f, o, n) = t
      BY <1>3, <1>4, <3>2, Viewed
    <3>. QED
      BY <1>2, <2>2, <3>2, <3>3
<1>11. DOMAIN i.version = 1..n
  BY <1>2, BufferBytes DEF IsInfoBody
<1>12. ~HasNul(InfoVersion(f))[1] /\ ~NoUtf8(InfoVersion(f))[1]
  BY <1>2, <1>10, <1>11 DEF HasNul, NoUtf8
<1>13. ~Has(Header(f, 0).flags, ErrorFlag)
  BY <1>8, NoOtherFlags
<1>14. RsInfoCode(f) = "OK"
  BY <1>3, <1>4, <1>8, <1>9, <1>12, <1>13, InfoTaken DEF Alone
<1>15. TsInfoCode(f) = "OK" /\ Info(f).abi = i.abi
  BY <1>4, <1>9, <1>12, <1>14, InfoChecked DEF Info, WireSize
<1>. QED
  BY <1>1, <1>2, <1>4, <1>6, <1>8, <1>15

\* and a request for one.
LEMMA InfoRequestEncoded ==
  ASSUME NEW sequence \in Int
  PROVE  LET f == InfoRequestFrame(sequence)
         IN /\ Alone(f) /\ Len(f) = 16
            /\ Header(f, 0).command = GetInfoCmd /\ Header(f, 0).flags = 0
            /\ Header(f, 0).sequence = sequence % Half /\ Header(f, 0).payloadLen = 0
<1>1. PICK f : f = InfoRequestFrame(sequence)
  OBVIOUS
<1>2. GetInfoCmd \in 0..Half - 1 /\ 0 \in 0..Half - 1 /\ 0 \in 0..Word - 1
  BY Unwrapped DEF GetInfoCmd
<1>3. f \in Buffers /\ Len(f) = 16
  BY <1>1, <1>2, HeaderLength DEF InfoRequestFrame
<1>4. PICK h : h = sequence % Half
  OBVIOUS
<1>5. HeaderSays(f, 0, GetInfoCmd, 0, h, 0)
  BY <1>1, <1>2, <1>3, <1>4, HeldWhole, HeaderHeld DEF InfoRequestFrame
<1>6. 0 <= MaxPayload /\ Len(f) = 16 + 0
  BY <1>3, Sizes
<1>7. /\ Alone(f) /\ Header(f, 0).command = GetInfoCmd /\ Header(f, 0).flags = 0
      /\ Header(f, 0).sequence = h /\ Header(f, 0).payloadLen = 0
  <2>1. PICK z \in Nat : z = 0
    OBVIOUS
  <2>2. /\ GetInfoCmd \in {GetInfoCmd, TransformCmd} /\ z \in {0, ContinuedFlag}
        /\ z <= MaxPayload /\ HeaderSays(f, 0, GetInfoCmd, z, h, z) /\ Len(f) = 16 + z
    BY <1>5, <1>6, <2>1
  <2>3. /\ Alone(f) /\ Header(f, 0).command = GetInfoCmd /\ Header(f, 0).flags = z
        /\ Header(f, 0).sequence = h /\ Header(f, 0).payloadLen = z
    BY <1>3, <2>2, WrittenFits
  <2>. QED
    BY <2>1, <2>3
<1>. QED
  BY <1>1, <1>3, <1>4, <1>7

-----------------------------------------------------------------------------
(* Sums and checksums. *)

\* What is left of a finite set is smaller.
LEMMA OneLess ==
  ASSUME NEW S, IsFiniteSet(S), NEW s \in SUBSET S, NEW x \in s
  PROVE  /\ s \ {x} \in SUBSET S /\ Cardinality(s) \in Nat
         /\ Cardinality(s) <= Cardinality(S)
         /\ Cardinality(s \ {x}) \in Nat /\ Cardinality(s \ {x}) = Cardinality(s) - 1
<1>1. IsFiniteSet(s) /\ Cardinality(s) <= Cardinality(S)
  BY FS_Subset
<1>2. IsFiniteSet(s \ {x}) /\ Cardinality(s \ {x}) = Cardinality(s) - 1
  BY <1>1, FS_RemoveElement
<1>. QED
  BY <1>1, <1>2, FS_CardinalityType

IsFold(h, S, base, ch, g) ==
  \A s \in SUBSET S : h[s] = IF s = {} THEN base ELSE g[<<ch[s], h[s \ {ch[s]}]>>]

\* A recursion over the subsets of a finite set that takes out one element at a
\* time is a function: it exists for the sets of every size.
LEMMA FoldExists ==
  ASSUME NEW S, IsFiniteSet(S), NEW V, NEW base \in V, NEW ch,
         \A s \in SUBSET S : s # {} => ch[s] \in s,
         NEW g \in [S \X V -> V]
  PROVE  \E h \in [SUBSET S -> V] : IsFold(h, S, base, ch, g)
<1> DEFINE Upto(k) == {s \in SUBSET S : Cardinality(s) <= k}
           Solves(h, k) == h \in [Upto(k) -> V] /\
             \A s \in Upto(k) : h[s] = IF s = {} THEN base ELSE g[<<ch[s], h[s \ {ch[s]}]>>]
           Bad == {k \in Nat : ~\E h : Solves(h, k)}
<1>1. Cardinality(S) \in Nat
  BY FS_CardinalityType
<1>2. Bad = {}
  <2>1. SUFFICES ASSUME Bad # {} PROVE FALSE
    OBVIOUS
  <2>2. PICK k \in Bad : \A j \in Bad : k <= j
    <3>. HIDE DEF Bad
    <3>1. Bad \in SUBSET Nat
      BY DEF Bad
    <3>. QED
      BY <2>1, <3>1, MinIsLeast
  <2>3. k \in Nat /\ ~\E h : Solves(h, k)
    OBVIOUS
  <2>4. k # 0
    <3>1. SUFFICES ASSUME k = 0 PROVE FALSE
      OBVIOUS
    <3>2. \A s \in Upto(0) : s = {}
      <4>1. SUFFICES ASSUME NEW s \in SUBSET S, Cardinality(s) <= 0 PROVE s = {}
        OBVIOUS
      <4>2. IsFiniteSet(s) /\ Cardinality(s) \in Nat
        BY FS_Subset, FS_CardinalityType
      <4>. QED
        BY <4>1, <4>2, FS_EmptySet
    <3>3. Solves([s \in Upto(0) |-> base], 0)
      BY <3>2
    <3>. QED
      BY <2>3, <3>1, <3>3
  <2>5. k - 1 \in Nat /\ k - 1 \notin Bad
    <3>1. k - 1 \in Nat /\ ~(k <= k - 1)
      BY <2>3, <2>4
    <3>. HIDE DEF Bad
    <3>. QED
      BY <2>2, <3>1
  <2>6. PICK h : Solves(h, k - 1)
    BY <2>5
  <2> DEFINE f == [s \in Upto(k) |-> IF s = {} THEN base ELSE g[<<ch[s], h[s \ {ch[s]}]>>]]
  <2>7. ASSUME NEW s \in Upto(k), s # {}
        PROVE  ch[s] \in S /\ s \ {ch[s]} \in Upto(k - 1)
    <3>1. ch[s] \in s /\ s \in SUBSET S
      BY <2>7
    <3>2. s \ {ch[s]} \in SUBSET S /\ Cardinality(s) \in Nat /\ Cardinality(s) <= k
          /\ Cardinality(s \ {ch[s]}) = Cardinality(s) - 1
      BY <2>7, <3>1, OneLess
    <3>. QED
      BY <2>3, <3>1, <3>2
  <2>8. f \in [Upto(k) -> V]
    <3>1. ASSUME NEW s \in Upto(k), s # {} PROVE g[<<ch[s], h[s \ {ch[s]}]>>] \in V
      <4>1. h[s \ {ch[s]}] \in V
        BY <2>6, <2>7, <3>1
      <4>. QED
        BY <2>7, <3>1, <4>1
    <3>. QED
      BY <3>1
  <2>9. ASSUME NEW s \in Upto(k - 1) PROVE s \in Upto(k) /\ f[s] = h[s]
    <3>1. IsFiniteSet(s) /\ Cardinality(s) \in Nat
      BY FS_Subset, FS_CardinalityType
    <3>2. s \in Upto(k)
      BY <2>3, <3>1
    <3>. QED
      BY <2>6, <3>2
  <2>10. Solves(f, k)
    <3>1. ASSUME NEW s \in Upto(k), s # {}
          PROVE  f[s] = g[<<ch[s], f[s \ {ch[s]}]>>]
      BY <2>7, <2>9, <3>1
    <3>. QED
      BY <2>8, <3>1
  <2>. QED
    BY <2>3, <2>10
<1>3. PICK h : Solves(h, Cardinality(S))
  BY <1>1, <1>2
<1>4. Upto(Cardinality(S)) = SUBSET S
  BY FS_Subset
<1>5. h \in [SUBSET S -> V]
  BY <1>3, <1>4
<1>6. \A s \in SUBSET S : h[s] = IF s = {} THEN base ELSE g[<<ch[s], h[s \ {ch[s]}]>>]
  BY <1>3, <1>4
<1>7. IsFold(h, S, base, ch, g)
  <2>. HIDE DEF Upto, Solves
  <2>. QED
    BY <1>6 DEF IsFold
<1>. QED
  BY <1>5, <1>7

\* Adding up over a set of places, in any order.
LEMMA SumSteps ==
  ASSUME NEW values \in Seq(Int)
  PROVE  \E h \in [SUBSET (DOMAIN values) -> Int] :
           /\ h[{}] = 0 /\ h[DOMAIN values] = Sum(values)
           /\ \A s \in SUBSET (DOMAIN values) :
                \A x \in s : h[s] = values[x] + h[s \ {x}]
<1> DEFINE S == DOMAIN values
           AnyOf(s) == CHOOSE x \in s : TRUE
           ch == [s \in SUBSET S |-> AnyOf(s)]
           g == [p \in S \X Int |-> values[p[1]] + p[2]]
           Step(h, s) == IF s = {} THEN 0 ELSE values[AnyOf(s)] + h[s \ {AnyOf(s)}]
<1>1. S = 1..Len(values) /\ Len(values) \in Nat /\ \A i \in S : values[i] \in Int
  BY ElementOfSeq, LenProperties
<1>2. IsFiniteSet(S)
  BY <1>1, FS_Interval
<1>3. \A s \in SUBSET S : s # {} => AnyOf(s) \in s
  OBVIOUS
<1>4. g \in [S \X Int -> Int]
  BY <1>1
<1>5. PICK h \in [SUBSET S -> Int] : IsFold(h, S, 0, ch, g)
  <2>1. \A s \in SUBSET S : s # {} => ch[s] \in s
    BY <1>3
  <2>2. 0 \in Int
    OBVIOUS
  <2>. HIDE DEF S, ch, g
  <2>. QED
    BY <1>2, <1>4, <2>1, <2>2, FoldExists
<1>. HIDE DEF AnyOf
<1>6. ASSUME NEW s \in SUBSET S PROVE h[s] = Step(h, s)
  <2>1. ASSUME s # {} PROVE h[s] = values[AnyOf(s)] + h[s \ {AnyOf(s)}]
    <3>1. PICK c \in s : c = AnyOf(s)
      BY <1>3, <2>1
    <3>2. ch[s] = c
      BY <3>1
    <3>3. h[s \ {c}] \in Int
      BY <1>5
    <3>4. g[<<c, h[s \ {c}]>>] = values[c] + h[s \ {c}]
      BY <3>1, <3>3
    <3>5. h[s] = g[<<ch[s], h[s \ {ch[s]}]>>]
      BY <1>5, <2>1 DEF IsFold
    <3>. QED
      BY <3>1, <3>2, <3>4, <3>5
  <2>2. s = {} => h[s] = 0
    BY <1>5 DEF IsFold
  <2>. QED
    BY <2>1, <2>2
<1>7. h = [s \in SUBSET S |-> Step(h, s)]
  <2>. HIDE DEF Step
  <2>. QED
    BY <1>5, <1>6
<1>8. PICK iter : iter = CHOOSE f : f = [s \in SUBSET S |-> Step(f, s)]
  OBVIOUS
<1>9. iter = [s \in SUBSET S |-> Step(iter, s)]
  <2>. HIDE DEF Step, S
  <2>. QED
    BY <1>7, <1>8
<1>10. Sum(values) = iter[S]
  BY <1>8 DEF Sum, MapThenSumSet, MapThenFoldSet, AnyOf
<1>11. \A s \in SUBSET S : iter[s] = Step(iter, s)
  <2>. HIDE DEF Step, S
  <2>. QED
    BY <1>9
<1> DEFINE Good(s) == iter[s] \in Int /\ \A x \in s : iter[s] = values[x] + iter[s \ {x}]
           Bad == {k \in Nat : \E s \in SUBSET S : Cardinality(s) = k /\ ~Good(s)}
<1>12. Bad = {}
  <2>1. SUFFICES ASSUME Bad # {} PROVE FALSE
    OBVIOUS
  <2>2. PICK k \in Bad : \A j \in Bad : k <= j
    <3>. HIDE DEF Bad
    <3>1. Bad \in SUBSET Nat
      BY DEF Bad
    <3>. QED
      BY <2>1, <3>1, MinIsLeast
  <2>3. PICK s \in SUBSET S : Cardinality(s) = k /\ ~Good(s)
    OBVIOUS
  <2>4. ASSUME NEW t \in SUBSET S, Cardinality(t) \in Nat, Cardinality(t) < k PROVE Good(t)
    <3>. HIDE DEF Good
    <3>1. Cardinality(t) \notin Bad
      <4>. HIDE DEF Bad
      <4>1. k \in Nat
        BY DEF Bad
      <4>. QED
        BY <2>2, <2>4, <4>1
    <3>. QED
      BY <2>4, <3>1
  <2>5. ASSUME NEW x \in s
        PROVE  /\ s \ {x} \in SUBSET S /\ Cardinality(s \ {x}) \in Nat
               /\ Cardinality(s \ {x}) = k - 1 /\ k \in Nat
    <3>. HIDE DEF S
    <3>. QED
      BY <1>2, <2>3, OneLess
  <2>6. ASSUME NEW x \in s PROVE Good(s \ {x})
    <3>. HIDE DEF Good
    <3>1. Cardinality(s \ {x}) < k
      BY <2>5
    <3>. QED
      BY <2>4, <2>5, <3>1
  <2>7. ASSUME s # {} PROVE Good(s)
    <3>1. PICK c \in s : c = AnyOf(s)
      BY <1>3, <2>7
    <3>2. iter[s] = values[c] + iter[s \ {c}]
      BY <1>11, <2>7, <3>1
    <3>3. iter[s \ {c}] \in Int /\ values[c] \in Int
      BY <1>1, <2>6
    <3>4. ASSUME NEW x \in s, x # c PROVE iter[s] = values[x] + iter[s \ {x}]
      <4>1. x \in s \ {c} /\ c \in s \ {x} /\ values[x] \in Int
        BY <1>1, <3>4
      <4>2. (s \ {c}) \ {x} = (s \ {x}) \ {c}
        OBVIOUS
      <4>3. \A y \in s \ {c} : iter[s \ {c}] = values[y] + iter[(s \ {c}) \ {y}]
        BY <2>6
      <4>4. \A y \in s \ {x} : iter[s \ {x}] = values[y] + iter[(s \ {x}) \ {y}]
        BY <2>6
      <4>5. iter[s \ {c}] = values[x] + iter[(s \ {c}) \ {x}]
        BY <4>1, <4>3
      <4>6. iter[s \ {x}] = values[c] + iter[(s \ {c}) \ {x}]
        BY <4>1, <4>2, <4>4
      <4>7. iter[(s \ {c}) \ {x}] \in Int
        <5>1. Cardinality((s \ {c}) \ {x}) \in Nat /\ Cardinality((s \ {c}) \ {x}) < k
          <6>1. Cardinality((s \ {c}) \ {x}) \in Nat
                /\ Cardinality((s \ {c}) \ {x}) = Cardinality(s \ {c}) - 1
            <7>1. PICK t \in SUBSET S : t = s \ {c}
              BY <2>5
            <7>2. x \in t
              BY <4>1, <7>1
            <7>3. Cardinality(t \ {x}) \in Nat /\ Cardinality(t \ {x}) = Cardinality(t) - 1
              <8>. HIDE DEF S
              <8>. QED
                BY <1>2, <7>2, OneLess
            <7>. QED
              BY <7>1, <7>3
          <6>. QED
            BY <2>5, <6>1
        <5>2. (s \ {c}) \ {x} \in SUBSET S
          OBVIOUS
        <5>3. Good((s \ {c}) \ {x})
          <6>. HIDE DEF Good, S
          <6>. QED
            BY <2>4, <5>1, <5>2
        <5>. QED
          BY <5>3
      <4>. QED
        BY <3>2, <3>3, <4>1, <4>5, <4>6, <4>7
    <3>5. \A x \in s : iter[s] = values[x] + iter[s \ {x}]
      BY <3>2, <3>4
    <3>6. iter[s] \in Int
      BY <3>2, <3>3
    <3>. QED
      BY <3>5, <3>6
  <2>8. ASSUME s = {} PROVE Good(s)
    <3>1. iter[s] = Step(iter, s)
      BY <1>11
    <3>2. iter[s] = 0
      BY <2>8, <3>1
    <3>. QED
      BY <2>8, <3>2
  <2>. QED
    BY <2>3, <2>7, <2>8
<1>13. \A s \in SUBSET S : Good(s)
  <2>1. ASSUME NEW s \in SUBSET S PROVE Good(s)
    <3>1. IsFiniteSet(s) /\ Cardinality(s) \in Nat
      <4>. HIDE DEF S
      <4>. QED
        BY <1>2, FS_Subset, FS_CardinalityType
    <3>. QED
      BY <1>12, <3>1
  <2>. QED
    BY <2>1
<1>14. iter \in [SUBSET S -> Int]
  <2>. HIDE DEF Step
  <2>1. DOMAIN iter = SUBSET S
    BY <1>9
  <2>2. iter = [s \in SUBSET S |-> iter[s]]
    BY <1>9, <1>11
  <2>. QED
    BY <1>13, <2>2
<1>15. iter[{}] = 0
  BY <1>11
<1>. QED
  BY <1>10, <1>13, <1>14, <1>15

\* Bounded sets of numbers have a largest one.
LEMMA MaxIsGreatest ==
  ASSUME NEW n \in Nat, NEW s \in SUBSET (0..n), s # {}
  PROVE  Max(s) \in s /\ \A j \in s : j <= Max(s)
<1> DEFINE T == {n - x : x \in s}
<1>1. T \in SUBSET Nat /\ T # {}
  <2>1. PICK x \in s : TRUE
    OBVIOUS
  <2>2. n - x \in T
    OBVIOUS
  <2>3. \A j \in s : n - j \in Nat
    OBVIOUS
  <2>. QED
    BY <2>2, <2>3
<1>2. Min(T) \in T /\ \A j \in T : Min(T) <= j
  <2>. HIDE DEF T
  <2>. QED
    BY <1>1, MinIsLeast
<1>3. PICK m \in s : Min(T) = n - m
  BY <1>2
<1>4. \A j \in s : m >= j
  <2>1. ASSUME NEW j \in s PROVE m >= j
    <3>1. n - j \in T
      OBVIOUS
    <3>2. n - m <= n - j
      BY <1>2, <1>3, <3>1
    <3>. QED
      BY <3>2
  <2>. QED
    BY <2>1
<1>5. Max(s) \in s /\ \A j \in s : Max(s) >= j
  <2>. HIDE DEF T
  <2>. QED
    BY <1>4 DEF Max
<1>6. \A j \in s : j <= Max(s)
  BY <1>5
<1>. QED
  BY <1>5, <1>6

\* Remainders can be added up.
LEMMA AddRemainders ==
  ASSUME NEW M \in Nat, M >= 2, NEW v \in Int, NEW w \in Int
  PROVE  ((w % M) + (v % M)) % M = (v + w) % M
<1>1. PICK q, x, p, y, r, z :
        /\ q = v \div M /\ x = v % M /\ p = w \div M /\ y = w % M
        /\ r = (y + x) \div M /\ z = (y + x) % M
  OBVIOUS
<1>2. q \in Int /\ x \in 0..M - 1 /\ v = M * q + x
  BY <1>1, Digits
<1>3. p \in Int /\ y \in 0..M - 1 /\ w = M * p + y
  BY <1>1, Digits
<1>4. r \in Int /\ z \in 0..M - 1 /\ y + x = M * r + z
  <2>1. PICK t \in Int : t = y + x
    BY <1>2, <1>3
  <2>2. r = t \div M /\ z = t % M
    BY <1>1, <2>1
  <2>. QED
    BY <2>1, <2>2, Digits
<1>5. PICK c \in Int : c = q + p + r
  BY <1>2, <1>3, <1>4
<1>6. v + w = z + M * c
  <2>1. v + w = M * q + M * p + M * r + z
    BY <1>2, <1>3, <1>4
  <2>2. M * c = M * q + M * p + M * r
    BY <1>2, <1>3, <1>4, <1>5
  <2>3. M * q \in Int /\ M * p \in Int /\ M * r \in Int
    BY <1>2, <1>3, <1>4
  <2>. QED
    BY <1>4, <2>1, <2>2, <2>3
<1>7. (z + M * c) % M = z
  BY <1>4, Digits
<1>. QED
  BY <1>1, <1>6, <1>7

\* The accumulator, which wraps at every step, ends where the sum does.
LEMMA ChecksumIsSum ==
  ASSUME NEW values \in Seq(Int)
  PROVE  /\ Sum(values) \in Int
         /\ Checksum(values) = Sum(values) % Word /\ Checksum(values) \in 0..Word - 1
<1> DEFINE S == DOMAIN values
           Step(h, s) == IF s = {} THEN 0
                         ELSE (h[s \ {Max(s)}] + (values[Max(s)] % Word)) % Word
<1>1. S = 1..Len(values) /\ Len(values) \in Nat /\ \A i \in S : values[i] \in Int
  BY ElementOfSeq, LenProperties
<1>2. IsFiniteSet(S)
  BY <1>1, FS_Interval
<1>3. PICK h \in [SUBSET S -> Int] :
        /\ h[{}] = 0 /\ h[S] = Sum(values)
        /\ \A s \in SUBSET S : \A x \in s : h[s] = values[x] + h[s \ {x}]
  BY SumSteps
<1>4. \A s \in SUBSET S : s # {} => Max(s) \in s
  <2>1. S \subseteq 0..Len(values)
    BY <1>1
  <2>. QED
    BY <1>1, <2>1, MaxIsGreatest
<1>5. Word \in Nat /\ Word >= 2
  BY Sizes
<1> DEFINE k == [s \in SUBSET S |-> h[s] % Word]
<1>6. ASSUME NEW s \in SUBSET S PROVE k[s] = Step(k, s)
  <2>1. ASSUME s # {} PROVE k[s] = (k[s \ {Max(s)}] + (values[Max(s)] % Word)) % Word
    <3>1. PICK m \in s : m = Max(s)
      BY <1>4, <2>1
    <3>2. PICK v \in Int, w \in Int : v = values[m] /\ w = h[s \ {m}]
      BY <1>1, <1>3
    <3>3. h[s] = v + w
      BY <1>3, <3>1, <3>2
    <3>4. k[s] = (v + w) % Word
      BY <3>3
    <3>5. k[s \ {m}] = w % Word
      BY <3>2
    <3>6. ((w % Word) + (v % Word)) % Word = (v + w) % Word
      BY <1>5, AddRemainders
    <3>. QED
      BY <3>1, <3>2, <3>4, <3>5, <3>6
  <2>2. ASSUME s = {} PROVE k[s] = 0
    <3>1. 0 % Word = 0
      BY <1>5
    <3>. QED
      BY <1>3, <2>2, <3>1
  <2>. QED
    BY <2>1, <2>2
<1>7. k = [s \in SUBSET S |-> Step(k, s)]
  <2>1. k = [s \in SUBSET S |-> k[s]]
    OBVIOUS
  <2>. HIDE DEF Step, k, S
  <2>. QED
    BY <1>6, <2>1
<1>8. PICK iter : iter = CHOOSE f : f = [s \in SUBSET S |-> Step(f, s)]
  OBVIOUS
<1>9. iter = [s \in SUBSET S |-> Step(iter, s)]
  <2>. HIDE DEF Step, S, k
  <2>. QED
    BY <1>7, <1>8
<1>10. Checksum(values) = iter[S]
  BY <1>8 DEF Checksum, FoldLeft, MapThenFoldSet
<1>11. \A s \in SUBSET S : iter[s] = Step(iter, s)
  <2>. HIDE DEF Step, S
  <2>. QED
    BY <1>9
<1> DEFINE Bad == {c \in Nat : \E s \in SUBSET S : Cardinality(s) = c /\ iter[s] # k[s]}
<1>12. Bad = {}
  <2>1. SUFFICES ASSUME Bad # {} PROVE FALSE
    OBVIOUS
  <2>2. PICK c \in Bad : \A j \in Bad : c <= j
    <3>. HIDE DEF Bad
    <3>1. Bad \in SUBSET Nat
      BY DEF Bad
    <3>. QED
      BY <2>1, <3>1, MinIsLeast
  <2>3. PICK s \in SUBSET S : Cardinality(s) = c /\ iter[s] # k[s]
    OBVIOUS
  <2>4. ASSUME s # {} PROVE FALSE
    <3>1. PICK m \in s : m = Max(s)
      BY <1>4, <2>4
    <3>2. /\ s \ {m} \in SUBSET S /\ Cardinality(s \ {m}) \in Nat
          /\ Cardinality(s \ {m}) = c - 1 /\ c \in Nat
      <4>. HIDE DEF S, k
      <4>. QED
        BY <1>2, <2>3, OneLess
    <3>3. Cardinality(s \ {m}) \notin Bad
      <4>1. ~(c <= Cardinality(s \ {m}))
        BY <3>2
      <4>. HIDE DEF Bad, k, S
      <4>. QED
        BY <2>2, <4>1
    <3>4. iter[s \ {m}] = k[s \ {m}]
      <4>. HIDE DEF k, S
      <4>. QED
        BY <3>2, <3>3
    <3>5. Step(iter, s) = Step(k, s)
      BY <2>4, <3>1, <3>4
    <3>. QED
      <4>. HIDE DEF Step, k
      <4>. QED
        BY <1>6, <1>11, <2>3, <3>5
  <2>5. ASSUME s = {} PROVE FALSE
    <3>1. Step(iter, s) = Step(k, s)
      BY <2>5
    <3>. QED
      <4>. HIDE DEF Step, k
      <4>. QED
        BY <1>6, <1>11, <2>3, <3>1
  <2>. QED
    BY <2>4, <2>5
<1>13. iter[S] = k[S]
  <2>1. Cardinality(S) \in Nat /\ S \in SUBSET S
    <3>. HIDE DEF S
    <3>. QED
      BY <1>2, FS_CardinalityType
  <2>. HIDE DEF k, S
  <2>. QED
    BY <1>12, <2>1
<1>14. PICK v \in Int : v = Sum(values)
  BY <1>3
<1>15. Checksum(values) = v % Word
  BY <1>3, <1>10, <1>13, <1>14
<1>. QED
  BY <1>5, <1>14, <1>15, Digits

-----------------------------------------------------------------------------
(* Encoders. *)

\* The list d is c with one more check at p.
Inserted(c, n, d, m, p) ==
  /\ n \in Nat /\ m \in Nat /\ m = n + 1 /\ p \in 1..m
  /\ DOMAIN c = 1..n /\ DOMAIN d = 1..m
  /\ \A i \in 1..p - 1 : d[i] = c[i]
  /\ \A i \in p..n : d[i + 1] = c[i]

\* A check changes nothing when an earlier one holds whenever it does.
LEMMA ImpliedCheck ==
  ASSUME NEW c, NEW n, NEW d, NEW m, NEW p, Inserted(c, n, d, m, p),
         d[p][1] => \E j \in 1..p - 1 : c[j][1]
  PROVE  Verdict(c) = Verdict(d)
<1>. USE DEF Inserted
<1>1. CASE \A i \in 1..n : ~c[i][1]
  <2>1. ASSUME NEW i \in 1..m PROVE ~d[i][1]
    <3>1. CASE i < p
      <4>1. i \in 1..p - 1 /\ i \in 1..n
        BY <3>1
      <4>. QED
        BY <1>1, <4>1
    <3>2. CASE i = p
      <4>1. \A j \in 1..p - 1 : j \in 1..n
        OBVIOUS
      <4>. QED
        BY <1>1, <3>2, <4>1
    <3>3. CASE i > p
      <4>1. PICK j \in p..n : i = j + 1 /\ j \in 1..n
        <5>1. i - 1 \in p..n /\ i = (i - 1) + 1 /\ i - 1 \in 1..n
          BY <3>3
        <5>. QED
          BY <5>1
      <4>. QED
        BY <1>1, <4>1
    <3>. QED
      BY <3>1, <3>2, <3>3
  <2>. QED
    BY <1>1, <2>1, FirstRefusal
<1>2. CASE \E i \in 1..n : c[i][1] /\ \A j \in 1..i - 1 : ~c[j][1]
  <2>1. PICK i \in 1..n : c[i][1] /\ \A j \in 1..i - 1 : ~c[j][1]
    BY <1>2
  <2>2. Verdict(c) = c[i][2]
    BY <2>1, FirstRefusal
  <2>3. CASE i < p
    <3>1. i \in 1..p - 1 /\ i \in 1..m /\ \A j \in 1..i - 1 : j \in 1..p - 1
      BY <2>3
    <3>2. d[i] = c[i] /\ \A j \in 1..i - 1 : ~d[j][1]
      BY <2>1, <3>1
    <3>3. DOMAIN d = 1..m /\ m \in Nat /\ d[i][1]
      BY <2>1, <3>2
    <3>4. Verdict(d) = d[i][2]
      BY <3>1, <3>2, <3>3, FirstRefusal
    <3>. QED
      BY <2>2, <3>2, <3>4
  <2>4. CASE i >= p
    <3>1. PICK k \in 1..m : k = i + 1
      OBVIOUS
    <3>2. d[k] = c[i]
      BY <2>4, <3>1
    <3>3. ASSUME NEW j \in 1..k - 1 PROVE ~d[j][1]
      <4>1. CASE j < p
        <5>1. j \in 1..p - 1 /\ j \in 1..i - 1
          BY <2>4, <4>1
        <5>. QED
          BY <2>1, <5>1
      <4>2. CASE j = p
        <5>1. \A h \in 1..p - 1 : h \in 1..i - 1
          BY <2>4
        <5>. QED
          BY <2>1, <4>2, <5>1
      <4>3. CASE j > p
        <5>1. PICK h \in p..n : j = h + 1 /\ h \in 1..i - 1
          <6>1. j - 1 \in p..n /\ j = (j - 1) + 1 /\ j - 1 \in 1..i - 1
            BY <3>1, <4>3
          <6>. QED
            BY <6>1
        <5>. QED
          BY <2>1, <5>1
      <4>. QED
        BY <4>1, <4>2, <4>3
    <3>4. d[k][1] /\ d[k][2] = c[i][2] /\ \A j \in 1..k - 1 : ~d[j][1]
      BY <2>1, <3>2, <3>3
    <3>5. Verdict(d) = d[k][2]
      BY <3>4, FirstRefusal
    <3>. QED
      BY <2>2, <3>4, <3>5
  <2>. QED
    BY <2>3, <2>4
<1>. QED
  BY <1>1, <1>2, FirstRefusal

\* Whatever is to be encoded, the three encoders do the same with it.
LEMMA AllEncodedAlike ==
  ASSUME NEW r, r.values \in Seq(Int32), r.multiplier \in Int32, r.offset \in Int32,
         r.sequence \in Int, NEW flags \in Nat, NEW room \in Nat
  PROVE  EncodedAlike(r, flags, room)
<1> DEFINE size == RequestSize(r)
           M == ManyValues(r)  F == NoRequestFlags(flags)  R == NoRoom(size, room)
           L == <<size > MaxPayload, "LIMIT">>
           H == Passed(HeaderRefusal(TransformCmd, flags, size, room))
           c == <<M, F, R, H>>  d == <<M, F, L, R, H>>
<1>1. CRequestRefusal(r, flags, room) = Verdict(c) /\ RsRequestRefusal(r, flags, room) = Verdict(d)
  BY DEF CRequestRefusal, RsRequestRefusal
<1>2. PICK n \in Nat : n = Len(r.values)
  BY LenProperties
<1>3. PICK k \in Nat : k = size /\ k = 12 + 4 * n
  BY <1>2 DEF RequestSize
<1>4. n <= MaxValues => k <= MaxPayload
  BY <1>3, Sizes
<1>5. L[1] => M[1]
  <2>1. L[1] <=> k > MaxPayload
    BY <1>3
  <2>2. M[1] <=> n > MaxValues
    BY <1>2 DEF ManyValues
  <2>. QED
    BY <1>4, <2>1, <2>2, Sizes
<1>6. Verdict(c) = Verdict(d)
  <2>. HIDE DEF M, F, R, L, H
  <2>1. ASSUME NEW h \in Nat, h = 4, NEW m \in Nat, m = h + 1, NEW p \in 1..m, p = 3
        PROVE  Verdict(c) = Verdict(d)
    <3>1. PICK x, y : x = c /\ y = d
      OBVIOUS
    <3>2. DOMAIN x = 1..h /\ DOMAIN y = 1..m
      BY <2>1, <3>1
    <3>3. \A i \in 1..p - 1 : y[i] = x[i]
      BY <2>1, <3>1
    <3>4. \A i \in p..h : y[i + 1] = x[i]
      BY <2>1, <3>1
    <3>5. y[p] = L /\ x[1] = M /\ 1 \in 1..p - 1
      BY <2>1, <3>1
    <3>6. y[p][1] => \E j \in 1..p - 1 : x[j][1]
      BY <1>5, <3>5
    <3>7. Inserted(x, h, y, m, p)
      BY <2>1, <3>2, <3>3, <3>4 DEF Inserted
    <3>8. Verdict(x) = Verdict(y)
      BY <3>6, <3>7, ImpliedCheck
    <3>. QED
      BY <3>1, <3>8
  <2>2. 3 \in 1..5 /\ 4 \in Nat /\ 5 \in Nat /\ 5 = 4 + 1
    OBVIOUS
  <2>. QED
    BY <2>1, <2>2
<1>7. \A i \in 1..n : r.values[i] \in Int
  <2>1. Int32 \subseteq Int
    BY Sizes DEF Int32
  <2>. QED
    BY <1>2, <2>1, ElementOfSeq
<1>8. r.values \in Seq(Int)
  <2>1. r.values = [i \in 1..n |-> r.values[i]]
    BY <1>2, LenProperties
  <2>. QED
    BY <1>7, <2>1, IsASeq
<1>9. /\ TsRequestRefusal(r, flags, room) = "OK" <=> RequestWritable(r, flags, room)
      /\ CRequestRefusal(r, flags, room) = "OK" <=> RequestWritable(r, flags, room)
  BY <1>8, EncodersAgree
<1>10. ASSUME CRequestRefusal(r, flags, room) = "OK"
       PROVE  /\ Len(RequestFrame(r, flags)) <= room
              /\ CRequestCode(RequestFrame(r, flags)) = "OK"
  <2>1. n <= MaxValues /\ flags \in {0, ContinuedFlag} /\ 16 + k <= room
    BY <1>2, <1>3, <1>9, <1>10 DEF RequestWritable, WireSize
  <2>2. IsRequestBody(r)
    BY <1>2, <2>1, Sizes DEF IsRequestBody
  <2>3. PICK f : f = RequestFrame(r, flags)
    OBVIOUS
  <2>4. f \in Buffers /\ RsRequestCode(f) = "OK" /\ Len(f) = 28 + 4 * n
    BY <1>2, <2>1, <2>2, <2>3, RequestEncoded DEF Alone
  <2>5. Len(f) <= room
    BY <1>3, <2>1, <2>4
  <2>. QED
    BY <2>3, <2>4, <2>5, RequestsAgree
<1>. HIDE DEF size, M, F, R, L, H, c, d
<1>. QED
  BY <1>1, <1>5, <1>6, <1>9, <1>10 DEF EncodedAlike

-----------------------------------------------------------------------------
(* Scans and rows. *)

\* A scan from an offset on, given the scans from later ones.
Scans == [code : Codes, frames : Seq(Nat)]
Scanned(b, f, o) ==
  IF o = Len(b) THEN [code |-> "OK", frames |-> <<>>]
  ELSE IF TsNextFrame(b, o) # "OK" THEN [code |-> TsNextFrame(b, o), frames |-> <<>>]
  ELSE [code |-> f[o + FrameLen(b, o)].code,
        frames |-> <<o>> \o f[o + FrameLen(b, o)].frames]

\* A scan looks at later offsets only.
LEMMA ScanMovesOn ==
  ASSUME NEW b \in Buffers, NEW o \in 0..Len(b), NEW f,
         \A i \in o + 1..Len(b) : f[i] \in Scans
  PROVE  /\ Scanned(b, f, o) \in Scans
         /\ \A g : (\A i \in o + 1..Len(b) : g[i] = f[i]) => Scanned(b, g, o) = Scanned(b, f, o)
<1>1. TsNextFrame(b, o) \in Codes /\ Len(b) \in Nat
  BY FramesAgree, BufferBytes
<1>2. ASSUME TsNextFrame(b, o) = "OK"
      PROVE  o + FrameLen(b, o) \in o + 1..Len(b)
  BY <1>1, <1>2, FramesAgree DEF WireSize
<1>3. ASSUME TsNextFrame(b, o) = "OK"
      PROVE  [code |-> f[o + FrameLen(b, o)].code,
              frames |-> <<o>> \o f[o + FrameLen(b, o)].frames] \in Scans
  <2>1. PICK r \in Scans : r = f[o + FrameLen(b, o)]
    BY <1>2, <1>3
  <2>2. r.code \in Codes /\ r.frames \in Seq(Nat)
    BY DEF Scans
  <2>3. <<o>> \in Seq(Nat)
    OBVIOUS
  <2>4. <<o>> \o r.frames \in Seq(Nat)
    BY <2>2, <2>3, ConcatProperties
  <2>. QED
    BY <2>1, <2>2, <2>4 DEF Scans
<1>4. <<>> \in Seq(Nat) /\ "OK" \in Codes
  BY DEF Codes
<1>5. Scanned(b, f, o) \in Scans
  BY <1>1, <1>3, <1>4 DEF Scanned, Scans
<1>6. ASSUME NEW g, \A i \in o + 1..Len(b) : g[i] = f[i]
      PROVE  Scanned(b, g, o) = Scanned(b, f, o)
  BY <1>2, <1>6 DEF Scanned
<1>. QED
  BY <1>5, <1>6

\* There are scans from every offset on, and the scan of a buffer is the first.
LEMMA ScanExists ==
  ASSUME NEW b \in Buffers
  PROVE  \E f \in [0..Len(b) -> Scans] :
           /\ ScanFrames(b) = f[0]
           /\ \A o \in 0..Len(b) : f[o] = Scanned(b, f, o)
<1>1. PICK n \in Nat : n = Len(b)
  BY BufferBytes
<1> DEFINE Solves(f, k) == f \in [n - k..n -> Scans] /\ \A o \in n - k..n : f[o] = Scanned(b, f, o)
           Bad == {k \in 0..n : ~\E f : Solves(f, k)}
<1>2. Bad = {}
  <2>1. SUFFICES ASSUME Bad # {} PROVE FALSE
    OBVIOUS
  <2>2. PICK k \in Bad : \A j \in Bad : k <= j
    <3>1. Bad \in SUBSET Nat
      OBVIOUS
    <3>. HIDE DEF Bad
    <3>. QED
      BY <2>1, <3>1, MinIsLeast
  <2>3. k \in 0..n /\ ~\E f : Solves(f, k)
    OBVIOUS
  <2>4. PICK o \in 0..n : o = n - k
    BY <2>3
  <2>5. PICK h : \A i \in o + 1..n : h[i] \in Scans /\ h[i] = Scanned(b, h, i)
    <3>1. CASE k = 0
      BY <2>4, <3>1
    <3>2. CASE k # 0
      <4>1. k - 1 \in 0..n /\ ~(k <= k - 1) /\ n - (k - 1) = o + 1
        BY <2>3, <2>4, <3>2
      <4>2. k - 1 \notin Bad
        <5>. HIDE DEF Bad
        <5>. QED
          BY <2>2, <4>1
      <4>3. PICK f : Solves(f, k - 1)
        BY <4>1, <4>2
      <4>. QED
        BY <4>1, <4>3
    <3>. QED
      BY <3>1, <3>2
  <2> DEFINE f == [i \in o..n |-> IF i = o THEN Scanned(b, h, o) ELSE h[i]]
  <2>6. \A i \in o + 1..n : i \in o..n /\ f[i] = h[i] /\ f[i] \in Scans
    BY <2>5
  <2>7. f[o] = Scanned(b, h, o)
    OBVIOUS
  <2>8. f[o] \in Scans /\ f[o] = Scanned(b, f, o)
    <3>. HIDE DEF f
    <3>. QED
      BY <1>1, <2>5, <2>6, <2>7, ScanMovesOn
  <2>9. ASSUME NEW i \in o + 1..n PROVE f[i] = Scanned(b, f, i)
    <3>1. i \in 0..n /\ \A j \in i + 1..n : j \in o + 1..n
      OBVIOUS
    <3>2. Scanned(b, f, i) = Scanned(b, h, i)
      <4>1. \A j \in i + 1..n : f[j] = h[j] /\ h[j] \in Scans
        BY <2>5, <2>6, <3>1
      <4>. HIDE DEF f
      <4>. QED
        BY <1>1, <3>1, <4>1, ScanMovesOn
    <3>. QED
      BY <2>5, <2>6, <3>2
  <2>10. \A i \in o..n : i = o \/ i \in o + 1..n
    OBVIOUS
  <2>11. Solves(f, k)
    <3>1. \A i \in o..n : f[i] \in Scans /\ f[i] = Scanned(b, f, i)
      <4>. HIDE DEF f
      <4>. QED
        BY <2>6, <2>8, <2>9, <2>10
    <3>2. f \in [o..n -> Scans]
      BY <3>1
    <3>. QED
      BY <2>4, <3>1, <3>2
  <2>. QED
    BY <2>3, <2>11
<1>3. PICK f : Solves(f, n)
  <2>1. n \in 0..n
    BY <1>1
  <2>. QED
    BY <1>2, <2>1
<1>4. f \in [0..n -> Scans] /\ \A o \in 0..n : f[o] = Scanned(b, f, o)
  BY <1>3
<1> DEFINE Raw(g, o) ==
      LET verdict == TsNextFrame(b, o)
      IN IF o = Len(b) THEN [code |-> "OK", frames |-> <<>>]
         ELSE IF verdict # "OK" THEN [code |-> verdict, frames |-> <<>>]
         ELSE LET rest == g[o + FrameLen(b, o)]
              IN [rest EXCEPT !.frames = <<o>> \o @]
<1>5. ASSUME NEW o \in 0..n PROVE Scanned(b, f, o) = Raw(f, o)
  <2>1. ASSUME o # n, TsNextFrame(b, o) = "OK"
        PROVE  f[o + FrameLen(b, o)] \in Scans /\ o + FrameLen(b, o) \in o + 1..n
    BY <1>1, <1>4, <2>1, FramesAgree DEF WireSize
  <2>2. ASSUME NEW r \in Scans
        PROVE  [r EXCEPT !.frames = <<o>> \o @]
                 = [code |-> r.code, frames |-> <<o>> \o r.frames]
    <3>1. PICK s : s = <<o>> \o r.frames
      OBVIOUS
    <3>2. r = [code |-> r.code, frames |-> r.frames]
      BY DEF Scans
    <3>3. [r EXCEPT !.frames = s] = [code |-> r.code, frames |-> s]
      BY <3>2
    <3>. QED
      BY <3>1, <3>3
  <2>. QED
    BY <1>1, <2>1, <2>2 DEF Scanned
<1>6. f = [o \in 0..n |-> Raw(f, o)]
  <2>. HIDE DEF Raw
  <2>. QED
    BY <1>4, <1>5
<1>7. PICK from : from = CHOOSE g : g = [o \in 0..n |-> Raw(g, o)]
  OBVIOUS
<1>8. from = [o \in 0..n |-> Raw(from, o)]
  <2>. HIDE DEF Raw
  <2>. QED
    BY <1>6, <1>7
<1>9. ScanFrames(b) = from[0]
  BY <1>1, <1>7 DEF ScanFrames
<1> DEFINE Other == {k \in 0..n : from[n - k] # f[n - k]}
<1>10. Other = {}
  <2>1. SUFFICES ASSUME Other # {} PROVE FALSE
    OBVIOUS
  <2>2. PICK k \in Other : \A j \in Other : k <= j
    <3>1. Other \in SUBSET Nat
      OBVIOUS
    <3>. HIDE DEF Other
    <3>. QED
      BY <2>1, <3>1, MinIsLeast
  <2>3. PICK o \in 0..n : o = n - k /\ from[o] # f[o]
    OBVIOUS
  <2>4. ASSUME NEW i \in o + 1..n PROVE from[i] = f[i]
    <3>1. n - i \in 0..n /\ ~(k <= n - i) /\ n - (n - i) = i
      BY <2>3
    <3>2. n - i \notin Other
      <4>. HIDE DEF Other
      <4>. QED
        BY <2>2, <3>1
    <3>. QED
      BY <3>1, <3>2
  <2>5. o # n /\ TsNextFrame(b, o) = "OK" => o + FrameLen(b, o) \in o + 1..n
    BY <1>1, FramesAgree DEF WireSize
  <2>6. Raw(from, o) = Raw(f, o)
    BY <1>1, <2>4, <2>5
  <2>7. from[o] = Raw(from, o)
    <3>. HIDE DEF Raw
    <3>. QED
      BY <1>8
  <2>. QED
    <3>. HIDE DEF Raw
    <3>. QED
      BY <1>4, <1>5, <2>3, <2>6, <2>7
<1>11. from[0] = f[0]
  <2>1. n \in 0..n /\ n - n = 0
    BY <1>1
  <2>. QED
    BY <1>10, <2>1
<1>. QED
  BY <1>1, <1>4, <1>9, <1>11

\* The first n frames from an offset on are at m[1], ..., m[n] and end at m[n + 1].
Row(b, m, n) ==
  /\ n \in Nat /\ m \in [1..n + 1 -> Nat]
  /\ \A i \in 1..n : FrameFits(b, m[i]) /\ m[i + 1] = m[i] + FrameLen(b, m[i])
Longer(m, n, e) == [i \in 1..n + 2 |-> IF i = n + 2 THEN e ELSE m[i]]

\* The frames of a row are inside the buffer.
LEMMA RowBounds ==
  ASSUME NEW b \in Buffers, NEW m, NEW n, Row(b, m, n), NEW i \in 1..n
  PROVE  /\ m[i] \in Nat /\ m[i + 1] \in Nat /\ m[i] + 16 <= m[i + 1] /\ m[i + 1] <= Len(b)
         /\ FrameFits(b, m[i]) /\ m[i + 1] = m[i] + FrameLen(b, m[i])
<1>1. i \in 1..n + 1 /\ i + 1 \in 1..n + 1
  BY DEF Row
<1>2. m[i] \in Nat /\ m[i + 1] \in Nat /\ FrameFits(b, m[i]) /\ m[i + 1] = m[i] + FrameLen(b, m[i])
  BY <1>1 DEF Row
<1>. QED
  BY <1>2, FrameFound

\* Two rows that start at one place have the same frames.
LEMMA RowsAlike ==
  ASSUME NEW b, NEW m, NEW n, NEW l, NEW p, Row(b, m, n), Row(b, l, p), m[1] = l[1], n <= p
  PROVE  \A i \in 1..n + 1 : m[i] = l[i]
<1> DEFINE Bad == {i \in 1..n + 1 : m[i] # l[i]}
<1>1. n \in Nat /\ p \in Nat
  BY DEF Row
<1>2. SUFFICES ASSUME Bad # {} PROVE FALSE
  OBVIOUS
<1>3. PICK i \in Bad : \A j \in Bad : i <= j
  <2>1. Bad \in SUBSET Nat
    BY <1>1
  <2>. HIDE DEF Bad
  <2>. QED
    BY <1>2, <2>1, MinIsLeast
<1>4. i \in 1..n + 1 /\ m[i] # l[i] /\ i # 1
  OBVIOUS
<1>5. PICK j \in 1..n : i = j + 1
  BY <1>1, <1>4
<1>6. j \notin Bad
  <2>1. ~(i <= j)
    BY <1>1, <1>5
  <2>. HIDE DEF Bad
  <2>. QED
    BY <1>3, <2>1
<1>7. m[j] = l[j] /\ j \in 1..p
  BY <1>1, <1>5, <1>6
<1>8. m[j + 1] = m[j] + FrameLen(b, m[j]) /\ l[j + 1] = l[j] + FrameLen(b, l[j])
  BY <1>5, <1>7 DEF Row
<1>. QED
  BY <1>4, <1>5, <1>7, <1>8

\* A row that is full of the buffer is what a scan of it finds.
LEMMA RowScanned ==
  ASSUME NEW b \in Buffers, NEW m, NEW n, Row(b, m, n), m[1] = 0, m[n + 1] = Len(b)
  PROVE  ScanFrames(b) = [code |-> "OK", frames |-> [i \in 1..n |-> m[i]]]
<1>1. n \in Nat /\ Len(b) \in Nat /\ \A i \in 1..n + 1 : m[i] \in 0..Len(b)
  <2>1. n \in Nat /\ Len(b) \in Nat /\ \A i \in 1..n + 1 : m[i] \in Nat
    BY BufferBytes DEF Row
  <2>2. ASSUME NEW i \in 1..n PROVE m[i] <= Len(b)
    <3>1. PICK p, q : p = m[i] /\ q = m[i + 1]
      OBVIOUS
    <3>2. p \in Nat /\ q \in Nat /\ p + 16 <= q /\ q <= Len(b)
      BY <3>1, RowBounds
    <3>. QED
      BY <2>1, <3>1, <3>2
  <2>3. \A i \in 1..n + 1 : i \in 1..n \/ i = n + 1
    BY <2>1
  <2>. QED
    BY <2>1, <2>2, <2>3
<1>2. PICK f \in [0..Len(b) -> Scans] :
        /\ ScanFrames(b) = f[0]
        /\ \A o \in 0..Len(b) : f[o] = Scanned(b, f, o)
  BY ScanExists
<1> DEFINE Rest(k) == [code |-> "OK", frames |-> [j \in 1..k |-> m[(n - k) + j]]]
           Bad == {k \in 0..n : f[m[(n - k) + 1]] # Rest(k)}
<1>3. Bad = {}
  <2>1. SUFFICES ASSUME Bad # {} PROVE FALSE
    OBVIOUS
  <2>2. PICK k \in Bad : \A j \in Bad : k <= j
    <3>1. Bad \in SUBSET Nat
      BY <1>1
    <3>. HIDE DEF Bad
    <3>. QED
      BY <2>1, <3>1, MinIsLeast
  <2>3. k \in 0..n /\ f[m[(n - k) + 1]] # Rest(k)
    OBVIOUS
  <2>4. CASE k = 0
    <3>1. (n - k) + 1 = n + 1 /\ Len(b) \in 0..Len(b)
      BY <1>1, <2>4
    <3>2. f[m[(n - k) + 1]] = Scanned(b, f, Len(b))
      BY <1>2, <3>1
    <3>3. Scanned(b, f, Len(b)) = [code |-> "OK", frames |-> <<>>]
      BY DEF Scanned
    <3>4. [j \in 1..k |-> m[(n - k) + j]] = <<>>
      BY <2>4
    <3>. QED
      BY <2>3, <3>2, <3>3, <3>4
  <2>5. CASE k # 0
    <3>1. PICK i \in 1..n : i = (n - k) + 1
      BY <1>1, <2>3, <2>5
    <3>2. PICK h \in 0..n : h = k - 1 /\ (n - h) + 1 = i + 1
      BY <1>1, <2>3, <2>5, <3>1
    <3>3. h \notin Bad
      <4>1. ~(k <= h)
        BY <2>3, <3>2
      <4>. HIDE DEF Bad
      <4>. QED
        BY <2>2, <4>1
    <3>4. f[m[i + 1]] = Rest(h)
      <4>. HIDE DEF Rest
      <4>. QED
        BY <3>2, <3>3
    <3>5. PICK o \in 0..Len(b) : o = m[i]
      <4>1. i \in 1..n + 1
        BY <1>1
      <4>. QED
        BY <1>1, <4>1
    <3>6. o # Len(b) /\ m[i + 1] = o + FrameLen(b, o) /\ FrameFits(b, o)
      BY <1>1, <3>5, RowBounds
    <3>7. TsNextFrame(b, o) = "OK"
      BY <3>6, FramesAgree
    <3>8. f[o] = [code |-> "OK", frames |-> <<o>> \o Rest(h).frames]
      <4>1. f[o] = Scanned(b, f, o)
        BY <1>2
      <4>2. Rest(h).code = "OK"
        OBVIOUS
      <4>. HIDE DEF Rest
      <4>. QED
        BY <3>4, <3>6, <3>7, <4>1, <4>2 DEF Scanned
    <3>9. <<o>> \o Rest(h).frames = Rest(k).frames
      <4>1. PICK s : s = [j \in 1..h |-> m[(n - h) + j]]
        OBVIOUS
      <4>2. \A j \in 1..h : (n - h) + j \in 1..n + 1 /\ m[(n - h) + j] \in Nat
        BY <1>1, <3>2
      <4>3. s \in Seq(Nat) /\ Len(s) = h /\ \A j \in 1..h : s[j] = m[(n - h) + j]
        BY <3>2, <4>1, <4>2, IsASeq
      <4>4. PICK t : t = <<o>>
        OBVIOUS
      <4>5. t \in Seq(Nat) /\ Len(t) = 1 /\ t[1] = o
        BY <4>4
      <4>6. PICK u : u = t \o s
        OBVIOUS
      <4>7. /\ u \in Seq(Nat) /\ Len(u) = Len(t) + Len(s)
            /\ \A j \in 1..Len(t) : u[j] = t[j]
            /\ \A j \in 1..Len(s) : u[Len(t) + j] = s[j]
        <5>1. s \in Seq(Nat) /\ t \in Seq(Nat)
          BY <4>3, <4>5
        <5>2. /\ t \o s \in Seq(Nat) /\ Len(t \o s) = Len(t) + Len(s)
              /\ \A j \in 1..Len(t) : (t \o s)[j] = t[j]
              /\ \A j \in 1..Len(s) : (t \o s)[Len(t) + j] = s[j]
          BY <5>1, ConcatProperties
        <5>. QED
          BY <4>6, <5>2, Zenon
      <4>8. Len(u) = k /\ 1 \in 1..Len(t) /\ u[1] = o
        BY <2>3, <3>2, <4>3, <4>5, <4>7
      <4>9. \A j \in 1..h : u[1 + j] = m[(n - h) + j]
        <5>1. Len(t) = 1 /\ Len(s) = h /\ \A j \in 1..h : s[j] = m[(n - h) + j]
          BY <4>3, <4>5
        <5>2. \A j \in 1..Len(s) : u[Len(t) + j] = s[j]
          BY <4>7
        <5>3. \A j \in 1..h : u[1 + j] = s[j]
          BY <5>1, <5>2
        <5>. QED
          BY <5>1, <5>3
      <4>10. ASSUME NEW j \in 1..k PROVE u[j] = m[(n - k) + j]
        <5>1. CASE j = 1
          BY <3>1, <3>5, <4>8, <5>1
        <5>2. CASE j # 1
          <6>1. PICK q \in 1..h : j = 1 + q /\ (n - h) + q = (n - k) + j
            <7>1. j - 1 \in 1..h /\ j = 1 + (j - 1) /\ (n - h) + (j - 1) = (n - k) + j
              BY <1>1, <2>3, <3>2, <5>2
            <7>. QED
              BY <7>1
          <6>. QED
            BY <4>9, <6>1
        <5>. QED
          BY <5>1, <5>2
      <4>11. u = [j \in 1..k |-> u[j]]
        BY <4>7, <4>8, LenProperties
      <4>. QED
        BY <4>1, <4>4, <4>6, <4>10, <4>11
    <3>. QED
      BY <2>3, <3>1, <3>5, <3>8, <3>9
  <2>. QED
    BY <2>4, <2>5
<1>4. n \in 0..n /\ (n - n) + 1 = 1
  BY <1>1
<1>5. f[m[1]] = Rest(n)
  <2>. HIDE DEF Rest
  <2>. QED
    BY <1>3, <1>4
<1>6. Rest(n) = [code |-> "OK", frames |-> [i \in 1..n |-> m[i]]]
  <2>1. \A i \in 1..n : (n - n) + i = i
    BY <1>1
  <2>. QED
    BY <2>1
<1>. QED
  BY <1>2, <1>5, <1>6

\* What is scanned to the end is a row.
LEMMA ScannedRow ==
  ASSUME NEW b \in Buffers, ScanFrames(b).code = "OK"
  PROVE  \E m, n : Row(b, m, n) /\ m[1] = 0 /\ m[n + 1] = Len(b)
<1>1. PICK e \in Nat : e = Len(b)
  BY BufferBytes
<1>2. PICK f \in [0..e -> Scans] :
        ScanFrames(b) = f[0] /\ \A o \in 0..e : f[o] = Scanned(b, f, o)
  BY <1>1, ScanExists
<1> DEFINE RowFrom(o) == \E m, n : Row(b, m, n) /\ m[1] = o /\ m[n + 1] = e
           Bad == {k \in 0..e : f[e - k].code = "OK" /\ ~RowFrom(e - k)}
<1>3. Bad = {}
  <2>1. SUFFICES ASSUME Bad # {} PROVE FALSE
    OBVIOUS
  <2>2. PICK k \in Bad : \A j \in Bad : k <= j
    <3>1. Bad \in SUBSET Nat
      BY <1>1
    <3>. HIDE DEF Bad
    <3>. QED
      BY <2>1, <3>1, MinIsLeast
  <2>3. PICK o \in 0..e : o = e - k /\ f[o].code = "OK" /\ ~RowFrom(o)
    OBVIOUS
  <2>4. CASE o = e
    <3> DEFINE m == [i \in 1..0 + 1 |-> o]
    <3>1. Row(b, m, 0) /\ m[1] = o /\ m[0 + 1] = e
      BY <2>4 DEF Row
    <3>. QED
      BY <2>3, <3>1
  <2>5. CASE o # e
    <3>1. f[o] = Scanned(b, f, o)
      BY <1>2
    <3>2. TsNextFrame(b, o) = "OK"
      BY <1>1, <2>3, <2>5, <3>1 DEF Scanned
    <3>3. PICK p \in Nat : p = o + FrameLen(b, o) /\ p \in o + 1..e
      BY <1>1, <3>2, FramesAgree DEF WireSize
    <3>4. f[p].code = "OK"
      BY <1>1, <2>3, <2>5, <3>1, <3>2, <3>3 DEF Scanned
    <3>5. e - p \in 0..e /\ e - (e - p) = p /\ ~(k <= e - p)
      BY <2>3, <3>3
    <3>6. RowFrom(p)
      <4>1. e - p \notin Bad
        <5>. HIDE DEF Bad
        <5>. QED
          BY <2>2, <3>5
      <4>. QED
        BY <3>4, <3>5, <4>1
    <3>7. PICK m, n : Row(b, m, n) /\ m[1] = p /\ m[n + 1] = e
      BY <3>6
    <3>8. n \in Nat /\ m \in [1..n + 1 -> Nat] /\ FrameFits(b, o)
      BY <3>2, <3>7, FramesAgree DEF Row
    <3> DEFINE l == [i \in 1..(n + 1) + 1 |-> IF i = 1 THEN o ELSE m[i - 1]]
    <3>9. l \in [1..(n + 1) + 1 -> Nat] /\ n + 1 \in Nat
      BY <3>8
    <3>10. l[1] = o /\ l[2] = p /\ l[(n + 1) + 1] = e
      BY <3>7, <3>8
    <3>11. ASSUME NEW i \in 1..n + 1
           PROVE  FrameFits(b, l[i]) /\ l[i + 1] = l[i] + FrameLen(b, l[i])
      <4>1. CASE i = 1
        BY <3>3, <3>8, <3>10, <4>1
      <4>2. CASE i # 1
        <5>1. PICK j \in 1..n : i = j + 1 /\ l[i] = m[j] /\ l[i + 1] = m[j + 1]
          <6>1. i - 1 \in 1..n /\ i = (i - 1) + 1 /\ (i + 1) - 1 = (i - 1) + 1
                /\ i \in 1..(n + 1) + 1 /\ i + 1 \in 1..(n + 1) + 1 /\ i + 1 # 1
            BY <3>8, <4>2
          <6>2. l[i] = m[i - 1] /\ l[i + 1] = m[(i - 1) + 1]
            BY <4>2, <6>1
          <6>. QED
            BY <6>1, <6>2
        <5>. HIDE DEF l
        <5>. QED
          BY <3>7, <5>1 DEF Row
      <4>. QED
        BY <4>1, <4>2
    <3>12. Row(b, l, n + 1)
      <4>. HIDE DEF l
      <4>. QED
        BY <3>9, <3>11 DEF Row
    <3>. HIDE DEF l
    <3>. QED
      BY <2>3, <3>10, <3>12
  <2>. QED
    BY <2>4, <2>5
<1>4. e \in 0..e /\ e - e = 0
  OBVIOUS
<1>5. RowFrom(0)
  <2>. HIDE DEF RowFrom
  <2>. QED
    BY <1>2, <1>3, <1>4
<1>. QED
  BY <1>1, <1>5

\* A frame that fits at the end of a row makes it longer.
LEMMA RowGrows ==
  ASSUME NEW b \in Buffers, NEW m, NEW n, Row(b, m, n), FrameFits(b, m[n + 1])
  PROVE  Row(b, Longer(m, n, m[n + 1] + FrameLen(b, m[n + 1])), n + 1)
<1>1. n \in Nat /\ n + 1 \in Nat /\ n + 1 \in 1..n + 1 /\ m \in [1..n + 1 -> Nat]
  BY DEF Row
<1>2. PICK e \in Nat : e = m[n + 1] + FrameLen(b, m[n + 1])
  BY <1>1, FrameFound
<1>3. PICK l : l = Longer(m, n, e)
  OBVIOUS
<1>4. /\ l \in [1..(n + 1) + 1 -> Nat] /\ l[(n + 1) + 1] = e
      /\ \A i \in 1..n + 1 : l[i] = m[i]
  <2>1. (n + 1) + 1 = n + 2 /\ n + 2 \in 1..n + 2
    BY <1>1
  <2>2. \A i \in 1..n + 2 : i # n + 2 => i \in 1..n + 1
    BY <1>1
  <2>3. \A i \in 1..n + 1 : i \in 1..n + 2 /\ i # n + 2
    BY <1>1
  <2>. QED
    BY <1>1, <1>2, <1>3, <2>1, <2>2, <2>3 DEF Longer
<1>5. ASSUME NEW i \in 1..n + 1
      PROVE  FrameFits(b, l[i]) /\ l[i + 1] = l[i] + FrameLen(b, l[i])
  <2>1. CASE i = n + 1
    BY <1>1, <1>2, <1>4, <2>1
  <2>2. CASE i # n + 1
    <3>1. i \in 1..n /\ i + 1 \in 1..n + 1
      BY <1>1, <2>2
    <3>. QED
      BY <1>4, <3>1 DEF Row
  <2>. QED
    BY <2>1, <2>2
<1>. QED
  BY <1>1, <1>2, <1>3, <1>4, <1>5 DEF Row

\* What bytes hold they hold after others are appended.
LEMMA StillHeld ==
  ASSUME NEW b \in Buffers, NEW t \in Buffers, NEW o \in Nat, NEW f \in Buffers
  PROVE  /\ Holds(b, o, f) => Holds(b \o t, o, f)
         /\ Holds(b \o t, Len(b), t)
<1>1. PICK u : u = b \o t
  OBVIOUS
<1>2. /\ u \in Buffers /\ Len(u) = Len(b) + Len(t)
      /\ \A i \in 1..Len(b) : u[i] = b[i]
      /\ \A i \in 1..Len(t) : u[Len(b) + i] = t[i]
  <2>. HIDE <1>1
  <2>. QED
    BY <1>1, Joined
<1>3. Len(b) \in Nat /\ Len(t) \in Nat /\ Len(f) \in Nat
  BY BufferBytes
<1>4. ASSUME Holds(b, o, f) PROVE Holds(u, o, f)
  <2>1. \A k \in 1..Len(f) : o + k \in 1..Len(b)
    BY <1>3, <1>4 DEF Holds
  <2>. QED
    BY <1>2, <1>3, <1>4, <2>1 DEF Holds
<1>5. Holds(u, Len(b), t)
  BY <1>2, <1>3 DEF Holds
<1>. QED
  BY <1>1, <1>4, <1>5

\* A row stays one when bytes are appended.
LEMMA RowKept ==
  ASSUME NEW b \in Buffers, NEW m, NEW n, Row(b, m, n), NEW t \in Buffers
  PROVE  Row(b \o t, m, n) /\ \A i \in 1..n : FrameAt(b \o t, m[i]) = FrameAt(b, m[i])
<1>1. PICK u \in Buffers : u = b \o t
  BY Joined
<1>2. ASSUME NEW i \in 1..n
      PROVE  /\ FrameFits(u, m[i]) /\ m[i + 1] = m[i] + FrameLen(u, m[i])
             /\ FrameAt(u, m[i]) = FrameAt(b, m[i])
  <2>1. m[i] \in Nat /\ FrameFits(b, m[i]) /\ m[i + 1] = m[i] + FrameLen(b, m[i])
    BY RowBounds
  <2>2. PICK f : f = FrameAt(b, m[i])
    OBVIOUS
  <2>3. Alone(f) /\ f \in Buffers /\ Holds(b, m[i], f) /\ Len(f) = FrameLen(b, m[i])
    BY <2>1, <2>2, FrameFound DEF Alone
  <2>4. Holds(u, m[i], f)
    BY <1>1, <2>1, <2>3, StillHeld
  <2>. QED
    BY <2>1, <2>2, <2>3, <2>4, FrameHeld
<1>. QED
  BY <1>1, <1>2 DEF Row

\* A frame appended to frames.
LEMMA RowJoined ==
  ASSUME NEW b \in Buffers, NEW m, NEW n, Row(b, m, n), m[n + 1] = Len(b), NEW f, Alone(f)
  PROVE  /\ Row(b \o f, Longer(m, n, Len(b \o f)), n + 1)
         /\ FrameAt(b \o f, m[n + 1]) = f /\ b \o f \in Buffers
         /\ \A i \in 1..n : FrameAt(b \o f, m[i]) = FrameAt(b, m[i])
<1>1. f \in Buffers
  BY DEF Alone
<1>2. PICK u \in Buffers : u = b \o f /\ Len(u) = Len(b) + Len(f)
  BY <1>1, Joined
<1>3. Row(u, m, n) /\ \A i \in 1..n : FrameAt(u, m[i]) = FrameAt(b, m[i])
  BY <1>1, <1>2, RowKept
<1>4. Len(b) \in Nat /\ Holds(u, Len(b), f)
  BY <1>1, <1>2, StillHeld, BufferBytes
<1>5. FrameFits(u, Len(b)) /\ FrameLen(u, Len(b)) = Len(f) /\ FrameAt(u, Len(b)) = f
  BY <1>4, FrameHeld
<1>6. Row(u, Longer(m, n, Len(b) + Len(f)), n + 1)
  BY <1>3, <1>5, RowGrows
<1>. QED
  BY <1>2, <1>3, <1>5, <1>6

-----------------------------------------------------------------------------
(* The calculation. *)

\* What the page validated, and what it encoded, passes the validation of a command.
LEMMA CallAccepted ==
  ASSUME NEW r, IsRequestBody(r)
  PROVE  RsValidate(JsonOfCall(r)) = "OK"
<1>1. /\ Len(r.values) \in 0..MaxValues /\ DOMAIN r.values = 1..Len(r.values)
      /\ \A i \in 1..Len(r.values) : r.values[i] \in Int32
      /\ r.multiplier \in Int32 /\ r.offset \in Int32
  BY ElementOfSeq, LenProperties DEF IsRequestBody
<1>2. PICK n \in Nat : n = Len(r.values) /\ n <= MaxValues
  BY <1>1, Sizes
<1>3. PICK items : items = [i \in DOMAIN r.values |-> Number(r.values[i])]
  OBVIOUS
<1>4. PICK q : q = [plain |-> TRUE,
                    own |-> [values |-> ArrayOf(items), multiplier |-> Number(r.multiplier),
                             offset |-> Number(r.offset)]]
  OBVIOUS
<1>5. JsonOfCall(r) = JsonOf(q)
  BY <1>3, <1>4 DEF JsonOfCall
<1>6. Int32 \subseteq Int
  BY Sizes DEF Int32
<1>7. ASSUME NEW v \in Int32
      PROVE  /\ Number(v) \in Scalars /\ TsIsInt32(Number(v))
             /\ Number(v).is = "int" /\ Number(v).n = v
  BY <1>6, <1>7 DEF Number, Value, Scalars, Kinds, TsIsInt32
<1>8. items \in Seq(Scalars) /\ Len(items) = n /\ \A i \in 1..n : TsIsInt32(items[i])
  <2>1. \A i \in 1..n : Number(r.values[i]) \in Scalars /\ TsIsInt32(Number(r.values[i]))
    BY <1>1, <1>2, <1>7
  <2>2. items = [i \in 1..n |-> Number(r.values[i])]
    BY <1>1, <1>2, <1>3
  <2>. QED
    BY <2>1, <2>2, IsASeq
<1>9. ArrayOf(items) \in JsValues /\ ArrayOf(items).is = "array" /\ ArrayOf(items).items = items
  BY <1>8 DEF ArrayOf, Value, JsValues
<1>10. DOMAIN q.own = RequestFields /\ q.plain = TRUE
  BY <1>4 DEF RequestFields
<1>11. /\ Field(q, "values") = ArrayOf(items) /\ Field(q, "multiplier") = Number(r.multiplier)
       /\ Field(q, "offset") = Number(r.offset)
  BY <1>4 DEF Field
<1>12. IsRequest(q)
  <2>1. Scalars \subseteq JsValues
    BY DEF JsValues
  <2>2. \A f \in RequestFields : q.own[f] \in JsValues
    BY <1>1, <1>4, <1>7, <1>9, <2>1 DEF RequestFields
  <2>. QED
    BY <1>4, <1>10, <2>2 DEF IsRequest
<1>13. TsValidate(q) = "OK"
  <2> DEFINE c == RequestShape(q, TsInts(q))
  <2>1. /\ \A item \in ToSet(items) : item \in TsInts(q)
        /\ Number(r.multiplier) \in TsInts(q) /\ Number(r.offset) \in TsInts(q)
    <3>1. /\ \A item \in ToSet(items) : item \in Numbers(q)
          /\ Number(r.multiplier) \in Numbers(q) /\ Number(r.offset) \in Numbers(q)
      BY <1>9, <1>11 DEF Numbers
    <3>2. \A item \in ToSet(items) : TsIsInt32(item)
      <4>1. DOMAIN items = 1..n
        BY <1>8, LenProperties
      <4>. QED
        BY <1>8, <4>1 DEF ToSet
    <3>3. TsIsInt32(Number(r.multiplier)) /\ TsIsInt32(Number(r.offset))
      BY <1>1, <1>7
    <3>. QED
      BY <3>1, <3>2, <3>3 DEF TsInts
  <2>2. /\ ~(Len(items) > MaxValues) /\ RequestFields \ DOMAIN q.own = {}
        /\ DOMAIN q.own \ RequestFields = {}
    BY <1>2, <1>8, <1>10, Sizes
  <2>3. /\ ~c[1][1] /\ ~c[2][1] /\ ~c[3][1] /\ ~c[4][1]
        /\ ~c[5][1] /\ ~c[6][1] /\ ~c[7][1] /\ ~c[8][1]
    BY <1>9, <1>10, <1>11, <2>1, <2>2 DEF RequestShape
  <2>4. DOMAIN c = 1..8
    BY DEF RequestShape
  <2>5. \A i \in 1..8 : ~c[i][1]
    <3>. HIDE DEF c
    <3>. QED
      BY <2>3
  <2>6. Verdict(c) = "OK"
    <3>1. 8 \in Nat
      OBVIOUS
    <3>. HIDE DEF c
    <3>. QED
      BY <2>4, <2>5, <3>1, FirstRefusal
  <2>. QED
    BY <2>6 DEF TsValidate, TsInts
<1>. QED
  BY <1>5, <1>12, <1>13, NumbersArrive

\* The code of a short list of checks.
LEMMA ShortLists ==
  ASSUME NEW A, NEW B, NEW C, NEW D
  PROVE  /\ Verdict(<<A, B>>) = IF A[1] THEN A[2] ELSE IF B[1] THEN B[2] ELSE "OK"
         /\ Verdict(<<A, B, C>>) =
              IF A[1] THEN A[2] ELSE IF B[1] THEN B[2] ELSE IF C[1] THEN C[2] ELSE "OK"
         /\ Verdict(<<A, B, C, D>>) =
              IF A[1] THEN A[2] ELSE IF B[1] THEN B[2] ELSE IF C[1] THEN C[2]
              ELSE IF D[1] THEN D[2] ELSE "OK"
<1>1. PICK one \in Nat, two \in Nat, three \in Nat, four \in Nat :
        one = 1 /\ two = 2 /\ three = 3 /\ four = 4
  OBVIOUS
<1>2. Verdict(<<A, B>>) = IF A[1] THEN A[2] ELSE IF B[1] THEN B[2] ELSE "OK"
  <2>1. PICK c : c = <<A, B>>
    OBVIOUS
  <2>2. DOMAIN c = 1..two /\ c[1] = A /\ c[2] = B
    BY <1>1, <2>1
  <2>3. ASSUME A[1] PROVE Verdict(c) = A[2]
    <3>1. one \in 1..two /\ c[one] = A /\ \A j \in 1..one - 1 : ~c[j][1]
      BY <1>1, <2>2, <2>3
    <3>. QED
      BY <2>2, <2>3, <3>1, FirstRefusal
  <2>4. ASSUME ~A[1] /\ B[1] PROVE Verdict(c) = B[2]
    <3>1. two \in 1..two /\ c[two] = B /\ \A j \in 1..two - 1 : ~c[j][1]
      BY <1>1, <2>2, <2>4
    <3>. QED
      BY <2>2, <2>4, <3>1, FirstRefusal
  <2>5. ASSUME ~A[1] /\ ~B[1] PROVE Verdict(c) = "OK"
    <3>1. \A j \in 1..two : ~c[j][1]
      BY <1>1, <2>2, <2>5
    <3>. QED
      BY <2>2, <3>1, FirstRefusal
  <2>. QED
    BY <2>1, <2>3, <2>4, <2>5
<1>3. Verdict(<<A, B, C>>) =
        IF A[1] THEN A[2] ELSE IF B[1] THEN B[2] ELSE IF C[1] THEN C[2] ELSE "OK"
  <2>1. PICK c : c = <<A, B, C>>
    OBVIOUS
  <2>2. DOMAIN c = 1..three /\ c[1] = A /\ c[2] = B /\ c[3] = C
    BY <1>1, <2>1
  <2>3. ASSUME A[1] PROVE Verdict(c) = A[2]
    <3>1. one \in 1..three /\ c[one] = A /\ \A j \in 1..one - 1 : ~c[j][1]
      BY <1>1, <2>2, <2>3
    <3>. QED
      BY <2>2, <2>3, <3>1, FirstRefusal
  <2>4. ASSUME ~A[1] /\ B[1] PROVE Verdict(c) = B[2]
    <3>1. two \in 1..three /\ c[two] = B /\ \A j \in 1..two - 1 : ~c[j][1]
      BY <1>1, <2>2, <2>4
    <3>. QED
      BY <2>2, <2>4, <3>1, FirstRefusal
  <2>5. ASSUME ~A[1] /\ ~B[1] /\ C[1] PROVE Verdict(c) = C[2]
    <3>1. three \in 1..three /\ c[three] = C /\ \A j \in 1..three - 1 : ~c[j][1]
      BY <1>1, <2>2, <2>5
    <3>. QED
      BY <2>2, <2>5, <3>1, FirstRefusal
  <2>6. ASSUME ~A[1] /\ ~B[1] /\ ~C[1] PROVE Verdict(c) = "OK"
    <3>1. \A j \in 1..three : ~c[j][1]
      BY <1>1, <2>2, <2>6
    <3>. QED
      BY <2>2, <3>1, FirstRefusal
  <2>. QED
    BY <2>1, <2>3, <2>4, <2>5, <2>6
<1>4. Verdict(<<A, B, C, D>>) =
        IF A[1] THEN A[2] ELSE IF B[1] THEN B[2] ELSE IF C[1] THEN C[2]
        ELSE IF D[1] THEN D[2] ELSE "OK"
  <2>1. PICK c : c = <<A, B, C, D>>
    OBVIOUS
  <2>2. DOMAIN c = 1..four /\ c[1] = A /\ c[2] = B /\ c[3] = C /\ c[4] = D
    BY <1>1, <2>1
  <2>3. ASSUME A[1] PROVE Verdict(c) = A[2]
    <3>1. one \in 1..four /\ c[one] = A /\ \A j \in 1..one - 1 : ~c[j][1]
      BY <1>1, <2>2, <2>3
    <3>. QED
      BY <2>2, <2>3, <3>1, FirstRefusal
  <2>4. ASSUME ~A[1] /\ B[1] PROVE Verdict(c) = B[2]
    <3>1. two \in 1..four /\ c[two] = B /\ \A j \in 1..two - 1 : ~c[j][1]
      BY <1>1, <2>2, <2>4
    <3>. QED
      BY <2>2, <2>4, <3>1, FirstRefusal
  <2>5. ASSUME ~A[1] /\ ~B[1] /\ C[1] PROVE Verdict(c) = C[2]
    <3>1. three \in 1..four /\ c[three] = C /\ \A j \in 1..three - 1 : ~c[j][1]
      BY <1>1, <2>2, <2>5
    <3>. QED
      BY <2>2, <2>5, <3>1, FirstRefusal
  <2>6. ASSUME ~A[1] /\ ~B[1] /\ ~C[1] /\ D[1] PROVE Verdict(c) = D[2]
    <3>1. four \in 1..four /\ c[four] = D /\ \A j \in 1..four - 1 : ~c[j][1]
      BY <1>1, <2>2, <2>6
    <3>. QED
      BY <2>2, <2>6, <3>1, FirstRefusal
  <2>7. ASSUME ~A[1] /\ ~B[1] /\ ~C[1] /\ ~D[1] PROVE Verdict(c) = "OK"
    <3>1. \A j \in 1..four : ~c[j][1]
      BY <1>1, <2>2, <2>7
    <3>. QED
      BY <2>2, <3>1, FirstRefusal
  <2>. QED
    BY <2>1, <2>3, <2>4, <2>5, <2>6, <2>7
<1>. QED
  BY <1>2, <1>3, <1>4

\* The calculation: no check of it fails but that for memory, and the result is
\* right: the saturated values and the sum of them, modulo the word.
LEMMA Calculated ==
  ASSUME NEW r, IsRequestBody(r), NEW memory \in BOOLEAN
  PROVE  /\ FfiCode(r.values, memory)
              = IF r.values # <<>> /\ ~memory THEN "OUT_OF_MEMORY" ELSE "OK"
         /\ CommandCode(r, memory) = FfiCode(r.values, memory)
         /\ FfiResult(r).values \in Seq(Int32) /\ Len(FfiResult(r).values) = Len(r.values)
         /\ FfiResult(r).checksum \in 0..Word - 1
         /\ RightResult(r, FfiResult(r))
<1>1. /\ Len(r.values) \in 0..MaxValues /\ DOMAIN r.values = 1..Len(r.values)
      /\ \A i \in 1..Len(r.values) : r.values[i] \in Int32
      /\ r.multiplier \in Int32 /\ r.offset \in Int32
  BY ElementOfSeq, LenProperties DEF IsRequestBody
<1>2. PICK n \in Nat : n = Len(r.values) /\ n <= MaxValues
  BY <1>1, Sizes
<1>3. Int32 \subseteq Int /\ IntMin \in Int32 /\ IntMax \in Int32
  BY Sizes DEF Int32
<1>4. CoreStatus(r.values, Len(r.values)) = "OK"
  <2>1. ~(n > MaxValues) /\ ~(n < n)
    BY <1>2, Sizes
  <2>2. PICK A, B : A = <<n > MaxValues, "LIMIT_EXCEEDED">> /\ B = <<n < n, "BUFFER_TOO_SMALL">>
    OBVIOUS
  <2>3. CoreStatus(r.values, Len(r.values)) = Verdict(<<A, B>>)
    BY <1>2, <2>2 DEF CoreStatus
  <2>4. ~A[1] /\ ~B[1]
    BY <2>1, <2>2
  <2>. QED
    BY <2>3, <2>4, ShortLists
<1>5. FfiCode(r.values, memory) = IF r.values # <<>> /\ ~memory THEN "OUT_OF_MEMORY" ELSE "OK"
  <2>1. PICK A, B, C : /\ A = <<n > MaxValues, "LIMIT_EXCEEDED">>
                       /\ B = <<r.values # <<>> /\ ~memory, "OUT_OF_MEMORY">>
                       /\ C = <<CoreStatus(r.values, Len(r.values)) # "OK", "CORE_FAILURE">>
    OBVIOUS
  <2>2. FfiCode(r.values, memory) = Verdict(<<A, B, C>>)
    BY <1>2, <2>1 DEF FfiCode
  <2>3. ~(n > MaxValues)
    BY <1>2, Sizes
  <2>4. ~A[1]
    BY <2>1, <2>3
  <2>5. ~C[1]
    BY <1>4, <2>1
  <2>6. B[1] = (r.values # <<>> /\ ~memory) /\ B[2] = "OUT_OF_MEMORY"
    BY <2>1
  <2>. QED
    BY <2>2, <2>4, <2>5, <2>6, ShortLists
<1>6. CommandCode(r, memory) = FfiCode(r.values, memory)
  <2>1. PICK A, B, c : A = Passed(RsValidate(JsonOfCall(r))) /\ c = FfiCode(r.values, memory)
                       /\ B = Passed(c)
    OBVIOUS
  <2>2. CommandCode(r, memory) = Verdict(<<A, B>>)
    BY <2>1 DEF CommandCode
  <2>3. ~A[1] /\ (B[1] <=> c # "OK") /\ B[2] = c
    BY <2>1, CallAccepted DEF Passed
  <2>. QED
    BY <2>1, <2>2, <2>3, ShortLists
<1>7. PICK s : s = CoreOutput(r.values, r.multiplier, r.offset)
  OBVIOUS
<1>8. ASSUME NEW i \in 1..n
      PROVE  Saturated(Clamped(r.values[i] * r.multiplier + r.offset),
                       r.values[i] * r.multiplier + r.offset)
  <2>1. r.values[i] \in Int /\ r.multiplier \in Int /\ r.offset \in Int
    BY <1>1, <1>2, <1>3
  <2>2. PICK v \in Int : v = r.values[i] * r.multiplier + r.offset
    BY <2>1
  <2>3. Saturated(Clamped(v), v)
    BY <1>3, Sizes DEF Saturated, Clamped, Int32
  <2>. QED
    BY <2>2, <2>3
<1>9. s \in Seq(Int32) /\ Len(s) = n /\ DOMAIN s = 1..n
      /\ \A i \in 1..n : Saturated(s[i], r.values[i] * r.multiplier + r.offset)
  <2>1. s = [i \in 1..n |-> Clamped(r.values[i] * r.multiplier + r.offset)]
    BY <1>1, <1>2, <1>7 DEF CoreOutput
  <2>2. \A i \in 1..n : Clamped(r.values[i] * r.multiplier + r.offset) \in Int32
    BY <1>8 DEF Saturated
  <2>. QED
    BY <1>8, <2>1, <2>2, IsASeq
<1>10. s \in Seq(Int)
  <2>1. \A i \in 1..n : s[i] \in Int
    BY <1>3, <1>9, ElementOfSeq
  <2>2. s = [i \in 1..n |-> s[i]]
    BY <1>9, LenProperties
  <2>. QED
    BY <2>1, <2>2, IsASeq
<1>11. Checksum(s) = Sum(s) % Word /\ Checksum(s) \in 0..Word - 1
  BY <1>10, ChecksumIsSum
<1>12. FfiResult(r) = [values |-> s, checksum |-> Checksum(s)]
  BY <1>7 DEF FfiResult
<1>13. RightResult(r, FfiResult(r))
  <2>1. FfiResult(r).values = s /\ FfiResult(r).checksum = Checksum(s)
    BY <1>12
  <2>. QED
    BY <1>1, <1>2, <1>9, <1>11, <2>1 DEF RightResult
<1>. QED
  BY <1>2, <1>5, <1>6, <1>9, <1>11, <1>12, <1>13

\* A reply is right whatever else is in its sender's mind: only the numbers count.
LEMMA SameNumbers ==
  ASSUME NEW r, NEW q, NEW x, NEW y, r.values = q.values, r.multiplier = q.multiplier,
         r.offset = q.offset, x.values = y.values, x.checksum = y.checksum, RightResult(r, x)
  PROVE  RightResult(q, y)
  BY DEF RightResult

\* What the host makes of a request that it takes, and of a request for information.
LEMMA RightReply ==
  ASSUME NEW f \in Buffers, RsRequestCode(f) = "OK", NEW memory \in BOOLEAN,
         FfiCode(Request(f).values, memory) = "OK"
  PROVE  /\ FfiReply(Request(f), memory).code = "OK"
         /\ Alone(FfiReply(Request(f), memory).reply)
         /\ RightFrame(TransformCmd, Header(f, 0).sequence, Request(f),
                       FfiReply(Request(f), memory).reply)
<1>1. PICK r : r = Request(f)
  OBVIOUS
<1>2. IsRequestBody(r) /\ r.sequence \in 0..Half - 1 /\ r.sequence = Header(f, 0).sequence
  BY <1>1, RequestRewritten DEF Request
<1>3. PICK result : result = FfiResult(r)
  OBVIOUS
<1>4. /\ result.values \in Seq(Int32) /\ Len(result.values) = Len(r.values)
      /\ result.checksum \in 0..Word - 1 /\ RightResult(r, result)
  BY <1>2, <1>3, Calculated
<1>5. PICK a : a = [sequence |-> r.sequence, values |-> result.values,
                    checksum |-> result.checksum]
  OBVIOUS
<1>6. IsResponseBody(a) /\ a.sequence % Half = r.sequence
  <2>1. r.sequence \in Int /\ r.sequence % Half = r.sequence
    BY <1>2, Sizes, SignedNumbers
  <2>. QED
    BY <1>2, <1>4, <1>5, <2>1 DEF IsResponseBody, IsRequestBody
<1>7. PICK g : g = ResponseFrame(a)
  OBVIOUS
<1>8. /\ Alone(g) /\ RsResponseCode(g) = "OK" /\ Header(g, 0).command = TransformCmd
      /\ Header(g, 0).sequence = r.sequence
      /\ Response(g) = [sequence |-> r.sequence, checksum |-> a.checksum, values |-> a.values]
  BY <1>6, <1>7, ResponseEncoded
<1>9. TsResponseCode(g) = "OK"
  BY <1>8, ResponsesAgree DEF Alone
<1>10. RightResult(r, Response(g))
  BY <1>4, <1>5, <1>8, SameNumbers
<1>11. RightFrame(TransformCmd, r.sequence, r, g)
  BY <1>8, <1>9, <1>10 DEF RightFrame, TransformCmd, GetInfoCmd
<1>12. FfiReply(r, memory).code = "OK" /\ FfiReply(r, memory).reply = g
  BY <1>1, <1>3, <1>5, <1>7 DEF FfiReply
<1>. QED
  BY <1>1, <1>2, <1>8, <1>11, <1>12

\* The information of the host is right for every request for one.
LEMMA RightInfo ==
  ASSUME NEW s \in 0..Half - 1
  PROVE  /\ Alone(InfoFrame(CoreInfo(s)))
         /\ \A call : RightFrame(GetInfoCmd, s, call, InfoFrame(CoreInfo(s)))
<1>1. PICK i : i = CoreInfo(s)
  OBVIOUS
<1>2. i.sequence = s /\ i.abi = CoreAbi /\ i.version = CoreVersion
  BY <1>1 DEF CoreInfo
<1>3. /\ CoreAbi \in 0..Word - 1 /\ CoreVersion \in Seq(1..Base - 2)
      /\ Len(CoreVersion) \in 1..MaxVersionLen
  BY CoreAssumption DEF CoreAssumption
<1>4. \A k \in 1..Len(CoreVersion) : CoreVersion[k] \in 1..Base - 2
  BY <1>3, ElementOfSeq
<1>5. CoreVersion \in Buffers
  <2>1. 1..Base - 2 \subseteq 0..Base - 1
    BY Sizes
  <2>2. PICK n \in Nat : n = Len(CoreVersion)
    BY <1>3, LenProperties
  <2>3. CoreVersion = [k \in 1..n |-> CoreVersion[k]]
    BY <1>3, <2>2, LenProperties
  <2>4. \A k \in 1..n : CoreVersion[k] \in 0..Base - 1
    BY <1>4, <2>1, <2>2
  <2>5. PICK S : S = 0..Base - 1
    OBVIOUS
  <2>6. [k \in 1..n |-> CoreVersion[k]] \in Seq(S)
    BY <2>2, <2>4, <2>5, IsASeq
  <2>. QED
    BY <2>3, <2>5, <2>6 DEF Buffers
<1>6. IsInfoBody(i)
  <2>1. Len(CoreVersion) \in 0..MaxPayload - 8 /\ s \in Int
    BY <1>3, Sizes
  <2>. QED
    BY <1>2, <1>3, <1>5, <2>1 DEF IsInfoBody
<1>7. \A k \in 1..Len(i.version) : i.version[k] # 0 /\ i.version[k] # Base - 1
  BY <1>2, <1>4, Sizes
<1>8. PICK g : g = InfoFrame(i)
  OBVIOUS
<1>9. /\ Alone(g) /\ TsInfoCode(g) = "OK" /\ Header(g, 0).command = GetInfoCmd
      /\ Header(g, 0).sequence = s % Half /\ Info(g).abi = CoreAbi
  BY <1>2, <1>3, <1>6, <1>7, <1>8, InfoEncoded
<1>10. s % Half = s
  BY SignedNumbers
<1>. QED
  BY <1>1, <1>8, <1>9, <1>10 DEF RightFrame

-----------------------------------------------------------------------------
(* Answers. *)

\* A row that is the whole buffer.
Full(b, m, n) == Row(b, m, n) /\ m[1] = 0 /\ m[n + 1] = Len(b)

\* g is the right answer to f.
Right(f, g) == RightFrame(Header(f, 0).command, Header(f, 0).sequence, Request(f), g)

\* The frames of b up to o are answered one by one in r, in their order.
Answers(b, m, r, l, n) ==
  /\ Row(b, m, n) /\ m[1] = 0 /\ Full(r, l, n)
  /\ \A i \in 1..n : Right(FrameAt(b, m[i]), FrameAt(r, l[i]))
Answered(b, o, r) == \E m, l, n : Answers(b, m, r, l, n) /\ o = m[n + 1]

\* Before the first frame nothing is answered.
LEMMA NoneAnswered ==
  ASSUME NEW b \in Buffers
  PROVE  Answered(b, 0, <<>>)
<1>1. PICK m : m = [i \in 1..1 |-> 0]
  OBVIOUS
<1>2. m \in [1..0 + 1 -> Nat] /\ m[1] = 0 /\ m[0 + 1] = 0 /\ Len(<<>>) = 0
  BY <1>1, NoBytes
<1>3. \A c : Row(c, m, 0)
  BY <1>2 DEF Row
<1>4. Answers(b, m, <<>>, m, 0)
  BY <1>2, <1>3 DEF Answers, Full
<1>. QED
  BY <1>2, <1>4 DEF Answered

\* What a longer row is made of.
LEMMA LongerValues ==
  ASSUME NEW m, NEW n \in Nat, NEW e
  PROVE  /\ Longer(m, n, e)[(n + 1) + 1] = e
         /\ \A i \in 1..n + 1 : Longer(m, n, e)[i] = m[i]
<1>1. (n + 1) + 1 = n + 2 /\ n + 2 \in 1..n + 2
  OBVIOUS
<1>2. \A i \in 1..n + 1 : i \in 1..n + 2 /\ i # n + 2
  OBVIOUS
<1>. QED
  BY <1>1, <1>2 DEF Longer

\* The answer to the next frame makes an answered part longer.
LEMMA AnswerJoined ==
  ASSUME NEW b \in Buffers, NEW r \in Buffers, NEW o, Answered(b, o, r), FrameFits(b, o),
         NEW g, Alone(g), Right(FrameAt(b, o), g)
  PROVE  r \o g \in Buffers /\ Answered(b, o + Len(FrameAt(b, o)), r \o g)
<1>1. PICK m, l, n : Answers(b, m, r, l, n) /\ o = m[n + 1]
  BY DEF Answered
<1>2. /\ Row(b, m, n) /\ m[1] = 0 /\ Row(r, l, n) /\ l[1] = 0 /\ l[n + 1] = Len(r)
      /\ \A i \in 1..n : Right(FrameAt(b, m[i]), FrameAt(r, l[i]))
  BY <1>1 DEF Answers, Full
<1>3. n \in Nat /\ n + 1 \in Nat /\ 1 \in 1..n + 1 /\ n + 1 \in 1..n + 1 /\ m \in [1..n + 1 -> Nat]
  BY <1>2 DEF Row
<1>4. o \in Nat /\ Len(FrameAt(b, o)) = FrameLen(b, o)
  BY <1>1, <1>3, FrameFound
<1>5. PICK e, s, p, q : /\ e = o + FrameLen(b, o) /\ s = r \o g
                        /\ p = Longer(m, n, e) /\ q = Longer(l, n, Len(s))
  OBVIOUS
<1>6. Row(b, p, n + 1)
  BY <1>1, <1>2, <1>5, RowGrows
<1>7. /\ Row(s, q, n + 1) /\ FrameAt(s, l[n + 1]) = g /\ s \in Buffers
      /\ \A i \in 1..n : FrameAt(s, l[i]) = FrameAt(r, l[i])
  BY <1>2, <1>5, RowJoined
<1>8. /\ p[(n + 1) + 1] = e /\ q[(n + 1) + 1] = Len(s)
      /\ \A i \in 1..n + 1 : p[i] = m[i] /\ q[i] = l[i]
  BY <1>3, <1>5, LongerValues
<1>9. ASSUME NEW i \in 1..n + 1 PROVE Right(FrameAt(b, p[i]), FrameAt(s, q[i]))
  <2>1. p[i] = m[i] /\ q[i] = l[i]
    BY <1>8
  <2>2. CASE i = n + 1
    BY <1>1, <1>7, <2>1, <2>2
  <2>3. CASE i # n + 1
    <3>1. i \in 1..n
      BY <1>3, <2>3
    <3>. QED
      BY <1>2, <1>7, <2>1, <3>1
  <2>. QED
    BY <2>2, <2>3
<1>10. Answers(b, p, s, q, n + 1)
  BY <1>2, <1>3, <1>6, <1>7, <1>8, <1>9 DEF Answers, Full
<1>. QED
  BY <1>4, <1>5, <1>7, <1>8, <1>10 DEF Answered

\* What has been answered ends where a frame of the buffer ends.
LEMMA AnswerPlaced ==
  ASSUME NEW b \in Buffers, NEW r, NEW m, NEW l, NEW k, Answers(b, m, r, l, k),
         NEW p, NEW q, Full(b, p, q)
  PROVE  /\ k \in Nat /\ q \in Nat /\ k <= q /\ m[k + 1] \in Nat
         /\ \A i \in 1..k + 1 : m[i] = p[i]
         /\ k = q \/ (FrameFits(b, m[k + 1]) /\ m[k + 1] < Len(b))
<1>1. Row(b, m, k) /\ m[1] = 0 /\ Row(b, p, q) /\ p[1] = 0 /\ p[q + 1] = Len(b)
  BY DEF Answers, Full
<1>2. k \in Nat /\ q \in Nat /\ m[k + 1] \in Nat
  BY <1>1 DEF Row
<1>3. k <= q
  <2>1. SUFFICES ASSUME ~(k <= q) PROVE FALSE
    OBVIOUS
  <2>2. q <= k /\ q + 1 \in 1..k /\ q + 1 \in 1..q + 1
    BY <1>2, <2>1
  <2>3. p[q + 1] = m[q + 1]
    BY <1>1, <2>2, RowsAlike
  <2>4. /\ m[q + 1] \in Nat /\ m[(q + 1) + 1] \in Nat /\ m[q + 1] + 16 <= m[(q + 1) + 1]
        /\ m[(q + 1) + 1] <= Len(b)
    BY <1>1, <2>2, RowBounds
  <2>5. Len(b) \in Nat
    BY BufferBytes
  <2>. QED
    BY <1>1, <2>3, <2>4, <2>5
<1>4. \A i \in 1..k + 1 : m[i] = p[i]
  BY <1>1, <1>3, RowsAlike
<1>5. ASSUME k # q PROVE FrameFits(b, m[k + 1]) /\ m[k + 1] < Len(b)
  <2>1. k + 1 \in 1..q /\ k + 1 \in 1..k + 1
    BY <1>2, <1>3, <1>5
  <2>2. /\ p[k + 1] \in Nat /\ p[(k + 1) + 1] \in Nat /\ p[k + 1] + 16 <= p[(k + 1) + 1]
        /\ p[(k + 1) + 1] <= Len(b) /\ FrameFits(b, p[k + 1])
    BY <1>1, <2>1, RowBounds
  <2>3. Len(b) \in Nat
    BY BufferBytes
  <2>. QED
    BY <1>4, <2>1, <2>2, <2>3
<1>. QED
  BY <1>2, <1>3, <1>4, <1>5

\* Inside a buffer that is a row, the next frame to answer is one of the row.
LEMMA NextAsked ==
  ASSUME NEW b \in Buffers, NEW o, NEW r, Answered(b, o, r), NEW p, NEW q, Full(b, p, q),
         o # Len(b)
  PROVE  FrameFits(b, o) /\ \E i \in 1..q : p[i] = o
<1>1. PICK m, l, k : Answers(b, m, r, l, k) /\ o = m[k + 1]
  BY DEF Answered
<1>2. /\ k \in Nat /\ q \in Nat /\ k <= q /\ m[k + 1] = p[k + 1]
      /\ k = q \/ FrameFits(b, m[k + 1])
  <2>1. k \in Nat => k + 1 \in 1..k + 1
    OBVIOUS
  <2>. QED
    BY <1>1, <2>1, AnswerPlaced
<1>3. k # q
  BY <1>1, <1>2 DEF Full
<1>4. k + 1 \in 1..q
  BY <1>2, <1>3
<1>. QED
  BY <1>1, <1>2, <1>3, <1>4

\* When all is answered, every frame of the row has its answer.
LEMMA AllAnswered ==
  ASSUME NEW b \in Buffers, NEW r, Answered(b, Len(b), r), NEW p, NEW q, Full(b, p, q)
  PROVE  \E l : Full(r, l, q) /\ \A i \in 1..q : Right(FrameAt(b, p[i]), FrameAt(r, l[i]))
<1>1. PICK m, l, k : Answers(b, m, r, l, k) /\ Len(b) = m[k + 1]
  BY DEF Answered
<1>2. /\ k \in Nat /\ \A i \in 1..k + 1 : m[i] = p[i]
      /\ k = q \/ m[k + 1] < Len(b)
  BY <1>1, AnswerPlaced
<1>3. k = q
  <2>1. Len(b) \in Nat
    BY BufferBytes
  <2>. QED
    BY <1>1, <1>2, <2>1
<1>4. Full(r, l, k) /\ \A i \in 1..k : Right(FrameAt(b, m[i]), FrameAt(r, l[i]))
  BY <1>1 DEF Answers
<1>5. \A i \in 1..k : m[i] = p[i]
  BY <1>2
<1>. QED
  BY <1>3, <1>4, <1>5

\* A buffer that is answered to its end is a row.
LEMMA AnsweredScans ==
  ASSUME NEW b \in Buffers, NEW r, Answered(b, Len(b), r)
  PROVE  ScanFrames(b).code = "OK" /\ \E m, n : Full(b, m, n)
<1>1. PICK m, l, k : Answers(b, m, r, l, k) /\ Len(b) = m[k + 1]
  BY DEF Answered
<1>2. Full(b, m, k) /\ Row(b, m, k) /\ m[1] = 0 /\ m[k + 1] = Len(b)
  BY <1>1 DEF Answers, Full
<1>3. PICK s : s = [i \in 1..k |-> m[i]]
  OBVIOUS
<1>4. ScanFrames(b) = [code |-> "OK", frames |-> s]
  BY <1>2, <1>3, RowScanned
<1>5. ScanFrames(b).code = "OK"
  BY <1>4
<1>. QED
  BY <1>2, <1>5

-----------------------------------------------------------------------------
(* Calls and what the host makes of them. *)

\* What the page collects, and the frame of it.
CallSet ==
  {c \in [command : {GetInfoCmd, TransformCmd}, sequence : 0..Half - 1, values : Seq(Int32),
          multiplier : Int32, offset : Int32] : Len(c.values) <= MaxValues}
CallFrame(c) ==
  IF c.command = TransformCmd THEN RequestFrame(c, 0) ELSE InfoRequestFrame(c.sequence)

\* The frame of a call is a frame of its own, and says what the call says.
LEMMA CallEncoded ==
  ASSUME NEW c \in CallSet, NEW f, f = CallFrame(c)
  PROVE  /\ Alone(f) /\ Header(f, 0).command = c.command /\ Header(f, 0).sequence = c.sequence
         /\ c.command = GetInfoCmd => Header(f, 0).payloadLen = 0
         /\ c.command = TransformCmd =>
              /\ RsRequestCode(f) = "OK" /\ TsRequestCode(f) = "OK"
              /\ Request(f).values = c.values /\ Request(f).multiplier = c.multiplier
              /\ Request(f).offset = c.offset
<1>1. /\ c.command \in {GetInfoCmd, TransformCmd} /\ c.sequence \in 0..Half - 1
      /\ c.values \in Seq(Int32) /\ c.multiplier \in Int32 /\ c.offset \in Int32
      /\ Len(c.values) <= MaxValues
  BY DEF CallSet
<1>2. c.sequence \in Int /\ c.sequence % Half = c.sequence
  BY <1>1, SignedNumbers
<1>3. CASE c.command = TransformCmd
  <2>1. Len(c.values) \in 0..MaxValues
    BY <1>1, LenProperties, Sizes
  <2>2. IsRequestBody(c)
    BY <1>1, <1>2, <2>1 DEF IsRequestBody
  <2>3. f = RequestFrame(c, 0) /\ 0 \in {0, ContinuedFlag}
    BY <1>3 DEF CallFrame
  <2>4. PICK q : q = [sequence |-> c.sequence, multiplier |-> c.multiplier,
                      offset |-> c.offset, values |-> c.values]
    OBVIOUS
  <2>5. /\ Alone(f) /\ RsRequestCode(f) = "OK" /\ Header(f, 0).command = TransformCmd
        /\ Header(f, 0).sequence = c.sequence /\ Request(f) = q
    BY <1>2, <2>2, <2>3, <2>4, RequestEncoded
  <2>6. TsRequestCode(f) = "OK"
    BY <2>5, RequestsAgree DEF Alone
  <2>. QED
    BY <1>3, <2>4, <2>5, <2>6 DEF GetInfoCmd, TransformCmd
<1>4. CASE c.command # TransformCmd
  <2>1. f = InfoRequestFrame(c.sequence) /\ c.command = GetInfoCmd
    BY <1>1, <1>4 DEF CallFrame
  <2>. QED
    BY <1>2, <1>4, <2>1, InfoRequestEncoded
<1>. QED
  BY <1>3, <1>4

\* The right answer to the frame of a call is the right answer to the call.
LEMMA CallAnswered ==
  ASSUME NEW c \in CallSet, NEW g, Right(CallFrame(c), g)
  PROVE  /\ RightFrame(c.command, c.sequence, c, g)
         /\ Header(g, 0).sequence = c.sequence
<1>1. PICK f : f = CallFrame(c)
  OBVIOUS
<1>2. /\ Header(f, 0).command = c.command /\ Header(f, 0).sequence = c.sequence
      /\ c.command = TransformCmd =>
              /\ Request(f).values = c.values /\ Request(f).multiplier = c.multiplier
              /\ Request(f).offset = c.offset
  BY <1>1, CallEncoded
<1>3. RightFrame(c.command, c.sequence, Request(f), g)
  BY <1>1, <1>2 DEF Right
<1>4. c.command \in {GetInfoCmd, TransformCmd}
  BY DEF CallSet
<1>5. CASE c.command = GetInfoCmd
  BY <1>3, <1>5 DEF RightFrame
<1>6. CASE c.command = TransformCmd /\ c.command # GetInfoCmd
  <2>1. RightResult(Request(f), Response(g))
    BY <1>3, <1>6 DEF RightFrame
  <2>2. RightResult(c, Response(g))
    BY <1>2, <1>6, <2>1, SameNumbers
  <2>. QED
    BY <1>3, <1>6, <2>2 DEF RightFrame
<1>. QED
  BY <1>4, <1>5, <1>6

\* What the host makes of a request that is right, or of any that it takes.
LEMMA HostAnswers ==
  ASSUME NEW f, Alone(f), NEW memory \in BOOLEAN
  PROVE  /\ ProcessFrame(f, memory).code = "OK" =>
              Alone(ProcessFrame(f, memory).reply) /\ Right(f, ProcessFrame(f, memory).reply)
         /\ \A c \in CallSet : f = CallFrame(c) =>
              ProcessFrame(f, memory).code \in {"OK", "OUT_OF_MEMORY"}
<1>1. PICK h : h = Header(f, 0)
  OBVIOUS
<1>2. f \in Buffers /\ h.command \in {GetInfoCmd, TransformCmd} /\ h.sequence \in 0..Half - 1
  BY <1>1, FitSays DEF Alone, FrameFits, HeaderFits
<1>3. CASE h.command = TransformCmd
  <2>1. PICK wire, ffi : wire = RsRequestCode(f) /\ ffi = FfiReply(Request(f), memory)
    OBVIOUS
  <2>2. ProcessFrame(f, memory) =
          IF wire # "OK" THEN [code |-> WireCode(wire), reply |-> <<>>] ELSE ffi
    BY <1>1, <1>3, <2>1 DEF ProcessFrame, Judged
  <2>3. wire # "OK" => ProcessFrame(f, memory).code # "OK"
    BY <2>2 DEF WireCode
  <2>4. ASSUME wire = "OK"
        PROVE  /\ ffi.code \in {"OK", "OUT_OF_MEMORY"}
               /\ ffi.code = "OK" => Alone(ffi.reply) /\ Right(f, ffi.reply)
    <3>1. IsRequestBody(Request(f))
      BY <1>2, <2>1, <2>4, RequestRewritten
    <3>2. FfiCode(Request(f).values, memory) \in {"OK", "OUT_OF_MEMORY"}
      BY <3>1, Calculated
    <3>3. ffi.code = FfiCode(Request(f).values, memory)
      BY <2>1 DEF FfiReply
    <3>4. ASSUME ffi.code = "OK" PROVE Alone(ffi.reply) /\ Right(f, ffi.reply)
      <4>1. /\ Alone(FfiReply(Request(f), memory).reply)
            /\ RightFrame(TransformCmd, Header(f, 0).sequence, Request(f),
                          FfiReply(Request(f), memory).reply)
        BY <1>2, <2>1, <2>4, <3>3, <3>4, RightReply
      <4>. QED
        BY <1>1, <1>3, <2>1, <4>1 DEF Right
    <3>. QED
      BY <3>2, <3>3, <3>4
  <2>5. ASSUME NEW c \in CallSet, f = CallFrame(c) PROVE wire = "OK"
    BY <1>1, <1>3, <2>1, <2>5, CallEncoded
  <2>. QED
    BY <2>2, <2>3, <2>4, <2>5
<1>4. CASE h.command = GetInfoCmd
  <2>1. PICK wire, i : wire = (IF h.payloadLen # 0 THEN "INVALID" ELSE "OK")
                       /\ i = InfoFrame(CoreInfo(h.sequence))
    OBVIOUS
  <2>2. ProcessFrame(f, memory) =
          IF wire # "OK" THEN [code |-> WireCode(wire), reply |-> <<>>]
          ELSE [code |-> "OK", reply |-> i]
    BY <1>1, <1>4, <2>1 DEF ProcessFrame, Judged, GetInfoCmd, TransformCmd
  <2>3. wire # "OK" => ProcessFrame(f, memory).code # "OK"
    BY <2>2 DEF WireCode
  <2>4. Alone(i) /\ Right(f, i)
    BY <1>1, <1>2, <1>4, <2>1, RightInfo DEF Right
  <2>5. ASSUME NEW c \in CallSet, f = CallFrame(c) PROVE wire = "OK"
    BY <1>1, <1>4, <2>1, <2>5, CallEncoded
  <2>. QED
    BY <2>2, <2>3, <2>4, <2>5
<1>. QED
  BY <1>2, <1>3, <1>4

\* Less than 2^16 numbers that follow each other are different modulo 2^16.
LEMMA Unrepeated ==
  ASSUME NEW first \in Nat, NEW n \in Nat, n <= Half, NEW i \in 1..n, NEW j \in 1..n,
         (first + (i - 1)) % Half = (first + (j - 1)) % Half
  PROVE  i = j
<1>1. PICK H \in Nat : H = Half /\ H >= 2
  BY Sizes
<1>2. PICK v, w \in Int : v = first + (i - 1) /\ w = first + (j - 1)
  OBVIOUS
<1>3. PICK x, y \in Int : x = v \div H /\ y = w \div H
  BY <1>1, <1>2, Digits
<1>4. PICK u \in Int : u = (v % H) /\ u = (w % H)
  BY <1>1, <1>2, Digits
<1>5. v = H * x + u /\ w = H * y + u
  BY <1>1, <1>2, <1>3, <1>4, Digits
<1>6. PICK d \in Int : d = x - y
  OBVIOUS
<1>7. v - w = H * d
  <2>1. H * x - H * y = H * (x - y)
    OBVIOUS
  <2>2. PICK s, t \in Int : s = H * x /\ t = H * y
    OBVIOUS
  <2>. QED
    BY <1>5, <1>6, <2>1, <2>2
<1>8. v - w < H /\ w - v < H /\ v - w = i - j
  BY <1>1, <1>2
<1>9. d >= 1 => H * d >= H
  OBVIOUS
<1>10. d <= -1 => H * d <= -H
  OBVIOUS
<1>11. d = 0
  BY <1>7, <1>8, <1>9, <1>10
<1>. QED
  BY <1>7, <1>8, <1>11

-----------------------------------------------------------------------------
(* Replies. *)

\* The calls that were collected, with numbers that follow each other.
Collecting ==
  /\ calls \in Seq(CallSet) /\ Len(calls) <= MaxCalls
  /\ \A i \in 1..Len(calls) : calls[i].sequence = (FirstId + (i - 1)) % Half

\* Undamaged, a batch is the frames of the calls and nothing else.
Asks(m) ==
  /\ Full(batch, m, Len(calls))
  /\ \A i \in 1..Len(calls) : FrameAt(batch, m[i]) = CallFrame(calls[i])

\* Every call of a batch has its answer in what came back.
Told(l) ==
  /\ Full(out, l, Len(calls))
  /\ \A i \in 1..Len(calls) :
       /\ RightFrame(calls[i].command, calls[i].sequence, calls[i], FrameAt(out, l[i]))
       /\ Header(out, l[i]).sequence = calls[i].sequence

\* The calls are counted, and fewer than there are sequence numbers.
LEMMA CallCount ==
  ASSUME Collecting
  PROVE  /\ Len(calls) \in Nat /\ DOMAIN calls = 1..Len(calls) /\ Len(calls) <= Half
         /\ \A i \in 1..Len(calls) : calls[i] \in CallSet
<1>1. /\ Len(calls) \in Nat /\ DOMAIN calls = 1..Len(calls)
      /\ \A i \in 1..Len(calls) : calls[i] \in CallSet
  BY ElementOfSeq, LenProperties DEF Collecting
<1>2. MaxCalls \in Nat /\ MaxCalls <= Half /\ Half \in Nat
  BY PlaneAssumption, Sizes
<1>. QED
  BY <1>1, <1>2 DEF Collecting

\* When all of an undamaged batch is answered, each call has its answer.
LEMMA RepliesTold ==
  ASSUME Collecting, batch \in Buffers, out \in Buffers, NEW m, Asks(m),
         Answered(batch, Len(batch), out)
  PROVE  \E l : Told(l)
<1>1. PICK n \in Nat : n = Len(calls) /\ \A i \in 1..n : calls[i] \in CallSet
  BY CallCount
<1>2. PICK l : /\ Full(out, l, n)
               /\ \A i \in 1..n : Right(FrameAt(batch, m[i]), FrameAt(out, l[i]))
  BY <1>1, AllAnswered DEF Asks
<1>3. ASSUME NEW i \in 1..n
      PROVE  /\ RightFrame(calls[i].command, calls[i].sequence, calls[i], FrameAt(out, l[i]))
             /\ Header(out, l[i]).sequence = calls[i].sequence
  <2>1. PICK c, g : c = calls[i] /\ g = FrameAt(out, l[i])
    OBVIOUS
  <2>2. c \in CallSet /\ Right(CallFrame(c), g)
    BY <1>1, <1>2, <2>1 DEF Asks
  <2>3. RightFrame(c.command, c.sequence, c, g) /\ Header(g, 0).sequence = c.sequence
    BY <2>2, CallAnswered
  <2>4. l[i] \in Nat /\ FrameFits(out, l[i])
    BY <1>2, RowBounds DEF Full
  <2>5. Header(g, 0) = Header(out, l[i])
    BY <2>1, <2>4, FrameFound
  <2>. QED
    BY <2>1, <2>3, <2>5
<1>. QED
  BY <1>1, <1>2, <1>3 DEF Told

\* A row that is not empty starts with a frame.
LEMMA RowStarts ==
  ASSUME NEW b \in Buffers, NEW m, NEW n, Full(b, m, n), n # 0
  PROVE  /\ n \in Nat /\ m[1] = 0 /\ 1 \in 1..n /\ FrameFits(b, 0)
         /\ ScanFrames(b).code = "OK" /\ ScanFrames(b).frames # <<>>
         /\ ScanFrames(b).frames = [i \in 1..n |-> m[i]] /\ Len(ScanFrames(b).frames) = n
         /\ FirstSequence(b) = Header(b, 0).sequence
<1>1. Row(b, m, n) /\ m[1] = 0 /\ n \in Nat /\ 1 \in 1..n
  BY DEF Full, Row
<1>2. PICK s : s = [i \in 1..n |-> m[i]]
  OBVIOUS
<1>3. ScanFrames(b) = [code |-> "OK", frames |-> s]
  BY <1>1, <1>2, RowScanned DEF Full
<1>4. DOMAIN s = 1..n /\ s \in Seq(Nat)
  <2>1. \A i \in 1..n : m[i] \in Nat
    BY <1>1 DEF Row
  <2>. QED
    BY <1>1, <1>2, <2>1, IsASeq
<1>5. Len(s) = n /\ s # <<>>
  BY <1>1, <1>4, LenProperties, EmptySeq
<1>6. ScanFrames(b).code = "OK" /\ ScanFrames(b).frames = s
  BY <1>3
<1>7. FrameFits(b, 0)
  BY <1>1 DEF Row
<1>. QED
  BY <1>1, <1>2, <1>5, <1>6, <1>7 DEF FirstSequence

\* One frame of the reply has the number of a call.
LEMMA OneMatches ==
  ASSUME Collecting, out \in Buffers, NEW l, Told(l), Len(calls) # 0, NEW i \in 1..Len(calls)
  PROVE  Matching(calls[i]) = {l[i]} /\ Max(Matching(calls[i])) = l[i]
<1>1. PICK n \in Nat : n = Len(calls) /\ n <= Half /\ n # 0
  BY CallCount
<1>2. ScanFrames(out).frames = [j \in 1..n |-> l[j]] /\ \A j \in 1..n : l[j] \in Nat
  <2>1. Full(out, l, n)
    BY <1>1 DEF Told
  <2>2. ScanFrames(out).frames = [j \in 1..n |-> l[j]]
    BY <1>1, <2>1, RowStarts
  <2>3. \A j \in 1..n : j \in 1..n + 1
    BY <1>1
  <2>4. l \in [1..n + 1 -> Nat]
    BY <2>1 DEF Full, Row
  <2>. QED
    BY <2>2, <2>3, <2>4
<1>3. ToSet(ScanFrames(out).frames) = {l[j] : j \in 1..n}
  <2>1. PICK s : s = ScanFrames(out).frames
    OBVIOUS
  <2>2. DOMAIN s = 1..n /\ \A j \in 1..n : s[j] = l[j]
    BY <1>2, <2>1
  <2>3. ToSet(s) = {s[j] : j \in 1..n}
    BY <2>2 DEF ToSet
  <2>. QED
    BY <2>1, <2>2, <2>3
<1>4. ASSUME NEW j \in 1..n, Header(out, l[j]).sequence = calls[i].sequence PROVE j = i
  <2>1. Header(out, l[j]).sequence = calls[j].sequence
    BY <1>1 DEF Told
  <2>2. (FirstId + (j - 1)) % Half = (FirstId + (i - 1)) % Half
    BY <1>1, <1>4, <2>1 DEF Collecting
  <2>. QED
    BY <1>1, <2>2, Unrepeated, PlaneAssumption
<1>5. Header(out, l[i]).sequence = calls[i].sequence
  BY DEF Told
<1>6. Matching(calls[i]) = {l[i]}
  BY <1>1, <1>3, <1>4, <1>5 DEF Matching
<1>7. PICK k \in Nat : k = l[i]
  BY <1>1, <1>2
<1>8. Max({k}) \in {k}
  BY MaxIsGreatest
<1>. QED
  BY <1>6, <1>7, <1>8

\* The port and the bridge take the answers.
LEMMA ReplyTaken ==
  ASSUME Collecting, batch \in Buffers, out \in Buffers, input = batch, Len(calls) # 0,
         NEW m, Asks(m), NEW l, Told(l)
  PROVE  /\ PortCode = "OK" /\ BridgeCode = "OK" /\ Found = DOMAIN calls
         /\ FirstSequence(out) = calls[1].sequence
<1>1. PICK n \in Nat : n = Len(calls) /\ n # 0
  BY CallCount
<1>2. /\ n = Len(calls) /\ n # 0 /\ 1 \in 1..n /\ DOMAIN calls = 1..n
      /\ \A i \in 1..n : calls[i] \in CallSet
  <2>1. 1 \in 1..n
    BY <1>1
  <2>. QED
    BY <1>1, <2>1, CallCount
<1>3. /\ ScanFrames(out).code = "OK" /\ ScanFrames(out).frames # <<>> /\ l[1] = 0
      /\ FirstSequence(out) = Header(out, 0).sequence
  BY <1>2, RowStarts DEF Told
<1>4. /\ FrameFits(batch, 0) /\ m[1] = 0
      /\ FirstSequence(batch) = Header(batch, 0).sequence
  BY <1>2, RowStarts DEF Asks
<1>5. Header(out, 0).sequence = calls[1].sequence
  BY <1>2, <1>3 DEF Told
<1>6. Header(batch, 0).sequence = calls[1].sequence
  <2>1. FrameAt(batch, 0) = CallFrame(calls[1]) /\ calls[1] \in CallSet
    BY <1>2, <1>4 DEF Asks
  <2>2. Header(FrameAt(batch, 0), 0).sequence = calls[1].sequence
    BY <2>1, CallEncoded
  <2>3. Header(FrameAt(batch, 0), 0) = Header(batch, 0)
    BY <1>4, NoBytes, FrameFound
  <2>. QED
    BY <2>2, <2>3
<1>7. PortCode = "OK"
  <2>1. PICK A, B :
          /\ A = <<ScanFrames(out).code # "OK" \/ ScanFrames(out).frames = <<>>, "UNCODED">>
          /\ B = <<FirstSequence(out) # FirstSequence(input), "UNCODED">>
    OBVIOUS
  <2>2. PortCode = Verdict(<<A, B>>)
    BY <2>1 DEF PortCode
  <2>3. ~A[1]
    BY <1>3, <2>1
  <2>4. ~B[1]
    BY <1>3, <1>4, <1>5, <1>6, <2>1
  <2>. QED
    BY <2>2, <2>3, <2>4, ShortLists
<1>8. BridgeCode = "OK"
  BY <1>3 DEF BridgeCode
<1>9. Found = DOMAIN calls
  <2>1. \A i \in 1..n : Matching(calls[i]) # {}
    BY <1>2, OneMatches
  <2>. QED
    BY <1>2, <2>1 DEF Found
<1>. QED
  BY <1>3, <1>5, <1>7, <1>8, <1>9

\* A result with int32 values, a checksum of 32 bits and as many values as asked for.
LEMMA ResultAccepted ==
  ASSUME NEW a, a.values \in Seq(Int32), a.checksum \in 0..Word - 1, NEW n, n = Len(a.values)
  PROVE  ResultCode(a, n) = "OK"
<1>1. PICK A, B, C :
        /\ A = <<\E i \in DOMAIN a.values : a.values[i] \notin Int32, "TRANSPORT_ERROR">>
        /\ B = <<a.checksum \notin 0..Word - 1, "TRANSPORT_ERROR">>
        /\ C = <<Len(a.values) # n, "TRANSPORT_ERROR">>
  OBVIOUS
<1>2. ResultCode(a, n) = Verdict(<<A, B, C>>)
  BY <1>1 DEF ResultCode
<1>3. \A i \in DOMAIN a.values : a.values[i] \in Int32
  BY ElementOfSeq, LenProperties
<1>4. ~A[1]
  BY <1>1, <1>3
<1>5. ~B[1] /\ ~C[1]
  BY <1>1
<1>. QED
  BY <1>2, <1>4, <1>5, ShortLists

\* The backend takes the one answer to its one call.
LEMMA BackendTakes ==
  ASSUME Collecting, out \in Buffers, Len(calls) = 1, calls[1].command = TransformCmd,
         NEW l, Told(l), FirstSequence(out) = calls[1].sequence
  PROVE  BackendCode = "OK" /\ RightResult(calls[1], Response(out))
<1>1. /\ calls[1] \in CallSet /\ 1 # 0 /\ 1 \in 1..1
  BY CallCount
<1>2. /\ ScanFrames(out).code = "OK" /\ Len(ScanFrames(out).frames) = 1
      /\ l[1] = 0 /\ FrameFits(out, 0)
  <2>1. PICK n : n = Len(calls)
    OBVIOUS
  <2>2. Full(out, l, n) /\ n # 0 /\ n = 1
    BY <2>1 DEF Told
  <2>3. /\ ScanFrames(out).code = "OK" /\ Len(ScanFrames(out).frames) = n
        /\ l[1] = 0 /\ FrameFits(out, 0)
    BY <2>2, RowStarts
  <2>. QED
    BY <2>2, <2>3
<1>3. FrameAt(out, 0) = out
  <2>1. /\ Alone(FrameAt(out, 0)) /\ Holds(out, 0, FrameAt(out, 0))
        /\ Len(FrameAt(out, 0)) = FrameLen(out, 0)
    BY <1>2, NoBytes, FrameFound
  <2>2. 1 + 1 = 2 /\ l[2] = Len(out) /\ l[2] = 0 + FrameLen(out, 0) /\ FrameLen(out, 0) \in Nat
    <3>1. Row(out, l, 1) /\ l[1 + 1] = Len(out)
      BY <1>1 DEF Told, Full
    <3>2. l[1 + 1] = l[1] + FrameLen(out, l[1])
      BY <1>1, <3>1 DEF Row
    <3>. QED
      BY <1>2, <3>1, <3>2, NoBytes, FrameLengths
  <2>3. Len(out) = Len(FrameAt(out, 0))
    BY <2>1, <2>2
  <2>. QED
    BY <2>1, <2>3, HeldWhole DEF Alone
<1>4. TsResponseCode(out) = "OK" /\ RightResult(calls[1], Response(out))
  <2>1. RightFrame(calls[1].command, calls[1].sequence, calls[1], out)
    BY <1>1, <1>2, <1>3 DEF Told
  <2>. QED
    BY <2>1 DEF RightFrame, GetInfoCmd, TransformCmd
<1>5. PICK a : a = Response(out)
  OBVIOUS
<1>6. a.values \in Seq(Int32) /\ a.checksum \in 0..Word - 1
  <2>1. RsResponseCode(out) = "OK"
    BY <1>4, ResponsesAgree
  <2>. QED
    BY <1>5, <2>1, ResponseRewritten DEF IsResponseBody
<1>7. Len(a.values) = Len(calls[1].values)
  <2>1. DOMAIN a.values = DOMAIN calls[1].values
    BY <1>4, <1>5 DEF RightResult
  <2>2. calls[1].values \in Seq(Int32)
    BY <1>1 DEF CallSet
  <2>3. PICK s, t \in Seq(Int32) : s = a.values /\ t = calls[1].values
    BY <1>6, <2>2
  <2>4. /\ Len(s) \in Nat /\ Len(t) \in Nat /\ DOMAIN s = 1..Len(s) /\ DOMAIN t = 1..Len(t)
    BY LenProperties
  <2>5. 1..Len(s) = 1..Len(t)
    BY <2>1, <2>3, <2>4
  <2>6. Len(s) = Len(t)
    <3>1. PICK x, y \in Nat : x = Len(s) /\ y = Len(t)
      BY <2>4
    <3>2. \A j : j \in 1..x <=> j \in 1..y
      BY <2>5, <3>1
    <3>3. x \in 1..x <=> x \in 1..y
      BY <3>2
    <3>4. y \in 1..x <=> y \in 1..y
      BY <3>2
    <3>5. x = y
      BY <3>3, <3>4
    <3>. QED
      BY <3>1, <3>5
  <2>. QED
    BY <2>3, <2>6
<1>8. ResultCode(a, Len(calls[1].values)) = "OK"
  BY <1>6, <1>7, ResultAccepted
<1>9. BackendCode = "OK"
  <2>1. PICK c : c = ResultCode(Response(out), Len(calls[1].values))
    OBVIOUS
  <2>2. PICK A, B, C, D : 
          /\ A = <<ScanFrames(out).code # "OK" \/ Len(ScanFrames(out).frames) # 1,
                   "TRANSPORT_ERROR">>
          /\ B = <<FirstSequence(out) # calls[1].sequence, "TRANSPORT_ERROR">>
          /\ C = <<TsResponseCode(out) # "OK", "TRANSPORT_ERROR">>
          /\ D = Passed(c)
    OBVIOUS
  <2>3. BackendCode = Verdict(<<A, B, C, D>>)
    BY <2>1, <2>2 DEF BackendCode
  <2>4. ~A[1]
    BY <1>2, <2>2
  <2>5. ~B[1] /\ ~C[1]
    BY <1>4, <2>2
  <2>6. ~D[1]
    BY <1>5, <1>8, <2>1, <2>2 DEF Passed
  <2>. QED
    BY <2>3, <2>4, <2>5, <2>6, ShortLists
<1>. QED
  BY <1>4, <1>9

-----------------------------------------------------------------------------
(* Ways to the host. *)

\* A way that loses bodies is a scheme whose URL was not probed.
Sound(w) ==
  /\ w.plane \in {"none", "scheme", "port", "invoke", "nowhere"}
  /\ w.kept \in BOOLEAN /\ w.pinned \in BOOLEAN
  /\ w.plane # "scheme" => w.kept
  /\ ~w.kept => w.pinned
\* Every way that can be chosen is sound, whatever the page has and the probe finds.
LEMMA WaysSound ==
  ASSUME NEW w \in Ways
  PROVE  Sound(w)
<1>1. ASSUME NEW p, NEW pinned \in BOOLEAN, NEW kept \in BOOLEAN, w = Way(p, pinned, kept)
      PROVE  /\ w.plane = p /\ w.kept \in BOOLEAN /\ w.pinned \in BOOLEAN
             /\ p # "scheme" => w.kept
             /\ p = "scheme" => w.kept = kept /\ w.pinned = pinned
  BY <1>1 DEF Way
<1>2. ASSUME NEW page \in Pages, NEW memory \in BOOLEAN,
             w = Way(FastPlane(page, memory), page.pinned \/ page.chosen = "scheme", page.kept)
      PROVE  Sound(w)
  <2>1. /\ page.pinned \in BOOLEAN /\ page.kept \in BOOLEAN /\ page.port \in BOOLEAN
        /\ page.invoke \in BOOLEAN /\ page.chosen \in {"none", "json", "scheme"}
    BY DEF Pages
  <2>2. PICK p, pinned : /\ p = FastPlane(page, memory)
                         /\ pinned = (page.pinned \/ page.chosen = "scheme")
    OBVIOUS
  <2>3. pinned \in BOOLEAN /\ w = Way(p, pinned, page.kept)
    BY <1>2, <2>1, <2>2
  <2>4. [kept |-> page.kept, memory |-> memory] \in Reachable => page.kept
    BY DEF Reachable, ProbeSchemeUrl
  <2>5. /\ p \in {"none", "scheme", "port", "invoke"}
        /\ p = "scheme" => pinned \/ page.kept
    <3>1. CASE page.chosen # "none"
      BY <2>1, <2>2, <3>1 DEF FastPlane, TauriDataPlane, InvokeOr
    <3>2. CASE page.chosen = "none"
      BY <2>1, <2>2, <2>4, <3>2 DEF FastPlane, InvokeOr
    <3>. QED
      BY <3>1, <3>2
  <2>6. /\ w.plane = p /\ w.kept \in BOOLEAN /\ w.pinned \in BOOLEAN
        /\ p # "scheme" => w.kept
        /\ p = "scheme" => w.kept = page.kept /\ w.pinned = pinned
    BY <1>1, <2>1, <2>3
  <2>. QED
    BY <2>5, <2>6 DEF Sound
<1>3. ASSUME NEW page \in Pages, w = Way(BridgePlane(page), TRUE, page.kept)
      PROVE  Sound(w)
  <2>1. /\ page.kept \in BOOLEAN /\ page.port \in BOOLEAN /\ page.hooks \subseteq Hooks
        /\ page.invoke \in BOOLEAN /\ page.chosen \in {"none", "json", "scheme"}
    BY DEF Pages
  <2>2. PICK env : env = CollectEnv(page)
    OBVIOUS
  <2>3. PICK kind : kind = SelectTransportKind(env)
    OBVIOUS
  <2>4. kind \in {"shared", "direct", "handler", "port", "tauri", "worker"}
    <3>1. CASE env = {}
      BY <2>3, <3>1 DEF SelectTransportKind
    <3>2. CASE env # {}
      <4>1. PICK e \in env : TRUE
        BY <3>2
      <4>2. e \in {"shared", "direct", "handler", "port", "tauri"}
        BY <2>1, <2>2, <4>1 DEF CollectEnv, Hooks
      <4>3. PICK places : places = {i \in 1..5 : Preference[i] \in env}
        OBVIOUS
      <4>4. /\ Preference[1] = "shared" /\ Preference[2] = "direct" /\ Preference[3] = "handler"
            /\ Preference[4] = "port" /\ Preference[5] = "tauri"
        BY DEF Preference
      <4>5. places # {} /\ places \in SUBSET Nat /\ places \subseteq 1..5
        BY <4>1, <4>2, <4>3, <4>4
      <4>6. Min(places) \in 1..5
        BY <4>5, MinIsLeast
      <4>7. kind = Preference[Min(places)]
        BY <2>3, <3>2, <4>3 DEF SelectTransportKind
      <4>8. \A i \in 1..5 : i = 1 \/ i = 2 \/ i = 3 \/ i = 4 \/ i = 5
        OBVIOUS
      <4>9. \A i \in 1..5 : Preference[i] \in {"shared", "direct", "handler", "port", "tauri"}
        BY <4>4, <4>8
      <4>. QED
        BY <4>6, <4>7, <4>9
    <3>. QED
      BY <3>1, <3>2
  <2>5. PICK p : p = BridgePlane(page)
    OBVIOUS
  <2>6. p \in {"none", "scheme", "port", "invoke", "nowhere"}
    BY <2>1, <2>2, <2>3, <2>4, <2>5 DEF BridgePlane, TauriDataPlane, SendViaPipeOrFallback, InvokeOr
  <2>7. /\ w.plane = p /\ w.kept \in BOOLEAN /\ w.pinned \in BOOLEAN
        /\ p # "scheme" => w.kept
        /\ p = "scheme" => w.kept = page.kept /\ w.pinned = TRUE
    BY <1>1, <1>3, <2>1, <2>5
  <2>. QED
    BY <2>6, <2>7 DEF Sound
<1> DEFINE
       Fast(page, memory) ==
         Way(FastPlane(page, memory), page.pinned \/ page.chosen = "scheme", page.kept)
       Ways1 == {Fast(page, memory) : page \in Pages, memory \in BOOLEAN}
       Ways2 == {Way(BridgePlane(page), TRUE, page.kept) : page \in Pages}
<1>4. Ways = Ways1 \cup Ways2
  BY DEF Ways
<1>5. ASSUME NEW page \in Pages, NEW memory \in BOOLEAN, w = Fast(page, memory) PROVE Sound(w)
  BY <1>2, <1>5
<1>. HIDE DEF Fast
<1>6. w \in Ways1 => Sound(w)
  BY <1>5
<1>7. w \in Ways2 => Sound(w)
  BY <1>3
<1>. HIDE DEF Ways1, Ways2
<1>. QED
  BY <1>4, <1>6, <1>7

\* What the translation to an invoke makes of a frame.
InvokeCode(f, memory) ==
  IF Header(f, 0).command = GetInfoCmd THEN "OK"
  ELSE IF TsRequestCode(f) # "OK" THEN "INVALID_ARGUMENT"
  ELSE CommandCode(Request(f), memory)
InvokeReply(f, memory) ==
  IF Header(f, 0).command = GetInfoCmd THEN InfoFrame(CoreInfo(Header(f, 0).sequence))
  ELSE FfiReply(Request(f), memory).reply

\* What an invoke answers is right; a call that the page sent fails for memory only.
LEMMA InvokeAnswers ==
  ASSUME NEW f, Alone(f), NEW memory \in BOOLEAN
  PROVE  /\ InvokeCode(f, memory) = "OK" =>
              Alone(InvokeReply(f, memory)) /\ Right(f, InvokeReply(f, memory))
         /\ \A c \in CallSet : f = CallFrame(c) => InvokeCode(f, memory) \in {"OK", "OUT_OF_MEMORY"}
<1>1. PICK h : h = Header(f, 0)
  OBVIOUS
<1>2. f \in Buffers /\ h.command \in {GetInfoCmd, TransformCmd} /\ h.sequence \in 0..Half - 1
  BY <1>1, FitSays DEF Alone, FrameFits, HeaderFits
<1>3. CASE h.command = GetInfoCmd
  <2>1. InvokeCode(f, memory) = "OK" /\ InvokeReply(f, memory) = InfoFrame(CoreInfo(h.sequence))
    BY <1>1, <1>3 DEF InvokeCode, InvokeReply
  <2>2. Alone(InfoFrame(CoreInfo(h.sequence))) /\ Right(f, InfoFrame(CoreInfo(h.sequence)))
    BY <1>1, <1>2, <1>3, RightInfo DEF Right
  <2>. QED
    BY <2>1, <2>2
<1>4. CASE h.command = TransformCmd /\ h.command # GetInfoCmd
  <2>1. InvokeReply(f, memory) = FfiReply(Request(f), memory).reply
    BY <1>1, <1>4 DEF InvokeReply
  <2>2. InvokeCode(f, memory) =
          IF TsRequestCode(f) # "OK" THEN "INVALID_ARGUMENT" ELSE CommandCode(Request(f), memory)
    BY <1>1, <1>4 DEF InvokeCode
  <2>3. ASSUME TsRequestCode(f) = "OK"
        PROVE  /\ RsRequestCode(f) = "OK"
               /\ CommandCode(Request(f), memory) = FfiCode(Request(f).values, memory)
               /\ CommandCode(Request(f), memory) \in {"OK", "OUT_OF_MEMORY"}
    <3>1. RsRequestCode(f) = "OK"
      BY <1>2, <2>3, RequestsAgree
    <3>2. IsRequestBody(Request(f))
      BY <1>2, <3>1, RequestRewritten
    <3>. QED
      BY <3>1, <3>2, Calculated
  <2>4. ASSUME InvokeCode(f, memory) = "OK"
        PROVE  Alone(InvokeReply(f, memory)) /\ Right(f, InvokeReply(f, memory))
    <3>1. RsRequestCode(f) = "OK" /\ FfiCode(Request(f).values, memory) = "OK"
      BY <2>2, <2>3, <2>4
    <3>2. /\ Alone(FfiReply(Request(f), memory).reply)
          /\ RightFrame(TransformCmd, Header(f, 0).sequence, Request(f),
                        FfiReply(Request(f), memory).reply)
      BY <1>2, <3>1, RightReply
    <3>. QED
      BY <1>1, <1>4, <2>1, <3>2 DEF Right
  <2>5. ASSUME NEW c \in CallSet, f = CallFrame(c)
        PROVE  InvokeCode(f, memory) \in {"OK", "OUT_OF_MEMORY"}
    <3>1. TsRequestCode(f) = "OK"
      BY <1>1, <1>4, <2>5, CallEncoded
    <3>. QED
      BY <2>2, <2>3, <3>1
  <2>. QED
    BY <2>4, <2>5
<1>. QED
  BY <1>2, <1>3, <1>4 DEF GetInfoCmd, TransformCmd

-----------------------------------------------------------------------------
(* The inductive invariant, by the places of the program. *)

Held ==
  /\ Collecting /\ batch \in Buffers /\ damage \in Nat
  /\ damage = 0 => \E m : Asks(m)

Fresh ==
  pc = "collect" => /\ plane = "none" /\ starved = FALSE
                    /\ input = <<>> /\ off = 0 /\ out = <<>>

\* What Send has decided stays so until the caller is told.
Sent ==
  pc \in {"host", "reply"} =>
    /\ user \in {"backend", "bridge"} /\ plane \in {"json", "scheme", "port", "invoke"}
    /\ user = "backend" => Len(calls) = 1 /\ calls[1].command = TransformCmd
    /\ plane = "json" => user = "backend" /\ damage = 0 /\ pc = "host"
    /\ way.kept \in BOOLEAN
    /\ plane # "scheme" => way.kept
    /\ ~way.kept => way.pinned
    /\ batch # <<>> /\ input = IF way.kept THEN batch ELSE <<>>
    /\ plane \in {"port", "invoke"} => ScanFrames(input).code = "OK"

Hosted ==
  pc = "host" =>
    starved = FALSE /\ off \in Nat /\ out \in Buffers /\ Answered(input, off, out)

Replied ==
  pc = "reply" =>
    /\ out \in Buffers /\ input # <<>> /\ ScanFrames(input).code = "OK"
    /\ starved \in BOOLEAN
    /\ starved => plane = "port" /\ out = <<>>
    /\ damage = 0 /\ ~starved => Answered(input, Len(input), out)

AnsweredRight ==
  /\ DOMAIN answers = DOMAIN calls
  /\ \A i \in DOMAIN calls :
       IF user = "backend" THEN RightResult(calls[i], answers[i])
       ELSE RightFrame(calls[i].command, calls[i].sequence, calls[i], answers[i])
Ended ==
  pc = "done" =>
    /\ code = "OK" => ScanFrames(input).code = "OK"
    /\ code = "OK" /\ damage = 0 => AnsweredRight
    /\ PlanesAgree

PlaneInv ==
  /\ pc \in {"collect", "host", "reply", "done"}
  /\ Held /\ Fresh /\ Sent /\ Hosted /\ Replied /\ Ended

\* A call and its frame join an undamaged batch.
LEMMA BatchGrows ==
  ASSUME Held, damage = 0, Len(calls) < MaxCalls, NEW c \in CallSet,
         c.sequence = Sequence, calls' = Append(calls, c),
         batch' = batch \o CallFrame(c), damage' = damage
  PROVE  Held'
<1>1. PICK n \in Nat : n = Len(calls)
  BY CallCount DEF Held
<1>2. n = Len(calls) /\ n < MaxCalls /\ n + 1 \in Nat /\ MaxCalls \in Nat
  <2>1. MaxCalls \in Nat
    BY PlaneAssumption, Sizes
  <2>2. n < MaxCalls
    BY <1>1
  <2>. QED
    BY <1>1, <2>1, <2>2
<1>3. /\ calls \in Seq(CallSet)
      /\ \A i \in 1..n : calls[i].sequence = (FirstId + (i - 1)) % Half
  BY <1>2 DEF Held, Collecting
<1>4. /\ calls' \in Seq(CallSet) /\ Len(calls') = n + 1 /\ calls'[n + 1] = c
      /\ \A i \in 1..n : calls'[i] = calls[i]
  BY <1>2, <1>3, AppendProperties
<1>5. \A i \in 1..n + 1 : i \in 1..n \/ i = n + 1
  BY <1>2
<1>6. \A i \in 1..n + 1 : calls'[i].sequence = (FirstId + (i - 1)) % Half
  <2>1. (n + 1) - 1 = n
    BY <1>2
  <2>2. calls'[n + 1].sequence = (FirstId + n) % Half
    BY <1>2, <1>4 DEF Sequence
  <2>. QED
    BY <1>3, <1>4, <1>5, <2>1, <2>2
<1>7. Collecting'
  <2>1. n + 1 <= MaxCalls
    BY <1>2
  <2>. QED
    BY <1>4, <1>6, <2>1 DEF Collecting
<1>8. PICK m : Asks(m)
  BY DEF Held
<1>9. PICK f : f = CallFrame(c)
  OBVIOUS
<1>10. Alone(f)
  BY <1>9, CallEncoded
<1>11. PICK p : p = Longer(m, n, Len(batch'))
  OBVIOUS
<1>12. batch \in Buffers /\ Row(batch, m, n) /\ m[1] = 0 /\ m[n + 1] = Len(batch)
  BY <1>2, <1>8 DEF Held, Asks, Full
<1>13. /\ Row(batch', p, n + 1) /\ FrameAt(batch', m[n + 1]) = f /\ batch' \in Buffers
       /\ \A i \in 1..n : FrameAt(batch', m[i]) = FrameAt(batch, m[i])
  <2>1. PICK s : s = batch \o f
    OBVIOUS
  <2>2. batch' = s /\ p = Longer(m, n, Len(s))
    BY <1>9, <1>11, <2>1
  <2>3. /\ Row(s, p, n + 1) /\ FrameAt(s, m[n + 1]) = f /\ s \in Buffers
        /\ \A i \in 1..n : FrameAt(s, m[i]) = FrameAt(batch, m[i])
    BY <1>10, <1>12, <2>1, <2>2, RowJoined
  <2>. QED
    BY <2>2, <2>3
<1>14. p[(n + 1) + 1] = Len(batch') /\ \A i \in 1..n + 1 : p[i] = m[i]
  <2>1. PICK e : e = Len(batch')
    OBVIOUS
  <2>2. p = Longer(m, n, e)
    BY <1>11, <2>1
  <2>3. /\ Longer(m, n, e)[(n + 1) + 1] = e
        /\ \A i \in 1..n + 1 : Longer(m, n, e)[i] = m[i]
    BY <1>2, LongerValues
  <2>. QED
    BY <2>1, <2>2, <2>3
<1>15. Full(batch', p, n + 1)
  <2>1. 1 \in 1..n + 1
    BY <1>2
  <2>. QED
    BY <1>12, <1>13, <1>14, <2>1 DEF Full
<1>16. \A i \in 1..n + 1 : FrameAt(batch', p[i]) = CallFrame(calls'[i])
  <2>1. \A i \in 1..n : FrameAt(batch, m[i]) = CallFrame(calls[i])
    BY <1>2, <1>8 DEF Asks
  <2>. QED
    BY <1>4, <1>5, <1>9, <1>13, <1>14, <2>1
<1>17. Asks(p)'
  BY <1>4, <1>15, <1>16 DEF Asks
<1>. QED
  BY <1>7, <1>13, <1>17 DEF Held

-----------------------------------------------------------------------------
(* The steps. *)

\* The invariant holds initially.
LEMMA StartsRight == Init => PlaneInv
<1>1. SUFFICES ASSUME Init PROVE PlaneInv
  OBVIOUS
<1>2. /\ pc = "collect" /\ calls = <<>> /\ batch = <<>> /\ damage = 0 /\ plane = "none"
      /\ input = <<>> /\ off = 0 /\ out = <<>> /\ starved = FALSE
  BY <1>1 DEF Init, plane
<1>3. calls \in Seq(CallSet) /\ Len(calls) = 0 /\ 0 <= MaxCalls
  <2>1. Len(<<>>) = 0 /\ <<>> \in Seq(CallSet)
    OBVIOUS
  <2>2. MaxCalls \in Nat
    BY PlaneAssumption, Sizes
  <2>. QED
    BY <1>2, <2>1, <2>2
<1>4. Collecting
  BY <1>3 DEF Collecting
<1>5. PICK m : m = [i \in 1..1 |-> 0]
  OBVIOUS
<1>6. m \in [1..0 + 1 -> Nat] /\ m[1] = 0 /\ m[0 + 1] = 0 /\ Len(batch) = 0
  BY <1>2, <1>5, NoBytes
<1>7. Asks(m)
  BY <1>3, <1>6 DEF Asks, Full, Row
<1>8. Held
  BY <1>2, <1>4, <1>7, NoBytes DEF Held
<1>. QED
  BY <1>2, <1>8 DEF PlaneInv, Fresh, Sent, Hosted, Replied, Ended

\* The parts of the invariant that are about a later place hold while calls are
\* collected.
LEMMA StillCollecting ==
  ASSUME PlaneInv, pc = "collect", pc' = "collect", Held',
         UNCHANGED <<route, input, off, out, starved, code, answers>>
  PROVE  PlaneInv'
<1>1. Fresh'
  BY DEF PlaneInv, Fresh, plane, route
<1>. QED
  BY <1>1 DEF PlaneInv, Sent, Hosted, Replied, Ended

\* The next sequence number has 16 bits.
LEMMA SequenceInRange == Collecting => Sequence \in 0..Half - 1
<1>1. SUFFICES ASSUME Collecting PROVE Sequence \in 0..Half - 1
  OBVIOUS
<1>2. PICK n \in Nat : n = Len(calls)
  BY <1>1, CallCount
<1>3. PICK h \in Nat : h = Half /\ h >= 2
  BY Sizes
<1>4. FirstId \in Nat
  BY PlaneAssumption
<1>5. (FirstId + n) % h \in 0..h - 1
  BY <1>2, <1>3, <1>4, Digits
<1>. QED
  BY <1>2, <1>3, <1>5 DEF Sequence

\* A call that is accepted joins the batch; one that is refused is over.
LEMMA SubmitKeeps ==
  ASSUME PlaneInv, NEW r \in Inputs, Submit(r)
  PROVE  PlaneInv'
<1>1. pc = "collect" /\ damage = 0 /\ Len(calls) < MaxCalls /\ damage' = damage
      /\ UNCHANGED <<route, input, off, out, starved>>
  BY DEF Submit
<1>2. Held /\ Collecting /\ IsRequest(r)
  BY PlaneAssumption DEF PlaneInv, Held
<1>3. CASE TsValidate(r) = "OK"
  <2>1. /\ calls' = Append(calls, Call(r)) /\ batch' = batch \o RequestFrame(Call(r), 0)
        /\ UNCHANGED <<pc, code, answers>>
    BY <1>3 DEF Submit
  <2>2. /\ Snapshot(r).values \in Seq(Int32) /\ Len(Snapshot(r).values) \in 0..MaxValues
        /\ Snapshot(r).multiplier \in Int32 /\ Snapshot(r).offset \in Int32
    BY <1>2, <1>3, NumbersArrive
  <2>3. PICK c : c = Call(r)
    OBVIOUS
  <2>4. c \in CallSet
    <3>1. Len(Snapshot(r).values) <= MaxValues
      BY <2>2, Sizes
    <3>. QED
      BY <1>2, <2>2, <2>3, <3>1, SequenceInRange DEF CallSet, Call
  <2>5. c.sequence = Sequence /\ c.command = TransformCmd
    BY <2>3 DEF Call
  <2>6. batch' = batch \o CallFrame(c)
    BY <2>1, <2>3, <2>5 DEF CallFrame
  <2>7. Held'
    BY <1>1, <1>2, <2>1, <2>3, <2>4, <2>5, <2>6, BatchGrows
  <2>. QED
    BY <1>1, <2>1, <2>7, StillCollecting
<1>4. CASE TsValidate(r) # "OK"
  <2>1. /\ pc' = "done" /\ code' # "OK" /\ UNCHANGED <<calls, batch>>
    BY <1>4 DEF Submit, End
  <2>2. plane' = "none"
    BY <1>1 DEF PlaneInv, Fresh, plane, route
  <2>3. Held'
    BY <1>1, <1>2, <2>1 DEF Held, Collecting, Asks
  <2>4. Ended'
    BY <2>1, <2>2 DEF Ended, PlanesAgree
  <2>. QED
    BY <2>1, <2>3, <2>4 DEF PlaneInv, Fresh, Sent, Hosted, Replied
<1>. QED
  BY <1>3, <1>4

\* A request for information joins the batch.
LEMMA SubmitInfoKeeps ==
  ASSUME PlaneInv, SubmitInfo
  PROVE  PlaneInv'
<1>1. /\ pc = "collect" /\ damage = 0 /\ Len(calls) < MaxCalls
      /\ calls' = Append(calls, InfoCall) /\ batch' = batch \o InfoRequestFrame(Sequence)
      /\ UNCHANGED <<pc, damage, route, input, off, out, starved, code, answers>>
  BY DEF SubmitInfo
<1>2. Held /\ Collecting
  BY DEF PlaneInv, Held
<1>3. PICK c : c = InfoCall
  OBVIOUS
<1>4. c \in CallSet
  <2>1. <<>> \in Seq(Int32) /\ Len(<<>>) = 0 /\ 0 <= MaxValues /\ 0 \in Int32
    BY Sizes, ZeroIsInt32
  <2>2. Sequence \in 0..Half - 1
    BY <1>2, SequenceInRange
  <2>. QED
    BY <1>3, <2>1, <2>2 DEF CallSet, InfoCall
<1>5. c.sequence = Sequence /\ c.command = GetInfoCmd
  BY <1>3 DEF InfoCall
<1>6. batch' = batch \o CallFrame(c)
  BY <1>1, <1>5 DEF CallFrame, GetInfoCmd, TransformCmd
<1>7. Held'
  BY <1>1, <1>2, <1>3, <1>4, <1>5, <1>6, BatchGrows
<1>. QED
  BY <1>1, <1>7, StillCollecting

\* Damaged bytes are bytes.
LEMMA StillBytes ==
  ASSUME NEW b \in Buffers, NEW d \in Damaged(b)
  PROVE  d \in Buffers
<1>1. PICK n \in Nat : n = Len(b) /\ DOMAIN b = 1..n /\ \A i \in 1..n : b[i] \in Byte
  BY BufferBytes
<1>2. PICK s : s = Byte
  OBVIOUS
<1>3. Buffers = Seq(s) /\ b \in Seq(s)
  BY <1>2 DEF Buffers, Byte
<1>4. ASSUME NEW i \in DOMAIN b, NEW v \in 0..Base - 1, d = [b EXCEPT ![i] = v]
      PROVE  d \in Buffers
  <2>1. v \in s
    BY <1>2 DEF Byte
  <2>. QED
    BY <1>3, <1>4, <2>1, ExceptSeq
<1>5. ASSUME NEW k \in 0..Len(b) - 1, d = SubSeq(b, 1, k)
      PROVE  d \in Buffers
  <2>1. \A i \in 1..k : i \in 1..Len(b)
    BY <1>1, <1>5
  <2>2. \A i \in 1..k : b[i] \in s
    BY <1>1, <1>2, <2>1
  <2>3. k \in Nat
    BY <1>1
  <2>. QED
    BY <1>1, <1>3, <1>5, <2>2, <2>3, SubSeqProperties
<1>6. ASSUME NEW v \in 0..Base - 1, d = Append(b, v)
      PROVE  d \in Buffers
  <2>1. v \in s
    BY <1>2 DEF Byte
  <2>. QED
    BY <1>3, <1>6, <2>1, AppendProperties
<1>. QED
  BY <1>4, <1>5, <1>6 DEF Damaged

\* A batch that is damaged, or none, is still made of bytes.
LEMMA DamageKeeps ==
  ASSUME PlaneInv, DamageRequest \/ \E bytes \in Foreign : SubmitForeign(bytes)
  PROVE  PlaneInv'
<1>1. Held /\ Collecting /\ batch \in Buffers /\ damage \in Nat
  BY DEF PlaneInv, Held
<1>2. /\ pc = "collect"
      /\ UNCHANGED <<pc, calls, route, input, off, out, starved, code, answers>>
  BY DEF DamageRequest, SubmitForeign
<1>3. batch' \in Buffers /\ damage' \in Nat \ {0}
  <2>1. CASE DamageRequest
    <3>1. batch' \in Damaged(batch) /\ damage' = damage + 1
      BY <2>1 DEF DamageRequest
    <3>. QED
      BY <1>1, <3>1, StillBytes
  <2>2. ASSUME NEW bytes \in Foreign, SubmitForeign(bytes)
        PROVE  batch' \in Buffers /\ damage' \in Nat \ {0}
    BY <2>2, PlaneAssumption DEF SubmitForeign, Buffers
  <2>. QED
    BY <2>1, <2>2
<1>4. Held'
  BY <1>1, <1>2, <1>3 DEF Held, Collecting
<1>. QED
  BY <1>2, <1>4, StillCollecting

\* What may be sent, over which plane.
Sendable(u, w) ==
  /\ u \in {"backend", "bridge"}
  /\ w.plane \in {"json", "scheme", "port", "invoke", "nowhere"} /\ w.kept \in BOOLEAN
  /\ w.plane # "scheme" => w.kept
  /\ ~w.kept => w.pinned
  /\ w.plane = "json" => u = "backend"
  /\ w.plane = "nowhere" => u = "bridge"

\* An undamaged batch can be scanned.
LEMMA BatchScans ==
  ASSUME Held, damage = 0
  PROVE  ScanFrames(batch).code = "OK"
<1>1. PICK m : Asks(m)
  BY DEF Held
<1>2. PICK n, s : n = Len(calls) /\ s = [i \in 1..n |-> m[i]]
  OBVIOUS
<1>3. Row(batch, m, n) /\ m[1] = 0 /\ m[n + 1] = Len(batch) /\ batch \in Buffers
  BY <1>1, <1>2 DEF Held, Asks, Full
<1>4. ScanFrames(batch) = [code |-> "OK", frames |-> s]
  BY <1>2, <1>3, RowScanned
<1>. QED
  BY <1>4

\* After collecting, the batch does not change, and damage only makes it say less.
LEMMA StillHolding ==
  ASSUME Held, UNCHANGED <<calls, batch>>, damage' = damage \/ damage' = damage + 1
  PROVE  Held'
<1>1. damage \in Nat /\ damage' \in Nat /\ (damage' = 0 => damage = 0)
  BY DEF Held
<1>2. Collecting'
  BY DEF Held, Collecting
<1>3. ASSUME NEW m, Asks(m) PROVE Asks(m)'
  BY <1>3 DEF Asks
<1>. QED
  BY <1>1, <1>2, <1>3 DEF Held

\* A batch is sent, or the caller is told that it cannot be.
LEMMA SendKeeps ==
  ASSUME PlaneInv, NEW u, NEW w, Sendable(u, w), SendOver(u, w)
  PROVE  PlaneInv'
<1>1. /\ pc = "collect" /\ batch # <<>> /\ user' = u /\ way' = w
      /\ u = "backend" => damage = 0 /\ Len(calls) = 1 /\ calls[1].command = TransformCmd
      /\ UNCHANGED <<calls, batch, damage, off, out, starved>>
  BY DEF SendOver, Sender, collected
<1>2. Held /\ Held' /\ batch \in Buffers
  BY <1>1, StillHolding DEF PlaneInv, Held
<1>3. starved = FALSE /\ input = <<>> /\ off = 0 /\ out = <<>>
  BY <1>1 DEF PlaneInv, Fresh
<1>4. damage = 0 => ScanFrames(batch).code = "OK"
  BY <1>2, BatchScans
<1>5. CASE \/ w.plane = "nowhere"
           \/ w.plane \in {"port", "invoke"} /\ ScanFrames(batch).code # "OK"
  <2>1. End(Uncoded(u), <<>>)
    BY <1>5 DEF SendOver
  <2>2. pc' = "done" /\ code' = Uncoded(u)
    BY <2>1 DEF End
  <2>3. code' # "OK" /\ (u = "bridge" => code' = "UNCODED")
    BY <2>2 DEF Uncoded
  <2>4. PlanesAgree'
    BY <1>1, <1>3, <1>4, <1>5, <2>3 DEF PlanesAgree, CodeOf, plane, Sendable
  <2>5. Ended'
    BY <2>3, <2>4 DEF Ended
  <2>. QED
    BY <1>2, <2>2, <2>5 DEF PlaneInv, Fresh, Sent, Hosted, Replied
<1>6. CASE ~(\/ w.plane = "nowhere"
             \/ w.plane \in {"port", "invoke"} /\ ScanFrames(batch).code # "OK")
  <2>1. PICK i : i = (IF w.kept THEN batch ELSE <<>>)
    OBVIOUS
  <2>2. Carry(i)
    BY <1>6, <2>1 DEF SendOver
  <2>3. pc' = "host" /\ input' = i
    BY <2>2 DEF Carry
  <2>4. i \in Buffers
    BY <1>2, <2>1, NoBytes
  <2>5. Answered(i, 0, <<>>)
    BY <2>4, NoneAnswered
  <2>6. Hosted'
    BY <1>1, <1>3, <2>3, <2>5, NoBytes DEF Hosted
  <2>7. Sent'
    BY <1>1, <1>6, <2>1, <2>3 DEF Sent, plane, Sendable
  <2>. QED
    BY <1>2, <2>3, <2>6, <2>7 DEF PlaneInv, Fresh, Replied, Ended
<1>. QED
  BY <1>5, <1>6

\* The bridge sends on a way that can be chosen.
LEMMA SendBundleKeeps ==
  ASSUME PlaneInv, NEW w \in Ways, SendBundle(w)
  PROVE  PlaneInv'
<1>1. Sound(w) /\ w.plane # "none" /\ SendOver("bridge", w)
  BY WaysSound DEF SendBundle
<1>2. PICK u : u = "bridge"
  OBVIOUS
<1>3. Sendable(u, w)
  BY <1>1, <1>2 DEF Sendable, Sound
<1>. QED
  BY <1>1, <1>2, <1>3, SendKeeps

\* A backend sends on the plane that was set up for it.
LEMMA SendCallKeeps ==
  ASSUME PlaneInv, NEW p \in {"json", "scheme", "port"}, NEW memory \in BOOLEAN,
         SendCall(p, memory)
  PROVE  PlaneInv'
<1>1. PICK u, w : u = "backend" /\ w = Way(p, FALSE, TRUE)
  OBVIOUS
<1>2. SendOver(u, w)
  BY <1>1 DEF SendCall
<1>3. w.plane = p /\ w.kept = TRUE
  BY <1>1 DEF Way
<1>4. Sendable(u, w)
  BY <1>1, <1>3 DEF Sendable
<1>. QED
  BY <1>2, <1>4, SendKeeps

\* What the host is given without damage are the frames of the calls.
LEMMA HostAsked ==
  ASSUME Held, damage = 0, NEW r, NEW o, Answered(batch, o, r), o # Len(batch)
  PROVE  FrameFits(batch, o) /\ \E c \in CallSet : FrameAt(batch, o) = CallFrame(c)
<1>1. PICK m : Asks(m)
  BY DEF Held
<1>2. Full(batch, m, Len(calls)) /\ batch \in Buffers
  BY <1>1 DEF Held, Asks
<1>3. FrameFits(batch, o) /\ \E i \in 1..Len(calls) : m[i] = o
  BY <1>2, NextAsked
<1>4. PICK i \in 1..Len(calls) : m[i] = o
  BY <1>3
<1>5. FrameAt(batch, o) = CallFrame(calls[i]) /\ calls[i] \in CallSet
  BY <1>1, <1>4, CallCount DEF Asks, Held
<1>. QED
  BY <1>3, <1>5

\* The host refuses an undamaged batch for memory only, or because it got nothing.
LEMMA HostFailsKeeps ==
  ASSUME PlaneInv, NEW c, c # "OK", HostFails(c),
         damage = 0 => \/ way.kept /\ c = "OUT_OF_MEMORY"
                       \/ ~way.kept /\ c = "INVALID_ARGUMENT"
  PROVE  PlaneInv'
<1>1. /\ pc = "host" /\ plane \in {"port", "scheme"} /\ starved' = (c = "OUT_OF_MEMORY")
      /\ out' = <<>> /\ UNCHANGED <<calls, batch, damage, user, way, input, off>>
  BY DEF HostFails, OnWire, collected, route
<1>2. Held /\ Held'
  BY <1>1, StillHolding DEF PlaneInv
<1>3. /\ user \in {"backend", "bridge"}
      /\ user = "backend" => Len(calls) = 1 /\ calls[1].command = TransformCmd
      /\ way.kept \in BOOLEAN /\ (plane # "scheme" => way.kept) /\ (~way.kept => way.pinned)
      /\ batch # <<>> /\ input = IF way.kept THEN batch ELSE <<>>
      /\ plane \in {"port", "invoke"} => ScanFrames(input).code = "OK"
  BY <1>1 DEF PlaneInv, Sent
<1>4. plane' = plane
  BY <1>1 DEF plane
<1>5. CASE plane = "port"
  <2>1. pc' = "reply"
    BY <1>5 DEF HostFails
  <2>2. Sent'
    BY <1>1, <1>3, <1>4, <1>5, <2>1 DEF Sent
  <2>3. /\ out' \in Buffers /\ input' # <<>> /\ ScanFrames(input').code = "OK"
        /\ starved' \in BOOLEAN /\ plane' = "port" /\ out' = <<>>
    BY <1>1, <1>3, <1>4, <1>5, NoBytes
  <2>4. damage' = 0 => starved'
    BY <1>1, <1>3, <1>5
  <2>5. Replied'
    BY <2>3, <2>4 DEF Replied
  <2>. QED
    BY <1>2, <2>1, <2>2, <2>5 DEF PlaneInv, Fresh, Hosted, Ended
<1>6. CASE plane # "port"
  <2>1. End(c, <<>>) /\ plane = "scheme"
    BY <1>1, <1>6 DEF HostFails
  <2>2. pc' = "done" /\ code' = c
    BY <2>1 DEF End
  <2>3. PlanesAgree'
    <3>1. damage' = 0 => \/ starved' /\ code' = "OUT_OF_MEMORY"
                         \/ ~starved' /\ way'.pinned /\ ~way'.kept /\ code' = "INVALID_ARGUMENT"
      BY <1>1, <1>3, <2>2
    <3>2. plane' = "scheme"
      BY <1>4, <2>1
    <3>. QED
      BY <2>2, <3>1, <3>2 DEF PlanesAgree, CodeOf
  <2>4. Ended'
    BY <2>2, <2>3 DEF Ended
  <2>. QED
    BY <1>2, <2>2, <2>4 DEF PlaneInv, Fresh, Sent, Hosted, Replied
<1>. QED
  BY <1>5, <1>6

\* The host gets nothing when the plane loses the bytes.
LEMMA RefusesEmptyKeeps ==
  ASSUME PlaneInv, HostRefusesEmpty
  PROVE  PlaneInv'
<1>1. input = <<>> /\ HostFails("INVALID_ARGUMENT") /\ pc = "host"
  BY DEF HostRefusesEmpty, HostFails, OnWire
<1>2. way.kept \in BOOLEAN /\ batch # <<>> /\ input = IF way.kept THEN batch ELSE <<>>
  BY <1>1 DEF PlaneInv, Sent
<1>3. ~way.kept
  BY <1>1, <1>2
<1>. QED
  BY <1>1, <1>3, HostFailsKeeps

\* What holds while the host works on a batch that it was given.
LEMMA Hosting ==
  ASSUME PlaneInv, pc = "host"
  PROVE  /\ Held /\ batch \in Buffers /\ input \in Buffers /\ out \in Buffers
         /\ off \in Nat /\ Answered(input, off, out) /\ starved = FALSE
         /\ way.kept \in BOOLEAN
         /\ input # <<>> => way.kept /\ input = batch
         /\ Len(input) \in Nat /\ (off < Len(input) => input # <<>>)
<1>1. Held /\ Sent /\ Hosted
  BY DEF PlaneInv
<1>2. batch \in Buffers
  BY <1>1 DEF Held
<1>3. way.kept \in BOOLEAN /\ input = IF way.kept THEN batch ELSE <<>>
  BY <1>1 DEF Sent
<1>4. input \in Buffers
  BY <1>2, <1>3, NoBytes
<1>5. Len(input) \in Nat
  BY <1>4, BufferBytes
<1>6. off \in Nat /\ out \in Buffers /\ Answered(input, off, out) /\ starved = FALSE
  BY <1>1 DEF Hosted
<1>7. off < Len(input) => input # <<>>
  BY <1>5, <1>6, NoBytes
<1>. QED
  BY <1>1, <1>2, <1>3, <1>4, <1>5, <1>6, <1>7

\* A frame that is answered right keeps the invariant.
LEMMA AnswerKeeps ==
  ASSUME PlaneInv, pc = "host", NEW f, f = FrameAt(input, off), FrameFits(input, off),
         NEW g, Alone(g), Right(f, g), out' = out \o g, off' = off + Len(f),
         UNCHANGED <<pc, collected, damage, route, input, starved>>
  PROVE  PlaneInv'
<1>1. /\ Held /\ input \in Buffers /\ out \in Buffers /\ off \in Nat
      /\ Answered(input, off, out) /\ starved = FALSE
  BY Hosting
<1>2. UNCHANGED <<calls, batch, user, way>> /\ UNCHANGED <<pc, damage, input, starved>>
  BY DEF collected, route
<1>3. Held'
  BY <1>1, <1>2, StillHolding
<1>4. out' \in Buffers /\ Answered(input, off', out')
  BY <1>1, AnswerJoined
<1>5. off' \in Nat
  <2>1. Len(f) \in Nat
    BY <1>1, FrameFound
  <2>. QED
    BY <1>1, <2>1
<1>6. Hosted'
  BY <1>1, <1>2, <1>4, <1>5 DEF Hosted
<1>7. Sent'
  BY <1>2 DEF PlaneInv, Sent, plane
<1>. QED
  BY <1>2, <1>3, <1>6, <1>7 DEF PlaneInv, Fresh, Replied, Ended

\* A frame is answered, or the batch fails; undamaged, for memory only.
LEMMA HostFrameKeeps ==
  ASSUME PlaneInv, NEW memory \in BOOLEAN, HostFrame(memory)
  PROVE  PlaneInv'
<1>1. pc = "host" /\ off < Len(input)
  BY DEF HostFrame, OnWire
<1>2. /\ Held /\ batch \in Buffers /\ input \in Buffers /\ off \in Nat
      /\ Answered(input, off, out) /\ Len(input) \in Nat
      /\ way.kept /\ input = batch
  BY <1>1, Hosting
<1>3. PICK f, next : f = FrameAt(input, off) /\ next = RsNextFrame(input, off)
  OBVIOUS
<1>4. PICK p : p = ProcessFrame(f, memory)
  OBVIOUS
<1>5. PICK done : done = Host(f, next, memory)
  OBVIOUS
<1>6. done = IF next # "OK" THEN [code |-> WireCode(next), reply |-> <<>>] ELSE p
  BY <1>4, <1>5 DEF Host, Judged
<1>7. \/ /\ done.code = "OK" /\ out' = out \o done.reply /\ off' = off + Len(f)
         /\ UNCHANGED <<pc, collected, damage, route, input, starved, code, answers>>
      \/ done.code # "OK" /\ HostFails(done.code)
  BY <1>3, <1>5 DEF HostFrame
<1>8. next = "OK" <=> FrameFits(input, off)
  BY <1>2, <1>3, FramesAgree
<1>9. next # "OK" => done.code # "OK"
  BY <1>6 DEF WireCode
<1>10. ASSUME next = "OK"
       PROVE  /\ done = p /\ Alone(f)
              /\ p.code = "OK" => Alone(p.reply) /\ Right(f, p.reply)
              /\ \A c \in CallSet : f = CallFrame(c) => p.code \in {"OK", "OUT_OF_MEMORY"}
  <2>1. Alone(f)
    BY <1>2, <1>3, <1>8, <1>10, FrameFound
  <2>. QED
    BY <1>4, <1>6, <1>10, <2>1, HostAnswers
<1>11. CASE done.code = "OK"
  <2>1. Alone(done.reply) /\ Right(f, done.reply) /\ FrameFits(input, off)
    BY <1>8, <1>9, <1>10, <1>11
  <2>2. /\ out' = out \o done.reply /\ off' = off + Len(f)
        /\ UNCHANGED <<pc, collected, damage, route, input, starved>>
    BY <1>7, <1>11
  <2>. QED
    BY <1>1, <1>3, <2>1, <2>2, AnswerKeeps
<1>12. CASE done.code # "OK"
  <2>1. HostFails(done.code)
    BY <1>7, <1>12
  <2>2. ASSUME damage = 0 PROVE done.code = "OUT_OF_MEMORY"
    <3>1. off # Len(input)
      BY <1>1, <1>2
    <3>2. FrameFits(batch, off) /\ \E c \in CallSet : FrameAt(batch, off) = CallFrame(c)
      BY <1>2, <2>2, <3>1, HostAsked
    <3>3. next = "OK" /\ \E c \in CallSet : f = CallFrame(c)
      BY <1>2, <1>3, <1>8, <3>2
    <3>. QED
      BY <1>10, <1>12, <3>3
  <2>. QED
    BY <1>2, <1>12, <2>1, <2>2, HostFailsKeeps
<1>. QED
  BY <1>11, <1>12

\* The host is done when it has read all.
LEMMA DoneKeeps ==
  ASSUME PlaneInv, HostDone \/ InvokeDone
  PROVE  PlaneInv'
<1>1. /\ pc = "host" /\ off = Len(input) /\ pc' = "reply" /\ plane # "json"
      /\ UNCHANGED <<calls, batch, damage, user, way, input, off, out, starved>>
  BY DEF HostDone, InvokeDone, OnWire, collected, route
<1>2. /\ Held /\ batch \in Buffers /\ input \in Buffers /\ out \in Buffers
      /\ Answered(input, off, out) /\ starved = FALSE
  BY <1>1, Hosting
<1>3. Held'
  BY <1>1, <1>2, StillHolding
<1>4. Sent'
  BY <1>1 DEF PlaneInv, Sent, plane
<1>5. input # <<>>
  <2>1. CASE HostDone
    BY <2>1 DEF HostDone
  <2>2. CASE InvokeDone
    <3>1. plane = "invoke"
      BY <2>2 DEF InvokeDone
    <3>. QED
      BY <1>1, <3>1 DEF PlaneInv, Sent
  <2>. QED
    BY <2>1, <2>2
<1>6. ScanFrames(input).code = "OK"
  BY <1>1, <1>2, AnsweredScans
<1>7. Replied'
  BY <1>1, <1>2, <1>5, <1>6 DEF Replied
<1>. QED
  BY <1>1, <1>3, <1>4, <1>7 DEF PlaneInv, Fresh, Hosted, Ended

\* A frame becomes an invoke and is answered, or the batch fails.
LEMMA InvokeFrameKeeps ==
  ASSUME PlaneInv, NEW memory \in BOOLEAN, InvokeFrame(memory)
  PROVE  PlaneInv'
<1>1. pc = "host" /\ plane = "invoke" /\ off < Len(input)
  BY DEF InvokeFrame
<1>2. /\ Held /\ batch \in Buffers /\ input \in Buffers /\ off \in Nat
      /\ Answered(input, off, out) /\ Len(input) \in Nat
      /\ way.kept /\ input = batch
  BY <1>1, Hosting
<1>3. off # Len(input) /\ ScanFrames(input).code = "OK"
  BY <1>1, <1>2 DEF PlaneInv, Sent
<1>4. FrameFits(input, off)
  <2>1. PICK m, n : Full(input, m, n)
    BY <1>2, <1>3, ScannedRow DEF Full
  <2>. QED
    BY <1>2, <1>3, <2>1, NextAsked
<1>5. PICK f : f = FrameAt(input, off)
  OBVIOUS
<1>6. Alone(f)
  BY <1>2, <1>4, <1>5, FrameFound
<1>7. PICK c, g : c = InvokeCode(f, memory) /\ g = InvokeReply(f, memory)
  OBVIOUS
<1>8. /\ c = "OK" => Alone(g) /\ Right(f, g)
      /\ \A d \in CallSet : f = CallFrame(d) => c \in {"OK", "OUT_OF_MEMORY"}
  BY <1>6, <1>7, InvokeAnswers
<1>9. /\ UNCHANGED <<collected, damage, route, input>>
      /\ \/ /\ c = "OK" /\ out' = out \o g /\ off' = off + Len(f)
            /\ UNCHANGED <<pc, starved, code, answers>>
         \/ /\ c # "OK" /\ starved' = (c = "OUT_OF_MEMORY")
            /\ End("UNCODED", <<>>) /\ UNCHANGED <<off, out>>
  BY <1>5, <1>7 DEF InvokeFrame, InvokeCode, InvokeReply
<1>10. CASE c = "OK"
  <2>1. /\ out' = out \o g /\ off' = off + Len(f)
        /\ UNCHANGED <<pc, collected, damage, route, input, starved>>
    BY <1>9, <1>10
  <2>. QED
    BY <1>1, <1>4, <1>5, <1>8, <1>10, <2>1, AnswerKeeps
<1>11. CASE c # "OK"
  <2>1. /\ pc' = "done" /\ code' = "UNCODED" /\ starved' = (c = "OUT_OF_MEMORY")
        /\ UNCHANGED <<calls, batch, damage, user, way>>
    BY <1>9, <1>11 DEF End, collected, route
  <2>2. Held'
    BY <1>2, <2>1, StillHolding
  <2>3. damage = 0 => c = "OUT_OF_MEMORY"
    BY <1>2, <1>3, <1>5, <1>8, <1>11, HostAsked
  <2>4. plane' = "invoke"
    BY <1>1, <2>1 DEF plane
  <2>5. PlanesAgree'
    BY <2>1, <2>3, <2>4 DEF PlanesAgree, CodeOf
  <2>6. Ended'
    BY <2>1, <2>5 DEF Ended
  <2>. QED
    BY <2>1, <2>2, <2>6 DEF PlaneInv, Fresh, Sent, Hosted, Replied
<1>. QED
  BY <1>10, <1>11

\* A call over JSON is answered with its result.
LEMMA JsonCallKeeps ==
  ASSUME PlaneInv, NEW memory \in BOOLEAN, JsonCall(memory)
  PROVE  PlaneInv'
<1>1. /\ pc = "host" /\ plane = "json"
      /\ UNCHANGED <<calls, batch, damage, user, way, input, off, out>>
  BY DEF JsonCall, collected, route
<1>2. Held /\ way.kept /\ batch # <<>> /\ input = batch
  BY <1>1 DEF PlaneInv, Sent
<1>3. user = "backend" /\ damage = 0 /\ Len(calls) = 1 /\ calls[1].command = TransformCmd
  BY <1>1 DEF PlaneInv, Sent
<1>4. calls[1] \in CallSet /\ DOMAIN calls = 1..1
  <2>1. Collecting
    BY <1>2 DEF Held
  <2>2. 1 \in 1..1
    OBVIOUS
  <2>. QED
    BY <1>3, <2>1, <2>2, CallCount
<1>5. PICK r : r = calls[1]
  OBVIOUS
<1>6. IsRequestBody(r)
  <2>1. /\ r.sequence \in Int /\ r.values \in Seq(Int32) /\ r.multiplier \in Int32
        /\ r.offset \in Int32 /\ Len(r.values) <= MaxValues
    BY <1>4, <1>5, Sizes DEF CallSet
  <2>2. Len(r.values) \in 0..MaxValues
    BY <2>1, LenProperties, Sizes
  <2>. QED
    BY <2>1, <2>2 DEF IsRequestBody
<1>7. PICK c, a : c = CommandCode(r, memory) /\ a = FfiResult(r)
  OBVIOUS
<1>8. /\ c \in {"OK", "OUT_OF_MEMORY"}
      /\ a.values \in Seq(Int32) /\ Len(a.values) = Len(r.values)
      /\ a.checksum \in 0..Word - 1 /\ RightResult(r, a)
  BY <1>6, <1>7, Calculated
<1>9. ResultCode(a, Len(r.values)) = "OK"
  BY <1>8, ResultAccepted
<1>10. /\ starved' = (c = "OUT_OF_MEMORY")
       /\ End(IF c = "OK" THEN ResultCode(a, Len(r.values)) ELSE c, <<a>>)
  BY <1>5, <1>7 DEF JsonCall
<1>11. /\ pc' = "done" /\ code' = c
       /\ c = "OK" => answers' = <<a>> /\ starved' = FALSE
       /\ c # "OK" => starved' = TRUE
  BY <1>8, <1>9, <1>10 DEF End
<1>12. Held'
  BY <1>1, <1>2, StillHolding
<1>13. code' = "OK" => ScanFrames(input').code = "OK"
  BY <1>1, <1>2, <1>3, BatchScans
<1>14. code' = "OK" => AnsweredRight'
  <2>1. SUFFICES ASSUME c = "OK" PROVE AnsweredRight'
    BY <1>11
  <2>2. answers' = <<a>> /\ DOMAIN <<a>> = 1..1 /\ <<a>>[1] = a
    BY <1>11, <2>1
  <2>3. user' = "backend" /\ DOMAIN calls' = 1..1 /\ calls'[1] = r
    BY <1>1, <1>3, <1>4, <1>5
  <2>4. \A i \in 1..1 : i = 1
    OBVIOUS
  <2>5. \A i \in 1..1 : RightResult(calls'[i], answers'[i])
    BY <1>8, <2>2, <2>3, <2>4
  <2>. QED
    BY <2>2, <2>3, <2>5 DEF AnsweredRight
<1>15. PlanesAgree'
  <2>1. plane' = "json"
    BY <1>1 DEF plane
  <2>2. code' = "OK" => DOMAIN answers' = DOMAIN calls'
    BY <1>14 DEF AnsweredRight
  <2>. QED
    BY <1>8, <1>11, <2>1, <2>2 DEF PlanesAgree, CodeOf
<1>16. Ended'
  BY <1>13, <1>14, <1>15 DEF Ended
<1>. QED
  BY <1>11, <1>12, <1>16 DEF PlaneInv, Fresh, Sent, Hosted, Replied

\* A reply that is damaged is still made of bytes.
LEMMA DamageReplyKeeps ==
  ASSUME PlaneInv, DamageReply
  PROVE  PlaneInv'
<1>1. /\ pc = "reply" /\ Len(out) \in 1..MaxLength /\ out' \in Damaged(out)
      /\ damage' = damage + 1
      /\ UNCHANGED <<pc, calls, batch, user, way, input, off, starved, code, answers>>
  BY DEF DamageReply, collected, route
<1>2. Held /\ Sent /\ Replied
  BY DEF PlaneInv
<1>3. Held'
  BY <1>1, <1>2, StillHolding
<1>4. damage' # 0
  BY <1>1, <1>2 DEF Held
<1>5. plane # "json" /\ plane' = plane
  BY <1>1, <1>2 DEF Sent, plane
<1>6. Sent'
  BY <1>1, <1>2, <1>5 DEF Sent
<1>7. out' \in Buffers /\ out # <<>>
  <2>1. out \in Buffers
    BY <1>1, <1>2 DEF Replied
  <2>2. out # <<>>
    BY <1>1, NoBytes
  <2>. QED
    BY <1>1, <2>1, <2>2, StillBytes
<1>8. Replied'
  BY <1>1, <1>2, <1>4, <1>7 DEF Replied
<1>. QED
  BY <1>1, <1>3, <1>6, <1>8 DEF PlaneInv, Fresh, Hosted, Ended

\* What comes back undamaged is taken, and each call gets its own answer.
LEMMA ReceiveKeeps ==
  ASSUME PlaneInv, Receive
  PROVE  PlaneInv'
<1>1. /\ pc = "reply"
      /\ UNCHANGED <<calls, batch, damage, user, way, input, off, out, starved>>
  BY DEF Receive, collected, route
<1>2. Held /\ Sent /\ Replied
  BY DEF PlaneInv
<1>3. Held'
  BY <1>1, <1>2, StillHolding
<1>4. /\ user \in {"backend", "bridge"} /\ plane \in {"scheme", "port", "invoke"}
      /\ user = "backend" => Len(calls) = 1 /\ calls[1].command = TransformCmd
      /\ batch # <<>> /\ input = IF way.kept THEN batch ELSE <<>>
      /\ out \in Buffers /\ input # <<>> /\ ScanFrames(input).code = "OK"
      /\ starved \in BOOLEAN /\ (starved => plane = "port" /\ out = <<>>)
      /\ damage = 0 /\ ~starved => Answered(input, Len(input), out)
  BY <1>1, <1>2 DEF Sent, Replied
<1>5. PICK uc : uc = (IF user = "backend" THEN BackendCode ELSE BridgeCode)
  OBVIOUS
<1>6. PICK A, B : /\ A = <<plane = "port" /\ PortCode # "OK", Uncoded(user)>>
                  /\ B = Passed(uc)
  OBVIOUS
<1>7. PICK c : c = Verdict(<<A, B>>)
  OBVIOUS
<1>8. PICK results : results = (IF user = "backend" THEN <<Response(out)>>
                        ELSE [i \in Found |-> FrameAt(out, Max(Matching(calls[i])))])
  OBVIOUS
<1>9. End(c, results)
  BY <1>5, <1>6, <1>7, <1>8 DEF Receive
<1>10. pc' = "done" /\ code' = c /\ (c = "OK" => answers' = results)
  BY <1>9 DEF End
<1>11. c = IF A[1] THEN A[2] ELSE IF B[1] THEN B[2] ELSE "OK"
  BY <1>7, ShortLists
<1>12. plane' = plane
  BY <1>1 DEF plane
<1>13. CASE damage # 0
  <2>1. PlanesAgree'
    BY <1>1, <1>13 DEF PlanesAgree
  <2>2. Ended'
    BY <1>1, <1>4, <1>13, <2>1 DEF Ended
  <2>. QED
    BY <1>3, <1>10, <2>2 DEF PlaneInv, Fresh, Sent, Hosted, Replied
<1>14. CASE damage = 0 /\ starved
  <2>1. PortCode # "OK"
    <3>1. PICK C, D :
            /\ C = <<ScanFrames(out).code # "OK" \/ ScanFrames(out).frames = <<>>, "UNCODED">>
            /\ D = <<FirstSequence(out) # FirstSequence(input), "UNCODED">>
      OBVIOUS
    <3>2. PortCode = Verdict(<<C, D>>)
      BY <3>1 DEF PortCode
    <3>3. ScanFrames(<<>>).frames = <<>>
      <4>1. PICK m : m = [i \in 1..1 |-> 0]
        OBVIOUS
      <4>2. m \in [1..0 + 1 -> Nat] /\ m[1] = 0 /\ m[0 + 1] = 0 /\ Len(<<>>) = 0 /\ <<>> \in Buffers
        BY <4>1, NoBytes
      <4>3. Row(<<>>, m, 0)
        BY <4>2 DEF Row
      <4>4. PICK s : s = [i \in 1..0 |-> m[i]]
        OBVIOUS
      <4>5. ScanFrames(<<>>) = [code |-> "OK", frames |-> s]
        BY <4>2, <4>3, <4>4, RowScanned
      <4>6. s = <<>>
        BY <4>4
      <4>. QED
        BY <4>5, <4>6
    <3>4. C[1] /\ C[2] = "UNCODED"
      BY <1>4, <1>14, <3>1, <3>3
    <3>. QED
      BY <3>2, <3>4, ShortLists
  <2>2. A[1] /\ A[2] = Uncoded(user) /\ plane = "port"
    BY <1>4, <1>6, <1>14, <2>1
  <2>3. c \in {"TRANSPORT_ERROR", "UNCODED"}
    BY <1>11, <2>2 DEF Uncoded
  <2>4. PlanesAgree'
    BY <1>1, <1>10, <1>12, <1>14, <2>2, <2>3 DEF PlanesAgree, CodeOf
  <2>5. Ended'
    BY <1>10, <2>3, <2>4 DEF Ended
  <2>. QED
    BY <1>3, <1>10, <2>5 DEF PlaneInv, Fresh, Sent, Hosted, Replied
<1>15. CASE damage = 0 /\ ~starved
  <2>1. /\ input = batch /\ Answered(batch, Len(batch), out)
        /\ Collecting /\ batch \in Buffers
    BY <1>2, <1>4, <1>15 DEF Held
  <2>2. PICK m : Asks(m)
    BY <1>2, <1>15 DEF Held
  <2>3. PICK l : Told(l)
    BY <1>4, <2>1, <2>2, RepliesTold
  <2>4. PICK n \in Nat : n = Len(calls) /\ DOMAIN calls = 1..n
    BY <2>1, CallCount
  <2>5. n # 0
    <3>1. SUFFICES ASSUME n = 0 PROVE FALSE
      OBVIOUS
    <3>2. m[1] = 0 /\ m[n + 1] = Len(batch)
      BY <2>2, <2>4 DEF Asks, Full
    <3>3. Len(batch) = 0
      BY <3>1, <3>2
    <3>4. batch = <<>>
      BY <2>1, <3>3, EmptySeq DEF Buffers
    <3>. QED
      BY <1>4, <3>4
  <2>6. /\ PortCode = "OK" /\ BridgeCode = "OK" /\ Found = DOMAIN calls
        /\ FirstSequence(out) = calls[1].sequence
    BY <1>4, <2>1, <2>2, <2>3, <2>4, <2>5, ReplyTaken
  <2>7. user = "backend" => BackendCode = "OK" /\ RightResult(calls[1], Response(out))
    BY <1>4, <2>1, <2>3, <2>6, BackendTakes
  <2>8. c = "OK"
    <3>1. uc = "OK"
      BY <1>4, <1>5, <2>6, <2>7
    <3>2. ~A[1]
      BY <1>6, <2>6
    <3>3. ~B[1]
      BY <1>6, <3>1 DEF Passed
    <3>. QED
      BY <1>11, <3>2, <3>3
  <2>9. AnsweredRight'
    <3>1. answers' = results /\ calls' = calls /\ user' = user
      BY <1>1, <1>10, <2>8
    <3>2. CASE user = "backend"
      <4>1. PICK r, a : r = calls[1] /\ a = Response(out)
        OBVIOUS
      <4>2. answers' = <<a>> /\ DOMAIN <<a>> = 1..1 /\ <<a>>[1] = a
        BY <1>8, <3>1, <3>2, <4>1
      <4>3. DOMAIN calls = 1..1
        BY <1>4, <2>4, <3>2
      <4>4. RightResult(r, a)
        BY <2>7, <3>2, <4>1
      <4>5. \A i \in 1..1 : i = 1
        OBVIOUS
      <4>6. \A i \in 1..1 : RightResult(calls'[i], answers'[i])
        BY <3>1, <4>1, <4>2, <4>4, <4>5
      <4>. QED
        BY <3>1, <3>2, <4>2, <4>3, <4>6 DEF AnsweredRight
    <3>3. CASE user # "backend"
      <4>1. answers' = [i \in 1..n |-> FrameAt(out, Max(Matching(calls[i])))]
        BY <1>8, <2>4, <2>6, <3>1, <3>3
      <4>2. ASSUME NEW i \in 1..n
            PROVE  RightFrame(calls[i].command, calls[i].sequence, calls[i], answers'[i])
        <5>1. Max(Matching(calls[i])) = l[i]
          BY <1>4, <2>1, <2>3, <2>4, <2>5, OneMatches
        <5>2. RightFrame(calls[i].command, calls[i].sequence, calls[i], FrameAt(out, l[i]))
          BY <2>3, <2>4 DEF Told
        <5>3. answers'[i] = FrameAt(out, l[i])
          BY <4>1, <5>1
        <5>. QED
          BY <5>2, <5>3
      <4>3. DOMAIN answers' = 1..n
        BY <4>1
      <4>. QED
        BY <2>4, <3>1, <3>3, <4>2, <4>3 DEF AnsweredRight
    <3>. QED
      BY <3>2, <3>3
  <2>10. PlanesAgree'
    <3>1. DOMAIN answers' = DOMAIN calls'
      BY <2>9 DEF AnsweredRight
    <3>. QED
      BY <1>1, <1>10, <1>15, <2>8, <3>1 DEF PlanesAgree, CodeOf
  <2>11. Ended'
    BY <1>1, <1>4, <2>9, <2>10 DEF Ended
  <2>. QED
    BY <1>3, <1>10, <2>11 DEF PlaneInv, Fresh, Sent, Hosted, Replied
<1>. QED
  BY <1>4, <1>13, <1>14, <1>15

\* An end is an end.
LEMMA StepsKeep == PlaneInv /\ [Next]_vars => PlaneInv'
<1>1. SUFFICES ASSUME PlaneInv, [Next]_vars PROVE PlaneInv'
  OBVIOUS
<1>2. CASE UNCHANGED vars
  BY <1>1, <1>2 DEF vars, collected, route, PlaneInv, Held, Collecting, Asks, Fresh, Sent,
     Hosted, Replied, Ended, AnsweredRight, PlanesAgree, CodeOf, plane
<1>3. ASSUME NEW r \in Inputs, Submit(r) PROVE PlaneInv'
  BY <1>1, <1>3, SubmitKeeps
<1>4. CASE SubmitInfo
  BY <1>1, <1>4, SubmitInfoKeeps
<1>5. CASE DamageRequest \/ \E bytes \in Foreign : SubmitForeign(bytes)
  BY <1>1, <1>5, DamageKeeps
<1>6. ASSUME NEW w \in Ways, SendBundle(w) PROVE PlaneInv'
  BY <1>1, <1>6, SendBundleKeeps
<1>7. ASSUME NEW p \in {"json", "scheme", "port"}, NEW memory \in BOOLEAN, SendCall(p, memory)
      PROVE  PlaneInv'
  BY <1>1, <1>7, SendCallKeeps
<1>8. CASE HostRefusesEmpty
  BY <1>1, <1>8, RefusesEmptyKeeps
<1>9. ASSUME NEW memory \in BOOLEAN, HostFrame(memory) PROVE PlaneInv'
  BY <1>1, <1>9, HostFrameKeeps
<1>10. CASE HostDone \/ InvokeDone
  BY <1>1, <1>10, DoneKeeps
<1>11. ASSUME NEW memory \in BOOLEAN, JsonCall(memory) PROVE PlaneInv'
  BY <1>1, <1>11, JsonCallKeeps
<1>12. ASSUME NEW memory \in BOOLEAN, InvokeFrame(memory) PROVE PlaneInv'
  BY <1>1, <1>12, InvokeFrameKeeps
<1>13. CASE DamageReply
  BY <1>1, <1>13, DamageReplyKeeps
<1>14. CASE Receive
  BY <1>1, <1>14, ReceiveKeeps
<1>. QED
  BY <1>1, <1>2, <1>3, <1>4, <1>5, <1>6, <1>7, <1>8, <1>9, <1>10, <1>11, <1>12, <1>13, <1>14
     DEF Next

-----------------------------------------------------------------------------
(* The invariants of the data plane. *)

\* Rows of answers are what the scans find.
LEMMA InvariantAnswers == PlaneInv => AnswersAreRight
<1>1. SUFFICES ASSUME PlaneInv PROVE AnswersAreRight
  OBVIOUS
<1>2. ASSUME pc = "host", off = Len(input)
      PROVE  LET asked == ScanFrames(input)  replied == ScanFrames(out)
             IN /\ asked.code = "OK" /\ replied.code = "OK"
                /\ DOMAIN asked.frames = DOMAIN replied.frames
                /\ \A i \in DOMAIN asked.frames :
                     LET f == FrameAt(input, asked.frames[i])
                     IN RightFrame(Header(f, 0).command, Header(f, 0).sequence, Request(f),
                                   FrameAt(out, replied.frames[i]))
  <2>1. input \in Buffers /\ out \in Buffers /\ Answered(input, Len(input), out)
    BY <1>1, <1>2, Hosting
  <2>2. PICK m, l, n : Answers(input, m, out, l, n) /\ Len(input) = m[n + 1]
    BY <2>1 DEF Answered
  <2>3. PICK s, t : s = [i \in 1..n |-> m[i]] /\ t = [i \in 1..n |-> l[i]]
    OBVIOUS
  <2>4. /\ Row(input, m, n) /\ m[1] = 0 /\ m[n + 1] = Len(input)
        /\ Row(out, l, n) /\ l[1] = 0 /\ l[n + 1] = Len(out)
        /\ \A i \in 1..n : Right(FrameAt(input, m[i]), FrameAt(out, l[i]))
    BY <2>2 DEF Answers, Full
  <2>5. /\ ScanFrames(input) = [code |-> "OK", frames |-> s]
        /\ ScanFrames(out) = [code |-> "OK", frames |-> t]
    BY <2>1, <2>3, <2>4, RowScanned
  <2>6. DOMAIN s = 1..n /\ DOMAIN t = 1..n /\ \A i \in 1..n : s[i] = m[i] /\ t[i] = l[i]
    BY <2>3
  <2>7. \A i \in 1..n : Right(FrameAt(input, s[i]), FrameAt(out, t[i]))
    BY <2>4, <2>6
  <2>. QED
    BY <2>5, <2>6, <2>7 DEF Right
<1>3. ASSUME pc = "done", NEW i \in DOMAIN calls, CodeOf(i) = "OK"
      PROVE  /\ ScanFrames(input).code = "OK"
             /\ damage = 0 =>
                  IF user = "backend" THEN RightResult(calls[i], answers[i])
                  ELSE RightFrame(calls[i].command, calls[i].sequence, calls[i], answers[i])
  <2>1. code = "OK"
    BY <1>3 DEF CodeOf
  <2>. QED
    BY <1>1, <1>3, <2>1 DEF PlaneInv, Ended, AnsweredRight
<1>. QED
  BY <1>1, <1>2, <1>3 DEF AnswersAreRight

\* Buffers are all that the decoders need to know.
LEMMA InvariantDecodes == PlaneInv => DecodersAgree
<1>1. SUFFICES ASSUME PlaneInv PROVE DecodersAgree
  OBVIOUS
<1>2. batch \in Buffers /\ (pc = "reply" => out \in Buffers)
  BY <1>1 DEF PlaneInv, Held, Replied
<1>3. ASSUME NEW b \in Buffers PROVE DecodedAlike(b) /\ Canonical(b)
  BY AllDecodedAlike, RequestRewritten, ResponseRewritten, InfoRewritten DEF Canonical
<1>4. ASSUME NEW n \in 0..MaxValues + 1, NEW flags \in 0..4 * CompressedFlag,
             NEW room \in {0, WireSize, WireSize + 11 + 4 * n, WireSize + 12 + 4 * n}
      PROVE  EncodedAlike([sequence |-> FirstId, multiplier |-> -1, offset |-> IntMin,
                           values |-> [i \in 1..n |-> IntMax]], flags, room)
  <2>1. PICK v : v = [i \in 1..n |-> IntMax]
    OBVIOUS
  <2>2. n \in Nat /\ flags \in Nat /\ room \in Nat
    BY Sizes DEF CompressedFlag, WireSize
  <2>3. IntMax \in Int32 /\ IntMin \in Int32 /\ -1 \in Int32 /\ FirstId \in Int
    BY Sizes, PlaneAssumption DEF Int32
  <2>4. v \in Seq(Int32)
    BY <2>1, <2>2, <2>3, IsASeq
  <2>5. PICK r : r = [sequence |-> FirstId, multiplier |-> -1, offset |-> IntMin, values |-> v]
    OBVIOUS
  <2>6. /\ r.values \in Seq(Int32) /\ r.multiplier \in Int32 /\ r.offset \in Int32
        /\ r.sequence \in Int
    BY <2>3, <2>4, <2>5
  <2>7. EncodedAlike(r, flags, room)
    BY <2>2, <2>6, AllEncodedAlike
  <2>. QED
    BY <2>1, <2>5, <2>7
<1>. QED
  BY <1>2, <1>3, <1>4 DEF DecodersAgree

\* PlaneInv is an invariant.
LEMMA InvariantHolds == Spec => []PlaneInv
  BY StartsRight, StepsKeep, PTL DEF Spec

\* A caller that is told OK has the saturated values and the checksum of its own
\* numbers: through the encoder of the page, every plane, the host, any place in a
\* bundle and the matching of replies; and a batch with a damaged frame is not
\* answered in part.
THEOREM AnswersRight == Spec => []AnswersAreRight
  BY InvariantHolds, InvariantAnswers, PTL

\* A call that the page validated is answered on every plane that createFastTauriTransport
\* or createBridgeTransport can choose, unless memory runs out or an unprobed URL loses
\* bodies; and where the plane can carry a code, the caller learns that memory ran out.
THEOREM PlanesAlike == Spec => []PlanesAgree
<1>1. PlaneInv => PlanesAgree
  BY DEF PlaneInv, Ended, PlanesAgree
<1>. QED
  BY <1>1, InvariantHolds, PTL

\* Whatever was done to the bytes, the decoders of wire.ts, core_wire.h and wire.rs take
\* the same ones and refuse the others with the same code (but for the known
\* differences), a decoded frame is the encoding of what it says, and the encoders
\* refuse the same requests.
THEOREM DecodersAlike == Spec => []DecodersAgree
  BY InvariantHolds, InvariantDecodes, PTL
=============================================================================
