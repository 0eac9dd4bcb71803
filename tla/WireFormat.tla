----------------------------- MODULE WireFormat -----------------------------
(***************************************************************************)
(* Wire Format v1 and its three implementations: packages/api/wire.ts,     *)
(* packages/core/include/core_wire.h and packages/ffi/src/wire.rs.         *)
(*                                                                         *)
(* A buffer is a sequence of bytes, read at offsets that count from zero.  *)
(* A byte has Base values, so that a u16 has Base^2 and a u32 Base^4; the  *)
(* code has Base = 256, TLC a small one.  A check is a pair of a condition *)
(* and the code it refuses with; a function of the code is the list of its *)
(* checks in their order, and a refusal is the first that holds.           *)
(***************************************************************************)
EXTENDS Integers, SequencesExt

CONSTANTS Base,           \* values of a byte
          Magic,          \* WIRE_MAGIC
          MaxValues,      \* WIRE_MAX_VALUES
          MaxPayload,     \* WIRE_MAX_PAYLOAD
          MaxVersionLen   \* WIRE_MAX_VERSION_LEN

Half == Base * Base
Word == Half * Half
IntMax == Word \div 2 - 1
IntMin == -(Word \div 2)
Int32 == IntMin..IntMax

ASSUME WireAssumption ==
  /\ Base \in Nat /\ Base >= 4 /\ Base % 2 = 0
  /\ Magic \in 0..Half - 1
  /\ MaxValues \in Nat \ {0}
  /\ MaxPayload \in 12 + 4 * MaxValues .. Word - 1
  /\ MaxVersionLen \in 1..MaxPayload - 8

WireSize == 16
GetInfoCmd == 1
TransformCmd == 2
ErrorFlag == 1
ContinuedFlag == 2
CompressedFlag == 4

Has(flags, flag) == (flags \div flag) % 2 = 1
HeaderFlags(flags) == flags < 2 * CompressedFlag

-----------------------------------------------------------------------------
\* Little-endian fields.  Beyond the end a read gives 0, as it does in
\* JavaScript; the checks keep every implementation from doing it.
At(b, i) == IF i < Len(b) THEN b[i + 1] ELSE 0
ReadU16LE(b, o) == At(b, o) + Base * At(b, o + 1)
ReadU32LE(b, o) == ReadU16LE(b, o) + Half * ReadU16LE(b, o + 2)
Signed(u) == IF u > IntMax THEN u - Word ELSE u
ReadI32LE(b, o) == Signed(ReadU32LE(b, o))
WriteU16LE(v) == <<v % Base, (v \div Base) % Base>>
WriteU32LE(v) == WriteU16LE(v) \o WriteU16LE(v \div Half)

\* The i-th value is written at offset 4 * (i - 1).
WriteI32s(values) ==
  [k \in 1..4 * Len(values) |->
     LET i == (k - 1) \div 4 IN WriteU32LE(values[i + 1])[k - 4 * i]]
Ints(b, o, n) == [i \in 1..n |-> ReadI32LE(b, o + 4 * (i - 1))]
View(b, o, n) == SubSeq(b, o + 1, o + n)

\* The code of the first check that holds.
Verdict(checks) ==
  LET failed == {i \in DOMAIN checks : checks[i][1]}
  IN IF failed = {} THEN "OK" ELSE checks[Min(failed)][2]

-----------------------------------------------------------------------------
(* The header. *)

Header(b, o) == [command |-> ReadU16LE(b, o + 2), flags |-> ReadU16LE(b, o + 4),
                 sequence |-> ReadU16LE(b, o + 6), payloadLen |-> ReadU32LE(b, o + 8)]

Short(b, o) == <<Len(b) < o + WireSize, "SMALL">>
NoMagic(b, o) == <<ReadU16LE(b, o) # Magic, "MAGIC">>
NoCommand(b, o) == <<Header(b, o).command \notin {GetInfoCmd, TransformCmd}, "INVALID">>
NoFlags(b, o) == <<~HeaderFlags(Header(b, o).flags), "INVALID">>
TooLong(b, o) == <<Header(b, o).payloadLen > MaxPayload, "LIMIT">>
Reserved(b, o) == <<ReadU32LE(b, o + 12) # 0, "INVALID">>

\* Mutant: the check of the reserved word is forgotten.
TsHeaderUnreserved(b, o) ==
  Verdict(<<Short(b, o), NoMagic(b, o), NoCommand(b, o), NoFlags(b, o), TooLong(b, o)>>)

TsHeader(b, o) ==
  Verdict(<<Short(b, o), NoMagic(b, o), NoCommand(b, o), NoFlags(b, o),
            TooLong(b, o), Reserved(b, o)>>)

\* The header in C looks at the reserved word before the length.
CHeader(b, o) ==
  Verdict(<<Short(b, o), NoMagic(b, o), NoCommand(b, o), NoFlags(b, o),
            Reserved(b, o), TooLong(b, o)>>)

RsHeader(b, o) ==
  Verdict(<<Short(b, o), NoMagic(b, o), NoCommand(b, o), NoFlags(b, o),
            TooLong(b, o), Reserved(b, o)>>)

FrameLen(b, o) == WireSize + Header(b, o).payloadLen
Passed(code) == LET c == code IN <<c # "OK", c>>
Truncated(b, o) == <<Len(b) < o + FrameLen(b, o), "SMALL">>

TsNextFrame(b, o) == Verdict(<<Passed(TsHeader(b, o)), Truncated(b, o)>>)
CNextFrame(b, o) == Verdict(<<Passed(CHeader(b, o)), TooLong(b, o), Truncated(b, o)>>)
RsNextFrame(b, o) == Verdict(<<Passed(RsHeader(b, o)), TooLong(b, o), Truncated(b, o)>>)

\* Every frame of a batch, with its offset, up to the first that is refused.
ScanFrames(b) ==
  LET from[o \in 0..Len(b)] ==
        LET code == TsNextFrame(b, o)
        IN IF o = Len(b) THEN [code |-> "OK", frames |-> <<>>]
           ELSE IF code # "OK" THEN [code |-> code, frames |-> <<>>]
           ELSE LET rest == from[o + FrameLen(b, o)]
                IN [rest EXCEPT !.frames = <<o>> \o @]
  IN from[0]

FrameAt(b, o) == View(b, o, FrameLen(b, o))

-----------------------------------------------------------------------------
(* The three payloads.  A decoded frame is a record with its code. *)

IsWhole(f) == <<FrameLen(f, 0) # Len(f), "INVALID">>
IsOf(f, command) == <<Header(f, 0).command # command, "INVALID">>
Carries(f, flags) == <<\E flag \in flags : Has(Header(f, 0).flags, flag), "INVALID">>

\* The count of values against the length of the payload.
CountFits(f, fixed) ==
  LET size == Len(f) - WireSize  count == ReadU32LE(f, WireSize)
  IN << <<size < fixed \/ (size - fixed) % 4 # 0, "INVALID">>,
        <<count > MaxValues, "LIMIT">>,
        <<size # fixed + 4 * count, "INVALID">> >>

RequestChecks(f) ==
  <<IsWhole(f), IsOf(f, TransformCmd), Carries(f, {ErrorFlag, CompressedFlag})>>
  \o CountFits(f, 12)
ResponseChecks(f) ==
  <<IsWhole(f), IsOf(f, TransformCmd), Carries(f, {CompressedFlag})>>
  \o CountFits(f, 8)

TsRequestCode(f) == Verdict(<<Passed(TsNextFrame(f, 0))>> \o RequestChecks(f))
CRequestCode(f) == Verdict(<<Passed(CNextFrame(f, 0))>> \o RequestChecks(f))
RsRequestCode(f) == Verdict(<<Passed(RsNextFrame(f, 0))>> \o RequestChecks(f))
TsResponseCode(f) == Verdict(<<Passed(TsNextFrame(f, 0))>> \o ResponseChecks(f))
CResponseCode(f) == Verdict(<<Passed(CNextFrame(f, 0))>> \o ResponseChecks(f))
RsResponseCode(f) == Verdict(<<Passed(RsNextFrame(f, 0))>> \o ResponseChecks(f))

Request(f) == [sequence |-> Header(f, 0).sequence,
               multiplier |-> ReadI32LE(f, WireSize + 4),
               offset |-> ReadI32LE(f, WireSize + 8),
               values |-> Ints(f, WireSize + 12, ReadU32LE(f, WireSize))]
Response(f) == [sequence |-> Header(f, 0).sequence,
                checksum |-> ReadU32LE(f, WireSize + 4),
                values |-> Ints(f, WireSize + 8, ReadU32LE(f, WireSize))]

\* UTF-8 never contains the highest byte; other bytes are taken as they come.
NoUtf8(bytes) == <<\E i \in DOMAIN bytes : bytes[i] = Base - 1, "INVALID">>
HasNul(bytes) == <<\E i \in DOMAIN bytes : bytes[i] = 0, "INVALID">>
BadVersionLen(n) == <<n = 0 \/ n > MaxVersionLen, "INVALID">>

InfoVersion(f) == View(f, WireSize + 8, Len(f) - WireSize - 8)
InfoChecks(f) ==
  LET n == ReadU32LE(f, WireSize + 4)
  IN <<IsWhole(f), IsOf(f, GetInfoCmd), Carries(f, {ErrorFlag}),
       <<Len(f) - WireSize < 8, "INVALID">>, BadVersionLen(n),
       <<Len(f) - WireSize # 8 + n, "INVALID">>, HasNul(InfoVersion(f))>>
TsInfoCode(f) == Verdict(<<Passed(TsNextFrame(f, 0))>> \o InfoChecks(f)
                         \o <<NoUtf8(InfoVersion(f))>>)
RsInfoCode(f) == Verdict(<<Passed(RsNextFrame(f, 0))>> \o InfoChecks(f))
Info(f) == [sequence |-> Header(f, 0).sequence, abi |-> ReadU32LE(f, WireSize),
            version |-> InfoVersion(f)]

-----------------------------------------------------------------------------
(* Encoders: the code of a refusal, or the frame in the room that is left. *)

RequestSize(r) == 12 + 4 * Len(r.values)
ResponseSize(r) == 8 + 4 * Len(r.values)

EncodedHeader(command, flags, sequence, size) ==
  WriteU16LE(Magic) \o WriteU16LE(command) \o WriteU16LE(flags)
  \o WriteU16LE(sequence) \o WriteU32LE(size) \o WriteU32LE(0)

RequestFrame(r, flags) ==
  EncodedHeader(TransformCmd, flags, r.sequence, RequestSize(r))
  \o WriteU32LE(Len(r.values)) \o WriteU32LE(r.multiplier) \o WriteU32LE(r.offset)
  \o WriteI32s(r.values)
ResponseFrame(r) ==
  EncodedHeader(TransformCmd, 0, r.sequence, ResponseSize(r))
  \o WriteU32LE(Len(r.values)) \o WriteU32LE(r.checksum)
  \o WriteI32s(r.values)
InfoFrame(i) ==
  EncodedHeader(GetInfoCmd, 0, i.sequence, 8 + Len(i.version))
  \o WriteU32LE(i.abi) \o WriteU32LE(Len(i.version)) \o i.version
InfoRequestFrame(sequence) == EncodedHeader(GetInfoCmd, 0, sequence, 0)

ManyValues(r) == <<Len(r.values) > MaxValues, "LIMIT">>
NoRequestFlags(flags) == <<flags \notin {0, ContinuedFlag}, "INVALID">>
NoRoom(size, room) == <<WireSize + size > room, "SMALL">>
HeaderRefusal(command, flags, size, room) ==
  Verdict(<< <<command \notin {GetInfoCmd, TransformCmd}, "INVALID">>,
             <<~HeaderFlags(flags), "INVALID">>,
             <<size > MaxPayload, "LIMIT">>, <<room < WireSize, "SMALL">> >>)

\* TypeScript looks at the flags before the count, C and Rust after it.
TsRequestRefusal(r, flags, room) ==
  Verdict(<<NoRequestFlags(flags), ManyValues(r), NoRoom(RequestSize(r), room),
            Passed(HeaderRefusal(TransformCmd, flags, RequestSize(r), room))>>)
CRequestRefusal(r, flags, room) ==
  Verdict(<<ManyValues(r), NoRequestFlags(flags), NoRoom(RequestSize(r), room),
            Passed(HeaderRefusal(TransformCmd, flags, RequestSize(r), room))>>)
RsRequestRefusal(r, flags, room) ==
  Verdict(<<ManyValues(r), NoRequestFlags(flags), <<RequestSize(r) > MaxPayload, "LIMIT">>,
            NoRoom(RequestSize(r), room),
            Passed(HeaderRefusal(TransformCmd, flags, RequestSize(r), room))>>)
ResponseRefusal(r, room) ==
  Verdict(<<ManyValues(r), NoRoom(ResponseSize(r), room),
            Passed(HeaderRefusal(TransformCmd, 0, ResponseSize(r), room))>>)
InfoRefusal(i, room) ==
  Verdict(<<BadVersionLen(Len(i.version)), HasNul(i.version),
            NoRoom(8 + Len(i.version), room),
            Passed(HeaderRefusal(GetInfoCmd, 0, 8 + Len(i.version), room))>>)
=============================================================================
