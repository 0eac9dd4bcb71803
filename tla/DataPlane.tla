----------------------------- MODULE DataPlane -----------------------------
(***************************************************************************)
(* The way of a request through the native program and back: a call is     *)
(* validated and encoded in the page, carried by one of the data planes    *)
(* (JSON invoke, `corebin:' scheme, WebMessagePort, or frames translated   *)
(* to invokes), decoded, calculated and answered by the host               *)
(* (src-tauri/src/batch.rs), and the reply is checked in the page.         *)
(*                                                                         *)
(* One send is followed.  It is either a transform() of TauriBackend or a  *)
(* bundle of BatchingBridge.  Bytes may be damaged on the way out or back, *)
(* the host may run out of memory, a WebView may drop the body of a POST.  *)
(***************************************************************************)
EXTENDS CoreTransform

CONSTANTS Inputs,      \* what callers pass to transform()
          Foreign,     \* other byte strings handed to a transport
          FirstId,     \* the request id of the first call
          MaxCalls,    \* bound: calls in a bundle
          MaxLength,   \* bound: bytes of what is damaged
          MaxDamage    \* bound: bytes damaged

\* Foreign bytes count as damaged, and no bundle holds two calls of one number: the
\* batcher keeps less than 2^16 frames (64 by default).
ASSUME PlaneAssumption ==
  /\ \A r \in Inputs : IsRequest(r)
  /\ Foreign \subseteq Seq(0..Base - 1)
  /\ FirstId \in Nat
  /\ MaxCalls \in 0..Half /\ MaxDamage \in Nat \ {0}

VARIABLES pc,        \* "collect", "host", "reply" or "done"
          request,   \* the argument of the last call
          calls,     \* accepted calls
          batch,     \* their bytes
          damage,    \* how often bytes were damaged
          user,      \* who sends: "backend" or "bridge"
          way,       \* the data plane, and of a scheme whether its URL was
                     \* not probed and whether bodies arrive
          input,     \* the bytes the host was given
          off,       \* how far it has read them
          out,       \* the bytes of its reply
          starved,   \* whether memory ran out
          code,      \* the error code of all callers, or "OK"
          answers    \* of "OK": the results of the calls that have one

collected == <<request, calls, batch>>
plane == way.plane
route == <<user, way>>
vars == <<pc, collected, damage, route, input, off, out, starved, code, answers>>

NoRequest == [plain |-> FALSE, own |-> <<>>]

Init ==
  /\ pc = "collect" /\ request = NoRequest
  /\ calls = <<>> /\ batch = <<>> /\ damage = 0
  /\ user = "none" /\ way = [plane |-> "none", pinned |-> FALSE, kept |-> TRUE]
  /\ input = <<>> /\ off = 0 /\ out = <<>>
  /\ starved = FALSE /\ code = "OK" /\ answers = <<>>

\* The caller is told: a code, and the results if it is "OK".
End(c, results) ==
  /\ pc' = "done" /\ code' = c
  /\ answers' = IF c = "OK" THEN results ELSE <<>>

-----------------------------------------------------------------------------
(* What the host makes of a frame, and the page of its reach. *)

\* A wire error that is not about a limit is an invalid argument.
WireCode(c) == IF c = "LIMIT" THEN "LIMIT_EXCEEDED" ELSE "INVALID_ARGUMENT"

Judged(wire, ffi) ==
  IF wire # "OK" THEN [code |-> WireCode(wire), reply |-> <<>>] ELSE ffi

CoreInfo(sequence) == [sequence |-> sequence, abi |-> CoreAbi, version |-> CoreVersion]
FfiReply(r, memory) ==
  LET c == FfiCode(r.values, memory)  result == FfiResult(r)
  IN [code |-> c,
      reply |-> IF c # "OK" THEN <<>>
                ELSE ResponseFrame([sequence |-> r.sequence, values |-> result.values,
                                    checksum |-> result.checksum])]

\* append_transform and append_get_info on one frame.
ProcessFrame(frame, memory) ==
  LET h == Header(frame, 0)
  IN IF h.command = TransformCmd
     THEN Judged(RsRequestCode(frame), FfiReply(Request(frame), memory))
     ELSE Judged(IF h.payloadLen # 0 THEN "INVALID" ELSE "OK",
                 [code |-> "OK", reply |-> InfoFrame(CoreInfo(h.sequence))])

Host(frame, next, memory) == Judged(next, ProcessFrame(frame, memory))

\* Mutant: any answer to the probe will do.
ProbeHealth(kept, memory) == TRUE

\* probeSchemeUrl: one value goes through the host, if the body of a POST does.
Probe == [sequence |-> 0, values |-> <<0>>, multiplier |-> 1, offset |-> 0]
ProbeSchemeUrl(kept, memory) ==
  LET frame == RequestFrame(Probe, 0)
      done == Host(frame, RsNextFrame(frame, 0), memory)
      scanned == ScanFrames(done.reply)
  IN /\ kept /\ done.code = "OK"
     /\ scanned.code = "OK" /\ Len(scanned.frames) = 1
     /\ Header(done.reply, 0).command = TransformCmd
     /\ ~Has(Header(done.reply, 0).flags, ErrorFlag)

\* Where the probe succeeds.
Reachable == {w \in [kept : BOOLEAN, memory : BOOLEAN] : ProbeSchemeUrl(w.kept, w.memory)}

\* What decides about the transport: hooks that a native side has put on the page,
\* window.corebin, the plane the caller chose, whether it gave a URL and invoke,
\* and whether the scheme keeps bodies.
Hooks == {"shared", "direct", "handler", "port", "tauri"}
Pages == [hooks : SUBSET Hooks, port : BOOLEAN, chosen : {"none", "json", "scheme"},
          pinned : BOOLEAN, kept : BOOLEAN, invoke : BOOLEAN]
InvokeOr(page, otherwise) == IF page.invoke THEN "invoke" ELSE otherwise

\* createTauriDataTransport: without invoke there is no transport.
TauriDataPlane(page) ==
  IF page.chosen = "scheme" THEN "scheme" ELSE InvokeOr(page, "none")

\* createFastTauriTransport
FastPlane(page, memory) ==
  LET free == page.chosen = "none"
      reached == [kept |-> page.kept, memory |-> memory] \in Reachable
  IN CASE ~free -> TauriDataPlane(page)
       [] free /\ page.port -> "port"
       [] free /\ ~page.port /\ (page.pinned \/ reached) -> "scheme"
       [] free /\ ~page.port /\ ~page.pinned /\ ~reached -> InvokeOr(page, "none")

\* selectTransportKind: the first hook that collectEnv finds, as a kind.
CollectEnv(page) == page.hooks \cup (IF page.port THEN {"port"} ELSE {})
Preference == <<"shared", "direct", "handler", "port", "tauri">>
SelectTransportKind(env) ==
  IF env = {} THEN "worker" ELSE Preference[Min({i \in 1..5 : Preference[i] \in env})]

\* Nothing in the program opens the pipe that a hook stands for, so the transport of
\* such a page sends by invoke, or cannot send.
SendViaPipeOrFallback(page) == InvokeOr(page, "nowhere")

\* createBridgeTransport
BridgePlane(page) ==
  LET kind == SelectTransportKind(CollectEnv(page))
  IN CASE kind = "port" /\ page.port -> "port"
       [] kind = "port" /\ ~page.port -> SendViaPipeOrFallback(page)
       [] kind \in {"shared", "direct", "handler"} -> SendViaPipeOrFallback(page)
       [] kind = "tauri" -> TauriDataPlane(page)
       [] kind = "worker" -> "none"

\* How bytes get to the host.  Whether the URL was taken without a probe, and whether
\* bodies are kept, matters with a scheme only.
Way(p, pinned, kept) ==
  [plane |-> p, pinned |-> p = "scheme" /\ pinned, kept |-> p = "scheme" => kept]
Ways ==
  {Way(FastPlane(page, memory), page.pinned \/ page.chosen = "scheme", page.kept) :
     page \in Pages, memory \in BOOLEAN}
  \cup {Way(BridgePlane(page), TRUE, page.kept) : page \in Pages}

-----------------------------------------------------------------------------
(* In the page. *)

\* reg.id & 0xffff
Sequence == (FirstId + Len(calls)) % Half

Call(r) == [command |-> TransformCmd, sequence |-> Sequence,
            values |-> Snapshot(r).values, multiplier |-> Snapshot(r).multiplier,
            offset |-> Snapshot(r).offset]
InfoCall == [command |-> GetInfoCmd, sequence |-> Sequence, values |-> <<>>,
             multiplier |-> 0, offset |-> 0]

\* A call is refused, or its frame joins the batch.
Submit(r) ==
  /\ pc = "collect" /\ damage = 0 /\ Len(calls) < MaxCalls
  /\ request' = r
  /\ \/ /\ TsValidate(r) = "OK"
        /\ calls' = Append(calls, Call(r))
        /\ batch' = batch \o RequestFrame(Call(r), 0)
        /\ UNCHANGED <<pc, code, answers>>
     \/ /\ TsValidate(r) # "OK"
        /\ End(TsValidate(r), <<>>)
        /\ UNCHANGED <<calls, batch>>
  /\ UNCHANGED <<damage, route, input, off, out, starved>>

SubmitInfo ==
  /\ pc = "collect" /\ damage = 0 /\ Len(calls) < MaxCalls
  /\ calls' = Append(calls, InfoCall)
  /\ batch' = batch \o InfoRequestFrame(Sequence)
  /\ UNCHANGED <<pc, request, damage, route, input, off, out, starved, code, answers>>

\* Bytes no call stands for.
SubmitForeign(bytes) ==
  /\ pc = "collect" /\ calls = <<>> /\ damage = 0
  /\ batch' = bytes /\ damage' = MaxDamage
  /\ UNCHANGED <<pc, request, calls, route, input, off, out, starved, code, answers>>

\* One byte changed, an end cut off, a byte too many.
Damaged(b) ==
  {[b EXCEPT ![i] = v] : i \in DOMAIN b, v \in 0..Base - 1}
  \cup {SubSeq(b, 1, n) : n \in 0..Len(b) - 1}
  \cup {Append(b, v) : v \in 0..Base - 1}

DamageRequest ==
  /\ pc = "collect" /\ damage < MaxDamage /\ Len(batch) \in 1..MaxLength
  /\ batch' \in Damaged(batch) /\ damage' = damage + 1
  /\ UNCHANGED <<pc, request, calls, route, input, off, out, starved, code, answers>>

\* A transform() sends one undamaged frame; a bundle is whatever was collected.
Sender(u) ==
  /\ pc = "collect" /\ batch # <<>>
  /\ u = "backend" => damage = 0 /\ Len(calls) = 1 /\ calls[1].command = TransformCmd

Carry(bytes) ==
  /\ input' = bytes /\ pc' = "host"
  /\ UNCHANGED <<code, answers>>

\* A rejection without a code of its own: the backend gives it one.
Uncoded(u) == IF u = "backend" THEN "TRANSPORT_ERROR" ELSE "UNCODED"

\* A transport without pipe and fallback throws.  The port and the translation to
\* invokes look at the frames first; a scheme that keeps no bodies delivers none.
SendOver(u, w) ==
  /\ Sender(u)
  /\ user' = u /\ way' = w
  /\ IF \/ w.plane = "nowhere"
        \/ w.plane \in {"port", "invoke"} /\ ScanFrames(batch).code # "OK"
     THEN End(Uncoded(u), <<>>) /\ UNCHANGED input
     ELSE Carry(IF w.kept THEN batch ELSE <<>>)
  /\ UNCHANGED <<collected, damage, off, out, starved>>

\* A bundle goes over the transport that was chosen for the page.
SendBundle(w) == w.plane # "none" /\ SendOver("bridge", w)

\* transform() of a backend whose plane was set up by TauriBackend.
SendCall(p, memory) ==
  /\ p = "scheme" => [kept |-> TRUE, memory |-> memory] \in Reachable
  /\ SendOver("backend", Way(p, FALSE, TRUE))

-----------------------------------------------------------------------------
(* The host. *)

OnWire == pc = "host" /\ plane \in {"port", "scheme"}

\* Mutant: what was answered so far is sent when a frame fails.
HostFailsLate(c) ==
  /\ OnWire
  /\ starved' = (c = "OUT_OF_MEMORY")
  /\ IF plane = "port" \/ out # <<>>
     THEN pc' = "reply" /\ UNCHANGED <<out, code, answers>>
     ELSE End(c, <<>>) /\ out' = <<>>
  /\ UNCHANGED <<collected, damage, route, input, off>>

\* process_batch fails as a whole.  The scheme puts the code into the body of
\* its answer; the port can only answer with nothing.
HostFails(c) ==
  /\ OnWire
  /\ starved' = (c = "OUT_OF_MEMORY")
  /\ out' = <<>>
  /\ IF plane = "port" THEN pc' = "reply" /\ UNCHANGED <<code, answers>> ELSE End(c, <<>>)
  /\ UNCHANGED <<collected, damage, route, input, off>>

HostRefusesEmpty == input = <<>> /\ HostFails("INVALID_ARGUMENT")

\* One round of the loop of process_batch.
HostFrame(memory) ==
  /\ OnWire /\ off < Len(input)
  /\ LET frame == FrameAt(input, off)
         done == Host(frame, RsNextFrame(input, off), memory)
     IN \/ /\ done.code = "OK"
           /\ out' = out \o done.reply /\ off' = off + Len(frame)
           /\ UNCHANGED <<pc, collected, damage, route, input, starved, code, answers>>
        \/ /\ done.code # "OK"
           /\ HostFails(done.code)

HostDone ==
  /\ OnWire /\ input # <<>> /\ off = Len(input)
  /\ pc' = "reply"
  /\ UNCHANGED <<collected, damage, route, input, off, out, starved, code, answers>>

\* A Tauri command: validation of the JSON, then the calculation.
JsonOfCall(r) ==
  JsonOf([plain |-> TRUE,
          own |-> [values |-> ArrayOf([i \in DOMAIN r.values |-> Number(r.values[i])]),
                   multiplier |-> Number(r.multiplier), offset |-> Number(r.offset)]])
CommandCode(r, memory) ==
  Verdict(<<Passed(RsValidate(JsonOfCall(r))), Passed(FfiCode(r.values, memory))>>)

\* transform() over JSON: the result is no frame.
JsonCall(memory) ==
  /\ pc = "host" /\ plane = "json"
  /\ LET c == CommandCode(calls[1], memory)  result == FfiResult(calls[1])
     IN /\ starved' = (c = "OUT_OF_MEMORY")
        /\ End(IF c = "OK" THEN ResultCode(result, Len(calls[1].values)) ELSE c, <<result>>)
  /\ UNCHANGED <<collected, damage, route, input, off, out>>

\* sendOne: a frame becomes an invoke, what it returns a frame.  The payload of
\* a getInfo request is not looked at; a rejected invoke loses its code.
InvokeFrame(memory) ==
  /\ pc = "host" /\ plane = "invoke" /\ off < Len(input)
  /\ LET frame == FrameAt(input, off)
         h == Header(frame, 0)
         r == Request(frame)
         c == IF h.command = GetInfoCmd THEN "OK"
              ELSE IF TsRequestCode(frame) # "OK" THEN "INVALID_ARGUMENT"
              ELSE CommandCode(r, memory)
     IN \/ /\ c = "OK"
           /\ out' = out \o IF h.command = GetInfoCmd THEN InfoFrame(CoreInfo(h.sequence))
                            ELSE FfiReply(r, memory).reply
           /\ off' = off + Len(frame)
           /\ UNCHANGED <<pc, starved, code, answers>>
        \/ /\ c # "OK"
           /\ starved' = (c = "OUT_OF_MEMORY")
           /\ End("UNCODED", <<>>)
           /\ UNCHANGED <<off, out>>
  /\ UNCHANGED <<collected, damage, route, input>>

InvokeDone ==
  /\ pc = "host" /\ plane = "invoke" /\ off = Len(input)
  /\ pc' = "reply"
  /\ UNCHANGED <<collected, damage, route, input, off, out, starved, code, answers>>

-----------------------------------------------------------------------------
(* Back in the page. *)

DamageReply ==
  /\ pc = "reply" /\ damage < MaxDamage /\ Len(out) \in 1..MaxLength
  /\ out' \in Damaged(out) /\ damage' = damage + 1
  /\ UNCHANGED <<pc, collected, route, input, off, starved, code, answers>>

FirstSequence(b) ==
  IF ScanFrames(b).frames = <<>> THEN -1 ELSE Header(b, 0).sequence

\* WebMessageTransport.onMessage
PortCode ==
  LET scanned == ScanFrames(out)
  IN Verdict(<< <<scanned.code # "OK" \/ scanned.frames = <<>>, "UNCODED">>,
                <<FirstSequence(out) # FirstSequence(input), "UNCODED">> >>)

\* sendBinaryFrame: exactly one frame, of this request.
BackendCode ==
  LET scanned == ScanFrames(out)
  IN Verdict(<< <<scanned.code # "OK" \/ Len(scanned.frames) # 1, "TRANSPORT_ERROR">>,
                <<FirstSequence(out) # calls[1].sequence, "TRANSPORT_ERROR">>,
                <<TsResponseCode(out) # "OK", "TRANSPORT_ERROR">>,
                Passed(ResultCode(Response(out), Len(calls[1].values)))>>)

\* sendBatch: a reply that is not made of frames rejects all.  Else the last frame
\* of its number is a call's answer, and a call that has none is rejected alone.
Matching(call) ==
  {o \in ToSet(ScanFrames(out).frames) : Header(out, o).sequence = call.sequence}
Found == {i \in DOMAIN calls : Matching(calls[i]) # {}}
BridgeCode == IF ScanFrames(out).code = "OK" THEN "OK" ELSE "UNCODED"

Receive ==
  /\ pc = "reply"
  /\ LET c == Verdict(<< <<plane = "port" /\ PortCode # "OK", Uncoded(user)>>,
                         Passed(IF user = "backend" THEN BackendCode ELSE BridgeCode)>>)
     IN End(c, IF user = "backend" THEN <<Response(out)>>
               ELSE [i \in Found |-> FrameAt(out, Max(Matching(calls[i])))])
  /\ UNCHANGED <<collected, damage, route, input, off, out, starved>>
-----------------------------------------------------------------------------
Next ==
  \/ \E r \in Inputs : Submit(r)
  \/ SubmitInfo
  \/ \E bytes \in Foreign : SubmitForeign(bytes)
  \/ DamageRequest
  \/ \E w \in Ways : SendBundle(w)
  \/ \E p \in {"json", "scheme", "port"}, memory \in BOOLEAN : SendCall(p, memory)
  \/ HostRefusesEmpty
  \/ \E memory \in BOOLEAN : HostFrame(memory)
  \/ HostDone
  \/ \E memory \in BOOLEAN : JsonCall(memory)
  \/ \E memory \in BOOLEAN : InvokeFrame(memory)
  \/ InvokeDone
  \/ DamageReply
  \/ Receive

Spec == Init /\ [][Next]_vars

-----------------------------------------------------------------------------
Sum(values) == MapThenSumSet(LAMBDA i : values[i], DOMAIN values)
Saturated(v, exact) ==
  v \in Int32 /\ (v = exact \/ (v = IntMax /\ exact > v) \/ (v = IntMin /\ exact < v))
RightResult(call, result) ==
  /\ DOMAIN result.values = DOMAIN call.values
  /\ \A i \in DOMAIN call.values :
       Saturated(result.values[i], call.values[i] * call.multiplier + call.offset)
  /\ result.checksum = Sum(result.values) % Word
RightFrame(command, sequence, call, f) ==
  /\ Header(f, 0).command = command /\ Header(f, 0).sequence = sequence
  /\ IF command = GetInfoCmd THEN TsInfoCode(f) = "OK" /\ Info(f).abi = CoreAbi
     ELSE TsResponseCode(f) = "OK" /\ RightResult(call, Response(f))

\* What the caller of a call is told.
CodeOf(i) == IF code = "OK" /\ i \notin DOMAIN answers THEN "UNCODED" ELSE code

\* A caller that is told OK has its results: each call the saturated values and
\* the checksum of its own numbers, whatever the plane, the place in the bundle
\* and the sequence number; the host answers frame by frame, in order; and no
\* caller of a batch is answered when any byte of it is not a frame.
AnswersAreRight ==
  /\ pc = "host" /\ off > 0 /\ off = Len(input) =>
       LET asked == ScanFrames(input)  replied == ScanFrames(out)
       IN /\ asked.code = "OK" /\ replied.code = "OK"
          /\ DOMAIN asked.frames = DOMAIN replied.frames
          /\ \A i \in DOMAIN asked.frames :
               LET f == FrameAt(input, asked.frames[i])
               IN RightFrame(Header(f, 0).command, Header(f, 0).sequence, Request(f),
                             FrameAt(out, replied.frames[i]))
  /\ pc = "done" =>
       \A i \in DOMAIN calls : CodeOf(i) = "OK" =>
         /\ ScanFrames(input).code = "OK"
         /\ damage = 0 =>
              IF user = "backend" THEN RightResult(calls[i], answers[i])
              ELSE RightFrame(calls[i].command, calls[i].sequence, calls[i], answers[i])

\* Whatever the page validated is answered on every plane that can be chosen for
\* it, unless memory runs out or the URL was not probed and loses bodies; on a page
\* with hooks that nothing serves it is refused, not lost; and where the plane can
\* carry a code, the caller learns that memory ran out.
PlanesAgree ==
  pc = "done" /\ plane # "none" /\ damage = 0 =>
    \A i \in DOMAIN calls :
      IF starved THEN IF plane \in {"json", "scheme"} THEN CodeOf(i) = "OUT_OF_MEMORY"
                      ELSE CodeOf(i) \in {"TRANSPORT_ERROR", "UNCODED"}
      ELSE \/ CodeOf(i) = "OK"
           \/ plane = "scheme" /\ way.pinned /\ ~way.kept /\ CodeOf(i) = "INVALID_ARGUMENT"
           \/ plane = "nowhere" /\ CodeOf(i) = "UNCODED"

Alike(ts, c, rs) == ts = rs /\ (c = "OK") = (ts = "OK")
DecodedAlike(b) ==
  /\ Alike(TsHeader(b, 0), CHeader(b, 0), RsHeader(b, 0))
  /\ ~(TooLong(b, 0)[1] /\ Reserved(b, 0)[1]) => CHeader(b, 0) = TsHeader(b, 0)
  /\ Alike(TsNextFrame(b, 0), CNextFrame(b, 0), RsNextFrame(b, 0))
  /\ Alike(TsRequestCode(b), CRequestCode(b), RsRequestCode(b))
  /\ Alike(TsResponseCode(b), CResponseCode(b), RsResponseCode(b))
  /\ TsInfoCode(b) = "OK" => RsInfoCode(b) = "OK"
  /\ RsInfoCode(b) # "OK" \/ NoUtf8(InfoVersion(b))[1] \/ TsInfoCode(b) = "OK"
Canonical(b) ==
  LET flags == Header(b, 0).flags
  IN /\ RsRequestCode(b) = "OK" => RequestFrame(Request(b), flags) = b
     /\ RsResponseCode(b) = "OK" /\ flags = 0 => ResponseFrame(Response(b)) = b
     /\ RsInfoCode(b) = "OK" /\ flags = 0 => InfoFrame(Info(b)) = b
EncodedAlike(r, flags, room) ==
  LET ts == TsRequestRefusal(r, flags, room)
      c == CRequestRefusal(r, flags, room)
  IN /\ c = RsRequestRefusal(r, flags, room)
     /\ (c = "OK") = (ts = "OK")
     /\ c = "OK" => Len(RequestFrame(r, flags)) <= room
                    /\ CRequestCode(RequestFrame(r, flags)) = "OK"

\* TypeScript, C and Rust take the same bytes for a frame, for a request, for a
\* response and for an information, and refuse the others with the same code,
\* but that C names another one when length and reserved word are both wrong and
\* TypeScript also wants UTF-8; a decoded frame is the encoding of what it says;
\* and what one encoder writes in some room the others write, all decode.
DecodersAgree ==
  /\ pc = "collect" => DecodedAlike(batch) /\ Canonical(batch)
  /\ pc = "reply" => DecodedAlike(out) /\ Canonical(out)
  /\ batch = <<>> /\ pc = "collect" =>
       \A n \in 0..MaxValues + 1, flags \in 0..4 * CompressedFlag :
       \A room \in {0, WireSize, WireSize + 11 + 4 * n, WireSize + 12 + 4 * n} :
         EncodedAlike([sequence |-> FirstId, multiplier |-> -1, offset |-> IntMin,
                       values |-> [i \in 1..n |-> IntMax]], flags, room)

\* What the page accepts the host accepts, with the same numbers, and what it
\* refuses the host refuses with the same code, as far as JSON carries it there;
\* an information the page refuses has a wrong host before it has a wrong ABI.
ValidationsAgree ==
  plane = "none" =>
  /\ LET page == TsValidate(request)  host == RsValidate(JsonOf(request))
     IN /\ page = "OK" => host = "OK" /\ Snapshot(JsonOf(request)) = Snapshot(request)
        /\ (\A f \in DOMAIN request.own : request.own[f].is # "undefined") => host = page
  /\ \A os \in {"macos", "ios", "linux"}, abi \in 0..2 :
       InfoJudged(NativeInfo(os, abi)) =
         IF os = "linux" THEN "TRANSPORT_ERROR" ELSE IF abi = 1 THEN "OK" ELSE "ABI_MISMATCH"
=============================================================================
