--------------------------- MODULE CoreTransform ---------------------------
(***************************************************************************)
(* The calculation (packages/core/src/core.cpp), the safe wrapper around   *)
(* it (packages/ffi/src/lib.rs) and the two validations that stand before  *)
(* it: packages/api/validation.ts in the page and                          *)
(* src-tauri/src/commands.rs behind the JSON of a Tauri command.           *)
(***************************************************************************)
EXTENDS WireFormat

CONSTANTS CoreAbi,      \* what core_abi_version returns
          CoreVersion   \* the bytes of core_version

ASSUME CoreAssumption ==
  /\ CoreAbi \in 0..Word - 1
  /\ CoreVersion \in Seq(1..Base - 2) /\ Len(CoreVersion) \in 1..MaxVersionLen

-----------------------------------------------------------------------------
Clamped(v) == IF v < IntMin THEN IntMin ELSE IF v > IntMax THEN IntMax ELSE v

\* The accumulator is a uint32_t, as is every addend.
Checksum(values) == FoldLeft(LAMBDA acc, v : (acc + (v % Word)) % Word, 0, values)

\* core_transform_i32: every check but those for NULL, then the loop.
CoreStatus(values, capacity) ==
  Verdict(<< <<Len(values) > MaxValues, "LIMIT_EXCEEDED">>,
             <<capacity < Len(values), "BUFFER_TOO_SMALL">> >>)
CoreOutput(values, multiplier, offset) ==
  [i \in DOMAIN values |-> Clamped(values[i] * multiplier + offset)]

\* transform() of the wrapper; the output may not be had.
FfiCode(values, memory) ==
  Verdict(<< <<Len(values) > MaxValues, "LIMIT_EXCEEDED">>,
             <<values # <<>> /\ ~memory, "OUT_OF_MEMORY">>,
             <<CoreStatus(values, Len(values)) # "OK", "CORE_FAILURE">> >>)
FfiResult(r) ==
  LET output == CoreOutput(r.values, r.multiplier, r.offset)
  IN [values |-> output, checksum |-> Checksum(output)]

-----------------------------------------------------------------------------
(* A value of JavaScript is a record: its kind, its number and its items.  *)
(* A request is one that is plain or not, with its own fields.             *)

Kinds == {"int", "fraction", "nan", "minusZero", "string", "null", "hole", "undefined"}
Scalars == {v \in [is : Kinds, n : Int, items : {<<>>}] : v.is = "minusZero" => v.n = 0}
JsValues == Scalars \cup [is : {"array"}, n : {0}, items : Seq(Scalars)]
IsRequest(r) == r \in [plain : BOOLEAN, own : [DOMAIN r.own -> JsValues]]

Value(kind) == [is |-> kind, n |-> 0, items |-> <<>>]
Number(n) == [Value("int") EXCEPT !.n = n]
ArrayOf(items) == [Value("array") EXCEPT !.items = items]

RequestFields == {"values", "multiplier", "offset"}
Field(request, f) ==
  IF f \in DOMAIN request.own THEN request.own[f] ELSE Value("undefined")

\* What has to be an int32.
Numbers(request) ==
  ToSet(Field(request, "values").items) \cup {Field(request, f) : f \in {"multiplier", "offset"}}

\* The checks in their order, which the contract fixes; `ints' are the numbers of
\* the request that pass for an int32.
RequestShape(request, ints) ==
  LET own == DOMAIN request.own  values == Field(request, "values")
  IN << <<~request.plain, "INVALID_ARGUMENT">>,
        <<RequestFields \ own # {}, "INVALID_ARGUMENT">>,
        <<own \ RequestFields # {}, "INVALID_ARGUMENT">>,
        <<values.is # "array", "INVALID_ARGUMENT">>,
        <<Len(values.items) > MaxValues, "LIMIT_EXCEEDED">>,
        <<\E item \in ToSet(values.items) : item \notin ints, "INVALID_ARGUMENT">>,
        <<Field(request, "multiplier") \notin ints, "INVALID_ARGUMENT">>,
        <<Field(request, "offset") \notin ints, "INVALID_ARGUMENT">> >>

\* Mutant: the upper bound of the check is not included.
RsIsInt32Below(v) == v.is \in {"int", "minusZero"} /\ v.n \in Int32 \ {IntMax}

\* isInt32Value and as_int32: -0 is a zero, a number with a fraction is none.
TsIsInt32(v) == v.is = "minusZero" \/ (v.is = "int" /\ v.n \in Int32)
RsIsInt32(v) == v.is \in {"int", "minusZero"} /\ v.n \in Int32

TsValidate(request) ==
  Verdict(RequestShape(request, {v \in Numbers(request) : TsIsInt32(v)}))
RsValidate(request) ==
  Verdict(RequestShape(request, {v \in Numbers(request) : RsIsInt32(v)}))

\* The validated numbers; -0 has become 0.
Snapshot(request) ==
  [values |-> [i \in DOMAIN Field(request, "values").items |->
                 Field(request, "values").items[i].n],
   multiplier |-> Field(request, "multiplier").n,
   offset |-> Field(request, "offset").n]

\* JSON of the invoke: what is undefined is left out, or null in an array.
JsonItem(v) == CASE v.is = "minusZero" -> Number(0)
                 [] v.is \in {"nan", "hole", "undefined"} -> Value("null")
                 [] OTHER -> v
JsonField(v) == IF v.is = "array"
                THEN ArrayOf([i \in DOMAIN v.items |-> JsonItem(v.items[i])])
                ELSE JsonItem(v)
JsonOf(request) ==
  LET kept == {f \in DOMAIN request.own : request.own[f].is # "undefined"}
  IN [request EXCEPT !.own = [f \in kept |-> JsonField(request.own[f])]]

\* validateTransformResult and checkResultLength.
ResultCode(result, count) ==
  Verdict(<< <<\E i \in DOMAIN result.values : result.values[i] \notin Int32, "TRANSPORT_ERROR">>,
             <<result.checksum \notin 0..Word - 1, "TRANSPORT_ERROR">>,
             <<Len(result.values) # count, "TRANSPORT_ERROR">> >>)

-----------------------------------------------------------------------------
(* RuntimeInfo: what a host builds, and what the page makes of it. *)

ApiVersion == 1
Hosts == {"macos", "windows", "ios", "android", "browser"}

NativeInfo(os, abi) ==
  [apiVersion |-> ApiVersion, backend |-> "tauri-native", hostOs |-> os,
   execution |-> "native-ffi", abi |-> abi, version |-> CoreVersion]

InfoJudged(info) ==
  Verdict(<< <<info.apiVersion # ApiVersion, "TRANSPORT_ERROR">>,
             <<info.backend \notin {"tauri-native", "wasm-worker"}, "TRANSPORT_ERROR">>,
             <<info.hostOs \notin Hosts, "TRANSPORT_ERROR">>,
             <<info.execution \notin {"native-ffi", "dedicated-worker"}, "TRANSPORT_ERROR">>,
             << (info.backend = "tauri-native") # (info.execution = "native-ffi"),
                "TRANSPORT_ERROR">>,
             << (info.backend = "wasm-worker") # (info.hostOs = "browser"), "TRANSPORT_ERROR">>,
             <<info.version = <<>>, "TRANSPORT_ERROR">>,
             <<info.abi # 1, "ABI_MISMATCH">> >>)
=============================================================================
