---------------------------- MODULE MCDataPlane ----------------------------
EXTENDS DataPlane, TLC

MCCoreVersion == <<1, 2, 1>>

Ask(values, multiplier, offset) ==
  [plain |-> TRUE,
   own |-> [values |-> ArrayOf(values), multiplier |-> multiplier, offset |-> offset]]
With(r, f, v) == [r EXCEPT !.own = (f :> v) @@ @]
One == Number(1)
Plain == Ask(<<One>>, One, One)

Accepted ==
  {Ask(<<>>, One, One),
   Ask(<<Number(IntMax), Number(-1)>>, Number(3), Value("minusZero")),
   Ask(<<Value("minusZero")>>, Number(IntMin), Number(IntMin))}
Refused ==
  {[Plain EXCEPT !.plain = FALSE],
   Ask(<<One, One, One>>, One, One),
   Ask(<<Value("fraction")>>, One, One),
   Ask(<<One>>, Value("string"), One),
   Ask(<<One, Value("hole")>>, One, One),
   Ask(<<Number(IntMax + 1)>>, One, One),
   Ask(<<One>>, Number(IntMin - 1), One),
   Ask(<<One>>, One, Value("nan")),
   With(Plain, "values", Value("undefined")),
   With(Plain, "values", Value("string")),
   With(Plain, "other", Value("undefined")),
   With(Ask(<<One, One, One>>, One, One), "other", One),
   [Plain EXCEPT !.own = [f \in {"values", "offset"} |-> Plain.own[f]]]}
MCInputs == Accepted \cup Refused

Answer == ResponseFrame([sequence |-> 1, checksum |-> Word - 1, values |-> <<IntMin, IntMax>>])
MCForeign ==
  {Answer, InfoFrame(CoreInfo(2)), InfoFrame([CoreInfo(2) EXCEPT !.version = <<Base - 1>>]),
   [Answer EXCEPT ![12] = 1, ![13] = 1],
   InfoRequestFrame(2) \o Answer,
   EncodedHeader(GetInfoCmd, 0, 3, 1) \o <<0>>}
=============================================================================
