----------------------------- MODULE MCWireRing -----------------------------
EXTENDS WireRing, SequencesExt

MCFrames == BoundedSeq(Byte, Capacity)
=============================================================================
