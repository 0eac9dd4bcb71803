-------------------------- MODULE MCBatchingBridge --------------------------
EXTENDS BatchingBridge, TLC

CONSTANTS s1, s2, s3, s4

MCSubmits == {s1, s2, s3, s4}
MCSequenceOf == s1 :> 1 @@ s2 :> 2 @@ s3 :> 1 @@ s4 :> 3
MCSize == s1 :> 1 @@ s2 :> 1 @@ s3 :> 1 @@ s4 :> 3
=============================================================================
