SPECIFICATION Spec
CONSTANTS
  s1 = s1
  s2 = s2
  s3 = s3
  s4 = s4
  None = None
  Submits <- MCSubmits
  SequenceOf <- MCSequenceOf
  Size <- MCSize
  MaxBytes = 4
  MaxFrames = 3
  Interval = TRUE
  FlushBound = 2
INVARIANTS Inv BatcherBounded OwnReply
PROPERTIES SettledOnce RejectedIsNotSent EverySubmitSettles
