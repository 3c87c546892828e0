CONSTANTS
  Pages <- MCPages
  Flags <- MCFlags
  Frames = {1, 2, 3, 4}
  Values = {d1, d2}
  NoData = NoData
  NoFrame = NoFrame
SPECIFICATION Spec
INVARIANT ReadsLastWrite
\* After panic() the machine stops, and nothing is modelled after a stray write.
CHECK_DEADLOCK FALSE
