SPECIFICATION Spec
CONSTANTS
  A = A
  B = B
  Ends = {A, B}
  StreamsOf <- TwoStreams
  OneWay = {2}
  Rude = {1}
  ReadCap = 1
  AcceptCap = 1
  WireCap = 1
  MaxWrites = 2
  MaxAnswers = 1
  MaxObjects = 2
CHECK_DEADLOCK FALSE
PROPERTIES
  FinUnblocks
