\* Refinement run: requests of every length, no bus error.
CONSTANTS
  Radix = 3
  BufSize = 4
  Values = {0, 1}
  ReqLens <- MC_AllLens
  MaxRead = 2
  MboxSize = 1
  BusErrors = FALSE
SPECIFICATION Spec
PROPERTY AbsCorrect
