\* Fault run: single-byte requests and bus errors.
CONSTANTS
  Radix = 3
  BufSize = 4
  Values = {1}
  ReqLens <- MC_AllLens
  MaxRead = 2
  MboxSize = 1
  BusErrors = TRUE
SPECIFICATION FairSpec
INVARIANT TypeOK
PROPERTY RereadServesNothing
PROPERTY ResetCompletes
