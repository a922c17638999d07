\* Bridge run: link changes and two line coding changes.
CONSTANTS
  Codings <- MC_AllCodings
  C0 <- MC_C0
  MaxCodingChanges = 2
SPECIFICATION Spec
INVARIANT TypeOK
INVARIANT ForwardersNeedUart
INVARIANT UartFrameMatches
PROPERTY ForwardingResumes
