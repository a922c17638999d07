\* A line coding change racing a link change.
CONSTANTS
  Codings <- MC_Codings
  C0 <- MC_C0
  MaxCodingChanges = 2
SPECIFICATION Spec
INVARIANT UartMatchesLineCoding
