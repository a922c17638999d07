\* trace_hex over inputs of 0 to 3 bytes and destinations of 1 to 11
\* characters: every truncation point of the third entry and a fit to spare.
\* The tools.h helpers over zero, single bits at both ends of each half,
\* full bytes and halves, and mixed 32-bit words.
CONSTANTS
  ByteVals = {10, 243}
  MaxBlen = 3
  DLens = {1, 2, 3, 4, 5, 6, 7, 8, 9, 10, 11}
  Words = {0, 1, 128, 256, 32768, 255, 65280, 65535, 4660, 65536, 2147483647, 305419896, 1591262479}
SPECIFICATION MC_Spec
INVARIANT NoWritePastDst
INVARIANT HexMatchesReference
INVARIANT ClzCountsLeadingZeros
INVARIANT BitSwapReversesBits
INVARIANT ByteSwapReversesBytes
CHECK_DEADLOCK FALSE
