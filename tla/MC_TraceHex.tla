---------------------------- MODULE MC_TraceHex ----------------------------
(***************************************************************************)
(* trace.c and the tools.h helpers it includes.  The trace_hex machine of  *)
(* TraceHex runs as it is; word, the argument given to the helpers, is     *)
(* chosen at the start and kept.  A word above 16 bits also exercises the *)
(* conversion to uint16_t at the call of a 16-bit helper.                  *)
(***************************************************************************)
EXTENDS TraceHex, Tools

CONSTANT Words   \* the argument values, below 2^31

VARIABLE word

MC_vars == <<vars, word>>

MC_Init == Init /\ word \in Words

MC_Next == Next /\ UNCHANGED word

MC_Spec == MC_Init /\ [][MC_Next]_MC_vars

(***************************************************************************)
(* ClzCountsLeadingZeros: bit_clz returns the number of leading zero bits  *)
(* of the 16-bit value it is called with, although it gets it from        *)
(* bit_ones, whose 16U - x is the number of clear bits of the smeared      *)
(* word.  For zero it returns 16, a value its comment leaves undefined.    *)
(***************************************************************************)
ClzCountsLeadingZeros == bit_clz(word) = 16 - BitLength(U16(word))

(***************************************************************************)
(* BitSwapReversesBits: the four mask-and-shift lines of bit_swap16 move   *)
(* bit i of the half-word to bit 15 - i.                                   *)
(***************************************************************************)
BitSwapReversesBits == bit_swap16(word) = ReverseBits(U16(word), 16)

(***************************************************************************)
(* ByteSwapReversesBytes: byte_swap32, built from two byte_swap16 calls on *)
(* the truncated halves, stores its result's bytes in the reverse order of *)
(* the argument's (abcd -> dcba).                                          *)
(***************************************************************************)
ByteSwapReversesBytes ==
  PairBytes(byte_swap32(word)) = [i \in 1..4 |-> LeBytes(word)[5 - i]]
=============================================================================
