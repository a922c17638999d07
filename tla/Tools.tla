------------------------------- MODULE Tools -------------------------------
(***************************************************************************)
(* The bit and byte helpers of src/app/busmem/tools.h as pure operators.   *)
(* A C value is a natural number; a conversion to uint16_t is the          *)
(* remainder modulo 2^16, and x << n is x * 2^n before that conversion.    *)
(* A 16-bit helper converts its argument as the call does.  TLC's integers *)
(* end at 2^31 - 1, so a uint32_t result is the pair <<high, low>> of its  *)
(* 16-bit halves: the final "<< 16 |" of byte_swap32 joins them.           *)
(***************************************************************************)
EXTENDS Integers, Bitwise

U16(v) == v % 65536

ShiftL(x, n) == x * 2^n

\* One line of bit_swap16: exchange the fields of width n selected by mask
SwapFields(v, mask, n) == U16(ShiftL(v & mask, n) | (shiftR(v, n) & mask))

\* bit_swap16 with the nibble mask typed as 0xf0f0
bit_swap16_nibble_mask(value) ==
  LET v1 == SwapFields(U16(value), \h5555, 1)
      v2 == SwapFields(v1, \h3333, 2)
      v3 == SwapFields(v2, \hf0f0, 4)
  IN SwapFields(v3, \h00ff, 8)

\* bit_swap16: single bits, then 2-bit fields, nibbles and bytes
bit_swap16(value) ==
  LET v1 == SwapFields(U16(value), \h5555, 1)
      v2 == SwapFields(v1, \h3333, 2)
      v3 == SwapFields(v2, \h0f0f, 4)
  IN SwapFields(v3, \h00ff, 8)

\* byte_swap16: (uint16_t)((value >> 8U) | (value << 8U))
byte_swap16(value) ==
  LET v == U16(value) IN U16(shiftR(v, 8) | ShiftL(v, 8))

\* byte_swap32 that keeps each swapped half in place
byte_swap32_halves_kept(value) ==
  <<byte_swap16(shiftR(value, 16)), byte_swap16(value)>>

\* byte_swap32: the swapped low half becomes the high half and vice versa
byte_swap32(value) ==
  <<byte_swap16(value), byte_swap16(shiftR(value, 16))>>

\* One line of bit_ones: add the neighbouring fields of width n
AddFields(x, mask, n) == (x & mask) + (shiftR(x, n) & mask)

\* bit_ones: the sum of the low 16 bits, returned as 16U minus that sum
bit_ones(x) ==
  LET x1 == AddFields(x, \h5555, 1)
      x2 == AddFields(x1, \h3333, 2)
      x3 == AddFields(x2, \h0F0F, 4)
      x4 == AddFields(x3, \h00FF, 8)
  IN 16 - x4

\* bit_clz that forgets the last smearing step, x |= (x >> 8)
bit_clz_no_byte_smear(x) ==
  LET x0 == U16(x)
      x1 == x0 | shiftR(x0, 1)
      x2 == x1 | shiftR(x1, 2)
      x3 == x2 | shiftR(x2, 4)
  IN bit_ones(x3)

\* bit_clz: smear the highest set bit down, then count the bits left clear
bit_clz(x) ==
  LET x0 == U16(x)
      x1 == x0 | shiftR(x0, 1)
      x2 == x1 | shiftR(x1, 2)
      x3 == x2 | shiftR(x2, 4)
      x4 == x3 | shiftR(x3, 8)
  IN bit_ones(x4)

-----------------------------------------------------------------------------
(* Reference definitions, bit by bit.                                      *)

\* Number of binary digits of n
RECURSIVE BitLength(_)
BitLength(n) == IF n = 0 THEN 0 ELSE 1 + BitLength(n \div 2)

\* The low k bits of v in reverse order
RECURSIVE ReverseBits(_, _)
ReverseBits(v, k) ==
  IF k = 0 THEN 0 ELSE (v % 2) * 2^(k - 1) + ReverseBits(v \div 2, k - 1)

\* The bytes of a 32-bit word, least significant first
LeBytes(w) == <<w % 256, (w \div 256) % 256, (w \div 65536) % 256, (w \div 16777216) % 256>>

\* The bytes of a 32-bit word given as <<high, low>> halves, least first
PairBytes(p) == <<p[2] % 256, p[2] \div 256, p[1] % 256, p[1] \div 256>>
=============================================================================
