------------------------------ MODULE TraceHex ------------------------------
(***************************************************************************)
(* trace_hex (src/app/busmem/trace.c): format blen bytes as "%02x "        *)
(* entries into dst[0..dlen-1] with snprintf, stop at the first entry that *)
(* does not fit with its terminator, then overwrite the trailing space by  *)
(* the terminator.  The destination is a function over 0..dlen-1; a write  *)
(* outside it sets oob.  Characters are one-letter strings, NUL the zero.   *)
(***************************************************************************)
EXTENDS Integers, Sequences

CONSTANTS
  ByteVals,  \* byte values of the input buffer
  MaxBlen,   \* bound: longest input buffer
  DLens      \* destination sizes

ASSUME ByteVals \subseteq 0..255 /\ MaxBlen \in Nat /\ DLens \subseteq Nat

VARIABLES
  data,   \* the input buffer (buffer, blen)
  dlen,   \* the destination size
  dst,    \* the destination contents, "?" where never written
  hexp,   \* hexp - dst
  rem,    \* rem
  ix,     \* ix
  ret,    \* the value returned
  oob,    \* a byte was written outside dst
  pc

vars == <<data, dlen, dst, hexp, rem, ix, ret, oob, pc>>

NUL == "NUL"   \* the terminating zero byte
HexDigit == <<"0", "1", "2", "3", "4", "5", "6", "7",
              "8", "9", "a", "b", "c", "d", "e", "f">>

\* "%02x ": two lowercase hex digits and a space
Entry(b) == <<HexDigit[b \div 16 + 1], HexDigit[(b % 16) + 1], " ">>

\* Store the characters s from dst[at] on
Write(at, s) ==
  /\ dst' = [i \in DOMAIN dst |->
               IF i >= at /\ i < at + Len(s) THEN s[i - at + 1] ELSE dst[i]]
  /\ oob' = (oob \/ \E j \in 1..Len(s) : at + j - 1 \notin DOMAIN dst)

\* snprintf(dst + at, n, "%02x ", b): the first n - 1 characters at most,
\* then a terminator, nothing when n is 0; it returns 3.
SnprintfEntry(at, n, b) ==
  IF n = 0 THEN Write(at, <<>>)
  ELSE Write(at, SubSeq(Entry(b), 1, IF n - 1 < 3 THEN n - 1 ELSE 3) \o <<NUL>>)

Init ==
  /\ data \in UNION {[1..k -> ByteVals] : k \in 0..MaxBlen}
  /\ dlen \in DLens
  /\ dst = [i \in 0..dlen - 1 |-> "?"]
  /\ hexp = 0
  /\ rem = dlen
  /\ ix = 0
  /\ ret = 0
  /\ oob = FALSE
  /\ pc = "loop"

\* One iteration of the for loop
Format ==
  /\ pc = "loop"
  /\ ix < Len(data)
  /\ SnprintfEntry(hexp, IF rem > 0 THEN rem ELSE 0, data[ix + 1])
  /\ IF 3 >= rem
     THEN /\ pc' = "tail"
          /\ UNCHANGED <<hexp, rem, ix>>
     ELSE /\ hexp' = hexp + 3
          /\ rem' = rem - 3
          /\ ix' = ix + 1
          /\ UNCHANGED pc
  /\ UNCHANGED <<data, dlen, ret>>

LoopDone ==
  /\ pc = "loop"
  /\ ix >= Len(data)
  /\ pc' = "tail"
  /\ UNCHANGED <<data, dlen, dst, hexp, rem, ix, ret, oob>>

\* A tail that steps back over the first byte of an empty result too
TerminateNoGuard ==
  /\ pc = "tail"
  /\ Write(hexp - 1, <<NUL>>)
  /\ ret' = hexp
  /\ pc' = "done"
  /\ UNCHANGED <<data, dlen, hexp, rem, ix>>

\* A tail that keeps the trailing space
TerminateKeepSpace ==
  /\ pc = "tail"
  /\ Write(hexp, <<NUL>>)
  /\ ret' = hexp + 1
  /\ pc' = "done"
  /\ UNCHANGED <<data, dlen, hexp, rem, ix>>

\* Replace the trailing space (if any entry was written) by the terminator
Terminate ==
  /\ pc = "tail"
  /\ LET h == IF hexp > 0 THEN hexp - 1 ELSE hexp
     IN /\ Write(h, <<NUL>>)
        /\ ret' = h + 1
  /\ pc' = "done"
  /\ UNCHANGED <<data, dlen, hexp, rem, ix>>

Next == Format \/ LoopDone \/ Terminate

Spec == Init /\ [][Next]_vars

-----------------------------------------------------------------------------
\* The C string at dst: the characters before the first terminator
RECURSIVE CStr(_, _)
CStr(d, i) == IF i \notin DOMAIN d \/ d[i] = NUL THEN <<>> ELSE <<d[i]>> \o CStr(d, i + 1)

\* Reference: as many entries as fit with a terminator, space separated
RECURSIVE Joined(_)
Joined(s) ==
  IF Len(s) <= 1 THEN (IF s = <<>> THEN <<>> ELSE SubSeq(Entry(s[1]), 1, 2))
  ELSE SubSeq(Entry(s[1]), 1, 3) \o Joined(Tail(s))

RefHex(s, n) ==
  LET k == IF n = 0 THEN 0 ELSE IF Len(s) < (n - 1) \div 3 THEN Len(s) ELSE (n - 1) \div 3
  IN Joined(SubSeq(s, 1, k))

(***************************************************************************)
(* NoWritePastDst: trace_hex never writes outside dst[0..dlen-1], for any  *)
(* buffer size and any destination size from 1 up; the loop's MAX(0, rem) *)
(* is there for destinations too small for any entry.  A destination of   *)
(* size 0 gets its terminator at dst[0] (trace.c:68); both callers pass   *)
(* 194.                                                                     *)
(***************************************************************************)
NoWritePastDst == ~oob

(***************************************************************************)
(* HexMatchesReference: on return, dst holds as many space-separated "%02x"*)
(* entries as fit with the terminator, and the value returned counts them  *)
(* and the terminator.                                                     *)
(***************************************************************************)
HexMatchesReference ==
  (pc = "done" /\ dlen > 0) =>
    /\ CStr(dst, 0) = RefHex(data, dlen)
    /\ ret = Len(RefHex(data, dlen)) + 1
====
