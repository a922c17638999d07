----------------------------- MODULE EventWord -----------------------------
(***************************************************************************)
(* The encoded event words of the busmem I2C engine (src/app/busmem/i2c.c): *)
(* the IRQ handlers pack an event into a 32-bit word with BUILD_MSG_*, the  *)
(* worker thread unpacks it with GET_MSG_* and logs the address range the   *)
(* transfer covered.  One word is in flight at a time: the mailbox order   *)
(* and loss are modelled in I2CEngine; this module is about the packing.   *)
(* Shifts and masks of unsigned words are written as division and modulo   *)
(* by powers of two.                                                       *)
(***************************************************************************)
EXTENDS Integers

CONSTANTS
  BufSize,     \* BUSMEM_BUF_SIZE (4096)
  InbufSize,   \* BUSMEM_I2C_BUF_TOTAL_SIZE, the longest request (260)
  AddrSet      \* masked addresses the master uses

ASSUME /\ BufSize \in Nat /\ InbufSize \in Nat
       /\ AddrSet \subseteq 0..BufSize - 1

VARIABLES
  posted,   \* ghost: the event the handler meant to report
  word,     \* the msg_t posted to ie_mbx
  logged    \* what the worker printed for it

vars == <<posted, word, logged>>

MSG_ERROR == 1
MSG_INIT == 2
MSG_WRITE == 3
MSG_READ == 4

Shl(x, k) == x * 2^k
Shr(x, k) == x \div 2^k
Low(x, bits) == x % 2^bits       \* x & (2^bits - 1)

BUILD_MSG_ERROR(err) == Shl(MSG_ERROR, 28) + Low(err, 8)
BUILD_MSG_INIT == Shl(MSG_INIT, 28)
BUILD_MSG_WRITE(addr, count) ==
  Shl(MSG_WRITE, 28) + Shl(Low(count, 8), 16) + Low(addr, 16)
BUILD_MSG_READ(addr, count) ==
  Shl(MSG_READ, 28) + Shl(Low(count, 8), 16) + Low(addr, 16)

GET_MSG_TYPE(w) == Low(Shr(w, 28), 3)
GET_MSG_ADDR(w) == Low(w, 16)
GET_MSG_COUNT(w) == Low(Shr(w, 16), 8)

\* The range the worker prints: "[start..end]" when count > 1, else "[start]"
WorkerLog(w) ==
  LET start == GET_MSG_ADDR(w)
      count == GET_MSG_COUNT(w)
  IN [type  |-> GET_MSG_TYPE(w),
      first |-> start,
      last  |-> IF count > 1 THEN start + count - 1 ELSE start]

\* The range a transfer of count bytes from addr covers
Covered(type, addr, count) ==
  [type |-> type, first |-> addr, last |-> addr + count - 1]

\* No event yet (type 0 is no MSG_* value)
NoEvent == [type |-> 0, first |-> 0, last |-> 0]

Init ==
  /\ posted = NoEvent
  /\ word = 0
  /\ logged = NoEvent

\* _i2c_handle_request with n bytes received at masked address a
PostRequest(a, n) ==
  LET max == BufSize - a
      size == IF max < n - 2 THEN max ELSE n - 2
  IN /\ IF n > 2
        THEN /\ word' = BUILD_MSG_WRITE(a, size)
             /\ posted' = Covered(MSG_WRITE, a, size)
        ELSE /\ word' = BUILD_MSG_READ(a, n)
             /\ posted' = Covered(MSG_READ, a, n)
     /\ logged' = NoEvent

\* _i2c_thread: fetch the word and log it
Fetch ==
  /\ posted # NoEvent
  /\ logged = NoEvent
  /\ logged' = WorkerLog(word)
  /\ UNCHANGED <<posted, word>>

Next ==
  \/ \E a \in AddrSet, n \in 1..InbufSize : PostRequest(a, n)
  \/ Fetch

Spec == Init /\ [][Next]_vars

-----------------------------------------------------------------------------
(***************************************************************************)
(* WorkerLogsTransfer: the range the worker thread logs for a read or     *)
(* write event is the address and count the request handler posted; for a *)
(* write that is the memory it wrote (spec.md 4.2: the write event carries *)
(* the address and the clipped length).                                    *)
(***************************************************************************)
WorkerLogsTransfer == logged # NoEvent => logged = posted
====
