----------------------------- MODULE I2CEngine -----------------------------
(***************************************************************************)
(* The busmem I2C slave engine (src/app/busmem/i2c.c): the three handlers  *)
(* the I2C interrupt calls (_i2c_handle_request, _i2c_handle_response,    *)
(* _i2c_handle_error), the mailbox they post diagnostic events to, the     *)
(* worker thread _i2c_thread that configures the slave and drains the     *)
(* mailbox, and i2c_reset.                                                 *)
(*                                                                         *)
(* Bytes are scaled down: a byte takes Radix values (256 in the code) and  *)
(* the memory has BufSize cells (4096), with Radix < BufSize < Radix^2 as  *)
(* in the code, so that the address mask drops part of the high address   *)
(* byte but not all of it.  Of ie_inbuf only byte 1 is kept (inbuf_hi):    *)
(* byte 0 and the payload bytes are always written by the transfer that    *)
(* reads them, byte 1 is not when the master sends a single byte.          *)
(***************************************************************************)
EXTENDS Integers, Sequences

CONSTANTS
  Radix,      \* values of a bus byte
  BufSize,    \* BUSMEM_BUF_SIZE, a power of two
  Values,     \* data byte values the master writes
  ReqLens,    \* byte counts of the requests the master sends
  MaxRead,    \* longest read the master performs
  MboxSize,   \* slots of ie_mbx (ie_act_msgbufs, 4 in the code)
  BusErrors   \* TRUE when the bus may report errors

ASSUME /\ Radix \in Nat /\ BufSize \in Nat /\ Radix < BufSize
       /\ BufSize <= Radix * Radix
       /\ \E e \in 1..BufSize : 2^e = BufSize
       /\ Values \subseteq 0..Radix - 1
       /\ ReqLens \subseteq Nat
       /\ MaxRead \in Nat \ {0}
       /\ MboxSize \in Nat \ {0}
       /\ BusErrors \in BOOLEAN

VARIABLES
  ie_addr,     \* eng->ie_addr
  inbuf_hi,    \* eng->ie_inbuf[1]
  mem,         \* busmem_memory
  rsp_addr,    \* im_rsp.body as an offset in busmem_memory, NoPtr for NULL
  rsp_size,    \* im_rsp.size
  mbx,         \* ie_mbx: the events posted and not yet fetched
  started,     \* _i2c_thread has configured the slave
  served,      \* ghost: bytes sent to the master by the last read
  bus_event,   \* ghost: the last event the I2C interrupt handled
  addressed,   \* ghost: a request with an address came since the last read
  request,     \* ghost: the last request the master sent
  resetter     \* a thread in i2c_reset(false): "idle" or "posting"

vars == <<ie_addr, inbuf_hi, mem, rsp_addr, rsp_size, mbx, started, served,
          bus_event, addressed, request, resetter>>

NoPtr == -1
Addrs == 0..BufSize - 1
Garbage == Radix      \* a byte read from outside busmem_memory

\* Diagnostic events (BUILD_MSG_*).  The worker only logs them, so the
\* mailbox keeps their type; the packing of address and count into the
\* 32-bit word is checked in the EventWord module.
MsgError == "error"
MsgInit == "init"
MsgWrite(a, c) == "write"
MsgRead(a, c) == "read"

Min2(a, b) == IF a < b THEN a ELSE b

\* chMBPostI: the event is dropped when the mailbox is full
PostI(m) == mbx' = IF Len(mbx) < MboxSize THEN Append(mbx, m) ELSE mbx

\* An address read in the wrong byte order
MaskedAddrSwapped(lo, hi) == (hi + Radix * lo) % BufSize

\* get_uint16 then the mask: little-endian address, masked into the buffer
MaskedAddr(lo, hi) == (lo + Radix * hi) % BufSize

\* A write length taken without the clip
ClipMissing(size, max) == size

\* The write length clipped to the span left up to the end of the buffer
ClipToSpan(size, max) == IF max < size THEN max ELSE size

\* memcpy of data to busmem_memory[a]: writing past the last cell extends
\* the domain, so an overrun shows as a memory of the wrong shape.
MemCopy(m, a, data) ==
  [i \in Addrs \cup {a + j - 1 : j \in 1..Len(data)} |->
     IF i >= a /\ i < a + Len(data) THEN data[i - a + 1] ELSE m[i]]

\* The driver sends min(k, size) bytes from im_rsp.body
Transmit(m, p, size, k) ==
  IF p = NoPtr THEN <<>>
  ELSE [i \in 1..Min2(k, size) |-> IF p + i - 1 \in DOMAIN m THEN m[p + i - 1]
                                   ELSE Garbage]

Init ==
  /\ ie_addr = 0
  /\ inbuf_hi = 0
  /\ mem = [i \in Addrs |-> 0]
  /\ rsp_addr = NoPtr
  /\ rsp_size = 0
  /\ mbx = <<>>
  /\ started = FALSE
  /\ served = <<>>
  /\ bus_event = "none"
  /\ addressed = FALSE
  /\ request = [len |-> 0, addr |-> 0, data |-> <<>>]
  /\ resetter = "idle"

-----------------------------------------------------------------------------
\* _i2c_thread before its loop: i2cStart, i2cSlaveConfigure, i2cMatchAddress
I2CThreadStart ==
  /\ ~started
  /\ started' = TRUE
  /\ UNCHANGED <<ie_addr, inbuf_hi, mem, rsp_addr, rsp_size, mbx, served,
                 bus_event, addressed, request, resetter>>

\* A worker that reads the event without removing it (chMBPeek)
I2CThreadFetchPeek ==
  /\ started
  /\ mbx # <<>>
  /\ UNCHANGED <<ie_addr, inbuf_hi, mem, rsp_addr, rsp_size, mbx, started, served,
                 bus_event, addressed, request, resetter>>

\* _i2c_thread loop: chMBFetch returned MSG_OK; the event is only logged
I2CThreadFetch ==
  /\ started
  /\ mbx # <<>>
  /\ mbx' = Tail(mbx)
  /\ UNCHANGED <<ie_addr, inbuf_hi, mem, rsp_addr, rsp_size, started, served,
                 bus_event, addressed, request, resetter>>

(***************************************************************************)
(* The master writes n bytes: the driver stores them from ie_inbuf[0] and  *)
(* calls _i2c_handle_request.  lo and hi are the first two bytes, data the *)
(* bytes after them.                                                       *)
(***************************************************************************)
HandleRequest(n, lo, hi, data) ==
  /\ started
  /\ bus_event' = "request"
  /\ addressed' = (addressed \/ n > 0)
  /\ request' = [len |-> n,
                 addr |-> CASE n = 0 -> 0 [] n = 1 -> lo [] OTHER -> lo + Radix * hi,
                 data |-> data]
  /\ UNCHANGED <<started, served, resetter>>
  /\ IF n = 0
     THEN UNCHANGED <<ie_addr, inbuf_hi, mem, rsp_addr, rsp_size, mbx>>
     ELSE LET hi1  == IF n >= 2 THEN hi ELSE inbuf_hi
              addr == MaskedAddr(lo, hi1)
              max  == BufSize - addr
              size == ClipToSpan(n - 2, max)
          IN /\ inbuf_hi' = hi1
             /\ ie_addr' = addr
             /\ IF n > 2
                THEN /\ mem' = MemCopy(mem, addr, SubSeq(data, 1, size))
                     /\ PostI(MsgWrite(addr, size))
                ELSE /\ UNCHANGED mem
                     /\ PostI(MsgRead(addr, n))
             /\ rsp_addr' = addr
             /\ rsp_size' = max

\* A response handler that leaves the response staged
HandleResponseKeepsBody(k) ==
  /\ started
  /\ served' = Transmit(mem, rsp_addr, rsp_size, k)
  /\ bus_event' = "response"
  /\ addressed' = FALSE
  /\ UNCHANGED <<ie_addr, inbuf_hi, mem, rsp_addr, rsp_size, mbx, started,
                 request, resetter>>

\* The master reads k bytes, then the driver calls _i2c_handle_response
HandleResponse(k) ==
  /\ started
  /\ served' = Transmit(mem, rsp_addr, rsp_size, k)
  /\ rsp_addr' = NoPtr
  /\ rsp_size' = 0
  /\ bus_event' = "response"
  /\ addressed' = FALSE
  /\ UNCHANGED <<ie_addr, inbuf_hi, mem, mbx, started, request, resetter>>

\* A bus error during a request or a response: _i2c_handle_error
HandleError ==
  /\ started
  /\ BusErrors
  /\ ie_addr' = 0
  /\ PostI(MsgError)
  /\ bus_event' = "error"
  /\ UNCHANGED <<inbuf_hi, mem, rsp_addr, rsp_size, started, served, addressed, request, resetter>>

\* i2c_reset(true): chMBPostI, dropped when the mailbox is full
ResetI ==
  /\ PostI(MsgInit)
  /\ UNCHANGED <<ie_addr, inbuf_hi, mem, rsp_addr, rsp_size, started, served,
                 bus_event, addressed, request, resetter>>

\* A thread calls i2c_reset(false)
ResetTCall ==
  /\ resetter = "idle"
  /\ resetter' = "posting"
  /\ UNCHANGED <<ie_addr, inbuf_hi, mem, rsp_addr, rsp_size, mbx, started, served,
                 bus_event, addressed, request>>

\* chMBPost with TIME_INFINITE: the caller waits until a slot is free, then
\* posts and returns; a woken caller that finds the mailbox refilled by an
\* IRQ post waits again.
ResetT ==
  /\ resetter = "posting"
  /\ Len(mbx) < MboxSize
  /\ mbx' = Append(mbx, MsgInit)
  /\ resetter' = "idle"
  /\ UNCHANGED <<ie_addr, inbuf_hi, mem, rsp_addr, rsp_size, started, served,
                 bus_event, addressed, request>>

Next ==
  \/ I2CThreadStart
  \/ I2CThreadFetch
  \/ \E n \in ReqLens, lo \in 0..Radix - 1 :
        \E hi \in (IF n >= 2 THEN 0..Radix - 1 ELSE {0}),
           data \in [1..(IF n > 2 THEN n - 2 ELSE 0) -> Values] :
           HandleRequest(n, lo, hi, data)
  \/ \E k \in 1..MaxRead : HandleResponse(k)
  \/ HandleError
  \/ ResetI
  \/ ResetTCall
  \/ ResetT

Spec == Init /\ [][Next]_vars

(***************************************************************************)
(* _i2c_thread is created at startup and loops on chMBFetch with a 10 ms   *)
(* timeout, so its start and its fetches are weakly fair; a caller blocked *)
(* in chMBPost is woken by each fetch and is weakly fair once a slot stays *)
(* free.  The master and the IRQ context get no fairness.                  *)
(***************************************************************************)
FairSpec ==
  Spec /\ WF_vars(I2CThreadStart) /\ WF_vars(I2CThreadFetch) /\ WF_vars(ResetT)

-----------------------------------------------------------------------------
TypeOK ==
  /\ ie_addr \in Addrs
  /\ inbuf_hi \in 0..Radix - 1
  /\ mem \in [Addrs -> Values \cup {0}]
  /\ rsp_addr \in Addrs \cup {NoPtr}
  /\ rsp_size \in 0..BufSize
  /\ Len(mbx) <= MboxSize
  /\ started \in BOOLEAN
  /\ served \in Seq(Values \cup {0})

(***************************************************************************)
(* The detailed engine implements the abstract memory device: the read    *)
(* pointer is the staged response.                                         *)
(***************************************************************************)
Abs == INSTANCE I2CMemory WITH AddrSpace <- Radix * Radix, ptr <- rsp_addr,
                                last_event <- bus_event

AbsCorrect == Abs!AbsSpec

(***************************************************************************)
(* RereadServesNothing: once a read has completed, a read with no request  *)
(* in between serves no memory byte, whatever bus errors came between     *)
(* (the purpose _i2c_handle_response's clearing is written for).          *)
(***************************************************************************)
RereadServesNothing ==
  [][\A k \in 1..MaxRead : HandleResponse(k) /\ ~addressed => served' = <<>>]_vars

\* A step of the I2C interrupt: a handler, or i2c_reset(true)
IrqStep ==
  \/ \E n \in ReqLens, lo \in 0..Radix - 1 :
       \E hi \in (IF n >= 2 THEN 0..Radix - 1 ELSE {0}),
          data \in [1..(IF n > 2 THEN n - 2 ELSE 0) -> Values] :
          HandleRequest(n, lo, hi, data)
  \/ \E k \in 1..MaxRead : HandleResponse(k)
  \/ HandleError
  \/ ResetI

(***************************************************************************)
(* ResetCompletes: once the bus goes quiet, a thread blocked in            *)
(* i2c_reset(false) on a full mailbox returns: the worker thread starts,   *)
(* drains the mailbox, and the waiting post gets its slot.  While the bus  *)
(* stays busy, IRQ posts may take every freed slot first.                  *)
(***************************************************************************)
ResetCompletes ==
  <>[][~IrqStep]_vars => [](resetter = "posting" => <>(resetter = "idle"))
====
