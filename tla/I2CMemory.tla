----------------------------- MODULE I2CMemory -----------------------------
(***************************************************************************)
(* What the busmem I2C slave promises its bus master (spec.md 4.2 and 6): *)
(* a memory of BufSize bytes.  A request begins with a register address;   *)
(* the bytes after it are stored from that address, clipped at the end of *)
(* the buffer.  A read that follows serves the memory from the address the *)
(* master last wrote, up to the end of the buffer, and only once: a re-read *)
(* without a fresh address write serves nothing.  A bus error resets the  *)
(* tracked address "to a safe default" (spec.md 7): no read pointer, or    *)
(* address 0.  The spec does not say what a request of a single byte       *)
(* addresses, so such a request may set the pointer to any address.       *)
(* last_event makes every bus event visible, so that a bus error is a step *)
(* of this specification and not a stuttering step.                        *)
(***************************************************************************)
EXTENDS Integers, Sequences

CONSTANTS
  AddrSpace, \* register addresses the master can send (2^16)
  BufSize,   \* size of the emulated memory
  Values,    \* data byte values
  MaxRead    \* longest read the master performs

VARIABLES
  mem,         \* the emulated memory
  ptr,         \* where the next read starts, NoPtr for none
  served,      \* bytes served by the last read
  last_event,  \* the last bus event
  request      \* the last request the master sent: byte count, address, data
absvars == <<mem, ptr, served, last_event, request>>

NoPtr == -1
Addrs == 0..BufSize - 1

\* Bytes of m from p on: at most k, never past the end of the buffer
Slice(m, p, k) ==
  IF p = NoPtr THEN <<>>
  ELSE [i \in 1..(IF k < BufSize - p THEN k ELSE BufSize - p) |-> m[p + i - 1]]

\* data stored from address a; bytes that would fall past the end are dropped
Store(m, a, data) ==
  [i \in Addrs |-> IF i >= a /\ i < a + Len(data) THEN data[i - a + 1] ELSE m[i]]

AbsInit ==
  /\ mem = [i \in Addrs |-> 0]
  /\ ptr = NoPtr
  /\ served = <<>>
  /\ last_event = "none"
  /\ request = [len |-> 0, addr |-> 0, data |-> <<>>]

\* A request holding a register address w and zero or more data bytes: the
\* address is taken modulo the buffer size and the data stored from it.
Request(w, data) ==
  /\ request' = [len |-> 2 + Len(data), addr |-> w, data |-> data]
  /\ mem' = Store(mem, w % BufSize, data)
  /\ ptr' = w % BufSize
  /\ last_event' = "request"
  /\ UNCHANGED served

\* A request with no byte at all changes nothing
EmptyRequest ==
  /\ request' = [len |-> 0, addr |-> 0, data |-> <<>>]
  /\ last_event' = "request"
  /\ UNCHANGED <<mem, ptr, served>>

\* A request of the single byte b: some read pointer, memory unchanged
ShortRequest(b) ==
  /\ request' = [len |-> 1, addr |-> b, data |-> <<>>]
  /\ ptr' \in Addrs
  /\ last_event' = "request"
  /\ UNCHANGED <<mem, served>>

Read(k) ==
  /\ served' = Slice(mem, ptr, k)
  /\ ptr' = NoPtr
  /\ last_event' = "response"
  /\ UNCHANGED <<mem, request>>

BusError ==
  /\ ptr' \in {NoPtr, 0}
  /\ last_event' = "error"
  /\ UNCHANGED <<mem, served, request>>

AbsNext ==
  \/ \E w \in 0..AddrSpace - 1, n \in 0..BufSize :
        \E data \in [1..n -> Values] : Request(w, data)
  \/ EmptyRequest
  \/ \E b \in 0..AddrSpace - 1 : ShortRequest(b)
  \/ \E k \in 1..MaxRead : Read(k)
  \/ BusError

AbsSpec == AbsInit /\ [][AbsNext]_absvars
=============================================================================
