----------------------------- MODULE MC_UsbDevice -----------------------------
(***************************************************************************)
(* UsbDevice for TLC: the host probes the four strings the descriptors     *)
(* name, an index one past them (4) and the 0xEE index hosts probe for an  *)
(* OS descriptor; it sets 115200 8N1 or 9600 7E2.                          *)
(***************************************************************************)
EXTENDS UsbDevice

MCStrProbes == {4, 238}

MCCodings == {[rate |-> 115200, stop |-> 0, parity |-> 0, bits |-> 8],
              [rate |-> 9600, stop |-> 2, parity |-> 2, bits |-> 7]}
====
