--------------------------- MODULE MC_UsbCdcBridge ---------------------------
(***************************************************************************)
(* Model-checking instance of UsbCdcBridge.  Line codings are records of   *)
(* cdc_linecoding_t's fields: dwDTERate (4 bytes), bCharFormat (0: 1,      *)
(* 1: 1.5, 2: 2 stop bits), bParityType (0 none, 1 odd, 2 even, 3 mark,    *)
(* 4 space) and bDataBits.                                                 *)
(***************************************************************************)
EXTENDS UsbCdcBridge

\* The host sends dwDTERate little-endian (CDC PSTN 6.3.11)
Coding(rate, stop, parity, bits) ==
  [rate |-> <<rate % 256, (rate \div 256) % 256, (rate \div 65536) % 256, 0>>,
   stop |-> stop, parity |-> parity, bits |-> bits]

\* 115200 8N1 (the boot setting) and 9600 7O2 (all three CR fields differ)
MC_C0 == Coding(115200, 0, 0, 8)
MC_Codings == {MC_C0, Coding(9600, 2, 1, 7)}

\* ... plus settings the code rejects or only half applies
MC_AllCodings == MC_Codings \cup {Coding(9600, 1, 2, 8), Coding(9600, 0, 3, 5),
                                  Coding(9600, 3, 0, 7)}
=============================================================================
