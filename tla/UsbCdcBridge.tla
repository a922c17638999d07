---------------------------- MODULE UsbCdcBridge ----------------------------
(***************************************************************************)
(* The USB-CDC to UART bridge firmware (src/app/usb-cdc/main.c).  The main *)
(* thread supervises: it follows the USB driver state and the "line coding *)
(* changed" flag set by the SET_LINE_CODING callback, starts the UART and   *)
(* two forwarder threads (u2s: USB to UART, s2u: UART to USB) when the link *)
(* is active, and stops them through fe_resume, joins them, stops the UART  *)
(* and applies the host's line coding when the link drops or the coding     *)
(* changes.  The USB interrupt changes the driver state and runs the class  *)
(* request hook.                                                            *)
(***************************************************************************)
EXTENDS Integers, Sequences

CONSTANTS
  Codings,          \* line codings (cdc_linecoding_t) the host may set
  C0,               \* the initial fe_serial_config: 115200 bps, 8N1
  MaxCodingChanges  \* bound: SET_LINE_CODING requests the host sends

ASSUME /\ C0 \in Codings
       /\ MaxCodingChanges \in Nat

UsbStates == {"ready", "active", "suspended"}
Threads == {"u2s", "s2u"}

VARIABLES
  usb_state,      \* SDU1.config->usbp->state, changed by the USB interrupt
  last_state,     \* last_state of main
  coding,         \* fe_serial_config, written by the USB control transfer
  update,         \* fe_update_config
  resume,         \* fe_resume
  serial_active,  \* fe_serial_active: SD1 started
  uart_cfg,       \* _sd1_config as computed from a line coding
  fwd,            \* thread handle and state: "none" (NULL), "run" (at the
                  \* loop head), "read" (in chnReadTimeout), "write" (in
                  \* chnWriteTimeout), "exited" (returned, not joined)
  ctl,            \* EP0: "idle", or "status" between a SET_LINE_CODING data
                  \* stage and its completion callback
  mpc,            \* where the main thread is in its loop
  bitcount,       \* main's local bitcount, between the parity and data
                  \* bits switches
  changes,        \* SET_LINE_CODING requests so far
  applied         \* ghost: the line coding main last read into _sd1_config

vars == <<usb_state, last_state, coding, update, resume, serial_active,
          uart_cfg, fwd, ctl, mpc, bitcount, changes, applied>>

-----------------------------------------------------------------------------
(***************************************************************************)
(* _sd1_config: speed, CR2 STOP field, CR1 PCE and PS (parity enable, odd) *)
(* and CR1 M1, M0 (word length 7 or 9 bits; neither: 8; both: reserved).  *)
(* Statically 115200 bps with CR1 = CR2 = 0, i.e. 8N1.                    *)
(***************************************************************************)
InitUart == [speed |-> 115200, stop |-> "1", pce |-> FALSE, ps |-> FALSE,
             m1 |-> FALSE, m0 |-> FALSE]

StopField(s) == CASE s = 0 -> "1" [] s = 1 -> "1.5" [] s = 2 -> "2"
                  [] OTHER -> "1"        \* field cleared, value rejected

\* get_uint32 and set_uint32 (tools.h): a little-endian 32-bit integer in
\* a 4-byte stream
get_uint32(buf) == buf[1] + 256 * buf[2] + 65536 * buf[3] + 16777216 * buf[4]
set_uint32(value) ==
  <<value % 256, (value \div 256) % 256, (value \div 65536) % 256,
    (value \div 16777216) % 256>>

\* The switch on bCharFormat: the STOP field is cleared, then set
ApplyStop(cfg, s) == [cfg EXCEPT !.stop = StopField(s)]

\* The parity switch's bitcount: one for an odd or even parity bit
ParityBits(p) == IF p \in {1, 2} THEN 1 ELSE 0

\* A parity step whose CR1 mask leaves the word length bits set
ApplyParityKeepWordLength(cfg, p) == [cfg EXCEPT !.pce = p \in {1, 2}, !.ps = p = 1]

\* M1, M0, PCE and PS cleared, then PCE (and PS for odd) set by the switch
\* on bParityType
ApplyParity(cfg, p) ==
  [cfg EXCEPT !.pce = p \in {1, 2}, !.ps = p = 1, !.m1 = FALSE, !.m0 = FALSE]

\* A data bits step with the two word length bits swapped
ApplyDataBitsSwappedM(cfg, bc, b) ==
  LET n == bc + (IF b \in {7, 8} THEN b ELSE 0)
  IN [cfg EXCEPT !.m1 = @ \/ n = 9, !.m0 = @ \/ n = 7]

\* The switch on bDataBits adds 7 or 8 to bitcount; 7 sets M1, 9 sets M0
ApplyDataBits(cfg, bc, b) ==
  LET n == bc + (IF b \in {7, 8} THEN b ELSE 0)
  IN [cfg EXCEPT !.m1 = @ \/ n = 7, !.m0 = @ \/ n = 9]

\* The UART setting a line coding asks for: every step applied to one coding
UartConfig(c) ==
  ApplyDataBits(ApplyParity(ApplyStop([InitUart EXCEPT !.speed = get_uint32(c.rate)],
                                      c.stop), c.parity),
                ParityBits(c.parity), c.bits)

\* _forwarder_engine as linked: dwDTERate is not initialised, so it is zero
StaticCoding == [C0 EXCEPT !.rate = <<0, 0, 0, 0>>]

\* main starts with the USB driver stopped and fe_serial_config static
Init ==
  /\ usb_state = "stop"
  /\ last_state = "uninit"
  /\ coding = StaticCoding
  /\ update = FALSE
  /\ resume = FALSE
  /\ serial_active = FALSE
  /\ uart_cfg = InitUart
  /\ fwd = [t \in Threads |-> "none"]
  /\ ctl = "idle"
  /\ mpc = "start"
  /\ bitcount = 0
  /\ changes = 0
  /\ applied = [C0 EXCEPT !.rate = set_uint32(InitUart.speed)]

-----------------------------------------------------------------------------
\* main before its loop: set_uint32 stores _sd1_config.speed into dwDTERate,
\* then SDU1 and the USB driver are started and the pull-up connected; from
\* here on the USB interrupt runs.
MainUsbStart ==
  /\ mpc = "start"
  /\ coding' = [coding EXCEPT !.rate = set_uint32(uart_cfg.speed)]
  /\ usb_state' = "ready"
  /\ mpc' = "init"
  /\ UNCHANGED <<last_state, update, resume, serial_active, uart_cfg, fwd,
                 ctl, bitcount, changes, applied>>

\* The thread handles start NULL and fe_update_config is cleared, after
\* usbConnectBus
MainStartDone ==
  /\ mpc = "init"
  /\ update' = FALSE
  /\ mpc' = "poll"
  /\ UNCHANGED <<usb_state, last_state, coding, resume, serial_active, uart_cfg,
                 fwd, ctl, bitcount, changes, applied>>

\* Main loop head: sleep while nothing changed, else latch the USB state
MainPoll ==
  /\ mpc = "poll"
  /\ usb_state # last_state \/ update
  /\ last_state' = usb_state
  /\ mpc' = "decide"
  /\ UNCHANGED <<usb_state, coding, update, resume, serial_active, uart_cfg,
                 fwd, changes, applied, ctl, bitcount>>

\* A pending line coding change stops the forwarders; otherwise main logs
\* the USB state (MSGV) before acting on it.
MainDecide ==
  /\ mpc = "decide"
  /\ IF update
     THEN /\ resume' = FALSE
          /\ mpc' = "join_u2s"
     ELSE /\ mpc' = "log"
          /\ UNCHANGED resume
  /\ UNCHANGED <<usb_state, last_state, coding, update, serial_active,
                 uart_cfg, fwd, changes, applied, ctl, bitcount>>

\* Link active: start SD1 if needed and create the missing forwarders
MainActive ==
  /\ mpc = "log"
  /\ last_state = "active"
  /\ resume' = TRUE
  /\ serial_active' = TRUE
  /\ fwd' = [t \in Threads |-> IF fwd[t] = "none" THEN "run" ELSE fwd[t]]
  /\ mpc' = "poll"
  /\ UNCHANGED <<usb_state, last_state, coding, update, uart_cfg, changes, applied, ctl, bitcount>>

\* Link not active: drop any pending change and stop the forwarders
MainInactive ==
  /\ mpc = "log"
  /\ last_state # "active"
  /\ update' = FALSE
  /\ resume' = FALSE
  /\ mpc' = "join_u2s"
  /\ UNCHANGED <<usb_state, last_state, coding, serial_active, uart_cfg, fwd,
                 changes, applied, ctl, bitcount>>

\* A join that drops the handle without waiting for the thread
MainJoinSkip(t, at, next) ==
  /\ mpc = at
  /\ fwd' = [fwd EXCEPT ![t] = IF @ = "exited" THEN "none" ELSE @]
  /\ mpc' = next
  /\ UNCHANGED <<usb_state, last_state, coding, update, resume, serial_active,
                 uart_cfg, changes, applied, ctl, bitcount>>

\* chThdWait on a forwarder (skipped when its handle is NULL)
MainJoin(t, at, next) ==
  /\ mpc = at
  /\ fwd[t] \in {"none", "exited"}
  /\ fwd' = [fwd EXCEPT ![t] = "none"]
  /\ mpc' = next
  /\ UNCHANGED <<usb_state, last_state, coding, update, resume, serial_active,
                 uart_cfg, changes, applied, ctl, bitcount>>

\* sdStop; on a pending change get_uint32 reads dwDTERate into the speed.
\* main then reads the other fields of fe_serial_config one switch at a
\* time, and the USB interrupt may write it in between.
MainStop ==
  /\ mpc = "stop"
  /\ serial_active' = FALSE
  /\ IF update
     THEN /\ uart_cfg' = [uart_cfg EXCEPT !.speed = get_uint32(coding.rate)]
          /\ applied' = [applied EXCEPT !.rate = coding.rate]
          /\ mpc' = "cfg_stop"
     ELSE /\ mpc' = "poll"
          /\ UNCHANGED <<uart_cfg, applied>>
  /\ UNCHANGED <<usb_state, last_state, coding, update, resume, fwd, changes, ctl, bitcount>>

\* The switch on bCharFormat
MainStopBits ==
  /\ mpc = "cfg_stop"
  /\ uart_cfg' = ApplyStop(uart_cfg, coding.stop)
  /\ applied' = [applied EXCEPT !.stop = coding.stop]
  /\ mpc' = "cfg_parity"
  /\ UNCHANGED <<usb_state, last_state, coding, update, resume, serial_active,
                 fwd, changes, ctl, bitcount>>

\* The CR1 mask and the switch on bParityType
MainParity ==
  /\ mpc = "cfg_parity"
  /\ uart_cfg' = ApplyParity(uart_cfg, coding.parity)
  /\ bitcount' = ParityBits(coding.parity)
  /\ applied' = [applied EXCEPT !.parity = coding.parity]
  /\ mpc' = "cfg_bits"
  /\ UNCHANGED <<usb_state, last_state, coding, update, resume, serial_active,
                 fwd, changes, ctl>>

\* The switch on bDataBits and the word length bits
MainDataBits ==
  /\ mpc = "cfg_bits"
  /\ uart_cfg' = ApplyDataBits(uart_cfg, bitcount, coding.bits)
  /\ applied' = [applied EXCEPT !.bits = coding.bits]
  /\ mpc' = "reconf_done"
  /\ UNCHANGED <<usb_state, last_state, coding, update, resume, serial_active,
                 fwd, changes, ctl, bitcount>>

\* A reconfiguration that does not force the re-init
MainReconfDoneNoReinit ==
  /\ mpc = "reconf_done"
  /\ update' = FALSE
  /\ resume' = TRUE
  /\ mpc' = "poll"
  /\ UNCHANGED <<usb_state, last_state, coding, serial_active, uart_cfg, fwd,
                 changes, applied, ctl, bitcount>>

\* After logging the new settings: clear the flag, resume, force a re-init
MainReconfDone ==
  /\ mpc = "reconf_done"
  /\ update' = FALSE
  /\ resume' = TRUE
  /\ last_state' = "uninit"
  /\ mpc' = "poll"
  /\ UNCHANGED <<usb_state, coding, serial_active, uart_cfg, fwd, changes, applied, ctl, bitcount>>

-----------------------------------------------------------------------------
(***************************************************************************)
(* _forward_usb_to_serial and _forward_serial_to_usb: loop while fe_resume *)
(* holds, read with a 5 ms timeout, write what was read with TIME_INFINITE. *)
(* fe_resume is tested only at the loop head: a read already in progress  *)
(* when main clears it still returns its data and writes it.              *)
(***************************************************************************)
\* The loop condition finds fe_resume cleared: the thread returns
FwdExit(t) ==
  /\ fwd[t] = "run"
  /\ ~resume
  /\ fwd' = [fwd EXCEPT ![t] = "exited"]
  /\ UNCHANGED <<usb_state, last_state, coding, update, resume, serial_active,
                 uart_cfg, mpc, changes, applied, ctl, bitcount>>

\* The loop condition finds fe_resume set: the thread calls chnReadTimeout
FwdEnter(t) ==
  /\ fwd[t] = "run"
  /\ resume
  /\ fwd' = [fwd EXCEPT ![t] = "read"]
  /\ UNCHANGED <<usb_state, last_state, coding, update, resume, serial_active,
                 uart_cfg, mpc, changes, applied, ctl, bitcount>>

\* chnReadTimeout returned data, whatever fe_resume is by now
FwdRead(t) ==
  /\ fwd[t] = "read"
  /\ fwd' = [fwd EXCEPT ![t] = "write"]
  /\ UNCHANGED <<usb_state, last_state, coding, update, resume, serial_active,
                 uart_cfg, mpc, changes, applied, ctl, bitcount>>

\* chnReadTimeout timed out after 5 ms with no data: continue
FwdTimeout(t) ==
  /\ fwd[t] = "read"
  /\ fwd' = [fwd EXCEPT ![t] = "run"]
  /\ UNCHANGED <<usb_state, last_state, coding, update, resume, serial_active,
                 uart_cfg, mpc, changes, applied, ctl, bitcount>>

\* chnWriteTimeout completed: the other side took the bytes
FwdWrite(t) ==
  /\ fwd[t] = "write"
  /\ fwd' = [fwd EXCEPT ![t] = "run"]
  /\ UNCHANGED <<usb_state, last_state, coding, update, resume, serial_active,
                 uart_cfg, mpc, changes, applied, ctl, bitcount>>

-----------------------------------------------------------------------------
\* The USB interrupt: enumeration, suspend, wake-up, bus reset.  A bus
\* reset (back to ready) aborts a control transfer before its callback.
\* main clears fe_update_config a few instructions after usbConnectBus
\* (main.c:194-200), far sooner than a host can enumerate, so the driver
\* leaves ready only once main is in its loop.
UsbEvent ==
  /\ usb_state # "stop"
  /\ mpc # "init"
  /\ \E st \in UsbStates \ {usb_state} :
       /\ usb_state' = st
       /\ ctl' = IF st = "ready" THEN "idle" ELSE ctl
  /\ UNCHANGED <<last_state, coding, update, resume, serial_active, uart_cfg,
                 fwd, mpc, changes, applied, bitcount>>

\* sdu_requests_hook, CDC_SET_LINE_CODING: the data stage writes the 7 bytes
\* into fe_serial_config in one interrupt
SetLineCoding(c) ==
  /\ usb_state = "active"
  /\ ctl = "idle"
  /\ changes < MaxCodingChanges
  /\ coding' = c
  /\ ctl' = "status"
  /\ changes' = changes + 1
  /\ UNCHANGED <<usb_state, last_state, update, resume, serial_active, uart_cfg,
                 fwd, mpc, applied, bitcount>>

\* _update_line_coding, called when the control transfer completes
UpdateLineCoding ==
  /\ ctl = "status"
  /\ update' = TRUE
  /\ ctl' = "idle"
  /\ UNCHANGED <<usb_state, last_state, coding, resume, serial_active, uart_cfg,
                 fwd, mpc, changes, applied, bitcount>>

Main ==
  \/ MainUsbStart \/ MainStartDone
  \/ MainPoll \/ MainDecide \/ MainActive \/ MainInactive
  \/ MainJoin("u2s", "join_u2s", "join_s2u")
  \/ MainJoin("s2u", "join_s2u", "stop")
  \/ MainStop \/ MainStopBits \/ MainParity \/ MainDataBits \/ MainReconfDone

Next ==
  \/ Main
  \/ \E t \in Threads : FwdExit(t) \/ FwdEnter(t) \/ FwdRead(t) \/ FwdTimeout(t)
                        \/ FwdWrite(t)
  \/ UsbEvent
  \/ \E c \in Codings : SetLineCoding(c)
  \/ UpdateLineCoding

(***************************************************************************)
(* The main thread polls every 100 ms and each forwarder loops every 5 ms: *)
(* weak fairness on their steps, a read returning data or timing out.  A write completes when the peer drains   *)
(* it (the UART has RTS/CTS flow control, USB needs the host to read), so  *)
(* write completion is assumed fair: a peer that stops reading for ever    *)
(* stalls the bridge, which no code path guards against.  Data arrival,    *)
(* the USB interrupt and the host get no fairness.                         *)
(***************************************************************************)
Fairness ==
  /\ WF_vars(Main)
  /\ \A t \in Threads : /\ WF_vars(FwdExit(t) \/ FwdEnter(t))
                        /\ WF_vars(FwdRead(t) \/ FwdTimeout(t))
                        /\ WF_vars(FwdWrite(t))

Spec == Init /\ [][Next]_vars /\ Fairness

-----------------------------------------------------------------------------
TypeOK ==
  /\ usb_state \in UsbStates \cup {"stop"}
  /\ last_state \in UsbStates \cup {"uninit"}
  /\ coding \in Codings \cup {StaticCoding}
  /\ update \in BOOLEAN /\ resume \in BOOLEAN /\ serial_active \in BOOLEAN
  /\ uart_cfg \in [speed : {get_uint32(c.rate) : c \in Codings}, stop : {"1", "1.5", "2"},
                  pce : BOOLEAN, ps : BOOLEAN, m1 : BOOLEAN, m0 : BOOLEAN]
  /\ ~(uart_cfg.m1 /\ uart_cfg.m0)      \* M[1:0] = 11 is reserved
  /\ fwd \in [Threads -> {"none", "run", "read", "write", "exited"}]
  /\ mpc \in {"start", "init", "poll", "decide", "log", "join_u2s", "join_s2u", "stop",
              "cfg_stop", "cfg_parity", "cfg_bits", "reconf_done"}
  /\ ctl \in {"idle", "status"}
  /\ bitcount \in 0..1
  /\ changes \in 0..MaxCodingChanges

(***************************************************************************)
(* ForwardersNeedUart: a forwarder only runs, reads or writes while SD1 is *)
(* started: main joins both threads before sdStop and starts SD1 before    *)
(* creating them again.                                                    *)
(***************************************************************************)
ForwardersNeedUart ==
  \A t \in Threads : fwd[t] \in {"run", "read", "write"} => serial_active

(***************************************************************************)
(* ForwardingResumes: while the link stays active, both forwarders end up  *)
(* running on a started UART, whatever link changes and line coding        *)
(* changes came before.                                                    *)
(***************************************************************************)
ForwardingResumes ==
  usb_state = "active" ~>
    (usb_state # "active" \/ (serial_active /\ \A t \in Threads : fwd[t] # "none"
                                            /\ fwd[t] # "exited" /\ resume))

(***************************************************************************)
(* UartMatchesLineCoding: whenever main sleeps in its poll with the link  *)
(* active, the UART running, no change pending and no SET_LINE_CODING      *)
(* between its data stage and its callback, the UART runs with the line    *)
(* coding the host last set, the one GET_LINE_CODING reports back          *)
(* (fe_serial_config).                                                     *)
(***************************************************************************)
UartMatchesLineCoding ==
  (/\ mpc = "poll" /\ usb_state = "active" /\ last_state = "active"
   /\ serial_active /\ ~update /\ ctl = "idle")
    => uart_cfg = UartConfig(coding)

(***************************************************************************)
(* UartFrameMatches: while SD1 runs with a line coding the code accepts    *)
(* (1, 1.5 or 2 stop bits, no, odd or even parity, 7 or 8 data bits), it  *)
(* sends the frame of the coding main last read from fe_serial_config:     *)
(* the speed, the stop bits, the parity, and a word length that counts the *)
(* parity bit, as the STM32 USART does.                                    *)
(***************************************************************************)
\* The value of a little-endian byte string, as the host encodes dwDTERate
RECURSIVE LittleEndian(_)
LittleEndian(bytes) ==
  IF bytes = <<>> THEN 0 ELSE Head(bytes) + 256 * LittleEndian(Tail(bytes))

Supported(c) == c.stop \in {0, 1, 2} /\ c.parity \in {0, 1, 2} /\ c.bits \in {7, 8}

WordLength(cfg) == IF cfg.m1 THEN 7 ELSE IF cfg.m0 THEN 9 ELSE 8

UartFrameMatches ==
  (serial_active /\ Supported(applied)) =>
    /\ uart_cfg.speed = LittleEndian(applied.rate)
    /\ uart_cfg.stop = <<"1", "1.5", "2">>[applied.stop + 1]
    /\ uart_cfg.pce = (applied.parity # 0)
    /\ uart_cfg.pce => uart_cfg.ps = (applied.parity = 1)
    /\ WordLength(uart_cfg) - (IF uart_cfg.pce THEN 1 ELSE 0) = applied.bits
====
