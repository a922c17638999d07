------------------------------- MODULE CmdSM -------------------------------
(***************************************************************************)
(* The busmem remote command state machine (src/app/busmem/cmd.c) driven   *)
(* by the USB thread (src/app/busmem/usb.c, _usb_thread), together with    *)
(* the transmit mutex it shares with the streaming API (cmd_stream_msg,    *)
(* cmd_signal_eos) called from another thread.                             *)
(*                                                                         *)
(* Bytes are ASCII codes.  A handler's message is abstracted to which      *)
(* message the frame buffer holds (uf_body) and to whether it is empty:    *)
(* the dispatch loop only tests uf_length against zero, so every non-empty *)
(* message is given length 1, which fits any frame capacity.               *)
(***************************************************************************)
EXTENDS Integers, Sequences, Bitwise

CONSTANTS
  FrameSize,  \* CMD_FRAME_SIZE, capacity of uf_payload (64 in cmd.h)
  HostBytes,  \* the byte values the USB host may send
  MaxLine,    \* bound: bytes of one request line the host sends
  MaxReply    \* bound: reply tokens the ghost `reply' records

ASSUME /\ FrameSize \in Nat \ {0}
       /\ HostBytes \subseteq 0..255
       /\ MaxLine \in Nat /\ MaxLine >= 2
       /\ MaxReply \in Nat

\* ASCII codes and error numbers used by cmd.c
LF == 10
SP == 32
COLON == 58
CMD_BASE == 64          \* '@'
ENOSYS == 38
E2BIG == 7
EINVAL == 22

\* Messages a handler can leave in the frame buffer
ARGS == 0       \* the argument bytes received from the host
HELP_H == 1     \* "H:          Help\n"
HELP_I == 2     \* "I:          Identify\n"
IDENT == 3      \* "i: r0.1.0-<gitver> (<date>)\n"

States == {"SS_IDLE", "SS_RX_CMD", "SS_RX_ARG", "SS_REQUEST", "SS_TX", "SS_ERROR"}
UsbStates == {"ready", "active", "suspended"}

VARIABLES
  cs_state, cs_step, cs_error, cs_can_tx,  \* struct cmd_sm
  uf_cmd, uf_length, uf_body,              \* struct cmd_frame
  cs_tx_mtx,   \* owner of cs_tx_mtx: "none", "usb" or "app"
  usb_pc,      \* USB thread: "idle", "lock" (in chMtxLock of dispatch),
               \* "loop" (in the dispatch loop) or "crashed"
  handler, dcmd, send_ack,  \* locals of _cmd_inject_command
  usb_state,   \* USB driver state, changed by the USB interrupt
  last_state,  \* last_state of _usb_thread
  app_pc,      \* the thread calling cmd_stream_msg / cmd_signal_eos
  oob_slot,    \* what _CMD_COMMANDS[10] holds in the built image
  push,        \* ghost: outcome of the last push that took the mutex
  line,        \* ghost: bytes of the current request line
  reply        \* ghost: tokens sent by the current (or last) dispatch

vars == <<cs_state, cs_step, cs_error, cs_can_tx, uf_cmd, uf_length, uf_body,
          cs_tx_mtx, usb_pc, handler, dcmd, send_ack, usb_state, last_state,
          app_pc, oob_slot, push, line, reply>>

-----------------------------------------------------------------------------
(* Reply tokens sent through usb_send_reply by the dispatch loop.          *)
Ack(c) == [k |-> "ack", v |-> c]      \* "%c 0\n"
Err(rc) == [k |-> "err", v |-> rc]    \* "E %d\n"
Data(m) == [k |-> "data", v |-> m]    \* uf_payload, uf_length bytes
Term == [k |-> "term", v |-> 0]       \* "\n" ending a synchronous reply

IsSep(b) == b \in {SP, COLON}
IsAlnum(b) == b \in (48..57) \cup (65..90) \cup (97..122)

\* _CMD_COMMANDS: slots '@'..'I' (ARRAY_SIZE = 10), unset slots are NULL
CMD_COMMANDS == [s \in 0..9 |-> CASE s = 0 -> "error"
                                  [] s = 8 -> "help"
                                  [] s = 9 -> "ident"
                                  [] OTHER -> "none"]

\* _cmd_is_valid_cmd_slot: accepts CMD_BASE .. CMD_BASE + ARRAY_SIZE
IsValidCmdSlot(c) == c >= CMD_BASE /\ c <= CMD_BASE + 10

\* _cmd_get_handler: slot 10 ('J') passes the check and is read past the
\* end of the array; what it finds there is fixed by the build (oob_slot).
GetHandler(c) ==
  IF ~IsValidCmdSlot(c) THEN "none"
  ELSE IF c - CMD_BASE \in DOMAIN CMD_COMMANDS THEN CMD_COMMANDS[c - CMD_BASE]
  ELSE oob_slot

\* _cmd_is_async: only slot 0 exists; slot 1 ('A') would be read out of
\* bounds, but 'A' has no handler so the loop never asks for it.
IsAsync(c) == FALSE

\* A cmd_reset that forgets to clear the frame length
CmdResetKeepsLength ==
  /\ uf_length' = uf_length
  /\ cs_error' = 0
  /\ cs_state' = "SS_RX_CMD"

\* cmd_reset: clears length, position and error, back to SS_RX_CMD
CmdReset ==
  /\ uf_length' = 0
  /\ cs_error' = 0
  /\ cs_state' = "SS_RX_CMD"

-----------------------------------------------------------------------------
Init ==
  /\ cs_state = "SS_IDLE"       \* static zero; cmd_reset not yet called
  /\ cs_step = 0
  /\ cs_error = 0
  /\ cs_can_tx = FALSE
  /\ uf_cmd = 0
  /\ uf_length = 0
  /\ uf_body = ARGS
  /\ cs_tx_mtx = "none"
  /\ usb_pc = "idle"
  /\ handler = "none"
  /\ dcmd = 0
  /\ send_ack = FALSE
  /\ usb_state = "ready"        \* after usbStart, before enumeration
  /\ last_state = "uninit"
  /\ app_pc = "idle"
  /\ oob_slot \in {"none", "garbage"}
  /\ push = "none"
  /\ line = <<>>
  /\ reply = <<>>

-----------------------------------------------------------------------------
(***************************************************************************)
(* cmd_receive_byte, called by the USB thread for every byte it reads.     *)
(***************************************************************************)
\* Variables a received byte never touches
RxFrame == <<cs_can_tx, cs_tx_mtx, usb_state, last_state, app_pc, oob_slot, push>>
\* Locals and ghost of the dispatch
Disp == <<usb_pc, handler, dcmd, send_ack, cs_step, reply>>

\* The USB thread delivers bytes only once it has seen the link active and
\* is not dispatching; the echo takes cs_tx_mtx (chMtxLock).
Echo ==
  /\ usb_pc = "idle"
  /\ last_state = "active"
  /\ cs_tx_mtx = "none"

\* The host ends each request line within MaxLine bytes.
HostMay(b) ==
  (cs_state \in {"SS_RX_ARG", "SS_ERROR"} /\ Len(line) + 1 >= MaxLine) => b = LF

LineNext(b) ==
  line' = CASE cs_state = "SS_RX_CMD" -> <<b>>
            [] cs_state \in {"SS_RX_ARG", "SS_ERROR"} -> Append(line, b)
            [] OTHER -> line

\* _cmd_inject_command, up to chMtxLock: SS_REQUEST is overwritten by SS_TX
\* before anything reads it.
Inject(c) ==
  /\ cs_state' = "SS_TX"
  /\ cs_step' = 0
  /\ send_ack' = TRUE
  /\ dcmd' = c
  /\ handler' = GetHandler(c)
  /\ usb_pc' = "lock"
  /\ reply' = <<>>

RxCmd(b) ==
  /\ cs_state = "SS_RX_CMD"
  /\ uf_cmd' = b
  /\ cs_state' = "SS_RX_ARG"
  /\ UNCHANGED <<cs_error, uf_length, uf_body>> /\ UNCHANGED Disp

\* A capacity check that lets one byte too many in
ArgOverflowOffByOne == uf_length > FrameSize

\* SS_RX_ARG: the frame buffer is full
ArgOverflow == uf_length >= FrameSize

RxArg(b) ==
  /\ cs_state = "SS_RX_ARG"
  /\ \/ /\ IsSep(b)
        /\ UNCHANGED <<cs_state, cs_error, uf_cmd, uf_length, uf_body>>
        /\ UNCHANGED Disp
     \/ /\ b = LF
        /\ Inject(uf_cmd)
        /\ UNCHANGED <<cs_error, uf_cmd, uf_length, uf_body>>
     \/ /\ ~IsSep(b) /\ b # LF
        /\ ArgOverflow
        /\ cs_error' = -E2BIG
        /\ cs_state' = "SS_ERROR"
        /\ UNCHANGED <<uf_cmd, uf_length, uf_body>> /\ UNCHANGED Disp
     \/ /\ ~IsSep(b) /\ b # LF
        /\ ~ArgOverflow
        /\ IsAlnum(b)
        /\ uf_length' = uf_length + 1
        /\ uf_body' = ARGS
        /\ UNCHANGED <<cs_state, cs_error, uf_cmd>> /\ UNCHANGED Disp
     \/ /\ ~IsSep(b) /\ b # LF
        /\ ~ArgOverflow
        /\ ~IsAlnum(b)
        /\ cs_error' = -EINVAL
        /\ cs_state' = "SS_ERROR"
        /\ UNCHANGED <<uf_cmd, uf_length, uf_body>> /\ UNCHANGED Disp

RxError(b) ==
  /\ cs_state = "SS_ERROR"
  /\ b = LF
  /\ uf_cmd' = CMD_BASE            \* special error case: '@'
  /\ Inject(CMD_BASE)
  /\ UNCHANGED <<cs_error, uf_length, uf_body>>

\* SS_ERROR drops everything but LF; SS_IDLE, SS_REQUEST and SS_TX drop all
RxIgnored(b) ==
  /\ \/ cs_state = "SS_ERROR" /\ b # LF
     \/ cs_state \in {"SS_IDLE", "SS_REQUEST", "SS_TX"}
  /\ UNCHANGED <<cs_state, cs_error, uf_cmd, uf_length, uf_body>>
  /\ UNCHANGED Disp

cmd_receive_byte(b) ==
  /\ Echo
  /\ HostMay(b)
  /\ LineNext(b)
  /\ RxCmd(b) \/ RxArg(b) \/ RxError(b) \/ RxIgnored(b)
  /\ UNCHANGED RxFrame

-----------------------------------------------------------------------------
(***************************************************************************)
(* _cmd_inject_command after the prologue: take cs_tx_mtx, then one step   *)
(* per iteration of the for(;;) loop.  The iteration that breaks out also  *)
(* unlocks the mutex and calls cmd_reset.                                  *)
(***************************************************************************)
DispatchLock ==
  /\ usb_pc = "lock"
  /\ cs_tx_mtx = "none"
  /\ cs_tx_mtx' = "usb"
  /\ usb_pc' = "loop"
  /\ UNCHANGED <<cs_state, cs_step, cs_error, cs_can_tx, uf_cmd, uf_length,
                 uf_body, handler, dcmd, send_ack, usb_state, last_state,
                 app_pc, oob_slot, push, line, reply>>

\* Return code of the handler: NULL gives -ENOSYS, _cmd_error returns
\* cs_error made non-positive, _cmd_help and _cmd_ident return ENOERR.
HandlerRc ==
  CASE handler = "none"  -> -ENOSYS
    [] handler = "error" -> IF cs_error <= 0 THEN cs_error ELSE -cs_error
    [] OTHER             -> 0

\* An ident handler that stages its line at every step
HandlerFrameIdentRepeats ==
  CASE handler = "help" /\ cs_step = 0  -> [len |-> 1, body |-> HELP_H]
    [] handler = "help" /\ cs_step = 1  -> [len |-> 1, body |-> HELP_I]
    [] handler = "help"                 -> [len |-> 0, body |-> uf_body]
    [] handler = "ident"                -> [len |-> 1, body |-> IDENT]
    [] OTHER                            -> [len |-> uf_length, body |-> uf_body]

\* Frame left by the handler: _cmd_help stages a line at steps 0 and 1,
\* _cmd_ident at step 0, then length 0; _cmd_error leaves the frame as is.
HandlerFrame ==
  CASE handler = "help" /\ cs_step = 0  -> [len |-> 1, body |-> HELP_H]
    [] handler = "help" /\ cs_step = 1  -> [len |-> 1, body |-> HELP_I]
    [] handler = "help"                 -> [len |-> 0, body |-> uf_body]
    [] handler = "ident" /\ cs_step = 0 -> [len |-> 1, body |-> IDENT]
    [] handler = "ident"                -> [len |-> 0, body |-> uf_body]
    [] OTHER                            -> [len |-> uf_length, body |-> uf_body]

\* The ghost reply keeps its first MaxReply tokens.
Record(r, toks) ==
  IF Len(r \o toks) <= MaxReply THEN r \o toks ELSE SubSeq(r \o toks, 1, MaxReply)

DispatchStep ==
  /\ usb_pc = "loop"
  /\ handler # "garbage"
  /\ LET rc   == HandlerRc
         fr   == HandlerFrame
         ack  == IF ~send_ack THEN <<>>
                 ELSE IF rc # 0 THEN <<Err(rc)>> ELSE <<Ack(uf_cmd | 32)>>
         more == rc = 0 /\ fr.len > 0
         rest == IF rc # 0 THEN <<>>
                 ELSE IF fr.len > 0 THEN <<Data(fr.body)>>
                 ELSE IF IsAsync(dcmd) THEN <<>> ELSE <<Term>>
     IN /\ reply' = Record(reply, ack \o rest)
        /\ send_ack' = FALSE
        /\ uf_cmd' = IF send_ack /\ rc = 0 THEN uf_cmd | 32 ELSE uf_cmd
        /\ uf_body' = fr.body
        /\ IF more
           THEN /\ uf_length' = fr.len
                /\ cs_step' = (cs_step + 1) % 256
                /\ UNCHANGED <<cs_state, cs_error, cs_tx_mtx, usb_pc>>
           ELSE /\ cs_tx_mtx' = "none"
                /\ usb_pc' = "idle"
                /\ CmdReset
                /\ UNCHANGED cs_step
  /\ UNCHANGED <<cs_can_tx, handler, dcmd, usb_state, last_state, app_pc,
                 oob_slot, push, line>>

\* A garbage handler pointer is called: the core faults and never returns.
DispatchCrash ==
  /\ usb_pc = "loop"
  /\ handler = "garbage"
  /\ usb_pc' = "crashed"
  /\ UNCHANGED <<cs_state, cs_step, cs_error, cs_can_tx, uf_cmd, uf_length,
                 uf_body, cs_tx_mtx, handler, dcmd, send_ack, usb_state,
                 last_state, app_pc, oob_slot, push, line, reply>>

-----------------------------------------------------------------------------
(***************************************************************************)
(* _usb_thread: one iteration of its polling loop when it does not read    *)
(* bytes.  On a change to ACTIVE it calls cmd_signal_usb(true), whose body *)
(* is empty; on a change to any other state it calls cmd_signal_usb(false) *)
(* (empty) and cmd_reset.                                                   *)
(***************************************************************************)
UsbPollActive ==
  /\ usb_pc = "idle"
  /\ usb_state = "active"
  /\ last_state # "active"
  /\ last_state' = "active"
  /\ UNCHANGED <<cs_state, cs_step, cs_error, cs_can_tx, uf_cmd, uf_length,
                 uf_body, cs_tx_mtx, usb_pc, handler, dcmd, send_ack,
                 usb_state, app_pc, oob_slot, push, line, reply>>

UsbPollInactive ==
  /\ usb_pc = "idle"
  /\ usb_state # "active"
  /\ usb_state # last_state
  /\ last_state' = usb_state
  /\ CmdReset
  /\ line' = <<>>
  /\ UNCHANGED <<cs_step, cs_can_tx, uf_cmd, uf_body, cs_tx_mtx, usb_pc,
                 handler, dcmd, send_ack, usb_state, app_pc, oob_slot, push,
                 reply>>

\* The USB interrupt moves the driver between its states (enumeration,
\* suspend, wake-up, bus reset).  The first poll of _usb_thread follows
\* usbConnectBus by a few instructions (usb.c:356-361), and a host needs
\* far longer to enumerate, so the driver changes state only after the
\* thread has read it once.
UsbDriverEvent ==
  /\ last_state # "uninit"
  /\ \E s \in UsbStates \ {usb_state} : usb_state' = s
  /\ UNCHANGED <<cs_state, cs_step, cs_error, cs_can_tx, uf_cmd, uf_length,
                 uf_body, cs_tx_mtx, usb_pc, handler, dcmd, send_ack,
                 last_state, app_pc, oob_slot, push, line, reply>>

-----------------------------------------------------------------------------
(***************************************************************************)
(* cmd_stream_msg and cmd_signal_eos, called by some other thread.  The    *)
(* push takes cs_tx_mtx with chMtxTryLock and returns at once when it is   *)
(* held; cmd_signal_eos streams "\n" then clears cs_can_tx without the     *)
(* mutex.                                                                   *)
(***************************************************************************)
AppVars == <<cs_state, cs_step, cs_error, uf_cmd, uf_length, uf_body, usb_pc,
             handler, dcmd, send_ack, usb_state, last_state, oob_slot, line,
             reply>>

\* kind "msg": cmd_stream_msg; kind "eos": cmd_signal_eos
cmd_stream_msg(kind) ==
  /\ app_pc = "idle"
  /\ \/ /\ cs_tx_mtx = "none"
        /\ cs_tx_mtx' = "app"
        /\ app_pc' = IF kind = "eos" THEN "send_eos" ELSE "send_msg"
     \/ /\ cs_tx_mtx # "none"
        /\ app_pc' = IF kind = "eos" THEN "eos_clear" ELSE "idle"
        /\ UNCHANGED cs_tx_mtx
  /\ UNCHANGED <<cs_can_tx, push>> /\ UNCHANGED AppVars

StreamSend ==
  /\ app_pc \in {"send_msg", "send_eos"}
  /\ push' = IF cs_can_tx THEN "sent" ELSE "dropped"
  /\ cs_tx_mtx' = "none"
  /\ app_pc' = IF app_pc = "send_eos" THEN "eos_clear" ELSE "idle"
  /\ UNCHANGED cs_can_tx /\ UNCHANGED AppVars

EosClearTx ==
  /\ app_pc = "eos_clear"
  /\ cs_can_tx' = FALSE
  /\ app_pc' = "idle"
  /\ UNCHANGED <<cs_tx_mtx, push>> /\ UNCHANGED AppVars

-----------------------------------------------------------------------------
Next ==
  \/ \E b \in HostBytes : cmd_receive_byte(b)
  \/ DispatchLock \/ DispatchStep \/ DispatchCrash
  \/ UsbPollActive \/ UsbPollInactive \/ UsbDriverEvent
  \/ \E k \in {"msg", "eos"} : cmd_stream_msg(k)
  \/ StreamSend \/ EosClearTx

(***************************************************************************)
(* The USB thread runs its loop forever and the dispatch loop never waits  *)
(* (weak fairness).  chMtxLock queues the waiting USB thread and ChibiOS   *)
(* hands the mutex to the queued waiter on unlock, so a chMtxTryLock of    *)
(* the other thread cannot overtake it forever: strong fairness on taking  *)
(* the mutex.  The host and the USB interrupt get no fairness.             *)
(***************************************************************************)
Fairness ==
  /\ SF_vars(DispatchLock)
  /\ WF_vars(DispatchStep)
  /\ WF_vars(StreamSend)
  /\ WF_vars(EosClearTx)
  /\ WF_vars(UsbPollActive)
  /\ WF_vars(UsbPollInactive)

Spec == Init /\ [][Next]_vars /\ Fairness

-----------------------------------------------------------------------------
(***************************************************************************)
(* Reference reply of a request line, from the protocol description        *)
(* (spec.md 4.1, 6 and 8): the first byte is the command; separators are   *)
(* skipped; an argument byte beyond the frame capacity is "too large", a   *)
(* byte that is not alphanumeric is "invalid", and the first such error is *)
(* what the final LF reports.  Otherwise H answers two help lines, I one   *)
(* identification line, and any other code "not implemented".             *)
(***************************************************************************)
RECURSIVE ParseArgs(_, _)
ParseArgs(s, n) ==
  IF s = <<>> THEN 0
  ELSE IF IsSep(Head(s)) THEN ParseArgs(Tail(s), n)
  ELSE IF n >= FrameSize THEN -E2BIG
  ELSE IF IsAlnum(Head(s)) THEN ParseArgs(Tail(s), n + 1)
  ELSE -EINVAL

ExpectedReply(l) ==
  LET err == ParseArgs(SubSeq(l, 2, Len(l) - 1), 0)
  IN CASE err # 0   -> <<Err(err)>>
       [] l[1] = 72 -> <<Ack(104), Data(HELP_H), Data(HELP_I), Term>>  \* H
       [] l[1] = 73 -> <<Ack(105), Data(IDENT), Term>>                 \* I
       [] OTHER     -> <<Err(-ENOSYS)>>

-----------------------------------------------------------------------------
TypeOK ==
  /\ cs_state \in States
  /\ cs_step \in 0..255
  /\ cs_error \in {0, -E2BIG, -EINVAL}
  /\ cs_can_tx \in BOOLEAN
  /\ uf_cmd \in 0..255
  /\ uf_length \in 0..FrameSize
  /\ uf_body \in {ARGS, HELP_H, HELP_I, IDENT}
  /\ cs_tx_mtx \in {"none", "usb", "app"}
  /\ usb_pc \in {"idle", "lock", "loop", "crashed"}
  /\ handler \in {"none", "error", "help", "ident", "garbage"}
  /\ send_ack \in BOOLEAN
  /\ usb_state \in UsbStates
  /\ last_state \in UsbStates \cup {"uninit"}
  /\ app_pc \in {"idle", "send_msg", "send_eos", "eos_clear"}
  /\ push \in {"none", "sent", "dropped"}
  /\ line \in Seq(0..255)
  /\ Len(reply) <= MaxReply

(***************************************************************************)
(* LineReply: once the dispatch of a request line has finished and the    *)
(* machine is back in SS_RX_CMD, the tokens that _cmd_inject_command sent *)
(* for it are exactly the reference reply of the bytes cmd_receive_byte    *)
(* took in for that line, whatever lines, link resets and streaming came  *)
(* before.                                                                  *)
(***************************************************************************)
LineReply ==
  (cs_state = "SS_RX_CMD" /\ usb_pc = "idle" /\ line # <<>>)
    => reply = ExpectedReply(line)

(***************************************************************************)
(* DispatchCompletes: a request that reached _cmd_inject_command is        *)
(* eventually answered in full: the USB thread leaves the dispatch loop   *)
(* and no longer holds cs_tx_mtx.  Stated for a build in which the word    *)
(* read past _CMD_COMMANDS is NULL; in any other build dispatching 'J'     *)
(* calls a wild pointer.                                                    *)
(***************************************************************************)
DispatchCompletes ==
  oob_slot = "none" => ((usb_pc = "lock") ~> (usb_pc = "idle" /\ cs_tx_mtx # "usb"))

(***************************************************************************)
(* UnknownCommandNotImplemented: a dispatched code that is not in the      *)
(* handler table (only '@', 'H', 'I' are) gets no handler, so the          *)
(* dispatch answers "not implemented" (spec.md 8).                          *)
(***************************************************************************)
UnknownCommandNotImplemented ==
  (usb_pc \in {"lock", "loop"} /\ dcmd \notin {CMD_BASE, 72, 73})
    => handler = "none"

(***************************************************************************)
(* StreamDelivered: a cmd_stream_msg push that gets cs_tx_mtx while the    *)
(* USB thread has seen the link active is transmitted (spec.md 4.1,        *)
(* out-of-band streaming).                                                  *)
(***************************************************************************)
StreamDelivered ==
  [][(app_pc \in {"send_msg", "send_eos"} /\ last_state = "active")
       => push' # "dropped"]_vars

====
