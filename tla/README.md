# TLA+ models of the busmem firmware

This directory holds TLA+ models of `src/app/busmem`, an STM32L432 firmware with two parts:

- an I2C slave that emulates a 4 KiB memory;
- a USB virtual serial port that carries a line-based command protocol.

Each model is translated from the C source. `PROJECT.json` lists:

- every component and its status;
- the runs and what each one shows;
- the line ranges each definition models (`map`);
- the findings and the hazards.

## The system

| Part | Source | Runs in |
|------|--------|---------|
| Command state machine (`cmd_receive_byte`, `_cmd_inject_command`, handlers `@` `H` `I`, `cmd_reset`) | `cmd.c` | USB thread |
| Streaming API (`cmd_stream_msg`, `cmd_signal_eos`) | `cmd.c` | any other thread (no caller in this build) |
| USB polling thread (`_usb_thread`) | `usb.c` | USB thread; driver state changed by the USB IRQ |
| USB device glue (descriptors, `_usb_get_descriptor`, `_usb_event`, `_usb_requests_hook`) | `usb.c` | USB IRQ, called by the ChibiOS USB driver |
| I2C engine (`_i2c_handle_request/response/error`) | `i2c.c` | I2C IRQ |
| I2C worker (`_i2c_thread`) and `i2c_reset` | `i2c.c` | worker thread; `i2c_reset` has no caller in this build |
| Startup | `main.c` | main |

How the parts interact:

- The USB thread polls the driver state. On a change to ACTIVE it calls the empty `cmd_signal_usb(true)`. On a change to any other state it calls `cmd_reset`.
- While the link is ACTIVE, the USB thread feeds every received byte to `cmd_receive_byte`. That function echoes the byte under `cs_tx_mtx`. A LF dispatches the request inline: `_cmd_inject_command` takes the same mutex for the whole reply.
- The streaming API shares that mutex through `chMtxTryLock`, so a push during a reply is dropped.
- The I2C IRQ handlers read and write `busmem_memory` directly and stage zero-copy responses into it. They post diagnostic event words to a 4-slot mailbox with the lossy `chMBPostI`; the worker fetches and logs them.

Not part of busmem:

- `usb-cdc/main.c` is a separate firmware, a USB-to-UART bridge. Its main thread polls the USB state every 100 ms. While the link is ACTIVE it starts SD1 and two forwarder threads (`u2s`, `s2u`). On any other state, or when the USB IRQ sets `fe_update_config` after a SET_LINE_CODING, it clears `fe_resume`, joins both threads and stops SD1. On an update it then recomputes `_sd1_config` from `fe_serial_config`.
- `cxx/` is a linker test.
- `trace.c` formats output; its `trace_hex` formatter is modelled.
- `tools.h` holds byte and bit helpers. `get_uint16` is called in `i2c.c`, `get_uint32` and `set_uint32` in the bridge. `bit_swap16`, `byte_swap16`, `byte_swap32`, `bit_ones` and `bit_clz` have no caller in any firmware of the repository, but they are modelled too.

## Modules

### `CmdSM.tla`: command state machine, USB thread, transmit mutex

State:

- `cs_state`, `cs_step`, `cs_error`, `cs_can_tx`: `struct cmd_sm`.
- `uf_cmd`, `uf_length`, `uf_body`: `struct cmd_frame`. The payload is abstracted to which message it holds.
- The owner of `cs_tx_mtx`.
- The program counter of the USB thread (`usb_pc`) and the locals of `_cmd_inject_command`.
- The driver state and the thread's `last_state`.
- The program counter of a streaming thread (`app_pc`).
- `oob_slot`: the word that follows `_CMD_COMMANDS` in the built image. It is a nondeterministic choice made in `Init` (NULL or garbage).

Actions:

- `cmd_receive_byte(b)` is the whole function: the echo under the mutex and every arm of the switch. Its arms are `RxCmd`, `RxArg`, `RxError` and `RxIgnored`. A LF dispatch enters `_cmd_inject_command` up to its `chMtxLock`.
- `DispatchLock` is the blocking lock.
- `DispatchStep` is one iteration of the `for(;;)` loop:
  - it calls the handler (`HandlerRc`, `HandlerFrame`);
  - it sends the ack (which ORs the case bit into `uf_cmd`), the payload or the terminator;
  - the breaking iteration also unlocks and runs `cmd_reset`.
- `DispatchCrash` is a call through a garbage handler pointer.
- `UsbPollActive` and `UsbPollInactive` are loop iterations of `_usb_thread` that read no bytes.
- `UsbDriverEvent` is the USB IRQ changing the driver state. It acts only after the thread's first poll: that poll follows `usbConnectBus` by a few instructions (`usb.c:356-361`), far sooner than any host enumerates. The first poll therefore sees READY and calls `cmd_reset`, which moves the machine out of its static `SS_IDLE`.
- `cmd_stream_msg(kind)` is the trylock, for `cmd_stream_msg` or `cmd_signal_eos`. It is followed by `StreamSend` and, for EOS, by `EosClearTx`, which clears `cs_can_tx` without the mutex.

Ghost variables:

- `line`: the bytes of the current request line.
- `reply`: the tokens the current dispatch sent (ack, error, data, terminator).
- `push`: the outcome of the last streamed message.

`ExpectedReply` is a RECURSIVE reference parser written from the protocol description (spec.md 4.1, 6, 8). The property `LineReply` compares the model against it.

### `I2CMemory.tla`: abstract memory device

This module states what the I2C master is promised:

- A request with an address stores its data from `address mod size`, clipped at the end of the buffer.
- A following read serves memory from that address to the end of the buffer, once.
- A bus error resets the read pointer to a safe default (none, or address 0).
- What a one-byte request addresses is left open, because the spec does not say.

`request` records what the master sent, so the abstract step is tied to the bytes on the wire.

### `I2CEngine.tla`: the I2C engine

State:

- `ie_addr`.
- Byte 1 of `ie_inbuf` (`inbuf_hi`). The only inbound byte that can be read stale is this one, in a one-byte request.
- `busmem_memory`.
- The staged response `im_rsp`, as an offset and a size.
- The mailbox.
- Whether the worker has started.

Actions: one per handler (`HandleRequest`, `HandleResponse`, `HandleError`), the worker's start and fetch, and `i2c_reset` from IRQ (`ResetI`, lossy) and from a thread. The thread call is two steps: `ResetTCall` enters `chMBPost`, and `ResetT` posts once the mailbox has room. The variable `resetter` records a thread blocked between the two steps.

Bytes are scaled down: a byte takes `Radix` = 3 values and the memory has `BufSize` = 4 cells. `Radix < BufSize < Radix^2`, as with 256 and 4096, so the mask drops part of the high byte. `memcpy` past the end extends the memory's domain, so an overrun is visible to `TypeOK`.

The mailbox keeps only event types. The word encoding is the subject of the next module.

`AbsCorrect` is `I2CMemory`'s specification, checked under the refinement mapping:

- `ptr <- rsp_addr`
- `last_event <- bus_event`
- `AddrSpace <- Radix^2`

### `EventWord.tla`: event words

- `BUILD_MSG_*` and `GET_MSG_*` are modelled as shifts and masks on unsigned integers.
- `PostRequest(a, n)` is the event that `_i2c_handle_request` posts for `n` received bytes.
- `Fetch` is the worker decoding the word and computing the range it logs.

### `UsbCdcBridge.tla`: the usb-cdc bridge

State:

- `fe_update_config`, `fe_resume`, `fe_serial_active` and `fe_serial_config` (`coding`). Its `dwDTERate` is the 4-byte little-endian array of the code. It is zero in the static initialiser (`StaticCoding`); `set_uint32` writes it at startup and `get_uint32` reads it (both from `tools.h`).
- `_sd1_config` as the speed and the USART fields it sets: STOP, PCE, PS, M1 and M0.
- main's `last_state`, its position in the loop (`mpc`) and its local `bitcount`.
- EP0 (`ctl`): idle, or between a SET_LINE_CODING data stage and its completion callback.
- One state per forwarder: not created, at the loop head, reading, writing, or exited and not joined.
- `applied` (ghost): the coding main last read, field by field.

Actions:

- Main starts with the USB driver stopped. `MainUsbStart` writes `dwDTERate`, starts the drivers and connects the pull-up. `MainStartDone` clears `fe_update_config`, which the code does a few instructions after `usbConnectBus`; the host cannot enumerate that fast, so the USB interrupt changes the driver state only after it.
- Main's loop is split at the points where other threads can act: poll, decide, the active branch, the inactive branch, the two `chThdWait`s, `sdStop` with the read of `dwDTERate`, one step for each of the switches on `bCharFormat`, `bParityType` and `bDataBits`, and the end of a reconfiguration. The USB interrupt can write `fe_serial_config` between any two of these reads.
- Each forwarder has five steps: the loop head, which exits when `fe_resume` is clear (`FwdExit`) and otherwise enters `chnReadTimeout` (`FwdEnter`); a read that returned data (`FwdRead`) or timed out (`FwdTimeout`); and a completed write. `fe_resume` is tested only at the loop head, so a read in progress when main clears it still returns and writes its data before the thread exits.
- The environment has three: a USB state change, the SET_LINE_CODING data stage, which writes `fe_serial_config` in place, and its completion callback `_update_line_coding`. A bus reset between the last two aborts the callback.

`ApplyStop`, `ApplyParity` and `ApplyDataBits` are the three switches, with the CR1/CR2 masks. `UartConfig(c)` applies all three to one coding. `UartFrameMatches` checks the speed against `LittleEndian`, a recursive reference decoding of `dwDTERate`.

### `TraceHex.tla`: `trace_hex`

The formatting loop, one step per iteration. `snprintf(hexp, MAX(0, rem), "%02x ", b)` is modelled by what it writes: at most `n - 1` characters and a terminator. The destination is a function over `0..dlen-1`, so a write outside it is recorded. `HexMatchesReference` compares the result with `RefHex`, a recursive reference definition of the entries that fit.

### `Tools.tla` and `MC_TraceHex.tla`: the `tools.h` bit helpers

`Tools` has no state. Each helper is an operator, and each of its lines is one `LET` step. `SwapFields` is one line of `bit_swap16`, and `AddFields` one line of `bit_ones`. A C value is a natural number. A conversion to `uint16_t` is `% 2^16`, applied where the call converts its argument. TLC's integers end at 2^31 - 1, so `byte_swap32` returns its result as the pair of 16-bit halves that its final `<< 16 |` joins.

`bit_ones`' comment says it returns the number of set bits. It actually returns 16 minus the number of set bits in the low 16 bits. Its only caller, `bit_clz`, needs exactly that value, so the model keeps the code's result and checks `bit_clz`.

`MC_TraceHex` composes the two. `TraceHex` runs unchanged, and `word`, the helpers' argument, is chosen in the initial state and kept. The references are recursive definitions, bit by bit: `BitLength`, `ReverseBits` and `LeBytes`.

### `UsbDevice.tla`: the USB device side of busmem

This module covers the part of `usb.c` that the ChibiOS USB driver calls back. The driver and a host that enumerates the device are the environment.

- The descriptors are byte sequences, built the way the `USB_DESC_*` macros lay them out. `Sized` models a C array of fixed size, which drops excess bytes and zero-fills missing ones. The UTF-16 text of a string is abstracted to its length.
- `UsbGetDescriptor` is `_usb_get_descriptor`. `StringSlot(i)` is `_VCOM_STRINGS[i]`; for `i >= 4` it yields `PastEnd`, memory after the table.
- `Ep1Config` and `Ep2Config` are `ep1config` and `ep2config`.
- The actions:
  - `UsbThreadStart`: the start of `_usb_thread`.
  - `BusReset`, `UsbEventUnconfigured` and `UsbEventSuspend`: the `_usb_event` cases that fall into `sduSuspendHookI`.
  - `UsbEventConfigured`: enables both endpoints and connects the serial driver.
  - `UsbEventWakeup`: reconnects the serial driver.
  - `SetLineCoding` and `GetLineCoding`: the line-coding cases of `_usb_requests_hook`.
  - `GetDeviceDescriptor`, `SetAddress`, `GetConfigDescriptor` and `GetOtherDescriptor`: the host's standard requests, answered through the callback.
- The host reads the configuration descriptor as the chain of `bLength` fields (`Chain`, recursive). `HostEndpoints` is the set of endpoints it reads from that chain.

## Runs

| Run | Expect | What it shows |
|-----|--------|---------------|
| `cmd_protocol` | pass | `LineReply`: every finished line got exactly the reference reply, through link resets and streaming. `DispatchCompletes`: every dispatch ends and releases the mutex (for a build where the word after the table is NULL). `TypeOK`. |
| `cmd_at` | violation | `DispatchCompletes`: `@0\n` from the host makes the dispatch loop run forever, because `_cmd_error` never clears `uf_length`. |
| `cmd_j` | violation | `UnknownCommandNotImplemented`: `J` is read past `_CMD_COMMANDS` because the slot check uses `<=`. |
| `i2c_refinement` | pass | `AbsCorrect`: with no bus errors and requests of 0 to 4 bytes, the engine implements `I2CMemory`. |
| `i2c_faults` | pass | `TypeOK`: no write overruns the memory. `RereadServesNothing`: after a read, a read without a new address serves nothing, across bus errors, short requests and a full mailbox. `ResetCompletes`: a thread blocked in `i2c_reset(false)` eventually posts, provided the bus eventually stops posting (see Fairness). |
| `i2c_bus_error` | violation | `AbsCorrect` with bus errors: a read after an error serves the previously addressed memory. |
| `event_count` | violation | `WorkerLogsTransfer`: a write of 256 to 258 bytes is logged with a wrapped count. |
| `bridge` | pass | `ForwardersNeedUart`: no forwarder runs while SD1 is stopped. `UartFrameMatches`: SD1 sends the frame of the coding main read, for every supported coding. `ForwardingResumes`: while the link stays active, forwarding resumes after any sequence of link and coding changes. `TypeOK`: M1 and M0 are never both set. |
| `bridge_coding` | violation | `UartMatchesLineCoding`: main sleeps with the link active while the UART runs a coding other than the one GET_LINE_CODING reports. TLC's shortest trace: the bridge runs, the host sends SET_LINE_CODING, and a bus reset aborts the transfer between its data stage and its callback. The host enumerates again before main's next 100 ms poll, so main sees no change, and the coding is stored but never flagged. The same state follows when main clears `fe_update_config` without applying it (main.c:243, or main.c:336 after a field-by-field read that a new coding overtook). The host cannot act before main reaches its loop (main.c:200), which is a few instructions after `usbConnectBus`. |
| `usb_device` | pass | `ConfigurationParses`: the configuration descriptor the host reads is a chain of `bLength` fields that ends exactly at `wTotalLength`, with `bNumInterfaces` interfaces, each followed by its `bNumEndpoints` endpoints. `DescriptorsServed`: every string index the descriptors name is served whole. `NoReadPastStrings`: no string index the host asks for, including 4 and 0xEE, reads past `_VCOM_STRINGS`. `EndpointsMatchDescriptor`: once configured, every endpoint the host read is enabled with its type and direction, and the bulk endpoints with their packet size. |
| `trace_hex` | pass | `NoWritePastDst` and `HexMatchesReference`: for destinations of 1 to 11 bytes, `trace_hex` stays inside `dst`, writes exactly the entries that fit, and returns their length plus the terminator. `ClzCountsLeadingZeros`, `BitSwapReversesBits` and `ByteSwapReversesBytes`: `bit_clz` counts the leading zeros of the 16-bit value it is called with (16 for zero); `bit_swap16` reverses the bits; `byte_swap32` reverses the bytes. |

Each property of a passing run has a mutant in `PROJECT.json`: an alternative definition that makes a plausible coding mistake, which the run must detect. The mutants are:

- a capacity check one byte late;
- a `cmd_reset` that keeps `uf_length`;
- an ident handler that never ends;
- an address read in the wrong byte order;
- a missing write clip;
- a response handler that keeps the staged body;
- a CR1 mask that leaves the word-length bits set;
- M1 and M0 swapped;
- a join that is skipped;
- a reconfiguration that does not force a re-init;
- a terminator written without the `hexp > dst` guard;
- a trailing space that is kept;
- a `bit_clz` without its last smearing step;
- a `bit_swap16` with its nibble mask typed as 0xf0f0;
- a `byte_swap32` that leaves each swapped half in place;
- a worker that peeks at the mailbox without fetching;
- an ACM functional descriptor with a `bLength` of 5;
- a descriptor callback that serves one string fewer;
- a descriptor callback with no bound on the string index;
- a CONFIGURED handler that enables only EP1.

## Bounds

CmdSM:

- `FrameSize` is 1 instead of 64, so a 4-byte line (`H00\n`) overflows the frame.
- `MaxLine` = 4 bounds the host's line length.
- `HostBytes` holds one byte of each class:
  - commands `H` and `I`;
  - the empty slot `A`;
  - the out-of-bounds slot `J`;
  - `Z`, above the table;
  - a digit;
  - an invalid `#`;
  - a separator;
  - LF.
- `MaxReply` = 5 holds the longest reply (help: ack, two lines, terminator).
- Handler messages have length 1: the loop only tests `uf_length` against zero.

I2C:

- Requests of 0 to 4 bytes, with data in {0, 1}, reach every address and clip at the last cells.
- Reads of 1 and 2 bytes clip at the end of the buffer.
- One mailbox slot is enough for both a dropped post and a blocked `i2c_reset(false)`.

EventWord: real sizes (4096 cells, 260-byte inbound buffer), at addresses at both ends of memory.

Bridge:

- Line codings: 8N1 (the initial one) and 7O2 in the violation run. The pass run adds 8E1.5 and three rejected codings (parity code 3, stop code 3, 5 data bits) to reach every arm of the switch.
- At most 2 SET_LINE_CODING requests: two are needed for an update that overlaps a pending one.

TraceHex:

- Byte values 0x0a and 0xf3 cover both digit ranges.
- Inputs of 0 to 3 bytes.
- Destinations of 1 to 11 bytes, which puts the break at every offset within an entry, and leaves room to spare.
- A destination of size 0 makes `NoWritePastDst` fail: the terminator is written to `dst[0]`. No caller passes 0, and the loop's `MAX(0, rem)` suggests the size is meant to be accepted. This is listed as a hazard.

Tools (in the `trace_hex` run): 13 words.

- Zero.
- Single bits at both ends of each byte of the low half (1, 128, 256, 32768).
- Full bytes and halves (0xff, 0xff00, 0xffff).
- A mixed half-word (0x1234).
- Words whose low half is zero or whose high half is set (0x10000, 0x7fffffff, 0x12345678, 0x5ed8bb0f). These exercise the conversion to `uint16_t` and the halves of `byte_swap32`.

Each missing or wrong step of a helper changes its result on one of them.

UsbDevice:

- The host probes the four strings the descriptors name, index 4 (one past the table) and 0xEE (the index hosts probe for an OS descriptor).
- Two line codings, 115200 8N1 and 9600 7E2, so a set followed by a read back differs from the initial coding.
- The host's steps are free to interleave with suspend, wake-up and bus reset at any point. That includes a suspend taken before configuration.

## Fairness

`_usb_thread` loops forever and the dispatch loop never waits, so `DispatchStep`, `UsbPollActive`, `UsbPollInactive`, `StreamSend` and `EosClearTx` have weak fairness.

`chMtxLock` queues the USB thread, and ChibiOS hands an unlocked mutex to the queued waiter. A trylock by another thread therefore cannot overtake it forever, which justifies strong fairness on `DispatchLock`.

The bridge's main thread and forwarder loops never wait for anything but each other, so they have weak fairness; a read returns data or times out within 5 ms, so it has weak fairness on returning either way. The exception is a forwarder's `chnWriteTimeout(TIME_INFINITE)`: it completes only when the peer drains. `ForwardingResumes` therefore assumes a peer that keeps reading (the UART has RTS/CTS flow control).

The host, the USB IRQ and the I2C master get no fairness.

`ResetCompletes` runs under `FairSpec`, which adds weak fairness on the worker's start and fetch and on `ResetT`. The worker loops on `chMBFetch` with a 10 ms timeout (`i2c.c:191`) and retries on a timeout, so a posted event is fetched within one wait and weak fairness fits it. Strong fairness on `ResetT` would not be justified. When `chMBPost` wakes a waiting poster, the poster re-checks for a free slot. An IRQ `chMBPostI` may therefore take the freed slot first, every time. The property is thus stated as an implication: if the I2C handlers eventually stop posting, the blocked reset completes. Without that premise TLC finds the starvation cycle.

## Not modelled

- Blocking in `usb_send_reply`: `CmdSM` takes every write to the host as completing. A host that stops reading would block the USB thread in `chnWriteTimeout(TIME_INFINITE)` while it holds `cs_tx_mtx`. The output queue is ChibiOS code, and this is listed as a hazard.
- busmem's `main()` has no state of its own. It calls the init and start functions in order, and each component's `Init` is the state after its start. The loop after them only sleeps.
- The USB driver's own state machine and the serial driver's queues: ChibiOS code outside `src/`. `UsbDevice` models them only as the driver state and a connected flag. The SOF hook only forwards to the serial driver. `CDC_SET_CONTROL_LINE_STATE` changes nothing.
- The run for `StreamDelivered` is dropped. `cs_can_tx` is never set in this build and nothing calls the streaming API, so it never sends. The property stays in `CmdSM`.
- The C++ test, `trace_init` and the chprintf output.
- In the bridge: `chThdCreateFromHeap` failing. The heap is outside `src/`, and a failure leaves main asleep until the next USB state change.
- The reset on `CDC_SEND_BREAK`: it is commented out in the code, so a break has no effect. The branch returns true without `usbSetupTransfer`, so the driver reuses the ep0 transfer of the previous request. That is ChibiOS state outside `src/`, and it is listed as a hazard.
- The length of the ident string (it depends on `BUSMEM_GITVER`).
- The uninitialised `cs_tx_mtx` (`cmd_init` is commented out): the model treats the mutex as initialised. ChibiOS tests a wait queue for emptiness by comparing its `next` with the queue's own address, so a zeroed queue does not read as empty and the first unlock, in the echo of the first byte, may take the dequeue path. The kernel code is outside the repository; this is listed as a hazard.
- The I2C driver's own state machine: it is outside `src/`. The model assumes it calls the request, response and error handlers.

## Plan

Done:

- `usb.c`'s descriptors, descriptor callback, event callback and line-coding requests (`UsbDevice`).
- Liveness of a blocked `i2c_reset(false)`.
- The bit and byte helpers of `tools.h` (`Tools`), checked against bit-by-bit references.
- Every state-changing operation of the command machine, the I2C engine, the event words, the bridge main loop and its forwarders, and `trace_hex`.
- The I2C engine is checked against the abstract memory through a refinement mapping.
- The bridge's field-by-field read of `fe_serial_config`, which can interleave with a SET_LINE_CODING data stage, and a bus reset that aborts its callback. `dwDTERate` is modelled as bytes.
- The bridge's startup: the static zero `dwDTERate`, `set_uint32`, the drivers started before `fe_update_config` is cleared.
- The host's first enumeration placed after the code's startup steps in both firmwares (the busmem USB thread's first poll, the bridge's clear of `fe_update_config`), and the forwarders' `fe_resume` test placed at the loop head.

Next, in order of value:

1. CmdSM: the uninitialised `cs_tx_mtx`, as a nondeterministic first lock outcome; the ident length against `FrameSize`; a bounded output queue in `usb_send_reply`, with the host's reads as an action, to state `DispatchCompletes` under an explicit "host keeps reading" premise.
2. Bridge: `chThdCreateFromHeap` failing, and a refinement of the bridge onto an abstract "forwarding on/off with coding" specification.
3. UsbDevice: the serial driver's reaction to a WAKEUP that arrives before configuration, and the EP2 packet size (8 advertised, 16 enabled); the serial driver never sends on EP2 in this build.
4. I2C: a property about the stale `inbuf[1]` of a one-byte request.

The project has 11 runs.
