------------------------------ MODULE UsbDevice ------------------------------
(***************************************************************************)
(* The USB device side of busmem (src/app/busmem/usb.c): the descriptors,  *)
(* _usb_get_descriptor, the endpoint configurations, the driver event      *)
(* callback _usb_event with the serial-over-USB hooks it calls, the class  *)
(* request hook _usb_requests_hook and the start of _usb_thread.  The host *)
(* is a standard enumerator.  The USB driver itself (ChibiOS, not in this  *)
(* repository) is the environment: it answers a GET_DESCRIPTOR with the    *)
(* first wLength bytes of what the callback returns, and owns the device   *)
(* state.  Descriptors are byte sequences laid out as the USB_DESC_*       *)
(* macros lay them out; the UTF-16 text of a string descriptor is          *)
(* abstracted to its length.                                               *)
(***************************************************************************)
EXTENDS Naturals, Sequences, FiniteSets

CONSTANTS
  StrProbes,   \* string indexes a host asks for without being told of them
  Codings      \* line codings the host sets

VARIABLES
  drv,       \* USBD1.state: "stop", "ready", "selected", "active", "suspended"
  saved,     \* USBD1.saved_state, restored on wake-up
  pullup,    \* the D+ pull-up is on (usbConnectBus)
  eps,       \* endpoint number -> the USBEndpointConfig enabled, or NoEp
  sdu,       \* the serial driver: "disconnected" or "connected"
  lineconf,  \* _usb_engine.ue_lineconf
  hpc,       \* where the host is in its enumeration
  hdev,      \* the device descriptor bytes the host read
  hcfg,      \* the configuration descriptor bytes the host read
  hstr,      \* <<type, index>> -> the bytes the host read (none on a stall)
  hline,     \* <<the line coding the host last read back>>, or <<>>
  oob        \* a descriptor was read past the end of _VCOM_STRINGS

vars == <<drv, saved, pullup, eps, sdu, lineconf, hpc, hdev, hcfg, hstr, hline, oob>>

-----------------------------------------------------------------------------
\* USB_DESC_* macros: little-endian words, fixed header per descriptor
W(w) == <<w % 256, w \div 256>>
USB_DESC_DEVICE(bcd, cls, sub, proto, mps0, vid, pid, rel, im, ip, is, ncfg) ==
  <<18, 1>> \o W(bcd) \o <<cls, sub, proto, mps0>> \o W(vid) \o W(pid) \o W(rel)
  \o <<im, ip, is, ncfg>>
USB_DESC_CONFIGURATION(total, nif, value, icfg, attr, power) ==
  <<9, 2>> \o W(total) \o <<nif, value, icfg, attr, power>>
USB_DESC_INTERFACE(num, alt, neps, cls, sub, proto, iif) ==
  <<9, 4, num, alt, neps, cls, sub, proto, iif>>
USB_DESC_ENDPOINT(addr, attr, size, interval) ==
  <<7, 5, addr, attr>> \o W(size) \o <<interval>>

\* A static const uint8_t x[n] = {...}: excess bytes dropped, missing ones 0
Sized(bytes, n) == [i \in 1..n |-> IF i <= Len(bytes) THEN bytes[i] ELSE 0]

USBD_CDC_ACM_LINE_REQUESTS == 2
USBD_CDC_ACM_SENDBREAK_REQUESTS == 4

VCOM_DEVICE_DESCRIPTOR_DATA ==
  Sized(USB_DESC_DEVICE(272, 2, 0, 0, 64, 1155, 22336, 512, 1, 2, 3, 1), 18)

\* A configuration whose ACM functional descriptor claims 5 bytes
VCOM_CONFIGURATION_DESCRIPTOR_DATA_AcmLength5 ==
  Sized(USB_DESC_CONFIGURATION(67, 2, 1, 0, 192, 50)
        \o USB_DESC_INTERFACE(0, 0, 1, 2, 2, 1, 0)
        \o <<5, 36, 0>> \o W(272) \o <<5, 36, 1, 0, 1>>
        \o <<5, 36, 2, USBD_CDC_ACM_LINE_REQUESTS + USBD_CDC_ACM_SENDBREAK_REQUESTS>>
        \o <<5, 36, 6, 0, 1>>
        \o USB_DESC_ENDPOINT(2 + 128, 3, 8, 255)
        \o USB_DESC_INTERFACE(1, 0, 2, 10, 0, 0, 0)
        \o USB_DESC_ENDPOINT(1, 2, 64, 0)
        \o USB_DESC_ENDPOINT(1 + 128, 2, 64, 0), 67)

\* CDC ACM: communication interface (header, call management, ACM, union
\* functional descriptors, notification endpoint 2 IN), data interface
\* (bulk endpoint 1 OUT and 1 IN)
VCOM_CONFIGURATION_DESCRIPTOR_DATA ==
  Sized(USB_DESC_CONFIGURATION(67, 2, 1, 0, 192, 50)
        \o USB_DESC_INTERFACE(0, 0, 1, 2, 2, 1, 0)
        \o <<5, 36, 0>> \o W(272) \o <<5, 36, 1, 0, 1>>
        \o <<4, 36, 2, USBD_CDC_ACM_LINE_REQUESTS + USBD_CDC_ACM_SENDBREAK_REQUESTS>>
        \o <<5, 36, 6, 0, 1>>
        \o USB_DESC_ENDPOINT(2 + 128, 3, 8, 255)
        \o USB_DESC_INTERFACE(1, 0, 2, 10, 0, 0, 0)
        \o USB_DESC_ENDPOINT(1, 2, 64, 0)
        \o USB_DESC_ENDPOINT(1 + 128, 2, 64, 0), 67)

\* A string descriptor: bLength, USB_DESCRIPTOR_STRING, then n UTF-16 units
StringDesc(bLength, n) == <<bLength, 3>> \o [i \in 1..2 * n |-> 0]

\* _VCOM_STRING0..3: language id, "Iroazh", "Dummy Bus Slave Memory", "00003"
VCOM_STRINGS ==
  <<StringDesc(4, 1), StringDesc(14, 6), StringDesc(46, 22), StringDesc(12, 5)>>

\* No descriptor (a NULL return): an empty sequence, which no descriptor is
NULL == <<>>
\* What _VCOM_STRINGS[i] yields for i >= 4: memory after the table, marked
\* by a value no byte has
PastEnd == <<256>>

\* _VCOM_STRINGS[i] for any uint8_t index i
StringSlot(i) == IF i < Len(VCOM_STRINGS) THEN VCOM_STRINGS[i + 1] ELSE PastEnd

\* A callback with no bound on the string index
UsbGetDescriptorNoBound(dtype, dindex) ==
  CASE dtype = 1 -> VCOM_DEVICE_DESCRIPTOR_DATA
    [] dtype = 2 -> VCOM_CONFIGURATION_DESCRIPTOR_DATA
    [] dtype = 3 -> StringSlot(dindex)
    [] OTHER -> NULL

\* A callback that serves one string fewer
UsbGetDescriptorShort(dtype, dindex) ==
  CASE dtype = 1 -> VCOM_DEVICE_DESCRIPTOR_DATA
    [] dtype = 2 -> VCOM_CONFIGURATION_DESCRIPTOR_DATA
    [] dtype = 3 -> IF dindex < 3 THEN StringSlot(dindex) ELSE NULL
    [] OTHER -> NULL

\* _usb_get_descriptor
UsbGetDescriptor(dtype, dindex) ==
  CASE dtype = 1 -> VCOM_DEVICE_DESCRIPTOR_DATA
    [] dtype = 2 -> VCOM_CONFIGURATION_DESCRIPTOR_DATA
    [] dtype = 3 -> IF dindex < 4 THEN StringSlot(dindex) ELSE NULL
    [] OTHER -> NULL

\* ep1config and ep2config
Ep1Config == [mode |-> "bulk", in_maxsize |-> 64, out_maxsize |-> 64,
              has_in |-> TRUE, has_out |-> TRUE]
Ep2Config == [mode |-> "intr", in_maxsize |-> 16, out_maxsize |-> 0,
              has_in |-> TRUE, has_out |-> FALSE]

\* An endpoint not enabled
NoEp == [mode |-> "none", in_maxsize |-> 0, out_maxsize |-> 0,
         has_in |-> FALSE, has_out |-> FALSE]
Endpoints == {1, 2}
NoStrings == [k \in {} |-> NULL]

\* _usb_engine: ue_lineconf is 1 stop bit, no parity, 8 bits, rate 0
Init ==
  /\ drv = "stop"
  /\ saved = "stop"
  /\ pullup = FALSE
  /\ eps = [e \in Endpoints |-> NoEp]
  /\ sdu = "disconnected"
  /\ lineconf = [rate |-> 0, stop |-> 0, parity |-> 0, bits |-> 8]
  /\ hpc = "detached"
  /\ hdev = <<>>
  /\ hcfg = <<>>
  /\ hstr = NoStrings
  /\ hline = <<>>
  /\ oob = FALSE

Min2(a, b) == IF a < b THEN a ELSE b

\* The string indexes the descriptors the host read name (0 is "none"),
\* with the language table 0 whenever there is one
Referenced ==
  LET named == {hdev[k] : k \in {15, 16, 17} \cap DOMAIN hdev}
               \cup (IF Len(hcfg) >= 7 THEN {hcfg[7]} ELSE {})
  IN IF named \ {0} = {} THEN {} ELSE named

-----------------------------------------------------------------------------
\* _usb_thread before its loop: usbDisconnectBus, sleep, usbStart (the
\* driver goes USB_READY), usbConnectBus
UsbThreadStart ==
  /\ drv = "stop"
  /\ ~pullup
  /\ drv' = "ready"
  /\ pullup' = TRUE
  /\ UNCHANGED <<saved, eps, sdu, lineconf, hpc, hdev, hcfg, hstr, hline, oob>>

\* A bus reset (on attach or later): the driver disables the endpoints and
\* calls _usb_event(USB_EVENT_RESET), which falls into sduSuspendHookI;
\* the host starts enumerating again.
BusReset ==
  /\ pullup
  /\ drv # "stop"
  /\ drv' = "ready"
  /\ eps' = [e \in Endpoints |-> NoEp]
  /\ sdu' = "disconnected"
  /\ hpc' = "dev"
  /\ hdev' = <<>>
  /\ hcfg' = <<>>
  /\ hstr' = NoStrings
  /\ hline' = <<>>
  /\ UNCHANGED <<saved, pullup, lineconf, oob>>

\* GET_DESCRIPTOR(DEVICE) with wLength 64 at the default address
GetDeviceDescriptor ==
  /\ hpc = "dev"
  /\ drv = "ready"
  /\ LET d == UsbGetDescriptor(1, 0) IN hdev' = SubSeq(d, 1, Min2(64, Len(d)))
  /\ hpc' = "address"
  /\ UNCHANGED <<drv, saved, pullup, eps, sdu, lineconf, hcfg, hstr, hline, oob>>

\* SET_ADDRESS, handled by the driver (_usb_requests_hook returns false)
SetAddress ==
  /\ hpc = "address"
  /\ drv = "ready"
  /\ drv' = "selected"
  /\ hpc' = "cfg9"
  /\ UNCHANGED <<saved, pullup, eps, sdu, lineconf, hdev, hcfg, hstr, hline, oob>>

\* GET_DESCRIPTOR(CONFIGURATION): first its 9-byte header, then wTotalLength
GetConfigDescriptor ==
  /\ hpc \in {"cfg9", "cfg"}
  /\ drv = "selected"
  /\ LET d == UsbGetDescriptor(2, 0)
         wlen == IF hpc = "cfg9" THEN 9 ELSE hcfg[3] + 256 * hcfg[4]
     IN hcfg' = SubSeq(d, 1, Min2(wlen, Len(d)))
  /\ hpc' = IF hpc = "cfg9" THEN "cfg" ELSE "strings"
  /\ UNCHANGED <<drv, saved, pullup, eps, sdu, lineconf, hdev, hstr, hline, oob>>

\* GET_DESCRIPTOR(dtype, i) with wLength 255: a NULL answer is a stall, which
\* the host records as no bytes
GetOtherDescriptor(dtype, i) ==
  /\ hpc \in {"strings", "configured"}
  /\ drv \in {"selected", "active"}
  /\ <<dtype, i>> \notin DOMAIN hstr
  /\ LET d == UsbGetDescriptor(dtype, i)
         got == IF d = PastEnd THEN d ELSE SubSeq(d, 1, Min2(255, Len(d)))
     IN /\ hstr' = [k \in DOMAIN hstr \cup {<<dtype, i>>} |->
                      IF k = <<dtype, i>> THEN got ELSE hstr[k]]
        /\ oob' = (oob \/ d = PastEnd)
  /\ UNCHANGED <<drv, saved, pullup, eps, sdu, lineconf, hpc, hdev, hcfg, hline>>

\* _usb_event(USB_EVENT_CONFIGURED) with EP2 left out
UsbEventConfiguredNoEp2 ==
  /\ hpc = "strings"
  /\ drv = "selected"
  /\ drv' = "active"
  /\ eps' = [eps EXCEPT ![1] = Ep1Config]
  /\ sdu' = "connected"
  /\ hpc' = "configured"
  /\ UNCHANGED <<saved, pullup, lineconf, hdev, hcfg, hstr, hline, oob>>

\* SET_CONFIGURATION(1): the driver goes USB_ACTIVE and calls
\* _usb_event(USB_EVENT_CONFIGURED): usbInitEndpointI for EP1 and EP2,
\* then sduConfigureHookI connects the serial driver.
UsbEventConfigured ==
  /\ hpc = "strings"
  /\ drv = "selected"
  /\ drv' = "active"
  /\ eps' = [e \in Endpoints |-> IF e = 1 THEN Ep1Config ELSE Ep2Config]
  /\ sdu' = "connected"
  /\ hpc' = "configured"
  /\ UNCHANGED <<saved, pullup, lineconf, hdev, hcfg, hstr, hline, oob>>

\* SET_CONFIGURATION(0): the driver disables the endpoints, goes
\* USB_SELECTED and calls _usb_event(USB_EVENT_UNCONFIGURED): sduSuspendHookI
UsbEventUnconfigured ==
  /\ hpc = "configured"
  /\ drv = "active"
  /\ drv' = "selected"
  /\ eps' = [e \in Endpoints |-> NoEp]
  /\ sdu' = "disconnected"
  /\ hpc' = "strings"
  /\ UNCHANGED <<saved, pullup, lineconf, hdev, hcfg, hstr, hline, oob>>

\* Bus suspend: _usb_event(USB_EVENT_SUSPEND), sduSuspendHookI
UsbEventSuspend ==
  /\ pullup
  /\ drv \in {"ready", "selected", "active"}
  /\ saved' = drv
  /\ drv' = "suspended"
  /\ sdu' = "disconnected"
  /\ UNCHANGED <<pullup, eps, lineconf, hpc, hdev, hcfg, hstr, hline, oob>>

\* Resume: the driver restores its state, _usb_event(USB_EVENT_WAKEUP),
\* sduWakeupHookI
UsbEventWakeup ==
  /\ drv = "suspended"
  /\ drv' = saved
  /\ sdu' = "connected"
  /\ UNCHANGED <<saved, pullup, eps, lineconf, hpc, hdev, hcfg, hstr, hline, oob>>

\* _usb_requests_hook, CDC_SET_LINE_CODING: the data stage fills ue_lineconf
SetLineCoding(c) ==
  /\ hpc = "configured"
  /\ drv = "active"
  /\ lineconf' = c
  /\ UNCHANGED <<drv, saved, pullup, eps, sdu, hpc, hdev, hcfg, hstr, hline, oob>>

\* _usb_requests_hook, CDC_GET_LINE_CODING: the host reads ue_lineconf
GetLineCoding ==
  /\ hpc = "configured"
  /\ drv = "active"
  /\ hline' = <<lineconf>>
  /\ UNCHANGED <<drv, saved, pullup, eps, sdu, lineconf, hpc, hdev, hcfg, hstr, oob>>

Next ==
  \/ UsbThreadStart
  \/ BusReset
  \/ GetDeviceDescriptor
  \/ SetAddress
  \/ GetConfigDescriptor
  \/ \E i \in Referenced \cup StrProbes : GetOtherDescriptor(3, i)
  \/ GetOtherDescriptor(6, 0)     \* DEVICE_QUALIFIER
  \/ UsbEventConfigured
  \/ UsbEventUnconfigured
  \/ UsbEventSuspend
  \/ UsbEventWakeup
  \/ \E c \in Codings : SetLineCoding(c)
  \/ GetLineCoding

Spec == Init /\ [][Next]_vars

-----------------------------------------------------------------------------
Bytes == Seq(0..255)
DrvStates == {"stop", "ready", "selected", "active", "suspended"}
LineCoding == [rate : Nat, stop : 0..2, parity : 0..4, bits : {5, 6, 7, 8, 16}]

TypeOK ==
  /\ drv \in DrvStates
  /\ saved \in DrvStates
  /\ pullup \in BOOLEAN
  /\ eps \in [Endpoints -> {NoEp, Ep1Config, Ep2Config}]
  /\ sdu \in {"disconnected", "connected"}
  /\ lineconf \in LineCoding
  /\ hpc \in {"detached", "dev", "address", "cfg9", "cfg", "strings", "configured"}
  /\ hdev \in Bytes /\ hcfg \in Bytes
  /\ DOMAIN hstr \subseteq {3, 6} \X (0..255)
  /\ \A k \in DOMAIN hstr : hstr[k] \in Bytes \cup {PastEnd}
  /\ hline = <<>> \/ (Len(hline) = 1 /\ hline[1] \in LineCoding)
  /\ oob \in BOOLEAN

\* The host's walk over a configuration descriptor: each descriptor starts
\* bLength bytes after the previous one; a bLength below 2 or running past
\* the end is a malformed descriptor (len 0).
RECURSIVE Chain(_, _)
Chain(b, i) ==
  IF i > Len(b) THEN <<>>
  ELSE IF b[i] < 2 \/ i + b[i] - 1 > Len(b) THEN <<[at |-> i, len |-> 0, type |-> 0]>>
  ELSE <<[at |-> i, len |-> b[i], type |-> b[i + 1]]>> \o Chain(b, i + b[i])

\* The endpoint descriptors that follow the k-th descriptor up to the next
\* interface descriptor
EndpointsAfter(d, k) ==
  Cardinality({j \in k + 1..Len(d) :
                 d[j].type = 5 /\ \A m \in k + 1..j : d[m].type # 4})

\* The endpoints the host will use, as it reads them from the descriptor
HostEndpoints(b) ==
  LET d == Chain(b, 1)
  IN {[num  |-> b[d[k].at + 2] % 128,
       in   |-> b[d[k].at + 2] >= 128,
       mode |-> IF b[d[k].at + 3] % 4 = 2 THEN "bulk" ELSE "intr",
       size |-> b[d[k].at + 4] + 256 * b[d[k].at + 5]]
      : k \in {j \in 1..Len(d) : d[j].type = 5 /\ d[j].len = 7}}

(***************************************************************************)
(* ConfigurationParses: the configuration descriptor the host reads with   *)
(* its own wTotalLength is a chain of descriptors that ends exactly there; *)
(* it has bNumInterfaces interfaces, each followed by bNumEndpoints        *)
(* endpoint descriptors.                                                   *)
(***************************************************************************)
ConfigurationParses ==
  hpc \in {"strings", "configured"} =>
    LET d == Chain(hcfg, 1)
    IN /\ hcfg[3] + 256 * hcfg[4] = Len(hcfg)
       /\ \A k \in 1..Len(d) : d[k].len > 0
       /\ Cardinality({k \in 1..Len(d) : d[k].type = 4}) = hcfg[5]
       /\ \A k \in 1..Len(d) : d[k].type = 4 => hcfg[d[k].at + 4] = EndpointsAfter(d, k)

(***************************************************************************)
(* DescriptorsServed: every string the device and configuration            *)
(* descriptors name is served to the host, whole, as a string descriptor   *)
(* whose bLength is its size.                                              *)
(***************************************************************************)
DescriptorsServed ==
  \A i \in Referenced : <<3, i>> \in DOMAIN hstr =>
    LET s == hstr[<<3, i>>]
    IN Len(s) >= 2 /\ s[1] = Len(s) /\ s[2] = 3

(***************************************************************************)
(* NoReadPastStrings: whatever string index the host asks for,             *)
(* _usb_get_descriptor never reads past the end of _VCOM_STRINGS.          *)
(***************************************************************************)
NoReadPastStrings == ~oob

(***************************************************************************)
(* EndpointsMatchDescriptor: once configured, every endpoint the host read *)
(* is enabled on the device in its direction and transfer type, and a bulk *)
(* data endpoint has the packet size the host was told.  (The notification *)
(* endpoint 2 is enabled with 16-byte packets against the 8 advertised;    *)
(* serial_usb never transmits on it.)                                       *)
(***************************************************************************)
EndpointsMatchDescriptor ==
  (hpc = "configured" /\ drv = "active") =>
    \A e \in HostEndpoints(hcfg) :
      LET c == eps[e.num]
      IN /\ c # NoEp
         /\ c.mode = e.mode
         /\ IF e.in THEN c.has_in ELSE c.has_out
         /\ e.mode = "bulk" => e.size = (IF e.in THEN c.in_maxsize ELSE c.out_maxsize)
====
