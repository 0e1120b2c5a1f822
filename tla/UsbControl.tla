----------------------------- MODULE UsbControl -----------------------------
(***************************************************************************)
(* The control endpoint: UsbDevice on top of UsbHw of the STM32F4, with    *)
(* the host at the other end.                                              *)
(*                                                                         *)
(* UsbHw::Handler runs in the interrupt in three parts: it empties the     *)
(* receive FIFO, serves the completed IN packet and acknowledges it, and   *)
(* serves the bus reset.  The host may act between any two of those steps, *)
(* and as late or as early as it likes.                                    *)
(*                                                                         *)
(* Endpoints are named as in the requests: n for OUT, 128 + n for IN.      *)
(***************************************************************************)
EXTENDS Integers, Sequences, SequencesExt

CONSTANTS
  Interfaces, \* what addClass and addIface have linked: "ctrl", "data", "msc"
  StringLen,  \* length of the string descriptor that is asked for
  Requests,   \* the requests the host may send
  Address,    \* addresses the host gives (bound)
  Slots       \* Ep0MaxBuffers, 4 in the code

P        == 64   \* USB_MAX_PACKET0
StallBit == 15   \* MSC_SetStallEP: EPNum = addr | 0x0F

\* bRequest with its recipient, the direction, wLength, the endpoint, interface
\* or value it is about, and the object an IN request asks for.
RequestType ==
  [kind : {"get_status", "clear_halt", "set_halt", "set_address", "get_descriptor",
           "set_descriptor", "get_configuration", "set_configuration",
           "get_interface", "set_interface",
           "msc_reset", "get_max_lun", "set_line_coding", "get_line_coding",
           "set_line_state", "cdc_other"},
   in : BOOLEAN, len : Nat, arg : Nat, alt : {0, 1},
   obj : {"none", "device_status", "interface_status", "endpoint_status", "device",
          "config", "string", "qualifier", "configuration", "alt_setting", "buf"}]

\* What chapter 9 of USB 2.0 and the class documents say of a request: its
\* direction, whether it has a data stage, and what it may be about.
WellFormed(r) ==
  /\ r.in => r.len > 0 /\ r.obj # "none"
  /\ r.kind # "cdc_other" =>
       (r.in <=> r.kind \in {"get_status", "get_descriptor", "get_configuration",
                            "get_interface", "get_max_lun", "get_line_coding"})
  /\ ~r.in /\ r.len > 0 => r.kind \in {"set_descriptor", "msc_reset", "set_line_coding", "cdc_other"}
  /\ r.kind = "get_descriptor" => r.obj \in {"device", "config", "string", "qualifier"}
  /\ r.kind = "set_address" => r.arg \in Address

ASSUME UsbControlAssumption ==
  /\ Interfaces \in Seq({"ctrl", "data", "msc"}) /\ Len(Interfaces) \in 1 .. 3
  /\ StringLen \in Nat \ {0}
  /\ Requests \subseteq RequestType
  /\ \A r \in Requests : WellFormed(r)
  /\ Address \subseteq 1 .. 127
  /\ Slots \in Nat \ {0}

-----------------------------------------------------------------------------
(* The device that buildDev links and the descriptors blddsc writes        *)

\* buildDev: interface i has endpoint i; the interrupt endpoint is IN only.
EpsOf(i)  == {128 + i} \cup (IF Interfaces[i] = "ctrl" THEN {} ELSE {i})
Endpoints == UNION {EpsOf(i) : i \in DOMAIN Interfaces}
Ep0       == {0, 128}
\* The interface with bInterfaceNumber w.
EpsOfIface(w) == IF w < Len(Interfaces) THEN EpsOf(w + 1) ELSE {}

\* enumerate: interface and endpoint descriptors; CDC adds the association and
\* the functional descriptors.
ConfigLen ==
  LET ctrls == {i \in DOMAIN Interfaces : Interfaces[i] = "ctrl"}
  IN  9 + (9 + 8 + 19 + 7) * Cardinality(ctrls)
        + (9 + 2 * 7) * Cardinality(DOMAIN Interfaces \ ctrls)

ObjLen(o) == CASE o = "device"    -> 18
               [] o = "config"    -> ConfigLen
               [] o = "string"    -> StringLen
               [] o = "qualifier" -> 10

None    == [obj |-> "none", at |-> 0, len |-> -1]
Dead    == [obj |-> "none", at |-> 0]
NoSetup == [kind |-> "none", in |-> FALSE, len |-> 0, arg |-> 0, alt |-> 0, obj |-> "none"]

VARIABLES
  phase,     \* host: stage of the control transfer
  req,       \* host: the request
  got,       \* host: bytes received in the data stage
  haddr,     \* host: address of the device
  hcfg,      \* host: configuration, -1 before it has set one, or when
             \* a SET_INTERFACE was refused since
  rx,        \* receive FIFO: SETUP and OUT packets
  outArmed,  \* EP0 accepts an OUT packet
  tx,        \* the packet EP0 offers, or None
  nak,       \* SETUP has set NAK on EP0 IN
  dirty,     \* a packet was written behind one that had not gone
  xfrc,      \* DIEPINT of EP0: an IN packet has gone
  stall0,    \* EP0 IN answers STALL
  busrst,    \* USBRST is pending
  hwaddr,    \* DCFG.DAD
  enabled,   \* endpoints that are active
  stalled,   \* endpoints that answer STALL
  txfifo,    \* DIEPTXF: place and size of the transmit FIFOs
  irq,       \* where the interrupt is
  setup,     \* SetupPacket
  ptr,       \* EP0Data.pData: object and offset, Dead when Count is 0
  count,     \* EP0Data.Count
  devaddr,   \* USB_DeviceAddress: address and the flag 0x80
  config,    \* USB_Configuration
  mask,      \* USB_EndPointMask
  halt,      \* USB_EndPointHalt
  stallMask, \* USB_EndPointStall
  ring,      \* Ep0Buf: ri, wi and le
  overtaken, \* a SETUP was served before the IN event of an earlier packet
  outrun     \* the last bus reset was served before a packet that came earlier

host   == <<phase, req, got, haddr, hcfg>>
ep0    == <<rx, outArmed, tx, nak, dirty, xfrc, stall0>>
hw     == <<hwaddr, enabled, stalled, txfifo>>
device == <<devaddr, config, mask, halt, stallMask>>
vars   == <<host, ep0, busrst, hw, irq, setup, ptr, count, device, ring, overtaken, outrun>>

Least(a, b) == IF a <= b THEN a ELSE b

-----------------------------------------------------------------------------
(* UsbEndpoint and UsbHw                                                   *)

\* UsbEndpoint::Write on EP0.  The FIFO sends what is first in it: a packet
\* written behind another one comes out wrong, and all that follow it.
Write(o, at, n) ==
  /\ dirty' = (dirty \/ tx # None)
  /\ tx' = [obj |-> IF dirty' THEN "garbled" ELSE o, at |-> at, len |-> n]
  /\ nak' = FALSE

\* UsbDevice::DataInStage with pData and Count; nothing is sent for Count = 0.
\* Mutant: a whole packet each time.
DataInWhole(o, at, n) ==
  IF n = 0 THEN ptr' = Dead /\ count' = 0 /\ UNCHANGED <<tx, nak, dirty>>
  ELSE /\ Write(o, at, P)
       /\ ptr' = [obj |-> o, at |-> at + P]
       /\ count' = n - P

\* Mutant: pData is not moved on.
DataInAgain(o, at, n) ==
  IF n = 0 THEN ptr' = Dead /\ count' = 0 /\ UNCHANGED <<tx, nak, dirty>>
  ELSE LET k == Least(n, P) IN
       /\ Write(o, at, k)
       /\ ptr' = IF n = k THEN Dead ELSE [obj |-> o, at |-> at]
       /\ count' = n - k

DataIn(o, at, n) ==
  IF n = 0 THEN ptr' = Dead /\ count' = 0 /\ UNCHANGED <<tx, nak, dirty>>
  ELSE LET k == Least(n, P) IN
       /\ Write(o, at, k)
       /\ ptr' = IF n = k THEN Dead ELSE [obj |-> o, at |-> at + k]
       /\ count' = n - k

StatusIn == Write("none", 0, 0)

\* usb_setEP for an IN endpoint: its FIFO follows those of the endpoints with
\* lower numbers, as their registers say at that time.  In words.
FifoBase == 128 + 16
FifoSize(n) == IF Interfaces[n - 128] = "ctrl" THEN 4 ELSE 16

\* offs, when the sizes of the first k registers are added.
Behind(f, k) ==
  LET offs[i \in 0 .. k] == IF i = 0 THEN FifoBase ELSE offs[i - 1] + f[128 + i].size
  IN  offs[k]

\* Mutant: one register too few in the sum.
PlaceShort(f, n) ==
  [f EXCEPT ![n] = [off  |-> Behind(f, IF n = 129 THEN 0 ELSE n - 128 - 2),
                    size |-> FifoSize(n)]]

Place(f, n) ==
  [f EXCEPT ![n] = [off |-> Behind(f, n - 128 - 1), size |-> FifoSize(n)]]

\* ... of the endpoints S, in the order of the descriptors.
PlaceAll(f, S) ==
  LET placed[i \in 0 .. Len(Interfaces)] ==
        IF i = 0 THEN f
        ELSE IF 128 + i \in S THEN Place(placed[i - 1], 128 + i) ELSE placed[i - 1]
  IN  placed[Len(Interfaces)]

\* EnableEP of the endpoints S.  The control registers are written anew: STALL
\* is gone.
Enable(S) ==
  /\ enabled' = enabled \cup S
  /\ stalled' = stalled \ S
  /\ txfifo' = PlaceAll(txfifo, S)

-----------------------------------------------------------------------------
(* UsbDevice: the requests.  Each one says what it does to the device and  *)
(* how it is answered.                                                     *)

\* Mutant: EP0 is left without an answer.
RefuseSilently == count' = 0 /\ ptr' = Dead /\ UNCHANGED <<tx, nak, dirty, stall0>>

Refuse == stall0' = TRUE /\ count' = 0 /\ ptr' = Dead /\ UNCHANGED <<tx, nak, dirty>>

Send(r, n)      == DataIn(r.obj, 0, n) /\ UNCHANGED stall0
Acknowledge(r)  == StatusIn /\ count' = r.len /\ ptr' = Dead /\ UNCHANGED stall0
DeviceUnchanged == UNCHANGED <<hw, device>>

Known(n) == config # 0 /\ n \notin Ep0 /\ n \in mask

GetStatus(r) ==
  /\ DeviceUnchanged
  /\ IF \/ r.obj = "device_status"
        \/ r.obj = "interface_status" /\ config # 0 /\ r.arg < Len(Interfaces)
        \/ r.obj = "endpoint_status" /\ r.arg \in mask /\ (config # 0 \/ r.arg \in Ep0)
       THEN Send(r, r.len) ELSE Refuse

SetHalt(r) ==
  /\ IF Known(r.arg)
       THEN /\ stalled' = stalled \cup {r.arg}
            /\ halt' = halt \cup {r.arg}
            /\ Acknowledge(r)
       ELSE UNCHANGED <<stalled, halt>> /\ Refuse
  /\ UNCHANGED <<hwaddr, enabled, txfifo, devaddr, config, mask, stallMask>>

\* Mutant: USB_EndPointHalt keeps its bit.
ClearHaltForgets(r) ==
  /\ IF Known(r.arg)
       THEN stalled' = stalled \ {r.arg} /\ Acknowledge(r)
       ELSE UNCHANGED stalled /\ Refuse
  /\ UNCHANGED <<hwaddr, enabled, txfifo, device>>

\* An endpoint whose bit is in USB_EndPointStall stays stalled.
ClearHalt(r) ==
  /\ IF Known(r.arg)
       THEN /\ IF r.arg \in stallMask THEN UNCHANGED <<stalled, halt>>
               ELSE halt' = halt \ {r.arg} /\ stalled' = stalled \ {r.arg}
            /\ Acknowledge(r)
       ELSE UNCHANGED <<stalled, halt>> /\ Refuse
  /\ UNCHANGED <<hwaddr, enabled, txfifo, devaddr, config, mask, stallMask>>

\* SetHwAddress of the STM32 sets the address at once.
SetAddress(r) ==
  /\ devaddr' = [addr |-> r.arg, flag |-> TRUE]
  /\ hwaddr' = r.arg
  /\ Acknowledge(r)
  /\ UNCHANGED <<enabled, stalled, txfifo, config, mask, halt, stallMask>>

\* Mutant: the length is not limited by wLength.
GetDescriptorWhole(r) == DeviceUnchanged /\ Send(r, ObjLen(r.obj))

\* pData is not set for the device qualifier.
GetDescriptor(r) ==
  /\ DeviceUnchanged
  /\ LET n == Least(r.len, ObjLen(r.obj)) IN
       IF r.obj = "qualifier"
         THEN DataIn("stale", 0, n) /\ UNCHANGED stall0
         ELSE Send(r, n)

GetConfiguration(r) == DeviceUnchanged /\ Send(r, r.len)

\* Mutant: nothing is disabled.
DeconfigureSoft(r) ==
  /\ config' = 0 /\ mask' = Ep0 /\ halt' = {} /\ stallMask' = {}
  /\ Acknowledge(r)
  /\ UNCHANGED <<hw, devaddr>>

\* SET_CONFIGURATION 0.
Deconfigure(r) ==
  /\ config' = 0 /\ mask' = Ep0 /\ halt' = {} /\ stallMask' = {}
  /\ enabled' = enabled \ mask
  /\ Acknowledge(r)
  /\ UNCHANGED <<hwaddr, stalled, txfifo, devaddr>>

\* The walk over the descriptors; the only configuration has the value 1.
SetConfiguration(r) ==
  IF r.arg = 0 THEN Deconfigure(r)
  ELSE IF r.arg = 1
    THEN /\ config' = 1 /\ halt' = {} /\ stallMask' = {}
         /\ mask' = Ep0 \cup Endpoints
         /\ Enable(Endpoints)
         /\ Acknowledge(r)
         /\ UNCHANGED <<hwaddr, devaddr>>
    ELSE DeviceUnchanged /\ Refuse

GetInterface(r) ==
  /\ DeviceUnchanged
  /\ IF config # 0 /\ r.arg < Len(Interfaces) THEN Send(r, r.len) ELSE Refuse

\* The descriptors have alternate setting 0 only.  For another one the walk
\* takes the endpoints for those of the old setting and disables them, and
\* the request is refused.
SetInterface(r) ==
  /\ IF config = 0 THEN DeviceUnchanged /\ Refuse
     ELSE LET S == EpsOfIface(r.arg) IN
          /\ halt' = halt \ S
          /\ IF r.alt = 0
               THEN Enable(S) /\ mask' = mask \cup S
               ELSE enabled' = enabled \ S /\ mask' = mask \ S /\ UNCHANGED <<stalled, txfifo>>
          /\ IF S # {} /\ r.alt = 0 THEN Acknowledge(r) ELSE Refuse
          /\ UNCHANGED <<hwaddr, devaddr, config, stallMask>>

\* MscIface::SetupHandler: MsClass::Reset clears USB_EndPointStall.
MscReset(r) ==
  IF r.len = 0
    THEN stallMask' = {} /\ Acknowledge(r) /\ UNCHANGED <<hw, devaddr, config, mask, halt>>
    ELSE DeviceUnchanged /\ Refuse

GetMaxLun(r) == DeviceUnchanged /\ (IF r.len = 1 THEN Send(r, r.len) ELSE Refuse)

\* CtrlIface::SetupHandler.  A request it does not know is not answered.
CtrlSetup(r) ==
  /\ DeviceUnchanged
  /\ CASE r.kind = "set_line_coding" ->
            ptr' = [obj |-> "buf", at |-> 0] /\ count' = r.len
            /\ UNCHANGED <<tx, nak, dirty, stall0>>
       [] r.kind = "get_line_coding" -> Send(r, r.len)
       [] r.kind = "set_line_state"  -> Acknowledge(r)
       [] r.kind = "cdc_other"       -> count' = r.len /\ ptr' = Dead /\ UNCHANGED <<tx, nak, dirty, stall0>>

\* UsbDevice::Ep0EventSetup and Ep0SetupClass.
Ep0EventSetup(r) ==
  CASE r.kind = "get_status"        -> GetStatus(r)
    [] r.kind = "set_halt"          -> SetHalt(r)
    [] r.kind = "clear_halt"        -> ClearHalt(r)
    [] r.kind = "set_address"       -> SetAddress(r)
    [] r.kind = "get_descriptor"    -> GetDescriptor(r)
    [] r.kind = "set_descriptor"    -> DeviceUnchanged /\ Refuse
    [] r.kind = "get_configuration" -> GetConfiguration(r)
    [] r.kind = "set_configuration" -> SetConfiguration(r)
    [] r.kind = "get_interface"     -> GetInterface(r)
    [] r.kind = "set_interface"     -> SetInterface(r)
    [] r.kind = "msc_reset"         -> MscReset(r)
    [] r.kind = "get_max_lun"       -> GetMaxLun(r)
    [] OTHER                        -> CtrlSetup(r)

-----------------------------------------------------------------------------
(* UsbHw::Handler                                                          *)

IrqEnter ==
  /\ irq = "off" /\ (rx # << >> \/ xfrc \/ busrst)
  /\ irq' = "rx"
  /\ UNCHANGED <<host, ep0, busrst, hw, setup, ptr, count, device, ring, overtaken, outrun>>

\* STS_SETUP_UPDT: SetupStage reads the packet and arms EP0 OUT again.
RxSetup ==
  /\ irq = "rx" /\ rx # << >> /\ Head(rx).item = "setup"
  /\ LET r == Head(rx).req IN setup' = r /\ Ep0EventSetup(r)
  /\ rx' = Tail(rx)
  /\ outArmed' = TRUE
  /\ overtaken' = (xfrc \/ (overtaken /\ dirty))
  /\ UNCHANGED <<host, xfrc, busrst, irq, ring, outrun>>

\* UsbEndpoint::Read on EP0: the oldest slot of the ring.
Pop(q)  == IF q.le = 0 THEN q ELSE [q EXCEPT !.ri = (@ + 1) % Slots, !.le = @ - 1]
Push(q) == [q EXCEPT !.wi = (@ + 1) % Slots, !.le = @ + 1]

\* bmRequestType.BM.Type is REQUEST_CLASS; all of these are for an interface.
ClassKinds == {"msc_reset", "get_max_lun", "set_line_coding", "get_line_coding",
               "set_line_state", "cdc_other"}

\* STS_DATA_UPDT: Ep0OutHandler puts the packet into the ring, Ep0EventOut may
\* take it (data or status stage), and what it did not take is read after it.
\* Data of a class request is given the status, whatever CommandHandler says of
\* it (Ep0OutClass).
RxData ==
  /\ irq = "rx" /\ rx # << >> /\ Head(rx).item = "data"
  /\ LET n    == Head(rx).len
         took == ~setup.in /\ count > 0
         q    == IF n > 0 THEN Push(ring) ELSE ring
         q2   == IF took \/ setup.in THEN Pop(q) ELSE q IN
       /\ ring' = IF q2.le > 0 THEN Pop(q2) ELSE q2
       /\ ptr' = IF took THEN Dead ELSE ptr
       /\ count' = IF took THEN count - n ELSE count
       /\ CASE took /\ count = n /\ setup.kind \in ClassKinds -> StatusIn /\ UNCHANGED stall0
            [] took /\ count = n /\ setup.kind \notin ClassKinds ->
                 stall0' = TRUE /\ UNCHANGED <<tx, nak, dirty>>
            [] OTHER -> UNCHANGED <<tx, nak, dirty, stall0>>
  /\ rx' = Tail(rx)
  /\ outArmed' = TRUE
  /\ UNCHANGED <<host, xfrc, busrst, hw, irq, setup, device, overtaken, outrun>>

\* Mutant: the flag of the IN event is not looked at.
RxDoneBlind ==
  /\ irq = "rx" /\ rx = << >>
  /\ irq' = "in"
  /\ UNCHANGED <<host, ep0, busrst, hw, setup, ptr, count, device, ring, overtaken, outrun>>

RxDone ==
  /\ irq = "rx" /\ rx = << >>
  /\ irq' = IF xfrc THEN "in" ELSE "rst"
  /\ UNCHANGED <<host, ep0, busrst, hw, setup, ptr, count, device, ring, overtaken, outrun>>

\* Ep0EventIn, by the direction of the SETUP packet that is there now.
InEvent ==
  /\ irq = "in"
  /\ irq' = "ack"
  /\ IF setup.in
       THEN DataIn(ptr.obj, ptr.at, count) /\ UNCHANGED <<hwaddr, devaddr>>
       ELSE /\ hwaddr' = IF devaddr.flag THEN devaddr.addr ELSE hwaddr
            /\ devaddr' = [devaddr EXCEPT !.flag = FALSE]
            /\ UNCHANGED <<tx, nak, dirty, ptr, count>>
  /\ UNCHANGED <<host, rx, outArmed, xfrc, stall0, busrst, enabled, stalled, txfifo, setup,
                 config, mask, halt, stallMask, ring, overtaken, outrun>>

\* The flag is cleared after the event: a packet that has gone since is not
\* noticed.
InAck ==
  /\ irq = "ack"
  /\ xfrc' = FALSE
  /\ irq' = "rst"
  /\ UNCHANGED <<host, rx, outArmed, tx, nak, dirty, stall0, busrst, hw, setup, ptr, count,
                 device, ring, overtaken, outrun>>

\* Mutant: the address is kept.
ResetKeeps(S) ==
  /\ enabled' = enabled \ S /\ stalled' = stalled \ S
  /\ tx' = None /\ nak' = TRUE /\ dirty' = FALSE /\ stall0' = FALSE /\ outArmed' = TRUE
  /\ UNCHANGED <<hwaddr, txfifo>>

\* UsbHw::Reset.  The endpoints that were armed are disabled, S: those for OUT
\* and none or all of those for IN (bound).  UsbDevice and the classes are not
\* told.
Reset(S) ==
  /\ enabled' = enabled \ S /\ stalled' = stalled \ S
  /\ hwaddr' = 0
  /\ tx' = None /\ nak' = TRUE /\ dirty' = FALSE /\ stall0' = FALSE /\ outArmed' = TRUE
  /\ UNCHANGED txfifo

IrqLeave ==
  /\ irq = "rst"
  /\ irq' = "off"
  /\ IF busrst THEN \E S \in {enabled, {n \in enabled : n < 128}} : Reset(S)
     ELSE UNCHANGED <<hw, tx, nak, dirty, stall0, outArmed>>
  /\ outrun' = IF busrst THEN xfrc \/ rx # << >> ELSE outrun
  /\ busrst' = FALSE
  /\ UNCHANGED <<host, rx, xfrc, setup, ptr, count, device, ring, overtaken>>

Irq == IrqEnter \/ RxSetup \/ RxData \/ RxDone \/ InEvent \/ InAck \/ IrqLeave

\* MsClass stalls its endpoints to stay so (MSC_SetStallEPStall, twice).
ClassStalls(S) ==
  /\ irq = "off" /\ config # 0
  /\ Last(Interfaces) = "msc" /\ S = EpsOf(Len(Interfaces)) /\ S \subseteq enabled
  /\ stallMask' = stallMask \cup {StallBit, 128 + StallBit}
  /\ halt' = halt \cup {StallBit, 128 + StallBit}
  /\ stalled' = stalled \cup S
  /\ UNCHANGED <<host, ep0, busrst, hwaddr, enabled, txfifo, irq, setup, ptr, count,
                 devaddr, config, mask, ring, overtaken, outrun>>

-----------------------------------------------------------------------------
(* The host                                                                *)

\* What a host asks for and when: an address first, then a configuration, and
\* the rest of the configured device.
Legal(r) ==
  CASE r.kind = "get_descriptor"    -> TRUE
    [] r.kind = "set_address"       -> haddr = 0
    [] r.kind \in {"set_configuration", "get_configuration"} -> haddr # 0
    [] r.kind = "get_status" /\ r.obj = "device_status" -> haddr # 0
    [] OTHER                        -> hcfg = 1

\* The interrupt may be held up, by the storage for half a second, but not
\* before a device has its address, nor for the recovery time after a reset.
\* After an event that leaves the FIFO or the address wrong only a reset is
\* followed up (bound).
HostSetup(r) ==
  /\ phase = "idle" /\ Legal(r)
  /\ haddr = hwaddr /\ ~busrst
  /\ haddr = 0 => irq = "off" /\ rx = << >> /\ ~xfrc
  /\ ~dirty /\ ~outrun
  /\ rx' = Append(rx, [item |-> "setup", req |-> r])
  /\ nak' = TRUE /\ outArmed' = FALSE /\ stall0' = FALSE
  /\ req' = r /\ got' = 0
  /\ phase' = IF r.in THEN "in" ELSE IF r.len > 0 THEN "out" ELSE "statusIn"
  /\ UNCHANGED <<haddr, hcfg, tx, dirty, xfrc, busrst, hw, irq, setup, ptr, count, device,
                 ring, overtaken, outrun>>

\* The core lets the new address wait for the end of the transfer in which
\* SET_ADDRESS came.
Offered == tx # None /\ ~nak

Ends == phase' = "idle" /\ req' = NoSetup /\ got' = 0

HostIn ==
  /\ phase = "in" /\ ~stall0 /\ Offered
  /\ got' = got + tx.len
  /\ phase' = IF tx.len < P \/ got' >= req.len THEN "statusOut" ELSE "in"
  /\ tx' = None /\ xfrc' = TRUE
  /\ UNCHANGED <<req, haddr, hcfg, rx, outArmed, nak, dirty, stall0, busrst, hw, irq, setup,
                 ptr, count, device, ring, overtaken, outrun>>

HostData ==
  /\ phase \in {"out", "statusOut"} /\ outArmed
  /\ rx' = Append(rx, [item |-> "data", len |-> IF phase = "out" THEN req.len ELSE 0])
  /\ outArmed' = FALSE
  /\ IF phase = "out" THEN phase' = "statusIn" /\ UNCHANGED <<req, got>> ELSE Ends
  /\ UNCHANGED <<haddr, hcfg, tx, nak, dirty, xfrc, stall0, busrst, hw, irq, setup,
                 ptr, count, device, ring, overtaken, outrun>>

HostStatus ==
  /\ phase = "statusIn" /\ ~stall0 /\ Offered
  /\ tx' = None /\ xfrc' = TRUE
  /\ Ends
  /\ haddr' = IF req.kind = "set_address" THEN req.arg ELSE haddr
  /\ hcfg' = IF req.kind = "set_configuration" THEN req.arg ELSE hcfg
  /\ UNCHANGED <<rx, outArmed, nak, dirty, stall0, busrst, hw, irq, setup, ptr,
                 count, device, ring, overtaken, outrun>>

\* A STALL ends the transfer.
HostStalled ==
  /\ phase \in {"in", "statusIn"} /\ stall0
  /\ Ends
  /\ hcfg' = IF req.kind = "set_interface" THEN -1 ELSE hcfg
  /\ UNCHANGED <<haddr, ep0, busrst, hw, irq, setup, ptr, count, device, ring,
                 overtaken, outrun>>

\* Seconds without an answer.
Quiet == irq = "off" /\ rx = << >> /\ ~xfrc /\ ~busrst /\ ~stall0 /\ ~Offered

HostTimeout ==
  /\ phase \in {"in", "statusIn"} /\ Quiet
  /\ Ends
  /\ UNCHANGED <<haddr, hcfg, ep0, busrst, hw, irq, setup, ptr, count, device, ring,
                 overtaken, outrun>>

BusReset ==
  /\ ~busrst
  /\ busrst' = TRUE
  /\ Ends /\ haddr' = 0 /\ hcfg' = -1
  /\ UNCHANGED <<ep0, hw, irq, setup, ptr, count, device, ring, overtaken, outrun>>

-----------------------------------------------------------------------------
Init ==
  /\ phase = "idle" /\ req = NoSetup /\ got = 0 /\ haddr = 0 /\ hcfg = -1
  /\ rx = << >> /\ outArmed = TRUE /\ tx = None /\ nak = TRUE /\ dirty = FALSE
  /\ xfrc = FALSE /\ stall0 = FALSE /\ busrst = FALSE
  /\ hwaddr = 0 /\ enabled = {} /\ stalled = {}
  /\ txfifo = [n \in {m \in Endpoints : m > 128} |-> [off |-> 1024, size |-> 512]]
  /\ irq = "off" /\ setup = NoSetup
  /\ ptr = Dead /\ count = 0
  /\ devaddr = [addr |-> 0, flag |-> FALSE]
  /\ config = 0 /\ mask = {} /\ halt = {} /\ stallMask = {}
  /\ ring = [ri |-> 0, wi |-> 0, le |-> 0]
  /\ overtaken = FALSE /\ outrun = FALSE

Host == HostIn \/ HostData \/ HostStatus \/ HostStalled

Next ==
  \/ Irq \/ Host \/ HostTimeout \/ BusReset
  \/ \E r \in Requests : HostSetup(r)
  \/ ClassStalls(EpsOf(Len(Interfaces)))

\* The interrupt is served and the host goes on with the transfer it began.
Spec == Init /\ [][Next]_vars /\ WF_vars(Irq) /\ WF_vars(Host)

-----------------------------------------------------------------------------
(* Properties                                                              *)

TypeOK ==
  /\ phase \in {"idle", "in", "out", "statusIn", "statusOut"}
  /\ req \in Requests \cup {NoSetup} /\ setup \in Requests \cup {NoSetup}
  /\ got \in Nat /\ count \in Nat
  /\ haddr \in Address \cup {0} /\ hwaddr \in Address \cup {0}
  /\ hcfg \in {-1, 0, 1} /\ config \in {0, 1}
  /\ irq \in {"off", "rx", "in", "ack", "rst"}
  /\ Len(rx) <= 2
  /\ tx = None \/ tx.len \in 0 .. P
  /\ {outArmed, nak, dirty, xfrc, stall0, busrst, overtaken, outrun} \subseteq BOOLEAN
  /\ enabled \subseteq Endpoints /\ stalled \subseteq Endpoints
  /\ mask \subseteq Endpoints \cup Ep0
  /\ halt \subseteq Endpoints \cup {StallBit, 128 + StallBit}
  /\ stallMask \subseteq {StallBit, 128 + StallBit}
  /\ devaddr.addr \in Address \cup {0} /\ devaddr.flag \in BOOLEAN
  /\ ring.ri \in 0 .. (Slots - 1) /\ ring.wi \in 0 .. (Slots - 1) /\ ring.le = 0

\* The host gets the object it asked for, packet by packet from its beginning,
\* as long as no packet was written behind another one.  Not claimed of the
\* device qualifier, for which pData is not set, and of a CDC request that is
\* not known.
DataInOrder ==
  [][phase = "in" /\ got' > got /\ ~dirty /\ req.obj # "qualifier" /\ req.kind # "cdc_other"
       => tx.obj = req.obj /\ tx.at = got]_vars

\* ... and all of it, or as much as it asked for.
DataComplete ==
  phase = "statusOut" /\ ~dirty =>
    got = IF req.kind = "get_descriptor" THEN Least(req.len, ObjLen(req.obj)) ELSE req.len

\* A packet is written behind another one only when a SETUP has overtaken the
\* IN event of an earlier transfer, which Ep0EventIn then takes for one of its
\* own.
CleanUnlessOvertaken == dirty => overtaken \/ outrun

\* Whatever the order of SET_ADDRESS, bus resets and IN events: when the
\* interrupt has done its work the device answers to the address the host uses.
\* The exception is a reset that comes, with a status packet before it, between
\* the last two parts of the handler: Ep0EventIn then sets the old address.
AddressAgrees ==
  phase = "idle" /\ irq = "off" /\ rx = << >> /\ ~xfrc /\ ~busrst =>
    hwaddr = haddr \/ outrun

\* A device the host has configured has all its endpoints active, and after
\* SET_CONFIGURATION 0 none, whatever came before: resets, of which UsbDevice
\* is not told, halts or another configuration.
ConfigAgrees ==
  phase = "idle" /\ hcfg # -1 =>
    /\ config = hcfg
    /\ enabled = IF hcfg = 1 THEN Endpoints ELSE {}
    /\ mask = enabled \cup Ep0

\* What GET_STATUS reports as halted does answer STALL.
HaltTruthful == hcfg = 1 => halt \cap Endpoints \subseteq stalled

\* The transmit FIFOs of active endpoints do not overlap, nor reach into the
\* words of the receive FIFO and of EP0 before them, although each place is
\* computed from the registers of the lower endpoints as they are.
FifosDisjoint ==
  LET active == {n \in enabled : n > 128} IN
    /\ \A n \in active : txfifo[n].off >= FifoBase
    /\ \A m, n \in active :
         m < n => txfifo[m].off + txfifo[m].size <= txfifo[n].off

\* CtrlIface leaves a request it does not know without an answer, unless it
\* comes with data, and nothing marks the end of data that fills its last
\* packet and is shorter than asked.
Unanswered(r) ==
  \/ r.kind = "cdc_other" /\ (r.in \/ r.len = 0)
  \/ r.kind = "get_descriptor" /\ ObjLen(r.obj) < r.len /\ ObjLen(r.obj) % P = 0

\* The host has taken the packet that InEvent wrote before InAck clears the flag
\* which tells of it, and there is more to send.
EventLost == irq = "ack" /\ phase = "in" /\ setup.in /\ tx = None /\ count > 0

\* Every other control transfer comes from its beginning to its end without the
\* help of a timeout, however many packets it has, unless the event of one of
\* them is lost.
TransferEnds ==
  (phase # "idle" /\ got = 0) ~>
     (phase = "idle" \/ Unanswered(req) \/ dirty \/ EventLost)
=============================================================================
