-------------------------- MODULE UsbControlProofs --------------------------
(***************************************************************************)
(* Proofs about the control endpoint, for any interfaces, any set of       *)
(* well-formed requests, any string descriptor and any number of slots.    *)
(*                                                                         *)
(* Core ties the host, the FIFOs of EP0 and the data stage together.  Its  *)
(* heart is OneWriter: of the steps that write to the transmit FIFO        *)
(* (a SETUP packet, an OUT packet, an IN event) only one has a reason to,  *)
(* and then nothing is on offer.  DeviceInv, inductive relative to Core,   *)
(* ties what the host knows of the device to what the device has set.      *)
(***************************************************************************)
EXTENDS UsbControl, FiniteSetTheorems, SequenceTheorems, TLAPS

SetupOf(r) == [item |-> "setup", req |-> r]
Lengths    == {0} \cup {r.len : r \in Requests}
DataOf(n)  == [item |-> "data", len |-> n]

\* The receive FIFO: a SETUP packet, a packet of data that belongs to the
\* transfer before it, or one behind it.
Shape ==
  \/ rx = << >>
  \/ \E r \in Requests : rx = <<SetupOf(r)>>
  \/ \E n \in Lengths : rx = <<DataOf(n)>>
  \/ \E r \in Requests, n \in Lengths : rx = <<SetupOf(r), DataOf(n)>>
  \/ \E r \in Requests, n \in Lengths : rx = <<DataOf(n), SetupOf(r)>>

Pending    == \E i \in DOMAIN rx : rx[i].item = "setup"
SetupFirst == rx # << >> /\ rx[1].item = "setup"
DataFirst  == rx # << >> /\ rx[1].item = "data"
Two        == Len(rx) = 2
Asked      == IF SetupFirst THEN rx[1].req ELSE rx[2].req

Flags ==
  /\ outArmed \in BOOLEAN /\ nak \in BOOLEAN /\ dirty \in BOOLEAN /\ xfrc \in BOOLEAN
  /\ stall0 \in BOOLEAN /\ busrst \in BOOLEAN /\ overtaken \in BOOLEAN /\ outrun \in BOOLEAN

\* Types of the transfer
Stages ==
  /\ phase \in {"idle", "in", "out", "statusIn", "statusOut"}
  /\ irq \in {"off", "rx", "in", "ack", "rst"}
  /\ req \in Requests \cup {NoSetup} /\ setup \in Requests \cup {NoSetup}
  /\ got \in Nat /\ count \in Nat
  /\ tx = None \/ tx.len \in 0 .. P

Armed ==
  outArmed /\ phase \in {"out", "statusOut"} => rx = << >> \/ (SetupFirst /\ ~Two)

Transfer ==
  /\ busrst \/ outrun => phase = "idle"
  /\ phase = "idle" => req = NoSetup /\ got = 0
  /\ phase # "idle" => req \in Requests /\ (req.in <=> phase \in {"in", "statusOut"})
  /\ phase \in {"in", "out"} => rx = << >> \/ Pending
  /\ phase = "out" => req.len > 0
  /\ Pending /\ ~busrst /\ ~outrun =>
       /\ phase \in {"in", "out", "statusIn"} /\ got = 0 /\ ~dirty
       /\ Asked = req
  /\ phase # "idle" /\ ~Pending => setup = req
  /\ Two /\ SetupFirst => /\ phase \in {"statusIn", "idle"}
                          /\ rx[2].len = Asked.len
                          /\ ~Asked.in

\* The data of an OUT request.
DataOut ==
  ~setup.in => /\ count \in {0, setup.len}
               /\ (count > 0 /\ DataFirst) => rx[1].len = count

TxLen == IF tx = None THEN 0 ELSE tx.len
Settled == phase = "idle" /\ ~busrst

\* Nothing is offered, and nothing will be, when a SETUP packet is waiting or
\* no transfer is under way.
Empty ==
  /\ Pending \/ Settled \/ phase \in {"out", "statusOut"} => tx = None
  /\ (Pending \/ Settled) /\ xfrc /\ irq # "ack" /\ setup.in => count = 0
  /\ phase = "statusOut" => count = 0
  /\ tx # None => ~nak

\* Who may write: only one of those that could write has a reason to.
OneWriter ==
  /\ ~setup.in /\ count > 0 => tx = None
  /\ xfrc /\ irq # "ack" /\ setup.in /\ count > 0 /\ ~overtaken => tx = None
  /\ stall0 => tx = None /\ count = 0
  /\ Pending => ~stall0
  /\ (Settled /\ rx # << >>) \/ (Two /\ DataFirst) => setup.in \/ count = 0

\* The data of an IN request: what has gone, what is offered and what is left.
Total(r) == IF r.kind = "get_descriptor" THEN Least(r.len, ObjLen(r.obj)) ELSE r.len
DataStage ==
  phase = "in" /\ ~Pending /\ ~stall0 =>
     /\ got + TxLen + count = Total(req)
     /\ tx # None /\ count > 0 => tx.len = P

Clean == ~dirty /\ ~outrun => Empty /\ OneWriter /\ DataStage

Core ==
  /\ Stages /\ Flags /\ Shape /\ Armed /\ Transfer /\ DataOut
  /\ CleanUnlessOvertaken /\ (irq = "in" => xfrc) /\ Clean

\* What the host has got when the data stage is over.
Complete == phase = "statusOut" /\ ~dirty => got = Total(req)

\* The packet on offer and the rest continue what the host has got.
InOrder ==
  phase = "in" /\ ~Pending /\ ~stall0 /\ ~dirty
    /\ req.obj # "qualifier" /\ req.kind # "cdc_other" =>
    /\ tx # None => tx.obj = req.obj /\ tx.at = got
    /\ count > 0 => ptr = [obj |-> req.obj, at |-> got + TxLen]

\* Types of the device
DeviceTypes ==
  /\ haddr \in Address \cup {0} /\ hwaddr \in Address \cup {0}
  /\ hcfg \in {-1, 0, 1} /\ config \in {0, 1}
  /\ enabled \subseteq Endpoints /\ stalled \subseteq Endpoints
  /\ mask \subseteq Endpoints \cup Ep0
  /\ halt \subseteq Endpoints \cup {StallBit, 128 + StallBit}
  /\ stallMask \subseteq {StallBit, 128 + StallBit}
  /\ devaddr \in [addr : Address \cup {0}, flag : BOOLEAN]

\* Every packet of data is taken out of the ring in the step that puts it in.
SlotNumbers == 0 .. (Slots - 1)
RingEmpty == ring \in [ri : SlotNumbers, wi : SlotNumbers, le : {0}]

\* The device has served a request and the host has not seen it yet.
Served      == phase = "statusIn" /\ ~Pending
Configuring == Served /\ req.kind = "set_configuration" /\ ~stall0
Disabling   == Served /\ req.kind = "set_interface" /\ stall0
Addressing  == Served /\ req.kind = "set_address"

Configured(c) ==
  /\ config = c
  /\ enabled = IF c = 1 THEN Endpoints ELSE {}
  /\ mask = enabled \cup Ep0
HaltShown == halt \cap Endpoints \subseteq stalled

\* The configuration of the device is the one the host has set or is setting.
Configuration ==
  /\ enabled \subseteq mask
  /\ Configuring => req.arg \in {0, 1} /\ Configured(req.arg) /\ HaltShown
  /\ hcfg # -1 /\ ~Configuring /\ ~Disabling => Configured(hcfg)
  /\ hcfg = 1 => HaltShown
  /\ phase # "idle" /\ req.kind = "set_interface" => hcfg = 1

\* What the host knows is lost with a reset, and is set in this order.
Enumeration ==
  /\ busrst \/ outrun => haddr = 0
  /\ haddr = 0 => hcfg = -1
  /\ phase # "idle" /\ req.kind = "set_configuration" => haddr # 0

\* The status of these requests is on offer as soon as they are served.
StatusOffered ==
  /\ Served /\ req.kind \in {"set_configuration", "set_interface", "set_address"} /\ ~stall0 =>
       tx # None /\ ~nak
  /\ Addressing => ~stall0

\* USB_DeviceAddress of a transfer that a reset has ended is never used.
Stale == devaddr.flag /\ devaddr.addr # hwaddr
Addressed ==
  ~busrst /\ ~outrun =>
    /\ hwaddr = IF Addressing THEN req.arg ELSE haddr
    /\ Stale => /\ haddr = 0
                /\ xfrc => setup.in
                /\ phase # "idle" => req.in \/ (Pending /\ req.kind = "set_address")

DeviceInv == DeviceTypes /\ RingEmpty /\ Configuration /\ Enumeration /\ StatusOffered /\ Addressed

-----------------------------------------------------------------------------
(* Requests, packets and the receive FIFO                                  *)

\* A request is one of chapter 9 or of a class, and its fields have their types.
LEMMA RequestFields ==
  ASSUME NEW r \in Requests
  PROVE  /\ r \in RequestType /\ WellFormed(r) /\ r # NoSetup
         /\ r.len \in Nat /\ r.in \in BOOLEAN /\ r.arg \in Nat /\ r.alt \in {0, 1}
<1>1. r \in RequestType /\ WellFormed(r)
  BY UsbControlAssumption
<1>2. r # NoSetup
  BY <1>1 DEF RequestType, NoSetup
<1> QED
  BY <1>1, <1>2 DEF RequestType

\* The lengths of the descriptors are numbers.
LEMMA ConfigLength == ConfigLen \in Nat
<1> DEFINE ctrls == {i \in DOMAIN Interfaces : Interfaces[i] = "ctrl"}
           rest  == DOMAIN Interfaces \ ctrls
<1>1. DOMAIN Interfaces = 1 .. Len(Interfaces) /\ Len(Interfaces) \in Nat
  BY UsbControlAssumption
<1>2. IsFiniteSet(DOMAIN Interfaces)
  BY <1>1, FS_Interval
<1>3. IsFiniteSet(ctrls) /\ IsFiniteSet(rest)
  BY <1>2, FS_Subset
<1>4. Cardinality(ctrls) \in Nat /\ Cardinality(rest) \in Nat
  BY <1>3, FS_CardinalityType
<1>5. ConfigLen = 9 + (9 + 8 + 19 + 7) * Cardinality(ctrls) + (9 + 2 * 7) * Cardinality(rest)
  BY DEF ConfigLen
<1> HIDE DEF ctrls, rest
<1> QED
  BY <1>4, <1>5

\* A data stage has a length, at most what the host asks for.
LEMMA TotalBound ==
  ASSUME NEW r \in Requests
  PROVE  Total(r) \in Nat /\ Total(r) <= r.len
<1>1. r.len \in Nat /\ WellFormed(r)
  BY RequestFields
<1>2. ASSUME r.kind = "get_descriptor"
      PROVE  ObjLen(r.obj) \in Nat
  BY <1>1, <1>2, ConfigLength, UsbControlAssumption DEF WellFormed, ObjLen
<1> QED
  BY <1>1, <1>2 DEF Total, Least

\* What is at the head of the receive FIFO, and what is behind it.
LEMMA QueueCases ==
  ASSUME Shape
  PROVE  /\ rx # << >> <=> SetupFirst \/ DataFirst
         /\ ~ (SetupFirst /\ DataFirst)
         /\ Pending <=> SetupFirst \/ (DataFirst /\ Two)
         /\ Two => rx # << >>
         /\ Pending => Asked \in Requests
         /\ DataFirst => rx[1].len \in Nat
         /\ Len(rx) <= 2
<1>1. \A r \in Requests : r.len \in Nat
  BY RequestFields
<1>2. Lengths \subseteq Nat
  BY <1>1 DEF Lengths
<1>3. CASE rx = << >>
  BY <1>3 DEF Pending, SetupFirst, DataFirst, Two, Asked
<1>4. CASE \E r \in Requests : rx = <<SetupOf(r)>>
  BY <1>4 DEF Pending, SetupFirst, DataFirst, Two, Asked, SetupOf
<1>5. CASE \E n \in Lengths : rx = <<DataOf(n)>>
  BY <1>2, <1>5 DEF Pending, SetupFirst, DataFirst, Two, Asked, DataOf
<1>6. CASE \E r \in Requests, n \in Lengths : rx = <<SetupOf(r), DataOf(n)>>
  BY <1>2, <1>6 DEF Pending, SetupFirst, DataFirst, Two, Asked, SetupOf, DataOf
<1>7. CASE \E r \in Requests, n \in Lengths : rx = <<DataOf(n), SetupOf(r)>>
  BY <1>2, <1>7 DEF Pending, SetupFirst, DataFirst, Two, Asked, SetupOf, DataOf
<1> QED
  BY <1>3, <1>4, <1>5, <1>6, <1>7 DEF Shape

\* A step that leaves the receive FIFO alone.
LEMMA QueueKept ==
  ASSUME rx' = rx
  PROVE  /\ Shape' <=> Shape
         /\ Pending' <=> Pending
         /\ SetupFirst' <=> SetupFirst
         /\ DataFirst' <=> DataFirst
         /\ Two' <=> Two
         /\ Asked' = Asked
BY DEF Shape, Pending, SetupFirst, DataFirst, Two, Asked

\* Short sequences.
LEMMA Tuples ==
  ASSUME NEW a, NEW b
  PROVE  /\ Append(<< >>, a) = <<a>> /\ Append(<<a>>, b) = <<a, b>>
         /\ Tail(<<a>>) = << >> /\ Tail(<<a, b>>) = <<b>>
         /\ Head(<<a>>) = a /\ Head(<<a, b>>) = a
<1>1. Append(<<a>>, b) = <<a, b>>
  <2> DEFINE s == Append(<<a>>, b)
  <2>1. <<a>> \in Seq({a, b}) /\ b \in {a, b} /\ <<a, b>> \in Seq({a, b})
    OBVIOUS
  <2>2. s \in Seq({a, b}) /\ Len(s) = 2 /\ s[1] = a /\ s[2] = b
    BY <2>1, AppendProperties
  <2>3. Len(<<a, b>>) = 2 /\ <<a, b>>[1] = a /\ <<a, b>>[2] = b
    OBVIOUS
  <2> HIDE DEF s
  <2>4. s = <<a, b>>
    BY <2>1, <2>2, <2>3, SeqEqual
  <2> QED
    BY <2>4 DEF s
<1>2. Append(<< >>, a) = <<a>>
  OBVIOUS
<1>3. Tail(<<a>>) = << >> /\ Tail(<<a, b>>) = <<b>>
  OBVIOUS
<1>4. Head(<<a>>) = a /\ Head(<<a, b>>) = a
  OBVIOUS
<1> QED
  BY <1>1, <1>2, <1>3, <1>4

\* The host sends a SETUP packet.
LEMMA SetupComes ==
  ASSUME Shape, ~Pending, NEW r \in Requests, rx' = Append(rx, SetupOf(r))
  PROVE  /\ Shape' /\ Pending' /\ Asked' = r
         /\ ~ (Two /\ SetupFirst)'
         /\ (Two /\ DataFirst)' <=> DataFirst
         /\ DataFirst' => DataFirst /\ rx'[1].len = rx[1].len
<1>1. CASE rx = << >>
  <2>1. rx' = <<SetupOf(r)>>
    BY <1>1
  <2> QED
    BY <1>1, <2>1 DEF Shape, Pending, SetupFirst, DataFirst, Two, Asked, SetupOf
<1>2. CASE \E n \in Lengths : rx = <<DataOf(n)>>
  <2>1. PICK n \in Lengths : rx = <<DataOf(n)>>
    BY <1>2
  <2>2. rx' = <<DataOf(n), SetupOf(r)>>
    BY <2>1, Tuples
  <2>3. Shape'
    BY <2>2 DEF Shape
  <2>4. Pending' /\ Asked' = r /\ Two' /\ ~SetupFirst' /\ DataFirst' /\ rx'[1].len = n
    BY <2>2 DEF Pending, SetupFirst, DataFirst, Two, Asked, SetupOf, DataOf
  <2>5. DataFirst /\ rx[1].len = n
    BY <2>1 DEF DataFirst, DataOf
  <2> QED
    BY <2>3, <2>4, <2>5
<1>3. rx = << >> \/ \E n \in Lengths : rx = <<DataOf(n)>>
  BY QueueCases DEF Shape, Pending, SetupOf, DataOf
<1> QED
  BY <1>1, <1>2, <1>3

\* The host sends a packet of data.
LEMMA DataComes ==
  ASSUME Shape, rx = << >> \/ (SetupFirst /\ ~Two),
         NEW n \in Lengths, rx' = Append(rx, DataOf(n))
  PROVE  /\ Shape'
         /\ rx = << >> => /\ ~Pending' /\ ~Two' /\ ~SetupFirst' /\ DataFirst' /\ rx'[1].len = n
         /\ rx # << >> => /\ Pending' /\ Two' /\ SetupFirst' /\ ~DataFirst'
                          /\ Pending /\ Asked' = Asked /\ rx'[2].len = n
<1>1. CASE rx = << >>
  <2>1. rx' = <<DataOf(n)>>
    BY <1>1
  <2> QED
    BY <1>1, <2>1 DEF Shape, Pending, SetupFirst, DataFirst, Two, DataOf
<1>2. CASE \E r \in Requests : rx = <<SetupOf(r)>>
  <2>1. PICK r \in Requests : rx = <<SetupOf(r)>>
    BY <1>2
  <2>2. rx' = <<SetupOf(r), DataOf(n)>>
    BY <2>1, Tuples
  <2>3. Shape'
    BY <2>2 DEF Shape
  <2>4. Two' /\ SetupFirst' /\ ~DataFirst'
    BY <2>2 DEF SetupFirst, DataFirst, Two, SetupOf
  <2>7. rx'[2].len = n
    BY <2>2 DEF DataOf
  <2>6. Pending' /\ Asked' = r
    BY <2>2 DEF Pending, Asked, SetupFirst, SetupOf
  <2>5. rx # << >> /\ Pending /\ Asked = r
    BY <2>1 DEF Pending, Asked, SetupFirst, SetupOf
  <2> QED
    BY <2>3, <2>4, <2>5, <2>6, <2>7
<1>3. rx = << >> \/ \E r \in Requests : rx = <<SetupOf(r)>>
  BY DEF Shape, SetupFirst, Two, SetupOf, DataOf
<1> QED
  BY <1>1, <1>2, <1>3

\* One packet of data.
LEMMA OneData ==
  ASSUME NEW n \in Lengths, rx' = <<DataOf(n)>>
  PROVE  Shape' /\ ~Pending' /\ ~SetupFirst' /\ ~Two' /\ DataFirst' /\ rx'[1].len = n
<1>1. DataFirst' /\ ~SetupFirst' /\ ~Two' /\ ~Pending' /\ rx'[1].len = n
  BY DEF SetupFirst, DataFirst, Two, Pending, DataOf
<1>2. Shape'
  BY DEF Shape
<1> QED
  BY <1>1, <1>2

\* The interrupt takes a SETUP packet.
LEMMA SetupTaken ==
  ASSUME Shape, SetupFirst, rx' = Tail(rx)
  PROVE  /\ Shape' /\ ~Pending' /\ ~SetupFirst' /\ ~Two'
         /\ Pending /\ Head(rx).req = Asked /\ Asked \in Requests
         /\ Two => DataFirst' /\ rx'[1].len = rx[2].len
         /\ ~Two => rx' = << >> /\ ~DataFirst'
<1>1. CASE \E r \in Requests : rx = <<SetupOf(r)>>
  <2>1. PICK r \in Requests : rx = <<SetupOf(r)>>
    BY <1>1
  <2>2. rx' = << >> /\ Head(rx) = SetupOf(r)
    BY <2>1, Tuples
  <2>3. Shape' /\ ~Pending' /\ ~SetupFirst' /\ ~Two' /\ ~DataFirst'
    BY <2>2 DEF Shape, Pending, SetupFirst, DataFirst, Two
  <2>4. ~Two /\ Pending /\ Head(rx).req = Asked /\ Asked = r
    BY <2>1, <2>2 DEF Two, Pending, Asked, SetupFirst, SetupOf
  <2> QED
    BY <2>2, <2>3, <2>4
<1>2. CASE \E r \in Requests, n \in Lengths : rx = <<SetupOf(r), DataOf(n)>>
  <2>1. PICK r \in Requests, n \in Lengths : rx = <<SetupOf(r), DataOf(n)>>
    BY <1>2
  <2>2. rx' = <<DataOf(n)>>
    BY <2>1, Tuples
  <2>3. Head(rx) = SetupOf(r)
    BY <2>1, Tuples
  <2>4. Shape' /\ ~Pending' /\ ~SetupFirst' /\ ~Two' /\ DataFirst' /\ rx'[1].len = n
    BY <2>2, OneData
  <2>5. Two /\ Pending /\ Head(rx).req = Asked /\ Asked = r /\ rx[2].len = n
    BY <2>1, <2>3 DEF Two, Pending, Asked, SetupFirst, SetupOf, DataOf
  <2> QED
    BY <2>4, <2>5
<1>3. \/ \E r \in Requests : rx = <<SetupOf(r)>>
      \/ \E r \in Requests, n \in Lengths : rx = <<SetupOf(r), DataOf(n)>>
  BY DEF Shape, SetupFirst, DataOf
<1> QED
  BY <1>1, <1>2, <1>3

\* The interrupt takes a packet of data.
LEMMA DataTaken ==
  ASSUME Shape, DataFirst, rx' = Tail(rx)
  PROVE  /\ Shape' /\ (Pending' <=> Pending) /\ ~Two' /\ ~DataFirst'
         /\ Pending => Asked' = Asked
         /\ rx' = << >> \/ SetupFirst'
         /\ Head(rx).len = rx[1].len
<1>1. CASE \E n \in Lengths : rx = <<DataOf(n)>>
  BY <1>1 DEF Shape, Pending, SetupFirst, DataFirst, Two, Asked, DataOf
<1>2. CASE \E r \in Requests, n \in Lengths : rx = <<DataOf(n), SetupOf(r)>>
  <2>1. PICK r \in Requests, n \in Lengths : rx = <<DataOf(n), SetupOf(r)>>
    BY <1>2
  <2>2. rx' = <<SetupOf(r)>>
    BY <2>1, Tuples
  <2> QED
    BY <2>1, <2>2 DEF Shape, Pending, SetupFirst, DataFirst, Two, Asked, SetupOf, DataOf
<1> QED
  BY <1>1, <1>2 DEF Shape, DataFirst, SetupOf

-----------------------------------------------------------------------------
(* The host                                                                *)

\* An IN packet of the data stage.
LEMMA HostInCore == Core /\ HostIn => Core'
<1> SUFFICES ASSUME Core, HostIn PROVE Core'
  OBVIOUS
<1>q. /\ Shape' /\ (Pending' <=> Pending) /\ (SetupFirst' <=> SetupFirst)
      /\ (DataFirst' <=> DataFirst) /\ (Two' <=> Two) /\ Asked' = Asked /\ rx' = rx
  BY QueueKept DEF Core, HostIn
<1>c. /\ Stages /\ Flags /\ Armed /\ Transfer /\ DataOut /\ CleanUnlessOvertaken
      /\ (irq = "in" => xfrc) /\ Clean
  BY DEF Core
<1>a. /\ phase = "in" /\ ~stall0 /\ tx # None /\ ~nak
      /\ got' = got + tx.len
      /\ phase' = IF tx.len < P \/ got' >= req.len THEN "statusOut" ELSE "in"
      /\ tx' = None /\ xfrc' = TRUE
      /\ UNCHANGED <<req, outArmed, nak, dirty, stall0, busrst, irq, setup, count, overtaken,
                     outrun>>
  BY DEF HostIn, Offered, device, hw
<1>p. ~Pending /\ rx = << >> /\ ~busrst /\ ~outrun
  BY <1>a, <1>c DEF Transfer, Clean, Empty
<1>k. /\ ~Pending' /\ rx' = << >> /\ ~SetupFirst' /\ ~DataFirst' /\ ~Two'
  BY <1>p, <1>q DEF SetupFirst, DataFirst, Two
<1>1. Stages'
  BY <1>a, <1>c DEF Stages, P
<1>2. Flags'
  BY <1>a, <1>c DEF Flags
<1>3. Armed'
  BY <1>k DEF Armed
<1>4. Transfer'
  BY <1>a, <1>c, <1>p, <1>k DEF Transfer
<1>5. DataOut'
  BY <1>a, <1>c, <1>k DEF DataOut
<1>6. ASSUME ~dirty PROVE Empty' /\ OneWriter' /\ DataStage'
  <2>1. Empty /\ OneWriter /\ DataStage
    BY <1>6, <1>c, <1>p DEF Clean
  <2>2. phase' = "statusOut" => count' = 0
    <3>1. /\ got + tx.len + count = Total(req)
          /\ count > 0 => tx.len = P
      BY <1>a, <1>p, <2>1 DEF DataStage, TxLen
    <3>2. req \in Requests
      BY <1>a, <1>c DEF Transfer
    <3>3. Total(req) \in Nat /\ Total(req) <= req.len /\ req.len \in Nat
      BY <3>2, TotalBound, RequestFields
    <3> QED
      BY <1>a, <1>c, <3>1, <3>3 DEF Stages, P
  <2>5. Empty'
    BY <1>a, <1>k, <2>1, <2>2 DEF Empty, Settled
  <2>3. OneWriter'
    BY <1>a, <1>c, <1>k, <1>p, <2>1 DEF OneWriter, Settled
  <2>4. DataStage'
    BY <1>a, <1>c, <1>k, <1>p, <2>1 DEF DataStage, TxLen, Stages, P, Total
  <2> QED
    BY <2>3, <2>4, <2>5
<1>7. Clean'
  BY <1>6, <1>a DEF Clean
<1> QED
  BY <1>1, <1>2, <1>3, <1>4, <1>5, <1>7, <1>a, <1>c, <1>q DEF Core, CleanUnlessOvertaken

\* The data or the status of the host.
LEMMA HostDataCore == Core /\ HostData => Core'
<1> SUFFICES ASSUME Core, HostData PROVE Core'
  OBVIOUS
<1>c. /\ Stages /\ Flags /\ Shape /\ Armed /\ Transfer /\ DataOut /\ CleanUnlessOvertaken
      /\ (irq = "in" => xfrc) /\ Clean
  BY DEF Core
<1>w. /\ (rx # << >> <=> SetupFirst \/ DataFirst) /\ ~ (SetupFirst /\ DataFirst)
      /\ (Pending <=> SetupFirst \/ (DataFirst /\ Two)) /\ (Two => rx # << >>)
  BY <1>c, QueueCases
<1>a. /\ phase \in {"out", "statusOut"} /\ outArmed
      /\ rx' = Append(rx, DataOf(IF phase = "out" THEN req.len ELSE 0))
      /\ outArmed' = FALSE
      /\ IF phase = "out" THEN phase' = "statusIn" /\ req' = req /\ got' = got
         ELSE phase' = "idle" /\ req' = NoSetup /\ got' = 0
      /\ UNCHANGED <<tx, nak, dirty, xfrc, stall0, busrst, irq, setup, count, overtaken, outrun>>
  BY DEF HostData, Ends, DataOf, device, hw
<1>n. (IF phase = "out" THEN req.len ELSE 0) \in Lengths
  BY <1>a, <1>c DEF Transfer, Lengths
<1>r. rx = << >> \/ (SetupFirst /\ ~Two)
  BY <1>a, <1>c DEF Armed
<1>q. /\ Shape'
      /\ rx = << >> => /\ ~Pending' /\ ~Two' /\ ~SetupFirst' /\ DataFirst'
                       /\ rx'[1].len = IF phase = "out" THEN req.len ELSE 0
      /\ rx # << >> => /\ Pending' /\ Two' /\ SetupFirst' /\ ~DataFirst'
                       /\ Pending /\ Asked' = Asked
                       /\ rx'[2].len = IF phase = "out" THEN req.len ELSE 0
  BY <1>a, <1>c, <1>n, <1>r, DataComes
<1>d. phase' \in {"idle", "statusIn"} /\ req' \in {req, NoSetup} /\ got' \in {got, 0}
  BY <1>a
<1>1. Stages' /\ Flags'
  <2>1. outArmed' = FALSE
        /\ UNCHANGED <<tx, nak, dirty, xfrc, stall0, busrst, irq, setup, count, overtaken, outrun>>
    BY <1>a
  <2>2. Stages'
    BY <1>c, <1>d, <2>1 DEF Stages
  <2>3. Flags'
    BY <1>c, <2>1 DEF Flags
  <2> QED
    BY <2>2, <2>3
<1>2. Armed' /\ DataOut'
  BY <1>a, <1>c, <1>w, <1>r, <1>q DEF Armed, Transfer, DataOut
<1>3. Transfer'
  BY <1>a, <1>c, <1>w, <1>r, <1>q DEF Transfer
<1>4. ASSUME ~dirty, ~outrun PROVE Empty' /\ OneWriter' /\ DataStage'
  <2>1. Empty /\ OneWriter /\ DataStage
    BY <1>4, <1>c DEF Clean
  <2>2. Empty'
    BY <1>a, <1>c, <1>w, <1>r, <1>q, <2>1 DEF Empty, Settled, Transfer
  <2>3. OneWriter'
    BY <1>a, <1>c, <1>w, <1>r, <1>q, <2>1 DEF OneWriter, Empty, Settled, Transfer, DataOut
  <2>4. DataStage'
    BY <1>a, <1>c, <1>w, <1>r, <1>q, <2>1 DEF DataStage, TxLen, Total, Transfer
  <2> QED
    BY <2>2, <2>3, <2>4
<1>5. Clean'
  BY <1>4, <1>a DEF Clean
<1> QED
  BY <1>1, <1>2, <1>3, <1>5, <1>a, <1>c, <1>r, <1>q DEF Core, CleanUnlessOvertaken

\* The status of the device.
LEMMA HostStatusCore == Core /\ HostStatus => Core'
<1> SUFFICES ASSUME Core, HostStatus PROVE Core'
  OBVIOUS
<1>c. /\ Stages /\ Flags /\ Shape /\ Armed /\ Transfer /\ DataOut /\ CleanUnlessOvertaken
      /\ (irq = "in" => xfrc) /\ Clean
  BY DEF Core
<1>w. /\ (rx # << >> <=> SetupFirst \/ DataFirst) /\ ~ (SetupFirst /\ DataFirst)
      /\ (Pending <=> SetupFirst \/ (DataFirst /\ Two)) /\ (Two => rx # << >>)
  BY <1>c, QueueCases
<1>a. /\ phase = "statusIn" /\ ~stall0 /\ tx # None /\ ~nak
      /\ tx' = None /\ xfrc' = TRUE
      /\ phase' = "idle" /\ req' = NoSetup /\ got' = 0
      /\ UNCHANGED <<rx, outArmed, nak, dirty, stall0, busrst, irq, setup, count, overtaken,
                     outrun>>
  BY DEF HostStatus, Ends, Offered, device, hw
<1>q. /\ Shape' /\ (Pending' <=> Pending) /\ (SetupFirst' <=> SetupFirst)
      /\ (DataFirst' <=> DataFirst) /\ (Two' <=> Two) /\ Asked' = Asked /\ rx' = rx
  BY QueueKept DEF Core, HostStatus
<1>p. ~Pending /\ ~busrst /\ ~outrun
  BY <1>a, <1>c DEF Transfer, Clean, Empty
<1>1. Stages' /\ Flags'
  <2>1. Stages'
    BY <1>a, <1>c DEF Stages
  <2>2. Flags'
    BY <1>a, <1>c DEF Flags
  <2> QED
    BY <2>1, <2>2
<1>2. Armed' /\ DataOut'
  <2>1. Armed'
    BY <1>a, <1>c, <1>w, <1>q DEF Armed, Transfer
  <2>2. DataOut'
    BY <1>a, <1>c, <1>w, <1>q DEF Transfer, DataOut
  <2> QED
    BY <2>1, <2>2
<1>3. Transfer'
  BY <1>a, <1>c, <1>w, <1>q, <1>p DEF Transfer
<1>4. ASSUME ~dirty, ~outrun PROVE Empty' /\ OneWriter' /\ DataStage'
  <2>1. Empty /\ OneWriter /\ DataStage
    BY <1>4, <1>c DEF Clean
  <2>2. Empty'
    BY <1>a, <1>c, <1>w, <1>q, <1>p, <2>1 DEF Empty, OneWriter, Settled, Transfer
  <2>5. ~setup.in /\ count = 0
    BY <1>a, <1>c, <1>p, <2>1 DEF OneWriter, Transfer, DataOut, Stages
  <2>3. OneWriter'
    BY <1>a, <1>w, <1>q, <1>p, <2>1, <2>5 DEF OneWriter
  <2>4. DataStage'
    BY <1>a, <1>c, <1>w, <1>q, <2>1 DEF DataStage, TxLen, Total, Transfer
  <2> QED
    BY <2>2, <2>3, <2>4
<1>5. Clean'
  BY <1>4, <1>a DEF Clean
<1> QED
  BY <1>1, <1>2, <1>3, <1>5, <1>a, <1>c, <1>q DEF Core, CleanUnlessOvertaken

\* A STALL.
LEMMA HostStalledCore == Core /\ HostStalled => Core'
<1> SUFFICES ASSUME Core, HostStalled PROVE Core'
  OBVIOUS
<1>c. /\ Stages /\ Flags /\ Shape /\ Armed /\ Transfer /\ DataOut /\ CleanUnlessOvertaken
      /\ (irq = "in" => xfrc) /\ Clean
  BY DEF Core
<1>w. /\ (rx # << >> <=> SetupFirst \/ DataFirst) /\ ~ (SetupFirst /\ DataFirst)
      /\ (Pending <=> SetupFirst \/ (DataFirst /\ Two)) /\ (Two => rx # << >>)
  BY <1>c, QueueCases
<1>a. /\ phase \in {"in", "statusIn"} /\ stall0
      /\ phase' = "idle" /\ req' = NoSetup /\ got' = 0
      /\ UNCHANGED <<rx, outArmed, tx, nak, dirty, xfrc, stall0, busrst, irq, setup, count,
                     overtaken, outrun>>
  BY DEF HostStalled, Ends, ep0, device, hw
<1>q. /\ Shape' /\ (Pending' <=> Pending) /\ (SetupFirst' <=> SetupFirst)
      /\ (DataFirst' <=> DataFirst) /\ (Two' <=> Two) /\ Asked' = Asked /\ rx' = rx
  BY QueueKept DEF Core, HostStalled, ep0
<1>p. ~Pending /\ ~busrst /\ ~outrun
  BY <1>a, <1>c DEF Transfer, Clean, OneWriter
<1>1. Stages' /\ Flags'
  <2>1. Stages'
    BY <1>a, <1>c DEF Stages
  <2>2. Flags'
    BY <1>a, <1>c DEF Flags
  <2> QED
    BY <2>1, <2>2
<1>2. Armed' /\ DataOut'
  <2>1. Armed'
    BY <1>a, <1>c, <1>w, <1>q DEF Armed, Transfer
  <2>2. DataOut'
    BY <1>a, <1>c, <1>w, <1>q DEF Transfer, DataOut
  <2> QED
    BY <2>1, <2>2
<1>3. Transfer'
  BY <1>a, <1>c, <1>w, <1>q, <1>p DEF Transfer
<1>4. ASSUME ~dirty, ~outrun PROVE Empty' /\ OneWriter' /\ DataStage'
  <2>1. Empty /\ OneWriter /\ DataStage
    BY <1>4, <1>c DEF Clean
  <2>2. Empty'
    BY <1>a, <1>c, <1>w, <1>q, <1>p, <2>1 DEF Empty, OneWriter, Settled, Transfer
  <2>3. OneWriter'
    BY <1>a, <1>c, <1>w, <1>q, <1>p, <2>1 DEF OneWriter, Empty, Settled, Transfer, DataOut
  <2>4. DataStage'
    BY <1>a, <1>c, <1>w, <1>q, <2>1 DEF DataStage, TxLen, Total, Transfer
  <2> QED
    BY <2>2, <2>3, <2>4
<1>5. Clean'
  BY <1>4, <1>a DEF Clean
<1> QED
  BY <1>1, <1>2, <1>3, <1>5, <1>a, <1>c, <1>q DEF Core, CleanUnlessOvertaken

\* A timeout of the host.
LEMMA HostTimeoutCore == Core /\ HostTimeout => Core'
<1> SUFFICES ASSUME Core, HostTimeout PROVE Core'
  OBVIOUS
<1>c. /\ Stages /\ Flags /\ Shape /\ Armed /\ Transfer /\ DataOut /\ CleanUnlessOvertaken
      /\ (irq = "in" => xfrc) /\ Clean
  BY DEF Core
<1>w. /\ (rx # << >> <=> SetupFirst \/ DataFirst) /\ ~ (SetupFirst /\ DataFirst)
      /\ (Pending <=> SetupFirst \/ (DataFirst /\ Two)) /\ (Two => rx # << >>)
  BY <1>c, QueueCases
<1>a. /\ phase \in {"in", "statusIn"}
      /\ irq = "off" /\ rx = << >> /\ ~xfrc /\ ~busrst /\ ~stall0 /\ (tx = None \/ nak)
      /\ phase' = "idle" /\ req' = NoSetup /\ got' = 0
      /\ UNCHANGED <<rx, outArmed, tx, nak, dirty, xfrc, stall0, busrst, irq, setup, count,
                     overtaken, outrun>>
  BY DEF HostTimeout, Quiet, Offered, Ends, ep0, device, hw
<1>q. /\ Shape' /\ (Pending' <=> Pending) /\ (SetupFirst' <=> SetupFirst)
      /\ (DataFirst' <=> DataFirst) /\ (Two' <=> Two) /\ Asked' = Asked /\ rx' = rx
  BY QueueKept DEF Core, HostTimeout, ep0
<1>1. Stages' /\ Flags'
  <2>1. Stages'
    BY <1>a, <1>c DEF Stages
  <2>2. Flags'
    BY <1>a, <1>c DEF Flags
  <2> QED
    BY <2>1, <2>2
<1>2. Armed' /\ DataOut'
  <2>1. Armed'
    BY <1>a, <1>c, <1>w, <1>q DEF Armed, Transfer
  <2>2. DataOut'
    BY <1>a, <1>c, <1>w, <1>q DEF Transfer, DataOut
  <2> QED
    BY <2>1, <2>2
<1>3. Transfer'
  BY <1>a, <1>c, <1>w, <1>q DEF Transfer
<1>4. ASSUME ~dirty, ~outrun PROVE Empty' /\ OneWriter' /\ DataStage'
  <2>1. Empty /\ OneWriter /\ DataStage
    BY <1>4, <1>c DEF Clean
  <2>2. Empty'
    BY <1>a, <1>c, <1>w, <1>q, <2>1 DEF Empty, Settled, Transfer
  <2>3. OneWriter'
    BY <1>a, <1>c, <1>w, <1>q, <2>1 DEF OneWriter, Empty, Settled, Transfer, DataOut
  <2>4. DataStage'
    BY <1>a, <1>c, <1>w, <1>q, <2>1 DEF DataStage, TxLen, Total, Transfer
  <2> QED
    BY <2>2, <2>3, <2>4
<1>5. Clean'
  BY <1>4, <1>a DEF Clean
<1> QED
  BY <1>1, <1>2, <1>3, <1>5, <1>a, <1>c, <1>q DEF Core, CleanUnlessOvertaken

\* A bus reset comes.
LEMMA BusResetCore == Core /\ BusReset => Core'
<1> SUFFICES ASSUME Core, BusReset PROVE Core'
  OBVIOUS
<1>c. /\ Stages /\ Flags /\ Shape /\ Armed /\ Transfer /\ DataOut /\ CleanUnlessOvertaken
      /\ (irq = "in" => xfrc) /\ Clean
  BY DEF Core
<1>w. /\ (rx # << >> <=> SetupFirst \/ DataFirst) /\ ~ (SetupFirst /\ DataFirst)
      /\ (Pending <=> SetupFirst \/ (DataFirst /\ Two)) /\ (Two => rx # << >>)
  BY <1>c, QueueCases
<1>a. /\ ~busrst /\ busrst' = TRUE
      /\ phase' = "idle" /\ req' = NoSetup /\ got' = 0
      /\ UNCHANGED <<rx, outArmed, tx, nak, dirty, xfrc, stall0, irq, setup, count, overtaken,
                     outrun>>
  BY DEF BusReset, Ends, ep0, device, hw
<1>q. /\ Shape' /\ (Pending' <=> Pending) /\ (SetupFirst' <=> SetupFirst)
      /\ (DataFirst' <=> DataFirst) /\ (Two' <=> Two) /\ Asked' = Asked /\ rx' = rx
  BY QueueKept DEF Core, BusReset, ep0
<1>1. Stages' /\ Flags'
  <2>1. Stages'
    BY <1>a, <1>c DEF Stages
  <2>2. Flags'
    BY <1>a, <1>c DEF Flags
  <2> QED
    BY <2>1, <2>2
<1>2. Armed' /\ DataOut'
  <2>1. Armed'
    BY <1>a, <1>c, <1>w, <1>q DEF Armed, Transfer
  <2>2. DataOut'
    BY <1>a, <1>c, <1>w, <1>q DEF Transfer, DataOut
  <2> QED
    BY <2>1, <2>2
<1>3. Transfer'
  BY <1>a, <1>c, <1>w, <1>q DEF Transfer
<1>4. ASSUME ~dirty, ~outrun PROVE Empty' /\ OneWriter' /\ DataStage'
  <2>1. Empty /\ OneWriter /\ DataStage
    BY <1>4, <1>c DEF Clean
  <2>2. Empty'
    BY <1>a, <1>c, <1>w, <1>q, <2>1 DEF Empty, Settled, Transfer
  <2>3. OneWriter'
    BY <1>a, <1>c, <1>w, <1>q, <2>1 DEF OneWriter, Empty, Settled, Transfer, DataOut
  <2>4. DataStage'
    BY <1>a, <1>c, <1>w, <1>q, <2>1 DEF DataStage, TxLen, Total, Transfer
  <2> QED
    BY <2>2, <2>3, <2>4
<1>5. Clean'
  BY <1>4, <1>a DEF Clean
<1> QED
  BY <1>1, <1>2, <1>3, <1>5, <1>a, <1>c, <1>q DEF Core, CleanUnlessOvertaken

\* The host begins a transfer.
LEMMA HostSetupCore ==
  ASSUME NEW r \in Requests
  PROVE  Core /\ HostSetup(r) => Core'
<1> SUFFICES ASSUME Core, HostSetup(r) PROVE Core'
  OBVIOUS
<1>c. /\ Stages /\ Flags /\ Shape /\ Armed /\ Transfer /\ DataOut /\ CleanUnlessOvertaken
      /\ (irq = "in" => xfrc) /\ Clean
  BY DEF Core
<1>w. /\ (rx # << >> <=> SetupFirst \/ DataFirst) /\ ~ (SetupFirst /\ DataFirst)
      /\ (Pending <=> SetupFirst \/ (DataFirst /\ Two)) /\ (Two => rx # << >>)
  BY <1>c, QueueCases
<1>a. /\ phase = "idle" /\ ~busrst /\ ~dirty /\ ~outrun
      /\ rx' = Append(rx, SetupOf(r))
      /\ nak' = TRUE /\ outArmed' = FALSE /\ stall0' = FALSE
      /\ req' = r /\ got' = 0
      /\ phase' = IF r.in THEN "in" ELSE IF r.len > 0 THEN "out" ELSE "statusIn"
      /\ UNCHANGED <<tx, dirty, xfrc, busrst, irq, setup, count, overtaken, outrun>>
  BY DEF HostSetup, SetupOf, device, hw
<1>p. ~Pending
  BY <1>a, <1>c DEF Transfer
<1>q. /\ Shape' /\ Pending' /\ Asked' = r
      /\ ~ (Two' /\ SetupFirst')
      /\ (Two' /\ DataFirst') <=> DataFirst
      /\ DataFirst' => DataFirst /\ rx'[1].len = rx[1].len
  BY <1>a, <1>c, <1>p, SetupComes
<1>r. r.len \in Nat /\ r.in \in BOOLEAN
  BY RequestFields
<1>1. Stages' /\ Flags'
  <2>1. Stages'
    BY <1>a, <1>c DEF Stages
  <2>2. Flags'
    BY <1>a, <1>c DEF Flags
  <2> QED
    BY <2>1, <2>2
<1>2. Armed' /\ DataOut'
  BY <1>a, <1>c, <1>w, <1>p, <1>q, <1>r DEF Armed, Transfer, DataOut
<1>3. Transfer'
  BY <1>a, <1>c, <1>w, <1>p, <1>q, <1>r DEF Transfer
<1>4. ASSUME ~dirty', ~outrun' PROVE Empty' /\ OneWriter' /\ DataStage'
  <2>1. Empty /\ OneWriter /\ DataStage
    BY <1>4, <1>a, <1>c DEF Clean
  <2>2. Empty'
    BY <1>a, <1>c, <1>w, <1>p, <1>q, <1>r, <2>1 DEF Empty, Settled, Transfer
  <2>3. OneWriter'
    BY <1>a, <1>c, <1>w, <1>p, <1>q, <1>r, <2>1 DEF OneWriter, Empty, Settled, Transfer, DataOut
  <2>4. DataStage'
    BY <1>a, <1>c, <1>w, <1>p, <1>q, <1>r, <2>1 DEF DataStage, TxLen, Total, Transfer
  <2> QED
    BY <2>2, <2>3, <2>4
<1>5. Clean'
  BY <1>4 DEF Clean
<1> QED
  BY <1>1, <1>2, <1>3, <1>5, <1>a, <1>c, <1>p, <1>q, <1>r DEF Core, CleanUnlessOvertaken

-----------------------------------------------------------------------------
(* The interrupt handler                                                   *)

\* The interrupt begins.
LEMMA IrqEnterCore == Core /\ IrqEnter => Core'
<1> SUFFICES ASSUME Core, IrqEnter PROVE Core'
  OBVIOUS
<1>c. /\ Stages /\ Flags /\ Shape /\ Armed /\ Transfer /\ DataOut /\ CleanUnlessOvertaken
      /\ (irq = "in" => xfrc) /\ Clean
  BY DEF Core
<1>w. /\ (rx # << >> <=> SetupFirst \/ DataFirst) /\ ~ (SetupFirst /\ DataFirst)
      /\ (Pending <=> SetupFirst \/ (DataFirst /\ Two)) /\ (Two => rx # << >>)
  BY <1>c, QueueCases
<1>a. /\ irq = "off" /\ irq' = "rx"
      /\ UNCHANGED <<rx, outArmed, tx, nak, dirty, xfrc, stall0, busrst, phase, req, got, setup,
                     count, overtaken, outrun>>
  BY DEF IrqEnter, host, ep0, device, hw
<1>q. /\ Shape' /\ (Pending' <=> Pending) /\ (SetupFirst' <=> SetupFirst)
      /\ (DataFirst' <=> DataFirst) /\ (Two' <=> Two) /\ Asked' = Asked /\ rx' = rx
  BY QueueKept DEF Core, IrqEnter, ep0
<1>1. Stages' /\ Flags'
  <2>1. Stages'
    BY <1>a, <1>c DEF Stages
  <2>2. Flags'
    BY <1>a, <1>c DEF Flags
  <2> QED
    BY <2>1, <2>2
<1>2. Armed' /\ DataOut'
  <2>1. Armed'
    BY <1>a, <1>c, <1>w, <1>q DEF Armed, Transfer
  <2>2. DataOut'
    BY <1>a, <1>c, <1>w, <1>q DEF Transfer, DataOut
  <2> QED
    BY <2>1, <2>2
<1>3. Transfer'
  BY <1>a, <1>c, <1>w, <1>q DEF Transfer
<1>4. ASSUME ~dirty', ~outrun' PROVE Empty' /\ OneWriter' /\ DataStage'
  <2>1. Empty /\ OneWriter /\ DataStage
    BY <1>4, <1>a, <1>c DEF Clean
  <2>2. Empty'
    BY <1>a, <1>c, <1>w, <1>q, <2>1 DEF Empty, Settled, Transfer
  <2>3. OneWriter'
    BY <1>a, <1>c, <1>w, <1>q, <2>1 DEF OneWriter, Empty, Settled, Transfer, DataOut
  <2>4. DataStage'
    BY <1>a, <1>c, <1>w, <1>q, <2>1 DEF DataStage, TxLen, Total, Transfer
  <2> QED
    BY <2>2, <2>3, <2>4
<1>5. Clean'
  BY <1>4 DEF Clean
<1> QED
  BY <1>1, <1>2, <1>3, <1>5, <1>a, <1>c, <1>q DEF Core, CleanUnlessOvertaken

\* The receive FIFO is empty.
LEMMA RxDoneCore == Core /\ RxDone => Core'
<1> SUFFICES ASSUME Core, RxDone PROVE Core'
  OBVIOUS
<1>c. /\ Stages /\ Flags /\ Shape /\ Armed /\ Transfer /\ DataOut /\ CleanUnlessOvertaken
      /\ (irq = "in" => xfrc) /\ Clean
  BY DEF Core
<1>w. /\ (rx # << >> <=> SetupFirst \/ DataFirst) /\ ~ (SetupFirst /\ DataFirst)
      /\ (Pending <=> SetupFirst \/ (DataFirst /\ Two)) /\ (Two => rx # << >>)
  BY <1>c, QueueCases
<1>a. /\ irq = "rx" /\ irq' = (IF xfrc THEN "in" ELSE "rst")
      /\ UNCHANGED <<rx, outArmed, tx, nak, dirty, xfrc, stall0, busrst, phase, req, got, setup,
                     count, overtaken, outrun>>
  BY DEF RxDone, host, ep0, device, hw
<1>q. /\ Shape' /\ (Pending' <=> Pending) /\ (SetupFirst' <=> SetupFirst)
      /\ (DataFirst' <=> DataFirst) /\ (Two' <=> Two) /\ Asked' = Asked /\ rx' = rx
  BY QueueKept DEF Core, RxDone, ep0
<1>1. Stages' /\ Flags'
  <2>1. Stages'
    BY <1>a, <1>c DEF Stages
  <2>2. Flags'
    BY <1>a, <1>c DEF Flags
  <2> QED
    BY <2>1, <2>2
<1>2. Armed' /\ DataOut'
  <2>1. Armed'
    BY <1>a, <1>c, <1>w, <1>q DEF Armed, Transfer
  <2>2. DataOut'
    BY <1>a, <1>c, <1>w, <1>q DEF Transfer, DataOut
  <2> QED
    BY <2>1, <2>2
<1>3. Transfer'
  BY <1>a, <1>c, <1>w, <1>q DEF Transfer
<1>4. ASSUME ~dirty', ~outrun' PROVE Empty' /\ OneWriter' /\ DataStage'
  <2>1. Empty /\ OneWriter /\ DataStage
    BY <1>4, <1>a, <1>c DEF Clean
  <2>2. Empty'
    BY <1>a, <1>c, <1>w, <1>q, <2>1 DEF Empty, Settled, Transfer
  <2>3. OneWriter'
    BY <1>a, <1>c, <1>w, <1>q, <2>1 DEF OneWriter, Empty, Settled, Transfer, DataOut
  <2>4. DataStage'
    BY <1>a, <1>c, <1>w, <1>q, <2>1 DEF DataStage, TxLen, Total, Transfer
  <2> QED
    BY <2>2, <2>3, <2>4
<1>5. Clean'
  BY <1>4 DEF Clean
<1> QED
  BY <1>1, <1>2, <1>3, <1>5, <1>a, <1>c, <1>q DEF Core, CleanUnlessOvertaken

\* The IN event is acknowledged.
LEMMA InAckCore == Core /\ InAck => Core'
<1> SUFFICES ASSUME Core, InAck PROVE Core'
  OBVIOUS
<1>c. /\ Stages /\ Flags /\ Shape /\ Armed /\ Transfer /\ DataOut /\ CleanUnlessOvertaken
      /\ (irq = "in" => xfrc) /\ Clean
  BY DEF Core
<1>w. /\ (rx # << >> <=> SetupFirst \/ DataFirst) /\ ~ (SetupFirst /\ DataFirst)
      /\ (Pending <=> SetupFirst \/ (DataFirst /\ Two)) /\ (Two => rx # << >>)
  BY <1>c, QueueCases
<1>a. /\ irq = "ack" /\ irq' = "rst" /\ xfrc' = FALSE
      /\ UNCHANGED <<rx, outArmed, tx, nak, dirty, stall0, busrst, phase, req, got, setup, count,
                     overtaken, outrun>>
  BY DEF InAck, host, device, hw
<1>q. /\ Shape' /\ (Pending' <=> Pending) /\ (SetupFirst' <=> SetupFirst)
      /\ (DataFirst' <=> DataFirst) /\ (Two' <=> Two) /\ Asked' = Asked /\ rx' = rx
  BY QueueKept DEF Core, InAck
<1>1. Stages' /\ Flags'
  <2>1. Stages'
    BY <1>a, <1>c DEF Stages
  <2>2. Flags'
    BY <1>a, <1>c DEF Flags
  <2> QED
    BY <2>1, <2>2
<1>2. Armed' /\ DataOut'
  <2>1. Armed'
    BY <1>a, <1>c, <1>w, <1>q DEF Armed, Transfer
  <2>2. DataOut'
    BY <1>a, <1>c, <1>w, <1>q DEF Transfer, DataOut
  <2> QED
    BY <2>1, <2>2
<1>3. Transfer'
  BY <1>a, <1>c, <1>w, <1>q DEF Transfer
<1>4. ASSUME ~dirty', ~outrun' PROVE Empty' /\ OneWriter' /\ DataStage'
  <2>1. Empty /\ OneWriter /\ DataStage
    BY <1>4, <1>a, <1>c DEF Clean
  <2>2. Empty'
    BY <1>a, <1>c, <1>w, <1>q, <2>1 DEF Empty, Settled, Transfer
  <2>3. OneWriter'
    BY <1>a, <1>c, <1>w, <1>q, <2>1 DEF OneWriter, Empty, Settled, Transfer, DataOut
  <2>4. DataStage'
    BY <1>a, <1>c, <1>w, <1>q, <2>1 DEF DataStage, TxLen, Total, Transfer
  <2> QED
    BY <2>2, <2>3, <2>4
<1>5. Clean'
  BY <1>4 DEF Clean
<1> QED
  BY <1>1, <1>2, <1>3, <1>5, <1>a, <1>c, <1>q DEF Core, CleanUnlessOvertaken

\* The end of the handler, with the bus reset.
LEMMA IrqLeaveCore == Core /\ IrqLeave => Core'
<1> SUFFICES ASSUME Core, IrqLeave PROVE Core'
  OBVIOUS
<1>c. /\ Stages /\ Flags /\ Shape /\ Armed /\ Transfer /\ DataOut /\ CleanUnlessOvertaken
      /\ (irq = "in" => xfrc) /\ Clean
  BY DEF Core
<1>w. /\ (rx # << >> <=> SetupFirst \/ DataFirst) /\ ~ (SetupFirst /\ DataFirst)
      /\ (Pending <=> SetupFirst \/ (DataFirst /\ Two)) /\ (Two => rx # << >>)
  BY <1>c, QueueCases
<1>a. /\ irq = "rst" /\ irq' = "off" /\ busrst' = FALSE
      /\ IF busrst THEN /\ tx' = None /\ nak' = TRUE /\ dirty' = FALSE
                        /\ stall0' = FALSE /\ outArmed' = TRUE
                        /\ outrun' = (xfrc \/ rx # << >>)
                   ELSE UNCHANGED <<tx, nak, dirty, stall0, outArmed, outrun>>
      /\ UNCHANGED <<rx, xfrc, phase, req, got, setup, count, overtaken>>
  BY DEF IrqLeave, Reset, host, device, hw
<1>q. /\ Shape' /\ (Pending' <=> Pending) /\ (SetupFirst' <=> SetupFirst)
      /\ (DataFirst' <=> DataFirst) /\ (Two' <=> Two) /\ Asked' = Asked /\ rx' = rx
  BY QueueKept DEF Core, IrqLeave
<1>1. Stages' /\ Flags'
  <2>1. Stages'
    BY <1>a, <1>c DEF Stages
  <2>2. Flags'
    BY <1>a, <1>c DEF Flags
  <2> QED
    BY <2>1, <2>2
<1>2. Armed' /\ DataOut'
  <2>1. Armed'
    BY <1>a, <1>c, <1>w, <1>q DEF Armed, Transfer
  <2>2. DataOut'
    BY <1>a, <1>c, <1>w, <1>q DEF Transfer, DataOut
  <2> QED
    BY <2>1, <2>2
<1>3. Transfer'
  BY <1>a, <1>c, <1>w, <1>q DEF Transfer
<1>4. ASSUME ~dirty', ~outrun' PROVE Empty' /\ OneWriter' /\ DataStage'
  <2>1. CASE busrst
    <3>1. phase = "idle" /\ ~xfrc /\ rx = << >>
      BY <1>4, <1>a, <1>c, <2>1 DEF Transfer
    <3>2. ~Pending /\ ~Two
      BY <1>w, <3>1
    <3> QED
      BY <1>a, <1>q, <2>1, <3>1, <3>2 DEF Empty, OneWriter, DataStage, Settled
  <2>2. CASE ~busrst
    <3>1. Empty /\ OneWriter /\ DataStage
      BY <1>4, <1>a, <1>c, <2>2 DEF Clean
    <3>2. UNCHANGED <<tx, nak, dirty, stall0, outrun, busrst>>
      BY <1>a, <2>2 DEF Flags, Core
    <3> QED
      BY <1>a, <1>q, <3>1, <3>2 DEF Empty, OneWriter, DataStage, Settled, TxLen, Total
  <2> QED
    BY <2>1, <2>2
<1>5. Clean'
  BY <1>4 DEF Clean
<1> QED
  BY <1>1, <1>2, <1>3, <1>5, <1>a, <1>c, <1>q DEF Core, CleanUnlessOvertaken

-----------------------------------------------------------------------------
(* What is written to the transmit FIFO                                    *)

\* DataInStage sends a packet and keeps what is left, or has nothing to send.
LEMMA DataInSteps ==
  ASSUME NEW o, NEW at, NEW n \in Nat, DataIn(o, at, n), Flags
  PROVE  /\ count' \in Nat
         /\ n = 0 => count' = 0 /\ UNCHANGED <<tx, nak, dirty>>
         /\ n > 0 =>
              /\ tx' # None /\ tx'.len \in 1 .. P /\ ~nak'
              /\ (dirty' <=> dirty \/ tx # None)
              /\ tx'.len + count' = n
              /\ count' > 0 => tx'.len = P
              /\ ~dirty' => tx'.obj = o /\ tx'.at = at
              /\ count' > 0 => ptr' = [obj |-> o, at |-> at + tx'.len]
         /\ nak' \in BOOLEAN /\ dirty' \in BOOLEAN
<1>1. CASE n = 0
  BY <1>1 DEF DataIn, Flags
<1>2. CASE n > 0
  <2> DEFINE k == Least(n, P)
  <2>1. k \in 1 .. P /\ k <= n /\ (k < n => k = P)
    BY <1>2 DEF Least, P
  <2>2. /\ Write(o, at, k)
        /\ ptr' = IF n = k THEN Dead ELSE [obj |-> o, at |-> at + k]
        /\ count' = n - k
    BY <1>2 DEF DataIn
  <2> HIDE DEF k
  <2>3. /\ tx'.len = k /\ tx'.at = at /\ (~dirty' => tx'.obj = o) /\ ~nak'
        /\ (dirty' <=> dirty \/ tx # None) /\ dirty' \in BOOLEAN /\ nak' \in BOOLEAN
    BY <2>2 DEF Write, Flags
  <2>4. tx' # None
    BY <2>1, <2>3 DEF None, P
  <2> QED
    BY <1>2, <2>1, <2>2, <2>3, <2>4 DEF P
<1> QED
  BY <1>1, <1>2

\* The status packet is written.
LEMMA StatusInSteps ==
  ASSUME StatusIn, Flags
  PROVE  /\ tx' # None /\ tx'.len = 0 /\ ~nak' /\ nak' \in BOOLEAN /\ dirty' \in BOOLEAN
         /\ (dirty' <=> dirty \/ tx # None)
<1>1. tx'.len = 0
  BY DEF StatusIn, Write
<1>2. tx' # None
  BY <1>1 DEF None
<1> QED
  BY <1>1, <1>2 DEF StatusIn, Write, Flags

\* A request is refused, acknowledged, answered with data, or left open until
\* its data comes.
Refused        == stall0' = TRUE /\ count' = 0 /\ UNCHANGED <<tx, nak, dirty>>
Acknowledged   == StatusIn /\ count' = 0 /\ UNCHANGED stall0
Answered(r, o) == DataIn(o, 0, Total(r)) /\ UNCHANGED stall0
LeftOpen(r)    == count' = r.len /\ UNCHANGED <<tx, nak, dirty, stall0>>

\* ... and nothing else: each request has one of these outcomes.
LEMMA Outcomes ==
  ASSUME NEW r \in Requests, Ep0EventSetup(r)
  PROVE  \/ Refused
         \/ ~r.in /\ r.len = 0 /\ Acknowledged
         \/ /\ r.in /\ r.kind # "cdc_other"
            /\ \E o : Answered(r, o) /\ (r.obj # "qualifier" => o = r.obj)
         \/ r.kind \in {"set_line_coding", "cdc_other"} /\ LeftOpen(r)
<1>1. /\ r \in RequestType /\ WellFormed(r) /\ r.len \in Nat /\ r.in \in BOOLEAN
  BY RequestFields
<1>2. ASSUME Refuse PROVE Refused
  BY <1>2 DEF Refuse, Refused
<1>3. ASSUME Acknowledge(r), r.kind \notin {"set_descriptor", "set_line_coding", "cdc_other"},
             ~r.in, r.kind = "msc_reset" => r.len = 0
      PROVE  ~r.in /\ r.len = 0 /\ Acknowledged
  BY <1>1, <1>3 DEF Acknowledge, Acknowledged, WellFormed
<1>4. ASSUME r.in, Send(r, r.len), r.kind \notin {"get_descriptor", "cdc_other"}
      PROVE  \E o : Answered(r, o) /\ (r.obj # "qualifier" => o = r.obj)
  BY <1>4 DEF Send, Answered, Total
<1>5. CASE r.kind = "get_status"
  BY <1>1, <1>2, <1>4, <1>5 DEF Ep0EventSetup, GetStatus, WellFormed
<1>6. CASE r.kind = "set_halt"
  BY <1>1, <1>2, <1>3, <1>6 DEF Ep0EventSetup, SetHalt, WellFormed
<1>7. CASE r.kind = "clear_halt"
  BY <1>1, <1>2, <1>3, <1>7 DEF Ep0EventSetup, ClearHalt, WellFormed
<1>8. CASE r.kind = "set_address"
  BY <1>1, <1>2, <1>3, <1>8 DEF Ep0EventSetup, SetAddress, WellFormed
<1>9. CASE r.kind = "get_descriptor"
  <2>1. r.in /\ Total(r) = Least(r.len, ObjLen(r.obj))
    BY <1>1, <1>9 DEF WellFormed, Total
  <2>2. \E o : DataIn(o, 0, Total(r)) /\ UNCHANGED stall0 /\ (r.obj # "qualifier" => o = r.obj)
    BY <1>9, <2>1 DEF Ep0EventSetup, GetDescriptor, Send
  <2> QED
    BY <1>9, <2>1, <2>2 DEF Answered
<1>10. CASE r.kind = "set_descriptor"
  BY <1>2, <1>10 DEF Ep0EventSetup
<1>11. CASE r.kind = "get_configuration"
  BY <1>1, <1>2, <1>4, <1>11 DEF Ep0EventSetup, GetConfiguration, WellFormed
<1>12. CASE r.kind = "set_configuration"
  BY <1>1, <1>2, <1>3, <1>12 DEF Ep0EventSetup, SetConfiguration, Deconfigure, WellFormed
<1>13. CASE r.kind = "get_interface"
  BY <1>1, <1>2, <1>4, <1>13 DEF Ep0EventSetup, GetInterface, WellFormed
<1>14. CASE r.kind = "set_interface"
  BY <1>1, <1>2, <1>3, <1>14 DEF Ep0EventSetup, SetInterface, WellFormed
<1>15. CASE r.kind = "msc_reset"
  BY <1>1, <1>2, <1>3, <1>15 DEF Ep0EventSetup, MscReset, WellFormed
<1>16. CASE r.kind = "get_max_lun"
  BY <1>1, <1>2, <1>4, <1>16 DEF Ep0EventSetup, GetMaxLun, WellFormed
<1>17. CASE r.kind \in {"set_line_coding", "cdc_other"}
  BY <1>17 DEF Ep0EventSetup, CtrlSetup, LeftOpen
<1>18. CASE r.kind = "get_line_coding"
  BY <1>1, <1>4, <1>18 DEF Ep0EventSetup, CtrlSetup, WellFormed
<1>19. CASE r.kind = "set_line_state"
  BY <1>1, <1>3, <1>19 DEF Ep0EventSetup, CtrlSetup, WellFormed
<1>20. r.kind \in {"get_status", "clear_halt", "set_halt", "set_address", "get_descriptor",
           "set_descriptor", "get_configuration", "set_configuration",
           "get_interface", "set_interface",
           "msc_reset", "get_max_lun", "set_line_coding", "get_line_coding",
           "set_line_state", "cdc_other"}
  BY <1>1 DEF RequestType
<1> QED
  BY <1>5, <1>6, <1>7, <1>8, <1>9, <1>10, <1>11, <1>12, <1>13, <1>14, <1>15, <1>16, <1>17,
     <1>18, <1>19, <1>20

\* The IN event: the next packet of the data stage.
LEMMA InEventCore == Core /\ InEvent => Core'
<1> SUFFICES ASSUME Core, InEvent PROVE Core'
  OBVIOUS
<1>c. /\ Stages /\ Flags /\ Shape /\ Armed /\ Transfer /\ DataOut /\ CleanUnlessOvertaken
      /\ (irq = "in" => xfrc) /\ Clean
  BY DEF Core
<1>w. /\ (rx # << >> <=> SetupFirst \/ DataFirst) /\ ~ (SetupFirst /\ DataFirst)
      /\ (Pending <=> SetupFirst \/ (DataFirst /\ Two)) /\ (Two => rx # << >>)
  BY <1>c, QueueCases
<1>a. /\ irq = "in" /\ irq' = "ack"
      /\ IF setup.in THEN DataIn(ptr.obj, ptr.at, count) ELSE UNCHANGED <<tx, nak, dirty, ptr,
                                                                          count>>
      /\ UNCHANGED <<rx, outArmed, xfrc, stall0, busrst, phase, req, got, setup, overtaken, outrun>>
  BY DEF InEvent, host
<1>q. /\ Shape' /\ (Pending' <=> Pending) /\ (SetupFirst' <=> SetupFirst)
      /\ (DataFirst' <=> DataFirst) /\ (Two' <=> Two) /\ Asked' = Asked /\ rx' = rx
  BY QueueKept DEF Core, InEvent
<1>x. xfrc /\ count \in Nat
  BY <1>a, <1>c DEF Stages
<1>d. \/ UNCHANGED <<tx, nak, dirty, count>> /\ (setup.in => count = 0)
      \/ /\ setup.in /\ count > 0
         /\ tx' # None /\ tx'.len \in 1 .. P /\ ~nak' /\ (dirty' <=> dirty \/ tx # None)
         /\ count' \in Nat /\ tx'.len + count' = count /\ (count' > 0 => tx'.len = P)
         /\ nak' \in BOOLEAN /\ dirty' \in BOOLEAN
  <2>1. CASE setup.in
    <3>1. DataIn(ptr.obj, ptr.at, count)
      BY <1>a, <2>1
    <3>2. Flags /\ count \in Nat
      BY <1>c, <1>x
    <3>3. /\ count' \in Nat
          /\ count = 0 => count' = 0 /\ UNCHANGED <<tx, nak, dirty>>
          /\ count > 0 =>
               /\ tx' # None /\ tx'.len \in 1 .. P /\ ~nak'
               /\ (dirty' <=> dirty \/ tx # None)
               /\ tx'.len + count' = count
               /\ count' > 0 => tx'.len = P
          /\ nak' \in BOOLEAN /\ dirty' \in BOOLEAN
      BY <3>1, <3>2, DataInSteps
    <3> QED
      BY <2>1, <3>2, <3>3
  <2>2. CASE ~setup.in
    BY <1>a, <2>2
  <2> QED
    BY <2>1, <2>2
<1>1. Stages' /\ Flags'
  <2>1. UNCHANGED <<outArmed, xfrc, stall0, busrst, phase, req, got, setup, overtaken, outrun>>
        /\ irq' = "ack"
    BY <1>a
  <2>2. count' \in Nat /\ (tx' = None \/ tx'.len \in 0 .. P) /\ nak' \in BOOLEAN /\ dirty' \in BOOLEAN
    BY <1>c, <1>d DEF Stages, Flags, P
  <2> QED
    BY <1>c, <2>1, <2>2 DEF Stages, Flags
<1>2. Armed' /\ DataOut'
  BY <1>a, <1>c, <1>d, <1>q DEF Armed, DataOut
<1>3. Transfer'
  <2>1. CASE UNCHANGED <<tx, nak, dirty, count>>
    BY <1>a, <1>c, <1>q, <2>1 DEF Transfer
  <2>2. CASE setup.in /\ count > 0
    <3>1. Pending /\ ~busrst /\ ~outrun => ~dirty'
      BY <1>a, <1>c, <1>d, <1>x, <2>2 DEF Transfer, Clean, Empty
    <3> QED
      BY <1>a, <1>c, <1>q, <3>1 DEF Transfer
  <2> QED
    BY <1>d, <2>1, <2>2
<1>6. CleanUnlessOvertaken'
  <2>1. CASE ~dirty /\ ~outrun /\ setup.in /\ count > 0
    BY <1>a, <1>c, <1>d, <1>x, <2>1 DEF CleanUnlessOvertaken, Clean, OneWriter
  <2> QED
    BY <1>a, <1>c, <1>d, <2>1 DEF CleanUnlessOvertaken
<1>4. ASSUME ~dirty', ~outrun' PROVE Empty' /\ OneWriter' /\ DataStage'
  <2>1. Empty /\ OneWriter /\ DataStage
    BY <1>4, <1>a, <1>c, <1>d DEF Clean
  <2>2. CASE UNCHANGED <<tx, nak, dirty, count>>
    BY <1>a, <1>q, <2>1, <2>2 DEF Empty, OneWriter, DataStage, Settled, TxLen, Total
  <2>3. CASE setup.in /\ count > 0
    <3>1. tx = None /\ ~stall0 /\ tx' # None /\ ~nak'
          /\ tx'.len + count' = count /\ (count' > 0 => tx'.len = P)
      BY <1>4, <1>d, <2>1, <2>3 DEF OneWriter
    <3>2. ~Pending /\ ~Settled /\ phase \notin {"out", "statusOut"}
      BY <1>a, <1>c, <1>x, <2>1, <2>3 DEF Empty, Transfer
    <3>3. Empty'
      BY <1>a, <1>q, <3>1, <3>2 DEF Empty, Settled
    <3>4. OneWriter'
      BY <1>a, <1>q, <2>3, <3>1, <3>2 DEF OneWriter, Settled
    <3>5. DataStage'
      <4>1. tx'.len \in Nat /\ count' \in Nat /\ got \in Nat
        BY <1>c, <1>d, <2>3 DEF Stages, P
      <4> QED
        BY <1>a, <1>q, <1>x, <2>1, <3>1, <4>1 DEF DataStage, TxLen, Total
    <3> QED
      BY <3>3, <3>4, <3>5
  <2> QED
    BY <1>d, <2>2, <2>3
<1>5. Clean'
  BY <1>4 DEF Clean
<1> QED
  BY <1>1, <1>2, <1>3, <1>5, <1>6, <1>a, <1>q, <1>x DEF Core

\* A packet of data is read and taken.
LEMMA RxDataCore == Core /\ RxData => Core'
<1> SUFFICES ASSUME Core, RxData PROVE Core'
  OBVIOUS
<1>c. /\ Stages /\ Flags /\ Shape /\ Armed /\ Transfer /\ DataOut /\ CleanUnlessOvertaken
      /\ (irq = "in" => xfrc) /\ Clean
  BY DEF Core
<1>w. /\ (rx # << >> <=> SetupFirst \/ DataFirst) /\ ~ (SetupFirst /\ DataFirst)
      /\ (Pending <=> SetupFirst \/ (DataFirst /\ Two)) /\ (Two => rx # << >>)
  BY <1>c, QueueCases
<1>a. /\ irq = "rx" /\ DataFirst /\ rx' = Tail(rx) /\ outArmed' = TRUE
      /\ IF ~setup.in /\ count > 0
           THEN /\ count' = count - Head(rx).len
                /\ (count = Head(rx).len /\ setup.kind \in ClassKinds) =>
                     StatusIn /\ UNCHANGED stall0
                /\ (count = Head(rx).len /\ setup.kind \notin ClassKinds) =>
                     stall0' = TRUE /\ UNCHANGED <<tx, nak, dirty>>
           ELSE UNCHANGED <<tx, nak, dirty, stall0, count>>
      /\ UNCHANGED <<xfrc, busrst, irq, phase, req, got, setup, overtaken, outrun>>
  BY DEF RxData, DataFirst, host, hw
<1>q. /\ Shape' /\ (Pending' <=> Pending) /\ ~Two' /\ ~DataFirst'
      /\ Pending => Asked' = Asked
      /\ rx' = << >> \/ SetupFirst'
      /\ Head(rx).len = rx[1].len
  BY <1>a, <1>c, DataTaken
<1>d. \/ UNCHANGED <<tx, nak, dirty, stall0, count>> /\ (setup.in \/ count = 0)
      \/ /\ ~setup.in /\ count > 0 /\ count' = 0
         /\ \/ StatusIn /\ UNCHANGED stall0
            \/ stall0' = TRUE /\ UNCHANGED <<tx, nak, dirty>>
  <2>1. CASE ~setup.in /\ count > 0
    <3>1. Head(rx).len = count /\ count \in Nat
      BY <1>a, <1>c, <1>q, <2>1 DEF DataOut, Stages
    <3>2. count - Head(rx).len = 0
      BY <3>1
    <3> QED
      BY <1>a, <2>1, <3>1, <3>2
  <2>2. CASE setup.in \/ count = 0
    <3>1. UNCHANGED <<tx, nak, dirty, stall0, count>>
      BY <1>a, <1>c, <2>2 DEF Stages
    <3> QED
      BY <2>2, <3>1
  <2>3. setup.in \/ count = 0 \/ (~setup.in /\ count > 0)
    BY <1>c DEF Stages
  <2> QED
    BY <2>1, <2>2, <2>3
<1>e. \/ UNCHANGED <<tx, nak, dirty>>
      \/ /\ StatusIn /\ UNCHANGED stall0 /\ tx' # None /\ tx'.len = 0 /\ ~nak'
         /\ nak' \in BOOLEAN /\ dirty' \in BOOLEAN /\ (dirty' <=> dirty \/ tx # None)
  BY <1>c, <1>d, StatusInSteps
<1>1. Stages' /\ Flags'
  <2>1. UNCHANGED <<xfrc, busrst, irq, phase, req, got, setup, overtaken,
                    outrun>> /\ outArmed' = TRUE
    BY <1>a
  <2>2. count' \in Nat /\ stall0' \in BOOLEAN
    <3>1. count' = count \/ count' = 0
      BY <1>d
    <3>2. stall0' = stall0 \/ stall0' = TRUE
      BY <1>d
    <3>3. count' \in Nat
      BY <1>c, <3>1 DEF Stages
    <3> QED
      BY <1>c, <3>2, <3>3 DEF Flags
  <2>3. (tx' = None \/ tx'.len \in 0 .. P) /\ nak' \in BOOLEAN /\ dirty' \in BOOLEAN
    BY <1>c, <1>e DEF Stages, Flags, P
  <2>4. Stages'
    BY <1>c, <2>1, <2>2, <2>3 DEF Stages
  <2> QED
    BY <1>c, <2>1, <2>2, <2>3, <2>4 DEF Flags
<1>2. Armed' /\ DataOut'
  <2>1. setup' = setup /\ (count' = count \/ count' = 0)
    BY <1>a, <1>d
  <2> QED
    BY <1>c, <1>q, <2>1 DEF Armed, DataOut
<1>f. ~dirty /\ ~outrun => ~dirty'
  <2>1. CASE ~dirty /\ ~outrun /\ ~setup.in /\ count > 0
    BY <1>c, <1>e, <2>1 DEF Clean, OneWriter
  <2> QED
    BY <1>d, <2>1
<1>3. Transfer'
  <2>1. UNCHANGED <<phase, req, got, setup, busrst, outrun>>
    BY <1>a
  <2> QED
    BY <1>a, <1>c, <1>f, <1>q, <1>w, <2>1 DEF Transfer
<1>6. CleanUnlessOvertaken'
  BY <1>a, <1>c, <1>d, <1>f DEF CleanUnlessOvertaken, Flags
<1>4. ASSUME ~dirty', ~outrun' PROVE Empty' /\ OneWriter' /\ DataStage'
  <2>1. UNCHANGED <<xfrc, busrst, irq, phase, req, got, setup, overtaken, outrun>>
    BY <1>a
  <2>2. Empty /\ OneWriter /\ DataStage
    BY <1>4, <1>c, <1>d, <1>e, <2>1 DEF Clean
  <2>3. phase = "in" => Pending
    BY <1>a, <1>c, <1>w DEF Transfer
  <2>4. CASE UNCHANGED <<tx, nak, dirty, stall0, count>>
    BY <1>a, <1>q, <1>w, <2>1, <2>2, <2>3, <2>4 DEF Empty, OneWriter, DataStage, Settled
  <2>5. CASE ~setup.in /\ count > 0 /\ count' = 0
    <3>1. tx = None /\ ~Pending /\ ~Settled /\ phase \notin {"out", "statusOut"} /\ ~stall0
      BY <1>a, <1>c, <1>w, <2>2, <2>5 DEF Empty, OneWriter, Transfer
    <3>2. /\ tx' # None => ~nak' /\ ~stall0'
      BY <1>d, <1>e, <2>5, <3>1
    <3> QED
      BY <1>q, <2>1, <2>3, <2>5, <3>1, <3>2 DEF Empty, OneWriter, DataStage, Settled
  <2> QED
    BY <1>d, <2>4, <2>5
<1>5. Clean'
  BY <1>4 DEF Clean
<1> QED
  BY <1>1, <1>2, <1>3, <1>5, <1>6, <1>a, <1>c, <1>q DEF Core

\* What an outcome leaves behind when nothing was on offer, and what of it does
\* not depend on that.
LEMMA OutcomeSteps ==
  ASSUME NEW r \in Requests, Ep0EventSetup(r), Flags, tx = None \/ tx.len \in 0 .. P
  PROVE  /\ count' \in Nat /\ (tx' = None \/ tx'.len \in 0 .. P)
         /\ nak' \in BOOLEAN /\ dirty' \in BOOLEAN /\ stall0' \in BOOLEAN
         /\ tx = None \/ dirty => (dirty' <=> dirty)
         /\ dirty => dirty'
         /\ ~r.in => count' \in {0, r.len}
         /\ tx = None /\ ~stall0 =>
              /\ tx' # None => ~nak' /\ ~stall0' /\ (~r.in => r.len = 0 /\ count' = 0)
              /\ stall0' => tx' = None /\ count' = 0
              /\ r.in /\ ~stall0' =>
                   /\ (IF tx' = None THEN 0 ELSE tx'.len) + count' = Total(r)
                   /\ tx' # None /\ count' > 0 => tx'.len = P
<1>1. r.len \in Nat /\ Total(r) \in Nat /\ WellFormed(r) /\ r.in \in BOOLEAN
  BY RequestFields, TotalBound
<1>2. CASE Refused
  BY <1>1, <1>2 DEF Refused, Flags
<1>3. CASE ~r.in /\ r.len = 0 /\ Acknowledged
  <2>1. StatusIn /\ count' = 0 /\ stall0' = stall0
    BY <1>3 DEF Acknowledged
  <2>2. /\ tx' # None /\ tx'.len = 0 /\ ~nak' /\ nak' \in BOOLEAN /\ dirty' \in BOOLEAN
        /\ (dirty' <=> dirty \/ tx # None)
    BY <2>1, StatusInSteps
  <2> QED
    BY <1>1, <1>3, <2>1, <2>2 DEF Flags, P
<1>4. CASE r.in /\ \E o : Answered(r, o)
  <2>1. PICK o : Answered(r, o)
    BY <1>4
  <2>2. DataIn(o, 0, Total(r)) /\ stall0' = stall0
    BY <2>1 DEF Answered
  <2>3. /\ count' \in Nat
        /\ Total(r) = 0 => count' = 0 /\ UNCHANGED <<tx, nak, dirty>>
        /\ Total(r) > 0 =>
             /\ tx' # None /\ tx'.len \in 1 .. P /\ ~nak'
             /\ (dirty' <=> dirty \/ tx # None)
             /\ tx'.len + count' = Total(r)
             /\ count' > 0 => tx'.len = P
        /\ nak' \in BOOLEAN /\ dirty' \in BOOLEAN
    BY <1>1, <2>2, DataInSteps
  <2>4. CASE Total(r) = 0
    BY <1>4, <2>2, <2>3, <2>4 DEF Flags
  <2>5. CASE Total(r) > 0
    BY <1>4, <2>2, <2>3, <2>5 DEF Flags, P
  <2> QED
    BY <1>1, <2>4, <2>5
<1>5. CASE r.kind \in {"set_line_coding", "cdc_other"} /\ LeftOpen(r)
  <2>1. r.in => Total(r) = r.len
    BY <1>5 DEF Total
  <2> QED
    BY <1>1, <1>5, <2>1 DEF LeftOpen, Flags
<1> QED
  BY <1>2, <1>3, <1>4, <1>5, Outcomes

\* A SETUP packet is served.
LEMMA RxSetupCore == Core /\ RxSetup => Core'
<1> SUFFICES ASSUME Core, RxSetup PROVE Core'
  OBVIOUS
<1>c. /\ Stages /\ Flags /\ Shape /\ Armed /\ Transfer /\ DataOut /\ CleanUnlessOvertaken
      /\ (irq = "in" => xfrc) /\ Clean
  BY DEF Core
<1>w. /\ (rx # << >> <=> SetupFirst \/ DataFirst) /\ ~ (SetupFirst /\ DataFirst)
      /\ (Pending <=> SetupFirst \/ (DataFirst /\ Two)) /\ (Two => rx # << >>)
  BY <1>c, QueueCases
<1>a. /\ irq = "rx" /\ SetupFirst /\ rx' = Tail(rx) /\ outArmed' = TRUE
      /\ setup' = Head(rx).req /\ Ep0EventSetup(Head(rx).req)
      /\ overtaken' = (xfrc \/ (overtaken /\ dirty))
      /\ UNCHANGED <<xfrc, busrst, irq, phase, req, got, outrun>>
  BY DEF RxSetup, SetupFirst, host
<1>q. /\ Shape' /\ ~Pending' /\ ~SetupFirst' /\ ~Two'
      /\ Pending /\ Head(rx).req = Asked /\ Asked \in Requests
      /\ Two => DataFirst' /\ rx'[1].len = rx[2].len
      /\ ~Two => rx' = << >> /\ ~DataFirst'
  BY <1>a, <1>c, SetupTaken
<1>r. setup' = Asked /\ Ep0EventSetup(Asked)
  BY <1>a, <1>q
<1>d. /\ count' \in Nat /\ (tx' = None \/ tx'.len \in 0 .. P)
      /\ nak' \in BOOLEAN /\ dirty' \in BOOLEAN /\ stall0' \in BOOLEAN
      /\ tx = None \/ dirty => (dirty' <=> dirty)
      /\ dirty => dirty'
      /\ ~Asked.in => count' \in {0, Asked.len}
      /\ tx = None /\ ~stall0 =>
           /\ tx' # None => ~nak' /\ ~stall0' /\ (~Asked.in => Asked.len = 0 /\ count' = 0)
           /\ stall0' => tx' = None /\ count' = 0
           /\ Asked.in /\ ~stall0' =>
                /\ (IF tx' = None THEN 0 ELSE tx'.len) + count' = Total(Asked)
                /\ tx' # None /\ count' > 0 => tx'.len = P
  BY <1>c, <1>q, <1>r, OutcomeSteps DEF Stages
<1>g. Two => phase \in {"statusIn", "idle"} /\ rx[2].len = Asked.len /\ ~Asked.in
  BY <1>a, <1>c DEF Transfer
<1>p. phase # "idle" => phase \in {"in", "out", "statusIn"} /\ got = 0 /\ Asked = req
  BY <1>c, <1>q DEF Transfer
<1>1. Stages' /\ Flags'
  <2>1. UNCHANGED <<xfrc, busrst, irq, phase, req, got, outrun>> /\ outArmed' = TRUE
    BY <1>a
  <2>2. overtaken' \in BOOLEAN
    BY <1>a
  <2>3. setup' \in Requests
    BY <1>q, <1>r
  <2>4. Stages'
    BY <1>c, <1>d, <2>1, <2>3 DEF Stages
  <2> QED
    BY <1>c, <1>d, <2>1, <2>2, <2>4 DEF Flags
<1>f. ~dirty /\ ~outrun => tx = None /\ ~stall0 /\ ~dirty'
  BY <1>c, <1>d, <1>q DEF Clean, Empty, OneWriter
<1>2. Armed' /\ DataOut'
  <2>1. Armed'
    BY <1>a, <1>c, <1>p, <1>q DEF Armed, Transfer
  <2>2. DataOut'
    <3>1. ~setup'.in => count' \in {0, setup'.len}
      BY <1>d, <1>r
    <3>2. DataFirst' => rx'[1].len = setup'.len
      BY <1>g, <1>q, <1>r
    <3> QED
      BY <3>1, <3>2 DEF DataOut
  <2> QED
    BY <2>1, <2>2
<1>3. Transfer'
  <2>1. UNCHANGED <<phase, req, got, busrst, outrun>>
    BY <1>a
  <2> QED
    BY <1>c, <1>g, <1>p, <1>q, <1>r, <2>1 DEF Transfer
<1>6. CleanUnlessOvertaken'
  BY <1>a, <1>c, <1>f DEF CleanUnlessOvertaken, Flags
<1>4. ASSUME ~dirty', ~outrun' PROVE Empty' /\ OneWriter' /\ DataStage'
  <2>1. UNCHANGED <<xfrc, busrst, irq, phase, req, got, outrun>>
    BY <1>a
  <2>2. ~dirty /\ ~outrun /\ tx = None /\ ~stall0
    BY <1>4, <1>d, <1>f, <2>1
  <2>3. phase \in {"in", "out", "statusIn"} \/ (phase = "idle" /\ busrst)
    BY <1>c, <1>q, <2>2 DEF Transfer
  <2>4. /\ phase = "in" => Asked.in
        /\ phase = "out" => ~Asked.in /\ Asked.len > 0
    BY <1>c, <1>p DEF Transfer
  <2>5. Empty'
    BY <1>d, <1>q, <2>1, <2>2, <2>3, <2>4 DEF Empty, Settled
  <2>6. OneWriter'
    <3>1. xfrc => overtaken'
      BY <1>a
    <3>2. /\ ~setup'.in /\ count' > 0 => tx' = None
          /\ stall0' => tx' = None /\ count' = 0
      BY <1>d, <1>r, <2>2
    <3>3. ~Settled' /\ ~Pending' /\ ~Two'
      BY <1>q, <2>1, <2>3 DEF Settled
    <3> QED
      BY <2>1, <3>1, <3>2, <3>3 DEF OneWriter
  <2>7. DataStage'
    BY <1>c, <1>d, <1>p, <2>1, <2>2, <2>4 DEF DataStage, TxLen, Total, Stages
  <2> QED
    BY <2>5, <2>6, <2>7
<1>5. Clean'
  BY <1>4 DEF Clean
<1> QED
  BY <1>1, <1>2, <1>3, <1>5, <1>6, <1>a, <1>c, <1>q DEF Core

\* What the class does not touch when it stalls its endpoints.
Control == <<phase, req, got, ep0, busrst, irq, setup, ptr, count, overtaken, outrun>>

\* A step that leaves the control transfers alone keeps the invariant.
LEMMA ControlKept == Core /\ UNCHANGED Control => Core'
<1> SUFFICES ASSUME Core, UNCHANGED Control PROVE Core'
  OBVIOUS
<1>a. UNCHANGED <<phase, req, got, rx, outArmed, tx, nak, dirty, xfrc, stall0, busrst, irq,
                  setup, count, overtaken, outrun>>
  BY DEF Control, ep0
<1>q. /\ Shape' /\ (Pending' <=> Pending) /\ (SetupFirst' <=> SetupFirst)
      /\ (DataFirst' <=> DataFirst) /\ (Two' <=> Two) /\ Asked' = Asked
  BY <1>a, QueueKept DEF Core
<1>1. Stages' /\ Flags'
  BY <1>a DEF Core, Stages, Flags
<1>2. Armed' /\ DataOut' /\ Transfer'
  BY <1>a, <1>q DEF Core, Armed, DataOut, Transfer
<1>3. Clean'
  BY <1>a, <1>q DEF Core, Clean, Empty, OneWriter, DataStage, Settled, TxLen, Total
<1> QED
  BY <1>a, <1>q, <1>1, <1>2, <1>3 DEF Core, CleanUnlessOvertaken

\* A device that has just been switched on.
LEMMA InitCore == Init => Core
<1> SUFFICES ASSUME Init PROVE Core
  OBVIOUS
<1>1. rx = << >> /\ ~Pending /\ ~Two /\ ~SetupFirst /\ ~DataFirst
  BY DEF Init, Pending, Two, SetupFirst, DataFirst
<1>2. Stages /\ Flags
  BY DEF Init, Stages, Flags
<1>3. Shape /\ Armed /\ DataOut
  BY <1>1 DEF Init, Shape, Armed, DataOut
<1>4. Transfer
  BY <1>1 DEF Init, Transfer
<1>5. Clean
  BY <1>1 DEF Init, Clean, Empty, OneWriter, DataStage, Settled, TxLen
<1> QED
  BY <1>2, <1>3, <1>4, <1>5 DEF Core, Init, CleanUnlessOvertaken

\* Every step of host, interrupt and classes keeps the invariant.
LEMMA NextCore == Core /\ [Next]_vars => Core'
<1> SUFFICES ASSUME Core, [Next]_vars PROVE Core'
  OBVIOUS
<1>1. CASE Irq
  BY <1>1, IrqEnterCore, RxSetupCore, RxDataCore, RxDoneCore, InEventCore, InAckCore, IrqLeaveCore
     DEF Irq
<1>2. CASE Host
  BY <1>2, HostInCore, HostDataCore, HostStatusCore, HostStalledCore DEF Host
<1>3. CASE HostTimeout \/ BusReset
  BY <1>3, HostTimeoutCore, BusResetCore
<1>4. CASE \E r \in Requests : HostSetup(r)
  BY <1>4, HostSetupCore
<1>5. CASE ClassStalls(EpsOf(Len(Interfaces)))
  <2>1. UNCHANGED Control
    BY <1>5 DEF ClassStalls, Control, host
  <2> QED
    BY <2>1, ControlKept
<1>6. CASE UNCHANGED vars
  <2>1. UNCHANGED Control
    BY <1>6 DEF vars, Control, host
  <2> QED
    BY <2>1, ControlKept
<1> QED
  BY <1>1, <1>2, <1>3, <1>4, <1>5, <1>6 DEF Next

\* Core holds in every reachable state.
THEOREM CoreInvariance == Spec => []Core
<1>1. Init => Core
  BY InitCore
<1>2. Core /\ [Next]_vars => Core'
  BY NextCore
<1> QED
  BY <1>1, <1>2, PTL DEF Spec

\* A packet is written behind another one only after a SETUP has overtaken the
\* IN event of an earlier transfer, or a bus reset a packet: in every order of
\* interrupts and transactions, for every set of requests.
THEOREM WritesClean == Spec => []CleanUnlessOvertaken
<1>1. Core => CleanUnlessOvertaken
  BY DEF Core
<1> QED
  BY <1>1, CoreInvariance, PTL

-----------------------------------------------------------------------------
(* The data stage                                                          *)

\* A step other than an IN packet of the data stage does not begin the status
\* stage of an IN transfer, and does not repair the FIFO in one.
LEMMA StatusOutKept ==
  ASSUME Core, [Next]_vars, ~HostIn, phase' = "statusOut"
  PROVE  phase = "statusOut" /\ got' = got /\ req' = req /\ (dirty => dirty')
<1>c. Flags /\ Transfer /\ Stages
  BY DEF Core
<1>1. CASE IrqEnter \/ RxDone \/ InAck
  BY <1>1 DEF IrqEnter, RxDone, InAck, host, ep0
<1>2. CASE RxSetup
  <2>1. PICK r \in Requests : Ep0EventSetup(r)
    BY <1>2, SetupTaken DEF Core, RxSetup, SetupFirst
  <2>2. dirty => dirty'
    BY <1>c, <2>1, OutcomeSteps DEF Stages
  <2> QED
    BY <1>2, <2>2 DEF RxSetup, host
<1>3. CASE RxData
  <2>1. StatusIn \/ dirty' = dirty
    BY <1>3 DEF RxData
  <2>2. dirty => dirty'
    BY <2>1 DEF StatusIn, Write
  <2> QED
    BY <1>3, <2>2 DEF RxData, host
<1>4. CASE InEvent
  <2>1. DataIn(ptr.obj, ptr.at, count) \/ dirty' = dirty
    BY <1>4 DEF InEvent
  <2>2. dirty => dirty'
    BY <2>1 DEF DataIn, Write
  <2> QED
    BY <1>4, <2>2 DEF InEvent, host
<1>5. CASE IrqLeave
  BY <1>c, <1>5 DEF IrqLeave, host, Transfer
<1>6. CASE HostData \/ HostStatus \/ HostStalled \/ HostTimeout \/ BusReset
  BY <1>6 DEF HostData, HostStatus, HostStalled, HostTimeout, BusReset, Ends
<1>7. CASE \E r \in Requests : HostSetup(r)
  BY <1>7 DEF HostSetup
<1>8. CASE ClassStalls(EpsOf(Len(Interfaces))) \/ UNCHANGED vars
  BY <1>8 DEF ClassStalls, vars, host, ep0
<1> QED
  BY <1>1, <1>2, <1>3, <1>4, <1>5, <1>6, <1>7, <1>8 DEF Next, Irq, Host

\* The last IN packet completes what was asked for.
LEMMA CompleteKept == Core /\ Complete /\ [Next]_vars => Complete'
<1> SUFFICES ASSUME Core, Complete, [Next]_vars, phase' = "statusOut", ~dirty'
             PROVE  got' = Total(req)'
  BY DEF Complete
<1>1. CASE HostIn
  <2>1. Core'
    BY <1>1, HostInCore
  <2>2. /\ phase = "in" /\ ~stall0 /\ tx # None /\ got' = got + tx.len /\ req' = req
        /\ dirty' = dirty /\ outrun' = outrun /\ rx' = rx /\ count' = count /\ tx' = None
    BY <1>1 DEF HostIn, Offered
  <2>3. ~Pending /\ ~outrun
    BY <2>2 DEF Core, Transfer, Clean, Empty
  <2>4. got + tx.len + count = Total(req)
    BY <2>2, <2>3 DEF Core, Clean, DataStage, TxLen
  <2>5. count = 0
    BY <2>1, <2>2, <2>3 DEF Core, Clean, Empty
  <2>6. req \in Requests /\ got \in Nat /\ tx.len \in 0 .. P
    BY <2>2 DEF Core, Transfer, Stages
  <2>7. got + tx.len = Total(req)
    BY <2>4, <2>5, <2>6 DEF P
  <2>8. Total(req)' = Total(req)
    BY <2>2 DEF Total
  <2> QED
    BY <2>2, <2>7, <2>8
<1>2. CASE ~HostIn
  <2>1. phase = "statusOut" /\ got' = got /\ req' = req /\ (dirty => dirty')
    BY <1>2, StatusOutKept
  <2>2. Total(req)' = Total(req)
    BY <2>1 DEF Total
  <2> QED
    BY <2>1, <2>2 DEF Complete
<1> QED
  BY <1>1, <1>2

\* Each packet, and the rest, begin where the one before it has ended.
LEMMA InOrderKept == Core /\ InOrder /\ [Next]_vars => InOrder'
<1> SUFFICES ASSUME Core, InOrder, [Next]_vars,
                    phase' = "in", ~Pending', ~stall0', ~dirty',
                    req'.obj # "qualifier", req'.kind # "cdc_other"
             PROVE  /\ tx' # None => tx'.obj = req'.obj /\ tx'.at = got'
                    /\ count' > 0 => ptr' = [obj |-> req'.obj, at |-> got' + TxLen']
  BY DEF InOrder
<1>c. Stages /\ Flags /\ Shape /\ Transfer /\ Clean
  BY DEF Core
<1>s. ASSUME UNCHANGED <<phase, rx, stall0, dirty, req, tx, got, ptr, count>>
      PROVE  /\ tx' # None => tx'.obj = req'.obj /\ tx'.at = got'
             /\ count' > 0 => ptr' = [obj |-> req'.obj, at |-> got' + TxLen']
  BY <1>s DEF InOrder, Pending, TxLen
<1>1. CASE IrqEnter \/ RxDone \/ InAck
  BY <1>1, <1>s DEF IrqEnter, RxDone, InAck, host, ep0
<1>2. CASE RxSetup
  <2>1. SetupFirst /\ setup' = Head(rx).req /\ Ep0EventSetup(Head(rx).req)
        /\ rx' = Tail(rx) /\ UNCHANGED <<phase, req, got, busrst, outrun>>
    BY <1>2 DEF RxSetup, SetupFirst, host
  <2>2. Pending /\ Head(rx).req = Asked /\ Asked \in Requests
    BY <1>c, <2>1, SetupTaken
  <2>3. ~busrst /\ ~outrun
    BY <1>c, <2>1 DEF Transfer
  <2>4. got = 0 /\ ~dirty /\ Asked = req
    BY <1>c, <2>2, <2>3 DEF Transfer
  <2>5. tx = None
    BY <1>c, <2>2, <2>3, <2>4 DEF Clean, Empty
  <2>6. req.in /\ req \in Requests /\ Ep0EventSetup(req)
    BY <1>c, <2>1, <2>2, <2>4 DEF Transfer
  <2>7. WellFormed(req)
    BY <2>6, RequestFields
  <2>8. req.kind # "set_line_coding"
    BY <2>6, <2>7, <2>1 DEF WellFormed
  <2>9. Refused \/ \E o : Answered(req, o) /\ (req.obj # "qualifier" => o = req.obj)
    BY <2>1, <2>6, <2>8, Outcomes
  <2>10. ~Refused
    BY DEF Refused
  <2>11. DataIn(req.obj, 0, Total(req))
    BY <2>1, <2>9, <2>10 DEF Answered
  <2>12. Total(req) \in Nat
    BY <2>6, TotalBound
  <2>13. /\ Total(req) = 0 => count' = 0 /\ tx' = tx
         /\ Total(req) > 0 => /\ tx' # None /\ tx'.len \in 1 .. P
                              /\ tx'.obj = req.obj /\ tx'.at = 0
                              /\ count' > 0 => ptr' = [obj |-> req.obj, at |-> 0 + tx'.len]
    BY <1>c, <2>11, <2>12, DataInSteps
  <2>14. got' = 0 /\ req' = req
    BY <2>1, <2>4
  <2>15. CASE Total(req) = 0
    BY <2>5, <2>13, <2>15
  <2>16. CASE Total(req) > 0
    <3>1. /\ tx' # None /\ tx'.obj = req.obj /\ tx'.at = 0
          /\ count' > 0 => ptr' = [obj |-> req.obj, at |-> 0 + tx'.len]
      BY <2>13, <2>16, Zenon
    <3>2. TxLen' = tx'.len
      BY <3>1, Zenon DEF TxLen
    <3>3. 0 + tx'.len = got' + TxLen'
      BY <2>14, <3>2, Zenon
    <3> QED
      BY <2>14, <3>1, <3>3, Zenon
  <2> QED
    BY <2>12, <2>15, <2>16
<1>3. CASE RxData
  <2>1. DataFirst /\ rx' = Tail(rx) /\ phase = "in"
    BY <1>3 DEF RxData, DataFirst, host
  <2>2. Pending' <=> Pending
    BY <1>c, <2>1, DataTaken
  <2> QED
    BY <1>c, <2>1, <2>2 DEF Transfer, DataFirst
<1>4. CASE InEvent
  <2>1. /\ IF setup.in THEN DataIn(ptr.obj, ptr.at, count) ELSE UNCHANGED <<tx, dirty, ptr, count>>
        /\ UNCHANGED <<rx, stall0, phase, req, got, setup, busrst, outrun>>
    BY <1>4 DEF InEvent, host
  <2>2. ~Pending /\ ~busrst /\ ~outrun /\ count \in Nat /\ got \in Nat
    BY <1>c, <2>1 DEF Transfer, Stages, Pending
  <2>3. CASE ~setup.in \/ count = 0
    <3>1. UNCHANGED <<tx, dirty>> /\ ((count' = count /\ ptr' = ptr) \/ count' = 0)
      BY <2>1, <2>3 DEF DataIn
    <3> QED
      BY <2>1, <2>2, <3>1 DEF InOrder, TxLen
  <2>4. CASE setup.in /\ count > 0
    <3>1. /\ tx' # None /\ tx'.len \in 1 .. P /\ (dirty' <=> dirty \/ tx # None)
          /\ tx'.obj = ptr.obj /\ tx'.at = ptr.at
          /\ count' > 0 => ptr' = [obj |-> ptr.obj, at |-> ptr.at + tx'.len]
      BY <1>c, <2>1, <2>2, <2>4, DataInSteps
    <3>2. tx = None /\ ~dirty
      BY <3>1
    <3>3. ptr = [obj |-> req.obj, at |-> got + 0]
      BY <2>1, <2>2, <2>4, <3>2 DEF InOrder, TxLen
    <3> QED
      BY <2>1, <2>2, <3>1, <3>3 DEF TxLen
  <2> QED
    BY <2>2, <2>3, <2>4
<1>5. CASE IrqLeave
  <2>1. ~busrst
    BY <1>c, <1>5 DEF IrqLeave, host, Transfer
  <2> QED
    BY <1>5, <1>s, <2>1 DEF IrqLeave, host
<1>6. CASE HostIn
  <2>1. /\ tx # None /\ phase = "in" /\ got' = got + tx.len /\ tx' = None
        /\ UNCHANGED <<rx, stall0, dirty, req, ptr, count>>
    BY <1>6 DEF HostIn, Offered
  <2>2. ~Pending
    BY <2>1 DEF Pending
  <2>3. got \in Nat /\ tx.len \in 0 .. P
    BY <1>c, <2>1 DEF Stages
  <2>4. TxLen = tx.len /\ TxLen' = 0
    BY <2>1 DEF TxLen
  <2> QED
    BY <2>1, <2>2, <2>3, <2>4 DEF InOrder, P
<1>7. CASE HostData \/ HostStatus \/ HostStalled \/ HostTimeout \/ BusReset
  BY <1>7 DEF HostData, HostStatus, HostStalled, HostTimeout, BusReset, Ends
<1>8. CASE \E r \in Requests : HostSetup(r)
  <2>1. PICK r \in Requests : HostSetup(r)
    BY <1>8
  <2>2. phase = "idle" /\ ~busrst /\ ~outrun /\ rx' = Append(rx, SetupOf(r))
    BY <2>1 DEF HostSetup, SetupOf
  <2>3. ~Pending
    BY <1>c, <2>1, <2>2 DEF Transfer, HostSetup
  <2> QED
    BY <1>c, <2>2, <2>3, SetupComes
<1>9. CASE ClassStalls(EpsOf(Len(Interfaces))) \/ UNCHANGED vars
  BY <1>9, <1>s DEF ClassStalls, vars, host, ep0
<1> QED
  BY <1>1, <1>2, <1>3, <1>4, <1>5, <1>6, <1>7, <1>8, <1>9 DEF Next, Irq, Host

\* When the data stage of an IN transfer is over the host has all of the object
\* or as much as it asked for, whatever came between the packets.
THEOREM DataIsComplete == Spec => []DataComplete
<1>1. Init => Core /\ Complete
  BY InitCore DEF Init, Complete
<1>2. Core /\ Complete /\ [Next]_vars => Core' /\ Complete'
  BY NextCore, CompleteKept
<1>3. Complete => DataComplete
  BY DEF Complete, DataComplete, Total
<1> QED
  BY <1>1, <1>2, <1>3, PTL DEF Spec

\* Every IN packet the host takes continues the object at the byte where the
\* one before it has ended.
THEOREM DataComesInOrder == Spec => DataInOrder
<1>1. Init => Core /\ InOrder
  BY InitCore DEF Init, InOrder
<1>2. Core /\ InOrder /\ [Next]_vars => Core' /\ InOrder'
  BY NextCore, InOrderKept
<1>3. Core /\ InOrder /\ [Next]_vars =>
        [phase = "in" /\ got' > got /\ ~dirty /\ req.obj # "qualifier" /\ req.kind # "cdc_other"
           => tx.obj = req.obj /\ tx.at = got]_vars
  <2> SUFFICES ASSUME Core, InOrder, [Next]_vars, phase = "in", got' > got, ~dirty,
                      req.obj # "qualifier", req.kind # "cdc_other"
               PROVE  tx.obj = req.obj /\ tx.at = got
    OBVIOUS
  <2>1. HostIn
    <3>1. got \in Nat
      BY DEF Core, Stages
    <3>2. ~ (got' = got) /\ ~ (got' = 0)
      BY <3>1
    <3> QED
      BY <3>2 DEF Next, Irq, Host, IrqEnter, RxSetup, RxData, RxDone, InEvent, InAck, IrqLeave,
                  HostData, HostStatus, HostStalled, HostTimeout, BusReset, HostSetup, ClassStalls,
                  Ends, host, vars
  <2>2. tx # None /\ ~stall0 /\ ~nak
    BY <2>1 DEF HostIn, Offered
  <2>3. ~Pending
    BY <2>2 DEF Core, Transfer, Clean, Empty
  <2> QED
    BY <2>2, <2>3 DEF InOrder
<1> QED
  BY <1>1, <1>2, <1>3, PTL DEF Spec, DataInOrder

-----------------------------------------------------------------------------
(* The device                                                              *)

\* The endpoints of the interfaces are not EP0, and not the one whose bit
\* MsClass sets by mistake.
LEMMA EndpointSets ==
  /\ Endpoints \cap (Ep0 \cup {StallBit, 128 + StallBit}) = {}
  /\ \A w \in Nat : EpsOfIface(w) \subseteq Endpoints
  /\ EpsOf(Len(Interfaces)) \subseteq Endpoints
<1>1. DOMAIN Interfaces = 1 .. Len(Interfaces) /\ Len(Interfaces) \in 1 .. 3
  BY UsbControlAssumption
<1>2. \A i \in DOMAIN Interfaces : EpsOf(i) \subseteq Endpoints
  BY DEF Endpoints
<1>3. \A n \in Endpoints : \E i \in 1 .. 3 : n = i \/ n = 128 + i
  BY <1>1 DEF Endpoints, EpsOf
<1>4. Endpoints \cap (Ep0 \cup {StallBit, 128 + StallBit}) = {}
  BY <1>3 DEF Ep0, StallBit
<1>5. \A w \in Nat : EpsOfIface(w) \subseteq Endpoints
  BY <1>1, <1>2 DEF EpsOfIface
<1> QED
  BY <1>1, <1>2, <1>4, <1>5

\* A step that leaves alone what the host knows and what the device has set.
LEMMA DeviceQuiet ==
  ASSUME Core, DeviceInv,
         UNCHANGED <<haddr, hcfg, hw, device, ring, phase, req, rx, stall0, tx, nak, setup,
                     busrst, outrun>>,
         xfrc' => xfrc
  PROVE  DeviceInv'
<1>1. /\ Served' <=> Served
      /\ Configuring' <=> Configuring
      /\ Disabling' <=> Disabling
      /\ Addressing' <=> Addressing
      /\ Pending' <=> Pending
  BY DEF Served, Configuring, Disabling, Addressing, Pending
<1>2. /\ UNCHANGED <<hwaddr, enabled, stalled, devaddr, config, mask, halt, stallMask>>
  BY DEF hw, device
<1>3. DeviceTypes' /\ RingEmpty' /\ Enumeration'
  BY <1>2 DEF DeviceInv, DeviceTypes, RingEmpty, Enumeration
<1>4. Configuration'
  BY <1>1, <1>2 DEF DeviceInv, Configuration, Configured, HaltShown
<1>5. StatusOffered'
  BY <1>1 DEF DeviceInv, StatusOffered
<1>6. Addressed'
  BY <1>1, <1>2 DEF DeviceInv, Addressed, Stale
<1> QED
  BY <1>3, <1>4, <1>5, <1>6 DEF DeviceInv

\* The class stalls its endpoints.
LEMMA ClassStallsDevice ==
  Core /\ DeviceInv /\ ClassStalls(EpsOf(Len(Interfaces))) => DeviceInv'
<1> SUFFICES ASSUME Core, DeviceInv, ClassStalls(EpsOf(Len(Interfaces))) PROVE DeviceInv'
  OBVIOUS
<1>a. /\ stallMask' = stallMask \cup {StallBit, 128 + StallBit}
      /\ halt' = halt \cup {StallBit, 128 + StallBit}
      /\ stalled' = stalled \cup EpsOf(Len(Interfaces))
      /\ UNCHANGED <<phase, req, got, haddr, hcfg, rx, stall0, tx, nak, xfrc, busrst, hwaddr,
                     enabled,
                     setup, devaddr, config, mask, ring, outrun>>
  BY DEF ClassStalls, host, ep0
<1>1. /\ Served' <=> Served
      /\ Configuring' <=> Configuring
      /\ Disabling' <=> Disabling
      /\ Addressing' <=> Addressing
      /\ Pending' <=> Pending
  BY <1>a DEF Served, Configuring, Disabling, Addressing, Pending
<1>2. HaltShown => HaltShown'
  BY <1>a, EndpointSets DEF HaltShown
<1>3. DeviceTypes' /\ RingEmpty' /\ Enumeration'
  BY <1>a, EndpointSets DEF DeviceInv, DeviceTypes, RingEmpty, Enumeration
<1>4. Configuration'
  BY <1>1, <1>2, <1>a DEF DeviceInv, Configuration, Configured
<1>5. StatusOffered'
  BY <1>1, <1>a DEF DeviceInv, StatusOffered
<1>6. Addressed'
  BY <1>1, <1>a DEF DeviceInv, Addressed, Stale
<1> QED
  BY <1>3, <1>4, <1>5, <1>6 DEF DeviceInv

\* The host takes a packet of the data stage.
LEMMA HostInDevice == Core /\ DeviceInv /\ HostIn => DeviceInv'
<1> SUFFICES ASSUME Core, DeviceInv, HostIn PROVE DeviceInv'
  OBVIOUS
<1>a. /\ phase = "in" /\ tx # None /\ phase' \in {"in", "statusOut"}
      /\ UNCHANGED <<haddr, hcfg, hw, device, ring, req, rx, stall0, setup, busrst, outrun>>
  BY DEF HostIn, Offered
<1>b. UNCHANGED <<hwaddr, enabled, stalled, devaddr, config, mask, halt, stallMask>>
  BY <1>a DEF hw, device
<1>1. ~Pending /\ setup = req /\ req.in
  BY <1>a DEF Core, Transfer, Clean, Empty
<1>2. ~Served /\ ~Served' /\ phase # "idle"
  BY <1>a DEF Served
<1>3. DeviceTypes' /\ RingEmpty' /\ Enumeration'
  BY <1>a, <1>b, <1>2 DEF DeviceInv, DeviceTypes, RingEmpty, Enumeration
<1>4. Configuration'
  BY <1>a, <1>b, <1>2 DEF DeviceInv, Configuration, Configured, HaltShown, Configuring, Disabling
<1>5. StatusOffered'
  BY <1>2 DEF StatusOffered, Addressing
<1>6. Addressed'
  BY <1>a, <1>b, <1>1, <1>2 DEF DeviceInv, Addressed, Stale, Addressing
<1> QED
  BY <1>3, <1>4, <1>5, <1>6 DEF DeviceInv

\* The host sends data, or its status: no request that changes the
\* configuration or the address has a data stage.
LEMMA HostDataDevice == Core /\ DeviceInv /\ HostData => DeviceInv'
<1> SUFFICES ASSUME Core, DeviceInv, HostData PROVE DeviceInv'
  OBVIOUS
<1>a. /\ phase \in {"out", "statusOut"} /\ outArmed
      /\ rx' = Append(rx, DataOf(IF phase = "out" THEN req.len ELSE 0))
      /\ IF phase = "out" THEN phase' = "statusIn" /\ req' = req ELSE phase' = "idle"
      /\ UNCHANGED <<haddr, hcfg, hw, device, ring, xfrc, stall0, setup, busrst, outrun>>
  BY DEF HostData, Ends, DataOf
<1>b. UNCHANGED <<hwaddr, enabled, stalled, devaddr, config, mask, halt, stallMask>>
  BY <1>a DEF hw, device
<1>c. Shape /\ Armed /\ Transfer
  BY DEF Core
<1>1. phase = "out" => /\ ~req.in /\ req.len > 0 /\ req \in Requests
                       /\ req.kind \notin {"set_configuration", "set_interface", "set_address"}
  BY <1>c, RequestFields DEF Transfer, WellFormed
<1>2. /\ ~Served
      /\ ~Configuring' /\ ~Disabling' /\ ~Addressing'
      /\ phase' # "idle" => phase = "out" /\ req' = req
  BY <1>a, <1>1 DEF Served, Configuring, Disabling, Addressing
<1>3. DeviceTypes' /\ RingEmpty' /\ Enumeration'
  BY <1>a, <1>b, <1>1, <1>2 DEF DeviceInv, DeviceTypes, RingEmpty, Enumeration
<1>4. Configuration'
  BY <1>a, <1>b, <1>1, <1>2 DEF DeviceInv, Configuration, Configured, HaltShown, Configuring, Disabling
<1>5. StatusOffered'
  BY <1>1, <1>2 DEF StatusOffered, Served
<1>6. Addressed'
  BY <1>a, <1>b, <1>1, <1>2 DEF DeviceInv, Addressed, Stale, Addressing
<1> QED
  BY <1>3, <1>4, <1>5, <1>6 DEF DeviceInv

\* The host takes the status packet: it knows now what the device has done.
LEMMA HostStatusDevice == Core /\ DeviceInv /\ HostStatus => DeviceInv'
<1> SUFFICES ASSUME Core, DeviceInv, HostStatus PROVE DeviceInv'
  OBVIOUS
<1>a. /\ phase = "statusIn" /\ ~stall0 /\ tx # None /\ phase' = "idle"
      /\ haddr' = IF req.kind = "set_address" THEN req.arg ELSE haddr
      /\ hcfg' = IF req.kind = "set_configuration" THEN req.arg ELSE hcfg
      /\ UNCHANGED <<hw, device, ring, setup, busrst, outrun>>
  BY DEF HostStatus, Offered, Ends
<1>b. UNCHANGED <<hwaddr, enabled, stalled, devaddr, config, mask, halt, stallMask>>
  BY <1>a DEF hw, device
<1>1. ~Pending /\ ~busrst /\ ~outrun /\ setup = req /\ req \in Requests /\ ~req.in
  BY <1>a DEF Core, Transfer, Clean, Empty
<1>2. /\ Served /\ ~Served' /\ ~Disabling
      /\ Configuring <=> req.kind = "set_configuration"
      /\ Addressing <=> req.kind = "set_address"
  BY <1>a, <1>1 DEF Served, Configuring, Disabling, Addressing
<1>3. req.kind = "set_address" => req.arg \in Address /\ req.arg # 0
  BY <1>1, RequestFields, UsbControlAssumption DEF WellFormed
<1>4. req.kind = "set_configuration" => req.arg \in {0, 1} /\ Configured(req.arg) /\ HaltShown
  BY <1>2 DEF DeviceInv, Configuration
<1>5. DeviceTypes' /\ RingEmpty'
  BY <1>a, <1>b, <1>3, <1>4 DEF DeviceInv, DeviceTypes, RingEmpty
<1>6. Enumeration'
  BY <1>a, <1>1, <1>3 DEF DeviceInv, Enumeration
<1>7. Configuration'
  BY <1>a, <1>b, <1>2, <1>4 DEF DeviceInv, Configuration, Configured, HaltShown, Configuring, Disabling
<1>8. StatusOffered'
  BY <1>2 DEF StatusOffered, Addressing
<1>9. Addressed'
  BY <1>a, <1>b, <1>1, <1>2 DEF DeviceInv, Addressed, Stale, Addressing
<1> QED
  BY <1>5, <1>6, <1>7, <1>8, <1>9 DEF DeviceInv

\* The host gets a STALL.
LEMMA HostStalledDevice == Core /\ DeviceInv /\ HostStalled => DeviceInv'
<1> SUFFICES ASSUME Core, DeviceInv, HostStalled PROVE DeviceInv'
  OBVIOUS
<1>a. /\ phase \in {"in", "statusIn"} /\ stall0 /\ phase' = "idle"
      /\ hcfg' = IF req.kind = "set_interface" THEN -1 ELSE hcfg
      /\ UNCHANGED <<haddr, ep0, hw, device, ring, setup, busrst, outrun>>
  BY DEF HostStalled, Ends
<1>b. UNCHANGED <<hwaddr, enabled, stalled, devaddr, config, mask, halt, stallMask, xfrc>>
  BY <1>a DEF hw, device, ep0
<1>1. ~Pending /\ ~busrst /\ ~outrun /\ setup = req /\ req \in Requests
  BY <1>a DEF Core, Transfer, Clean, OneWriter
<1>2. /\ ~Served' /\ ~Configuring /\ ~Addressing
      /\ Disabling => req.kind = "set_interface"
  BY <1>a, <1>1 DEF DeviceInv, StatusOffered, Served, Configuring, Disabling, Addressing
<1>3. DeviceTypes' /\ RingEmpty' /\ Enumeration'
  BY <1>a, <1>b DEF DeviceInv, DeviceTypes, RingEmpty, Enumeration
<1>4. Configuration'
  BY <1>a, <1>b, <1>2 DEF DeviceInv, Configuration, Configured, HaltShown, Configuring, Disabling
<1>5. StatusOffered'
  BY <1>2 DEF StatusOffered, Addressing
<1>6. Addressed'
  BY <1>a, <1>b, <1>1, <1>2 DEF DeviceInv, Addressed, Stale, Addressing
<1> QED
  BY <1>3, <1>4, <1>5, <1>6 DEF DeviceInv

\* The host gives up: the status of a request that changed the device would
\* have been on offer.
LEMMA HostTimeoutDevice == Core /\ DeviceInv /\ HostTimeout => DeviceInv'
<1> SUFFICES ASSUME Core, DeviceInv, HostTimeout PROVE DeviceInv'
  OBVIOUS
<1>a. /\ phase \in {"in", "statusIn"} /\ phase' = "idle"
      /\ rx = << >> /\ ~stall0 /\ (tx = None \/ nak)
      /\ UNCHANGED <<haddr, hcfg, ep0, hw, device, ring, setup, busrst, outrun>>
  BY DEF HostTimeout, Quiet, Offered, Ends
<1>b. UNCHANGED <<hwaddr, enabled, stalled, devaddr, config, mask, halt, stallMask, xfrc>>
  BY <1>a DEF hw, device, ep0
<1>1. ~Pending
  BY <1>a DEF Pending
<1>2. ~Served' /\ ~Configuring /\ ~Disabling /\ ~Addressing
  BY <1>a, <1>1 DEF DeviceInv, StatusOffered, Served, Configuring, Disabling, Addressing
<1>3. DeviceTypes' /\ RingEmpty' /\ Enumeration'
  BY <1>a, <1>b DEF DeviceInv, DeviceTypes, RingEmpty, Enumeration
<1>4. Configuration'
  BY <1>a, <1>b, <1>2 DEF DeviceInv, Configuration, Configured, HaltShown, Configuring, Disabling
<1>5. StatusOffered'
  BY <1>2 DEF StatusOffered, Addressing
<1>6. Addressed'
  BY <1>a, <1>b, <1>2 DEF DeviceInv, Addressed, Stale, Addressing
<1> QED
  BY <1>3, <1>4, <1>5, <1>6 DEF DeviceInv

\* The host resets the bus and knows nothing of the device any more.
LEMMA BusResetDevice == Core /\ DeviceInv /\ BusReset => DeviceInv'
<1> SUFFICES ASSUME Core, DeviceInv, BusReset PROVE DeviceInv'
  OBVIOUS
<1>a. /\ busrst' = TRUE /\ phase' = "idle" /\ haddr' = 0 /\ hcfg' = -1
      /\ UNCHANGED <<hw, device, ring>>
  BY DEF BusReset, Ends
<1>b. UNCHANGED <<hwaddr, enabled, stalled, devaddr, config, mask, halt, stallMask>>
  BY <1>a DEF hw, device
<1>1. ~Served'
  BY <1>a DEF Served
<1>2. DeviceTypes' /\ RingEmpty' /\ Enumeration'
  BY <1>a, <1>b DEF DeviceInv, DeviceTypes, RingEmpty, Enumeration
<1>3. Configuration' /\ StatusOffered' /\ Addressed'
  BY <1>a, <1>b, <1>1
     DEF DeviceInv, Configuration, Configuring, Disabling, StatusOffered, Addressing, Addressed
<1> QED
  BY <1>2, <1>3 DEF DeviceInv

\* The host sends a request.
LEMMA HostSetupDevice ==
  ASSUME NEW r \in Requests
  PROVE  Core /\ DeviceInv /\ HostSetup(r) => DeviceInv'
<1> SUFFICES ASSUME Core, DeviceInv, HostSetup(r) PROVE DeviceInv'
  OBVIOUS
<1>a. /\ phase = "idle" /\ Legal(r) /\ ~busrst /\ ~outrun /\ (haddr = 0 => ~xfrc)
      /\ rx' = Append(rx, SetupOf(r)) /\ req' = r /\ phase' \in {"in", "out", "statusIn"}
      /\ UNCHANGED <<haddr, hcfg, xfrc, hw, device, ring, setup, busrst, outrun>>
  BY DEF HostSetup, SetupOf
<1>b. UNCHANGED <<hwaddr, enabled, stalled, devaddr, config, mask, halt, stallMask>>
  BY <1>a DEF hw, device
<1>1. ~Pending
  BY <1>a DEF Core, Transfer, HostSetup
<1>2. Pending'
  BY <1>a, <1>1, SetupComes DEF Core
<1>3. ~Served /\ ~Served'
  BY <1>a, <1>2 DEF Served
<1>4. WellFormed(r)
  BY RequestFields
<1>5. DeviceTypes' /\ RingEmpty'
  BY <1>a, <1>b DEF DeviceInv, DeviceTypes, RingEmpty
<1>6. Enumeration'
  BY <1>a DEF DeviceInv, Enumeration, Legal
<1>7. Configuration'
  BY <1>a, <1>b, <1>3
     DEF DeviceInv, Configuration, Configured, HaltShown, Configuring, Disabling, Legal
<1>8. StatusOffered'
  BY <1>3 DEF StatusOffered, Addressing
<1>9. Addressed'
  <2>1. haddr = 0 => r.in \/ r.kind = "set_address"
    BY <1>a, <1>4 DEF DeviceInv, Enumeration, Legal, WellFormed
  <2> QED
    BY <1>a, <1>b, <1>2, <1>3, <2>1 DEF DeviceInv, Addressed, Stale, Addressing
<1> QED
  BY <1>5, <1>6, <1>7, <1>8, <1>9 DEF DeviceInv

\* The IN event sets the address once more, or not at all.
LEMMA InEventDevice == Core /\ DeviceInv /\ InEvent => DeviceInv'
<1> SUFFICES ASSUME Core, DeviceInv, InEvent PROVE DeviceInv'
  OBVIOUS
<1>a. /\ IF setup.in
           THEN DataIn(ptr.obj, ptr.at, count) /\ UNCHANGED <<hwaddr, devaddr>>
           ELSE /\ hwaddr' = IF devaddr.flag THEN devaddr.addr ELSE hwaddr
                /\ devaddr' = [devaddr EXCEPT !.flag = FALSE]
                /\ UNCHANGED <<tx, nak>>
      /\ UNCHANGED <<phase, req, haddr, hcfg, rx, xfrc, stall0, busrst, enabled, stalled, setup,
                     config, mask, halt, stallMask, ring, outrun>>
  BY DEF InEvent, host
<1>x. xfrc
  BY DEF Core, InEvent
<1>1. tx # None /\ ~nak => tx' # None /\ ~nak'
  <2>1. CASE setup.in
    BY <1>a, <2>1, DataInSteps DEF Core, Stages
  <2> QED
    BY <1>a, <2>1
<1>2. /\ Served' <=> Served
      /\ Configuring' <=> Configuring
      /\ Disabling' <=> Disabling
      /\ Addressing' <=> Addressing
      /\ Pending' <=> Pending
  BY <1>a DEF Served, Configuring, Disabling, Addressing, Pending
<1>3. /\ hwaddr' \in {hwaddr, devaddr.addr}
      /\ devaddr' \in [addr : Address \cup {0}, flag : BOOLEAN]
      /\ devaddr'.addr = devaddr.addr /\ (devaddr'.flag => devaddr.flag)
  <2>1. devaddr \in [addr : Address \cup {0}, flag : BOOLEAN]
    BY DEF DeviceInv, DeviceTypes
  <2> QED
    BY <1>a, <2>1
<1>4. DeviceTypes' /\ RingEmpty' /\ Enumeration'
  BY <1>a, <1>3 DEF DeviceInv, DeviceTypes, RingEmpty, Enumeration
<1>5. Configuration'
  BY <1>a, <1>2 DEF DeviceInv, Configuration, Configured, HaltShown
<1>6. StatusOffered'
  BY <1>a, <1>1, <1>2 DEF DeviceInv, StatusOffered
<1>7. Addressed'
  <2> SUFFICES ASSUME ~busrst, ~outrun
               PROVE  hwaddr' = hwaddr /\ (Stale' => Stale)
    BY <1>a, <1>2 DEF DeviceInv, Addressed
  <2>1. Stale => setup.in
    BY <1>x DEF DeviceInv, Addressed
  <2>2. CASE setup.in
    BY <1>a, <2>2 DEF Stale
  <2>3. CASE ~setup.in
    <3>1. hwaddr' = hwaddr
      BY <1>a, <2>1, <2>3 DEF Stale
    <3>2. Stale' => Stale
      BY <1>a, <1>3, <2>3, <3>1 DEF Stale
    <3> QED
      BY <3>1, <3>2
  <2> QED
    BY <2>2, <2>3
<1> QED
  BY <1>4, <1>5, <1>6, <1>7 DEF DeviceInv

\* A slot is filled, and emptied again.
LEMMA RingSteps ==
  /\ \A q \in [ri : SlotNumbers, wi : SlotNumbers, le : {0}] :
       Push(q) \in [ri : SlotNumbers, wi : SlotNumbers, le : {1}] /\ Pop(q) = q
  /\ \A q \in [ri : SlotNumbers, wi : SlotNumbers, le : {1}] :
       Pop(q) \in [ri : SlotNumbers, wi : SlotNumbers, le : {0}]
<1>1. \A i \in SlotNumbers : (i + 1) % Slots \in SlotNumbers
  BY UsbControlAssumption DEF SlotNumbers
<1>2. ASSUME NEW q \in [ri : SlotNumbers, wi : SlotNumbers, le : {0}]
      PROVE  Push(q) \in [ri : SlotNumbers, wi : SlotNumbers, le : {1}] /\ Pop(q) = q
  <2> DEFINE next == (q.wi + 1) % Slots
  <2>1. next \in SlotNumbers /\ q.le + 1 = 1 /\ q.le = 0
    BY <1>1
  <2>2. Push(q) = [q EXCEPT !.wi = next, !.le = 1]
    BY <2>1 DEF Push
  <2> HIDE DEF next
  <2> QED
    BY <2>1, <2>2 DEF Pop
<1>3. ASSUME NEW q \in [ri : SlotNumbers, wi : SlotNumbers, le : {1}]
      PROVE  Pop(q) \in [ri : SlotNumbers, wi : SlotNumbers, le : {0}]
  <2> DEFINE next == (q.ri + 1) % Slots
  <2>1. next \in SlotNumbers /\ q.le - 1 = 0 /\ q.le # 0
    BY <1>1
  <2>2. Pop(q) = [q EXCEPT !.ri = next, !.le = 0]
    BY <2>1 DEF Pop
  <2> HIDE DEF next
  <2> QED
    BY <2>1, <2>2
<1> QED
  BY <1>2, <1>3

\* A packet of data goes through the ring; the requests that change the
\* configuration or the address have none.
LEMMA RxDataDevice == Core /\ DeviceInv /\ RxData => DeviceInv'
<1> SUFFICES ASSUME Core, DeviceInv, RxData PROVE DeviceInv'
  OBVIOUS
<1>a. /\ DataFirst /\ rx' = Tail(rx)
      /\ setup.in \/ ~ (count > 0) => UNCHANGED <<tx, nak, stall0>>
      /\ UNCHANGED <<phase, req, haddr, hcfg, xfrc, busrst, hwaddr, enabled, stalled, setup,
                     devaddr, config, mask, halt, stallMask, outrun>>
  BY DEF RxData, DataFirst, host, hw, device
<1>1. Pending' <=> Pending
  BY <1>a, DataTaken DEF Core
<1>2. ASSUME Served, req.kind \in {"set_configuration", "set_interface", "set_address"}
      PROVE  UNCHANGED <<tx, nak, stall0>>
  <2>1. setup = req /\ req \in Requests /\ ~req.in
    BY <1>2 DEF Core, Transfer, Served
  <2>2. req.len = 0
    BY <1>2, <2>1, RequestFields DEF WellFormed
  <2>3. count = 0
    BY <2>1, <2>2 DEF Core, DataOut
  <2> QED
    BY <1>a, <2>3
<1>3. /\ Served' <=> Served
      /\ Configuring' <=> Configuring
      /\ Disabling' <=> Disabling
      /\ Addressing' <=> Addressing
  BY <1>a, <1>1, <1>2 DEF Served, Configuring, Disabling, Addressing
<1>4. RingEmpty'
  <2>1. ring \in [ri : SlotNumbers, wi : SlotNumbers, le : {0}]
    BY DEF DeviceInv, RingEmpty
  <2>2. PICK took, n :
          LET q  == IF n > 0 THEN Push(ring) ELSE ring
              q2 == IF took \/ setup.in THEN Pop(q) ELSE q
          IN  ring' = IF q2.le > 0 THEN Pop(q2) ELSE q2
    BY DEF RxData
  <2>3. Pop(ring) = ring /\ ring.le = 0
    BY <2>1, RingSteps
  <2>4. /\ Push(ring).le = 1
        /\ Pop(Push(ring)) \in [ri : SlotNumbers, wi : SlotNumbers, le : {0}]
    BY <2>1, RingSteps
  <2>5. Pop(Push(ring)).le = 0
    BY <2>4
  <2>6. ring' = ring \/ ring' = Pop(Push(ring))
    BY <2>2, <2>3, <2>4, <2>5
  <2> QED
    BY <2>1, <2>4, <2>6 DEF RingEmpty
<1>5. DeviceTypes' /\ Enumeration'
  BY <1>a DEF DeviceInv, DeviceTypes, Enumeration
<1>6. Configuration'
  BY <1>a, <1>3 DEF DeviceInv, Configuration, Configured, HaltShown
<1>7. StatusOffered'
  BY <1>a, <1>2, <1>3 DEF DeviceInv, StatusOffered, Addressing
<1>8. Addressed'
  BY <1>a, <1>1, <1>3 DEF DeviceInv, Addressed, Stale
<1> QED
  BY <1>4, <1>5, <1>6, <1>7, <1>8 DEF DeviceInv

\* The reset of the bus disables endpoints of a device that is not configured.
LEMMA IrqLeaveDevice == Core /\ DeviceInv /\ IrqLeave => DeviceInv'
<1> SUFFICES ASSUME Core, DeviceInv, IrqLeave PROVE DeviceInv'
  OBVIOUS
<1>a. /\ busrst' = FALSE
      /\ UNCHANGED <<phase, req, haddr, hcfg, rx, xfrc, setup, device, ring>>
  BY DEF IrqLeave, host
<1>1. CASE ~busrst
  <2>1. UNCHANGED <<hw, tx, nak, stall0, outrun, busrst>>
    BY <1>1 DEF IrqLeave, Core, Flags
  <2> QED
    BY <1>a, <2>1, DeviceQuiet
<1>2. CASE busrst
  <2>1. /\ \E S : enabled' = enabled \ S /\ stalled' = stalled \ S
        /\ hwaddr' = 0 /\ outrun' = (xfrc \/ rx # << >>)
    BY <1>2 DEF IrqLeave, Reset
  <2>2. UNCHANGED <<devaddr, config, mask, halt, stallMask>>
    BY <1>a DEF device
  <2>3. phase = "idle" /\ haddr = 0 /\ hcfg = -1
    BY <1>2 DEF Core, Transfer, DeviceInv, Enumeration
  <2>4. ~Served'
    BY <1>a, <2>3 DEF Served
  <2>5. DeviceTypes' /\ RingEmpty' /\ Enumeration'
    BY <1>a, <2>1, <2>2, <2>3 DEF DeviceInv, DeviceTypes, RingEmpty, Enumeration
  <2>6. Configuration'
    BY <1>a, <2>1, <2>2, <2>3, <2>4 DEF DeviceInv, Configuration, Configuring, Disabling
  <2>7. StatusOffered'
    BY <2>4 DEF StatusOffered, Addressing
  <2>8. Addressed'
    BY <1>a, <2>1, <2>3, <2>4 DEF Addressed, Addressing
  <2> QED
    BY <2>5, <2>6, <2>7, <2>8 DEF DeviceInv
<1> QED
  BY <1>1, <1>2

\* What a request does to the device, by its kind.
LEMMA RequestSteps ==
  ASSUME NEW r \in Requests, Ep0EventSetup(r), DeviceTypes
  PROVE  /\ r.kind = "set_address" =>
              /\ hwaddr' = r.arg /\ devaddr' = [addr |-> r.arg, flag |-> TRUE]
              /\ UNCHANGED <<config, enabled, stalled, mask, halt, stallMask, stall0>> /\ StatusIn
         /\ r.kind # "set_address" => UNCHANGED <<hwaddr, devaddr>>
         /\ r.kind = "set_configuration" =>
              \/ Refused /\ UNCHANGED <<config, enabled, stalled, mask, halt, stallMask>>
              \/ /\ r.arg = 0 /\ config' = 0 /\ mask' = Ep0 /\ enabled' = enabled \ mask
                 /\ stalled' = stalled /\ halt' = {} /\ stallMask' = {}
                 /\ StatusIn /\ UNCHANGED stall0
              \/ /\ r.arg = 1 /\ config' = 1 /\ mask' = Ep0 \cup Endpoints
                 /\ enabled' = enabled \cup Endpoints
                 /\ stalled' = stalled \ Endpoints /\ halt' = {} /\ stallMask' = {}
                 /\ StatusIn /\ UNCHANGED stall0
         /\ r.kind = "set_interface" =>
              /\ UNCHANGED <<config, stallMask>>
              /\ \/ Refused /\ UNCHANGED <<enabled, stalled, mask, halt>>
                 \/ \E S \in SUBSET Endpoints :
                      /\ halt' = halt \ S
                      /\ \/ /\ enabled' = enabled \cup S /\ mask' = mask \cup S
                            /\ stalled' = stalled \ S
                            /\ (StatusIn /\ UNCHANGED stall0) \/ (S = {} /\ Refused)
                         \/ /\ enabled' = enabled \ S /\ mask' = mask \ S
                            /\ UNCHANGED stalled /\ Refused
         /\ r.kind \notin {"set_configuration", "set_interface"} =>
              /\ UNCHANGED <<config, enabled, mask>>
              /\ stallMask' \in {stallMask, {}}
              /\ \/ UNCHANGED <<stalled, halt>>
                 \/ \E n \in Endpoints : /\ stalled' = stalled \cup {n}
                                         /\ halt' = halt \cup {n}
                 \/ \E n \in Endpoints : /\ stalled' = stalled \ {n}
                                         /\ halt' = halt \ {n}
<1>1. /\ r \in RequestType /\ r.arg \in Nat
  BY RequestFields
<1>2. ASSUME Refuse PROVE Refused
  BY <1>2 DEF Refuse, Refused
<1>3. ASSUME Acknowledge(r) PROVE StatusIn /\ UNCHANGED stall0
  BY <1>3 DEF Acknowledge
<1>4. ASSUME Known(r.arg) PROVE r.arg \in Endpoints
  BY <1>4 DEF Known, DeviceTypes
<1>5. CASE r.kind = "set_address"
  BY <1>3, <1>5 DEF Ep0EventSetup, SetAddress
<1>6. CASE r.kind = "set_configuration"
  <2>1. SetConfiguration(r)
    BY <1>6 DEF Ep0EventSetup
  <2>2. CASE r.arg = 0
    BY <1>3, <1>6, <2>1, <2>2 DEF SetConfiguration, Deconfigure
  <2>3. CASE r.arg = 1
    BY <1>3, <1>6, <2>1, <2>3 DEF SetConfiguration, Enable
  <2>4. CASE r.arg # 0 /\ r.arg # 1
    BY <1>2, <1>6, <2>1, <2>4 DEF SetConfiguration, DeviceUnchanged, hw, device
  <2> QED
    BY <2>2, <2>3, <2>4
<1>7. CASE r.kind = "set_interface"
  <2>1. SetInterface(r)
    BY <1>7 DEF Ep0EventSetup
  <2>2. CASE config = 0
    BY <1>2, <1>7, <2>1, <2>2 DEF SetInterface, DeviceUnchanged, hw, device
  <2>3. CASE config # 0
    <3> DEFINE S == EpsOfIface(r.arg)
    <3>1. S \in SUBSET Endpoints
      BY <1>1, EndpointSets
    <3>2. /\ halt' = halt \ S
          /\ IF r.alt = 0
               THEN Enable(S) /\ mask' = mask \cup S
               ELSE enabled' = enabled \ S /\ mask' = mask \ S /\ UNCHANGED <<stalled, txfifo>>
          /\ IF S # {} /\ r.alt = 0 THEN Acknowledge(r) ELSE Refuse
          /\ UNCHANGED <<hwaddr, devaddr, config, stallMask>>
      BY <2>1, <2>3 DEF SetInterface
    <3> HIDE DEF S
    <3>3. CASE r.alt = 0
      BY <1>2, <1>3, <1>7, <3>1, <3>2, <3>3 DEF Enable
    <3>4. CASE r.alt # 0
      BY <1>2, <1>7, <3>1, <3>2, <3>4
    <3> QED
      BY <3>3, <3>4
  <2> QED
    BY <2>2, <2>3
<1>8. CASE r.kind = "set_halt"
  BY <1>4, <1>8 DEF Ep0EventSetup, SetHalt
<1>9. CASE r.kind = "clear_halt"
  BY <1>4, <1>9 DEF Ep0EventSetup, ClearHalt
<1>10. CASE r.kind = "msc_reset"
  BY <1>10 DEF Ep0EventSetup, MscReset, DeviceUnchanged, hw, device
<1>11. CASE r.kind \notin {"set_address", "set_configuration", "set_interface", "set_halt",
                          "clear_halt", "msc_reset"}
  <2>1. DeviceUnchanged
    BY <1>1, <1>11 DEF RequestType, Ep0EventSetup, GetStatus, GetDescriptor, GetConfiguration,
                       GetInterface, GetMaxLun, CtrlSetup
  <2> QED
    BY <1>11, <2>1 DEF DeviceUnchanged, hw, device
<1> QED
  BY <1>5, <1>6, <1>7, <1>8, <1>9, <1>10, <1>11

\* A request is served: the device follows the host.
LEMMA RxSetupDevice == Core /\ DeviceInv /\ RxSetup => DeviceInv'
<1> SUFFICES ASSUME Core, DeviceInv, RxSetup PROVE DeviceInv'
  OBVIOUS
<1> DEFINE r == Asked
<1>a. /\ SetupFirst /\ rx' = Tail(rx) /\ setup' = Head(rx).req /\ Ep0EventSetup(Head(rx).req)
      /\ UNCHANGED <<phase, req, haddr, hcfg, xfrc, busrst, ring, outrun>>
  BY DEF RxSetup, SetupFirst, host
<1>1. Pending /\ ~Pending' /\ r \in Requests /\ setup' = r /\ Ep0EventSetup(r)
  BY <1>a, SetupTaken DEF Core
<1>2. ~busrst /\ ~outrun => ~dirty /\ ~stall0 /\ req = r /\ phase \in {"in", "out", "statusIn"}
  BY <1>1 DEF Core, Transfer, Clean, OneWriter
<1>3. WellFormed(r)
  BY <1>1, RequestFields
<1> HIDE DEF r
<1>4. DeviceTypes
  BY DEF DeviceInv
<1>s. /\ r.kind = "set_address" =>
           /\ hwaddr' = r.arg /\ devaddr' = [addr |-> r.arg, flag |-> TRUE]
           /\ UNCHANGED <<config, enabled, stalled, mask, halt, stallMask, stall0>> /\ StatusIn
      /\ r.kind # "set_address" => UNCHANGED <<hwaddr, devaddr>>
  BY <1>1, <1>4, RequestSteps
<1>c. r.kind = "set_configuration" =>
        \/ Refused /\ UNCHANGED <<config, enabled, stalled, mask, halt, stallMask>>
        \/ /\ r.arg = 0 /\ config' = 0 /\ mask' = Ep0 /\ enabled' = enabled \ mask
           /\ stalled' = stalled /\ halt' = {} /\ stallMask' = {}
           /\ StatusIn /\ UNCHANGED stall0
        \/ /\ r.arg = 1 /\ config' = 1 /\ mask' = Ep0 \cup Endpoints
           /\ enabled' = enabled \cup Endpoints
           /\ stalled' = stalled \ Endpoints /\ halt' = {} /\ stallMask' = {}
           /\ StatusIn /\ UNCHANGED stall0
  BY <1>1, <1>4, RequestSteps
<1>i. r.kind = "set_interface" =>
        /\ UNCHANGED <<config, stallMask>>
        /\ \/ Refused /\ UNCHANGED <<enabled, stalled, mask, halt>>
           \/ \E S \in SUBSET Endpoints :
                /\ halt' = halt \ S
                /\ \/ /\ enabled' = enabled \cup S /\ mask' = mask \cup S
                      /\ stalled' = stalled \ S
                      /\ (StatusIn /\ UNCHANGED stall0) \/ (S = {} /\ Refused)
                   \/ /\ enabled' = enabled \ S /\ mask' = mask \ S
                      /\ UNCHANGED stalled /\ Refused
  BY <1>1, <1>4, RequestSteps
<1>o. r.kind \notin {"set_configuration", "set_interface"} =>
        /\ UNCHANGED <<config, enabled, mask>>
        /\ stallMask' \in {stallMask, {}}
        /\ \/ UNCHANGED <<stalled, halt>>
           \/ \E n \in Endpoints : /\ stalled' = stalled \cup {n}
                                   /\ halt' = halt \cup {n}
           \/ \E n \in Endpoints : /\ stalled' = stalled \ {n}
                                   /\ halt' = halt \ {n}
  BY <1>1, <1>4, RequestSteps
<1>5. DeviceTypes'
  <2>1. ASSUME r.kind = "set_address"
        PROVE  hwaddr' \in Address \cup {0} /\ devaddr' \in [addr : Address \cup {0}, flag : BOOLEAN]
    <3>1. r.arg \in Address
      BY <1>3, <2>1 DEF WellFormed
    <3>2. hwaddr' = r.arg /\ devaddr' = [addr |-> r.arg, flag |-> TRUE]
      BY <1>s, <2>1
    <3>3. [addr |-> r.arg, flag |-> TRUE] \in [addr : Address \cup {0}, flag : BOOLEAN]
      BY <3>1
    <3> QED
      BY <3>1, <3>2, <3>3
  <2>2. ASSUME r.kind # "set_address"
        PROVE  hwaddr' \in Address \cup {0} /\ devaddr' \in [addr : Address \cup {0}, flag : BOOLEAN]
    BY <1>s, <1>4, <2>2 DEF DeviceTypes
  <2>3. /\ config' \in {0, 1} /\ enabled' \subseteq Endpoints /\ stalled' \subseteq Endpoints
        /\ mask' \subseteq Endpoints \cup Ep0
        /\ halt' \subseteq Endpoints \cup {StallBit, 128 + StallBit}
        /\ stallMask' \subseteq {StallBit, 128 + StallBit}
    <3>1. CASE r.kind = "set_configuration"
      BY <1>c, <1>4, <3>1 DEF DeviceTypes
    <3>2. CASE r.kind = "set_interface"
      BY <1>i, <1>4, <3>2 DEF DeviceTypes
    <3>3. CASE r.kind \notin {"set_configuration", "set_interface"}
      BY <1>o, <1>4, <3>3 DEF DeviceTypes
    <3> QED
      BY <3>1, <3>2, <3>3
  <2>4. haddr' \in Address \cup {0} /\ hcfg' \in {-1, 0, 1}
    BY <1>a, <1>4 DEF DeviceTypes
  <2>5. hwaddr' \in Address \cup {0} /\ devaddr' \in [addr : Address \cup {0}, flag : BOOLEAN]
    BY <2>1, <2>2
  <2> QED
    BY <2>3, <2>4, <2>5 DEF DeviceTypes
<1>6. RingEmpty' /\ Enumeration'
  BY <1>a DEF DeviceInv, RingEmpty, Enumeration
<1>7. enabled' \subseteq mask'
  <2>1. enabled \subseteq mask /\ enabled \subseteq Endpoints
    BY <1>4 DEF DeviceInv, Configuration, DeviceTypes
  <2>2. CASE r.kind = "set_configuration"
    BY <1>c, <2>1, <2>2
  <2>3. CASE r.kind = "set_interface"
    BY <1>i, <2>1, <2>3
  <2>4. CASE r.kind \notin {"set_configuration", "set_interface"}
    BY <1>o, <2>1, <2>4
  <2> QED
    BY <2>2, <2>3, <2>4
<1>8. ASSUME ~busrst, ~outrun
      PROVE  Configuration' /\ StatusOffered' /\ Addressed'
  <2>1. /\ ~dirty /\ ~stall0 /\ req = r /\ phase \in {"in", "out", "statusIn"}
        /\ UNCHANGED <<phase, req, haddr, hcfg, xfrc>>
    BY <1>a, <1>2, <1>8
  <2>2. /\ ~Served /\ (Served' <=> phase = "statusIn")
        /\ r.in <=> phase = "in"
    BY <1>1, <2>1 DEF Served, Core, Transfer
  <2>3. /\ r.kind \in {"set_address", "set_configuration", "set_interface"} => phase = "statusIn"
    BY <1>3, <2>1, <2>2, <1>1, RequestFields DEF Core, Transfer, WellFormed
  <2>4. /\ hcfg # -1 => Configured(hcfg)
        /\ hcfg = 1 => HaltShown
        /\ r.kind = "set_interface" => hcfg = 1
        /\ enabled \subseteq mask
    BY <2>1, <2>2 DEF DeviceInv, Configuration, Configuring, Disabling
  <2>5. ASSUME StatusIn PROVE tx' # None /\ ~nak'
    BY <2>5, StatusInSteps DEF Core
  <2>6. ASSUME Refused PROVE stall0'
    BY <2>6 DEF Refused
  <2>7. Configuration'
    <3>1. CASE r.kind = "set_configuration"
      <4>1. ~Disabling' /\ (Configuring' <=> ~stall0')
        BY <2>1, <2>2, <2>3, <3>1 DEF Configuring, Disabling
      <4>2. CASE Refused /\ UNCHANGED <<config, enabled, stalled, mask, halt, stallMask>>
        BY <2>1, <2>4, <2>6, <4>1, <4>2, <3>1, <1>7 DEF Configuration, Configured, HaltShown
      <4>3. CASE /\ r.arg = 0 /\ config' = 0 /\ mask' = Ep0 /\ enabled' = enabled \ mask
                 /\ halt' = {} /\ UNCHANGED stall0
        BY <2>1, <2>4, <4>1, <4>3, <3>1, <1>7 DEF Configuration, Configured, HaltShown
      <4>4. CASE /\ r.arg = 1 /\ config' = 1 /\ mask' = Ep0 \cup Endpoints
                 /\ enabled' = enabled \cup Endpoints
                 /\ halt' = {} /\ UNCHANGED stall0
        <5>1. enabled' = Endpoints
          BY <1>4, <4>4 DEF DeviceTypes
        <5> QED
          BY <2>1, <4>1, <4>4, <5>1, <3>1, <1>7 DEF Configuration, Configured, HaltShown
      <4> QED
        BY <1>c, <3>1, <4>2, <4>3, <4>4
    <3>2. CASE r.kind = "set_interface"
      <4>1. ~Configuring' /\ (Disabling' <=> stall0')
        BY <2>1, <2>2, <2>3, <3>2 DEF Configuring, Disabling
      <4>2. HaltShown'
        BY <1>i, <2>4, <3>2 DEF HaltShown
      <4>3. Configured(1)
        BY <2>4, <3>2
      <4>4. ~stall0' => Configured(1)'
        BY <1>i, <2>6, <3>2, <4>3 DEF Configured
      <4> QED
        BY <1>7, <2>1, <2>4, <3>2, <4>1, <4>2, <4>4 DEF Configuration, Configured
    <3>3. CASE r.kind \notin {"set_configuration", "set_interface"}
      <4>1. ~Configuring' /\ ~Disabling'
        BY <2>1, <3>3 DEF Configuring, Disabling
      <4>2. HaltShown => HaltShown'
        BY <1>o, <3>3 DEF HaltShown
      <4> QED
        BY <1>o, <1>7, <2>1, <2>4, <3>3, <4>1, <4>2 DEF Configuration, Configured
    <3> QED
      BY <3>1, <3>2, <3>3
  <2>8. StatusOffered'
    <3>1. ASSUME r.kind \in {"set_configuration", "set_interface", "set_address"}
          PROVE  Refused \/ StatusIn
      BY <1>s, <1>c, <1>i, <3>1
    <3>2. r.kind = "set_address" => ~stall0'
      BY <1>s, <2>1
    <3> QED
      BY <2>1, <2>5, <2>6, <3>1, <3>2 DEF StatusOffered, Addressing
  <2>9. Addressed'
    <3>1. CASE r.kind = "set_address"
      <4>1. Addressing' /\ hwaddr' = req'.arg /\ ~Stale'
        BY <1>s, <2>1, <2>2, <2>3, <3>1 DEF Addressing, Stale
      <4> QED
        BY <4>1 DEF Addressed
    <3>2. CASE r.kind # "set_address"
      <4>1. ~Addressing' /\ ~Addressing /\ UNCHANGED <<hwaddr, devaddr>>
        BY <1>s, <2>1, <3>2 DEF Addressing
      <4>2. Stale' => Stale /\ req.in
        BY <1>8, <2>1, <3>2, <4>1 DEF DeviceInv, Addressed, Stale
      <4>3. req.in => setup'.in
        BY <1>1, <2>1
      <4> QED
        BY <1>8, <2>1, <4>1, <4>2, <4>3 DEF DeviceInv, Addressed
    <3> QED
      BY <3>1, <3>2
  <2> QED
    BY <2>7, <2>8, <2>9
<1>9. ASSUME busrst \/ outrun
      PROVE  Configuration' /\ StatusOffered' /\ Addressed'
  <2>1. phase = "idle" /\ haddr = 0 /\ hcfg = -1
    BY <1>9 DEF Core, Transfer, DeviceInv, Enumeration
  <2>2. phase' = "idle" /\ hcfg' = -1 /\ busrst' = busrst /\ outrun' = outrun
    BY <1>a, <2>1
  <2>3. ~Served'
    BY <2>2 DEF Served
  <2>4. Configuration'
    BY <1>7, <2>2, <2>3 DEF Configuration, Configuring, Disabling
  <2> QED
    BY <1>9, <2>2, <2>3, <2>4 DEF StatusOffered, Addressing, Addressed
<1> QED
  BY <1>5, <1>6, <1>8, <1>9 DEF DeviceInv

\* A device that has just been switched on is not configured.
LEMMA InitDevice == Init => DeviceInv
<1> SUFFICES ASSUME Init PROVE DeviceInv
  OBVIOUS
<1>1. ~Served /\ ~Addressing /\ ~Configuring /\ ~Disabling
  BY DEF Init, Served, Addressing, Configuring, Disabling
<1>2. DeviceTypes
  BY DEF Init, DeviceTypes
<1>3. RingEmpty
  BY UsbControlAssumption DEF Init, RingEmpty, SlotNumbers
<1>4. Configuration /\ Enumeration /\ StatusOffered
  BY <1>1 DEF Init, Configuration, Enumeration, StatusOffered
<1>5. Addressed
  BY <1>1 DEF Init, Addressed, Stale
<1> QED
  BY <1>2, <1>3, <1>4, <1>5 DEF DeviceInv

\* Every step of host, interrupt and classes keeps device and host together.
LEMMA NextDevice == Core /\ DeviceInv /\ [Next]_vars => DeviceInv'
<1> SUFFICES ASSUME Core, DeviceInv, [Next]_vars PROVE DeviceInv'
  OBVIOUS
<1>1. CASE IrqEnter \/ RxDone \/ InAck
  BY <1>1, DeviceQuiet DEF IrqEnter, RxDone, InAck, host, ep0
<1>2. CASE RxSetup \/ RxData \/ InEvent \/ IrqLeave
  BY <1>2, RxSetupDevice, RxDataDevice, InEventDevice, IrqLeaveDevice
<1>3. CASE Host
  BY <1>3, HostInDevice, HostDataDevice, HostStatusDevice, HostStalledDevice DEF Host
<1>4. CASE HostTimeout \/ BusReset
  BY <1>4, HostTimeoutDevice, BusResetDevice
<1>5. CASE \E r \in Requests : HostSetup(r)
  BY <1>5, HostSetupDevice
<1>6. CASE ClassStalls(EpsOf(Len(Interfaces)))
  BY <1>6, ClassStallsDevice
<1>7. CASE UNCHANGED vars
  BY <1>7, DeviceQuiet DEF vars, host, ep0
<1> QED
  BY <1>1, <1>2, <1>3, <1>4, <1>5, <1>6, <1>7 DEF Next, Irq

\* Host and device in every reachable state.
THEOREM DeviceInvariance == Spec => [](Core /\ DeviceInv)
<1>1. Init => Core /\ DeviceInv
  BY InitCore, InitDevice
<1>2. Core /\ DeviceInv /\ [Next]_vars => Core' /\ DeviceInv'
  BY NextCore, NextDevice
<1> QED
  BY <1>1, <1>2, PTL DEF Spec

\* Every variable keeps its type: the receive FIFO holds at most two packets of
\* EP0 (SetupStage, Ep0OutHandler), and Ep0Buf none between two of them.
THEOREM TypeInvariant == Spec => []TypeOK
<1>1. Core /\ DeviceInv => TypeOK
  <2> SUFFICES ASSUME Core, DeviceInv PROVE TypeOK
    OBVIOUS
  <2>1. Stages /\ Flags /\ DeviceTypes /\ RingEmpty
    BY DEF Core, DeviceInv
  <2>2. Len(rx) <= 2
    <3>1. Len(rx) = 0 \/ Len(rx) = 1 \/ Len(rx) = 2
      BY DEF Core, Shape
    <3>2. \A n \in {0, 1, 2} : n <= 2
      OBVIOUS
    <3>3. Len(rx) \in {0, 1, 2}
      BY <3>1, Zenon
    <3> QED
      BY <3>2, <3>3, Zenon
  <2>3. {outArmed, nak, dirty, xfrc, stall0, busrst, overtaken, outrun} \subseteq BOOLEAN
    BY <2>1 DEF Flags
  <2>4. ring.ri \in 0 .. (Slots - 1) /\ ring.wi \in 0 .. (Slots - 1) /\ ring.le = 0
    BY <2>1, UsbControlAssumption DEF RingEmpty, SlotNumbers
  <2> QED
    BY <2>1, <2>2, <2>3, <2>4 DEF TypeOK, Stages, DeviceTypes
<1> QED
  BY <1>1, DeviceInvariance, PTL

\* The device answers to the address the host uses, whatever comes between
\* SET_ADDRESS, its status packet, the resets of the bus and the IN events.
THEOREM AddressFollows == Spec => []AddressAgrees
<1>1. Core /\ DeviceInv => AddressAgrees
  <2> SUFFICES ASSUME Core, DeviceInv, phase = "idle", ~busrst, ~outrun
               PROVE  hwaddr = haddr
    BY DEF AddressAgrees
  <2> QED
    BY DEF DeviceInv, Addressed, Addressing, Served
<1> QED
  BY <1>1, DeviceInvariance, PTL

\* A device the host has configured has all its endpoints active, and after
\* SET_CONFIGURATION 0 none, whatever came before.
THEOREM ConfigurationFollows == Spec => []ConfigAgrees
<1>1. Core /\ DeviceInv => ConfigAgrees
  <2> SUFFICES ASSUME Core, DeviceInv, phase = "idle", hcfg # -1
               PROVE  Configured(hcfg)
    BY DEF ConfigAgrees, Configured
  <2> QED
    BY DEF DeviceInv, Configuration, Configuring, Disabling, Served
<1> QED
  BY <1>1, DeviceInvariance, PTL

\* What GET_STATUS reports as halted does answer STALL, in whatever order
\* endpoints are halted, released, stalled by the class and enabled again.
THEOREM HaltIsShown == Spec => []HaltTruthful
<1>1. Core /\ DeviceInv => HaltTruthful
  BY DEF DeviceInv, Configuration, HaltShown, HaltTruthful
<1> QED
  BY <1>1, DeviceInvariance, PTL

\* offs, with the sizes of k registers added.
Sum(f, k) == FifoBase + (IF k > 0 THEN f[129].size ELSE 0) + (IF k > 1 THEN f[130].size ELSE 0)

LEMMA BehindSums ==
  ASSUME NEW f, NEW k \in 0 .. 2,
         \A i \in 1 .. k : f[128 + i].size \in Nat
  PROVE  Behind(f, k) = Sum(f, k)
<1> DEFINE Adds(g) == [i \in 0 .. k |-> IF i = 0 THEN FifoBase
                                        ELSE g[i - 1] + f[128 + i].size]
           h == [i \in 0 .. k |-> Sum(f, i)]
           s == CHOOSE g : g = Adds(g)
<1>1. ASSUME NEW i \in 0 .. k PROVE h[i] = Adds(h)[i]
  <2>1. i = 0 \/ i = 1 \/ i = 2
    OBVIOUS
  <2>2. CASE i = 0
    BY <2>2 DEF Sum, FifoBase
  <2>3. CASE i = 1
    <3>1. f[129].size \in Nat
      BY <2>3
    <3> QED
      BY <2>3, <3>1 DEF Sum, FifoBase
  <2>4. CASE i = 2
    <3>1. f[129].size \in Nat /\ f[130].size \in Nat
      BY <2>4
    <3> QED
      BY <2>4, <3>1 DEF Sum, FifoBase
  <2> QED
    BY <2>1, <2>2, <2>3, <2>4
<1>2. h = Adds(h)
  BY <1>1
<1>3. s = Adds(s)
  BY <1>2
<1>4. Behind(f, k) = s[k]
  BY DEF Behind
<1> HIDE DEF s
<1>5. s[0] = FifoBase
  BY <1>3
<1>6. k >= 1 => s[1] = FifoBase + f[129].size
  <2> SUFFICES ASSUME k >= 1 PROVE s[1] = FifoBase + f[129].size
    OBVIOUS
  <2>1. 1 \in 0 .. k /\ 1 - 1 = 0 /\ 128 + 1 = 129
    OBVIOUS
  <2> QED
    BY <1>3, <1>5, <2>1
<1>7. k = 2 => s[2] = FifoBase + f[129].size + f[130].size
  <2> SUFFICES ASSUME k = 2 PROVE s[2] = FifoBase + f[129].size + f[130].size
    OBVIOUS
  <2>1. 2 \in 0 .. k /\ 2 - 1 = 1 /\ 128 + 2 = 130
    OBVIOUS
  <2> QED
    BY <1>3, <1>6, <2>1
<1>8. CASE k = 0
  BY <1>4, <1>5, <1>8 DEF Sum, FifoBase
<1>9. CASE k = 1
  <2>1. f[129].size \in Nat
    BY <1>9
  <2> QED
    BY <1>4, <1>6, <1>9, <2>1 DEF Sum, FifoBase
<1>10. CASE k = 2
  <2>1. f[129].size \in Nat /\ f[130].size \in Nat
    BY <1>10
  <2> QED
    BY <1>4, <1>7, <1>10, <2>1 DEF Sum, FifoBase
<1> QED
  BY <1>8, <1>9, <1>10

\* The step of the enumeration at interface i.
At(f, S, i) == IF 128 + i \in S THEN Place(f, 128 + i) ELSE f

\* The endpoints are placed one after the other.
LEMMA PlacedInTurn ==
  ASSUME NEW f, NEW S
  PROVE  /\ Len(Interfaces) = 1 => PlaceAll(f, S) = At(f, S, 1)
         /\ Len(Interfaces) = 2 => PlaceAll(f, S) = At(At(f, S, 1), S, 2)
         /\ Len(Interfaces) = 3 => PlaceAll(f, S) = At(At(At(f, S, 1), S, 2), S, 3)
<1> DEFINE n == Len(Interfaces)
           a == At(f, S, 1)
           b == At(a, S, 2)
           c == At(b, S, 3)
           Steps(g) == [i \in 0 .. n |-> IF i = 0 THEN f
                          ELSE IF 128 + i \in S THEN Place(g[i - 1], 128 + i) ELSE g[i - 1]]
           h == [i \in 0 .. n |-> IF i = 0 THEN f ELSE IF i = 1 THEN a
                                  ELSE IF i = 2 THEN b ELSE c]
           p == CHOOSE g : g = Steps(g)
<1>1. n \in 1 .. 3
  BY UsbControlAssumption
<1>2. PlaceAll(f, S) = p[n]
  BY DEF PlaceAll
<1>3. ASSUME NEW i \in 0 .. n PROVE h[i] = Steps(h)[i]
  <2> HIDE DEF n
  <2>1. i = 0 \/ i = 1 \/ i = 2 \/ i = 3
    BY <1>1
  <2>2. i # 0 => i - 1 \in 0 .. n
    BY <1>1
  <2>3. CASE i = 0
    BY <2>3
  <2>4. CASE i = 1
    BY <2>2, <2>4 DEF At
  <2>5. CASE i = 2
    <3> HIDE DEF a
    <3> QED
      BY <2>2, <2>5 DEF At
  <2>6. CASE i = 3
    <3> HIDE DEF b
    <3> QED
      BY <2>2, <2>6 DEF At
  <2> QED
    BY <2>1, <2>3, <2>4, <2>5, <2>6
<1>4. h = Steps(h)
  BY <1>3
<1>5. p = Steps(p)
  BY <1>4
<1> HIDE DEF p, n
<1>6. p[0] = f
  BY <1>1, <1>5
<1>7. \A i \in 1 .. n : p[i] = At(p[i - 1], S, i)
  <2> SUFFICES ASSUME NEW i \in 1 .. n PROVE p[i] = At(p[i - 1], S, i)
    OBVIOUS
  <2>1. i \in 0 .. n /\ i # 0
    BY <1>1
  <2>2. p[i] = Steps(p)[i]
    BY <1>5
  <2>3. Steps(p)[i] = IF 128 + i \in S THEN Place(p[i - 1], 128 + i) ELSE p[i - 1]
    BY <2>1
  <2> QED
    BY <2>2, <2>3 DEF At
<1>8. /\ p[1] = At(p[1 - 1], S, 1)
      /\ n >= 2 => p[2] = At(p[2 - 1], S, 2)
      /\ n >= 3 => p[3] = At(p[3 - 1], S, 3)
  <2>1. 1 \in 1 .. n /\ (n >= 2 => 2 \in 1 .. n) /\ (n >= 3 => 3 \in 1 .. n)
    BY <1>1
  <2> QED
    BY <1>7, <2>1, Zenon
<1>9. 1 - 1 = 0 /\ 2 - 1 = 1 /\ 3 - 1 = 2
  OBVIOUS
<1>10. p[1] = a /\ (n >= 2 => p[2] = b) /\ (n >= 3 => p[3] = c)
  <2>1. p[1] = a
    BY <1>6, <1>8, <1>9
  <2>2. n >= 2 => p[2] = b
    BY <2>1, <1>8, <1>9
  <2>3. n >= 3 => n >= 2
    BY <1>1
  <2> QED
    BY <2>1, <2>2, <2>3, <1>8, <1>9
<1>11. (n = 2 => n >= 2) /\ (n = 3 => n >= 3)
  OBVIOUS
<1> QED
  BY <1>2, <1>10, <1>11 DEF n

\* The registers of the transmit FIFOs, and where the FIFO of endpoint n is to be.
Ins          == {m \in Endpoints : m > 128}
FifoRegs     == [Ins -> [off : Nat, size : Nat]]
FifoPlace(n) ==
  [off  |-> FifoBase + (IF n > 129 THEN FifoSize(129) ELSE 0)
                     + (IF n > 130 THEN FifoSize(130) ELSE 0),
   size |-> FifoSize(n)]
UpTo(f, k)   == \A m \in Ins : m <= 128 + k => f[m] = FifoPlace(m)
Placed       == \A m \in Ins : txfifo[m] = FifoPlace(m)

LEMMA InNumbers == Ins = 129 .. (128 + Len(Interfaces))
<1>1. Len(Interfaces) \in 1 .. 3 /\ DOMAIN Interfaces = 1 .. Len(Interfaces)
  BY UsbControlAssumption
<1>2. ASSUME NEW m \in Ins PROVE m \in 129 .. (128 + Len(Interfaces))
  <2>1. PICK i \in 1 .. Len(Interfaces) : m \in EpsOf(i)
    BY <1>1 DEF Ins, Endpoints
  <2>2. m = 128 + i \/ m = i
    BY <2>1 DEF EpsOf
  <2> QED
    BY <1>1, <2>2 DEF Ins
<1>3. ASSUME NEW m \in 129 .. (128 + Len(Interfaces)) PROVE m \in Ins
  <2>1. m - 128 \in DOMAIN Interfaces /\ m = 128 + (m - 128) /\ m > 128
    BY <1>1
  <2>2. m \in EpsOf(m - 128)
    BY <2>1 DEF EpsOf
  <2> QED
    BY <2>1, <2>2 DEF Ins, Endpoints
<1> QED
  BY <1>2, <1>3

LEMMA SizeNat == ASSUME NEW n PROVE FifoSize(n) \in {4, 16}
BY DEF FifoSize

\* An endpoint behind endpoints in their places is put in its own.
LEMMA PlaceNext ==
  ASSUME NEW f \in FifoRegs, NEW n \in Ins, UpTo(f, n - 129)
  PROVE  Place(f, n) = [f EXCEPT ![n] = FifoPlace(n)]
<1>1. n \in {129, 130, 131} /\ n - 129 \in 0 .. 2 /\ n - 128 - 1 = n - 129
  <2> DEFINE l == Len(Interfaces)
  <2>1. l \in 1 .. 3 /\ n \in 129 .. (128 + l)
    BY InNumbers, UsbControlAssumption
  <2> HIDE DEF l
  <2> QED
    BY <2>1
<1>2. \A i \in 1 .. (n - 129) : f[128 + i] = FifoPlace(128 + i)
  BY <1>1, InNumbers, UsbControlAssumption DEF UpTo
<1>3. \A i \in 1 .. (n - 129) : f[128 + i].size = FifoSize(128 + i)
  <2>1. \A m : FifoPlace(m).size = FifoSize(m)
    BY DEF FifoPlace
  <2> QED
    BY <1>2, <2>1, Zenon
<1>4. \A i \in 1 .. (n - 129) : f[128 + i].size \in Nat
  BY <1>3, SizeNat
<1>5. Behind(f, n - 129) = Sum(f, n - 129)
  BY <1>1, <1>4, BehindSums
<1>6. Sum(f, n - 129) = FifoPlace(n).off
  <2>1. CASE n = 129
    BY <2>1 DEF Sum, FifoPlace
  <2>2. CASE n = 130
    <3>1. f[129].size = FifoSize(129)
      BY <1>3, <2>2
    <3> QED
      BY <2>2, <3>1 DEF Sum, FifoPlace
  <2>3. CASE n = 131
    <3>1. f[129].size = FifoSize(129) /\ f[130].size = FifoSize(130)
      BY <1>3, <2>3
    <3> QED
      BY <2>3, <3>1 DEF Sum, FifoPlace
  <2> QED
    BY <1>1, <2>1, <2>2, <2>3
<1>7. FifoPlace(n) = [off |-> FifoPlace(n).off, size |-> FifoSize(n)]
  BY DEF FifoPlace
<1> QED
  BY <1>1, <1>5, <1>6, <1>7 DEF Place

LEMMA PlaceType == ASSUME NEW n PROVE FifoPlace(n) \in [off : Nat, size : Nat]
<1>1. FifoSize(129) \in Nat /\ FifoSize(130) \in Nat /\ FifoSize(n) \in Nat
  BY SizeNat
<1> QED
  BY <1>1 DEF FifoPlace, FifoBase

\* One step of the enumeration.
LEMMA AtStep ==
  ASSUME NEW f \in FifoRegs, NEW S, NEW i \in 1 .. Len(Interfaces), UpTo(f, i - 1),
         128 + i \in S \/ f[128 + i] = FifoPlace(128 + i)
  PROVE  /\ At(f, S, i) \in FifoRegs
         /\ UpTo(At(f, S, i), i)
         /\ \A m \in Ins : m # 128 + i => At(f, S, i)[m] = f[m]
<1>1. /\ 128 + i \in Ins /\ (128 + i) - 129 = i - 1 /\ Ins \subseteq Int
      /\ i \in Int
  BY InNumbers, UsbControlAssumption
<1>2. CASE 128 + i \in S
  <2>1. At(f, S, i) = [f EXCEPT ![128 + i] = FifoPlace(128 + i)]
    BY <1>1, <1>2, PlaceNext DEF At
  <2>2. At(f, S, i) \in FifoRegs
    BY <1>1, <2>1, PlaceType DEF FifoRegs
  <2>3. \A m \in Ins : At(f, S, i)[m] = IF m = 128 + i THEN FifoPlace(m) ELSE f[m]
    BY <2>1 DEF FifoRegs
  <2>4. \A m \in Ins : m <= 128 + i /\ m # 128 + i => m <= 128 + (i - 1)
    BY <1>1
  <2> QED
    BY <2>2, <2>3, <2>4 DEF UpTo
<1>3. CASE 128 + i \notin S
  <2>1. At(f, S, i) = f
    BY <1>3 DEF At
  <2>2. \A m \in Ins : m <= 128 + i /\ m # 128 + i => m <= 128 + (i - 1)
    BY <1>1
  <2> QED
    BY <1>3, <2>1, <2>2 DEF UpTo
<1> QED
  BY <1>2, <1>3

\* Enabling all endpoints, or some when all are in their places, leaves all in
\* their places, whatever the registers held.
LEMMA AllPlaced ==
  ASSUME NEW f \in FifoRegs, NEW S,
         \A m \in Ins : m \in S \/ f[m] = FifoPlace(m)
  PROVE  /\ PlaceAll(f, S) \in FifoRegs
         /\ \A m \in Ins : PlaceAll(f, S)[m] = FifoPlace(m)
<1> DEFINE n == Len(Interfaces)
           a == At(f, S, 1)
           b == At(a, S, 2)
           c == At(b, S, 3)
<1>1. n \in 1 .. 3 /\ Ins = 129 .. (128 + n)
  BY UsbControlAssumption, InNumbers
<1>2. UpTo(f, 1 - 1)
  BY <1>1 DEF UpTo
<1>3. a \in FifoRegs /\ UpTo(a, 1) /\ \A m \in Ins : m # 129 => a[m] = f[m]
  <2>1. 1 \in 1 .. n /\ 128 + 1 = 129 /\ 129 \in Ins
    BY <1>1
  <2>2. 128 + 1 \in S \/ f[128 + 1] = FifoPlace(128 + 1)
    BY <2>1
  <2> QED
    BY <1>2, <2>1, <2>2, AtStep
<1> HIDE DEF a
<1>4. n >= 2 => b \in FifoRegs /\ UpTo(b, 2) /\ \A m \in Ins : m # 130 => b[m] = a[m]
  <2> SUFFICES ASSUME n >= 2
               PROVE  b \in FifoRegs /\ UpTo(b, 2) /\ \A m \in Ins : m # 130 => b[m] = a[m]
    OBVIOUS
  <2>1. 2 \in 1 .. n /\ 128 + 2 = 130 /\ 130 \in Ins /\ 2 - 1 = 1 /\ 130 # 129
    BY <1>1
  <2>2. 128 + 2 \in S \/ a[128 + 2] = FifoPlace(128 + 2)
    BY <1>3, <2>1
  <2> QED
    BY <1>3, <2>1, <2>2, AtStep
<1> HIDE DEF b
<1>5. n = 3 => c \in FifoRegs /\ UpTo(c, 3)
  <2> SUFFICES ASSUME n = 3 PROVE c \in FifoRegs /\ UpTo(c, 3)
    OBVIOUS
  <2>1. 3 \in 1 .. n /\ 128 + 3 = 131 /\ 131 \in Ins /\ 3 - 1 = 2 /\ 131 # 129 /\ 131 # 130 /\ n >= 2
    BY <1>1
  <2>2. 128 + 3 \in S \/ b[128 + 3] = FifoPlace(128 + 3)
    BY <1>3, <1>4, <2>1
  <2> QED
    BY <1>4, <2>1, <2>2, AtStep
<1> HIDE DEF c
<1>6. PlaceAll(f, S) \in FifoRegs /\ UpTo(PlaceAll(f, S), n)
  <2>1. n = 1 \/ n = 2 \/ n = 3
    BY <1>1
  <2>2. (n = 1 => PlaceAll(f, S) = a) /\ (n = 2 => PlaceAll(f, S) = b) /\ (n = 3 => PlaceAll(f, S) = c)
    BY PlacedInTurn DEF a, b, c
  <2>3. n = 2 => n >= 2
    OBVIOUS
  <2> QED
    BY <1>3, <1>4, <1>5, <2>1, <2>2, <2>3
<1>7. \A m \in Ins : m <= 128 + n
  BY <1>1
<1> QED
  BY <1>6, <1>7 DEF UpTo

\* A device that is configured, or that has an active IN endpoint, has the FIFOs
\* of all in their places.  After a reset of the bus it is still configured, and
\* SET_INTERFACE computes one place from the registers of the others.
FifoInv ==
  /\ txfifo \in FifoRegs
  /\ config # 0 \/ (\E n \in enabled : n > 128) => Placed

LEMMA FifosQuiet ==
  ASSUME FifoInv, UNCHANGED <<txfifo, config>>, enabled' \subseteq enabled
  PROVE  FifoInv'
BY DEF FifoInv, Placed

LEMMA RequestFifos ==
  ASSUME NEW r \in Requests, Ep0EventSetup(r), FifoInv
  PROVE  FifoInv'
<1>1. /\ r \in RequestType /\ r.arg \in Nat
  BY RequestFields
<1>2. \A m \in Ins : m \in Endpoints
  BY DEF Ins
<1>3. CASE r.kind = "set_configuration"
  <2>1. SetConfiguration(r)
    BY <1>3 DEF Ep0EventSetup
  <2>2. CASE r.arg = 0
    <3>1. /\ UNCHANGED txfifo /\ config' = 0 /\ enabled' = enabled \ mask
      BY <2>1, <2>2 DEF SetConfiguration, Deconfigure
    <3> QED
      BY <3>1 DEF FifoInv, Placed
  <2>3. CASE r.arg = 1
    <3>1. txfifo' = PlaceAll(txfifo, Endpoints)
      BY <2>1, <2>3 DEF SetConfiguration, Enable
    <3> QED
      BY <1>2, <3>1, AllPlaced DEF FifoInv, Placed
  <2>4. CASE r.arg # 0 /\ r.arg # 1
    BY <2>1, <2>4, FifosQuiet DEF SetConfiguration, DeviceUnchanged, hw, device
  <2> QED
    BY <2>2, <2>3, <2>4
<1>4. CASE r.kind = "set_interface"
  <2>1. SetInterface(r)
    BY <1>4 DEF Ep0EventSetup
  <2>2. CASE config = 0
    BY <2>1, <2>2, FifosQuiet DEF SetInterface, DeviceUnchanged, hw, device
  <2>3. CASE config # 0
    <3> DEFINE S == EpsOfIface(r.arg)
    <3>1. /\ IF r.alt = 0
               THEN Enable(S) /\ mask' = mask \cup S
               ELSE enabled' = enabled \ S /\ mask' = mask \ S /\ UNCHANGED <<stalled, txfifo>>
          /\ UNCHANGED config
      BY <2>1, <2>3 DEF SetInterface
    <3> HIDE DEF S
    <3>2. CASE r.alt = 0
      <4>1. txfifo' = PlaceAll(txfifo, S)
        BY <3>1, <3>2 DEF Enable
      <4> QED
        BY <2>3, <4>1, AllPlaced DEF FifoInv, Placed
    <3>3. CASE r.alt # 0
      BY <3>1, <3>3, FifosQuiet
    <3> QED
      BY <3>2, <3>3
  <2> QED
    BY <2>2, <2>3
<1>5. CASE r.kind \notin {"set_configuration", "set_interface"}
  <2>1. UNCHANGED <<txfifo, config, enabled>>
    BY <1>1, <1>5 DEF RequestType, Ep0EventSetup, GetStatus, GetDescriptor, GetConfiguration,
                      GetInterface, GetMaxLun, CtrlSetup, SetHalt, ClearHalt, SetAddress, MscReset,
                      DeviceUnchanged, hw, device
  <2> QED
    BY <2>1, FifosQuiet
<1> QED
  BY <1>3, <1>4, <1>5

LEMMA InitFifos == Init => FifoInv
BY DEF Init, FifoInv, FifoRegs, Ins

\* The FIFOs stay in their places: only requests change the registers.
LEMMA NextFifos == Core /\ FifoInv /\ [Next]_vars => FifoInv'
<1> SUFFICES ASSUME Core, FifoInv, [Next]_vars PROVE FifoInv'
  OBVIOUS
<1>1. CASE RxSetup
  <2>1. PICK r \in Requests : Ep0EventSetup(r)
    <3>1. SetupFirst /\ Ep0EventSetup(Head(rx).req) /\ setup' = Head(rx).req
      BY <1>1 DEF RxSetup, SetupFirst
    <3> QED
      BY <1>1, <3>1, SetupTaken DEF Core, RxSetup
  <2> QED
    BY <2>1, RequestFifos
<1>2. CASE IrqLeave
  BY <1>2, FifosQuiet DEF IrqLeave, Reset, hw, device
<1>3. CASE IrqEnter \/ RxData \/ RxDone \/ InEvent \/ InAck
  BY <1>3, FifosQuiet DEF IrqEnter, RxData, RxDone, InEvent, InAck, hw, device
<1>4. CASE Host \/ HostTimeout \/ BusReset \/ \E r \in Requests : HostSetup(r)
  BY <1>4, FifosQuiet DEF Host, HostIn, HostData, HostStatus, HostStalled, HostTimeout, BusReset,
                          HostSetup, hw, device
<1>5. CASE ClassStalls(EpsOf(Len(Interfaces)))
  BY <1>5, FifosQuiet DEF ClassStalls
<1>6. CASE UNCHANGED vars
  BY <1>6, FifosQuiet DEF vars, hw, device
<1> QED
  BY <1>1, <1>2, <1>3, <1>4, <1>5, <1>6 DEF Next, Irq

\* The transmit FIFOs of active endpoints never overlap each other nor what lies
\* before them, the receive FIFO and the one of EP0 (usb_setEP), for any
\* interfaces and in whatever order they are configured, reset and enabled.
THEOREM FifosStayApart == Spec => []FifosDisjoint
<1>1. Core /\ DeviceInv /\ FifoInv => FifosDisjoint
  <2> SUFFICES ASSUME DeviceInv, FifoInv PROVE FifosDisjoint
    OBVIOUS
  <2>1. ASSUME NEW n \in enabled, n > 128
        PROVE  n \in {129, 130, 131} /\ txfifo[n] = FifoPlace(n)
    <3> DEFINE l == Len(Interfaces)
    <3>1. n \in Ins
      BY <2>1 DEF DeviceInv, DeviceTypes, Ins
    <3>2. l \in 1 .. 3 /\ Ins = 129 .. (128 + l)
      BY InNumbers, UsbControlAssumption
    <3> HIDE DEF l
    <3>3. n \in {129, 130, 131}
      BY <3>1, <3>2
    <3> QED
      BY <2>1, <3>1, <3>3 DEF FifoInv, Placed
  <2>2. FifoSize(129) \in Nat /\ FifoSize(130) \in Nat
    BY SizeNat
  <2>3. /\ FifoPlace(129) = [off |-> FifoBase, size |-> FifoSize(129)]
        /\ FifoPlace(130) = [off |-> FifoBase + FifoSize(129), size |-> FifoSize(130)]
        /\ FifoPlace(131).off = FifoBase + FifoSize(129) + FifoSize(130)
    BY <2>2 DEF FifoPlace, FifoBase
  <2>4. ASSUME NEW n \in enabled, n > 128 PROVE txfifo[n].off >= FifoBase
    BY <2>1, <2>2, <2>3, <2>4 DEF FifoBase
  <2>5. ASSUME NEW m \in enabled, NEW n \in enabled, m > 128, n > 128, m < n
        PROVE  txfifo[m].off + txfifo[m].size <= txfifo[n].off
    <3>1. m \in {129, 130, 131} /\ n \in {129, 130, 131}
      BY <2>1, <2>5
    <3>2. txfifo[m] = FifoPlace(m) /\ txfifo[n] = FifoPlace(n)
      BY <2>1, <2>5
    <3> QED
      BY <2>2, <2>3, <2>5, <3>1, <3>2 DEF FifoBase
  <2> QED
    BY <2>4, <2>5 DEF FifosDisjoint
<1>2. Init => Core /\ DeviceInv /\ FifoInv
  BY InitCore, InitDevice, InitFifos
<1>3. Core /\ DeviceInv /\ FifoInv /\ [Next]_vars => Core' /\ DeviceInv' /\ FifoInv'
  BY NextCore, NextDevice, NextFifos
<1> QED
  BY <1>1, <1>2, <1>3, PTL DEF Spec
=============================================================================
