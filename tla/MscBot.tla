------------------------------- MODULE MscBot -------------------------------
(***************************************************************************)
(* MsClass: the USB mass-storage Bulk-Only Transport, with the host that   *)
(* talks to it, the two bulk endpoints between them and the storage behind *)
(* it.                                                                     *)
(*                                                                         *)
(* The device side runs in the USB interrupt (UsbHw::Handler): an OUT      *)
(* packet in the receive FIFO leads to MsClass::BulkOut, a completed IN    *)
(* packet to MsClass::BulkIn.  The host may act between the steps of the   *)
(* interrupt; UsbEndpoint::Read re-arms the OUT endpoint before the packet *)
(* is looked at, so the next packet may come while it is processed.        *)
(*                                                                         *)
(* Data is counted in packets of 64 bytes.  Every reply to an inquiry-like *)
(* command is shorter than a packet; for those commands the length counts  *)
(* replies.                                                                *)
(***************************************************************************)
EXTENDS Integers, Sequences, FiniteSets

CONSTANTS
  PPB,       \* packets in a block (8 in the code)
  Scenes,    \* the hosts and media the device may meet
  TxDepth    \* packets that fit in the transmit FIFO (bound)

EpAddr   == 1    \* address of both bulk endpoints
StallBit == 15   \* MSC_SetStallEP: EPNum = addr | 0x0F
Skewed   == -1   \* rwlen or a residue that is no multiple of a packet any more

\* A command block: op, the direction flag, dDataLength in packets, the
\* number of blocks in the CDB, LUN and CB length as they should be, and the
\* signature and length of the wrapper as they should be.
CommandBlock ==
  [op : {"TUR", "SENSE", "INFO", "READ", "WRITE", "VERIFY", "CHECK", "OTHER"},
   in : BOOLEAN, len : Nat, blocks : Nat, lun : BOOLEAN, valid : BOOLEAN]

\* A scene: the CBWs the host may send; the dCBWTag values, 0 .. tags - 1,
\* used in turn (bound); the medium, Fat12Emul or StorageMmc; and the host:
\*   "orderly": sends well-formed commands to Fat12Emul,
\*   "erring":  sends any command, but no data for one that is refused,
\*   "hasty":   sends anything, resets the bus and does not wait for the
\*              device's interrupt to be served before its next transaction.
Scene == [commands : SUBSET CommandBlock, tags : Nat \ {0},
          medium : {"fat12", "mmc"}, host : {"orderly", "erring", "hasty"}]

\* The data of a WRITE or VERIFY that the device accepts.
WellWritten(c) ==
  /\ c.valid /\ c.lun /\ ~c.in /\ c.op \in {"WRITE", "VERIFY"}
  /\ c.len > 0 /\ c.len = c.blocks * PPB

\* Commands as the standards have them: the length, the direction and the
\* number of blocks agree.
WellFormed(c) ==
  \/ WellWritten(c)
  \/ /\ c.valid /\ c.lun
     /\ \/ c.op \in {"TUR", "CHECK", "OTHER"} /\ c.len = 0
        \/ c.op \in {"SENSE", "INFO"} /\ c.in /\ c.len > 0
        \/ c.op = "READ" /\ c.in /\ c.len > 0 /\ c.len = c.blocks * PPB

ASSUME MscAssumption ==
  /\ PPB \in Nat \ {0}
  /\ TxDepth \in Nat \ {0}
  /\ Scenes \subseteq Scene
  /\ \A s \in Scenes :
       /\ s.commands # {}
       /\ s.host = "orderly" =>
            s.medium = "fat12" /\ \A c \in s.commands : WellFormed(c)
       /\ s.host = "erring" => \A c \in s.commands :
            c.in \/ c.len = 0 \/ ~c.valid \/ WellWritten(c)

VARIABLES
  scene,   \* the host and the medium, chosen once
  stage,   \* BulkStage
  cbw,     \* CBW: the command block
  csw,     \* CSW: tag, residue and status
  sense,   \* SenseData.data
  memOK,   \* MemOK, result of VERIFY
  left,    \* packets the storage still expects (rwlen)
  stalled, \* the endpoints, "in" and "out", that answer STALL
  mask,    \* USB_EndPointStall: <<direction, bit>>
  rx,      \* receive FIFO: << >> or one OUT packet
  isr,     \* << >>, or what the interrupt handler works on
  tx,      \* transmit FIFO
  armed,   \* a packet of the transmit FIFO is offered to the host
  xfrc,    \* DIEPINT_XFRC: a packet was fetched, not handled yet
  hst,     \* the host's state
  hcmd,    \* the command it works on
  htag,    \* its tag
  moved    \* packets moved in the data phase

dev  == <<stage, cbw, csw, sense, memOK, left>>
usb  == <<stalled, mask, rx, isr, tx, armed, xfrc>>
host == <<hst, hcmd, htag, moved>>
vars == <<scene, stage, cbw, csw, sense, memOK, left,
          stalled, mask, rx, isr, tx, armed, xfrc, hst, hcmd, htag, moved>>

Stages == {"CBW", "DATA_OUT", "DATA_IN", "DATA_IN_LAST", "DATA_IN_LAST_STALL",
           "CSW", "ERROR"}
Senses == {"none", "reset", "lun", "field", "range", "fault"}

Tags   == 0 .. scene.tags - 1
Prompt == scene.host # "hasty"  \* interrupts are served in time

Cbw(c, t)    == [kind |-> "cbw", cmd |-> c, tag |-> t]
Csw(t, r, s) == [kind |-> "csw", tag |-> t, residue |-> r, status |-> s]
Data         == [kind |-> "data"]   \* 64 bytes
Short        == [kind |-> "short"]  \* less than 64 bytes

-----------------------------------------------------------------------------
(* Endpoints                                                               *)

\* Mutant: the endpoint is not enabled.
EpWriteUnarmed(p) ==
  /\ tx' = IF Len(tx) < TxDepth THEN Append(tx, p) ELSE tx
  /\ UNCHANGED armed

\* UsbEndpoint::Write: one packet is put in the FIFO and offered.  Nothing
\* checks that the packet before it has gone.
EpWrite(p) ==
  /\ tx' = IF Len(tx) < TxDepth THEN Append(tx, p) ELSE tx
  /\ armed' = TRUE

NoWrite == UNCHANGED <<tx, armed>>

\* MSC_SetStallEP for each direction in S: the endpoint stalls and a bit of
\* USB_EndPointStall is set, which is not the bit of this endpoint.
StallEP(S) ==
  /\ stalled' = stalled \cup S
  /\ mask' = mask \cup {<<d, StallBit>> : d \in S}

\* Mutant: BulkStage is not set.
SetCSWStays(w, S) ==
  /\ csw' = w
  /\ EpWrite(Csw(w.tag, w.residue, w.status))
  /\ UNCHANGED stage
  /\ StallEP(S)

\* MSC_SetCSW: the status wrapper w is sent, after the endpoints of S stall.
SetCSW(w, S) ==
  /\ csw' = w
  /\ EpWrite(Csw(w.tag, w.residue, w.status))
  /\ stage' = "CSW"
  /\ StallEP(S)

Fail(w, status, S) == SetCSW([w EXCEPT !.status = status], S)

Dir(c) == IF c.in THEN "in" ELSE "out"

-----------------------------------------------------------------------------
(* Storage                                                                 *)

\* SenseData after CmdRead or CmdWrite.  Fat12Emul leaves it alone;
\* StorageMmc clears it, or says why the card does not answer.
SenseOfSetup == IF scene.medium = "fat12" THEN {sense} ELSE {"none", "fault"}

\* What Read or Write makes of one packet when l are left after it: the
\* sense data, s before, and the number of packets DecResidue is called for.
\* StorageMmc raises an error on any packet when the range is exceeded, and
\* a medium error between blocks or, writing, at the end; it counts whole
\* blocks, Fat12Emul what the packet held.
IoOutcome(s, l, writing) ==
  LET wholeBlock == l # Skewed /\ l % PPB = 0
  IN  IF scene.medium = "fat12"
        THEN {[sense |-> s, dec |-> IF l = Skewed THEN Skewed ELSE 1]}
        ELSE {[sense |-> r, dec |-> IF wholeBlock THEN PPB ELSE 0] : r \in {s, "range"}}
             \cup IF wholeBlock /\ (l > 0 \/ writing)
                    THEN {[sense |-> "fault", dec |-> 0]} ELSE {}

Decreased(r, n) == IF Skewed \in {r, n} THEN Skewed ELSE r - n

\* Mutants: counts twice; counts whatever the sense data.
DecResidueTwice(w, o) ==
  IF o.sense = "none" THEN [w EXCEPT !.residue = Decreased(@, 2 * o.dec)] ELSE w
DecResidueAlways(w, o) == [w EXCEPT !.residue = Decreased(@, o.dec)]

\* DecResidue counts only while there is no sense data.
DecResidue(w, o) ==
  IF o.sense = "none" THEN [w EXCEPT !.residue = Decreased(@, o.dec)] ELSE w

\* Mutant: the sense data are not looked at.
WithStatusPassed(w, s) == [w EXCEPT !.status = "passed"]

WithStatus(w, s) == [w EXCEPT !.status = IF s = "none" THEN "passed" ELSE "failed"]

-----------------------------------------------------------------------------
(* Data phase                                                              *)

\* Mutants: the last packet but one, or one behind the last, is the last.
MemoryReadTo(last, n, s, w) ==
  \E o \in IoOutcome(s, n - 1, FALSE) :
    /\ EpWrite(Data)
    /\ left' = n - 1
    /\ sense' = o.sense
    /\ IF n > last
         THEN stage' = "DATA_IN" /\ csw' = DecResidue(w, o)
         ELSE stage' = "DATA_IN_LAST" /\ csw' = WithStatus(DecResidue(w, o), o.sense)
    /\ UNCHANGED <<stalled, mask>>
MemoryReadShort(n, s, w) == MemoryReadTo(2, n, s, w)
MemoryReadLong(n, s, w)  == MemoryReadTo(0, n, s, w)

\* MSC_MemoryRead: the next packet, n left before it, sense data s and
\* status wrapper w so far.
MemoryRead(n, s, w) ==
  \E o \in IoOutcome(s, n - 1, FALSE) :
    /\ EpWrite(Data)
    /\ left' = n - 1
    /\ sense' = o.sense
    /\ IF n > 1
         THEN stage' = "DATA_IN" /\ csw' = DecResidue(w, o)
         ELSE /\ stage' = IF o.sense = "range" THEN "DATA_IN_LAST_STALL"
                                               ELSE "DATA_IN_LAST"
              /\ csw' = WithStatus(DecResidue(w, o), o.sense)
    /\ UNCHANGED <<stalled, mask>>

\* The storage's part of MSC_MemoryWrite and MSC_MemoryVerify: rwlen counts
\* bytes, so a packet that is not 64 bytes long takes it off the grid for
\* good and the transfer does not end.
Remaining(p) == IF left = Skewed \/ p # Data THEN Skewed ELSE left - 1

Pending == stage' = stage /\ NoWrite /\ UNCHANGED <<stalled, mask>>

MemoryWrite(p) ==
  \E o \in IoOutcome(sense, Remaining(p), TRUE) :
    /\ left' = Remaining(p)
    /\ sense' = o.sense
    /\ IF left' # 0
         THEN Pending /\ csw' = DecResidue(csw, o)
         ELSE SetCSW(WithStatus(DecResidue(csw, o), o.sense),
                     IF o.sense = "range" THEN {"out"} ELSE {})
    /\ UNCHANGED <<cbw, memOK>>

\* The packet is compared with what the storage reads.
MemoryVerify(p) ==
  \E o \in IoOutcome(sense, Remaining(p), FALSE), same \in BOOLEAN :
    /\ left' = Remaining(p)
    /\ sense' = o.sense
    /\ IF left' # 0
         THEN Pending /\ csw' = DecResidue(csw, o) /\ memOK' = (memOK /\ same)
         ELSE /\ memOK' = (memOK /\ same /\ o.sense = "none")
              /\ SetCSW([DecResidue(csw, o) EXCEPT !.status =
                           IF memOK' THEN "passed" ELSE "failed"],
                        IF o.sense = "range" THEN {"out"} ELSE {})
    /\ UNCHANGED cbw

-----------------------------------------------------------------------------
(* Commands: MSC_CommandParser for command c with status wrapper w         *)

\* MSC_TestUnitReady: fails after power-up, until the sense data is read.
TestUnitReady(c, w) ==
  /\ Fail(w, IF sense = "reset" THEN "failed" ELSE "passed",
          IF c.len = 0 THEN {} ELSE {Dir(c)})
  /\ UNCHANGED <<sense, memOK, left>>

\* DataInFormat and DataInTransfer: INQUIRY, MODE SENSE, READ CAPACITY, READ
\* FORMAT CAPACITIES and REQUEST SENSE, the last of which clears the sense data.
DataIn(c, w) ==
  /\ \/ /\ c.len = 0 \/ ~c.in
        /\ Fail(w, "phase", IF c.len = 0 THEN {} ELSE {"out"})
        /\ UNCHANGED sense
     \/ /\ c.len > 0 /\ c.in
        /\ EpWrite(Short)
        /\ stage' = "DATA_IN_LAST"
        /\ csw' = [w EXCEPT !.residue = @ - 1, !.status = "passed"]
        /\ sense' = IF c.op = "SENSE" THEN "none" ELSE sense
        /\ UNCHANGED <<stalled, mask>>
  /\ UNCHANGED <<memOK, left>>

\* The early returns of MSC_ReadSetup and MSC_WriteSetup.
SetupFails(c) == c.len = 0 \/ c.len # c.blocks * PPB

SetupError(c, w) ==
  /\ Fail(w, "failed", IF c.len = 0 THEN {} ELSE {Dir(c)})
  /\ UNCHANGED <<sense, memOK, left>>

\* The setup went well but the direction is wrong; d stalls.
DirectionError(c, w, d) ==
  /\ left' = c.len
  /\ sense' \in SenseOfSetup
  /\ Fail(w, "phase", {d})
  /\ UNCHANGED memOK

ReadCommand(c, w) ==
  \/ SetupFails(c) /\ SetupError(c, w)
  \/ ~SetupFails(c) /\ ~c.in /\ DirectionError(c, w, "out")
  \/ /\ ~SetupFails(c) /\ c.in
     /\ \E s \in SenseOfSetup : MemoryRead(c.len, s, w)
     /\ UNCHANGED memOK

\* WRITE and, with BYTCHK, VERIFY: the data follows.
WriteCommand(c, w) ==
  \/ SetupFails(c) /\ SetupError(c, w)
  \/ ~SetupFails(c) /\ c.in /\ DirectionError(c, w, "in")
  \/ /\ ~SetupFails(c) /\ ~c.in
     /\ left' = c.len
     /\ sense' \in SenseOfSetup
     /\ stage' = "DATA_OUT"
     /\ csw' = w
     /\ memOK' = IF c.op = "VERIFY" THEN TRUE ELSE memOK
     /\ NoWrite /\ UNCHANGED <<stalled, mask>>

\* VERIFY without BYTCHK: passes without a look at the medium.
Check(w) == Fail(w, "passed", {}) /\ UNCHANGED <<sense, memOK, left>>

\* Bad LUN or CB length, and commands that are not implemented: FAILED at
\* once, whatever data phase the host is in.
Reject(w, s) == Fail(w, "failed", {}) /\ sense' = s /\ UNCHANGED <<memOK, left>>

\* A data packet is longer than the CBW structure; the copy runs on into CSW
\* and SenseData, which then hold whatever the packet carried.
Overrun ==
  /\ csw' \in [tag : Tags, residue : {0, csw.residue},
               status : {"passed", "failed", "phase"}]
  /\ sense' \in Senses

\* MSC_GetCBW.  After an invalid CBW the command block is not looked at before
\* the next valid one.
GetCBW(p) ==
  \/ /\ p.kind = "cbw" /\ p.cmd.valid
     /\ cbw' = p.cmd
     /\ LET c == p.cmd
            w == [tag |-> p.tag, residue |-> c.len, status |-> csw.status]
        IN  \/ ~c.lun /\ Reject(w, "lun")
            \/ c.lun /\ c.op = "TUR" /\ TestUnitReady(c, w)
            \/ c.lun /\ c.op \in {"SENSE", "INFO"} /\ DataIn(c, w)
            \/ c.lun /\ c.op = "READ" /\ ReadCommand(c, w)
            \/ c.lun /\ c.op \in {"WRITE", "VERIFY"} /\ WriteCommand(c, w)
            \/ c.lun /\ c.op = "CHECK" /\ Check(w)
            \/ c.lun /\ c.op = "OTHER" /\ Reject(w, "field")
  \/ /\ ~(p.kind = "cbw" /\ p.cmd.valid)
     /\ stage' = "ERROR"
     /\ StallEP({"in", "out"})
     /\ IF p = Data THEN Overrun ELSE UNCHANGED <<csw, sense>>
     /\ NoWrite
     /\ UNCHANGED <<cbw, memOK, left>>

-----------------------------------------------------------------------------
(* The USB interrupt                                                       *)

\* RXFLVL: the packet is read and the OUT endpoint armed again.
OutRead == /\ isr = << >> /\ rx # << >>
           /\ isr' = rx
           /\ rx' = << >>
           /\ UNCHANGED <<dev, stalled, mask, tx, armed, xfrc, host>>

In == [kind |-> "in"]

\* MsClass::BulkOut.
BulkOut ==
  /\ isr # << >> /\ isr # <<In>>
  /\ LET p == isr[1] IN
       \/ stage = "CBW" /\ GetCBW(p)
       \/ stage = "DATA_OUT" /\ cbw.op = "WRITE" /\ MemoryWrite(p)
       \/ stage = "DATA_OUT" /\ cbw.op = "VERIFY" /\ MemoryVerify(p)
       \/ /\ stage \notin {"CBW", "DATA_OUT"}
          /\ Fail(csw, "phase", {"out"})
          /\ UNCHANGED <<cbw, sense, memOK, left>>
  /\ isr' = << >>
  /\ UNCHANGED <<rx, xfrc, host>>

\* MsClass::BulkIn; the interrupt flag stays set until the handler is done.
BulkIn ==
  /\ isr = << >> /\ xfrc
  /\ \/ /\ stage = "DATA_IN"
        /\ MemoryRead(left, sense, csw)
     \/ /\ stage \in {"DATA_IN_LAST", "DATA_IN_LAST_STALL"}
        /\ SetCSW(csw, IF stage = "DATA_IN_LAST_STALL" THEN {"in"} ELSE {})
        /\ UNCHANGED <<sense, left>>
     \/ /\ stage = "CSW"
        /\ stage' = "CBW"
        /\ NoWrite /\ UNCHANGED <<csw, sense, left, stalled, mask>>
     \/ /\ stage \in {"CBW", "DATA_OUT", "ERROR"}
        /\ NoWrite /\ UNCHANGED <<stage, csw, sense, left, stalled, mask>>
  /\ isr' = <<In>>
  /\ UNCHANGED <<cbw, memOK, rx, xfrc, host>>

\* Mutant: the interrupt flag is not cleared.
InDoneKeepsFlag == /\ isr = <<In>>
                   /\ isr' = << >>
                   /\ UNCHANGED <<dev, stalled, mask, rx, tx, armed, xfrc, host>>

InDone == /\ isr = <<In>>
          /\ isr' = << >>
          /\ xfrc' = FALSE
          /\ UNCHANGED <<dev, stalled, mask, rx, tx, armed, host>>

-----------------------------------------------------------------------------
(* The host                                                                *)

Idle == rx = << >> /\ isr = << >>

SendCBW(c) ==
  /\ hst = "idle" /\ rx = << >> /\ "out" \notin stalled
  /\ Prompt => ~xfrc /\ isr = << >>
  /\ htag' = (htag + 1) % scene.tags
  /\ rx' = <<Cbw(c, htag')>>
  /\ hcmd' = c
  /\ moved' = 0
  /\ hst' = IF c.len = 0 THEN "status" ELSE Dir(c)
  /\ UNCHANGED <<dev, stalled, mask, isr, tx, armed, xfrc>>

SendData ==
  /\ hst = "out" /\ rx = << >> /\ "out" \notin stalled
  /\ rx' = <<Data>>
  /\ moved' = moved + 1
  /\ hst' = IF moved' = hcmd.len THEN "status" ELSE "out"
  /\ UNCHANGED <<dev, stalled, mask, isr, tx, armed, xfrc, hcmd, htag>>

\* The host reads an IN packet: in the data phase anything counts as data and
\* a short packet ends the phase; as status only the wrapper of this command
\* counts, and not a phase error.
Fetch ==
  /\ hst \in {"in", "status", "retry"} /\ armed /\ "in" \notin stalled
  /\ Prompt => isr # <<In>>
  /\ LET p == Head(tx) IN
       IF hst = "in"
         THEN /\ moved' = moved + 1
              /\ hst' = IF p = Data /\ moved' < hcmd.len THEN "in" ELSE "status"
         ELSE /\ hst' = IF /\ p.kind = "csw" /\ p.tag = htag
                           /\ p.status # "phase"
                          THEN "idle" ELSE "reset"
              /\ UNCHANGED moved
  /\ tx' = Tail(tx)
  /\ armed' = FALSE
  /\ xfrc' = TRUE
  /\ UNCHANGED <<dev, stalled, mask, rx, isr, hcmd, htag>>

\* CLEAR_FEATURE(ENDPOINT_HALT): UsbDevice::ReqSetClrFeature.
ClearFeature(d) ==
  /\ stalled' = IF <<d, EpAddr>> \in mask THEN stalled ELSE stalled \ {d}
  /\ UNCHANGED <<dev, mask, rx, isr, tx, armed, xfrc>>

\* The host meets a STALL: it clears the halt and reads the status, twice at
\* most; a command wrapper that stalls calls for reset recovery.
MeetStall ==
  /\ Idle
  /\ \/ /\ hst = "out" /\ "out" \in stalled
        /\ ClearFeature("out") /\ hst' = "status"
     \/ /\ hst = "in" /\ "in" \in stalled
        /\ ClearFeature("in") /\ hst' = "status"
     \/ /\ hst = "status" /\ "in" \in stalled
        /\ ClearFeature("in") /\ hst' = "retry"
     \/ /\ \/ hst = "retry" /\ "in" \in stalled
           \/ hst = "idle" /\ "out" \in stalled
        /\ hst' = "reset" /\ UNCHANGED <<dev, usb>>
  /\ UNCHANGED <<hcmd, htag, moved>>

\* The host's timeout, longer than anything the device does: nothing is left
\* to happen.
GiveUp ==
  /\ hst \in {"in", "status", "retry"} /\ Idle
  /\ ~xfrc /\ ~armed /\ "in" \notin stalled
  /\ hst' = "reset"
  /\ UNCHANGED <<dev, usb, hcmd, htag, moved>>

\* Reset recovery, first step: Bulk-Only Mass Storage Reset, MsClass::Reset.
ClassReset ==
  /\ hst = "reset" /\ Idle
  /\ stage' = "CBW"
  /\ mask' = {}
  /\ hst' = "clrIn"
  /\ UNCHANGED <<cbw, csw, sense, memOK, left, stalled, rx, isr, tx, armed, xfrc,
                 hcmd, htag, moved>>

\* Second and third step: the halts of both endpoints are cleared.
ClearHalts ==
  /\ Idle
  /\ \/ hst = "clrIn"  /\ ClearFeature("in")  /\ hst' = "clrOut"
     \/ hst = "clrOut" /\ ClearFeature("out") /\ hst' = "idle"
  /\ UNCHANGED <<hcmd, htag, moved>>

\* Bus reset and SET_CONFIGURATION: UsbHw::Reset and ReqSetConfiguration flush
\* and enable the endpoints anew.  MsClass is not told.
BusReset ==
  /\ scene.host = "hasty" /\ Idle /\ ~xfrc
  /\ hst' = "idle"
  /\ stalled' = {} /\ mask' = {}
  /\ tx' = << >> /\ armed' = FALSE
  /\ UNCHANGED <<dev, rx, isr, xfrc, hcmd, htag, moved>>

-----------------------------------------------------------------------------
Init ==
  /\ scene \in Scenes
  /\ stage = "CBW"
  /\ cbw = CHOOSE c \in scene.commands : TRUE  \* not read before a CBW has come
  /\ csw = [tag |-> 0, residue |-> 0, status |-> "passed"]
  /\ sense = "reset"
  /\ memOK = FALSE /\ left = 0
  /\ stalled = {} /\ mask = {}
  /\ rx = << >> /\ isr = << >> /\ tx = << >>
  /\ armed = FALSE /\ xfrc = FALSE
  /\ hst = "idle" /\ hcmd = cbw /\ htag = 0 /\ moved = 0

Device == (OutRead \/ BulkOut \/ BulkIn \/ InDone) /\ UNCHANGED scene
Host   == /\ \/ SendData \/ Fetch \/ MeetStall
             \/ GiveUp \/ ClassReset \/ ClearHalts
          /\ UNCHANGED scene
Begin  == (\E c \in scene.commands : SendCBW(c)) /\ UNCHANGED scene
Next   == Device \/ Host \/ Begin \/ (BusReset /\ UNCHANGED scene)

\* Pending interrupts are taken and their handlers end; a host that has begun
\* a command carries it on.  That it sends a command is not assumed.
Fairness == WF_vars(Device) /\ WF_vars(Host)

Spec == Init /\ [][Next]_vars /\ Fairness

-----------------------------------------------------------------------------
(* Properties                                                              *)

Wrappers == [tag : Tags, residue : Nat \cup {Skewed},
             status : {"passed", "failed", "phase"}]
OutPackets == [kind : {"cbw"}, cmd : scene.commands, tag : Tags] \cup {Data}
InPackets  == {Data, Short} \cup
              [kind : {"csw"}, tag : Tags, residue : Nat \cup {Skewed},
               status : {"passed", "failed", "phase"}]

TypeOK ==
  /\ scene \in Scenes
  /\ stage \in Stages /\ cbw \in scene.commands /\ csw \in Wrappers
  /\ sense \in Senses /\ memOK \in BOOLEAN /\ left \in Nat \cup {Skewed}
  /\ stalled \subseteq {"in", "out"}
  /\ mask \subseteq {"in", "out"} \X {StallBit}
  /\ rx = << >> \/ \E p \in OutPackets : rx = <<p>>
  /\ isr = << >> \/ \E p \in OutPackets \cup {In} : isr = <<p>>
  /\ tx \in Seq(InPackets) /\ Len(tx) <= TxDepth
  /\ armed \in BOOLEAN /\ xfrc \in BOOLEAN
  /\ hst \in {"idle", "in", "out", "status", "retry", "reset", "clrIn", "clrOut"}
  /\ hcmd \in scene.commands /\ htag \in Tags /\ moved \in Nat

\* An orderly host's next read is what it takes it for: data while data is
\* due, then the wrapper of the running command.  Device and host count the
\* packets of a command each on their own.
PhasesAgree ==
  /\ TypeOK
  /\ (scene.host = "orderly" /\ armed) =>
       \/ hst = "in" /\ Head(tx) \in {Data, Short}
       \/ hst = "status" /\ Head(tx).kind = "csw" /\ Head(tx).tag = htag

\* As long as interrupts are served in time, a packet is put in the transmit
\* FIFO only when the one before has gone, although nothing in
\* UsbEndpoint::Write or MsClass checks it; and between two commands, when both
\* sides have come to rest, the device waits for a command and the FIFOs are
\* empty, also after a failed command and a reset recovery.  A command that
\* left the device elsewhere would spoil the next one, not itself.
InStep ==
  Prompt =>
    /\ Len(tx) <= 1
    /\ (hst = "idle" /\ Idle /\ ~xfrc) =>
          stage = "CBW" /\ tx = << >> /\ "in" \notin stalled

\* In a data stage the storage has something left to transfer and the residue
\* covers it, so neither of the two unsigned counts wraps around in the packet
\* that is next.  The one exception is a WRITE or VERIFY of the hasty host: the
\* packet after a bus reset, a new command, is stored as data, and from there
\* on rwlen passes by 0 and the transfer runs on until the class is reset.
NeverPastEnd ==
  stage \in {"DATA_IN", "DATA_OUT"} =>
    \/ left > 0 /\ csw.residue >= left
    \/ left = Skewed /\ stage = "DATA_OUT" /\ ~Prompt

\* Three counts of one transfer agree: what the host has moved, what is in the
\* FIFOs and what the storage still expects make up the length, and the
\* residue to be reported is what is left, or all when there is sense data.
\* The counts are for an orderly host.
Accounting ==
  scene.host = "orderly" /\ stage \in {"DATA_IN", "DATA_OUT"} =>
    LET sent == Len(tx)
        due  == (IF rx = <<Data>> THEN 1 ELSE 0) + (IF isr = <<Data>> THEN 1 ELSE 0)
    IN  /\ left > 0
        /\ cbw.len = left + (IF stage = "DATA_IN" THEN moved + sent ELSE moved - due)
        /\ csw.residue = IF sense = "none" THEN left ELSE cbw.len

\* A host that sends well-formed commands never needs to reset the device.
NoRecovery == scene.host = "orderly" => hst \notin {"reset", "clrIn", "clrOut"}

\* A status of passed tells the truth: the residue is what the host did not
\* move, and a READ, WRITE or VERIFY has moved all of its data; interrupts are
\* served in time.
Accept == hst \in {"status", "retry"} /\ hst' = "idle" /\ xfrc'

StatusTruthful ==
  [][(Prompt /\ Accept /\ Head(tx).status = "passed") =>
        /\ Head(tx).residue = hcmd.len - moved
        /\ hcmd.op \in {"READ", "WRITE", "VERIFY"} => moved = hcmd.len]_vars

\* Whatever is asked of the device, the host gets out of the command: with a
\* status or, at the worst, through a reset.
CommandEnds == (hst # "idle") ~> (hst = "idle")
=============================================================================
