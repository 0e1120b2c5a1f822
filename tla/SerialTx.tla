------------------------------ MODULE SerialTx ------------------------------
(***************************************************************************)
(* The two classes that transmit through a Fifo, CdClass and UsartClass,   *)
(* and what is put on top of them: Print, which the main program calls, or *)
(* Echo, which runs in the interrupt.  One wiring is examined at a time:   *)
(*                                                                         *)
(*   "usart"  Print over UsartClass                                        *)
(*   "cdc"    Print over CdClass                                           *)
(*   "echo"   Echo over CdClass                                            *)
(*                                                                         *)
(* A method that the main program runs may be interrupted between any two  *)
(* of its accesses to what the interrupt uses too; the interrupt handlers  *)
(* run to their end, but the host may fetch a packet while the handler is  *)
(* still about the one before.  The calls of Fifo::Write and Fifo::Read are atomic,  *)
(* which is what Fifo and FifoProofs show of one writer and one reader.    *)
(* The bytes are numbered as they are produced.                            *)
(***************************************************************************)
EXTENDS Integers, Sequences

CONSTANTS
  Depth,   \* capacity of the Fifo (64 in both classes)
  Packet,  \* bytes in a packet (USB_MAX_NON_ISO_SIZE)
  Total,   \* bytes produced in all (bound)
  Wirings, \* the wirings to examine
  Resets   \* the host may reset the bus

ASSUME SerialAssumption ==
  /\ Depth \in Nat \ {0} /\ Packet \in Nat \ {0} /\ Total \in Nat
  /\ Wirings \subseteq {"usart", "cdc", "echo"}
  /\ Resets \in BOOLEAN

Byte == 1 .. Total

VARIABLES
  wiring,
  tx,     \* the Fifo of the class
  rdy,    \* CdClass: usbtx_rdy
  enable, \* CdClass: send_enable, DTR of the host
  wire,   \* the packet in the transmit FIFO of the data endpoint
  xfrc,   \* DIEPINT_XFRC: a packet was fetched, the interrupt is pending
  ack,    \* the IN event is served, the handler is about to clear XFRC
  out,    \* << >> or the packet received on the data endpoint
  txeie,  \* UsartClass: TXEIE of CR1
  dr,     \* UsartClass: << >> (TXE set) or the byte in DR
  pc,     \* what the main program does next
  req,    \* BlockDown: bytes still to be handed down
  n,      \* Down: bytes taken by this call
  txBuf,  \* Send, called by the main program: the bytes collected
  next,   \* number of the next byte
  fed,    \* the bytes the Fifo has taken
  got,    \* the bytes the other end has received
  lost,   \* a packet was flushed by a bus reset
  missed  \* the end of a packet has passed without usbtx_rdy being set for it

cdc   == <<rdy, enable, wire, xfrc, ack, out>>
usart == <<txeie, dr>>
main  == <<pc, req, n, txBuf>>
vars  == <<wiring, tx, rdy, enable, wire, xfrc, ack, out, txeie, dr, pc, req, n, txBuf,
           next, fed, got, lost, missed>>

Least(a, b) == IF a <= b THEN a ELSE b

\* Mutant: one byte too many.
HasRoomLate == Len(tx) <= Depth

HasRoom == Len(tx) < Depth

-----------------------------------------------------------------------------
(* The main program: Print::BlockDown over Down of one of the classes      *)

Start(len) ==
  /\ pc = "idle" /\ wiring # "echo" /\ ~ack
  /\ len \in 1 .. (Total + 1 - next)
  /\ req' = len
  /\ pc' = "down"
  /\ UNCHANGED <<wiring, tx, cdc, usart, n, txBuf, next, fed, got, lost, missed>>

\* CdClass::Down throws the data away while DTR is off.
Down ==
  /\ pc = "down"
  /\ IF wiring = "cdc" /\ ~enable
       THEN pc' = "idle" /\ req' = 0 /\ next' = next + req
       ELSE pc' = "write" /\ UNCHANGED <<req, next>>
  /\ n' = 0
  /\ UNCHANGED <<wiring, tx, cdc, usart, txBuf, fed, got, lost, missed>>

\* The loop over tx.Write.
WriteByte ==
  /\ pc = "write" /\ n < req /\ HasRoom
  /\ tx' = Append(tx, next)
  /\ fed' = Append(fed, next)
  /\ next' = next + 1
  /\ n' = n + 1
  /\ UNCHANGED <<wiring, cdc, usart, pc, req, txBuf, got, lost, missed>>

\* BlockDown calls Down again until everything is taken.
Return ==
  /\ req' = req - n
  /\ n' = 0
  /\ pc' = IF req' = 0 THEN "idle" ELSE "down"

WriteEnds ==
  /\ pc = "write" /\ (n = req \/ ~HasRoom)
  /\ IF wiring = "usart" /\ n = 0
       THEN Return
       ELSE pc' = (IF wiring = "usart" THEN "enable" ELSE "send") /\ UNCHANGED <<req, n>>
  /\ UNCHANGED <<wiring, tx, cdc, usart, txBuf, next, fed, got, lost, missed>>

\* UsartClass::Down: CR1 |= TXEIE.  The interrupt changes no other bit of CR1,
\* so it does not matter when CR1 was read.
Enable ==
  /\ pc = "enable"
  /\ txeie' = TRUE
  /\ Return
  /\ UNCHANGED <<wiring, tx, cdc, dr, txBuf, next, fed, got, lost, missed>>

\* CdClass::Send, called by Down.
SendTest ==
  /\ pc = "send"
  /\ IF rdy THEN pc' = "fill" /\ UNCHANGED <<req, n>> ELSE Return
  /\ UNCHANGED <<wiring, tx, cdc, usart, txBuf, next, fed, got, lost, missed>>

\* The loop over tx.Read.
SendFill ==
  /\ pc = "fill"
  /\ IF Len(txBuf) < Packet /\ tx # << >>
       THEN /\ txBuf' = Append(txBuf, Head(tx))
            /\ tx' = Tail(tx)
            /\ UNCHANGED <<pc, req, n>>
       ELSE /\ IF txBuf = << >> THEN Return ELSE pc' = "put" /\ UNCHANGED <<req, n>>
            /\ UNCHANGED <<tx, txBuf>>
  /\ UNCHANGED <<wiring, cdc, usart, next, fed, got, lost, missed>>

\* data.ep.Write.  A packet that has not gone yet would be spoilt.
SendPut ==
  /\ pc = "put"
  /\ wire' = txBuf
  /\ txBuf' = << >>
  /\ pc' = "clear"
  /\ UNCHANGED <<wiring, tx, rdy, enable, xfrc, ack, out, usart, req, n, next, fed, got, lost, missed>>

\* usbtx_rdy = 0, after the packet was offered to the host.  When it has been
\* fetched and its event served by then, the 1 of the handler is overwritten.
SendClear ==
  /\ pc = "clear"
  /\ rdy' = FALSE
  /\ missed' = (missed \/ (wire = << >> /\ ~xfrc))
  /\ Return
  /\ UNCHANGED <<wiring, tx, enable, wire, xfrc, ack, out, usart, txBuf, next, fed, got, lost>>

\* The main program stands still while the handler runs.
Main == ~ack /\ \/ Down \/ WriteByte \/ WriteEnds \/ Enable
                \/ SendTest \/ SendFill \/ SendPut \/ SendClear

-----------------------------------------------------------------------------
(* The USB interrupt                                                       *)

\* CdClass::Send in the interrupt, with queue q and ready flag r.
Send(q, r) ==
  IF r /\ q # << >>
    THEN LET k == Least(Len(q), Packet) IN
           /\ wire' = SubSeq(q, 1, k)
           /\ tx' = SubSeq(q, k + 1, Len(q))
           /\ rdy' = FALSE
    ELSE tx' = q /\ rdy' = r /\ UNCHANGED wire

\* USB_EVT_IN: usbtx_rdy = 1 and Send.
InEvent ==
  /\ xfrc /\ ~ack
  /\ ack' = TRUE
  /\ Send(tx, TRUE)
  /\ UNCHANGED <<wiring, enable, xfrc, out, usart, main, next, fed, got, lost, missed>>

\* Back in UsbHw::Handler, which clears XFRC: also the one of the packet just
\* written, when the host has fetched it already.
InAck ==
  /\ ack
  /\ ack' = FALSE /\ xfrc' = FALSE
  /\ missed' = (missed \/ (~rdy /\ wire = << >>))
  /\ UNCHANGED <<wiring, tx, rdy, enable, wire, out, usart, main, next, fed, got, lost>>

\* Mutant: Echo sends whether the transmitter is ready or not.
OutEventBlind ==
  /\ out # << >> /\ ~ack
  /\ out' = << >>
  /\ LET k == Least(Len(out), Depth - Len(tx)) IN
       IF enable
         THEN /\ fed' = fed \o SubSeq(out, 1, k)
              /\ Send(tx \o SubSeq(out, 1, k), TRUE)
         ELSE UNCHANGED <<tx, rdy, wire, fed>>
  /\ UNCHANGED <<wiring, enable, xfrc, ack, usart, main, next, got, lost, missed>>

\* USB_EVT_OUT: Recv, Echo::Up and CdClass::Down.  What does not fit in the
\* Fifo is dropped, since Echo does not look at what Down returns.
OutEvent ==
  /\ out # << >> /\ ~ack
  /\ out' = << >>
  /\ LET k == Least(Len(out), Depth - Len(tx)) IN
       IF enable
         THEN /\ fed' = fed \o SubSeq(out, 1, k)
              /\ Send(tx \o SubSeq(out, 1, k), rdy)
         ELSE UNCHANGED <<tx, rdy, wire, fed>>
  /\ UNCHANGED <<wiring, enable, xfrc, ack, usart, main, next, got, lost, missed>>

-----------------------------------------------------------------------------
(* The USART and its interrupt                                             *)

\* Mutant: the last byte is not sent.
UsartIrqEarly ==
  /\ txeie /\ dr = << >>
  /\ IF Len(tx) > 1
       THEN /\ dr' = <<Head(tx)>> /\ tx' = Tail(tx)
            /\ UNCHANGED txeie
       ELSE txeie' = FALSE /\ UNCHANGED <<tx, dr>>
  /\ UNCHANGED <<wiring, cdc, main, next, fed, got, lost, missed>>

\* UsartClass::irq with TXE: the next byte, or the interrupt is disabled.
UsartIrq ==
  /\ txeie /\ dr = << >>
  /\ IF tx # << >>
       THEN /\ dr' = <<Head(tx)>> /\ tx' = Tail(tx)
            /\ UNCHANGED txeie
       ELSE txeie' = FALSE /\ UNCHANGED <<tx, dr>>
  /\ UNCHANGED <<wiring, cdc, main, next, fed, got, lost, missed>>

\* The byte leaves the transmitter.
Shift ==
  /\ dr # << >>
  /\ got' = got \o dr
  /\ dr' = << >>
  /\ UNCHANGED <<wiring, tx, cdc, txeie, main, next, fed, lost, missed>>

-----------------------------------------------------------------------------
(* The host                                                                *)

Fetch ==
  /\ wire # << >>
  /\ got' = got \o wire
  /\ wire' = << >>
  /\ xfrc' = TRUE
  /\ UNCHANGED <<wiring, tx, rdy, enable, ack, out, usart, main, next, fed, lost, missed>>

HostSends(len) ==
  /\ wiring = "echo" /\ out = << >>
  /\ len \in 1 .. Least(Packet, Total + 1 - next)
  /\ out' = [i \in 1 .. len |-> next + i - 1]
  /\ next' = next + len
  /\ UNCHANGED <<wiring, tx, rdy, enable, wire, xfrc, ack, usart, main, fed, got, lost, missed>>

\* CDC_SET_CONTROL_LINE_STATE: CdClass::SetCtrlLineState.
SetDTR ==
  /\ wiring # "usart" /\ ~ack
  /\ enable' = ~enable
  /\ UNCHANGED <<wiring, tx, rdy, wire, xfrc, ack, out, usart, main, next, fed, got, lost, missed>>

\* UsbHw::Reset and SET_CONFIGURATION flush the endpoint; CdClass is not told,
\* and no IN event comes for the packet.
BusReset ==
  /\ Resets /\ wire # << >> /\ ~xfrc /\ out = << >>
  /\ wire' = << >>
  /\ fed' = got \o SubSeq(fed, Len(got) + Len(wire) + 1, Len(fed))
  /\ lost' = TRUE
  /\ UNCHANGED <<wiring, tx, rdy, enable, xfrc, ack, out, usart, main, next, got, missed>>

-----------------------------------------------------------------------------
Init ==
  /\ wiring \in Wirings
  /\ tx = << >> /\ rdy = TRUE /\ enable = FALSE
  /\ wire = << >> /\ xfrc = FALSE /\ ack = FALSE /\ out = << >>
  /\ txeie = FALSE /\ dr = << >>
  /\ pc = "idle" /\ req = 0 /\ n = 0 /\ txBuf = << >>
  /\ next = 1 /\ fed = << >> /\ got = << >> /\ lost = FALSE /\ missed = FALSE

Next ==
  \/ \E len \in Byte : Start(len) \/ HostSends(len)
  \/ Main \/ InEvent \/ InAck \/ OutEvent \/ UsartIrq \/ Shift
  \/ Fetch \/ SetDTR \/ BusReset

\* A call that was begun is carried on, interrupts are taken, the line shifts
\* and a host that has opened the port reads it.
Fairness ==
  /\ WF_vars(Main) /\ WF_vars(InEvent) /\ WF_vars(InAck) /\ WF_vars(OutEvent)
  /\ WF_vars(UsartIrq) /\ WF_vars(Shift) /\ WF_vars(Fetch)

Spec == Init /\ [][Next]_vars /\ Fairness

-----------------------------------------------------------------------------
(* Properties                                                              *)

TypeOK ==
  /\ wiring \in Wirings
  /\ tx \in Seq(Byte) /\ Len(tx) <= Depth
  /\ rdy \in BOOLEAN /\ enable \in BOOLEAN /\ xfrc \in BOOLEAN /\ ack \in BOOLEAN
  /\ wire \in Seq(Byte) /\ out \in Seq(Byte)
  /\ txeie \in BOOLEAN /\ dr \in Seq(Byte) /\ Len(dr) <= 1
  /\ pc \in {"idle", "down", "write", "enable", "send", "fill", "put", "clear"}
  /\ req \in 0 .. Total /\ n \in 0 .. req
  /\ txBuf \in Seq(Byte) /\ Len(txBuf) <= Packet
  /\ next \in 1 .. (Total + 1)
  /\ fed \in Seq(Byte) /\ got \in Seq(Byte)
  /\ lost \in BOOLEAN /\ missed \in BOOLEAN

\* Every byte a Fifo has taken is in one place, and in order: received, on its
\* way, in the buffer of Send or in the Fifo.  Two contexts that read the Fifo
\* or fill the transmitter at the same time would lose or swap bytes; nothing
\* but usbtx_rdy keeps Send of the main program and of the interrupt apart.
Conserved ==
  /\ TypeOK
  /\ fed = got \o wire \o dr \o txBuf \o tx

\* What was taken is sent, in every wiring: although the interrupt of the USART
\* switches itself off when the Fifo is empty, and Send of CdClass gives up when
\* a packet is on its way and relies on the IN event of that packet to call it
\* again.  The exceptions are the three ways in which CdClass is left with
\* usbtx_rdy = 0 and no event to come: a bus reset flushes the packet, XFRC is
\* cleared behind the host's back (InAck), or the main program overwrites the
\* flag (SendClear).
Drains == []~(lost \/ missed) => ((got # fed) ~> (got = fed))
=============================================================================
