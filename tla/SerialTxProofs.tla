--------------------------- MODULE SerialTxProofs ---------------------------
(***************************************************************************)
(* SerialTx for every size of the Fifo and of a packet, in every wiring    *)
(* and in every interleaving of the main program with the interrupts: no   *)
(* byte that a Fifo has taken is lost, doubled or overtaken.               *)
(***************************************************************************)
EXTENDS SerialTx, SequenceTheorems, TLAPS

\* The second conjunct of Conserved: where the bytes are.
Order == fed = got \o wire \o dr \o txBuf \o tx

\* The class that is not in use is silent, and Echo does not use the main
\* program.
Wired ==
  /\ wiring = "usart" => /\ wire = << >> /\ ~xfrc /\ ~ack /\ out = << >> /\ txBuf = << >>
                         /\ pc \notin {"send", "fill", "put", "clear"}
  /\ wiring # "usart" => dr = << >> /\ ~txeie /\ pc # "enable"
  /\ wiring = "cdc"   => out = << >>
  /\ wiring = "echo"  => pc = "idle"

\* What usbtx_rdy protects.  While it is set the transmitter is empty and no
\* fetch is outstanding, so that the interrupt does not come between the test
\* in Send of the main program and the packet it hands over; between the
\* packet and the assignment usbtx_rdy = 0 ("clear") it may come.  While the
\* handler is about to clear XFRC the flag stands for the fetch it has served.
Guarded ==
  /\ pc \in {"fill", "put"} => rdy
  /\ rdy /\ pc # "clear"    => wire = << >> /\ (xfrc => ack)
  /\ xfrc /\ ~ack           => wire = << >>
  /\ ack                    => xfrc
  /\ txBuf # << >>          => pc \in {"fill", "put"}

\* The bytes that BlockDown has still to hand down have numbers left.
Numbered ==
  /\ pc \in {"idle", "down"} => n = 0
  /\ pc = "idle" => req = 0
  /\ req - n <= Total + 1 - next

\* The inductive invariant.
IInv == TypeOK /\ Order /\ Wired /\ Guarded /\ Numbered

-----------------------------------------------------------------------------
(* Sequences                                                               *)

\* A byte that is appended to the last part is appended to the whole.
LEMMA AppendLast ==
  \A a, b \in Seq(Byte), e \in Byte : Append(a \o b, e) = a \o Append(b, e)
<1> TAKE a, b \in Seq(Byte), e \in Byte
<1>1. a \o b \in Seq(Byte) /\ <<e>> \in Seq(Byte)
  BY ConcatProperties
<1>2. Append(a \o b, e) = (a \o b) \o <<e>> /\ Append(b, e) = b \o <<e>>
  BY <1>1, AppendIsConcat
<1> QED
  BY <1>1, <1>2, ConcatAssociative

\* A queue is its head and the rest.
LEMMA HeadAndTail ==
  ASSUME NEW S, NEW q \in Seq(S), q # << >>
  PROVE  /\ Head(q) \in S /\ Tail(q) \in Seq(S) /\ Len(Tail(q)) = Len(q) - 1
         /\ q = <<Head(q)>> \o Tail(q)
<1>1. /\ Head(q) \in S /\ Tail(q) \in Seq(S) /\ Len(Tail(q)) = Len(q) - 1
      /\ \A i \in 1 .. Len(Tail(q)) : Tail(q)[i] = q[i + 1]
      /\ Len(q) \in Nat \ {0} /\ Head(q) = q[1]
  BY HeadTailProperties, EmptySeq
<1> DEFINE h == <<Head(q)>>
<1>2. h \in Seq(S) /\ Len(h) = 1 /\ h[1] = Head(q)
  BY <1>1
<1>3. /\ h \o Tail(q) \in Seq(S) /\ Len(h \o Tail(q)) = Len(q)
      /\ \A i \in 1 .. Len(q) : (h \o Tail(q))[i] = IF i <= 1 THEN h[i] ELSE Tail(q)[i - 1]
  BY <1>1, <1>2, ConcatProperties
<1>4. \A i \in 1 .. Len(q) : q[i] = (h \o Tail(q))[i]
  BY <1>1, <1>2, <1>3
<1>5. q = h \o Tail(q)
  BY <1>3, <1>4, SeqEqual
<1> QED
  BY <1>1, <1>5

\* A byte that leaves a queue and is appended to what is before it.
LEMMA MoveHead ==
  ASSUME NEW S, NEW a \in Seq(S), NEW q \in Seq(S), q # << >>
  PROVE  a \o q = Append(a, Head(q)) \o Tail(q)
<1>1. /\ Head(q) \in S /\ Tail(q) \in Seq(S) /\ q = <<Head(q)>> \o Tail(q)
  BY HeadAndTail
<1>2. <<Head(q)>> \in Seq(S)
  BY <1>1
<1>3. a \o (<<Head(q)>> \o Tail(q)) = (a \o <<Head(q)>>) \o Tail(q)
  BY <1>1, <1>2, ConcatAssociative
<1>4. Append(a, Head(q)) = a \o <<Head(q)>>
  BY <1>1, AppendIsConcat
<1> QED
  BY <1>1, <1>3, <1>4

\* A queue is its first k bytes and the rest.
LEMMA FrontAndRest ==
  ASSUME NEW S, NEW q \in Seq(S), NEW k \in 0 .. Len(q)
  PROVE  /\ SubSeq(q, 1, k) \in Seq(S) /\ Len(SubSeq(q, 1, k)) = k
         /\ SubSeq(q, k + 1, Len(q)) \in Seq(S)
         /\ Len(SubSeq(q, k + 1, Len(q))) = Len(q) - k
         /\ q = SubSeq(q, 1, k) \o SubSeq(q, k + 1, Len(q))
<1>1. Len(q) \in Nat /\ \A i \in 1 .. Len(q) : q[i] \in S
  BY LenProperties, ElementOfSeq
<1>2. SubSeq(q, 1, k) \in Seq(S) /\ Len(SubSeq(q, 1, k)) = k
  BY <1>1, SubSeqProperties
<1>3. SubSeq(q, k + 1, Len(q)) \in Seq(S) /\ Len(SubSeq(q, k + 1, Len(q))) = Len(q) - k
  BY <1>1, SubSeqProperties
<1>4. SubSeq(q, 1, k) \o SubSeq(q, k + 1, Len(q)) = SubSeq(q, 1, Len(q))
  <2>1. 1 \in 1 .. Len(q) + 1 /\ k \in 1 - 1 .. Len(q) /\ Len(q) \in k .. Len(q)
    BY <1>1
  <2> QED
    BY <2>1, ConcatAdjacentSubSeq
<1>5. SubSeq(q, 1, Len(q)) = q
  BY SubSeqFull
<1> QED
  BY <1>2, <1>3, <1>4, <1>5

\* What lies behind the first part of a sequence.
LEMMA Behind ==
  ASSUME NEW S, NEW a \in Seq(S), NEW b \in Seq(S)
  PROVE  SubSeq(a \o b, Len(a) + 1, Len(a \o b)) = b
<1>1. /\ Len(a) \in Nat /\ Len(b) \in Nat
      /\ a \o b \in Seq(S) /\ Len(a \o b) = Len(a) + Len(b)
      /\ \A i \in 1 .. Len(a) + Len(b) :
            (a \o b)[i] = IF i <= Len(a) THEN a[i] ELSE b[i - Len(a)]
  BY LenProperties, ConcatProperties
<1> DEFINE r == SubSeq(a \o b, Len(a) + 1, Len(a \o b))
<1>2. r \in Seq(S) /\ Len(r) = Len(b)
  BY <1>1, FrontAndRest
<1>3. \A i \in 1 .. Len(b) : r[i] = (a \o b)[Len(a) + i]
  <2>1. \A i \in Len(a) + 1 .. Len(a \o b) : (a \o b)[i] \in S
    BY <1>1, ElementOfSeq
  <2>2. \A i \in 1 .. Len(a \o b) - (Len(a) + 1) + 1 : r[i] = (a \o b)[(Len(a) + 1) + i - 1]
    BY <1>1, <2>1, SubSeqProperties
  <2> QED
    BY <1>1, <2>2
<1>4. \A i \in 1 .. Len(r) : r[i] = b[i]
  BY <1>1, <1>2, <1>3
<1> QED
  BY <1>2, <1>4, SeqEqual
-----------------------------------------------------------------------------
(* Wiring, flags and counters                                              *)

\* Send hands a packet over and takes the ready flag back, or does nothing.
LEMMA SendSteps ==
  ASSUME NEW q, NEW r, Send(q, r)
  PROVE  \/ r /\ q # << >> /\ rdy' = FALSE
         \/ tx' = q /\ rdy' = r /\ wire' = wire
BY Zenon DEF Send

\* No step touches the class that is not in use.
LEMMA NextWired == IInv /\ [Next]_vars => Wired'
<1> SUFFICES ASSUME IInv, [Next]_vars PROVE Wired'
  OBVIOUS
<1>i. TypeOK /\ Wired /\ Guarded
  BY DEF IInv
<1>1. ASSUME NEW len \in Byte, Start(len) PROVE Wired'
  BY <1>1, <1>i DEF Start, Wired, cdc, usart
<1>2. ASSUME NEW len \in Byte, HostSends(len) PROVE Wired'
  BY <1>2, <1>i DEF HostSends, Wired, usart, main
<1>3. CASE Down \/ WriteByte \/ WriteEnds \/ Enable
  <2>1. CASE Down
    BY <2>1, <1>i DEF Down, Wired, cdc, usart
  <2>2. CASE WriteByte
    BY <2>2, <1>i DEF WriteByte, Wired, cdc, usart
  <2>3. CASE WriteEnds
    BY <2>3, <1>i DEF WriteEnds, Return, Wired, cdc, usart
  <2>4. CASE Enable
    BY <2>4, <1>i DEF Enable, Return, Wired, cdc, usart
  <2> QED
    BY <1>3, <2>1, <2>2, <2>3, <2>4
<1>4. CASE SendTest \/ SendFill \/ SendPut \/ SendClear
  BY <1>4, <1>i, SerialAssumption
     DEF SendTest, SendFill, SendPut, SendClear, Return, Wired, cdc, usart, TypeOK
<1>5. CASE InEvent \/ InAck \/ OutEvent
  <2>1. /\ wiring' = wiring /\ pc' = pc /\ txBuf' = txBuf /\ dr' = dr /\ txeie' = txeie
        /\ out' = out \/ out' = << >>
    BY <1>5 DEF InEvent, InAck, OutEvent, usart, main
  <2>2. wiring # "usart"
    BY <1>5, <1>i DEF InEvent, InAck, OutEvent, Wired
  <2> QED
    BY <1>i, <2>1, <2>2 DEF Wired
<1>6. CASE UsartIrq \/ Shift
  BY <1>6, <1>i DEF UsartIrq, Shift, Wired, cdc, main
<1>7. CASE Fetch \/ SetDTR \/ BusReset
  BY <1>7, <1>i DEF Fetch, SetDTR, BusReset, Wired, usart, main
<1>8. CASE UNCHANGED vars
  BY <1>8, <1>i DEF vars, Wired
<1> QED
  BY <1>1, <1>2, <1>3, <1>4, <1>5, <1>6, <1>7, <1>8 DEF Next, Main

\* usbtx_rdy stays down while a packet is with Send or on its way.
LEMMA NextGuarded == IInv /\ [Next]_vars => Guarded'
<1> SUFFICES ASSUME IInv, [Next]_vars PROVE Guarded'
  OBVIOUS
<1>i. TypeOK /\ Wired /\ Guarded
  BY DEF IInv
<1>1. ASSUME NEW len \in Byte, Start(len) PROVE Guarded'
  BY <1>1, <1>i DEF Start, Guarded, cdc, usart
<1>2. ASSUME NEW len \in Byte, HostSends(len) PROVE Guarded'
  BY <1>2, <1>i DEF HostSends, Guarded, usart, main
<1>3. CASE Down \/ WriteByte \/ WriteEnds \/ Enable
  BY <1>3, <1>i DEF Down, WriteByte, WriteEnds, Enable, Return, Guarded, cdc, usart
<1>4. CASE SendTest \/ SendFill \/ SendPut \/ SendClear
  BY <1>4, <1>i DEF SendTest, SendFill, SendPut, SendClear, Return, Guarded, cdc, usart
<1>5. CASE InEvent
  <2>1. /\ xfrc /\ ~ack /\ xfrc' = xfrc /\ ack' = TRUE
        /\ Send(tx, TRUE) /\ pc' = pc /\ txBuf' = txBuf
    BY <1>5 DEF InEvent, main
  <2>2. rdy' = FALSE \/ wire' = wire
    BY <2>1, SendSteps
  <2>3. wire = << >> /\ pc \notin {"fill", "put"}
    BY <1>i, <2>1 DEF Guarded
  <2> QED
    BY <1>i, <2>1, <2>2, <2>3 DEF Guarded
<1>6. CASE OutEvent
  <2>1. /\ pc' = pc /\ txBuf' = txBuf /\ xfrc' = xfrc /\ ack' = ack /\ out # << >>
    BY <1>6 DEF OutEvent, main
  <2>2. pc = "idle" /\ txBuf = << >>
    BY <1>i, <2>1, SerialAssumption DEF Wired, Guarded, TypeOK
  <2>3. CASE enable
    <3>1. PICK q : Send(q, rdy)
      BY <1>6, <2>3 DEF OutEvent
    <3>2. (rdy /\ rdy' = FALSE) \/ (rdy' = rdy /\ wire' = wire)
      BY <3>1, SendSteps
    <3> QED
      BY <1>i, <2>1, <2>2, <3>2 DEF Guarded
  <2>4. CASE ~enable
    <3>1. rdy' = rdy /\ wire' = wire
      BY <1>6, <2>4 DEF OutEvent
    <3> QED
      BY <1>i, <2>1, <2>2, <3>1 DEF Guarded
  <2> QED
    BY <2>3, <2>4
<1>7. CASE UsartIrq \/ Shift
  BY <1>7, <1>i DEF UsartIrq, Shift, Guarded, cdc, main
<1>8. CASE Fetch \/ SetDTR \/ BusReset
  BY <1>8, <1>i DEF Fetch, SetDTR, BusReset, Guarded, usart, main
<1>9. CASE UNCHANGED vars
  BY <1>9, <1>i DEF vars, Guarded
<1>10. CASE InAck
  BY <1>10, <1>i DEF InAck, Guarded, usart, main
<1> QED
  BY <1>1, <1>2, <1>3, <1>4, <1>5, <1>6, <1>7, <1>8, <1>9, <1>10 DEF Next, Main

\* BlockDown hands down no more than it was called with.
LEMMA NextNumbered == IInv /\ [Next]_vars => Numbered'
<1> SUFFICES ASSUME IInv, [Next]_vars PROVE Numbered'
  OBVIOUS
<1>i. TypeOK /\ Wired /\ Numbered
  BY DEF IInv
<1>n. Total \in Nat /\ next \in Nat /\ req \in Nat /\ n \in Nat /\ n <= req
  BY <1>i, SerialAssumption DEF TypeOK
<1>1. ASSUME NEW len \in Byte, Start(len) PROVE Numbered'
  BY <1>1, <1>i, <1>n DEF Start, Numbered
<1>2. ASSUME NEW len \in Byte, HostSends(len) PROVE Numbered'
  <2>1. wiring = "echo" /\ pc' = pc /\ req' = req /\ n' = n /\ next' = next + len
    BY <1>2 DEF HostSends, main
  <2>2. len \in Nat /\ len <= Total + 1 - next
    BY <1>2, <1>n, SerialAssumption DEF HostSends, Least
  <2> QED
    BY <1>i, <1>n, <2>1, <2>2 DEF Wired, Numbered
<1>3. CASE Down \/ WriteByte \/ WriteEnds \/ Enable
  BY <1>3, <1>i, <1>n DEF Down, WriteByte, WriteEnds, Enable, Return, Numbered
<1>4. CASE SendTest \/ SendFill \/ SendPut \/ SendClear
  BY <1>4, <1>i, <1>n DEF SendTest, SendFill, SendPut, SendClear, Return, Numbered
<1>5. CASE InEvent \/ InAck \/ OutEvent
  BY <1>5, <1>i DEF InEvent, InAck, OutEvent, Numbered, main
<1>6. CASE UsartIrq \/ Shift
  BY <1>6, <1>i DEF UsartIrq, Shift, Numbered, main
<1>7. CASE Fetch \/ SetDTR \/ BusReset
  BY <1>7, <1>i DEF Fetch, SetDTR, BusReset, Numbered, main
<1>8. CASE UNCHANGED vars
  BY <1>8, <1>i DEF vars, Numbered
<1> QED
  BY <1>1, <1>2, <1>3, <1>4, <1>5, <1>6, <1>7, <1>8 DEF Next, Main

-----------------------------------------------------------------------------
(* Types                                                                   *)

\* What Send leaves is made of sequences of bytes, and no longer than before.
LEMMA SendTypes ==
  ASSUME TypeOK, NEW q \in Seq(Byte), NEW r \in BOOLEAN, Send(q, r)
  PROVE  /\ tx' \in Seq(Byte) /\ Len(tx') <= Len(q)
         /\ wire' \in Seq(Byte) /\ rdy' \in BOOLEAN
<1>1. Len(q) \in Nat /\ Packet \in Nat \ {0}
  BY SerialAssumption, LenProperties
<1>2. CASE r /\ q # << >>
  <2> DEFINE k == Least(Len(q), Packet)
  <2>1. k \in 0 .. Len(q)
    BY <1>1 DEF Least
  <2>2. wire' = SubSeq(q, 1, k) /\ tx' = SubSeq(q, k + 1, Len(q)) /\ rdy' = FALSE
    BY <1>2, Zenon DEF Send
  <2> HIDE DEF k
  <2>3. /\ SubSeq(q, 1, k) \in Seq(Byte)
        /\ SubSeq(q, k + 1, Len(q)) \in Seq(Byte)
        /\ Len(SubSeq(q, k + 1, Len(q))) = Len(q) - k
    BY <2>1, FrontAndRest
  <2>4. Len(q) - k <= Len(q)
    BY <1>1, <2>1
  <2> QED
    BY <2>2, <2>3, <2>4
<1>3. CASE ~ (r /\ q # << >>)
  <2>1. tx' = q /\ rdy' = r /\ wire' = wire
    BY <1>3, Zenon DEF Send
  <2> QED
    BY <1>1, <2>1 DEF TypeOK
<1> QED
  BY <1>2, <1>3

\* Every step of the main program, of the interrupts and of the host keeps the
\* types.
LEMMA NextTypeOK == IInv /\ [Next]_vars => TypeOK'
<1> SUFFICES ASSUME IInv, [Next]_vars PROVE TypeOK'
  OBVIOUS
<1>i. TypeOK /\ Wired /\ Numbered /\ Guarded
  BY DEF IInv
<1>n. /\ Total \in Nat /\ Depth \in Nat /\ Packet \in Nat
      /\ next \in Nat /\ req \in Nat /\ n \in Nat /\ n <= req
      /\ Len(tx) \in Nat /\ Len(txBuf) \in Nat
  BY <1>i, SerialAssumption, LenProperties DEF TypeOK
<1>1. ASSUME NEW len \in Byte, Start(len) PROVE TypeOK'
  <2>1. pc' = "down" /\ req' = len /\ n' = n /\ len \in 0 .. Total /\ n \in 0 .. len
    BY <1>1, <1>i, <1>n DEF Start, Numbered, Byte
  <2>2. UNCHANGED <<wiring, tx, cdc, usart, txBuf, next, fed, got, lost, missed>>
    BY <1>1 DEF Start
  <2> QED
    BY <1>i, <2>1, <2>2 DEF TypeOK, cdc, usart
<1>2. ASSUME NEW len \in Byte, HostSends(len) PROVE TypeOK'
  <2>1. len \in Nat /\ next + len <= Total + 1 /\ next \in 1 .. (Total + 1)
    BY <1>2, <1>i, <1>n DEF HostSends, Least, TypeOK
  <2>2. \A i \in 1 .. len : next + i - 1 \in Byte
    BY <1>n, <2>1 DEF Byte
  <2>3. out' \in Seq(Byte) /\ next' \in 1 .. (Total + 1)
    <3>1. out' = [i \in 1 .. len |-> next + i - 1] /\ next' = next + len
      BY <1>2 DEF HostSends
    <3> QED
      BY <1>n, <2>1, <2>2, <3>1
  <2>4. UNCHANGED <<wiring, tx, rdy, enable, wire, xfrc, ack, usart, main, fed, got, lost, missed>>
    BY <1>2 DEF HostSends
  <2> QED
    BY <1>i, <2>3, <2>4 DEF TypeOK, usart, main
<1>3. CASE Down
  BY <1>3, <1>i, <1>n DEF Down, Numbered, TypeOK, cdc, usart
<1>4. CASE WriteByte
  <2>1. next \in Byte /\ next' \in 1 .. (Total + 1) /\ n' \in 0 .. req /\ Len(tx) < Depth
    BY <1>4, <1>i, <1>n DEF WriteByte, HasRoom, Numbered, TypeOK, Byte
  <2>2. /\ Append(tx, next) \in Seq(Byte) /\ Len(Append(tx, next)) <= Depth
        /\ Append(fed, next) \in Seq(Byte)
    BY <1>i, <1>n, <2>1, AppendProperties DEF TypeOK
  <2>3. /\ tx' = Append(tx, next) /\ fed' = Append(fed, next)
        /\ UNCHANGED <<wiring, cdc, usart, pc, req, txBuf, got, lost, missed>>
    BY <1>4 DEF WriteByte
  <2> QED
    BY <1>i, <2>1, <2>2, <2>3 DEF TypeOK, cdc, usart
<1>r. Return => req' \in 0 .. Total /\ n' \in 0 .. req' /\ pc' \in {"idle", "down"}
  BY <1>i, <1>n DEF Return, TypeOK
<1>5. CASE WriteEnds \/ SendTest
  <2>1. req' \in 0 .. Total /\ n' \in 0 .. req' /\ pc' \in {"idle", "down", "enable", "send", "fill"}
    BY <1>5, <1>i, <1>r DEF WriteEnds, SendTest, TypeOK
  <2>2. UNCHANGED <<wiring, tx, cdc, usart, txBuf, next, fed, got, lost, missed>>
    BY <1>5 DEF WriteEnds, SendTest
  <2> QED
    BY <1>i, <2>1, <2>2 DEF TypeOK, cdc, usart
<1>6. CASE Enable
  BY <1>6, <1>i, <1>r DEF Enable, TypeOK, cdc
<1>7. CASE SendFill
  <2>1. CASE Len(txBuf) < Packet /\ tx # << >>
    <3>1. Head(tx) \in Byte /\ Tail(tx) \in Seq(Byte) /\ Len(Tail(tx)) = Len(tx) - 1
      BY <1>i, <2>1, HeadAndTail DEF TypeOK
    <3>2. Append(txBuf, Head(tx)) \in Seq(Byte) /\ Len(Append(txBuf, Head(tx))) <= Packet
      BY <1>i, <1>n, <2>1, <3>1, AppendProperties DEF TypeOK
    <3>3. /\ txBuf' = Append(txBuf, Head(tx)) /\ tx' = Tail(tx)
          /\ UNCHANGED <<pc, req, n, wiring, cdc, usart, next, fed, got, lost, missed>>
      BY <1>7, <2>1 DEF SendFill
    <3> QED
      BY <1>i, <1>n, <3>1, <3>2, <3>3 DEF TypeOK, cdc, usart
  <2>2. CASE ~ (Len(txBuf) < Packet /\ tx # << >>)
    <3>1. UNCHANGED <<tx, txBuf, wiring, cdc, usart, next, fed, got, lost, missed>>
      BY <1>7, <2>2 DEF SendFill
    <3>2. req' \in 0 .. Total /\ n' \in 0 .. req' /\ pc' \in {"idle", "down", "put"}
      BY <1>7, <2>2, <1>i, <1>r DEF SendFill, TypeOK
    <3> QED
      BY <1>i, <3>1, <3>2 DEF TypeOK, cdc, usart
  <2> QED
    BY <2>1, <2>2
<1>8. CASE SendPut
  BY <1>8, <1>i, <1>n, EmptySeq DEF SendPut, TypeOK, usart
<1>9. CASE SendClear
  <2>1. missed' \in BOOLEAN
    BY <1>9, Zenon DEF SendClear
  <2> QED
    BY <1>9, <1>i, <1>r, <2>1 DEF SendClear, TypeOK, usart
<1>10. CASE InEvent
  <2>1. Send(tx, TRUE) /\ ack' = TRUE
        /\ UNCHANGED <<wiring, enable, xfrc, out, usart, main, next, fed, got, lost, missed>>
    BY <1>10 DEF InEvent
  <2>2. /\ tx' \in Seq(Byte) /\ Len(tx') <= Len(tx)
        /\ wire' \in Seq(Byte) /\ rdy' \in BOOLEAN
    BY <1>i, <2>1, SendTypes DEF TypeOK
  <2>3. Len(tx') <= Depth
    BY <1>i, <1>n, <2>2, LenProperties DEF TypeOK
  <2> QED
    BY <1>i, <2>1, <2>2, <2>3 DEF TypeOK, usart, main
<1>11. CASE OutEvent
  <2>1. out' = << >> /\ UNCHANGED <<wiring, enable, xfrc, ack, usart, main, next, got, lost, missed>>
    BY <1>11 DEF OutEvent
  <2>2. /\ tx' \in Seq(Byte) /\ Len(tx') <= Depth
        /\ wire' \in Seq(Byte) /\ rdy' \in BOOLEAN /\ fed' \in Seq(Byte)
    <3>1. CASE enable
      <4> DEFINE k == Least(Len(out), Depth - Len(tx))
                 new == SubSeq(out, 1, k)
      <4>1. k \in 0 .. Len(out) /\ k <= Depth - Len(tx)
        BY <1>i, <1>n, LenProperties DEF TypeOK, Least
      <4>2. fed' = fed \o new /\ Send(tx \o new, rdy)
        BY <1>11, <3>1 DEF OutEvent
      <4>3. new \in Seq(Byte) /\ Len(new) = k
        <5> HIDE DEF k
        <5> QED
          BY <1>i, <4>1, FrontAndRest DEF TypeOK
      <4> HIDE DEF new, k
      <4>4. /\ tx \o new \in Seq(Byte) /\ Len(tx \o new) = Len(tx) + Len(new)
            /\ fed \o new \in Seq(Byte)
        BY <1>i, <4>3, ConcatProperties DEF TypeOK
      <4>5. /\ tx' \in Seq(Byte) /\ Len(tx') <= Len(tx \o new)
            /\ wire' \in Seq(Byte) /\ rdy' \in BOOLEAN
        BY <1>i, <4>2, <4>4, SendTypes DEF TypeOK
      <4>6. Len(tx') <= Depth
        BY <1>n, <4>1, <4>3, <4>4, <4>5, LenProperties
      <4> QED
        BY <4>2, <4>4, <4>5, <4>6
    <3>2. CASE ~enable
      BY <1>11, <1>i, <3>2 DEF OutEvent, TypeOK
    <3> QED
      BY <3>1, <3>2
  <2> QED
    BY <1>i, <2>1, <2>2, EmptySeq DEF TypeOK, usart, main
<1>12. CASE UsartIrq
  <2>1. CASE tx # << >>
    <3>1. Head(tx) \in Byte /\ Tail(tx) \in Seq(Byte) /\ Len(Tail(tx)) = Len(tx) - 1
      BY <1>i, <2>1, HeadAndTail DEF TypeOK
    <3>2. /\ dr' = <<Head(tx)>> /\ tx' = Tail(tx) /\ txeie' = txeie
          /\ UNCHANGED <<wiring, cdc, main, next, fed, got, lost, missed>>
      BY <1>12, <2>1 DEF UsartIrq
    <3>3. dr' \in Seq(Byte) /\ Len(dr') <= 1
      BY <3>1, <3>2
    <3> QED
      BY <1>i, <1>n, <3>1, <3>2, <3>3 DEF TypeOK, cdc, main
  <2>2. CASE tx = << >>
    BY <1>12, <1>i, <2>2 DEF UsartIrq, TypeOK, cdc, main
  <2> QED
    BY <2>1, <2>2
<1>13. CASE Shift
  <2>1. got \o dr \in Seq(Byte)
    BY <1>i, ConcatProperties DEF TypeOK
  <2>2. << >> \in Seq(Byte) /\ Len(<< >>) <= 1
    BY EmptySeq
  <2> QED
    BY <1>13, <1>i, <2>1, <2>2 DEF Shift, TypeOK, cdc, main
<1>14. CASE Fetch
  <2>1. got \o wire \in Seq(Byte) /\ << >> \in Seq(Byte)
    BY <1>i, ConcatProperties, EmptySeq DEF TypeOK
  <2> QED
    BY <1>14, <1>i, <2>1 DEF Fetch, TypeOK, usart, main
<1>15. CASE SetDTR
  <2>1. enable' \in BOOLEAN
    BY <1>15, Zenon DEF SetDTR
  <2> QED
    BY <1>15, <1>i, <2>1 DEF SetDTR, TypeOK, usart, main
<1>16. CASE BusReset
  <2> DEFINE rest == SubSeq(fed, Len(got) + Len(wire) + 1, Len(fed))
  <2>1. rest \in Seq(Byte)
    <3>1. /\ Len(got) \in Nat /\ Len(wire) \in Nat /\ Len(fed) \in Nat
          /\ \A j \in 1 .. Len(fed) : fed[j] \in Byte
      BY <1>i, LenProperties, ElementOfSeq DEF TypeOK
    <3>2. \A j \in Len(got) + Len(wire) + 1 .. Len(fed) : fed[j] \in Byte
      BY <3>1
    <3> QED
      BY <3>1, <3>2, SubSeqProperties
  <2>2. got \o rest \in Seq(Byte) /\ << >> \in Seq(Byte)
    BY <1>i, <2>1, ConcatProperties, EmptySeq DEF TypeOK
  <2> QED
    BY <1>16, <1>i, <2>2 DEF BusReset, TypeOK, usart, main
<1>17. CASE UNCHANGED vars
  BY <1>17, <1>i DEF vars, TypeOK
<1>18. CASE InAck
  <2>1. missed' \in BOOLEAN
    BY <1>18, Zenon DEF InAck
  <2> QED
    BY <1>18, <1>i, <2>1 DEF InAck, TypeOK, usart, main
<1> QED
  BY <1>1, <1>2, <1>3, <1>4, <1>5, <1>6, <1>7, <1>8, <1>9, <1>10, <1>11, <1>12,
     <1>13, <1>14, <1>15, <1>16, <1>17, <1>18 DEF Next, Main

-----------------------------------------------------------------------------
(* The order of the bytes                                                  *)

\* The bytes of the Fifo are in the right place when what left it and what
\* stays in it are.
LEMMA SendOrder ==
  ASSUME NEW q \in Seq(Byte), NEW r, Send(q, r), wire = << >>
  PROVE  wire' \o tx' = q
<1>1. Len(q) \in Nat /\ Packet \in Nat
  BY SerialAssumption, LenProperties
<1>2. CASE r /\ q # << >>
  <2> DEFINE k == Least(Len(q), Packet)
  <2>1. k \in 0 .. Len(q)
    BY <1>1 DEF Least
  <2>2. wire' = SubSeq(q, 1, k) /\ tx' = SubSeq(q, k + 1, Len(q))
    BY <1>2, Zenon DEF Send
  <2> HIDE DEF k
  <2>3. SubSeq(q, 1, k) \o SubSeq(q, k + 1, Len(q)) = q
    BY <2>1, FrontAndRest
  <2> QED
    BY <2>2, <2>3, Zenon
<1>3. CASE ~ (r /\ q # << >>)
  <2>1. tx' = q /\ wire' = << >>
    BY <1>3, Zenon DEF Send
  <2> QED
    BY <2>1, ConcatEmptySeq
<1> QED
  BY <1>2, <1>3

\* In a wiring that leaves two of the four buffers empty, only the others
\* count.
LEMMA EmptyBuffers ==
  ASSUME TypeOK
  PROVE  /\ (wire = << >> /\ txBuf = << >>)
               => got \o wire \o dr \o txBuf \o tx = got \o dr \o tx
         /\ (dr = << >> /\ txBuf = << >>)
               => got \o wire \o dr \o txBuf \o tx = got \o wire \o tx
         /\ (dr = << >> /\ wire = << >>)
               => got \o wire \o dr \o txBuf \o tx = got \o txBuf \o tx
<1>1. /\ got \in Seq(Byte) /\ wire \in Seq(Byte) /\ dr \in Seq(Byte)
      /\ txBuf \in Seq(Byte) /\ tx \in Seq(Byte)
  BY DEF TypeOK
<1>2. /\ got \o wire \in Seq(Byte) /\ got \o dr \in Seq(Byte)
      /\ got \o << >> = got
  BY <1>1, ConcatProperties, ConcatEmptySeq
<1>3. (got \o wire) \o << >> = got \o wire /\ (got \o dr) \o << >> = got \o dr
  BY <1>2, ConcatEmptySeq
<1> QED
  BY <1>2, <1>3

\* Concatenation of byte sequences, as the steps need it.
LEMMA Regroup == \A a, b, c \in Seq(Byte) : (a \o b) \o c = a \o (b \o c)
BY ConcatAssociative

\* An empty part at the end does not count.
LEMMA NothingMore == \A a \in Seq(Byte) : a \o << >> = a
BY ConcatEmptySeq

\* Every step keeps the bytes in order: it moves one from part to part, or adds
\* one at the end.
LEMMA NextOrder == IInv /\ [Next]_vars => Order'
<1> SUFFICES ASSUME IInv, [Next]_vars PROVE Order'
  OBVIOUS
<1>i. TypeOK /\ Order /\ Wired /\ Guarded
  BY DEF IInv
<1>t. TypeOK'
  BY NextTypeOK
<1>s. /\ got \in Seq(Byte) /\ wire \in Seq(Byte) /\ dr \in Seq(Byte)
      /\ txBuf \in Seq(Byte) /\ tx \in Seq(Byte) /\ fed \in Seq(Byte)
      /\ got' \in Seq(Byte) /\ wire' \in Seq(Byte) /\ dr' \in Seq(Byte)
      /\ txBuf' \in Seq(Byte) /\ tx' \in Seq(Byte)
  BY <1>i, <1>t DEF TypeOK
<1>e. /\ (wire = << >> /\ txBuf = << >>) => fed = got \o dr \o tx
      /\ (dr = << >> /\ txBuf = << >>) => fed = got \o wire \o tx
      /\ (dr = << >> /\ wire = << >>) => fed = got \o txBuf \o tx
  BY <1>i, EmptyBuffers DEF Order
<1>f. /\ (wire' = << >> /\ txBuf' = << >> /\ fed' = got' \o dr' \o tx') => Order'
      /\ (dr' = << >> /\ txBuf' = << >> /\ fed' = got' \o wire' \o tx') => Order'
      /\ (dr' = << >> /\ wire' = << >> /\ fed' = got' \o txBuf' \o tx') => Order'
  <2>1. /\ got' \o wire' \in Seq(Byte) /\ got' \o dr' \in Seq(Byte)
        /\ got' \o << >> = got'
    BY <1>s, ConcatProperties, ConcatEmptySeq
  <2>2. (got' \o wire') \o << >> = got' \o wire' /\ (got' \o dr') \o << >> = got' \o dr'
    BY <2>1, ConcatEmptySeq
  <2> QED
    BY <2>1, <2>2 DEF Order
<1>0. CASE UNCHANGED <<fed, got, wire, dr, txBuf, tx>>
  BY <1>0, <1>i DEF Order
<1>1. CASE WriteByte
  <2>1. got \o wire \o dr \o txBuf \in Seq(Byte)
    <3>1. got \o wire \in Seq(Byte)
      BY <1>s, ConcatProperties
    <3>2. got \o wire \o dr \in Seq(Byte)
      BY <1>s, <3>1, ConcatProperties
    <3> QED
      BY <1>s, <3>2, ConcatProperties
  <2>2. next \in Byte
    BY <1>1, <1>i, SerialAssumption DEF IInv, WriteByte, Numbered, TypeOK, Byte
  <2>3. Append(fed, next) = (got \o wire \o dr \o txBuf) \o Append(tx, next)
    <3> DEFINE a == got \o wire \o dr \o txBuf
    <3>1. a \in Seq(Byte) /\ fed = a \o tx
      BY <1>i, <2>1 DEF Order
    <3> HIDE DEF a
    <3>2. a \in Seq(Byte) /\ tx \in Seq(Byte) /\ next \in Byte
      BY <1>s, <2>2, <3>1
    <3>3. Append(a \o tx, next) = a \o Append(tx, next)
      BY <3>2, AppendLast, Zenon
    <3> QED
      BY <3>1, <3>3 DEF a
  <2> QED
    BY <1>1, <2>3 DEF WriteByte, Order, cdc, usart
<1>2. CASE SendFill
  <2>1. CASE Len(txBuf) < Packet /\ tx # << >>
    <3>1. wire = << >> /\ dr = << >> /\ pc = "fill"
      BY <1>2, <1>i DEF SendFill, Wired, Guarded
    <3>2. /\ txBuf' = Append(txBuf, Head(tx)) /\ tx' = Tail(tx)
          /\ fed' = fed /\ got' = got /\ wire' = wire /\ dr' = dr
      BY <1>2, <2>1 DEF SendFill, cdc, usart
    <3>3. txBuf \in Seq(Byte) /\ tx \in Seq(Byte)
      BY <1>s
    <3>4. txBuf \o tx = Append(txBuf, Head(tx)) \o Tail(tx)
      BY <2>1, <3>3, MoveHead
    <3>5. (got \o txBuf) \o tx = got \o (txBuf \o tx)
      <4>1. got \in Seq(Byte) /\ txBuf \in Seq(Byte) /\ tx \in Seq(Byte)
        BY <1>s
      <4> QED
        BY <4>1, Regroup, Zenon
    <3>6. (got \o txBuf') \o tx' = got \o (txBuf' \o tx')
      <4>1. got \in Seq(Byte) /\ txBuf' \in Seq(Byte) /\ tx' \in Seq(Byte)
        BY <1>s
      <4> QED
        BY <4>1, Regroup, Zenon
    <3> QED
      BY <1>e, <1>f, <3>1, <3>2, <3>4, <3>5, <3>6
  <2>2. CASE ~ (Len(txBuf) < Packet /\ tx # << >>)
    BY <1>0, <1>2, <2>2 DEF SendFill, cdc, usart
  <2> QED
    BY <2>1, <2>2
<1>3. CASE SendPut
  <2>1. wire = << >> /\ dr = << >>
    BY <1>3, <1>i DEF SendPut, Wired, Guarded
  <2>2. /\ wire' = txBuf /\ txBuf' = << >> /\ dr' = dr
        /\ fed' = fed /\ got' = got /\ tx' = tx
    BY <1>3 DEF SendPut, usart
  <2> QED
    BY <1>e, <1>f, <2>1, <2>2
<1>4. CASE InEvent
  <2>1. /\ xfrc /\ ~ack /\ Send(tx, TRUE) /\ dr' = dr /\ txBuf' = txBuf
        /\ fed' = fed /\ got' = got
    BY <1>4 DEF InEvent, usart, main
  <2>2. wire = << >> /\ dr = << >> /\ txBuf = << >>
    BY <1>i, <2>1 DEF Wired, Guarded
  <2>3. wire' \o tx' = tx
    BY <1>s, <2>1, <2>2, SendOrder
  <2>4. fed = got \o tx
    BY <1>e, <1>s, <2>2, ConcatEmptySeq
  <2>5. (got \o wire') \o tx' = got \o (wire' \o tx')
    <3>1. got \in Seq(Byte) /\ wire' \in Seq(Byte) /\ tx' \in Seq(Byte)
      BY <1>s
    <3> QED
      BY <3>1, Regroup, Zenon
  <2> QED
    BY <1>f, <2>1, <2>2, <2>3, <2>4, <2>5
<1>5. CASE OutEvent
  <2>1. out # << >> /\ dr' = dr /\ txBuf' = txBuf /\ got' = got /\ pc' = pc
    BY <1>5 DEF OutEvent, usart, main
  <2>2. wiring = "echo" /\ pc = "idle" /\ dr = << >> /\ txBuf = << >>
    BY <1>i, <2>1, SerialAssumption DEF Wired, Guarded, TypeOK
  <2>3. CASE enable
    <3> DEFINE k == Least(Len(out), Depth - Len(tx))
               new == SubSeq(out, 1, k)
               q == tx \o new
    <3>1. new \in Seq(Byte)
      <4>1. Len(out) \in Nat /\ Len(tx) \in Nat /\ Len(tx) <= Depth /\ Depth \in Nat
        BY <1>i, LenProperties, SerialAssumption DEF TypeOK
      <4>2. k \in 0 .. Len(out)
        BY <4>1 DEF Least
      <4> HIDE DEF k
      <4> QED
        BY <1>i, <4>2, FrontAndRest DEF TypeOK
    <3>2. fed' = fed \o new /\ Send(q, rdy)
      BY <1>5, <2>3 DEF OutEvent
    <3> HIDE DEF new
    <3>3. q \in Seq(Byte) /\ got \o wire \in Seq(Byte)
      BY <1>s, <3>1, ConcatProperties
    <3>4. fed \o new = (got \o wire) \o q
      <4>1. fed = (got \o wire) \o tx
        BY <1>e, <2>2
      <4>2. ((got \o wire) \o tx) \o new = (got \o wire) \o (tx \o new)
        <5> DEFINE a == got \o wire
        <5>1. a \in Seq(Byte)
          BY <3>3
        <5> HIDE DEF a
        <5>2. a \in Seq(Byte) /\ tx \in Seq(Byte) /\ new \in Seq(Byte)
          BY <1>s, <3>1, <5>1
        <5>3. (a \o tx) \o new = a \o (tx \o new)
          BY <5>2, ConcatAssociative
        <5> QED
          BY <5>3 DEF a
      <4> QED
        BY <4>1, <4>2
    <3>5. (got' \o wire') \o tx' = (got \o wire) \o q
      <4>1. CASE rdy
        <5>1. wire = << >>
          BY <1>i, <2>2, <4>1 DEF Guarded
        <5>2. wire' \o tx' = q
          BY <3>2, <3>3, <5>1, SendOrder
        <5>3. (got \o wire') \o tx' = got \o (wire' \o tx')
          <6>1. got \in Seq(Byte) /\ wire' \in Seq(Byte) /\ tx' \in Seq(Byte)
            BY <1>s
          <6> QED
            BY <6>1, Regroup, Zenon
        <5>4. got \o wire = got
          BY <1>s, <5>1, NothingMore
        <5> HIDE DEF q
        <5> QED
          BY <2>1, <5>2, <5>3, <5>4
      <4>2. CASE ~rdy
        BY <2>1, <3>2, <4>2, SendSteps
      <4> QED
        BY <4>1, <4>2
    <3> QED
      BY <1>f, <2>1, <2>2, <3>2, <3>4, <3>5
  <2>4. CASE ~enable
    BY <1>0, <1>5, <2>1, <2>4 DEF OutEvent
  <2> QED
    BY <2>3, <2>4
<1>6. CASE UsartIrq
  <2>1. CASE tx # << >>
    <3>1. /\ dr = << >> /\ dr' = <<Head(tx)>> /\ tx' = Tail(tx)
          /\ fed' = fed /\ got' = got /\ wire' = wire /\ txBuf' = txBuf
      BY <1>6, <2>1 DEF UsartIrq, cdc, main
    <3>2. wire = << >> /\ txBuf = << >>
      BY <1>6, <1>i, SerialAssumption DEF UsartIrq, Wired
    <3>3. tx = dr' \o tx'
      BY <1>s, <2>1, <3>1, HeadAndTail
    <3>4. (got \o dr') \o tx' = got \o (dr' \o tx')
      <4>1. got \in Seq(Byte) /\ dr' \in Seq(Byte) /\ tx' \in Seq(Byte)
        BY <1>s
      <4> QED
        BY <4>1, Regroup, Zenon
    <3>5. got \o << >> = got
      BY <1>s, NothingMore
    <3> QED
      BY <1>e, <1>f, <3>1, <3>2, <3>3, <3>4, <3>5
  <2>2. CASE tx = << >>
    BY <1>0, <1>6, <2>2 DEF UsartIrq, cdc, main
  <2> QED
    BY <2>1, <2>2
<1>7. CASE Shift
  <2>1. /\ dr # << >> /\ got' = got \o dr /\ dr' = << >> /\ tx' = tx
        /\ fed' = fed /\ wire' = wire /\ txBuf' = txBuf
    BY <1>7 DEF Shift, cdc, main
  <2>2. wire = << >> /\ txBuf = << >>
    BY <1>i, <2>1 DEF Wired
  <2>3. got' \o << >> = got'
    BY <1>s, ConcatEmptySeq
  <2> QED
    BY <1>e, <1>f, <2>1, <2>2, <2>3
<1>8. CASE Fetch
  <2>1. /\ wire # << >> /\ got' = got \o wire /\ wire' = << >> /\ tx' = tx
        /\ fed' = fed /\ dr' = dr /\ txBuf' = txBuf
    BY <1>8 DEF Fetch, usart, main
  <2>2. dr = << >> /\ txBuf = << >>
    BY <1>i, <2>1 DEF Wired, Guarded
  <2>3. got' \o << >> = got'
    BY <1>s, ConcatEmptySeq
  <2> QED
    BY <1>e, <1>f, <2>1, <2>2, <2>3
<1>9. CASE BusReset
  <2>1. /\ wire # << >> /\ wire' = << >> /\ tx' = tx /\ dr' = dr /\ txBuf' = txBuf
        /\ got' = got /\ fed' = got \o SubSeq(fed, Len(got) + Len(wire) + 1, Len(fed))
    BY <1>9 DEF BusReset, usart, main
  <2>2. dr = << >> /\ txBuf = << >>
    BY <1>i, <2>1 DEF Wired, Guarded
  <2>3. fed = (got \o wire) \o tx /\ got \o wire \in Seq(Byte)
        /\ Len(got \o wire) = Len(got) + Len(wire)
    BY <1>e, <1>s, <2>2, ConcatProperties
  <2>4. SubSeq(fed, Len(got) + Len(wire) + 1, Len(fed)) = tx
    BY <1>s, <2>3, Behind
  <2>5. got \o << >> = got
    BY <1>s, ConcatEmptySeq
  <2> QED
    BY <1>f, <2>1, <2>2, <2>4, <2>5
<1>10. ASSUME NEW len \in Byte, Start(len) \/ HostSends(len) PROVE Order'
  BY <1>0, <1>10 DEF Start, HostSends, cdc, usart, main
<1>11. CASE Down \/ WriteEnds \/ Enable \/ SendTest \/ SendClear \/ SetDTR \/ InAck
  BY <1>0, <1>11
     DEF Down, WriteEnds, Enable, SendTest, SendClear, SetDTR, InAck, cdc, usart, main
<1>12. CASE UNCHANGED vars
  BY <1>0, <1>12 DEF vars
<1> QED
  BY <1>1, <1>2, <1>3, <1>4, <1>5, <1>6, <1>7, <1>8, <1>9, <1>10, <1>11, <1>12 DEF Next, Main

\* The initial states satisfy the invariant.
LEMMA InitIInv == Init => IInv
<1> SUFFICES ASSUME Init PROVE IInv
  OBVIOUS
<1>1. << >> \in Seq(Byte) /\ Len(<< >>) = 0 /\ Total \in Nat /\ Depth \in Nat /\ Packet \in Nat
  BY EmptySeq, SerialAssumption
<1>2. TypeOK
  <2>1. /\ wiring \in Wirings /\ tx = << >> /\ wire = << >> /\ out = << >> /\ dr = << >>
        /\ pc = "idle" /\ req = 0 /\ n = 0 /\ txBuf = << >>
        /\ next = 1 /\ fed = << >> /\ got = << >>
    BY DEF Init
  <2>2. /\ rdy \in BOOLEAN /\ enable \in BOOLEAN /\ xfrc \in BOOLEAN
        /\ ack \in BOOLEAN /\ missed \in BOOLEAN /\ txeie \in BOOLEAN /\ lost \in BOOLEAN
    BY Zenon DEF Init
  <2> QED
    BY <1>1, <2>1, <2>2 DEF TypeOK
<1>3. Order
  <2>1. << >> \o << >> = << >>
    BY <1>1, ConcatEmptySeq
  <2> QED
    BY <2>1 DEF Init, Order
<1>4. Wired /\ Guarded /\ Numbered
  BY <1>1 DEF Init, Wired, Guarded, Numbered
<1> QED
  BY <1>2, <1>3, <1>4 DEF IInv

\* The invariant holds in every state.
THEOREM Invariance == Spec => []IInv
<1>1. IInv /\ [Next]_vars => IInv'
  BY NextTypeOK, NextOrder, NextWired, NextGuarded, NextNumbered DEF IInv
<1> QED
  BY InitIInv, <1>1, PTL DEF Spec

-----------------------------------------------------------------------------
\* Every byte a Fifo has taken is in one place, and in order, whatever the sizes
\* of the Fifo and of a packet: Send of the main program and Send of the
\* interrupt never read the Fifo or fill the transmitter at the same time.
THEOREM BytesConserved == Spec => []Conserved
<1>1. IInv => Conserved
  BY DEF IInv, Order, Conserved
<1> QED
  BY <1>1, Invariance, PTL

\* The interrupt does not find usbtx_rdy set while a packet is on its way or
\* its event has still to be served, but between the packet and the assignment
\* in Send of the main program.
THEOREM ReadyMeansEmpty ==
  Spec => [](rdy /\ pc # "clear" => wire = << >> /\ (xfrc => ack))
BY Invariance, PTL DEF IInv, Guarded

=============================================================================
