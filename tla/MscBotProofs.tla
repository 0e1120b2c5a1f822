---------------------------- MODULE MscBotProofs ----------------------------
(***************************************************************************)
(* MscBot for every size of a block, every set of commands and every       *)
(* medium: while interrupts are served in time, the host and MsClass are   *)
(* always in one of seven situations, in which both agree on what comes    *)
(* next or are both on the way to a reset recovery.                        *)
(***************************************************************************)
EXTENDS MscBot, SequenceTheorems, TLAPS

\* What is under way in the interrupt is at most the completion of a packet
\* the host has fetched.
Handled == isr = << >> \/ (isr = <<In>> /\ xfrc)

\* Nothing is offered to the host; one packet is, and the handler that wrote
\* it may not have ended.
Empty      == tx = << >> /\ ~armed
Offered(p) == tx = <<p>> /\ armed /\ (xfrc <=> isr = <<In>>) /\ Handled

\* Where the host is while its command runs without an error.
Expected == IF moved = hcmd.len THEN "status" ELSE Dir(hcmd)

Orderly == scene.host = "orderly"

\* A packet that is on its way to BulkOut.
Under(q) == IF q = <<Data>> THEN 1 ELSE 0

\* The residue r of a transfer that has met no error yet is what is left of
\* it, StorageMmc's in whole blocks; with sense data nothing is counted.
Exact(r, s, l) ==
  /\ s = "none" => IF scene.medium = "fat12" THEN r = l ELSE r < l + PPB
  /\ s # "none" /\ scene.medium = "fat12" => r = hcmd.len
  /\ Orderly => s \notin {"range", "fault"}

\* A wrapper the host accepts and that says passed tells the truth.
Truthful(w) ==
  w.tag = htag /\ w.status = "passed" =>
     /\ w.residue = hcmd.len - moved
     /\ hcmd.op \in {"READ", "WRITE", "VERIFY"} => moved = hcmd.len

\* 1. Between two commands.
AtRest ==
  /\ hst = "idle" /\ Empty /\ rx = << >> /\ Handled
  /\ stage = "CBW" \/ (stage = "CSW" /\ xfrc /\ isr = << >>)
  /\ "in" \notin stalled /\ (Orderly => stalled = {} /\ sense \notin {"range", "fault"})

\* 2. A reset recovery.
Recovering ==
  /\ hst \in {"reset", "clrIn", "clrOut"} /\ Empty /\ rx = << >> /\ Handled
  /\ ~Orderly
  /\ stage \in {"CBW", "ERROR"} \/ (stage = "CSW" /\ xfrc /\ isr = << >>)
  /\ hst # "reset" => stage = "CBW"
  /\ hst = "clrOut" => "in" \notin stalled

\* 3. The command is on its way; a first packet of data may follow it.
Sent ==
  /\ Empty /\ ~xfrc /\ stage = "CBW" /\ stalled = {} /\ hst = Expected
  /\ Orderly => sense \notin {"range", "fault"}
  /\ \/ rx = <<Cbw(hcmd, htag)>> /\ isr = << >> /\ moved = 0
     \/ /\ isr = <<Cbw(hcmd, htag)>>
        /\ \/ rx = << >> /\ moved = 0
           \/ rx = <<Data>> /\ moved = 1 /\ ~hcmd.in /\ hcmd.len > 0

\* 4. A WRITE or VERIFY takes its data.
Taking ==
  /\ Empty /\ ~xfrc /\ stage = "DATA_OUT" /\ stalled = {} /\ hst = Expected
  /\ ~hcmd.in /\ cbw = hcmd /\ csw.tag = htag
  /\ rx \in {<< >>, <<Data>>} /\ isr \in {<< >>, <<Data>>}
  /\ left \in Nat \ {0} /\ moved <= hcmd.len
  /\ hcmd.len = (left + moved) - (Under(rx) + Under(isr))
  /\ Exact(csw.residue, sense, left)

\* 5. Data is read: a packet is offered, or was fetched and is not handled.
Giving ==
  /\ stage \in {"DATA_IN", "DATA_IN_LAST", "DATA_IN_LAST_STALL"}
  /\ rx = << >> /\ stalled = {} /\ cbw = hcmd /\ csw.tag = htag /\ hcmd.in
  /\ Orderly => stage # "DATA_IN_LAST_STALL" /\ sense \notin {"range", "fault"}
  /\ \/ Offered(Data) /\ hst = "in" 
     \/ Offered(Short) /\ hst = "in" /\ moved = 0 /\ stage = "DATA_IN_LAST"
     \/ Empty /\ xfrc /\ isr = << >> /\ hst = IF stage = "DATA_IN" THEN "in" ELSE "status"
  /\ stage = "DATA_IN" =>
       /\ left \in Nat \ {0} /\ hcmd.len = left + moved + Len(tx)
       /\ hcmd.op = "READ" /\ tx # <<Short>> /\ Exact(csw.residue, sense, left)
  /\ stage # "DATA_IN" =>
       /\ csw.status \in {"passed", "failed"}
       /\ tx = <<Data>> => moved + 1 = hcmd.len
       /\ hcmd.op \in {"READ", "WRITE", "VERIFY"} =>
            tx # <<Short>> /\ hcmd.len = moved + Len(tx)
       /\ csw.status = "passed" => csw.residue = hcmd.len - (moved + Len(tx))

\* 6. The status is offered.
Answered ==
  /\ stage = "CSW" /\ rx = << >>
  /\ Offered(Csw(csw.tag, csw.residue, csw.status))
  /\ hst \in {"in", "out", "status", "retry"}
  /\ hst = "out" => "out" \in stalled
  /\ hst = "retry" => "in" \notin stalled
  /\ Truthful(csw)
  /\ Orderly => /\ hst = "status" /\ csw.tag = htag /\ csw.status # "phase" /\ stalled = {}
                /\ sense \notin {"range", "fault"}

\* 7. There is no answer: the wrapper was not valid, or the host has taken the
\* status for data.  A packet of data that came behind the wrapper is answered.
Silent ==
  /\ Empty /\ ~Orderly
  /\ hst \in {"in", "out", "status", "retry"}
  /\ hst = "out" => "out" \in stalled
  /\ \/ rx = << >> /\ Handled /\ stage \in {"CBW", "ERROR"}
     \/ rx = << >> /\ isr = << >> /\ xfrc /\ stage = "CSW"
     \/ /\ stage = "ERROR" /\ ~xfrc /\ hst \in {"out", "status"}
        /\ \/ rx = <<Data>> /\ isr = << >>
           \/ rx = << >> /\ isr = <<Data>>

Situation == AtRest \/ Recovering \/ Sent \/ Taking \/ Giving \/ Answered \/ Silent

\* As long as interrupts are served in time there is no other.
InSituation == Prompt => Situation

\* The residue r covers the l packets that are left; StorageMmc counts blocks.
Covers(r, l) == r \in Nat /\ r >= l /\ (scene.medium = "mmc" => r % PPB = 0)

\* In a data stage the storage has something left, which the residue covers.
Storage ==
  /\ armed => tx # << >>
  /\ stage = "DATA_IN"  => left \in Nat \ {0}
  /\ stage = "DATA_OUT" => left # 0
  /\ stage \in {"DATA_IN", "DATA_OUT"} /\ left # Skewed => Covers(csw.residue, left)

\* The parts of TypeOK: MsClass and its storage, what is offered to the host,
\* the stalls, what comes in, the host.
Statuses == {"passed", "failed", "phase"}
DevOK  == /\ stage \in Stages /\ cbw \in scene.commands /\ csw \in Wrappers
          /\ sense \in Senses /\ memOK \in BOOLEAN /\ left \in Nat \cup {Skewed}
TxOK   == tx \in Seq(InPackets) /\ Len(tx) <= TxDepth /\ armed \in BOOLEAN
PortOK == stalled \subseteq {"in", "out"} /\ mask \subseteq {"in", "out"} \X {StallBit}
RxOK   == /\ rx = << >> \/ \E p \in OutPackets : rx = <<p>>
          /\ isr = << >> \/ \E p \in OutPackets \cup {In} : isr = <<p>>
          /\ xfrc \in BOOLEAN
HostOK == /\ hst \in {"idle", "in", "out", "status", "retry", "reset", "clrIn", "clrOut"}
          /\ hcmd \in scene.commands /\ htag \in Tags /\ moved \in Nat

-----------------------------------------------------------------------------
(* Numbers                                                                 *)

\* A product grows with each factor.
LEMMA Products ==
  ASSUME NEW a \in Int, NEW b \in Int, NEW c \in Nat \ {0}
  PROVE  /\ a * c \in Int /\ (a + 1) * c = a * c + c /\ (a - 1) * c = a * c - c
         /\ a <= b => a * c <= b * c
         /\ a * c < b * c => a < b
<1>1. a * c \in Int /\ (a + 1) * c = a * c + c /\ (a - 1) * c = a * c - c
  OBVIOUS
<1>2. a <= b => a * c <= b * c
  <2>1. a <= b => (b - a) * c >= 0
    OBVIOUS
  <2>2. (b - a) * c = b * c - a * c
    OBVIOUS
  <2> QED
    BY <2>1, <2>2
<1>3. b <= a => b * c <= a * c
  <2>1. b <= a => (a - b) * c >= 0
    OBVIOUS
  <2>2. (a - b) * c = a * c - b * c
    OBVIOUS
  <2> QED
    BY <2>1, <2>2
<1> QED
  BY <1>1, <1>2, <1>3

\* A number is its quotient times the divisor and the remainder.
LEMMA DivMod ==
  ASSUME NEW a \in Int, NEW c \in Nat \ {0}
  PROVE  a \div c \in Int /\ a % c \in 0 .. (c - 1) /\ a = (a \div c) * c + (a % c)
OBVIOUS

\* Only one pair of a quotient and a remainder does that.
LEMMA DivUnique ==
  ASSUME NEW c \in Nat \ {0}, NEW q \in Int, NEW r \in 0 .. (c - 1)
  PROVE  (q * c + r) \div c = q /\ (q * c + r) % c = r
OBVIOUS

-----------------------------------------------------------------------------
(* Types                                                                   *)

\* TypeOK by its parts.
LEMMA Parts ==
  TypeOK <=> scene \in Scenes /\ DevOK /\ TxOK /\ PortOK /\ RxOK /\ HostOK
BY Zenon DEF TypeOK, DevOK, TxOK, PortOK, RxOK, HostOK

\* What a scene and its commands are.
LEMMA SceneTypes ==
  ASSUME scene \in Scenes
  PROVE  /\ scene.commands \subseteq CommandBlock /\ scene.tags \in Nat \ {0}
         /\ scene.medium \in {"fat12", "mmc"} /\ scene.host \in {"orderly", "erring", "hasty"}
         /\ PPB \in Nat \ {0} /\ TxDepth \in Nat \ {0}
         /\ 0 \in Tags /\ Tags \subseteq Nat
         /\ \A t \in Tags : (t + 1) % scene.tags \in Tags
         /\ \A c \in scene.commands : c.len \in Nat /\ c.blocks \in Nat /\ c.in \in BOOLEAN
<1>1. scene \in Scene /\ PPB \in Nat \ {0} /\ TxDepth \in Nat \ {0}
  BY MscAssumption
<1>2. /\ scene.commands \subseteq CommandBlock /\ scene.tags \in Nat \ {0}
      /\ scene.medium \in {"fat12", "mmc"} /\ scene.host \in {"orderly", "erring", "hasty"}
  BY <1>1 DEF Scene
<1>3. \A c \in scene.commands : c.len \in Nat /\ c.blocks \in Nat /\ c.in \in BOOLEAN
  BY <1>2 DEF CommandBlock
<1>4. 0 \in Tags /\ Tags \subseteq Nat
  BY <1>2 DEF Tags
<1>5. \A t \in Tags : (t + 1) % scene.tags \in Tags
  <2> TAKE t \in Tags
  <2> DEFINE n == scene.tags
  <2>1. n \in Nat \ {0} /\ t + 1 \in Int /\ Tags = 0 .. (n - 1)
    BY <1>2, <1>4 DEF Tags
  <2> HIDE DEF n
  <2>2. (t + 1) % n \in 0 .. (n - 1)
    BY <2>1, DivMod
  <2> QED
    BY <2>1, <2>2 DEF n
<1> QED
  BY <1>1, <1>2, <1>3, <1>4, <1>5

\* The fields of a status wrapper, and a wrapper with another status.
LEMMA WrapperTypes ==
  ASSUME NEW w \in Wrappers, NEW s \in Statuses
  PROVE  /\ w.tag \in Tags /\ w.residue \in Nat \cup {Skewed} /\ w.status \in Statuses
         /\ [w EXCEPT !.status = s] \in Wrappers
         /\ [w EXCEPT !.status = s].tag = w.tag
         /\ [w EXCEPT !.status = s].residue = w.residue
         /\ [w EXCEPT !.status = s].status = s
BY DEF Wrappers, Statuses

\* A packet of each kind is told from the others by its kind.
LEMMA Kinds ==
  /\ Data.kind = "data" /\ Short.kind = "short" /\ In.kind = "in"
  /\ Data # Short /\ Data # In
  /\ \A c, t : /\ Cbw(c, t).kind = "cbw" /\ Cbw(c, t).cmd = c /\ Cbw(c, t).tag = t
              /\ Cbw(c, t) # Data /\ Cbw(c, t) # In
  /\ \A t, r, s : /\ Csw(t, r, s).kind = "csw" /\ Csw(t, r, s).tag = t
                 /\ Csw(t, r, s).residue = r /\ Csw(t, r, s).status = s
                 /\ Csw(t, r, s) # Data /\ Csw(t, r, s) # Short
BY DEF Data, Short, In, Cbw, Csw

\* What MsClass offers is a packet.
LEMMA InPacketTypes ==
  /\ Data \in InPackets /\ Short \in InPackets
  /\ \A w \in Wrappers : Csw(w.tag, w.residue, w.status) \in InPackets
BY DEF InPackets, Wrappers, Csw

\* A packet from the host is a wrapper or data.
LEMMA OutPacketTypes ==
  ASSUME NEW p \in OutPackets
  PROVE  p = Data \/ (p.kind = "cbw" /\ p.cmd \in scene.commands /\ p.tag \in Tags)
BY DEF OutPackets

\* UsbEndpoint::Write.
LEMMA EpWriteTypes ==
  ASSUME scene \in Scenes, scene' = scene, TxOK, NEW p \in InPackets, EpWrite(p)
  PROVE  TxOK' /\ armed' /\ tx' # << >>
<1>1. TxDepth \in Nat \ {0} /\ InPackets' = InPackets
  BY SceneTypes DEF InPackets, Tags
<1>2. armed' = TRUE /\ tx \in Seq(InPackets) /\ Len(tx) <= TxDepth
  BY DEF EpWrite, TxOK
<1>3. CASE Len(tx) < TxDepth
  <2>1. tx' = Append(tx, p)
    BY <1>3 DEF EpWrite
  <2>2. Append(tx, p) \in Seq(InPackets) /\ Len(Append(tx, p)) = Len(tx) + 1 /\ Len(tx) \in Nat
    BY <1>2, AppendProperties, LenProperties
  <2>3. Append(tx, p) # << >>
    BY <2>2, EmptySeq
  <2> QED
    BY <1>1, <1>2, <1>3, <2>1, <2>2, <2>3 DEF TxOK
<1>4. CASE ~(Len(tx) < TxDepth)
  <2>1. tx' = tx
    BY <1>4 DEF EpWrite
  <2>2. tx # << >>
    BY <1>1, <1>4, EmptySeq
  <2> QED
    BY <1>1, <1>2, <2>1, <2>2 DEF TxOK
<1> QED
  BY <1>3, <1>4

\* Stalls.
LEMMA StallTypes ==
  ASSUME PortOK, NEW S \in SUBSET {"in", "out"}, StallEP(S)
  PROVE  PortOK'
BY DEF PortOK, StallEP

\* MSC_SetCSW.
LEMMA SetCSWTypes ==
  ASSUME scene \in Scenes, scene' = scene, TxOK, PortOK,
         NEW w \in Wrappers, NEW S \in SUBSET {"in", "out"}, SetCSW(w, S)
  PROVE  /\ csw' = w /\ csw' \in Wrappers' /\ stage' = "CSW" /\ stage' \in Stages
         /\ TxOK' /\ PortOK' /\ armed' /\ tx' # << >>
<1>1. /\ csw' = w /\ stage' = "CSW" /\ EpWrite(Csw(w.tag, w.residue, w.status)) /\ StallEP(S)
  BY DEF SetCSW
<1>2. Csw(w.tag, w.residue, w.status) \in InPackets
  BY InPacketTypes
<1>3. TxOK' /\ armed' /\ tx' # << >>
  BY <1>1, <1>2, EpWriteTypes
<1>4. PortOK'
  BY <1>1, StallTypes
<1>5. Wrappers' = Wrappers
  BY DEF Wrappers, Tags
<1> QED
  BY <1>1, <1>3, <1>4, <1>5 DEF Stages

-----------------------------------------------------------------------------
(* The count of one packet                                                 *)

\* One packet and, at the end of a block, one block less: the residue still
\* covers what is left, and when nothing has gone wrong by no more than the
\* rest of a block.
LEMMA OnePacket ==
  ASSUME scene \in Scenes, NEW l \in Nat, NEW r, Covers(r, l + 1)
  PROVE  /\ scene.medium = "fat12" => Covers(r - 1, l)
         /\ scene.medium = "mmc" /\ l % PPB = 0 =>
              Covers(r - PPB, l) /\ (r < (l + 1) + PPB => r - PPB < l + PPB)
         /\ scene.medium = "mmc" /\ l % PPB # 0 =>
              Covers(r, l) /\ (r < (l + 1) + PPB => r < l + PPB)
<1> DEFINE q == l \div PPB
           m == l % PPB
           k == r \div PPB
<1>1. PPB \in Nat \ {0} /\ scene.medium \in {"fat12", "mmc"} /\ r \in Nat /\ r >= l + 1
  BY SceneTypes DEF Covers
<1>2. CASE scene.medium = "fat12"
  BY <1>1, <1>2 DEF Covers
<1>3. CASE scene.medium = "mmc"
  <2>1. r % PPB = 0
    BY <1>3 DEF Covers
  <2>2. r \in Int /\ l \in Int
    BY <1>1
  <2>3. k \in Int /\ r = (k * PPB) + (r % PPB)
    BY <1>1, <2>2, DivMod
  <2>4. q \in Int /\ m \in 0 .. (PPB - 1) /\ l = q * PPB + m
    BY <1>1, <2>2, DivMod
  <2> HIDE DEF q, m, k
  <2>5. r = k * PPB
    <3>1. k * PPB \in Int
      BY <1>1, <2>3
    <3> QED
      BY <2>1, <2>3, <3>1
  <2>6. q * PPB \in Int /\ k * PPB \in Int
    BY <1>1, <2>3, <2>4
  <2>7. q + 1 <= k
    <3>1. q * PPB < k * PPB
      BY <1>1, <2>4, <2>5, <2>6
    <3>2. q < k
      BY <1>1, <2>3, <2>4, <3>1, Products, Zenon
    <3> QED
      BY <2>3, <2>4, <3>2
  <2>8. CASE m = 0
    <3>1. (q + 1) * PPB <= k * PPB /\ (q + 1) * PPB = q * PPB + PPB
      <4>1. q + 1 \in Int
        BY <2>4
      <4> QED
        BY <1>1, <2>3, <2>4, <2>7, <4>1, Products
    <3>2. r - PPB \in Nat /\ r - PPB >= l
      BY <1>1, <2>2, <2>4, <2>5, <2>6, <2>8, <3>1
    <3>3. r - PPB = (k - 1) * PPB + 0 /\ k - 1 \in Int
      BY <1>1, <2>3, <2>5, <2>6, Products
    <3>4. (r - PPB) % PPB = 0
      <4> DEFINE j == k - 1
      <4> HIDE DEF j
      <4>1. j \in Int /\ 0 \in 0 .. (PPB - 1) /\ r - PPB = j * PPB + 0
        BY <1>1, <3>3 DEF j
      <4>2. (j * PPB + 0) % PPB = 0
        BY <1>1, <4>1, DivUnique
      <4> QED
        BY <4>1, <4>2
    <3>5. r < (l + 1) + PPB => r - PPB < l + PPB
      BY <1>1
    <3> QED
      BY <1>1, <1>3, <2>8, <3>2, <3>4, <3>5 DEF Covers, m
  <2>9. CASE m # 0
    <3>1. Covers(r, l)
      BY <1>1, <2>1 DEF Covers
    <3>2. r # l + PPB
      <4>1. CASE r = l + PPB
        <5>1. r = (q + 1) * PPB + m /\ q + 1 \in Int
          <6>1. (q + 1) * PPB = q * PPB + PPB
            BY <1>1, <2>4, Products
          <6> QED
            BY <1>1, <2>4, <2>6, <4>1, <6>1
        <5> DEFINE j == q + 1
        <5> HIDE DEF j
        <5>2. j \in Int /\ r = j * PPB + m
          BY <5>1 DEF j
        <5>3. r % PPB = m
          BY <1>1, <2>4, <5>2, DivUnique
        <5> QED
          BY <2>1, <2>9, <5>3
      <4> QED
        BY <4>1
    <3>3. r < (l + 1) + PPB => r < l + PPB
      BY <1>1, <3>2
    <3> QED
      BY <1>3, <2>9, <3>1, <3>3 DEF m
  <2> QED
    BY <2>8, <2>9
<1> QED
  BY <1>1, <1>2, <1>3

\* What the storage can answer to a packet behind which l are left.
Answer(o, s, l) ==
  /\ o.sense \in Senses /\ o.sense \in {s, "range", "fault"}
  /\ scene.medium = "fat12" => o.sense = s
  /\ (scene.medium = "fat12" /\ l # Skewed) => o.dec = 1
  /\ (scene.medium = "fat12" /\ l = Skewed) => o.dec = Skewed
  /\ (scene.medium = "mmc" /\ o.sense = "none" /\ l # Skewed) =>
        o.dec = IF l % PPB = 0 THEN PPB ELSE 0
  /\ (scene.medium = "mmc" /\ o.sense = "none" /\ l = Skewed) => o.dec = 0

\* IoOutcome gives nothing else.
LEMMA OutcomeShape ==
  ASSUME scene \in Scenes, NEW s \in Senses, NEW l \in Nat \cup {Skewed}, NEW wr,
         NEW o \in IoOutcome(s, l, wr)
  PROVE  Answer(o, s, l)
<1>1. scene.medium \in {"fat12", "mmc"}
  BY SceneTypes
<1>2. CASE scene.medium = "fat12"
  <2>1. o = [sense |-> s, dec |-> IF l = Skewed THEN Skewed ELSE 1]
    BY <1>2 DEF IoOutcome
  <2> QED
    BY <1>2, <2>1 DEF Answer
<1>3. CASE scene.medium = "mmc"
  <2> DEFINE whole == l # Skewed /\ l % PPB = 0
  <2>1. o \in {[sense |-> x, dec |-> IF whole THEN PPB ELSE 0] : x \in {s, "range"}}
             \cup IF whole /\ (l > 0 \/ wr) THEN {[sense |-> "fault", dec |-> 0]} ELSE {}
    BY <1>3, Zenon DEF IoOutcome
  <2>2. \/ \E x \in {s, "range"} : o = [sense |-> x, dec |-> IF whole THEN PPB ELSE 0]
        \/ o = [sense |-> "fault", dec |-> 0]
    <3> HIDE DEF whole
    <3> QED
      BY <2>1
  <2>3. o.sense \in {s, "range", "fault"} /\ (o.sense # "fault" => o.dec = IF whole THEN PPB ELSE 0)
    <3> HIDE DEF whole
    <3> QED
      BY <2>2
  <2> QED
    BY <1>3, <2>3 DEF Senses, Answer
<1> QED
  BY <1>1, <1>2, <1>3

\* DecResidue changes the residue only.
LEMMA Counted ==
  ASSUME NEW w \in Wrappers, NEW o, Decreased(w.residue, o.dec) \in Nat \cup {Skewed}
  PROVE  /\ DecResidue(w, o) \in Wrappers
         /\ DecResidue(w, o).tag = w.tag /\ DecResidue(w, o).status = w.status
         /\ DecResidue(w, o).residue =
              IF o.sense = "none" THEN Decreased(w.residue, o.dec) ELSE w.residue
<1> DEFINE d == Decreased(w.residue, o.dec)
<1> HIDE DEF d
<1>1. d \in Nat \cup {Skewed}
  BY DEF d
<1>2. DecResidue(w, o) = IF o.sense = "none" THEN [w EXCEPT !.residue = d] ELSE w
  BY Zenon DEF DecResidue, d
<1>3. /\ [w EXCEPT !.residue = d] \in Wrappers /\ [w EXCEPT !.residue = d].tag = w.tag
      /\ [w EXCEPT !.residue = d].status = w.status /\ [w EXCEPT !.residue = d].residue = d
  BY <1>1 DEF Wrappers
<1> QED
  BY <1>2, <1>3, Zenon DEF d

\* What a packet with l behind it makes of the status wrapper w and the sense
\* data s.
Counts(v, x, w, s, l) ==
  /\ v \in Wrappers /\ v.tag = w.tag
  /\ x \in Senses /\ x \in {s, "range", "fault"}
  /\ scene.medium = "fat12" => x = s
  /\ Covers(v.residue, l)
  /\ (scene.medium = "fat12" /\ x = "none") => v.residue = w.residue - 1
  /\ (scene.medium = "mmc" /\ x = "none" /\ w.residue < (l + 1) + PPB) =>
       v.residue < l + PPB
  /\ x # "none" => v.residue = w.residue

\* A packet that leaves l to transfer.
LEMMA Outcome ==
  ASSUME scene \in Scenes, NEW s \in Senses, NEW l \in Nat, NEW wr,
         NEW o \in IoOutcome(s, l, wr), NEW w \in Wrappers, Covers(w.residue, l + 1)
  PROVE  Counts(DecResidue(w, o), o.sense, w, s, l)
<1> DEFINE r == w.residue
<1>1. r \in Nat /\ r >= l + 1 /\ PPB \in Nat \ {0} /\ scene.medium \in {"fat12", "mmc"}
  BY SceneTypes DEF Covers
<1>2. l # Skewed /\ l \in Nat \cup {Skewed}
  BY DEF Skewed
<1>3. /\ o.sense \in Senses /\ o.sense \in {s, "range", "fault"}
      /\ scene.medium = "fat12" => o.sense = s /\ o.dec = 1
      /\ (scene.medium = "mmc" /\ o.sense = "none") => o.dec = IF l % PPB = 0 THEN PPB ELSE 0
  <2> HIDE DEF r
  <2>1. Answer(o, s, l)
    BY <1>2, OutcomeShape, Zenon
  <2> QED
    BY <1>2, <2>1, Zenon DEF Answer
<1>4. \A n \in Nat : Decreased(r, n) = r - n
  BY <1>1 DEF Decreased, Skewed
<1>5. /\ scene.medium = "fat12" => Covers(r - 1, l)
      /\ (scene.medium = "mmc" /\ l % PPB = 0) =>
           Covers(r - PPB, l) /\ (r < (l + 1) + PPB => r - PPB < l + PPB)
      /\ (scene.medium = "mmc" /\ l % PPB # 0) =>
           Covers(r, l) /\ (r < (l + 1) + PPB => r < l + PPB)
  BY OnePacket, <1>1, Zenon
<1> HIDE DEF r
<1>6. CASE o.sense # "none"
  <2>1. DecResidue(w, o) = w
    BY <1>6 DEF DecResidue
  <2>2. Covers(r, l)
    BY <1>1 DEF Covers, r
  <2> QED
    BY <1>3, <1>6, <2>1, <2>2, Zenon DEF r, Counts
<1>7. CASE o.sense = "none" /\ scene.medium = "fat12"
  <2>1. Decreased(r, o.dec) = r - 1 /\ r - 1 \in Nat
    BY <1>1, <1>3, <1>4, <1>7
  <2>2. /\ DecResidue(w, o) \in Wrappers /\ DecResidue(w, o).residue = r - 1
        /\ DecResidue(w, o).tag = w.tag
    BY <1>7, <2>1, Counted DEF r
  <2> QED
    BY <1>3, <1>5, <1>7, <2>2, Zenon DEF r, Counts
<1>8. CASE o.sense = "none" /\ scene.medium = "mmc"
  <2> DEFINE n == IF l % PPB = 0 THEN PPB ELSE 0
  <2>1. n \in Nat /\ Covers(r - n, l) /\ (r < (l + 1) + PPB => r - n < l + PPB)
    <3>1. CASE l % PPB = 0
      BY <1>1, <1>5, <1>8, <3>1
    <3>2. CASE l % PPB # 0
      <4>1. n = 0 /\ r - n = r
        BY <1>1, <3>2
      <4> QED
        BY <1>5, <1>8, <3>2, <4>1
    <3> QED
      BY <3>1, <3>2
  <2>2. o.dec = n
    BY <1>3, <1>8
  <2> HIDE DEF n
  <2>3. Decreased(r, o.dec) = r - n /\ r - n \in Nat
    BY <1>4, <2>1, <2>2 DEF Covers
  <2>4. /\ DecResidue(w, o) \in Wrappers /\ DecResidue(w, o).residue = r - n
        /\ DecResidue(w, o).tag = w.tag
    BY <1>8, <2>3, Counted DEF r
  <2> QED
    BY <1>3, <1>8, <2>1, <2>4, Zenon DEF r, Counts
<1> QED
  BY <1>1, <1>6, <1>7, <1>8

\* A packet of a transfer that has left the grid.
LEMMA SkewedOutcome ==
  ASSUME scene \in Scenes, NEW s \in Senses, NEW wr, NEW o \in IoOutcome(s, Skewed, wr),
         NEW w \in Wrappers
  PROVE  o.sense \in Senses /\ DecResidue(w, o) \in Wrappers
<1>1. /\ o.sense \in Senses /\ scene.medium \in {"fat12", "mmc"}
      /\ scene.medium = "fat12" => o.dec = Skewed
      /\ (scene.medium = "mmc" /\ o.sense = "none") => o.dec = 0
  <2> DEFINE l == Skewed
  <2>1. l \in Nat \cup {Skewed} /\ l = Skewed /\ o \in IoOutcome(s, l, wr)
    OBVIOUS
  <2> HIDE DEF l
  <2>2. Answer(o, s, l)
    BY <2>1, OutcomeShape, Zenon
  <2>3. scene.medium \in {"fat12", "mmc"}
    BY SceneTypes
  <2> QED
    BY <2>1, <2>2, <2>3, Zenon DEF Answer
<1>2. CASE o.sense # "none"
  BY <1>1, <1>2 DEF DecResidue
<1>3. CASE o.sense = "none"
  <2>1. w.residue \in Nat \cup {Skewed}
    BY DEF Wrappers
  <2>2. Decreased(w.residue, o.dec) \in Nat \cup {Skewed}
    BY <1>1, <1>3, <2>1 DEF Decreased, Skewed
  <2> QED
    BY <1>1, <2>2, Counted
<1> QED
  BY <1>2, <1>3

-----------------------------------------------------------------------------
(* The data phase                                                          *)

\* The wrapper is DecResidue's, with a status of its own or not.
LEMMA CountSteps ==
  ASSUME scene \in Scenes, NEW s \in Senses, NEW l \in Nat, NEW wr,
         NEW o \in IoOutcome(s, l, wr), NEW w \in Wrappers, Covers(w.residue, l + 1),
         sense' = o.sense,
         \/ csw' = DecResidue(w, o)
         \/ \E st \in Statuses : csw' = [DecResidue(w, o) EXCEPT !.status = st]
  PROVE  Counts(csw', sense', w, s, l)
<1> DEFINE d == DecResidue(w, o)
<1>1. Counts(d, o.sense, w, s, l)
  BY Outcome, Zenon
<1> HIDE DEF d
<1>2. csw' \in Wrappers /\ csw'.tag = d.tag /\ csw'.residue = d.residue
  <2>1. CASE csw' = d
    BY <1>1, <2>1 DEF Counts
  <2>2. ASSUME NEW st \in Statuses, csw' = [d EXCEPT !.status = st]
        PROVE  csw' \in Wrappers /\ csw'.tag = d.tag /\ csw'.residue = d.residue
    <3>1. d \in Wrappers
      BY <1>1 DEF Counts
    <3> QED
      BY <3>1, <2>2, WrapperTypes, Zenon
  <2> QED
    BY <2>1, <2>2 DEF d
<1> QED
  BY <1>1, <1>2, Zenon DEF Counts

\* The status that goes with the sense data.
LEMMA StatusOf ==
  ASSUME NEW w \in Wrappers, NEW s
  PROVE  /\ WithStatus(w, s) = [w EXCEPT !.status = IF s = "none" THEN "passed" ELSE "failed"]
         /\ (IF s = "none" THEN "passed" ELSE "failed") \in Statuses
         /\ WithStatus(w, s).status = IF s = "none" THEN "passed" ELSE "failed"
<1> DEFINE st == IF s = "none" THEN "passed" ELSE "failed"
<1>1. st \in Statuses /\ WithStatus(w, s) = [w EXCEPT !.status = st]
  BY DEF Statuses, WithStatus
<1> HIDE DEF st
<1>2. WithStatus(w, s).status = st
  BY <1>1, WrapperTypes
<1> QED
  BY <1>1, <1>2 DEF st

\* MSC_MemoryRead.
LEMMA ReadStep ==
  ASSUME scene \in Scenes, NEW n \in Nat \ {0}, NEW s \in Senses, NEW w \in Wrappers,
         Covers(w.residue, n), MemoryRead(n, s, w)
  PROVE  /\ EpWrite(Data) /\ left' = n - 1 /\ UNCHANGED <<stalled, mask>>
         /\ Counts(csw', sense', w, s, n - 1)
         /\ n > 1 => stage' = "DATA_IN"
         /\ n = 1 => /\ stage' = IF sense' = "range" THEN "DATA_IN_LAST_STALL" ELSE "DATA_IN_LAST"
                     /\ csw'.status = IF sense' = "none" THEN "passed" ELSE "failed"
<1> DEFINE l == n - 1
<1>1. l \in Nat /\ l + 1 = n
  OBVIOUS
<1>2. PICK o \in IoOutcome(s, l, FALSE) :
        /\ EpWrite(Data) /\ left' = l /\ sense' = o.sense /\ UNCHANGED <<stalled, mask>>
        /\ IF n > 1
             THEN stage' = "DATA_IN" /\ csw' = DecResidue(w, o)
             ELSE /\ stage' = IF o.sense = "range" THEN "DATA_IN_LAST_STALL"
                                                   ELSE "DATA_IN_LAST"
                  /\ csw' = WithStatus(DecResidue(w, o), o.sense)
  BY Zenon DEF MemoryRead
<1> HIDE DEF l
<1> DEFINE d == DecResidue(w, o)
           st == IF o.sense = "none" THEN "passed" ELSE "failed"
<1>3. d \in Wrappers
  <2>1. Counts(d, o.sense, w, s, l)
    BY <1>1, Outcome, Zenon
  <2> QED
    BY <2>1, Zenon DEF Counts
<1>4. /\ WithStatus(d, o.sense) = [d EXCEPT !.status = st] /\ st \in Statuses
      /\ WithStatus(d, o.sense).status = st
  <2> HIDE DEF d
  <2> QED
    BY <1>3, StatusOf
<1>5. n > 1 => csw' = d
  BY <1>2, Zenon
<1>6. ~(n > 1) => csw' = [d EXCEPT !.status = st]
  BY <1>2, <1>4, Zenon
<1>7. csw' = d \/ \E x \in Statuses : csw' = [d EXCEPT !.status = x]
  <2> HIDE DEF d, st
  <2> QED
    BY <1>4, <1>5, <1>6
<1>8. Counts(csw', sense', w, s, l)
  BY <1>1, <1>2, <1>7, CountSteps, Zenon
<1>9. n = 1 => csw'.status = st
  <2>1. n = 1 => ~(n > 1)
    OBVIOUS
  <2> QED
    BY <1>2, <1>4, <2>1, Zenon
<1> QED
  BY <1>1, <1>2, <1>8, <1>9 DEF l

\* MSC_MemoryWrite and MSC_MemoryVerify, for a whole packet.
LEMMA WriteStep ==
  ASSUME scene \in Scenes, csw \in Wrappers, sense \in Senses, memOK \in BOOLEAN,
         left \in Nat \ {0}, Covers(csw.residue, left),
         MemoryWrite(Data) \/ MemoryVerify(Data)
  PROVE  /\ left' = left - 1 /\ cbw' = cbw /\ memOK' \in BOOLEAN
         /\ Counts(csw', sense', csw, sense, left - 1)
         /\ left # 1 => Pending
         /\ left = 1 => /\ csw'.status \in {"passed", "failed"}
                        /\ csw'.status = "passed" => sense' = "none"
                        /\ \E S \in SUBSET {"in", "out"} :
                              /\ SetCSW(csw', S)
                              /\ sense' # "range" => S = {}
<1> DEFINE l == left - 1
           S == IF sense' = "range" THEN {"out"} ELSE {}
           R == /\ left' = l /\ cbw' = cbw /\ memOK' \in BOOLEAN
                /\ Counts(csw', sense', csw, sense, l)
                /\ l # 0 => Pending
                /\ l = 0 => /\ csw'.status \in {"passed", "failed"}
                            /\ csw'.status = "passed" => sense' = "none"
                            /\ SetCSW(csw', S)
<1>1. l \in Nat /\ l + 1 = left /\ l # Skewed /\ left # Skewed /\ Remaining(Data) = l
  BY DEF Skewed, Remaining
<1>2. ASSUME NEW wr, NEW o \in IoOutcome(sense, l, wr), sense' = o.sense, left' = l,
             IF l # 0 THEN csw' = DecResidue(csw, o)
                      ELSE \E st \in {"passed", "failed"} :
                              csw' = [DecResidue(csw, o) EXCEPT !.status = st]
      PROVE  /\ Counts(csw', sense', csw, sense, l)
             /\ l = 0 => csw'.status \in {"passed", "failed"}
  <2> HIDE DEF l
  <2>1. csw' = DecResidue(csw, o) \/ \E st \in Statuses : csw' = [DecResidue(csw, o) EXCEPT !.status = st]
    BY <1>2 DEF Statuses
  <2>2. Counts(csw', sense', csw, sense, l)
    BY <1>1, <1>2, <2>1, CountSteps, Zenon
  <2> DEFINE d == DecResidue(csw, o)
  <2>3. Counts(d, o.sense, csw, sense, l)
    BY <1>1, <1>2, Outcome, Zenon
  <2>4. d \in Wrappers
    BY <2>3, Zenon DEF Counts
  <2>5. l = 0 => \E st \in {"passed", "failed"} : csw' = [d EXCEPT !.status = st]
    BY <1>2, Zenon
  <2> HIDE DEF d
  <2>6. \A st \in {"passed", "failed"} : st \in Statuses /\ [d EXCEPT !.status = st].status = st
    <3> TAKE st \in {"passed", "failed"}
    <3>1. st \in Statuses
      BY DEF Statuses
    <3> QED
      BY <2>4, <3>1, WrapperTypes
  <2> QED
    BY <2>2, <2>5, <2>6, Zenon
<1>3. ASSUME MemoryWrite(Data) PROVE R
  <2>1. PICK o \in IoOutcome(sense, l, TRUE) :
          /\ left' = l /\ sense' = o.sense
          /\ IF left' # 0
               THEN Pending /\ csw' = DecResidue(csw, o)
               ELSE SetCSW(WithStatus(DecResidue(csw, o), o.sense),
                           IF o.sense = "range" THEN {"out"} ELSE {})
          /\ UNCHANGED <<cbw, memOK>>
    <3> HIDE DEF l
    <3> QED
      BY <1>1, <1>3, Zenon DEF MemoryWrite
  <2> HIDE DEF l
  <2> DEFINE d == DecResidue(csw, o)
             st == IF o.sense = "none" THEN "passed" ELSE "failed"
  <2>2. d \in Wrappers
    <3>1. Counts(d, o.sense, csw, sense, l)
      BY <1>1, Outcome, Zenon
    <3> QED
      BY <3>1, Zenon DEF Counts
  <2>3. WithStatus(d, o.sense) = [d EXCEPT !.status = st]
    <3> HIDE DEF d
    <3> QED
      BY <2>2, StatusOf
  <2>4. l = 0 => SetCSW([d EXCEPT !.status = st], S)
    BY <2>1, <2>3, Zenon
  <2>5. l = 0 => csw' = [d EXCEPT !.status = st] /\ SetCSW(csw', S)
    <3> HIDE DEF d, st, S
    <3>1. ASSUME NEW v, SetCSW(v, S) PROVE csw' = v
      BY <3>1, Zenon DEF SetCSW
    <3> QED
      BY <2>4, <3>1
  <2>6. st \in {"passed", "failed"} /\ (l # 0 => csw' = d)
    BY <2>1
  <2>7. IF l # 0 THEN csw' = d ELSE \E x \in {"passed", "failed"} : csw' = [d EXCEPT !.status = x]
    <3> HIDE DEF d, st
    <3> QED
      BY <2>5, <2>6
  <2>8. Counts(csw', sense', csw, sense, l) /\ (l = 0 => csw'.status \in {"passed", "failed"})
    BY <1>2, <2>1, <2>7, Zenon
  <2>9. l = 0 => csw'.status = st
    <3>1. st \in Statuses
      BY DEF Statuses
    <3> HIDE DEF d, st
    <3>2. [d EXCEPT !.status = st].status = st
      BY <2>2, <3>1, WrapperTypes, Zenon
    <3> QED
      BY <2>5, <3>2, Zenon
  <2>10. (csw'.status = "passed" /\ l = 0) => sense' = "none"
    BY <2>1, <2>9
  <2>11. (l # 0 => Pending) /\ cbw' = cbw /\ left' = l /\ memOK' \in BOOLEAN
    BY <2>1
  <2> HIDE DEF S
  <2> QED
    BY <2>5, <2>8, <2>10, <2>11, Zenon
<1>4. ASSUME MemoryVerify(Data) PROVE R
  <2>1. PICK o \in IoOutcome(sense, l, FALSE), same \in BOOLEAN :
          /\ left' = l /\ sense' = o.sense
          /\ IF left' # 0
               THEN Pending /\ csw' = DecResidue(csw, o) /\ memOK' = (memOK /\ same)
               ELSE /\ memOK' = (memOK /\ same /\ o.sense = "none")
                    /\ SetCSW([DecResidue(csw, o) EXCEPT !.status =
                                 IF memOK' THEN "passed" ELSE "failed"],
                              IF o.sense = "range" THEN {"out"} ELSE {})
          /\ UNCHANGED cbw
    <3> HIDE DEF l
    <3> QED
      BY <1>1, <1>4, Zenon DEF MemoryVerify
  <2> HIDE DEF l
  <2> DEFINE d == DecResidue(csw, o)
             st == IF memOK' THEN "passed" ELSE "failed"
  <2>2. d \in Wrappers
    <3>1. Counts(d, o.sense, csw, sense, l)
      BY <1>1, Outcome, Zenon
    <3> QED
      BY <3>1, Zenon DEF Counts
  <2>4. l = 0 => SetCSW([d EXCEPT !.status = st], S)
    BY <2>1, Zenon
  <2>5. l = 0 => csw' = [d EXCEPT !.status = st] /\ SetCSW(csw', S)
    <3> HIDE DEF d, st, S
    <3>1. ASSUME NEW v, SetCSW(v, S) PROVE csw' = v
      BY <3>1, Zenon DEF SetCSW
    <3> QED
      BY <2>4, <3>1
  <2>6. st \in {"passed", "failed"} /\ (l # 0 => csw' = d)
    BY <2>1
  <2>7. IF l # 0 THEN csw' = d ELSE \E x \in {"passed", "failed"} : csw' = [d EXCEPT !.status = x]
    <3> HIDE DEF d, st
    <3> QED
      BY <2>5, <2>6
  <2>8. Counts(csw', sense', csw, sense, l) /\ (l = 0 => csw'.status \in {"passed", "failed"})
    BY <1>2, <2>1, <2>7, Zenon
  <2>9. l = 0 => csw'.status = st
    <3>1. st \in Statuses
      BY DEF Statuses
    <3> HIDE DEF d, st
    <3>2. [d EXCEPT !.status = st].status = st
      BY <2>2, <3>1, WrapperTypes, Zenon
    <3> QED
      BY <2>5, <3>2, Zenon
  <2>10. (csw'.status = "passed" /\ l = 0) => sense' = "none"
    <3>1. l = 0 => memOK' = (memOK /\ same /\ o.sense = "none")
      BY <2>1, Zenon
    <3>2. (csw'.status = "passed" /\ l = 0) => memOK'
      BY <2>9
    <3>3. sense' = o.sense
      BY <2>1
    <3> QED
      BY <3>1, <3>2, <3>3, Zenon
  <2>11. memOK' \in BOOLEAN
    BY <2>1
  <2>12. (l # 0 => Pending) /\ cbw' = cbw /\ left' = l
    BY <2>1
  <2> HIDE DEF S
  <2> QED
    BY <2>5, <2>8, <2>10, <2>11, <2>12, Zenon
<1>5. S \in SUBSET {"in", "out"} /\ (sense' # "range" => S = {})
  OBVIOUS
<1>6. R
  BY <1>3, <1>4, Zenon
<1>7. (l = 0 <=> left = 1) /\ l = left - 1
  OBVIOUS
<1> HIDE DEF l, S
<1>8. l = 0 => \E X \in SUBSET {"in", "out"} : SetCSW(csw', X) /\ (sense' # "range" => X = {})
  BY <1>5, <1>6, Zenon
<1> QED
  BY <1>6, <1>7, <1>8

\* The same for a packet that is none, or does not find rwlen on the grid.
LEMMA WriteSkewed ==
  ASSUME scene \in Scenes, csw \in Wrappers, sense \in Senses, memOK \in BOOLEAN,
         NEW p, left = Skewed \/ p # Data, MemoryWrite(p) \/ MemoryVerify(p)
  PROVE  /\ left' = Skewed /\ left' # 0 /\ cbw' = cbw /\ memOK' \in BOOLEAN
         /\ csw' \in Wrappers /\ sense' \in Senses /\ Pending
<1>1. Remaining(p) = Skewed /\ Skewed # 0
  BY DEF Remaining, Skewed
<1>2. CASE MemoryWrite(p)
  <2>1. PICK o \in IoOutcome(sense, Skewed, TRUE) :
          left' = Skewed /\ sense' = o.sense /\ Pending /\ csw' = DecResidue(csw, o)
          /\ UNCHANGED <<cbw, memOK>>
    BY <1>1, <1>2, Zenon DEF MemoryWrite
  <2>2. o.sense \in Senses /\ DecResidue(csw, o) \in Wrappers
    BY SkewedOutcome, Zenon
  <2> QED
    BY <1>1, <2>1, <2>2
<1>3. CASE MemoryVerify(p)
  <2>1. PICK o \in IoOutcome(sense, Skewed, FALSE), same \in BOOLEAN :
          left' = Skewed /\ sense' = o.sense /\ Pending /\ csw' = DecResidue(csw, o)
          /\ memOK' = (memOK /\ same) /\ UNCHANGED cbw
    BY <1>1, <1>3, Zenon DEF MemoryVerify
  <2>2. o.sense \in Senses /\ DecResidue(csw, o) \in Wrappers
    BY SkewedOutcome, Zenon
  <2> QED
    BY <1>1, <2>1, <2>2
<1> QED
  BY <1>2, <1>3

\* What BulkOut and BulkIn leave behind.
DevAfter == DevOK' /\ TxOK' /\ PortOK' /\ Storage'

\* The sets of packets and wrappers go by the scene.
LEMMA SetsPrimed ==
  ASSUME scene' = scene
  PROVE  /\ Wrappers' = Wrappers /\ InPackets' = InPackets /\ OutPackets' = OutPackets
         /\ Tags' = Tags /\ \A r, l : Covers(r, l)' <=> Covers(r, l)
BY DEF Wrappers, InPackets, OutPackets, Tags, Covers

\* A command that ends in a status at once.
LEMMA StatusTypes ==
  ASSUME TypeOK, Storage, scene' = scene, NEW w \in Wrappers, NEW st \in Statuses,
         NEW S \in SUBSET {"in", "out"}, Fail(w, st, S),
         cbw' \in scene.commands, sense' \in Senses, memOK' \in BOOLEAN,
         left' \in Nat \cup {Skewed}
  PROVE  DevAfter
<1>1. scene \in Scenes /\ TxOK /\ PortOK
  BY Parts
<1>2. [w EXCEPT !.status = st] \in Wrappers
  BY WrapperTypes
<1>3. SetCSW([w EXCEPT !.status = st], S)
  BY DEF Fail
<1>4. /\ csw' \in Wrappers' /\ stage' = "CSW" /\ stage' \in Stages
      /\ TxOK' /\ PortOK' /\ armed' /\ tx' # << >>
  BY <1>1, <1>2, <1>3, SetCSWTypes, Zenon
<1>5. Storage'
  BY <1>4 DEF Storage
<1> QED
  BY <1>4, <1>5, Zenon DEF DevOK, DevAfter

\* The next packet of a read.
LEMMA ReadTypes ==
  ASSUME TypeOK, Storage, scene' = scene, NEW n \in Nat \ {0}, NEW s \in Senses,
         NEW w \in Wrappers, Covers(w.residue, n), MemoryRead(n, s, w),
         cbw' \in scene.commands, memOK' \in BOOLEAN
  PROVE  DevAfter
<1>1. scene \in Scenes /\ TxOK /\ PortOK
  BY Parts
<1>2. /\ EpWrite(Data) /\ left' = n - 1 /\ UNCHANGED <<stalled, mask>>
      /\ Counts(csw', sense', w, s, n - 1)
      /\ n > 1 => stage' = "DATA_IN"
      /\ n = 1 => stage' = IF sense' = "range" THEN "DATA_IN_LAST_STALL" ELSE "DATA_IN_LAST"
  BY <1>1, ReadStep, Zenon
<1>3. TxOK' /\ armed' /\ tx' # << >>
  BY <1>1, <1>2, InPacketTypes, EpWriteTypes
<1>4. PortOK'
  BY <1>1, <1>2 DEF PortOK
<1>5. csw' \in Wrappers /\ sense' \in Senses /\ Covers(csw'.residue, n - 1)
  BY <1>2, Zenon DEF Counts
<1>6. stage' \in Stages /\ stage' # "DATA_OUT" /\ (stage' = "DATA_IN" <=> n > 1)
  BY <1>2 DEF Stages
<1>7. DevOK'
  BY <1>2, <1>5, <1>6, SetsPrimed DEF DevOK
<1>8. Covers(csw.residue, left)'
  BY <1>2, <1>5 DEF Covers
<1>9. Storage'
  <2>1. (stage' = "DATA_IN" => left' \in Nat \ {0}) /\ (armed' => tx' # << >>)
    BY <1>2, <1>3, <1>6
  <2>2. stage' # "DATA_OUT"
    BY <1>6
  <2> QED
    BY <1>8, <2>1, <2>2 DEF Storage
<1> QED
  BY <1>3, <1>4, <1>7, <1>9, Zenon DEF DevAfter

-----------------------------------------------------------------------------
(* The four ways a command begins                                          *)

\* It ends at once: with data from the host only if it was refused, passed only
\* if it moves nothing, and if it is well formed without data and without a stall.
Answers(c, w) ==
  \E st \in Statuses, S \in SUBSET {"in", "out"} :
    /\ Fail(w, st, S) /\ ~WellWritten(c)
    /\ st = "passed" => c.op \notin {"READ", "WRITE", "VERIFY"}
    /\ WellFormed(c) => c.len = 0 /\ st # "phase" /\ S = {}
    /\ sense' \in Senses /\ (scene.medium = "fat12" => sense' \in {sense, "lun", "field"})
    /\ memOK' = memOK /\ left' \in Nat \cup {Skewed}

\* A reply that is shorter than a packet.
Replies(c, w) ==
  /\ c.op \in {"SENSE", "INFO"} /\ c.in /\ c.len > 0
  /\ EpWrite(Short) /\ stage' = "DATA_IN_LAST"
  /\ csw' \in Wrappers /\ csw'.tag = w.tag /\ csw'.residue = w.residue - 1
  /\ csw'.status = "passed"
  /\ sense' \in {sense, "none"}
  /\ UNCHANGED <<stalled, mask, memOK, left>>

\* The first packet of a READ.
Reads(c, w) ==
  /\ c.op = "READ" /\ c.in /\ c.len > 0 /\ c.len = c.blocks * PPB
  /\ \E s \in SenseOfSetup : MemoryRead(c.len, s, w)
  /\ UNCHANGED memOK

\* A WRITE or VERIFY waits for its data.
Takes(c, w) ==
  /\ ~c.in /\ c.len > 0 /\ c.len = c.blocks * PPB
  /\ left' = c.len /\ sense' \in SenseOfSetup /\ stage' = "DATA_OUT" /\ csw' = w
  /\ memOK' \in BOOLEAN /\ UNCHANGED <<tx, armed, stalled, mask>>

\* The status wrapper a command begins with.
First(p) == [tag |-> p.tag, residue |-> p.cmd.len, status |-> csw.status]

\* MSC_GetCBW fills the wrapper from the tag and the length of the command.
LEMMA FirstTypes ==
  ASSUME TypeOK, NEW p \in OutPackets, p.kind = "cbw"
  PROVE  /\ p.cmd \in scene.commands /\ p.cmd.len \in Nat /\ p.cmd.blocks \in Nat
         /\ p.cmd.in \in BOOLEAN
         /\ First(p) \in Wrappers /\ First(p).tag = p.tag /\ First(p).residue = p.cmd.len
<1>1. p.cmd \in scene.commands /\ p.tag \in Tags
  <2>1. p # Data
    BY Kinds
  <2> QED
    BY <2>1, OutPacketTypes
<1>2. p.cmd.len \in Nat /\ p.cmd.blocks \in Nat /\ p.cmd.in \in BOOLEAN
  <2>1. scene \in Scenes
    BY Parts
  <2> QED
    BY <1>1, <2>1, SceneTypes, Zenon
<1>3. csw.status \in {"passed", "failed", "phase"}
  <2>1. csw \in Wrappers
    BY DEF TypeOK
  <2> QED
    BY <2>1 DEF Wrappers
<1> QED
  BY <1>1, <1>2, <1>3 DEF First, Wrappers

\* A setup that the device accepts has as many packets as its blocks.
LEMMA SetupPasses ==
  ASSUME NEW c, c.len \in Nat, ~SetupFails(c)
  PROVE  c.len > 0 /\ c.len = c.blocks * PPB
BY DEF SetupFails

\* The sense data of a setup.
LEMMA SetupSense ==
  ASSUME TypeOK
  PROVE  /\ SenseOfSetup \subseteq Senses
         /\ scene.medium = "fat12" => SenseOfSetup = {sense}
BY DEF SenseOfSetup, TypeOK, Senses

\* MSC_CommandParser.
LEMMA Commands ==
  ASSUME TypeOK, NEW p \in OutPackets, p.kind = "cbw", p.cmd.valid, GetCBW(p)
  PROVE  /\ cbw' = p.cmd
         /\ \/ Answers(p.cmd, First(p)) \/ Replies(p.cmd, First(p))
            \/ Reads(p.cmd, First(p)) \/ Takes(p.cmd, First(p))
<1> DEFINE c == p.cmd
           w == First(p)
<1>1. /\ cbw' = c
      /\ \/ ~c.lun /\ Reject(w, "lun")
         \/ c.lun /\ c.op = "TUR" /\ TestUnitReady(c, w)
         \/ c.lun /\ c.op \in {"SENSE", "INFO"} /\ DataIn(c, w)
         \/ c.lun /\ c.op = "READ" /\ ReadCommand(c, w)
         \/ c.lun /\ c.op \in {"WRITE", "VERIFY"} /\ WriteCommand(c, w)
         \/ c.lun /\ c.op = "CHECK" /\ Check(w)
         \/ c.lun /\ c.op = "OTHER" /\ Reject(w, "field")
  BY Zenon DEF GetCBW, First
<1>2. /\ c.len \in Nat /\ c.in \in BOOLEAN
      /\ w \in Wrappers /\ w.residue = c.len
  BY FirstTypes
<1>3. /\ sense \in Senses /\ left \in Nat \cup {Skewed} /\ memOK \in BOOLEAN
      /\ {"lun", "field"} \subseteq Senses
  BY DEF TypeOK, Senses
<1>4. (IF c.len = 0 THEN {} ELSE {Dir(c)}) \in SUBSET {"in", "out"}
  BY DEF Dir
<1>5. {} \in SUBSET {"in", "out"} /\ {"in"} \in SUBSET {"in", "out"} /\ {"out"} \in SUBSET {"in", "out"}
  OBVIOUS
<1>6. "passed" \in Statuses /\ "failed" \in Statuses /\ "phase" \in Statuses
  BY DEF Statuses
<1> HIDE DEF c, w
<1>7. ASSUME ~c.lun, Reject(w, "lun") PROVE Answers(c, w)
  <2>1. Fail(w, "failed", {}) /\ sense' = "lun" /\ memOK' = memOK /\ left' = left
    BY <1>7 DEF Reject
  <2>2. ~WellFormed(c) /\ ~WellWritten(c)
    BY <1>7 DEF WellFormed, WellWritten
  <2> QED
    BY <1>3, <1>5, <1>6, <2>1, <2>2 DEF Answers
<1>8. ASSUME c.op = "TUR", TestUnitReady(c, w) PROVE Answers(c, w)
  <2> DEFINE st == IF sense = "reset" THEN "failed" ELSE "passed"
             S == IF c.len = 0 THEN {} ELSE {Dir(c)}
  <2>1. Fail(w, st, S) /\ sense' = sense /\ memOK' = memOK /\ left' = left
    BY <1>8 DEF TestUnitReady
  <2>2. st \in Statuses /\ st # "phase" /\ S \in SUBSET {"in", "out"} /\ (c.len = 0 => S = {})
    BY <1>4, <1>6
  <2>3. ~WellWritten(c) /\ (WellFormed(c) => c.len = 0) /\ c.op \notin {"READ", "WRITE", "VERIFY"}
    BY <1>8 DEF WellFormed, WellWritten
  <2> HIDE DEF st, S
  <2> QED
    BY <1>3, <2>1, <2>2, <2>3 DEF Answers
<1>9. ASSUME c.op \in {"SENSE", "INFO"}, DataIn(c, w) PROVE Answers(c, w) \/ Replies(c, w)
  <2>1. CASE (c.len = 0 \/ ~c.in) /\ Fail(w, "phase", IF c.len = 0 THEN {} ELSE {"out"})
             /\ UNCHANGED sense /\ UNCHANGED <<memOK, left>>
    <3> DEFINE S == IF c.len = 0 THEN {} ELSE {"out"}
    <3>1. S \in SUBSET {"in", "out"} /\ Fail(w, "phase", S)
      BY <2>1
    <3>2. ~WellWritten(c) /\ ~WellFormed(c)
      BY <1>2, <1>9, <2>1 DEF WellFormed, WellWritten
    <3> HIDE DEF S
    <3> QED
      BY <1>3, <1>6, <2>1, <3>1, <3>2 DEF Answers
  <2>2. CASE /\ c.len > 0 /\ c.in
             /\ EpWrite(Short)
             /\ stage' = "DATA_IN_LAST"
             /\ csw' = [w EXCEPT !.residue = @ - 1, !.status = "passed"]
             /\ sense' = IF c.op = "SENSE" THEN "none" ELSE sense
             /\ UNCHANGED <<stalled, mask>> /\ UNCHANGED <<memOK, left>>
    <3>1. w.residue - 1 \in Nat
      BY <1>2, <2>2
    <3>2. csw' \in Wrappers /\ csw'.tag = w.tag /\ csw'.residue = w.residue - 1 /\ csw'.status = "passed"
      BY <1>2, <2>2, <3>1 DEF Wrappers
    <3> QED
      BY <1>9, <2>2, <3>2 DEF Replies
  <2> QED
    BY <1>9, <2>1, <2>2, Zenon DEF DataIn
<1>10. ASSUME c.op \in {"READ", "WRITE", "VERIFY"}, SetupFails(c), SetupError(c, w)
       PROVE  Answers(c, w)
  <2> DEFINE S == IF c.len = 0 THEN {} ELSE {Dir(c)}
  <2>1. Fail(w, "failed", S) /\ sense' = sense /\ memOK' = memOK /\ left' = left
    BY <1>10 DEF SetupError
  <2>2. S \in SUBSET {"in", "out"}
    BY <1>4
  <2>3. ~WellWritten(c) /\ ~WellFormed(c)
    BY <1>2, <1>10 DEF WellFormed, WellWritten, SetupFails
  <2> HIDE DEF S
  <2> QED
    BY <1>3, <1>6, <2>1, <2>2, <2>3 DEF Answers
<1>11. ASSUME c.op \in {"READ", "WRITE", "VERIFY"}, c.op = "READ" <=> ~c.in,
              ~SetupFails(c), NEW e \in {"in", "out"}, DirectionError(c, w, e)
       PROVE  Answers(c, w)
  <2>1. Fail(w, "phase", {e}) /\ sense' \in SenseOfSetup /\ memOK' = memOK /\ left' = c.len
    BY <1>11 DEF DirectionError
  <2>2. ~WellWritten(c) /\ ~WellFormed(c) /\ {e} \in SUBSET {"in", "out"}
    BY <1>2, <1>11, SetupPasses DEF WellFormed, WellWritten
  <2>3. sense' \in Senses /\ (scene.medium = "fat12" => sense' = sense)
    BY <2>1, SetupSense
  <2> QED
    BY <1>2, <1>6, <2>1, <2>2, <2>3 DEF Answers
<1>12. ASSUME c.op = "READ", ReadCommand(c, w) PROVE Answers(c, w) \/ Reads(c, w)
  <2>1. CASE SetupFails(c) /\ SetupError(c, w)
    BY <1>10, <1>12, <2>1
  <2>2. CASE ~SetupFails(c) /\ ~c.in /\ DirectionError(c, w, "out")
    BY <1>11, <1>12, <2>2
  <2>3. CASE /\ ~SetupFails(c) /\ c.in
             /\ \E s \in SenseOfSetup : MemoryRead(c.len, s, w)
             /\ UNCHANGED memOK
    BY <1>2, <1>12, <2>3, SetupPasses DEF Reads
  <2> QED
    BY <1>12, <2>1, <2>2, <2>3, Zenon DEF ReadCommand
<1>13. ASSUME c.op \in {"WRITE", "VERIFY"}, WriteCommand(c, w) PROVE Answers(c, w) \/ Takes(c, w)
  <2>1. CASE SetupFails(c) /\ SetupError(c, w)
    BY <1>10, <1>13, <2>1
  <2>2. CASE ~SetupFails(c) /\ c.in /\ DirectionError(c, w, "in")
    BY <1>11, <1>13, <2>2
  <2>3. CASE /\ ~SetupFails(c) /\ ~c.in
             /\ left' = c.len
             /\ sense' \in SenseOfSetup
             /\ stage' = "DATA_OUT"
             /\ csw' = w
             /\ memOK' = IF c.op = "VERIFY" THEN TRUE ELSE memOK
             /\ NoWrite /\ UNCHANGED <<stalled, mask>>
    <3>1. memOK' \in BOOLEAN
      BY <1>3, <2>3
    <3> QED
      BY <1>2, <1>13, <2>3, <3>1, SetupPasses DEF Takes, NoWrite
  <2> QED
    BY <1>13, <2>1, <2>2, <2>3, Zenon DEF WriteCommand
<1>14. ASSUME c.op = "CHECK", Check(w) PROVE Answers(c, w)
  <2>1. Fail(w, "passed", {}) /\ sense' = sense /\ memOK' = memOK /\ left' = left
    BY <1>14 DEF Check
  <2>2. ~WellWritten(c) /\ (WellFormed(c) => c.len = 0) /\ c.op \notin {"READ", "WRITE", "VERIFY"}
    BY <1>14 DEF WellFormed, WellWritten
  <2> QED
    BY <1>3, <1>5, <1>6, <2>1, <2>2 DEF Answers
<1>15. ASSUME c.op = "OTHER", Reject(w, "field") PROVE Answers(c, w)
  <2>1. Fail(w, "failed", {}) /\ sense' = "field" /\ memOK' = memOK /\ left' = left
    BY <1>15 DEF Reject
  <2>2. ~WellWritten(c) /\ (WellFormed(c) => c.len = 0)
    BY <1>15 DEF WellFormed, WellWritten
  <2> QED
    BY <1>3, <1>5, <1>6, <2>1, <2>2 DEF Answers
<1> QED
  BY <1>1, <1>7, <1>8, <1>9, <1>12, <1>13, <1>14, <1>15, Zenon DEF c, w

-----------------------------------------------------------------------------
(* Type correctness                                                        *)

\* Blocks are multiples of PPB packets.
LEMMA MultipleOfBlock ==
  ASSUME NEW b \in Nat, PPB \in Nat \ {0}
  PROVE  (b * PPB) % PPB = 0
<1>1. ((b * PPB) + 0) % PPB = 0
  <2>1. b \in Int /\ 0 \in 0 .. (PPB - 1)
    OBVIOUS
  <2> QED
    BY <2>1, DivUnique, Zenon
<1>2. b * PPB \in Nat
  OBVIOUS
<1> DEFINE m == b * PPB
<1> HIDE DEF m
<1>3. m \in Nat /\ (m + 0) % PPB = 0
  BY <1>1, <1>2 DEF m
<1>4. m % PPB = 0
  BY <1>3
<1> QED
  BY <1>4 DEF m

\* An accepted transfer begins with a residue that covers it.
LEMMA FirstCovers ==
  ASSUME TypeOK, NEW c, c.len \in Nat, c.blocks \in Nat, c.len > 0, c.len = c.blocks * PPB
  PROVE  c.len \in Nat \ {0} /\ Covers(c.len, c.len)
<1>1. scene \in Scenes
  BY Parts
<1>2. PPB \in Nat \ {0}
  BY <1>1, SceneTypes
<1> DEFINE b == c.blocks
<1>3. b \in Nat /\ c.len = b * PPB
  OBVIOUS
<1> HIDE DEF b
<1>4. (b * PPB) % PPB = 0
  BY <1>2, <1>3, MultipleOfBlock
<1>5. c.len % PPB = 0
  BY <1>3, <1>4
<1> QED
  BY <1>5 DEF Covers

\* MSC_GetCBW.
LEMMA GetCBWTypes ==
  ASSUME TypeOK, Storage, scene' = scene, NEW p \in OutPackets, GetCBW(p)
  PROVE  DevAfter
<1> DEFINE c == p.cmd
           w == First(p)
<1>1. scene \in Scenes /\ DevOK /\ TxOK /\ PortOK
  BY Parts
<1>2. CASE p.kind = "cbw" /\ p.cmd.valid
  <2>1. /\ c \in scene.commands /\ c.len \in Nat /\ c.blocks \in Nat
        /\ w \in Wrappers /\ w.residue = c.len
    BY <1>2, FirstTypes
  <2>2. cbw' = c /\ (Answers(c, w) \/ Replies(c, w) \/ Reads(c, w) \/ Takes(c, w))
    BY <1>2, Commands, Zenon
  <2> HIDE DEF c, w
  <2>3. cbw' \in scene.commands /\ memOK \in BOOLEAN /\ sense \in Senses /\ left \in Nat \cup {Skewed}
        /\ "none" \in Senses
    BY <1>1, <2>1, <2>2 DEF DevOK, Senses
  <2>4. CASE Answers(c, w)
    <3>1. PICK st \in Statuses, S \in SUBSET {"in", "out"} :
            Fail(w, st, S) /\ sense' \in Senses /\ memOK' = memOK /\ left' \in Nat \cup {Skewed}
      BY <2>4 DEF Answers
    <3>2. memOK' \in BOOLEAN
      BY <2>3, <3>1
    <3> QED
      BY <2>1, <2>3, <3>1, <3>2, StatusTypes, Zenon
  <2>5. CASE Replies(c, w)
    <3>1. TxOK' /\ armed' /\ tx' # << >>
      BY <1>1, <2>5, InPacketTypes, EpWriteTypes DEF Replies
    <3>2. PortOK'
      BY <1>1, <2>5 DEF Replies, PortOK
    <3>3. stage' = "DATA_IN_LAST" /\ csw' \in Wrappers' /\ sense' \in Senses /\ memOK' \in BOOLEAN
          /\ left' \in Nat \cup {Skewed}
      BY <2>3, <2>5, SetsPrimed DEF Replies
    <3>4. DevOK'
      BY <2>3, <3>3 DEF DevOK, Stages
    <3>5. Storage'
      BY <3>1, <3>3 DEF Storage
    <3> QED
      BY <3>1, <3>2, <3>4, <3>5, Zenon DEF DevAfter
  <2>6. CASE Reads(c, w)
    <3>1. PICK s \in SenseOfSetup : MemoryRead(c.len, s, w)
      BY <2>6 DEF Reads
    <3>2. s \in Senses
      BY <3>1, SetupSense
    <3>3. c.len \in Nat \ {0} /\ Covers(w.residue, c.len)
      BY <2>1, <2>6, FirstCovers DEF Reads
    <3>4. memOK' \in BOOLEAN
      BY <2>3, <2>6 DEF Reads
    <3> QED
      BY <2>1, <2>3, <3>1, <3>2, <3>3, <3>4, ReadTypes, Zenon
  <2>7. CASE Takes(c, w)
    <3>1. /\ left' = c.len /\ sense' \in SenseOfSetup /\ stage' = "DATA_OUT" /\ csw' = w
          /\ memOK' \in BOOLEAN /\ UNCHANGED <<tx, armed, stalled, mask>>
      BY <2>7 DEF Takes
    <3>2. c.len \in Nat \ {0} /\ Covers(w.residue, c.len)
      BY <2>1, <2>7, FirstCovers DEF Takes
    <3>3. TxOK' /\ PortOK'
      BY <1>1, <3>1, SetsPrimed DEF TxOK, PortOK
    <3>4. sense' \in Senses /\ csw' \in Wrappers'
      BY <2>1, <3>1, SetupSense, SetsPrimed
    <3>5. DevOK'
      BY <2>3, <3>1, <3>2, <3>4 DEF DevOK, Stages
    <3>6. Covers(csw.residue, left)'
      BY <3>1, <3>2 DEF Covers
    <3>7. Storage'
      BY <3>1, <3>2, <3>6 DEF Storage
    <3> QED
      BY <3>3, <3>5, <3>7, Zenon DEF DevAfter
  <2> QED
    BY <2>2, <2>4, <2>5, <2>6, <2>7
<1>3. CASE ~(p.kind = "cbw" /\ p.cmd.valid)
  <2>1. /\ stage' = "ERROR" /\ StallEP({"in", "out"}) /\ NoWrite
        /\ Overrun \/ UNCHANGED <<csw, sense>>
        /\ UNCHANGED <<cbw, memOK, left>>
    BY <1>3, Zenon DEF GetCBW
  <2>2. csw' \in Wrappers /\ sense' \in Senses
    <3>1. csw.residue \in Nat \cup {Skewed} /\ csw \in Wrappers /\ sense \in Senses
      BY <1>1, WrapperTypes DEF DevOK, Statuses, Wrappers
    <3> QED
      BY <2>1, <3>1 DEF Overrun, Wrappers
  <2>3. TxOK' /\ PortOK' /\ (armed' => tx' # << >>)
    <3>1. PortOK'
      BY <1>1, <2>1, StallTypes
    <3> QED
      BY <1>1, <2>1, <3>1, SetsPrimed DEF TxOK, NoWrite, Storage
  <2>4. DevOK'
    BY <1>1, <2>1, <2>2, SetsPrimed DEF DevOK, Stages
  <2>5. Storage'
    BY <2>1, <2>3 DEF Storage
  <2> QED
    BY <2>3, <2>4, <2>5, Zenon DEF DevAfter
<1> QED
  BY <1>2, <1>3

\* BulkOut.
LEMMA BulkOutTypes ==
  ASSUME TypeOK, Storage, scene' = scene, BulkOut
  PROVE  DevAfter
<1>1. scene \in Scenes /\ DevOK /\ TxOK /\ PortOK /\ RxOK
  BY Parts
<1>2. PICK p \in OutPackets : isr = <<p>>
  BY <1>1 DEF RxOK, BulkOut
<1>p. isr[1] = p
  BY <1>2
<1>3. \/ stage = "CBW" /\ GetCBW(p)
      \/ stage = "DATA_OUT" /\ cbw.op = "WRITE" /\ MemoryWrite(p)
      \/ stage = "DATA_OUT" /\ cbw.op = "VERIFY" /\ MemoryVerify(p)
      \/ /\ Fail(csw, "phase", {"out"})
         /\ UNCHANGED <<cbw, sense, memOK, left>>
  BY <1>p, Zenon DEF BulkOut
<1>4. /\ csw \in Wrappers /\ sense \in Senses /\ memOK \in BOOLEAN /\ left \in Nat \cup {Skewed}
      /\ cbw \in scene.commands
  BY <1>1 DEF DevOK
<1>5. CASE stage = "CBW" /\ GetCBW(p)
  BY <1>5, GetCBWTypes
<1>6. CASE stage = "DATA_OUT" /\ (MemoryWrite(p) \/ MemoryVerify(p))
  <2>1. CASE left = Skewed \/ p # Data
    <3>1. /\ left' = Skewed /\ left' # 0 /\ cbw' = cbw /\ memOK' \in BOOLEAN
          /\ csw' \in Wrappers /\ sense' \in Senses /\ Pending
      BY <1>1, <1>4, <1>6, <2>1, WriteSkewed, Zenon
    <3>2. /\ stage' = stage /\ UNCHANGED <<tx, armed, stalled, mask>>
      BY <3>1 DEF Pending, NoWrite
    <3>3. TxOK' /\ PortOK'
      BY <1>1, <3>2, SetsPrimed DEF TxOK, PortOK
    <3>4. DevOK'
      BY <1>1, <1>4, <3>1, <3>2, SetsPrimed DEF DevOK
    <3>5. Storage'
      BY <1>6, <3>1, <3>2 DEF Storage
    <3> QED
      BY <3>3, <3>4, <3>5, Zenon DEF DevAfter
  <2>2. CASE left # Skewed /\ p = Data
    <3>1. left \in Nat \ {0} /\ Covers(csw.residue, left)
      BY <1>4, <1>6, <2>2 DEF Storage
    <3>2. MemoryWrite(Data) \/ MemoryVerify(Data)
      BY <1>6, <2>2, Zenon
    <3>3. /\ left' = left - 1 /\ cbw' = cbw /\ memOK' \in BOOLEAN
          /\ Counts(csw', sense', csw, sense, left - 1)
          /\ left # 1 => Pending
          /\ left = 1 => \E S \in SUBSET {"in", "out"} : SetCSW(csw', S)
      BY <1>1, <1>4, <3>1, <3>2, WriteStep, Zenon
    <3>4. csw' \in Wrappers /\ sense' \in Senses /\ Covers(csw'.residue, left - 1)
      BY <3>3, Zenon DEF Counts
    <3>5. CASE left # 1
      <4>1. stage' = stage /\ UNCHANGED <<tx, armed, stalled, mask>>
        BY <3>3, <3>5 DEF Pending, NoWrite
      <4>2. TxOK' /\ PortOK'
        BY <1>1, <4>1, SetsPrimed DEF TxOK, PortOK
      <4>3. left' \in Nat \ {0}
        BY <3>1, <3>3, <3>5
      <4>4. DevOK'
        BY <1>1, <1>4, <3>3, <3>4, <4>1, <4>3, SetsPrimed DEF DevOK
      <4>5. Covers(csw.residue, left)'
        BY <3>3, <3>4 DEF Covers
      <4>6. Storage'
        BY <1>6, <4>1, <4>3, <4>5 DEF Storage
      <4> QED
        BY <4>2, <4>4, <4>6, Zenon DEF DevAfter
    <3>6. CASE left = 1
      <4>1. PICK S \in SUBSET {"in", "out"} : SetCSW(csw', S)
        BY <3>3, <3>6
      <4>2. /\ stage' = "CSW" /\ stage' \in Stages /\ TxOK' /\ PortOK' /\ armed' /\ tx' # << >>
        <5> DEFINE v == csw'
        <5>1. v \in Wrappers /\ SetCSW(v, S)
          BY <3>4, <4>1
        <5> HIDE DEF v
        <5> QED
          BY <1>1, <5>1, SetCSWTypes
      <4>3. left' \in Nat
        BY <3>3, <3>6
      <4>4. DevOK'
        BY <1>1, <1>4, <3>3, <3>4, <4>2, <4>3, SetsPrimed DEF DevOK
      <4>5. Storage'
        BY <4>2 DEF Storage
      <4> QED
        BY <4>2, <4>4, <4>5, Zenon DEF DevAfter
    <3> QED
      BY <3>5, <3>6
  <2> QED
    BY <2>1, <2>2
<1>7. CASE Fail(csw, "phase", {"out"}) /\ UNCHANGED <<cbw, sense, memOK, left>>
  <2>1. "phase" \in Statuses /\ {"out"} \in SUBSET {"in", "out"}
    BY DEF Statuses
  <2>2. cbw' \in scene.commands /\ sense' \in Senses /\ memOK' \in BOOLEAN /\ left' \in Nat \cup {Skewed}
    BY <1>4, <1>7
  <2> QED
    BY <1>4, <1>7, <2>1, <2>2, StatusTypes, Zenon
<1> QED
  BY <1>3, <1>5, <1>6, <1>7

\* BulkIn.
LEMMA BulkInTypes ==
  ASSUME TypeOK, Storage, scene' = scene, BulkIn
  PROVE  DevAfter
<1>1. scene \in Scenes /\ DevOK /\ TxOK /\ PortOK
  BY Parts
<1>2. /\ csw \in Wrappers /\ sense \in Senses /\ memOK \in BOOLEAN /\ left \in Nat \cup {Skewed}
      /\ cbw \in scene.commands /\ stage \in Stages
  BY <1>1 DEF DevOK
<1>3. UNCHANGED <<cbw, memOK>>
  BY DEF BulkIn
<1>4. CASE stage = "DATA_IN" /\ MemoryRead(left, sense, csw)
  <2>1. left \in Nat \ {0} /\ Covers(csw.residue, left)
    <3>1. left \in Nat \ {0} /\ left # Skewed
      BY <1>4 DEF Storage, Skewed
    <3> QED
      BY <1>4, <3>1 DEF Storage
  <2>2. cbw' \in scene.commands /\ memOK' \in BOOLEAN
    BY <1>2, <1>3
  <2> QED
    BY <1>2, <1>4, <2>1, <2>2, ReadTypes, Zenon
<1>5. CASE /\ SetCSW(csw, IF stage = "DATA_IN_LAST_STALL" THEN {"in"} ELSE {})
           /\ UNCHANGED <<sense, left>>
  <2> DEFINE S == IF stage = "DATA_IN_LAST_STALL" THEN {"in"} ELSE {}
  <2>1. S \in SUBSET {"in", "out"}
    OBVIOUS
  <2> HIDE DEF S
  <2>2. SetCSW(csw, S)
    BY <1>5 DEF S
  <2>3. /\ csw' \in Wrappers' /\ stage' = "CSW" /\ stage' \in Stages
        /\ TxOK' /\ PortOK' /\ armed' /\ tx' # << >>
    BY <1>1, <1>2, <2>1, <2>2, SetCSWTypes, Zenon
  <2>4. DevOK'
    BY <1>2, <1>3, <1>5, <2>3, SetsPrimed DEF DevOK
  <2>5. Storage'
    BY <2>3 DEF Storage
  <2> QED
    BY <2>3, <2>4, <2>5, Zenon DEF DevAfter
<1>6. CASE /\ stage' = "CBW" \/ (stage' = stage /\ stage \in {"CBW", "DATA_OUT", "ERROR"})
           /\ NoWrite /\ UNCHANGED <<csw, sense, left, stalled, mask>>
  <2>1. TxOK' /\ PortOK' /\ (armed' => tx' # << >>)
    BY <1>1, <1>6, SetsPrimed DEF TxOK, PortOK, NoWrite, Storage
  <2>2. stage' \in Stages
    BY <1>2, <1>6 DEF Stages
  <2>3. DevOK'
    BY <1>2, <1>3, <1>6, <2>2, SetsPrimed DEF DevOK
  <2>4. Covers(csw.residue, left)' <=> Covers(csw.residue, left)
    BY <1>6 DEF Covers
  <2>5. Storage'
    BY <1>6, <2>1, <2>4 DEF Storage
  <2> QED
    BY <2>1, <2>3, <2>5, Zenon DEF DevAfter
<1> QED
  BY <1>4, <1>5, <1>6, Zenon DEF BulkIn

\* Steps that MsClass has no part in.
LEMMA DevKept ==
  ASSUME TypeOK, Storage, scene' = scene, UNCHANGED dev, PortOK', TxOK', armed' => tx' # << >>
  PROVE  DevAfter
<1>1. DevOK
  BY Parts
<1>2. UNCHANGED <<stage, cbw, csw, sense, memOK, left>>
  BY DEF dev
<1>3. DevOK'
  BY <1>1, <1>2, SetsPrimed DEF DevOK
<1>4. Covers(csw.residue, left)' <=> Covers(csw.residue, left)
  BY <1>2 DEF Covers
<1>5. Storage'
  BY <1>2, <1>4 DEF Storage
<1> QED
  BY <1>3, <1>5, Zenon DEF DevAfter

\* Every step keeps the types and what the storage relies on.
LEMMA NextTypes == TypeOK /\ Storage /\ [Next]_vars => TypeOK' /\ Storage'
<1> SUFFICES ASSUME TypeOK, Storage, [Next]_vars PROVE TypeOK' /\ Storage'
  OBVIOUS
<1>1. /\ scene \in Scenes /\ DevOK /\ TxOK /\ PortOK /\ RxOK /\ HostOK
  BY Parts
<1>2. scene' = scene
  BY Zenon DEF Next, Device, Host, Begin, vars
<1>3. scene' \in Scenes /\ DevAfter /\ RxOK' /\ HostOK' => TypeOK' /\ Storage'
  BY Zenon DEF DevAfter, TypeOK, DevOK, TxOK, PortOK, RxOK, HostOK
<1>4. /\ UNCHANGED <<rx, isr, xfrc>> => RxOK'
      /\ UNCHANGED host => HostOK'
      /\ UNCHANGED <<tx, armed>> => TxOK' /\ (armed' => tx' # << >>)
      /\ UNCHANGED <<stalled, mask>> => PortOK'
  <2>1. UNCHANGED <<rx, isr, xfrc>> => RxOK'
    BY <1>1, <1>2, SetsPrimed DEF RxOK
  <2>2. UNCHANGED host => HostOK'
    BY <1>1, <1>2, SetsPrimed DEF HostOK, host
  <2>3. UNCHANGED <<tx, armed>> => TxOK'
    BY <1>1, <1>2, SetsPrimed DEF TxOK
  <2>4. UNCHANGED <<tx, armed>> => (armed' => tx' # << >>)
    BY DEF Storage
  <2>5. UNCHANGED <<stalled, mask>> => PortOK'
    BY <1>1 DEF PortOK
  <2> QED
    BY <2>1, <2>2, <2>3, <2>4, <2>5, Zenon
<1>5. ASSUME stalled' \subseteq stalled, mask' \subseteq mask PROVE PortOK'
  BY <1>1, <1>5 DEF PortOK
<1>a. CASE OutRead
  <2>1. /\ isr' = rx /\ rx' = << >> /\ UNCHANGED <<dev, stalled, mask, tx, armed, xfrc, host>>
    BY <1>a DEF OutRead
  <2>2. RxOK'
    BY <1>1, <1>2, <2>1, SetsPrimed DEF RxOK
  <2>3. DevAfter
    BY <1>2, <1>4, <2>1, DevKept
  <2> QED
    BY <1>1, <1>2, <1>3, <1>4, <2>1, <2>2, <2>3, Zenon
<1>b. CASE BulkOut
  <2>1. DevAfter
    BY <1>2, <1>b, BulkOutTypes
  <2>2. isr' = << >> /\ UNCHANGED <<rx, xfrc, host>>
    BY <1>b DEF BulkOut
  <2>3. RxOK'
    BY <1>1, <1>2, <2>2, SetsPrimed DEF RxOK
  <2> QED
    BY <1>1, <1>2, <1>3, <1>4, <2>1, <2>2, <2>3, Zenon
<1>c. CASE BulkIn
  <2>1. DevAfter
    BY <1>2, <1>c, BulkInTypes
  <2>2. isr' = <<In>> /\ UNCHANGED <<rx, xfrc, host>>
    BY <1>c DEF BulkIn
  <2>3. RxOK'
    BY <1>1, <1>2, <2>2, SetsPrimed DEF RxOK
  <2> QED
    BY <1>1, <1>2, <1>3, <1>4, <2>1, <2>2, <2>3, Zenon
<1>d. CASE InDone
  <2>1. /\ isr' = << >> /\ xfrc' = FALSE /\ UNCHANGED <<dev, stalled, mask, rx, tx, armed, host>>
    BY <1>d DEF InDone
  <2>2. RxOK'
    BY <1>1, <1>2, <2>1, SetsPrimed DEF RxOK
  <2>3. DevAfter
    BY <1>2, <1>4, <2>1, DevKept
  <2> QED
    BY <1>1, <1>2, <1>3, <1>4, <2>1, <2>2, <2>3, Zenon
<1>e. ASSUME NEW c \in scene.commands, SendCBW(c) PROVE TypeOK' /\ Storage'
  <2>1. /\ htag' = (htag + 1) % scene.tags /\ rx' = <<Cbw(c, htag')>> /\ hcmd' = c /\ moved' = 0
        /\ hst' = IF c.len = 0 THEN "status" ELSE Dir(c)
        /\ UNCHANGED <<dev, stalled, mask, isr, tx, armed, xfrc>>
    BY <1>e DEF SendCBW
  <2>2. htag' \in Tags
    BY <1>1, <2>1, SceneTypes DEF HostOK
  <2>3. Cbw(c, htag') \in OutPackets
    BY <2>2 DEF OutPackets, Cbw
  <2>4. RxOK'
    BY <1>1, <1>2, <2>1, <2>3, SetsPrimed DEF RxOK
  <2>5. HostOK'
    BY <1>2, <2>1, <2>2, SetsPrimed DEF HostOK, Dir
  <2>6. DevAfter
    BY <1>2, <1>4, <2>1, DevKept
  <2> QED
    BY <1>1, <1>2, <1>3, <2>4, <2>5, <2>6, Zenon
<1>f. CASE SendData
  <2>1. /\ rx' = <<Data>> /\ moved' = moved + 1 /\ hst' \in {"status", "out"}
        /\ UNCHANGED <<dev, stalled, mask, isr, tx, armed, xfrc, hcmd, htag>>
    BY <1>f DEF SendData
  <2>2. RxOK'
    BY <1>1, <1>2, <2>1, SetsPrimed DEF RxOK, OutPackets
  <2>3. HostOK'
    BY <1>1, <1>2, <2>1, SetsPrimed DEF HostOK
  <2>4. DevAfter
    BY <1>2, <1>4, <2>1, DevKept
  <2> QED
    BY <1>1, <1>2, <1>3, <2>2, <2>3, <2>4, Zenon
<1>g. CASE Fetch
  <2>1. /\ armed /\ tx' = Tail(tx) /\ armed' = FALSE /\ xfrc' = TRUE
        /\ hst' \in {"in", "status", "idle", "reset"} /\ moved' \in {moved, moved + 1}
        /\ UNCHANGED <<dev, stalled, mask, rx, isr, hcmd, htag>>
    BY <1>g DEF Fetch
  <2>2. tx # << >>
    BY <2>1 DEF Storage
  <2>3. Tail(tx) \in Seq(InPackets) /\ Len(Tail(tx)) <= TxDepth
    <3>1. tx \in Seq(InPackets) /\ Len(tx) <= TxDepth /\ TxDepth \in Nat
      BY <1>1, SceneTypes DEF TxOK
    <3>2. Tail(tx) \in Seq(InPackets) /\ Len(Tail(tx)) = Len(tx) - 1 /\ Len(tx) \in Nat
      BY <2>2, <3>1, HeadTailProperties, EmptySeq, LenProperties
    <3> QED
      BY <3>1, <3>2
  <2>4. TxOK' /\ (armed' => tx' # << >>)
    BY <1>2, <2>1, <2>3, SetsPrimed DEF TxOK
  <2>5. RxOK'
    BY <1>1, <1>2, <2>1, SetsPrimed DEF RxOK
  <2>6. HostOK'
    BY <1>1, <1>2, <2>1, SetsPrimed DEF HostOK
  <2>7. DevAfter
    BY <1>2, <1>4, <2>1, <2>4, DevKept
  <2> QED
    BY <1>1, <1>2, <1>3, <2>5, <2>6, <2>7, Zenon
<1>h. CASE MeetStall \/ ClearHalts \/ GiveUp
  <2>1. /\ hst' \in {"status", "retry", "reset", "clrOut", "idle"}
        /\ stalled' \subseteq stalled
        /\ UNCHANGED <<dev, mask, rx, isr, tx, armed, xfrc, hcmd, htag, moved>>
    BY <1>h DEF MeetStall, ClearHalts, GiveUp, ClearFeature, usb
  <2>2. HostOK'
    BY <1>1, <1>2, <2>1, SetsPrimed DEF HostOK
  <2>3. PortOK'
    BY <1>5, <2>1
  <2>4. DevAfter
    BY <1>2, <1>4, <2>1, <2>3, DevKept
  <2> QED
    BY <1>1, <1>2, <1>3, <1>4, <2>1, <2>2, <2>4, Zenon
<1>i. CASE ClassReset
  <2>1. /\ stage' = "CBW" /\ mask' = {} /\ hst' = "clrIn"
        /\ UNCHANGED <<cbw, csw, sense, memOK, left, stalled, rx, isr, tx, armed, xfrc,
                       hcmd, htag, moved>>
    BY <1>i DEF ClassReset
  <2>2. HostOK'
    BY <1>1, <1>2, <2>1, SetsPrimed DEF HostOK
  <2>3. PortOK' /\ TxOK' /\ (armed' => tx' # << >>)
    BY <1>4, <1>5, <2>1
  <2>4. DevOK'
    BY <1>1, <1>2, <2>1, SetsPrimed DEF DevOK, Stages
  <2>5. Storage'
    BY <2>1, <2>3 DEF Storage
  <2>6. DevAfter
    BY <2>3, <2>4, <2>5, Zenon DEF DevAfter
  <2> QED
    BY <1>1, <1>2, <1>3, <1>4, <2>1, <2>2, <2>6, Zenon
<1>j. CASE BusReset
  <2>1. /\ hst' = "idle" /\ stalled' = {} /\ mask' = {} /\ tx' = << >> /\ armed' = FALSE
        /\ UNCHANGED <<dev, rx, isr, xfrc, hcmd, htag, moved>>
    BY <1>j DEF BusReset
  <2>2. HostOK'
    BY <1>1, <1>2, <2>1, SetsPrimed DEF HostOK
  <2>3. PortOK' /\ TxOK' /\ (armed' => tx' # << >>)
    <3>1. TxDepth \in Nat /\ << >> \in Seq(InPackets) /\ Len(<< >>) = 0
      BY <1>1, SceneTypes, EmptySeq
    <3>2. TxOK' /\ (armed' => tx' # << >>)
      <4>1. InPackets' = InPackets /\ tx' = << >> /\ armed' = FALSE
        BY <1>2, <2>1, SetsPrimed
      <4>2. tx' \in Seq(InPackets') /\ Len(tx') <= TxDepth
        BY <3>1, <4>1
      <4> QED
        BY <4>1, <4>2 DEF TxOK
    <3>3. PortOK'
      BY <1>5, <2>1
    <3> QED
      BY <3>2, <3>3
  <2>4. DevAfter
    BY <1>2, <2>1, <2>3, DevKept
  <2> QED
    BY <1>1, <1>2, <1>3, <1>4, <2>1, <2>2, <2>4, Zenon
<1>k. CASE UNCHANGED vars
  <2>1. UNCHANGED <<dev, stalled, mask, rx, isr, tx, armed, xfrc, host>>
    BY <1>k DEF vars, dev, host
  <2>2. DevAfter
    BY <1>2, <1>4, <2>1, DevKept
  <2> QED
    BY <1>1, <1>2, <1>3, <1>4, <2>1, <2>2, Zenon
<1> QED
  BY <1>a, <1>b, <1>c, <1>d, <1>e, <1>f, <1>g, <1>h, <1>i, <1>j, <1>k, Zenon
     DEF Next, Device, Host, Begin

\* From the start on.
LEMMA InitTypes == Init => TypeOK /\ Storage /\ AtRest
<1> SUFFICES ASSUME Init PROVE TypeOK /\ Storage /\ AtRest
  OBVIOUS
<1>1. /\ scene \in Scenes /\ stage = "CBW" /\ cbw = CHOOSE c \in scene.commands : TRUE
      /\ csw = [tag |-> 0, residue |-> 0, status |-> "passed"]
      /\ sense = "reset" /\ memOK = FALSE /\ left = 0
      /\ stalled = {} /\ mask = {} /\ rx = << >> /\ isr = << >> /\ tx = << >>
      /\ armed = FALSE /\ xfrc = FALSE
      /\ hst = "idle" /\ hcmd = cbw /\ htag = 0 /\ moved = 0
  BY DEF Init
<1>2. cbw \in scene.commands
  <2>1. scene.commands # {}
    BY <1>1, MscAssumption
  <2> QED
    BY <1>1, <2>1
<1>3. 0 \in Tags /\ TxDepth \in Nat
  BY <1>1, SceneTypes
<1>4. DevOK
  <2>1. csw \in Wrappers
    BY <1>1, <1>3 DEF Wrappers
  <2> QED
    BY <1>1, <1>2, <2>1 DEF DevOK, Stages, Senses
<1>5. TxOK
  <2>1. << >> \in Seq(InPackets) /\ Len(<< >>) = 0
    BY EmptySeq
  <2>2. tx \in Seq(InPackets) /\ Len(tx) <= TxDepth
    BY <1>1, <1>3, <2>1
  <2> QED
    BY <1>1, <2>2 DEF TxOK
<1>6. PortOK /\ RxOK /\ HostOK
  BY <1>1, <1>2, <1>3 DEF PortOK, RxOK, HostOK
<1>7. TypeOK
  BY <1>1, <1>4, <1>5, <1>6, Parts, Zenon
<1> QED
  BY <1>1, <1>7 DEF Storage, AtRest, Empty, Handled, Orderly

\* The stages, endpoints and counts of MsClass keep to their ranges, for every
\* host, however late interrupts are served (MscBot as a whole).
THEOREM TypeInvariance == Spec => []TypeOK
<1>1. Init => TypeOK /\ Storage
  BY InitTypes
<1>2. TypeOK /\ Storage /\ [Next]_vars => (TypeOK /\ Storage)'
  BY NextTypes
<1> QED
  BY <1>1, <1>2, PTL DEF Spec

-----------------------------------------------------------------------------
(* Steps between the situations: the port and the host                     *)

\* What the situations are told apart by.
LEMMA Terms ==
  /\ << >> # <<Data>> /\ << >> # <<In>> /\ <<Data>> # <<In>> /\ <<Data>> # <<Short>>
  /\ \A c, t : <<Cbw(c, t)>> # << >> /\ <<Cbw(c, t)>> # <<Data>> /\ <<Cbw(c, t)>> # <<In>>
  /\ \A t, r, x : <<Csw(t, r, x)>> # << >>
  /\ Under(<< >>) = 0 /\ Under(<<Data>>) = 1
  /\ hcmd.in \in BOOLEAN => Expected \in {"status", "in", "out"}
BY Kinds DEF Under, Expected, Dir

\* A step that leaves the device and the command alone.
LEMMA Kept ==
  ASSUME scene' = scene, UNCHANGED <<dev, hcmd>>
  PROVE  /\ Orderly' <=> Orderly
         /\ Exact(csw.residue, sense, left)' <=> Exact(csw.residue, sense, left)
BY DEF dev, Exact, Orderly

\* RXFLVL.
LEMMA OutReadSituation ==
  ASSUME TypeOK, scene' = scene, Situation, OutRead
  PROVE  Situation'
<1>1. /\ isr = << >> /\ rx # << >> /\ isr' = rx /\ rx' = << >>
      /\ UNCHANGED <<dev, stalled, mask, tx, armed, xfrc, host>>
  BY DEF OutRead
<1>2. UNCHANGED <<stage, cbw, csw, sense, memOK, left, hst, hcmd, htag, moved>>
  BY <1>1 DEF dev, host
<1>3. /\ Orderly' <=> Orderly
      /\ Exact(csw.residue, sense, left)' <=> Exact(csw.residue, sense, left)
  BY <1>1, <1>2, Kept
<1>4. ~AtRest /\ ~Recovering /\ ~Giving /\ ~Answered
  BY <1>1 DEF AtRest, Recovering, Giving, Answered
<1>5. ASSUME Sent PROVE Sent'
  <2>1. rx = <<Cbw(hcmd, htag)>> /\ moved = 0
    BY <1>1, <1>5, Terms DEF Sent
  <2> QED
    BY <1>1, <1>2, <1>3, <1>5, <2>1 DEF Sent, Empty, Expected, Dir, Cbw
<1>6. ASSUME Taking PROVE Taking'
  <2>1. rx = <<Data>> /\ hcmd.len = (left + moved) - (1 + 0)
    BY <1>1, <1>6, Terms DEF Taking
  <2>2. Under(rx') = 0 /\ Under(isr') = 1
    BY <1>1, <2>1, Terms
  <2>3. hcmd'.len = (left' + moved') - (Under(rx') + Under(isr'))
    <3> hcmd'.len = (left + moved) - (0 + 1)
      BY <1>2, <2>1
    <3> QED
      BY <1>2, <2>2
  <2>4. rx' \in {<< >>, <<Data>>} /\ isr' \in {<< >>, <<Data>>}
    BY <1>1, <2>1
  <2>5. /\ Empty' /\ ~xfrc' /\ stage' = "DATA_OUT" /\ stalled' = {} /\ hst' = Expected'
        /\ ~hcmd'.in /\ cbw' = hcmd' /\ csw'.tag = htag' /\ left' \in Nat \ {0}
        /\ moved' <= hcmd'.len /\ Exact(csw.residue, sense, left)'
    BY <1>1, <1>2, <1>3, <1>6 DEF Taking, Empty, Expected, Dir
  <2> QED
    BY <2>3, <2>4, <2>5 DEF Taking, Under, Data
<1>7. ASSUME Silent PROVE Silent'
  <2>1. /\ stage = "ERROR" /\ ~xfrc /\ hst \in {"out", "status"} /\ rx = <<Data>>
    BY <1>1, <1>7 DEF Silent
  <2> QED
    BY <1>1, <1>2, <1>3, <1>7, <2>1 DEF Silent, Empty, Data
<1> QED
  BY <1>4, <1>5, <1>6, <1>7, Zenon DEF Situation

\* The interrupt flag is cleared.
LEMMA InDoneSituation ==
  ASSUME TypeOK, scene' = scene, Situation, InDone
  PROVE  Situation'
<1>1. /\ isr = <<In>> /\ isr' = << >> /\ xfrc' = FALSE
      /\ UNCHANGED <<dev, stalled, mask, rx, tx, armed, host>>
  BY DEF InDone
<1>2. UNCHANGED <<stage, cbw, csw, sense, memOK, left, hst, hcmd, htag, moved>>
  BY <1>1 DEF dev, host
<1>3. /\ Orderly' <=> Orderly
      /\ Exact(csw.residue, sense, left)' <=> Exact(csw.residue, sense, left)
  BY <1>1, <1>2, Kept
<1>4. ~Sent /\ ~Taking
  BY <1>1, Terms DEF Sent, Taking
<1>5. Handled' /\ (Empty' <=> Empty) /\ isr # << >> /\ isr' # <<In>>
  BY <1>1, Terms DEF Handled, Empty
<1>6. \A p : (Offered(p) => Offered(p)')
  BY <1>1, <1>5 DEF Offered
<1>7. ASSUME AtRest PROVE AtRest'
  BY <1>1, <1>2, <1>3, <1>5, <1>7 DEF AtRest
<1>8. ASSUME Recovering PROVE Recovering'
  BY <1>1, <1>2, <1>3, <1>5, <1>8 DEF Recovering
<1>9. ASSUME Giving PROVE Giving'
  <2>1. \/ Offered(Data)' /\ hst' = "in"
        \/ Offered(Short)' /\ hst' = "in" /\ moved' = 0 /\ stage' = "DATA_IN_LAST"
    BY <1>1, <1>2, <1>5, <1>6, <1>9 DEF Giving
  <2> QED
    BY <1>1, <1>2, <1>3, <1>9, <2>1 DEF Giving, Offered, Data, Short
<1>10. ASSUME Answered PROVE Answered'
  <2>1. Offered(Csw(csw.tag, csw.residue, csw.status))'
    BY <1>2, <1>6, <1>10 DEF Answered
  <2>2. Truthful(csw)'
    BY <1>2, <1>10 DEF Answered, Truthful
  <2> QED
    BY <1>1, <1>2, <1>3, <1>10, <2>1, <2>2 DEF Answered
<1>11. ASSUME Silent PROVE Silent'
  <2>1. rx = << >> /\ Handled /\ stage \in {"CBW", "ERROR"}
    BY <1>1, <1>11, Terms DEF Silent
  <2> QED
    BY <1>1, <1>2, <1>3, <1>5, <1>11, <2>1 DEF Silent
<1> QED
  BY <1>4, <1>7, <1>8, <1>9, <1>10, <1>11, Zenon DEF Situation

\* The host begins a command.
LEMMA SendCBWSituation ==
  ASSUME TypeOK, scene' = scene, Prompt, Situation, NEW c \in scene.commands, SendCBW(c)
  PROVE  Situation'
<1>1. /\ hst = "idle" /\ rx = << >> /\ "out" \notin stalled /\ ~xfrc /\ isr = << >>
      /\ rx' = <<Cbw(c, htag')>> /\ hcmd' = c /\ moved' = 0
      /\ hst' = IF c.len = 0 THEN "status" ELSE Dir(c)
      /\ UNCHANGED <<dev, stalled, mask, isr, tx, armed, xfrc>>
  BY DEF SendCBW
<1>2. scene \in Scenes /\ hcmd \in scene.commands /\ stalled \subseteq {"in", "out"}
  BY DEF TypeOK
<1>3. c.len \in Nat /\ hcmd.in \in BOOLEAN
  BY <1>2, SceneTypes
<1>4. ~Sent /\ ~Taking
  BY <1>1, <1>3, Terms DEF Sent, Taking
<1>5. AtRest
  BY <1>1, <1>4 DEF Situation, Recovering, Giving, Answered, Silent
<1>6. stage = "CBW" /\ Empty /\ stalled = {} /\ (Orderly => sense \notin {"range", "fault"})
  BY <1>1, <1>2, <1>5 DEF AtRest
<1>7. hst' = Expected'
  BY <1>1, <1>3 DEF Expected, Dir
<1>8. rx' = <<Cbw(hcmd', htag')>> /\ isr' = << >> /\ moved' = 0
  BY <1>1
<1>9. UNCHANGED <<stage, sense, stalled, tx, armed, xfrc>>
  BY <1>1 DEF dev
<1>10. /\ Empty' /\ ~xfrc' /\ stage' = "CBW" /\ stalled' = {}
       /\ (Orderly => sense \notin {"range", "fault"})'
  BY <1>1, <1>6, <1>9 DEF Empty, Orderly
<1>11. Sent'
  BY <1>7, <1>8, <1>10 DEF Sent, Cbw
<1> QED
  BY <1>11, Zenon DEF Situation

\* The host sends a packet of data.
LEMMA SendDataSituation ==
  ASSUME TypeOK, scene' = scene, Situation, SendData
  PROVE  Situation'
<1>1. /\ hst = "out" /\ rx = << >> /\ "out" \notin stalled
      /\ rx' = <<Data>> /\ moved' = moved + 1
      /\ hst' = IF moved' = hcmd.len THEN "status" ELSE "out"
      /\ UNCHANGED <<dev, stalled, mask, isr, tx, armed, xfrc, hcmd, htag>>
  BY DEF SendData
<1>2. UNCHANGED <<stage, cbw, csw, sense, memOK, left>>
  BY <1>1 DEF dev
<1>3. scene \in Scenes /\ hcmd \in scene.commands /\ moved \in Nat
  BY DEF TypeOK
<1>4. hcmd.len \in Nat /\ hcmd.in \in BOOLEAN
  BY <1>3, SceneTypes
<1>5. /\ Orderly' <=> Orderly
      /\ Exact(csw.residue, sense, left)' <=> Exact(csw.residue, sense, left)
  BY <1>1, <1>2, Kept
<1>6. ~AtRest /\ ~Recovering /\ ~Giving /\ ~Answered /\ ~Silent
  BY <1>1 DEF AtRest, Recovering, Giving, Answered, Silent
<1>7. hst = Expected /\ ~hcmd.in => moved # hcmd.len /\ hst' = Expected'
  BY <1>1, <1>4 DEF Expected, Dir
<1>8. ASSUME Sent PROVE Sent'
  <2>1. isr = <<Cbw(hcmd, htag)>> /\ moved = 0
    BY <1>1, <1>8, Terms DEF Sent
  <2>2. ~hcmd.in /\ moved # hcmd.len
    BY <1>1, <1>4, <1>8 DEF Sent, Expected, Dir
  <2>3. isr' = <<Cbw(hcmd', htag')>> /\ rx' = <<Data>> /\ moved' = 1 /\ ~hcmd'.in /\ hcmd'.len > 0
    BY <1>1, <1>4, <2>1, <2>2
  <2>4. /\ Empty' /\ ~xfrc' /\ stage' = "CBW" /\ stalled' = {} /\ hst' = Expected'
        /\ (Orderly => sense \notin {"range", "fault"})'
    BY <1>1, <1>2, <1>5, <1>7, <1>8, <2>2 DEF Sent, Empty
  <2> QED
    BY <2>3, <2>4 DEF Sent, Cbw, Data
<1>9. ASSUME Taking PROVE Taking'
  <2> DEFINE u == Under(isr)
  <2>1. /\ isr \in {<< >>, <<Data>>} /\ left \in Nat \ {0} /\ moved <= hcmd.len /\ ~hcmd.in
        /\ hcmd.len = (left + moved) - (0 + u)
    BY <1>1, <1>9, Terms DEF Taking
  <2>2. u \in Nat
    BY <2>1, Terms
  <2>3. Under(rx') = 1 /\ Under(isr') = u
    BY <1>1, Terms
  <2> HIDE DEF u
  <2>4. moved # hcmd.len /\ hst' = Expected'
    BY <1>7, <1>9 DEF Taking
  <2>5. moved' <= hcmd.len /\ hcmd.len = (left + moved') - (1 + u)
    BY <1>1, <1>3, <1>4, <2>1, <2>2, <2>4
  <2>6. hcmd'.len = (left' + moved') - (Under(rx') + Under(isr'))
    BY <1>1, <1>2, <2>3, <2>5
  <2>7. rx' \in {<< >>, <<Data>>} /\ isr' \in {<< >>, <<Data>>}
    BY <1>1, <2>1
  <2>8. /\ Empty' /\ ~xfrc' /\ stage' = "DATA_OUT" /\ stalled' = {}
        /\ ~hcmd'.in /\ cbw' = hcmd' /\ csw'.tag = htag' /\ left' \in Nat \ {0}
        /\ moved' <= hcmd'.len /\ Exact(csw.residue, sense, left)'
    BY <1>1, <1>2, <1>5, <1>9, <2>5 DEF Taking, Empty
  <2> QED
    BY <2>4, <2>6, <2>7, <2>8 DEF Taking, Under, Data
<1> QED
  BY <1>6, <1>8, <1>9, Zenon DEF Situation

\* The host reads a packet.
LEMMA FetchSituation ==
  ASSUME TypeOK, scene' = scene, Prompt, Situation, Fetch
  PROVE  Situation'
<1>1. /\ hst \in {"in", "status", "retry"} /\ armed /\ "in" \notin stalled /\ isr # <<In>>
      /\ IF hst = "in"
           THEN /\ moved' = moved + 1
                /\ hst' = IF Head(tx) = Data /\ moved' < hcmd.len THEN "in" ELSE "status"
           ELSE /\ hst' = IF /\ Head(tx).kind = "csw" /\ Head(tx).tag = htag
                             /\ Head(tx).status # "phase"
                            THEN "idle" ELSE "reset"
                /\ UNCHANGED moved
      /\ tx' = Tail(tx) /\ armed' = FALSE /\ xfrc' = TRUE
      /\ UNCHANGED <<dev, stalled, mask, rx, isr, hcmd, htag>>
  BY DEF Fetch
<1>2. UNCHANGED <<stage, cbw, csw, sense, memOK, left>>
  BY <1>1 DEF dev
<1>3. scene \in Scenes /\ hcmd \in scene.commands /\ moved \in Nat
  BY DEF TypeOK
<1>4. hcmd.len \in Nat /\ hcmd.in \in BOOLEAN
  BY <1>3, SceneTypes
<1>5. /\ Orderly' <=> Orderly
      /\ Exact(csw.residue, sense, left)' <=> Exact(csw.residue, sense, left)
  BY <1>1, <1>2, Kept
<1>6. ~AtRest /\ ~Recovering /\ ~Sent /\ ~Taking /\ ~Silent
  BY <1>1 DEF AtRest, Recovering, Sent, Taking, Silent, Empty
<1>7. \A p : (Offered(p) => tx = <<p>> /\ isr' = << >> /\ Empty' /\ xfrc' /\ Handled')
  <2> TAKE p
  <2> SUFFICES ASSUME Offered(p) PROVE tx = <<p>> /\ isr' = << >> /\ Empty' /\ xfrc' /\ Handled'
    OBVIOUS
  <2>1. tx = <<p>> /\ isr = << >>
    BY <1>1 DEF Offered, Handled
  <2>2. tx' = << >>
    BY <1>1, <2>1
  <2> QED
    BY <1>1, <2>1, <2>2 DEF Empty, Handled
<1>8. ASSUME Giving PROVE Giving'
  <2>1. (Offered(Data) \/ Offered(Short)) /\ hst = "in"
    BY <1>1, <1>8 DEF Giving, Empty
  <2>2. /\ tx = <<Data>> \/ (tx = <<Short>> /\ stage = "DATA_IN_LAST" /\ moved = 0 /\ Head(tx) # Data)
        /\ isr' = << >> /\ Empty' /\ xfrc'
    <3>1. CASE Offered(Data)
      BY <1>7, <3>1
    <3>2. CASE Offered(Short)
      <4>1. tx = <<Short>> /\ tx # <<Data>>
        BY <1>7, <3>2, Terms
      <4> QED
        BY <1>1, <1>7, <1>8, <3>2, <4>1, Kinds DEF Giving, Offered, Empty
    <3> QED
      BY <2>1, <3>1, <3>2
  <2>3. Len(tx) = 1 /\ tx' = << >> /\ Len(tx') = 0
    BY <2>2 DEF Empty
  <2>4. moved' = moved + 1
    BY <1>1, <2>1
  <2>5. stage = "DATA_IN" => tx = <<Data>> /\ left \in Nat \ {0} /\ hcmd.len = left + moved + 1
    BY <1>8, <2>2, <2>3 DEF Giving
  <2>6. hst' = IF stage' = "DATA_IN" THEN "in" ELSE "status"
    <3>1. CASE stage = "DATA_IN"
      <4>1. Head(tx) = Data /\ moved' < hcmd.len
        BY <1>3, <2>4, <2>5, <3>1
      <4> QED
        BY <1>1, <1>2, <2>1, <3>1, <4>1
    <3>2. CASE stage # "DATA_IN"
      <4>1. ~(Head(tx) = Data /\ moved' < hcmd.len)
        <5>1. CASE tx = <<Data>>
          BY <1>3, <1>4, <1>8, <2>4, <3>2, <5>1 DEF Giving
        <5>2. CASE Head(tx) # Data
          BY <5>2
        <5> QED
          BY <2>2, <5>1, <5>2
      <4> QED
        BY <1>1, <1>2, <2>1, <3>2, <4>1
    <3> QED
      BY <3>1, <3>2
  <2>7. Empty' /\ xfrc' /\ isr' = << >> /\ hst' = (IF stage' = "DATA_IN" THEN "in" ELSE "status")
    BY <2>2, <2>6
  <2>8. (stage = "DATA_IN" =>
           /\ left \in Nat \ {0} /\ hcmd.len = left + moved + Len(tx)
           /\ hcmd.op = "READ" /\ tx # <<Short>> /\ Exact(csw.residue, sense, left))'
    <3>1. ASSUME stage = "DATA_IN" PROVE hcmd.len = left + moved' + 0
      BY <1>3, <2>4, <2>5, <3>1
    <3>2. tx' # <<Short>>
      BY <2>3
    <3> QED
      BY <1>1, <1>2, <1>5, <1>8, <2>3, <2>5, <3>1, <3>2 DEF Giving
  <2>9. (stage # "DATA_IN" =>
           /\ csw.status \in {"passed", "failed"}
           /\ tx = <<Data>> => moved + 1 = hcmd.len
           /\ hcmd.op \in {"READ", "WRITE", "VERIFY"} =>
                tx # <<Short>> /\ hcmd.len = moved + Len(tx)
           /\ csw.status = "passed" => csw.residue = hcmd.len - (moved + Len(tx)))'
    <3>1. moved' + Len(tx') = moved + Len(tx)
      BY <1>3, <2>3, <2>4
    <3>2. tx' # <<Short>> /\ tx' # <<Data>>
      BY <2>3
    <3>3. stage # "DATA_IN" =>
           /\ csw.status \in {"passed", "failed"}
           /\ hcmd.op \in {"READ", "WRITE", "VERIFY"} => hcmd.len = moved + Len(tx)
           /\ csw.status = "passed" => csw.residue = hcmd.len - (moved + Len(tx))
      BY <1>8, Zenon DEF Giving
    <3> QED
      BY <1>1, <1>2, <3>1, <3>2, <3>3
  <2>10. /\ stage' \in {"DATA_IN", "DATA_IN_LAST", "DATA_IN_LAST_STALL"}
         /\ rx' = << >> /\ stalled' = {} /\ cbw' = hcmd' /\ csw'.tag = htag' /\ hcmd'.in
         /\ (Orderly => stage # "DATA_IN_LAST_STALL" /\ sense \notin {"range", "fault"})'
    BY <1>1, <1>2, <1>5, <1>8 DEF Giving
  <2> QED
    BY <2>7, <2>8, <2>9, <2>10, Zenon DEF Giving, Data, Short
<1>9. ASSUME Answered PROVE AtRest' \/ Recovering' \/ Silent'
  <2> DEFINE p == Csw(csw.tag, csw.residue, csw.status)
  <2>1. Offered(p) /\ rx = << >> /\ stage = "CSW"
    BY <1>9 DEF Answered
  <2>2. tx = <<p>> /\ isr' = << >> /\ Empty' /\ xfrc' /\ Handled'
    BY <1>7, <2>1
  <2>3. Head(tx) = p /\ p # Data /\ p.kind = "csw" /\ p.tag = csw.tag /\ p.status = csw.status
    <3>1. p # Data /\ p.kind = "csw" /\ p.tag = csw.tag /\ p.status = csw.status
      BY Kinds
    <3> HIDE DEF p
    <3> QED
      BY <2>2, <3>1
  <2>4. rx' = << >> /\ stage' = "CSW"
    BY <1>1, <1>2, <2>1
  <2> HIDE DEF p
  <2>5. ASSUME hst = "in" PROVE Silent'
    <3>1. hst' = "status"
      BY <1>1, <2>3, <2>5
    <3>2. ~Orderly
      BY <1>9, <2>5 DEF Answered
    <3> QED
      BY <1>5, <2>2, <2>4, <3>1, <3>2 DEF Silent
  <2>6. ASSUME hst # "in", hst' = "idle" PROVE AtRest'
    <3>1. "in" \notin stalled' /\ (Orderly => stalled = {} /\ sense \notin {"range", "fault"})'
      BY <1>1, <1>2, <1>5, <1>9 DEF Answered
    <3> QED
      BY <2>2, <2>4, <2>6, <3>1 DEF AtRest
  <2>7. ASSUME hst # "in", hst' # "idle" PROVE Recovering'
    <3>1. hst' = "reset" /\ ~(csw.tag = htag /\ csw.status # "phase")
      BY <1>1, <2>3, <2>7
    <3>2. ~Orderly
      BY <1>9, <3>1 DEF Answered
    <3> QED
      BY <1>5, <2>2, <2>4, <3>1, <3>2 DEF Recovering
  <2> QED
    BY <2>5, <2>6, <2>7
<1> QED
  BY <1>6, <1>8, <1>9, Zenon DEF Situation

\* CLEAR_FEATURE(ENDPOINT_HALT) reaches the endpoint: no bit that MSC_SetStallEP
\* sets is the one ReqSetClrFeature looks at.
LEMMA ClearsHalt ==
  ASSUME TypeOK, NEW d \in {"in", "out"}, ClearFeature(d)
  PROVE  stalled' = stalled \ {d} /\ UNCHANGED <<dev, mask, rx, isr, tx, armed, xfrc>>
<1>1. <<d, EpAddr>> \notin mask
  BY DEF TypeOK, EpAddr, StallBit
<1> QED
  BY <1>1 DEF ClearFeature

\* The host meets a STALL.
LEMMA MeetStallSituation ==
  ASSUME TypeOK, scene' = scene, Situation, MeetStall
  PROVE  Situation'
<1>1. /\ rx = << >> /\ isr = << >> /\ UNCHANGED <<hcmd, htag, moved>>
      /\ \/ hst = "out" /\ "out" \in stalled /\ ClearFeature("out") /\ hst' = "status"
         \/ hst = "in" /\ "in" \in stalled /\ ClearFeature("in") /\ hst' = "status"
         \/ hst = "status" /\ "in" \in stalled /\ ClearFeature("in") /\ hst' = "retry"
         \/ /\ (hst = "retry" /\ "in" \in stalled) \/ (hst = "idle" /\ "out" \in stalled)
            /\ hst' = "reset" /\ UNCHANGED <<dev, usb>>
  BY DEF MeetStall, Idle
<1>2. UNCHANGED <<stage, cbw, csw, sense, memOK, left, rx, isr, tx, armed, xfrc>>
  BY <1>1 DEF ClearFeature, dev, usb
<1>3. stalled # {} /\ hst \in {"out", "in", "status", "retry", "idle"}
  BY <1>1
<1>4. ~Recovering /\ ~Sent /\ ~Taking /\ ~Giving
  BY <1>3 DEF Recovering, Sent, Taking, Giving
<1>5. /\ Orderly' <=> Orderly
      /\ Empty' <=> Empty
      /\ Handled' <=> Handled
      /\ Truthful(csw)' <=> Truthful(csw)
      /\ Offered(Csw(csw.tag, csw.residue, csw.status))' <=> Offered(Csw(csw.tag, csw.residue, csw.status))
  BY <1>1, <1>2 DEF Orderly, Empty, Handled, Truthful, Offered, Csw
<1>6. ASSUME AtRest PROVE Recovering'
  <2>1. hst = "idle" /\ hst' = "reset" /\ "out" \in stalled
    BY <1>1, <1>6 DEF AtRest
  <2> QED
    BY <1>2, <1>5, <1>6, <2>1 DEF AtRest, Recovering
<1>7. hst \in {"out", "in", "status"} =>
        /\ hst' \in {"status", "retry"}
        /\ hst' = "retry" => "in" \notin stalled'
  BY <1>1, ClearsHalt
<1>8. ASSUME Answered PROVE Answered'
  <2>1. "in" \in stalled => hst # "retry"
    BY <1>8 DEF Answered
  <2>2. hst \in {"out", "in", "status"}
    BY <1>1, <1>8, <2>1 DEF Answered
  <2>3. ~Orderly
    BY <1>3, <1>8 DEF Answered
  <2> QED
    BY <1>2, <1>5, <1>7, <1>8, <2>2, <2>3 DEF Answered
<1>9. ASSUME Silent PROVE Silent' \/ Recovering'
  <2>1. \/ rx = << >> /\ Handled /\ stage \in {"CBW", "ERROR"}
        \/ rx = << >> /\ isr = << >> /\ xfrc /\ stage = "CSW"
    BY <1>1, <1>9, Terms DEF Silent
  <2>2. CASE hst \in {"out", "in", "status"}
    BY <1>2, <1>5, <1>7, <1>9, <2>1, <2>2 DEF Silent
  <2>3. CASE hst \notin {"out", "in", "status"}
    <3>1. hst' = "reset"
      BY <1>1, <2>3
    <3> QED
      BY <1>1, <1>2, <1>5, <1>9, <2>1, <3>1 DEF Silent, Recovering, Handled
  <2> QED
    BY <2>2, <2>3
<1> QED
  BY <1>4, <1>6, <1>8, <1>9, Zenon DEF Situation

\* The host gives up only when nothing is under way and no answer is due.
LEMMA GiveUpSituation ==
  ASSUME TypeOK, scene' = scene, Situation, GiveUp
  PROVE  Situation'
<1>1. /\ hst \in {"in", "status", "retry"} /\ rx = << >> /\ isr = << >>
      /\ ~xfrc /\ ~armed /\ hst' = "reset" /\ UNCHANGED <<dev, usb>>
  BY DEF GiveUp, Idle
<1>2. UNCHANGED <<stage, stalled, rx, isr, tx, armed, xfrc>>
  BY <1>1 DEF dev, usb
<1>3. scene \in Scenes /\ hcmd \in scene.commands /\ moved \in Nat
  BY DEF TypeOK
<1>4. hcmd.len \in Nat /\ hcmd.in \in BOOLEAN
  BY <1>3, SceneTypes
<1>5. ~AtRest /\ ~Recovering /\ ~Sent /\ ~Giving /\ ~Answered
  BY <1>1, Terms DEF AtRest, Recovering, Sent, Giving, Answered, Offered
<1>6. ~Taking
  <2> SUFFICES ASSUME Taking PROVE FALSE
    OBVIOUS
  <2>1. left \in Nat \ {0} /\ ~hcmd.in /\ hst = Expected /\ hcmd.len = (left + moved) - (0 + 0)
    BY <1>1, Terms DEF Taking
  <2>2. moved # hcmd.len
    BY <1>3, <1>4, <2>1
  <2>3. Expected = "out"
    BY <2>1, <2>2 DEF Expected, Dir
  <2> QED
    BY <1>1, <2>1, <2>3
<1>7. ASSUME Silent PROVE Recovering'
  <2>1. stage \in {"CBW", "ERROR"} /\ Empty /\ ~Orderly
    BY <1>1, <1>7, Terms DEF Silent
  <2> QED
    BY <1>1, <1>2, <2>1 DEF Recovering, Empty, Handled, Orderly
<1> QED
  BY <1>5, <1>6, <1>7, Zenon DEF Situation

\* The steps of a reset recovery.
LEMMA RecoverySituation ==
  ASSUME TypeOK, scene' = scene, Situation, ClassReset \/ ClearHalts
  PROVE  Situation'
<1>1. hst \in {"reset", "clrIn", "clrOut"} /\ rx = << >> /\ isr = << >>
  BY DEF ClassReset, ClearHalts, Idle
<1>2. hcmd.in \in BOOLEAN
  <2>1. scene \in Scenes /\ hcmd \in scene.commands
    BY DEF TypeOK
  <2> QED
    BY <2>1, SceneTypes
<1>3. ~AtRest /\ ~Sent /\ ~Taking /\ ~Giving /\ ~Answered /\ ~Silent
  BY <1>1, <1>2, Terms DEF AtRest, Sent, Taking, Giving, Answered, Silent
<1>4. Recovering
  BY <1>3 DEF Situation
<1>5. CASE ClassReset
  <2>1. stage' = "CBW" /\ hst' = "clrIn" /\ UNCHANGED <<stalled, rx, isr, tx, armed, xfrc>>
    BY <1>5 DEF ClassReset
  <2>2. Recovering'
    BY <1>4, <2>1 DEF Recovering, Empty, Handled, Orderly
  <2> QED
    BY <2>2, Zenon DEF Situation
<1>6. CASE ClearHalts
  <2>1. CASE hst = "clrIn" /\ ClearFeature("in") /\ hst' = "clrOut"
    <3>1. stalled' = stalled \ {"in"} /\ UNCHANGED <<dev, mask, rx, isr, tx, armed, xfrc>>
      BY <2>1, ClearsHalt
    <3>2. stage' = stage
      BY <3>1 DEF dev
    <3>3. Recovering'
      BY <1>4, <2>1, <3>1, <3>2 DEF Recovering, Empty, Handled, Orderly
    <3> QED
      BY <3>3, Zenon DEF Situation
  <2>2. CASE hst = "clrOut" /\ ClearFeature("out") /\ hst' = "idle"
    <3>1. stalled' = stalled \ {"out"} /\ UNCHANGED <<dev, mask, rx, isr, tx, armed, xfrc>>
      BY <2>2, ClearsHalt
    <3>2. stage' = stage
      BY <3>1 DEF dev
    <3>3. AtRest'
      BY <1>4, <2>2, <3>1, <3>2 DEF Recovering, AtRest, Empty, Handled, Orderly
    <3> QED
      BY <3>3, Zenon DEF Situation
  <2> QED
    BY <1>6, <2>1, <2>2 DEF ClearHalts
<1> QED
  BY <1>5, <1>6

-----------------------------------------------------------------------------
(* Steps between the situations: MsClass                                   *)

\* A packet is put in an empty FIFO.
LEMMA Offers ==
  ASSUME TypeOK, Empty, NEW p, EpWrite(p)
  PROVE  tx' = <<p>> /\ Len(tx') = 1 /\ armed'
<1>1. TxDepth \in Nat \ {0}
  BY SceneTypes DEF TypeOK
<1>2. tx = << >> /\ Len(tx) = 0
  BY DEF Empty
<1>3. tx' = Append(tx, p) /\ armed' = TRUE
  BY <1>1, <1>2 DEF EpWrite
<1> QED
  BY <1>2, <1>3

\* The packet counted is the one the residue is about.
LEMMA StillExact ==
  ASSUME TypeOK, NEW w \in Wrappers, NEW s \in Senses, NEW l \in Nat,
         Exact(w.residue, s, l + 1), Counts(csw', sense', w, s, l)
  PROVE  /\ Exact(csw'.residue, sense', l)
         /\ sense' = "none" /\ l = 0 => csw'.residue = 0
<1> DEFINE r == w.residue
           q == csw'.residue
           x == sense'
<1>1. /\ x \in {s, "range", "fault"} /\ (scene.medium = "fat12" => x = s)
      /\ Covers(q, l)
      /\ (scene.medium = "fat12" /\ x = "none") => q = r - 1
      /\ (scene.medium = "mmc" /\ x = "none" /\ r < (l + 1) + PPB) => q < l + PPB
      /\ x # "none" => q = r
  BY DEF Counts
<1>2. /\ s = "none" => IF scene.medium = "fat12" THEN r = l + 1 ELSE r < (l + 1) + PPB
      /\ s # "none" /\ scene.medium = "fat12" => r = hcmd.len
      /\ Orderly => s \notin {"range", "fault"}
  BY DEF Exact
<1>3. scene \in Scenes
  BY DEF TypeOK
<1>4. /\ scene.medium \in {"fat12", "mmc"} /\ PPB \in Nat \ {0}
      /\ Orderly => scene.medium = "fat12"
  BY <1>3, SceneTypes, MscAssumption DEF Orderly
<1> HIDE DEF r, q, x
<1>5. x = "none" => s = "none"
  BY <1>1
<1>6. x = "none" => IF scene.medium = "fat12" THEN q = l ELSE q < l + PPB
  <2>1. CASE scene.medium = "fat12"
    BY <1>1, <1>2, <1>5, <2>1
  <2>2. CASE scene.medium = "mmc"
    BY <1>1, <1>2, <1>5, <2>2
  <2> QED
    BY <1>4, <2>1, <2>2
<1>7. Exact(q, x, l)
  BY <1>1, <1>2, <1>4, <1>6 DEF Exact
<1>8. ASSUME x = "none", l = 0 PROVE q = 0
  <2>1. CASE scene.medium = "fat12"
    BY <1>6, <1>8, <2>1
  <2>2. CASE scene.medium = "mmc"
    <3>1. q \in 0 .. (PPB - 1) /\ q % PPB = 0
      BY <1>1, <1>4, <1>6, <1>8, <2>2 DEF Covers
    <3>2. (0 * PPB + q) % PPB = q
      BY <1>4, <3>1, DivUnique
    <3>3. 0 * PPB + q = q
      BY <1>4, <3>1
    <3> QED
      BY <3>1, <3>2, <3>3
  <2> QED
    BY <1>4, <2>1, <2>2
<1> QED
  BY <1>7, <1>8 DEF q, x, r

\* MSC_MemoryRead offers the next packet of a READ: n are left before it.
LEMMA ReadSituation ==
  ASSUME TypeOK, scene' = scene, NEW n \in Nat \ {0}, NEW s \in Senses, NEW w \in Wrappers,
         MemoryRead(n, s, w), Covers(w.residue, n), Exact(w.residue, s, n),
         hcmd.len = n + moved, w.tag = htag, hcmd.in, hcmd.op = "READ",
         Empty, rx = << >>, stalled = {}, hst = "in",
         cbw' = hcmd, Handled', xfrc' <=> isr' = <<In>>, UNCHANGED <<rx, host>>
  PROVE  Giving'
<1> DEFINE l == n - 1
<1>1. l \in Nat /\ n = l + 1 /\ moved \in Nat
  BY DEF TypeOK
<1>2. /\ EpWrite(Data) /\ left' = l /\ UNCHANGED <<stalled, mask>>
      /\ Counts(csw', sense', w, s, l)
      /\ n > 1 => stage' = "DATA_IN"
      /\ n = 1 => /\ stage' = IF sense' = "range" THEN "DATA_IN_LAST_STALL" ELSE "DATA_IN_LAST"
                  /\ csw'.status = IF sense' = "none" THEN "passed" ELSE "failed"
  <2>1. scene \in Scenes
    BY DEF TypeOK
  <2> QED
    BY <2>1, ReadStep, Zenon
<1> HIDE DEF l
<1>3. tx' = <<Data>> /\ Len(tx') = 1 /\ armed'
  BY <1>2, Offers
<1>4. Exact(csw'.residue, sense', l) /\ (sense' = "none" /\ l = 0 => csw'.residue = 0)
  <2>1. Exact(w.residue, s, l + 1)
    BY <1>1
  <2> QED
    BY <1>1, <1>2, <2>1, StillExact, Zenon
<1>5. csw'.tag = htag
  BY <1>2 DEF Counts
<1>6. UNCHANGED <<rx, stalled, hst, hcmd, htag, moved>>
  BY <1>2 DEF host
<1>7. Offered(Data)' /\ hst' = "in"
  BY <1>3, <1>6 DEF Offered, Data
<1>8. tx' # <<Short>>
  BY <1>3, Terms
<1>9. Exact(csw.residue, sense, left)' /\ (Orderly => sense \notin {"range", "fault"})'
  BY <1>2, <1>4, <1>6 DEF Exact, Orderly
<1>10. CASE n > 1
  <2>1. stage' = "DATA_IN" /\ left' \in Nat \ {0} /\ hcmd.len = left' + moved + 1
    BY <1>1, <1>2, <1>10
  <2>2. hcmd'.len = left' + moved' + Len(tx') /\ hcmd'.op = "READ"
    BY <1>3, <1>6, <2>1
  <2> QED
    BY <1>5, <1>6, <1>7, <1>8, <1>9, <2>1, <2>2 DEF Giving, Data, Short
<1>11. CASE n = 1
  <2>1. /\ stage' \in {"DATA_IN_LAST", "DATA_IN_LAST_STALL"}
        /\ stage' = "DATA_IN_LAST_STALL" => sense' = "range"
        /\ csw'.status \in {"passed", "failed"}
        /\ csw'.status = "passed" => sense' = "none"
    BY <1>2, <1>11
  <2>2. l = 0 /\ hcmd.len = moved + 1
    BY <1>1, <1>11
  <2>3. csw'.status = "passed" => csw'.residue = 0
    BY <1>4, <2>1, <2>2
  <2>4. /\ hcmd'.len = moved' + Len(tx') /\ moved' + 1 = hcmd'.len
        /\ csw'.status = "passed" => csw'.residue = hcmd'.len - (moved' + Len(tx'))
    <3>1. hcmd'.len = moved' + 1 /\ moved' \in Nat
      BY <1>1, <1>6, <2>2
    <3> QED
      BY <1>3, <2>3, <3>1
  <2>5. (Orderly => stage # "DATA_IN_LAST_STALL" /\ sense \notin {"range", "fault"})'
    BY <1>9, <2>1
  <2>6. /\ stage' \in {"DATA_IN", "DATA_IN_LAST", "DATA_IN_LAST_STALL"}
        /\ rx' = << >> /\ stalled' = {} /\ cbw' = hcmd' /\ csw'.tag = htag' /\ hcmd'.in
    BY <1>5, <1>6, <2>1
  <2>7. stage' # "DATA_IN"
    BY <2>1
  <2> QED
    BY <1>7, <1>8, <2>1, <2>4, <2>5, <2>6, <2>7, Zenon DEF Giving, Data, Short
<1> QED
  BY <1>10, <1>11

\* MSC_SetCSW offers the status.
LEMMA StatusSituation ==
  ASSUME TypeOK, Empty, NEW w, NEW S, SetCSW(w, S)
  PROVE  /\ csw' = w /\ stage' = "CSW" /\ stalled' = stalled \cup S
         /\ (Handled' /\ (xfrc' <=> isr' = <<In>>) =>
               Offered(Csw(csw.tag, csw.residue, csw.status))')
<1>1. /\ csw' = w /\ stage' = "CSW" /\ stalled' = stalled \cup S
      /\ EpWrite(Csw(w.tag, w.residue, w.status))
  BY DEF SetCSW, StallEP
<1>2. tx' = <<Csw(w.tag, w.residue, w.status)>> /\ armed'
  BY <1>1, Offers
<1> QED
  BY <1>1, <1>2 DEF Offered, Csw

\* BulkIn.
LEMMA BulkInSituation ==
  ASSUME TypeOK, Storage, scene' = scene, Situation, BulkIn
  PROVE  Situation'
<1>1. /\ isr = << >> /\ xfrc /\ isr' = <<In>> /\ UNCHANGED <<cbw, memOK, rx, xfrc, host>>
      /\ \/ stage = "DATA_IN" /\ MemoryRead(left, sense, csw)
         \/ /\ stage \in {"DATA_IN_LAST", "DATA_IN_LAST_STALL"}
            /\ SetCSW(csw, IF stage = "DATA_IN_LAST_STALL" THEN {"in"} ELSE {})
            /\ UNCHANGED <<sense, left>>
         \/ /\ stage = "CSW" /\ stage' = "CBW"
            /\ NoWrite /\ UNCHANGED <<csw, sense, left, stalled, mask>>
         \/ /\ stage \in {"CBW", "DATA_OUT", "ERROR"}
            /\ NoWrite /\ UNCHANGED <<stage, csw, sense, left, stalled, mask>>
  BY DEF BulkIn
<1>2. UNCHANGED <<hst, hcmd, htag, moved>> /\ (Orderly' <=> Orderly)
  BY <1>1 DEF host, Orderly
<1>3. ~Sent /\ ~Taking
  BY <1>1 DEF Sent, Taking
<1>4. xfrc' /\ isr' = <<In>> /\ Handled'
  BY <1>1 DEF Handled, In
<1>5. isr # <<In>>
  BY <1>1, Terms
<1>6. ~Answered
  BY <1>1, <1>5 DEF Answered, Offered
<1>7. stage = "CSW" \/ stage \in {"CBW", "ERROR"} =>
        /\ stage' = IF stage = "CSW" THEN "CBW" ELSE stage
        /\ UNCHANGED <<sense, stalled, rx, tx, armed>>
  BY <1>1 DEF NoWrite
<1>8. ASSUME AtRest PROVE AtRest'
  <2>1. stage \in {"CBW", "CSW"}
    BY <1>8 DEF AtRest
  <2> QED
    BY <1>2, <1>4, <1>7, <1>8, <2>1 DEF AtRest, Empty
<1>9. ASSUME Recovering PROVE Recovering'
  <2>1. stage \in {"CBW", "ERROR", "CSW"}
    BY <1>9 DEF Recovering
  <2> QED
    BY <1>2, <1>4, <1>7, <1>9, <2>1 DEF Recovering, Empty
<1>10. ASSUME Silent PROVE Silent'
  <2>1. stage \in {"CBW", "ERROR", "CSW"} /\ rx = << >>
    BY <1>1, <1>10 DEF Silent
  <2> QED
    BY <1>2, <1>4, <1>7, <1>10, <2>1 DEF Silent, Empty
<1>11. ASSUME Giving PROVE Giving' \/ Answered'
  <2>1. /\ Empty /\ hst = IF stage = "DATA_IN" THEN "in" ELSE "status"
        /\ rx = << >> /\ stalled = {} /\ cbw = hcmd /\ csw.tag = htag /\ hcmd.in
        /\ stage \in {"DATA_IN", "DATA_IN_LAST", "DATA_IN_LAST_STALL"}
        /\ Orderly => stage # "DATA_IN_LAST_STALL" /\ sense \notin {"range", "fault"}
    BY <1>1, <1>5, <1>11 DEF Giving, Offered
  <2>2. tx = << >> /\ Len(tx) = 0 /\ moved \in Nat /\ csw \in Wrappers /\ sense \in Senses
    BY <2>1 DEF Empty, TypeOK
  <2>3. CASE stage = "DATA_IN"
    <3>1. MemoryRead(left, sense, csw)
      BY <1>1, <2>3
    <3>2. /\ left \in Nat \ {0} /\ hcmd.len = left + moved + Len(tx)
          /\ hcmd.op = "READ" /\ Exact(csw.residue, sense, left)
      BY <1>11, <2>3 DEF Giving
    <3>3. hcmd.len = left + moved
      BY <2>2, <3>2
    <3>4. Covers(csw.residue, left)
      <4>1. left # Skewed
        BY <3>2 DEF Skewed
      <4> QED
        BY <2>3, <4>1 DEF Storage
    <3>5. cbw' = hcmd /\ hst = "in" /\ UNCHANGED <<rx, host>> /\ (xfrc' <=> isr' = <<In>>)
      BY <1>1, <1>4, <2>1, <2>3
    <3> QED
      BY <1>4, <2>1, <2>2, <3>1, <3>2, <3>3, <3>4, <3>5, ReadSituation, Zenon
  <2>4. CASE stage # "DATA_IN"
    <3> DEFINE S == IF stage = "DATA_IN_LAST_STALL" THEN {"in"} ELSE {}
    <3>1. SetCSW(csw, S) /\ UNCHANGED <<sense, left>>
      BY <1>1, <2>1, <2>4
    <3>2. Orderly => S = {}
      BY <2>1
    <3> HIDE DEF S
    <3>3. csw' = csw /\ stage' = "CSW" /\ stalled' = stalled \cup S
          /\ Offered(Csw(csw.tag, csw.residue, csw.status))'
      BY <1>4, <2>1, <3>1, StatusSituation
    <3>4. /\ csw.status \in {"passed", "failed"}
          /\ hcmd.op \in {"READ", "WRITE", "VERIFY"} => hcmd.len = moved + 0
          /\ csw.status = "passed" => csw.residue = hcmd.len - (moved + 0)
      BY <1>11, <2>2, <2>4 DEF Giving
    <3>5. Truthful(csw)
      <4>1. moved + 0 = moved
        BY <2>2
      <4> QED
        BY <3>4, <4>1 DEF Truthful
    <3>6. Truthful(csw)'
      BY <1>2, <3>3, <3>5 DEF Truthful
    <3>7. hst' = "status" /\ rx' = << >> /\ csw'.tag = htag' /\ csw'.status # "phase"
      BY <1>1, <1>2, <2>1, <2>4, <3>3, <3>4
    <3>8. (Orderly => stalled = {} /\ sense \notin {"range", "fault"})'
      BY <1>2, <2>1, <3>1, <3>2, <3>3
    <3> QED
      BY <3>3, <3>6, <3>7, <3>8 DEF Answered
  <2> QED
    BY <2>3, <2>4
<1> QED
  BY <1>3, <1>6, <1>8, <1>9, <1>10, <1>11, Zenon DEF Situation

\* A host that waits for interrupts to be served sends data only for a command
\* the device accepts, or none at all.
LEMMA SentCommand ==
  ASSUME TypeOK, Prompt
  PROVE  /\ hcmd.len \in Nat /\ hcmd.in \in BOOLEAN
         /\ hcmd.in \/ hcmd.len = 0 \/ ~hcmd.valid \/ WellWritten(hcmd)
         /\ Orderly => scene.medium = "fat12" /\ WellFormed(hcmd) /\ hcmd.valid
<1>1. scene \in Scenes /\ hcmd \in scene.commands
  BY DEF TypeOK
<1>2. /\ hcmd.len \in Nat /\ hcmd.in \in BOOLEAN
      /\ scene.host \in {"orderly", "erring", "hasty"}
  BY <1>1, SceneTypes
<1>3. Orderly => scene.medium = "fat12" /\ WellFormed(hcmd)
  BY <1>1, MscAssumption, Zenon DEF Orderly
<1>4. scene.host = "erring" => hcmd.in \/ hcmd.len = 0 \/ ~hcmd.valid \/ WellWritten(hcmd)
  BY <1>1, MscAssumption, Zenon
<1>5. WellFormed(hcmd) => hcmd.valid /\ (hcmd.in \/ hcmd.len = 0 \/ WellWritten(hcmd))
  BY DEF WellFormed, WellWritten
<1> QED
  BY <1>2, <1>3, <1>4, <1>5 DEF Prompt, Orderly

\* BulkOut with a wrapper that is not valid.
LEMMA InvalidSituation ==
  ASSUME TypeOK, scene' = scene, Prompt, Sent, isr = <<Cbw(hcmd, htag)>>, ~hcmd.valid,
         GetCBW(Cbw(hcmd, htag)), isr' = << >>, UNCHANGED <<rx, xfrc, host>>
  PROVE  Silent'
<1>1. /\ hcmd.len \in Nat /\ hcmd.in \in BOOLEAN /\ ~Orderly
  BY SentCommand
<1>2. /\ stage' = "ERROR" /\ StallEP({"in", "out"}) /\ NoWrite
  <2> DEFINE p == Cbw(hcmd, htag)
  <2>1. p.cmd = hcmd
    BY Kinds
  <2> HIDE DEF p
  <2>2. ~(p.kind = "cbw" /\ p.cmd.valid)
    BY <2>1
  <2> QED
    BY <2>2, Zenon DEF GetCBW, p
<1>3. "out" \in stalled' /\ Empty'
  BY <1>2 DEF StallEP, NoWrite, Sent, Empty
<1>4. UNCHANGED <<hst, hcmd, htag, moved>> /\ ~Orderly' /\ ~xfrc'
  BY <1>1 DEF host, Orderly, Sent
<1>5. hst' \in {"in", "out", "status"}
  BY <1>1, <1>4, Terms DEF Sent
<1>6. CASE rx = << >>
  BY <1>2, <1>3, <1>4, <1>5, <1>6 DEF Silent, Handled
<1>7. CASE rx # << >>
  <2>1. rx = <<Data>> /\ ~hcmd.in
    BY <1>7, Terms DEF Sent
  <2>2. hst' \in {"out", "status"}
    BY <1>4, <2>1 DEF Sent, Expected, Dir
  <2> QED
    BY <1>2, <1>3, <1>4, <2>1, <2>2 DEF Silent, Data
<1> QED
  BY <1>6, <1>7

\* BulkOut with a valid wrapper.
LEMMA CommandSituation ==
  ASSUME TypeOK, scene' = scene, Prompt, Sent, isr = <<Cbw(hcmd, htag)>>, hcmd.valid,
         GetCBW(Cbw(hcmd, htag)), isr' = << >>, UNCHANGED <<rx, xfrc, host>>
  PROVE  Answered' \/ Giving' \/ Taking'
<1> DEFINE p == Cbw(hcmd, htag)
           c == hcmd
           w == First(p)
<1>1. p.kind = "cbw" /\ p.cmd = c /\ p.tag = htag
  BY Kinds
<1>2. p \in OutPackets /\ scene \in Scenes /\ hcmd \in scene.commands /\ htag \in Tags
  BY DEF TypeOK, OutPackets, Cbw
<1>3. /\ w \in Wrappers /\ w.tag = htag /\ w.residue = c.len
  <2> HIDE DEF p
  <2> QED
    BY <1>1, <1>2, FirstTypes
<1>4. cbw' = c /\ (Answers(c, w) \/ Replies(c, w) \/ Reads(c, w) \/ Takes(c, w))
  <2> HIDE DEF p
  <2>1. GetCBW(p) /\ p.cmd.valid
    BY <1>1 DEF p
  <2>2. /\ cbw' = p.cmd
        /\ Answers(p.cmd, w) \/ Replies(p.cmd, w) \/ Reads(p.cmd, w) \/ Takes(p.cmd, w)
    BY <1>1, <1>2, <2>1, Commands, Zenon
  <2> QED
    BY <1>1, <2>2
<1> HIDE DEF p, w
<1>5. UNCHANGED <<hst, hcmd, htag, moved, rx, xfrc>> /\ (Orderly' <=> Orderly)
  BY DEF host, Orderly
<1>6. /\ Empty /\ ~xfrc /\ stalled = {} /\ hst = Expected
      /\ Orderly => sense \notin {"range", "fault"}
      /\ \/ rx = << >> /\ moved = 0
         \/ rx = <<Data>> /\ moved = 1 /\ ~c.in /\ c.len > 0
  BY Terms DEF Sent
<1>7. Handled' /\ (xfrc' <=> isr' = <<In>>)
  BY <1>5, <1>6, Terms DEF Handled
<1>8. /\ c.len \in Nat /\ c.in \in BOOLEAN
      /\ c.in \/ c.len = 0 \/ WellWritten(c)
      /\ Orderly => scene.medium = "fat12" /\ WellFormed(c)
  BY SentCommand
<1>9. WellWritten(c) => ~c.in /\ c.op \in {"WRITE", "VERIFY"}
  BY DEF WellWritten
<1>10. ASSUME Answers(c, w) PROVE Answered'
  <2>1. PICK st \in Statuses, S \in SUBSET {"in", "out"} :
          /\ Fail(w, st, S) /\ ~WellWritten(c)
          /\ st = "passed" => c.op \notin {"READ", "WRITE", "VERIFY"}
          /\ WellFormed(c) => c.len = 0 /\ st # "phase" /\ S = {}
          /\ scene.medium = "fat12" => sense' \in {sense, "lun", "field"}
    BY <1>10, Zenon DEF Answers
  <2>2. rx = << >> /\ moved = 0 /\ (c.in \/ c.len = 0)
    BY <1>6, <1>8, <2>1
  <2> DEFINE v == [w EXCEPT !.status = st]
  <2>3. v.tag = htag /\ v.residue = c.len /\ v.status = st
    BY <1>3, WrapperTypes
  <2>4. SetCSW(v, S)
    BY <2>1 DEF Fail
  <2> HIDE DEF v
  <2>5. csw' = v /\ stage' = "CSW" /\ stalled' = stalled \cup S
        /\ Offered(Csw(csw.tag, csw.residue, csw.status))'
    BY <1>6, <1>7, <2>4, StatusSituation
  <2>6. hst \in {"in", "status"}
    BY <1>6, <1>8, <2>2 DEF Expected, Dir
  <2>7. Truthful(csw)'
    <3>1. csw'.residue = hcmd'.len - moved'
      BY <1>5, <1>8, <2>2, <2>3, <2>5
    <3>2. csw'.status = "passed" => hcmd'.op \notin {"READ", "WRITE", "VERIFY"}
      BY <1>5, <2>1, <2>3, <2>5
    <3> QED
      BY <3>1, <3>2 DEF Truthful
  <2>8. ASSUME Orderly
        PROVE  hst = "status" /\ st # "phase" /\ S = {} /\ sense' \notin {"range", "fault"}
    <3>1. c.len = 0 /\ st # "phase" /\ S = {} /\ sense' \in {sense, "lun", "field"}
      BY <1>8, <2>1, <2>8
    <3> QED
      BY <1>6, <2>2, <2>8, <3>1 DEF Expected
  <2> QED
    BY <1>5, <1>6, <2>2, <2>3, <2>5, <2>6, <2>7, <2>8 DEF Answered
<1>11. ASSUME Replies(c, w) PROVE Giving'
  <2>1. /\ c.op \in {"SENSE", "INFO"} /\ c.in /\ c.len > 0
        /\ EpWrite(Short) /\ stage' = "DATA_IN_LAST"
        /\ csw' \in Wrappers /\ csw'.tag = w.tag /\ csw'.residue = w.residue - 1
        /\ csw'.status = "passed"
        /\ sense' \in {sense, "none"}
        /\ UNCHANGED <<stalled, mask, memOK, left>>
    BY <1>11 DEF Replies
  <2>2. rx = << >> /\ moved = 0 /\ hst = "in"
    BY <1>6, <2>1 DEF Expected, Dir
  <2>3. tx' = <<Short>> /\ Len(tx') = 1 /\ armed'
    BY <1>6, <2>1, Offers
  <2>4. Offered(Short)' /\ hst' = "in" /\ moved' = 0
    BY <1>5, <1>7, <2>2, <2>3 DEF Offered, Short
  <2>5. tx' # <<Data>>
    BY <2>3, Terms
  <2>6. csw'.residue = hcmd'.len - (moved' + Len(tx'))
    <3>1. csw'.residue = c.len - 1 /\ moved' + Len(tx') = 1
      BY <1>3, <2>1, <2>3, <2>4
    <3> QED
      BY <1>5, <3>1
  <2>7. (Orderly => stage # "DATA_IN_LAST_STALL" /\ sense \notin {"range", "fault"})'
    BY <1>5, <1>6, <2>1
  <2> QED
    BY <1>3, <1>4, <1>5, <1>6, <2>1, <2>2, <2>4, <2>5, <2>6, <2>7 DEF Giving, Data, Short
<1>12. ASSUME Reads(c, w) PROVE Giving'
  <2>1. PICK s \in SenseOfSetup : MemoryRead(c.len, s, w)
    BY <1>12 DEF Reads
  <2>2. /\ c.op = "READ" /\ c.in /\ c.len > 0 /\ c.len = c.blocks * PPB
    BY <1>12 DEF Reads
  <2>3. rx = << >> /\ moved = 0 /\ hst = "in"
    BY <1>6, <2>2 DEF Expected, Dir
  <2>4. s \in Senses /\ (scene.medium = "fat12" => s = sense)
    BY <2>1, SetupSense
  <2>5. c.len \in Nat \ {0} /\ Covers(w.residue, c.len)
    <3>1. c.blocks \in Nat
      BY <1>2, SceneTypes
    <3> QED
      BY <1>3, <1>8, <2>2, <3>1, FirstCovers
  <2>6. Exact(w.residue, s, c.len)
    <3>1. PPB \in Nat \ {0}
      BY <1>2, SceneTypes
    <3> QED
      BY <1>3, <1>6, <1>8, <2>4, <3>1 DEF Exact
  <2>7. hcmd.len = c.len + moved
    BY <1>8, <2>3
  <2> QED
    BY <1>3, <1>4, <1>6, <1>7, <2>1, <2>2, <2>3, <2>4, <2>5, <2>6, <2>7, ReadSituation, Zenon
<1>13. ASSUME Takes(c, w) PROVE Taking'
  <2>1. /\ ~c.in /\ c.len > 0 /\ left' = c.len /\ sense' \in SenseOfSetup
        /\ stage' = "DATA_OUT" /\ csw' = w /\ UNCHANGED <<tx, armed, stalled, mask>>
    BY <1>13 DEF Takes
  <2>2. sense' \in Senses /\ (scene.medium = "fat12" => sense' = sense)
    BY <2>1, SetupSense
  <2>3. Exact(csw'.residue, sense', left')
    <3>1. PPB \in Nat \ {0}
      BY <1>2, SceneTypes
    <3> QED
      BY <1>3, <1>6, <1>8, <2>1, <2>2, <3>1 DEF Exact
  <2>4. Exact(csw.residue, sense, left)'
    BY <1>5, <2>3 DEF Exact, Orderly
  <2>5. hcmd'.len = (left' + moved') - (Under(rx') + Under(isr'))
    <3>1. Under(isr') = 0 /\ left' = c.len /\ moved' = moved /\ moved = Under(rx) /\ moved \in {0, 1}
      BY <1>5, <1>6, <2>1, Terms
    <3>2. Under(rx') = moved
      BY <1>5, <3>1 DEF Under, Data
    <3> QED
      BY <1>5, <1>8, <3>1, <3>2
  <2>6. left' \in Nat \ {0} /\ moved' <= hcmd'.len
    BY <1>5, <1>6, <1>8, <2>1
  <2>7. Empty' /\ ~xfrc' /\ stalled' = {} /\ hst' = Expected'
    BY <1>5, <1>6, <2>1 DEF Empty, Expected, Dir
  <2>8. rx' \in {<< >>, <<Data>>} /\ isr' \in {<< >>, <<Data>>}
    BY <1>5, <1>6
  <2> QED
    BY <1>3, <1>4, <1>5, <2>1, <2>4, <2>5, <2>6, <2>7, <2>8 DEF Taking, Under, Data
<1> QED
  BY <1>4, <1>10, <1>11, <1>12, <1>13

\* BulkOut with a packet of data for a WRITE or VERIFY.
LEMMA DataSituation ==
  ASSUME TypeOK, Storage, scene' = scene, Taking, isr = <<Data>>,
         MemoryWrite(Data) \/ MemoryVerify(Data), isr' = << >>, UNCHANGED <<rx, xfrc, host>>
  PROVE  Taking' \/ Answered'
<1>1. UNCHANGED <<hst, hcmd, htag, moved, rx, xfrc>> /\ (Orderly' <=> Orderly)
  BY DEF host, Orderly
<1>2. /\ Empty /\ ~xfrc /\ stage = "DATA_OUT" /\ stalled = {} /\ hst = Expected
      /\ ~hcmd.in /\ cbw = hcmd /\ csw.tag = htag
      /\ rx \in {<< >>, <<Data>>}
      /\ left \in Nat \ {0} /\ moved <= hcmd.len
      /\ hcmd.len = (left + moved) - (Under(rx) + 1)
      /\ Exact(csw.residue, sense, left)
  BY Terms DEF Taking
<1>3. /\ scene \in Scenes /\ csw \in Wrappers /\ sense \in Senses /\ memOK \in BOOLEAN
      /\ moved \in Nat /\ hcmd \in scene.commands
  BY DEF TypeOK
<1>4. hcmd.len \in Nat
  BY <1>3, SceneTypes
<1>5. Covers(csw.residue, left)
  <2>1. left # Skewed
    BY <1>2 DEF Skewed
  <2> QED
    BY <1>2, <2>1 DEF Storage
<1> DEFINE l == left - 1
<1>6. l \in Nat /\ left = l + 1
  BY <1>2
<1>7. /\ left' = l /\ cbw' = cbw
      /\ Counts(csw', sense', csw, sense, l)
      /\ left # 1 => Pending
      /\ left = 1 => /\ csw'.status \in {"passed", "failed"}
                     /\ csw'.status = "passed" => sense' = "none"
                     /\ \E S \in SUBSET {"in", "out"} :
                           /\ SetCSW(csw', S)
                           /\ sense' # "range" => S = {}
  BY <1>2, <1>3, <1>5, WriteStep, Zenon
<1> HIDE DEF l
<1>8. Exact(csw'.residue, sense', l) /\ (sense' = "none" /\ l = 0 => csw'.residue = 0)
  <2>1. Exact(csw.residue, sense, l + 1)
    BY <1>2, <1>6
  <2> QED
    BY <1>3, <1>6, <1>7, <2>1, StillExact, Zenon
<1>9. csw'.tag = htag
  BY <1>2, <1>7 DEF Counts
<1>10. Handled' /\ (xfrc' <=> isr' = <<In>>)
  BY <1>1, <1>2, Terms DEF Handled
<1>11. CASE left # 1
  <2>1. UNCHANGED <<stage, tx, armed, stalled, mask>>
    BY <1>7, <1>11 DEF Pending, NoWrite
  <2>2. left' \in Nat \ {0}
    BY <1>6, <1>7, <1>11
  <2>3. hcmd'.len = (left' + moved') - (Under(rx') + Under(isr'))
    <3>1. Under(rx) \in Nat
      BY <1>2, Terms
    <3> DEFINE u == Under(rx)
    <3>2. Under(rx') = u /\ Under(isr') = 0 /\ u \in Nat
      BY <1>1, <3>1, Terms DEF Under, Data
    <3> HIDE DEF u
    <3>3. hcmd.len = (left + moved) - (u + 1)
      BY <1>2 DEF u
    <3>4. hcmd.len = (l + moved) - (u + 0)
      BY <1>3, <1>6, <3>2, <3>3
    <3> QED
      BY <1>1, <1>7, <3>2, <3>4
  <2>4. Exact(csw.residue, sense, left)'
    BY <1>1, <1>7, <1>8 DEF Exact, Orderly
  <2>5. Empty' /\ ~xfrc' /\ stage' = "DATA_OUT" /\ stalled' = {} /\ hst' = Expected'
    BY <1>1, <1>2, <2>1 DEF Empty, Expected, Dir
  <2>6. ~hcmd'.in /\ cbw' = hcmd' /\ csw'.tag = htag' /\ moved' <= hcmd'.len
    BY <1>1, <1>2, <1>7, <1>9
  <2>7. rx' \in {<< >>, <<Data>>} /\ isr' \in {<< >>, <<Data>>}
    BY <1>1, <1>2
  <2> QED
    BY <2>2, <2>3, <2>4, <2>5, <2>6, <2>7 DEF Taking, Under, Data
<1>12. CASE left = 1
  <2>1. PICK S \in SUBSET {"in", "out"} : SetCSW(csw', S) /\ (sense' # "range" => S = {})
    BY <1>7, <1>12
  <2>2. rx = << >> /\ moved = hcmd.len
    <3>1. rx # <<Data>>
      BY <1>2, <1>3, <1>4, <1>12, Terms
    <3>2. rx = << >>
      BY <1>2, <3>1
    <3> QED
      BY <1>2, <1>3, <1>4, <1>12, <3>2, Terms
  <2> DEFINE v == csw'
  <2>3. SetCSW(v, S)
    BY <2>1
  <2> HIDE DEF v
  <2>4. /\ stage' = "CSW" /\ stalled' = stalled \cup S
        /\ Offered(Csw(csw.tag, csw.residue, csw.status))'
    BY <1>2, <1>10, <2>3, StatusSituation
  <2>5. l = 0 /\ (csw'.status = "passed" => sense' = "none") /\ csw'.status # "phase"
    BY <1>6, <1>7, <1>12
  <2>6. csw'.status = "passed" => csw'.residue = 0
    BY <1>8, <2>5
  <2>7. Truthful(csw)'
    <3>1. moved' = hcmd'.len /\ hcmd'.len - moved' = 0
      BY <1>1, <1>4, <2>2
    <3> QED
      BY <2>6, <3>1 DEF Truthful
  <2>8. hst' = "status"
    BY <1>1, <1>2, <2>2 DEF Expected
  <2>9. (Orderly => stalled = {} /\ sense \notin {"range", "fault"})'
    <3>1. Orderly => sense' \notin {"range", "fault"}
      BY <1>8 DEF Exact
    <3> QED
      BY <1>1, <1>2, <2>1, <2>4, <3>1
  <2>10. rx' = << >> /\ csw'.tag = htag'
    BY <1>1, <1>9, <2>2
  <2> QED
    BY <2>4, <2>5, <2>7, <2>8, <2>9, <2>10 DEF Answered
<1> QED
  BY <1>11, <1>12

\* BulkOut.
LEMMA BulkOutSituation ==
  ASSUME TypeOK, Storage, scene' = scene, Prompt, Situation, BulkOut
  PROVE  Situation'
<1>1. isr # << >> /\ isr # <<In>> /\ isr' = << >> /\ UNCHANGED <<rx, xfrc, host>>
  BY DEF BulkOut
<1>2. ~AtRest /\ ~Recovering /\ ~Giving /\ ~Answered
  BY <1>1 DEF AtRest, Recovering, Giving, Answered, Offered, Handled
<1>3. \A p : (isr = <<p>> =>
        \/ stage = "CBW" /\ GetCBW(p)
        \/ stage = "DATA_OUT" /\ (MemoryWrite(p) \/ MemoryVerify(p))
        \/ /\ stage \notin {"CBW", "DATA_OUT"}
           /\ Fail(csw, "phase", {"out"}) /\ UNCHANGED <<cbw, sense, memOK, left>>)
  <2> TAKE p
  <2> HAVE isr = <<p>>
  <2>1. isr[1] = p
    OBVIOUS
  <2> QED
    BY <2>1, Zenon DEF BulkOut
<1>4. ASSUME Sent PROVE Situation'
  <2>1. isr = <<Cbw(hcmd, htag)>> /\ stage = "CBW"
    BY <1>1, <1>4 DEF Sent
  <2>2. GetCBW(Cbw(hcmd, htag))
    BY <1>3, <2>1
  <2>3. CASE hcmd.valid
    <3>1. Answered' \/ Giving' \/ Taking'
      BY <1>1, <1>4, <2>1, <2>2, <2>3, CommandSituation
    <3> QED
      BY <3>1, Zenon DEF Situation
  <2>4. CASE ~hcmd.valid
    <3>1. Silent'
      BY <1>1, <1>4, <2>1, <2>2, <2>4, InvalidSituation
    <3> QED
      BY <3>1, Zenon DEF Situation
  <2> QED
    BY <2>3, <2>4
<1>5. ASSUME Taking PROVE Situation'
  <2>1. isr = <<Data>> /\ stage = "DATA_OUT"
    BY <1>1, <1>5 DEF Taking
  <2>2. MemoryWrite(Data) \/ MemoryVerify(Data)
    BY <1>3, <2>1
  <2>3. Taking' \/ Answered'
    BY <1>1, <1>5, <2>1, <2>2, DataSituation
  <2> QED
    BY <2>3, Zenon DEF Situation
<1>6. ASSUME Silent PROVE Situation'
  <2>1. /\ stage = "ERROR" /\ ~xfrc /\ hst \in {"out", "status"}
        /\ rx = << >> /\ isr = <<Data>> /\ Empty /\ ~Orderly
    BY <1>1, <1>6 DEF Silent, Handled
  <2>2. Fail(csw, "phase", {"out"})
    BY <1>3, <2>1
  <2> DEFINE w == [csw EXCEPT !.status = "phase"]
  <2>3. w.status = "phase" /\ SetCSW(w, {"out"})
    <3>1. csw \in Wrappers /\ "phase" \in Statuses
      BY DEF TypeOK, Statuses
    <3> QED
      BY <2>2, <3>1, WrapperTypes DEF Fail
  <2> HIDE DEF w
  <2>4. UNCHANGED <<hst, rx, xfrc>> /\ ~Orderly' /\ Handled' /\ (xfrc' <=> isr' = <<In>>)
    BY <1>1, <2>1, Terms DEF host, Orderly, Handled
  <2>5. csw' = w /\ stage' = "CSW" /\ "out" \in stalled'
        /\ Offered(Csw(csw.tag, csw.residue, csw.status))'
    BY <2>1, <2>3, <2>4, StatusSituation
  <2>6. Truthful(csw)'
    BY <2>3, <2>5 DEF Truthful
  <2>7. Answered'
    BY <2>1, <2>4, <2>5, <2>6 DEF Answered
  <2> QED
    BY <2>7, Zenon DEF Situation
<1> QED
  BY <1>2, <1>4, <1>5, <1>6, Zenon DEF Situation

\* Every step leads from a situation to a situation.
LEMMA NextSituation ==
  TypeOK /\ Storage /\ InSituation /\ [Next]_vars => InSituation'
<1> SUFFICES ASSUME TypeOK, Storage, InSituation, [Next]_vars, Prompt' PROVE Situation'
  BY DEF InSituation
<1>1. scene' = scene
  BY Zenon DEF Next, Device, Host, Begin, vars
<1>2. Prompt /\ Situation
  BY <1>1 DEF Prompt, InSituation
<1>3. CASE Device
  BY <1>1, <1>2, <1>3, OutReadSituation, BulkOutSituation, BulkInSituation,
     InDoneSituation, Zenon DEF Device
<1>4. CASE Host
  BY <1>1, <1>2, <1>4, SendDataSituation, FetchSituation, MeetStallSituation,
     GiveUpSituation, RecoverySituation, Zenon DEF Host
<1>5. CASE Begin
  BY <1>1, <1>2, <1>5, SendCBWSituation, Zenon DEF Begin
<1>6. ~BusReset
  BY <1>2 DEF Prompt, BusReset
<1>7. CASE UNCHANGED vars
  BY <1>2, <1>7 DEF vars, Situation, AtRest, Recovering, Sent, Taking, Giving, Answered,
     Silent, Empty, Offered, Handled, Orderly, Expected, Dir, Exact, Truthful, Under
<1> QED
  BY <1>3, <1>4, <1>5, <1>6, <1>7, Zenon DEF Next

-----------------------------------------------------------------------------
(* Theorems                                                                *)

\* While interrupts are served in time, the host and MsClass are always in one
\* of the seven situations; all that follows is read off them.
THEOREM AlwaysInSituation == Spec => [](TypeOK /\ Storage /\ InSituation)
<1>1. Init => TypeOK /\ Storage /\ InSituation
  BY InitTypes, Zenon DEF InSituation, Situation
<1>2. TypeOK /\ Storage /\ InSituation /\ [Next]_vars => (TypeOK /\ Storage /\ InSituation)'
  BY NextTypes, NextSituation
<1> QED
  BY <1>1, <1>2, PTL DEF Spec

\* Neither rwlen nor dCSWDataResidue is counted down below 0 (MSC_MemoryRead,
\* MSC_MemoryWrite, MSC_MemoryVerify, DecResidue): not at all while interrupts
\* are served in time, and never in a READ; a WRITE of the hasty host, which can
\* put a command in the place of data, is the exception.
THEOREM NeverRunsOver == Spec => []NeverPastEnd
<1>1. TypeOK /\ Storage /\ InSituation => NeverPastEnd
  <2> SUFFICES ASSUME TypeOK, Storage, InSituation, stage \in {"DATA_IN", "DATA_OUT"} PROVE
        \/ left > 0 /\ csw.residue >= left
        \/ left = Skewed /\ stage = "DATA_OUT" /\ ~Prompt
    BY DEF NeverPastEnd
  <2>1. ASSUME left # Skewed PROVE left > 0 /\ csw.residue >= left
    BY <2>1 DEF TypeOK, Storage, Covers
  <2>2. ASSUME left = Skewed PROVE stage = "DATA_OUT" /\ ~Prompt
    <3>1. stage = "DATA_OUT"
      BY <2>2 DEF Storage, Skewed
    <3>2. ASSUME Prompt PROVE FALSE
      <4>1. Taking
        BY <3>1, <3>2 DEF InSituation, Situation, AtRest, Recovering, Sent, Giving, Answered,
           Silent
      <4> QED
        BY <2>2, <4>1 DEF Taking, Skewed
    <3> QED
      BY <3>1, <3>2
  <2> QED
    BY <2>1, <2>2
<1> QED
  BY <1>1, AlwaysInSituation, PTL

\* UsbEndpoint::Write does not look whether the packet before has gone, and
\* MsClass does not ask: it never finds one there, for any commands and any
\* medium, and between two commands the device waits for a command with empty
\* FIFOs (BulkStage, MSC_BulkIn, MsClass::Reset).
THEOREM StaysInStep == Spec => []InStep
<1>1. TypeOK /\ InSituation => InStep
  <2> SUFFICES ASSUME TypeOK, Prompt, Situation PROVE
        /\ Len(tx) <= 1
        /\ (hst = "idle" /\ Idle /\ ~xfrc) => stage = "CBW" /\ tx = << >> /\ "in" \notin stalled
    BY DEF InStep, InSituation
  <2>1. Empty => Len(tx) <= 1
    BY DEF Empty
  <2>2. \A p : (Offered(p) => Len(tx) <= 1)
    BY DEF Offered
  <2>3. Len(tx) <= 1
    BY <2>1, <2>2, Zenon DEF Situation, AtRest, Recovering, Sent, Taking, Giving, Answered, Silent
  <2>4. ASSUME hst = "idle", Idle, ~xfrc PROVE AtRest
    <3>1. hcmd.in \in BOOLEAN
      BY SentCommand
    <3>2. ~Sent /\ ~Taking
      BY <2>4, <3>1, Terms DEF Sent, Taking
    <3> QED
      BY <2>4, <3>2 DEF Situation, Recovering, Giving, Answered, Silent
  <2>5. ASSUME hst = "idle", Idle, ~xfrc
        PROVE  stage = "CBW" /\ tx = << >> /\ "in" \notin stalled
    BY <2>4, <2>5 DEF AtRest, Empty
  <2> QED
    BY <2>3, <2>5
<1> QED
  BY <1>1, AlwaysInSituation, PTL

\* What MsClass offers an orderly host is what the host reads next: data in the
\* data phase, the wrapper of the running command in the status phase, however
\* many packets a block has and whatever commands are sent (MSC_MemoryRead,
\* MSC_SetCSW, DataInTransfer).
THEOREM PhasesAlwaysAgree == Spec => []PhasesAgree
<1>1. TypeOK /\ InSituation => PhasesAgree
  <2> SUFFICES ASSUME TypeOK, InSituation, scene.host = "orderly", armed PROVE
        \/ hst = "in" /\ Head(tx) \in {Data, Short}
        \/ hst = "status" /\ Head(tx).kind = "csw" /\ Head(tx).tag = htag
    BY DEF PhasesAgree
  <2>1. Prompt /\ Situation /\ Orderly
    BY DEF Prompt, InSituation, Orderly
  <2>2. ~Empty
    BY DEF Empty
  <2>3. Giving \/ Answered
    BY <2>1, <2>2, Zenon DEF Situation, AtRest, Recovering, Sent, Taking, Silent
  <2>4. \A p : (Offered(p) => Head(tx) = p)
    BY DEF Offered
  <2>5. CASE Giving
    BY <2>2, <2>4, <2>5 DEF Giving
  <2>6. CASE Answered
    <3> DEFINE p == Csw(csw.tag, csw.residue, csw.status)
    <3>1. p.kind = "csw" /\ p.tag = csw.tag
      BY Kinds
    <3>2. Offered(p) /\ hst = "status" /\ csw.tag = htag
      BY <2>1, <2>6 DEF Answered
    <3> HIDE DEF p
    <3> QED
      BY <2>4, <3>1, <3>2
  <2> QED
    BY <2>3, <2>5, <2>6
<1> QED
  BY <1>1, AlwaysInSituation, PTL

\* The host's count, rwlen and dCSWDataResidue agree in every data phase of an
\* orderly host (MSC_MemoryRead, MSC_MemoryWrite, MSC_MemoryVerify, DecResidue).
THEOREM CountsAgree == Spec => []Accounting
<1>1. TypeOK /\ Storage /\ InSituation => Accounting
  <2> SUFFICES ASSUME TypeOK, Storage, InSituation PROVE Accounting
    OBVIOUS
  <2>2. ASSUME scene.host = "orderly", stage \in {"DATA_IN", "DATA_OUT"}
        PROVE  LET sent == Len(tx)
                   due  == (IF rx = <<Data>> THEN 1 ELSE 0) + (IF isr = <<Data>> THEN 1 ELSE 0)
               IN  /\ left > 0
                   /\ cbw.len = left + (IF stage = "DATA_IN" THEN moved + sent ELSE moved - due)
                   /\ csw.residue = IF sense = "none" THEN left ELSE cbw.len
    <3>1. Prompt /\ Situation /\ Orderly
      BY <2>2 DEF Prompt, InSituation, Orderly
    <3>2. scene.medium = "fat12" /\ moved \in Nat
      BY <3>1, SentCommand DEF TypeOK
    <3>3. Giving \/ Taking
      BY <2>2, <3>1 DEF Situation, AtRest, Recovering, Sent, Answered, Silent
    <3>4. ASSUME Exact(csw.residue, sense, left), cbw = hcmd
          PROVE  csw.residue = IF sense = "none" THEN left ELSE cbw.len
      BY <3>2, <3>4 DEF Exact
    <3>5. CASE Giving
      <4>1. /\ stage = "DATA_IN" /\ left \in Nat \ {0} /\ cbw = hcmd
            /\ hcmd.len = left + moved + Len(tx) /\ Exact(csw.residue, sense, left)
        BY <2>2, <3>5 DEF Giving
      <4>2. Len(tx) \in Nat
        BY LenProperties DEF TypeOK
      <4>3. cbw.len = left + (moved + Len(tx))
        BY <3>2, <4>1, <4>2
      <4> QED
        BY <3>4, <4>1, <4>3
    <3>6. CASE Taking
      <4>1. /\ stage = "DATA_OUT" /\ left \in Nat \ {0} /\ cbw = hcmd
            /\ hcmd.len = (left + moved) - (Under(rx) + Under(isr))
            /\ Exact(csw.residue, sense, left)
        BY <3>6 DEF Taking
      <4>2. Under(rx) \in Nat /\ Under(isr) \in Nat
        BY DEF Under
      <4>3. cbw.len = left + (moved - (Under(rx) + Under(isr)))
        BY <3>2, <4>1, <4>2
      <4> QED
        BY <3>4, <4>1, <4>3 DEF Under
    <3> QED
      BY <3>3, <3>5, <3>6
  <2> QED
    BY <2>2, Zenon DEF Accounting
<1> QED
  BY <1>1, AlwaysInSituation, PTL

\* A host that keeps to the rules never has to reset the boot loader.
THEOREM NeverReset == Spec => []NoRecovery
<1>1. TypeOK /\ InSituation => NoRecovery
  <2> SUFFICES ASSUME TypeOK, InSituation, scene.host = "orderly"
               PROVE  hst \notin {"reset", "clrIn", "clrOut"}
    BY DEF NoRecovery
  <2>1. Prompt /\ Situation /\ Orderly
    BY DEF Prompt, InSituation, Orderly
  <2>2. hcmd.in \in BOOLEAN
    BY <2>1, SentCommand
  <2>3. Sent \/ Taking => hst \in {"status", "in", "out"}
    BY <2>2, Terms DEF Sent, Taking
  <2> QED
    BY <2>1, <2>3 DEF Situation, AtRest, Recovering, Giving, Answered, Silent
<1> QED
  BY <1>1, AlwaysInSituation, PTL

\* A status of passed tells the truth, for a card that fails at any point and
\* a host that asks for anything: DecResidue, MSC_SetCSW and the wrapper's
\* status in MSC_MemoryRead, MSC_MemoryWrite and MSC_MemoryVerify.
THEOREM StatusIsTruthful == Spec => StatusTruthful
<1> DEFINE T == (Prompt /\ Accept /\ Head(tx).status = "passed") =>
                   /\ Head(tx).residue = hcmd.len - moved
                   /\ hcmd.op \in {"READ", "WRITE", "VERIFY"} => moved = hcmd.len
<1>1. TypeOK /\ InSituation /\ [Next]_vars => [T]_vars
  <2> SUFFICES ASSUME TypeOK, InSituation, Next, Prompt, Accept, Head(tx).status = "passed"
               PROVE  /\ Head(tx).residue = hcmd.len - moved
                      /\ hcmd.op \in {"READ", "WRITE", "VERIFY"} => moved = hcmd.len
    BY Zenon
  <2>1. hst \in {"status", "retry"} /\ hst' = "idle" /\ xfrc'
    BY DEF Accept
  <2>2. CASE Fetch
    <3>1. armed /\ Head(tx).tag = htag
      BY <2>1, <2>2 DEF Fetch
    <3>2. Situation /\ ~Empty
      BY <3>1 DEF InSituation, Empty
    <3>3. Answered
      BY <2>1, <3>2 DEF Situation, AtRest, Recovering, Sent, Taking, Giving, Silent
    <3> DEFINE p == Csw(csw.tag, csw.residue, csw.status)
    <3>4. p.tag = csw.tag /\ p.residue = csw.residue /\ p.status = csw.status
      BY Kinds
    <3>5. Offered(p) /\ Truthful(csw)
      BY <3>3 DEF Answered
    <3> HIDE DEF p
    <3>6. Head(tx) = p
      BY <3>5 DEF Offered
    <3> QED
      BY <3>1, <3>4, <3>5, <3>6 DEF Truthful
  <2>3. ASSUME ~Fetch PROVE FALSE
    <3>1. CASE Device
      <4>1. UNCHANGED hst
        BY <3>1 DEF Device, OutRead, BulkOut, BulkIn, InDone, host
      <4> QED
        BY <2>1, <4>1
    <3>2. CASE Host
      BY <2>1, <2>3, <3>2 DEF Host, SendData, MeetStall, GiveUp, ClassReset, ClearHalts
    <3>3. CASE Begin
      BY <2>1, <3>3 DEF Begin, SendCBW
    <3>4. CASE BusReset
      BY <3>4 DEF BusReset, Prompt
    <3> QED
      BY <3>1, <3>2, <3>3, <3>4 DEF Next
  <2> QED
    BY <2>2, <2>3
<1>2. Spec => [][T]_vars
  <2> HIDE DEF T
  <2> QED
    BY <1>1, AlwaysInSituation, PTL DEF Spec
<1> QED
  BY <1>2 DEF StatusTruthful

=============================================================================
