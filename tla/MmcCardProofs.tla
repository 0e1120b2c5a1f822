---------------------------- MODULE MmcCardProofs ----------------------------
(***************************************************************************)
(* Proofs about the card storage, for any card, capacity, block size,      *)
(* length of command and setting of the timers.                            *)
(*                                                                         *)
(* The driver and the card count apart from each other where in the        *)
(* transfer they are: ofs, bct and len here, pos and at there.  The        *)
(* inductive invariant ties both to the number of packets the host has     *)
(* moved.  It has a part for each place where the driver waits.  A wait in *)
(* the USB interrupt has its timer at the value it was set to (Places):    *)
(* SysTick does not get through, so such a wait ends by the card only.     *)
(***************************************************************************)
EXTENDS MmcCard, TLAPS

-----------------------------------------------------------------------------
(* The inductive invariant                                                 *)

Power    == [Resting EXCEPT !.mode = "power"]
Commands == [op : {"READ", "WRITE"}, lba : 0 .. Cap, n : 1 .. MaxLen, ver : {0, 1}]
At(c, a) == [mode |-> c.mode, multi |-> c.multi, pos |-> c.pos, at |-> a, buf |-> c.buf]

CardStates == [mode : {"power", "tran", "csd", "read", "write", "deaf"}, multi : BOOLEAN,
               pos : Nat, at : Error .. PPB, buf : Seq(Parts)]
CardOK     == card \in CardStates

Types == TypeOK /\ CardOK /\ cmd \in Commands \cup {NoCmd}

\* Every block holds one version of its content.
DiskOK ==
  /\ DOMAIN disk = Blocks
  /\ \A b \in Blocks : \E v \in {0, 1} : disk[b] = Content(v, b)

\* Where the driver waits, and that a wait in the USB interrupt loses no time.
Places ==
  /\ pc = "delay" => goal = "CMD0"
  /\ pc = "ready" =>
       goal \in (OpenGoals \ {"csd"}) \cup {"READ", "CMD12", "WRITE", "token", "next", "stop"}
  /\ pc = "token" => goal \in {"csd", "first", "next"}
  /\ pc = "ready" /\ goal \notin OpenGoals => timer2 = T2
  /\ pc = "token" /\ goal \notin OpenGoals => timer1 = T1

\* Open: no command yet; the card leaves its idle state before the card type is
\* settled, and the type says how the card is addressed.
Opening    == pc = "delay" \/ (pc \in {"ready", "token"} /\ goal \in OpenGoals)
Addressing == ctype = "SDHC" <=> kind = "SDHC"

OpenOK ==
  /\ cmd = NoCmd /\ ~abandoned /\ ~ok /\ ~mbk /\ sense = "reset"
  /\ goal \in {"CMD58", "CMD16", "CMD9"} => card = Resting
  /\ goal = "csd" => \E a \in {Gap, Start, Error} : card = At(Stream("csd", FALSE, 0), a)
  /\ goal \notin {"CMD58", "CMD16", "CMD9", "csd"} => card \in {Power, Resting}
  /\ goal \in {"CMD58", "HCS"} => kind \in {"SD2", "SDHC"}
  /\ goal \in {"SD1", "MMC"} => ctype = goal
  /\ goal = "CMD16" => kind # "SDHC" /\ ctype \in {"SD1", "MMC"}
  /\ goal \in {"CMD9", "csd"} => ctype # "none" /\ Addressing

\* Between commands the card takes a command, or it is deaf since it refused a
\* block.
Free == {Resting, Deaf}

Opened ==
  /\ ctype = "none" =>
       pc = "idle" /\ ~ok /\ ~mbk /\ sense # "none" /\ card \in {Power, Resting}
  /\ ctype # "none" => Addressing
  /\ ctype # "none" /\ cmd = NoCmd /\ ~abandoned => card \in Free
  /\ cmd = NoCmd => pc = "idle"
  /\ abandoned => cmd = NoCmd
  /\ ctype = "none" /\ cmd # NoCmd =>
       /\ len \in 1 .. cmd.n * PPB
       /\ Len(got) = IF cmd.op = "READ" THEN cmd.n * PPB - len ELSE 0

\* Packets moved for the command, whole blocks and the packets of the next one.
Sent == cmd.n * PPB - len
Blk  == Sent \div PPB
Off  == Sent % PPB

Fresh ==
  /\ len = cmd.n * PPB /\ ofs = cmd.lba /\ bct = PPB /\ ~ok /\ residue = cmd.n /\ got = << >>
  /\ mbk = (cmd.n > 1)

\* k blocks are not counted yet; less only after an error.
Owed(k) == residue >= k /\ (sense = "none" => residue = k)

Moving ==
  /\ ok /\ mbk = (cmd.n > 1)
  /\ len \in 0 .. cmd.n * PPB
  /\ len > 0 => /\ ofs = cmd.lba + Blk
                /\ bct = IF mbk THEN PPB - Off ELSE PPB

\* What has been read, and what has been written, is right.
Delivered ==
  /\ Len(got) = Sent
  /\ sense = "none" =>
       \A i \in 1 .. Len(got) : got[i] = disk[cmd.lba + (i - 1) \div PPB][1 + ((i - 1) % PPB)]

Written ==
  sense = "none" =>
    \A b \in cmd.lba .. cmd.lba + Blk - 1 : b \in Blocks /\ disk[b] = Content(cmd.ver, b)

\* The card is where the driver is.
ReadCard(a) == At(Stream("read", mbk, cmd.lba + Blk), a)
SentParts(a) == [k \in 1 .. a |-> Part(cmd.ver, cmd.lba + Blk, k)]
WriteCard(a) == [mode |-> "write", multi |-> mbk, pos |-> cmd.lba + Blk, at |-> a,
                 buf |-> SentParts(a)]
WriteGap == Stream("write", mbk, cmd.lba + Blk)

OnLine == \E a \in {Gap, Start, Error} : card = ReadCard(a) /\ (a = Start => cmd.lba + Blk < Cap)

ReadAsked == Fresh /\ card \in Free
ReadOpens == Fresh /\ (card \in Free \/ OnLine)
ReadGoes  ==
  /\ Moving /\ len > 0 /\ Delivered /\ Owed(cmd.n - Blk)
  /\ \/ card = ReadCard(Off) /\ cmd.lba + Blk < Cap
     \/ card = Deaf /\ mbk /\ sense # "none"
ReadTurns ==
  /\ Moving /\ mbk /\ len > 0 /\ Delivered /\ Owed(cmd.n - Blk + 1) /\ Off = 0 /\ Sent > 0
  /\ OnLine \/ (card = Deaf /\ sense # "none")
ReadEnds == Moving /\ mbk /\ len = 0 /\ Delivered /\ Owed(1)

Reads ==
  /\ pc = "ready" => (goal = "READ" /\ ReadAsked) \/ (goal = "CMD12" /\ ReadEnds)
  /\ pc = "token" => (goal = "first" /\ ReadOpens) \/ (goal = "next" /\ ReadTurns)
  /\ pc = "idle"  => ReadGoes

WriteAsked == Fresh /\ card \in Free
WriteOpens == Fresh /\ card \in Free \cup {WriteGap}
WriteGoes ==
  /\ Moving /\ len > 0 /\ Written /\ Owed(cmd.n - Blk) /\ got = << >>
  /\ card = WriteCard(Off) \/ (card \in Free /\ (sense # "none" \/ Sent < PPB))
WriteTurns ==
  /\ Moving /\ mbk /\ len > 0 /\ Written /\ Owed(cmd.n - Blk + 1) /\ got = << >>
  /\ Off = 0 /\ Sent > 0
  /\ card = WriteGap \/ (card \in Free /\ sense # "none")
WriteEnds ==
  Moving /\ mbk /\ len = 0 /\ Written /\ Owed(1) /\ got = << >> /\ card = WriteGap

Writes ==
  /\ pc = "ready" => \/ goal = "WRITE" /\ WriteAsked
                     \/ goal = "token" /\ WriteOpens
                     \/ goal = "next" /\ WriteTurns
                     \/ goal = "stop" /\ WriteEnds
  /\ pc # "token"
  /\ pc = "idle" => WriteGoes

Running(op) == pc # "halted" /\ ctype # "none" /\ cmd.op = op

Inv ==
  /\ Types /\ DiskOK /\ Places
  /\ Opening => OpenOK
  /\ ~Opening /\ pc # "halted" => Opened
  /\ Running("READ") /\ ~Opening => Reads
  /\ Running("WRITE") /\ ~Opening => Writes

-----------------------------------------------------------------------------
(* Numbers and records                                                     *)

LEMMA Bounds ==
  /\ Cap \in Nat \ {0} /\ PPB \in Nat \ {0} /\ MaxLen \in Nat \ {0} /\ Settle \in Nat \ {0}
  /\ T1Open \in Nat \ {0} /\ T1 \in Nat \ {0} /\ T2 \in Nat \ {0}
  /\ Kinds \subseteq {"none", "MMC", "SD1", "SD2", "SDHC"}
BY MmcAssumption

\* A product grows with its factors.
LEMMA Products ==
  ASSUME NEW a \in Int, NEW b \in Int, NEW c \in Nat \ {0}
  PROVE  /\ a * c \in Int /\ (a + 1) * c = a * c + c /\ (a - 1) * c = a * c - c
         /\ a <= b => a * c <= b * c
         /\ a * c < b * c => a < b
<1>1. a * c \in Int /\ (a + 1) * c = a * c + c /\ (a - 1) * c = a * c - c
  OBVIOUS
<1>2. ASSUME NEW x \in Int, NEW y \in Int, x <= y PROVE x * c <= y * c
  <2>1. (y - x) * c >= 0 /\ (y - x) * c = y * c - x * c
    BY <1>2
  <2> QED
    BY <1>2, <2>1
<1> QED
  BY <1>1, <1>2

LEMMA DivMod ==
  ASSUME NEW a \in Int, NEW c \in Nat \ {0}
  PROVE  a \div c \in Int /\ a % c \in 0 .. (c - 1) /\ a = (a \div c) * c + (a % c)
OBVIOUS

LEMMA DivUnique ==
  ASSUME NEW c \in Nat \ {0}, NEW q \in Int, NEW r \in 0 .. (c - 1)
  PROVE  (q * c + r) \div c = q /\ (q * c + r) % c = r
OBVIOUS

\* One packet more, of n blocks of c packets, when s have gone: it is the last
\* one of its block or not.
LEMMA OneMore ==
  ASSUME NEW c \in Nat \ {0}, NEW n \in Nat \ {0}, NEW l \in 1 .. n * c,
         NEW s, s = n * c - l
  PROVE  /\ s \in Nat /\ s \div c \in 0 .. n - 1 /\ s % c \in 0 .. c - 1
         /\ n * c - (l - 1) = s + 1 /\ l - 1 \in 0 .. n * c
         /\ s < c <=> s \div c = 0
         /\ s % c = c - 1 =>
              /\ (s + 1) \div c = (s \div c) + 1 /\ (s + 1) % c = 0
              /\ l = 1 <=> s \div c = n - 1
         /\ s % c # c - 1 =>
              /\ (s + 1) \div c = s \div c /\ (s + 1) % c = (s % c) + 1
              /\ l > 1
<1> DEFINE q == s \div c  r == s % c
<1>1. q \in Int /\ r \in 0 .. c - 1 /\ n * c \in Int /\ s \in Nat
  <2>1. n * c \in Int
    OBVIOUS
  <2>2. s \in Nat
    BY <2>1
  <2> QED
    BY <2>1, <2>2, DivMod
<1>2. s = q * c + r
  BY <1>1, DivMod
<1> HIDE DEF q, r
<1>3. q < n
  <2>1. q * c < n * c
    <3>1. q * c \in Int
      BY <1>1
    <3> QED
      BY <1>1, <1>2, <3>1
  <2> QED
    BY <1>1, <2>1, Products
<1>4. q >= 0
  <2>1. q * c + c > 0 /\ (q + 1) * c = q * c + c /\ 0 * c = 0
    <3>1. q * c \in Int /\ (q + 1) * c = q * c + c
      BY <1>1, Products
    <3> QED
      BY <1>1, <1>2, <3>1
  <2>2. 0 * c < (q + 1) * c /\ q + 1 \in Int
    BY <1>1, <2>1
  <2>3. 0 < q + 1
    BY <2>2, Products
  <2> QED
    BY <1>1, <2>3
<1>5. s < c <=> q = 0
  <2>1. CASE q = 0
    BY <1>1, <1>2, <2>1
  <2>2. CASE q >= 1
    <3>1. 1 * c <= q * c /\ q * c \in Int
      BY <1>1, <2>2, Products
    <3> QED
      BY <1>1, <1>2, <2>2, <3>1
  <2> QED
    BY <1>1, <1>4, <2>1, <2>2
<1>6. ASSUME r = c - 1
      PROVE  /\ (s + 1) \div c = q + 1 /\ (s + 1) % c = 0 /\ (l = 1 <=> q = n - 1)
  <2> DEFINE p == q + 1
  <2>1. (q + 1) * c = q * c + c /\ q * c \in Int
    BY <1>1, Products
  <2>2. s + 1 = p * c + 0 /\ p \in Int /\ 0 \in 0 .. c - 1
    BY <1>1, <1>2, <1>6, <2>1
  <2>e. p = q + 1
    OBVIOUS
  <2> HIDE DEF p
  <2>3. (s + 1) \div c = p /\ (s + 1) % c = 0
    BY <2>2, DivUnique
  <2>4. l = 1 => q = n - 1
    <3>1. HAVE l = 1
    <3>2. p * c = n * c
      BY <1>1, <2>2, <3>1
    <3>3. ~(p < n)
      <4>1. p < n => p + 1 <= n /\ p + 1 \in Int
        BY <2>2
      <4>2. p < n => (p + 1) * c <= n * c /\ (p + 1) * c = p * c + c
        BY <2>2, <4>1, Products
      <4> QED
        BY <1>1, <3>2, <4>2
    <3> QED
      BY <1>1, <1>3, <2>e, <3>3
  <2>5. q = n - 1 => l = 1
    BY <1>1, <2>2, <2>e
  <2> QED
    BY <2>3, <2>4, <2>5, <2>e
<1>7. ASSUME r # c - 1
      PROVE  (s + 1) \div c = q /\ (s + 1) % c = r + 1 /\ l > 1
  <2> DEFINE t == r + 1
  <2>1. s + 1 = q * c + t /\ t \in 0 .. c - 1
    BY <1>1, <1>2, <1>7
  <2>e. t = r + 1
    OBVIOUS
  <2> HIDE DEF t
  <2>2. (s + 1) \div c = q /\ (s + 1) % c = t
    BY <1>1, <2>1, DivUnique
  <2>3. l # 1
    <3>1. SUFFICES ASSUME l = 1 PROVE FALSE
      OBVIOUS
    <3>2. n * c = q * c + t
      BY <1>1, <2>1, <3>1
    <3>3. q + 1 <= n /\ q + 1 \in Int
      BY <1>1, <1>3
    <3>4. (q + 1) * c <= n * c /\ (q + 1) * c = q * c + c /\ q * c \in Int
      BY <1>1, <3>3, Products
    <3> QED
      BY <2>1, <3>2, <3>4
  <2> QED
    BY <1>1, <2>2, <2>3, <2>e
<1> QED
  BY <1>1, <1>3, <1>4, <1>5, <1>6, <1>7 DEF q, r

\* Nothing has gone yet, or all.
LEMMA NoneOrAll ==
  ASSUME NEW c \in Nat \ {0}, NEW n \in Nat \ {0}
  PROVE  /\ n * c \in Nat \ {0}
         /\ n * c - n * c = 0 /\ 0 \div c = 0 /\ 0 % c = 0
         /\ (n * c - 0) \div c = n /\ (n * c - 0) % c = 0 /\ n * c - 0 = n * c
<1>1. n * c \in Nat \ {0}
  <2>1. 1 * c <= n * c /\ n * c \in Int
    BY Products
  <2> QED
    BY <2>1
<1>2. 0 \in 0 .. c - 1 /\ 0 * c + 0 = 0 /\ n * c + 0 = n * c - 0
  BY <1>1
<1>3. (0 * c + 0) \div c = 0 /\ (0 * c + 0) % c = 0
  BY <1>2, DivUnique
<1>4. (n * c + 0) \div c = n /\ (n * c + 0) % c = 0
  BY <1>2, DivUnique
<1> QED
  BY <1>1, <1>2, <1>3, <1>4

\* The card gets on in its block.
LEMMA AtIs ==
  ASSUME NEW c \in CardStates, NEW a
  PROVE  [c EXCEPT !.at = a] = At(c, a)
BY DEF CardStates, At

LEMMA CardAt ==
  ASSUME NEW c \in CardStates, NEW a \in Error .. PPB
  PROVE  At(c, a) \in CardStates
BY DEF CardStates, At

LEMMA CardStreams ==
  /\ \A m \in {"tran", "csd", "read", "write", "deaf"}, multi \in BOOLEAN, b \in Nat :
       Stream(m, multi, b) \in CardStates
  /\ Resting \in CardStates /\ Deaf \in CardStates
  /\ Resting.mode = "tran" /\ Resting.at = Gap /\ Resting.buf = << >>
  /\ Deaf.mode = "deaf" /\ Deaf.at = Gap /\ Deaf.buf = << >>
  /\ {Gap, Start, Error} \subseteq Error .. PPB /\ 0 .. PPB \subseteq Error .. PPB
<1>1. {Gap, Start, Error} \subseteq Error .. PPB /\ 0 .. PPB \subseteq Error .. PPB
  BY Bounds DEF Gap, Start, Error
<1>2. << >> \in Seq(Parts)
  OBVIOUS
<1>3. ASSUME NEW m \in {"tran", "csd", "read", "write", "deaf"}, NEW multi \in BOOLEAN,
             NEW b \in Nat
      PROVE  Stream(m, multi, b) \in CardStates
  BY <1>1, <1>2 DEF Stream, CardStates
<1>4. /\ Resting.mode = "tran" /\ Resting.at = Gap /\ Resting.buf = << >>
      /\ Deaf.mode = "deaf" /\ Deaf.at = Gap /\ Deaf.buf = << >>
  BY DEF Resting, Deaf, Stream
<1>5. Resting \in CardStates /\ Deaf \in CardStates
  BY <1>3 DEF Resting, Deaf
<1> QED
  BY <1>1, <1>3, <1>4, <1>5

\* The fields of a card that is typed.
LEMMA CardFields ==
  ASSUME CardOK
  PROVE  /\ card.mode \in {"power", "tran", "csd", "read", "write", "deaf"}
         /\ card.at \in Error .. PPB /\ card.multi \in BOOLEAN /\ card.pos \in Nat
         /\ card.buf \in Seq(Parts)
BY DEF CardOK, CardStates

-----------------------------------------------------------------------------
(* The card, and the timers                                                *)

\* What all parts but Types and Places speak of.
Core == <<kind, good, card, disk, ctype, capacity, ofs, len, bct, mbk, ok, residue, sense,
          pc, goal, cmd, got, abandoned>>

LEMMA CoreKept ==
  ASSUME Inv, UNCHANGED Core, Types', Places'
  PROVE  Inv'
<1>1. UNCHANGED <<Sent, Blk, Off, Fresh, Moving, Delivered, Written, OnLine, Opening>>
  BY DEF Core, Sent, Blk, Off, Fresh, Moving, Delivered, Written, OnLine, ReadCard, At, Opening
<1>2. DiskOK' /\ (Opening => OpenOK)' /\ (~Opening /\ pc # "halted" => Opened)'
  BY DEF Inv, Core, DiskOK, Opening, OpenOK, Opened, Addressing
<1>3. \A k \in Int : UNCHANGED <<Owed(k), ReadCard(k), WriteCard(k)>> /\ UNCHANGED WriteGap
  BY DEF Core, Owed, ReadCard, WriteCard, SentParts, At, WriteGap, Blk, Sent
<1>4. Reads => Reads'
  BY <1>1, <1>3 DEF Core, Reads, ReadAsked, ReadOpens, ReadGoes, ReadTurns, ReadEnds, ReadCard,
     At, Owed
<1>5. Writes => Writes'
  BY <1>1, <1>3 DEF Core, Writes, WriteAsked, WriteOpens, WriteGoes, WriteTurns, WriteEnds,
     WriteCard, SentParts, WriteGap, Owed
<1>6. UNCHANGED <<Running("READ"), Running("WRITE")>>
  BY DEF Core, Running
<1> QED
  BY <1>1, <1>2, <1>4, <1>5, <1>6 DEF Inv

LEMMA CardReadyKeeps == Inv /\ CardReady => Inv'
<1> SUFFICES ASSUME Inv, CardReady PROVE Inv'
  OBVIOUS
<1>1. UNCHANGED Core /\ busy' \in BOOLEAN /\ UNCHANGED <<delay, timer1, timer2>>
  BY DEF CardReady, Core, openVars, xferVars, timers, hostVars
<1>2. Types'
  BY <1>1 DEF Inv, Types, TypeOK, CardOK, Core
<1>3. Places'
  BY <1>1 DEF Inv, Places, Core
<1> QED
  BY <1>1, <1>2, <1>3, CoreKept

LEMMA TickKeeps == Inv /\ Tick => Inv'
<1> SUFFICES ASSUME Inv, Tick PROVE Inv'
  OBVIOUS
<1>1. UNCHANGED Core /\ UNCHANGED busy /\ ~InUsb
  BY DEF Tick, Core, openVars, xferVars, hostVars, cardVars, SysTickPriority, UsbPriority
<1>2. /\ delay \in 0 .. Settle /\ timer1 \in 0 .. T1Open + T1 /\ timer2 \in 0 .. T2
      /\ T1Open \in Nat /\ T1 \in Nat /\ T2 \in Nat /\ Settle \in Nat
  BY Bounds DEF Inv, Types, TypeOK
<1>3. delay' \in 0 .. Settle /\ timer1' \in 0 .. T1Open + T1 /\ timer2' \in 0 .. T2
  BY <1>2 DEF Tick, Down
<1>4. Types'
  BY <1>1, <1>3 DEF Inv, Types, TypeOK, CardOK, Core
<1>5. Places'
  BY <1>1 DEF Inv, Places, Core, InUsb
<1> QED
  BY <1>1, <1>4, <1>5, CoreKept

LEMMA CardAnswersKeeps == Inv /\ CardAnswers => Inv'
<1> SUFFICES ASSUME Inv, CardAnswers PROVE Inv'
  OBVIOUS
<1>1. /\ UNCHANGED <<kind, good, busy, disk, ctype, capacity, ofs, len, bct, mbk, ok,
                     residue, sense, delay, timer1, timer2, pc, goal, cmd, got, abandoned>>
      /\ card.mode \in {"read", "csd"} /\ card.at = Gap
      /\ \E a \in {Start, Error} : card' = At(card, a) /\ (a = Start => card.pos < Cap)
  <2>1. Start # Error
    BY DEF Start, Error
  <2> QED
    BY <2>1, AtIs DEF CardAnswers, openVars, xferVars, timers, hostVars, Inv, Types, CardOK
<1>2. PICK a \in {Start, Error} : card' = At(card, a) /\ (a = Start => card.pos < Cap)
  BY <1>1
<1>3. Types'
  <2>1. CardOK'
    BY <1>2, Bounds, CardAt DEF Inv, Types, CardOK, Start, Error
  <2>2. card'.mode = card.mode /\ card'.at \in Error .. PPB /\ card'.buf = card.buf
    BY <1>2, Bounds DEF Inv, Types, CardOK, At, Start, Error
  <2> QED
    BY <1>1, <2>1, <2>2 DEF Inv, Types, TypeOK
<1>4. DiskOK' /\ Places'
  BY <1>1 DEF Inv, DiskOK, Places
<1>5. (Opening => OpenOK)'
  <2>1. Opening' => Opening /\ OpenOK
    BY <1>1 DEF Inv, Opening
  <2>2. card \notin {Power, Resting}
    BY <1>1 DEF Power, Resting, Stream
  <2>3. OpenOK /\ goal = "csd" => card' = At(Stream("csd", FALSE, 0), a)
    <3>1. HAVE OpenOK /\ goal = "csd"
    <3>2. PICK b \in {Gap, Start, Error} : card = At(Stream("csd", FALSE, 0), b)
      BY <3>1 DEF OpenOK
    <3>3. card.mode = "csd" /\ card.multi = FALSE /\ card.pos = 0 /\ card.buf = << >>
      BY <3>2 DEF At, Stream
    <3>4. card' = At(card, a)
      BY <1>2
    <3> QED
      BY <3>3, <3>4 DEF At, Stream
  <2> QED
    BY <1>1, <2>1, <2>2, <2>3 DEF OpenOK, Addressing
<1>n. card \notin {Power, Resting, Deaf} /\ card # WriteGap /\ \A b \in Int : card # WriteCard(b)
  BY <1>1 DEF Power, Resting, Deaf, Stream, WriteGap, WriteCard
<1>6. (~Opening /\ pc # "halted" => Opened)'
  BY <1>1, <1>n DEF Inv, Opening, Opened, Addressing, Free
<1>7. (Running("WRITE") /\ ~Opening => Writes)'
  <2>1. SUFFICES ASSUME Running("WRITE"), ~Opening PROVE Writes'
    BY <1>1 DEF Running, Opening
  <2>2. Writes
    BY <2>1 DEF Inv
  <2>3. pc # "token" /\ pc # "idle"
    <3>1. Off \in Int /\ pc = "idle" => FALSE
      BY <1>n, <2>2 DEF Writes, WriteGoes, Free
    <3>2. pc = "idle" => Off \in Int
      <4>1. HAVE pc = "idle"
      <4>2. Sent \in Int
        BY <2>2, <4>1, Bounds, <2>1 DEF Writes, WriteGoes, Moving, Sent, Running, Inv, Types, Commands, NoCmd
      <4> QED
        BY <4>2, Bounds, DivMod DEF Off
    <3> QED
      BY <2>2, <3>1, <3>2 DEF Writes
  <2>4. pc # "ready"
    BY <1>n, <2>2 DEF Writes, WriteAsked, WriteOpens, WriteTurns, WriteEnds, Free
  <2> QED
    BY <1>1, <2>3, <2>4 DEF Writes
<1>8. (Running("READ") /\ ~Opening => Reads)'
  <2>1. SUFFICES ASSUME Running("READ"), ~Opening PROVE Reads'
    BY <1>1 DEF Running, Opening
  <2>2. Reads
    BY <2>1 DEF Inv
  <2>3. UNCHANGED <<Sent, Blk, Off, Fresh, Moving, Delivered>>
    BY <1>1 DEF Sent, Blk, Off, Fresh, Moving, Delivered
  <2>4. OnLine => OnLine'
    <3>1. HAVE OnLine
    <3>2. card = ReadCard(Gap)
      BY <1>1, <3>1 DEF OnLine, ReadCard, At, Stream, Gap, Start, Error
    <3>3. card' = ReadCard(a)' /\ (a = Start => cmd.lba + Blk < Cap)
      BY <1>1, <1>2, <2>3, <3>2 DEF ReadCard, At, Stream
    <3> QED
      BY <1>1, <2>3, <3>3 DEF OnLine, Start, Error, Gap
  <2>5. pc = "idle" => FALSE
    <3>1. HAVE pc = "idle"
    <3>2. card = ReadCard(Off) /\ len \in 1 .. cmd.n * PPB
      BY <1>n, <2>2, <3>1 DEF Reads, ReadGoes, Moving
    <3>3. Sent \in Int
      BY <3>2, <2>1, Bounds DEF Sent, Running, Inv, Types, Commands, NoCmd
    <3>4. Off >= 0 /\ card.at = Off
      BY <3>2, <3>3, Bounds, DivMod DEF Off, ReadCard, At, Stream
    <3> QED
      BY <1>1, <3>4 DEF Gap
  <2>6. pc = "token" => (goal = "first" /\ Fresh /\ OnLine) \/
          (goal = "next" /\ OnLine /\ Moving /\ mbk /\ len > 0 /\ Delivered
             /\ Owed(cmd.n - Blk + 1) /\ Off = 0 /\ Sent > 0)
    BY <1>n, <2>2 DEF Reads, ReadOpens, ReadTurns, Free
  <2>7. pc = "ready" => goal = "CMD12" /\ ReadEnds
    BY <1>n, <2>2 DEF Reads, ReadAsked, Free
  <2>8. (pc = "ready" => goal = "CMD12" /\ ReadEnds)'
    BY <1>1, <2>3, <2>7 DEF ReadEnds, Owed
  <2>9. (pc = "token" => (goal = "first" /\ ReadOpens) \/ (goal = "next" /\ ReadTurns))'
    BY <1>1, <2>3, <2>4, <2>6 DEF ReadOpens, ReadTurns, Owed
  <2> QED
    BY <1>1, <2>5, <2>8, <2>9 DEF Reads
<1> QED
  BY <1>3, <1>4, <1>5, <1>6, <1>7, <1>8 DEF Inv

-----------------------------------------------------------------------------
(* Open                                                                    *)

\* What a step of Open leaves to prove: the types, where it goes on and, in
\* Open or behind it, the facts of that place.
LEMMA OpenKeeps ==
  ASSUME Inv, Opening, cmd' = NoCmd, UNCHANGED disk, Types', Places',
         (Opening => OpenOK)', (~Opening => pc = "idle" /\ Opened)'
  PROVE  Inv'
<1>1. DiskOK'
  BY DEF Inv, DiskOK
<1>2. ~Running("READ")' /\ ~Running("WRITE")'
  BY DEF Running, NoCmd
<1> QED
  BY <1>1, <1>2 DEF Inv

LEMMA OpenDelayKeeps == Inv /\ OpenDelay => Inv'
<1> SUFFICES ASSUME Inv, OpenDelay PROVE Inv'
  OBVIOUS
<1>1. /\ UNCHANGED <<kind, good, busy, disk, card, ctype, capacity, ofs, len, bct, mbk, ok,
                     residue, sense, delay, timer1, cmd, got, abandoned>>
      /\ pc = "delay" /\ pc' = "ready" /\ goal' = "CMD0" /\ timer2' = T2
  BY DEF OpenDelay, OpenFrame, WaitReady, openVars, xferVars, hostVars
<1>2. Opening /\ OpenOK /\ goal = "CMD0"
  BY <1>1 DEF Inv, Opening, Places
<1>3. Types'
  <2>1. T2 \in 0 .. T2
    BY Bounds
  <2> QED
    BY <1>1, <2>1 DEF Inv, Types, TypeOK, CardOK
<1>4. Places'
  BY <1>1 DEF Places, OpenGoals
<1>5. Opening' /\ OpenOK'
  BY <1>1, <1>2 DEF Opening, OpenOK, OpenGoals
<1> QED
  BY <1>1, <1>2, <1>3, <1>4, <1>5, OpenKeeps DEF OpenOK

LEMMA OpenCsdKeeps == Inv /\ OpenCsd => Inv'
<1> SUFFICES ASSUME Inv, OpenCsd PROVE Inv'
  OBVIOUS
<1>1. /\ UNCHANGED <<kind, good, busy, disk, ctype, ofs, len, bct, mbk, ok, residue, sense,
                     delay, cmd, got, abandoned>>
      /\ pc = "token" /\ goal = "csd" /\ capacity' \in {0, Cap} /\ card' = Resting
      /\ pc' = "idle" /\ goal' = "none" /\ timer1' = 0 /\ timer2' = 0
  BY DEF OpenCsd, Token, Return, OpenFrame, xferVars, hostVars
<1>2. Opening /\ OpenOK
  BY <1>1 DEF Inv, Opening, OpenGoals
<1>3. Types'
  <2>1. CardOK'
    BY <1>1, Bounds DEF CardOK, CardStates, Resting, Stream, Gap, Error
  <2>2. card'.mode = "tran" /\ card'.at \in Error .. PPB /\ Len(card'.buf) = 0
    BY <1>1, Bounds DEF Resting, Stream, Gap, Error
  <2>3. 0 \in 0 .. T1Open + T1 /\ 0 \in 0 .. T2 /\ 0 <= PPB
    BY Bounds
  <2> QED
    BY <1>1, <2>1, <2>2, <2>3 DEF Inv, Types, TypeOK
<1>4. Places' /\ ~Opening'
  BY <1>1 DEF Places, Opening
<1>5. Opened'
  BY <1>1, <1>2 DEF OpenOK, Opened, Addressing, Free
<1> QED
  BY <1>1, <1>2, <1>3, <1>4, <1>5, OpenKeeps DEF OpenOK

\* What OpenCommand does, by where it goes on.
LEMMA OpenSteps ==
  ASSUME Inv, OpenCommand
  PROVE  /\ UNCHANGED <<kind, good, busy, disk, ofs, len, bct, mbk, ok, residue, sense, delay,
                        cmd, got, abandoned, capacity>>
         /\ Opening /\ OpenOK
         /\ card' \in {card, Resting, Stream("csd", FALSE, 0)}
         /\ timer1' \in 0 .. T1Open + T1 /\ timer2' \in 0 .. T2
         /\ ctype' \in {"none", "MMC", "SD1", "SD2", "SDHC"}
         /\ pc' \in {"ready", "token", "idle"}
         /\ pc' = "ready" => goal' \in OpenGoals \ {"csd"} /\ timer2' = T2
         /\ pc' = "token" => goal' = "csd"
         /\ (Opening => OpenOK)' /\ (~Opening => pc = "idle" /\ Opened)'
<1>1. PICK g \in OpenGoals \ {"csd"} :
        /\ Ready(g)
        /\ \E r \in Response(g) : OpenResponse(g, r) /\ CardHears(g, r)
        /\ OpenFrame /\ UNCHANGED delay
  BY DEF OpenCommand
<1>2. PICK r \in Response(g) : OpenResponse(g, r) /\ CardHears(g, r)
  BY <1>1
<1>3. UNCHANGED <<kind, good, busy, disk, ofs, len, bct, mbk, ok, residue, sense, delay,
                  cmd, got, abandoned>>
  BY <1>1 DEF OpenFrame, xferVars, hostVars
<1>4. pc = "ready" /\ goal = g /\ Opening /\ OpenOK
  BY <1>1 DEF Ready, Inv, Opening
<1>t. /\ T2 \in 0 .. T2 /\ 0 \in 0 .. T2 /\ 0 \in 0 .. T1Open + T1 /\ T1 \in 0 .. T1Open + T1
      /\ T1Open \in 0 .. T1Open + T1
      /\ timer1 \in 0 .. T1Open + T1 /\ timer2 \in 0 .. T2
      /\ ctype \in {"none", "MMC", "SD1", "SD2", "SDHC"}
  BY Bounds DEF Inv, Types, TypeOK
<1>r. /\ g = "CMD8" /\ r = 1 => kind \in {"SD2", "SDHC"}
      /\ g = "MMC" /\ r = 0 => kind # "SDHC"
      /\ g = "SD1" /\ r = 0 => kind # "SDHC"
  BY <1>2 DEF Response, Says, None
<1>d. DEFINE
       Goes(h, t) == /\ pc' = "ready" /\ goal' = h /\ timer2' = T2 /\ ctype' = t
                     /\ UNCHANGED <<capacity, timer1>>
       Fails == /\ pc' = "idle" /\ goal' = "none" /\ timer1' = 0 /\ timer2' = 0
                /\ ctype' = "none" /\ UNCHANGED capacity
<1>g. \A h, t : (OpenGo(h, t) <=> Goes(h, t))
  BY DEF OpenGo, WaitReady
<1>f. OpenEnd("none") <=> Fails
  BY DEF OpenEnd, Return
<1>e. \A t : t # "none" => (OpenEnd(t) <=> Goes("CMD9", t))
  BY DEF OpenEnd, WaitReady
<1>l. \A h, t : OpenLoop(h, t) => Goes(h, t) \/ Fails
  BY <1>g, <1>f DEF OpenLoop
<1> HIDE DEF Goes, Fails
\* The cases of the response.
<1>5. \/ /\ g = "CMD0" /\ pc' = "ready" /\ goal' = "CMD8" /\ timer2' = T2 /\ timer1' = T1Open
         /\ UNCHANGED <<ctype, capacity>>
      \/ Fails /\ g # "CMD9"
      \/ g = "CMD8" /\ r = 1 /\ Goes("HCS", "none")
      \/ g = "CMD8" /\ r # 1 /\ Goes("ACMD41", "none")
      \/ g = "ACMD41" /\ (Goes("SD1", "SD1") \/ Goes("MMC", "MMC"))
      \/ g = "HCS" /\ Goes("HCS", "none") /\ r # 0
      \/ g = "HCS" /\ Goes("CMD58", "none") /\ r = 0
      \/ g \in {"SD1", "MMC"} /\ r = 0 /\ Goes("CMD16", g)
      \/ g \in {"SD1", "MMC"} /\ r # 0 /\ Goes(g, g)
      \/ g = "CMD58" /\ r = 0 /\ Goes("CMD9", IF kind = "SDHC" THEN "SDHC" ELSE "SD2")
      \/ g = "CMD16" /\ r = 0 /\ Goes("CMD9", ctype)
      \/ /\ g = "CMD9" /\ r = 0 /\ pc' = "token" /\ goal' = "csd" /\ timer1' = T1
         /\ UNCHANGED <<timer2, ctype, capacity>>
      \/ /\ g = "CMD9" /\ r # 0 /\ pc' = "idle" /\ goal' = "none" /\ timer1' = 0 /\ timer2' = 0
         /\ UNCHANGED <<ctype, capacity>>
  <2>1. OpenGo("ACMD41", "none") => Goes("ACMD41", "none")
    BY <1>g
  <2>2. g = "CMD16" => ctype # "none"
    BY <1>4 DEF OpenOK
  <2>3. CASE g = "CMD0"
    BY <1>2, <1>f, <2>3 DEF OpenResponse, WaitReady, openVars
  <2>4. CASE g = "CMD8"
    BY <1>2, <1>f, <1>l, <2>1, <2>4 DEF OpenResponse
  <2>5. CASE g = "ACMD41"
    BY <1>2, <1>l, <2>5 DEF OpenResponse
  <2>6. CASE g = "HCS"
    BY <1>2, <1>l, <2>6 DEF OpenResponse
  <2>7. CASE g \in {"SD1", "MMC"}
    <3>1. ctype = g
      BY <1>4, <2>7 DEF OpenOK
    <3> QED
      BY <1>2, <1>l, <2>7, <3>1 DEF OpenResponse
  <2>8. CASE g = "CMD58"
    BY <1>2, <1>e, <1>f, <2>8 DEF OpenResponse
  <2>9. CASE g = "CMD16"
    BY <1>2, <1>e, <1>f, <2>2, <2>9 DEF OpenResponse
  <2>10. CASE g = "CMD9"
    BY <1>2, <2>10 DEF OpenResponse, WaitToken, Return, openVars
  <2> QED
    BY <1>1, <2>3, <2>4, <2>5, <2>6, <2>7, <2>8, <2>9, <2>10 DEF OpenGoals
<1>6. /\ card' = IF r # 0 THEN card
                 ELSE IF g \in {"HCS", "SD1", "MMC"} THEN Resting
                 ELSE IF g = "CMD9" THEN Stream("csd", FALSE, 0) ELSE card
  BY <1>2 DEF CardHears
<1>7. card' \in {card, Resting, Stream("csd", FALSE, 0)}
  BY <1>6
<1>8. /\ timer1' \in 0 .. T1Open + T1 /\ timer2' \in 0 .. T2
      /\ ctype' \in {"none", "MMC", "SD1", "SD2", "SDHC"} /\ UNCHANGED capacity
      /\ pc' \in {"ready", "token", "idle"}
      /\ pc' = "ready" => goal' \in OpenGoals \ {"csd"} /\ timer2' = T2
      /\ pc' = "token" => goal' = "csd"
  BY <1>5, <1>t, <1>1 DEF Goes, Fails, OpenGoals
<1>9. card \in {Power, Resting} /\ (g \in {"CMD58", "CMD16", "CMD9"} => card = Resting)
  BY <1>1, <1>4 DEF OpenOK
<1>c. At(Stream("csd", FALSE, 0), Gap) = Stream("csd", FALSE, 0)
  BY DEF At, Stream
<1>k. /\ g = "HCS" => kind \in {"SD2", "SDHC"}
      /\ g = "CMD16" => kind # "SDHC" /\ ctype \in {"SD1", "MMC"}
      /\ g = "CMD9" => ctype # "none" /\ Addressing
  BY <1>4 DEF OpenOK
<1>10. (Opening => OpenOK)'
  <2>1. SUFFICES ASSUME Opening' PROVE OpenOK'
    OBVIOUS
  <2>2. (cmd = NoCmd /\ ~abandoned /\ ~ok /\ ~mbk /\ sense = "reset")'
    BY <1>3, <1>4 DEF OpenOK
  <2>3. (goal \in {"CMD58", "CMD16", "CMD9"} => card = Resting)'
    BY <1>1, <1>5, <1>6, <1>9 DEF Goes, Fails
  <2>4. (goal = "csd" => \E a \in {Gap, Start, Error} : card = At(Stream("csd", FALSE, 0), a))'
    BY <1>1, <1>5, <1>6, <1>c DEF Goes, Fails, OpenGoals
  <2>5. (goal \notin {"CMD58", "CMD16", "CMD9", "csd"} => card \in {Power, Resting})'
    BY <1>1, <1>5, <1>6, <1>9 DEF Goes, Fails
  <2>6. (goal \in {"CMD58", "HCS"} => kind \in {"SD2", "SDHC"})'
    BY <1>1, <1>3, <1>5, <1>k, <1>r DEF Goes, Fails
  <2>9. (goal \in {"SD1", "MMC"} => ctype = goal)'
    BY <1>1, <1>5 DEF Goes, Fails
  <2>7. (goal = "CMD16" => kind # "SDHC" /\ ctype \in {"SD1", "MMC"})'
    <3>1. HAVE goal' = "CMD16"
    <3>2. g \in {"SD1", "MMC"} /\ r = 0 /\ ctype' = g
      BY <1>1, <1>5, <3>1 DEF Goes, Fails
    <3> QED
      BY <1>3, <1>r, <3>2
  <2>8. (goal \in {"CMD9", "csd"} => ctype # "none" /\ Addressing)'
    BY <1>1, <1>3, <1>5, <1>k DEF Goes, Fails, Addressing
  <2> QED
    BY <2>2, <2>3, <2>4, <2>5, <2>6, <2>7, <2>8, <2>9 DEF OpenOK
<1>11. (~Opening => pc = "idle" /\ Opened)'
  <2>1. SUFFICES ASSUME ~Opening' PROVE pc' = "idle" /\ Opened'
    OBVIOUS
  <2>2. pc' = "idle"
    BY <1>8, <2>1 DEF Opening, OpenGoals
  <2>3. Fails \/ (g = "CMD9" /\ r # 0 /\ UNCHANGED ctype)
    BY <1>5, <2>2 DEF Goes
  <2>4. Fails => card' \in {Power, Resting}
    BY <1>5, <1>6, <1>9 DEF Fails
  <2> QED
    BY <1>3, <1>4, <1>6, <1>9, <1>k, <2>2, <2>3, <2>4
    DEF Opened, OpenOK, Addressing, Free, Fails
<1> QED
  BY <1>3, <1>4, <1>7, <1>8, <1>10, <1>11

LEMMA OpenCommandKeeps == Inv /\ OpenCommand => Inv'
<1> SUFFICES ASSUME Inv, OpenCommand PROVE Inv'
  OBVIOUS
<1>1. /\ UNCHANGED <<kind, good, busy, disk, ofs, len, bct, mbk, ok, residue, sense, delay,
                     cmd, got, abandoned, capacity>>
      /\ Opening /\ OpenOK
      /\ card' \in {card, Resting, Stream("csd", FALSE, 0)}
      /\ timer1' \in 0 .. T1Open + T1 /\ timer2' \in 0 .. T2
      /\ ctype' \in {"none", "MMC", "SD1", "SD2", "SDHC"}
      /\ pc' \in {"ready", "token", "idle"}
      /\ pc' = "ready" => goal' \in OpenGoals \ {"csd"} /\ timer2' = T2
      /\ pc' = "token" => goal' = "csd"
      /\ (Opening => OpenOK)' /\ (~Opening => pc = "idle" /\ Opened)'
  BY OpenSteps
<1>2. Types'
  <2>1. CardOK'
    BY <1>1, CardStreams DEF Inv, Types, CardOK
  <2>2. card'.mode \in {"power", "tran", "csd", "read", "write", "deaf"}
        /\ card'.at \in Error .. PPB /\ Len(card'.buf) <= PPB
    BY <1>1, Bounds DEF Inv, Types, TypeOK, Resting, Stream, Gap, Error
  <2> QED
    BY <1>1, <2>1, <2>2 DEF Inv, Types, TypeOK
<1>3. Places'
  BY <1>1 DEF Places, OpenGoals
<1> QED
  BY <1>1, <1>2, <1>3, OpenKeeps DEF OpenOK

-----------------------------------------------------------------------------
(* Commands begin and are given up                                         *)

\* A step behind Open, in a command.
LEMMA CommandKeeps ==
  ASSUME Inv, ~Opening, Types', Places', DiskOK', (~Opening)', (pc # "halted" => Opened)',
         (Running("READ") => Reads)', (Running("WRITE") => Writes)'
  PROVE  Inv'
BY DEF Inv

LEMMA BeginKeeps == Inv /\ Begin => Inv'
<1> SUFFICES ASSUME Inv, Begin PROVE Inv'
  OBVIOUS
<1>1. PICK op \in {"READ", "WRITE"}, l \in 0 .. Cap, n \in 1 .. MaxLen, v \in 0 .. 1 :
        ~abandoned /\ Setup(op, l, n, v)
  BY DEF Begin
<1>c. cmd' = [op |-> op, lba |-> l, n |-> n, ver |-> v]
  BY <1>1 DEF Setup
<1>2. /\ UNCHANGED <<kind, good, card, busy, disk, ctype, capacity, delay, abandoned>>
      /\ pc = "idle" /\ cmd = NoCmd /\ ~abandoned
      /\ cmd'.op = op /\ cmd'.lba = l /\ cmd'.n = n /\ cmd' \in Commands
      /\ got' = << >> /\ residue' = n /\ ofs' = l /\ len' = n * PPB /\ ok' = FALSE
      /\ ctype = "none" => /\ sense' = "nomedium" /\ pc' = "idle" /\ goal' = "none"
                           /\ timer1' = 0 /\ timer2' = 0 /\ UNCHANGED <<mbk, bct>>
      /\ ctype # "none" => /\ mbk' = (n > 1) /\ bct' = PPB /\ pc' = "ready" /\ goal' = op
                           /\ timer2' = T2 /\ UNCHANGED <<sense, timer1>>
  BY <1>1, <1>c DEF Setup, cardVars, openVars, Return, WaitReady, Commands
<1>3. ~Opening /\ Opened
  BY <1>2 DEF Inv, Opening
<1>n. n \in Nat \ {0} /\ n * PPB \in 1 .. MaxLen * PPB /\ n * PPB - n * PPB = 0
  <2>1. n \in Nat \ {0} /\ n \in Int /\ MaxLen \in Int /\ n <= MaxLen
    BY Bounds
  <2>2. n * PPB <= MaxLen * PPB /\ MaxLen * PPB \in Int
    BY <2>1, Bounds, Products
  <2>3. n * PPB \in Nat \ {0} /\ n * PPB - n * PPB = 0
    BY <2>1, Bounds, NoneOrAll
  <2> QED
    BY <2>1, <2>2, <2>3
<1>4. Types'
  <2>1. /\ ofs' \in 0 .. Cap + MaxLen /\ len' \in 0 .. MaxLen * PPB /\ bct' \in 0 .. PPB
        /\ mbk' \in BOOLEAN /\ ok' \in BOOLEAN /\ residue' \in 0 .. MaxLen
    <3>1. /\ ofs' \in 0 .. Cap + MaxLen /\ len' \in 0 .. MaxLen * PPB /\ residue' \in 0 .. MaxLen
          /\ ok' \in BOOLEAN
      <4>1. \A x, y \in Int : x \in 1 .. y => x \in 0 .. y
        OBVIOUS
      <4>2. n * PPB \in Int /\ MaxLen * PPB \in Int
        BY <1>n, Bounds
      <4>3. n * PPB \in 0 .. MaxLen * PPB
        BY <1>n, <4>1, <4>2
      <4>4. n \in 0 .. MaxLen /\ l \in 0 .. Cap + MaxLen /\ FALSE \in BOOLEAN
        BY Bounds
      <4> QED
        BY <1>2, <4>3, <4>4
    <3>2. bct \in 0 .. PPB /\ mbk \in BOOLEAN /\ PPB \in 0 .. PPB /\ (n > 1) \in BOOLEAN
      BY Bounds DEF Inv, Types, TypeOK
    <3>3. bct' \in 0 .. PPB /\ mbk' \in BOOLEAN
      BY <1>2, <3>2
    <3> QED
      BY <3>1, <3>3
  <2>2. timer1' \in 0 .. T1Open + T1 /\ timer2' \in 0 .. T2
    BY <1>2, Bounds DEF Inv, Types, TypeOK
  <2>3. got' \in Seq(Parts) /\ Len(got') <= MaxLen * PPB
    BY <1>2, <1>n, Bounds
  <2>4. pc' \in {"delay", "ready", "token", "idle", "halted"}
        /\ sense' \in {"none", "reset", "nomedium", "range", "fault", "notready"}
    BY <1>2 DEF Inv, Types, TypeOK
  <2> QED
    BY <1>2, <2>1, <2>2, <2>3, <2>4 DEF Inv, Types, TypeOK, CardOK
<1>5. Places' /\ ~Opening' /\ DiskOK'
  BY <1>1, <1>2 DEF Inv, Places, Opening, OpenGoals, DiskOK
<1>6. Opened'
  <2>1. cmd' # NoCmd /\ abandoned' = FALSE
    BY <1>1, <1>2 DEF NoCmd, Inv, Types, TypeOK
  <2>2. ctype = "none" => len' \in 1 .. cmd'.n * PPB /\ Len(got') = 0 /\ cmd'.n * PPB - len' = 0
    BY <1>2, <1>n
  <2> QED
    BY <1>2, <1>3, <2>1, <2>2 DEF Opened, Addressing
<1>7. ctype # "none" => Fresh' /\ card' \in Free
  <2>1. ctype # "none" => card \in Free
    BY <1>2, <1>3 DEF Opened
  <2> QED
    BY <1>2, <2>1 DEF Fresh
<1>8. (Running("READ") => Reads)' /\ (Running("WRITE") => Writes)'
  BY <1>2, <1>7 DEF Running, Reads, Writes, ReadAsked, WriteAsked, Free
<1> QED
  BY <1>3, <1>4, <1>5, <1>6, <1>8, CommandKeeps

LEMMA AbandonKeeps == Inv /\ Abandon => Inv'
<1> SUFFICES ASSUME Inv, Abandon PROVE Inv'
  OBVIOUS
<1>1. /\ UNCHANGED <<kind, good, busy, card, disk, ctype, capacity, ofs, len, bct, mbk, ok,
                     residue, sense, delay, timer1, timer2, pc, goal>>
      /\ pc = "idle" /\ cmd # NoCmd /\ cmd' = NoCmd /\ got' = << >>
      /\ abandoned' = (abandoned \/ card.mode # "tran")
  BY DEF Abandon, cardVars, openVars, xferVars, timers
<1>2. ~Opening /\ ~Opening' /\ Opened
  BY <1>1 DEF Inv, Opening
<1>3. Types'
  <2>1. got' \in Seq(Parts) /\ Len(got') <= MaxLen * PPB
    <3>1. MaxLen * PPB \in Nat /\ got' = << >>
      BY <1>1, Bounds
    <3> QED
      BY <3>1
  <2> QED
    BY <1>1, <2>1 DEF Inv, Types, TypeOK, CardOK
<1>4. Places' /\ DiskOK'
  BY <1>1 DEF Inv, Places, DiskOK
<1>5. card.mode = "tran" /\ ctype # "none" => card = Resting
  <2>1. HAVE card.mode = "tran" /\ ctype # "none"
  <2>2. Running("READ") => FALSE
    BY <1>1, <1>2, <2>1
    DEF Inv, Running, Reads, ReadGoes, ReadCard, At, Stream, Deaf
  <2>3. Running("WRITE") => card = Resting
    BY <1>1, <1>2, <2>1
    DEF Inv, Running, Writes, WriteGoes, WriteCard, Free, Deaf, Stream
  <2>4. Running("READ") \/ Running("WRITE")
    BY <1>1, <2>1 DEF Running, Inv, Types, Commands
  <2> QED
    BY <2>2, <2>3, <2>4
<1>6. Opened'
  BY <1>1, <1>2, <1>5 DEF Opened, Addressing, Free
<1>7. ~Running("READ")' /\ ~Running("WRITE")'
  BY <1>1 DEF Running, NoCmd
<1> QED
  BY <1>2, <1>3, <1>4, <1>6, <1>7, CommandKeeps

-----------------------------------------------------------------------------
(* Where a command is                                                      *)

\* A wait in the USB interrupt belongs to a command, and its timer does not run
\* out.
LEMMA Waiting ==
  ASSUME Inv, pc \in {"ready", "token"}, goal \notin OpenGoals
  PROVE  /\ ~Opening /\ ctype # "none" /\ Addressing /\ ~abandoned
         /\ cmd \in Commands /\ cmd.op \in {"READ", "WRITE"}
         /\ pc = "ready" => timer2 # 0
         /\ pc = "token" => timer1 # 0
         /\ cmd.op = "READ" => Reads
         /\ cmd.op = "WRITE" => Writes
<1>1. ~Opening /\ Opened
  BY DEF Inv, Opening
<1>2. ctype # "none" /\ cmd # NoCmd /\ Addressing
  BY <1>1 DEF Opened
<1>3. cmd \in Commands /\ ~abandoned /\ cmd.op \in {"READ", "WRITE"}
  BY <1>1, <1>2 DEF Inv, Types, TypeOK, Opened, Commands
<1>4. timer2 = T2 \/ pc # "ready"
  BY DEF Inv, Places
<1>5. timer1 = T1 \/ pc # "token"
  BY DEF Inv, Places
<1> QED
  BY <1>1, <1>2, <1>3, <1>4, <1>5, Bounds DEF Inv, Running

LEMMA CommandFields ==
  ASSUME cmd \in Commands
  PROVE  /\ cmd.op \in {"READ", "WRITE"} /\ cmd.lba \in 0 .. Cap /\ cmd.lba \in Nat
         /\ cmd.n \in 1 .. MaxLen /\ cmd.n \in Nat \ {0} /\ cmd.ver \in {0, 1}
         /\ cmd # NoCmd /\ cmd.n * PPB \in Nat \ {0} /\ cmd.n * PPB <= MaxLen * PPB
         /\ MaxLen * PPB \in Nat
<1>1. /\ cmd.op \in {"READ", "WRITE"} /\ cmd.lba \in 0 .. Cap /\ cmd.n \in 1 .. MaxLen
      /\ cmd.ver \in {0, 1}
  BY DEF Commands
<1>2. cmd.lba \in Nat /\ cmd.n \in Nat \ {0} /\ cmd.n \in Int /\ MaxLen \in Int /\ cmd.n <= MaxLen
  BY <1>1, Bounds
<1>3. cmd # NoCmd
  BY <1>1 DEF NoCmd
<1>4. cmd.n * PPB <= MaxLen * PPB
  BY <1>2, Bounds, Products
<1> QED
  BY <1>1, <1>2, <1>3, <1>4, Bounds, NoneOrAll

\* The next packet, in terms of blocks and packets.
LEMMA Counting ==
  ASSUME cmd \in Commands, len \in 1 .. cmd.n * PPB
  PROVE  /\ Sent \in Nat /\ Blk \in 0 .. cmd.n - 1 /\ Off \in 0 .. PPB - 1
         /\ Sent < PPB <=> Blk = 0
         /\ Sent + 1 = cmd.n * PPB - (len - 1) /\ len - 1 \in 0 .. cmd.n * PPB
         /\ Off = PPB - 1 =>
              /\ (Sent + 1) \div PPB = Blk + 1 /\ (Sent + 1) % PPB = 0
              /\ len = 1 <=> Blk = cmd.n - 1
         /\ Off # PPB - 1 =>
              /\ (Sent + 1) \div PPB = Blk /\ (Sent + 1) % PPB = Off + 1
              /\ len > 1
<1>1. cmd.n \in Nat \ {0} /\ PPB \in Nat \ {0} /\ Sent = cmd.n * PPB - len
  BY CommandFields, Bounds DEF Sent
<1>2. Blk = Sent \div PPB /\ Off = Sent % PPB
  BY DEF Blk, Off
<1> DEFINE n == cmd.n  s == Sent
<1>3. n \in Nat \ {0} /\ len \in 1 .. n * PPB /\ s = n * PPB - len
  BY <1>1
<1> HIDE DEF n, s
<1>4. /\ s \in Nat /\ s \div PPB \in 0 .. n - 1 /\ s % PPB \in 0 .. PPB - 1
      /\ n * PPB - (len - 1) = s + 1 /\ len - 1 \in 0 .. n * PPB
      /\ s < PPB <=> s \div PPB = 0
      /\ s % PPB = PPB - 1 =>
           /\ (s + 1) \div PPB = (s \div PPB) + 1 /\ (s + 1) % PPB = 0
           /\ len = 1 <=> s \div PPB = n - 1
      /\ s % PPB # PPB - 1 =>
           /\ (s + 1) \div PPB = s \div PPB /\ (s + 1) % PPB = (s % PPB) + 1
           /\ len > 1
  BY <1>1, <1>3, OneMore
<1> QED
  BY <1>2, <1>4 DEF n, s

\* At the beginning and at the end.
LEMMA Extremes ==
  ASSUME cmd \in Commands
  PROVE  /\ len = cmd.n * PPB => Sent = 0 /\ Blk = 0 /\ Off = 0
         /\ len = 0 => Sent = cmd.n * PPB /\ Blk = cmd.n /\ Off = 0
<1>1. cmd.n \in Nat \ {0} /\ PPB \in Nat \ {0}
  BY CommandFields, Bounds
<1> QED
  BY <1>1, NoneOrAll DEF Sent, Blk, Off

\* What a step in a command may change.
LEMMA TypesKept ==
  ASSUME Types, UNCHANGED <<kind, good, ctype, capacity, delay>>, busy' \in BOOLEAN,
         card' \in CardStates, Len(card'.buf) <= PPB,
         ofs' \in 0 .. Cap + MaxLen, len' \in 0 .. MaxLen * PPB, bct' \in 0 .. PPB,
         mbk' \in BOOLEAN, ok' \in BOOLEAN, residue' \in 0 .. MaxLen,
         sense' \in {"none", "reset", "nomedium", "range", "fault", "notready"},
         timer1' \in {0, T1, timer1}, timer2' \in {0, T2, timer2},
         pc' \in {"ready", "token", "idle", "halted"},
         got' \in Seq(Parts), Len(got') <= MaxLen * PPB, cmd' \in {cmd, NoCmd}
  PROVE  Types'
<1>1. card'.mode \in {"power", "tran", "csd", "read", "write", "deaf"} /\ card'.at \in Error .. PPB
  BY DEF CardStates
<1>2. timer1' \in 0 .. T1Open + T1 /\ timer2' \in 0 .. T2
  BY Bounds DEF Types, TypeOK
<1> QED
  BY <1>1, <1>2 DEF Types, TypeOK, CardOK

\* The address has the unit of the card.
LEMMA AddressRight ==
  ASSUME Addressing, NEW l \in Nat
  PROVE  BlockOf(Address(l)) = l
<1>1. (l * 512 + 0) \div 512 = l /\ (l * 512 + 0) % 512 = 0 /\ l * 512 + 0 = l * 512
  BY DivUnique
<1> QED
  BY <1>1 DEF BlockOf, Address, Addressing

-----------------------------------------------------------------------------
(* Reading                                                                 *)

LEMMA ReadCommandKeeps == Inv /\ ReadCommand => Inv'
<1> SUFFICES ASSUME Inv, ReadCommand PROVE Inv'
  OBVIOUS
<1>1. /\ UNCHANGED <<kind, good, busy, disk, ctype, capacity, ofs, len, bct, mbk, ok,
                     residue, sense, delay, timer2, cmd, got, abandoned>>
      /\ pc = "ready" /\ goal = "READ" /\ (~busy \/ timer2 = 0)
      /\ IF busy THEN UNCHANGED card ELSE card' \in Command("read", mbk, Address(ofs))
      /\ pc' = "token" /\ goal' = "first" /\ timer1' = T1
  BY DEF ReadCommand, Ready, WaitToken, DriverFrame, openVars, xferVars
<1>2. /\ ~Opening /\ ctype # "none" /\ Addressing /\ ~abandoned /\ cmd \in Commands
      /\ timer2 # 0 /\ cmd.op \in {"READ", "WRITE"}
      /\ cmd.op = "READ" => Reads
      /\ cmd.op = "WRITE" => Writes
  BY <1>1, Waiting DEF OpenGoals
<1>3. cmd.op = "READ" /\ Fresh /\ card \in Free
  BY <1>1, <1>2 DEF Reads, Writes, ReadAsked
<1>4. card' \in Free \/ (cmd.lba < Cap /\ card' = Stream("read", mbk, cmd.lba))
  <2>1. ofs = cmd.lba /\ cmd.lba \in Nat
    BY <1>2, <1>3, CommandFields DEF Fresh
  <2>2. BlockOf(Address(ofs)) = cmd.lba
    BY <1>2, <2>1, AddressRight
  <2>3. card' \in Command("read", mbk, Address(ofs))
    BY <1>1, <1>2
  <2>4. card' \in {card} \/ (~(cmd.lba >= Cap) /\ card' = Stream("read", mbk, cmd.lba))
    BY <2>2, <2>3 DEF Command
  <2> QED
    BY <1>3, <2>1, <2>4, Bounds
<1>5. mbk \in BOOLEAN /\ card' \in CardStates /\ card'.buf = << >> /\ cmd.lba \in Nat
  <2>1. mbk \in BOOLEAN /\ cmd.lba \in Nat
    BY <1>2, CommandFields DEF Inv, Types, TypeOK
  <2>2. card' \in Free => card' \in CardStates /\ card'.buf = << >>
    BY CardStreams DEF Free
  <2>3. card' = Stream("read", mbk, cmd.lba) => card' \in CardStates /\ card'.buf = << >>
    BY <2>1, CardStreams DEF Stream
  <2> QED
    BY <1>4, <2>1, <2>2, <2>3
<1>6. Types'
  <2>1. CardOK'
    BY <1>5 DEF CardOK
  <2>2. card'.mode \in {"power", "tran", "csd", "read", "write", "deaf"}
        /\ card'.at \in Error .. PPB /\ Len(card'.buf) <= PPB
    BY <1>5, Bounds DEF CardStates
  <2>3. T1 \in 0 .. T1Open + T1
    BY Bounds
  <2> QED
    BY <1>1, <2>1, <2>2, <2>3 DEF Inv, Types, TypeOK
<1>7. Places' /\ ~Opening' /\ DiskOK'
  BY <1>1 DEF Inv, Places, Opening, OpenGoals, DiskOK
<1>8. Opened'
  BY <1>1, <1>2, CommandFields DEF Opened, Addressing
<1>9. ReadOpens'
  <2>1. Fresh' /\ Blk' = 0
    BY <1>1, <1>2, <1>3, Extremes DEF Fresh, Blk, Sent
  <2>2. card' = Stream("read", mbk, cmd.lba) /\ cmd.lba < Cap => OnLine'
    <3>1. HAVE card' = Stream("read", mbk, cmd.lba) /\ cmd.lba < Cap
    <3>2. ReadCard(Gap)' = Stream("read", mbk, cmd.lba)
      BY <1>1, <1>5, <2>1 DEF ReadCard, At, Stream
    <3> QED
      BY <3>1, <3>2 DEF OnLine, Gap, Start
  <2> QED
    BY <1>4, <2>1, <2>2 DEF ReadOpens, Free
<1>10. (Running("READ") => Reads)' /\ (Running("WRITE") => Writes)'
  BY <1>1, <1>3, <1>9 DEF Running, Reads
<1> QED
  BY <1>2, <1>6, <1>7, <1>8, <1>10, CommandKeeps

\* The card has an answer: at a token of the block the driver asks for.
LEMMA TokenHere ==
  ASSUME OnLine, card.at # Gap
  PROVE  \/ card = ReadCard(Start) /\ Started /\ cmd.lba + Blk < Cap
         \/ card = ReadCard(Error) /\ ~Started /\ card.at = Error
<1>1. PICK a \in {Gap, Start, Error} : card = ReadCard(a) /\ (a = Start => cmd.lba + Blk < Cap)
  BY DEF OnLine
<1>2. card.at = a
  BY <1>1 DEF ReadCard, At
<1> QED
  BY <1>1, <1>2 DEF Started, Start, Error

LEMMA TokenRead ==
  ASSUME OnLine, card.at # Gap, CardOK
  PROVE  AfterPoll = IF Started THEN ReadCard(0) ELSE Deaf
<1>1. CASE Started
  <2>1. card = ReadCard(Start)
    BY <1>1, TokenHere
  <2>2. [card EXCEPT !.at = 0] = At(card, 0)
    BY AtIs DEF CardOK
  <2>3. At(ReadCard(Start), 0) = ReadCard(0)
    BY DEF At, ReadCard
  <2> QED
    BY <1>1, <2>1, <2>2, <2>3 DEF AfterPoll
<1>2. CASE ~Started
  BY <1>2, TokenHere DEF AfterPoll
<1> QED
  BY <1>1, <1>2

LEMMA ReadCards ==
  ASSUME cmd \in Commands, mbk \in BOOLEAN, Blk \in Nat, NEW a \in Error .. PPB
  PROVE  /\ ReadCard(a) \in CardStates /\ ReadCard(a).buf = << >> /\ ReadCard(a).at = a
         /\ ReadCard(a).mode = "read" /\ ReadCard(a).multi = mbk
         /\ ReadCard(a).pos = cmd.lba + Blk
<1>1. cmd.lba + Blk \in Nat
  BY CommandFields
<1>2. Stream("read", mbk, cmd.lba + Blk) \in CardStates
  BY <1>1, CardStreams
<1>3. ReadCard(a) \in CardStates
  BY <1>2, CardAt DEF ReadCard
<1> QED
  BY <1>3 DEF ReadCard, At, Stream

LEMMA ReadFirstKeeps == Inv /\ ReadFirst => Inv'
<1> SUFFICES ASSUME Inv, ReadFirst PROVE Inv'
  OBVIOUS
<1>1. /\ UNCHANGED <<kind, good, busy, disk, ctype, capacity, ofs, len, bct, mbk,
                     residue, delay, cmd, got, abandoned>>
      /\ pc = "token" /\ goal = "first" /\ (card.at # Gap \/ timer1 = 0)
      /\ card' = AfterPoll
      /\ IF Started
           THEN sense' = "none" /\ ok' = TRUE /\ pc' = "idle" /\ goal' = "none"
                /\ timer1' = 0 /\ timer2' = 0
           ELSE pc' = "halted" /\ UNCHANGED <<goal, sense, ok, timer1, timer2>>
  BY DEF ReadFirst, Token, Return, DriverFrame, openVars
<1>2. /\ ~Opening /\ ctype # "none" /\ Addressing /\ ~abandoned /\ cmd \in Commands
      /\ timer1 # 0 /\ cmd.op \in {"READ", "WRITE"}
      /\ cmd.op = "READ" => Reads
      /\ cmd.op = "WRITE" => Writes
  BY <1>1, Waiting DEF OpenGoals
<1>3. cmd.op = "READ" /\ Fresh /\ card.at # Gap /\ OnLine /\ card # Deaf
  BY <1>1, <1>2 DEF Reads, Writes, ReadOpens, Free, Resting, Deaf, Stream
<1>4. card' = IF Started THEN ReadCard(0) ELSE Deaf
  BY <1>1, <1>3, TokenRead DEF Inv, Types
<1>5. Sent = 0 /\ Blk = 0 /\ Off = 0
  BY <1>2, <1>3, Extremes DEF Fresh
<1>m. mbk \in BOOLEAN /\ 0 \in Error .. PPB /\ 0 \in Nat
  BY Bounds DEF Inv, Types, TypeOK, Error
<1>6. card' \in CardStates /\ card'.buf = << >>
  <2>1. ReadCard(0) \in CardStates /\ ReadCard(0).buf = << >>
    BY <1>2, <1>5, <1>m, ReadCards
  <2> QED
    BY <1>4, <2>1, CardStreams DEF Deaf, Stream
<1>7. Types'
  <2>1. Types /\ Len(card'.buf) <= PPB
    BY <1>6, Bounds DEF Inv
  <2>2. /\ busy' \in BOOLEAN /\ ofs' \in 0 .. Cap + MaxLen /\ len' \in 0 .. MaxLen * PPB
        /\ bct' \in 0 .. PPB /\ mbk' \in BOOLEAN /\ residue' \in 0 .. MaxLen
        /\ got' \in Seq(Parts) /\ Len(got') <= MaxLen * PPB
    BY <1>1, <2>1 DEF Types, TypeOK
  <2>3. /\ ok' \in BOOLEAN /\ pc' \in {"idle", "halted"}
        /\ timer1' \in {0, timer1} /\ timer2' \in {0, timer2}
        /\ sense' \in {"none", "reset", "nomedium", "range", "fault", "notready"}
    BY <1>1, <2>1 DEF Types, TypeOK
  <2> QED
    BY <1>1, <1>6, <2>1, <2>2, <2>3, TypesKept
<1>8. Places' /\ ~Opening' /\ DiskOK'
  BY <1>1 DEF Inv, Places, Opening, OpenGoals, DiskOK
<1>9. Opened'
  BY <1>1, <1>2, CommandFields DEF Opened, Addressing
<1>10. ~Started => pc' = "halted"
  BY <1>1
<1>11. Started => ReadGoes'
  <2>1. HAVE Started
  <2>2. Sent' = 0 /\ Blk' = 0 /\ Off' = 0 /\ UNCHANGED <<Sent, Blk, Off>>
    BY <1>1, <1>5 DEF Sent, Blk, Off
  <2>3. len = cmd.n * PPB /\ ofs = cmd.lba /\ bct = PPB /\ residue = cmd.n /\ got = << >>
        /\ mbk = (cmd.n > 1)
    BY <1>3 DEF Fresh
  <2>4. /\ cmd.n * PPB \in Nat \ {0} /\ cmd.n * PPB \in 0 .. cmd.n * PPB
        /\ cmd.lba + 0 = cmd.lba /\ cmd.n - 0 = cmd.n /\ PPB - 0 = PPB
    BY <1>2, CommandFields, Bounds
  <2>5. Moving' /\ len' > 0
    BY <1>1, <2>1, <2>2, <2>3, <2>4 DEF Moving
  <2>6. Delivered'
    BY <1>1, <2>2, <2>3 DEF Delivered
  <2>7. Owed(cmd.n - Blk)'
    BY <1>1, <1>2, <2>2, <2>3, <2>4, CommandFields DEF Owed
  <2>8. card' = ReadCard(Off)' /\ cmd'.lba + Blk' < Cap
    <3>1. ReadCard(0)' = ReadCard(0)
      BY <1>1, <2>2 DEF ReadCard, At
    <3>2. cmd.lba + Blk < Cap
      BY <1>3, <2>1, TokenHere
    <3> QED
      BY <1>1, <1>4, <2>1, <2>2, <3>1, <3>2
  <2> QED
    BY <2>5, <2>6, <2>7, <2>8 DEF ReadGoes
<1>12. (Running("READ") => Reads)' /\ (Running("WRITE") => Writes)'
  BY <1>1, <1>3, <1>10, <1>11 DEF Running, Reads
<1> QED
  BY <1>2, <1>7, <1>8, <1>9, <1>12, CommandKeeps

\* The parts on the card.
LEMMA DiskParts ==
  ASSUME DiskOK, NEW b \in Blocks, NEW k \in 1 .. PPB
  PROVE  disk[b][k] \in Parts
<1>1. PICK v \in {0, 1} : disk[b] = Content(v, b)
  BY DEF DiskOK
<1>2. disk[b][k] = Part(v, b, k)
  BY <1>1 DEF Content
<1>3. b \in Nat
  BY Bounds DEF Blocks
<1> QED
  BY <1>2, <1>3 DEF Part, Parts

\* A packet read from a card that is in step, and from a deaf one.
LEMMA PacketRead ==
  ASSUME CardOK, DiskOK, cmd \in Commands, mbk \in BOOLEAN, Blk \in Nat, Off \in 0 .. PPB - 1
  PROVE  /\ card = ReadCard(Off) /\ cmd.lba + Blk < Cap =>
              /\ Received = disk[cmd.lba + Blk][1 + Off] /\ Received \in Parts
              /\ AfterPart(card) = ReadCard(Off + 1)
         /\ AfterCrc(ReadCard(PPB)) =
              IF mbk THEN Stream("read", mbk, cmd.lba + (Blk + 1)) ELSE Resting
         /\ AfterPart(Deaf) = Deaf /\ AfterCrc(Deaf) = Deaf
         /\ card = Deaf => Received \in Parts
<1>1. /\ cmd.lba \in Nat /\ PPB \in Nat \ {0} /\ cmd.lba + Blk \in Nat /\ Off \in Nat
      /\ Off \in Error .. PPB /\ PPB \in Error .. PPB
  BY CommandFields, Bounds DEF Error
<1>2. /\ ReadCard(Off) \in CardStates /\ ReadCard(Off).at = Off
      /\ ReadCard(Off).mode = "read" /\ ReadCard(Off).multi = mbk
      /\ ReadCard(Off).pos = cmd.lba + Blk
  BY <1>1, ReadCards
<1>3. ASSUME card = ReadCard(Off), cmd.lba + Blk < Cap
      PROVE  Received = disk[cmd.lba + Blk][1 + Off] /\ AfterPart(card) = ReadCard(Off + 1)
  <2>1. Streaming /\ card.at < PPB
    BY <1>1, <1>2, <1>3 DEF Streaming
  <2>2. Received = disk[cmd.lba + Blk][1 + Off]
    <3>1. Received = disk[card.pos][card.at + 1]
      BY <2>1 DEF Received
    <3>2. card.at + 1 = 1 + Off
      BY <1>1, <1>2, <1>3
    <3> QED
      BY <1>2, <1>3, <3>1, <3>2
  <2>3. AfterPart(card) = [card EXCEPT !.at = Off + 1]
    BY <1>1, <1>2, <1>3 DEF AfterPart
  <2>4. [card EXCEPT !.at = Off + 1] = At(card, Off + 1)
    BY AtIs DEF CardOK
  <2>5. At(card, Off + 1) = ReadCard(Off + 1)
    BY <1>3 DEF At, ReadCard
  <2> QED
    BY <2>2, <2>3, <2>4, <2>5
<1>4. card = ReadCard(Off) /\ cmd.lba + Blk < Cap => disk[cmd.lba + Blk][1 + Off] \in Parts
  <2>1. cmd.lba + Blk < Cap => cmd.lba + Blk \in Blocks
    BY <1>1, Bounds DEF Blocks
  <2>2. 1 + Off \in 1 .. PPB
    BY <1>1
  <2> QED
    BY <2>1, <2>2, DiskParts
<1>5. AfterCrc(ReadCard(PPB)) =
        IF mbk THEN Stream("read", mbk, cmd.lba + (Blk + 1)) ELSE Resting
  <2> DEFINE c == ReadCard(PPB)
  <2>1. /\ c.mode = "read" /\ c.at = PPB /\ c.multi = mbk /\ c.pos = cmd.lba + Blk
        /\ c.buf = << >> /\ c \in CardStates
    BY <1>1, ReadCards
  <2> HIDE DEF c
  <2>2. [c EXCEPT !.pos = @ + 1, !.at = Gap] =
          [mode |-> c.mode, multi |-> c.multi, pos |-> c.pos + 1, at |-> Gap, buf |-> c.buf]
    <3> DEFINE d == [c EXCEPT !.pos = @ + 1]
    <3>1. d \in CardStates /\ d.mode = c.mode /\ d.multi = c.multi /\ d.pos = c.pos + 1
          /\ d.buf = c.buf
      BY <2>1 DEF CardStates
    <3>2. [c EXCEPT !.pos = @ + 1, !.at = Gap] = [d EXCEPT !.at = Gap]
      OBVIOUS
    <3> HIDE DEF d
    <3>3. [d EXCEPT !.at = Gap] = At(d, Gap)
      BY <3>1, AtIs
    <3> QED
      BY <3>1, <3>2, <3>3 DEF At
  <2>3. (cmd.lba + Blk) + 1 = cmd.lba + (Blk + 1)
    BY <1>1
  <2>4. AfterCrc(c) = IF mbk THEN Stream("read", mbk, cmd.lba + (Blk + 1)) ELSE Resting
    BY <2>1, <2>2, <2>3 DEF AfterCrc, Stream
  <2> QED
    BY <2>4 DEF c
<1>6. AfterPart(Deaf) = Deaf /\ AfterCrc(Deaf) = Deaf
  BY CardStreams DEF AfterPart, AfterCrc
<1>7. card = Deaf => Received \in Parts
  BY CardStreams DEF Received, Streaming, Parts, Part
<1> QED
  BY <1>3, <1>4, <1>5, <1>6, <1>7

\* One packet more has been delivered.
LEMMA OneDelivered ==
  ASSUME cmd \in Commands, len \in 1 .. cmd.n * PPB, Delivered, got \in Seq(Parts),
         NEW x \in Parts, got' = Append(got, x), len' = len - 1, disk' = disk,
         sense' = "none" => sense = "none",
         sense' = "none" => x = disk[cmd.lba + Blk][1 + Off]
  PROVE  /\ got' \in Seq(Parts) /\ Len(got') = Sent + 1
         /\ sense' = "none" =>
              \A i \in 1 .. Len(got') :
                got'[i] = disk[cmd.lba + (i - 1) \div PPB][1 + ((i - 1) % PPB)]
         /\ cmd' = cmd => Delivered'
<1>1. Sent + 1 = cmd.n * PPB - (len - 1) /\ Sent \in Nat /\ Len(got) = Sent
  BY Counting DEF Delivered
<1>s. cmd' = cmd => Sent' = Sent + 1
  BY <1>1 DEF Sent
<1>2. /\ got' \in Seq(Parts) /\ Len(got') = Sent + 1
      /\ \A i \in 1 .. Sent : got'[i] = got[i]
      /\ got'[Sent + 1] = x
  BY <1>1
<1>3. ASSUME sense' = "none", NEW i \in 1 .. Len(got')
      PROVE  got'[i] = disk[cmd.lba + (i - 1) \div PPB][1 + ((i - 1) % PPB)]
  <2>1. CASE i = Sent + 1
    <3>1. i - 1 = Sent
      BY <1>1, <2>1
    <3>2. (i - 1) \div PPB = Blk /\ (i - 1) % PPB = Off
      BY <3>1 DEF Blk, Off
    <3> QED
      BY <1>2, <1>3, <2>1, <3>2
  <2>2. CASE i # Sent + 1
    <3>1. i \in 1 .. Sent
      BY <1>1, <1>2, <2>2
    <3> QED
      BY <1>1, <1>2, <1>3, <3>1 DEF Delivered
  <2> QED
    BY <2>1, <2>2
<1> QED
  BY <1>2, <1>3, <1>s DEF Delivered

\* A packet read: the last one, the last one of a block, any other.
LEMMA ReadStep ==
  ASSUME Inv, Read
  PROVE  /\ UNCHANGED <<kind, good, busy, disk, ctype, capacity, mbk, ok, delay, abandoned>>
         /\ pc = "idle" /\ cmd.op = "READ" /\ cmd \in Commands /\ ~abandoned
         /\ ~Opening /\ Opened
         /\ len' = len - 1
         /\ sense' \in {"none", "reset", "nomedium", "range", "fault", "notready"}
         /\ sense' = "none" => sense = "none"
         /\ got' = Append(got, IF ok THEN Received ELSE Part(None, 0, 0))
         /\ len = 1 => /\ UNCHANGED <<bct, ofs>>
                       /\ card' = AfterCrc(IF ok THEN AfterPart(card) ELSE card)
         /\ len = 1 /\ mbk => /\ pc' = "ready" /\ goal' = "CMD12" /\ timer2' = T2
                              /\ UNCHANGED <<residue, timer1, cmd>>
         /\ len = 1 /\ ~mbk => /\ pc' = "idle" /\ timer1' = 0 /\ timer2' = 0 /\ cmd' = NoCmd
                               /\ residue' = IF sense' = "none" THEN residue - 1 ELSE residue
         /\ len # 1 => UNCHANGED <<residue, cmd>>
         /\ len # 1 /\ mbk /\ bct = 1 =>
              /\ bct' = PPB /\ ofs' = ofs + 1 /\ pc' = "token" /\ goal' = "next"
              /\ timer1' = T1 /\ timer2' = timer2
              /\ card' = AfterCrc(IF ok THEN AfterPart(card) ELSE card)
         /\ len # 1 /\ ~(mbk /\ bct = 1) =>
              /\ bct' = (IF mbk THEN bct - 1 ELSE bct) /\ UNCHANGED ofs
              /\ pc' = "idle" /\ timer1' = 0 /\ timer2' = 0
              /\ card' = IF ok THEN AfterPart(card) ELSE card
<1>1. /\ UNCHANGED <<kind, good, busy, disk, ctype, capacity, mbk, ok, delay, abandoned>>
      /\ pc = "idle" /\ cmd.op = "READ" /\ len' = len - 1 /\ sense' = InRange(sense)
      /\ got' = Append(got, IF ok THEN Received ELSE Part(None, 0, 0))
  BY DEF Read, DriverFrame, openVars
<1>2. ~Opening /\ Opened
  BY <1>1 DEF Inv, Opening
<1>3. cmd # NoCmd
  BY <1>1 DEF NoCmd
<1>4. cmd \in Commands /\ ~abandoned
  BY <1>2, <1>3 DEF Inv, Types, TypeOK, Opened
<1>5. sense' \in {"none", "reset", "nomedium", "range", "fault", "notready"}
      /\ (sense' = "none" => sense = "none")
  BY <1>1 DEF InRange, Inv, Types, TypeOK
<1>6. CASE len = 1
  BY <1>1, <1>2, <1>4, <1>5, <1>6
  DEF Read, ReceivedBy, Return, WaitReady, Done, DecResidue
<1>7. CASE len # 1 /\ mbk /\ bct = 1
  BY <1>1, <1>2, <1>4, <1>5, <1>7 DEF Read, ReceivedBy, WaitToken
<1>8. CASE len # 1 /\ ~(mbk /\ bct = 1)
  BY <1>1, <1>2, <1>4, <1>5, <1>8 DEF Read, ReceivedBy, Return
<1> QED
  BY <1>6, <1>7, <1>8

\* Without a card the host gets its packets, and sense data.
LEMMA ReadUnserved == Inv /\ Read /\ ctype = "none" => Inv'
<1> SUFFICES ASSUME Inv, Read, ctype = "none" PROVE Inv'
  OBVIOUS
<1>1. /\ UNCHANGED <<kind, good, busy, disk, ctype, capacity, mbk, ok, delay, abandoned>>
      /\ pc = "idle" /\ cmd.op = "READ" /\ cmd \in Commands /\ ~abandoned
      /\ ~Opening /\ Opened
      /\ len' = len - 1
      /\ sense' \in {"none", "reset", "nomedium", "range", "fault", "notready"}
      /\ sense' = "none" => sense = "none"
      /\ got' = Append(got, IF ok THEN Received ELSE Part(None, 0, 0))
  BY ReadStep
<1>2. /\ ~ok /\ ~mbk /\ sense # "none" /\ card \in {Power, Resting}
      /\ len \in 1 .. cmd.n * PPB /\ Len(got) = cmd.n * PPB - len
  BY <1>1, CommandFields DEF Opened
<1>3. card' = card
  <2>1. AfterCrc(card) = card
    BY <1>2 DEF AfterCrc, Power, Resting, Stream
  <2> QED
    BY <1>2, <2>1, ReadStep
<1>4. /\ UNCHANGED <<bct, ofs, residue>> /\ pc' = "idle" /\ timer1' = 0 /\ timer2' = 0
      /\ sense' # "none"
      /\ cmd' = IF len = 1 THEN NoCmd ELSE cmd
  BY <1>1, <1>2, ReadStep
<1>5. cmd.n * PPB \in Nat /\ cmd.n * PPB <= MaxLen * PPB /\ MaxLen * PPB \in Nat
  BY <1>1, CommandFields
<1>6. got' \in Seq(Parts) /\ Len(got') = Len(got) + 1
  <2>1. Part(None, 0, 0) \in Parts
    BY DEF Parts
  <2>2. got \in Seq(Parts) /\ got' = Append(got, Part(None, 0, 0))
    BY <1>1, <1>2 DEF Inv, Types, TypeOK
  <2> QED
    BY <2>1, <2>2
<1>7. Types'
  <2>1. len' \in 0 .. MaxLen * PPB /\ Len(got') <= MaxLen * PPB
    <3> DEFINE a == cmd.n * PPB  b == MaxLen * PPB
    <3>1. a \in Nat /\ b \in Nat /\ a <= b /\ len \in 1 .. a /\ Len(got') = a - len + 1
          /\ len' = len - 1
      BY <1>1, <1>2, <1>5, <1>6
    <3> HIDE DEF a, b
    <3>2. len' \in 0 .. b /\ Len(got') <= b
      BY <3>1
    <3> QED
      BY <3>2 DEF b
  <2>2. card' \in CardStates /\ Len(card'.buf) <= PPB
    BY <1>3 DEF Inv, Types, TypeOK, CardOK
  <2>3. Types
    BY DEF Inv
  <2>4. /\ busy' \in BOOLEAN /\ ofs' \in 0 .. Cap + MaxLen /\ bct' \in 0 .. PPB
        /\ mbk' \in BOOLEAN /\ ok' \in BOOLEAN /\ residue' \in 0 .. MaxLen
    BY <1>1, <1>4, <2>3 DEF Types, TypeOK
  <2> QED
    BY <1>1, <1>4, <1>6, <2>1, <2>2, <2>3, <2>4, TypesKept
<1>8. Places' /\ ~Opening' /\ DiskOK'
  BY <1>1, <1>4 DEF Inv, Places, Opening, DiskOK
<1>9. Opened'
  <2>1. len # 1 => len' \in 1 .. cmd.n * PPB /\ Len(got') = cmd.n * PPB - len'
    <3> DEFINE a == cmd.n * PPB
    <3>1. a \in Nat /\ len \in 1 .. a /\ Len(got') = a - len + 1 /\ len' = len - 1
      BY <1>1, <1>2, <1>5, <1>6
    <3> HIDE DEF a
    <3>2. len # 1 => len' \in 1 .. a /\ Len(got') = a - len'
      BY <3>1
    <3> QED
      BY <3>2 DEF a
  <2>2. len # 1 => cmd' = cmd
    BY <1>4
  <2>3. len = 1 => cmd' = NoCmd
    BY <1>4
  <2> QED
    BY <1>1, <1>2, <1>3, <1>4, <2>1, <2>2, <2>3 DEF Opened
<1>10. ~Running("READ")' /\ ~Running("WRITE")'
  BY <1>1 DEF Running
<1> QED
  BY <1>1, <1>7, <1>8, <1>9, <1>10, CommandKeeps

\* Before and after a packet is read from a card.
LEMMA ReadBase ==
  ASSUME Inv, Read, ctype # "none"
  PROVE  /\ mbk = (cmd.n > 1) /\ len \in 1 .. cmd.n * PPB
         /\ ofs = cmd.lba + Blk /\ bct = IF mbk THEN PPB - Off ELSE PPB
         /\ Owed(cmd.n - Blk) /\ ok
         /\ (card = ReadCard(Off) /\ cmd.lba + Blk < Cap) \/ (card = Deaf /\ mbk /\ sense # "none")
         /\ Sent \in Nat /\ Blk \in 0 .. cmd.n - 1 /\ Off \in 0 .. PPB - 1
         /\ Sent + 1 = cmd.n * PPB - (len - 1) /\ len - 1 \in 0 .. cmd.n * PPB
         /\ Off = PPB - 1 =>
              /\ (Sent + 1) \div PPB = Blk + 1 /\ (Sent + 1) % PPB = 0
              /\ len = 1 <=> Blk = cmd.n - 1
         /\ Off # PPB - 1 =>
              /\ (Sent + 1) \div PPB = Blk /\ (Sent + 1) % PPB = Off + 1
              /\ len > 1
         /\ card = ReadCard(Off) /\ cmd.lba + Blk < Cap => AfterPart(card) = ReadCard(Off + 1)
         /\ AfterCrc(ReadCard(PPB)) =
              IF mbk THEN Stream("read", mbk, cmd.lba + (Blk + 1)) ELSE Resting
         /\ AfterPart(Deaf) = Deaf /\ AfterCrc(Deaf) = Deaf
         /\ got' \in Seq(Parts) /\ Len(got') = Sent + 1 /\ Sent + 1 <= MaxLen * PPB
         /\ cmd' = cmd => Delivered'
         /\ sense' = "none" =>
              \A i \in 1 .. Len(got') :
                got'[i] = disk[cmd.lba + (i - 1) \div PPB][1 + ((i - 1) % PPB)]
<1>1. /\ UNCHANGED <<kind, good, busy, disk, ctype, capacity, mbk, ok, delay, abandoned>>
      /\ pc = "idle" /\ cmd.op = "READ" /\ cmd \in Commands /\ ~abandoned
      /\ ~Opening /\ Opened
      /\ len' = len - 1
      /\ sense' \in {"none", "reset", "nomedium", "range", "fault", "notready"}
      /\ sense' = "none" => sense = "none"
      /\ got' = Append(got, IF ok THEN Received ELSE Part(None, 0, 0))
  BY ReadStep
<1>2. ReadGoes
  BY <1>1 DEF Inv, Running, Reads
<1>3. /\ ok /\ mbk = (cmd.n > 1) /\ len \in 1 .. cmd.n * PPB
      /\ ofs = cmd.lba + Blk /\ bct = IF mbk THEN PPB - Off ELSE PPB
      /\ Delivered /\ Owed(cmd.n - Blk)
      /\ (card = ReadCard(Off) /\ cmd.lba + Blk < Cap) \/ (card = Deaf /\ mbk /\ sense # "none")
  <2>1. ok /\ mbk = (cmd.n > 1) /\ len \in 0 .. cmd.n * PPB /\ len > 0
    BY <1>2 DEF ReadGoes, Moving
  <2>2. len \in 1 .. cmd.n * PPB
    <3>1. \A a \in Int : len \in 0 .. a /\ len > 0 => len \in 1 .. a
      OBVIOUS
    <3> QED
      BY <1>1, <2>1, <3>1, CommandFields
  <2> QED
    BY <1>2, <2>1, <2>2 DEF ReadGoes, Moving
<1>4. /\ Sent \in Nat /\ Blk \in 0 .. cmd.n - 1 /\ Off \in 0 .. PPB - 1
      /\ Sent + 1 = cmd.n * PPB - (len - 1) /\ len - 1 \in 0 .. cmd.n * PPB
      /\ Off = PPB - 1 =>
           /\ (Sent + 1) \div PPB = Blk + 1 /\ (Sent + 1) % PPB = 0
           /\ len = 1 <=> Blk = cmd.n - 1
      /\ Off # PPB - 1 =>
           /\ (Sent + 1) \div PPB = Blk /\ (Sent + 1) % PPB = Off + 1
           /\ len > 1
  BY <1>1, <1>3, Counting
<1>f. /\ cmd.n \in 1 .. MaxLen /\ cmd.lba \in 0 .. Cap /\ cmd.n * PPB \in Nat
      /\ cmd.n * PPB <= MaxLen * PPB /\ MaxLen * PPB \in Nat /\ PPB \in Nat \ {0}
      /\ mbk \in BOOLEAN /\ Types /\ Cap \in Nat /\ MaxLen \in Nat
  BY <1>1, CommandFields, Bounds DEF Inv, Types, TypeOK
<1>p. /\ card = ReadCard(Off) /\ cmd.lba + Blk < Cap =>
           /\ Received = disk[cmd.lba + Blk][1 + Off] /\ Received \in Parts
           /\ AfterPart(card) = ReadCard(Off + 1)
      /\ AfterCrc(ReadCard(PPB)) =
           IF mbk THEN Stream("read", mbk, cmd.lba + (Blk + 1)) ELSE Resting
      /\ AfterPart(Deaf) = Deaf /\ AfterCrc(Deaf) = Deaf
      /\ card = Deaf => Received \in Parts
  <2>1. CardOK /\ DiskOK /\ Blk \in Nat
    BY <1>4, <1>f DEF Inv, Types
  <2> QED
    BY <1>1, <1>4, <1>f, <2>1, PacketRead
<1>g. /\ got' = Append(got, Received) /\ Received \in Parts /\ got \in Seq(Parts)
      /\ sense' = "none" => Received = disk[cmd.lba + Blk][1 + Off]
  BY <1>1, <1>3, <1>f, <1>p DEF Types, TypeOK
<1>5. /\ got' \in Seq(Parts) /\ Len(got') = Sent + 1
      /\ cmd' = cmd => Delivered'
      /\ sense' = "none" =>
           \A i \in 1 .. Len(got') :
             got'[i] = disk[cmd.lba + (i - 1) \div PPB][1 + ((i - 1) % PPB)]
      /\ Sent + 1 <= MaxLen * PPB
  <2>1. got' \in Seq(Parts) /\ Len(got') = Sent + 1
    BY <1>3, <1>4, <1>g DEF Delivered
  <2>2. /\ cmd' = cmd => Delivered'
        /\ sense' = "none" =>
             \A i \in 1 .. Len(got') :
               got'[i] = disk[cmd.lba + (i - 1) \div PPB][1 + ((i - 1) % PPB)]
    BY <1>1, <1>3, <1>g, OneDelivered
  <2>3. Sent + 1 <= MaxLen * PPB
    <3> DEFINE a == cmd.n * PPB  b == MaxLen * PPB
    <3>1. a \in Nat /\ b \in Nat /\ a <= b /\ Sent + 1 = a - (len - 1) /\ len \in 1 .. a
      BY <1>3, <1>4, <1>f
    <3> HIDE DEF a, b
    <3>2. Sent + 1 <= b
      BY <3>1
    <3> QED
      BY <3>2 DEF b
  <2> QED
    BY <2>1, <2>2, <2>3
<1> QED
  BY <1>3, <1>4, <1>p, <1>5

\* With a card the driver and the card get on together.
LEMMA ReadServed == Inv /\ Read /\ ctype # "none" => Inv'
<1> SUFFICES ASSUME Inv, Read, ctype # "none" PROVE Inv'
  OBVIOUS
<1>1. /\ UNCHANGED <<kind, good, busy, disk, ctype, capacity, mbk, ok, delay, abandoned>>
      /\ pc = "idle" /\ cmd.op = "READ" /\ cmd \in Commands /\ ~abandoned
      /\ ~Opening /\ Opened
      /\ len' = len - 1
      /\ sense' \in {"none", "reset", "nomedium", "range", "fault", "notready"}
      /\ sense' = "none" => sense = "none"
      /\ got' = Append(got, IF ok THEN Received ELSE Part(None, 0, 0))
  BY ReadStep
<1>3. /\ ok /\ mbk = (cmd.n > 1) /\ len \in 1 .. cmd.n * PPB
      /\ ofs = cmd.lba + Blk /\ bct = IF mbk THEN PPB - Off ELSE PPB
      /\ Owed(cmd.n - Blk)
      /\ (card = ReadCard(Off) /\ cmd.lba + Blk < Cap) \/ (card = Deaf /\ mbk /\ sense # "none")
  BY ReadBase
<1>4. /\ Sent \in Nat /\ Blk \in 0 .. cmd.n - 1 /\ Off \in 0 .. PPB - 1
      /\ Sent + 1 = cmd.n * PPB - (len - 1) /\ len - 1 \in 0 .. cmd.n * PPB
      /\ Off = PPB - 1 =>
           /\ (Sent + 1) \div PPB = Blk + 1 /\ (Sent + 1) % PPB = 0
           /\ len = 1 <=> Blk = cmd.n - 1
      /\ Off # PPB - 1 =>
           /\ (Sent + 1) \div PPB = Blk /\ (Sent + 1) % PPB = Off + 1
           /\ len > 1
  BY ReadBase
<1>f. /\ cmd.n \in 1 .. MaxLen /\ cmd.lba \in 0 .. Cap /\ cmd.n * PPB \in Nat
      /\ cmd.n * PPB <= MaxLen * PPB /\ MaxLen * PPB \in Nat /\ PPB \in Nat \ {0}
      /\ mbk \in BOOLEAN /\ Types /\ Cap \in Nat /\ MaxLen \in Nat
  BY <1>1, CommandFields, Bounds DEF Inv, Types, TypeOK
<1>p. /\ card = ReadCard(Off) /\ cmd.lba + Blk < Cap => AfterPart(card) = ReadCard(Off + 1)
      /\ AfterCrc(ReadCard(PPB)) =
           IF mbk THEN Stream("read", mbk, cmd.lba + (Blk + 1)) ELSE Resting
      /\ AfterPart(Deaf) = Deaf /\ AfterCrc(Deaf) = Deaf
  BY ReadBase
<1>5. /\ got' \in Seq(Parts) /\ Len(got') = Sent + 1 /\ Sent + 1 <= MaxLen * PPB
      /\ cmd' = cmd => Delivered'
  BY ReadBase
<1>l. len' \in 0 .. MaxLen * PPB
  <2> DEFINE a == cmd.n * PPB  b == MaxLen * PPB
  <2>1. a \in Nat /\ b \in Nat /\ a <= b /\ len' = len - 1 /\ len \in 1 .. a
    BY <1>1, <1>3, <1>f
  <2> HIDE DEF a, b
  <2>2. len' \in 0 .. b
    BY <2>1
  <2> QED
    BY <2>2 DEF b
<1>k. len # 1 => len' \in 0 .. cmd.n * PPB /\ len' > 0
  <2> DEFINE a == cmd.n * PPB
  <2>1. a \in Nat /\ len' = len - 1 /\ len \in 1 .. a
    BY <1>1, <1>3, <1>f
  <2> HIDE DEF a
  <2>2. len # 1 => len' \in 0 .. a /\ len' > 0
    BY <2>1
  <2> QED
    BY <2>2 DEF a
<1>d. \A a : ReadCard(a) # Deaf
  BY DEF ReadCard, Deaf, At, Stream
<1>s. cmd' = cmd => /\ Sent' = Sent + 1
                    /\ Blk' = (Sent + 1) \div PPB /\ Off' = (Sent + 1) % PPB
  BY <1>1, <1>4 DEF Sent, Blk, Off
<1>c. /\ \A a \in Error .. PPB : ReadCard(a) \in CardStates /\ ReadCard(a).buf = << >>
      /\ Stream("read", mbk, cmd.lba + (Blk + 1)) \in CardStates
      /\ Stream("read", mbk, cmd.lba + (Blk + 1)).buf = << >>
      /\ Resting \in CardStates /\ Deaf \in CardStates /\ Resting.buf = << >> /\ Deaf.buf = << >>
  <2>1. \A a \in Error .. PPB : ReadCard(a) \in CardStates /\ ReadCard(a).buf = << >>
    BY <1>1, <1>4, <1>f, ReadCards
  <2>2. cmd.lba + (Blk + 1) \in Nat
    BY <1>4, <1>f
  <2> QED
    BY <1>f, <2>1, <2>2, CardStreams DEF Stream
<1>i. \A m \in {card', card} : m.buf = << >> => Len(m.buf) <= PPB
  BY <1>f
<1>6. CASE Off # PPB - 1
  <2>1. len # 1 /\ ~(mbk /\ bct = 1)
    BY <1>3, <1>4, <1>6, <1>f
  <2>2. /\ UNCHANGED <<residue, cmd, ofs>> /\ bct' = (IF mbk THEN bct - 1 ELSE bct)
        /\ pc' = "idle" /\ timer1' = 0 /\ timer2' = 0
        /\ card' = AfterPart(card)
    BY <1>3, <2>1, ReadStep
  <2>3. Sent' = Sent + 1 /\ Blk' = Blk /\ Off' = Off + 1 /\ len > 1
    BY <1>4, <1>6, <1>s, <2>2
  <2>4. card' = IF card = Deaf THEN Deaf ELSE ReadCard(Off + 1)
    BY <1>3, <1>d, <1>p, <2>2
  <2>5. card' \in CardStates /\ card'.buf = << >>
    <3>1. Off + 1 \in Error .. PPB
      BY <1>4, <1>f DEF Error
    <3> QED
      BY <1>c, <2>4, <3>1
  <2>6. Types'
    <3>1. bct' \in 0 .. PPB
      BY <1>3, <1>4, <1>f, <2>2
    <3>2. /\ busy' \in BOOLEAN /\ ofs' \in 0 .. Cap + MaxLen
          /\ mbk' \in BOOLEAN /\ ok' \in BOOLEAN /\ residue' \in 0 .. MaxLen
      BY <1>1, <1>f, <2>2 DEF Types, TypeOK
    <3>3. Len(card'.buf) <= PPB
      BY <1>i, <2>5
    <3>4. Len(got') <= MaxLen * PPB
      BY <1>5
    <3> QED
      BY <1>1, <1>5, <1>f, <1>l, <2>2, <2>5, <3>1, <3>2, <3>3, <3>4, TypesKept
  <2>7. Places' /\ ~Opening' /\ DiskOK'
    BY <1>1, <2>2 DEF Inv, Places, Opening, DiskOK
  <2>8. Opened'
    BY <1>1, <2>2, CommandFields DEF Opened, Addressing
  <2>9. ReadGoes'
    <3>1. Moving' /\ len' > 0
      <4>1. len' \in 0 .. cmd.n * PPB /\ len' > 0
        BY <1>k, <2>3
      <4>2. bct' = IF mbk THEN PPB - (Off + 1) ELSE PPB
        BY <1>3, <1>4, <1>f, <2>2
      <4> QED
        BY <1>1, <1>3, <2>2, <2>3, <4>1, <4>2 DEF Moving
    <3>2. Delivered'
      BY <1>5, <2>2
    <3>3. Owed(cmd.n - Blk)'
      BY <1>1, <1>3, <2>2, <2>3 DEF Owed
    <3>4. \/ card' = ReadCard(Off)' /\ cmd'.lba + Blk' < Cap
          \/ card' = Deaf /\ mbk' /\ sense' # "none"
      <4>1. ReadCard(Off)' = ReadCard(Off + 1)
        BY <1>1, <2>2, <2>3 DEF ReadCard, At
      <4> QED
        BY <1>1, <1>3, <1>d, <2>2, <2>3, <2>4, <4>1
    <3> QED
      BY <3>1, <3>2, <3>3, <3>4 DEF ReadGoes
  <2>10. (Running("READ") => Reads)' /\ (Running("WRITE") => Writes)'
    BY <1>1, <2>2, <2>9 DEF Running, Reads
  <2> QED
    BY <1>1, <2>6, <2>7, <2>8, <2>10, CommandKeeps
<1>7. CASE Off = PPB - 1 /\ len # 1
  <2>1. Blk \in 0 .. cmd.n - 2 /\ cmd.n > 1 /\ mbk /\ bct = 1
    <3>1. cmd.n \in Nat /\ Blk \in 0 .. cmd.n - 1 /\ Blk # cmd.n - 1
      BY <1>4, <1>7, <1>f
    <3>2. Blk \in 0 .. cmd.n - 2 /\ cmd.n > 1
      BY <3>1
    <3>3. mbk
      BY <1>3, <3>2
    <3>4. bct = PPB - (PPB - 1)
      BY <1>3, <1>7, <3>3
    <3> QED
      BY <1>f, <3>2, <3>3, <3>4
  <2>2. /\ UNCHANGED <<residue, cmd>> /\ bct' = PPB /\ ofs' = ofs + 1 /\ pc' = "token"
        /\ goal' = "next" /\ timer1' = T1 /\ timer2' = timer2
        /\ card' = AfterCrc(AfterPart(card))
    BY <1>3, <1>7, <2>1, ReadStep
  <2>3. Sent' = Sent + 1 /\ Blk' = Blk + 1 /\ Off' = 0 /\ len > 1
    BY <1>3, <1>4, <1>7, <1>s, <1>f, <2>2
  <2>4. card' = IF card = Deaf THEN Deaf ELSE Stream("read", mbk, cmd.lba + (Blk + 1))
    <3>1. Off + 1 = PPB
      BY <1>7, <1>f
    <3>2. card = Deaf => card' = Deaf
      BY <1>p, <2>2
    <3>3. card # Deaf => AfterPart(card) = ReadCard(PPB)
      BY <1>3, <1>p, <3>1
    <3> QED
      BY <1>p, <2>1, <2>2, <3>2, <3>3
  <2>5. card' \in CardStates /\ card'.buf = << >>
    BY <1>c, <2>4
  <2>6. Types'
    <3>1. bct' \in 0 .. PPB /\ ofs' \in 0 .. Cap + MaxLen
      BY <1>3, <1>f, <2>1, <2>2
    <3>2. /\ busy' \in BOOLEAN
          /\ mbk' \in BOOLEAN /\ ok' \in BOOLEAN /\ residue' \in 0 .. MaxLen
      BY <1>1, <1>f, <2>2 DEF Types, TypeOK
    <3>3. Len(card'.buf) <= PPB
      BY <1>i, <2>5
    <3>4. Len(got') <= MaxLen * PPB
      BY <1>5
    <3> QED
      BY <1>1, <1>5, <1>f, <1>l, <2>2, <2>5, <3>1, <3>2, <3>3, <3>4, TypesKept
  <2>7. Places' /\ ~Opening' /\ DiskOK'
    BY <1>1, <2>2 DEF Inv, Places, Opening, DiskOK, OpenGoals
  <2>8. Opened'
    BY <1>1, <2>2, CommandFields DEF Opened, Addressing
  <2>9. ReadTurns'
    <3>1. Moving' /\ len' > 0
      <4>1. len' \in 0 .. cmd.n * PPB /\ len' > 0
        BY <1>k, <2>3
      <4>2. ofs' = cmd.lba + (Blk + 1) /\ bct' = PPB - 0
        BY <1>3, <1>4, <1>f, <2>2
      <4> QED
        BY <1>1, <1>3, <2>1, <2>2, <2>3, <4>1, <4>2 DEF Moving
    <3>2. Delivered'
      BY <1>5, <2>2
    <3>3. Owed(cmd.n - Blk + 1)'
      <4>1. cmd.n - (Blk + 1) + 1 = cmd.n - Blk
        BY <1>4, <1>f
      <4> QED
        BY <1>1, <1>3, <2>2, <2>3, <4>1 DEF Owed
    <3>4. OnLine' \/ (card' = Deaf /\ sense' # "none")
      <4>1. ReadCard(Gap)' = Stream("read", mbk, cmd.lba + (Blk + 1))
        BY <1>1, <2>2, <2>3 DEF ReadCard, At, Stream
      <4>2. card # Deaf => OnLine'
        BY <2>4, <4>1 DEF OnLine, Gap, Start
      <4>3. card = Deaf => card' = Deaf /\ sense' # "none"
        BY <1>1, <1>3, <1>d, <2>4
      <4> QED
        BY <4>2, <4>3
    <3>5. Off' = 0 /\ Sent' > 0 /\ mbk'
      BY <1>1, <1>4, <2>1, <2>3
    <3> QED
      BY <3>1, <3>2, <3>3, <3>4, <3>5 DEF ReadTurns
  <2>10. (Running("READ") => Reads)' /\ (Running("WRITE") => Writes)'
    BY <1>1, <2>2, <2>9 DEF Running, Reads
  <2> QED
    BY <1>1, <2>6, <2>7, <2>8, <2>10, CommandKeeps
<1>8. CASE len = 1
  <2>1. Off = PPB - 1 /\ Blk = cmd.n - 1
    BY <1>4, <1>8
  <2>2. UNCHANGED <<bct, ofs>> /\ card' = AfterCrc(AfterPart(card)) /\ len' = 0
    BY <1>1, <1>3, <1>8, ReadStep
  <2>3. card' = IF card = Deaf THEN Deaf
                ELSE IF mbk THEN Stream("read", mbk, cmd.lba + (Blk + 1)) ELSE Resting
    <3>1. Off + 1 = PPB
      BY <2>1, <1>f
    <3>2. card = Deaf => card' = Deaf
      BY <1>p, <2>2
    <3>3. card # Deaf => AfterPart(card) = ReadCard(PPB)
      BY <1>3, <1>p, <3>1
    <3> QED
      BY <1>p, <2>1, <2>2, <3>2, <3>3
  <2>4. card' \in CardStates /\ card'.buf = << >>
    BY <1>c, <2>3
  <2>5. Len(card'.buf) <= PPB /\ Len(got') <= MaxLen * PPB
    BY <1>5, <1>i, <2>4
  <2>6. /\ busy' \in BOOLEAN /\ ofs' \in 0 .. Cap + MaxLen
        /\ mbk' \in BOOLEAN /\ ok' \in BOOLEAN /\ bct' \in 0 .. PPB /\ residue \in 0 .. MaxLen
    BY <1>1, <1>f, <2>2 DEF Types, TypeOK
  <2>7. CASE mbk
    <3>1. pc' = "ready" /\ goal' = "CMD12" /\ timer2' = T2 /\ UNCHANGED <<residue, timer1, cmd>>
      BY <1>8, <2>7, ReadStep
    <3>2. Types'
      BY <1>1, <1>5, <1>f, <1>l, <2>4, <2>5, <2>6, <3>1, TypesKept
    <3>3. Places' /\ ~Opening' /\ DiskOK'
      BY <1>1, <3>1 DEF Inv, Places, Opening, DiskOK, OpenGoals
    <3>4. Opened'
      BY <1>1, <3>1, CommandFields DEF Opened, Addressing
    <3>5. ReadEnds'
      <4>1. Moving'
        <5>1. 0 \in 0 .. cmd.n * PPB /\ ~(0 > 0)
          BY <1>f
        <5> QED
          BY <1>1, <1>3, <2>2, <3>1, <5>1 DEF Moving
      <4>2. Delivered'
        BY <1>5, <3>1
      <4>3. Owed(1)'
        <5>1. cmd.n - Blk = 1
          BY <1>f, <2>1
        <5> QED
          BY <1>1, <1>3, <3>1, <5>1 DEF Owed
      <4> QED
        BY <1>1, <2>2, <2>7, <4>1, <4>2, <4>3 DEF ReadEnds
    <3>6. (Running("READ") => Reads)' /\ (Running("WRITE") => Writes)'
      BY <1>1, <3>1, <3>5 DEF Running, Reads
    <3> QED
      BY <1>1, <3>2, <3>3, <3>4, <3>6, CommandKeeps
  <2>8. CASE ~mbk
    <3>1. /\ pc' = "idle" /\ timer1' = 0 /\ timer2' = 0 /\ cmd' = NoCmd
          /\ residue' = IF sense' = "none" THEN residue - 1 ELSE residue
      BY <1>8, <2>8, ReadStep
    <3>2. Types'
      <4>1. residue' \in 0 .. MaxLen
        <5>1. cmd.n - Blk = 1
          BY <1>f, <2>1
        <5>2. residue >= 1
          BY <1>3, <5>1 DEF Owed
        <5> QED
          BY <1>f, <2>6, <3>1, <5>2
      <4> QED
        BY <1>1, <1>5, <1>f, <1>l, <2>4, <2>5, <2>6, <3>1, <4>1, TypesKept
    <3>3. Places' /\ ~Opening' /\ DiskOK'
      BY <1>1, <3>1 DEF Inv, Places, Opening, DiskOK
    <3>4. Opened'
      <4>1. card' = Resting
        BY <1>3, <1>d, <2>3, <2>8
      <4> QED
        BY <1>1, <3>1, <4>1 DEF Opened, Addressing, Free
    <3>5. ~Running("READ")' /\ ~Running("WRITE")'
      BY <3>1 DEF Running, NoCmd
    <3> QED
      BY <1>1, <3>2, <3>3, <3>4, <3>5, CommandKeeps
  <2> QED
    BY <2>7, <2>8
<1> QED
  BY <1>6, <1>7, <1>8

LEMMA ReadNextKeeps == Inv /\ ReadNext => Inv'
<1> SUFFICES ASSUME Inv, ReadNext PROVE Inv'
  OBVIOUS
<1>1. /\ UNCHANGED <<kind, good, busy, disk, ctype, capacity, ofs, len, bct, mbk, ok,
                     delay, cmd, got, abandoned>>
      /\ pc = "token" /\ goal = "next" /\ (card.at # Gap \/ timer1 = 0)
      /\ card' = AfterPoll
      /\ sense' = IF Started THEN sense ELSE "fault"
      /\ residue' = IF Started /\ sense = "none" THEN residue - 1 ELSE residue
      /\ pc' = "idle" /\ goal' = "none" /\ timer1' = 0 /\ timer2' = 0
  BY DEF ReadNext, Token, Return, DriverFrame, openVars, DecResidue
<1>2. /\ ~Opening /\ ctype # "none" /\ Addressing /\ ~abandoned /\ cmd \in Commands
      /\ timer1 # 0 /\ cmd.op \in {"READ", "WRITE"}
      /\ cmd.op = "READ" => Reads
      /\ cmd.op = "WRITE" => Writes
  BY <1>1, Waiting DEF OpenGoals
<1>3. cmd.op = "READ" /\ card.at # Gap /\ OnLine
      /\ Moving /\ mbk /\ len > 0 /\ Delivered /\ Owed(cmd.n - Blk + 1) /\ Off = 0
  BY <1>1, <1>2, CardStreams DEF Reads, Writes, ReadTurns
<1>4. card' = IF Started THEN ReadCard(0) ELSE Deaf
  BY <1>1, <1>3, TokenRead DEF Inv, Types
<1>5. Blk \in 0 .. cmd.n - 1
  <2>1. cmd.n * PPB \in Nat /\ len \in 0 .. cmd.n * PPB /\ len > 0
    BY <1>2, <1>3, CommandFields DEF Moving
  <2>2. \A a \in Nat : len \in 0 .. a /\ len > 0 => len \in 1 .. a
    OBVIOUS
  <2> QED
    BY <1>2, <2>1, <2>2, Counting
<1>m. /\ 0 \in Error .. PPB /\ Blk \in Nat /\ cmd.n \in Nat /\ residue \in Nat
      /\ residue \in 0 .. MaxLen /\ MaxLen \in Nat /\ Types
  BY <1>2, <1>5, CommandFields, Bounds DEF Inv, Types, TypeOK, Error
<1>6. card' \in CardStates /\ card'.buf = << >>
  <2>1. ReadCard(0) \in CardStates /\ ReadCard(0).buf = << >>
    BY <1>2, <1>3, <1>m, ReadCards
  <2> QED
    BY <1>4, <2>1, CardStreams
<1>7. /\ residue' \in 0 .. MaxLen
      /\ residue' >= cmd.n - Blk /\ (sense' = "none" => residue' = cmd.n - Blk)
  <2>1. residue >= cmd.n - Blk + 1 /\ (sense = "none" => residue = cmd.n - Blk + 1)
    BY <1>3 DEF Owed
  <2> DEFINE k == cmd.n - Blk
  <2>2. k \in Nat /\ residue >= k + 1 /\ (sense = "none" => residue = k + 1)
    BY <1>5, <1>m, <2>1
  <2> HIDE DEF k
  <2>3. residue' \in 0 .. MaxLen /\ residue' >= k /\ (sense' = "none" => residue' = k)
    BY <1>1, <1>m, <2>2
  <2> QED
    BY <2>3 DEF k
<1>8. Types'
  <2>1. Len(card'.buf) <= PPB
    BY <1>6, Bounds
  <2>2. /\ busy' \in BOOLEAN /\ ofs' \in 0 .. Cap + MaxLen /\ len' \in 0 .. MaxLen * PPB
        /\ bct' \in 0 .. PPB /\ mbk' \in BOOLEAN /\ ok' \in BOOLEAN
        /\ sense' \in {"none", "reset", "nomedium", "range", "fault", "notready"}
        /\ got' \in Seq(Parts) /\ Len(got') <= MaxLen * PPB
    BY <1>1, <1>m DEF Types, TypeOK
  <2> QED
    BY <1>1, <1>6, <1>7, <1>m, <2>1, <2>2, TypesKept
<1>9. Places' /\ ~Opening' /\ DiskOK'
  BY <1>1 DEF Inv, Places, Opening, DiskOK
<1>10. Opened'
  BY <1>1, <1>2, CommandFields DEF Opened, Addressing
<1>11. ReadGoes'
  <2>1. UNCHANGED <<Sent, Blk, Off>>
    BY <1>1 DEF Sent, Blk, Off
  <2>2. Moving' /\ len' > 0
    BY <1>1, <1>3, <2>1 DEF Moving
  <2>3. Delivered'
    BY <1>1, <1>3, <2>1 DEF Delivered
  <2>4. Owed(cmd.n - Blk)'
    BY <1>1, <1>7, <2>1 DEF Owed
  <2>5. Started => card' = ReadCard(Off)' /\ cmd'.lba + Blk' < Cap
    <3>1. ReadCard(0)' = ReadCard(0)
      BY <1>1, <2>1 DEF ReadCard, At
    <3>2. Started => cmd.lba + Blk < Cap
      BY <1>3, TokenHere
    <3> QED
      BY <1>1, <1>3, <1>4, <2>1, <3>1, <3>2
  <2>6. ~Started => card' = Deaf /\ mbk' /\ sense' # "none"
    BY <1>1, <1>3, <1>4
  <2> QED
    BY <2>2, <2>3, <2>4, <2>5, <2>6 DEF ReadGoes
<1>12. (Running("READ") => Reads)' /\ (Running("WRITE") => Writes)'
  BY <1>1, <1>3, <1>11 DEF Running, Reads
<1> QED
  BY <1>2, <1>8, <1>9, <1>10, <1>12, CommandKeeps

\* A command is over; the card takes the next one or is deaf.
LEMMA CommandOver ==
  ASSUME Inv, ~Opening, ctype # "none", Addressing, ~abandoned, cmd \in Commands,
         UNCHANGED <<kind, good, ctype, capacity, delay, abandoned>>,
         busy' \in BOOLEAN, card' \in Free, DiskOK', cmd' = NoCmd, pc' = "idle",
         timer1' = 0, timer2' = 0, residue >= 1,
         residue' = residue \/ residue' = residue - 1,
         UNCHANGED <<ofs, mbk, ok, got>>, len' \in 0 .. MaxLen * PPB, bct' \in 0 .. PPB,
         sense' \in {"none", "reset", "nomedium", "range", "fault", "notready"}
  PROVE  Inv'
<1>1. Types
  BY DEF Inv
<1>2. card' \in CardStates /\ card'.buf = << >>
  BY CardStreams DEF Free
<1>3. Len(card'.buf) <= PPB
  BY <1>2, Bounds
<1>4. residue' \in 0 .. MaxLen
  BY <1>1, Bounds DEF Types, TypeOK
<1>5. Types'
  <2>1. ofs' \in 0 .. Cap + MaxLen /\ mbk' \in BOOLEAN /\ ok' \in BOOLEAN
        /\ got' \in Seq(Parts) /\ Len(got') <= MaxLen * PPB
    BY <1>1 DEF Types, TypeOK
  <2> QED
    BY <1>1, <1>2, <1>3, <1>4, <2>1, TypesKept
<1>6. Places' /\ ~Opening'
  BY DEF Places, Opening
<1>7. Opened'
  BY DEF Opened, Addressing
<1>8. ~Running("READ")' /\ ~Running("WRITE")'
  BY DEF Running, NoCmd
<1> QED
  BY <1>5, <1>6, <1>7, <1>8, CommandKeeps

\* The last wait of a READ.
LEMMA ReadStopEnds ==
  ASSUME Inv, ReadStop
  PROVE  /\ ReadEnds /\ cmd \in Commands /\ cmd.op = "READ" /\ card' = Resting /\ ~Opening
         /\ ctype # "none" /\ Addressing /\ ~abandoned
         /\ UNCHANGED <<kind, good, disk, ctype, capacity, ofs, len, bct, mbk, ok, sense,
                        delay, got, abandoned>>
         /\ busy' \in BOOLEAN /\ cmd' = NoCmd /\ pc' = "idle" /\ timer1' = 0 /\ timer2' = 0
         /\ residue' = IF sense = "none" THEN residue - 1 ELSE residue
<1>1. /\ UNCHANGED <<kind, good, disk, ctype, capacity, ofs, len, bct, mbk, ok, sense, delay,
                     got, abandoned>>
      /\ pc = "ready" /\ goal = "CMD12" /\ (~busy \/ timer2 = 0)
      /\ card' = IF busy THEN card ELSE Resting
      /\ busy' \in BOOLEAN /\ cmd' = NoCmd /\ pc' = "idle" /\ timer1' = 0 /\ timer2' = 0
      /\ residue' = IF sense = "none" THEN residue - 1 ELSE residue
  BY DEF ReadStop, Ready, Return, DriverFrame, openVars, DecResidue, Done, Inv, Types, TypeOK
<1>2. /\ ~Opening /\ ctype # "none" /\ Addressing /\ ~abandoned /\ cmd \in Commands
      /\ timer2 # 0 /\ cmd.op \in {"READ", "WRITE"}
      /\ cmd.op = "READ" => Reads
      /\ cmd.op = "WRITE" => Writes
  BY <1>1, Waiting DEF OpenGoals
<1>3. cmd.op = "READ" /\ ReadEnds
  BY <1>1, <1>2 DEF Reads, Writes
<1> QED
  BY <1>1, <1>2, <1>3

LEMMA ReadStopKeeps == Inv /\ ReadStop => Inv'
<1> SUFFICES ASSUME Inv, ReadStop PROVE Inv'
  OBVIOUS
<1>1. /\ ReadEnds /\ cmd \in Commands /\ cmd.op = "READ" /\ card' = Resting /\ ~Opening
      /\ ctype # "none" /\ Addressing /\ ~abandoned
      /\ UNCHANGED <<kind, good, disk, ctype, capacity, ofs, len, bct, mbk, ok, sense,
                     delay, got, abandoned>>
      /\ busy' \in BOOLEAN /\ cmd' = NoCmd /\ pc' = "idle" /\ timer1' = 0 /\ timer2' = 0
      /\ residue' = IF sense = "none" THEN residue - 1 ELSE residue
  BY ReadStopEnds
<1>2. residue >= 1 /\ DiskOK' /\ card' \in Free
  BY <1>1 DEF ReadEnds, Owed, Inv, DiskOK, Free
<1>3. /\ len' \in 0 .. MaxLen * PPB /\ bct' \in 0 .. PPB
      /\ sense' \in {"none", "reset", "nomedium", "range", "fault", "notready"}
  BY <1>1 DEF Inv, Types, TypeOK
<1>4. residue' = residue \/ residue' = residue - 1
  BY <1>1
<1> QED
  BY <1>1, <1>2, <1>3, <1>4, CommandOver

-----------------------------------------------------------------------------
(* Writing                                                                 *)

LEMMA WriteCards ==
  ASSUME cmd \in Commands, mbk \in BOOLEAN, Blk \in Nat, NEW a \in 0 .. PPB
  PROVE  /\ WriteCard(a) \in CardStates /\ WriteCard(a).mode = "write"
         /\ WriteCard(a).multi = mbk /\ WriteCard(a).pos = cmd.lba + Blk
         /\ WriteCard(a).at = a /\ WriteCard(a).buf = SentParts(a)
         /\ SentParts(a) \in Seq(Parts) /\ Len(SentParts(a)) = a
         /\ WriteGap \in CardStates /\ WriteGap.buf = << >> /\ WriteGap.mode = "write"
         /\ WriteGap.multi = mbk /\ WriteGap.at = Gap
         /\ \A k \in 1 .. PPB : Part(cmd.ver, cmd.lba + Blk, k) \in Parts
<1>1. cmd.lba + Blk \in Nat /\ cmd.ver \in {0, 1}
  BY CommandFields
<1>2. \A k \in 1 .. PPB : Part(cmd.ver, cmd.lba + Blk, k) \in Parts
  BY <1>1 DEF Part, Parts
<1>3. a \in Nat /\ a \in Error .. PPB /\ \A k \in 1 .. a : k \in 1 .. PPB
  BY Bounds DEF Error
<1>4. SentParts(a) \in Seq(Parts) /\ Len(SentParts(a)) = a
  <2>1. SentParts(a) \in [1 .. a -> Parts]
    BY <1>2, <1>3 DEF SentParts
  <2> QED
    BY <1>3, <2>1
<1>5. /\ WriteCard(a).mode = "write" /\ WriteCard(a).multi = mbk
      /\ WriteCard(a).pos = cmd.lba + Blk /\ WriteCard(a).at = a
      /\ WriteCard(a).buf = SentParts(a)
  BY DEF WriteCard
<1>6. WriteCard(a) \in CardStates
  BY <1>1, <1>3, <1>4 DEF WriteCard, CardStates
<1>7. WriteGap \in CardStates
  BY <1>1, CardStreams DEF WriteGap
<1>8. /\ WriteGap.buf = << >> /\ WriteGap.mode = "write" /\ WriteGap.multi = mbk
      /\ WriteGap.at = Gap
  BY DEF WriteGap, Stream
<1> QED
  BY <1>2, <1>4, <1>5, <1>6, <1>7, <1>8

\* A data token opens the block on a card that waits for it; any other card
\* does not hear it.
LEMMA TokenOpens ==
  ASSUME cmd \in Commands, mbk \in BOOLEAN, Blk \in Nat
  PROVE  /\ card = WriteGap => AfterToken(mbk) = WriteCard(0)
         /\ card \in Free => AfterToken(mbk) = card
<1>1. ASSUME card = WriteGap PROVE AfterToken(mbk) = WriteCard(0)
  <2>1. /\ WriteGap \in CardStates /\ WriteGap.mode = "write" /\ WriteGap.multi = mbk
        /\ WriteGap.at = Gap
    <3>1. 0 \in 0 .. PPB
      BY Bounds
    <3> QED
      BY <3>1, WriteCards
  <2>2. AfterToken(mbk) = At(WriteGap, 0)
    BY <1>1, <2>1, AtIs DEF AfterToken
  <2>3. SentParts(0) = << >>
    BY DEF SentParts
  <2> QED
    BY <2>2, <2>3 DEF At, WriteGap, Stream, WriteCard
<1>2. card \in Free => AfterToken(mbk) = card
  BY CardStreams DEF AfterToken, Free
<1> QED
  BY <1>1, <1>2

LEMMA WriteCommandKeeps == Inv /\ WriteCommand => Inv'
<1> SUFFICES ASSUME Inv, WriteCommand PROVE Inv'
  OBVIOUS
<1>1. /\ UNCHANGED <<kind, good, busy, disk, ctype, capacity, ofs, len, bct, mbk, ok,
                     residue, sense, delay, timer1, cmd, got, abandoned>>
      /\ pc = "ready" /\ goal = "WRITE" /\ (~busy \/ timer2 = 0)
      /\ IF busy THEN UNCHANGED card ELSE card' \in Command("write", mbk, Address(ofs))
      /\ pc' = "ready" /\ goal' = "token" /\ timer2' = T2
  BY DEF WriteCommand, Ready, WaitReady, DriverFrame, openVars, xferVars
<1>2. /\ ~Opening /\ ctype # "none" /\ Addressing /\ ~abandoned /\ cmd \in Commands
      /\ timer2 # 0 /\ cmd.op \in {"READ", "WRITE"}
      /\ cmd.op = "READ" => Reads
      /\ cmd.op = "WRITE" => Writes
  BY <1>1, Waiting DEF OpenGoals
<1>3. cmd.op = "WRITE" /\ Fresh /\ card \in Free
  BY <1>1, <1>2 DEF Reads, Writes, WriteAsked
<1>4. card' \in Free \/ card' = Stream("write", mbk, cmd.lba)
  <2>1. ofs = cmd.lba /\ cmd.lba \in Nat
    BY <1>2, <1>3, CommandFields DEF Fresh
  <2>2. BlockOf(Address(ofs)) = cmd.lba
    BY <1>2, <2>1, AddressRight
  <2>3. card' \in Command("write", mbk, Address(ofs))
    BY <1>1, <1>2
  <2>4. card' \in {card} \/ card' = Stream("write", mbk, cmd.lba)
    BY <2>2, <2>3 DEF Command
  <2> QED
    BY <1>3, <2>4
<1>5. mbk \in BOOLEAN /\ card' \in CardStates /\ card'.buf = << >> /\ cmd.lba \in Nat
  <2>1. mbk \in BOOLEAN /\ cmd.lba \in Nat
    BY <1>2, CommandFields DEF Inv, Types, TypeOK
  <2>2. card' \in Free => card' \in CardStates /\ card'.buf = << >>
    BY CardStreams DEF Free
  <2>3. card' = Stream("write", mbk, cmd.lba) => card' \in CardStates /\ card'.buf = << >>
    BY <2>1, CardStreams DEF Stream
  <2> QED
    BY <1>4, <2>1, <2>2, <2>3
<1>6. Types'
  <2>1. Types /\ Len(card'.buf) <= PPB
    BY <1>5, Bounds DEF Inv
  <2>2. /\ busy' \in BOOLEAN /\ ofs' \in 0 .. Cap + MaxLen /\ len' \in 0 .. MaxLen * PPB
        /\ bct' \in 0 .. PPB /\ mbk' \in BOOLEAN /\ ok' \in BOOLEAN /\ residue' \in 0 .. MaxLen
        /\ sense' \in {"none", "reset", "nomedium", "range", "fault", "notready"}
        /\ got' \in Seq(Parts) /\ Len(got') <= MaxLen * PPB
    BY <1>1, <2>1 DEF Types, TypeOK
  <2> QED
    BY <1>1, <1>5, <2>1, <2>2, TypesKept
<1>7. Places' /\ ~Opening' /\ DiskOK'
  BY <1>1 DEF Inv, Places, Opening, OpenGoals, DiskOK
<1>8. Opened'
  BY <1>1, <1>2, CommandFields DEF Opened, Addressing
<1>9. WriteOpens'
  <2>1. Fresh' /\ Blk' = 0
    BY <1>1, <1>2, <1>3, Extremes DEF Fresh, Blk, Sent
  <2>2. WriteGap' = Stream("write", mbk, cmd.lba)
    BY <1>1, <1>5, <2>1 DEF WriteGap
  <2> QED
    BY <1>4, <2>1, <2>2 DEF WriteOpens, Free
<1>10. (Running("READ") => Reads)' /\ (Running("WRITE") => Writes)'
  BY <1>1, <1>3, <1>9 DEF Running, Writes
<1> QED
  BY <1>2, <1>6, <1>7, <1>8, <1>10, CommandKeeps

LEMMA WriteFirstKeeps == Inv /\ WriteFirst => Inv'
<1> SUFFICES ASSUME Inv, WriteFirst PROVE Inv'
  OBVIOUS
<1>1. /\ UNCHANGED <<kind, good, busy, disk, ctype, capacity, ofs, len, bct, mbk,
                     residue, delay, cmd, got, abandoned>>
      /\ pc = "ready" /\ goal = "token" /\ (~busy \/ timer2 = 0)
      /\ IF busy THEN sense' = "notready" /\ UNCHANGED <<card, ok>>
                 ELSE sense' = "none" /\ ok' = TRUE /\ card' = AfterToken(mbk)
      /\ pc' = "idle" /\ timer1' = 0 /\ timer2' = 0
  BY DEF WriteFirst, Ready, Return, DriverFrame, openVars
<1>2. /\ ~Opening /\ ctype # "none" /\ Addressing /\ ~abandoned /\ cmd \in Commands
      /\ timer2 # 0 /\ cmd.op \in {"READ", "WRITE"}
      /\ cmd.op = "READ" => Reads
      /\ cmd.op = "WRITE" => Writes
  BY <1>1, Waiting DEF OpenGoals
<1>3. cmd.op = "WRITE" /\ Fresh /\ card \in Free \cup {WriteGap}
  BY <1>1, <1>2 DEF Reads, Writes, WriteOpens
<1>4. sense' = "none" /\ ok' = TRUE /\ card' = AfterToken(mbk)
  BY <1>1, <1>2
<1>5. Sent = 0 /\ Blk = 0 /\ Off = 0
  BY <1>2, <1>3, Extremes DEF Fresh
<1>m. mbk \in BOOLEAN /\ Blk \in Nat /\ 0 \in 0 .. PPB /\ Types
  BY <1>5, Bounds DEF Inv, Types, TypeOK
<1>6. card' \in Free \cup {WriteCard(0)}
  BY <1>2, <1>3, <1>4, <1>m, TokenOpens
<1>7. card' \in CardStates /\ Len(card'.buf) <= PPB
  <2>1. WriteCard(0) \in CardStates /\ Len(WriteCard(0).buf) = 0
    BY <1>2, <1>m, WriteCards
  <2>2. \A c \in Free : c \in CardStates /\ Len(c.buf) = 0
    BY CardStreams DEF Free
  <2> QED
    BY <1>6, <2>1, <2>2, Bounds
<1>8. Types'
  <2>1. /\ busy' \in BOOLEAN /\ ofs' \in 0 .. Cap + MaxLen /\ len' \in 0 .. MaxLen * PPB
        /\ bct' \in 0 .. PPB /\ mbk' \in BOOLEAN /\ ok' \in BOOLEAN /\ residue' \in 0 .. MaxLen
        /\ sense' \in {"none", "reset", "nomedium", "range", "fault", "notready"}
        /\ got' \in Seq(Parts) /\ Len(got') <= MaxLen * PPB
    BY <1>1, <1>4, <1>m DEF Types, TypeOK
  <2> QED
    BY <1>1, <1>7, <1>m, <2>1, TypesKept
<1>9. Places' /\ ~Opening' /\ DiskOK'
  BY <1>1 DEF Inv, Places, Opening, DiskOK
<1>10. Opened'
  BY <1>1, <1>2, CommandFields DEF Opened, Addressing
<1>11. WriteGoes'
  <2>2. UNCHANGED <<Sent, Blk, Off>>
    BY <1>1 DEF Sent, Blk, Off
  <2>3. len = cmd.n * PPB /\ ofs = cmd.lba /\ bct = PPB /\ residue = cmd.n /\ got = << >>
        /\ mbk = (cmd.n > 1)
    BY <1>3 DEF Fresh
  <2>4. /\ cmd.n * PPB \in Nat \ {0} /\ cmd.n * PPB \in 0 .. cmd.n * PPB
        /\ cmd.lba + 0 = cmd.lba /\ cmd.n - 0 = cmd.n /\ PPB - 0 = PPB
    BY <1>2, CommandFields, Bounds
  <2>5. Moving' /\ len' > 0
    BY <1>1, <1>4, <1>5, <2>2, <2>3, <2>4 DEF Moving
  <2>6. Written'
    <3>1. cmd.lba .. cmd.lba + 0 - 1 = {}
      BY <1>2, CommandFields
    <3> QED
      BY <1>1, <1>5, <2>2, <3>1 DEF Written
  <2>7. Owed(cmd.n - Blk)'
    BY <1>1, <1>2, <1>5, <2>2, <2>3, <2>4, CommandFields DEF Owed
  <2>8. card' = WriteCard(Off)' \/ (card' \in Free /\ Sent' < PPB)
    <3>1. WriteCard(0)' = WriteCard(0)
      BY <1>1, <2>2 DEF WriteCard, SentParts
    <3>2. Sent' < PPB
      BY <1>5, <2>2, Bounds
    <3> QED
      BY <1>5, <1>6, <2>2, <3>1, <3>2
  <2> QED
    BY <1>1, <2>3, <2>5, <2>6, <2>7, <2>8 DEF WriteGoes, Free
<1>12. (Running("READ") => Reads)' /\ (Running("WRITE") => Writes)'
  BY <1>1, <1>3, <1>11 DEF Running, Writes
<1> QED
  BY <1>2, <1>8, <1>9, <1>10, <1>12, CommandKeeps

LEMMA WriteNextKeeps == Inv /\ WriteNext => Inv'
<1> SUFFICES ASSUME Inv, WriteNext PROVE Inv'
  OBVIOUS
<1>1. /\ UNCHANGED <<kind, good, busy, disk, ctype, capacity, ofs, len, bct, mbk, ok,
                     delay, cmd, got, abandoned>>
      /\ pc = "ready" /\ goal = "next" /\ (~busy \/ timer2 = 0)
      /\ ~busy => /\ card' = AfterToken(TRUE) /\ sense' = sense
                  /\ residue' = IF sense = "none" THEN residue - 1 ELSE residue
      /\ pc' = "idle" /\ timer1' = 0 /\ timer2' = 0
  BY DEF WriteNext, Ready, Return, DriverFrame, openVars, DecResidue
<1>2. /\ ~Opening /\ ctype # "none" /\ Addressing /\ ~abandoned /\ cmd \in Commands
      /\ timer2 # 0 /\ cmd.op \in {"READ", "WRITE"}
      /\ cmd.op = "READ" => Reads
      /\ cmd.op = "WRITE" => Writes
  BY <1>1, Waiting DEF OpenGoals
<1>3. /\ cmd.op = "WRITE"
      /\ Moving /\ mbk /\ len > 0 /\ Written /\ Owed(cmd.n - Blk + 1) /\ got = << >>
      /\ Off = 0
      /\ card = WriteGap \/ (card \in Free /\ sense # "none")
  BY <1>1, <1>2 DEF Reads, Writes, WriteTurns
<1>4. /\ card' = AfterToken(mbk) /\ sense' = sense
      /\ residue' = IF sense = "none" THEN residue - 1 ELSE residue
  BY <1>1, <1>2, <1>3 DEF Inv, Types, TypeOK
<1>5. Blk \in 0 .. cmd.n - 1
  <2>1. cmd.n * PPB \in Nat /\ len \in 0 .. cmd.n * PPB /\ len > 0
    BY <1>2, <1>3, CommandFields DEF Moving
  <2>2. \A a \in Nat : len \in 0 .. a /\ len > 0 => len \in 1 .. a
    OBVIOUS
  <2> QED
    BY <1>2, <2>1, <2>2, Counting
<1>m. /\ 0 \in 0 .. PPB /\ Blk \in Nat /\ cmd.n \in Nat /\ residue \in Nat /\ mbk \in BOOLEAN
      /\ residue \in 0 .. MaxLen /\ MaxLen \in Nat /\ Types
  BY <1>2, <1>5, CommandFields, Bounds DEF Inv, Types, TypeOK
<1>6. (card = WriteGap => card' = WriteCard(0)) /\ (card \in Free => card' = card)
  BY <1>2, <1>4, <1>m, TokenOpens
<1>7. card' \in CardStates /\ Len(card'.buf) <= PPB
  <2>1. WriteCard(0) \in CardStates /\ Len(WriteCard(0).buf) = 0
    BY <1>2, <1>m, WriteCards
  <2>2. \A c \in Free : c \in CardStates /\ Len(c.buf) = 0
    BY CardStreams DEF Free
  <2> QED
    BY <1>3, <1>6, <2>1, <2>2, Bounds
<1>r. /\ residue' \in 0 .. MaxLen
      /\ residue' >= cmd.n - Blk /\ (sense' = "none" => residue' = cmd.n - Blk)
  <2>1. residue >= cmd.n - Blk + 1 /\ (sense = "none" => residue = cmd.n - Blk + 1)
    BY <1>3 DEF Owed
  <2> DEFINE k == cmd.n - Blk
  <2>2. k \in Nat /\ residue >= k + 1 /\ (sense = "none" => residue = k + 1)
    BY <1>5, <1>m, <2>1
  <2> HIDE DEF k
  <2>3. residue' \in 0 .. MaxLen /\ residue' >= k /\ (sense' = "none" => residue' = k)
    BY <1>4, <1>m, <2>2
  <2> QED
    BY <2>3 DEF k
<1>8. Types'
  <2>1. /\ busy' \in BOOLEAN /\ ofs' \in 0 .. Cap + MaxLen /\ len' \in 0 .. MaxLen * PPB
        /\ bct' \in 0 .. PPB /\ mbk' \in BOOLEAN /\ ok' \in BOOLEAN
        /\ sense' \in {"none", "reset", "nomedium", "range", "fault", "notready"}
        /\ got' \in Seq(Parts) /\ Len(got') <= MaxLen * PPB
    BY <1>1, <1>4, <1>m DEF Types, TypeOK
  <2> QED
    BY <1>1, <1>7, <1>m, <1>r, <2>1, TypesKept
<1>9. Places' /\ ~Opening' /\ DiskOK'
  BY <1>1 DEF Inv, Places, Opening, DiskOK
<1>10. Opened'
  BY <1>1, <1>2, CommandFields DEF Opened, Addressing
<1>11. WriteGoes'
  <2>1. UNCHANGED <<Sent, Blk, Off>>
    BY <1>1 DEF Sent, Blk, Off
  <2>2. Moving' /\ len' > 0
    BY <1>1, <1>3, <2>1 DEF Moving
  <2>3. Written'
    BY <1>1, <1>3, <1>4, <2>1 DEF Written
  <2>4. Owed(cmd.n - Blk)'
    BY <1>1, <1>r, <2>1 DEF Owed
  <2>5. card' = WriteCard(Off)' \/ (card' \in Free /\ sense' # "none")
    <3>1. WriteCard(0)' = WriteCard(0)
      BY <1>1, <2>1 DEF WriteCard, SentParts
    <3> QED
      BY <1>3, <1>4, <1>6, <2>1, <3>1
  <2> QED
    BY <1>1, <1>3, <2>2, <2>3, <2>4, <2>5 DEF WriteGoes, Free
<1>12. (Running("READ") => Reads)' /\ (Running("WRITE") => Writes)'
  BY <1>1, <1>3, <1>11 DEF Running, Writes
<1> QED
  BY <1>2, <1>8, <1>9, <1>10, <1>12, CommandKeeps

\* The last wait of a WRITE of several blocks.
LEMMA WriteStopEnds ==
  ASSUME Inv, WriteStop
  PROVE  /\ WriteEnds /\ cmd \in Commands /\ cmd.op = "WRITE" /\ card' = Resting /\ ~Opening
         /\ ctype # "none" /\ Addressing /\ ~abandoned
         /\ UNCHANGED <<kind, good, disk, ctype, capacity, ofs, len, bct, mbk, ok, sense,
                        delay, got, abandoned>>
         /\ busy' \in BOOLEAN /\ cmd' = NoCmd /\ pc' = "idle" /\ timer1' = 0 /\ timer2' = 0
         /\ residue' = IF sense = "none" THEN residue - 1 ELSE residue
<1>1. /\ UNCHANGED <<kind, good, disk, ctype, capacity, ofs, len, bct, mbk, ok, delay,
                     got, abandoned>>
      /\ pc = "ready" /\ goal = "stop" /\ (~busy \/ timer2 = 0)
      /\ ~busy => /\ card' = (IF card.mode = "write" THEN Resting ELSE card)
                  /\ busy' \in BOOLEAN /\ sense' = sense
                  /\ residue' = IF sense = "none" THEN residue - 1 ELSE residue
      /\ cmd' = NoCmd /\ pc' = "idle" /\ timer1' = 0 /\ timer2' = 0
  BY DEF WriteStop, Ready, Return, DriverFrame, openVars, DecResidue, Done
<1>2. /\ ~Opening /\ ctype # "none" /\ Addressing /\ ~abandoned /\ cmd \in Commands
      /\ timer2 # 0 /\ cmd.op \in {"READ", "WRITE"}
      /\ cmd.op = "READ" => Reads
      /\ cmd.op = "WRITE" => Writes
  BY <1>1, Waiting DEF OpenGoals
<1>3. cmd.op = "WRITE" /\ WriteEnds
  BY <1>1, <1>2 DEF Reads, Writes
<1>4. card.mode = "write"
  BY <1>3 DEF WriteEnds, WriteGap, Stream
<1> QED
  BY <1>1, <1>2, <1>3, <1>4

LEMMA WriteStopKeeps == Inv /\ WriteStop => Inv'
<1> SUFFICES ASSUME Inv, WriteStop PROVE Inv'
  OBVIOUS
<1>1. /\ WriteEnds /\ cmd \in Commands /\ cmd.op = "WRITE" /\ card' = Resting /\ ~Opening
      /\ ctype # "none" /\ Addressing /\ ~abandoned
      /\ UNCHANGED <<kind, good, disk, ctype, capacity, ofs, len, bct, mbk, ok, sense,
                     delay, got, abandoned>>
      /\ busy' \in BOOLEAN /\ cmd' = NoCmd /\ pc' = "idle" /\ timer1' = 0 /\ timer2' = 0
      /\ residue' = IF sense = "none" THEN residue - 1 ELSE residue
  BY WriteStopEnds
<1>2. residue >= 1 /\ DiskOK' /\ card' \in Free
  BY <1>1 DEF WriteEnds, Owed, Inv, DiskOK, Free
<1>3. /\ len' \in 0 .. MaxLen * PPB /\ bct' \in 0 .. PPB
      /\ sense' \in {"none", "reset", "nomedium", "range", "fault", "notready"}
  BY <1>1 DEF Inv, Types, TypeOK
<1>4. residue' = residue \/ residue' = residue - 1
  BY <1>1
<1> QED
  BY <1>1, <1>2, <1>3, <1>4, CommandOver

\* What Write puts on the line, and the card after it.
Packet == Part(cmd.ver, cmd.lba + Blk, 1 + Off)
After  == IF ok THEN Taken(card, Packet) ELSE card

\* A packet written: one inside a block, the last one of a block, the last one.
LEMMA WriteStep ==
  ASSUME Inv, Write
  PROVE  /\ UNCHANGED <<kind, good, ctype, capacity, mbk, ok, got, delay, abandoned>>
         /\ pc = "idle" /\ cmd.op = "WRITE" /\ cmd \in Commands /\ ~abandoned
         /\ ~Opening /\ Opened
         /\ len' = len - 1
         /\ InRange(sense) = "none" => sense = "none"
         /\ InRange(sense) \in {"none", "reset", "nomedium", "range", "fault", "notready"}
         /\ len # 1 /\ ~(mbk /\ bct = 1) =>
              /\ bct' = (IF mbk THEN bct - 1 ELSE bct)
              /\ card' = After /\ sense' = InRange(sense)
              /\ UNCHANGED <<ofs, busy, disk, residue, cmd>>
              /\ pc' = "idle" /\ timer1' = 0 /\ timer2' = 0
         /\ len = 1 \/ (mbk /\ bct = 1) =>
              \E accepted \in Verdicts(After) :
                /\ Respond(After, accepted)
                /\ sense' = IF accepted THEN InRange(sense) ELSE "fault"
                /\ len # 1 =>
                     /\ bct' = PPB /\ ofs' = ofs + 1 /\ pc' = "ready" /\ goal' = "next"
                     /\ timer2' = T2 /\ UNCHANGED <<residue, timer1, cmd>>
                /\ len = 1 =>
                     /\ UNCHANGED <<bct, ofs>>
                     /\ accepted /\ mbk => /\ pc' = "ready" /\ goal' = "stop" /\ timer2' = T2
                                           /\ UNCHANGED <<residue, timer1, cmd>>
                     /\ ~(accepted /\ mbk) =>
                          /\ pc' = "idle" /\ timer1' = 0 /\ timer2' = 0 /\ cmd' = NoCmd
                          /\ residue' = IF accepted /\ InRange(sense) = "none"
                                          THEN residue - 1 ELSE residue
<1>1. /\ UNCHANGED <<kind, good, ctype, capacity, mbk, ok, got, delay, abandoned>>
      /\ pc = "idle" /\ cmd.op = "WRITE" /\ len' = len - 1
  BY DEF Write, DriverFrame, openVars
<1>2. ~Opening /\ Opened
  BY <1>1 DEF Inv, Opening
<1>3. cmd # NoCmd
  BY <1>1 DEF NoCmd
<1>4. cmd \in Commands /\ ~abandoned
  BY <1>2, <1>3 DEF Inv, Types, TypeOK, Opened
<1>5. /\ InRange(sense) \in {"none", "reset", "nomedium", "range", "fault", "notready"}
      /\ InRange(sense) = "none" => sense = "none"
  BY DEF InRange, Inv, Types, TypeOK
<1>6. ASSUME len # 1, ~(mbk /\ bct = 1)
      PROVE  /\ bct' = (IF mbk THEN bct - 1 ELSE bct)
             /\ card' = After /\ sense' = InRange(sense)
             /\ UNCHANGED <<ofs, busy, disk, residue, cmd>>
             /\ pc' = "idle" /\ timer1' = 0 /\ timer2' = 0
  BY <1>6 DEF Write, Return, After, Packet, Blk, Off, Sent
<1>7. ASSUME len # 1, mbk, bct = 1
      PROVE  \E accepted \in Verdicts(After) :
                /\ Respond(After, accepted)
                /\ sense' = IF accepted THEN InRange(sense) ELSE "fault"
                /\ bct' = PPB /\ ofs' = ofs + 1 /\ pc' = "ready" /\ goal' = "next"
                /\ timer2' = T2 /\ UNCHANGED <<residue, timer1, cmd>>
  BY <1>7 DEF Write, WaitReady, SenseOfResponse, After, Packet, Blk, Off, Sent
<1>8. ASSUME len = 1
      PROVE  \E accepted \in Verdicts(After) :
                /\ Respond(After, accepted)
                /\ sense' = IF accepted THEN InRange(sense) ELSE "fault"
                /\ UNCHANGED <<bct, ofs>>
                /\ accepted /\ mbk => /\ pc' = "ready" /\ goal' = "stop" /\ timer2' = T2
                                      /\ UNCHANGED <<residue, timer1, cmd>>
                /\ ~(accepted /\ mbk) =>
                     /\ pc' = "idle" /\ timer1' = 0 /\ timer2' = 0 /\ cmd' = NoCmd
                     /\ residue' = IF accepted /\ InRange(sense) = "none"
                                     THEN residue - 1 ELSE residue
  <2>1. UNCHANGED <<bct, ofs>>
    BY <1>8 DEF Write
  <2>2. \E accepted \in Verdicts(After) :
          /\ Respond(After, accepted)
          /\ sense' = SenseOfResponse(accepted, InRange(sense))
          /\ \/ accepted /\ mbk /\ WaitReady("stop") /\ UNCHANGED <<residue, timer1, cmd>>
             \/ /\ ~(accepted /\ mbk)
                /\ IF accepted THEN DecResidue(InRange(sense)) ELSE UNCHANGED residue
                /\ Done /\ Return
    BY <1>8 DEF Write, After, Packet, Blk, Off, Sent
  <2> QED
    BY <2>1, <2>2 DEF WaitReady, SenseOfResponse, DecResidue, Done, Return
<1> QED
  BY <1>1, <1>2, <1>4, <1>5, <1>6, <1>7, <1>8

\* A packet written to a card that is in step, and to one that does not listen.
LEMMA PacketTaken ==
  ASSUME CardOK, cmd \in Commands, mbk \in BOOLEAN, Blk \in Nat, Off \in 0 .. PPB - 1
  PROVE  /\ card = WriteCard(Off) => Taken(card, Packet) = WriteCard(Off + 1)
         /\ card \in Free => Taken(card, Packet) = card
<1>1. Off \in 0 .. PPB /\ Off + 1 \in 0 .. PPB /\ Off \in Nat /\ 1 + Off \in 1 .. PPB
  BY Bounds
<1>2. ASSUME card = WriteCard(Off) PROVE Taken(card, Packet) = WriteCard(Off + 1)
  <2>1. /\ card.mode = "write" /\ card.multi = mbk /\ card.pos = cmd.lba + Blk /\ card.at = Off
        /\ card.buf = SentParts(Off) /\ SentParts(Off) \in Seq(Parts)
        /\ Len(SentParts(Off)) = Off
    BY <1>1, <1>2, WriteCards
  <2>2. Packet \in Parts
    BY <1>1, WriteCards DEF Packet
  <2>3. Append(SentParts(Off), Packet) = SentParts(Off + 1)
    <3> DEFINE s == Append(SentParts(Off), Packet)  t == SentParts(Off + 1)
    <3>1. s \in Seq(Parts) /\ Len(s) = Off + 1
      BY <2>1, <2>2
    <3>2. t \in Seq(Parts) /\ Len(t) = Off + 1
      BY <1>1, WriteCards
    <3>3. ASSUME NEW k \in 1 .. Off + 1 PROVE s[k] = t[k]
      <4>1. CASE k = Off + 1
        <5>1. s[k] = Packet
          BY <2>1, <2>2, <4>1
        <5>2. t[k] = Part(cmd.ver, cmd.lba + Blk, k) /\ k = 1 + Off
          BY <1>1, <4>1 DEF SentParts
        <5> QED
          BY <5>1, <5>2 DEF Packet
      <4>2. CASE k # Off + 1
        <5>1. k \in 1 .. Off
          BY <1>1, <4>2
        <5>2. s[k] = SentParts(Off)[k]
          BY <2>1, <2>2, <5>1
        <5> QED
          BY <5>1, <5>2 DEF SentParts
      <4> QED
        BY <4>1, <4>2
    <3> HIDE DEF s, t
    <3>4. s = t
      <4>1. s \in [1 .. Off + 1 -> Parts] /\ t \in [1 .. Off + 1 -> Parts]
        BY <3>1, <3>2
      <4> QED
        BY <3>3, <4>1
    <3> QED
      BY <3>4 DEF s, t
  <2>4. Taken(card, Packet) =
          [mode |-> card.mode, multi |-> card.multi, pos |-> card.pos, at |-> card.at + 1,
           buf |-> Append(card.buf, Packet)]
    <3> DEFINE d == [card EXCEPT !.at = @ + 1]
    <3>1. /\ d \in [mode : {"power", "tran", "csd", "read", "write", "deaf"}, multi : BOOLEAN,
                    pos : Nat, at : Int, buf : Seq(Parts)]
          /\ d.mode = card.mode /\ d.multi = card.multi /\ d.pos = card.pos
          /\ d.at = card.at + 1 /\ d.buf = card.buf
      <4>1. card \in CardStates /\ card.at + 1 \in Int
        BY <1>1, <2>1 DEF CardOK
      <4>2. d = At(card, card.at + 1)
        BY <4>1, AtIs
      <4>3. /\ card.mode \in {"power", "tran", "csd", "read", "write", "deaf"}
            /\ card.multi \in BOOLEAN /\ card.pos \in Nat /\ card.buf \in Seq(Parts)
        BY <4>1 DEF CardStates
      <4> QED
        BY <4>1, <4>2, <4>3 DEF At
    <3>2. Taken(card, Packet) = [card EXCEPT !.at = @ + 1, !.buf = Append(@, Packet)]
      BY <2>1 DEF Taken
    <3>3. [card EXCEPT !.at = @ + 1, !.buf = Append(@, Packet)] =
            [d EXCEPT !.buf = Append(@, Packet)]
      OBVIOUS
    <3> HIDE DEF d
    <3>4. [d EXCEPT !.buf = Append(@, Packet)] =
            [mode |-> d.mode, multi |-> d.multi, pos |-> d.pos, at |-> d.at,
             buf |-> Append(d.buf, Packet)]
      <4> DEFINE b == Append(d.buf, Packet)
      <4>1. ASSUME NEW x
            PROVE  [d EXCEPT !.buf = x] =
                     [mode |-> d.mode, multi |-> d.multi, pos |-> d.pos, at |-> d.at, buf |-> x]
        BY <3>1
      <4>2. [d EXCEPT !.buf = b] =
              [mode |-> d.mode, multi |-> d.multi, pos |-> d.pos, at |-> d.at, buf |-> b]
        <5> HIDE DEF b
        <5> QED
          BY <4>1
      <4> QED
        BY <4>2
    <3> QED
      BY <3>1, <3>2, <3>3, <3>4
  <2> QED
    BY <2>1, <2>3, <2>4 DEF WriteCard
<1>3. card \in Free => Taken(card, Packet) = card
  BY CardStreams DEF Taken, Free
<1> QED
  BY <1>2, <1>3

\* The response to a block: a whole one is taken or refused, anything else
\* changes nothing and is refused.
LEMMA Answer ==
  ASSUME cmd \in Commands, mbk \in BOOLEAN, Blk \in Nat, busy \in BOOLEAN, good \in BOOLEAN,
         NEW c, NEW accepted \in Verdicts(c), Respond(c, accepted),
         c \in {Power, Resting, Deaf, WriteCard(PPB)}
  PROVE  /\ accepted \in BOOLEAN /\ busy' \in BOOLEAN
         /\ ~accepted => disk' = disk
         /\ accepted => /\ c = WriteCard(PPB) /\ cmd.lba + Blk < Cap
                        /\ disk' = [disk EXCEPT ![cmd.lba + Blk] = Content(cmd.ver, cmd.lba + Blk)]
         /\ c = WriteCard(PPB) =>
              card' = IF ~mbk THEN Resting
                      ELSE IF accepted THEN Stream("write", mbk, cmd.lba + (Blk + 1)) ELSE Deaf
         /\ c # WriteCard(PPB) => card' = c
<1>1. accepted \in BOOLEAN
  BY DEF Verdicts
<1>2. busy' \in BOOLEAN /\ (~accepted => disk' = disk)
  BY <1>1 DEF Respond
<1>3. ASSUME c \in {Power, Resting, Deaf} PROVE ~accepted /\ card' = c
  <2>1. ~Whole(c)
    BY <1>3 DEF Whole, Power, Resting, Deaf, Stream
  <2> QED
    BY <2>1 DEF Verdicts, Respond
<1>4. ASSUME c = WriteCard(PPB)
      PROVE  /\ card' = IF ~mbk THEN Resting
                        ELSE IF accepted THEN Stream("write", mbk, cmd.lba + (Blk + 1)) ELSE Deaf
             /\ accepted => /\ cmd.lba + Blk < Cap
                            /\ disk' = [disk EXCEPT ![cmd.lba + Blk] =
                                          Content(cmd.ver, cmd.lba + Blk)]
  <2>1. /\ c.mode = "write" /\ c.multi = mbk /\ c.pos = cmd.lba + Blk /\ c.at = PPB
        /\ c.buf = SentParts(PPB)
    <3>1. PPB \in 0 .. PPB
      BY Bounds
    <3> QED
      BY <1>4, <3>1, WriteCards
  <2>2. Whole(c)
    BY <2>1 DEF Whole
  <2>3. (cmd.lba + Blk) + 1 = cmd.lba + (Blk + 1)
    BY CommandFields
  <2>4. SentParts(PPB) = Content(cmd.ver, cmd.lba + Blk)
    BY DEF SentParts, Content
  <2>5. card' = IF ~mbk THEN Resting
                ELSE IF accepted THEN Stream("write", mbk, cmd.lba + (Blk + 1)) ELSE Deaf
    BY <2>1, <2>2, <2>3 DEF Respond
  <2>6. accepted => cmd.lba + Blk < Cap
    BY <2>1, <2>2 DEF Verdicts
  <2>7. accepted => disk' = [disk EXCEPT ![cmd.lba + Blk] = Content(cmd.ver, cmd.lba + Blk)]
    BY <2>1, <2>4 DEF Respond
  <2> QED
    BY <2>5, <2>6, <2>7
<1> QED
  BY <1>1, <1>2, <1>3, <1>4

\* Without a card what the host writes goes nowhere, and it is told.
LEMMA WriteUnserved ==
  ASSUME Inv, Write, ctype = "none"
  PROVE  Inv' /\ disk' = disk /\ sense' # "none"
<1>1. /\ UNCHANGED <<kind, good, ctype, capacity, mbk, ok, got, delay, abandoned>>
      /\ pc = "idle" /\ cmd.op = "WRITE" /\ cmd \in Commands /\ ~abandoned
      /\ ~Opening /\ Opened
      /\ len' = len - 1
      /\ InRange(sense) = "none" => sense = "none"
      /\ InRange(sense) \in {"none", "reset", "nomedium", "range", "fault", "notready"}
  BY WriteStep
<1>2. /\ ~ok /\ ~mbk /\ sense # "none" /\ card \in {Power, Resting}
      /\ len \in 1 .. cmd.n * PPB /\ Len(got) = 0
  BY <1>1, CommandFields DEF Opened
<1>3. After = card
  BY <1>2 DEF After
<1>4. \A a \in Verdicts(card) : Respond(card, a) => ~a /\ card' = card /\ disk' = disk /\ busy' = busy
  <2>1. ~Whole(card)
    BY <1>2 DEF Whole, Power, Resting, Stream
  <2> QED
    BY <2>1 DEF Verdicts, Respond, Inv, Types, TypeOK
<1>5. /\ card' = card /\ disk' = disk /\ busy' = busy /\ UNCHANGED <<bct, ofs, residue>>
      /\ sense' # "none" /\ pc' = "idle" /\ timer1' = 0 /\ timer2' = 0
      /\ sense' \in {"none", "reset", "nomedium", "range", "fault", "notready"}
      /\ cmd' = IF len = 1 THEN NoCmd ELSE cmd
  <2>1. CASE len = 1
    BY <1>1, <1>2, <1>3, <1>4, <2>1, WriteStep
  <2>2. CASE len # 1
    BY <1>1, <1>2, <1>3, <2>2, WriteStep
  <2> QED
    BY <2>1, <2>2
<1>6. cmd.n * PPB \in Nat /\ cmd.n * PPB <= MaxLen * PPB /\ MaxLen * PPB \in Nat
  BY <1>1, CommandFields
<1>7. Types'
  <2>1. len' \in 0 .. MaxLen * PPB
    <3> DEFINE a == cmd.n * PPB  b == MaxLen * PPB
    <3>1. a \in Nat /\ b \in Nat /\ a <= b /\ len \in 1 .. a /\ len' = len - 1
      BY <1>1, <1>2, <1>6
    <3> HIDE DEF a, b
    <3>2. len' \in 0 .. b
      BY <3>1
    <3> QED
      BY <3>2 DEF b
  <2>2. Types
    BY DEF Inv
  <2>3. card' \in CardStates /\ Len(card'.buf) <= PPB
    BY <1>5, <2>2 DEF Types, TypeOK, CardOK
  <2>4. /\ busy' \in BOOLEAN /\ ofs' \in 0 .. Cap + MaxLen /\ bct' \in 0 .. PPB
        /\ mbk' \in BOOLEAN /\ ok' \in BOOLEAN /\ residue' \in 0 .. MaxLen
        /\ got' \in Seq(Parts) /\ Len(got') <= MaxLen * PPB
    BY <1>1, <1>5, <2>2 DEF Types, TypeOK
  <2> QED
    BY <1>1, <1>5, <2>1, <2>2, <2>3, <2>4, TypesKept
<1>8. Places' /\ ~Opening' /\ DiskOK'
  BY <1>1, <1>5 DEF Inv, Places, Opening, DiskOK
<1>9. Opened'
  <2>1. len # 1 => len' \in 1 .. cmd.n * PPB /\ Len(got') = 0
    <3> DEFINE a == cmd.n * PPB
    <3>1. a \in Nat /\ len \in 1 .. a /\ len' = len - 1 /\ Len(got') = 0
      BY <1>1, <1>2, <1>6
    <3> HIDE DEF a
    <3>2. len # 1 => len' \in 1 .. a /\ Len(got') = 0
      BY <3>1
    <3> QED
      BY <3>2 DEF a
  <2>2. (len # 1 => cmd' = cmd) /\ (len = 1 => cmd' = NoCmd)
    BY <1>5
  <2> QED
    BY <1>1, <1>2, <1>5, <2>1, <2>2 DEF Opened
<1>10. ~Running("READ")' /\ ~Running("WRITE")'
  BY <1>1 DEF Running
<1> QED
  BY <1>1, <1>5, <1>7, <1>8, <1>9, <1>10, CommandKeeps

\* Before a packet is written to a card.
LEMMA WriteBase ==
  ASSUME Inv, Write, ctype # "none"
  PROVE  /\ ok /\ mbk = (cmd.n > 1) /\ len \in 1 .. cmd.n * PPB
         /\ ofs = cmd.lba + Blk /\ bct = IF mbk THEN PPB - Off ELSE PPB
         /\ Written /\ Owed(cmd.n - Blk) /\ got = << >>
         /\ Sent \in Nat /\ Blk \in 0 .. cmd.n - 1 /\ Off \in 0 .. PPB - 1
         /\ \/ After = WriteCard(Off + 1)
            \/ card \in Free /\ After = card /\ (sense # "none" \/ Sent < PPB)
         /\ cmd.n \in 1 .. MaxLen /\ cmd.lba \in 0 .. Cap /\ cmd.n * PPB \in Nat
         /\ PPB \in Nat \ {0} /\ mbk \in BOOLEAN /\ Types /\ Cap \in Nat /\ MaxLen \in Nat
         /\ len' \in 0 .. MaxLen * PPB
         /\ len # 1 => len' \in 0 .. cmd.n * PPB /\ len' > 0
<1>1. /\ pc = "idle" /\ cmd.op = "WRITE" /\ cmd \in Commands /\ ~Opening /\ len' = len - 1
  BY WriteStep
<1>2. WriteGoes
  BY <1>1 DEF Inv, Running, Writes
<1>f. /\ cmd.n \in 1 .. MaxLen /\ cmd.lba \in 0 .. Cap /\ cmd.n * PPB \in Nat
      /\ cmd.n * PPB <= MaxLen * PPB /\ MaxLen * PPB \in Nat /\ PPB \in Nat \ {0}
      /\ mbk \in BOOLEAN /\ Types /\ Cap \in Nat /\ MaxLen \in Nat
  BY <1>1, CommandFields, Bounds DEF Inv, Types, TypeOK
<1>3. /\ ok /\ mbk = (cmd.n > 1) /\ len \in 1 .. cmd.n * PPB
      /\ ofs = cmd.lba + Blk /\ bct = IF mbk THEN PPB - Off ELSE PPB
      /\ Written /\ Owed(cmd.n - Blk) /\ got = << >>
      /\ card = WriteCard(Off) \/ (card \in Free /\ (sense # "none" \/ Sent < PPB))
  <2>1. ok /\ mbk = (cmd.n > 1) /\ len \in 0 .. cmd.n * PPB /\ len > 0
    BY <1>2 DEF WriteGoes, Moving
  <2>2. len \in 1 .. cmd.n * PPB
    <3>1. \A a \in Int : len \in 0 .. a /\ len > 0 => len \in 1 .. a
      OBVIOUS
    <3> QED
      BY <1>f, <2>1, <3>1
  <2> QED
    BY <1>2, <2>1, <2>2 DEF WriteGoes, Moving
<1>4. Sent \in Nat /\ Blk \in 0 .. cmd.n - 1 /\ Off \in 0 .. PPB - 1
  BY <1>1, <1>3, Counting
<1>5. \/ After = WriteCard(Off + 1)
      \/ card \in Free /\ After = card /\ (sense # "none" \/ Sent < PPB)
  <2>1. CardOK /\ Blk \in Nat
    BY <1>4, <1>f DEF Inv, Types
  <2> QED
    BY <1>1, <1>3, <1>4, <1>f, <2>1, PacketTaken DEF After
<1>6. len' \in 0 .. MaxLen * PPB /\ (len # 1 => len' \in 0 .. cmd.n * PPB /\ len' > 0)
  <2> DEFINE a == cmd.n * PPB  b == MaxLen * PPB
  <2>1. a \in Nat /\ b \in Nat /\ a <= b /\ len' = len - 1 /\ len \in 1 .. a
    BY <1>1, <1>3, <1>f
  <2> HIDE DEF a, b
  <2>2. len' \in 0 .. b /\ (len # 1 => len' \in 0 .. a /\ len' > 0)
    BY <2>1
  <2> QED
    BY <2>2 DEF a, b
<1> QED
  BY <1>3, <1>4, <1>5, <1>6, <1>f

\* The last packet of a block.
LEMMA WriteLands ==
  ASSUME Inv, Write, ctype # "none", Off = PPB - 1
  PROVE  \E accepted \in BOOLEAN :
           /\ busy' \in BOOLEAN /\ DiskOK'
           /\ sense' = IF accepted THEN InRange(sense) ELSE "fault"
           /\ \A b \in Blocks : disk'[b] # disk[b] =>
                b = cmd.lba + Blk /\ disk'[b] = Content(cmd.ver, b)
           /\ sense' = "none" =>
                \A b \in cmd.lba .. cmd.lba + Blk : b \in Blocks /\ disk'[b] = Content(cmd.ver, b)
           /\ accepted /\ mbk => card' = Stream("write", mbk, cmd.lba + (Blk + 1))
           /\ ~(accepted /\ mbk) => card' \in Free
           /\ len = 1 \/ (mbk /\ bct = 1)
           /\ len # 1 =>
                /\ bct' = PPB /\ ofs' = ofs + 1 /\ pc' = "ready" /\ goal' = "next"
                /\ timer2' = T2 /\ UNCHANGED <<residue, timer1, cmd>>
           /\ len = 1 =>
                /\ UNCHANGED <<bct, ofs>>
                /\ accepted /\ mbk => /\ pc' = "ready" /\ goal' = "stop" /\ timer2' = T2
                                      /\ UNCHANGED <<residue, timer1, cmd>>
                /\ ~(accepted /\ mbk) =>
                     /\ pc' = "idle" /\ timer1' = 0 /\ timer2' = 0 /\ cmd' = NoCmd
                     /\ residue' = IF accepted /\ InRange(sense) = "none"
                                     THEN residue - 1 ELSE residue
<1>1. cmd \in Commands /\ (InRange(sense) = "none" => sense = "none")
  BY WriteStep
<1>2. /\ mbk = (cmd.n > 1) /\ len \in 1 .. cmd.n * PPB
      /\ bct = IF mbk THEN PPB - Off ELSE PPB
      /\ Written /\ Blk \in 0 .. cmd.n - 1 /\ Blk \in Nat
      /\ After = WriteCard(Off + 1) \/ After \in Free
      /\ cmd.n \in Nat /\ cmd.lba \in Nat /\ PPB \in Nat \ {0} /\ mbk \in BOOLEAN /\ Types
      /\ Cap \in Nat
  BY WriteBase, Bounds
<1>3. len = 1 \/ (mbk /\ bct = 1)
  <2>1. len # 1 => Blk # cmd.n - 1
    BY <1>1, <1>2, Counting
  <2>2. len # 1 => cmd.n > 1
    <3>1. cmd.n \in Nat /\ Blk \in 0 .. cmd.n - 1
      BY <1>2
    <3> QED
      BY <2>1, <3>1
  <2>3. PPB - Off = 1
    <3>1. PPB \in Nat
      BY <1>2
    <3> QED
      BY <3>1
  <2> QED
    BY <1>2, <2>2, <2>3
<1>4. PICK accepted \in Verdicts(After) :
        /\ Respond(After, accepted)
        /\ sense' = IF accepted THEN InRange(sense) ELSE "fault"
        /\ len # 1 =>
             /\ bct' = PPB /\ ofs' = ofs + 1 /\ pc' = "ready" /\ goal' = "next"
             /\ timer2' = T2 /\ UNCHANGED <<residue, timer1, cmd>>
        /\ len = 1 =>
             /\ UNCHANGED <<bct, ofs>>
             /\ accepted /\ mbk => /\ pc' = "ready" /\ goal' = "stop" /\ timer2' = T2
                                   /\ UNCHANGED <<residue, timer1, cmd>>
             /\ ~(accepted /\ mbk) =>
                  /\ pc' = "idle" /\ timer1' = 0 /\ timer2' = 0 /\ cmd' = NoCmd
                  /\ residue' = IF accepted /\ InRange(sense) = "none"
                                  THEN residue - 1 ELSE residue
  BY <1>3, WriteStep
<1>5. After \in {Power, Resting, Deaf, WriteCard(PPB)}
  <2>1. Off + 1 = PPB
    <3>1. PPB \in Nat
      BY <1>2
    <3> QED
      BY <3>1
  <2> QED
    BY <1>2, <2>1 DEF Free
<1>6. /\ accepted \in BOOLEAN /\ busy' \in BOOLEAN
      /\ ~accepted => disk' = disk
      /\ accepted => /\ After = WriteCard(PPB) /\ cmd.lba + Blk < Cap
                     /\ disk' = [disk EXCEPT ![cmd.lba + Blk] = Content(cmd.ver, cmd.lba + Blk)]
      /\ After = WriteCard(PPB) =>
           card' = IF ~mbk THEN Resting
                   ELSE IF accepted THEN Stream("write", mbk, cmd.lba + (Blk + 1)) ELSE Deaf
      /\ After # WriteCard(PPB) => card' = After
  <2>1. busy \in BOOLEAN /\ good \in BOOLEAN
    BY <1>2 DEF Types, TypeOK
  <2> QED
    BY <1>1, <1>2, <1>4, <1>5, <2>1, Answer
<1>7. /\ accepted /\ mbk => card' = Stream("write", mbk, cmd.lba + (Blk + 1))
      /\ ~(accepted /\ mbk) => card' \in Free
  <2>1. After # WriteCard(PPB) => After \in Free
    <3>1. Off + 1 = PPB
      <4>1. PPB \in Nat
        BY <1>2
      <4> QED
        BY <4>1
    <3> QED
      BY <1>2, <3>1
  <2> QED
    BY <1>6, <2>1 DEF Free
<1>8. /\ DiskOK'
      /\ \A b \in Blocks : disk'[b] # disk[b] =>
           b = cmd.lba + Blk /\ disk'[b] = Content(cmd.ver, b)
      /\ accepted => cmd.lba + Blk \in Blocks /\ DOMAIN disk = Blocks
                     /\ disk'[cmd.lba + Blk] = Content(cmd.ver, cmd.lba + Blk)
  <2>1. DiskOK
    BY DEF Inv
  <2>2. cmd.ver \in {0, 1}
    BY <1>1, CommandFields
  <2>3. CASE ~accepted
    BY <1>6, <2>1, <2>3 DEF DiskOK
  <2>4. CASE accepted
    <3> DEFINE p == cmd.lba + Blk
    <3>1. p \in Blocks
      BY <1>2, <1>6, <2>4 DEF Blocks
    <3>2. disk' = [disk EXCEPT ![p] = Content(cmd.ver, p)]
      BY <1>6, <2>4
    <3> HIDE DEF p
    <3>3. /\ DOMAIN disk = Blocks /\ DOMAIN disk' = Blocks /\ disk'[p] = Content(cmd.ver, p)
          /\ \A b \in Blocks : b # p => disk'[b] = disk[b]
      BY <2>1, <3>1, <3>2 DEF DiskOK
    <3>4. DiskOK'
      <4>1. ASSUME NEW b \in Blocks PROVE \E v \in {0, 1} : disk'[b] = Content(v, b)
        <5>1. CASE b = p
          BY <2>2, <3>3, <5>1
        <5>2. CASE b # p
          BY <2>1, <3>3, <5>2 DEF DiskOK
        <5> QED
          BY <5>1, <5>2
      <4> QED
        BY <3>3, <4>1 DEF DiskOK
    <3>5. /\ \A b \in Blocks : disk'[b] # disk[b] => b = p /\ disk'[b] = Content(cmd.ver, b)
          /\ p \in Blocks /\ DOMAIN disk = Blocks /\ disk'[p] = Content(cmd.ver, p)
      BY <3>1, <3>3
    <3> QED
      BY <3>4, <3>5 DEF p
  <2> QED
    BY <2>3, <2>4
<1>9. sense' = "none" =>
        \A b \in cmd.lba .. cmd.lba + Blk : b \in Blocks /\ disk'[b] = Content(cmd.ver, b)
  <2>1. SUFFICES ASSUME sense' = "none", NEW b \in cmd.lba .. cmd.lba + Blk
                 PROVE  b \in Blocks /\ disk'[b] = Content(cmd.ver, b)
    OBVIOUS
  <2>2. accepted /\ sense = "none"
    BY <1>1, <1>4, <2>1
  <2>3. CASE b = cmd.lba + Blk
    BY <1>8, <2>2, <2>3
  <2>4. CASE b # cmd.lba + Blk
    <3>1. b \in cmd.lba .. cmd.lba + Blk - 1
      BY <1>2, <2>1, <2>4
    <3>2. b \in Blocks /\ disk[b] = Content(cmd.ver, b)
      BY <2>2, <3>1, <1>2 DEF Written
    <3>3. disk'[b] = disk[b]
      BY <1>8, <2>4, <3>2
    <3> QED
      BY <3>2, <3>3
  <2> QED
    BY <2>3, <2>4
<1> QED
  BY <1>3, <1>4, <1>6, <1>7, <1>8, <1>9

\* With a card, a packet inside a block.
LEMMA WriteInside ==
  ASSUME Inv, Write, ctype # "none", Off # PPB - 1
  PROVE  Inv' /\ disk' = disk /\ cmd' = cmd
<1>1. /\ UNCHANGED <<kind, good, ctype, capacity, mbk, ok, got, delay, abandoned>>
      /\ pc = "idle" /\ cmd.op = "WRITE" /\ cmd \in Commands /\ ~abandoned
      /\ ~Opening /\ Opened
      /\ len' = len - 1
      /\ InRange(sense) = "none" => sense = "none"
      /\ InRange(sense) \in {"none", "reset", "nomedium", "range", "fault", "notready"}
  BY WriteStep
<1>2. /\ ok /\ mbk = (cmd.n > 1) /\ len \in 1 .. cmd.n * PPB
      /\ ofs = cmd.lba + Blk /\ bct = IF mbk THEN PPB - Off ELSE PPB
      /\ Written /\ Owed(cmd.n - Blk) /\ got = << >>
      /\ Sent \in Nat /\ Blk \in 0 .. cmd.n - 1 /\ Off \in 0 .. PPB - 1
      /\ \/ After = WriteCard(Off + 1)
         \/ card \in Free /\ After = card /\ (sense # "none" \/ Sent < PPB)
      /\ cmd.n \in 1 .. MaxLen /\ cmd.lba \in 0 .. Cap /\ PPB \in Nat \ {0} /\ mbk \in BOOLEAN
      /\ Types /\ len' \in 0 .. MaxLen * PPB
      /\ len # 1 => len' \in 0 .. cmd.n * PPB /\ len' > 0
  BY WriteBase
<1>3. /\ Sent + 1 = cmd.n * PPB - (len - 1) /\ (Sent < PPB <=> Blk = 0)
      /\ (Sent + 1) \div PPB = Blk /\ (Sent + 1) % PPB = Off + 1 /\ len > 1
  BY <1>1, <1>2, Counting
<1>b. len # 1 /\ ~(mbk /\ bct = 1)
  <2>1. Off \in Nat /\ PPB \in Nat /\ Off # PPB - 1
    BY <1>2
  <2> QED
    BY <1>2, <1>3, <2>1
<1>4. /\ bct' = (IF mbk THEN bct - 1 ELSE bct)
      /\ card' = After /\ sense' = InRange(sense)
      /\ UNCHANGED <<ofs, busy, disk, residue, cmd>>
      /\ pc' = "idle" /\ timer1' = 0 /\ timer2' = 0
  BY <1>b, WriteStep
<1>5. Sent' = Sent + 1 /\ Blk' = Blk /\ Off' = Off + 1
  BY <1>1, <1>3, <1>4 DEF Sent, Blk, Off
<1>6. card' \in CardStates /\ Len(card'.buf) <= PPB
  <2>1. Off + 1 \in 0 .. PPB /\ Blk \in Nat
    BY <1>2
  <2>2. WriteCard(Off + 1) \in CardStates /\ Len(WriteCard(Off + 1).buf) = Off + 1
    BY <1>1, <1>2, <2>1, WriteCards
  <2>3. \A c \in Free : c \in CardStates /\ Len(c.buf) = 0
    BY CardStreams DEF Free
  <2> QED
    BY <1>2, <1>4, <2>1, <2>2, <2>3, Bounds
<1>c. bct' = (IF mbk THEN PPB - (Off + 1) ELSE PPB) /\ bct' \in 0 .. PPB
  <2>1. Off \in 0 .. PPB - 1 /\ PPB \in Nat
    BY <1>2
  <2> QED
    BY <1>2, <1>4, <2>1
<1>7. Types'
  <2>1. /\ busy' \in BOOLEAN /\ ofs' \in 0 .. Cap + MaxLen /\ mbk' \in BOOLEAN /\ ok' \in BOOLEAN
        /\ residue' \in 0 .. MaxLen /\ got' \in Seq(Parts) /\ Len(got') <= MaxLen * PPB
    BY <1>1, <1>2, <1>4 DEF Types, TypeOK
  <2> QED
    BY <1>1, <1>2, <1>4, <1>6, <1>c, <2>1, TypesKept
<1>8. Places' /\ ~Opening' /\ DiskOK'
  BY <1>1, <1>4 DEF Inv, Places, Opening, DiskOK
<1>9. Opened'
  BY <1>1, <1>4, CommandFields DEF Inv, Running, Opened, Addressing
<1>10. WriteGoes'
  <2>1. Moving' /\ len' > 0
    BY <1>1, <1>2, <1>3, <1>4, <1>5, <1>c DEF Moving
  <2>2. Written'
    BY <1>1, <1>2, <1>4, <1>5 DEF Written
  <2>3. Owed(cmd.n - Blk)'
    BY <1>1, <1>2, <1>4, <1>5 DEF Owed
  <2>4. card' = WriteCard(Off)' \/ (card' \in Free /\ (sense' # "none" \/ Sent' < PPB))
    <3>1. WriteCard(Off)' = WriteCard(Off + 1)
      BY <1>1, <1>4, <1>5 DEF WriteCard, SentParts
    <3>2. Sent < PPB => Sent + 1 < PPB
      <4>1. HAVE Sent < PPB
      <4>2. Sent + 1 # PPB
        <5>1. Sent + 1 = PPB => (Sent + 1) % PPB = 0
          <6>1. 0 \in 0 .. PPB - 1 /\ 1 * PPB + 0 = PPB
            BY <1>2
          <6>2. (1 * PPB + 0) % PPB = 0
            BY <1>2, <6>1, DivUnique
          <6> QED
            BY <6>1, <6>2
        <5> QED
          BY <1>2, <1>3, <5>1
      <4> QED
        BY <1>2, <4>1, <4>2
    <3> QED
      BY <1>1, <1>2, <1>4, <1>5, <3>1, <3>2
  <2> QED
    BY <1>1, <1>2, <2>1, <2>2, <2>3, <2>4 DEF WriteGoes, Free
<1>11. (Running("READ") => Reads)' /\ (Running("WRITE") => Writes)'
  BY <1>1, <1>4, <1>10 DEF Running, Writes
<1> QED
  BY <1>1, <1>4, <1>7, <1>8, <1>9, <1>11, CommandKeeps

\* With a card, the last packet of a block.
LEMMA WriteServed ==
  ASSUME Inv, Write, ctype # "none", Off = PPB - 1
  PROVE  /\ Inv'
         /\ \A b \in Blocks : disk'[b] # disk[b] =>
              b \in Range /\ disk'[b] = Content(cmd.ver, b)
         /\ cmd' = NoCmd /\ sense' = "none" =>
              residue' = 0 /\ \A b \in Range : disk'[b] = Content(cmd.ver, b)
<1>1. /\ UNCHANGED <<kind, good, ctype, capacity, mbk, ok, got, delay, abandoned>>
      /\ pc = "idle" /\ cmd.op = "WRITE" /\ cmd \in Commands /\ ~abandoned
      /\ ~Opening /\ Opened
      /\ len' = len - 1
      /\ InRange(sense) = "none" => sense = "none"
      /\ InRange(sense) \in {"none", "reset", "nomedium", "range", "fault", "notready"}
  BY WriteStep
<1>2. /\ ok /\ mbk = (cmd.n > 1) /\ len \in 1 .. cmd.n * PPB
      /\ ofs = cmd.lba + Blk /\ Owed(cmd.n - Blk) /\ got = << >>
      /\ Sent \in Nat /\ Blk \in 0 .. cmd.n - 1 /\ Off \in 0 .. PPB - 1
      /\ cmd.n \in 1 .. MaxLen /\ cmd.lba \in 0 .. Cap /\ PPB \in Nat \ {0} /\ mbk \in BOOLEAN
      /\ Types /\ len' \in 0 .. MaxLen * PPB /\ Cap \in Nat /\ MaxLen \in Nat
      /\ len # 1 => len' \in 0 .. cmd.n * PPB /\ len' > 0
      /\ cmd.n * PPB \in Nat
  BY WriteBase
<1>3. /\ Sent + 1 = cmd.n * PPB - (len - 1)
      /\ (Sent + 1) \div PPB = Blk + 1 /\ (Sent + 1) % PPB = 0
      /\ len = 1 <=> Blk = cmd.n - 1
  BY <1>1, <1>2, Counting
<1>4. PICK accepted \in BOOLEAN :
        /\ busy' \in BOOLEAN /\ DiskOK'
        /\ sense' = IF accepted THEN InRange(sense) ELSE "fault"
        /\ \A b \in Blocks : disk'[b] # disk[b] =>
             b = cmd.lba + Blk /\ disk'[b] = Content(cmd.ver, b)
        /\ sense' = "none" =>
             \A b \in cmd.lba .. cmd.lba + Blk : b \in Blocks /\ disk'[b] = Content(cmd.ver, b)
        /\ accepted /\ mbk => card' = Stream("write", mbk, cmd.lba + (Blk + 1))
        /\ ~(accepted /\ mbk) => card' \in Free
        /\ len = 1 \/ (mbk /\ bct = 1)
        /\ len # 1 =>
             /\ bct' = PPB /\ ofs' = ofs + 1 /\ pc' = "ready" /\ goal' = "next"
             /\ timer2' = T2 /\ UNCHANGED <<residue, timer1, cmd>>
        /\ len = 1 =>
             /\ UNCHANGED <<bct, ofs>>
             /\ accepted /\ mbk => /\ pc' = "ready" /\ goal' = "stop" /\ timer2' = T2
                                   /\ UNCHANGED <<residue, timer1, cmd>>
             /\ ~(accepted /\ mbk) =>
                  /\ pc' = "idle" /\ timer1' = 0 /\ timer2' = 0 /\ cmd' = NoCmd
                  /\ residue' = IF accepted /\ InRange(sense) = "none"
                                  THEN residue - 1 ELSE residue
  BY WriteLands
<1>s. cmd' = cmd => Sent' = Sent + 1 /\ Blk' = Blk + 1 /\ Off' = 0
  BY <1>1, <1>3 DEF Sent, Blk, Off
<1>w. cmd' = cmd => Written' /\ Stream("write", mbk, cmd.lba + (Blk + 1)) = WriteGap'
  <2>1. HAVE cmd' = cmd
  <2>2. cmd.lba + (Blk + 1) - 1 = cmd.lba + Blk
    <3>1. Blk \in Nat /\ cmd.lba \in Nat
      BY <1>2
    <3> QED
      BY <3>1
  <2>3. Written'
    BY <1>4, <1>s, <2>1, <2>2 DEF Written
  <2>4. Stream("write", mbk, cmd.lba + (Blk + 1)) = WriteGap'
    BY <1>1, <1>s, <2>1 DEF WriteGap
  <2> QED
    BY <2>3, <2>4
<1>c. card' \in CardStates /\ Len(card'.buf) <= PPB
  <2>1. \A c \in Free : c \in CardStates /\ c.buf = << >>
    BY CardStreams DEF Free
  <2>2. cmd.lba + (Blk + 1) \in Nat
    BY <1>2
  <2>3. Stream("write", mbk, cmd.lba + (Blk + 1)) \in CardStates
        /\ Stream("write", mbk, cmd.lba + (Blk + 1)).buf = << >>
    BY <1>2, <2>2, CardStreams DEF Stream
  <2>4. card' \in CardStates /\ card'.buf = << >>
    BY <1>4, <2>1, <2>3
  <2> QED
    BY <2>4, Bounds
<1>t. /\ sense' \in {"none", "reset", "nomedium", "range", "fault", "notready"}
      /\ sense' = "none" => accepted /\ InRange(sense) = "none" /\ sense = "none"
      /\ mbk' \in BOOLEAN /\ ok' \in BOOLEAN /\ residue \in 0 .. MaxLen
      /\ got' \in Seq(Parts) /\ Len(got') <= MaxLen * PPB
  BY <1>1, <1>2, <1>4 DEF Types, TypeOK
<1>5. \A b \in Blocks : disk'[b] # disk[b] => b \in Range /\ disk'[b] = Content(cmd.ver, b)
  <2>1. cmd.lba + Blk \in Range
    <3>1. cmd.lba \in Nat /\ cmd.n \in Nat /\ Blk \in 0 .. cmd.n - 1
      BY <1>2
    <3> QED
      BY <3>1 DEF Range
  <2> QED
    BY <1>4, <2>1
<1>6. CASE len # 1
  <2>1. /\ bct' = PPB /\ ofs' = ofs + 1 /\ pc' = "ready" /\ goal' = "next" /\ mbk
        /\ timer2' = T2 /\ UNCHANGED <<residue, timer1, cmd>>
    BY <1>4, <1>6
  <2>2. Types'
    <3>1. ofs' \in 0 .. Cap + MaxLen
      <4>1. cmd.lba \in 0 .. Cap /\ cmd.n \in 1 .. MaxLen /\ Blk \in 0 .. cmd.n - 1
            /\ Cap \in Nat /\ MaxLen \in Nat /\ ofs' = cmd.lba + Blk + 1
        BY <1>2, <2>1
      <4> QED
        BY <4>1
    <3>2. bct' \in 0 .. PPB /\ residue' \in 0 .. MaxLen
      BY <1>t, <2>1, Bounds
    <3> QED
      BY <1>1, <1>2, <1>4, <1>c, <1>t, <2>1, <3>1, <3>2, TypesKept
  <2>3. Places' /\ ~Opening'
    BY <1>1, <2>1 DEF Inv, Places, Opening, OpenGoals
  <2>4. Opened'
    BY <1>1, <2>1, CommandFields DEF Opened, Addressing
  <2>5. WriteTurns'
    <3>1. Moving' /\ len' > 0
      <4>1. ofs' = cmd.lba + (Blk + 1) /\ bct' = PPB - 0
        <5>1. /\ cmd.lba \in Nat /\ Blk \in Nat /\ PPB \in Nat
              /\ ofs' = (cmd.lba + Blk) + 1 /\ bct' = PPB
          BY <1>2, <2>1
        <5> QED
          BY <5>1
      <4> QED
        BY <1>1, <1>2, <1>6, <1>s, <2>1, <4>1 DEF Moving
    <3>2. Written' /\ WriteGap' = Stream("write", mbk, cmd.lba + (Blk + 1))
      BY <1>w, <2>1
    <3>3. Owed(cmd.n - Blk + 1)'
      <4>1. cmd.n - (Blk + 1) + 1 = cmd.n - Blk
        <5>1. cmd.n \in Nat /\ Blk \in Nat
          BY <1>2
        <5> QED
          BY <5>1
      <4> QED
        BY <1>1, <1>2, <1>s, <1>t, <2>1, <4>1 DEF Owed
    <3>4. card' = WriteGap' \/ (card' \in Free /\ sense' # "none")
      BY <1>4, <1>t, <2>1, <3>2
    <3>5. Off' = 0 /\ Sent' > 0 /\ mbk' /\ got' = << >>
      BY <1>1, <1>2, <1>s, <2>1
    <3> QED
      BY <3>1, <3>2, <3>3, <3>4, <3>5 DEF WriteTurns, Free
  <2>6. (Running("READ") => Reads)' /\ (Running("WRITE") => Writes)'
    BY <1>1, <2>1, <2>5 DEF Running, Writes
  <2>7. Inv'
    BY <1>1, <1>4, <2>2, <2>3, <2>4, <2>6, CommandKeeps
  <2> QED
    BY <1>1, <1>5, <2>1, <2>7, CommandFields
<1>7. CASE len = 1 /\ accepted /\ mbk
  <2>1. /\ UNCHANGED <<bct, ofs>> /\ pc' = "ready" /\ goal' = "stop" /\ timer2' = T2
        /\ UNCHANGED <<residue, timer1, cmd>>
    BY <1>4, <1>7
  <2>2. Types'
    <3>1. bct' \in 0 .. PPB /\ residue' \in 0 .. MaxLen /\ ofs' \in 0 .. Cap + MaxLen
      BY <1>2, <2>1 DEF Types, TypeOK
    <3> QED
      BY <1>1, <1>2, <1>4, <1>c, <1>t, <2>1, <3>1, TypesKept
  <2>3. Places' /\ ~Opening'
    BY <1>1, <2>1 DEF Inv, Places, Opening, OpenGoals
  <2>4. Opened'
    BY <1>1, <2>1, CommandFields DEF Opened, Addressing
  <2>5. WriteEnds'
    <3>1. Moving' /\ len' = 0
      <4>1. len' = 0 /\ 0 \in 0 .. cmd.n * PPB
        BY <1>1, <1>2, <1>7
      <4> QED
        BY <1>1, <1>2, <2>1, <4>1 DEF Moving
    <3>2. Owed(1)'
      <4>1. cmd.n - Blk = 1
        <5>1. cmd.n \in Nat /\ Blk = cmd.n - 1
          BY <1>2, <1>3, <1>7
        <5> QED
          BY <5>1
      <4> QED
        BY <1>1, <1>2, <1>t, <2>1, <4>1 DEF Owed
    <3> QED
      BY <1>1, <1>2, <1>4, <1>7, <1>w, <2>1, <3>1, <3>2 DEF WriteEnds
  <2>6. (Running("READ") => Reads)' /\ (Running("WRITE") => Writes)'
    BY <1>1, <2>1, <2>5 DEF Running, Writes
  <2>7. Inv'
    BY <1>1, <1>4, <2>2, <2>3, <2>4, <2>6, CommandKeeps
  <2> QED
    BY <1>1, <1>5, <2>1, <2>7, CommandFields
<1>8. CASE len = 1 /\ ~(accepted /\ mbk)
  <2>1. /\ UNCHANGED <<bct, ofs>> /\ pc' = "idle" /\ timer1' = 0 /\ timer2' = 0 /\ cmd' = NoCmd
        /\ residue' = IF accepted /\ InRange(sense) = "none" THEN residue - 1 ELSE residue
        /\ card' \in Free
    BY <1>4, <1>8
  <2>2. residue >= 1 /\ (sense = "none" => residue = 1) /\ Blk = cmd.n - 1
    <3>1. cmd.n \in Nat /\ Blk = cmd.n - 1
      BY <1>2, <1>3, <1>8
    <3>2. cmd.n - Blk = 1
      BY <3>1
    <3> QED
      BY <1>2, <3>1, <3>2 DEF Owed
  <2>3. Inv'
    <3>1. ctype # "none" => Addressing
      BY <1>1 DEF Opened
    <3>2. bct' \in 0 .. PPB
      BY <1>2, <2>1 DEF Types, TypeOK
    <3>3. residue' = residue \/ residue' = residue - 1
      BY <2>1
    <3> QED
      BY <1>1, <1>2, <1>4, <1>t, <2>1, <2>2, <3>1, <3>2, <3>3, CommandOver
  <2>4. sense' = "none" => residue' = 0 /\ \A b \in Range : disk'[b] = Content(cmd.ver, b)
    <3>1. HAVE sense' = "none"
    <3>2. residue' = 0
      BY <1>t, <2>1, <2>2, <3>1
    <3>3. Range = cmd.lba .. cmd.lba + Blk
      <4>1. cmd.lba \in Nat /\ cmd.n \in Nat
        BY <1>2
      <4>2. cmd.lba + cmd.n - 1 = cmd.lba + Blk
        BY <2>2, <4>1
      <4> QED
        BY <4>2 DEF Range
    <3> QED
      BY <1>4, <3>1, <3>2, <3>3
  <2> QED
    BY <1>5, <2>3, <2>4
<1> QED
  BY <1>6, <1>7, <1>8

-----------------------------------------------------------------------------
(* The invariant                                                           *)

LEMMA ReadKeeps == Inv /\ Read => Inv'
BY ReadUnserved, ReadServed

LEMMA WriteKeeps == Inv /\ Write => Inv'
BY WriteUnserved, WriteInside, WriteServed

LEMMA InitInv == Init => Inv
<1> SUFFICES ASSUME Init PROVE Inv
  OBVIOUS
<1>1. Power \in CardStates /\ Power.buf = << >>
  <2>1. Power = [mode |-> "power", multi |-> Resting.multi, pos |-> Resting.pos,
                 at |-> Resting.at, buf |-> Resting.buf]
    BY CardStreams DEF Power, CardStates
  <2>2. Resting \in CardStates /\ Resting.buf = << >>
    BY CardStreams
  <2> QED
    BY <2>1, <2>2 DEF CardStates
<1>2. card = Power /\ busy \in BOOLEAN
  BY DEF Init, Power
<1>3. Len(card.buf) <= PPB /\ card.mode \in {"power", "tran", "csd", "read", "write", "deaf"}
      /\ card.at \in Error .. PPB
  BY <1>1, <1>2, Bounds DEF CardStates
<1>4. /\ 0 \in 0 .. Cap + MaxLen /\ 0 \in 0 .. MaxLen * PPB /\ 0 \in 0 .. PPB /\ 0 \in 0 .. MaxLen
      /\ Settle \in 0 .. Settle /\ 0 \in 0 .. T1Open + T1 /\ 0 \in 0 .. T2
      /\ << >> \in Seq(Parts) /\ Len(<< >>) <= MaxLen * PPB
  <2>1. MaxLen * PPB \in Nat
    BY Bounds
  <2> QED
    BY <2>1, Bounds
<1>5. Types
  BY <1>1, <1>2, <1>3, <1>4 DEF Init, Types, TypeOK, CardOK
<1>6. DiskOK
  BY DEF Init, DiskOK
<1>7. Places /\ Opening
  BY DEF Init, Places, Opening
<1>8. OpenOK
  BY <1>2 DEF Init, OpenOK
<1> QED
  BY <1>5, <1>6, <1>7, <1>8 DEF Inv

LEMMA StutterKeeps == Inv /\ UNCHANGED vars => Inv'
<1> SUFFICES ASSUME Inv, UNCHANGED vars PROVE Inv'
  OBVIOUS
<1>1. UNCHANGED Core /\ UNCHANGED <<busy, delay, timer1, timer2>>
  BY DEF vars, Core
<1>2. Types' /\ Places'
  BY <1>1 DEF Inv, Types, TypeOK, CardOK, Places, Core
<1> QED
  BY <1>1, <1>2, CoreKept

LEMMA NextInv == Inv /\ [Next]_vars => Inv'
BY OpenDelayKeeps, OpenCommandKeeps, OpenCsdKeeps, ReadCommandKeeps, ReadFirstKeeps, ReadKeeps,
   ReadNextKeeps, ReadStopKeeps, WriteCommandKeeps, WriteFirstKeeps, WriteKeeps, WriteNextKeeps,
   WriteStopKeeps, CardReadyKeeps, CardAnswersKeeps, TickKeeps, BeginKeeps, AbandonKeeps,
   StutterKeeps
DEF Next, Open, Reading, Writing, Card

LEMMA Invariance == Spec => []Inv
BY InitInv, NextInv, PTL DEF Spec

\* The driver's counters, the card's state and the timers stay in their ranges,
\* and no more packets are handed to the host than a command can ask for.
THEOREM TypeInvariance == Spec => []TypeOK
<1>1. Inv => TypeOK
  BY DEF Inv, Types
<1> QED
  BY <1>1, Invariance, PTL

-----------------------------------------------------------------------------
(* What has been read, and what has been written                           *)

\* The actions that leave the host's command and the blocks alone.
LEMMA OtherSteps ==
  ASSUME [Next]_vars, ~Read, ~ReadStop, ~Write, ~WriteStop, ~Abandon
  PROVE  disk' = disk /\ (cmd' = cmd \/ cmd = NoCmd)
<1>1. OpenDelay \/ OpenCommand \/ OpenCsd => disk' = disk /\ cmd' = cmd
  BY DEF OpenDelay, OpenCommand, OpenCsd, OpenFrame, hostVars
<1>2. ReadCommand \/ ReadFirst \/ ReadNext => disk' = disk /\ cmd' = cmd
  BY DEF ReadCommand, ReadFirst, ReadNext
<1>3. WriteCommand \/ WriteFirst \/ WriteNext => disk' = disk /\ cmd' = cmd
  BY DEF WriteCommand, WriteFirst, WriteNext
<1>4. CardReady \/ CardAnswers \/ Tick => disk' = disk /\ cmd' = cmd
  BY DEF CardReady, CardAnswers, Tick, hostVars, cardVars
<1>5. Begin => disk' = disk /\ cmd = NoCmd
  BY DEF Begin, Setup, cardVars
<1>6. UNCHANGED vars => disk' = disk /\ cmd' = cmd
  BY DEF vars
<1> QED
  BY <1>1, <1>2, <1>3, <1>4, <1>5, <1>6 DEF Next, Open, Reading, Writing, Card

\* Giving a command up leaves packets of it.
LEMMA AbandonLeaves ==
  ASSUME Inv, Abandon
  PROVE  len' # 0 /\ disk' = disk
<1>1. pc = "idle" /\ cmd # NoCmd /\ len' = len /\ disk' = disk
  BY DEF Abandon, xferVars, cardVars
<1>2. ~Opening /\ Opened /\ cmd \in Commands
  BY <1>1 DEF Inv, Opening, Types
<1>3. CASE ctype = "none"
  <2>1. len \in 1 .. cmd.n * PPB /\ cmd.n * PPB \in Int
    BY <1>1, <1>2, <1>3, CommandFields DEF Opened
  <2> QED
    BY <1>1, <2>1
<1>4. CASE ctype # "none"
  <2>1. Running("READ") \/ Running("WRITE")
    BY <1>1, <1>2, <1>4, CommandFields DEF Running
  <2>2. len > 0 /\ len \in 0 .. cmd.n * PPB /\ cmd.n * PPB \in Int
    BY <1>1, <1>2, <2>1, CommandFields
    DEF Inv, Reads, Writes, ReadGoes, WriteGoes, Moving
  <2>3. len # 0
    BY <2>2
  <2> QED
    BY <1>1, <2>3
<1> QED
  BY <1>3, <1>4

\* The last packet of a READ of one block.
LEMMA ReadLast ==
  ASSUME Inv, Read, cmd' = NoCmd, sense' = "none"
  PROVE  /\ residue' = 0
         /\ got' = [i \in 1 .. cmd.n * PPB |->
                      disk[cmd.lba + (i - 1) \div PPB][1 + ((i - 1) % PPB)]]
<1>1. /\ cmd \in Commands /\ (sense' = "none" => sense = "none") /\ Opened
      /\ len # 1 => cmd' = cmd
      /\ len = 1 /\ mbk => cmd' = cmd
      /\ len = 1 /\ ~mbk => residue' = IF sense' = "none" THEN residue - 1 ELSE residue
  BY ReadStep
<1>2. cmd # NoCmd /\ cmd.n * PPB \in Nat /\ cmd.n \in Nat
  BY <1>1, CommandFields
<1>3. len = 1 /\ ~mbk /\ residue' = residue - 1 /\ sense = "none"
  BY <1>1, <1>2 DEF Inv, Types, TypeOK
<1>4. ctype # "none"
  BY <1>1, <1>3 DEF Opened
<1>5. /\ Owed(cmd.n - Blk) /\ Sent \in Nat /\ Blk \in 0 .. cmd.n - 1
      /\ Sent + 1 = cmd.n * PPB - (len - 1)
      /\ Off = PPB - 1 => (len = 1 <=> Blk = cmd.n - 1)
      /\ Off # PPB - 1 => len > 1
      /\ got' \in Seq(Parts) /\ Len(got') = Sent + 1
      /\ sense' = "none" =>
           \A i \in 1 .. Len(got') :
             got'[i] = disk[cmd.lba + (i - 1) \div PPB][1 + ((i - 1) % PPB)]
  BY <1>4, ReadBase
<1>6. Blk = cmd.n - 1
  BY <1>3, <1>5
<1>7. residue' = 0
  <2>1. cmd.n - Blk = 1
    BY <1>2, <1>6
  <2>2. residue = 1
    BY <1>3, <1>5, <2>1 DEF Owed
  <2> QED
    BY <1>3, <2>2
<1>8. Len(got') = cmd.n * PPB
  BY <1>2, <1>3, <1>5
<1> QED
  BY <1>2, <1>5, <1>7, <1>8

\* The stop of a READ of several blocks.
LEMMA ReadStopLast ==
  ASSUME Inv, ReadStop, sense' = "none"
  PROVE  /\ residue' = 0
         /\ got' = [i \in 1 .. cmd.n * PPB |->
                      disk[cmd.lba + (i - 1) \div PPB][1 + ((i - 1) % PPB)]]
<1>1. /\ ReadEnds /\ cmd \in Commands /\ got' = got /\ sense' = sense
      /\ residue' = IF sense = "none" THEN residue - 1 ELSE residue
  BY ReadStopEnds
<1>2. cmd.n * PPB \in Nat
  BY <1>1, CommandFields
<1>3. residue' = 0
  BY <1>1 DEF ReadEnds, Owed
<1>4. Len(got) = cmd.n * PPB
  BY <1>1, Extremes DEF ReadEnds, Delivered
<1>5. got \in Seq(Parts)
  BY DEF Inv, Types, TypeOK
<1>6. \A i \in 1 .. Len(got) : got[i] = disk[cmd.lba + (i - 1) \div PPB][1 + ((i - 1) % PPB)]
  BY <1>1 DEF ReadEnds, Delivered
<1> QED
  BY <1>1, <1>2, <1>3, <1>4, <1>5, <1>6

\* A READ that ends without sense data has delivered every block in its place
\* and left no residue, for every card, address and length.
THEOREM ReadsAreTruthful == Spec => ReadTruthful
<1>1. ASSUME Inv, [Next]_vars, Ends("READ")
      PROVE  /\ residue' = 0
             /\ got' = [i \in 1 .. cmd.n * PPB |->
                          disk[cmd.lba + (i - 1) \div PPB][1 + ((i - 1) % PPB)]]
  <2>1. cmd.op = "READ" /\ cmd' = NoCmd /\ sense' = "none" /\ len' = 0
    BY <1>1 DEF Ends
  <2>2. cmd' # cmd /\ cmd # NoCmd
    BY <2>1 DEF NoCmd
  <2>3. ~Write
    BY <2>1 DEF Write
  <2>4. ~WriteStop
    BY <1>1, <2>1, WriteStopEnds
  <2>5. ~Abandon
    BY <1>1, <2>1, AbandonLeaves
  <2>6. Read \/ ReadStop
    BY <1>1, <2>2, <2>3, <2>4, <2>5, OtherSteps
  <2> QED
    BY <1>1, <2>1, <2>6, ReadLast, ReadStopLast
<1> QED
  BY <1>1, Invariance, PTL DEF Spec, ReadTruthful

\* The stop of a WRITE of several blocks.
LEMMA WriteStopLast ==
  ASSUME Inv, WriteStop, sense' = "none"
  PROVE  residue' = 0 /\ \A b \in Range : disk'[b] = Content(cmd.ver, b)
<1>1. /\ WriteEnds /\ cmd \in Commands /\ disk' = disk /\ sense' = sense
      /\ residue' = IF sense = "none" THEN residue - 1 ELSE residue
  BY WriteStopEnds
<1>2. residue' = 0
  BY <1>1 DEF WriteEnds, Owed
<1>3. Blk = cmd.n
  BY <1>1, Extremes DEF WriteEnds
<1> QED
  BY <1>1, <1>2, <1>3 DEF WriteEnds, Written, Range

\* A WRITE changes no block but its own and puts nothing else in them; when it
\* ends without sense data all of it is on the card.
THEOREM WritesAreTruthful == Spec => WriteTruthful
<1> DEFINE Lands == \A b \in Blocks :
             disk'[b] # disk[b] /\ ~abandoned =>
               cmd.op = "WRITE" /\ b \in Range /\ disk'[b] = Content(cmd.ver, b)
           Lasts == Ends("WRITE") =>
             residue' = 0 /\ \A b \in Range : disk'[b] = Content(cmd.ver, b)
<1>1. ASSUME Inv, Write PROVE Lands /\ Lasts
  <2>1. cmd.op = "WRITE" /\ cmd \in Commands
    BY <1>1, WriteStep
  <2>2. CASE ctype = "none"
    BY <1>1, <2>2, WriteUnserved DEF Ends
  <2>3. CASE ctype # "none" /\ Off # PPB - 1
    BY <1>1, <2>1, <2>3, WriteInside, CommandFields DEF Ends
  <2>4. CASE ctype # "none" /\ Off = PPB - 1
    BY <1>1, <2>1, <2>4, WriteServed DEF Ends
  <2> QED
    BY <2>2, <2>3, <2>4
<1>2. ASSUME Inv, WriteStop PROVE Lands /\ Lasts
  <2>1. disk' = disk
    BY <1>2, WriteStopEnds
  <2> QED
    BY <1>2, <2>1, WriteStopLast DEF Ends
<1>3. ASSUME Inv, Read PROVE Lands /\ Lasts
  BY <1>3, ReadStep DEF Ends
<1>4. ASSUME Inv, ReadStop PROVE Lands /\ Lasts
  BY <1>4, ReadStopEnds DEF Ends
<1>5. ASSUME Inv, Abandon PROVE Lands /\ Lasts
  BY <1>5, AbandonLeaves DEF Ends
<1>6. ASSUME [Next]_vars, ~Read, ~ReadStop, ~Write, ~WriteStop, ~Abandon PROVE Lands /\ Lasts
  <2>1. disk' = disk /\ (cmd' = cmd \/ cmd = NoCmd)
    BY <1>6, OtherSteps
  <2>2. ~Ends("WRITE")
    BY <2>1 DEF Ends, NoCmd
  <2> QED
    BY <2>1, <2>2
<1>7. Inv /\ [Next]_vars => Lands /\ Lasts
  BY <1>1, <1>2, <1>3, <1>4, <1>5, <1>6
<1> QED
  BY <1>7, Invariance, PTL DEF Spec, WriteTruthful
=============================================================================
