------------------------------ MODULE MmcCard ------------------------------
(***************************************************************************)
(* StorageMmc: an MMC, SD or SDHC card on SPI as the storage behind        *)
(* MsClass, from power-up (Open, before main) to the READ and WRITE        *)
(* commands, whose CmdRead, Read, CmdWrite and Write run in the USB        *)
(* interrupt.                                                              *)
(*                                                                         *)
(* The driver polls the card in three kinds of loops, each bounded by a    *)
(* timer that SysTick_Handler counts down; a loop is one wait here, left   *)
(* when the card answers or the timer is 0.  Between two waits the driver  *)
(* is not disturbed.  Data is counted in packets of 64 bytes.              *)
(***************************************************************************)
EXTENDS Integers, Sequences

CONSTANTS
  Kinds,   \* the cards in the slot: "none", "MMC", "SD1", "SD2", "SDHC"
  Cap,     \* blocks on the card (bound)
  PPB,     \* packets in a block (8 in the code)
  MaxLen,  \* blocks in a command (bound)
  Settle,  \* ticks of dmsDelay in Open (20 in the code)
  T1Open,  \* ticks of Timer1 in Open (100 in the code)
  T1,      \* ticks of Timer1 for a data token (20 in the code)
  T2       \* ticks of Timer2 in wait_ready (50 in the code)

ASSUME MmcAssumption ==
  /\ Kinds \subseteq {"none", "MMC", "SD1", "SD2", "SDHC"}
  /\ {Cap, PPB, MaxLen, Settle, T1Open, T1, T2} \subseteq Nat \ {0}

\* Priorities, 0 the highest: SysTick_Config gives SysTick the lowest, UsbHw
\* sets 0x80.
SysTickPriority == 240
UsbPriority     == 128

VARIABLES
  kind, good,      \* the card; it never fails, and the host stays in its range
  card,            \* the card's side of a transfer
  busy,            \* the card holds the line low: programming
  disk,            \* its blocks
  ctype,           \* CardType; "none": STA_NOINIT
  capacity, ofs, len, bct, mbk, ok,   \* members; len and bct in packets
  residue, sense,  \* CSW.dDataResidue in blocks and SenseData of MsClass
  delay, timer1, timer2,
  pc,              \* where the driver waits
  goal,            \* what it goes on with
  cmd,             \* the command MsClass works on
  got,             \* packets handed to the host
  abandoned        \* the host has left a transfer open on the card

cardVars == <<card, busy, disk>>
openVars == <<ctype, capacity>>
xferVars == <<ofs, len, bct, mbk, ok, residue, sense>>
timers   == <<delay, timer1, timer2>>
hostVars == <<cmd, got, abandoned>>
vars == <<kind, good, card, busy, disk, ctype, capacity, ofs, len, bct, mbk, ok,
          residue, sense, delay, timer1, timer2, pc, goal, cmd, got, abandoned>>

Blocks == 0 .. Cap - 1
None   == 255    \* no response within 10 attempts
NoCmd  == [op |-> "none", lba |-> 0, n |-> 0, ver |-> 0]

\* What the host writes to block b, part k, in version v.
Part(v, b, k) == [ver |-> v, block |-> b, part |-> k]
Content(v, b) == [k \in 1 .. PPB |-> Part(v, b, k)]

-----------------------------------------------------------------------------
(* The card (external).  at is how far the current block has got: a read   *)
(* stream is in the gap before a block, has its start or error token on    *)
(* the line, or has sent some of its parts; a write stream waits for the   *)
(* token in the gap, or has taken some parts.  In any state but "tran" the *)
(* card takes no command except the one that stops the stream.             *)

Gap   == -1
Start == -2
Error == -3

Stream(m, multi, b) == [mode |-> m, multi |-> multi, pos |-> b, at |-> Gap, buf |-> << >>]
Resting == Stream("tran", FALSE, 0)
Deaf == Stream("deaf", FALSE, 0)

\* CMD17, CMD18, CMD24 or CMD25 for address a.
BlockOf(a) == IF kind = "SDHC" THEN a ELSE IF a % 512 = 0 THEN a \div 512 ELSE Cap
Command(m, multi, a) ==
  IF card.mode # "tran" \/ BlockOf(a) >= Cap THEN {card}
  ELSE {Stream(m, multi, BlockOf(a))} \cup (IF good THEN {} ELSE {card})

Streaming == card.mode = "read" /\ card.at \in 0 .. PPB

\* 64 bytes read: the next part of a block, or what is on an idle line.
Received == IF Streaming /\ card.at < PPB THEN disk[card.pos][card.at + 1]
                                          ELSE [ver |-> None, block |-> 0, part |-> 0]
AfterPart(c) == IF c.mode = "read" /\ c.at \in 0 .. PPB - 1 THEN [c EXCEPT !.at = @ + 1] ELSE c

\* The two bytes of the CRC end a block.
AfterCrc(c) ==
  IF c.mode # "read" \/ c.at # PPB THEN c
  ELSE IF c.multi THEN [c EXCEPT !.pos = @ + 1, !.at = Gap] ELSE Resting

\* A data token, for a single or a multiple block write.
AfterToken(multi) ==
  IF card.mode = "write" /\ card.multi = multi /\ card.at = Gap
    THEN [card EXCEPT !.at = 0] ELSE card

Taken(c, p) == IF c.mode = "write" /\ c.at \in 0 .. PPB - 1
                 THEN [c EXCEPT !.at = @ + 1, !.buf = Append(@, p)] ELSE c

\* CRC and data response: a block that has come whole is accepted, and the
\* card programs it, or refused, after which a multiple write is deaf.
Whole(c)    == c.mode = "write" /\ c.at = PPB
Verdicts(c) == IF Whole(c) /\ c.pos < Cap THEN (IF good THEN {TRUE} ELSE BOOLEAN) ELSE {FALSE}
Respond(c, accepted) ==
  /\ card' = IF ~Whole(c) THEN c
             ELSE IF ~c.multi THEN Resting
             ELSE IF accepted THEN Stream("write", TRUE, c.pos + 1) ELSE Deaf
  /\ disk' = IF accepted THEN [disk EXCEPT ![c.pos] = c.buf] ELSE disk
  /\ busy' = (busy \/ accepted)

\* The card in its own time: it ends programming, or puts a token on the line.
CardReady == /\ busy
             /\ busy' = FALSE
             /\ UNCHANGED <<kind, good, card, disk, openVars, xferVars, timers, pc, goal,
                            hostVars>>
CardAnswers ==
  /\ card.mode \in {"read", "csd"} /\ card.at = Gap
  /\ \/ card.pos < Cap /\ card' = [card EXCEPT !.at = Start]
     \/ (card.pos >= Cap \/ ~good) /\ card' = [card EXCEPT !.at = Error]
  /\ UNCHANGED <<kind, good, busy, disk, openVars, xferVars, timers, pc, goal, hostVars>>

\* What a card of this kind answers to the commands of Open.
Says(g) ==
  CASE g = "CMD0"   -> {1}
    [] g = "CMD8"   -> IF kind \in {"SD2", "SDHC"} THEN {1} ELSE {5}
    [] g = "HCS"    -> IF kind \in {"SD2", "SDHC"} THEN {0, 1} ELSE {5}
    [] g = "ACMD41" -> IF kind = "MMC" THEN {5} ELSE {1}
    [] g = "SD1"    -> CASE kind = "SDHC" -> {1} [] kind = "MMC" -> {5} [] OTHER -> {0, 1}
    [] g = "MMC"    -> IF kind = "SDHC" THEN {1} ELSE {0, 1}
    [] OTHER        -> {0}
Response(g) == IF kind = "none" \/ busy THEN {None}
               ELSE Says(g) \cup (IF good THEN {} ELSE {None})

-----------------------------------------------------------------------------
(* Timers and waits                                                        *)

\* The USB interrupt is active while a command waits or after the breakpoint.
OpenGoals  == {"CMD0", "CMD8", "HCS", "ACMD41", "SD1", "MMC", "CMD58", "CMD16", "CMD9", "csd"}
InUsb      == pc = "halted" \/ (pc \in {"ready", "token"} /\ goal \notin OpenGoals)
Down(t)    == IF t = 0 THEN 0 ELSE t - 1

\* disk_timerproc, from SysTick_Handler.
Tick ==
  /\ InUsb => SysTickPriority < UsbPriority
  /\ delay + timer1 + timer2 > 0
  /\ delay' = Down(delay) /\ timer1' = Down(timer1) /\ timer2' = Down(timer2)
  /\ UNCHANGED <<kind, good, cardVars, openVars, xferVars, pc, goal, hostVars>>

\* wait_ready, alone or at the head of send_cmd; the wait for a data token.
WaitReady(g) == pc' = "ready" /\ goal' = g /\ timer2' = T2
WaitToken(g) == pc' = "token" /\ goal' = g /\ timer1' = T1
\* Back from the call.  Every wait sets its timer anew: what is left of it is
\* of no use any more.
Return       == pc' = "idle" /\ goal' = "none" /\ timer1' = 0 /\ timer2' = 0

Ready(g)  == pc = "ready" /\ goal = g /\ (~busy \/ timer2 = 0)
Token(g)  == pc = "token" /\ goal = g /\ (card.at # Gap \/ timer1 = 0)
Started   == card.at = Start

\* The token is read off the line; after an error token nothing follows.
AfterPoll == IF Started THEN [card EXCEPT !.at = 0]
             ELSE IF card.at = Error THEN Deaf ELSE card

-----------------------------------------------------------------------------
(* Open                                                                    *)

OpenFrame == UNCHANGED <<kind, good, busy, disk, xferVars, hostVars>>

OpenDelay ==
  /\ pc = "delay" /\ delay = 0
  /\ WaitReady("CMD0")
  /\ OpenFrame /\ UNCHANGED <<card, openVars, delay, timer1>>

\* Open is over with card type t; the capacity is asked for.
OpenEnd(t) ==
  /\ ctype' = t
  /\ IF t = "none" THEN Return ELSE WaitReady("CMD9") /\ UNCHANGED timer1
  /\ UNCHANGED capacity

OpenGo(g, t) ==
  /\ WaitReady(g)
  /\ ctype' = t
  /\ UNCHANGED <<capacity, timer1>>

\* Mutant: the test of Timer1 is left out.
OpenLoopForever(g, t) == OpenGo(g, t)

\* while (Timer1 && send_cmd (g)), and the test of Timer1 behind the loop.
OpenLoop(g, t) == IF timer1 = 0 THEN OpenEnd("none") ELSE OpenGo(g, t)

\* send_cmd (g) in Open has returned r.
OpenResponse(g, r) ==
  \/ g = "CMD0" /\ r = 1 /\ WaitReady("CMD8") /\ timer1' = T1Open /\ UNCHANGED openVars
  \/ g = "CMD0" /\ r # 1 /\ OpenEnd("none")
  \/ g = "CMD8" /\ r = 1 /\ OpenLoop("HCS", "none")
  \/ g = "CMD8" /\ r = 1 /\ ~good /\ OpenEnd("none")   \* not the echo of 0x1AA
  \/ g = "CMD8" /\ r # 1 /\ OpenGo("ACMD41", "none")
  \/ g = "ACMD41" /\ LET t == IF r <= 1 THEN "SD1" ELSE "MMC" IN OpenLoop(t, t)
  \/ g = "HCS" /\ OpenLoop(IF r = 0 THEN "CMD58" ELSE "HCS", "none")
  \/ g \in {"SD1", "MMC"} /\ OpenLoop(IF r = 0 THEN "CMD16" ELSE g, ctype)
  \/ g = "CMD58" /\ OpenEnd(IF r # 0 THEN "none" ELSE IF kind = "SDHC" THEN "SDHC" ELSE "SD2")
  \/ g = "CMD16" /\ OpenEnd(IF r = 0 THEN ctype ELSE "none")
  \/ /\ g = "CMD9"
     /\ IF r = 0 THEN WaitToken("csd") /\ UNCHANGED timer2
                 ELSE Return
     /\ UNCHANGED openVars

\* The card leaves its idle state, or sends its CSD.
CardHears(g, r) ==
  card' = IF r # 0 THEN card
          ELSE IF g \in {"HCS", "SD1", "MMC"} THEN Resting
          ELSE IF g = "CMD9" THEN Stream("csd", FALSE, 0) ELSE card

OpenCommand ==
  \E g \in OpenGoals \ {"csd"} :
    /\ Ready(g)
    /\ \E r \in Response(g) : OpenResponse(g, r) /\ CardHears(g, r)
    /\ OpenFrame /\ UNCHANGED delay

\* get_disk_capacity: 0 when the CSD does not come in time; then it does not
\* come at all.
OpenCsd ==
  /\ Token("csd")
  /\ capacity' = IF Started THEN Cap ELSE 0
  /\ card' = Resting
  /\ Return
  /\ OpenFrame /\ UNCHANGED <<ctype, delay>>

-----------------------------------------------------------------------------
(* Reading                                                                 *)

\* The sense data s, unless the block is out of range.
InRange(s) == IF capacity < ofs THEN "range" ELSE s

\* Mutant: counts twice.
DecResidueTwice(s) == residue' = IF s = "none" THEN residue - 2 ELSE residue

\* DecResidue counts only while there is no sense data.
DecResidue(s) == residue' = IF s = "none" THEN residue - 1 ELSE residue

Address(l) == IF ctype = "SDHC" THEN l ELSE l * 512

\* MsClass::MSC_ReadSetup or MSC_WriteSetup has set the residue and calls
\* CmdRead or CmdWrite.
Setup(op, l, n, v) ==
  /\ pc = "idle" /\ cmd = NoCmd
  /\ cmd' = [op |-> op, lba |-> l, n |-> n, ver |-> v]
  /\ got' = << >>
  /\ residue' = n /\ ofs' = l /\ len' = n * PPB /\ ok' = FALSE
  /\ IF ctype = "none"
       THEN sense' = "nomedium" /\ Return /\ UNCHANGED <<mbk, bct>>
       ELSE /\ mbk' = (n > 1)
            /\ bct' = PPB
            /\ WaitReady(op)
            /\ UNCHANGED <<sense, timer1>>
  /\ UNCHANGED <<kind, good, cardVars, openVars, delay, abandoned>>

DriverFrame == UNCHANGED <<kind, good, openVars, delay, abandoned>>

\* Mutant: CMD17 for a READ of several blocks too.
ReadCommandSingle ==
  /\ Ready("READ")
  /\ IF busy THEN UNCHANGED card ELSE card' \in Command("read", FALSE, Address(ofs))
  /\ WaitToken("first")
  /\ DriverFrame /\ UNCHANGED <<busy, disk, xferVars, timer2, cmd, got>>

\* CmdRead: CMD17 or CMD18 is sent, the response is not looked at.
ReadCommand ==
  /\ Ready("READ")
  /\ IF busy THEN UNCHANGED card ELSE card' \in Command("read", mbk, Address(ofs))
  /\ WaitToken("first")
  /\ DriverFrame /\ UNCHANGED <<busy, disk, xferVars, timer2, cmd, got>>

\* An error runs into the breakpoint; without a debugger that is a hard fault
\* and Default_Handler does not return.
ReadFirst ==
  /\ Token("first")
  /\ card' = AfterPoll
  /\ IF Started THEN sense' = "none" /\ ok' = TRUE /\ Return
                ELSE pc' = "halted" /\ UNCHANGED <<goal, sense, ok, timer1, timer2>>
  /\ DriverFrame
  /\ UNCHANGED <<busy, disk, ofs, len, bct, mbk, residue, cmd, got>>

\* The data bytes of one packet, then the CRC when a block is complete.
ReceivedBy(c, crc) == LET d == IF ok THEN AfterPart(c) ELSE c
                      IN  IF crc THEN AfterCrc(d) ELSE d

\* The host's command is over.
Done == cmd' = NoCmd

\* Read: one packet.  At the end of a block the driver waits for the token of
\* the next one, at the end of the transfer it stops a multiple block read.
Read ==
  LET last == len = 1
      next == ~last /\ mbk /\ bct = 1
  IN  /\ pc = "idle" /\ cmd.op = "READ"
      /\ got' = Append(got, IF ok THEN Received ELSE Part(None, 0, 0))
      /\ len' = len - 1
      /\ card' = ReceivedBy(card, last \/ next)
      /\ sense' = InRange(sense)
      /\ bct' = IF next THEN PPB ELSE IF mbk /\ ~last THEN bct - 1 ELSE bct
      /\ ofs' = IF next THEN ofs + 1 ELSE ofs
      /\ \/ next /\ WaitToken("next") /\ UNCHANGED <<residue, timer2, cmd>>
         \/ ~last /\ ~next /\ Return /\ UNCHANGED <<residue, cmd>>
         \/ last /\ mbk /\ WaitReady("CMD12") /\ UNCHANGED <<residue, timer1, cmd>>
         \/ last /\ ~mbk /\ Return /\ DecResidue(sense') /\ Done
      /\ DriverFrame /\ UNCHANGED <<busy, disk, mbk, ok>>

\* Mutant: the token is not looked at.
ReadNextUnchecked ==
  /\ Token("next")
  /\ card' = AfterPoll
  /\ UNCHANGED sense /\ DecResidue(sense)
  /\ Return
  /\ DriverFrame /\ UNCHANGED <<busy, disk, ofs, len, bct, mbk, ok, cmd, got>>

\* The token of the next block has come, or something else.
ReadNext ==
  /\ Token("next")
  /\ card' = AfterPoll
  /\ sense' = IF Started THEN sense ELSE "fault"
  /\ IF Started THEN DecResidue(sense) ELSE UNCHANGED residue
  /\ Return
  /\ DriverFrame /\ UNCHANGED <<busy, disk, ofs, len, bct, mbk, ok, cmd, got>>

\* CMD12 ends the stream; the card may be busy for a while.
ReadStop ==
  /\ Ready("CMD12")
  /\ card' = IF busy THEN card ELSE Resting
  /\ busy' \in {busy, TRUE}
  /\ DecResidue(sense) /\ Done /\ Return
  /\ DriverFrame /\ UNCHANGED <<disk, ofs, len, bct, mbk, ok, sense, got>>

-----------------------------------------------------------------------------
(* Writing                                                                 *)

\* CmdWrite: CMD24 or CMD25, then the card must be ready for the first block.
WriteCommand ==
  /\ Ready("WRITE")
  /\ IF busy THEN UNCHANGED card ELSE card' \in Command("write", mbk, Address(ofs))
  /\ WaitReady("token")
  /\ DriverFrame /\ UNCHANGED <<busy, disk, xferVars, timer1, cmd, got>>

WriteFirst ==
  /\ Ready("token")
  /\ IF busy THEN sense' = "notready" /\ UNCHANGED <<card, ok>>
             ELSE sense' = "none" /\ ok' = TRUE /\ card' = AfterToken(mbk)
  /\ Return
  /\ DriverFrame
  /\ UNCHANGED <<busy, disk, ofs, len, bct, mbk, residue, cmd, got>>

\* Mutant: the data response is not looked at.
SenseOfResponseIgnored(accepted, s) == s

SenseOfResponse(accepted, s) == IF accepted THEN s ELSE "fault"

\* Write: one packet.  A block that is refused in the middle of a transfer is
\* followed by the next; a refused last block ends it without the stop token.
Write ==
  LET last == len = 1
      next == ~last /\ mbk /\ bct = 1
      sent == cmd.n * PPB - len
      c    == IF ok THEN Taken(card, Part(cmd.ver, cmd.lba + sent \div PPB, 1 + (sent % PPB)))
                    ELSE card
      s    == InRange(sense)
  IN  /\ pc = "idle" /\ cmd.op = "WRITE"
      /\ len' = len - 1
      /\ bct' = IF next THEN PPB ELSE IF mbk /\ ~last THEN bct - 1 ELSE bct
      /\ ofs' = IF next THEN ofs + 1 ELSE ofs
      /\ \/ /\ ~last /\ ~next
            /\ card' = c /\ sense' = s
            /\ Return
            /\ UNCHANGED <<busy, disk, residue, cmd>>
         \/ /\ last \/ next
            /\ \E accepted \in Verdicts(c) :
                 /\ Respond(c, accepted)
                 /\ sense' = SenseOfResponse(accepted, s)
                 /\ \/ next /\ WaitReady("next") /\ UNCHANGED <<residue, timer1, cmd>>
                    \/ /\ last /\ accepted /\ mbk
                       /\ WaitReady("stop")
                       /\ UNCHANGED <<residue, timer1, cmd>>
                    \/ /\ last /\ ~(accepted /\ mbk)
                       /\ IF accepted THEN DecResidue(s) ELSE UNCHANGED residue
                       /\ Done /\ Return
      /\ DriverFrame /\ UNCHANGED <<mbk, ok, got>>

WriteNext ==
  /\ Ready("next")
  /\ IF busy THEN sense' = "notready" /\ UNCHANGED <<card, residue>>
             ELSE UNCHANGED sense /\ card' = AfterToken(TRUE) /\ DecResidue(sense)
  /\ Return
  /\ DriverFrame /\ UNCHANGED <<busy, disk, ofs, len, bct, mbk, ok, cmd, got>>

\* The stop token 0xFD.
WriteStop ==
  /\ Ready("stop")
  /\ IF busy THEN sense' = "notready" /\ UNCHANGED <<card, busy, residue>>
             ELSE /\ card' = IF card.mode = "write" THEN Resting ELSE card
                  /\ busy' \in BOOLEAN
                  /\ UNCHANGED sense /\ DecResidue(sense)
  /\ Done /\ Return
  /\ DriverFrame /\ UNCHANGED <<disk, ofs, len, bct, mbk, ok, got>>

-----------------------------------------------------------------------------
(* MsClass and the host                                                    *)

Begin ==
  \E op \in {"READ", "WRITE"}, l \in 0 .. Cap, n \in 1 .. MaxLen, v \in 0 .. 1 :
    /\ ~abandoned
    /\ good => l + n <= Cap
    /\ op = "READ" => v = 0
    /\ Setup(op, l, n, v)

\* The class reset and the bus reset leave the storage as it is.  When a
\* stream is left open on the card, it takes no command any more, and nothing
\* is said of what follows.
Abandon ==
  /\ ~good /\ pc = "idle" /\ cmd # NoCmd
  /\ cmd' = NoCmd /\ got' = << >>
  /\ abandoned' = (abandoned \/ card.mode # "tran")
  /\ UNCHANGED <<kind, good, cardVars, openVars, xferVars, timers, pc, goal>>

-----------------------------------------------------------------------------
Init ==
  /\ kind \in Kinds /\ good \in BOOLEAN
  /\ card = [Resting EXCEPT !.mode = "power"]
  /\ busy \in (IF good THEN {FALSE} ELSE BOOLEAN)
  /\ disk = [b \in Blocks |-> Content(0, b)]
  /\ ctype = "none" /\ capacity = 0
  /\ ofs = 0 /\ len = 0 /\ bct = 0 /\ mbk = FALSE /\ ok = FALSE
  /\ residue = 0 /\ sense = "reset"
  /\ delay = Settle /\ timer1 = 0 /\ timer2 = 0
  /\ pc = "delay" /\ goal = "CMD0"
  /\ cmd = NoCmd /\ got = << >> /\ abandoned = FALSE

Open     == OpenDelay \/ OpenCommand \/ OpenCsd
Reading  == ReadCommand \/ ReadFirst \/ Read \/ ReadNext \/ ReadStop
Writing  == WriteCommand \/ WriteFirst \/ Write \/ WriteNext \/ WriteStop
Card     == CardReady \/ CardAnswers
Next     == Open \/ Reading \/ Writing \/ Card \/ Tick \/ Begin \/ Abandon

\* The processor runs, the timer interrupt is taken where it may be, and a
\* host that has begun a command carries it on.  Nothing is assumed of the card:
\* it may be busy or silent for ever.
Spec == /\ Init /\ [][Next]_vars
        /\ WF_vars(Open) /\ WF_vars(Reading \/ Writing) /\ WF_vars(Tick)

-----------------------------------------------------------------------------
(* Properties                                                              *)

Parts == [ver : {0, 1}, block : Nat, part : 1 .. PPB] \cup {Part(None, 0, 0)}

TypeOK ==
  /\ kind \in Kinds /\ good \in BOOLEAN /\ busy \in BOOLEAN
  /\ card.mode \in {"power", "tran", "csd", "read", "write", "deaf"}
  /\ card.at \in Error .. PPB /\ Len(card.buf) <= PPB
  /\ ctype \in {"none", "MMC", "SD1", "SD2", "SDHC"} /\ capacity \in {0, Cap}
  /\ ofs \in 0 .. Cap + MaxLen /\ len \in 0 .. MaxLen * PPB
  /\ bct \in 0 .. PPB /\ mbk \in BOOLEAN /\ ok \in BOOLEAN
  /\ residue \in 0 .. MaxLen
  /\ sense \in {"none", "reset", "nomedium", "range", "fault", "notready"}
  /\ delay \in 0 .. Settle /\ timer1 \in 0 .. T1Open + T1 /\ timer2 \in 0 .. T2
  /\ pc \in {"delay", "ready", "token", "idle", "halted"}
  /\ got \in Seq(Parts) /\ Len(got) <= MaxLen * PPB

Range   == cmd.lba .. cmd.lba + cmd.n - 1
Ends(op) == cmd.op = op /\ cmd' = NoCmd /\ sense' = "none" /\ len' = 0 /\ ~abandoned

\* A READ that ends without sense data has delivered the parts of the blocks
\* it asked for, each in its place, and leaves no residue.  Driver and card
\* each count where in the stream they are, and the address has the unit of
\* the card.
ReadTruthful ==
  [][Ends("READ") =>
       /\ residue' = 0
       /\ got' = [i \in 1 .. cmd.n * PPB |->
                    disk[cmd.lba + (i - 1) \div PPB][1 + ((i - 1) % PPB)]]]_vars

\* A WRITE changes no block but those it is for, and puts nothing in them but
\* what the host sent for them, whatever the card refuses or answers late; when
\* it ends without sense data, all of it is there and no residue is left.
\* Nothing is claimed once the host has abandoned a stream that the card still
\* has open.
WriteTruthful ==
  [][/\ \A b \in Blocks :
          disk'[b] # disk[b] /\ ~abandoned =>
            cmd.op = "WRITE" /\ b \in Range /\ disk'[b] = Content(cmd.ver, b)
     /\ Ends("WRITE") =>
          residue' = 0 /\ \A b \in Range : disk'[b] = Content(cmd.ver, b)]_vars

\* Open ends, whatever is in the slot and whenever it answers: a card that is
\* busy for ever, never leaves its idle state or never sends its CSD too.  Each
\* wait and each loop of Open has its timer, and SysTick counts them down.
OpenEnds == (pc = "delay") ~> (pc = "idle")

\* With a good card that answers in the end, a command ends: the driver never
\* waits for something the card has no reason to do.  That the card answers is
\* a premise here, since no timer ends a wait in the USB interrupt (WaitsEnd).
CommandsEnd == WF_vars(Card) => (good => ((cmd # NoCmd) ~> (cmd = NoCmd)))

\* storagemmc.cpp:141, :253, :325, "in timeout of 200ms", "of 500ms": no wait
\* goes on for ever, whether the card answers or not.
WaitsEnd == \A p \in {"ready", "token"} : (pc = p) ~> (pc # p)
=============================================================================
