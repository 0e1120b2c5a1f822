----------------------------- MODULE FlashImage -----------------------------
(***************************************************************************)
(* The firmware image in flash: the upload path of the boot loader and the *)
(* decision taken at reset.                                                *)
(*                                                                         *)
(* One session is the time between two resets.  The host copies a file to  *)
(* the emulated FAT12 disk; each WRITE command reaches                     *)
(* Fat12Emul::CmdWrite, which erases every flash sector up to the end of   *)
(* the written range that this session has not erased yet                  *)
(* (ImageWriter::eraseBlocks), and then Fat12Emul::Write, once per 64 byte *)
(* packet, which programs the packet (ImageWriter::writeBytes).  At reset  *)
(* check_user looks for a complete image and either jumps to it or stays   *)
(* in the loader.                                                          *)
(*                                                                         *)
(* This is the build made by flash.patch (flashwriter.cpp and flash.cpp in *)
(* the place of imagewriter.cpp).  A cell is the flash behind one packet.  *)
(* Its content is the set of the things programmed into it since it was    *)
(* erased: {} reads as 0xFF, {i} is the packet of image i, a larger set is *)
(* the bitwise AND of its members, which is none of them.                  *)
(***************************************************************************)
EXTENDS Integers, FiniteSets

CONSTANTS
  NSectors,     \* sectors the loader may erase: 1 .. NSectors (0 holds the loader)
  SectorBlocks, \* their sizes, in 512 byte blocks
  PPB,          \* packets in a block (8 in the code)
  Pt2,          \* first block of FIRMWARE.BIN on the disk (pt2)
  MaxCmd,       \* longest WRITE command, in blocks (bound of the model)
  Images,       \* the firmware images
  Size,         \* the lengths of the files, in blocks
  Junk,         \* a file made for another device: decrypts to no image
  Torn,         \* what an interrupted erase or program leaves behind
  None,         \* no image
  Reupload,     \* the host may copy a second file in the same session
  FlashFaults   \* an erase or program operation may fail

Sectors == 1 .. NSectors
Files   == Images \cup {Junk}

\* First block of a sector, counted from the start of the user area; sector
\* 1 is its start (variable ers of the loop in eraseBlocks).
StartOf[k \in 1 .. (NSectors + 1)] ==
  IF k = 1 THEN 0 ELSE StartOf[k - 1] + SectorBlocks[k - 1]

FileBlocks == StartOf[NSectors + 1]
Cells      == 0 .. (FileBlocks * PPB - 1)
BlockOf(c) == c \div PPB

ASSUME FlashAssumption ==
  /\ NSectors \in Nat \ {0}
  /\ SectorBlocks \in [Sectors -> Nat \ {0}]
  /\ PPB \in Nat \ {0}
  /\ Pt2 \in Nat
  /\ MaxCmd \in Nat \ {0}
  /\ Size \in [Files -> 1 .. FileBlocks]
  /\ Junk \notin Images
  /\ None \notin Files
  /\ Torn \notin Files
  /\ Reupload \in BOOLEAN
  /\ FlashFaults \in BOOLEAN

VARIABLES
  flash,      \* content of every cell
  mode,       \* "boot": in Reset_Handler, "loader": main() runs, "user": jumped
  image_size, \* length found by UserCheck, in blocks; 0 when there is no image
  isErased,   \* sectors this session has erased (isErased[])
  toErase,    \* sectors the running eraseBlocks loop has still to erase
  locked,     \* FLASH_CR_LOCK
  srErr,      \* an error flag is set in FLASH_SR
  rwofs,      \* next packet of the command, counted from the start of the disk
  rwlen,      \* packets left in the command
  up,         \* the file the host copies, None before the first copy
  todo        \* blocks of that file the host has not written yet

device == <<image_size, isErased, toErase, locked, srErr, rwofs, rwlen>>
vars   == <<flash, mode, image_size, isErased, toErase, locked, srErr,
            rwofs, rwlen, up, todo>>

InSector(c, k) == /\ StartOf[k] <= BlockOf(c)
                  /\ BlockOf(c) < StartOf[k + 1]

SectorCells(k) == {c \in Cells : InSector(c, k)}
BlocksOf(f)    == 0 .. (Size[f] - 1)
ImageCells(i)  == {c \in Cells : BlockOf(c) < Size[i]}

-----------------------------------------------------------------------------
(* Reset: the boot decision                                                *)

\* The image UserCheck accepts.  Magic and length come from the descriptor
\* and the 32 bit sum over the length must be 0: true of a complete image.
\* That a mixture sums to 0 by chance (one in 2^32) is left out.
Accepted(i) == \A c \in ImageCells(i) : flash[c] = {i}

UserImage == IF \E i \in Images : Accepted(i)
               THEN CHOOSE i \in Images : Accepted(i)
               ELSE None

UserCheck == image_size' = IF UserImage = None THEN 0 ELSE Size[UserImage]

\* Mutant: the decision is taken again while the loader runs.
BootAgain(button) ==
  /\ UserCheck
  /\ mode' = IF button \/ image_size' = 0 THEN "loader" ELSE "user"
  /\ UNCHANGED <<flash, isErased, toErase, locked, srErr, rwofs, rwlen, up, todo>>

\* Reset_Handler: .bss is cleared and check_user decides; the button keeps
\* the loader running although there is a valid image.
Boot(button) ==
  /\ mode = "boot"
  /\ UserCheck
  /\ mode' = IF button \/ image_size' = 0 THEN "loader" ELSE "user"
  /\ UNCHANGED <<flash, isErased, toErase, locked, srErr, rwofs, rwlen, up, todo>>

-----------------------------------------------------------------------------
(* The host                                                                *)

\* The user copies a file to the disk: cp FIRMWARE.BIN /media/.../BOOTLOADER.
HostCopies(f) ==
  /\ mode = "loader"
  /\ \/ up = None
     \/ Reupload /\ todo = {}
  /\ up' = f
  /\ todo' = BlocksOf(f)
  /\ UNCHANGED <<flash, mode, device>>

-----------------------------------------------------------------------------
(* Fat12Emul and ImageWriter                                               *)

\* Mutants: the loop starts at the loader's sector; ignores where the range
\* begins; takes only sectors that lie within the range; forgets isErased[].
EraseLoader(from, len) ==
  /\ locked' = FALSE
  /\ toErase' = ({0} \cup {k \in Sectors : StartOf[k] < from + len}) \ isErased
EraseToLength(from, len) ==
  /\ locked' = FALSE
  /\ toErase' = {k \in Sectors : StartOf[k] < len} \ isErased
EraseWhole(from, len) ==
  /\ locked' = FALSE
  /\ toErase' = {k \in Sectors : StartOf[k + 1] <= from + len} \ isErased
EraseAgain(from, len) ==
  /\ locked' = FALSE
  /\ toErase' = {k \in Sectors : StartOf[k] < from + len}

\* Every sector that starts before the end of the range, from sector 1 on.
EraseBlocks(from, len) ==
  /\ locked' = FALSE
  /\ toErase' = {k \in Sectors : StartOf[k] < from + len} \ isErased

\* A WRITE command for n blocks at block lba.  The host writes blocks of the
\* file system or of the file it copies, in any order and also again.  It
\* may give up a command and send the next (a reset of the transport does
\* not touch rwlen), so that rwlen need not be 0.
CmdWrite(lba, n) ==
  /\ mode = "loader" /\ toErase = {}
  /\ \A b \in lba .. (lba + n - 1) :
        \/ b < Pt2
        \/ up # None /\ (b - Pt2) \in BlocksOf(up)
  /\ rwofs' = lba * PPB
  /\ rwlen' = n * PPB
  /\ LET start == IF lba < Pt2 THEN 0 ELSE lba - Pt2
         erase == IF lba < Pt2 THEN n + (lba - Pt2) ELSE n
     IN  IF erase > 0 THEN EraseBlocks(start, erase)
                      ELSE UNCHANGED <<locked, toErase>>
  /\ UNCHANGED <<flash, mode, image_size, isErased, srErr, up, todo>>

Wiped(S, content) == [c \in Cells |-> IF c \in S THEN content ELSE flash[c]]

\* One turn of the loop in eraseBlocks: isErased[k] is set before the sector
\* is erased, and EraseSector does nothing when an error flag is set.
EraseSector(k) ==
  /\ k \in toErase
  /\ \A j \in toErase : k <= j
  /\ toErase' = toErase \ {k}
  /\ isErased' = isErased \cup {k}
  /\ \/ /\ ~srErr
        /\ flash' = Wiped(SectorCells(k), {})
        /\ UNCHANGED srErr
     \/ /\ ~srErr /\ FlashFaults
        /\ flash' \in {flash, Wiped(SectorCells(k), {Torn})}
        /\ srErr' = TRUE
     \/ srErr /\ UNCHANGED <<flash, srErr>>
  /\ UNCHANGED <<mode, image_size, locked, rwofs, rwlen, up, todo>>

Program(c, v) == [flash EXCEPT ![c] = @ \cup {v}]

\* ImageWriter::writeBytes: the status of ProgramHalfWord is not looked at.
WriteBytes(c) ==
  \/ /\ ~locked /\ ~srErr
     /\ flash' = Program(c, up)
     /\ UNCHANGED srErr
  \/ /\ ~locked /\ ~srErr /\ FlashFaults
     /\ flash' \in {flash, Program(c, Torn)}
     /\ srErr' = TRUE
  \/ (locked \/ srErr) /\ UNCHANGED <<flash, srErr>>

\* Fat12Emul::Write for one packet; blocks before pt2 are FAT, directory and
\* index.html, kept in RAM.
Write ==
  /\ mode = "loader" /\ toErase = {} /\ rwlen > 0
  /\ LET c == rwofs - Pt2 * PPB IN
       /\ IF c < 0 THEN UNCHANGED <<flash, srErr>> ELSE WriteBytes(c)
       /\ todo' = IF c >= 0 /\ (c + 1) % PPB = 0 THEN todo \ {BlockOf(c)} ELSE todo
  /\ rwofs' = rwofs + 1
  /\ rwlen' = rwlen - 1
  /\ UNCHANGED <<mode, image_size, isErased, toErase, locked, up>>

-----------------------------------------------------------------------------
(* Reset button or power cut: RAM and registers start anew, the flash keeps *)
(* what it has; an operation under way may be left half done.               *)

Interrupted ==
  {flash} \cup
  (IF toErase # {} /\ ~srErr
     THEN {Wiped(SectorCells(CHOOSE k \in toErase : \A j \in toErase : k <= j), {Torn})}
     ELSE {}) \cup
  (IF rwlen > 0 /\ toErase = {} /\ rwofs >= Pt2 * PPB /\ ~srErr
     THEN {Program(rwofs - Pt2 * PPB, Torn)}
     ELSE {})

\* Mutant: isErased[] survives the reset.
PowerCutKeeps ==
  /\ mode # "boot"
  /\ mode' = "boot"
  /\ flash' \in Interrupted
  /\ image_size' = 0
  /\ toErase' = {} /\ UNCHANGED isErased
  /\ locked' = TRUE /\ srErr' = FALSE
  /\ rwofs' = 0 /\ rwlen' = 0
  /\ up' = None /\ todo' = {}

PowerCut ==
  /\ mode # "boot"
  /\ mode' = "boot"
  /\ flash' \in Interrupted
  /\ image_size' = 0
  /\ isErased' = {} /\ toErase' = {}
  /\ locked' = TRUE /\ srErr' = FALSE
  /\ rwofs' = 0 /\ rwlen' = 0
  /\ up' = None /\ todo' = {}

-----------------------------------------------------------------------------
Init ==
  /\ \E i \in Images \cup {None} :
       flash = [c \in Cells |-> IF i # None /\ c \in ImageCells(i) THEN {i} ELSE {}]
  /\ mode = "boot" /\ image_size = 0
  /\ isErased = {} /\ toErase = {}
  /\ locked = TRUE /\ srErr = FALSE
  /\ rwofs = 0 /\ rwlen = 0
  /\ up = None /\ todo = {}

Next ==
  \/ \E button \in BOOLEAN : Boot(button)
  \/ \E f \in Files : HostCopies(f)
  \/ \E lba \in 0 .. (Pt2 + FileBlocks - 1), n \in 1 .. MaxCmd : CmdWrite(lba, n)
  \/ \E k \in Sectors : EraseSector(k)
  \/ Write
  \/ PowerCut

Spec == Init /\ [][Next]_vars

-----------------------------------------------------------------------------
(* Properties                                                              *)

TypeOK ==
  /\ flash \in [Cells -> SUBSET (Files \cup {Torn})]
  /\ mode \in {"boot", "loader", "user"}
  /\ image_size \in 0 .. FileBlocks
  /\ isErased \in SUBSET Sectors
  /\ toErase \in SUBSET Sectors
  /\ locked \in BOOLEAN
  /\ srErr \in BOOLEAN
  /\ rwofs \in Nat
  /\ rwlen \in Nat
  /\ up \in Files \cup {None}
  /\ todo \in SUBSET (0 .. (FileBlocks - 1))

\* The cells the running command has still to program.
Ahead == {c \in Cells : rwofs <= c + Pt2 * PPB /\ c + Pt2 * PPB < rwofs + rwlen}

\* The order of erasing and programming: when packets are programmed, every
\* sector the rest of the command reaches has been erased in this session,
\* so that no packet goes on top of an older image.
EraseAhead ==
  mode = "loader" =>
    \A c \in Ahead, k \in Sectors :
       InSector(c, k) => k \in isErased \cup toErase

\* A sector erased in this session holds nothing but packets of the file the
\* session copies: no remains of an older image.
SessionClean ==
  ~srErr => \A k \in isErased : \A c \in SectorCells(k) : flash[c] \in {{}, {up}}

\* The upload sticks: when the host has written every block of an image and
\* no operation failed, a reset finds exactly that image, whatever was in
\* the flash, and in whatever order and how often the blocks came.
UploadBoots ==
  /\ mode = "loader" /\ ~srErr
  /\ up \in Images /\ todo = {} /\ toErase = {}
  => UserImage = up

\* A cell is programmed when it is erased, or again with the same packet:
\* flash cannot turn a 0 into a 1 without an erase.
ProgramsErased ==
  [][\A c \in Cells :
       (flash[c] \subseteq flash'[c] /\ Torn \notin flash'[c])
         => flash[c] = {} \/ flash'[c] = flash[c]]_vars

\* What a reset would find, and what runs: an upgrade goes from one image
\* through no image to the next one.
Slot == INSTANCE FirmwareSlot WITH
          slot    <- UserImage,
          running <- IF mode = "user" THEN UserImage ELSE None
UpgradeIsAtomic == Slot!Spec
=============================================================================
