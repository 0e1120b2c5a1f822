# A verification of the STM32F4 USB mass-storage boot loader

TLA+ models of the core of STM32F4_Secure_MSC_Bootloader, the TLC runs that
check them on small instances, and proofs of their main invariants that hold
for every instance. Line numbers refer to the files under `src/`.

## 1. The system

The boot loader shows itself to a PC as a small USB disk. The user opens
`index.html` on it, gets `FIRMWARE.BIN` from a server, encrypted for this one
device, and copies it to the disk. Behind the disk there is no medium: what is
written to the file's blocks is decrypted and programmed into flash. At reset
the loader looks for a complete image and jumps to it. The same USB stack also
serves an SD card (`xsdc/card`), and a few programs to be loaded come with it.

The USB side of the device runs in one interrupt, that of the USB core:

    host --OUT packet--> UsbHw::Handler --> MsClass::BulkOut --> Fat12Emul --> ImageWriter --> flash
    host <--IN packet--- UsbHw::Handler <-- MsClass::BulkIn  <-- or StorageMmc <--> card on SPI
    host <--control----> UsbHw::Handler <-> UsbDevice (EP0)
    main --> Print --> CdClass / UsartClass (Fifo) --> interrupt --> host / line

| part | state it keeps | operations | hard about it | correct when |
|---|---|---|---|---|
| MSC class (`usb/class/msclass.*`) | BulkStage, CBW, CSW, SenseData, MemOK | BulkIn, BulkOut, Reset; a handler per SCSI command | a protocol of three phases that host and device each count on their own; error paths with stalls | both are in the same phase; the status is true; a command always ends |
| storage interface (`usb/storagebase.h`), emulated disk (`work/boot/fat12emul.*`) | rwofs, rwlen, the blocks kept in RAM | CmdRead, CmdWrite, Read, Write, Prepare | unsigned count-down; one command may cross from RAM to flash | exactly the range is transferred |
| image writer, flash driver (`work/boot/flashwriter.cpp`, `lib/stm32f4/src/flash.cpp`) | flash, isErased[], FLASH_CR lock, FLASH_SR error flags | eraseBlocks, writeBytes; EraseSector, ProgramHalfWord | erase before program, in sectors of different sizes, for blocks in any order; power cuts | no packet on top of older content; a finished upload is found |
| boot decision (`work/boot/checks.cpp`, `boot.c`, `jump.s`) | image_size | Reset_Handler, check_user, UserCheck | must not start the remains of an interrupted upload | only a complete image is started |
| USB core, EP0 (`usb/usbdevice.*`) | SetupPacket, EP0Data, USB_EndPointMask/Halt/Stall, address | requests of chapter 9, class requests | a new SETUP at any time; stall masks shared with the class | a transfer ends in status or stall, with the data asked for |
| hardware layer (`lib/stm32f4/src/usbhw.cpp`) | FIFOs and endpoint registers, EpList, Ep0Buf | Handler, Read, Write, SetStallEP, Reset | re-armed endpoints, flags cleared after the handler, order of the two directions | nothing is lost or doubled |
| MMC/SD storage (`usb/storagemmc.*`) | CardType, Stat, ofs, len, ok, mbk, bct, timers | Open and the calls of the emulated disk, on SPI | cards of five kinds, errors between blocks, timeouts inside the interrupt | the right blocks move, or sense data says so; every wait ends |
| Fifo (`inc/fifo.h`, `inc/carmlocker.h`) | buf, rdi, wri, len | Write, Read | main program against interrupt; only len is protected | it is a queue |
| CDC, USART (`usb/class/cdclass.*`, `lib/stm32f4/src/usart.cpp`) | a Fifo, usbtx_rdy, interrupt enable | Down, Send, irq | the same flag set from two contexts | no byte is lost or swapped; what is queued is sent |
| packing (`src/fwcheck.cpp`, `src/tea.c`, `src/keys.c`, `work/post`) | GeneratedKeys | FwCheck, encrypt, decrypt | padding, sum to 0 | the loader accepts what was packed |
| HTTP server (`work/http`) | clients[], GeneratedKeys of each process | accept, fork, two requests | a process per request | every request is answered; the download runs |
| MIDI player (`work/midi`, `lib/stm32f4/src/audio.cpp`, `exti0`) | pause, melody, EXTI line | sample and tone interrupts | interrupts of different priority and a main program | no pause is cut or skipped, the melody ends |
| MP3 on FAT32 (`xsdc/play`) | current_cluster, current_block, pass_block, two buffers | OpenFile, get_mpg, ReadBlock, NextCluster | a window over two blocks and one buffer for both | the decoder gets the file |
| audio DMA, ADC, LED effect (`lib/stm32f4/src/audiodma.cpp`, ...) | half buffers | irq | late handlers | - |
| heap (`src/heap.cpp`) | free list | malloc, free | order and joining of neighbours | blocks are disjoint; no Makefile links it |
| emulation on Linux (`lib/unix`) | buffers under a mutex | two threads per endpoint | condition variable, cancelation | as the hardware layer |

Vendored code (libmad, gsm, CMSIS, kernel modules, miditones), vector tables,
pins and the generator of descriptors are out of scope. PROJECT.json lists every
component with its status, and the hazards of the code at the lines where they
bite.

## 2. The modules

**FlashImage** - the upload path of the flash build (`flash.patch`) and the boot
decision. `flash` maps every *cell*, the flash behind one 64 byte packet, to the
set of the things programmed into it since its last erase. That is what
NOR flash does: programming can only clear bits, so two different packets in
one cell leave the AND of both, which is neither. `Torn` is what an operation
leaves that was cut off or failed. Actions: `Boot` (Reset_Handler, check_user),
`HostCopies`, `CmdWrite` (Fat12Emul::CmdWrite with the set-up of eraseBlocks),
`EraseSector` (one turn of its loop), `Write` (Fat12Emul::Write and
writeBytes), `PowerCut`. The erase loop is split into turns because a reset may
come between two of them. The error flags of FLASH_SR are never cleared by the
code, hence `srErr` stays set until reset and everything behind it is skipped.
A CmdWrite no packet follows is what a WRITE with the direction of a READ does.

**FirmwareSlot** - the promise of the loader without flash: one slot that holds
an image or nothing; upgrading empties it and fills it later; what runs is what
it holds. FlashImage implements it with
`slot <- UserImage`, `running <- IF mode = "user" THEN UserImage ELSE None`.

**Fifo** - both methods split at every access to a shared field, two sides
interleaved freely. **BoundedQueue** is its abstract specification; the
refinement maps the ring to the sequence of the items stored and not fetched.
An item is in the queue from its store on, not from the increment of `len`.

**SerialTx** - the clients of the Fifo, one wiring per behaviour: Print over
UsartClass, Print over CdClass, Echo over CdClass. The calls of the Fifo are
atomic, which is what Fifo and its proofs allow. `pc` splits what the main
program runs (`BlockDown`, `Down`, `Send`) at each access the interrupt shares;
`InEvent`, `OutEvent` and `UsartIrq` are the interrupts. `tx` is the Fifo, `rdy`
usbtx_rdy, `enable` send_enable (DTR), `txeie` and `dr` the USART, `wire` the
packet in the transmit FIFO. UsbHw::Handler calls the class first (`InEvent`) and
clears the flag of the event after that (`InAck`); the host may take the packet
in between. `fed` and `got` are history, as are `lost` and `missed`, which say
that usbtx_rdy was overwritten or its packet flushed, and that the event which
would have set it was cleared unseen.

**MscBot** - the Bulk-Only Transport from the host's driver to the storage:

| variables | code |
|---|---|
| stage, cbw, csw, sense, memOK | BulkStage, CBW, CSW, SenseData, MemOK of MsClass |
| left | rwlen of the storage, in packets |
| stalled, mask | STALL bits of DIEPCTL/DOEPCTL; USB_EndPointStall |
| rx, isr | a packet in the receive FIFO; the packet that is being handled |
| tx, armed, xfrc | transmit FIFO; EPENA; DIEPINT_XFRC |
| hst, hcmd, htag, moved | the host's driver |
| scene | the commands, the medium and the habits of the host, chosen once |

Each command handler is an operator with all of its early returns. `GetCBW`
chooses among them, `BulkOut` and `BulkIn` are the two entry points.
`IoOutcome` is what the two storages, Fat12Emul and StorageMmc, can answer as
seen from MsClass. The host (external) is a driver of the usual kind: it clears
a halt and reads the status, twice at most, and falls back to reset recovery on
a bad status or a timeout. An *orderly* host sends well-formed commands to the
emulated disk, an *erring* one anything, except data behind a valid command that
refuses it; a *hasty* one sends that too, does not wait for the interrupt to be
served and resets the bus. `MscAssumption` states this of the scenes. The exception is
needed: data for a refused command draws a second status, see 5, which
breaks InStep even with prompt interrupts.

**UsbControl** - EP0 from the host to the endpoint registers, for a composite
device of CDC and mass storage (the repository's own devices are the storage
interface alone, a part of it):

| variables | code |
|---|---|
| phase, req, got, haddr, hcfg | the host: stage, request, bytes received, what it believes |
| rx, outArmed, tx, nak, xfrc, stall0, ring | receive FIFO and EP0 registers; Ep0Buf |
| irq | the place in UsbHw::Handler: receive FIFO, IN event and its acknowledge, bus reset |
| setup, ptr, count | SetupPacket; EP0Data.pData and Count |
| devaddr, config, mask, halt, stallMask | USB_DeviceAddress, USB_Configuration, USB_EndPointMask/Halt/Stall |
| enabled, stalled, txfifo, hwaddr | endpoint registers, DIEPTXF, DCFG |
| dirty, overtaken, outrun | history: a packet written behind another; a SETUP served before an earlier IN event; a bus reset served before an earlier packet |

Every request is an operator of its own that says what it does to the device and
how it is answered: with data, with the status, with a stall, or, when a CDC
request is not known, not at all. Two behaviours the model keeps are worth
knowing: MSC_SetStallEP sets bit 15 of the mask whatever the endpoint, and
SET_INTERFACE for an alternate setting that is not there disables the endpoints
and then refuses.

**MmcCard** - StorageMmc on the card: Open with its recognition of five kinds
of card, get_disk_capacity, CmdRead, Read, CmdWrite and Write (Verify, which
compares nothing on a card, is an outcome in MscBot). Every
polling loop is one wait (`pc`, `goal`), left when the card answers or when the
timer that SysTick counts is 0. The card is external: it answers, answers with
an error, is busy or is deaf; a `good` card never fails. The `bkpt` in CmdRead
is a state the driver stays in. Whether SysTick can run follows from the two
priorities and from where the wait is (Open: main program; else USB interrupt).

**FatPlayer** - FAT32RO (Identify, OpenFile, NextCluster with its cached block
of the FAT, ReadBlock, get_mpg) and MiniMad::input. `cluster`, `base`, `pass`
are current_cluster, current_block, pass_block; `segment` and `mdata` tell what
the two buffers hold. Content of a block is its number, so what the decoder
gets can be compared with the chain of the file. Reads may fail; the history
`unread` is the set of blocks whose last read did, which the code does not
remember. One mark ends every chain; ReadBlock would follow the marks
0x0FFFFFF8 to 0x0FFFFFFE (`fat32ro.cpp:198`), which a player that stays inside
its file does not come to.

**MidiPlayer** - `start` of the main program, ToneChange in EXTI0 (priority 3)
and nextSample in SPI3 (priority 0), each split at the accesses another one
shares; the EXTI registers IMR, SWIER, PR and the pending bit. The reference
manual leaves open whether EXTI remembers a request for a masked line; `keeps`
takes both. `early` and `again` are history.

**FirmwareService** - the way of a firmware: FwCheck, the key, the cipher as
"words under a key" in blocks of two, the copy to the device, UserCheck at
reset; the disk that Prepare lays out, its FAT of 12 bits, the clusters in which
a host finds the file and the words Read and Write take them for; reading back
with the image_size of the last reset; and the server with its parent,
clients[], and a process per connection, each with its own copy of
GeneratedKeys. Sums are taken over real words modulo W.

**FlashImageProofs**, **FifoProofs**, **MscBotProofs**, **SerialTxProofs**,
**UsbControlProofs**, **MmcCardProofs**, **FirmwareServiceProofs** - theorems
and proofs, each about the module it is named after, and **PlayerProofs**, about
both players (the names of MidiPlayer that FatPlayer has too begin with Midi),
with the lemmas on numbers it needs (products and modulo, the least
counterexample of a statement about numbers). The modules **MC...** hold the
values for TLC.

## 3. The runs

| run | question | distinct states | result |
|---|---|---|---|
| flash_upload | one copy per session, blocks in any order and again, failing flash, resets anywhere | 282,933 | all hold |
| flash_reupload | the upload promise with a second copy in a session | - | **violated**, see 5 |
| fifo | all interleavings of the two sides | 1,264 | all hold, refines BoundedQueue |
| bot | three hosts: orderly on the emulated disk, erring on a card, hasty with late interrupts and bus resets | 1,167,723 | all hold |
| serial | three wirings, DTR and bus resets at any time | 12,048 | all hold |
| control | every request, SETUP and bus reset at any time, endpoints stalled by the class | 1,590,630 | all hold |
| card | five kinds of card, good and failing | 143,561 | all hold |
| card_waits | do the waits end after the time their comments state? | - | **violated**, see 5 |
| player | all orders of up to three clusters, two volumes, two files in a row, a failing read | 93,258 | all hold |
| midi | four scores, samples at any moment | 2,073 | all hold |
| service | packing, copying through the FAT, reading back; three connections, two slots | 59,862 | all hold |
| service_key | does the downloaded firmware run? | - | **violated**, see 5 |

Some of the properties have exceptions; each is a behaviour of the code that
was found with the model, is named in the definition and described in 5.

Bounds, and why they are enough:

- *flash*: two sectors of 2 and 1 blocks (sizes must differ), 2 packets a block
  (a block can be half written), one RAM block before the file (a command can
  cross), commands of up to 2 blocks (a command can cross a sector), one image
  over both sectors, one over the first, one foreign file. One block more or a
  third sector adds another copy of a case that is there; the proofs of section
  4 cover all sizes. `Torn` is one value, different from all content.
- *fifo*: N = 3 and two items, so that the indices wrap at different times and
  a full, an empty and a partly filled ring all wrap. The proofs cover all N.
- *bot*: blocks of 2 packets, commands of up to 2 blocks: first, middle and last
  packet, and both sides of a block boundary. Tags modulo 3 (2 for the hasty
  host): a reply that is one command late still differs. TxDepth = 2 bounds the
  transmit FIFO, which in hardware holds one packet; with prompt interrupts
  the bound is not reached (InStep); with the hasty host packets beyond
  it are dropped, as a full FIFO does.
- *serial*: Fifo and packets of two bytes, five bytes in all: the Fifo fills
  and wraps, a packet is full or not, a call is cut short.
- *control*: one slot in Ep0Buf (4 in the code), so that it is full when it is
  used at all; one address; the descriptor of the configuration fills two packets
  and the string three, of which the host asks for all and more (and then misses
  the packet that would end it) or for 130 bytes, two packets and a bit. Three
  packets are what it takes to lose the event of a packet that is not the last. After
  `dirty` or `outrun` the host does nothing but reset the bus. At address 0 the
  interrupt is prompt: a host waits 2 ms there by the USB standard.
- *card*: three blocks of two packets, commands of up to three blocks, one that
  ends at and one that begins behind the end; timers of one or two ticks (20 to
  100 in the code), enough for an answer before and after. Open is checked
  with cards that answer and cards that never do.
- *player*: one read that fails, of a FAT block or of data, at any place (with
  two of them 492,914 states, also without an error); windows of 3 units on blocks of 3 start at every part of a block;
  two FAT entries a block make chains cross blocks of the FAT; the decoder
  leaves a part of the window (MAD_BUFFER_GUARD).
- *midi*: chords, a pause of no length, a score without a pause, one that starts
  with a pause.
- *service*: three clusters and a block that is left over, words of 7 bits, a file whose length is a multiple of the cipher's
  block and one that is not, one without magic number, one that is missing.

Interrupts are served before the host's next transaction completes in the
orderly and the erring scene of *bot*: the handlers take microseconds, a
full-speed bulk transaction and the host driver much longer. The hasty scene
drops the assumption.

Fairness, and what justifies it:

- Fifo: both sides carry on a method they have begun (no wait in it).
- MscBot: pending interrupts are taken and end (WF of Device); a host that has
  begun a command carries it on, including its timeout (WF of Host). That the
  host sends commands or resets the bus is not assumed.
- UsbControl: the interrupt runs (WF of Irq), the host carries on a transfer.
- SerialTx: main program, interrupts, shift register and the host's IN token.
- MmcCard: the driver runs and SysTick ticks when it can. Nothing is assumed of
  the card: OpenEnds holds with one that is busy for ever or never sends its
  CSD. That the card answers in the end is a premise of CommandsEnd alone,
  written into the property, since in the USB interrupt nothing else ends a
  wait; what happens without it is the question of *card_waits*.
- MidiPlayer: samples come (the I2S clock), main program and ToneChange go on.
- FirmwareService: the parent accepts and goes on, each process ends its request.
- FlashImage and FatPlayer claim no liveness: nobody forces the user.

Deadlock is not checked where the system may rest: a player whose directory or
score is at its end, a driver at its breakpoint, a serial line all bytes of
which are sent, a host that sends no request.

## 4. What is proved

TLAPS checks what follows for **every** value of the constants that the named
assumptions of the modules allow: any ring, any sector layout and image, any
packet size, score, file and volume, any set of commands or well-formed
requests. The assumptions say what the constants are and what the code relies on
at compile time (a FAT entry fits a block, a sector holds whole blocks, a
descriptor has a length, lies in the image and the image on the disk), and which
commands and requests a host sends; none speaks of the behaviour of the device.
Each invariant was checked by TLC before it was proved.

*Fifo* (FifoProofs): `TypeCorrect`, `DistanceHolds`, `SlotsSafe` and the
refinement `RingIsQueue`. Distance, that the indices differ by the number of
items modulo N, is not inductive: a writer that stores into a full ring keeps
it. The inductive invariant adds `TestHolds` (what a method has tested still
holds, since the other side moves `len` away from the limit) and `IndexStep`
(an index is off the end only before saturate()). SlotsDisjoint then follows: the
indices are inside the array by IndexStep, and they differ by arithmetic, since
equal indices mean an empty or a full ring, and neither lets both sides in. For the refinement each of WriteStore and ReadFetch is shown to be
one step of the queue and every other step to leave the sequence as it is.

*FlashImage* (FlashImageProofs): `TypeCorrect`, `ErasesAhead`, and for one copy per session `CleanSession`,
`ProgramsOnlyErased`, `UploadSticks` and the refinement `UpgradeAtomic`. The
first invariant is TypeOK with `AtRest` (nothing is under way outside of the
loader, so no step changes the flash under a running image), `HasFile` (a command
that reaches the file area belongs to a file) and `Prepared` (EraseAhead in every
mode). The key lemma, `CommandPrepared`, turns the loop of eraseBlocks, which
compares sector starts with the end of the range in blocks, into a statement about
packets. `StartOf`, the start of a sector, is a recursive function; that it
yields numbers is proved by its least counterexample, not assumed.
The invariant of a session relates `isErased` to the content: a sector not
erased in this session has received nothing in it, one that was erased holds
in every cell nothing or the packet of the file being copied, and what the host
thinks delivered is there unless the flash has failed. UploadBoots follows
when all packets are delivered. For the refinement every step is shown to
be one of FirmwareSlot or to leave the slot alone; only the last packet of an
image can fill it, and only the erase of its first sectors or a packet on top
can empty it.

*MscBot* (MscBotProofs): every safety property the run checks, for any size of a
block, transfers of any length and any set of commands. `NeverRunsOver` holds for
all three hosts: in a data stage rwlen is not 0, and the residue covers what is
left, in whole blocks on a card (`Storage`, `Covers`), so neither count-down wraps
around. The exception it states is the packet after a bus reset in the middle of a
WRITE of the hasty host, a command that is stored as data. It is not 64 bytes long and
takes rwlen and, on the emulated disk, the residue off the grid (`Skewed`); rwlen
then passes by 0 without meeting it and the transfer runs on. The
rest is for the orderly and the erring host. PhasesAgree, InStep and the others
are not inductive: each speaks of one moment, and what leads there depends on
stage, the FIFOs, the interrupt and the host together. The invariant says that
these are always in one of seven situations - at rest, a recovery, a command
sent, data taken, data given, a status offered, silence - and what the counts
are in each (`Situation`; `AlwaysInSituation` proves it). One lemma per action
leads from situation to situation; `Commands` first reduces the parser with all
its early returns to the four ways in which a command begins. `Exact` says that
the residue is what is left as long as there is no sense data, on a card within
a block; at the end of a transfer it is a multiple of a block below one, hence
0. From the situations follow `StaysInStep`, `PhasesAlwaysAgree`, `CountsAgree`,
`NeverReset` and, as an action property, `StatusIsTruthful`.

*SerialTx* (SerialTxProofs): `BytesConserved` for every depth and packet size, and
`ReadyMeansEmpty`: when usbtx_rdy is set (and Send not about to clear it) nothing is
on the wire and no event is pending but the one being acknowledged, so Send never
writes a packet behind another. The invariant says in what order the bytes are
spread over the places they can be in (received, on the wire, in the local
variable of the sender, in the Fifo), which places are used by which wiring
(`Wired`), and who may touch the FIFO of the endpoint (`Guarded`).

*UsbControl* (UsbControlProofs): all of the safety properties the run checks, in
three invariants. `CoreInvariance` is about a transfer and the handler:
OneWriter says that of all that can write a packet to the FIFO of EP0 - a SETUP,
a packet of data, an IN event that waits or is under way - at most one has a
reason to, and then nothing is on offer, unless a SETUP has overtaken an IN
event. From it follow `WritesClean`, `DataIsComplete` and `DataComesInOrder`.
The second invariant, proved relative to the first, is about the state a device
keeps between transfers: `TypeInvariant`, `AddressFollows`,
`ConfigurationFollows` and `HaltIsShown`. Between a request that the device has
carried out and the status the host has seen the two differ; the invariant names
that interval (StatusOffered), and the time between a bus reset and its handler
(Stale). The third is for `FifosStayApart`. usb_setEP computes the place of a
transmit FIFO from the size registers of the endpoints below, as they are
(`Behind`). That no two active endpoints overlap is therefore not inductive: it
would break if one of them were placed behind a register that is still unset.
`FifoInv` says that a device which is configured, or has any IN endpoint active,
has **all** of its FIFOs in their places (`FifoPlace`), enabled or not.
SET_CONFIGURATION establishes it from whatever the registers held, since it goes
through the endpoints in ascending order (`AllPlaced`, by the first endpoint
that is not in its place), behind the words of the receive FIFO and of EP0
(`FifoBase`); SET_INTERFACE computes one place again from those of
the others, which is where it was; a bus reset disables endpoints and leaves the
registers alone.

*MidiPlayer* (PlayerProofs): `PausesKept`, for every score with the exception
that section 5 describes. The invariant places the pause the sample interrupt counts
(`AtPause`) and says when no request can be on the line (`Quiet`).

*FatPlayer* (PlayerProofs): `FileIsRead` and `PlaceKept`, for every size of
block, cluster, window and file and every chain. The reader either sits at the
cluster that belongs to the position (`Sits`), or a read of the FAT has failed
and it is `Adrift`: it goes on with the base it had, which is right only for a file
in one piece. `Held` says what the buffer has: the block that was passed, or one
that could not be read. `KeepsPlace` then says of each part of the window which
block it is, in both cases: adrift, the first part may be the block behind the one
asked for, since ReadBlock returns before it looks at it, and never another.

*MmcCard* (MmcCardProofs): `TypeInvariance`, `ReadsAreTruthful` and
`WritesAreTruthful`, for every kind and capacity of card, every size of block and
of command, good cards and failing ones. Driver and card count separately:
`ofs`, `bct` and `len` on one side, `pos` and `at` on the other. The invariant
ties both to the packets the host has moved (`Sent`, in blocks and packets
`Blk` and `Off`) and has one part for each place where the driver waits; it
distinguishes a card that is in step from one that has become deaf because it
refused a block, in which case there is sense data. `Places` says where the driver
can wait, and that in the USB interrupt the timer of a wait has the value it
was set to: SysTick does not get through, the behaviour *card_waits* shows. The proof
rests on it. If such a wait could time out, the driver would go on while the card
still sends, and the two counts would part.

*FirmwareService* (FirmwareServiceProofs): `PackedIsAccepted`, for every disk
whose FAT fits two blocks, every size of a word that can hold the size of that
disk, every source and every place of the descriptor that is inside the image. Two tables are made by a recursion, the
sums of the words and the FAT. That such a recursion has a solution is a lemma
(`Recursion`), what it gives is proved by the least step that would be wrong.
`SumPut`: a word that was 0 adds to the sum what is put there, whence the check
word makes the sum 0 (`PackRight`). `PutThenGet`: an entry of 12 bits that is
written into the bytes it shares can be read, and the entries before it are as
they were; from it the FAT has the entries Prepare means (`FatTable`), a host
finds the clusters of the file in a row (`Chain`), and word i of the file is
word i of the memory (`InOrder`). The inductive invariant adds to Accepted that
whatever looks like an image, in memory or in a file, has a size that fits
(`Headed`): without it image_size could be one of rubbish, and a file read back
could be cut in its descriptor. A file that was read back as a whole still sums
to 0, since the packets up to image_size are read, not blanked (`Readable`).

What is only model-checked, and why:

- liveness (Drains, CommandEnds, TransferEnds, OpenEnds, CommandsEnd, MelodyEnds, Served): the
  prover does not handle fairness and ENABLED;
- the hasty host of MscBot beyond types and NeverPastEnd: InStep and the rest
  promise nothing for it.

## 5. What was found

By a run that ends in the counterexample:

- **A second copy in a session is lost** (flash_reupload). `isErased[]` lets a
  sector be erased only once per reset (`flashwriter.cpp:28`). Copying a wrong
  file and then the right one programs the second over the first; every command
  passes, but the image is not found.
- **A wait in the USB interrupt does not time out** (card_waits). The comments of
  `storagemmc.cpp` (:141, :253, :325) give 200 and 500 ms, counted by SysTick,
  which has the lowest priority and cannot interrupt the handler that waits.
- **The downloaded firmware does not run** (service_key). The server makes the
  key in one process and encrypts in another one, whose key is all zero.

Seen while modelling and kept in the models as the code has it; properties
name them as exceptions, or the text of the definition does:

- *MSC class.* "set EP to stay stalled" (`msclass.cpp:121`) does not: the bit set
  by MSC_SetStallEPStall (15, `msclass.cpp:569`) is not the one CLEAR_FEATURE
  tests (`usbdevice.cpp:153`). Data for a rejected command that is not stalled
  (MODE SELECT) arrives in stage CSW and a second status is written behind the
  first (`msclass.cpp:62`). After a bus reset or SET_CONFIGURATION in the middle
  of a WRITE the next CBW is stored as data, although `flashwriter.cpp:36` states
  whole packets; it is 31 bytes long, rwlen and the residue are unsigned and never
  meet 0, and the WRITE goes on over whatever follows until the class is reset.
  NeverPastEnd excepts exactly that. A WRITE with the direction of a READ has erased
  sectors before it is refused (`msclass.cpp:166`).
- *Flash.* Nobody looks at the result of an erase or a program operation
  (`flash.cpp:69`): when one fails, everything behind it in the session is skipped, every
  command still passes, and the host learns of it only when the image does not
  start. UploadBoots promises nothing once a flag is set.
- *CDC.* `CdClass::Send` clears usbtx_rdy after it has handed the packet over
  (`cdclass.cpp:54-55`); an IN interrupt in between is forgotten, and Print falls
  silent for good (`lost`). UsbHw::Handler clears XFRC after it has called the class
  (`usbhw.cpp:616-618`), which may have written the next packet; when the host fetches
  it before that, its event is lost, usbtx_rdy stays 0 and Echo falls silent with bytes
  in the Fifo (`missed`). Drains excepts these two and a bus reset that
  flushes the packet, in all three wirings.
- *EP0.* A SETUP that is served before the IN event of an earlier transfer makes
  Ep0EventIn write a packet behind another one (CleanUnlessOvertaken). A bus
  reset between the parts of the handler may leave the old address
  (AddressAgrees). No zero-length packet ends data that fills its last packet
  and is shorter than asked; a CDC request that is not known gets no answer
  (Unanswered) and, when it sends data, a status whatever CommandHandler returns. The
  handler clears the flag of an IN event after it has served it
  (`usbhw.cpp:616-618`), so when the host takes the packet the handler has written
  before that, its event is lost: with three packets or more, the next one is never
  sent. TransferEnds excepts exactly that state (EventLost), and is violated
  without the exception. The descriptors of this device have at most two packets. The
  device qualifier is sent from a stale pointer.
- *Card.* After a transfer abandoned by the host the stream stays open on the
  card; ReadTruthful and WriteTruthful say nothing until it is closed. A bad
  first token ends in `bkpt` (`storagemmc.cpp:257`).
- *MP3 player.* At the seam of two clusters that do not follow each other on the
  card the look-ahead delivers the block behind the old cluster
  (`fat32ro.cpp:195`; the comment at :183 speaks of it). ReadsFile excepts
  exactly that block. The result of a data read is ignored (`fat32ro.cpp:204`): the
  decoder gets the content before it, and nothing says so. When a FAT block cannot be
  read, ReadBlock returns early (`fat32ro.cpp:198`) with the block behind the one
  asked for in the buffer; in a file in one piece a window asked for again then begins
  with the wrong block, in any other the player is lost until the next file. KeepsPlace
  says so much and no more. A frame longer than the window makes the decoder ask for
  the same window for ever (`minimad.cpp:57`; not in the model).
- *MIDI player.* A sample between `soft.Clr` and the assignment of `pause` raises
  the line again: the next pause is skipped, or the score read beyond its end. A
  sample between SetDriver and `soft.Start` may leave a software request that
  never becomes an interrupt, or double the first change. PauseKept and
  MelodyEnds except these two, told apart by `early` and `again`.
- *Server.* After CONNMAX connections the search for a slot does not end
  (`http/main.cpp:138`); when fork fails the connection is left open; a signal
  ends the server. Served excepts the three.
- *Emulation on Linux* (not modelled). The wait for data is an `if`
  (`lib/unix/src/usbhw.cpp:505`), a reply written between write() and clearBuf is
  thrown away, a thread cancelled in pthread_cond_wait keeps the mutex and
  stop_io's join can hang.
- *USART* (not modelled). The handlers of USART3 and UART4 dispatch to the
  instance of USART2 (`usart.cpp:85`).

## 6. Not modelled, and the plan

Not modelled, and why:

- the contents of replies, of the boot block, of index.html and of strings, names
  and dates in directories: data that is built once and that no control depends on;
- the rounds of TEA, and the chance that a mixture sums to 0;
- USB below the transaction, clocks, pins, suspend and remote wake-up;
- the optimiser (Fifo assumes program order);
- the audio DMA buffers (`lib/stm32f4/src/audiodma.cpp`) and `Interface::pass`/`Up`
  (`lib/stm32f4/inc/iface.h`): a late handler is a matter of time and costs one
  buffer, played twice, which nothing else depends on; ADC, LED effect, tone generators: signals;
- the walk through FAT32 directories (data), the decoders;
- the heap: linked by no Makefile;
- the emulation on Linux: for debugging on a PC, not part of the device;
- vendored code: libmad, gsm, CMSIS and ST headers, dummy_hcd and inode.c of the
  kernel, miditones. It is four fifths of the lines of C in the repository, which
  is why the map, although it covers the control of most of the project's own
  code, is a small share of all lines.

Every safety property that a run finds to hold is also proved; what would come
next is the hasty host of MscBot beyond its types, for which a weaker promise
than InStep would have to be found first.

## 7. Running it

    tlc -workers 2 -config MCFlashImage.cfg MCFlashImage
    tlapm FlashImageProofs.tla

The longest runs are bot and control, above a million states and one to two and a
half minutes each. All proofs take a few minutes, most of it FlashImageProofs, PlayerProofs,
UsbControlProofs, MmcCardProofs and MscBotProofs.
