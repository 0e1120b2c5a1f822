------------------------------ MODULE FatPlayer ------------------------------
(***************************************************************************)
(* How the MP3 player reads a file (xsdc/play/fat32ro.cpp, minimad.cpp).   *)
(*                                                                         *)
(* The decoder consumes the file through a window of one block's length    *)
(* that starts anywhere (MiniMad::input): a window covers the end of one   *)
(* block and the beginning of the next, so FAT32RO::get_mpg calls          *)
(* ReadBlock twice.  There is one buffer for data, mdata_buffer, and one   *)
(* for the FAT, block_buffer; ReadBlock keeps the place in the chain of    *)
(* clusters in current_cluster, current_block and pass_block and works out *)
(* from these whether to go on to the next cluster.                        *)
(*                                                                         *)
(* Lengths are counted in units, Block of them to a block of 512 bytes.    *)
(* The contents of a block on the card are its number.  unsigned           *)
(* differences that wrap around and wrap back are plain integers.          *)
(***************************************************************************)
EXTENDS Integers, Sequences, Functions

CONSTANTS
  Block,       \* units in a block, in the data buffer and in StreamBuff
  PerFat,      \* FAT entries in a block, block_size >> 2
  Volumes,     \* [reserved, fatLen, fats, clusterSize]: the boot sector
  Files,       \* [chain, len]: the clusters of a file in order, its units
  MaxOpens,    \* files played one after the other
  MaxFails     \* blocks the card fails to deliver

ASSUME PlayerAssumption ==
  /\ Block \in Nat \ {0} /\ PerFat \in Nat \ {0}
  /\ MaxOpens \in Nat /\ MaxFails \in Nat
  /\ \A v \in Volumes : {v.reserved, v.fatLen, v.fats, v.clusterSize} \subseteq Nat \ {0}
  /\ \A f \in Files : /\ f.chain \in Seq(Nat) /\ f.chain # << >> /\ f.len \in Nat
                      /\ \A i \in DOMAIN f.chain : f.chain[i] >= 2
                      /\ IsInjective(f.chain)

Lost == -1     \* what NextCluster returns when the FAT cannot be read
End  == -2     \* the end mark of a chain, 0x0FFFFFFF; the other marks, from
               \* 0x0FFFFFF8 on, would pass the test in ReadBlock

VARIABLES
  volume,      \* the card's boot sector, as Identify has read it
  file,        \* the file being played
  playing,     \* MiniMad::decode runs
  counter,     \* units the decoder has consumed
  window,      \* StreamBuff: the blocks its two parts were copied from
  cluster,     \* current_cluster
  base,        \* current_block: block 0 of the file, were it in one piece
  pass,        \* pass_block
  segment,     \* Segment: the block of the FAT in block_buffer
  mdata,       \* mdata_buffer: the block it was read from
  unread,      \* blocks whose last read failed, which nothing tells (history)
  opens, fails

reader == <<cluster, base, pass, segment, mdata, unread>>
vars   == <<volume, file, playing, counter, window, reader, opens, fails>>

-----------------------------------------------------------------------------
(* The volume: Identify                                                    *)

FatTable1 == volume.reserved

ReferenceClusterZero ==
  FatTable1 + volume.fatLen + (IF volume.fats > 1 THEN volume.fatLen ELSE 0)

ClusterToBlock(c) == (c - 2) * volume.clusterSize + ReferenceClusterZero

BlockToCluster(b) == ((b - ReferenceClusterZero) \div volume.clusterSize) + 2

\* The files a volume can hold: the chain is just long enough.
FilesOf(v) ==
  {f \in Files : LET c == v.clusterSize * Block
                 IN  (Len(f.chain) - 1) * c < f.len /\ f.len <= Len(f.chain) * c}

\* The FAT: the cluster behind c in the chain of the file being played.
FatEntry(c) ==
  LET at == {i \in DOMAIN file.chain : file.chain[i] = c}
  IN  IF \E i \in at : i < Len(file.chain)
      THEN file.chain[(CHOOSE i \in at : TRUE) + 1]
      ELSE End

\* Mutant: the boundary is crossed only when a block further on has been read.
PassedBeyond(p, ofs) == p > ofs

\* pass_block >= ofs_block: the block asked for was read before, as the one
\* behind the window; only then the cluster boundary is taken as crossed.
Passed(p, ofs) == p >= ofs

-----------------------------------------------------------------------------
(* Reading.  r is the reader's state, ok what the card does: ok.fat and    *)
(* ok.data, whether a read of the FAT and of the data succeeds.            *)

Reader == [cluster |-> cluster, base |-> base, pass |-> pass,
           segment |-> segment, mdata |-> mdata, unread |-> unread]

\* Mutant: when the FAT cannot be read, the cluster stays what it was.
NextClusterStays(r, ok) ==
  LET seg == (r.cluster \div PerFat) + FatTable1
  IN  IF seg # r.segment /\ ~ok.fat
      THEN r
      ELSE [r EXCEPT !.cluster = FatEntry(r.cluster), !.segment = seg]

\* NextCluster: the block of the FAT is read unless it is in the buffer.
NextCluster(r, ok) ==
  LET seg == (r.cluster \div PerFat) + FatTable1
  IN  IF r.cluster < 0 \/ (seg # r.segment /\ ~ok.fat)
      THEN [r EXCEPT !.cluster = Lost]     \* beyond the card, or not read
      ELSE [r EXCEPT !.cluster = FatEntry(r.cluster), !.segment = seg]

\* The next cluster becomes the one of block b.
Cross(r, b, ok) ==
  LET n == NextCluster(r, ok)
  IN  IF n.cluster < 0 THEN n ELSE [n EXCEPT !.base = ClusterToBlock(n.cluster) - b]

\* A block that cannot be read leaves the buffer as it was, and is passed.
Load(r, b, ok) ==
  LET ofs == b + r.base
  IN  IF r.pass = ofs THEN r
      ELSE [r EXCEPT !.pass = ofs,
                     !.mdata  = IF ok.data THEN ofs ELSE @,
                     !.unread = IF ok.data THEN @ \ {ofs} ELSE @ \cup {ofs}]

\* ReadBlock: b counts from the beginning of the file.
ReadBlock(r, b, ok) ==
  LET ofs   == b + r.base
      cross == Passed(r.pass, ofs) /\ BlockToCluster(ofs) # r.cluster
      moved == Cross(r, b, ok)
  IN  IF ~cross               THEN Load(r, b, ok)
      ELSE IF moved.cluster < 0 THEN moved          \* returns early
      ELSE Load(moved, b, ok)

Outcomes == [fat : BOOLEAN, data : BOOLEAN]

Faults(ok) == IF ok.fat /\ ok.data THEN 0 ELSE 1

SetReader(r) ==
  /\ cluster' = r.cluster /\ base' = r.base /\ pass' = r.pass
  /\ segment' = r.segment /\ mdata' = r.mdata /\ unread' = r.unread

-----------------------------------------------------------------------------
(* The player                                                              *)

\* FAT32RO::OpenFile, from ReadEntry.  An empty file has nothing to read:
\* input() stops at once.
OpenFile(f) ==
  /\ ~playing /\ opens < MaxOpens
  /\ file' = f /\ playing' = TRUE /\ counter' = 0 /\ window' = << >>
  /\ cluster' = f.chain[1] /\ base' = ClusterToBlock(f.chain[1])
  /\ pass' = 0 /\ segment' = 0
  /\ opens' = opens + 1
  /\ UNCHANGED <<volume, mdata, unread, fails>>

\* MiniMad::input with get_mpg: the window moves on by step units, and is
\* filled from one or two blocks.  skip_file() ends the file in between.
Input(step) ==
  /\ playing
  /\ counter' = counter + step
  /\ IF counter + step >= file.len
     THEN /\ playing' = FALSE
          /\ UNCHANGED <<window, reader, fails>>
     ELSE \E ok1, ok2 \in Outcomes :
          LET b  == (counter + step) \div Block
              r1 == ReadBlock(Reader, b, ok1)
              whole == (counter + step) % Block = 0
              r2 == ReadBlock(r1, b + 1, ok2)
          IN  /\ fails + Faults(ok1) + Faults(ok2) <= MaxFails
              /\ fails' = fails + Faults(ok1) + Faults(ok2)
              /\ IF whole
                 THEN /\ SetReader(r1) /\ window' = <<r1.mdata>>
                      /\ ok2.fat /\ ok2.data
                 ELSE SetReader(r2) /\ window' = <<r1.mdata, r2.mdata>>
              /\ playing' \in BOOLEAN           \* skip_file
  /\ UNCHANGED <<volume, file, opens>>

\* The library asks for more when a frame does not fit into the window any
\* more.  It keeps MAD_BUFFER_GUARD bytes and never consumes all of it; the
\* first call of a file finds nothing consumed.
Decode ==
  \E step \in 0..(Block - 1) :
     /\ window = << >> => step = 0
     /\ Input(step)

Init ==
  /\ volume \in Volumes
  /\ file \in FilesOf(volume) /\ playing = FALSE /\ counter = 0 /\ window = << >>
  /\ cluster = 0 /\ base = 0 /\ pass = 0 /\ segment = 0 /\ mdata = 0 /\ unread = {}
  /\ opens = 0 /\ fails = 0

Next == (\E f \in FilesOf(volume) : OpenFile(f)) \/ Decode

Spec == Init /\ [][Next]_vars

-----------------------------------------------------------------------------
(* Properties                                                              *)

\* Where block b of the file is on the card.
Place(b) ==
  ClusterToBlock(file.chain[(b \div volume.clusterSize) + 1])
    + (b % volume.clusterSize)

Here == counter \div Block

\* The file's blocks lie one behind the other around the boundary below b.
SmoothAt(b) == b = 0 \/ Place(b) = Place(b - 1) + 1

Consecutive == \A i \in 1..(Len(file.chain) - 1) : file.chain[i + 1] = file.chain[i] + 1

InFile(b) == b * Block < file.len

TypeOK ==
  /\ volume \in Volumes /\ file \in Files
  /\ playing \in BOOLEAN /\ counter \in Nat
  /\ Len(window) <= 2 /\ \A i \in DOMAIN window : window[i] \in Nat
  /\ cluster \in Int /\ base \in Int
  /\ pass \in Nat /\ segment \in Nat /\ mdata \in Nat /\ unread \subseteq Nat
  /\ opens \in 0..MaxOpens /\ fails \in 0..MaxFails

\* The block under the window's beginning is the file's own.
Aligned == window[1] = Place(Here)

\* The block behind it is too, but for one case: a window across the seam of
\* two clusters that do not follow each other on the card ends with what lies
\* behind the old cluster.
OnlyTheSeam ==
  (Len(window) = 2 /\ InFile(Here + 1)) =>
     \/ window[2] = Place(Here + 1)
     \/ (Here + 1) % volume.clusterSize = 0 /\ ~SmoothAt(Here + 1)

\* The end mark is not followed and no cluster is skipped.
OnChain ==
  cluster \in {file.chain[i] : i \in {b \div volume.clusterSize + 1 : b \in {Here, Here + 1}}
                                   \cap DOMAIN file.chain}

\* The decoder gets the file's own bytes at the place where it reads, however
\* the clusters are scattered over the card, however the window moves and
\* however often it is asked for again.
ReadsFile ==
  /\ TypeOK
  /\ (playing /\ window # << >> /\ fails = 0) => Aligned /\ OnlyTheSeam /\ OnChain

\* Part i of the window is block b of the card, or b could not be read.
Part(i, b) == window[i] = b \/ b \in unread

\* What a failure costs.  A block of data that cannot be read is missing itself
\* and nothing else: the blocks around it are the file's own.  When the FAT
\* cannot be read at a boundary, the reader goes on as if the clusters followed
\* each other, for the rest of the file; even where they do, a window that
\* begins in the same block as the last one begins with the block behind it.
KeepsPlace ==
  (playing /\ window # << >>) =>
    /\ cluster # Lost =>
         /\ Part(1, Place(Here))
         /\ Len(window) = 2 /\ InFile(Here + 1) =>
              \/ Part(2, Place(Here + 1))
              \/ (Here + 1) % volume.clusterSize = 0 /\ ~SmoothAt(Here + 1)
    /\ cluster = Lost /\ Consecutive =>
         /\ \E b \in {Here, Here + 1} : Part(1, Place(0) + b)
         /\ Len(window) = 2 => Part(2, Place(0) + Here + 1)
=============================================================================
