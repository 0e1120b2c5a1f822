-------------------------- MODULE FlashImageProofs --------------------------
(***************************************************************************)
(* FlashImage for every sector layout, every set of images and every       *)
(* packet size: types, the order of erasing and programming, what a        *)
(* session leaves in the flash and what is started at reset.               *)
(***************************************************************************)
EXTENDS FlashImage, FiniteSetTheorems, TLAPS

\* Outside of the loader nothing is under way, and a reset starts a session
\* anew.
AtRest ==
  /\ mode # "loader" => toErase = {} /\ rwlen = 0
  /\ mode = "boot"   => isErased = {} /\ up = None

\* A command that reaches the file area belongs to a file the host copies.
HasFile == (rwlen > 0 /\ rwofs + rwlen > Pt2 * PPB) => up # None

\* EraseAhead, in every mode.
Prepared ==
  \A c \in Ahead, k \in Sectors : InSector(c, k) => k \in isErased \cup toErase

\* What runs is whole: nothing is programmed under a running image.
RunsWholeImage ==
  mode = "user" =>
    \E i \in Images : /\ Size[i] = image_size
                      /\ \A c \in ImageCells(i) : flash[c] = {i}

\* The inductive invariant.  RunsWholeImage needs AtRest: a running erase
\* would change the flash under the image.
IInv == TypeOK /\ AtRest /\ HasFile /\ Prepared /\ RunsWholeImage

-----------------------------------------------------------------------------
(* Numbers                                                                 *)

\* A set of natural numbers that is not empty has a least element.
LEMMA LeastElement ==
  ASSUME NEW T, T \subseteq Nat, T # {}
  PROVE  \E x \in T : \A y \in T : x <= y
<1> DEFINE Below == {0 .. (n - 1) : n \in T}
<1>1. Below \subseteq FiniteSubsetsOf(Nat) /\ Below # {}
  <2>1. \A n \in T : IsFiniteSet(0 .. (n - 1)) /\ 0 .. (n - 1) \subseteq Nat
    BY FS_Interval
  <2> QED
    BY <2>1 DEF FiniteSubsetsOf
<1>2. \E B \in Below : \A C \in Below : <<C, B>> \notin StrictSubsetOrdering(Nat)
  <2>1. IsWellFoundedOn(StrictSubsetOrdering(Nat), FiniteSubsetsOf(Nat))
    BY FS_StrictSubsetOrderingWellFounded
  <2> HIDE DEF Below
  <2> QED
    BY <1>1, <2>1, WFMin
<1>3. PICK x \in T : \A y \in T : <<0 .. (y - 1), 0 .. (x - 1)>> \notin StrictSubsetOrdering(Nat)
  BY <1>2
<1>4. ASSUME NEW y \in T, y < x PROVE FALSE
  <2>1. 0 .. (y - 1) \in SUBSET Nat /\ 0 .. (x - 1) \in SUBSET Nat
    OBVIOUS
  <2>2. y \in 0 .. (x - 1) /\ y \notin 0 .. (y - 1)
    BY <1>4
  <2>3. 0 .. (y - 1) \subseteq 0 .. (x - 1) /\ 0 .. (y - 1) # 0 .. (x - 1)
    BY <1>4, <2>2
  <2>4. <<0 .. (y - 1), 0 .. (x - 1)>> \in StrictSubsetOrdering(Nat)
    BY <2>1, <2>3 DEF StrictSubsetOrdering
  <2> QED
    BY <1>3, <2>4
<1> QED
  BY <1>4

-----------------------------------------------------------------------------
(* The table of sector starts                                              *)

\* One turn of the loop that adds up the sizes, with g for the table so far.
Entry(g, k) == IF k = 1 THEN 0 ELSE g[k - 1] + SectorBlocks[k - 1]

\* The recursive definition of the sector starts defines a table of natural
\* numbers: by induction on its length that a table with these entries exists,
\* and by induction on the index that the entries are numbers.  Both
\* inductions look at the least counterexample.
LEMMA StartsTable ==
  /\ StartOf \in [1 .. (NSectors + 1) -> Nat]
  /\ \A k \in 1 .. (NSectors + 1) : StartOf[k] = Entry(StartOf, k)
<1> DEFINE Table(g, n) == g \in [1 .. n -> Nat] /\ \A k \in 1 .. n : g[k] = Entry(g, k)
           Bad == {n \in 1 .. (NSectors + 1) : ~ \E g : Table(g, n)}
<1>1. Bad = {}
  <2>1. Bad \subseteq Nat
    BY FlashAssumption
  <2>2. ASSUME NEW n \in Bad, \A m \in Bad : n <= m PROVE FALSE
    <3>1. n \in 1 .. (NSectors + 1) /\ ~ (\E g : Table(g, n)) /\ NSectors \in Nat
      BY FlashAssumption
    <3>2. n # 1
      <4>1. Table([k \in 1 .. 1 |-> 0], 1)
        BY DEF Entry
      <4> QED
        BY <3>1, <4>1
    <3>3. n - 1 \in 1 .. (NSectors + 1) /\ ~ (n <= n - 1)
      BY <3>1, <3>2
    <3>4. PICK g : Table(g, n - 1)
      <4> HIDE DEF Table
      <4> QED
        BY <2>2, <3>3
    <3> DEFINE h == [k \in 1 .. n |-> IF k = n THEN g[n - 1] + SectorBlocks[n - 1] ELSE g[k]]
    <3>5. g[n - 1] \in Nat /\ SectorBlocks[n - 1] \in Nat
      BY <3>1, <3>2, <3>3, <3>4, FlashAssumption DEF Sectors
    <3>6. h \in [1 .. n -> Nat]
      BY <3>1, <3>4, <3>5
    <3>7. \A k \in 1 .. n : h[k] = Entry(h, k)
      BY <3>1, <3>2, <3>4 DEF Entry
    <3>8. Table(h, n)
      BY <3>6, <3>7
    <3> QED
      BY <3>1, <3>8
  <2> HIDE DEF Bad
  <2> QED
    BY <2>1, <2>2, LeastElement
<1>2. PICK g : Table(g, NSectors + 1)
  BY <1>1, FlashAssumption
<1>3. g = [k \in 1 .. (NSectors + 1) |-> IF k = 1 THEN 0 ELSE g[k - 1] + SectorBlocks[k - 1]]
  BY <1>2 DEF Entry
<1>4. StartOf = [k \in 1 .. (NSectors + 1) |-> IF k = 1 THEN 0 ELSE StartOf[k - 1] + SectorBlocks[k - 1]]
  BY <1>3, Zenon DEF StartOf
<1>5. \A k \in 1 .. (NSectors + 1) : StartOf[k] = Entry(StartOf, k)
  BY <1>4 DEF Entry
<1>6. \A k \in 1 .. (NSectors + 1) : StartOf[k] \in Nat
  <2> DEFINE Untyped == {k \in 1 .. (NSectors + 1) : StartOf[k] \notin Nat}
  <2>1. Untyped \subseteq Nat
    BY FlashAssumption
  <2>2. ASSUME NEW n \in Untyped, \A m \in Untyped : n <= m PROVE FALSE
    <3>1. n \in 1 .. (NSectors + 1) /\ NSectors \in Nat
      BY FlashAssumption
    <3>2. n # 1
      BY <1>5, <3>1 DEF Entry
    <3>3. StartOf[n - 1] \in Nat /\ SectorBlocks[n - 1] \in Nat
      BY <2>2, <3>1, <3>2, FlashAssumption DEF Sectors
    <3>4. StartOf[n] = StartOf[n - 1] + SectorBlocks[n - 1]
      BY <1>5, <3>1, <3>2 DEF Entry
    <3> QED
      BY <3>3, <3>4
  <2>3. Untyped = {}
    <3> HIDE DEF Untyped
    <3> QED
      BY <2>1, <2>2, LeastElement
  <2> QED
    BY <2>3
<1> QED
  BY <1>4, <1>5, <1>6

-----------------------------------------------------------------------------
(* Arithmetic                                                              *)

\* Multiplication by the packets of a block keeps the order.
LEMMA TimesMonotone ==
  ASSUME NEW a \in Int, NEW b \in Int, NEW m \in Nat, a <= b
  PROVE  a * m <= b * m
<1>1. (b - a) * m >= 0
  OBVIOUS
<1>2. (b - a) * m = b * m - a * m
  OBVIOUS
<1> QED
  BY <1>1, <1>2

\* A cell before block m lies in a block before m.
LEMMA BlockBelow ==
  ASSUME NEW c \in Cells, NEW m \in Int, c < m * PPB
  PROVE  BlockOf(c) \in Int /\ BlockOf(c) < m
<1>1. PPB \in Nat \ {0} /\ c \in Nat
  BY FlashAssumption DEF Cells
<1>2. BlockOf(c) \in Int /\ BlockOf(c) * PPB <= c
  BY <1>1 DEF BlockOf
<1>3. SUFFICES ASSUME m <= BlockOf(c) PROVE FALSE
  BY <1>2
<1>4. m * PPB <= BlockOf(c) * PPB
  BY <1>1, <1>2, <1>3, TimesMonotone
<1> QED
  BY <1>1, <1>2, <1>4

\* The table of sector starts and the cells are numbers.
LEMMA Numbers ==
  /\ PPB \in Nat \ {0} /\ Pt2 \in Nat /\ FileBlocks \in Nat
  /\ Cells \subseteq Nat
  /\ \A k \in Sectors : StartOf[k] \in Nat /\ StartOf[k + 1] \in Nat
<1>1. NSectors \in Nat \ {0} /\ PPB \in Nat \ {0} /\ Pt2 \in Nat
  BY FlashAssumption
<1>2. FileBlocks \in Nat
  BY <1>1, StartsTable DEF FileBlocks
<1> QED
  BY <1>1, <1>2, StartsTable DEF Cells, Sectors

\* Every cell lies in a sector that the loader may erase.
LEMMA InSomeSector ==
  ASSUME NEW c \in Cells
  PROVE  \E k \in Sectors : InSector(c, k)
<1> DEFINE Above == {k \in 1 .. (NSectors + 1) : BlockOf(c) < StartOf[k]}
<1>1. NSectors \in Nat /\ BlockOf(c) \in Nat /\ BlockOf(c) < FileBlocks
  <2>1. PPB \in Nat \ {0} /\ c \in Nat /\ FileBlocks \in Nat
    BY Numbers
  <2>2. c < FileBlocks * PPB
    BY <2>1 DEF Cells
  <2>3. BlockOf(c) \in Nat
    BY <2>1 DEF BlockOf
  <2> QED
    BY <2>1, <2>2, <2>3, BlockBelow, FlashAssumption
<1>2. NSectors + 1 \in Above /\ Above \subseteq Nat
  BY <1>1 DEF FileBlocks
<1>3. PICK k \in Above : \A j \in Above : k <= j
  <2> HIDE DEF Above
  <2> QED
    BY <1>2, LeastElement
<1>4. k # 1
  BY <1>1, <1>3, StartsTable DEF Entry
<1>5. k - 1 \in Sectors /\ k - 1 \notin Above /\ (k - 1) + 1 = k
  <2>1. k - 1 \in Sectors /\ (k - 1) + 1 = k /\ ~ (k <= k - 1)
    BY <1>1, <1>4 DEF Sectors
  <2> HIDE DEF Above
  <2> QED
    BY <1>3, <2>1
<1>6. StartOf[k - 1] \in Nat /\ k - 1 \in 1 .. (NSectors + 1)
  BY <1>1, <1>5, StartsTable DEF Sectors
<1>7. InSector(c, k - 1)
  BY <1>1, <1>3, <1>5, <1>6 DEF InSector
<1> QED
  BY <1>5, <1>7

-----------------------------------------------------------------------------
(* Types                                                                   *)

\* An accepted image is an image, with its length.
LEMMA UserImageType ==
  ASSUME TypeOK
  PROVE  /\ UserImage \in Images \cup {None}
         /\ UserImage # None => Accepted(UserImage) /\ Size[UserImage] \in 1 .. FileBlocks
<1>1. CASE \E i \in Images : Accepted(i)
  <2>1. UserImage \in Images /\ Accepted(UserImage)
    BY <1>1 DEF UserImage
  <2> QED
    BY <2>1, FlashAssumption DEF Files
<1>2. CASE ~ \E i \in Images : Accepted(i)
  BY <1>2 DEF UserImage
<1> QED
  BY <1>1, <1>2

\* Content that an erase or a program operation leaves is content.
LEMMA WipedType ==
  ASSUME TypeOK, NEW S, NEW v \in SUBSET (Files \cup {Torn})
  PROVE  Wiped(S, v) \in [Cells -> SUBSET (Files \cup {Torn})]
BY DEF Wiped, TypeOK

\* What a flash operation leaves in a cell is content again.
LEMMA ProgramType ==
  ASSUME TypeOK, NEW c, NEW v \in Files \cup {Torn}
  PROVE  Program(c, v) \in [Cells -> SUBSET (Files \cup {Torn})]
BY DEF Program, TypeOK

\* ... and so is what a cut-off operation leaves.
LEMMA InterruptedType ==
  ASSUME TypeOK
  PROVE  Interrupted \subseteq [Cells -> SUBSET (Files \cup {Torn})]
<1>1. flash \in [Cells -> SUBSET (Files \cup {Torn})]
  BY DEF TypeOK
<1> QED
  BY <1>1, WipedType, ProgramType, {Torn} \in SUBSET (Files \cup {Torn}) DEF Interrupted

\* In the file area the packet that Write programs belongs to a file.
LEMMA WritesFile ==
  ASSUME TypeOK, HasFile, rwlen > 0, rwofs - Pt2 * PPB >= 0
  PROVE  up \in Files
BY Numbers DEF TypeOK, HasFile

\* Every step keeps the types.
LEMMA NextTypeOK == IInv /\ [Next]_vars => TypeOK'
<1> SUFFICES ASSUME IInv, [Next]_vars PROVE TypeOK'
  OBVIOUS
<1>i. TypeOK /\ HasFile
  BY DEF IInv
<1>1. ASSUME NEW button \in BOOLEAN, Boot(button) PROVE TypeOK'
  <2>1. image_size' \in 0 .. FileBlocks
    BY <1>1, <1>i, UserImageType, Numbers DEF Boot, UserCheck
  <2> QED
    BY <1>1, <1>i, <2>1 DEF Boot, TypeOK
<1>2. ASSUME NEW f \in Files, HostCopies(f) PROVE TypeOK'
  <2>1. BlocksOf(f) \subseteq 0 .. (FileBlocks - 1)
    BY FlashAssumption, Numbers DEF BlocksOf
  <2> QED
    BY <1>2, <1>i, <2>1 DEF HostCopies, TypeOK, device
<1>3. ASSUME NEW lba \in 0 .. (Pt2 + FileBlocks - 1), NEW n \in 1 .. MaxCmd, CmdWrite(lba, n)
      PROVE  TypeOK'
  <2>1. lba \in Nat /\ n \in Nat
    BY Numbers, FlashAssumption
  <2>2. lba * PPB \in Nat /\ n * PPB \in Nat
    BY <2>1, Numbers
  <2>3. toErase' \in SUBSET Sectors /\ locked' \in BOOLEAN
    BY <1>3, <1>i DEF CmdWrite, EraseBlocks, TypeOK
  <2> QED
    BY <1>3, <1>i, <2>2, <2>3 DEF CmdWrite, TypeOK
<1>4. ASSUME NEW k \in Sectors, EraseSector(k) PROVE TypeOK'
  <2>1. /\ Wiped(SectorCells(k), {}) \in [Cells -> SUBSET (Files \cup {Torn})]
        /\ Wiped(SectorCells(k), {Torn}) \in [Cells -> SUBSET (Files \cup {Torn})]
    BY <1>i, WipedType
  <2>2. flash' \in [Cells -> SUBSET (Files \cup {Torn})] /\ srErr' \in BOOLEAN
    BY <1>4, <1>i, <2>1 DEF EraseSector, TypeOK
  <2>3. toErase' \in SUBSET Sectors /\ isErased' \in SUBSET Sectors
    BY <1>4, <1>i DEF EraseSector, TypeOK
  <2> QED
    BY <1>4, <1>i, <2>2, <2>3 DEF EraseSector, TypeOK
<1>5. CASE Write
  <2> DEFINE c == rwofs - Pt2 * PPB
  <2>1. flash' \in [Cells -> SUBSET (Files \cup {Torn})] /\ srErr' \in BOOLEAN
    <3>1. CASE c < 0
      BY <1>5, <1>i, <3>1 DEF Write, TypeOK
    <3>2. CASE ~(c < 0)
      <4>1. up \in Files
        BY <1>5, <1>i, <3>2, WritesFile, Numbers DEF Write, TypeOK
      <4>2. /\ Program(c, up) \in [Cells -> SUBSET (Files \cup {Torn})]
            /\ Program(c, Torn) \in [Cells -> SUBSET (Files \cup {Torn})]
        BY <1>i, <4>1, ProgramType
      <4>3. WriteBytes(c)
        BY <1>5, <3>2 DEF Write
      <4> QED
        BY <1>i, <4>2, <4>3 DEF WriteBytes, TypeOK
    <3> QED
      BY <3>1, <3>2
  <2>2. todo' \subseteq todo
    BY <1>5 DEF Write
  <2>3. rwofs' \in Nat /\ rwlen' \in Nat
    BY <1>5, <1>i DEF Write, TypeOK
  <2> QED
    BY <1>5, <1>i, <2>1, <2>2, <2>3 DEF Write, TypeOK
<1>6. CASE PowerCut
  <2>1. flash' \in [Cells -> SUBSET (Files \cup {Torn})]
    BY <1>6, <1>i, InterruptedType DEF PowerCut
  <2>2. locked' \in BOOLEAN /\ srErr' \in BOOLEAN
    BY <1>6, Zenon DEF PowerCut
  <2>3. /\ mode' = "boot" /\ image_size' = 0 /\ isErased' = {} /\ toErase' = {}
        /\ rwofs' = 0 /\ rwlen' = 0 /\ up' = None /\ todo' = {}
    BY <1>6 DEF PowerCut
  <2> QED
    BY <2>1, <2>2, <2>3, Numbers DEF TypeOK
<1>7. CASE UNCHANGED vars
  BY <1>7, <1>i DEF vars, TypeOK
<1> QED
  BY <1>1, <1>2, <1>3, <1>4, <1>5, <1>6, <1>7 DEF Next

-----------------------------------------------------------------------------
(* The other conjuncts of the invariant                                    *)

\* The device with an erased or an installed flash satisfies the invariant.
LEMMA InitIInv == Init => IInv
<1> SUFFICES ASSUME Init PROVE IInv
  OBVIOUS
<1>1. flash \in [Cells -> SUBSET (Files \cup {Torn})]
  BY DEF Init, Files
<1>2. TypeOK
  <2>1. locked \in BOOLEAN /\ srErr \in BOOLEAN
    BY Zenon DEF Init
  <2>2. /\ mode = "boot" /\ image_size = 0 /\ isErased = {} /\ toErase = {}
        /\ rwofs = 0 /\ rwlen = 0 /\ up = None /\ todo = {}
    BY DEF Init
  <2> QED
    BY <1>1, <2>1, <2>2, Numbers DEF TypeOK
<1>3. Ahead = {}
  <2>1. rwofs = 0 /\ rwlen = 0
    BY DEF Init
  <2>2. \A c \in Cells : c + Pt2 * PPB \in Nat
    BY Numbers
  <2> QED
    BY <2>1, <2>2 DEF Ahead
<1>4. AtRest /\ RunsWholeImage
  BY DEF Init, AtRest, RunsWholeImage
<1>5. HasFile
  BY DEF Init, HasFile
<1>6. Prepared
  BY <1>3 DEF Prepared
<1> QED
  BY <1>2, <1>4, <1>5, <1>6 DEF IInv

\* Outside of the loader nothing is under way: no step starts anything there.
LEMMA NextAtRest == IInv /\ [Next]_vars => AtRest'
<1> SUFFICES ASSUME IInv, [Next]_vars PROVE AtRest'
  OBVIOUS
<1>i. TypeOK /\ AtRest
  BY DEF IInv
<1>1. ASSUME NEW button \in BOOLEAN, Boot(button) PROVE AtRest'
  BY <1>1, <1>i DEF Boot, AtRest
<1>2. ASSUME NEW f \in Files, HostCopies(f) PROVE AtRest'
  BY <1>2, <1>i DEF HostCopies, AtRest, device
<1>3. ASSUME NEW lba, NEW n, CmdWrite(lba, n) PROVE AtRest'
  BY <1>3, <1>i DEF CmdWrite, AtRest
<1>4. ASSUME NEW k \in Sectors, EraseSector(k) PROVE AtRest'
  BY <1>4, <1>i DEF EraseSector, AtRest
<1>5. CASE Write
  BY <1>5, <1>i DEF Write, AtRest
<1>6. CASE PowerCut
  BY <1>6 DEF PowerCut, AtRest
<1>7. CASE UNCHANGED vars
  BY <1>7, <1>i DEF vars, AtRest
<1> QED
  BY <1>1, <1>2, <1>3, <1>4, <1>5, <1>6, <1>7 DEF Next

\* A command reaches the file area only while the host copies a file.
LEMMA NextHasFile == IInv /\ [Next]_vars => HasFile'
<1> SUFFICES ASSUME IInv, [Next]_vars PROVE HasFile'
  OBVIOUS
<1>i. TypeOK /\ HasFile
  BY DEF IInv
<1>1. ASSUME NEW button \in BOOLEAN, Boot(button) PROVE HasFile'
  BY <1>1, <1>i DEF Boot, HasFile
<1>2. ASSUME NEW f \in Files, HostCopies(f) PROVE HasFile'
  BY <1>2, <1>i, FlashAssumption DEF HostCopies, HasFile, device
<1>3. ASSUME NEW lba \in 0 .. (Pt2 + FileBlocks - 1), NEW n \in 1 .. MaxCmd, CmdWrite(lba, n)
      PROVE  HasFile'
  <2>1. lba \in Nat /\ n \in Nat \ {0} /\ PPB \in Nat \ {0} /\ Pt2 \in Nat
    BY Numbers, FlashAssumption
  <2>2. CASE lba + n - 1 < Pt2
    <3>1. (lba + n) * PPB <= Pt2 * PPB
      BY <2>1, <2>2, TimesMonotone
    <3>2. lba * PPB + n * PPB = (lba + n) * PPB
      BY <2>1
    <3> QED
      BY <1>3, <2>1, <3>1, <3>2 DEF CmdWrite, HasFile
  <2>3. CASE ~(lba + n - 1 < Pt2)
    BY <1>3, <2>1, <2>3 DEF CmdWrite, HasFile
  <2> QED
    BY <2>2, <2>3
<1>4. ASSUME NEW k \in Sectors, EraseSector(k) PROVE HasFile'
  BY <1>4, <1>i DEF EraseSector, HasFile
<1>5. CASE Write
  BY <1>5, <1>i, Numbers DEF Write, HasFile, TypeOK
<1>6. CASE PowerCut
  BY <1>6 DEF PowerCut, HasFile
<1>7. CASE UNCHANGED vars
  BY <1>7, <1>i DEF vars, HasFile
<1> QED
  BY <1>1, <1>2, <1>3, <1>4, <1>5, <1>6, <1>7 DEF Next

\* The cells of a command lie in sectors that its CmdWrite will erase.
LEMMA CommandPrepared ==
  ASSUME IInv, NEW lba \in 0 .. (Pt2 + FileBlocks - 1), NEW n \in 1 .. MaxCmd,
         CmdWrite(lba, n)
  PROVE  Prepared'
<1> SUFFICES ASSUME NEW c \in Ahead', NEW k \in Sectors, InSector(c, k)
             PROVE  k \in isErased' \cup toErase'
  BY DEF Prepared, InSector
<1>1. lba \in Nat /\ n \in Nat \ {0} /\ PPB \in Nat \ {0} /\ Pt2 \in Nat
  BY Numbers, FlashAssumption
<1>2. c \in Cells /\ c + Pt2 * PPB < lba * PPB + n * PPB
  BY DEF Ahead, CmdWrite
<1>3. c < (lba + n - Pt2) * PPB
  <2>1. (lba + n - Pt2) * PPB = lba * PPB + n * PPB - Pt2 * PPB
    BY <1>1
  <2> QED
    BY <1>1, <1>2, <2>1, Numbers
<1>4. BlockOf(c) \in Int /\ BlockOf(c) < lba + n - Pt2
  BY <1>1, <1>2, <1>3, BlockBelow
<1>5. StartOf[k] \in Nat /\ StartOf[k] < lba + n - Pt2
  BY <1>1, <1>4, Numbers DEF InSector
<1>6. EraseBlocks(IF lba < Pt2 THEN 0 ELSE lba - Pt2,
                  IF lba < Pt2 THEN n + (lba - Pt2) ELSE n)
  BY <1>1, <1>5 DEF CmdWrite
<1>7. k \in toErase' \cup isErased
  BY <1>1, <1>5, <1>6 DEF EraseBlocks
<1> QED
  BY <1>7 DEF CmdWrite

\* CmdWrite prepares what its packets will need, and each packet needs less.
LEMMA NextPrepared == IInv /\ [Next]_vars => Prepared'
<1> SUFFICES ASSUME IInv, [Next]_vars PROVE Prepared'
  OBVIOUS
<1>i. TypeOK /\ AtRest /\ Prepared
  BY DEF IInv
<1>0. ASSUME Ahead' \subseteq Ahead, isErased \cup toErase \subseteq isErased' \cup toErase'
      PROVE  Prepared'
  BY <1>0, <1>i DEF Prepared, InSector
<1>1. ASSUME NEW button \in BOOLEAN, Boot(button) PROVE Prepared'
  BY <1>0, <1>1 DEF Boot, Ahead
<1>2. ASSUME NEW f \in Files, HostCopies(f) PROVE Prepared'
  BY <1>0, <1>2 DEF HostCopies, device, Ahead
<1>3. ASSUME NEW lba \in 0 .. (Pt2 + FileBlocks - 1), NEW n \in 1 .. MaxCmd, CmdWrite(lba, n)
      PROVE  Prepared'
  BY <1>3, CommandPrepared
<1>4. ASSUME NEW k \in Sectors, EraseSector(k) PROVE Prepared'
  BY <1>0, <1>4 DEF EraseSector, Ahead
<1>5. CASE Write
  <2>1. rwofs' = rwofs + 1 /\ rwlen' = rwlen - 1 /\ rwofs \in Nat /\ rwlen \in Nat
    BY <1>5, <1>i DEF Write, TypeOK
  <2>2. \A c \in Cells : c + Pt2 * PPB \in Nat
    BY Numbers
  <2>3. Ahead' \subseteq Ahead
    BY <2>1, <2>2 DEF Ahead
  <2> QED
    BY <1>0, <1>5, <2>3 DEF Write
<1>6. CASE PowerCut
  <2>1. rwofs' = 0 /\ rwlen' = 0
    BY <1>6 DEF PowerCut
  <2>2. \A c \in Cells : c + Pt2 * PPB \in Nat
    BY Numbers
  <2>3. Ahead' = {}
    BY <2>1, <2>2 DEF Ahead
  <2> QED
    BY <2>3 DEF Prepared
<1>7. CASE UNCHANGED vars
  BY <1>0, <1>7 DEF vars, Ahead
<1> QED
  BY <1>1, <1>2, <1>3, <1>4, <1>5, <1>6, <1>7 DEF Next

\* Only an accepted image is started, and nothing is erased or programmed
\* while it runs.
LEMMA NextRunsWholeImage == IInv /\ [Next]_vars => RunsWholeImage'
<1> SUFFICES ASSUME IInv, [Next]_vars, mode' = "user"
             PROVE  \E i \in Images : /\ Size[i] = image_size'
                                      /\ \A c \in ImageCells(i) : flash'[c] = {i}
  BY DEF RunsWholeImage, ImageCells
<1>i. TypeOK /\ AtRest /\ RunsWholeImage
  BY DEF IInv
<1>1. ASSUME NEW button \in BOOLEAN, Boot(button)
      PROVE  \E i \in Images : /\ Size[i] = image_size'
                               /\ \A c \in ImageCells(i) : flash'[c] = {i}
  <2>1. UserImage # None /\ image_size' = Size[UserImage] /\ flash' = flash
    BY <1>1 DEF Boot, UserCheck
  <2>2. UserImage \in Images /\ Accepted(UserImage)
    BY <1>i, <2>1, UserImageType
  <2> QED
    BY <2>1, <2>2 DEF Accepted
<1>2. CASE mode = "user" /\ flash' = flash /\ image_size' = image_size
  BY <1>2, <1>i DEF RunsWholeImage
<1>3. ASSUME NEW f \in Files, HostCopies(f) PROVE FALSE
  BY <1>3 DEF HostCopies
<1>4. ASSUME NEW lba, NEW n, CmdWrite(lba, n) PROVE FALSE
  BY <1>4 DEF CmdWrite
<1>5. ASSUME NEW k \in Sectors, EraseSector(k) PROVE FALSE
  BY <1>5, <1>i DEF EraseSector, AtRest
<1>6. CASE Write \/ PowerCut
  BY <1>6 DEF Write, PowerCut
<1> QED
  BY <1>1, <1>2, <1>3, <1>4, <1>5, <1>6 DEF Next, vars

\* The invariant holds in every state.
THEOREM Invariance == Spec => []IInv
<1>1. IInv /\ [Next]_vars => IInv'
  BY NextTypeOK, NextAtRest, NextHasFile, NextPrepared, NextRunsWholeImage DEF IInv
<1> QED
  BY InitIInv, <1>1, PTL DEF Spec

-----------------------------------------------------------------------------
\* The flash holds packets and remains of them, and the loader's counters
\* stay in their ranges.
THEOREM TypeCorrect == Spec => []TypeOK
BY Invariance, PTL DEF IInv

\* No packet is programmed into a sector that this session has not erased,
\* whatever the sector table, the order of the commands and their overlap.
THEOREM ErasesAhead == Spec => []EraseAhead
<1>1. IInv => EraseAhead
  BY DEF IInv, Prepared, EraseAhead
<1> QED
  BY <1>1, Invariance, PTL

-----------------------------------------------------------------------------
(* What a session leaves in the sectors it has erased                      *)

\* SessionClean, stronger before the first copy.
Clean ==
  ~srErr => \A k \in isErased : \A c \in SectorCells(k) :
              flash[c] = {} \/ (up # None /\ flash[c] = {up})

\* Sectors erased in this session hold packets of the session's file only.
LEMMA NextClean ==
  ASSUME Reupload = FALSE
  PROVE  IInv /\ Clean /\ [Next]_vars => Clean'
<1> SUFFICES ASSUME IInv, Clean, [Next]_vars, ~srErr',
                    NEW k \in isErased', NEW c \in SectorCells(k)
             PROVE  flash'[c] = {} \/ (up' # None /\ flash'[c] = {up'})
  BY DEF Clean, SectorCells, InSector
<1>i. TypeOK /\ AtRest /\ HasFile /\ c \in Cells
  BY DEF IInv, SectorCells
<1>0. CASE /\ flash' = flash /\ (srErr' <=> srErr) /\ isErased' \subseteq isErased
           /\ up' = up \/ up = None
  BY <1>0, <1>i DEF Clean
<1>1. ASSUME NEW button \in BOOLEAN, Boot(button) PROVE flash'[c] = {} \/ (up' # None /\ flash'[c] = {up'})
  BY <1>0, <1>1 DEF Boot
<1>2. ASSUME NEW f \in Files, HostCopies(f) PROVE flash'[c] = {} \/ (up' # None /\ flash'[c] = {up'})
  BY <1>0, <1>2 DEF HostCopies, device
<1>3. ASSUME NEW lba, NEW n, CmdWrite(lba, n) PROVE flash'[c] = {} \/ (up' # None /\ flash'[c] = {up'})
  BY <1>0, <1>3 DEF CmdWrite
<1>4. ASSUME NEW j \in Sectors, EraseSector(j)
      PROVE  flash'[c] = {} \/ (up' # None /\ flash'[c] = {up'})
  <2>1. ~srErr /\ flash' = Wiped(SectorCells(j), {}) /\ up' = up
        /\ isErased' = isErased \cup {j}
    BY <1>4, <1>i DEF EraseSector, TypeOK
  <2>2. flash'[c] = IF c \in SectorCells(j) THEN {} ELSE flash[c]
    BY <1>i, <2>1 DEF Wiped
  <2> QED
    BY <2>1, <2>2 DEF Clean
<1>5. CASE Write
  <2> DEFINE d == rwofs - Pt2 * PPB
  <2>1. up' = up /\ isErased' = isErased
    BY <1>5 DEF Write
  <2>2. CASE d < 0
    BY <1>0, <1>5, <2>1, <2>2 DEF Write
  <2>3. CASE ~(d < 0)
    <3>1. WriteBytes(d) /\ up \in Files
      BY <1>5, <1>i, <2>3, WritesFile, Numbers DEF Write, TypeOK
    <3>2. ~srErr /\ (flash' = Program(d, up) \/ flash' = flash)
      BY <1>i, <3>1 DEF WriteBytes, TypeOK
    <3>3. up # None
      BY <3>1, FlashAssumption
    <3>4. flash[c] = {} \/ flash[c] = {up}
      BY <2>1, <3>2 DEF Clean
    <3>5. flash'[c] = flash[c] \/ flash'[c] = flash[c] \cup {up}
      BY <1>i, <3>2 DEF Program, TypeOK
    <3> QED
      BY <2>1, <3>3, <3>4, <3>5
  <2> QED
    BY <2>2, <2>3
<1>6. CASE PowerCut
  BY <1>6 DEF PowerCut
<1>7. CASE UNCHANGED vars
  BY <1>0, <1>7 DEF vars
<1> QED
  BY <1>1, <1>2, <1>3, <1>4, <1>5, <1>6, <1>7 DEF Next

\* With one copy per session, a sector erased in this session holds nothing
\* but packets of the file that is copied, as long as no flash operation
\* fails.
THEOREM CleanSession ==
  ASSUME Reupload = FALSE
  PROVE  Spec => []SessionClean
<1>1. Init => Clean
  BY DEF Init, Clean
<1>2. IInv /\ Clean /\ [Next]_vars => Clean'
  BY NextClean
<1>3. Clean => SessionClean
  BY DEF Clean, SessionClean
<1> QED
  BY <1>1, <1>2, <1>3, Invariance, PTL DEF Spec
-----------------------------------------------------------------------------
(* Blocks and packets                                                      *)

\* A packet lies between the first packet of its block and that of the next.
LEMMA BlockRange ==
  ASSUME NEW c \in Int
  PROVE  /\ BlockOf(c) \in Int
         /\ BlockOf(c) * PPB <= c /\ c < (BlockOf(c) + 1) * PPB
BY FlashAssumption DEF BlockOf

\* No other block has a packet between these two.
LEMMA BlockUnique ==
  ASSUME NEW c \in Int, NEW m \in Int, m * PPB <= c, c < (m + 1) * PPB
  PROVE  BlockOf(c) = m
<1>1. PPB \in Nat \ {0}
  BY FlashAssumption
<1>2. /\ BlockOf(c) \in Int
      /\ BlockOf(c) * PPB <= c /\ c < (BlockOf(c) + 1) * PPB
  BY BlockRange
<1>3. BlockOf(c) + 1 <= m => (BlockOf(c) + 1) * PPB <= m * PPB
  BY <1>1, <1>2, TimesMonotone
<1>4. m + 1 <= BlockOf(c) => (m + 1) * PPB <= BlockOf(c) * PPB
  BY <1>1, <1>2, TimesMonotone
<1> QED
  BY <1>1, <1>2, <1>3, <1>4

\* The order of the packets is that of their blocks.
LEMMA BlockMonotone ==
  ASSUME NEW c \in Int, NEW d \in Int, c <= d
  PROVE  BlockOf(c) <= BlockOf(d)
<1>1. PPB \in Nat \ {0}
  BY FlashAssumption
<1>2. /\ BlockOf(c) \in Int /\ BlockOf(c) * PPB <= c
      /\ BlockOf(d) \in Int /\ d < (BlockOf(d) + 1) * PPB
  BY BlockRange
<1>3. BlockOf(d) + 1 <= BlockOf(c) => (BlockOf(d) + 1) * PPB <= BlockOf(c) * PPB
  BY <1>1, <1>2, TimesMonotone
<1> QED
  BY <1>1, <1>2, <1>3

\* The packet before a multiple of PPB is the last one of its block.
LEMMA LastOfBlock ==
  ASSUME NEW c \in Int, NEW d \in Int,
         (c + 1) % PPB = 0, BlockOf(d) = BlockOf(c)
  PROVE  d <= c
<1>1. PPB \in Nat \ {0}
  BY FlashAssumption
<1> DEFINE q == (c + 1) \div PPB
<1>2. q \in Int /\ c + 1 = q * PPB
  BY <1>1
<1>3. BlockOf(c) = q - 1
  <2>1. (q - 1) * PPB = q * PPB - PPB
    BY <1>1, <1>2
  <2> QED
    BY <1>1, <1>2, <2>1, BlockUnique
<1>4. d < q * PPB
  BY <1>2, <1>3, BlockRange
<1> QED
  BY <1>2, <1>4

-----------------------------------------------------------------------------
(* What has arrived                                                        *)

\* A command ends on the disk, and before the file area as long as the host
\* has nothing to copy.
Limits ==
  /\ rwofs + rwlen <= (Pt2 + FileBlocks) * PPB
  /\ up = None => rwofs + rwlen <= Pt2 * PPB

\* No sector is erased twice in a session, and the first erase unlocks the
\* flash.
Armed ==
  /\ toErase \cap isErased = {}
  /\ isErased \cup toErase # {} => ~locked

\* The packets that the host has written: those of the blocks it needs not
\* write any more, and those of the block the command is in.
Arrived ==
  {c \in Cells : \/ up # None /\ BlockOf(c) \in BlocksOf(up) \ todo
                 \/ /\ c + Pt2 * PPB < rwofs
                    /\ BlockOf(c) = BlockOf(rwofs - Pt2 * PPB)}

\* They are in the flash, where no erase of this session reaches them any
\* more.
Loaded ==
  ~srErr => \A c \in Arrived : /\ up # None /\ flash[c] = {up}
                               /\ \A k \in Sectors : InSector(c, k) => k \in isErased

\* The inductive invariant of a session with one copy.
SessionInv == IInv /\ Clean /\ Limits /\ Armed /\ Loaded

\* Every command ends on the disk, and before the file area without a file.
LEMMA NextLimits == IInv /\ Limits /\ [Next]_vars => Limits'
<1> SUFFICES ASSUME IInv, Limits, [Next]_vars PROVE Limits'
  OBVIOUS
<1>i. TypeOK
  BY DEF IInv
<1>1. ASSUME NEW button \in BOOLEAN, Boot(button) PROVE Limits'
  BY <1>1 DEF Boot, Limits
<1>2. ASSUME NEW f \in Files, HostCopies(f) PROVE Limits'
  BY <1>2, FlashAssumption DEF HostCopies, Limits, device
<1>3. ASSUME NEW lba \in 0 .. (Pt2 + FileBlocks - 1), NEW n \in 1 .. MaxCmd, CmdWrite(lba, n)
      PROVE  Limits'
  <2>1. /\ lba \in Nat /\ n \in Nat \ {0} /\ PPB \in Nat \ {0}
        /\ Pt2 \in Nat /\ FileBlocks \in Nat
    BY Numbers, FlashAssumption
  <2>2. rwofs' + rwlen' = (lba + n) * PPB /\ up' = up
    BY <1>3, <2>1 DEF CmdWrite
  <2>3. \/ lba + n - 1 < Pt2
        \/ up # None /\ (lba + n - 1) - Pt2 \in BlocksOf(up)
    BY <1>3, <2>1 DEF CmdWrite
  <2>4. lba + n <= Pt2 \/ (up # None /\ lba + n <= Pt2 + FileBlocks)
    BY <1>i, <2>1, <2>3, FlashAssumption DEF BlocksOf, TypeOK
  <2>5. /\ lba + n <= Pt2 => (lba + n) * PPB <= Pt2 * PPB
        /\ lba + n <= Pt2 + FileBlocks => (lba + n) * PPB <= (Pt2 + FileBlocks) * PPB
    BY <2>1, TimesMonotone
  <2> QED
    BY <2>1, <2>2, <2>4, <2>5 DEF Limits
<1>4. ASSUME NEW k \in Sectors, EraseSector(k) PROVE Limits'
  BY <1>4 DEF EraseSector, Limits
<1>5. CASE Write
  BY <1>5, <1>i DEF Write, Limits, TypeOK
<1>6. CASE PowerCut
  <2>1. Pt2 * PPB >= 0 /\ (Pt2 + FileBlocks) * PPB >= 0
    BY Numbers
  <2> QED
    BY <1>6, <2>1 DEF PowerCut, Limits
<1>7. CASE UNCHANGED vars
  BY <1>7 DEF vars, Limits
<1> QED
  BY <1>1, <1>2, <1>3, <1>4, <1>5, <1>6, <1>7 DEF Next

\* Sectors leave toErase as they enter isErased, behind the unlock of CmdWrite.
LEMMA NextArmed == IInv /\ Armed /\ [Next]_vars => Armed'
<1> SUFFICES ASSUME IInv, Armed, [Next]_vars PROVE Armed'
  OBVIOUS
<1>1. ASSUME NEW button \in BOOLEAN, Boot(button) PROVE Armed'
  BY <1>1 DEF Boot, Armed
<1>2. ASSUME NEW f \in Files, HostCopies(f) PROVE Armed'
  BY <1>2 DEF HostCopies, Armed, device
<1>3. ASSUME NEW lba, NEW n, CmdWrite(lba, n) PROVE Armed'
  BY <1>3 DEF CmdWrite, EraseBlocks, Armed
<1>4. ASSUME NEW k \in Sectors, EraseSector(k) PROVE Armed'
  BY <1>4 DEF EraseSector, Armed
<1>5. CASE Write
  BY <1>5 DEF Write, Armed
<1>6. CASE PowerCut
  BY <1>6 DEF PowerCut, Armed
<1>7. CASE UNCHANGED vars
  BY <1>7 DEF vars, Armed
<1> QED
  BY <1>1, <1>2, <1>3, <1>4, <1>5, <1>6, <1>7 DEF Next

\* A packet of the file area that is written without an error is in the flash
\* afterwards, and no other cell has changed: its sector has been erased, so
\* that the flash is unlocked and the cell holds nothing else.
LEMMA PacketStored ==
  ASSUME SessionInv, Write, ~srErr', NEW d, d = rwofs - Pt2 * PPB, d >= 0
  PROVE  /\ d \in Cells /\ up \in Files
         /\ \A k \in Sectors : InSector(d, k) => k \in isErased
         /\ flash'[d] = {up}
         /\ \A c \in Cells : c # d => flash'[c] = flash[c]
<1>i. TypeOK /\ HasFile /\ Prepared /\ Clean /\ Limits /\ Armed
  BY DEF SessionInv, IInv
<1>n. /\ PPB \in Nat \ {0} /\ Pt2 \in Nat /\ FileBlocks \in Nat
      /\ rwofs \in Nat /\ rwlen \in Nat /\ rwlen > 0 /\ toErase = {}
  BY <1>i, Numbers DEF Write, TypeOK
<1>1. d \in Cells
  <2>1. (Pt2 + FileBlocks) * PPB = Pt2 * PPB + FileBlocks * PPB
    BY <1>n
  <2>2. Pt2 * PPB \in Nat /\ FileBlocks * PPB \in Nat
    BY <1>n
  <2> QED
    BY <1>i, <1>n, <2>1, <2>2 DEF Limits, Cells
<1>2. up \in Files /\ up # None
  BY <1>i, <1>n, WritesFile, FlashAssumption
<1>3. d \in Ahead
  <2>1. Pt2 * PPB \in Nat /\ d + Pt2 * PPB = rwofs
    BY <1>n
  <2> QED
    BY <1>1, <1>n, <2>1 DEF Ahead
<1>4. \A k \in Sectors : InSector(d, k) => k \in isErased
  BY <1>3, <1>i, <1>n DEF Prepared
<1>5. PICK k \in Sectors : InSector(d, k)
  BY <1>1, InSomeSector
<1>6. k \in isErased /\ d \in SectorCells(k) /\ ~locked
  BY <1>1, <1>4, <1>5, <1>i DEF SectorCells, Armed
<1>7. WriteBytes(d)
  <2>1. ~ (d < 0)
    BY <1>n
  <2> QED
    BY <2>1 DEF Write
<1>8. ~srErr /\ flash' = Program(d, up)
  BY <1>6, <1>7, <1>i DEF WriteBytes, TypeOK
<1>9. flash[d] = {} \/ flash[d] = {up}
  BY <1>6, <1>8, <1>i DEF Clean
<1>10. flash'[d] = {up} /\ \A c \in Cells : c # d => flash'[c] = flash[c]
  BY <1>1, <1>8, <1>9, <1>i DEF Program, TypeOK
<1> QED
  BY <1>1, <1>2, <1>4, <1>10

\* The packets that have arrived after a Write had arrived before, but for the
\* one that it writes.
LEMMA WriteArrives ==
  ASSUME SessionInv, Write, NEW c \in Arrived'
  PROVE  c \in Arrived \/ (rwofs - Pt2 * PPB >= 0 /\ c = rwofs - Pt2 * PPB)
<1> DEFINE d == rwofs - Pt2 * PPB
<1>n. /\ PPB \in Nat \ {0} /\ Pt2 \in Nat /\ rwofs \in Nat /\ Pt2 * PPB \in Nat
      /\ c \in Cells /\ c \in Nat /\ d \in Int
  BY Numbers DEF SessionInv, IInv, TypeOK, Arrived
<1>1. rwofs' = rwofs + 1 /\ up' = up
  BY DEF Write
<1>2. CASE c + Pt2 * PPB < rwofs' /\ BlockOf(c) = BlockOf(rwofs' - Pt2 * PPB)
  <2>1. c <= d
    BY <1>1, <1>2, <1>n
  <2>2. CASE c = d
    BY <1>n, <2>2
  <2>3. CASE c # d
    <3>1. c <= d /\ d <= d + 1 /\ rwofs' - Pt2 * PPB = d + 1 /\ d + 1 \in Int
      BY <1>1, <1>n, <2>1
    <3>2. BlockOf(c) <= BlockOf(d) /\ BlockOf(d) <= BlockOf(d + 1) /\ BlockOf(c) = BlockOf(d + 1)
      BY <1>2, <1>n, <3>1, BlockMonotone
    <3>3. BlockOf(c) = BlockOf(d)
      BY <1>n, <3>1, <3>2, BlockRange
    <3>4. c + Pt2 * PPB < rwofs
      BY <1>n, <2>1, <2>3
    <3> QED
      BY <1>n, <3>3, <3>4 DEF Arrived
  <2> QED
    BY <2>2, <2>3
<1>3. CASE up' # None /\ BlockOf(c) \in BlocksOf(up)' \ todo'
  <2>1. up # None /\ BlockOf(c) \in BlocksOf(up)
    BY <1>1, <1>3 DEF BlocksOf
  <2>2. CASE BlockOf(c) \notin todo
    BY <1>n, <2>1, <2>2 DEF Arrived
  <2>3. CASE BlockOf(c) \in todo
    <3>1. d >= 0 /\ (d + 1) % PPB = 0 /\ BlockOf(c) = BlockOf(d)
      BY <1>3, <2>3 DEF Write
    <3>2. c <= d
      BY <1>n, <3>1, LastOfBlock
    <3>3. c = d \/ c + Pt2 * PPB < rwofs
      BY <1>n, <3>2
    <3> QED
      BY <1>n, <3>1, <3>3 DEF Arrived
  <2> QED
    BY <2>2, <2>3
<1> QED
  BY <1>2, <1>3 DEF Arrived

\* A new command starts with the first packet of a block.
LEMMA CommandArrives ==
  ASSUME IInv, NEW lba \in 0 .. (Pt2 + FileBlocks - 1), NEW n \in 1 .. MaxCmd,
         CmdWrite(lba, n), NEW c \in Arrived'
  PROVE  c \in Arrived
<1>n. /\ PPB \in Nat \ {0} /\ Pt2 \in Nat /\ lba \in Nat
      /\ c \in Cells /\ c \in Nat
  BY Numbers DEF Arrived
<1>1. rwofs' = lba * PPB /\ up' = up /\ todo' = todo
  BY DEF CmdWrite
<1>2. ASSUME c + Pt2 * PPB < rwofs', BlockOf(c) = BlockOf(rwofs' - Pt2 * PPB)
      PROVE  FALSE
  <2>1. /\ rwofs' - Pt2 * PPB = (lba - Pt2) * PPB
        /\ (lba - Pt2 + 1) * PPB = (lba - Pt2) * PPB + PPB
        /\ lba - Pt2 \in Int /\ (lba - Pt2) * PPB \in Int
    BY <1>n, <1>1
  <2>2. BlockOf((lba - Pt2) * PPB) = lba - Pt2
    BY <1>n, <2>1, BlockUnique
  <2>3. c < (lba - Pt2) * PPB
    BY <1>n, <1>1, <1>2, <2>1
  <2>4. BlockOf(c) < lba - Pt2
    BY <1>n, <2>1, <2>3, BlockBelow
  <2> QED
    BY <1>2, <2>1, <2>2, <2>4
<1> QED
  BY <1>1, <1>2, <1>n DEF Arrived, BlocksOf

\* What has arrived stays in the flash.
LEMMA NextLoaded ==
  ASSUME Reupload = FALSE
  PROVE  SessionInv /\ [Next]_vars => Loaded'
<1> DEFINE Stored(c) == /\ up # None /\ flash[c] = {up}
                        /\ \A k \in Sectors : InSector(c, k) => k \in isErased
<1> SUFFICES ASSUME SessionInv, [Next]_vars, ~srErr', NEW c \in Arrived'
             PROVE  Stored(c)'
  BY DEF Loaded, InSector
<1>i. TypeOK /\ AtRest /\ Loaded /\ Limits /\ Armed
  BY DEF SessionInv, IInv
<1>c. c \in Cells
  BY DEF Arrived
<1>0. ASSUME ~srErr, c \in Arrived, flash'[c] = flash[c], up' = up, isErased \subseteq isErased'
      PROVE  Stored(c)'
  BY <1>0, <1>i DEF Loaded, InSector
<1>1. ASSUME NEW button \in BOOLEAN, Boot(button) PROVE Stored(c)'
  BY <1>0, <1>1 DEF Boot, Arrived, BlocksOf
<1>2. ASSUME NEW f \in Files, HostCopies(f) PROVE Stored(c)'
  <2>1. up = None /\ todo' = BlocksOf(f) /\ up' = f /\ rwofs' = rwofs
    BY <1>2 DEF HostCopies, device
  <2>2. c + Pt2 * PPB < rwofs
    BY <2>1 DEF Arrived, BlocksOf
  <2>3. rwofs <= Pt2 * PPB /\ c \in Nat /\ Pt2 * PPB \in Nat /\ rwofs \in Nat
    BY <1>c, <1>i, <2>1, Numbers DEF Limits, TypeOK
  <2> QED
    BY <2>2, <2>3
<1>3. ASSUME NEW lba \in 0 .. (Pt2 + FileBlocks - 1), NEW n \in 1 .. MaxCmd, CmdWrite(lba, n)
      PROVE  Stored(c)'
  <2>1. c \in Arrived
    BY <1>3, CommandArrives DEF SessionInv
  <2> QED
    BY <1>0, <1>3, <2>1 DEF CmdWrite
<1>4. ASSUME NEW k \in Sectors, EraseSector(k) PROVE Stored(c)'
  <2>1. /\ ~srErr /\ flash' = Wiped(SectorCells(k), {}) /\ up' = up
        /\ isErased \subseteq isErased' /\ k \in toErase
    BY <1>4, <1>i DEF EraseSector, TypeOK
  <2>2. c \in Arrived
    BY <1>4 DEF EraseSector, Arrived, BlocksOf
  <2>3. c \notin SectorCells(k)
    BY <1>i, <2>1, <2>2 DEF Loaded, Armed, SectorCells
  <2>4. flash'[c] = flash[c]
    BY <1>c, <2>1, <2>3 DEF Wiped
  <2> QED
    BY <1>0, <2>1, <2>2, <2>4
<1>5. CASE Write
  <2> DEFINE d == rwofs - Pt2 * PPB
  <2>1. up' = up /\ isErased' = isErased
    BY <1>5 DEF Write
  <2>2. CASE d >= 0
    <3>1. /\ up \in Files
          /\ \A k \in Sectors : InSector(d, k) => k \in isErased
          /\ flash'[d] = {up}
          /\ \A b \in Cells : b # d => flash'[b] = flash[b]
      BY <1>5, <2>2, PacketStored
    <3>2. c \in Arrived \/ c = d
      BY <1>5, WriteArrives
    <3>3. CASE c = d
      BY <2>1, <3>1, <3>3, FlashAssumption DEF InSector
    <3>4. CASE c # d
      <4>1. ~srErr
        BY <1>5, <1>i, <2>2, Numbers DEF Write, WriteBytes, TypeOK
      <4> QED
        BY <1>0, <1>c, <2>1, <3>1, <3>2, <3>4, <4>1
    <3> QED
      BY <3>3, <3>4
  <2>3. CASE ~ (d >= 0)
    <3>1. d < 0
      BY <1>i, <2>3, Numbers DEF TypeOK
    <3>2. flash' = flash /\ srErr' = srErr
      BY <1>5, <3>1 DEF Write
    <3>3. c \in Arrived
      BY <1>5, <2>3, WriteArrives
    <3> QED
      BY <1>0, <2>1, <3>2, <3>3
  <2> QED
    BY <2>2, <2>3
<1>6. CASE PowerCut
  <2>1. up' = None /\ rwofs' = 0
    BY <1>6 DEF PowerCut
  <2>2. c \in Nat /\ Pt2 * PPB \in Nat /\ c + Pt2 * PPB < 0
    BY <1>c, <2>1, Numbers DEF Arrived
  <2> QED
    BY <2>2
<1>7. CASE UNCHANGED vars
  BY <1>0, <1>7 DEF vars, Arrived, BlocksOf
<1> QED
  BY <1>1, <1>2, <1>3, <1>4, <1>5, <1>6, <1>7 DEF Next

\* The parts of the session's invariant hold before the first session.
LEMMA InitSession == Init => Clean /\ Limits /\ Armed /\ Loaded
<1> SUFFICES ASSUME Init PROVE Clean /\ Limits /\ Armed /\ Loaded
  OBVIOUS
<1>1. /\ isErased = {} /\ toErase = {} /\ up = None
      /\ rwofs = 0 /\ rwlen = 0
  BY DEF Init
<1>2. Pt2 * PPB \in Nat /\ (Pt2 + FileBlocks) * PPB \in Nat
  BY Numbers
<1>3. Arrived = {}
  <2>1. \A c \in Cells : ~ (c + Pt2 * PPB < 0)
    BY <1>2, Numbers
  <2> QED
    BY <1>1, <2>1 DEF Arrived
<1> QED
  BY <1>1, <1>2, <1>3 DEF Clean, Limits, Armed, Loaded

\* The invariant of a session holds in every state.
THEOREM SessionInvariance ==
  ASSUME Reupload = FALSE
  PROVE  Spec => []SessionInv
<1>1. Init => SessionInv
  BY InitIInv, InitSession DEF SessionInv
<1>2. IInv /\ [Next]_vars => IInv'
  BY NextTypeOK, NextAtRest, NextHasFile, NextPrepared, NextRunsWholeImage DEF IInv
<1>3. SessionInv /\ [Next]_vars => SessionInv'
  BY <1>2, NextClean, NextLimits, NextArmed, NextLoaded DEF SessionInv
<1> QED
  BY <1>1, <1>3, PTL DEF Spec

-----------------------------------------------------------------------------
(* What a session promises                                                 *)

\* Every file has a first packet.
LEMMA FirstCell ==
  ASSUME NEW f \in Files
  PROVE  0 \in Cells /\ 0 \in ImageCells(f)
<1>1. PPB \in Nat \ {0} /\ FileBlocks \in Nat /\ Size[f] \in 1 .. FileBlocks
  BY Numbers, FlashAssumption
<1>2. 0 \in Cells
  <2>1. 1 * PPB <= FileBlocks * PPB /\ FileBlocks * PPB \in Nat
    BY <1>1, TimesMonotone
  <2> QED
    BY <1>1, <2>1 DEF Cells
<1>3. BlockOf(0) = 0
  BY <1>1, BlockUnique
<1> QED
  BY <1>1, <1>2, <1>3 DEF ImageCells

\* There is at most one image that UserCheck accepts.
LEMMA OneImage ==
  ASSUME NEW i \in Images, NEW j \in Images, Accepted(i), Accepted(j)
  PROVE  i = j
<1>1. 0 \in ImageCells(i) /\ 0 \in ImageCells(j)
  BY FirstCell DEF Files
<1> QED
  BY <1>1 DEF Accepted

\* With one copy per session, a reset finds exactly the image that the host has
\* copied completely, whatever was in the flash, and in whatever order and how
\* often the blocks came.
THEOREM UploadSticks ==
  ASSUME Reupload = FALSE
  PROVE  Spec => []UploadBoots
<1>1. SessionInv => UploadBoots
  <2> SUFFICES ASSUME SessionInv, ~srErr, up \in Images, todo = {} PROVE UserImage = up
    BY DEF UploadBoots
  <2>1. up # None /\ Size[up] \in Nat
    BY FlashAssumption, Numbers DEF Files
  <2>2. ImageCells(up) \subseteq Arrived
    <3> SUFFICES ASSUME NEW c \in ImageCells(up) PROVE c \in Arrived
      OBVIOUS
    <3>1. c \in Cells /\ BlockOf(c) < Size[up] /\ c \in Nat /\ PPB \in Nat \ {0}
      BY Numbers DEF ImageCells
    <3>2. BlockOf(c) \in Nat
      BY <3>1 DEF BlockOf
    <3> QED
      BY <2>1, <3>1, <3>2 DEF Arrived, BlocksOf
  <2>3. Accepted(up)
    BY <2>2 DEF SessionInv, Loaded, Accepted
  <2> QED
    BY <2>3, OneImage DEF UserImage
<1> QED
  BY <1>1, SessionInvariance, PTL

\* With one copy per session, a packet is programmed into a cell that is erased
\* or that holds the same packet already.
THEOREM ProgramsOnlyErased ==
  ASSUME Reupload = FALSE
  PROVE  Spec => ProgramsErased
<1> DEFINE Sound == \A c \in Cells : (flash[c] \subseteq flash'[c] /\ Torn \notin flash'[c])
                                        => flash[c] = {} \/ flash'[c] = flash[c]
<1>1. SessionInv /\ [Next]_vars => [Sound]_vars
  <2> SUFFICES ASSUME SessionInv, Next, NEW c \in Cells,
                      flash[c] \subseteq flash'[c], Torn \notin flash'[c]
               PROVE  flash[c] = {} \/ flash'[c] = flash[c]
    OBVIOUS
  <2>i. TypeOK
    BY DEF SessionInv, IInv
  <2>w. ASSUME NEW S, NEW v, flash' = Wiped(S, v), v = {} \/ v = {Torn}
        PROVE  flash[c] = {} \/ flash'[c] = flash[c]
    BY <2>w DEF Wiped
  <2>p. ASSUME NEW d, flash' = Program(d, Torn) PROVE flash'[c] = flash[c]
    BY <2>p, <2>i DEF Program, TypeOK
  <2>1. ASSUME NEW k \in Sectors, EraseSector(k) PROVE flash[c] = {} \/ flash'[c] = flash[c]
    BY <2>1, <2>w DEF EraseSector
  <2>2. CASE Write
    <3> DEFINE d == rwofs - Pt2 * PPB
    <3>1. CASE ~ srErr' /\ d >= 0
      BY <2>2, <3>1, PacketStored
    <3>2. CASE srErr' /\ d >= 0
      BY <2>2, <2>i, <2>p, <3>2, Numbers DEF Write, WriteBytes, TypeOK
    <3>3. CASE ~ (d >= 0)
      BY <2>2, <2>i, <3>3, Numbers DEF Write, TypeOK
    <3> QED
      BY <3>1, <3>2, <3>3
  <2>3. CASE PowerCut
    BY <2>3, <2>w, <2>p DEF PowerCut, Interrupted
  <2> QED
    BY <2>1, <2>2, <2>3 DEF Next, Boot, HostCopies, CmdWrite
<1> QED
  BY <1>1, SessionInvariance, PTL DEF Spec, ProgramsErased

-----------------------------------------------------------------------------
(* The slot: FlashImage implements FirmwareSlot                            *)

\* What one step does to a cell: it keeps what it holds, or is erased, or is
\* left half erased or half programmed.
LEMMA CellStep ==
  ASSUME IInv, [Next]_vars, NEW c \in Cells
  PROVE  flash[c] \subseteq flash'[c] \/ flash'[c] = {} \/ Torn \in flash'[c]
<1>i. TypeOK
  BY DEF IInv
<1>w. ASSUME NEW S, NEW v, flash' = Wiped(S, v), v = {} \/ v = {Torn}
      PROVE  flash[c] \subseteq flash'[c] \/ flash'[c] = {} \/ Torn \in flash'[c]
  BY <1>w DEF Wiped
<1>p. ASSUME NEW d, NEW v, flash' = Program(d, v)
      PROVE  flash[c] \subseteq flash'[c]
  BY <1>p, <1>i DEF Program, TypeOK
<1>1. ASSUME NEW k \in Sectors, EraseSector(k)
      PROVE  flash[c] \subseteq flash'[c] \/ flash'[c] = {} \/ Torn \in flash'[c]
  BY <1>1, <1>w DEF EraseSector
<1>2. CASE Write
  BY <1>2, <1>p DEF Write, WriteBytes
<1>3. CASE PowerCut
  BY <1>3, <1>w, <1>p DEF PowerCut, Interrupted
<1> QED
  BY <1>1, <1>2, <1>3 DEF Next, Boot, HostCopies, CmdWrite, vars

\* No step turns one image into another one.
LEMMA SlotStep ==
  ASSUME IInv, [Next]_vars
  PROVE  UserImage = None \/ UserImage' \in {UserImage, None}
<1>1. IInv' /\ TypeOK /\ TypeOK'
  BY NextTypeOK, NextAtRest, NextHasFile, NextPrepared, NextRunsWholeImage DEF IInv
<1> DEFINE i == UserImage
           j == UserImage'
<1> SUFFICES ASSUME i # None, j # None PROVE j = i
  OBVIOUS
<1>2. i \in Images /\ Accepted(i)
  BY <1>1, UserImageType
<1>3. j \in Images /\ \A c \in ImageCells(j) : flash'[c] = {j}
  <2>1. \E m \in Images : \A c \in ImageCells(m) : flash'[c] = {m}
    BY DEF UserImage, Accepted, ImageCells
  <2>2. j = CHOOSE m \in Images : \A c \in ImageCells(m) : flash'[c] = {m}
    BY <2>1 DEF UserImage, Accepted, ImageCells
  <2> QED
    BY <2>1, <2>2
<1>4. 0 \in Cells /\ flash[0] = {i} /\ flash'[0] = {j}
  BY <1>2, <1>3, FirstCell DEF Files, Accepted
<1>5. j # Torn
  BY <1>3, FlashAssumption DEF Files
<1> QED
  BY <1>4, <1>5, CellStep

\* Every step of the flash is a step of the slot or leaves it alone.
LEMMA SlotRefines ==
  ASSUME IInv, [Next]_vars
  PROVE  [Slot!SlotNext]_<<UserImage, IF mode = "user" THEN UserImage ELSE None>>
<1> DEFINE i == UserImage
           running == IF mode = "user" THEN UserImage ELSE None
<1>i. IInv' /\ TypeOK /\ AtRest /\ RunsWholeImage /\ TypeOK'
  BY NextTypeOK, NextAtRest, NextHasFile, NextPrepared, NextRunsWholeImage DEF IInv
<1>t. i \in Images \cup {None} /\ i' \in Images \cup {None} /\ None \notin Images
  <2>1. i' \in Images \cup {None}
    <3>1. CASE \E m \in Images : \A c \in ImageCells(m) : flash'[c] = {m}
      BY <3>1 DEF UserImage, Accepted, ImageCells
    <3>2. CASE ~ \E m \in Images : \A c \in ImageCells(m) : flash'[c] = {m}
      BY <3>2 DEF UserImage, Accepted, ImageCells
    <3> QED
      BY <3>1, <3>2
  <2> QED
    BY <1>i, <2>1, UserImageType, FlashAssumption DEF Files
<1>f. flash' = flash => i' = i
  BY DEF UserImage, Accepted, ImageCells
<1>1. CASE mode # "user" /\ mode' # "user"
  <2>1. running = None /\ running' = None
    BY <1>1
  <2>2. i' = i \/ (i = None /\ i' \in Images) \/ (i # None /\ i' = None)
    BY <1>t, SlotStep
  <2> QED
    BY <2>1, <2>2 DEF Slot!SlotNext, Slot!Invalidate, Slot!Install
<1>2. CASE mode = "user"
  <2>1. flash' = flash
    <3>1. toErase = {} /\ rwlen = 0
      BY <1>2, <1>i DEF AtRest
    <3>2. PowerCut => flash' = flash
      BY <3>1 DEF PowerCut, Interrupted
    <3> QED
      BY <1>2, <3>1, <3>2 DEF Next, Boot, HostCopies, CmdWrite, EraseSector, Write, vars
  <2>2. i # None
    <3>1. \E m \in Images : Accepted(m)
      BY <1>2, <1>i DEF RunsWholeImage, Accepted
    <3> QED
      BY <1>t, <3>1 DEF UserImage
  <2>3. i' = i /\ running = i
    BY <1>2, <1>f, <2>1
  <2>4. CASE mode' = "user"
    BY <2>3, <2>4
  <2>5. CASE mode' # "user"
    BY <2>2, <2>3, <2>5 DEF Slot!SlotNext, Slot!Stop
  <2> QED
    BY <2>4, <2>5
<1>3. CASE mode # "user" /\ mode' = "user"
  <2>1. PICK button \in BOOLEAN : Boot(button)
    BY <1>3 DEF Next, HostCopies, CmdWrite, EraseSector, Write, PowerCut, vars
  <2>2. flash' = flash /\ image_size' # 0
    BY <1>3, <2>1 DEF Boot
  <2>3. i # None /\ i' = i /\ running = None /\ running' = i
    BY <1>3, <1>f, <2>1, <2>2 DEF Boot, UserCheck
  <2> QED
    BY <2>3 DEF Slot!SlotNext, Slot!Start
<1> QED
  BY <1>1, <1>2, <1>3

\* The flash, with its sectors, packets, failures and resets, implements one
\* slot that an upgrade empties and fills: whatever is interrupted, there is
\* no step from one image to another, nothing but a whole image is started,
\* and the slot does not change under it.  This holds however often the host
\* copies.
THEOREM UpgradeAtomic == Spec => UpgradeIsAtomic
<1>1. Init => Slot!SlotInit
  <2> SUFFICES ASSUME Init PROVE Slot!SlotInit
    OBVIOUS
  <2>1. UserImage \in Images \cup {None}
    BY InitIInv, UserImageType DEF IInv
  <2>2. mode # "user"
    BY DEF Init
  <2> QED
    BY <2>1, <2>2 DEF Slot!SlotInit
<1>2. IInv /\ [Next]_vars => [Slot!SlotNext]_<<UserImage, IF mode = "user" THEN UserImage ELSE None>>
  BY SlotRefines
<1> QED
  BY <1>1, <1>2, Invariance, PTL DEF Spec, UpgradeIsAtomic, Slot!Spec

=============================================================================
