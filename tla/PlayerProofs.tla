---------------------------- MODULE PlayerProofs ----------------------------
(***************************************************************************)
(* Proofs about the two players.                                           *)
(*                                                                         *)
(* FatPlayer for every volume, every chain of clusters and every way the   *)
(* window moves: what ReadBlock keeps in its variables about the block it  *)
(* was asked for last, in the two states it can be in.  It sits in the     *)
(* cluster of that block, or a read of the FAT has failed and it goes on   *)
(* adrift, with the base it had.                                           *)
(*                                                                         *)
(* MidiPlayer for every score, every length of a pause and every           *)
(* interleaving of start(), ToneChange and the samples: ToneChange is      *)
(* entered with the pause run out and an event left to read, if no sample  *)
(* came between SetDriver and the end of start(), nor one that found the   *)
(* pause at 0 while ToneChange was running.                                *)
(***************************************************************************)
EXTENDS FatPlayer, MidiPlayer, FiniteSetTheorems, TLAPS

-----------------------------------------------------------------------------
(* The MP3 player                                                          *)

Size == volume.clusterSize

\* The cluster of block b, and the block where the file would begin were it
\* in one piece around b.
ClusterOf(b) == file.chain[(b \div Size) + 1]
BaseOf(b)    == ClusterToBlock(ClusterOf(b)) - (b \div Size) * Size

\* The reader sits in the cluster of block b.
Sits(r, b) == r.cluster = ClusterOf(b) /\ r.base = BaseOf(b)

\* The reader has lost the chain.  The base stays; in a file in one piece it
\* is the right one.
Adrift(r, b) ==
  /\ r.cluster = Lost
  /\ r.base + b >= ReferenceClusterZero
  /\ Consecutive => r.base = Place(0)

Readers == [cluster : Int, base : Int, pass : Nat, segment : Nat, mdata : Nat,
            unread : SUBSET Nat]

\* w is the block c, or c could not be read.
Kept(w, c, failed) == w = c \/ c \in failed

\* The buffer has the block that was passed, or it could not be read.
Held(r) == Kept(r.mdata, r.pass, r.unread)

\* The reader behind a call of ReadBlock for block b: where it is in the chain,
\* the block it has passed, and the data.
At(r, b, p, clean) ==
  /\ r \in Readers
  /\ Sits(r, b) \/ Adrift(r, b)
  /\ r.pass = r.base + p /\ Held(r)
  /\ clean => Sits(r, b) /\ r.mdata = r.pass

\* The block the window ends with.
Ahead == IF counter % Block = 0 THEN Here ELSE Here + 1

\* A file that has been opened, and one that is read.
Opened ==
  (playing /\ window = << >>) => /\ counter = 0 /\ pass = 0
                                 /\ cluster = ClusterOf(0) /\ base = BaseOf(0)
Reading ==
  (playing /\ window # << >>) =>
     /\ At(Reader, Here, Ahead, fails = 0)
     /\ fails = 0 => window = IF counter % Block = 0 THEN <<base + Here>>
                              ELSE <<base + Here, base + Here + 1>>
     /\ \E b \in {Here, Here + 1} : /\ Kept(window[1], base + b, unread)
                                    /\ Sits(Reader, Here) => b = Here
     /\ Len(window) = 2 => Kept(window[2], base + (Here + 1), unread)

\* The inductive invariant.
IInv ==
  /\ TypeOK
  /\ file \in FilesOf(volume)
  /\ playing => counter < file.len
  /\ Opened /\ Reading

-----------------------------------------------------------------------------
(* Numbers                                                                 *)

\* A set of natural numbers that is not empty has a least element.
LEMMA LeastElement ==
  ASSUME NEW T, T \subseteq Nat, T # {}
  PROVE  \E x \in T : \A y \in T : x <= y
<1> DEFINE Below == {0 .. (n - 1) : n \in T}
<1>1. Below \subseteq FiniteSubsetsOf(Nat) /\ Below # {}
  <2>1. \A n \in T : IsFiniteSet(0 .. (n - 1)) /\ 0 .. (n - 1) \subseteq Nat
    BY FS_Interval
  <2> QED
    BY <2>1 DEF FiniteSubsetsOf
<1>2. \E B \in Below : \A C \in Below : <<C, B>> \notin StrictSubsetOrdering(Nat)
  <2>1. IsWellFoundedOn(StrictSubsetOrdering(Nat), FiniteSubsetsOf(Nat))
    BY FS_StrictSubsetOrderingWellFounded
  <2> HIDE DEF Below
  <2> QED
    BY <1>1, <2>1, WFMin
<1>3. PICK x \in T : \A y \in T : <<0 .. (y - 1), 0 .. (x - 1)>> \notin StrictSubsetOrdering(Nat)
  BY <1>2
<1>4. ASSUME NEW y \in T, y < x PROVE FALSE
  <2>1. 0 .. (y - 1) \in SUBSET Nat /\ 0 .. (x - 1) \in SUBSET Nat
    OBVIOUS
  <2>2. y \in 0 .. (x - 1) /\ y \notin 0 .. (y - 1)
    BY <1>4
  <2>3. 0 .. (y - 1) \subseteq 0 .. (x - 1) /\ 0 .. (y - 1) # 0 .. (x - 1)
    BY <1>4, <2>2
  <2>4. <<0 .. (y - 1), 0 .. (x - 1)>> \in StrictSubsetOrdering(Nat)
    BY <2>1, <2>3 DEF StrictSubsetOrdering
  <2> QED
    BY <1>3, <2>4
<1> QED
  BY <1>4

\* A product grows with each factor.
LEMMA Products ==
  ASSUME NEW a \in Int, NEW b \in Int, NEW c \in Nat \ {0}
  PROVE  /\ a * c \in Int /\ (a + 1) * c = a * c + c /\ (a - 1) * c = a * c - c
         /\ a <= b => a * c <= b * c
         /\ a * c < b * c => a < b
<1>1. a * c \in Int /\ (a + 1) * c = a * c + c /\ (a - 1) * c = a * c - c
  OBVIOUS
<1>2. a <= b => a * c <= b * c
  <2>1. a <= b => (b - a) * c >= 0
    OBVIOUS
  <2>2. (b - a) * c = b * c - a * c
    OBVIOUS
  <2> QED
    BY <2>1, <2>2
<1>3. b <= a => b * c <= a * c
  <2>1. b <= a => (a - b) * c >= 0
    OBVIOUS
  <2>2. (a - b) * c = a * c - b * c
    OBVIOUS
  <2> QED
    BY <2>1, <2>2
<1> QED
  BY <1>1, <1>2, <1>3

\* A product of three, and of a sum.
LEMMA Product3 ==
  ASSUME NEW a \in Int, NEW b \in Int, NEW c \in Int
  PROVE  a * (b * c) = (a * b) * c /\ (a + b) * c = a * c + b * c
OBVIOUS

\* A number is its quotient times the divisor and the remainder.
LEMMA DivMod ==
  ASSUME NEW a \in Int, NEW c \in Nat \ {0}
  PROVE  a \div c \in Int /\ a % c \in 0 .. (c - 1) /\ a = (a \div c) * c + (a % c)
OBVIOUS

\* Only one pair of a quotient and a remainder does that.
LEMMA DivUnique ==
  ASSUME NEW c \in Nat \ {0}, NEW q \in Int, NEW r \in 0 .. (c - 1)
  PROVE  (q * c + r) \div c = q /\ (q * c + r) % c = r
OBVIOUS

\* The quotient of a natural number is one.
LEMMA DivNat ==
  ASSUME NEW a \in Nat, NEW c \in Nat \ {0}
  PROVE  a \div c \in Nat /\ a % c \in Nat
OBVIOUS

\* The number behind a has the same quotient, or it begins the next multiple.
LEMMA DivNext ==
  ASSUME NEW a \in Int, NEW c \in Nat \ {0}
  PROVE  /\ (a + 1) % c = 0 => (a + 1) \div c = (a \div c) + 1 /\ a % c = c - 1
         /\ (a + 1) % c # 0 => (a + 1) \div c = a \div c /\ (a + 1) % c = (a % c) + 1
<1>1. a \div c \in Int /\ a % c \in 0 .. (c - 1) /\ a = (a \div c) * c + (a % c)
  BY DivMod
<1>2. CASE a % c = c - 1
  <2>1. a + 1 = ((a \div c) + 1) * c + 0
    BY <1>1, <1>2
  <2>2. (a \div c) + 1 \in Int /\ 0 \in 0 .. (c - 1)
    BY <1>1
  <2> DEFINE q == (a \div c) + 1
  <2> HIDE DEF q
  <2>3. (q * c + 0) \div c = q /\ (q * c + 0) % c = 0
    BY <2>2, DivUnique DEF q
  <2>4. a + 1 = q * c + 0
    BY <2>1 DEF q
  <2>5. (a + 1) \div c = q /\ (a + 1) % c = 0
    BY <2>3, <2>4
  <2> QED
    BY <1>2, <2>5 DEF q
<1>3. CASE a % c # c - 1
  <2>1. a + 1 = (a \div c) * c + ((a % c) + 1)
    BY <1>1
  <2>2. a \div c \in Int /\ (a % c) + 1 \in 0 .. (c - 1) /\ (a % c) + 1 # 0
    BY <1>1, <1>3
  <2> DEFINE q == a \div c
             r == (a % c) + 1
  <2> HIDE DEF q, r
  <2>3. q \in Int /\ r \in 0 .. (c - 1) /\ a + 1 = q * c + r
    BY <2>1, <2>2 DEF q, r
  <2>4. (q * c + r) \div c = q /\ (q * c + r) % c = r
    BY <2>3, DivUnique
  <2>5. (a + 1) \div c = a \div c /\ (a + 1) % c = (a % c) + 1
    BY <2>3, <2>4 DEF q, r
  <2> QED
    BY <2>2, <2>5
<1> QED
  BY <1>2, <1>3

-----------------------------------------------------------------------------
(* The geometry of a volume and a file                                     *)

\* The numbers of the boot sector.
LEMMA Geometry ==
  ASSUME volume \in Volumes
  PROVE  /\ Size \in Nat \ {0} /\ ReferenceClusterZero \in Nat \ {0} /\ FatTable1 \in Nat
         /\ \A c \in Int : ClusterToBlock(c) \in Int
         /\ \A b \in Int : BlockToCluster(b) \in Int
<1>1. /\ volume.reserved \in Nat \ {0} /\ volume.fatLen \in Nat \ {0}
      /\ volume.fats \in Nat \ {0} /\ volume.clusterSize \in Nat \ {0}
  BY PlayerAssumption
<1>2. /\ Size \in Nat \ {0} /\ ReferenceClusterZero \in Nat \ {0} /\ FatTable1 \in Nat
  BY <1>1 DEF Size, ReferenceClusterZero, FatTable1
<1>3. \A c \in Int : ClusterToBlock(c) \in Int
  BY <1>1, <1>2 DEF ClusterToBlock
<1>4. \A b \in Int : BlockToCluster(b) \in Int
  <2> TAKE b \in Int
  <2>1. b - ReferenceClusterZero \in Int
    BY <1>2
  <2>2. (b - ReferenceClusterZero) \div Size \in Int
    BY <1>2, <2>1, DivMod
  <2> QED
    BY <2>2 DEF BlockToCluster, Size
<1> QED
  BY <1>2, <1>3, <1>4

\* The clusters of the data area begin at cluster 2.
LEMMA InCluster ==
  ASSUME volume \in Volumes, NEW c \in Nat, c >= 2, NEW k \in 0 .. (Size - 1)
  PROVE  /\ BlockToCluster(ClusterToBlock(c) + k) = c
         /\ BlockToCluster(ClusterToBlock(c) + Size) = c + 1
         /\ ClusterToBlock(c) >= ReferenceClusterZero
<1>1. Size \in Nat \ {0} /\ ReferenceClusterZero \in Nat \ {0}
  BY Geometry
<1>2. ClusterToBlock(c) = (c - 2) * Size + ReferenceClusterZero
  BY DEF ClusterToBlock, Size
<1>3. (c - 2) * Size \in Nat /\ (c - 1) * Size = (c - 2) * Size + Size
  <2>1. c - 2 \in Nat /\ (c - 2) + 1 = c - 1
    OBVIOUS
  <2> QED
    BY <1>1, <2>1, Products
<1>4. ASSUME NEW u \in Int, NEW q \in Int, NEW r \in 0 .. (Size - 1),
             u - ReferenceClusterZero = q * Size + r
      PROVE  BlockToCluster(u) = q + 2
  <2>1. BlockToCluster(u) = ((u - ReferenceClusterZero) \div Size) + 2
    BY DEF BlockToCluster, Size
  <2>2. (q * Size + r) \div Size = q
    BY <1>1, DivUnique
  <2> QED
    BY <1>4, <2>1, <2>2
<1>5. BlockToCluster(ClusterToBlock(c) + k) = c
  <2>1. (ClusterToBlock(c) + k) - ReferenceClusterZero = (c - 2) * Size + k
    BY <1>1, <1>2, <1>3
  <2>2. ClusterToBlock(c) + k \in Int /\ c - 2 \in Int /\ (c - 2) + 2 = c
    BY <1>1, <1>2, <1>3
  <2> QED
    BY <1>4, <2>1, <2>2
<1>6. BlockToCluster(ClusterToBlock(c) + Size) = c + 1
  <2>1. (ClusterToBlock(c) + Size) - ReferenceClusterZero = (c - 1) * Size + 0
    BY <1>1, <1>2, <1>3
  <2>2. ClusterToBlock(c) + Size \in Int /\ c - 1 \in Int /\ (c - 1) + 2 = c + 1
    BY <1>1, <1>2, <1>3
  <2>3. 0 \in 0 .. (Size - 1)
    BY <1>1
  <2> QED
    BY <1>4, <2>1, <2>2, <2>3
<1> QED
  BY <1>1, <1>2, <1>3, <1>5, <1>6

\* A block in the file has a cluster in the chain.
LEMMA ChainCovers ==
  ASSUME volume \in Volumes, file \in FilesOf(volume), NEW b \in Nat, InFile(b)
  PROVE  /\ (b \div Size) + 1 \in DOMAIN file.chain
         /\ ClusterOf(b) \in Nat /\ ClusterOf(b) >= 2
<1>1. /\ file \in Files /\ file.chain \in Seq(Nat) /\ file.chain # << >>
      /\ file.len \in Nat /\ file.len <= Len(file.chain) * (Size * Block)
      /\ \A i \in DOMAIN file.chain : file.chain[i] >= 2
  BY PlayerAssumption DEF FilesOf, Size
<1>2. Size \in Nat \ {0} /\ Block \in Nat \ {0}
  BY Geometry, PlayerAssumption
<1>c. /\ file.chain \in Seq(Nat) /\ Len(file.chain) \in Nat
      /\ DOMAIN file.chain = 1 .. Len(file.chain)
      /\ \A i \in DOMAIN file.chain : file.chain[i] \in Nat /\ file.chain[i] >= 2
  <2>1. /\ file.chain \in Seq(Nat)
        /\ \A i \in DOMAIN file.chain : file.chain[i] >= 2
    BY <1>1
  <2> QED
    BY <2>1
<1> DEFINE q == b \div Size  n == Len(file.chain)
<1>3. q \in Nat /\ b % Size \in Nat /\ b = q * Size + (b % Size)
  <2>1. b \div Size \in Nat /\ b % Size \in Nat
    BY <1>2, DivNat
  <2>2. b = (b \div Size) * Size + (b % Size)
    BY <1>2, DivMod
  <2> QED
    BY <2>1, <2>2
<1>n. n \in Nat /\ n * Size \in Nat
  <2>1. n \in Nat
    BY <1>c
  <2> HIDE DEF n
  <2> QED
    BY <1>2, <2>1
<1> HIDE DEF n, q
<1>4. b * Block < (n * Size) * Block
  <2>1. n * (Size * Block) = (n * Size) * Block
    BY <1>2, <1>n, Product3
  <2>2. file.len <= n * (Size * Block) /\ b * Block < file.len
    BY <1>1 DEF InFile, n
  <2>3. file.len \in Nat /\ b * Block \in Nat /\ (n * Size) * Block \in Nat
    BY <1>1, <1>2, <1>n
  <2> QED
    BY <2>1, <2>2, <2>3
<1>5. b < n * Size
  <2>1. b \in Int /\ n * Size \in Int
    BY <1>n
  <2> QED
    BY <1>2, <1>4, <2>1, Products
<1>6. q < n
  <2>1. q * Size < n * Size /\ q \in Int /\ n \in Int
    BY <1>2, <1>3, <1>5, <1>n
  <2> QED
    BY <1>2, <2>1, Products
<1>7. q + 1 \in DOMAIN file.chain
  BY <1>c, <1>3, <1>6, <1>n DEF n
<1> QED
  BY <1>c, <1>7 DEF ClusterOf, q

\* Where block b is: at its place in its cluster.
LEMMA Anchored ==
  ASSUME volume \in Volumes, file \in FilesOf(volume), NEW b \in Nat, InFile(b)
  PROVE  /\ BaseOf(b) \in Int /\ BaseOf(b) + b = Place(b) /\ Place(b) >= ReferenceClusterZero
         /\ BlockToCluster(BaseOf(b) + b) = ClusterOf(b)
<1>1. Size \in Nat \ {0} /\ ReferenceClusterZero \in Nat \ {0}
  BY Geometry
<1>2. ClusterOf(b) \in Nat /\ ClusterOf(b) >= 2
  BY ChainCovers
<1> DEFINE q == b \div Size  k == b % Size  c == ClusterOf(b)
<1>3. q \in Nat /\ k \in 0 .. (Size - 1) /\ b = q * Size + k
  <2>1. b \div Size \in Nat
    BY <1>1, DivNat
  <2>2. b % Size \in 0 .. (Size - 1) /\ b = (b \div Size) * Size + (b % Size)
    BY <1>1, DivMod
  <2> QED
    BY <2>1, <2>2
<1>4. /\ BlockToCluster(ClusterToBlock(c) + k) = c
      /\ ClusterToBlock(c) >= ReferenceClusterZero /\ ClusterToBlock(c) \in Int
  <2> HIDE DEF c, k, q
  <2>1. c \in Nat /\ c >= 2
    BY <1>2 DEF c
  <2> QED
    BY <1>3, <2>1, InCluster, Geometry
<1>5. BaseOf(b) = ClusterToBlock(c) - q * Size
  BY DEF BaseOf
<1>6. Place(b) = ClusterToBlock(c) + k
  BY DEF Place, ClusterOf, Size
<1>7. q * Size \in Int
  <2> HIDE DEF q
  <2> QED
    BY <1>1, <1>3
<1>8. BaseOf(b) \in Int /\ BaseOf(b) + b = ClusterToBlock(c) + k
  <2> HIDE DEF c, k, q
  <2> QED
    BY <1>3, <1>4, <1>5, <1>7
<1>9. Place(b) >= ReferenceClusterZero
  <2> HIDE DEF c, k, q
  <2> QED
    BY <1>1, <1>3, <1>4, <1>6
<1> QED
  BY <1>4, <1>6, <1>8, <1>9

\* The block behind b is in the same cluster, or it begins the next one of the
\* chain.  What lies behind the old cluster is in the next one on the card.
LEMMA NextBlock ==
  ASSUME volume \in Volumes, file \in FilesOf(volume), NEW b \in Nat, InFile(b), InFile(b + 1)
  PROVE  IF (b + 1) % Size = 0
         THEN /\ FatEntry(ClusterOf(b)) = ClusterOf(b + 1)
              /\ BaseOf(b + 1) = ClusterToBlock(ClusterOf(b + 1)) - (b + 1)
              /\ BlockToCluster(BaseOf(b) + (b + 1)) = ClusterOf(b) + 1
         ELSE ClusterOf(b + 1) = ClusterOf(b) /\ BaseOf(b + 1) = BaseOf(b)
<1>1. Size \in Nat \ {0} /\ ReferenceClusterZero \in Nat \ {0}
  BY Geometry
<1> DEFINE q == b \div Size
<1>2. q \in Nat /\ q + 1 \in DOMAIN file.chain
      /\ ClusterOf(b) \in Nat /\ ClusterOf(b) >= 2 /\ ClusterOf(b) = file.chain[q + 1]
  <2>1. q \in Nat
    BY <1>1, DivNat
  <2> QED
    BY <2>1, ChainCovers DEF ClusterOf
<1>3. CASE (b + 1) % Size # 0
  <2>1. (b + 1) \div Size = b \div Size
    <3>1. b \in Int
      OBVIOUS
    <3> QED
      BY <1>1, <1>3, <3>1, DivNext, Zenon
  <2> QED
    BY <1>3, <2>1 DEF ClusterOf, BaseOf
<1>4. CASE (b + 1) % Size = 0
  <2>1. (b + 1) \div Size = q + 1 /\ b % Size = Size - 1
    <3>1. b \in Int
      OBVIOUS
    <3> QED
      BY <1>1, <1>4, <3>1, DivNext, Zenon
  <2>2. b + 1 = (q + 1) * Size
    <3>1. b = (b \div Size) * Size + (b % Size)
      <4>1. b \in Int
        OBVIOUS
      <4> QED
        BY <1>1, <4>1, DivMod, Zenon
    <3>2. (q + 1) * Size = q * Size + Size /\ q * Size \in Int
      <4> HIDE DEF q
      <4> QED
        BY <1>1, <1>2, Products
    <3> QED
      BY <1>1, <2>1, <3>1, <3>2
  <2>3. q + 2 \in DOMAIN file.chain /\ ClusterOf(b + 1) = file.chain[q + 2]
    <3>1. b + 1 \in Nat
      OBVIOUS
    <3>2. ((b + 1) \div Size) + 1 \in DOMAIN file.chain
      BY <3>1, ChainCovers
    <3> HIDE DEF q
    <3> QED
      BY <1>2, <2>1, <3>2 DEF ClusterOf
  <2>4. FatEntry(ClusterOf(b)) = ClusterOf(b + 1)
    <3>1. file.chain \in Seq(Nat) /\ IsInjective(file.chain)
      BY PlayerAssumption DEF FilesOf
    <3>2. Len(file.chain) \in Nat /\ DOMAIN file.chain = 1 .. Len(file.chain)
      BY <3>1
    <3> HIDE DEF q
    <3> DEFINE at == {i \in DOMAIN file.chain : file.chain[i] = ClusterOf(b)}
    <3>3. at = {q + 1}
      BY <1>2, <3>1 DEF IsInjective
    <3>4. q + 1 < Len(file.chain) /\ (CHOOSE i \in at : TRUE) = q + 1
      BY <1>2, <2>3, <3>2, <3>3
    <3>5. FatEntry(ClusterOf(b)) = IF \E i \in at : i < Len(file.chain)
                                   THEN file.chain[(CHOOSE i \in at : TRUE) + 1] ELSE End
      BY DEF FatEntry
    <3> HIDE DEF at
    <3>6. \E i \in at : i < Len(file.chain)
      BY <3>3, <3>4
    <3>7. (q + 1) + 1 = q + 2
      BY <1>2
    <3> QED
      BY <2>3, <3>4, <3>5, <3>6, <3>7
  <2>5. BaseOf(b + 1) = ClusterToBlock(ClusterOf(b + 1)) - (b + 1)
    BY <2>1, <2>2 DEF BaseOf
  <2>6. BlockToCluster(BaseOf(b) + (b + 1)) = ClusterOf(b) + 1
    <3>1. BaseOf(b) = ClusterToBlock(ClusterOf(b)) - q * Size
      BY DEF BaseOf
    <3>2. ClusterToBlock(ClusterOf(b)) \in Int
      BY <1>2, Geometry
    <3>3. (q + 1) * Size = q * Size + Size /\ q * Size \in Int
      <4> HIDE DEF q
      <4> QED
        BY <1>1, <1>2, Products
    <3> HIDE DEF q
    <3>4. BaseOf(b) + (b + 1) = ClusterToBlock(ClusterOf(b)) + Size
      BY <1>1, <2>2, <3>1, <3>2, <3>3
    <3>5. 0 \in 0 .. (Size - 1)
      BY <1>1
    <3> QED
      BY <1>2, <3>4, <3>5, InCluster
  <2> QED
    BY <1>4, <2>4, <2>5, <2>6
<1> QED
  BY <1>3, <1>4

\* The clusters of a file in one piece are numbered from the first.
LEMMA InOrder ==
  ASSUME file \in FilesOf(volume), Consecutive
  PROVE  \A i \in DOMAIN file.chain : file.chain[i] = file.chain[1] + (i - 1)
<1>1. file.chain \in Seq(Nat) /\ file.chain # << >>
  BY PlayerAssumption DEF FilesOf
<1>2. /\ Len(file.chain) \in Nat /\ 1 \in DOMAIN file.chain
      /\ DOMAIN file.chain = 1 .. Len(file.chain)
      /\ \A i \in DOMAIN file.chain : file.chain[i] \in Nat
  BY <1>1
<1> DEFINE Bad == {i \in DOMAIN file.chain : file.chain[i] # file.chain[1] + (i - 1)}
<1>3. Bad \subseteq Nat
  BY <1>2
<1>4. ASSUME NEW m \in Bad, \A i \in Bad : m <= i PROVE FALSE
  <2>1. m \in 1 .. Len(file.chain) /\ m # 1
    BY <1>2
  <2>2. m - 1 \in DOMAIN file.chain /\ m - 1 \in 1 .. (Len(file.chain) - 1)
    BY <1>2, <2>1
  <2>3. file.chain[m - 1] = file.chain[1] + (m - 2)
    <3>1. m - 1 \notin Bad
      <4> HIDE DEF Bad
      <4> QED
        BY <1>4, <2>1
    <3>2. file.chain[m - 1] = file.chain[1] + ((m - 1) - 1)
      BY <2>2, <3>1
    <3>3. (m - 1) - 1 = m - 2
      BY <2>1
    <3> QED
      BY <3>2, <3>3
  <2>5. file.chain[m] # file.chain[1] + (m - 1)
    OBVIOUS
  <2>4. file.chain[(m - 1) + 1] = file.chain[m - 1] + 1
    BY <2>2 DEF Consecutive
  <2>6. m \in Int /\ (m - 1) + 1 = m /\ file.chain[1] \in Nat
    BY <1>2, <2>1
  <2>7. file.chain[m] = file.chain[m - 1] + 1
    BY <2>4, <2>6
  <2>8. file.chain[1] + (m - 2) + 1 = file.chain[1] + (m - 1)
    BY <2>6
  <2> QED
    BY <2>3, <2>5, <2>7, <2>8
<1> HIDE DEF Bad
<1>5. Bad = {}
  BY <1>3, <1>4, LeastElement
<1> QED
  BY <1>5 DEF Bad

\* Such a file has the same base in all its clusters.
LEMMA OnePiece ==
  ASSUME volume \in Volumes, file \in FilesOf(volume), Consecutive, NEW b \in Nat, InFile(b)
  PROVE  BaseOf(b) = Place(0)
<1>1. Size \in Nat \ {0} /\ ReferenceClusterZero \in Nat \ {0}
  BY Geometry
<1> DEFINE q == b \div Size  f == file.chain[1]
<1>2. q \in Nat /\ q + 1 \in DOMAIN file.chain /\ ClusterOf(b) = file.chain[q + 1]
  <2>1. q \in Nat
    BY <1>1, DivNat
  <2> QED
    BY <2>1, ChainCovers DEF ClusterOf
<1>3. f \in Nat
  <2>1. file.chain \in Seq(Nat) /\ file.chain # << >>
    BY PlayerAssumption DEF FilesOf
  <2> QED
    BY <2>1
<1>4. ClusterOf(b) = f + q
  <2>1. file.chain[q + 1] = file.chain[1] + ((q + 1) - 1)
    BY <1>2, InOrder
  <2> HIDE DEF q
  <2> QED
    BY <1>2, <1>3, <2>1
<1>5. 0 \div Size = 0 /\ 0 % Size = 0
  <2>1. (0 * Size + 0) \div Size = 0 /\ (0 * Size + 0) % Size = 0
    BY <1>1, DivUnique
  <2> QED
    BY <1>1, <2>1
<1>6. Place(0) = ClusterToBlock(f)
  <2>1. Place(0) = ClusterToBlock(file.chain[(0 \div Size) + 1]) + (0 % Size)
    BY DEF Place, Size
  <2>2. Place(0) = ClusterToBlock(f) + 0
    BY <1>5, <2>1
  <2>3. ClusterToBlock(f) \in Int
    BY <1>3, Geometry
  <2> QED
    BY <2>2, <2>3
<1>7. BaseOf(b) = (((f + q) - 2) * Size + ReferenceClusterZero) - q * Size
  <2>1. BaseOf(b) = ClusterToBlock(f + q) - q * Size
    BY <1>4, Zenon DEF BaseOf
  <2> HIDE DEF f, q
  <2>2. ClusterToBlock(f + q) = ((f + q) - 2) * Size + ReferenceClusterZero
    BY DEF ClusterToBlock, Size
  <2> QED
    BY <2>1, <2>2, Zenon
<1>8. Place(0) = (f - 2) * Size + ReferenceClusterZero
  BY <1>6 DEF ClusterToBlock, Size
<1> HIDE DEF f, q
<1>9. ((f + q) - 2) * Size = (f - 2) * Size + q * Size
  <2>1. (f + q) - 2 = (f - 2) + q /\ f - 2 \in Int /\ q \in Int /\ Size \in Int
    BY <1>1, <1>2, <1>3
  <2>2. ((f - 2) + q) * Size = (f - 2) * Size + q * Size
    BY <2>1, Product3
  <2> QED
    BY <2>1, <2>2
<1>10. (f - 2) * Size \in Int /\ q * Size \in Int
  BY <1>1, <1>2, <1>3
<1>11. BaseOf(b) = (((f - 2) * Size + q * Size) + ReferenceClusterZero) - q * Size
  BY <1>7, <1>9
<1>12. \A x, y, r \in Int : ((x + y) + r) - y = x + r
  OBVIOUS
<1>13. ReferenceClusterZero \in Int
  BY <1>1
<1> QED
  BY <1>8, <1>10, <1>11, <1>12, <1>13, Zenon

-----------------------------------------------------------------------------
(* ReadBlock                                                               *)

\* Load: the block is passed, and it is in the buffer if the card delivered it
\* or had done so before.
LEMMA Loads ==
  ASSUME NEW r \in Readers, NEW b \in Nat, r.base + b \in Nat, NEW ok \in Outcomes,
         NEW q, q = Load(r, b, ok)
  PROVE  /\ q \in Readers /\ q.cluster = r.cluster /\ q.base = r.base /\ q.pass = q.base + b
         /\ (ok.data /\ (r.pass = r.base + b => r.mdata = r.pass)) => q.mdata = q.pass
         /\ (r.pass = r.base + b => Held(r)) => Held(q)
         /\ \A c : c # r.base + b => (c \in q.unread <=> c \in r.unread)
<1> DEFINE ofs == b + r.base
<1>1. ofs \in Nat /\ ofs = r.base + b
  BY DEF Readers
<1> HIDE DEF ofs
<1>2. CASE r.pass = ofs
  <2>1. q = r
    BY <1>2 DEF Load, ofs
  <2> QED
    BY <1>1, <1>2, <2>1
<1>3. CASE r.pass # ofs
  <2> DEFINE d == IF ok.data THEN ofs ELSE r.mdata
             u == IF ok.data THEN r.unread \ {ofs} ELSE r.unread \cup {ofs}
  <2>1. q = [r EXCEPT !.pass = ofs, !.mdata = d, !.unread = u]
    BY <1>3 DEF Load, ofs
  <2>2. q \in Readers
    <3>1. d \in Nat /\ u \in SUBSET Nat
      BY <1>1 DEF Readers
    <3> HIDE DEF d, u
    <3> QED
      BY <1>1, <2>1, <3>1 DEF Readers
  <2>3. /\ q.cluster = r.cluster /\ q.base = r.base /\ q.pass = ofs
        /\ ok.data => q.mdata = ofs
        /\ q.unread = IF ok.data THEN r.unread \ {ofs} ELSE r.unread \cup {ofs}
    BY <2>1 DEF Readers
  <2>4. Held(q)
    BY <2>3 DEF Held, Kept
  <2> QED
    BY <1>1, <2>2, <2>3, <2>4
<1> QED
  BY <1>2, <1>3

\* A block of the cluster the reader is in, or one it has not passed yet, is
\* read from where the reader is.
LEMMA ReadsHere ==
  ASSUME NEW r \in Readers, NEW b \in Nat, NEW ok \in Outcomes,
         r.pass < r.base + b \/ BlockToCluster(r.base + b) = r.cluster
  PROVE  ReadBlock(r, b, ok) = Load(r, b, ok)
<1>1. b + r.base = r.base + b /\ r.pass \in Nat /\ r.base \in Int
  BY DEF Readers
<1>2. ~(Passed(r.pass, b + r.base) /\ BlockToCluster(b + r.base) # r.cluster)
  BY <1>1 DEF Passed
<1> QED
  BY <1>2 DEF ReadBlock

\* NextCluster reads the FAT, if the card delivers the block.
LEMMA Follows ==
  ASSUME volume \in Volumes, NEW r \in Readers, NEW ok \in Outcomes, r.cluster >= 0,
         FatEntry(r.cluster) \in Nat,
         NEW n, n = NextCluster(r, ok)
  PROVE  \/ n = [r EXCEPT !.cluster = Lost] /\ ~ok.fat
         \/ /\ n \in Readers /\ n.cluster = FatEntry(r.cluster)
            /\ n.base = r.base /\ n.pass = r.pass /\ n.mdata = r.mdata /\ n.unread = r.unread
<1> DEFINE seg == (r.cluster \div PerFat) + FatTable1
<1>1. seg \in Nat
  <2>1. r.cluster \in Nat /\ PerFat \in Nat \ {0}
    BY PlayerAssumption DEF Readers
  <2>2. r.cluster \div PerFat \in Nat
    BY <2>1, DivNat
  <2>3. FatTable1 \in Nat
    BY Geometry
  <2> QED
    BY <2>2, <2>3
<1>2. n = IF r.cluster < 0 \/ (seg # r.segment /\ ~ok.fat)
          THEN [r EXCEPT !.cluster = Lost]
          ELSE [r EXCEPT !.cluster = FatEntry(r.cluster), !.segment = seg]
  BY DEF NextCluster
<1>3. ~(r.cluster < 0)
  BY DEF Readers
<1> HIDE DEF seg
<1>4. CASE seg # r.segment /\ ~ok.fat
  BY <1>2, <1>4
<1>5. CASE ~(seg # r.segment /\ ~ok.fat)
  <2> DEFINE e == FatEntry(r.cluster)
  <2>1. n = [r EXCEPT !.cluster = e, !.segment = seg]
    BY <1>2, <1>3, <1>5
  <2>2. e \in Int
    OBVIOUS
  <2> HIDE DEF e
  <2>3. n \in Readers /\ n.cluster = e
    BY <1>1, <2>1, <2>2 DEF Readers
  <2>4. n.base = r.base /\ n.pass = r.pass /\ n.mdata = r.mdata /\ n.unread = r.unread
    BY <2>1 DEF Readers
  <2> QED
    BY <2>3, <2>4 DEF e
<1> QED
  BY <1>4, <1>5

\* A block the reader has passed and that is not in its cluster: the next
\* cluster becomes the block's, or the chain is lost and the block not read.
LEMMA Crosses ==
  ASSUME volume \in Volumes, NEW r \in Readers, NEW b \in Nat, NEW ok \in Outcomes,
         r.pass >= r.base + b, BlockToCluster(r.base + b) # r.cluster, r.cluster >= 0,
         FatEntry(r.cluster) \in Nat,
         NEW q, q = ReadBlock(r, b, ok)
  PROVE  \/ /\ ~ok.fat /\ q \in Readers /\ q.cluster = Lost /\ q.base = r.base
            /\ q.pass = r.pass /\ q.mdata = r.mdata /\ q.unread = r.unread
         \/ \E m \in Readers :
               /\ q = Load(m, b, ok) /\ m.cluster = FatEntry(r.cluster)
               /\ m.pass = r.pass /\ m.mdata = r.mdata /\ m.unread = r.unread
               /\ m.base = ClusterToBlock(m.cluster) - b
<1>1. b + r.base = r.base + b /\ r.pass \in Nat /\ r.base \in Int
  BY DEF Readers
<1> DEFINE n == NextCluster(r, ok)  m == Cross(r, b, ok)
<1>2. Passed(r.pass, b + r.base) /\ BlockToCluster(b + r.base) # r.cluster
  BY <1>1 DEF Passed
<1>3. q = IF m.cluster < 0 THEN m ELSE Load(m, b, ok)
  BY <1>2 DEF ReadBlock
<1>4. m = IF n.cluster < 0 THEN n ELSE [n EXCEPT !.base = ClusterToBlock(n.cluster) - b]
  BY DEF Cross
<1>5. \/ n = [r EXCEPT !.cluster = Lost] /\ ~ok.fat
      \/ /\ n \in Readers /\ n.cluster = FatEntry(r.cluster)
         /\ n.base = r.base /\ n.pass = r.pass /\ n.mdata = r.mdata /\ n.unread = r.unread
  BY Follows
<1> HIDE DEF n, m
<1>6. CASE n = [r EXCEPT !.cluster = Lost] /\ ~ok.fat
  <2>1. /\ n \in Readers /\ n.cluster = Lost /\ n.base = r.base
        /\ n.pass = r.pass /\ n.mdata = r.mdata /\ n.unread = r.unread
    BY <1>6 DEF Readers, Lost
  <2>2. m = n
    BY <1>4, <2>1 DEF Lost
  <2>3. q = n
    BY <1>3, <2>1, <2>2 DEF Lost
  <2> QED
    BY <1>6, <2>1, <2>3
<1>7. CASE /\ n \in Readers /\ n.cluster = FatEntry(r.cluster)
           /\ n.base = r.base /\ n.pass = r.pass /\ n.mdata = r.mdata /\ n.unread = r.unread
  <2>1. n.cluster \in Nat /\ ~(n.cluster < 0)
    BY <1>7
  <2>2. m = [n EXCEPT !.base = ClusterToBlock(n.cluster) - b]
    BY <1>4, <2>1
  <2>3. ClusterToBlock(n.cluster) - b \in Int
    <3>1. ClusterToBlock(n.cluster) \in Int
      BY <2>1, Geometry
    <3> QED
      BY <3>1
  <2>4. /\ m \in Readers /\ m.cluster = n.cluster
        /\ m.pass = n.pass /\ m.mdata = n.mdata /\ m.unread = n.unread
        /\ m.base = ClusterToBlock(n.cluster) - b
    BY <1>7, <2>2, <2>3 DEF Readers
  <2>5. q = Load(m, b, ok)
    BY <1>3, <2>1, <2>4
  <2> QED
    BY <1>7, <2>4, <2>5
<1> QED
  BY <1>5, <1>6, <1>7

\* A reader that has lost the chain stays lost, and keeps its place.
LEMMA StaysAdrift ==
  ASSUME volume \in Volumes, NEW r \in Readers, NEW h \in Nat, NEW b \in Nat, b >= h,
         Adrift(r, h), NEW ok \in Outcomes, NEW q, q = ReadBlock(r, b, ok),
         NEW p \in Nat, r.pass = r.base + p
  PROVE  /\ q \in Readers /\ Adrift(q, b) /\ q.base = r.base
         /\ q.pass = q.base + (IF p >= b THEN p ELSE b)
         /\ Held(r) => Held(q)
         /\ \A c : p >= b \/ c # r.base + b => (c \in q.unread <=> c \in r.unread)
<1>1. /\ b + r.base = r.base + b /\ r.base + b \in Nat /\ r.base \in Int
      /\ r.base + b >= ReferenceClusterZero /\ r.cluster = Lost /\ r.cluster < 0
  BY Geometry DEF Readers, Adrift, Lost
<1>2. CASE p < b
  <2>1. r.pass < r.base + b
    BY <1>1, <1>2
  <2>2. q = Load(r, b, ok)
    BY <2>1, ReadsHere
  <2>3. /\ q \in Readers /\ q.cluster = r.cluster /\ q.base = r.base /\ q.pass = q.base + b
        /\ Held(q)
        /\ \A c : c # r.base + b => (c \in q.unread <=> c \in r.unread)
    BY <1>1, <2>1, <2>2, Loads
  <2>4. Adrift(q, b)
    BY <1>1, <2>3 DEF Adrift
  <2> QED
    BY <1>2, <2>3, <2>4
<1>3. CASE p >= b
  <2>1. BlockToCluster(b + r.base) # r.cluster
    <3>1. /\ (b + r.base) - ReferenceClusterZero \in Nat /\ Size \in Nat \ {0}
      BY <1>1, Geometry
    <3>2. ((b + r.base) - ReferenceClusterZero) \div Size \in Nat
      BY <3>1, DivNat
    <3>3. BlockToCluster(b + r.base) = (((b + r.base) - ReferenceClusterZero) \div Size) + 2
      BY DEF BlockToCluster, Size
    <3> QED
      BY <1>1, <3>2, <3>3 DEF Readers
  <2>2. Passed(r.pass, b + r.base)
    BY <1>1, <1>3 DEF Passed
  <2>3. NextCluster(r, ok) = [r EXCEPT !.cluster = Lost]
    BY <1>1 DEF NextCluster
  <2> DEFINE n == [r EXCEPT !.cluster = Lost]
  <2>4. /\ n \in Readers /\ n.cluster = Lost /\ n.cluster < 0 /\ n.base = r.base
        /\ n.pass = r.pass /\ n.mdata = r.mdata /\ n.unread = r.unread
    BY DEF Readers, Lost
  <2>5. Cross(r, b, ok) = n
    BY <2>3, <2>4 DEF Cross
  <2>6. q = n
    BY <2>1, <2>2, <2>4, <2>5 DEF ReadBlock
  <2> HIDE DEF n
  <2>7. Adrift(q, b) /\ (Held(r) => Held(q))
    BY <1>1, <2>4, <2>6 DEF Adrift, Held, Kept
  <2> QED
    BY <1>3, <2>4, <2>6, <2>7
<1> QED
  BY <1>2, <1>3

-----------------------------------------------------------------------------
(* The two reads of a window                                               *)

\* The first block of a window is the one the last window began with, or the
\* one it ended with.
LEMMA FirstRead ==
  ASSUME volume \in Volumes, file \in FilesOf(volume), NEW h \in Nat, NEW b \in {h, h + 1},
         InFile(h), InFile(b), NEW p \in {h, h + 1}, p >= b,
         NEW r, NEW clean \in BOOLEAN, At(r, h, p, clean), NEW ok \in Outcomes,
         NEW q, q = ReadBlock(r, b, ok)
  PROVE  \E p2 \in {b, p} : /\ At(q, b, p2, clean /\ ok.fat /\ ok.data)
                            /\ Sits(q, b) => p2 = b
<1>1. /\ r \in Readers /\ r.pass = r.base + p /\ Held(r)
      /\ clean => Sits(r, h) /\ r.mdata = r.pass
  BY DEF At
<1>2. b \in Nat /\ b >= h /\ p \in Nat
  OBVIOUS
<1>3. CASE Adrift(r, h)
  <2>1. q \in Readers /\ Adrift(q, b) /\ q.pass = q.base + p /\ Held(q)
    BY <1>1, <1>2, <1>3, StaysAdrift
  <2>2. \A c \in {h, b} : ClusterOf(c) >= 2 /\ ClusterOf(c) \in Nat
    BY <1>2, ChainCovers
  <2>3. ~Sits(q, b)
    BY <2>1, <2>2 DEF Adrift, Sits, Readers, Lost
  <2>4. ~Sits(r, h)
    BY <1>1, <1>3, <2>2 DEF Adrift, Sits, Readers, Lost
  <2>5. At(q, b, p, clean /\ ok.fat /\ ok.data)
    BY <1>1, <2>1, <2>4 DEF At
  <2> QED
    BY <2>3, <2>5
<1>4. CASE Sits(r, h)
  <2>1. /\ BaseOf(h) \in Int /\ BaseOf(h) + h = Place(h) /\ Place(h) >= ReferenceClusterZero
        /\ BlockToCluster(BaseOf(h) + h) = ClusterOf(h) /\ ClusterOf(h) >= 2 /\ ClusterOf(h) \in Nat
        /\ ReferenceClusterZero \in Nat
    BY Anchored, ChainCovers, Geometry
  <2>2. r.base + b \in Nat /\ r.cluster = ClusterOf(h) /\ r.base = BaseOf(h)
    BY <1>2, <1>4, <2>1 DEF Sits
  <2>3. ASSUME Sits(r, b), BlockToCluster(r.base + b) = r.cluster
        PROVE  At(q, b, b, clean /\ ok.fat /\ ok.data) /\ Sits(q, b)
    <3>1. q = Load(r, b, ok)
      BY <1>1, <1>2, <2>3, ReadsHere
    <3>2. /\ q \in Readers /\ q.cluster = r.cluster /\ q.base = r.base /\ q.pass = q.base + b
          /\ (ok.data /\ (r.pass = r.base + b => r.mdata = r.pass)) => q.mdata = q.pass
          /\ Held(q)
      BY <1>1, <1>2, <2>2, <3>1, Loads
    <3>3. Sits(q, b)
      BY <2>3, <3>2 DEF Sits
    <3> QED
      BY <1>1, <3>2, <3>3 DEF At
  <2>4. CASE b = h
    <3>1. Sits(r, b) /\ BlockToCluster(r.base + b) = r.cluster
      BY <1>4, <2>1, <2>2, <2>4
    <3> QED
      BY <2>3, <3>1
  <2>5. CASE b = h + 1 /\ (h + 1) % Size # 0
    <3>1. ClusterOf(b) = ClusterOf(h) /\ BaseOf(b) = BaseOf(h)
      BY <2>5, NextBlock
    <3>2. BlockToCluster(BaseOf(b) + b) = ClusterOf(b)
      BY <1>2, Anchored
    <3>3. Sits(r, b) /\ BlockToCluster(r.base + b) = r.cluster
      BY <1>4, <2>2, <3>1, <3>2 DEF Sits
    <3> QED
      BY <2>3, <3>3
  <2>6. CASE b = h + 1 /\ (h + 1) % Size = 0
    <3>1. /\ FatEntry(ClusterOf(h)) = ClusterOf(b)
          /\ BaseOf(b) = ClusterToBlock(ClusterOf(b)) - b
          /\ BlockToCluster(BaseOf(h) + b) = ClusterOf(h) + 1
      BY <2>6, NextBlock
    <3>2. p = b
      BY <1>2, <2>6
    <3>3. ClusterOf(b) \in Nat
      BY <1>2, ChainCovers
    <3>4. /\ r.pass >= r.base + b /\ BlockToCluster(r.base + b) # r.cluster
          /\ r.cluster >= 0 /\ FatEntry(r.cluster) \in Nat
      BY <1>1, <2>1, <2>2, <3>1, <3>2, <3>3
    <3>5. \/ /\ ~ok.fat /\ q \in Readers /\ q.cluster = Lost /\ q.base = r.base
             /\ q.pass = r.pass /\ q.mdata = r.mdata /\ q.unread = r.unread
          \/ \E m \in Readers :
                /\ q = Load(m, b, ok) /\ m.cluster = FatEntry(r.cluster)
                /\ m.pass = r.pass /\ m.mdata = r.mdata /\ m.unread = r.unread
                /\ m.base = ClusterToBlock(m.cluster) - b
      BY <1>1, <1>2, <3>4, Crosses
    <3>6. CASE /\ ~ok.fat /\ q \in Readers /\ q.cluster = Lost /\ q.base = r.base
               /\ q.pass = r.pass /\ q.mdata = r.mdata /\ q.unread = r.unread
      <4>1. q.base + b >= ReferenceClusterZero
        BY <1>2, <2>1, <2>2, <3>6
      <4>2. Consecutive => q.base = Place(0)
        BY <2>2, <3>6, OnePiece
      <4>3. Adrift(q, b) /\ Held(q)
        BY <1>1, <3>6, <4>1, <4>2 DEF Adrift, Held
      <4>4. ~Sits(q, b)
        BY <3>3, <3>6 DEF Sits, Lost
      <4> QED
        BY <1>1, <3>2, <3>6, <4>3, <4>4 DEF At
    <3>7. ASSUME NEW m \in Readers, q = Load(m, b, ok), m.cluster = FatEntry(r.cluster),
                 m.pass = r.pass, m.mdata = r.mdata, m.unread = r.unread,
                 m.base = ClusterToBlock(m.cluster) - b
          PROVE  At(q, b, b, clean /\ ok.fat /\ ok.data)
      <4>1. Sits(m, b)
        BY <2>2, <3>1, <3>7 DEF Sits
      <4>2. m.base + b \in Nat
        <5>1. BaseOf(b) \in Int /\ BaseOf(b) + b = Place(b) /\ Place(b) >= ReferenceClusterZero
          BY <1>2, Anchored
        <5> QED
          BY <1>2, <2>1, <4>1, <5>1 DEF Sits
      <4>3. /\ q \in Readers /\ q.cluster = m.cluster /\ q.base = m.base /\ q.pass = q.base + b
            /\ (ok.data /\ (m.pass = m.base + b => m.mdata = m.pass)) => q.mdata = q.pass
            /\ Held(q)
        <5>1. Held(m)
          BY <1>1, <3>7 DEF Held
        <5> QED
          BY <1>2, <3>7, <4>2, <5>1, Loads
      <4>4. Sits(q, b)
        BY <4>1, <4>3 DEF Sits
      <4> QED
        BY <1>1, <3>7, <4>3, <4>4 DEF At
    <3> QED
      BY <3>2, <3>5, <3>6, <3>7
  <2> QED
    BY <1>2, <2>4, <2>5, <2>6
<1> QED
  BY <1>3, <1>4 DEF At

\* The block behind it is read without leaving the cluster.
LEMMA SecondRead ==
  ASSUME volume \in Volumes, file \in FilesOf(volume), NEW b \in Nat, InFile(b),
         NEW p \in {b, b + 1}, NEW r, NEW clean \in BOOLEAN, At(r, b, p, clean),
         Sits(r, b) => p = b, NEW ok \in Outcomes, NEW q, q = ReadBlock(r, b + 1, ok)
  PROVE  /\ At(q, b, b + 1, clean /\ ok.fat /\ ok.data) /\ q.base = r.base
         /\ Sits(q, b) => Sits(r, b)
         /\ r.base + p \in q.unread <=> r.base + p \in r.unread
<1>1. /\ r \in Readers /\ r.pass = r.base + p /\ Held(r)
      /\ clean => Sits(r, b) /\ r.mdata = r.pass
  BY DEF At
<1>2. b + 1 \in Nat /\ b + 1 >= b /\ p \in Nat
  OBVIOUS
<1>3. CASE Adrift(r, b)
  <2>1. /\ q \in Readers /\ Adrift(q, b + 1) /\ q.base = r.base /\ q.pass = q.base + (b + 1)
        /\ Held(q)
        /\ \A c : p >= b + 1 \/ c # r.base + (b + 1) => (c \in q.unread <=> c \in r.unread)
    BY <1>1, <1>2, <1>3, StaysAdrift
  <2>2. Adrift(q, b)
    BY <1>3, <2>1 DEF Adrift
  <2>3. ~Sits(r, b) /\ ~Sits(q, b)
    BY <1>1, <1>3, <2>2, ChainCovers DEF Adrift, Sits, Readers, Lost
  <2>4. r.base + p \in q.unread <=> r.base + p \in r.unread
    <3>1. p >= b + 1 \/ r.base + p # r.base + (b + 1)
      BY <1>1, <1>2 DEF Readers
    <3> QED
      BY <2>1, <3>1
  <2> QED
    BY <1>1, <2>1, <2>2, <2>3, <2>4 DEF At
<1>4. CASE Sits(r, b)
  <2>1. BaseOf(b) \in Int /\ BaseOf(b) + b >= ReferenceClusterZero /\ ReferenceClusterZero \in Nat
    BY Anchored, Geometry
  <2>2. r.base + (b + 1) \in Nat /\ r.pass < r.base + (b + 1) /\ r.base \in Int
    BY <1>1, <1>4, <2>1 DEF Sits
  <2>3. q = Load(r, b + 1, ok)
    BY <1>1, <1>2, <2>2, ReadsHere
  <2>4. /\ q \in Readers /\ q.cluster = r.cluster /\ q.base = r.base /\ q.pass = q.base + (b + 1)
        /\ (ok.data /\ (r.pass = r.base + (b + 1) => r.mdata = r.pass)) => q.mdata = q.pass
        /\ Held(q)
        /\ \A c : c # r.base + (b + 1) => (c \in q.unread <=> c \in r.unread)
    BY <1>1, <1>2, <2>2, <2>3, Loads
  <2>5. Sits(q, b)
    BY <1>4, <2>4 DEF Sits
  <2>6. r.base + p # r.base + (b + 1)
    BY <1>1, <1>4, <2>2
  <2> QED
    BY <1>1, <1>4, <2>4, <2>5, <2>6 DEF At
<1> QED
  BY <1>3, <1>4 DEF At

-----------------------------------------------------------------------------
(* The invariant                                                           *)

\* The block a window begins with, and where the one before it began.
LEMMA WindowMoves ==
  ASSUME NEW c \in Nat, NEW step \in 0 .. (Block - 1)
  PROVE  /\ c \div Block \in Nat
         /\ (c + step) \div Block \in {c \div Block, (c \div Block) + 1}
         /\ (c + step) \div Block = (c \div Block) + 1 => c % Block # 0
         /\ (c + step) % Block = 0 /\ c % Block # 0 => (c + step) \div Block = (c \div Block) + 1
<1>1. Block \in Nat \ {0}
  BY PlayerAssumption
<1> DEFINE h == c \div Block  k == c % Block
<1>2. h \in Nat /\ k \in 0 .. (Block - 1) /\ c = h * Block + k
  <2>1. h \in Nat
    BY <1>1, DivNat
  <2> QED
    BY <1>1, <2>1, DivMod
<1> HIDE DEF h, k
<1>3. h * Block \in Int /\ (h + 1) * Block = h * Block + Block
  BY <1>1, <1>2, Products
<1>4. CASE k + step < Block
  <2>1. c + step = h * Block + (k + step) /\ k + step \in 0 .. (Block - 1)
    BY <1>1, <1>2, <1>3, <1>4
  <2>2. (c + step) \div Block = h /\ (c + step) % Block = k + step
    BY <1>1, <1>2, <2>1, DivUnique
  <2>3. k + step = 0 => k = 0
    BY <1>2
  <2> QED
    BY <1>2, <2>2, <2>3 DEF h, k
<1>5. CASE k + step >= Block
  <2>1. /\ c + step = (h + 1) * Block + ((k + step) - Block)
        /\ (k + step) - Block \in 0 .. (Block - 1) /\ k # 0
    BY <1>1, <1>2, <1>3, <1>5
  <2>2. (c + step) \div Block = h + 1
    BY <1>1, <1>2, <2>1, DivUnique
  <2> QED
    BY <1>2, <2>1, <2>2 DEF h, k
<1> QED
  BY <1>1, <1>2, <1>4, <1>5

\* The block at a place in the file is in the file.
LEMMA HereInFile ==
  ASSUME file \in FilesOf(volume), NEW c \in Nat, c < file.len
  PROVE  InFile(c \div Block)
<1>1. Block \in Nat \ {0} /\ file.len \in Nat
  BY PlayerAssumption DEF FilesOf
<1> DEFINE h == c \div Block  k == c % Block
<1>2. h \in Nat /\ k \in 0 .. (Block - 1) /\ c = h * Block + k
  <2>1. h \in Nat
    BY <1>1, DivNat
  <2> QED
    BY <1>1, <2>1, DivMod
<1> HIDE DEF h, k
<1>3. h * Block \in Int
  BY <1>1, <1>2, Products
<1>4. h * Block < file.len
  BY <1>1, <1>2, <1>3
<1> QED
  BY <1>4 DEF InFile, h

\* The reader's variables are a reader.
LEMMA ReaderType == TypeOK => Reader \in Readers
BY DEF TypeOK, Reader, Readers

\* A file is not empty, and begins in its first cluster.
LEMMA FirstBlock ==
  ASSUME volume \in Volumes, NEW f \in FilesOf(volume)
  PROVE  0 < f.len /\ f.chain[1] \in Nat /\ 0 \div Size = 0
<1>1. /\ f.chain \in Seq(Nat) /\ f.chain # << >> /\ f.len \in Nat
      /\ (Len(f.chain) - 1) * (Size * Block) < f.len
  BY PlayerAssumption DEF FilesOf, Size
<1>2. Size \in Nat \ {0} /\ Block \in Nat \ {0}
  BY Geometry, PlayerAssumption
<1>3. 0 < f.len
  <2> DEFINE n == Len(f.chain) - 1  s == Size * Block
  <2>1. n \in Nat /\ s \in Nat \ {0}
    <3>1. Len(f.chain) - 1 \in Nat
      BY <1>1
    <3>2. Size * Block \in Nat \ {0}
      BY <1>2
    <3> QED
      BY <3>1, <3>2
  <2>2. n * s < f.len /\ f.len \in Nat
    BY <1>1
  <2> HIDE DEF n, s
  <2>3. n * s \in Nat
    BY <2>1
  <2> QED
    BY <2>2, <2>3
<1>4. 0 \div Size = 0
  <2>1. (0 * Size + 0) \div Size = 0
    BY <1>2, DivUnique
  <2> QED
    BY <1>2, <2>1
<1>5. f.chain[1] \in Nat
  BY <1>1
<1> QED
  BY <1>3, <1>4, <1>5

\* The initial states: nothing is played.
LEMMA InitIInv == Init => IInv
<1> SUFFICES ASSUME Init PROVE IInv
  OBVIOUS
<1>1. TypeOK
  <2>1. volume \in Volumes /\ file \in Files /\ playing \in BOOLEAN /\ counter \in Nat
    BY DEF Init, FilesOf
  <2>2. Len(window) <= 2 /\ \A i \in DOMAIN window : window[i] \in Nat
    BY DEF Init
  <2>3. /\ cluster \in Int /\ base \in Int /\ pass \in Nat /\ segment \in Nat /\ mdata \in Nat
        /\ unread \subseteq Nat /\ opens \in 0 .. MaxOpens /\ fails \in 0 .. MaxFails
    BY PlayerAssumption DEF Init
  <2> QED
    BY <2>1, <2>2, <2>3 DEF TypeOK
<1>2. file \in FilesOf(volume) /\ ~playing
  BY DEF Init
<1> QED
  BY <1>1, <1>2 DEF IInv, Opened, Reading

\* A file is opened.
LEMMA OpenIInv ==
  ASSUME IInv, NEW f \in FilesOf(volume), OpenFile(f)
  PROVE  IInv'
<1>1. /\ volume' = volume /\ file' = f /\ counter' = 0 /\ window' = << >> /\ pass' = 0
      /\ cluster' = f.chain[1] /\ base' = ClusterToBlock(f.chain[1]) /\ segment' = 0
      /\ mdata' = mdata /\ unread' = unread /\ fails' = fails /\ opens' = opens + 1 /\ playing' = TRUE
      /\ opens < MaxOpens
  BY DEF OpenFile
<1>2. file' \in FilesOf(volume)' /\ volume' \in Volumes
  BY <1>1 DEF IInv, TypeOK, FilesOf
<1>3. 0 < f.len /\ f.chain[1] \in Nat /\ 0 \div Size = 0
  BY FirstBlock DEF IInv, TypeOK
<1>4. ClusterToBlock(f.chain[1]) \in Int /\ Size \in Nat
  <2>1. volume \in Volumes /\ f.chain[1] \in Int
    BY <1>3 DEF IInv, TypeOK
  <2> QED
    BY <2>1, Geometry
<1>5. UNCHANGED Size /\ ClusterToBlock(f.chain[1])' = ClusterToBlock(f.chain[1])
  BY <1>1 DEF Size, ClusterToBlock, ReferenceClusterZero, FatTable1
<1>6. cluster' = ClusterOf(0)'
  <2>1. ClusterOf(0)' = f.chain[(0 \div Size) + 1]
    BY <1>1, <1>5 DEF ClusterOf
  <2> QED
    BY <1>1, <1>3, <2>1
<1>7. base' = BaseOf(0)'
  <2>1. BaseOf(0)' = ClusterToBlock(f.chain[1])' - (0 \div Size) * Size
    BY <1>1, <1>5, <1>6 DEF BaseOf
  <2> QED
    BY <1>1, <1>3, <1>4, <1>5, <2>1
<1>8. Opened' /\ Reading'
  BY <1>1, <1>6, <1>7 DEF Opened, Reading
<1>9. TypeOK'
  BY <1>1, <1>2, <1>3, <1>4, PlayerAssumption DEF IInv, TypeOK, FilesOf
<1> QED
  BY <1>1, <1>2, <1>3, <1>8, <1>9 DEF IInv

\* The reads of a window, from a file just opened or from the window before.
LEMMA WindowReads ==
  ASSUME IInv, playing, NEW step \in 0 .. (Block - 1), window = << >> => step = 0,
         counter + step < file.len, NEW ok1 \in Outcomes, NEW ok2 \in Outcomes,
         NEW b, b = (counter + step) \div Block,
         NEW r1, r1 = ReadBlock(Reader, b, ok1), NEW r2, r2 = ReadBlock(r1, b + 1, ok2),
         NEW good \in BOOLEAN, good <=> fails = 0 /\ ok1.fat /\ ok1.data
  PROVE  /\ b \in Nat /\ r1 \in Readers
         /\ good => r1.mdata = r1.base + b
         /\ (counter + step) % Block = 0 => At(r1, b, b, good)
         /\ At(r2, b, b + 1, good /\ ok2.fat /\ ok2.data) /\ r2.base = r1.base
         /\ \E p2 \in {b, b + 1} : \A r \in {r1, r2} :
               Kept(r1.mdata, r.base + p2, r.unread) /\ (Sits(r, b) => p2 = b)
<1>1. /\ volume \in Volumes /\ file \in FilesOf(volume) /\ counter \in Nat /\ counter < file.len
      /\ Reader \in Readers
  BY ReaderType DEF IInv, TypeOK
<1>2. counter + step \in Nat /\ b \in Nat /\ InFile(b)
  <2>1. Block \in Nat \ {0} /\ counter + step \in Nat
    BY <1>1, PlayerAssumption
  <2> QED
    BY <1>1, <2>1, DivNat, HereInFile
<1>3. \E p2 \in {b, b + 1} : /\ At(r1, b, p2, good)
                             /\ Sits(r1, b) => p2 = b
                             /\ (counter + step) % Block = 0 => p2 = b
  <2>1. CASE window = << >>
    <3>1. /\ counter = 0 /\ step = 0 /\ Reader.pass = 0
          /\ Reader.cluster = ClusterOf(0) /\ Reader.base = BaseOf(0)
      BY <2>1 DEF IInv, Opened, Reader
    <3>2. b = 0
      <4>1. Block \in Nat \ {0} /\ (0 * Block + 0) \div Block = 0
        BY PlayerAssumption, DivUnique
      <4> QED
        BY <3>1, <4>1
    <3>3. /\ BaseOf(0) \in Int /\ BaseOf(0) + 0 = Place(0) /\ Place(0) >= ReferenceClusterZero
          /\ ReferenceClusterZero \in Nat \ {0}
      BY <1>1, <1>2, <3>2, Anchored, Geometry
    <3>4. Reader.pass < Reader.base + b /\ Reader.base + b \in Nat
      BY <3>1, <3>2, <3>3
    <3>5. r1 = Load(Reader, b, ok1)
      BY <1>1, <1>2, <3>4, ReadsHere
    <3>6. /\ r1 \in Readers /\ r1.cluster = Reader.cluster /\ r1.base = Reader.base
          /\ r1.pass = r1.base + b
          /\ (ok1.data /\ (Reader.pass = Reader.base + b => Reader.mdata = Reader.pass))
                => r1.mdata = r1.pass
          /\ Held(r1)
      <4>1. Reader.pass # Reader.base + b
        BY <1>1, <3>4 DEF Readers
      <4> QED
        BY <1>1, <1>2, <3>4, <3>5, <4>1, Loads
    <3>7. good => r1.mdata = r1.pass
      BY <3>1, <3>4, <3>6
    <3>8. Sits(r1, b)
      BY <3>1, <3>2, <3>6 DEF Sits
    <3>9. At(r1, b, b, good)
      BY <3>6, <3>7, <3>8 DEF At
    <3> QED
      BY <3>9
  <2>2. CASE window # << >>
    <3> DEFINE h == counter \div Block
               p == IF counter % Block = 0 THEN h ELSE h + 1
               clean == fails = 0
    <3>1. /\ h \in Nat /\ b \in {h, h + 1}
          /\ b = h + 1 => counter % Block # 0
      BY <1>1, WindowMoves
    <3>2. (counter + step) % Block = 0 /\ counter % Block # 0 => b = h + 1
      BY <1>1, WindowMoves
    <3>3. InFile(h)
      BY <1>1, HereInFile
    <3>4. At(Reader, h, p, clean)
      BY <2>2 DEF IInv, Reading, Here, Ahead
    <3>5. p \in {h, h + 1} /\ p >= b /\ clean \in BOOLEAN
      BY <3>1
    <3>6. (counter + step) % Block = 0 => p = b
      BY <1>1, <3>1, <3>2, PlayerAssumption
    <3> HIDE DEF h, p, clean
    <3>7. PICK p2 \in {b, p} : /\ At(r1, b, p2, clean /\ ok1.fat /\ ok1.data)
                               /\ Sits(r1, b) => p2 = b
      BY <1>1, <1>2, <3>1, <3>3, <3>4, <3>5, FirstRead
    <3>8. At(r1, b, p2, good)
      BY <3>7, Zenon DEF At, clean
    <3>9. p2 \in {b, b + 1} /\ ((counter + step) % Block = 0 => p2 = b)
      BY <3>1, <3>5, <3>6
    <3> QED
      BY <3>7, <3>8, <3>9, Zenon
  <2> QED
    BY <2>1, <2>2
<1>4. PICK p2 \in {b, b + 1} : /\ At(r1, b, p2, good)
                               /\ Sits(r1, b) => p2 = b
                               /\ (counter + step) % Block = 0 => p2 = b
  BY <1>3
<1>5. /\ At(r2, b, b + 1, good /\ ok2.fat /\ ok2.data) /\ r2.base = r1.base
      /\ Sits(r2, b) => Sits(r1, b)
      /\ r1.base + p2 \in r2.unread <=> r1.base + p2 \in r1.unread
  BY <1>1, <1>2, <1>4, SecondRead
<1>8. \A r \in {r1, r2} : Kept(r1.mdata, r.base + p2, r.unread) /\ (Sits(r, b) => p2 = b)
  <2>1. Kept(r1.mdata, r1.base + p2, r1.unread)
    BY <1>4, Zenon DEF At, Held
  <2>2. Kept(r1.mdata, r2.base + p2, r2.unread)
    BY <1>5, <2>1, Zenon DEF Kept
  <2> QED
    BY <1>4, <1>5, <2>1, <2>2, Zenon
<1>6. good => r1.mdata = r1.base + b
  BY <1>4, Zenon DEF At
<1>7. r1 \in Readers /\ ((counter + step) % Block = 0 => At(r1, b, b, good))
  BY <1>4, Zenon DEF At
<1> QED
  BY <1>2, <1>4, <1>5, <1>6, <1>7, <1>8, Zenon

\* Where a reader is depends on the volume and the file only.
LEMMA SamePlace ==
  ASSUME UNCHANGED <<volume, file>>, NEW r, NEW b
  PROVE  Sits(r, b)' = Sits(r, b) /\ Adrift(r, b)' = Adrift(r, b)
BY DEF Sits, Adrift, ClusterOf, BaseOf, Size, ClusterToBlock, ReferenceClusterZero, FatTable1,
       Consecutive, Place

\* A window that has been filled: the reader r stands behind it.
LEMMA Filled ==
  ASSUME IInv, UNCHANGED <<volume, file, opens>>, playing' \in BOOLEAN,
         counter' \in Nat, counter' < file.len, fails' \in 0 .. MaxFails,
         NEW r, SetReader(r),
         At(r, Here', Ahead', fails' = 0),
         NEW m \in Nat, window' = <<m>> \/ (window' = <<m, r.mdata>> /\ Ahead' = Here' + 1),
         NEW p \in {Here', Here' + 1}, Kept(m, r.base + p, r.unread),
         Sits(r, Here') => p = Here',
         fails' = 0 => window' = IF counter' % Block = 0 THEN <<r.base + Here'>>
                                 ELSE <<r.base + Here', r.base + Here' + 1>>
  PROVE  IInv'
<1>1. /\ r \in Readers /\ cluster' = r.cluster /\ base' = r.base /\ pass' = r.pass
      /\ segment' = r.segment /\ mdata' = r.mdata /\ unread' = r.unread
  BY DEF At, SetReader
<1>2. TypeOK'
  <2>1. volume' \in Volumes /\ file' \in Files /\ opens' \in 0 .. MaxOpens
    BY DEF IInv, TypeOK
  <2>2. /\ cluster' \in Int /\ base' \in Int /\ pass' \in Nat /\ segment' \in Nat
        /\ mdata' \in Nat /\ unread' \subseteq Nat
    BY <1>1 DEF Readers
  <2>3. Len(window') <= 2 /\ \A i \in DOMAIN window' : window'[i] \in Nat
    <3>1. r.mdata \in Nat
      BY <1>1 DEF Readers
    <3>2. CASE window' = <<m>>
      BY <3>2
    <3>3. CASE window' = <<m, r.mdata>>
      BY <3>1, <3>3
    <3> QED
      BY <3>2, <3>3
  <2> QED
    BY <2>1, <2>2, <2>3 DEF TypeOK
<1>3. file' \in FilesOf(volume)' /\ counter' < file'.len
  BY DEF IInv, FilesOf
<1>4. window' # << >>
  OBVIOUS
<1>5. Reader' = r
  BY <1>1 DEF Reader, Readers
<1>6. At(Reader, Here, Ahead, fails = 0)'
  <2>1. \A b : Sits(r, b)' = Sits(r, b) /\ Adrift(r, b)' = Adrift(r, b)
    BY SamePlace
  <2> QED
    BY <1>5, <2>1, Zenon DEF At
<1>7. Sits(Reader, Here)' => p = Here'
  BY <1>5, SamePlace
<1>8. Kept(window'[1], base' + p, unread')
  BY <1>1
<1>9. Len(window') = 2 => Kept(window'[2], base' + (Here' + 1), unread')
  <2> SUFFICES ASSUME Len(window') = 2 PROVE Kept(window'[2], base' + (Here' + 1), unread')
    OBVIOUS
  <2>1. window' = <<m, r.mdata>> /\ window'[2] = r.mdata /\ Ahead' = Here' + 1
    OBVIOUS
  <2>2. Kept(r.mdata, r.base + Ahead', r.unread)
    BY Zenon DEF At, Held
  <2> QED
    BY <1>1, <2>1, <2>2
<1> QED
  BY <1>1, <1>2, <1>3, <1>4, <1>6, <1>7, <1>8, <1>9 DEF IInv, Opened, Reading, Kept

\* The window moves, or the file has come to its end.
LEMMA InputIInv ==
  ASSUME IInv, NEW step \in 0 .. (Block - 1), window = << >> => step = 0, Input(step)
  PROVE  IInv'
<1>1. /\ playing /\ counter' = counter + step /\ UNCHANGED <<volume, file, opens>>
      /\ counter \in Nat /\ counter' \in Nat /\ file.len \in Nat
  <2>1. file \in Files /\ file.len \in Nat
    BY PlayerAssumption DEF IInv, TypeOK
  <2> QED
    BY <2>1, PlayerAssumption DEF Input, IInv, TypeOK
<1>2. CASE counter + step >= file.len
  <2>1. playing' = FALSE /\ UNCHANGED <<window, cluster, base, pass, segment, mdata, unread, fails>>
    BY <1>2 DEF Input, reader
  <2>2. TypeOK'
    BY <1>1, <2>1 DEF IInv, TypeOK
  <2>3. file' \in FilesOf(volume)'
    BY <1>1 DEF IInv, FilesOf
  <2> QED
    BY <2>1, <2>2, <2>3 DEF IInv, Opened, Reading
<1>3. CASE ~(counter + step >= file.len)
  <2> DEFINE b == (counter + step) \div Block
             R1(ok) == ReadBlock(Reader, b, ok)
             R2(ok, nok) == ReadBlock(R1(ok), b + 1, nok)
  <2>1. PICK ok1 \in Outcomes, ok2 \in Outcomes :
          /\ fails + Faults(ok1) + Faults(ok2) <= MaxFails
          /\ fails' = fails + Faults(ok1) + Faults(ok2)
          /\ IF (counter + step) % Block = 0
             THEN /\ SetReader(R1(ok1)) /\ window' = <<R1(ok1).mdata>>
                  /\ ok2.fat /\ ok2.data
             ELSE SetReader(R2(ok1, ok2)) /\ window' = <<R1(ok1).mdata, R2(ok1, ok2).mdata>>
          /\ playing' \in BOOLEAN
    BY <1>3 DEF Input
  <2> DEFINE r1 == R1(ok1)  r2 == R2(ok1, ok2)
             good == fails = 0 /\ ok1.fat /\ ok1.data
  <2>2. /\ b \in Nat /\ r1 \in Readers
        /\ good => r1.mdata = r1.base + b
        /\ (counter + step) % Block = 0 => At(r1, b, b, good)
        /\ At(r2, b, b + 1, good /\ ok2.fat /\ ok2.data) /\ r2.base = r1.base
        /\ \E p2 \in {b, b + 1} : \A r \in {r1, r2} :
               Kept(r1.mdata, r.base + p2, r.unread) /\ (Sits(r, b) => p2 = b)
    <3>1. counter + step < file.len
      BY <1>1, <1>3
    <3>2. good \in BOOLEAN
      OBVIOUS
    <3>3. r1 = ReadBlock(Reader, b, ok1) /\ r2 = ReadBlock(r1, b + 1, ok2)
      OBVIOUS
    <3>4. good <=> fails = 0 /\ ok1.fat /\ ok1.data
      OBVIOUS
    <3>5. b = (counter + step) \div Block
      OBVIOUS
    <3> HIDE DEF good, r1, r2, b
    <3> QED
      BY <1>1, <3>1, <3>2, <3>3, <3>4, <3>5, WindowReads
  <2> HIDE DEF r1, r2
  <2>3. Here' = b /\ Ahead' = IF (counter + step) % Block = 0 THEN b ELSE b + 1
    BY <1>1 DEF Here, Ahead
  <2>4. /\ fails' \in 0 .. MaxFails
        /\ fails' = 0 <=> good /\ ok2.fat /\ ok2.data
    BY <2>1, PlayerAssumption DEF IInv, TypeOK, Faults
  <2> HIDE DEF b, good
  <2>5. r1.mdata \in Nat
    BY <2>2 DEF Readers
  <2>6. PICK p2 \in {b, b + 1} :
          \A r \in {r1, r2} : Kept(r1.mdata, r.base + p2, r.unread) /\ (Sits(r, b) => p2 = b)
    BY <2>2
  <2>7. CASE (counter + step) % Block = 0
    <3>1. SetReader(r1) /\ window' = <<r1.mdata>> /\ (fails' = 0 <=> good)
      BY <2>1, <2>4, <2>7 DEF r1
    <3>2. At(r1, Here', Ahead', fails' = 0)
      BY <2>2, <2>3, <2>7, <3>1, Zenon DEF At
    <3>3. fails' = 0 => window' = IF counter' % Block = 0 THEN <<r1.base + Here'>>
                                  ELSE <<r1.base + Here', r1.base + Here' + 1>>
      BY <1>1, <2>2, <2>3, <2>7, <3>1
    <3>4. /\ p2 \in {Here', Here' + 1} /\ Kept(r1.mdata, r1.base + p2, r1.unread)
          /\ Sits(r1, Here') => p2 = Here'
      BY <2>3, <2>6
    <3> QED
      BY <1>1, <1>3, <2>1, <2>4, <2>5, <3>1, <3>2, <3>3, <3>4, Filled
  <2>8. CASE (counter + step) % Block # 0
    <3>1. SetReader(r2) /\ window' = <<r1.mdata, r2.mdata>>
      BY <2>1, <2>8 DEF r1, r2
    <3>2. At(r2, b, b + 1, fails' = 0)
      BY <2>2, <2>4, Zenon DEF At
    <3>3. fails' = 0 => window' = <<r2.base + b, r2.base + b + 1>>
      <4>1. fails' = 0 => r2.mdata = r2.base + (b + 1) /\ r1.mdata = r2.base + b
        BY <2>2, <2>4, <3>2 DEF At
      <4>2. r2.base + (b + 1) = r2.base + b + 1
        BY <2>2, <3>2 DEF At, Readers
      <4> QED
        BY <3>1, <4>1, <4>2
    <3>4. /\ p2 \in {Here', Here' + 1} /\ Kept(r1.mdata, r2.base + p2, r2.unread)
          /\ Sits(r2, Here') => p2 = Here'
      BY <2>3, <2>6
    <3>5. Ahead' = Here' + 1 /\ At(r2, Here', Ahead', fails' = 0)
      BY <2>3, <2>8, <3>2
    <3>6. fails' = 0 => window' = IF counter' % Block = 0 THEN <<r2.base + Here'>>
                                  ELSE <<r2.base + Here', r2.base + Here' + 1>>
      BY <1>1, <2>3, <2>8, <3>3
    <3> QED
      BY <1>1, <1>3, <2>1, <2>4, <2>5, <3>1, <3>4, <3>5, <3>6, Filled
  <2> QED
    BY <2>7, <2>8
<1> QED
  BY <1>2, <1>3

\* The invariant is inductive.
LEMMA NextIInv == IInv /\ [Next]_vars => IInv'
<1> SUFFICES ASSUME IInv, [Next]_vars PROVE IInv'
  OBVIOUS
<1>1. CASE \E f \in FilesOf(volume) : OpenFile(f)
  BY <1>1, OpenIInv
<1>2. CASE Decode
  BY <1>2, InputIInv DEF Decode
<1>3. CASE UNCHANGED vars
  <2>1. UNCHANGED <<volume, file, playing, counter, window, cluster, base, pass, segment, mdata,
                    unread, opens, fails>>
    BY <1>3 DEF vars, reader
  <2>2. TypeOK'
    BY <2>1 DEF IInv, TypeOK
  <2>3. file' \in FilesOf(volume)' /\ (playing' => counter' < file'.len)
    BY <2>1 DEF IInv, FilesOf
  <2>4. \A r, b : Sits(r, b)' = Sits(r, b) /\ Adrift(r, b)' = Adrift(r, b)
    BY <2>1, SamePlace
  <2>5. Opened'
    BY <2>1 DEF IInv, Opened, ClusterOf, BaseOf, Size, ClusterToBlock, ReferenceClusterZero, FatTable1
  <2>6. Reader' = Reader /\ Here' = Here /\ Ahead' = Ahead
    BY <2>1 DEF Reader, Here, Ahead
  <2>7. Reading'
    BY <2>1, <2>4, <2>6 DEF IInv, Reading, At
  <2> QED
    BY <2>2, <2>3, <2>5, <2>7 DEF IInv
<1> QED
  BY <1>1, <1>2, <1>3 DEF Next

\* The invariant of the reader.
THEOREM Invariance == Spec => []IInv
<1>1. Init => IInv
  BY InitIInv
<1>2. IInv /\ [Next]_vars => IInv'
  BY NextIInv
<1> QED
  BY <1>1, <1>2, PTL DEF Spec

-----------------------------------------------------------------------------
\* The block behind block b lies behind it on the card, but for a seam.
LEMMA LookAhead ==
  ASSUME volume \in Volumes, file \in FilesOf(volume), NEW b \in Nat, InFile(b), InFile(b + 1),
         (b + 1) % volume.clusterSize = 0 => SmoothAt(b + 1)
  PROVE  BaseOf(b) + (b + 1) = Place(b + 1)
<1>1. BaseOf(b) \in Int /\ BaseOf(b) + b = Place(b)
  BY Anchored
<1>2. CASE (b + 1) % Size # 0
  <2>1. BaseOf(b + 1) = BaseOf(b)
    BY <1>2, NextBlock
  <2>2. BaseOf(b + 1) + (b + 1) = Place(b + 1)
    BY Anchored
  <2> QED
    BY <2>1, <2>2
<1>3. CASE (b + 1) % Size = 0
  <2>1. Place(b + 1) = Place((b + 1) - 1) + 1
    BY <1>3 DEF SmoothAt, Size
  <2>2. (b + 1) - 1 = b
    OBVIOUS
  <2> QED
    BY <1>1, <2>1, <2>2
<1> QED
  BY <1>2, <1>3

\* Without failures the decoder gets the file's own bytes where it reads, for
\* every chain of clusters on every volume.
THEOREM FileIsRead == Spec => []ReadsFile
<1>1. IInv => ReadsFile
  <2> SUFFICES ASSUME IInv, playing, window # << >>, fails = 0
               PROVE  Aligned /\ OnlyTheSeam /\ OnChain
    BY DEF IInv, ReadsFile
  <2>1. volume \in Volumes /\ file \in FilesOf(volume) /\ counter \in Nat /\ counter < file.len
    BY DEF IInv, TypeOK
  <2>2. Here \in Nat /\ InFile(Here)
    BY <2>1, HereInFile, PlayerAssumption, DivNat DEF Here
  <2>3. /\ Sits(Reader, Here)
        /\ window = IF counter % Block = 0 THEN <<base + Here>>
                    ELSE <<base + Here, base + Here + 1>>
    BY DEF IInv, Reading, At
  <2>4. cluster = ClusterOf(Here) /\ base = BaseOf(Here)
    BY <2>3 DEF Sits, Reader
  <2>5. BaseOf(Here) \in Int /\ BaseOf(Here) + Here = Place(Here)
    BY <2>1, <2>2, Anchored
  <2>6. Aligned
    BY <2>3, <2>4, <2>5 DEF Aligned
  <2>7. OnlyTheSeam
    <3> SUFFICES ASSUME Len(window) = 2, InFile(Here + 1),
                        (Here + 1) % volume.clusterSize = 0 => SmoothAt(Here + 1)
                 PROVE  window[2] = Place(Here + 1)
      BY DEF OnlyTheSeam
    <3>1. window[2] = BaseOf(Here) + Here + 1
      BY <2>3, <2>4
    <3>2. BaseOf(Here) + (Here + 1) = Place(Here + 1)
      BY <2>1, <2>2, <2>5, LookAhead
    <3> QED
      BY <2>2, <2>5, <3>1, <3>2
  <2>8. OnChain
    <3>1. (Here \div Size) + 1 \in DOMAIN file.chain
      BY <2>1, <2>2, ChainCovers
    <3> QED
      BY <2>4, <3>1 DEF OnChain, ClusterOf, Size
  <2> QED
    BY <2>6, <2>7, <2>8
<1> QED
  BY <1>1, Invariance, PTL

\* Whatever reads fail, each block the decoder gets is the file's own or it could
\* not be read, up to the first failure of the FAT; in a file in one piece after
\* that too, but for a window that begins with the block behind its own.
THEOREM PlaceKept == Spec => []KeepsPlace
<1>1. IInv => KeepsPlace
  <2> SUFFICES ASSUME IInv, playing, window # << >> PROVE KeepsPlace
    BY DEF KeepsPlace
  <2>1. volume \in Volumes /\ file \in FilesOf(volume) /\ counter \in Nat /\ counter < file.len
    BY DEF IInv, TypeOK
  <2>2. Here \in Nat /\ InFile(Here) /\ ClusterOf(Here) >= 2 /\ ClusterOf(Here) \in Nat
    <3>1. Here \in Nat /\ InFile(Here)
      BY <2>1, HereInFile, PlayerAssumption, DivNat DEF Here
    <3> QED
      BY <2>1, <3>1, ChainCovers
  <2>3. PICK p \in {Here, Here + 1} :
          /\ Kept(window[1], base + p, unread)
          /\ Sits(Reader, Here) => p = Here
    BY DEF IInv, Reading
  <2>4. /\ Sits(Reader, Here) \/ Adrift(Reader, Here)
        /\ Len(window) = 2 => Kept(window[2], base + (Here + 1), unread)
    BY DEF IInv, Reading, At
  <2>5. CASE Sits(Reader, Here)
    <3>1. cluster = ClusterOf(Here) /\ base = BaseOf(Here) /\ cluster # Lost
      BY <2>2, <2>5 DEF Sits, Reader, Lost
    <3>2. BaseOf(Here) \in Int /\ BaseOf(Here) + Here = Place(Here)
      BY <2>1, <2>2, Anchored
    <3>3. Part(1, Place(Here))
      BY <2>3, <2>5, <3>1, <3>2 DEF Part, Kept
    <3>4. ASSUME Len(window) = 2, InFile(Here + 1),
                 (Here + 1) % volume.clusterSize = 0 => SmoothAt(Here + 1)
          PROVE  Part(2, Place(Here + 1))
      <4>1. BaseOf(Here) + (Here + 1) = Place(Here + 1)
        BY <2>1, <2>2, <3>2, <3>4, LookAhead
      <4> QED
        BY <2>4, <3>1, <3>4, <4>1 DEF Part, Kept
    <3> QED
      BY <3>1, <3>3, <3>4 DEF KeepsPlace
  <2>6. CASE Adrift(Reader, Here)
    <3>1. cluster = Lost /\ (Consecutive => base = Place(0))
      BY <2>6 DEF Adrift, Reader
    <3>2. ASSUME Consecutive
          PROVE  /\ \E b \in {Here, Here + 1} : Part(1, Place(0) + b)
                 /\ Len(window) = 2 => Part(2, Place(0) + Here + 1)
      <4>1. base = Place(0) /\ base \in Int
        BY <3>1, <3>2 DEF IInv, TypeOK
      <4>2. Place(0) + (Here + 1) = Place(0) + Here + 1
        BY <2>2, <4>1
      <4>3. Part(1, Place(0) + p)
        BY <2>3, <4>1 DEF Part, Kept
      <4> QED
        BY <2>3, <2>4, <4>1, <4>2, <4>3 DEF Part, Kept
    <3> QED
      BY <3>1, <3>2 DEF KeepsPlace
  <2> QED
    BY <2>4, <2>5, <2>6
<1> QED
  BY <1>1, Invariance, PTL

-----------------------------------------------------------------------------
(* The MIDI player                                                         *)

\* ToneChange leaves its loop behind the pause it has found.
AtPause == tpc = "pause" => /\ melody - 1 \in DOMAIN score
                            /\ score[melody - 1].op = "pause"

\* Until start() has made the first request, nobody else makes one.
Starting ==
  mpc # "loop" => /\ tpc = "off" /\ ~swier /\ ~pr /\ ~pend /\ ~again /\ pause = 0
                  /\ mpc \in {"start", "intr"} => melody = 1

\* A pending interrupt comes from a request that is set in EXTI, which soft.Clr
\* takes back.
Requested ==
  /\ pend => pr
  /\ pr => swier
  /\ tpc = "clr" => pr /\ ~pend

\* A request was made when the pause had run out and the score had not; while
\* ToneChange runs there is none.
Undisturbed ==
  ~again => IF tpc \in {"off", "clr"} THEN swier => pause = 0 /\ melody \in DOMAIN score
                                      ELSE ~swier

\* As long as samples are asked for there is something left to read.
Continues ==
  /\ (mpc = "loop" /\ driver /\ tpc \in {"off", "clr", "pause", "ret"}) => melody \in DOMAIN score
  /\ tpc = "func" => ~driver

\* All of it holds when no sample came in start().
Quiet == early = "no" => Starting /\ Requested /\ Undisturbed /\ Continues

\* The inductive invariant.
MidiInv == MidiTypeOK /\ AtPause /\ Quiet

-----------------------------------------------------------------------------
\* The parts of MidiTypeOK, the flags one by one.
LEMMA Flags ==
  MidiTypeOK => /\ driver \in BOOLEAN /\ imr \in BOOLEAN /\ swier \in BOOLEAN /\ pr \in BOOLEAN
            /\ pend \in BOOLEAN /\ ended \in BOOLEAN /\ again \in BOOLEAN
BY Zenon DEF MidiTypeOK

\* A score is not empty, ends with Stop, and has no Stop before.
LEMMA ScoreShape ==
  ASSUME NEW s \in Scores
  PROVE  /\ s \in Seq(Events) /\ Len(s) \in Nat /\ 1 \in DOMAIN s /\ DOMAIN s = 1 .. Len(s)
         /\ s[Len(s)].op = "stop"
         /\ \A i \in DOMAIN s : /\ s[i].op \in {"on", "off"} => s[i].gen \in Generators
                                /\ s[i].op = "pause" => s[i].len \in Nat
                                /\ s[i].op # "stop" => i + 1 \in DOMAIN s
                                /\ s[i].op \in {"on", "off", "pause", "stop"}
<1>1. s \in Seq(Events) /\ s # << >> /\ s[Len(s)] = Stop
      /\ \A i \in 1 .. (Len(s) - 1) : s[i].op # "stop"
  BY ScoresAssumption
<1>2. Len(s) \in Nat \ {0} /\ DOMAIN s = 1 .. Len(s)
  BY <1>1
<1>3. s[Len(s)].op = "stop"
  BY <1>1 DEF Stop
<1>4. ASSUME NEW i \in DOMAIN s
      PROVE  /\ s[i].op \in {"on", "off"} => s[i].gen \in Generators
             /\ s[i].op = "pause" => s[i].len \in Nat
             /\ s[i].op \in {"on", "off", "pause", "stop"}
  <2>1. s[i] \in Events
    BY <1>1, <1>2
  <2> QED
    BY <2>1 DEF Events
<1>5. \A i \in DOMAIN s : s[i].op # "stop" => i + 1 \in DOMAIN s
  BY <1>2, <1>3
<1> QED
  BY <1>1, <1>2, <1>3, <1>4, <1>5

\* The initial states.
LEMMA MidiStarts == MidiInit => MidiInv
<1> SUFFICES ASSUME MidiInit PROVE MidiInv
  OBVIOUS
<1>1. MidiTypeOK
  <2>1. Len(score) \in Nat
    BY ScoreShape DEF MidiInit
  <2>2. {driver, imr, swier, pr, pend, ended, again} \subseteq BOOLEAN
    BY Zenon DEF MidiInit
  <2> QED
    BY <2>1, <2>2 DEF MidiInit, MidiTypeOK
<1>2. AtPause /\ Quiet
  BY DEF MidiInit, AtPause, Quiet, Starting, Requested, Undisturbed, Continues
<1> QED
  BY <1>1, <1>2 DEF MidiInv

\* One event is read: where the handler stands behind it.
LEMMA EventReads ==
  ASSUME MidiTypeOK, Event
  PROVE  /\ melody \in DOMAIN score /\ melody' = melody + 1 /\ melody' \in 0 .. Len(score) + 1
         /\ tpc' \in {"read", "pause", "stop"} /\ on' \subseteq Generators
         /\ tpc' = "pause" => score[melody].op = "pause" /\ melody' \in DOMAIN score
<1>1. /\ score \in Scores /\ melody \in DOMAIN score /\ melody' = melody + 1
      /\ on \subseteq Generators
  BY DEF MidiTypeOK, Event
<1>2. /\ Len(score) \in Nat /\ DOMAIN score = 1 .. Len(score)
      /\ score[melody].op \in {"on", "off"} => score[melody].gen \in Generators
      /\ score[melody].op # "stop" => melody + 1 \in DOMAIN score
  BY <1>1, ScoreShape
<1>3. CASE score[melody].op \in {"on", "off"}
  BY <1>1, <1>2, <1>3 DEF Event
<1>4. CASE score[melody].op \in {"pause", "stop"}
  BY <1>1, <1>2, <1>4 DEF Event
<1> QED
  BY <1>1, <1>3, <1>4 DEF Event

-----------------------------------------------------------------------------
\* Types are kept: an index of the score moves by one event at a time, and a
\* pause is as long as the score says.
LEMMA MidiTypes == MidiTypeOK /\ AtPause /\ [MidiNext]_midiVars => MidiTypeOK'
<1> SUFFICES ASSUME MidiTypeOK, AtPause, [MidiNext]_midiVars PROVE MidiTypeOK'
  OBVIOUS
<1> USE DEF tone, exti
<1>0. /\ driver \in BOOLEAN /\ imr \in BOOLEAN /\ swier \in BOOLEAN /\ pr \in BOOLEAN
      /\ pend \in BOOLEAN /\ ended \in BOOLEAN /\ again \in BOOLEAN
  BY Flags
<1>1. Len(score) \in Nat /\ 1 \in DOMAIN score /\ DOMAIN score = 1 .. Len(score)
  BY ScoreShape DEF MidiTypeOK
<1>2. UNCHANGED <<score, keeps>>
  BY DEF MidiNext, MainStep, ToneChange, midiVars, Sample, SetDriver, SetMelody, Start, First, Enter,
         ClearFlag, Event, Astray, SetPause, StopSoft, Silence, Func, Return
<1>3. {driver, imr, swier, pr, pend, ended, again}' \subseteq BOOLEAN
  <2>1. driver' \in BOOLEAN /\ ended' \in BOOLEAN
    BY <1>0, Zenon DEF MidiNext, MainStep, ToneChange, midiVars, Sample, SetDriver, SetMelody, Start,
       First, Enter, ClearFlag, Event, Astray, SetPause, StopSoft, Silence, Func, Return
  <2>2. imr' \in BOOLEAN /\ swier' \in BOOLEAN
    BY <1>0, Zenon DEF MidiNext, MainStep, ToneChange, midiVars, Sample, SetDriver, SetMelody, Start,
       First, Enter, ClearFlag, Event, Astray, SetPause, StopSoft, Silence, Func, Return,
       NextSample, Intr, StartSoft, Unmask, Clr, Mask
  <2>3. pr' \in BOOLEAN /\ pend' \in BOOLEAN
    BY <1>0, Zenon DEF MidiNext, MainStep, ToneChange, midiVars, Sample, SetDriver, SetMelody, Start,
       First, Enter, ClearFlag, Event, Astray, SetPause, StopSoft, Silence, Func, Return,
       NextSample, Intr, StartSoft, Unmask, Clr, Mask
  <2>4. again' \in BOOLEAN
    BY <1>0, Zenon DEF MidiNext, MainStep, ToneChange, midiVars, Sample, SetDriver, SetMelody, Start,
       First, Enter, ClearFlag, Event, Astray, SetPause, StopSoft, Silence, Func, Return
  <2> QED
    BY <2>1, <2>2, <2>3, <2>4
<1>4. mpc' \in {"driver", "melody", "start", "intr", "loop"} /\ early' \in {"no", "masked", "open"}
  BY DEF MidiTypeOK, MidiNext, MainStep, ToneChange, midiVars, Main, Sample, SetDriver, SetMelody, Start,
         First, Enter, ClearFlag, Event, Astray, SetPause, StopSoft, Silence, Func, Return
<1>5. /\ tpc' \in {"off", "clr", "read", "pause", "stop", "silence", "func", "ret", "astray"}
      /\ melody' \in 0 .. Len(score) + 1 /\ on' \subseteq Generators
  <2>1. CASE Event
    BY <2>1, EventReads
  <2>2. CASE ~Event
    BY <1>1, <2>2 DEF MidiTypeOK, MidiNext, MainStep, ToneChange, midiVars, Main, Sample, SetDriver, SetMelody,
       Start, First, Enter, ClearFlag, Astray, SetPause, StopSoft, Silence, Func, Return
  <2> QED
    BY <2>1, <2>2
<1>6. pause' \in Nat
  <2>1. CASE SetPause
    BY <2>1, ScoreShape DEF MidiTypeOK, AtPause, SetPause
  <2>2. CASE ~SetPause
    BY <2>2 DEF MidiTypeOK, MidiNext, MainStep, ToneChange, midiVars, Sample, SetDriver, SetMelody, NextSample,
       Start, First, Enter, ClearFlag, Event, Astray, StopSoft, Silence, Func, Return
  <2> QED
    BY <2>1, <2>2
<1> QED
  BY <1>2, <1>3, <1>4, <1>5, <1>6 DEF MidiTypeOK

\* ToneChange leaves its loop only behind a pause or the end.
LEMMA NextAtPause == MidiTypeOK /\ AtPause /\ [MidiNext]_midiVars => AtPause'
<1> SUFFICES ASSUME MidiTypeOK, AtPause, [MidiNext]_midiVars PROVE AtPause'
  OBVIOUS
<1> USE DEF tone, exti
<1>1. CASE Event
  <2>1. /\ melody \in DOMAIN score /\ melody' = melody + 1 /\ score' = score
        /\ tpc' = "pause" => score[melody].op = "pause"
        /\ melody \in Nat
    BY <1>1, EventReads DEF Event, MidiTypeOK
  <2> QED
    BY <2>1 DEF AtPause
<1>2. CASE ~Event
  BY <1>2 DEF AtPause, MidiTypeOK, MidiNext, MainStep, ToneChange, midiVars, Main, Sample, SetDriver, SetMelody,
     Start, First, Enter, ClearFlag, Astray, SetPause, StopSoft, Silence, Func, Return
<1> QED
  BY <1>1, <1>2

-----------------------------------------------------------------------------
\* The history early is never taken back.
LEMMA EarlyStays == [MidiNext]_midiVars /\ early' = "no" => early = "no"
BY DEF MidiNext, MainStep, ToneChange, midiVars, Sample, SetDriver, SetMelody, Start, First, Enter,
       ClearFlag, Event, Astray, SetPause, StopSoft, Silence, Func, Return

\* A sample makes a request when the pause has run out and an event is left, or
\* leaves a trace in early or again.
LEMMA SampleQuiet ==
  ASSUME MidiTypeOK, early = "no", early' = "no", Starting, Requested, Undisturbed, Continues, Sample
  PROVE  Starting' /\ Requested' /\ Undisturbed' /\ Continues'
<1> USE DEF tone, exti
<1>1. driver /\ pause \in Nat
  BY DEF Sample, MidiTypeOK
<1>2. mpc = "loop" \/ pause > 0
  BY DEF Sample, Starting
<1>a. ~again' => ~again /\ (pause # 0 \/ tpc \in {"off", "clr"})
  BY Zenon DEF Sample
<1>b. UNCHANGED <<score, mpc, tpc, melody, driver>>
  BY DEF Sample
<1>3. CASE pause > 0
  <2>2. Undisturbed'
    <3>1. UNCHANGED swier
      BY <1>1, <1>3 DEF Sample, NextSample
    <3>2. swier /\ ~again' => tpc \notin {"off", "clr"}
      BY <1>1, <1>3, <1>a DEF Undisturbed
    <3>3. ~swier \/ again'
      BY <1>a, <3>2 DEF Undisturbed
    <3> QED
      BY <1>b, <3>1, <3>3 DEF Undisturbed
  <2>3. mpc = "loop"
    BY <1>1, <1>3 DEF Starting
  <2>4. Starting' /\ Continues'
    BY <1>b, <2>3 DEF Starting, Continues
  <2>5. Requested'
    BY <1>1, <1>3, <1>b DEF Sample, NextSample, Requested
  <2> QED
    BY <2>2, <2>4, <2>5
<1>4. CASE pause = 0
  <2>1. mpc = "loop" /\ Intr
    BY <1>2, <1>4 DEF Sample, NextSample
  <2>2. Starting'
    BY <2>1 DEF Sample, Starting
  <2>3. Requested'
    BY <2>1 DEF Sample, Intr, Requested
  <2>4. Undisturbed'
    <3>1. UNCHANGED pause
      BY <1>1, <1>4 DEF Sample, NextSample
    <3>2. ~again' => tpc \in {"off", "clr"}
      BY <1>4, <1>a
    <3>3. tpc \in {"off", "clr"} => melody \in DOMAIN score
      BY <1>1, <2>1 DEF Continues
    <3> QED
      BY <1>4, <1>b, <3>1, <3>2, <3>3 DEF Undisturbed
  <2>5. Continues'
    BY <2>1 DEF Sample, Intr, Continues
  <2> QED
    BY <2>2, <2>3, <2>4, <2>5
<1> QED
  BY <1>1, <1>3, <1>4

\* The steps of start(): the first request is made with the first event to read.
LEMMA MainQuiet ==
  ASSUME MidiTypeOK, early = "no", Starting, Requested, Undisturbed, Continues, MainStep
  PROVE  Starting' /\ Requested' /\ Undisturbed' /\ Continues'
<1> USE DEF tone, exti, Main
<1>1. CASE SetDriver
  BY <1>1 DEF SetDriver, Starting, Requested, Undisturbed, Continues
<1>2. CASE SetMelody
  BY <1>2 DEF SetMelody, Starting, Requested, Undisturbed, Continues
<1>3. CASE Start
  BY <1>3 DEF Start, StartSoft, Unmask, Starting, Requested, Undisturbed, Continues
<1>4. CASE First
  <2>1. melody \in DOMAIN score
    BY <1>4, ScoreShape DEF First, Starting, MidiTypeOK
  <2> QED
    BY <1>4, <2>1 DEF First, Intr, Starting, Requested, Undisturbed, Continues
<1> QED
  BY <1>1, <1>2, <1>3, <1>4 DEF MainStep

\* The steps of ToneChange: it is entered with a request, which it takes back
\* first, and it stops asking for samples behind the last event.
LEMMA ToneQuiet ==
  ASSUME MidiTypeOK, AtPause, early = "no", Starting, Requested, Undisturbed, Continues, ToneChange
  PROVE  Starting' /\ Requested' /\ Undisturbed' /\ Continues'
<1> USE DEF tone, exti
<1>0. mpc = "loop"
  BY DEF ToneChange, Starting, Enter, ClearFlag, Event, Astray, SetPause, StopSoft, Silence,
         Func, Return
<1>1. CASE Enter
  BY <1>0, <1>1 DEF Enter, Starting, Requested, Undisturbed, Continues
<1>2. CASE ClearFlag
  BY <1>0, <1>2 DEF ClearFlag, Clr, Starting, Requested, Undisturbed, Continues
<1>3. CASE Event
  <2>1. /\ tpc = "read" /\ tpc' \in {"read", "pause", "stop"}
        /\ tpc' = "pause" => melody' \in DOMAIN score
    BY <1>3, EventReads DEF Event
  <2>2. UNCHANGED <<score, mpc, driver, swier, pr, pend, again, pause>>
    BY <1>3 DEF Event
  <2> QED
    <3>1. Starting' /\ Requested'
      BY <1>0, <2>1, <2>2 DEF Starting, Requested
    <3>2. Undisturbed'
      BY <2>1, <2>2 DEF Undisturbed
    <3>3. Continues'
      BY <2>1, <2>2 DEF Continues
    <3> QED
      BY <3>1, <3>2, <3>3
<1>4. CASE Astray
  BY <1>0, <1>4 DEF Astray, Starting, Requested, Undisturbed, Continues
<1>5. CASE SetPause
  BY <1>0, <1>5 DEF SetPause, Starting, Requested, Undisturbed, Continues
<1>6. CASE StopSoft
  BY <1>0, <1>6 DEF StopSoft, Mask, Starting, Requested, Undisturbed, Continues
<1>7. CASE Silence
  BY <1>0, <1>7 DEF Silence, Starting, Requested, Undisturbed, Continues
<1>8. CASE Func
  BY <1>0, <1>8 DEF Func, Starting, Requested, Undisturbed, Continues
<1>9. CASE Return
  BY <1>0, <1>9 DEF Return, Starting, Requested, Undisturbed, Continues
<1> QED
  BY <1>1, <1>2, <1>3, <1>4, <1>5, <1>6, <1>7, <1>8, <1>9 DEF ToneChange

\* The invariant is inductive.
LEMMA MidiGoesOn == MidiInv /\ [MidiNext]_midiVars => MidiInv'
<1> SUFFICES ASSUME MidiInv, [MidiNext]_midiVars PROVE MidiInv'
  OBVIOUS
<1>1. MidiTypeOK' /\ AtPause'
  BY MidiTypes, NextAtPause DEF MidiInv
<1>2. ASSUME early' = "no" PROVE (Starting /\ Requested /\ Undisturbed /\ Continues)'
  <2>1. early = "no" /\ MidiTypeOK /\ AtPause /\ Starting /\ Requested /\ Undisturbed /\ Continues
    BY <1>2, EarlyStays DEF MidiInv, Quiet
  <2>2. CASE Sample
    BY <1>2, <2>1, <2>2, SampleQuiet
  <2>3. CASE MainStep
    BY <2>1, <2>3, MainQuiet
  <2>4. CASE ToneChange
    BY <2>1, <2>4, ToneQuiet
  <2>5. CASE UNCHANGED midiVars
    BY <2>1, <2>5 DEF midiVars, tone, exti, Starting, Requested, Undisturbed, Continues
  <2> QED
    BY <2>2, <2>3, <2>4, <2>5 DEF MidiNext
<1> QED
  BY <1>1, <1>2 DEF MidiInv, Quiet

\* The invariant of the player.
THEOREM MidiInvariance == MidiSpec => []MidiInv
<1>1. MidiInit => MidiInv
  BY MidiStarts
<1>2. MidiInv /\ [MidiNext]_midiVars => MidiInv'
  BY MidiGoesOn
<1> QED
  BY <1>1, <1>2, PTL DEF MidiSpec

\* The tones change when the pause has run out and not behind the end of the
\* score, but for the two histories the player does not exclude.
THEOREM PausesKept == MidiSpec => []PauseKept
<1>1. MidiInv => PauseKept
  BY DEF MidiInv, Quiet, Requested, Undisturbed, PauseKept, MidiTypeOK
<1> QED
  BY <1>1, MidiInvariance, PTL
=============================================================================
