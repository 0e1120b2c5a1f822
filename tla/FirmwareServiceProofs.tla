----------------------- MODULE FirmwareServiceProofs -----------------------
(***************************************************************************)
(* Proofs about the way of a firmware, for every disk, word size, source   *)
(* and place of the descriptor: what FwCheck packed passes UserCheck, also *)
(* after it has been read back from the disk and copied to it again.       *)
(*                                                                         *)
(* Two tables are made step by step, the sums of the words and the FAT; a  *)
(* recursion that stays in a set has a solution (Recursion), and what it   *)
(* gives is proved by the least step at which it would be wrong.  From the *)
(* FAT follows that word i of the file is word i of memory (InOrder).  The *)
(* invariant says that what looks like an image, in memory or in a file,   *)
(* has a size that fits, and that a file read back as a whole still sums   *)
(* to 0.                                                                   *)
(***************************************************************************)
EXTENDS FirmwareService, FiniteSetTheorems, SequenceTheorems, TLAPS

-----------------------------------------------------------------------------
(* The inductive invariant                                                 *)

Words == 0 .. (W - 1)

\* The images that can be read.
Sources == {i \in DOMAIN Images : Images[i] # Missing}

\* A size the device may take for the one of an image.
Lengths == {4 * n : n \in CheckAt .. Cells}

\* What looks like an image has a size that fits.
Headed(w, limit) == w[MagicAt] = Magic => w[SizeAt] \in Lengths /\ w[SizeAt] <= limit

\* UserCheck finds an image in the first words.
Passes(w) == w[MagicAt] = Magic /\ w[SizeAt] \in Lengths /\ SumTo(w, w[SizeAt] \div 4) = 0

\* The device: what it has found at reset, and what was put in its memory since.
DeviceInv ==
  /\ memory \in [1 .. Cells -> Words] /\ Headed(memory, FullSize)
  /\ size \in {0} \cup Lengths
  /\ mode \in {"off", "loader", "user"}
  /\ mode = "off" => dirsize = 0
  /\ mode # "off" => dirsize \in Lengths /\ Headed(memory, dirsize)
  /\ holds \in {"none", "linked", "backup", "cut", "download", "foreign"}
  /\ holds \in {"linked", "backup"} => Passes(memory)

\* A file is at least as long as it says; one that was read back as a whole
\* contains what UserCheck found.
Whole(f) ==
  \E n \in CheckAt .. Cells :
    /\ f.words \in [1 .. n -> Words] /\ Headed(f.words, 4 * n)
    /\ f.what = "backup" => f.key = LoaderKey(Uuid) /\ Passes(f.words)

FileInv ==
  file # NoFile => /\ file.what \in {"backup", "cut", "download", "foreign"}
                   /\ Whole(file)

\* The processes of the server: what they can be asked for, and a form only for
\* a device that is paid for.
Users   == Others \cup {Uuid}
Links   == {LinkOf(u) : u \in Users}
Keys    == {NoKey} \cup {LoaderKey(u) : u \in Payed}
States  == {"unused", "pending", "served", "form", "orphan", "closed"}
Asks    == [kind : {"link"}, link : Links]
           \cup [kind : {"select"}, link : Links, choice : Sources]
           \cup [kind : {"file", "none"}]

ServerInv ==
  /\ conn \in [1 .. MaxConn -> [st : States, req : Asks, key : Keys]]
  /\ \A c \in 1 .. MaxConn :
       conn[c].st = "form" => conn[c].req.kind = "link" /\ UuidOf(conn[c].req.link) \in Payed
  /\ forms \subseteq Payed
  /\ parent \in {"accept", "search", "gone"} /\ slots \in 0 .. ConnMax
  /\ parent = "accept" => slots < ConnMax

Inv == DeviceInv /\ FileInv /\ ServerInv

-----------------------------------------------------------------------------
(* Recursion over the natural numbers                                      *)

\* A set of natural numbers that is not empty has a least element.
LEMMA LeastElement ==
  ASSUME NEW T, T \subseteq Nat, T # {}
  PROVE  \E x \in T : \A y \in T : x <= y
<1> DEFINE Below == {0 .. (n - 1) : n \in T}
<1>1. Below \subseteq FiniteSubsetsOf(Nat) /\ Below # {}
  <2>1. \A n \in T : IsFiniteSet(0 .. (n - 1)) /\ 0 .. (n - 1) \subseteq Nat
    BY FS_Interval
  <2> QED
    BY <2>1 DEF FiniteSubsetsOf
<1>2. \E B \in Below : \A C \in Below : <<C, B>> \notin StrictSubsetOrdering(Nat)
  <2>1. IsWellFoundedOn(StrictSubsetOrdering(Nat), FiniteSubsetsOf(Nat))
    BY FS_StrictSubsetOrderingWellFounded
  <2> HIDE DEF Below
  <2> QED
    BY <1>1, <2>1, WFMin
<1>3. PICK x \in T : \A y \in T : <<0 .. (y - 1), 0 .. (x - 1)>> \notin StrictSubsetOrdering(Nat)
  BY <1>2
<1>4. ASSUME NEW y \in T, y < x PROVE FALSE
  <2>1. 0 .. (y - 1) \in SUBSET Nat /\ 0 .. (x - 1) \in SUBSET Nat
    OBVIOUS
  <2>2. y \in 0 .. (x - 1) /\ y \notin 0 .. (y - 1)
    BY <1>4
  <2>3. 0 .. (y - 1) \subseteq 0 .. (x - 1) /\ 0 .. (y - 1) # 0 .. (x - 1)
    BY <1>4, <2>2
  <2>4. <<0 .. (y - 1), 0 .. (x - 1)>> \in StrictSubsetOrdering(Nat)
    BY <2>1, <2>3 DEF StrictSubsetOrdering
  <2> QED
    BY <1>3, <2>4
<1> QED
  BY <1>4

\* f[0] is a, and f[k] what step k makes of the one before.
Follows(f, n, a, step) == f = [k \in 0 .. n |-> IF k = 0 THEN a ELSE step[k][f[k - 1]]]

\* A recursion that stays in a set has a solution.
LEMMA Recursion ==
  ASSUME NEW n \in Nat, NEW S, NEW a \in S, NEW step \in [1 .. n -> [S -> S]]
  PROVE  \E f \in [0 .. n -> S] : Follows(f, n, a, step)
<1> DEFINE Steps(m, f) == [k \in 0 .. m |-> IF k = 0 THEN a ELSE step[k][f[k - 1]]]
           Bad == {m \in 0 .. n : ~ \E f \in [0 .. m -> S] : f = Steps(m, f)}
<1>1. SUFFICES ASSUME Bad # {} PROVE FALSE
  <2>1. ASSUME n \notin Bad PROVE \E f \in [0 .. n -> S] : f = Steps(n, f)
    <3>1. n \in 0 .. n
      OBVIOUS
    <3> HIDE DEF Steps
    <3> QED
      BY <2>1, <3>1, Zenon
  <2>2. \A f : Follows(f, n, a, step) <=> f = Steps(n, f)
    BY Zenon DEF Follows
  <2> HIDE DEF Bad, Steps
  <2> QED
    BY <2>1, <2>2, Zenon
<1>2. PICK m \in Bad : \A k \in Bad : m <= k
  <2>1. Bad \subseteq Nat
    OBVIOUS
  <2> HIDE DEF Bad
  <2> QED
    BY <1>1, <2>1, LeastElement
<1>3. m # 0
  <2> DEFINE g == [k \in 0 .. 0 |-> a]
  <2>1. g \in [0 .. 0 -> S] /\ g = Steps(0, g)
    OBVIOUS
  <2> QED
    BY <2>1
<1>4. m \in 1 .. n /\ m - 1 \in 0 .. n /\ m - 1 < m
  BY <1>3
<1>5. PICK f \in [0 .. (m - 1) -> S] : f = Steps(m - 1, f)
  <2>1. m - 1 \notin Bad
    <3> HIDE DEF Bad
    <3> QED
      BY <1>2, <1>4
  <2> QED
    BY <1>4, <2>1
<1> DEFINE g == [k \in 0 .. m |-> IF k = m THEN step[m][f[m - 1]] ELSE f[k]]
<1>6. f[m - 1] \in S /\ step[m][f[m - 1]] \in S
  BY <1>4, <1>5
<1>7. g \in [0 .. m -> S]
  BY <1>4, <1>5, <1>6
<1>8. ASSUME NEW k \in 0 .. m PROVE g[k] = Steps(m, g)[k]
  <2>1. CASE k = m
    BY <1>4, <2>1
  <2>2. CASE k # m
    <3>1. k \in 0 .. (m - 1) /\ (k # 0 => k - 1 \in 0 .. (m - 1) /\ k - 1 # m)
      BY <1>4, <2>2
    <3>2. g[k] = f[k] /\ (k # 0 => g[k - 1] = f[k - 1])
      BY <1>4, <2>2, <3>1
    <3>3. f[k] = IF k = 0 THEN a ELSE step[k][f[k - 1]]
      BY <1>5, <3>1
    <3> QED
      BY <3>2, <3>3
  <2> QED
    BY <2>1, <2>2
<1>9. g = Steps(m, g)
  BY <1>8
<1> QED
  BY <1>2, <1>7, <1>9

-----------------------------------------------------------------------------
(* Sums modulo W                                                           *)

LEMMA Modulus == W \in Nat \ {0}
BY ServiceAssumption

\* The sum of two words is one of them more, or runs over once.
LEMMA AddWords ==
  ASSUME NEW a \in Words, NEW b \in Words
  PROVE  (a + b) % W = IF a + b < W THEN a + b ELSE a + b - W
<1>1. W \in Nat \ {0}
  BY Modulus
<1>2. CASE a + b < W
  BY <1>1, <1>2 DEF Words
<1>3. CASE a + b >= W
  <2>1. a + b - W \in Words
    BY <1>1, <1>3 DEF Words
  <2> QED
    BY <1>1, <1>3, <2>1 DEF Words
<1> QED
  BY <1>1, <1>2, <1>3 DEF Words

\* The first n words of w, and the sums of 0 to n of them.
AreWords(w, n) == \A i \in 1 .. n : w[i] \in Words
Sums(f, w, n)  == /\ f[0] = 0
                  /\ \A k \in 1 .. n : f[k] = (f[k - 1] + w[k]) % W

\* The sums of 0 to n words are words, each made from the one before.
LEMMA SumTable ==
  ASSUME NEW n \in Nat, NEW w, AreWords(w, n)
  PROVE  \E f \in [0 .. n -> Words] : SumTo(w, n) = f[n] /\ Sums(f, w, n)
<1> DEFINE Adds(f) == [k \in 0 .. n |-> IF k = 0 THEN 0 ELSE (f[k - 1] + w[k]) % W]
           step == [k \in 1 .. n |-> [x \in Words |-> (x + w[k]) % W]]
           s == CHOOSE f : f = Adds(f)
<1>1. W \in Nat \ {0} /\ 0 \in Words /\ \A i \in 1 .. n : w[i] \in Words
  BY Modulus DEF Words, AreWords
<1>2. step \in [1 .. n -> [Words -> Words]]
  <2>1. \A k \in 1 .. n, x \in Words : (x + w[k]) % W \in Words
    BY <1>1 DEF Words
  <2> QED
    BY <2>1
<1>3. PICK f \in [0 .. n -> Words] : Follows(f, n, 0, step)
  <2> HIDE DEF step
  <2> QED
    BY <1>1, <1>2, Recursion
<1>4. \A k \in 1 .. n : step[k][f[k - 1]] = (f[k - 1] + w[k]) % W
  <2>1. \A k \in 1 .. n : k - 1 \in 0 .. n
    OBVIOUS
  <2>2. \A k \in 1 .. n : f[k - 1] \in Words
    BY <1>3, <2>1
  <2> QED
    BY <2>2
<1>5. f = Adds(f)
  <2>1. f = [k \in 0 .. n |-> IF k = 0 THEN 0 ELSE step[k][f[k - 1]]]
    BY <1>3 DEF Follows
  <2>2. \A k \in 0 .. n : k # 0 => k \in 1 .. n
    OBVIOUS
  <2> HIDE DEF step
  <2> QED
    BY <1>4, <2>1, <2>2
<1>6. s = Adds(s)
  BY <1>5
<1>7. SumTo(w, n) = s[n]
  BY DEF SumTo
<1>8. \A k \in 1 .. n : s[k] = (s[k - 1] + w[k]) % W
  <2> HIDE DEF s
  <2> QED
    BY <1>6
<1>9. s[0] = 0
  <2> HIDE DEF s
  <2> QED
    BY <1>6
<1>10. \A k \in 0 .. n : s[k] \in Words
  <2> DEFINE Bad == {k \in 0 .. n : s[k] \notin Words}
  <2>1. SUFFICES ASSUME Bad # {} PROVE FALSE
    OBVIOUS
  <2>2. PICK m \in Bad : \A k \in Bad : m <= k
    <3>1. Bad \subseteq Nat
      OBVIOUS
    <3> HIDE DEF Bad
    <3> QED
      BY <2>1, <3>1, LeastElement
  <2>3. m # 0
    BY <1>1, <1>9, <2>2
  <2>4. s[m - 1] \in Words
    <3>1. m - 1 \in 0 .. n /\ ~(m <= m - 1)
      BY <2>3
    <3> QED
      BY <2>2, <3>1
  <2>5. s[m] = (s[m - 1] + w[m]) % W /\ w[m] \in Words
    BY <1>1, <1>8, <2>3
  <2> HIDE DEF s
  <2>6. s[m] \in Words
    BY <1>1, <2>4, <2>5 DEF Words
  <2> QED
    BY <2>2, <2>6
<1>11. s = [k \in 0 .. n |-> s[k]]
  <2> HIDE DEF s
  <2> QED
    BY <1>6
<1> HIDE DEF s
<1>12. s \in [0 .. n -> Words]
  BY <1>10, <1>11
<1> QED
  BY <1>7, <1>8, <1>9, <1>12 DEF Sums

\* Sums of words that agree are the same.
LEMMA SumSame ==
  ASSUME NEW n \in Nat, NEW v, NEW w, AreWords(v, n), \A i \in 1 .. n : w[i] = v[i]
  PROVE  SumTo(w, n) = SumTo(v, n) /\ SumTo(v, n) \in Words
<1>a. AreWords(w, n)
  BY DEF AreWords
<1>b. PICK f \in [0 .. n -> Words] : SumTo(v, n) = f[n] /\ Sums(f, v, n)
  BY SumTable
<1>c. PICK g \in [0 .. n -> Words] : SumTo(w, n) = g[n] /\ Sums(g, w, n)
  BY <1>a, SumTable
<1>1. /\ SumTo(v, n) = f[n] /\ f[0] = 0
      /\ \A k \in 1 .. n : f[k] = (f[k - 1] + v[k]) % W
  BY <1>b DEF Sums
<1>2. /\ SumTo(w, n) = g[n] /\ g[0] = 0
      /\ \A k \in 1 .. n : g[k] = (g[k - 1] + w[k]) % W
  BY <1>c DEF Sums
<1>3. \A k \in 0 .. n : f[k] = g[k]
  <2> DEFINE Bad == {k \in 0 .. n : f[k] # g[k]}
  <2>1. SUFFICES ASSUME Bad # {} PROVE FALSE
    OBVIOUS
  <2>2. PICK m \in Bad : \A k \in Bad : m <= k
    <3>1. Bad \subseteq Nat
      OBVIOUS
    <3> HIDE DEF Bad
    <3> QED
      BY <2>1, <3>1, LeastElement
  <2>3. m # 0
    BY <1>1, <1>2, <2>2
  <2>4. f[m - 1] = g[m - 1]
    <3>1. m - 1 \in 0 .. n /\ ~(m <= m - 1)
      BY <2>3
    <3> QED
      BY <2>2, <3>1
  <2>5. m \in 1 .. n
    BY <2>3
  <2>6. f[m] = g[m]
    BY <1>1, <1>2, <2>4, <2>5
  <2> QED
    BY <2>2, <2>6
<1>4. n \in 0 .. n
  OBVIOUS
<1> QED
  BY <1>1, <1>2, <1>3, <1>4

\* A word that was 0 adds what is put there.
LEMMA SumPut ==
  ASSUME NEW n \in Nat, NEW v, NEW w, NEW c \in 1 .. n, NEW x \in Words,
         AreWords(v, n), v[c] = 0, w[c] = x,
         \A i \in 1 .. n : i # c => w[i] = v[i]
  PROVE  SumTo(w, n) = (SumTo(v, n) + x) % W
<1>a. AreWords(w, n)
  BY DEF AreWords
<1>b. PICK f \in [0 .. n -> Words] : SumTo(v, n) = f[n] /\ Sums(f, v, n)
  BY SumTable
<1>c. PICK g \in [0 .. n -> Words] : SumTo(w, n) = g[n] /\ Sums(g, w, n)
  BY <1>a, SumTable
<1>1. /\ SumTo(v, n) = f[n] /\ f[0] = 0
      /\ \A k \in 1 .. n : f[k] = (f[k - 1] + v[k]) % W
  BY <1>b DEF Sums
<1>2. /\ SumTo(w, n) = g[n] /\ g[0] = 0
      /\ \A k \in 1 .. n : g[k] = (g[k - 1] + w[k]) % W
  BY <1>c DEF Sums
<1> DEFINE Claim(k) == g[k] = IF k < c THEN f[k] ELSE (f[k] + x) % W
           Bad == {k \in 0 .. n : ~ Claim(k)}
<1>3. \A k \in 0 .. n : Claim(k)
  <2>1. SUFFICES ASSUME Bad # {} PROVE FALSE
    OBVIOUS
  <2>2. PICK m \in Bad : \A k \in Bad : m <= k
    <3>1. Bad \subseteq Nat
      OBVIOUS
    <3> HIDE DEF Bad
    <3> QED
      BY <2>1, <3>1, LeastElement
  <2>3. m # 0
    BY <1>1, <1>2, <2>2
  <2>4. m - 1 \in 0 .. n /\ m \in 1 .. n /\ Claim(m - 1)
    <3>1. m - 1 \in 0 .. n /\ ~(m <= m - 1) /\ m \in 1 .. n
      BY <2>3
    <3> QED
      BY <2>2, <3>1
  <2> DEFINE a == f[m - 1]
             b == g[m - 1]
             y == v[m]
  <2>5. a \in Words /\ b \in Words /\ y \in Words
    BY <2>4 DEF AreWords
  <2>6. f[m] = (a + y) % W /\ g[m] = (b + w[m]) % W
    BY <1>1, <1>2, <2>4
  <2>7. b = IF m - 1 < c THEN a ELSE (a + x) % W
    BY <2>4
  <2>8. (m # c => w[m] = y) /\ (m = c => w[m] = x /\ y = 0)
    BY <2>4
  <2> HIDE DEF a, b, y
  <2>9. CASE m < c
    <3>1. b = a /\ w[m] = y
      BY <2>4, <2>7, <2>8, <2>9
    <3> QED
      BY <2>2, <2>6, <2>9, <3>1
  <2>10. CASE m = c
    <3>1. b = a /\ w[m] = x /\ y = 0
      BY <2>4, <2>7, <2>8, <2>10
    <3>2. (a + 0) % W = a
      <4>1. a \in Nat /\ a < W
        BY <2>5, Modulus DEF Words
      <4> QED
        BY <4>1, Modulus
    <3>3. f[m] = a /\ g[m] = (a + x) % W
      BY <2>6, <3>1, <3>2
    <3> QED
      BY <2>2, <2>10, <3>3
  <2>11. CASE m > c
    <3>1. b = (a + x) % W /\ w[m] = y
      BY <2>4, <2>7, <2>8, <2>11
    <3>2. b = (IF a + x < W THEN a + x ELSE a + x - W)
      BY <2>5, <3>1, AddWords
    <3>3. f[m] \in Words
      BY <1>1, <2>4
    <3>4. f[m] = IF a + y < W THEN a + y ELSE a + y - W
      BY <2>5, <2>6, AddWords
    <3>5. g[m] = IF b + y < W THEN b + y ELSE b + y - W
      BY <2>5, <2>6, <3>1, AddWords
    <3>6. (f[m] + x) % W = IF f[m] + x < W THEN f[m] + x ELSE f[m] + x - W
      BY <3>3, AddWords
    <3>7. g[m] = (f[m] + x) % W
      BY <2>5, <3>2, <3>3, <3>4, <3>5, <3>6, Modulus DEF Words
    <3> QED
      BY <2>2, <2>11, <3>7
  <2> QED
    BY <2>9, <2>10, <2>11
<1>4. n \in 0 .. n /\ ~(n < c)
  OBVIOUS
<1> QED
  BY <1>1, <1>2, <1>3, <1>4

-----------------------------------------------------------------------------
(* The FAT                                                                 *)

Bytes  == 0 .. 255
Tables == [0 .. (FatBytes - 1) -> Bytes]
Fits(n) == n \in Nat /\ 3 * (n + 1) < 2 * FatBytes

\* The bytes of an entry t next to an entry that shares the byte y, and what a
\* host reads from two bytes.
Entries        == 0 .. 4095
EvenLow(t)     == t % 256
EvenHigh(t, y) == 16 * (y \div 16) + t \div 256
OddLow(t, y)   == 16 * (t % 16) + (y % 16)
OddHigh(t)     == t \div 16
GetEven(x, y)  == (x + 256 * y) % 4096
GetOdd(x, y)   == (x + 256 * y) \div 16

\* The clusters of the disk, which all have an entry in the FAT.
LEMMA ClusterCount ==
  /\ Clusters \in Nat \ {0} /\ LastCluster = Clusters + 2 /\ FatBytes = 1024
  /\ \A n \in 0 .. LastCluster : Fits(n)
  /\ \A n \in 0 .. LastCluster : EntryOf(n) \in Entries
<1>1. Clusters \in Int
  BY ServiceAssumption DEF Clusters, Pt2, ImageStart, ClusterBlocks, Pt0
<1>2. Clusters > 0 /\ 3 * (Clusters + 3) < 2048
  BY ServiceAssumption DEF ImageStart, FatBytes
<1> QED
  BY <1>1, <1>2 DEF Entries, LastCluster, ImageStart, FatBytes, EntryOf, Fits, IndexStart

\* The quotient and the remainder of a byte or of an entry.
LEMMA Split ==
  ASSUME NEW t \in Nat
  PROVE  /\ t \div 16 \in Nat /\ t % 16 \in 0 .. 15 /\ t = 16 * (t \div 16) + (t % 16)
         /\ t \div 256 \in Nat /\ t % 256 \in 0 .. 255 /\ t = 256 * (t \div 256) + (t % 256)
OBVIOUS

\* An even entry: its low byte, and its high digit in the low half of a byte.
LEMMA EvenEntry ==
  ASSUME NEW t \in Entries, NEW y \in Bytes
  PROVE  EvenLow(t) \in Bytes /\ EvenHigh(t, y) \in Bytes /\ GetEven(EvenLow(t), EvenHigh(t, y)) = t
<1> DEFINE q == t \div 256
           r == t % 256
           h == y \div 16
<1>1. q \in 0 .. 15 /\ r \in 0 .. 255 /\ t = 256 * q + r
  BY Split DEF Entries
<1>2. h \in 0 .. 15
  BY Split DEF Bytes
<1>0. EvenLow(t) = r /\ EvenHigh(t, y) = 16 * h + q
  BY DEF EvenLow, EvenHigh
<1> HIDE DEF q, r, h
<1>3. r + 256 * (16 * h + q) = 4096 * h + t
  BY <1>1, <1>2
<1>4. (4096 * h + t) % 4096 = t
  BY <1>2 DEF Entries
<1> QED
  BY <1>0, <1>1, <1>2, <1>3, <1>4 DEF Bytes, GetEven

\* An odd entry: its low digit in the high half of a byte, and the rest.
LEMMA OddEntry ==
  ASSUME NEW t \in Entries, NEW y \in Bytes, NEW x \in Bytes
  PROVE  /\ OddLow(t, y) \in Bytes /\ OddHigh(t) \in Bytes
         /\ GetOdd(OddLow(t, y), OddHigh(t)) = t
         /\ GetEven(x, OddLow(t, y)) = GetEven(x, y)
<1> DEFINE q == t \div 16
           r == t % 16
           h == y \div 16
           l == y % 16
<1>1. q \in 0 .. 255 /\ r \in 0 .. 15 /\ t = 16 * q + r
  BY Split DEF Entries
<1>2. h \in 0 .. 15 /\ l \in 0 .. 15 /\ y = 16 * h + l
  BY Split DEF Bytes
<1>0. OddLow(t, y) = 16 * r + l /\ OddHigh(t) = q
  BY DEF OddLow, OddHigh
<1> HIDE DEF q, r, h, l
<1>3. 16 * r + l + 256 * q = 16 * t + l /\ (16 * t + l) \div 16 = t
  BY <1>1, <1>2 DEF Entries
<1>4. /\ x + 256 * (16 * r + l) = 4096 * r + (x + 256 * l)
      /\ x + 256 * y = 4096 * h + (x + 256 * l)
      /\ x + 256 * l \in 0 .. 4095
  BY <1>1, <1>2 DEF Bytes
<1> DEFINE z == x + 256 * l
<1> HIDE DEF z
<1>5. (4096 * r + z) % 4096 = z /\ (4096 * h + z) % 4096 = z
  BY <1>1, <1>2, <1>4 DEF z
<1>6. 16 * r + l \in Bytes /\ q \in Bytes
  BY <1>1, <1>2 DEF Bytes
<1>7. GetOdd(16 * r + l, q) = t
  BY <1>3 DEF GetOdd
<1>8. GetEven(x, 16 * r + l) = z /\ GetEven(x, y) = z
  BY <1>4, <1>5 DEF GetEven, z
<1> QED
  BY <1>0, <1>6, <1>7, <1>8

\* A function that is changed in two places.
LEMMA Updated ==
  ASSUME NEW D, NEW B, NEW f \in [D -> B], NEW i \in D, NEW j \in D, i # j,
         NEW a \in B, NEW b \in B, NEW g, g = [f EXCEPT ![i] = a, ![j] = b]
  PROVE  /\ g \in [D -> B] /\ g[i] = a /\ g[j] = b
         /\ \A k \in D : k # i /\ k # j => g[k] = f[k]
<1> DEFINE d == [f EXCEPT ![i] = a]
<1>1. d \in [D -> B] /\ d[i] = a /\ \A k \in D : k # i => d[k] = f[k]
  OBVIOUS
<1> HIDE DEF d
<1>2. g = [d EXCEPT ![j] = b]
  BY DEF d
<1> QED
  BY <1>1, <1>2

\* An entry that is written can be read, and those before it are as they were.
LEMMA PutThenGet ==
  ASSUME NEW fat \in Tables, NEW n, Fits(n), NEW t \in Entries
  PROVE  /\ PutEntry(fat, n, t) \in Tables
         /\ GetEntry(PutEntry(fat, n, t), n) = t
         /\ \A m \in 0 .. (n - 1) : GetEntry(PutEntry(fat, n, t), m) = GetEntry(fat, m)
<1> DEFINE p  == n \div 2
           at == 3 * p
           y  == fat[at + 1]
           x  == fat[at]
           new == PutEntry(fat, n, t)
           D  == 0 .. 1023
<1>1. n \in Nat /\ p \in Nat /\ (n = 2 * p \/ n = 2 * p + 1) /\ 3 * (n + 1) < 2048
  BY DEF Fits, FatBytes
<1>2. at \in D /\ at + 1 \in D /\ (n = 2 * p + 1 => at + 2 \in D)
  BY <1>1
<1>3. /\ (n = 2 * p => n % 2 = 0 /\ n + p = at)
      /\ (n = 2 * p + 1 => n % 2 # 0 /\ n + p = at + 1)
  BY <1>1
<1>4. fat \in [D -> Bytes] /\ Tables = [D -> Bytes]
  BY DEF Tables, FatBytes
<1>5. /\ n % 2 = 0 => new = [fat EXCEPT ![at] = EvenLow(t), ![at + 1] = EvenHigh(t, y)]
      /\ n % 2 # 0 => new = [fat EXCEPT ![at + 1] = OddLow(t, y), ![at + 2] = OddHigh(t)]
  BY Zenon DEF PutEntry, EvenLow, EvenHigh, OddLow, OddHigh
<1>6. \A f, m : GetEntry(f, m) = IF m % 2 = 0 THEN GetEven(f[m + m \div 2], f[m + m \div 2 + 1])
                                 ELSE GetOdd(f[m + m \div 2], f[m + m \div 2 + 1])
  BY DEF GetEntry, GetEven, GetOdd
<1> HIDE DEF new
<1>7. y \in Bytes /\ x \in Bytes
  <2> HIDE DEF at, D
  <2> QED
    BY <1>2, <1>4, Zenon
<1>10. at = 3 * p /\ y = fat[at + 1] /\ x = fat[at]
  OBVIOUS
<1>11. ASSUME NEW i \in D, NEW j \in D, i # j, NEW a \in Bytes, NEW b \in Bytes,
              new = [fat EXCEPT ![i] = a, ![j] = b]
       PROVE  /\ new \in [D -> Bytes] /\ new[i] = a /\ new[j] = b
              /\ \A k \in D : k # i /\ k # j => new[k] = fat[k]
  <2> HIDE DEF D
  <2> QED
    BY <1>4, <1>11, Updated, Zenon
<1> HIDE DEF p, at, y, x
<1>8. CASE n = 2 * p
  <2> DEFINE a == EvenLow(t)
             b == EvenHigh(t, y)
  <2>1. a \in Bytes /\ b \in Bytes /\ GetEven(a, b) = t
    BY <1>7, EvenEntry, Zenon
  <2>2. new = [fat EXCEPT ![at] = a, ![at + 1] = b]
    BY <1>3, <1>5, <1>8, Zenon
  <2>3. \A m \in 0 .. (n - 1) : /\ m + m \div 2 \in 0 .. (at - 1)
                                /\ m + m \div 2 + 1 \in 0 .. (at - 1)
    BY <1>1, <1>8, <1>10
  <2> HIDE DEF a, b
  <2>4. at # at + 1
    BY <1>2
  <2> HIDE DEF D
  <2>5. /\ new \in [D -> Bytes] /\ new[at] = a /\ new[at + 1] = b
        /\ \A i \in D : i # at /\ i # at + 1 => new[i] = fat[i]
    BY <1>2, <1>11, <2>1, <2>2, <2>4, Zenon
  <2>6. GetEntry(new, n) = t
    <3>1. n + n \div 2 = at /\ n % 2 = 0
      BY <1>3, <1>8 DEF p
    <3> QED
      BY <1>6, <2>1, <2>5, <3>1, Zenon
  <2>7. ASSUME NEW m \in 0 .. (n - 1) PROVE GetEntry(new, m) = GetEntry(fat, m)
    <3> DEFINE k == m + m \div 2
    <3>1. k \in 0 .. (at - 1) /\ k + 1 \in 0 .. (at - 1)
      BY <2>3
    <3> HIDE DEF k
    <3>2. /\ k \in D /\ k # at /\ k # at + 1
          /\ k + 1 \in D /\ k + 1 # at /\ k + 1 # at + 1
      BY <1>2, <3>1 DEF D
    <3>3. new[k] = fat[k] /\ new[k + 1] = fat[k + 1]
      BY <2>5, <3>2, Zenon
    <3> QED
      BY <1>6, <3>3, Zenon DEF k
  <2> QED
    BY <1>4, <2>5, <2>6, <2>7, Zenon DEF new
<1>9. CASE n = 2 * p + 1
  <2> DEFINE a == OddLow(t, y)
             b == OddHigh(t)
  <2>1. a \in Bytes /\ b \in Bytes /\ GetOdd(a, b) = t /\ GetEven(x, a) = GetEven(x, y)
    BY <1>7, OddEntry, Zenon
  <2>2. new = [fat EXCEPT ![at + 1] = a, ![at + 2] = b]
    BY <1>3, <1>5, <1>9, Zenon
  <2>3. /\ 2 * p \in 0 .. (n - 1) /\ (2 * p) % 2 = 0 /\ 2 * p + (2 * p) \div 2 = at
        /\ \A m \in 0 .. (n - 1) : m # 2 * p => /\ m + m \div 2 \in 0 .. (at - 1)
                                                /\ m + m \div 2 + 1 \in 0 .. (at - 1)
    BY <1>1, <1>9, <1>10
  <2> HIDE DEF a, b
  <2>4. at + 1 # at + 2 /\ at # at + 1 /\ at # at + 2 /\ at + 2 \in D
    BY <1>2, <1>9
  <2> HIDE DEF D
  <2>5. /\ new \in [D -> Bytes] /\ new[at + 1] = a /\ new[at + 2] = b
        /\ \A i \in D : i # at + 1 /\ i # at + 2 => new[i] = fat[i]
    BY <1>2, <1>11, <2>1, <2>2, <2>4, Zenon
  <2>8. new[at] = x
    BY <1>2, <1>10, <2>4, <2>5, Zenon
  <2>6. GetEntry(new, n) = t
    <3>1. n + n \div 2 = at + 1 /\ n % 2 # 0 /\ at + 1 + 1 = at + 2
      BY <1>2, <1>3, <1>9 DEF p, D
    <3> QED
      BY <1>6, <2>1, <2>5, <3>1, Zenon
  <2>7. ASSUME NEW m \in 0 .. (n - 1) PROVE GetEntry(new, m) = GetEntry(fat, m)
    <3>1. CASE m = 2 * p
      <4>1. GetEntry(new, m) = GetEven(x, a)
        BY <1>6, <2>3, <2>5, <2>8, <3>1, Zenon
      <4>2. GetEntry(fat, m) = GetEven(x, y)
        BY <1>6, <1>10, <2>3, <3>1, Zenon
      <4> QED
        BY <2>1, <4>1, <4>2, Zenon
    <3>2. CASE m # 2 * p
      <4> DEFINE k == m + m \div 2
      <4>1. k \in 0 .. (at - 1) /\ k + 1 \in 0 .. (at - 1)
        BY <2>3, <3>2
      <4> HIDE DEF k
      <4>2. /\ k \in D /\ k # at + 1 /\ k # at + 2
            /\ k + 1 \in D /\ k + 1 # at + 1 /\ k + 1 # at + 2
        BY <1>2, <4>1 DEF D
      <4>3. new[k] = fat[k] /\ new[k + 1] = fat[k + 1]
        BY <2>5, <4>2, Zenon
      <4> QED
        BY <1>6, <4>3, Zenon DEF k
    <3> QED
      BY <3>1, <3>2
  <2> QED
    BY <1>4, <2>5, <2>6, <2>7, Zenon DEF new
<1> QED
  BY <1>1, <1>8, <1>9

\* The FAT of the disk has the entries Prepare computes.
LEMMA FatTable ==
  \A m \in 0 .. LastCluster : GetEntry(Fat, m) = EntryOf(m)
<1> DEFINE n == LastCluster + 1
           zeros == [b \in 0 .. (FatBytes - 1) |-> 0]
           Writes(f) == [k \in 0 .. n |-> IF k = 0 THEN zeros ELSE PutEntry(f[k - 1], k - 1, EntryOf(k - 1))]
           step == [k \in 1 .. n |-> [f \in Tables |-> PutEntry(f, k - 1, EntryOf(k - 1))]]
           s == CHOOSE f : f = Writes(f)
<1>1. n \in Nat /\ zeros \in Tables
  BY ClusterCount DEF Tables, Bytes
<1>2. \A k \in 1 .. n : k - 1 \in 0 .. LastCluster /\ k - 1 \in 0 .. n /\ (k - 1) \in Nat
  BY ClusterCount
<1>3. \A k \in 1 .. n : Fits(k - 1) /\ EntryOf(k - 1) \in Entries
  BY <1>2, ClusterCount
<1>4. \A k \in 1 .. n, f \in Tables : PutEntry(f, k - 1, EntryOf(k - 1)) \in Tables
  BY <1>3, PutThenGet, Zenon
<1>5. step \in [1 .. n -> [Tables -> Tables]]
  <2> HIDE DEF n
  <2> QED
    BY <1>4, Zenon
<1>6. PICK f \in [0 .. n -> Tables] : Follows(f, n, zeros, step)
  <2> HIDE DEF step, zeros, n
  <2> QED
    BY <1>1, <1>5, Recursion
<1>7. \A k \in 1 .. n : step[k][f[k - 1]] = PutEntry(f[k - 1], k - 1, EntryOf(k - 1))
  <2>2. \A k \in 1 .. n : f[k - 1] \in Tables
    BY <1>6, <1>2
  <2> HIDE DEF n
  <2> QED
    BY <2>2, Zenon
<1>8. f = Writes(f)
  <2>1. f = [k \in 0 .. n |-> IF k = 0 THEN zeros ELSE step[k][f[k - 1]]]
    BY <1>6 DEF Follows
  <2>2. \A k \in 0 .. n : k # 0 => k \in 1 .. n
    BY <1>1
  <2> HIDE DEF step, zeros, n
  <2> QED
    BY <1>7, <2>1, <2>2, Zenon
<1>9. s = Writes(s)
  BY <1>8, Zenon
<1>10. Fat = s[n]
  BY DEF Fat
<1> HIDE DEF s, zeros
<1>11. s[0] = zeros /\ \A k \in 1 .. n : s[k] = PutEntry(s[k - 1], k - 1, EntryOf(k - 1))
  <2>1. 0 \in 0 .. n /\ \A k \in 1 .. n : k \in 0 .. n /\ k # 0
    BY <1>1
  <2> HIDE DEF n
  <2> QED
    BY <1>9, <2>1
<1> DEFINE Claim(k) == s[k] \in Tables /\ \A m \in 0 .. (k - 1) : GetEntry(s[k], m) = EntryOf(m)
           Bad == {k \in 0 .. n : ~ Claim(k)}
<1>12. Claim(n)
  <2>1. SUFFICES ASSUME Bad # {} PROVE FALSE
    BY <1>1
  <2>2. PICK k \in Bad : \A j \in Bad : k <= j
    <3>1. Bad \subseteq Nat
      BY <1>1
    <3> HIDE DEF Bad
    <3> QED
      BY <2>1, <3>1, LeastElement
  <2>3. k # 0
    <3>1. Claim(0)
      BY <1>1, <1>11
    <3> QED
      BY <2>2, <3>1
  <2>4. k \in 1 .. n /\ k - 1 \in 0 .. n /\ ~(k <= k - 1)
    BY <1>1, <2>2, <2>3
  <2>5. Claim(k - 1)
    <3> HIDE DEF Claim
    <3> QED
      BY <2>2, <2>4
  <2>6. s[k] = PutEntry(s[k - 1], k - 1, EntryOf(k - 1))
    BY <1>11, <2>4
  <2>7. /\ s[k] \in Tables /\ GetEntry(s[k], k - 1) = EntryOf(k - 1)
        /\ \A m \in 0 .. ((k - 1) - 1) : GetEntry(s[k], m) = GetEntry(s[k - 1], m)
    <3>1. s[k - 1] \in Tables /\ Fits(k - 1) /\ EntryOf(k - 1) \in Entries
      BY <1>3, <2>4, <2>5
    <3> HIDE DEF n
    <3> QED
      BY <2>6, <3>1, PutThenGet
  <2>8. \A m \in 0 .. (k - 1) : m = k - 1 \/ m \in 0 .. ((k - 1) - 1)
    BY <2>4
  <2>9. Claim(k)
    BY <2>5, <2>7, <2>8, Zenon
  <2> QED
    BY <2>2, <2>9
<1>13. 0 .. LastCluster = 0 .. (n - 1)
  BY ClusterCount
<1> QED
  BY <1>10, <1>12, <1>13

-----------------------------------------------------------------------------
(* The clusters of the file                                               *)

\* A host finds the clusters of the file one after the other.
LEMMA Chain == \A k \in 0 .. (Clusters - 1) : ClusterOf[k] = ImageStart + k
<1> DEFINE D == 0 .. (Clusters - 1)
           Finds(f) == [k \in D |-> IF k = 0 THEN ImageStart ELSE GetEntry(Fat, f[k - 1])]
           g == [k \in D |-> ImageStart + k]
<1>1. \A k \in D : k # 0 => k - 1 \in D /\ ~(k <= k - 1)
  BY ClusterCount
<1>2. \A k \in D : k # 0 => GetEntry(Fat, ImageStart + (k - 1)) = ImageStart + k
  <2>1. SUFFICES ASSUME NEW k \in D, k # 0
                 PROVE  GetEntry(Fat, ImageStart + (k - 1)) = ImageStart + k
    OBVIOUS
  <2> DEFINE m == ImageStart + (k - 1)
  <2>2. m \in 0 .. LastCluster /\ m \notin {0, 1, IndexStart, LastCluster} /\ m + 1 = ImageStart + k
    BY <2>1, ClusterCount DEF ImageStart, IndexStart
  <2>3. GetEntry(Fat, m) = EntryOf(m)
    BY <2>2, FatTable, Zenon
  <2> HIDE DEF m
  <2>4. EntryOf(m) = m + 1
    BY <2>2 DEF EntryOf
  <2> QED
    BY <2>2, <2>3, <2>4 DEF m
<1>3. g = Finds(g)
  <2>1. \A k \in D : k # 0 => g[k - 1] = ImageStart + (k - 1)
    BY <1>1
  <2>2. ImageStart + 0 = ImageStart
    BY DEF ImageStart
  <2> HIDE DEF D
  <2>3. \A k \in D : ImageStart + k = IF k = 0 THEN ImageStart ELSE GetEntry(Fat, g[k - 1])
    BY <1>2, <2>1, <2>2
  <2> QED
    BY <2>3, Zenon
<1>4. ClusterOf = CHOOSE f : f = Finds(f)
  BY DEF ClusterOf
<1>5. ClusterOf = Finds(ClusterOf)
  <2> HIDE DEF g
  <2> QED
    BY <1>3, <1>4, Zenon
<1>6. \A k \in D : ClusterOf[k] = IF k = 0 THEN ImageStart ELSE GetEntry(Fat, ClusterOf[k - 1])
  <2> HIDE DEF D
  <2> QED
    BY <1>5, Zenon
<1> DEFINE Bad == {k \in D : ClusterOf[k] # ImageStart + k}
<1>7. SUFFICES ASSUME Bad # {} PROVE FALSE
  OBVIOUS
<1>8. PICK k \in Bad : \A j \in Bad : k <= j
  <2>1. Bad \subseteq Nat
    BY ClusterCount
  <2> HIDE DEF Bad
  <2> QED
    BY <1>7, <2>1, LeastElement
<1>9. k # 0
  BY <1>6, <1>8 DEF ImageStart
<1>10. ClusterOf[k - 1] = ImageStart + (k - 1)
  BY <1>1, <1>8, <1>9
<1>11. ClusterOf[k] = ImageStart + k
  <2>1. k \in D
    BY <1>8
  <2> HIDE DEF D
  <2> QED
    BY <1>2, <1>6, <1>9, <1>10, <2>1, Zenon
<1> QED
  BY <1>8, <1>11

-----------------------------------------------------------------------------
(* Where the words of the file are *)

LEMMA Products ==
  ASSUME NEW a \in Int, NEW b \in Int, NEW c \in Nat \ {0}
  PROVE  /\ a * c \in Int /\ (a + 1) * c = a * c + c /\ (a - 1) * c = a * c - c
         /\ a <= b => a * c <= b * c
         /\ a * c < b * c => a < b
<1>1. a * c \in Int /\ (a + 1) * c = a * c + c /\ (a - 1) * c = a * c - c
  OBVIOUS
<1>2. ASSUME NEW x \in Int, NEW y \in Int, x <= y PROVE x * c <= y * c
  <2>1. (y - x) * c >= 0 /\ (y - x) * c = y * c - x * c
    BY <1>2
  <2> QED
    BY <1>2, <2>1
<1> QED
  BY <1>1, <1>2

LEMMA DivMod ==
  ASSUME NEW a \in Int, NEW c \in Nat \ {0}
  PROVE  a \div c \in Int /\ a % c \in 0 .. (c - 1) /\ a = (a \div c) * c + (a % c)
OBVIOUS

\* A number below n blocks of c is in one of the blocks.
LEMMA InBlock ==
  ASSUME NEW c \in Nat \ {0}, NEW n \in Nat, NEW a \in 0 .. (n * c - 1)
  PROVE  a \div c \in 0 .. (n - 1)
<1> DEFINE q == a \div c  r == a % c
<1>1. q \in Int /\ r \in 0 .. (c - 1) /\ a = q * c + r /\ n * c \in Int
  <2>1. n * c \in Int
    OBVIOUS
  <2> QED
    BY <2>1, DivMod
<1> HIDE DEF q, r
<1>2. q * c \in Int /\ (q + 1) * c = q * c + c /\ 0 * c = 0
  BY <1>1, Products
<1>3. q < n
  BY <1>1, <1>2, Products
<1>4. 0 < q + 1
  <2>1. 0 * c < (q + 1) * c /\ q + 1 \in Int
    BY <1>1, <1>2
  <2> QED
    BY <2>1, Products
<1> QED
  BY <1>1, <1>3, <1>4 DEF q

\* The memory of the file, in words and in bytes.
LEMMA Sizes ==
  /\ BlockWords \in Nat \ {0} /\ Cells \in Nat \ {0} /\ FullSize = 4 * Cells /\ FullSize < W
  /\ Cells = (2 * Clusters) * BlockWords
<1>1. BlockWords \in Nat \ {0} /\ Clusters \in Nat \ {0} /\ FullSize < W
  BY ServiceAssumption, ClusterCount
<1>2. Clusters * ClusterBlocks = 2 * Clusters
  BY <1>1 DEF ClusterBlocks
<1> DEFINE n == 2 * Clusters
<1>3. Cells = n * BlockWords
  BY <1>2 DEF Cells
<1>4. n \in Nat \ {0}
  BY <1>1
<1> HIDE DEF n
<1>5. n * BlockWords \in Nat \ {0}
  BY <1>1, <1>4
<1> QED
  BY <1>1, <1>3, <1>5 DEF FullSize, n

\* Read and Write take the clusters the host finds for the words of the file
\* in their order.
LEMMA InOrder == \A i \in 1 .. Cells : CellOf(i) = i
<1> SUFFICES ASSUME NEW i \in 1 .. Cells PROVE CellOf(i) = i
  OBVIOUS
<1> DEFINE b == (i - 1) \div BlockWords
           r == (i - 1) % BlockWords
           n == 2 * Clusters
           k == b \div 2
<1>1. BlockWords \in Nat \ {0} /\ Clusters \in Nat \ {0} /\ n \in Nat /\ Cells = n * BlockWords
  BY Sizes, ClusterCount
<1>2. i \in Int /\ i - 1 \in Int /\ i - 1 \in 0 .. (n * BlockWords - 1)
  BY <1>1, Sizes
<1>3. b \in 0 .. (n - 1) /\ r \in 0 .. (BlockWords - 1) /\ i - 1 = b * BlockWords + r
  <2> HIDE DEF n
  <2>1. b \in 0 .. (n - 1)
    BY <1>1, <1>2, InBlock
  <2> QED
    BY <1>1, <1>2, <2>1, DivMod
<1> HIDE DEF b, r
<1>4. k \in 0 .. (Clusters - 1) /\ b = 2 * k + (b % 2)
  BY <1>1, <1>3
<1>5. ClusterOf[b \div ClusterBlocks] = ImageStart + k
  BY <1>4, Chain DEF ClusterBlocks
<1> HIDE DEF k, n
<1>6. BlockOf(i) = ((ImageStart + k) - 2) * 2 + 4 + (b % 2)
  <2>1. BlockOf(i) = (ClusterOf[b \div ClusterBlocks] - 2) * ClusterBlocks + Pt0 + (b % ClusterBlocks)
    BY Zenon DEF BlockOf, b
  <2>2. ClusterOf[b \div ClusterBlocks] - 2 = (ImageStart + k) - 2
    BY <1>5, Zenon
  <2>3. BlockOf(i) = ((ImageStart + k) - 2) * ClusterBlocks + Pt0 + (b % ClusterBlocks)
    BY <2>1, <2>2, Zenon
  <2> QED
    BY <2>3 DEF ClusterBlocks, Pt0
<1>7. BlockOf(i) = b + 6
  BY <1>3, <1>4, <1>6 DEF ImageStart, n
<1>8. Pt2 = 6
  BY DEF Pt2, ImageStart, ClusterBlocks, Pt0
<1>9. b \in Int /\ b + 6 - 6 = b
  BY <1>1, <1>3 DEF n
<1>10. CellOf(i) = b * BlockWords + r + 1
  BY <1>7, <1>8, <1>9 DEF CellOf, r
<1>11. b * BlockWords \in Int
  BY <1>1, <1>9
<1> QED
  BY <1>2, <1>3, <1>10, <1>11, <1>1

-----------------------------------------------------------------------------
(* Packing *)

\* A file of n words that UserCheck accepts.
IsImage(w, n) ==
  /\ n \in CheckAt .. Cells /\ w \in [1 .. n -> Words]
  /\ w[MagicAt] = Magic /\ w[SizeAt] = 4 * n /\ SumTo(w, n) = 0

\* The places of the descriptor in an image, and the words in it.
LEMMA Numbers ==
  /\ W \in Nat \ {0} /\ Desc \in Nat /\ Magic \in Words \ {0} /\ Junk \in Words /\ Junk # Magic
  /\ MagicAt = Desc + 1 /\ SizeAt = Desc + 2 /\ CheckAt = Desc + 3
  /\ ConnMax \in Nat \ {0} /\ MaxConn \in Nat \ {0}
<1>1. W \in Nat \ {0} /\ Magic \in 1 .. (W - 1) /\ Magic # Junk
  BY ServiceAssumption
<1>2. W > 1
  BY <1>1
<1>4. FullSize < W /\ FullSize \in Nat /\ FullSize >= 4
  BY Sizes
<1> QED
  BY <1>1, <1>4, ServiceAssumption DEF Words, Junk, MagicAt, SizeAt, CheckAt

\* A source is longer than its descriptor and shorter than the memory.
LEMMA SourceWords ==
  ASSUME NEW i \in Sources
  PROVE  LET w == Images[i].words
             l == Len(w)
         IN  /\ w \in [1 .. l -> Words] /\ l \in Nat /\ CheckAt <= l /\ l < Cells
             /\ Images[i].bytes \in (4 * l - 3) .. (4 * l)
<1>1. /\ Images[i].words \in Seq(Words)
      /\ CheckAt <= Len(Images[i].words) /\ Len(Images[i].words) < Cells
      /\ Images[i].bytes \in (4 * Len(Images[i].words) - 3) .. (4 * Len(Images[i].words))
  BY ServiceAssumption DEF Words, Sources
<1> QED
  BY <1>1, LenProperties

\* The words of a file are padded to pairs.
LEMMA Padding ==
  ASSUME NEW l \in Nat, l > 0, NEW b \in (4 * l - 3) .. (4 * l)
  PROVE  2 * ((b + 7) \div 8) \in {l, l + 1}
<1> DEFINE h == l \div 2
<1>1. h \in Nat /\ (l = 2 * h \/ l = 2 * h + 1)
  OBVIOUS
<1> HIDE DEF h
<1>2. CASE l = 2 * h
  <2>1. (b + 7) \div 8 = h
    BY <1>1, <1>2
  <2> QED
    BY <1>1, <1>2, <2>1
<1>3. CASE l = 2 * h + 1
  <2>1. (b + 7) \div 8 = h + 1
    BY <1>1, <1>3
  <2> QED
    BY <1>1, <1>3, <2>1
<1> QED
  BY <1>1, <1>2, <1>3

\* The word FwCheck puts at the end makes the sum 0.
LEMMA Complement ==
  ASSUME NEW s \in Words
  PROVE  (W - s) % W \in Words /\ (s + ((W - s) % W)) % W = 0
<1>1. W \in Nat \ {0} /\ s \in Nat /\ s < W
  BY Modulus DEF Words
<1>2. CASE s = 0
  <2>1. (W - s) % W = 0 /\ (0 + 0) % W = 0
    BY <1>1, <1>2
  <2> QED
    BY <1>1, <1>2, <2>1 DEF Words
<1>3. CASE s # 0
  <2> DEFINE d == W - s
  <2>1. d \in Words
    BY <1>1, <1>3 DEF Words
  <2>2. d % W = d
    BY <1>1, <2>1 DEF Words
  <2>3. s + d = W /\ W % W = 0
    BY <1>1
  <2> QED
    BY <2>1, <2>2, <2>3
<1> QED
  BY <1>2, <1>3

\* What FwCheck makes of a source it does not refuse.
LEMMA PackRight ==
  ASSUME NEW i \in Sources, Pack(Images[i]) # NoImage
  PROVE  \E n \in CheckAt .. Cells : IsImage(Pack(Images[i]), n)
<1> DEFINE src == Images[i]
           l == Len(src.words)
           n == 2 * ((src.bytes + 7) \div 8)
           w == [k \in 1 .. n |-> IF k <= l THEN src.words[k] ELSE 0]
           s == [w EXCEPT ![SizeAt] = 4 * n, ![CheckAt] = 0]
           x == (W - SumTo(s, n)) % W
           p == [s EXCEPT ![CheckAt] = x]
<1>1. src.words[MagicAt] = Magic /\ Pack(src) = p
  BY DEF Pack
<1>2. /\ src.words \in [1 .. l -> Words] /\ l \in Nat /\ CheckAt <= l /\ l < Cells
      /\ src.bytes \in (4 * l - 3) .. (4 * l)
  BY SourceWords
<1> HIDE DEF src
<1>3. n \in {l, l + 1}
  <2> DEFINE b == src.bytes
  <2> HIDE DEF l, b
  <2>1. l \in Nat /\ l > 0 /\ b \in (4 * l - 3) .. (4 * l)
    BY <1>2, Numbers DEF b
  <2>2. 2 * ((b + 7) \div 8) \in {l, l + 1}
    BY <2>1, Padding
  <2> QED
    BY <2>2 DEF b
<1> HIDE DEF l, n
<1>4. n \in CheckAt .. Cells /\ n \in Nat
  BY <1>2, <1>3, Sizes, Numbers
<1>5. /\ MagicAt \in 1 .. n /\ SizeAt \in 1 .. n /\ CheckAt \in 1 .. n
      /\ MagicAt # SizeAt /\ MagicAt # CheckAt /\ SizeAt # CheckAt
  BY <1>4, Numbers
<1>6. 0 \in Words /\ 4 * n \in Words
  BY <1>4, Sizes, Numbers DEF Words
<1>7. w \in [1 .. n -> Words] /\ w[MagicAt] = Magic
  <2>1. \A k \in 1 .. n : k <= l => src.words[k] \in Words
    BY <1>2, <1>4
  <2>2. MagicAt <= l
    BY <1>2, Numbers
  <2> QED
    BY <1>1, <1>5, <1>6, <2>1, <2>2
<1> HIDE DEF w
<1>8. /\ s \in [1 .. n -> Words] /\ s[SizeAt] = 4 * n /\ s[CheckAt] = 0
      /\ \A k \in 1 .. n : k # SizeAt /\ k # CheckAt => s[k] = w[k]
  BY <1>5, <1>6, <1>7, Updated
<1>9. s[MagicAt] = Magic
  BY <1>5, <1>7, <1>8
<1> HIDE DEF s
<1>10. AreWords(s, n)
  BY <1>8 DEF AreWords
<1>11. SumTo(s, n) \in Words
  BY <1>4, <1>10, SumSame
<1>12. x \in Words /\ (SumTo(s, n) + x) % W = 0
  BY <1>11, Complement
<1> HIDE DEF x
<1>13. /\ p \in [1 .. n -> Words] /\ p[CheckAt] = x
       /\ \A k \in 1 .. n : k # CheckAt => p[k] = s[k]
  BY <1>5, <1>8, <1>12
<1> HIDE DEF p
<1>14. SumTo(p, n) = (SumTo(s, n) + x) % W
  BY <1>4, <1>5, <1>8, <1>10, <1>12, <1>13, SumPut
<1>15. p[MagicAt] = Magic /\ p[SizeAt] = 4 * n
  BY <1>5, <1>8, <1>9, <1>13
<1>16. IsImage(p, n)
  BY <1>4, <1>12, <1>13, <1>14, <1>15 DEF IsImage
<1> QED
  BY <1>1, <1>4, <1>16 DEF src

\* Memory that begins with an image passes the check, whatever comes behind.
LEMMA CheckPasses ==
  ASSUME NEW n \in CheckAt .. Cells, NEW v, IsImage(v, n),
         NEW m \in [1 .. Cells -> Words], \A i \in 1 .. n : m[i] = v[i]
  PROVE  UserCheck(m) # 0
<1>1. n \in Nat \ {0} /\ SizeAt \in 1 .. n /\ MagicAt \in 1 .. n
  BY Numbers, Sizes
<1>2. m[SizeAt] = 4 * n /\ m[MagicAt] = Magic
  BY <1>1 DEF IsImage
<1>3. SumTo(m, n) = 0
  <2>1. AreWords(v, n) /\ SumTo(v, n) = 0
    BY DEF AreWords, IsImage
  <2> QED
    BY <1>1, <2>1, SumSame
<1>4. (4 * n) \div 4 = n /\ 4 * n # 0
  BY <1>1
<1> QED
  BY <1>1, <1>2, <1>3, <1>4 DEF UserCheck

-----------------------------------------------------------------------------
(* The device *)

\* A length in bytes is that of a number of words.
LEMMA LengthWords ==
  ASSUME NEW s \in Lengths
  PROVE  /\ s \div 4 \in CheckAt .. Cells /\ s \div 4 \in Nat \ {0} /\ s = 4 * (s \div 4)
         /\ s \in 1 .. FullSize
<1>1. PICK n \in CheckAt .. Cells : s = 4 * n
  BY DEF Lengths
<1>2. n \in Nat \ {0} /\ Cells \in Nat
  BY Numbers, Sizes
<1>3. (4 * n) \div 4 = n
  BY <1>2
<1> QED
  BY <1>1, <1>2, <1>3, Sizes

\* The fields of the descriptor are in every image.
LEMMA Fields ==
  ASSUME NEW n \in CheckAt .. Cells
  PROVE  /\ n \in Nat \ {0} /\ MagicAt \in 1 .. n /\ SizeAt \in 1 .. n
         /\ 4 * n \in Lengths /\ 1 .. n \subseteq 1 .. Cells
BY Numbers, Sizes DEF Lengths

\* What UserCheck answers to a memory in which an image has a size that fits.
LEMMA CheckIs ==
  ASSUME NEW m, Headed(m, FullSize)
  PROVE  /\ UserCheck(m) # 0 <=> Passes(m)
         /\ UserCheck(m) \in {0} \cup Lengths
         /\ UserCheck(m) # 0 => UserCheck(m) = m[SizeAt]
<1>1. CASE m[MagicAt] = Magic
  <2>1. m[SizeAt] \in Lengths
    BY <1>1 DEF Headed
  <2>2. m[SizeAt] # 0 /\ m[SizeAt] \div 4 # 0
    BY <2>1, LengthWords
  <2> QED
    BY <1>1, <2>1, <2>2 DEF UserCheck, Passes
<1>2. CASE m[MagicAt] # Magic
  BY <1>2 DEF UserCheck, Passes
<1> QED
  BY <1>1, <1>2

\* The same words in front, the same verdict.
LEMMA SameWords ==
  ASSUME NEW n \in CheckAt .. Cells, NEW v, NEW m,
         \A i \in 1 .. n : v[i] \in Words /\ m[i] = v[i], Headed(v, 4 * n)
  PROVE  Headed(m, 4 * n) /\ (Passes(v) => Passes(m))
<1>1. m[MagicAt] = v[MagicAt] /\ m[SizeAt] = v[SizeAt]
  BY Fields
<1>2. ASSUME Passes(v) PROVE Passes(m)
  <2> DEFINE k == v[SizeAt] \div 4
  <2>1. v[SizeAt] \in Lengths /\ v[SizeAt] <= 4 * n
    BY <1>2 DEF Passes, Headed
  <2>2. k \in Nat /\ k <= n
    BY <2>1, LengthWords, Fields
  <2> HIDE DEF k
  <2>3. \A i \in 1 .. k : i \in 1 .. n
    BY <2>2, Fields
  <2>4. AreWords(v, k) /\ \A i \in 1 .. k : m[i] = v[i]
    BY <2>3 DEF AreWords
  <2>5. SumTo(m, k) = SumTo(v, k)
    BY <2>2, <2>4, SumSame
  <2> QED
    BY <1>1, <1>2, <2>5 DEF Passes, k
<1> QED
  BY <1>1, <1>2 DEF Headed

\* Each action keeps the invariant.
LEMMA ResetKeeps == Inv /\ Reset => Inv'
<1> SUFFICES ASSUME Inv, Reset PROVE Inv'
  OBVIOUS
<1>1. UserCheck(memory) \in {0} \cup Lengths
  BY CheckIs DEF Inv, DeviceInv
<1>2. FullSize \in Lengths
  BY Sizes, Numbers, ServiceAssumption DEF Lengths
<1>3. /\ size' = UserCheck(memory) /\ dirsize' = FullSize /\ mode' \in {"loader", "user"}
      /\ memory' = memory /\ holds' = holds /\ server' = server /\ forms' = forms /\ file' = file
  BY DEF Reset
<1>4. DeviceInv'
  BY <1>1, <1>2, <1>3 DEF Inv, DeviceInv, Headed, Passes
<1>5. FileInv' /\ ServerInv'
  BY <1>3 DEF Inv, FileInv, ServerInv, Whole, Headed, Passes, server
<1> QED
  BY <1>4, <1>5 DEF Inv

\* The words a copy brings, as long as the file.
LEMMA Decrypted ==
  ASSUME NEW n \in CheckAt .. Cells, file.words \in [1 .. n -> Words], Headed(file.words, 4 * n),
         NEW w, w = Decrypt(LoaderKey(Uuid), file)
  PROVE  /\ Len(file.words) = n /\ w \in [1 .. n -> Words] /\ Headed(w, 4 * n)
         /\ file.key = LoaderKey(Uuid) => w = file.words
<1>1. n \in Nat /\ MagicAt \in 1 .. n
  BY Fields
<1>2. Len(file.words) = n
  <2>1. file.words \in Seq(Words)
    BY <1>1, SeqDef
  <2>2. 1 .. n = 1 .. Len(file.words) /\ Len(file.words) \in Nat
    BY <2>1, LenProperties
  <2> QED
    BY <1>1, <2>2
<1>3. CASE file.key = LoaderKey(Uuid)
  BY <1>2, <1>3 DEF Decrypt
<1>4. CASE file.key # LoaderKey(Uuid)
  <2>1. w = [i \in 1 .. n |-> Junk]
    BY <1>2, <1>4 DEF Decrypt
  <2> QED
    BY <1>1, <1>2, <1>4, <2>1, Numbers DEF Headed
<1> QED
  BY <1>3, <1>4

LEMMA CopyKeeps == Inv /\ Copy => Inv'
<1> SUFFICES ASSUME Inv, Copy PROVE Inv'
  OBVIOUS
<1>1. mode = "loader" /\ file # NoFile /\ file.what \in {"backup", "cut", "download", "foreign"}
  BY DEF Copy, Inv, FileInv
<1>2. PICK n \in CheckAt .. Cells :
        /\ file.words \in [1 .. n -> Words] /\ Headed(file.words, 4 * n)
        /\ file.what = "backup" => file.key = LoaderKey(Uuid) /\ Passes(file.words)
  BY <1>1 DEF Inv, FileInv, Whole
<1> DEFINE w == Decrypt(LoaderKey(Uuid), file)
           taken == {CellOf(i) : i \in DOMAIN w}
<1>3. /\ Len(file.words) = n /\ w \in [1 .. n -> Words] /\ Headed(w, 4 * n)
      /\ file.key = LoaderKey(Uuid) => w = file.words
  BY <1>2, Decrypted
<1>4. n \in Nat \ {0} /\ 4 * n \in Lengths /\ 1 .. n \subseteq 1 .. Cells
  BY Fields
<1>5. PICK rest \in {memory, [i \in 1 .. Cells |-> Junk]} :
        memory' = [m \in 1 .. Cells |->
                     IF m \in taken THEN w[CHOOSE i \in DOMAIN w : CellOf(i) = m] ELSE rest[m]]
  BY DEF Copy
<1>6. rest \in [1 .. Cells -> Words]
  BY Numbers DEF Inv, DeviceInv
<1>7. /\ dirsize' = 4 * n /\ holds' = file.what
      /\ size' = size /\ mode' = mode /\ server' = server /\ forms' = forms /\ file' = file
  BY <1>3 DEF Copy
<1>8. DOMAIN w = 1 .. n
  BY <1>3
<1> HIDE DEF w
<1>9. taken = 1 .. n
  BY <1>4, <1>8, InOrder
<1>10. \A m \in 1 .. n : (CHOOSE i \in DOMAIN w : CellOf(i) = m) = m
  <2> SUFFICES ASSUME NEW m \in 1 .. n PROVE (CHOOSE i \in DOMAIN w : CellOf(i) = m) = m
    OBVIOUS
  <2>1. CellOf(m) = m /\ \A i \in 1 .. n : CellOf(i) = m => i = m
    BY <1>4, InOrder
  <2> QED
    BY <1>8, <2>1
<1> HIDE DEF taken
<1>11. \A m \in 1 .. Cells : memory'[m] = IF m \in 1 .. n THEN w[m] ELSE rest[m]
  BY <1>5, <1>9, <1>10
<1>12. memory' \in [1 .. Cells -> Words]
  <2>1. \A m \in 1 .. Cells : memory'[m] \in Words
    BY <1>3, <1>6, <1>11
  <2>2. DOMAIN memory' = 1 .. Cells /\ memory' = [m \in 1 .. Cells |-> memory'[m]]
    BY <1>5
  <2> QED
    BY <2>1, <2>2
<1>13. Headed(memory', 4 * n) /\ (Passes(w) => Passes(memory'))
  <2>1. \A i \in 1 .. n : w[i] \in Words /\ memory'[i] = w[i]
    BY <1>3, <1>4, <1>11
  <2> QED
    BY <1>3, <2>1, SameWords
<1>14. Headed(memory', FullSize)
  BY <1>13, LengthWords DEF Headed
<1>15. file.what = "backup" => Passes(memory')
  BY <1>2, <1>3, <1>13
<1>16. DeviceInv'
  <2>1. Headed(memory', dirsize') /\ dirsize' \in Lengths
    BY <1>4, <1>7, <1>13
  <2>2. /\ (Headed(memory, dirsize))' = Headed(memory', dirsize')
        /\ (Headed(memory, FullSize))' = Headed(memory', FullSize)
        /\ (Passes(memory))' = Passes(memory')
    BY DEF Headed, Passes
  <2> QED
    BY <1>1, <1>7, <1>12, <1>14, <1>15, <2>1, <2>2 DEF Inv, DeviceInv
<1>17. FileInv' /\ ServerInv'
  BY <1>7 DEF Inv, FileInv, ServerInv, Whole, Headed, Passes, server
<1> QED
  BY <1>16, <1>17 DEF Inv

\* Words in front of image_size can be read back: their packet begins there.
LEMMA Readable ==
  ASSUME NEW i \in 1 .. Cells, NEW s \in Int, 4 * i <= s
  PROVE  4 * BlockWords * ((i - 1) \div BlockWords) < s
<1> DEFINE q == (i - 1) \div BlockWords
           r == (i - 1) % BlockWords
<1>1. BlockWords \in Nat \ {0} /\ i - 1 \in Int
  BY Sizes
<1>2. q \in Int /\ r \in Nat /\ i - 1 = q * BlockWords + r
  BY <1>1, DivMod
<1> HIDE DEF q, r
<1>3. 4 * BlockWords * q = 4 * (q * BlockWords) /\ q * BlockWords \in Int
  BY <1>1, <1>2
<1>4. q * BlockWords <= i - 1
  BY <1>2, <1>3
<1> QED
  BY <1>3, <1>4 DEF q

LEMMA ReadBackKeeps == Inv /\ ReadBack => Inv'
<1> SUFFICES ASSUME Inv, ReadBack PROVE Inv'
  OBVIOUS
<1>1. /\ mode = "loader" /\ device' = device /\ server' = server /\ forms' = forms
      /\ file' = [key   |-> LoaderKey(Uuid),
                  words |-> [i \in 1 .. (dirsize \div 4) |-> FileWord(i)],
                  what  |-> IF UserCheck(memory) \in 1 .. size THEN "backup" ELSE "cut"]
  BY DEF ReadBack
<1>2. /\ memory \in [1 .. Cells -> Words] /\ size \in {0} \cup Lengths /\ dirsize \in Lengths
      /\ Headed(memory, dirsize) /\ Headed(memory, FullSize)
  BY <1>1 DEF Inv, DeviceInv
<1> DEFINE n == dirsize \div 4
           w == [i \in 1 .. n |-> FileWord(i)]
<1>3. n \in CheckAt .. Cells /\ dirsize = 4 * n
  BY <1>2, LengthWords
<1> HIDE DEF n
<1>4. n \in Nat \ {0} /\ 1 .. n \subseteq 1 .. Cells /\ MagicAt \in 1 .. n /\ SizeAt \in 1 .. n
  BY <1>3, Fields
<1>5. \A i \in 1 .. n : /\ FileWord(i) \in {memory[i], Junk}
                        /\ 4 * i <= size => FileWord(i) = memory[i]
  <2> SUFFICES ASSUME NEW i \in 1 .. n
               PROVE  /\ FileWord(i) \in {memory[i], Junk}
                      /\ 4 * i <= size => FileWord(i) = memory[i]
    OBVIOUS
  <2>1. CellOf(i) = i /\ i \in 1 .. Cells
    BY <1>4, InOrder
  <2>2. size \in Int
    BY <1>2, LengthWords
  <2>3. 4 * i <= size => 4 * BlockWords * ((i - 1) \div BlockWords) < size
    BY <2>1, <2>2, Readable
  <2>4. FileWord(i) = IF 4 * BlockWords * ((i - 1) \div BlockWords) < size THEN memory[i] ELSE Junk
    BY <2>1, Zenon DEF FileWord
  <2> QED
    BY <2>3, <2>4
<1>6. \A i \in 1 .. n : w[i] = FileWord(i)
  OBVIOUS
<1>7. w \in [1 .. n -> Words]
  BY <1>2, <1>4, <1>5, Numbers
<1> HIDE DEF w
<1>8. size = 0 => w[MagicAt] = Junk
  <2>1. SUFFICES ASSUME size = 0 PROVE FileWord(MagicAt) = Junk
    BY <1>4, <1>6
  <2>2. CellOf(MagicAt) = MagicAt /\ MagicAt \in 1 .. Cells
    BY <1>4, InOrder
  <2>3. ~(4 * BlockWords * ((MagicAt - 1) \div BlockWords) < 0)
    <3> DEFINE q == (MagicAt - 1) \div BlockWords
    <3>1. BlockWords \in Nat \ {0} /\ MagicAt - 1 \in Nat
      BY <2>2, Sizes
    <3>2. q \in Nat
      BY <3>1
    <3> HIDE DEF q
    <3>3. 4 * BlockWords * q \in Nat
      BY <3>1, <3>2
    <3> QED
      BY <3>3 DEF q
  <2> QED
    BY <2>1, <2>2, <2>3, Zenon DEF FileWord
<1>9. size # 0 => 4 * MagicAt <= size /\ 4 * SizeAt <= size
  <2>1. SUFFICES ASSUME size \in Lengths PROVE 4 * MagicAt <= size /\ 4 * SizeAt <= size
    BY <1>2
  <2>2. size = 4 * (size \div 4) /\ size \div 4 \in CheckAt .. Cells
    BY <2>1, LengthWords
  <2> QED
    BY <2>2, Numbers, Sizes
<1>10. Headed(w, 4 * n)
  <2>1. SUFFICES ASSUME w[MagicAt] = Magic PROVE w[SizeAt] \in Lengths /\ w[SizeAt] <= 4 * n
    BY DEF Headed
  <2>2. size # 0
    BY <1>8, <2>1, Numbers
  <2>3. w[MagicAt] = memory[MagicAt] /\ w[SizeAt] = memory[SizeAt]
    BY <1>4, <1>5, <1>6, <1>9, <2>2
  <2> QED
    BY <1>2, <1>3, <2>1, <2>3 DEF Headed
<1>11. ASSUME UserCheck(memory) \in 1 .. size PROVE Passes(w)
  <2> DEFINE s == memory[SizeAt]
             k == s \div 4
  <2>1. UserCheck(memory) # 0 /\ size # 0
    BY <1>2, <1>11, LengthWords
  <2>2. Passes(memory) /\ s <= size
    <3>1. Passes(memory) /\ UserCheck(memory) = s
      BY <1>2, <2>1, CheckIs
    <3>2. size \in Int
      BY <1>2, LengthWords
    <3> QED
      BY <1>11, <3>1, <3>2
  <2>3. s \in Lengths /\ s <= 4 * n
    BY <1>2, <1>3, <2>2 DEF Passes, Headed
  <2>4. k \in Nat /\ s = 4 * k
    BY <2>3, LengthWords
  <2> HIDE DEF k
  <2>5. \A i \in 1 .. k : i \in 1 .. n /\ 4 * i <= size
    <3>1. size \in Int
      BY <1>2, LengthWords
    <3> QED
      BY <1>4, <2>2, <2>3, <2>4, <3>1
  <2>6. \A i \in 1 .. k : w[i] = memory[i] /\ memory[i] \in Words
    BY <1>2, <1>4, <1>5, <1>6, <2>5
  <2>7. SumTo(w, k) = SumTo(memory, k)
    <3>1. AreWords(memory, k)
      BY <2>6 DEF AreWords
    <3> QED
      BY <2>4, <2>6, <3>1, SumSame
  <2>8. w[MagicAt] = memory[MagicAt] /\ w[SizeAt] = memory[SizeAt]
    BY <1>4, <1>5, <1>6, <1>9, <2>1
  <2> QED
    BY <2>2, <2>7, <2>8 DEF Passes, k
<1>12. /\ file'.words = w /\ file'.key = LoaderKey(Uuid)
       /\ file'.what \in {"backup", "cut"}
       /\ file'.what = "backup" => UserCheck(memory) \in 1 .. size
  BY <1>1 DEF w, n
<1>13. FileInv'
  <2>1. Whole(file')
    BY <1>3, <1>7, <1>10, <1>11, <1>12 DEF Whole
  <2>2. (Whole(file))' = Whole(file')
    BY DEF Whole, Headed, Passes
  <2> QED
    BY <1>12, <2>1, <2>2 DEF FileInv
<1>14. DeviceInv' /\ ServerInv'
  BY <1>1 DEF Inv, DeviceInv, ServerInv, Headed, Passes, device, server
<1> QED
  BY <1>13, <1>14 DEF Inv

-----------------------------------------------------------------------------
(* The server *)

\* A form is there for users who have paid only.
LEMMA RequestsAre == forms \subseteq Payed => Requests \subseteq Asks
<1> SUFFICES ASSUME forms \subseteq Payed, NEW r \in Requests PROVE r \in Asks
  OBVIOUS
<1>1. Payed \subseteq Users
  BY ServiceAssumption DEF Users
<1>2. \A u \in Users : LinkOf(u) \in Links
  BY DEF Links
<1>3. CASE r \in {[kind |-> "link", link |-> LinkOf(u)] :
                    u \in Others \cup IF mode = "loader" THEN {Uuid} ELSE {}}
  <2>1. PICK u \in Users : r = [kind |-> "link", link |-> LinkOf(u)]
    BY <1>3 DEF Users
  <2> QED
    BY <1>2, <2>1 DEF Asks
<1>4. CASE r \in {[kind |-> "select", link |-> LinkOf(u), choice |-> i] :
                    u \in forms, i \in {j \in DOMAIN Images : Images[j] # Missing}}
  <2>1. PICK u \in forms, i \in Sources : r = [kind |-> "select", link |-> LinkOf(u), choice |-> i]
    BY <1>4 DEF Sources
  <2>2. LinkOf(u) \in Links
    BY <1>1, <1>2, <2>1
  <2> QED
    BY <2>1, <2>2 DEF Asks
<1>5. CASE r \in {[kind |-> "file"], NoRequest}
  BY <1>5 DEF Asks, NoRequest
<1> QED
  BY <1>3, <1>4, <1>5 DEF Requests

\* A connection gets a new state.
Conns == [st : States, req : Asks, key : Keys]

LEMMA ConnSet ==
  ASSUME NEW c \in 1 .. MaxConn, conn \in [1 .. MaxConn -> Conns], NEW r \in Conns,
         conn' = [conn EXCEPT ![c] = r],
         r.st = "form" => r.req.kind = "link" /\ UuidOf(r.req.link) \in Payed,
         \A d \in 1 .. MaxConn :
           conn[d].st = "form" => conn[d].req.kind = "link" /\ UuidOf(conn[d].req.link) \in Payed
  PROVE  /\ conn' \in [1 .. MaxConn -> Conns]
         /\ \A d \in 1 .. MaxConn :
              conn'[d].st = "form" => conn'[d].req.kind = "link" /\ UuidOf(conn'[d].req.link) \in Payed
<1>1. conn' \in [1 .. MaxConn -> Conns] /\ \A d \in 1 .. MaxConn : conn'[d] = IF d = c THEN r ELSE conn[d]
  OBVIOUS
<1> QED
  BY <1>1

\* A step of the server leaves the device and the file.
LEMMA ServerStep ==
  ASSUME Inv, NEW c \in 1 .. MaxConn, NEW r \in Conns, conn' = [conn EXCEPT ![c] = r],
         r.st = "form" => r.req.kind = "link" /\ UuidOf(r.req.link) \in Payed,
         forms' \subseteq Payed, parent' \in {"accept", "search", "gone"}, slots' \in 0 .. ConnMax,
         parent' = "accept" => slots' < ConnMax
  PROVE  ServerInv'
<1>1. conn \in [1 .. MaxConn -> Conns]
  BY DEF Inv, ServerInv, Conns
<1>2. /\ conn' \in [1 .. MaxConn -> Conns]
      /\ \A d \in 1 .. MaxConn :
           conn'[d].st = "form" => conn'[d].req.kind = "link" /\ UuidOf(conn'[d].req.link) \in Payed
  BY <1>1, ConnSet DEF Inv, ServerInv
<1> QED
  BY <1>2 DEF ServerInv, Conns

LEMMA DeviceKept == Inv /\ UNCHANGED device => DeviceInv'
BY DEF Inv, DeviceInv, Headed, Passes, device

LEMMA FileKept == Inv /\ UNCHANGED file => FileInv'
BY DEF Inv, FileInv, Whole, Headed, Passes

LEMMA ConnectKeeps == ASSUME Inv, NEW c \in 1 .. MaxConn, Connect(c) PROVE Inv'
<1>1. PICK q \in Requests : conn' = [conn EXCEPT ![c].st = "pending", ![c].req = q]
  BY DEF Connect
<1> DEFINE r == [conn[c] EXCEPT !.st = "pending", !.req = q]
<1>2. q \in Asks /\ conn[c] \in Conns
  BY RequestsAre DEF Inv, ServerInv, Conns
<1>3. r \in Conns /\ r.st = "pending" /\ conn' = [conn EXCEPT ![c] = r]
  BY <1>1, <1>2 DEF Conns, States
<1> HIDE DEF r
<1>4. ServerInv'
  BY <1>3, ServerStep DEF Connect, Inv, ServerInv
<1> QED
  BY <1>4, DeviceKept, FileKept DEF Inv, Connect

LEMMA AcceptKeeps == Inv /\ Accept => Inv'
<1> SUFFICES ASSUME Inv, Accept PROVE Inv'
  OBVIOUS
<1>1. PICK c \in 1 .. MaxConn, s \in {"served", "orphan"} :
        conn' = [conn EXCEPT ![c].st = s, ![c].key = NoKey]
  BY DEF Accept
<1> DEFINE r == [conn[c] EXCEPT !.st = s, !.key = NoKey]
<1>2. conn[c] \in Conns /\ NoKey \in Keys
  BY DEF Inv, ServerInv, Conns, Keys
<1>3. r \in Conns /\ r.st = s /\ conn' = [conn EXCEPT ![c] = r]
  BY <1>1, <1>2 DEF Conns, States
<1> HIDE DEF r
<1>4. slots' \in 0 .. ConnMax /\ parent' = "search" /\ forms' \subseteq Payed
  BY Numbers DEF Accept, Inv, ServerInv
<1>5. r.st # "form" /\ parent' \in {"accept", "search", "gone"} /\ parent' # "accept"
  BY <1>1, <1>3, <1>4
<1>6. ServerInv'
  <2> HIDE DEF Inv
  <2> QED
    BY <1>3, <1>4, <1>5, ServerStep
<1> QED
  BY <1>6, DeviceKept, FileKept DEF Inv, Accept

LEMMA ParentKeeps == Inv /\ (AcceptFails \/ NextSlot) => Inv'
<1> SUFFICES ASSUME Inv, AcceptFails \/ NextSlot PROVE Inv'
  OBVIOUS
<1>1. ServerInv'
  BY DEF Inv, ServerInv, AcceptFails, NextSlot
<1> QED
  BY <1>1, DeviceKept, FileKept DEF Inv, AcceptFails, NextSlot

\* A process that is over.
LEMMA ExitKeeps ==
  ASSUME Inv, NEW c \in 1 .. MaxConn, Exit(c), forms' \subseteq Payed, slots' = slots, parent' = parent
  PROVE  ServerInv'
<1> DEFINE r == [st |-> "closed", req |-> NoRequest, key |-> NoKey]
<1>1. r \in Conns /\ r.st = "closed" /\ conn' = [conn EXCEPT ![c] = r]
  BY DEF Conns, States, Asks, Keys, NoRequest, Exit
<1> HIDE DEF r
<1> QED
  BY <1>1, ServerStep DEF Inv, ServerInv

LEMMA MakeKeyKeeps == ASSUME Inv, NEW c \in 1 .. MaxConn, MakeKey(c) PROVE Inv'
<1> DEFINE u == UuidOf(conn[c].req.link)
<1>1. conn[c] \in Conns /\ conn[c].req.kind = "link"
  BY DEF Inv, ServerInv, Conns, MakeKey
<1>2. ServerInv'
  <2>1. CASE u \in Payed
    <3> DEFINE r == [conn[c] EXCEPT !.st = "form", !.key = LoaderKey(u)]
    <3>1. conn' = [conn EXCEPT ![c].st = "form", ![c].key = LoaderKey(u)]
      BY <2>1 DEF MakeKey
    <3>2. LoaderKey(u) \in Keys
      BY <2>1 DEF Keys
    <3> HIDE DEF u
    <3>3. /\ r \in Conns /\ conn' = [conn EXCEPT ![c] = r]
          /\ r.req = conn[c].req
      BY <1>1, <3>1, <3>2 DEF Conns, States
    <3>4. r.req.kind = "link" /\ UuidOf(r.req.link) \in Payed
      BY <1>1, <2>1, <3>3 DEF u
    <3> HIDE DEF r
    <3> QED
      BY <3>3, <3>4, ServerStep DEF MakeKey, Inv, ServerInv
  <2>2. CASE u \notin Payed
    <3>1. Exit(c)
      BY <2>2 DEF MakeKey
    <3> QED
      BY <3>1, ExitKeeps DEF MakeKey, Inv, ServerInv
  <2> QED
    BY <2>1, <2>2
<1> QED
  BY <1>2, DeviceKept, FileKept DEF Inv, MakeKey

LEMMA SendFormKeeps == ASSUME Inv, NEW c \in 1 .. MaxConn, SendForm(c) PROVE Inv'
<1>1. forms' \subseteq Payed
  BY DEF Inv, ServerInv, SendForm
<1>2. ServerInv'
  BY <1>1, ExitKeeps DEF SendForm
<1> QED
  BY <1>2, DeviceKept, FileKept DEF Inv, SendForm

LEMMA SendOtherKeeps == ASSUME Inv, NEW c \in 1 .. MaxConn, SendOther(c) PROVE Inv'
<1>1. ServerInv'
  BY ExitKeeps DEF SendOther, Inv, ServerInv
<1> QED
  BY <1>1, DeviceKept, FileKept DEF Inv, SendOther

LEMMA SendFirmwareKeeps == ASSUME Inv, NEW c \in 1 .. MaxConn, SendFirmware(c) PROVE Inv'
<1> DEFINE i == conn[c].req.choice
           w == Pack(Images[i])
<1>1. ServerInv'
  BY ExitKeeps DEF SendFirmware, Inv, ServerInv
<1>2. i \in Sources
  BY DEF SendFirmware, Inv, ServerInv, Asks
<1>3. FileInv'
  <2>1. CASE w = NoImage
    <3>1. file' = file
      BY <2>1 DEF SendFirmware
    <3> QED
      BY <3>1, FileKept
  <2>2. CASE w # NoImage
    <3>1. file' = [key |-> conn[c].key, words |-> w,
                   what |-> IF conn[c].req.link = LinkOf(Uuid) THEN "download" ELSE "foreign"]
      BY <2>2 DEF SendFirmware
    <3> HIDE DEF i
    <3>2. PICK n \in CheckAt .. Cells : IsImage(w, n)
      BY <1>2, <2>2, PackRight
    <3> HIDE DEF w
    <3>3. file'.words = w /\ file'.what \in {"download", "foreign"}
      BY <3>1
    <3>4. w \in [1 .. n -> Words] /\ Headed(w, 4 * n)
      BY <3>2, Fields DEF IsImage, Headed
    <3>5. Whole(file')
      BY <3>3, <3>4 DEF Whole
    <3>6. (Whole(file))' = Whole(file')
      BY DEF Whole, Headed, Passes
    <3> QED
      BY <3>3, <3>5, <3>6 DEF FileInv
  <2> QED
    BY <2>1, <2>2
<1> QED
  BY <1>1, <1>3, DeviceKept DEF Inv, SendFirmware

-----------------------------------------------------------------------------

LEMMA InitInv == Init => Inv
<1> SUFFICES ASSUME Init PROVE Inv
  OBVIOUS
<1>1. PICK put \in Linked \cup {NoImage} :
        /\ memory = [i \in 1 .. Cells |-> IF i <= Len(put) THEN put[i] ELSE 0]
        /\ holds = IF put = NoImage THEN "none" ELSE "linked"
  BY DEF Init
<1>2. 0 \in Words /\ Magic # 0 /\ Cells \in Nat \ {0} /\ MagicAt \in 1 .. Cells
  BY Numbers, Sizes, ServiceAssumption DEF Words
<1>3. /\ memory \in [1 .. Cells -> Words] /\ Headed(memory, FullSize)
      /\ holds = "linked" => Passes(memory)
  <2>1. CASE put = NoImage
    <3>1. memory = [i \in 1 .. Cells |-> 0]
      <4>1. Len(put) = 0
        BY <2>1 DEF NoImage
      <4> QED
        BY <1>1, <4>1
    <3> QED
      BY <1>1, <1>2, <2>1, <3>1 DEF Headed
  <2>2. CASE put # NoImage
    <3>1. PICK j \in Sources : put = Pack(Images[j])
      BY <2>2 DEF Linked, Sources
    <3>2. PICK n \in CheckAt .. Cells : IsImage(put, n)
      BY <2>2, <3>1, PackRight
    <3>3. n \in Nat \ {0} /\ 1 .. n \subseteq 1 .. Cells /\ MagicAt \in 1 .. n /\ SizeAt \in 1 .. n
          /\ 4 * n \in Lengths
      BY Fields
    <3>4. put \in [1 .. n -> Words] /\ Len(put) = n
      <4>1. put \in [1 .. n -> Words]
        BY <3>2 DEF IsImage
      <4>2. put \in Seq(Words)
        BY <3>3, <4>1, SeqDef
      <4>3. 1 .. n = 1 .. Len(put) /\ Len(put) \in Nat
        BY <4>1, <4>2, LenProperties
      <4> QED
        BY <3>3, <4>1, <4>3
    <3>5. \A i \in 1 .. n : put[i] \in Words /\ memory[i] = put[i]
      BY <1>1, <3>3, <3>4
    <3>6. Headed(put, 4 * n) /\ Passes(put)
      <4>1. (4 * n) \div 4 = n
        BY <3>3
      <4> QED
        BY <3>2, <3>3, <4>1 DEF IsImage, Headed, Passes
    <3>7. Headed(memory, 4 * n) /\ Passes(memory)
      BY <3>5, <3>6, SameWords
    <3>8. memory \in [1 .. Cells -> Words]
      BY <1>1, <1>2, <3>3, <3>4
    <3> QED
      BY <3>3, <3>7, <3>8, LengthWords DEF Headed
  <2> QED
    BY <2>1, <2>2
<1>4. DeviceInv
  BY <1>1, <1>3 DEF Init, DeviceInv
<1>5. FileInv
  BY DEF Init, FileInv
<1>6. ServerInv
  <2>1. [st |-> "unused", req |-> NoRequest, key |-> NoKey] \in Conns
    BY DEF Conns, States, Asks, Keys, NoRequest
  <2> QED
    BY <2>1, Numbers DEF Init, ServerInv, Conns
<1> QED
  BY <1>4, <1>5, <1>6 DEF Inv

LEMMA NextInv == Inv /\ [Next]_vars => Inv'
<1> SUFFICES ASSUME Inv, [Next]_vars PROVE Inv'
  OBVIOUS
<1>1. CASE UNCHANGED vars
  BY <1>1, DeviceKept, FileKept DEF Inv, ServerInv, vars, device
<1>2. CASE Reset \/ Copy \/ ReadBack
  BY <1>2, ResetKeeps, CopyKeeps, ReadBackKeeps
<1>3. ASSUME NEW c \in 1 .. MaxConn, Connect(c) \/ Child(c) PROVE Inv'
  BY <1>3, ConnectKeeps, MakeKeyKeeps, SendFormKeeps, SendFirmwareKeeps, SendOtherKeeps DEF Child
<1>4. CASE Accept \/ AcceptFails \/ NextSlot
  BY <1>4, AcceptKeeps, ParentKeeps
<1> QED
  BY <1>1, <1>2, <1>3, <1>4 DEF Next

\* What FwCheck packed, and what was read back whole and copied again, passes
\* the check of the loader, for every disk, source and position of the
\* descriptor.
THEOREM PackedIsAccepted == Spec => []Accepted
<1>1. Inv => Accepted
  <2> SUFFICES ASSUME Inv PROVE Accepted
    OBVIOUS
  <2>1. holds \in {"linked", "backup"} => UserCheck(memory) # 0
    BY CheckIs DEF Inv, DeviceInv
  <2>2. size \in 0 .. FullSize /\ dirsize \in 0 .. FullSize
    BY LengthWords, Sizes DEF Inv, DeviceInv
  <2>3. TypeOK
    BY <2>2 DEF TypeOK, Inv, DeviceInv, ServerInv, States, Words
  <2> QED
    BY <2>1, <2>3 DEF Accepted
<1> QED
  BY <1>1, InitInv, NextInv, PTL DEF Spec
=============================================================================
