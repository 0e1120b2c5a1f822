-------------------------- MODULE FirmwareService --------------------------
(***************************************************************************)
(* The way of a firmware: FwCheck packs it (fwcheck.cpp), either for the   *)
(* image linked into the loader (work/post) or for a download from the     *)
(* HTTP server (work/http), which encrypts it for one device; the user     *)
(* copies the file to the device, which decrypts it and looks at reset for *)
(* an image; what is on the disk can be read back, encrypted again.        *)
(*                                                                         *)
(* The server forks for every connection.  A process has a copy of the     *)
(* parent's memory, so what it changes, GeneratedKeys and the slot it      *)
(* frees in clients[], is gone when it exits.                              *)
(*                                                                         *)
(* A word is 0 .. W - 1.  TEA works on blocks of two words, each by itself *)
(* with the same key: a file is its words and the key.  Under another key  *)
(* a block comes out as Junk; that Junk passes the test by chance is left  *)
(* out.                                                                    *)
(***************************************************************************)
EXTENDS Integers, Sequences

CONSTANTS
  Uuid,         \* the UUID of the device
  Others,       \* UUIDs of devices other people have
  Payed,        \* those the server knows
  Images,       \* sequence of source files: [bytes, words], or Missing
  W,            \* words are numbers modulo W
  Desc,         \* words in front of the descriptor: magic, size, check
  Magic,        \* UserMagicNumber
  TotalBlocks,  \* Total_Logical_Sectors (128; 1286 with flash.patch)
  BlockWords,   \* words in a block of the disk (128), here one packet
  ConnMax,      \* slots of clients[] (CONNMAX, 1000 in the code)
  MaxConn       \* connections the browsers open (bound)

\* Prepare: the places of the FAT12 disk, in blocks.  One boot block, two of
\* the FAT and one of the directory; index.html begins with cluster 2 and
\* FIRMWARE.BIN with 3, which takes all of the rest.
ClusterBlocks == 2
Pt0        == 4
IndexStart == 2
ImageStart == 3
Pt2        == (ImageStart - 2) * ClusterBlocks + Pt0
Clusters   == (TotalBlocks - Pt2) \div ClusterBlocks
FatBytes   == 1024

\* Words of memory from user_code_begin on, as many as full_size says.
Cells    == Clusters * ClusterBlocks * BlockWords
FullSize == 4 * Cells

Missing == [bytes |-> 0, words |-> << >>]
NoImage == << >>
NoKey   == <<"zero">>   \* GeneratedKeys of the server, which nobody fills
NoFile  == [key |-> NoKey, words |-> << >>, what |-> "none"]
Junk    == W - 2

\* The word of the image the descriptor's fields are in.
MagicAt == Desc + 1
SizeAt  == Desc + 2
CheckAt == Desc + 3

ASSUME ServiceAssumption ==
  /\ Payed \subseteq Others \cup {Uuid} /\ Uuid \notin Others
  /\ {W, BlockWords, ConnMax, MaxConn} \subseteq Nat \ {0} /\ Desc \in Nat
  /\ Magic \in 1 .. (W - 1) /\ Magic # Junk /\ FullSize < W
  /\ TotalBlocks \in Nat /\ Clusters > 0 /\ 3 * (Clusters + ImageStart) < 2 * FatBytes
  /\ CheckAt <= Cells
  /\ \A i \in DOMAIN Images :
       Images[i] = Missing \/
         /\ Images[i].words \in Seq(0 .. (W - 1))
         /\ CheckAt <= Len(Images[i].words) /\ Len(Images[i].words) < Cells
         /\ Images[i].bytes \in (4 * Len(Images[i].words) - 3) .. (4 * Len(Images[i].words))

VARIABLES
  memory,  \* the device's words from user_code_begin on
  size,    \* its image_size, as found at reset
  dirsize, \* the size of FIRMWARE.BIN in the directory, in bytes
  mode,    \* "loader" or "user"
  holds,   \* what was put in its memory (ghost)
  conn,    \* connections: their state, the request and the key of the process
  slots,   \* slots of clients[] in use, in the parent
  parent,  \* the parent: at accept(), looking for a free slot, or gone
  forms,   \* devices for which a browser shows the form
  file     \* the file in ~/Downloads

device == <<memory, size, dirsize, mode, holds>>
server == <<conn, slots, parent>>
vars   == <<memory, size, dirsize, mode, holds, conn, slots, parent, forms, file>>

-----------------------------------------------------------------------------
(* Keys, packing and the check                                             *)

\* XOR with the two secrets: the link of a device, and the key of its loader.
LinkOf(u)    == <<"server", u>>
LoaderKey(u) == <<"loader", u>>
UuidOf(link) == link[2]

\* The sum of the first n words.
SumTo(w, n) ==
  LET sum[k \in 0 .. n] == IF k = 0 THEN 0 ELSE (sum[k - 1] + w[k]) % W
  IN  sum[n]

\* Mutant: the sum is taken before the size is filled in.
PackSumsEarly(src) ==
  LET n == 2 * ((src.bytes + 7) \div 8)
      w == [i \in 1 .. n |-> IF i <= Len(src.words) THEN src.words[i] ELSE 0]
      s == SumTo([w EXCEPT ![CheckAt] = 0], n)
  IN  IF src.words[MagicAt] # Magic THEN NoImage
      ELSE [w EXCEPT ![SizeAt] = 4 * n, ![CheckAt] = (W - s) % W]

\* FwCheck: the file is padded with zeros to whole blocks of the cipher, and
\* its size and a word that makes the sum 0 are filled in.
Pack(src) ==
  LET n == 2 * ((src.bytes + 7) \div 8)
      w == [i \in 1 .. n |-> IF i <= Len(src.words) THEN src.words[i] ELSE 0]
      s == [w EXCEPT ![SizeAt] = 4 * n, ![CheckAt] = 0]
  IN  IF src.words[MagicAt] # Magic THEN NoImage
      ELSE [s EXCEPT ![CheckAt] = (W - SumTo(s, n)) % W]

\* UserCheck: image_size, 0 for no image.
UserCheck(m) ==
  LET n == m[SizeAt] \div 4
  IN  IF m[MagicAt] # Magic \/ n = 0 \/ SumTo(m, n) # 0 THEN 0 ELSE m[SizeAt]

\* decrypt_block with the key of the loader, on its way into memory.
Decrypt(key, f) ==
  IF f.key = key THEN f.words ELSE [i \in 1 .. Len(f.words) |-> Junk]

-----------------------------------------------------------------------------
(* The emulated disk                                                       *)

\* write_fat_entry_n: two entries of 12 bits in three bytes.
PutEntry(fat, n, t) ==
  LET at == 3 * (n \div 2)
  IN  IF n % 2 = 0
        THEN [fat EXCEPT ![at] = t % 256, ![at + 1] = 16 * (@ \div 16) + t \div 256]
        ELSE [fat EXCEPT ![at + 1] = 16 * (t % 16) + (@ % 16), ![at + 2] = t \div 16]

\* Prepare: index.html has one cluster; FIRMWARE.BIN goes from cluster to
\* cluster up to the last one (NXP_LIKE).
LastCluster == ImageStart + Clusters - 1
EntryOf(n)  == IF n = 0 THEN 4088
               ELSE IF n \in {1, IndexStart, LastCluster} THEN 4095 ELSE n + 1

Fat ==
  LET written[n \in 0 .. (LastCluster + 1)] ==
        IF n = 0 THEN [b \in 0 .. (FatBytes - 1) |-> 0]
        ELSE PutEntry(written[n - 1], n - 1, EntryOf(n - 1))
  IN  written[LastCluster + 1]

\* How a host reads a FAT of 12 bits, and the clusters it finds the file in.
GetEntry(fat, n) ==
  LET at   == n + n \div 2
      word == fat[at] + 256 * fat[at + 1]
  IN  IF n % 2 = 0 THEN word % 4096 ELSE word \div 16

ClusterOf[k \in 0 .. (Clusters - 1)] ==
  IF k = 0 THEN ImageStart ELSE GetEntry(Fat, ClusterOf[k - 1])

\* The block of the disk with word i of the file.
BlockOf(i) ==
  LET b == (i - 1) \div BlockWords
  IN  (ClusterOf[b \div ClusterBlocks] - 2) * ClusterBlocks + Pt0 + (b % ClusterBlocks)

\* fileRead and fileWrite: where that word is in memory.
CellOf(i) == (BlockOf(i) - Pt2) * BlockWords + ((i - 1) % BlockWords) + 1

-----------------------------------------------------------------------------
(* The device and its user                                                 *)

\* Reset: check_user and, in the loader, Prepare, which gives the file all of
\* the disk whatever image_size is.
Reset ==
  LET found == UserCheck(memory)
  IN  /\ size' = found
      /\ dirsize' = FullSize
      /\ \E button \in BOOLEAN : mode' = IF button \/ found = 0 THEN "loader" ELSE "user"
      /\ UNCHANGED <<memory, holds, server, forms, file>>

\* cp FIRMWARE.BIN writes over the clusters of the file; the words are
\* decrypted one packet after the other and the directory gets the size.  What
\* is behind the file is what was there, or what the host fills the last block
\* with.
Copy ==
  /\ mode = "loader" /\ file # NoFile
  /\ \E rest \in {memory, [i \in 1 .. Cells |-> Junk]} :
       LET w == Decrypt(LoaderKey(Uuid), file)
           taken == {CellOf(i) : i \in DOMAIN w}
       IN  memory' = [m \in 1 .. Cells |->
                        IF m \in taken THEN w[CHOOSE i \in DOMAIN w : CellOf(i) = m] ELSE rest[m]]
  /\ dirsize' = 4 * Len(file.words)
  /\ holds' = file.what
  /\ UNCHANGED <<size, mode, server, forms, file>>

\* fileRead: packets that begin behind image_size read as zeros, which are
\* Junk to whoever decrypts them.
FileWord(i) ==
  LET m == CellOf(i)
  IN  IF 4 * BlockWords * ((m - 1) \div BlockWords) < size THEN memory[m] ELSE Junk

\* The user copies FIRMWARE.BIN from the disk.  image_size is the one of the
\* last reset: a longer image copied since then is cut.
ReadBack ==
  /\ mode = "loader"
  /\ file' = [key   |-> LoaderKey(Uuid),
              words |-> [i \in 1 .. (dirsize \div 4) |-> FileWord(i)],
              what  |-> IF UserCheck(memory) \in 1 .. size THEN "backup" ELSE "cut"]
  /\ UNCHANGED <<device, server, forms>>

-----------------------------------------------------------------------------
(* The browser (external) and the HTTP server                              *)

NoRequest == [kind |-> "none"]

\* What a browser asks for: the link in index.html, a choice in the form, some
\* other file; and a connection that is closed without a request.
Requests ==
  {[kind |-> "link", link |-> LinkOf(u)] :
     u \in Others \cup IF mode = "loader" THEN {Uuid} ELSE {}}
  \cup {[kind |-> "select", link |-> LinkOf(u), choice |-> i] :
          u \in forms, i \in {j \in DOMAIN Images : Images[j] # Missing}}
  \cup {[kind |-> "file"], NoRequest}

Connect(c) ==
  /\ conn[c].st = "unused" /\ \A b \in 1 .. (c - 1) : conn[b].st # "unused"
  /\ \E r \in Requests : conn' = [conn EXCEPT ![c].st = "pending", ![c].req = r]
  /\ UNCHANGED <<device, slots, parent, forms, file>>

\* accept() and fork().  The child starts with the memory of the parent, in
\* which no key was ever set.  When fork fails the parent goes on as if there
\* were a child.
Accept ==
  /\ parent = "accept"
  /\ \E c \in 1 .. MaxConn :
       /\ conn[c].st = "pending" /\ \A b \in 1 .. (c - 1) : conn[b].st # "pending"
       /\ \E st \in {"served", "orphan"} : conn' = [conn EXCEPT ![c].st = st, ![c].key = NoKey]
  /\ slots' = slots + 1
  /\ parent' = "search"
  /\ UNCHANGED <<device, forms, file>>

\* accept() fails, as it does after a signal: the server ends.
AcceptFails ==
  /\ parent = "accept" /\ parent' = "gone"
  /\ UNCHANGED <<device, conn, slots, forms, file>>

\* Mutant: the last slot is not used.
NextSlotEarly ==
  /\ parent = "search" /\ slots + 1 < ConnMax
  /\ parent' = "accept"
  /\ UNCHANGED <<device, conn, slots, forms, file>>

\* while (clients[slot] != -1): no slot becomes free in the parent, and when
\* all are taken the search does not end.
NextSlot ==
  /\ parent = "search" /\ slots < ConnMax
  /\ parent' = "accept"
  /\ UNCHANGED <<device, conn, slots, forms, file>>

\* The end of respond(): the connection is closed, the process and all it
\* has in memory are gone.
Exit(c) == conn' = [conn EXCEPT ![c] = [st |-> "closed", req |-> NoRequest, key |-> NoKey]]

\* sendImage, FIRMWARE.BIN: for a device that is paid for, the key is made and
\* the form sent; for another one, a page that says so.
MakeKey(c) ==
  /\ conn[c].st = "served" /\ conn[c].req.kind = "link"
  /\ LET uuid == UuidOf(conn[c].req.link)
     IN  IF uuid \in Payed
           THEN conn' = [conn EXCEPT ![c].st = "form", ![c].key = LoaderKey(uuid)]
           ELSE Exit(c)
  /\ UNCHANGED <<device, slots, parent, forms, file>>

\* sendSel: the choice is among the files that can be read.
SendForm(c) ==
  /\ conn[c].st = "form"
  /\ forms' = forms \cup {UuidOf(conn[c].req.link)}
  /\ Exit(c)
  /\ UNCHANGED <<device, slots, parent, file>>

\* sendFw: the firmware is packed and encrypted with the key this process has.
\* A file FwCheck refuses ends in 404.
SendFirmware(c) ==
  /\ conn[c].st = "served" /\ conn[c].req.kind = "select"
  /\ LET w == Pack(Images[conn[c].req.choice])
     IN  IF w = NoImage THEN UNCHANGED file
         ELSE file' = [key |-> conn[c].key, words |-> w,
                       what |-> IF conn[c].req.link = LinkOf(Uuid) THEN "download" ELSE "foreign"]
  /\ Exit(c)
  /\ UNCHANGED <<device, slots, parent, forms>>

\* Another file, or 404, or no request at all.
SendOther(c) ==
  /\ conn[c].st = "served" /\ conn[c].req.kind \in {"file", "none"}
  /\ Exit(c)
  /\ UNCHANGED <<device, slots, parent, forms, file>>

-----------------------------------------------------------------------------

\* work/post: an image packed and linked into the loader without encryption,
\* or none.
Linked == {Pack(Images[i]) : i \in {j \in DOMAIN Images : Images[j] # Missing}} \ {NoImage}

Init ==
  /\ \E put \in Linked \cup {NoImage} :
       /\ memory = [i \in 1 .. Cells |-> IF i <= Len(put) THEN put[i] ELSE 0]
       /\ holds = IF put = NoImage THEN "none" ELSE "linked"
  /\ size = 0 /\ dirsize = 0 /\ mode = "off"
  /\ conn = [c \in 1 .. MaxConn |-> [st |-> "unused", req |-> NoRequest, key |-> NoKey]]
  /\ slots = 0 /\ parent = "accept"
  /\ forms = {} /\ file = NoFile

Child(c) == MakeKey(c) \/ SendForm(c) \/ SendFirmware(c) \/ SendOther(c)

Next ==
  \/ Reset \/ Copy \/ ReadBack
  \/ \E c \in 1 .. MaxConn : Connect(c) \/ Child(c)
  \/ Accept \/ AcceptFails \/ NextSlot

\* The processes of the server run.
Fairness ==
  /\ WF_vars(Accept) /\ WF_vars(NextSlot)
  /\ \A c \in 1 .. MaxConn : WF_vars(Child(c))

Spec == Init /\ [][Next]_vars /\ Fairness

-----------------------------------------------------------------------------
(* Properties                                                              *)

TypeOK ==
  /\ memory \in [1 .. Cells -> 0 .. (W - 1)]
  /\ size \in 0 .. FullSize /\ dirsize \in 0 .. FullSize
  /\ mode \in {"off", "loader", "user"}
  /\ holds \in {"none", "linked", "backup", "cut", "download", "foreign"}
  /\ \A c \in 1 .. MaxConn :
       conn[c].st \in {"unused", "pending", "served", "form", "orphan", "closed"}
  /\ slots \in 0 .. ConnMax /\ parent \in {"accept", "search", "gone"}
  /\ forms \subseteq Payed

\* What FwCheck packed is accepted by UserCheck, for sources of any length and
\* whatever their descriptor, and what is behind the image in memory; and so is
\* what was read back from the disk and copied to it again, although on the way
\* it is encrypted, padded and decrypted, and goes through the FAT.  The
\* exception is what is read back in the session in which a longer image was
\* copied.
Accepted ==
  /\ TypeOK
  /\ holds \in {"linked", "backup"} => UserCheck(memory) # 0

\* Every connection is answered or closed by a process of its own, as long as
\* fork works.  The exceptions are a server that was stopped, and connections
\* that come after all slots have been used once.
Served ==
  \A c \in 1 .. MaxConn :
    /\ (conn[c].st = "pending") ~>
         (conn[c].st \in {"closed", "orphan"} \/ parent = "gone" \/ slots = ConnMax)
    /\ (conn[c].st = "served") ~> (conn[c].st = "closed")

\* contextserver.h: "XOR of SecretKeys.loader with the UUID makes the key
\* GeneratedKeys.loader to encrypt the content with"; README: after the copy
\* and a reset the firmware runs.  A download copied to the device whose link
\* it came from is accepted.
DownloadRuns == holds = "download" => UserCheck(memory) # 0
=============================================================================
