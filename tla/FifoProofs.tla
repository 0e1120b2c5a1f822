----------------------------- MODULE FifoProofs -----------------------------
(***************************************************************************)
(* Fifo for every capacity: its type invariant, and that the unprotected   *)
(* indices and the protected length agree in every interleaving.           *)
(***************************************************************************)
EXTENDS Fifo, SequenceTheorems, TLAPS

\* An index is one past the end only between its increment and saturate().
IndexStep ==
  /\ wri \in IF wpc = "saturate" THEN 1 .. N ELSE Slots
  /\ rdi \in IF rpc = "saturate" THEN 1 .. N ELSE Slots

\* What the test at the head of a method has seen still holds while the
\* method runs: the other side moves len away from the limit.
TestHolds ==
  /\ wpc # "idle" => len < N
  /\ rpc # "idle" => len > 0

\* The inductive invariant: Distance alone does not exclude that a writer
\* stores into a full ring.
IInv == TypeOK /\ IndexStep /\ TestHolds /\ Distance

-----------------------------------------------------------------------------
\* saturate() leaves an index in the array, and a second call changes nothing.
LEMMA SaturateSlot ==
  ASSUME NEW i \in Nat
  PROVE  /\ Saturate(i) \in Slots
         /\ Saturate(Saturate(i)) = Saturate(i)
BY FifoAssumption DEF Saturate, Slots

\* The constructor establishes the invariant.
LEMMA InitIInv == Init => IInv
<1> SUFFICES ASSUME Init PROVE IInv
  OBVIOUS
<1>1. Saturate(wri) = Saturate(rdi) + (len + Written - Fetched)
  BY FifoAssumption DEF Init, Saturate, Written, Fetched
<1>2. TypeOK /\ IndexStep /\ TestHolds
  BY FifoAssumption DEF Init, TypeOK, IndexStep, TestHolds, Slots
<1> QED
  BY <1>1, <1>2 DEF IInv, Distance

\* Each step of the writer keeps the invariant.
LEMMA WriterIInv == IInv /\ Writer => IInv'
<1> SUFFICES ASSUME IInv, Writer PROVE IInv'
  OBVIOUS
<1> USE FifoAssumption DEF IInv, TypeOK, IndexStep, TestHolds, Slots
<1>1. CASE WriteTest
  BY <1>1 DEF WriteTest, Distance, Saturate, Written, Fetched
<1>2. ASSUME NEW c \in Item, WriteStore(c) PROVE IInv'
  <2>1. TypeOK' /\ IndexStep' /\ TestHolds'
    BY <1>2 DEF WriteStore
  <2>2. Written = 0 /\ Written' = 1 /\ Fetched' = Fetched /\ Fetched \in {0, 1}
    BY <1>2 DEF WriteStore, Written, Fetched
  <2>3. len + Written - Fetched \in 0 .. (N - 1)
    BY <1>2, <2>2 DEF WriteStore, Fetched
  <2>4. Saturate(rdi)' = Saturate(rdi) /\ Saturate(rdi) \in Slots
    BY <1>2, SaturateSlot DEF WriteStore, Saturate
  <2>5. /\ Saturate(wri) = wri /\ len' = len
        /\ \/ wri + 1 < N  /\ Saturate(wri)' = wri + 1
           \/ wri + 1 = N  /\ Saturate(wri)' = 0
    BY <1>2 DEF WriteStore, Saturate
  <2>6. Distance'
    BY <2>2, <2>3, <2>4, <2>5 DEF Distance
  <2> QED
    BY <2>1, <2>6
<1>3. CASE WriteSaturate
  <2>1. TypeOK' /\ IndexStep' /\ TestHolds'
    BY <1>3 DEF WriteSaturate, Saturate
  <2>2. Distance'
    BY <1>3, SaturateSlot DEF WriteSaturate, Distance, Saturate, Written, Fetched
  <2> QED
    BY <2>1, <2>2
<1>4. CASE SafeInc
  BY <1>4 DEF SafeInc, Distance, Saturate, Written, Fetched
<1> QED
  BY <1>1, <1>2, <1>3, <1>4 DEF Writer

\* Each step of the reader keeps the invariant.
LEMMA ReaderIInv == IInv /\ Reader => IInv'
<1> SUFFICES ASSUME IInv, Reader PROVE IInv'
  OBVIOUS
<1> USE FifoAssumption DEF IInv, TypeOK, IndexStep, TestHolds, Slots
<1>1. CASE ReadTest
  BY <1>1 DEF ReadTest, Distance, Saturate, Written, Fetched
<1>2. CASE ReadFetch
  <2>1. TypeOK' /\ IndexStep' /\ TestHolds'
    BY <1>2 DEF ReadFetch
  <2>2. Fetched = 0 /\ Fetched' = 1 /\ Written' = Written /\ Written \in {0, 1}
    BY <1>2 DEF ReadFetch, Written, Fetched
  <2>3. len + Written - Fetched \in 1 .. N
    BY <1>2, <2>2 DEF ReadFetch, Written
  <2>4. Saturate(wri)' = Saturate(wri) /\ Saturate(wri) \in Slots
    BY <1>2, SaturateSlot DEF ReadFetch, Saturate
  <2>5. /\ Saturate(rdi) = rdi /\ len' = len
        /\ \/ rdi + 1 < N  /\ Saturate(rdi)' = rdi + 1
           \/ rdi + 1 = N  /\ Saturate(rdi)' = 0
    BY <1>2 DEF ReadFetch, Saturate
  <2>6. Distance'
    BY <2>2, <2>3, <2>4, <2>5 DEF Distance
  <2> QED
    BY <2>1, <2>6
<1>3. CASE ReadSaturate
  <2>1. TypeOK' /\ IndexStep' /\ TestHolds'
    BY <1>3 DEF ReadSaturate, Saturate
  <2>2. Distance'
    BY <1>3, SaturateSlot DEF ReadSaturate, Distance, Saturate, Written, Fetched
  <2> QED
    BY <2>1, <2>2
<1>4. CASE SafeDec
  BY <1>4 DEF SafeDec, Distance, Saturate, Written, Fetched
<1> QED
  BY <1>1, <1>2, <1>3, <1>4 DEF Reader

\* The invariant holds in every state.
THEOREM Invariance == Spec => []IInv
<1>1. IInv /\ UNCHANGED vars => IInv'
  BY DEF IInv, TypeOK, IndexStep, TestHolds, Distance, vars, Saturate, Written, Fetched, Slots
<1>2. IInv /\ [Next]_vars => IInv'
  BY <1>1, WriterIInv, ReaderIInv DEF Next
<1> QED
  BY InitIInv, <1>2, PTL DEF Spec

-----------------------------------------------------------------------------
\* The fields keep their types: len stays within the capacity, the indices
\* never run further than one past the array.
THEOREM TypeCorrect == Spec => []TypeOK
BY Invariance, PTL DEF IInv

\* The distance between the indices is the number of items in the ring,
\* whatever the interleaving of Write and Read.
THEOREM DistanceHolds == Spec => []Distance
BY Invariance, PTL DEF IInv

\* Write and Read use their index only inside the array and never the same
\* slot at the same time, which is why buf needs no lock.
THEOREM SlotsSafe == Spec => []SlotsDisjoint
<1>1. ASSUME IInv, wpc = "store", rpc = "fetch" PROVE wri # rdi
  <2>1. Written = 0 /\ Fetched = 0 /\ len \in 1 .. (N - 1)
    BY <1>1, FifoAssumption DEF IInv, TypeOK, TestHolds, Written, Fetched
  <2>2. /\ wri \in Slots /\ rdi \in Slots
        /\ Saturate(wri) = wri /\ Saturate(rdi) = rdi
    BY <1>1, FifoAssumption DEF IInv, IndexStep, Slots, Saturate
  <2> QED
    BY <2>1, <2>2, <1>1, FifoAssumption DEF IInv, Distance, Slots
<1>2. IInv => SlotsDisjoint
  BY <1>1, FifoAssumption DEF IInv, IndexStep, SlotsDisjoint
<1> QED
  BY <1>2, Invariance, PTL

-----------------------------------------------------------------------------
(* The ring implements the bounded queue.                                  *)

Stored == len + Written - Fetched

\* The queue is a sequence, and each of its items is in a slot of its own,
\* none of them the one a running Write is about to fill.
LEMMA QueueProperties ==
  IInv => /\ Stored \in 0 .. N
          /\ Queue \in Seq(Item)
          /\ Len(Queue) = Stored
          /\ \A i \in 1 .. Stored : Slot(i) \in Slots /\ Queue[i] = buf[Slot(i)]
          /\ wpc = "store" =>
               Stored < N /\ Slot(Stored + 1) = wri /\ \A i \in 1 .. Stored : Slot(i) # wri
<1> SUFFICES ASSUME IInv
             PROVE  /\ Stored \in 0 .. N
                    /\ Queue \in Seq(Item)
                    /\ Len(Queue) = Stored
                    /\ \A i \in 1 .. Stored : Slot(i) \in Slots /\ Queue[i] = buf[Slot(i)]
                    /\ wpc = "store" =>
                         /\ Stored < N /\ Slot(Stored + 1) = wri
                         /\ \A i \in 1 .. Stored : Slot(i) # wri
  OBVIOUS
<1>1. Stored \in 0 .. N
  BY FifoAssumption DEF Stored, IInv, TypeOK, TestHolds, Written, Fetched
<1>2. Saturate(rdi) \in Slots /\ Saturate(wri) \in Slots
  BY SaturateSlot DEF IInv, TypeOK
<1>3. \A i \in 1 .. Stored : Slot(i) \in Slots
  BY <1>1, <1>2, FifoAssumption DEF Slot, Slots
<1>4. \A i \in 1 .. Stored : buf[Slot(i)] \in Item
  BY <1>3 DEF IInv, TypeOK
<1>5. Queue = [i \in 1 .. Stored |-> buf[Slot(i)]]
  BY DEF Queue, Stored
<1>6. Queue \in [1 .. Stored -> Item]
  BY <1>4, <1>5
<1>7. Queue \in Seq(Item) /\ Len(Queue) = Stored
  BY <1>1, <1>6
<1>8. ASSUME wpc = "store"
      PROVE  /\ Stored < N /\ Slot(Stored + 1) = wri
             /\ \A i \in 1 .. Stored : Slot(i) # wri
  <2>1. wri \in Slots /\ Saturate(wri) = wri
    BY <1>8, FifoAssumption DEF IInv, IndexStep, Slots, Saturate
  <2>2. Stored < N
    BY <1>8, FifoAssumption DEF Stored, IInv, TypeOK, TestHolds, Written, Fetched
  <2>3. wri = Saturate(rdi) + Stored \/ wri = Saturate(rdi) + Stored - N
    BY <2>1 DEF IInv, Distance, Stored
  <2> QED
    BY <1>1, <1>2, <2>1, <2>2, <2>3, FifoAssumption DEF Slot, Slots
<1> QED
  BY <1>1, <1>3, <1>5, <1>7, <1>8

\* The queue begins empty.
LEMMA InitRefines == Init => Abstract!QInit
<1> SUFFICES ASSUME Init PROVE Abstract!QInit
  OBVIOUS
<1>1. len + Written - Fetched = 0
  BY DEF Init, Written, Fetched
<1>2. IInv
  BY InitIInv
<1>3. Queue = << >>
  BY <1>1, <1>2, QueueProperties, EmptySeq DEF Stored
<1> QED
  BY <1>3 DEF Init, Abstract!QInit

\* Every step of the ring puts an item, takes the oldest one, or leaves the
\* queue as it is.
LEMMA StepRefines ==
  IInv /\ IInv' /\ [Next]_vars
    => [Abstract!Put \/ Abstract!Take]_<<Queue, arg, item>>
<1> SUFFICES ASSUME IInv, IInv', [Next]_vars
             PROVE  [Abstract!Put \/ Abstract!Take]_<<Queue, arg, item>>
  OBVIOUS
<1>q. /\ Stored \in 0 .. N
      /\ Queue \in Seq(Item) /\ Len(Queue) = Stored
      /\ \A i \in 1 .. Stored : Slot(i) \in Slots /\ Queue[i] = buf[Slot(i)]
      /\ wpc = "store" =>
           Stored < N /\ Slot(Stored + 1) = wri /\ \A i \in 1 .. Stored : Slot(i) # wri
  BY QueueProperties
<1>p. /\ Stored' \in 0 .. N
      /\ Queue' \in Seq(Item) /\ Len(Queue') = Stored'
      /\ \A i \in 1 .. Stored' : Slot(i)' \in Slots /\ Queue'[i] = buf'[Slot(i)']
  <2>1. (IInv => /\ Stored \in 0 .. N
                 /\ Queue \in Seq(Item) /\ Len(Queue) = Stored
                 /\ \A i \in 1 .. Stored : Slot(i) \in Slots /\ Queue[i] = buf[Slot(i)])'
    BY QueueProperties, PTL
  <2> QED
    BY <2>1 DEF Slots
<1>s. ASSUME Stored' = Stored, Saturate(rdi)' = Saturate(rdi), buf' = buf
      PROVE  Queue' = Queue
  BY <1>s DEF Queue, Stored, Slot
<1> USE FifoAssumption DEF IInv, TypeOK
<1>1. CASE WriteTest \/ SafeInc \/ ReadTest \/ SafeDec
  <2>1. Stored' = Stored /\ UNCHANGED <<buf, rdi, arg, item>>
    <3> USE DEF Stored, Written, Fetched
    <3>1. CASE WriteTest
      BY <3>1 DEF WriteTest
    <3>2. CASE SafeInc
      BY <3>2 DEF SafeInc
    <3>3. CASE ReadTest
      BY <3>3 DEF ReadTest
    <3>4. CASE SafeDec
      BY <3>4 DEF SafeDec
    <3> QED
      BY <1>1, <3>1, <3>2, <3>3, <3>4
  <2> QED
    BY <2>1, <1>s DEF Saturate
<1>2. CASE WriteSaturate \/ ReadSaturate
  <2>1. Stored' = Stored /\ UNCHANGED <<buf, arg, item>>
    BY <1>2 DEF WriteSaturate, ReadSaturate, Stored, Written, Fetched
  <2>2. Saturate(rdi)' = Saturate(rdi)
    BY <1>2 DEF WriteSaturate, ReadSaturate, Saturate
  <2> QED
    BY <2>1, <2>2, <1>s
<1>3. ASSUME NEW c \in Item, WriteStore(c) PROVE Abstract!Put
  <2>1. /\ Stored' = Stored + 1 /\ Stored < N /\ arg' = c /\ item' = item
        /\ rdi' = rdi /\ buf' = [buf EXCEPT ![wri] = c]
    BY <1>3, <1>q DEF WriteStore, Stored, Written, Fetched
  <2>2. \A i \in 1 .. Stored + 1 : Slot(i)' = Slot(i)
    BY <2>1 DEF Slot, Saturate
  <2>3. \A i \in 1 .. Stored : Queue'[i] = Queue[i]
    BY <1>p, <1>q, <1>3, <2>1, <2>2 DEF WriteStore
  <2>4. Queue'[Stored + 1] = c
    BY <1>p, <1>q, <1>3, <2>1, <2>2 DEF WriteStore, IndexStep, Slots
  <2>5. Queue' = Append(Queue, c)
    BY <1>p, <1>q, <2>1, <2>3, <2>4
  <2> QED
    BY <1>q, <2>1, <2>5 DEF Abstract!Put
<1>4. CASE ReadFetch
  <2>1. /\ Stored' = Stored - 1 /\ buf' = buf /\ arg' = arg /\ item' = buf[rdi]
        /\ rdi' = rdi + 1 /\ rdi \in Slots
    BY <1>4 DEF ReadFetch, Stored, Written, Fetched, IndexStep
  <2>2. Stored > 0
    BY <1>p, <1>q, <2>1
  <2>3. Slot(1) = rdi
    BY <2>1 DEF Slot, Saturate, Slots
  <2>4. Queue # << >> /\ Head(Queue) = item'
    BY <1>q, <2>1, <2>2, <2>3
  <2>5. \A i \in 1 .. Stored - 1 : Slot(i)' = Slot(i + 1)
    BY <1>q, <2>1 DEF Slot, Saturate, Slots
  <2>6. Queue' = Tail(Queue)
    <3>1. /\ Tail(Queue) \in Seq(Item) /\ Len(Tail(Queue)) = Stored - 1
          /\ \A i \in 1 .. Stored - 1 : Tail(Queue)[i] = Queue[i + 1]
      BY <1>q, <2>4, HeadTailProperties
    <3>2. \A i \in 1 .. Stored - 1 : Queue'[i] = Tail(Queue)[i]
      BY <1>p, <1>q, <2>1, <2>5, <3>1
    <3> QED
      BY <1>p, <2>1, <3>1, <3>2, SeqEqual
  <2> QED
    BY <2>1, <2>4, <2>6 DEF Abstract!Take
<1>5. CASE UNCHANGED vars
  BY <1>5, <1>s DEF vars, Stored, Saturate, Written, Fetched
<1> QED
  BY <1>1, <1>2, <1>3, <1>4, <1>5 DEF Next, Writer, Reader

\* For every capacity the ring buffer is a bounded queue for its two users:
\* no item is lost, duplicated or reordered by an interrupt at any point.
THEOREM RingIsQueue == Spec => ImplementsQueue
<1>1. IInv /\ IInv' /\ [Next]_vars => [Abstract!Put \/ Abstract!Take]_<<Queue, arg, item>>
  BY StepRefines
<1> QED
  BY <1>1, InitRefines, Invariance, PTL DEF Spec, ImplementsQueue, Abstract!Spec
=============================================================================
