-------------------------------- MODULE Fifo --------------------------------
(***************************************************************************)
(* The ring buffer template Fifo<N,T> between the main program and an      *)
(* interrupt handler: one side writes, the other reads.  USART and CDC     *)
(* transmit through it and the speech decoder streams samples through it.  *)
(*                                                                         *)
(* Each method is split where an interrupt can come between two accesses   *)
(* of the shared fields.  Only the changes of len are made with interrupts *)
(* off (safeInc, safeDec).  Either side may be the interrupt handler, so   *)
(* the two sides are interleaved freely.  A store or fetch and the step of *)
(* its index are one action: only one side uses that index.  The accesses  *)
(* happen in program order, as in the listing in fifo.h; buf is not        *)
(* volatile, so the language alone does not force this.                    *)
(***************************************************************************)
EXTENDS Naturals, Sequences

CONSTANTS
  N,   \* capacity
  Item \* what is queued

ASSUME FifoAssumption == N \in Nat \ {0} /\ Item # {}

Slots == 0 .. (N - 1)

VARIABLES
  buf,  \* the ring; what the constructor leaves in it is arbitrary
  rdi,  \* index of the next item to read
  wri,  \* index of the next item to write
  len,  \* number of items
  wpc,  \* the next step of the writer
  rpc,  \* the next step of the reader
  item, \* the item the reader got last (parameter c of Read)
  arg   \* the item the writer stored last (parameter c of Write)

vars == <<buf, rdi, wri, len, wpc, rpc, item, arg>>

\* Mutant: the index wraps one place too early.
SaturateEarly(index) == IF index < N - 1 THEN index ELSE 0

\* Index protection: keeps an index that ran off the end in the array.
Saturate(index) == IF index < N THEN index ELSE 0

-----------------------------------------------------------------------------
(* bool Write (const T & c)                                                *)

\* Mutant: one item too many.
WriteTestLate == /\ wpc = "idle" /\ len <= N
                 /\ wpc' = "store"
                 /\ UNCHANGED <<buf, rdi, wri, len, rpc, item, arg>>

\* The queue is not full: go on to store.  A full queue returns false.
WriteTest == /\ wpc = "idle" /\ len < N
             /\ wpc' = "store"
             /\ UNCHANGED <<buf, rdi, wri, len, rpc, item, arg>>

WriteStore(c) == /\ wpc = "store"
                 /\ buf' = [buf EXCEPT ![wri] = c]
                 /\ arg' = c
                 /\ wri' = wri + 1
                 /\ wpc' = "saturate"
                 /\ UNCHANGED <<rdi, len, rpc, item>>

WriteSaturate == /\ wpc = "saturate"
                 /\ wri' = Saturate(wri)
                 /\ wpc' = "inc"
                 /\ UNCHANGED <<buf, rdi, len, rpc, item, arg>>

SafeInc == /\ wpc = "inc"
           /\ len' = len + 1
           /\ wpc' = "idle"
           /\ UNCHANGED <<buf, rdi, wri, rpc, item, arg>>

-----------------------------------------------------------------------------
(* bool Read (T & c)                                                       *)

\* Mutant: equal indices are taken for an empty queue.
ReadTestByIndex == /\ rpc = "idle" /\ rdi # wri
                   /\ rpc' = "fetch"
                   /\ UNCHANGED <<buf, rdi, wri, len, wpc, item, arg>>

\* The queue is not empty: go on to fetch.  An empty queue returns false.
ReadTest == /\ rpc = "idle" /\ len > 0
            /\ rpc' = "fetch"
            /\ UNCHANGED <<buf, rdi, wri, len, wpc, item, arg>>

ReadFetch == /\ rpc = "fetch"
             /\ item' = buf[rdi]
             /\ rdi' = rdi + 1
             /\ rpc' = "saturate"
             /\ UNCHANGED <<buf, wri, len, wpc, arg>>

ReadSaturate == /\ rpc = "saturate"
                /\ rdi' = Saturate(rdi)
                /\ rpc' = "dec"
                /\ UNCHANGED <<buf, wri, len, wpc, item, arg>>

\* Mutant: without the lock a decrement is lost between the load and the
\* store of the increment that it interrupts.
SafeDecUnlocked == /\ rpc = "dec"
                   /\ len' \in {len - 1} \cup (IF wpc = "inc" THEN {len} ELSE {})
                   /\ rpc' = "idle"
                   /\ UNCHANGED <<buf, rdi, wri, wpc, item, arg>>

SafeDec == /\ rpc = "dec"
           /\ len' = len - 1
           /\ rpc' = "idle"
           /\ UNCHANGED <<buf, rdi, wri, wpc, item, arg>>

-----------------------------------------------------------------------------
Init == /\ buf \in [Slots -> Item]
        /\ rdi = 0 /\ wri = 0 /\ len = 0
        /\ wpc = "idle" /\ rpc = "idle"
        /\ item \in Item /\ arg \in Item

Writer == WriteTest \/ (\E c \in Item : WriteStore(c)) \/ WriteSaturate \/ SafeInc
Reader == ReadTest \/ ReadFetch \/ ReadSaturate \/ SafeDec

Next == Writer \/ Reader

\* A method that has begun is carried on: the code has no wait in it.
Fairness == WF_vars(Writer) /\ WF_vars(Reader)

Spec == Init /\ [][Next]_vars /\ Fairness

-----------------------------------------------------------------------------
(* Properties                                                              *)

TypeOK ==
  /\ buf \in [Slots -> Item]
  /\ rdi \in 0 .. N /\ wri \in 0 .. N
  /\ len \in 0 .. N
  /\ wpc \in {"idle", "store", "saturate", "inc"}
  /\ rpc \in {"idle", "fetch", "saturate", "dec"}
  /\ item \in Item /\ arg \in Item

\* Items written and not yet counted in len, and items fetched but still
\* counted in it.
Written == IF wpc \in {"saturate", "inc"} THEN 1 ELSE 0
Fetched == IF rpc \in {"saturate", "dec"} THEN 1 ELSE 0

\* The three shared fields agree whatever the interleaving: the distance
\* between the indices is the number of items stored and not yet fetched.
\* The methods keep len and the indices in separate, unprotected steps.
Distance ==
  LET stored == len + Written - Fetched
  IN  \/ Saturate(wri) = Saturate(rdi) + stored
      \/ Saturate(wri) = Saturate(rdi) + stored - N

\* Each side has a slot of its own: both indices are inside the array whenever
\* they are used, the writer never stores into a slot the reader is fetching
\* and the reader never fetches one that is being stored, although buf is not
\* protected.
SlotsDisjoint ==
  /\ wpc = "store" => wri \in Slots
  /\ rpc = "fetch" => rdi \in Slots
  /\ (wpc = "store" /\ rpc = "fetch") => wri # rdi

\* The items stored and not fetched, oldest first.  An item enters the queue
\* when it is stored, not when safeInc counts it, and leaves it when it is
\* fetched.
Slot(i) == LET k == Saturate(rdi) + i - 1 IN IF k < N THEN k ELSE k - N
Queue   == [i \in 1 .. (len + Written - Fetched) |-> buf[Slot(i)]]

\* The ring implements the bounded queue: nothing is lost, duplicated or
\* reordered between the main program and the interrupt handler.
Abstract == INSTANCE BoundedQueue WITH queue <- Queue, put <- arg, got <- item
ImplementsQueue == Abstract!Spec

\* An item that is counted is eventually taken out: under the fairness above
\* the reader (an interrupt handler that is called while data is left) never
\* gets stuck behind a len that the writer has spoiled.
Drains == (len = N) ~> (len < N)
=============================================================================
