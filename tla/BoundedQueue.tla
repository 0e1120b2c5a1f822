---------------------------- MODULE BoundedQueue ----------------------------
(***************************************************************************)
(* What Fifo promises its two users: a queue of at most N items, read in   *)
(* the order they were written.                                            *)
(***************************************************************************)
EXTENDS Sequences, Naturals

CONSTANTS
  N,   \* capacity
  Item \* what is queued

VARIABLES
  queue, \* the items, oldest first
  put,   \* the item the writer put last
  got    \* the item the reader got last

QInit == queue = << >> /\ put \in Item /\ got \in Item

Put == /\ Len(queue) < N
       /\ put' \in Item
       /\ queue' = Append(queue, put')
       /\ UNCHANGED got

Take == /\ queue # << >>
        /\ got' = Head(queue)
        /\ queue' = Tail(queue)
        /\ UNCHANGED put

Spec == QInit /\ [][Put \/ Take]_<<queue, put, got>>
=============================================================================
