---------------------------- MODULE MCFatPlayer ----------------------------
EXTENDS FatPlayer

\* One and two FATs, clusters of one and of two blocks.
MCVolumes ==
  { [reserved |-> 1, fatLen |-> 2, fats |-> 2, clusterSize |-> 2],
    [reserved |-> 2, fatLen |-> 2, fats |-> 1, clusterSize |-> 1] }

Chains == UNION {{s \in [1..n -> 2..5] : IsInjective(s)} : n \in 1..3}

\* Lengths that end in every part of the last cluster of two blocks.
MCFiles == {[chain |-> c, len |-> Len(c) * Block - k] : c \in Chains, k \in 0..1}
           \cup {[chain |-> c, len |-> 2 * Len(c) * Block - k] : c \in Chains, k \in 0..1}
============================================================================
