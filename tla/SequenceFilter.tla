--------------------------- MODULE SequenceFilter ---------------------------
(***************************************************************************)
(* Taking elements out of a sequence, by a definition that is not          *)
(* recursive, so that what it does can be proved (SequenceFilterProofs).   *)
(***************************************************************************)
EXTENDS Naturals, Sequences, FiniteSets

\* The position of i among the elements of D.
Rank(D, i) == Cardinality({k \in D : k <= i})

KeptIn(s, T) == {i \in DOMAIN s : s[i] \notin T}

\* What is left of s, in its order, without the elements of T.
Without(s, T) ==
    [j \in 1 .. Cardinality(KeptIn(s, T)) |->
       s[CHOOSE i \in KeptIn(s, T) : Rank(KeptIn(s, T), i) = j]]
=============================================================================
