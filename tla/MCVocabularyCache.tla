-------------------------- MODULE MCVocabularyCache --------------------------
(***************************************************************************)
(* An instance of VocabularyCache for TLC: one process with two calls that *)
(* can overlap, and another one that writes behind its back.               *)
(***************************************************************************)
EXTENDS VocabularyCache, TLC

CONSTANTS p1, p2, c1, c2, c3

MCOwner == [c \in Calls |-> IF c = c3 THEN p2 ELSE p1]

\* The two calls of p1 are interchangeable.
MCSymmetry == Permutations({c1, c2})

=============================================================================
