------------------------------ MODULE Positions ------------------------------
(***************************************************************************)
(* What the code filters out of a sequence: the elements at chosen         *)
(* positions, in the order of the sequence.                                *)
(***************************************************************************)
EXTENDS Integers, Sequences, FiniteSets

Rank(P, p) == Cardinality({ q \in P : q <= p })

Listed(s, P) == [n \in 1..Cardinality(P) |-> s[CHOOSE p \in P : Rank(P, p) = n]]

\* The last `count' of the positions in P.
LastPositions(P, count) == { p \in P : Cardinality({ q \in P : q > p }) < count }
=============================================================================
