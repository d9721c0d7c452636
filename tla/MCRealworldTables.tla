-------------------------- MODULE MCRealworldTables --------------------------
(* An instance of RealworldTables for TLC. *)
EXTENDS RealworldTables

\* A check with two rules and one with one of them.
TwoChecks == [c \in {1, 2} |-> IF c = 1 THEN {"r1", "r2"} ELSE {"r1"}]
=============================================================================
