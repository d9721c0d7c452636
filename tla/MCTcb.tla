-------------------------------- MODULE MCTcb --------------------------------
(* An instance of Tcb for TLC. *)
EXTENDS Tcb

\* A check with two rules and one with one of them.
TwoChecks == [c \in {1, 2} |-> IF c = 1 THEN {"r1", "r2"} ELSE {"r1"}]

\* Two Juliet bundles of one tool, or of two, one of which bounds its entries.
OneOrTwoTools == {[b \in {"x", "y"} |-> "p"], [b \in {"x", "y"} |-> IF b = "x" THEN "p" ELSE "q"]}

\* The check of the Juliet bundles reports the first CWE, not the second.
FirstMatches == [k \in {1} |-> {"c1"}]

\* The selfcheck has a line in a bad section and one in a good one.
SectionOfTwo == [l \in {1, 2} |-> IF l = 1 THEN "bad" ELSE "good"]

\* A finding, the same with another severity, column or check, and one of
\* another line.
SomeRecords ==
  {[line |-> 1, column |-> 1, check |-> 1, severity |-> 1],
   [line |-> 1, column |-> 1, check |-> 1, severity |-> 2],
   [line |-> 1, column |-> 2, check |-> 1, severity |-> 1],
   [line |-> 1, column |-> 1, check |-> 2, severity |-> 1],
   [line |-> 2, column |-> 1, check |-> 1, severity |-> 1]}
=============================================================================
