------------------------------- MODULE FramaC -------------------------------
(***************************************************************************)
(* The real-world run of the Frama-C adapter (tcb/tools/frama_c.py): entry *)
(* points are proposed per translation unit, ordered round-robin, run in   *)
(* the pool under a budget, and summed up in `coverage`.  Translation      *)
(* units are numbered in their sorted order; the entries of one are its    *)
(* function definitions in the order of c_function_definitions.            *)
(*                                                                         *)
(* An outcome of the pool is what _one looks at: the return code and       *)
(* whether EVA wrote that it cannot find the entry point.  Functions past  *)
(* the cap of a unit are no items: nothing runs them.                      *)
(***************************************************************************)
EXTENDS ToolPool

CONSTANTS TUs,         \* the number of translation units
          Defined,     \* how many functions each defines
          MaxEntries   \* REALWORLD_MAX_ENTRIES_PER_TU

ASSUME TUsAssumption == TUs \in Nat /\ Defined \in [1..TUs -> Nat] /\ MaxEntries \in Nat

EvaOutcomes == [rc : {0, 1, 2, 124}, unknownMain : BOOLEAN]

\* The cap on entries per TU: names[:REALWORLD_MAX_ENTRIES_PER_TU].
Entries(t) == IF Defined[t] <= MaxEntries THEN Defined[t] ELSE MaxEntries

Proposed == {e \in (1..TUs) \X (1..MaxEntries) : e[2] <= Entries(e[1])}

\* The k-th of them is the one that k - 1 others come before.
Visited(Before(_, _)) ==
  [k \in 1..Cardinality(Proposed) |->
     CHOOSE e \in Proposed : Cardinality({f \in Proposed : Before(f, e)}) = k - 1]

DepthFirst == Visited(LAMBDA e, f : e[1] < f[1] \/ (e[1] = f[1] /\ e[2] < f[2]))

\* Row d holds the units that have an entry at depth d, in their order.
RowFirst(e, f) == e[2] < f[2] \/ (e[2] = f[2] /\ e[1] < f[1])

\* round_robin: row after row.
RoundRobin == Visited(RowFirst)

ASSUME ItemsAreEntries == N = Len(RoundRobin) /\ Outcomes = EvaOutcomes

-----------------------------------------------------------------------------
(* _one, _tally and the coverage of run_realworld.                         *)

\* Completed.expected: a nonzero exit that is no failure.
Expected(o) == CASE o.rc = 124 -> "entry timeout"
                 [] o.rc = 1 /\ o.unknownMain -> "unknown entry"
                 [] OTHER -> "none"

Ran == {k \in Items : job[k] = "result"}
RanWith(P(_)) == Cardinality({k \in Ran : P(outcome[k])})

Failure(o) == o.rc \notin {0, 124} /\ Expected(o) = "none"

Tally == [run      |-> Cardinality(Ran),
          analyzed |-> RanWith(LAMBDA o : o.rc = 0),
          unknown  |-> RanWith(LAMBDA o : Expected(o) = "unknown entry"),
          timeouts |-> RanWith(LAMBDA o : o.rc = 124),
          failures |-> RanWith(Failure)]

\* The entries EVA did not reject; the denominator of entries_pct.
Effective == N - Tally.unknown

BudgetExhausted == Tally.run < N

PartialOfRan == Tally.analyzed < Tally.run - Tally.unknown

Partial == BudgetExhausted \/ Tally.analyzed < Effective

-----------------------------------------------------------------------------
(* Properties, of the run once the pool has delivered.                     *)

\* What coverage.partial promises, and no more: in a run it does not mark, each
\* of the first MaxEntries functions of every unit was tried and, unless EVA
\* does not know it, analysed to the end.  A function past that cap is never
\* tried and leaves no trace in `partial`: also such a run has a floor of
\* findings and no volume (frama_c.py:33-35).
NotPartialMeansAll ==
  main = "done" /\ ~Partial =>
    \A t \in 1..TUs : \A d \in 1..Defined[t] :
      d <= MaxEntries =>
        \E k \in Items : /\ RoundRobin[k] = <<t, d>> /\ job[k] = "result"
                         /\ outcome[k].rc = 0 \/ Expected(outcome[k]) = "unknown entry"

\* frama_c.py:19-21: an exhausted budget leaves a shallow scan of the whole
\* codebase.  A unit whose entry is left out while another unit's deeper one
\* ran lost it to the race at the end of the budget, at most Jobs - 1 times.
ShallowScan ==
  Cardinality({k \in InState({"skipped"}) :
                 \E m \in Ran : RoundRobin[k][2] < RoundRobin[m][2]}) <= Jobs - 1

=============================================================================
