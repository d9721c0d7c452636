--------------------------- MODULE ToolPool_proofs ---------------------------
(***************************************************************************)
(* Proofs about ToolPool, for every number of items and workers: type      *)
(* correctness, the order of the results, that nothing outlives the pool,  *)
(* that a call never waits for itself and has finitely many steps, and     *)
(* that it implements SequentialMap.                                       *)
(***************************************************************************)
EXTENDS ToolPool, Ranks_proofs

\* The futures exist up to the last submitted item, and all of them do once
\* map has returned.
SubmittedInv ==
  /\ \A k \in Items : job[k] = "new" <=> submitted < k
  /\ main # "submitting" => submitted = N

\* What list() has taken: a prefix of the items, all of which have ended.
CollectedInv ==
  /\ \A m \in 1..Len(results) : results[m] = m /\ job[m] \in {"result", "skipped"}
  /\ main = "done" => Len(results) = N

\* The queue is empty when the with block is being left, the workers are
\* idle when it has been left.
ClosedInv ==
  /\ main \in {"closing", "done", "raised"} => \A k \in Items : job[k] # "queued"
  /\ Over => \A k \in Items : job[k] \notin {"taken", "running"}

\* A call that is being left before the last result met the item that failed.
FailedInv ==
  main \in {"failing", "closing", "raised"} =>
    \/ Len(results) = N /\ main = "closing"
    \/ Len(results) < N /\ job[Len(results) + 1] = "error"

\* A future with a result has one that the tool may have.
AnsweredInv == \A k \in Items : job[k] = "result" => outcome[k] \in Outcomes

IInv == TypeOK /\ SubmittedInv /\ CollectedInv /\ ClosedInv /\ FailedInv /\ AnsweredInv

LEMMA InitIInv == Init => IInv
<1>1. SUFFICES ASSUME Init PROVE IInv
  OBVIOUS
<1>2. TypeOK
  <2>1. results \in Seq(Items) /\ Len(results) = 0
    BY <1>1 DEF Init
  <2>2. main = "submitting" /\ submitted \in 0..N /\ Len(results) <= N
    BY <1>1, <2>1, NAssumption DEF Init
  <2>3. late \in BOOLEAN
    BY <1>1 DEF Init
  <2>4. /\ job \in [Items -> {"new", "queued", "taken", "running", "result",
                            "skipped", "error", "cancelled"}]
        /\ outcome \in [Items -> Outcomes \cup {NoOutcome}]
    BY <1>1 DEF Init
  <2> QED
    BY <2>1, <2>2, <2>3, <2>4 DEF TypeOK
<1>3. SubmittedInv
  BY <1>1, NAssumption DEF Init, SubmittedInv, Items
<1>4. CollectedInv /\ ClosedInv /\ FailedInv /\ AnsweredInv
  BY <1>1 DEF Init, CollectedInv, ClosedInv, FailedInv, AnsweredInv, Over
<1> QED
  BY <1>2, <1>3, <1>4 DEF IInv

\* The steps of the calling thread.
LEMMA CallerIInv == ASSUME IInv, Caller PROVE IInv'
<1> USE NAssumption DEF IInv
<1>1. CASE Submit
  <2>1. submitted' \in Items /\ job[submitted'] = "new"
    BY <1>1 DEF Submit, TypeOK, SubmittedInv, Items
  <2>2. job' \in [Items -> {"new", "queued", "taken", "running", "result",
                            "skipped", "error", "cancelled"}]
    BY <1>1, <2>1 DEF Submit, TypeOK
  <2>3. TypeOK'
    BY <1>1, <2>1, <2>2 DEF Submit, TypeOK, Items
  <2>4. SubmittedInv'
    BY <1>1, <2>1 DEF Submit, TypeOK, SubmittedInv, Items
  <2>5. CollectedInv' /\ ClosedInv' /\ FailedInv' /\ AnsweredInv'
    BY <1>1, <2>1 DEF Submit, TypeOK, CollectedInv, ClosedInv, FailedInv, AnsweredInv, Over
  <2> QED
    BY <2>3, <2>4, <2>5
<1>2. CASE Submitted
  <2>1. TypeOK' /\ SubmittedInv'
    BY <1>2 DEF Submitted, TypeOK, SubmittedInv
  <2>2. CollectedInv' /\ ClosedInv' /\ FailedInv' /\ AnsweredInv'
    BY <1>2 DEF Submitted, CollectedInv, ClosedInv, FailedInv, AnsweredInv, Over
  <2> QED
    BY <2>1, <2>2
<1>3. CASE Collect
  <2> DEFINE k == Len(results) + 1
  <2>1. /\ k \in Items /\ job[k] \in {"result", "skipped"}
        /\ results' = Append(results, k) /\ main = "collecting"
        /\ UNCHANGED <<main, submitted, job, outcome, late>>
    BY <1>3 DEF Collect, TypeOK, Items
  <2>2. results' \in Seq(Items) /\ Len(results') = k /\ k <= N
    BY <2>1 DEF TypeOK, Items
  <2>3. \A m \in 1..k : results'[m] = m
    BY <2>1 DEF TypeOK, CollectedInv
  <2>4. TypeOK'
    BY <2>1, <2>2 DEF TypeOK
  <2>5. CollectedInv'
    BY <2>1, <2>2, <2>3, <2>4 DEF TypeOK, CollectedInv
  <2>6. SubmittedInv' /\ ClosedInv' /\ FailedInv' /\ AnsweredInv'
    BY <2>1 DEF SubmittedInv, ClosedInv, FailedInv, AnsweredInv, Over, Items
  <2> QED
    BY <2>4, <2>5, <2>6
<1>4. CASE CollectError
  BY <1>4 DEF CollectError, TypeOK, SubmittedInv, CollectedInv, ClosedInv, FailedInv, AnsweredInv, Over
<1>5. CASE Cancel
  <2>1. PICK q \in Items : job[q] = "queued" /\ job' = [job EXCEPT ![q] = "cancelled"]
    BY <1>5 DEF Cancel, InState
  <2>2. TypeOK' /\ SubmittedInv' /\ main = "failing"
    BY <1>5, <2>1 DEF Cancel, TypeOK, SubmittedInv
  <2>3. CollectedInv' /\ ClosedInv'
    BY <1>5, <2>1, <2>2 DEF Cancel, TypeOK, CollectedInv, ClosedInv, Over
  <2>4. FailedInv' /\ AnsweredInv'
    BY <1>5, <2>1, <2>2 DEF Cancel, TypeOK, FailedInv, AnsweredInv, Items
  <2> QED
    BY <2>2, <2>3, <2>4
<1>6. CASE Close
  <2>1. main' = "closing" /\ UNCHANGED <<submitted, job, outcome, late, results>>
    BY <1>6 DEF Close
  <2>2. \A k \in Items : job[k] # "queued"
    <3>1. CASE Len(results) = N
      BY <3>1 DEF CollectedInv, Items
    <3>2. CASE InState({"queued"}) = {}
      BY <3>2 DEF InState
    <3> QED
      BY <1>6, <3>1, <3>2 DEF Close
  <2>3. TypeOK' /\ SubmittedInv' /\ CollectedInv'
    BY <1>6, <2>1 DEF Close, TypeOK, SubmittedInv, CollectedInv
  <2>4. FailedInv' /\ AnsweredInv'
    BY <1>6, <2>1 DEF Close, FailedInv, AnsweredInv
  <2> QED
    BY <2>1, <2>2, <2>3, <2>4 DEF ClosedInv, Over
<1>7. CASE Shutdown
  <2>1. /\ main = "closing" /\ main' \in {"done", "raised"}
        /\ main' = "done" => Len(results) = N
        /\ UNCHANGED <<submitted, job, outcome, late, results>>
    BY <1>7 DEF Shutdown
  <2>2. \A k \in Items : job[k] \notin {"taken", "running"}
    BY <1>7 DEF Shutdown, Active, InState
  <2>3. TypeOK' /\ SubmittedInv' /\ CollectedInv'
    BY <2>1 DEF TypeOK, SubmittedInv, CollectedInv
  <2>4. FailedInv' /\ AnsweredInv'
    BY <1>7, <2>1 DEF Shutdown, FailedInv, AnsweredInv
  <2> QED
    BY <2>1, <2>2, <2>3, <2>4 DEF ClosedInv, Over
<1> QED
  BY <1>1, <1>2, <1>3, <1>4, <1>5, <1>6, <1>7 DEF Caller

\* The steps of a worker: an item moves on, from a state in which the call is
\* not over, to one that is not queued.
LEMMA WorkerIInv == ASSUME IInv, NEW k \in Items, Worker(k) PROVE IInv'
<1> USE NAssumption DEF IInv
<1>1. /\ job[k] \in {"queued", "taken", "running"} /\ UNCHANGED <<main, submitted, late, results>>
      /\ \E s \in {"taken", "running", "skipped", "error", "result"} :
           /\ job' = [job EXCEPT ![k] = s]
           /\ s \in {"taken", "running"} => job[k] \in {"queued", "taken"}
  BY DEF Worker, Take, Begin, End
<1>2. outcome' \in [Items -> Outcomes \cup {NoOutcome}]
  <2>1. CASE UNCHANGED outcome
    BY <2>1 DEF TypeOK
  <2>2. CASE \E o \in Outcomes : outcome' = [outcome EXCEPT ![k] = o]
    BY <2>2 DEF TypeOK
  <2> QED
    BY <2>1, <2>2 DEF Worker, Take, Begin, End
<1>3. TypeOK'
  BY <1>1, <1>2 DEF TypeOK
<1>4. ~Over
  BY <1>1 DEF ClosedInv, Over
<1>5. SubmittedInv'
  BY <1>1 DEF TypeOK, SubmittedInv
<1>6. CollectedInv'
  <2>1. \A m \in 1..Len(results) : m \in Items /\ m # k
    BY <1>1 DEF TypeOK, CollectedInv, Items
  <2> QED
    BY <1>1, <2>1 DEF TypeOK, CollectedInv
<1>7. ClosedInv'
  BY <1>1, <1>4 DEF TypeOK, ClosedInv, Over
<1>8. FailedInv'
  BY <1>1 DEF TypeOK, FailedInv, Items
<1>9. AnsweredInv'
  BY DEF Worker, Take, Begin, End, TypeOK, AnsweredInv
<1> QED
  BY <1>3, <1>5, <1>6, <1>7, <1>8, <1>9

THEOREM Inductive == Spec => []IInv
<1>1. ASSUME IInv, BudgetEnds PROVE IInv'
  BY <1>1 DEF IInv, BudgetEnds, TypeOK, SubmittedInv, CollectedInv, ClosedInv, FailedInv, AnsweredInv, Over
<1>2. ASSUME IInv, UNCHANGED vars PROVE IInv'
  BY <1>2 DEF IInv, vars, TypeOK, SubmittedInv, CollectedInv, ClosedInv, FailedInv, AnsweredInv, Over
<1>3. IInv /\ [Next]_vars => IInv'
  BY <1>1, <1>2, CallerIInv, WorkerIInv DEF Next
<1> QED
  BY InitIInv, <1>3, PTL DEF Spec

\* Type correctness of the pool, for any number of items and workers.
THEOREM PoolTypeCorrect == Spec => []TypeOK
<1>1. IInv => TypeOK
  BY DEF IInv
<1> QED
  BY <1>1, Inductive, PTL

\* Whatever the workers do, list(pool.map(one, items)) hands on the results
\* of a prefix of the items in their order, and of all of them if it returns.
THEOREM PoolKeepsOrder == Spec => []ResultsInItemOrder
<1>1. IInv => ResultsInItemOrder
  BY DEF IInv, TypeOK, CollectedInv, ResultsInItemOrder
<1> QED
  BY <1>1, Inductive, PTL

\* After the with block no invocation runs, and none can start.
THEOREM PoolLeavesNothing == Spec => []NothingOutlivesThePool
<1>1. IInv => NothingOutlivesThePool
  BY DEF IInv, ClosedInv, Over, NothingOutlivesThePool, Active, InState
<1> QED
  BY <1>1, Inductive, PTL

-----------------------------------------------------------------------------
(* Progress: what PoolEnds rests on, for any number of items and workers.  *)

LEMMA SetsAreFinite ==
  ASSUME NEW S \in SUBSET Items
  PROVE  IsFiniteSet(S) /\ Cardinality(S) \in Nat
<1>1. IsFiniteSet(Items)
  BY NAssumption, FS_Interval DEF Items
<1> QED
  BY <1>1, FS_Subset, FS_CardinalityType

LEMMA FewerItems ==
  ASSUME NEW S \in SUBSET Items, NEW T \in SUBSET S
  PROVE  Cardinality(T) <= Cardinality(S)
BY SetsAreFinite, FS_Subset

\* A future is cancelled only when the call is failing.
CancelledInv == \A k \in Items : job[k] = "cancelled" => main \notin {"submitting", "collecting"}

LEMMA CancelledHolds == Spec => []CancelledInv
<1>1. Init => CancelledInv
  BY DEF Init, CancelledInv
<1>2. ASSUME IInv, CancelledInv, [Next]_vars PROVE CancelledInv'
  <2> USE DEF IInv
  <2>1. CASE Submit
    <3>1. submitted + 1 \in Items
      BY <1>2, <2>1, NAssumption DEF Submit, TypeOK, Items
    <3> QED
      BY <1>2, <2>1, <3>1 DEF Submit, TypeOK, CancelledInv
  <2>2. CASE Cancel
    BY <1>2, <2>2 DEF Cancel, CancelledInv
  <2>3. CASE Submitted \/ Collect \/ CollectError \/ Close \/ Shutdown \/ BudgetEnds \/ UNCHANGED vars
    BY <1>2, <2>3 DEF Submitted, Collect, CollectError, Close, Shutdown, BudgetEnds, vars, CancelledInv
  <2>4. ASSUME NEW k \in Items, Worker(k) PROVE CancelledInv'
    BY <1>2, <2>4 DEF Worker, Take, Begin, End, TypeOK, CancelledInv
  <2> QED
    BY <1>2, <2>1, <2>2, <2>3, <2>4 DEF Next, Caller
<1> QED
  BY <1>1, <1>2, Inductive, PTL DEF Spec

\* An action of Next has its guard.
CanGoOn ==
  \/ main = "submitting"
  \/ main = "collecting" /\ Len(results) = N
  \/ main = "collecting" /\ job[Len(results) + 1] \in {"result", "skipped", "error"}
  \/ main = "failing" /\ InState({"queued"}) = {}
  \/ main = "failing" /\ \E k \in InState({"queued"}) : \A m \in InState({"queued"}) : m <= k
  \/ main = "closing" /\ Active = {}
  \/ \E k \in Items : job[k] \in {"taken", "running"}
  \/ /\ Cardinality(Active) < Jobs
     /\ \E k \in InState({"queued"}) : \A m \in InState({"queued"}) : k <= m

\* The caller of list(pool.map(one, items)) and the workers (clang_tidy.py,
\* cppcheck.py, frama_c.py) never all wait for each other: until the call is
\* over one of them can go on, however many there are and whatever has raised.
THEOREM PoolNeverStuck == Spec => [](~Over => CanGoOn)
<1>1. ASSUME IInv, CancelledInv, ~Over PROVE CanGoOn
  <2> DEFINE queue == InState({"queued"})
  <2>1. queue \in SUBSET Items /\ queue \in SUBSET Nat
    BY DEF InState, Items
  <2>2. IsFiniteSet(queue)
    BY <2>1, SetsAreFinite
  <2>3. CASE Active # {}
    BY <2>3 DEF Active, InState, CanGoOn
  <2>4. CASE Active = {} /\ queue = {}
    <3>1. CASE main = "collecting" /\ Len(results) # N
      <4>1. Len(results) + 1 \in Items
        BY <1>1, <3>1, NAssumption DEF IInv, TypeOK, Items
      <4>2. submitted = N
        BY <1>1, <3>1 DEF IInv, SubmittedInv
      <4>3. job[Len(results) + 1] \notin {"new", "queued", "taken", "running", "cancelled"}
        BY <1>1, <2>4, <3>1, <4>1, <4>2, NAssumption
           DEF IInv, SubmittedInv, CancelledInv, Active, InState, Items
      <4> QED
        BY <1>1, <3>1, <4>1, <4>3 DEF IInv, TypeOK, CanGoOn
    <3> QED
      BY <1>1, <2>4, <3>1 DEF IInv, TypeOK, Over, CanGoOn
  <2>5. CASE Active = {} /\ queue # {}
    <3>1. Cardinality(Active) = 0
      BY <2>5, FS_EmptySet, Zenon
    <3>2. \E k \in queue : \A m \in queue : k <= m
      BY <2>1, <2>2, <2>5, NatRanks, Zenon
    <3> QED
      BY <3>1, <3>2, JobsAssumption DEF CanGoOn
  <2> QED
    BY <2>3, <2>4, <2>5
<1> QED
  BY <1>1, Inductive, CancelledHolds, PTL

\* The steps that are left at most: of the items, from the queue to their end,
\* of the list, of the call, and of the clock.
CallerLeft == [submitting |-> 4, collecting |-> 3, failing |-> 2, closing |-> 1,
               done |-> 0, raised |-> 0][main]
StepsLeft ==
  Cardinality(InState({"new"})) + Cardinality(InState({"new", "queued"}))
  + Cardinality(InState({"new", "queued", "taken"}))
  + Cardinality(InState({"new", "queued", "taken", "running"}))
  + (N - Len(results)) + CallerLeft + (IF late THEN 0 ELSE 1)

LEMMA Strictly ==
  ASSUME NEW S \in SUBSET Items, NEW T \in SUBSET S
  PROVE  /\ Cardinality(S) \in Nat /\ Cardinality(T) \in Nat /\ Cardinality(T) <= Cardinality(S)
         /\ S # T => Cardinality(T) < Cardinality(S)
<1>1. IsFiniteSet(S) /\ Cardinality(S) \in Nat /\ Cardinality(T) \in Nat
  BY SetsAreFinite
<1>2. Cardinality(T) <= Cardinality(S) /\ (Cardinality(S) = Cardinality(T) => S = T)
  BY <1>1, FS_Subset
<1> QED
  BY <1>1, <1>2

\* A step that moves an item on takes one from a count.
LEMMA ItemMoves ==
  ASSUME IInv, UNCHANGED <<main, late, results>>, NEW k \in Items,
         \A j \in Items \ {k} : job'[j] = job[j],
         \/ job[k] = "new" /\ job'[k] = "queued"
         \/ job[k] = "queued" /\ job'[k] \in {"taken", "cancelled"}
         \/ job[k] = "taken" /\ job'[k] \in {"running", "skipped", "error"}
         \/ job[k] = "running" /\ job'[k] \in {"result", "error"}
  PROVE  StepsLeft \in Nat /\ StepsLeft' \in Nat /\ StepsLeft' < StepsLeft
<1> DEFINE A == InState({"new"})
           B == InState({"new", "queued"})
           C == InState({"new", "queued", "taken"})
           D == InState({"new", "queued", "taken", "running"})
<1>1. /\ A \in SUBSET Items /\ B \in SUBSET Items /\ C \in SUBSET Items /\ D \in SUBSET Items
      /\ A' \in SUBSET A /\ B' \in SUBSET B /\ C' \in SUBSET C /\ D' \in SUBSET D
      /\ A # A' \/ B # B' \/ C # C' \/ D # D'
  BY DEF InState
<1> DEFINE rest == (N - Len(results)) + CallerLeft + (IF late THEN 0 ELSE 1)
<1>2. rest \in Nat /\ rest' = rest
  BY NAssumption DEF IInv, TypeOK, CallerLeft
<1> HIDE DEF A, B, C, D
<1>3. /\ Cardinality(A) \in Nat /\ Cardinality(A') \in Nat /\ Cardinality(A') <= Cardinality(A)
      /\ A # A' => Cardinality(A') < Cardinality(A)
  BY <1>1, Strictly
<1>4. /\ Cardinality(B) \in Nat /\ Cardinality(B') \in Nat /\ Cardinality(B') <= Cardinality(B)
      /\ B # B' => Cardinality(B') < Cardinality(B)
  BY <1>1, Strictly
<1>5. /\ Cardinality(C) \in Nat /\ Cardinality(C') \in Nat /\ Cardinality(C') <= Cardinality(C)
      /\ C # C' => Cardinality(C') < Cardinality(C)
  BY <1>1, Strictly
<1>6. /\ Cardinality(D) \in Nat /\ Cardinality(D') \in Nat /\ Cardinality(D') <= Cardinality(D)
      /\ D # D' => Cardinality(D') < Cardinality(D)
  BY <1>1, Strictly
<1>7. /\ StepsLeft = Cardinality(A) + Cardinality(B) + Cardinality(C) + Cardinality(D) + rest
      /\ StepsLeft' = Cardinality(A') + Cardinality(B') + Cardinality(C') + Cardinality(D') + rest'
  <2>1. /\ Cardinality(A) + Cardinality(B) + Cardinality(C) + Cardinality(D) \in Nat
        /\ Cardinality(A') + Cardinality(B') + Cardinality(C') + Cardinality(D') \in Nat
    BY <1>3, <1>4, <1>5, <1>6
  <2>2. /\ N - Len(results) \in Int /\ CallerLeft \in Int
        /\ UNCHANGED <<N - Len(results), CallerLeft>>
    BY NAssumption DEF IInv, TypeOK, CallerLeft
  <2> QED
    BY <2>1, <2>2 DEF StepsLeft, A, B, C, D
<1>8. \/ Cardinality(A') < Cardinality(A) \/ Cardinality(B') < Cardinality(B)
      \/ Cardinality(C') < Cardinality(C) \/ Cardinality(D') < Cardinality(D)
  BY <1>1, <1>3, <1>4, <1>5, <1>6
<1> HIDE DEF rest
<1> QED
  BY <1>2, <1>3, <1>4, <1>5, <1>6, <1>7, <1>8

\* Any other step is one of the list, of the call or of the clock.
LEMMA CallMoves ==
  ASSUME IInv, UNCHANGED job, IInv',
         \/ UNCHANGED <<main, late>> /\ Len(results') = Len(results) + 1
         \/ UNCHANGED <<late, results>> /\ CallerLeft' < CallerLeft
         \/ UNCHANGED <<main, results>> /\ ~late /\ late'
  PROVE  StepsLeft \in Nat /\ StepsLeft' \in Nat /\ StepsLeft' < StepsLeft
<1> DEFINE items == Cardinality(InState({"new"})) + Cardinality(InState({"new", "queued"}))
                      + Cardinality(InState({"new", "queued", "taken"}))
                      + Cardinality(InState({"new", "queued", "taken", "running"}))
<1>1. items \in Nat
  <2>1. /\ InState({"new"}) \in SUBSET Items /\ InState({"new", "queued"}) \in SUBSET Items
        /\ InState({"new", "queued", "taken"}) \in SUBSET Items
        /\ InState({"new", "queued", "taken", "running"}) \in SUBSET Items
    BY DEF InState
  <2>2. /\ Cardinality(InState({"new"})) \in Nat
        /\ Cardinality(InState({"new", "queued"})) \in Nat
        /\ Cardinality(InState({"new", "queued", "taken"})) \in Nat
        /\ Cardinality(InState({"new", "queued", "taken", "running"})) \in Nat
    BY <2>1, SetsAreFinite
  <2> QED
    BY <2>2
<1>2. UNCHANGED items
  BY DEF InState
<1> HIDE DEF items
<1>3. /\ N - Len(results) \in Nat /\ N - Len(results') \in Nat
      /\ CallerLeft \in Nat /\ CallerLeft' \in Nat
  BY NAssumption DEF IInv, TypeOK, CallerLeft
<1>4. main' = main => CallerLeft' = CallerLeft
  BY DEF CallerLeft
<1>5. /\ StepsLeft = items + (N - Len(results)) + CallerLeft + (IF late THEN 0 ELSE 1)
      /\ StepsLeft' = items + (N - Len(results')) + CallerLeft' + (IF late' THEN 0 ELSE 1)
  BY <1>2 DEF StepsLeft, items
<1>6. Len(results) \in Nat /\ Len(results') \in Nat /\ N \in Nat
  BY NAssumption DEF IInv, TypeOK
<1> QED
  BY <1>1, <1>3, <1>4, <1>5, <1>6

\* Every step of list(pool.map(one, items)) uses up one of the 5 * N + 5 that a
\* call begins with.  With PoolNeverStuck: a call whose threads are scheduled,
\* and whose invocations end, is over after so many steps, however many
\* workers (clang_tidy.py, cppcheck.py, frama_c.py) there are.
THEOREM PoolStepsRunOut ==
  Spec => /\ StepsLeft = 5 * N + 5
          /\ [][StepsLeft' \in Nat /\ StepsLeft' < StepsLeft]_vars
<1>0. ASSUME Init PROVE StepsLeft = 5 * N + 5
  <2>1. /\ InState({"new"}) = Items /\ InState({"new", "queued"}) = Items
        /\ InState({"new", "queued", "taken"}) = Items
        /\ InState({"new", "queued", "taken", "running"}) = Items
    BY <1>0 DEF Init, InState
  <2>2. Cardinality(Items) = N
    BY NAssumption, FS_Interval DEF Items
  <2>3. /\ Cardinality(InState({"new"})) = N /\ Cardinality(InState({"new", "queued"})) = N
        /\ Cardinality(InState({"new", "queued", "taken"})) = N
        /\ Cardinality(InState({"new", "queued", "taken", "running"})) = N
    BY <2>1, <2>2, Zenon
  <2>4. N - Len(results) = N /\ CallerLeft = 4 /\ (IF late THEN 0 ELSE 1) = 1
    BY <1>0, NAssumption DEF Init, CallerLeft
  <2> QED
    BY <2>3, <2>4, NAssumption DEF StepsLeft
<1>1. ASSUME IInv, Next, IInv' PROVE StepsLeft' \in Nat /\ StepsLeft' < StepsLeft
  <2> USE DEF IInv
  <2>1. CASE Submit
    <3>1. submitted + 1 \in Items /\ job[submitted + 1] = "new"
      BY <1>1, <2>1, NAssumption DEF Submit, TypeOK, SubmittedInv, Items
    <3>2. /\ job'[submitted + 1] = "queued" /\ UNCHANGED <<main, late, results>>
          /\ \A j \in Items \ {submitted + 1} : job'[j] = job[j]
      BY <1>1, <2>1, <3>1 DEF Submit, TypeOK
    <3> QED
      BY <1>1, <3>1, <3>2, ItemMoves
  <2>2. CASE Cancel
    <3>1. PICK q \in Items : job[q] = "queued" /\ job' = [job EXCEPT ![q] = "cancelled"]
      BY <2>2 DEF Cancel, InState
    <3>2. /\ job'[q] = "cancelled" /\ UNCHANGED <<main, late, results>>
          /\ \A j \in Items \ {q} : job'[j] = job[j]
      BY <1>1, <2>2, <3>1 DEF Cancel, TypeOK
    <3> QED
      BY <1>1, <3>1, <3>2, ItemMoves
  <2>3. CASE Collect
    BY <1>1, <2>3, CallMoves DEF Collect, TypeOK
  <2>4. CASE Submitted \/ CollectError \/ Close \/ Shutdown
    <3>1. UNCHANGED <<job, late, results>> /\ CallerLeft' < CallerLeft
      BY <2>4 DEF Submitted, CollectError, Close, Shutdown, CallerLeft
    <3> QED
      BY <1>1, <3>1, CallMoves
  <2>5. CASE BudgetEnds
    BY <1>1, <2>5, CallMoves DEF BudgetEnds
  <2>6. ASSUME NEW k \in Items, Worker(k) PROVE StepsLeft' \in Nat /\ StepsLeft' < StepsLeft
    <3>1. /\ UNCHANGED <<main, late, results>>
          /\ \A j \in Items \ {k} : job'[j] = job[j]
          /\ \/ job[k] = "queued" /\ job'[k] \in {"taken", "cancelled"}
             \/ job[k] = "taken" /\ job'[k] \in {"running", "skipped", "error"}
             \/ job[k] = "running" /\ job'[k] \in {"result", "error"}
      BY <1>1, <2>6 DEF Worker, Take, Begin, End, TypeOK
    <3> QED
      BY <1>1, <3>1, ItemMoves
  <2> QED
    BY <1>1, <2>1, <2>2, <2>3, <2>4, <2>5, <2>6 DEF Next, Caller
<1>2. ASSUME IInv, [Next]_vars, IInv' PROVE [StepsLeft' \in Nat /\ StepsLeft' < StepsLeft]_vars
  BY <1>1, <1>2
<1> QED
  BY <1>0, <1>2, Inductive, PTL DEF Spec

-----------------------------------------------------------------------------
(* The refinement of SequentialMap.                                        *)

answers == [k \in Items |-> Answer(k)]
list    == [m \in DOMAIN results |-> Answer(results[m])]
ended   == CASE main = "done" -> "returned" [] main = "raised" -> "raised" [] OTHER -> "no"

LoopAnswers == [is : {"value"}, of : Outcomes] \cup {[is |-> "skipped", of |-> NoOutcome]}
LoopFailed  == [is |-> "failed", of |-> NoOutcome]
LoopNotYet  == [is |-> "none", of |-> NoOutcome]

LEMMA LoopInit == Init => Loop!Init
  BY DEF Init, Loop!Init, Answer, Items

\* The list is that of the answers of the items in front.
LEMMA ListIsPrefix ==
  ASSUME IInv
  PROVE  /\ list \in Seq({Answer(k) : k \in Items}) /\ Len(list) = Len(results)
         /\ \A m \in 1..Len(results) : m \in Items /\ list[m] = Answer(m)
<1>1. \A m \in 1..Len(results) : m \in Items /\ results[m] = m
  BY NAssumption DEF IInv, TypeOK, CollectedInv, Items
<1>2. DOMAIN results = 1..Len(results) /\ Len(results) \in Nat
  BY DEF IInv, TypeOK
<1> QED
  BY <1>1, <1>2 DEF list

\* A step that gives no item an answer, delivers none and does not end the
\* call is a stutter.
LEMMA LoopQuiet ==
  ASSUME \A k \in Items : Answer(k)' = Answer(k), UNCHANGED results,
         IInv, ended' = ended
  PROVE  UNCHANGED Loop!vars
<1>1. \A m \in DOMAIN results : results[m] \in Items
  BY DEF IInv, TypeOK
<1>2. [k \in Items |-> Answer(k)]' = [k \in Items |-> Answer(k)]
  OBVIOUS
<1>3. [m \in DOMAIN results |-> Answer(results[m])]' = [m \in DOMAIN results |-> Answer(results[m])]
  BY <1>1
<1> QED
  BY <1>2, <1>3 DEF Loop!vars, ended

\* The steps of the calling thread: Collect delivers, Shutdown ends the call.
LEMMA CallerLoop == ASSUME IInv, Caller PROVE Loop!Next \/ UNCHANGED Loop!vars
<1> USE NAssumption
<1>1. CASE Submit
  <2>1. submitted' \in Items /\ job[submitted'] = "new" /\ main = "submitting"
        /\ job' = [job EXCEPT ![submitted'] = "queued"] /\ UNCHANGED <<main, outcome, results>>
    BY <1>1 DEF Submit, IInv, TypeOK, SubmittedInv, Items
  <2>2. \A k \in Items : Answer(k)' = Answer(k)
    BY <2>1 DEF Answer, IInv, TypeOK
  <2> QED
    BY <2>1, <2>2, LoopQuiet DEF ended
<1>2. CASE Submitted \/ CollectError \/ Close
  <2>1. UNCHANGED <<job, outcome, results>> /\ ended' = ended
    BY <1>2 DEF Submitted, CollectError, Close, ended
  <2>2. \A k \in Items : Answer(k)' = Answer(k)
    BY <2>1 DEF Answer
  <2> QED
    BY <2>1, <2>2, LoopQuiet
<1>3. CASE Cancel
  <2>1. PICK q \in Items : job[q] = "queued" /\ job' = [job EXCEPT ![q] = "cancelled"]
    BY <1>3 DEF Cancel, InState
  <2>2. \A k \in Items : Answer(k)' = Answer(k)
    BY <1>3, <2>1 DEF Cancel, Answer, IInv, TypeOK
  <2>3. UNCHANGED results /\ ended' = ended
    BY <1>3 DEF Cancel, ended
  <2> QED
    BY <2>2, <2>3, LoopQuiet
<1>4. CASE Collect
  <2> DEFINE n == Len(results) + 1
  <2>1. /\ n \in Items /\ n <= N /\ job[n] \in {"result", "skipped"} /\ main = "collecting"
        /\ results' = Append(results, n) /\ UNCHANGED <<main, job, outcome>>
    BY <1>4 DEF Collect, IInv, TypeOK, Items
  <2>2. Answer(n) \in LoopAnswers
    BY <2>1 DEF Answer, LoopAnswers, IInv, AnsweredInv
  <2>3. answers[n] = Answer(n) /\ UNCHANGED answers
    BY <2>1 DEF answers, Answer
  <2>4. list' = Append(list, answers[n])
    <3>1. /\ DOMAIN results' = 1..n /\ results'[n] = n /\ Len(results) \in Nat
          /\ \A m \in 1..Len(results) : results'[m] = m /\ results[m] = m
      BY <2>1 DEF IInv, TypeOK, CollectedInv
    <3>2. list' = [m \in 1..n |-> Answer(results'[m])]
      BY <2>1, <3>1 DEF list, Answer
    <3>3. list' = [m \in 1..n |-> Answer(m)]
      BY <3>1, <3>2
    <3>4. Append(list, answers[n]) = [m \in 1..n |-> IF m = n THEN answers[n] ELSE list[m]]
      BY <3>1, ListIsPrefix
    <3>5. \A m \in 1..n : m # n => m \in 1..Len(results)
      BY <3>1
    <3>6. [m \in 1..n |-> IF m = n THEN answers[n] ELSE list[m]] = [m \in 1..n |-> Answer(m)]
      BY <2>3, <3>5, ListIsPrefix
    <3> QED
      BY <3>3, <3>4, <3>6
  <2>5. ended = "no" /\ ended' = "no"
    BY <2>1 DEF ended
  <2>6. Len(list) = Len(results)
    BY ListIsPrefix
  <2>7. Loop!Deliver
    BY <2>1, <2>2, <2>3, <2>4, <2>5, <2>6 DEF Loop!Deliver, answers, list, ended, LoopAnswers
  <2> QED
    BY <2>7 DEF Loop!Next
<1>5. CASE Shutdown
  <2>1. /\ main = "closing" /\ UNCHANGED <<job, outcome, results>>
        /\ main' = IF Len(results) = N THEN "done" ELSE "raised"
    BY <1>5 DEF Shutdown
  <2>2. UNCHANGED answers /\ UNCHANGED list /\ ended = "no"
    BY <2>1 DEF answers, list, Answer, ended
  <2>3. CASE Len(results) = N
    <3>1. Loop!Return
      BY <2>1, <2>2, <2>3, ListIsPrefix DEF Loop!Return, answers, list, ended
    <3> QED
      BY <3>1 DEF Loop!Next
  <2>4. CASE Len(results) # N
    <3>1. Len(results) < N /\ job[Len(results) + 1] = "error" /\ Len(results) + 1 \in Items
      BY <2>1, <2>4 DEF IInv, TypeOK, FailedInv, Items
    <3>2. answers[Len(results) + 1] = LoopFailed
      BY <3>1 DEF answers, Answer, LoopFailed
    <3>3. Loop!Raise
      BY <2>1, <2>2, <2>4, <3>1, <3>2, ListIsPrefix DEF Loop!Raise, answers, list, ended, LoopFailed
    <3> QED
      BY <3>3 DEF Loop!Next
  <2> QED
    BY <2>3, <2>4
<1> QED
  BY <1>1, <1>2, <1>3, <1>4, <1>5 DEF Caller

\* The steps of a worker: an invocation that ends settles its item.
LEMMA WorkerLoop ==
  ASSUME IInv, NEW k \in Items, Worker(k) PROVE Loop!Next \/ UNCHANGED Loop!vars
<1>1. /\ job[k] \in {"queued", "taken", "running"} /\ UNCHANGED <<main, results>>
      /\ \A m \in Items \ {k} : job'[m] = job[m] /\ outcome'[m] = outcome[m]
      /\ job'[k] \in {"taken", "running", "skipped", "error", "result"}
      /\ job'[k] = "result" => outcome'[k] \in Outcomes
  BY DEF Worker, Take, Begin, End, IInv, TypeOK
<1>2. ended' = ended /\ ended = "no" /\ main \notin {"done", "raised"}
  BY <1>1 DEF ended, IInv, ClosedInv, Over
<1>3. \A m \in Items \ {k} : Answer(m)' = Answer(m)
  BY <1>1 DEF Answer
<1>4. Answer(k) = LoopNotYet
  BY <1>1 DEF Answer, LoopNotYet
<1>5. CASE job'[k] \in {"taken", "running"}
  <2>1. Answer(k)' = LoopNotYet
    BY <1>5 DEF Answer, LoopNotYet
  <2> QED
    BY <1>1, <1>2, <1>3, <1>4, <2>1, LoopQuiet
<1>6. CASE job'[k] \in {"skipped", "error", "result"}
  <2>1. Answer(k)' \in LoopAnswers \cup {LoopFailed}
    BY <1>1, <1>6 DEF Answer, LoopAnswers, LoopFailed
  <2>2. answers' = [answers EXCEPT ![k] = Answer(k)']
    BY <1>3 DEF answers
  <2>3. UNCHANGED list
    <3>1. \A m \in DOMAIN results : results[m] \in Items \ {k}
      BY <1>1, NAssumption DEF IInv, TypeOK, CollectedInv
    <3> QED
      BY <1>1, <1>3, <3>1 DEF list
  <2>4. answers[k] = LoopNotYet
    BY <1>4 DEF answers
  <2>5. Loop!Settle(k)
    BY <1>2, <2>1, <2>2, <2>3, <2>4
       DEF Loop!Settle, answers, list, ended, LoopAnswers, LoopFailed, LoopNotYet
  <2> QED
    BY <2>5 DEF Loop!Next, Items
<1> QED
  BY <1>1, <1>5, <1>6

\* For any number of items and workers, the pool gives its caller what a loop
\* over the items would have, and nothing happens after the call.
THEOREM RefinesLoop == Spec => ActsAsLoop
<1>1. ASSUME IInv, BudgetEnds \/ UNCHANGED vars PROVE UNCHANGED Loop!vars
  <2>1. UNCHANGED <<main, job, outcome, results>>
    BY <1>1 DEF BudgetEnds, vars
  <2>2. \A k \in Items : Answer(k)' = Answer(k)
    BY <2>1 DEF Answer
  <2> QED
    BY <1>1, <2>1, <2>2, LoopQuiet DEF ended
<1>2. IInv /\ [Next]_vars => [Loop!Next]_(Loop!vars)
  BY <1>1, CallerLoop, WorkerLoop DEF Next
<1> QED
  BY <1>2, LoopInit, Inductive, PTL DEF Spec, ActsAsLoop, Loop!Spec
=============================================================================
