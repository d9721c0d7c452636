---------------------------- MODULE FramaC_proofs ----------------------------
(***************************************************************************)
(* Proofs about FramaC, for every number of translation units, functions,  *)
(* entries and workers: a run that is not marked partial analysed every    *)
(* entry up to the cap that EVA knows, and an exhausted budget leaves a    *)
(* shallow scan.                                                           *)
(***************************************************************************)
EXTENDS FramaC, ToolPool_proofs, Ranks_proofs

\* The entries that were analysed, and those that EVA does not know.
Analyzed == {k \in Ran : outcome[k].rc = 0}
Unknown == {k \in Ran : Expected(outcome[k]) = "unknown entry"}

\* What the coverage counts.
LEMMA TallyCounts ==
  /\ Tally.run = Cardinality(Ran)
  /\ Tally.analyzed = Cardinality(Analyzed)
  /\ Tally.unknown = Cardinality(Unknown)
BY DEF Tally, RanWith, Analyzed, Unknown

\* A subset of the items that is as large as N has all of them.
LEMMA AllItems ==
  ASSUME NEW S \in SUBSET Items, ~(Cardinality(S) < N)
  PROVE  S = Items
<1>1. IsFiniteSet(Items) /\ Cardinality(Items) = N
  BY NAssumption, FS_Interval DEF Items
<1>2. IsFiniteSet(S) /\ Cardinality(S) <= Cardinality(Items)
  BY <1>1, FS_Subset
<1>3. Cardinality(S) \in Nat
  BY <1>2, FS_CardinalityType
<1>4. Cardinality(S) = Cardinality(Items)
  BY <1>1, <1>2, <1>3, NAssumption
<1> QED
  BY <1>1, <1>4, FS_Subset

\* The counts cannot hide an entry: analysed and unknown entries are
\* different ones, so their numbers add up to N only if they are all there are.
LEMMA CountsCoverAll ==
  ASSUME ~Partial
  PROVE  Ran = Items /\ Analyzed \cup Unknown = Items
<1>1. Ran \in SUBSET Items /\ Analyzed \in SUBSET Items /\ Unknown \in SUBSET Items
  BY DEF Ran, Analyzed, Unknown
<1>2. Ran = Items
  BY <1>1, AllItems, TallyCounts DEF Partial, BudgetExhausted
<1>3. Analyzed \cap Unknown = {}
  BY DEF Analyzed, Unknown, Expected
<1>4. IsFiniteSet(Items)
  BY NAssumption, FS_Interval DEF Items
<1>5. IsFiniteSet(Analyzed) /\ IsFiniteSet(Unknown)
  BY <1>1, <1>4, FS_Subset
<1>6. /\ Cardinality(Analyzed) \in Nat /\ Cardinality(Unknown) \in Nat
      /\ Cardinality(Analyzed \cap Unknown) = 0
  BY <1>3, <1>5, FS_CardinalityType, FS_EmptySet
<1>7. Cardinality(Analyzed \cup Unknown) = Cardinality(Analyzed) + Cardinality(Unknown)
  <2>1. Cardinality(Analyzed \cup Unknown)
          = Cardinality(Analyzed) + Cardinality(Unknown) - Cardinality(Analyzed \cap Unknown)
    BY <1>5, FS_Union
  <2> QED
    BY <1>6, <2>1
<1>8. ~(Cardinality(Analyzed) < N - Cardinality(Unknown))
  BY TallyCounts DEF Partial, Effective
<1>9. ~(Cardinality(Analyzed \cup Unknown) < N)
  BY <1>6, <1>7, <1>8, NAssumption
<1> QED
  BY <1>1, <1>2, <1>9, AllItems

-----------------------------------------------------------------------------
(* The order of the entries.                                               *)

Rows == {p \in Proposed \X Proposed : RowFirst(p[1], p[2])}

LEMMA RowsAreTotal ==
  /\ IsFiniteSet(Proposed) /\ TotalOn(Proposed, Rows)
  /\ \A e, f \in Proposed : <<e, f>> \in Rows <=> RowFirst(e, f)
<1>1. IsFiniteSet(Proposed)
  <2>1. 1 \in Int /\ TUs \in Int /\ MaxEntries \in Int
    BY TUsAssumption
  <2>2. IsFiniteSet(1..TUs) /\ IsFiniteSet(1..MaxEntries)
    BY <2>1, FS_Interval
  <2>3. IsFiniteSet((1..TUs) \X (1..MaxEntries))
    BY <2>2, FS_Product
  <2> QED
    BY <2>3, FS_Subset DEF Proposed
<1>2. \A e, f \in Proposed : <<e, f>> \in Rows <=> RowFirst(e, f)
  BY DEF Rows
<1>3. \A e \in Proposed : /\ e = <<e[1], e[2]>>
                          /\ e[1] \in Nat /\ e[2] \in Nat
  BY DEF Proposed
<1>4. \A e \in Proposed : ~RowFirst(e, e)
  BY <1>3 DEF RowFirst
<1>5. \A e, f, g \in Proposed : RowFirst(e, f) /\ RowFirst(f, g) => RowFirst(e, g)
  BY <1>3 DEF RowFirst
<1>6. \A e, f \in Proposed : e = f \/ RowFirst(e, f) \/ RowFirst(f, e)
  <2> SUFFICES ASSUME NEW e \in Proposed, NEW f \in Proposed, ~RowFirst(e, f), ~RowFirst(f, e)
               PROVE  e = f
    OBVIOUS
  <2>1. e[1] = f[1] /\ e[2] = f[2]
    BY <1>3 DEF RowFirst
  <2> QED
    BY <1>3, <2>1
<1> QED
  BY <1>1, <1>2, <1>4, <1>5, <1>6 DEF TotalOn

\* round_robin gives every place to the entry of that rank.
LEMMA PlacesAreRanks ==
  \A k \in Items : RoundRobin[k] \in Proposed /\ Rank(Proposed, Rows, RoundRobin[k]) = k
<1> SUFFICES ASSUME NEW k \in Items
             PROVE  RoundRobin[k] \in Proposed /\ Rank(Proposed, Rows, RoundRobin[k]) = k
  OBVIOUS
<1> DEFINE Before(e) == {f \in Proposed : RowFirst(f, e)}
<1>1. \A e \in Proposed : Before(e) = Below(Proposed, Rows, e)
  BY RowsAreTotal DEF Below
<1>2. \A e \in Proposed : Cardinality(Before(e)) = Cardinality(Below(Proposed, Rows, e))
  BY <1>1, Zenon
<1>3. \A e \in Proposed : Cardinality(Below(Proposed, Rows, e)) \in Nat
  <2> SUFFICES ASSUME NEW e \in Proposed
               PROVE  Cardinality(Below(Proposed, Rows, e)) \in Nat
    OBVIOUS
  <2>1. Below(Proposed, Rows, e) \in SUBSET Proposed
    BY DEF Below
  <2> QED
    BY <2>1, RowsAreTotal, FS_Subset, FS_CardinalityType
<1>4. Cardinality(Proposed) = N /\ k \in 1..Cardinality(Proposed)
  <2>1. Len(RoundRobin) = Cardinality(Proposed)
    <3>1. Cardinality(Proposed) \in Nat
      BY RowsAreTotal, FS_CardinalityType
    <3> QED
      BY <3>1 DEF RoundRobin, Visited
  <2> QED
    BY <2>1, ItemsAreEntries DEF Items
<1>5. RoundRobin[k] = CHOOSE e \in Proposed : Cardinality(Before(e)) = k - 1
  BY <1>4 DEF RoundRobin, Visited
<1>6. \E e \in Proposed : Rank(Proposed, Rows, e) = k
  BY <1>4, RowsAreTotal, RankReached, Zenon
<1>7. \E e \in Proposed : Cardinality(Before(e)) = k - 1
  <2>1. PICK e \in Proposed : Rank(Proposed, Rows, e) = k
    BY <1>6
  <2>2. Cardinality(Below(Proposed, Rows, e)) = k - 1
    BY <1>3, <2>1 DEF Rank
  <2> QED
    BY <1>2, <2>2
<1>8. RoundRobin[k] \in Proposed /\ Cardinality(Before(RoundRobin[k])) = k - 1
  <2> DEFINE At(e) == Cardinality(Before(e)) = k - 1
             c == CHOOSE e \in Proposed : At(e)
  <2>1. \E e \in Proposed : At(e)
    BY <1>7
  <2> HIDE DEF At
  <2>2. c \in Proposed /\ At(c)
    BY <2>1
  <2>3. c = RoundRobin[k]
    BY <1>5 DEF At
  <2> QED
    BY <2>2, <2>3 DEF At
<1>9. k \in Nat
  BY DEF Items
<1> QED
  BY <1>2, <1>3, <1>8, <1>9 DEF Rank

\* A unit's deeper entry comes after every unit's shallower one.
LEMMA ShallowFirst ==
  ASSUME NEW k \in Items, NEW m \in Items, RoundRobin[k][2] < RoundRobin[m][2]
  PROVE  k < m
<1>1. RowFirst(RoundRobin[k], RoundRobin[m])
  BY DEF RowFirst
<1>2. <<RoundRobin[k], RoundRobin[m]>> \in Rows
  BY <1>1, PlacesAreRanks, RowsAreTotal
<1>3. Rank(Proposed, Rows, RoundRobin[k]) < Rank(Proposed, Rows, RoundRobin[m])
  BY <1>2, PlacesAreRanks, RowsAreTotal, RankGrows
<1> QED
  BY <1>3, PlacesAreRanks

\* round_robin (frama_c.py) visits every entry that was proposed, once, and
\* each unit's first entry before any unit's second, for any number of units
\* and functions.
THEOREM RoundRobinVisitsAll ==
  /\ \A k \in Items : RoundRobin[k] \in Proposed
  /\ \A e \in Proposed : \E k \in Items : RoundRobin[k] = e
  /\ \A k, m \in Items : RoundRobin[k] = RoundRobin[m] => k = m
  /\ \A k, m \in Items : RoundRobin[k][2] < RoundRobin[m][2] => k < m
<1>1. ASSUME NEW e \in Proposed PROVE \E k \in Items : RoundRobin[k] = e
  <2> DEFINE k == Rank(Proposed, Rows, e)
  <2>1. Len(RoundRobin) = Cardinality(Proposed)
    <3>1. Cardinality(Proposed) \in Nat
      BY RowsAreTotal, FS_CardinalityType
    <3> QED
      BY <3>1 DEF RoundRobin, Visited
  <2>2. k \in Items
    BY <2>1, RowsAreTotal, RankGrows, ItemsAreEntries DEF Items
  <2>3. RoundRobin[k] \in Proposed /\ Rank(Proposed, Rows, RoundRobin[k]) = k
    BY <2>2, PlacesAreRanks
  <2>4. RoundRobin[k] = e
    BY <2>3, RowsAreTotal, RankNumbers
  <2> QED
    BY <2>2, <2>4
<1>2. ASSUME NEW k \in Items, NEW m \in Items, RoundRobin[k] = RoundRobin[m] PROVE k = m
  BY <1>2, PlacesAreRanks, Zenon
<1> QED
  BY <1>1, <1>2, PlacesAreRanks, ShallowFirst

\* A function of a unit that is not past the cap is proposed.
LEMMA FunctionsAreProposed ==
  ASSUME NEW t \in 1..TUs, NEW n \in 1..Defined[t], n <= MaxEntries
  PROVE  <<t, n>> \in Proposed
<1>1. Defined[t] \in Nat /\ MaxEntries \in Nat
  BY TUsAssumption
<1>2. n \in 1..MaxEntries /\ n <= Entries(t)
  BY <1>1 DEF Entries
<1> QED
  BY <1>2 DEF Proposed

\* A run that run_realworld (frama_c.py) does not mark partial analysed every
\* function of every unit but those past the cap of the unit and those EVA
\* rejected as unknown: neither the order nor what the coverage adds up can
\* hide a function that failed, timed out or was not run.
THEOREM WholeRunsAreWhole == Spec => []NotPartialMeansAll
<1>1. NotPartialMeansAll
  <2> SUFFICES ASSUME ~Partial, NEW t \in 1..TUs, NEW n \in 1..Defined[t], n <= MaxEntries
               PROVE  \E k \in Items :
                        /\ RoundRobin[k] = <<t, n>> /\ job[k] = "result"
                        /\ outcome[k].rc = 0 \/ Expected(outcome[k]) = "unknown entry"
    BY DEF NotPartialMeansAll
  <2>1. PICK k \in Items : RoundRobin[k] = <<t, n>>
    BY FunctionsAreProposed, RoundRobinVisitsAll
  <2>2. k \in Ran /\ k \in Analyzed \cup Unknown
    BY CountsCoverAll
  <2> QED
    BY <2>1, <2>2 DEF Ran, Analyzed, Unknown
<1> QED
  BY <1>1, PTL

-----------------------------------------------------------------------------
(* The race at the end of the budget.                                      *)

\* The workers take the entries from the front.
QueueInv ==
  \A k, m \in Items : k < m /\ job[k] \in {"new", "queued"}
                        => job[m] \in {"new", "queued", "cancelled"}

\* There are no more entries under way than workers, and none is left out
\* before the budget is used up.
BudgetInv ==
  /\ Cardinality(Active) <= Jobs
  /\ \A k \in Items : job[k] = "skipped" => Budgeted /\ late

\* The entries that were not begun when a later one was.
Overtaken == {k \in InState({"taken", "skipped"}) :
                \E m \in InState({"running", "result"}) : k < m}

RaceInv == Cardinality(Overtaken) <= Jobs - 1

SInv == IInv /\ QueueInv /\ BudgetInv /\ RaceInv

LEMMA InitSInv == Init => SInv
<1> SUFFICES ASSUME Init PROVE SInv
  OBVIOUS
<1>1. QueueInv
  BY DEF Init, QueueInv
<1>2. Active = {} /\ Overtaken = {}
  BY DEF Init, Active, Overtaken, InState
<1>3. Cardinality(Active) = 0 /\ Cardinality(Overtaken) = 0
  BY <1>2, FS_EmptySet, Zenon
<1>4. BudgetInv /\ RaceInv
  BY <1>3, JobsAssumption DEF Init, BudgetInv, RaceInv
<1> QED
  BY <1>1, <1>4, InitIInv DEF SInv

\* A step after which the same entries are under way, or fewer, and no entry
\* more was overtaken.
LEMMA NoNewRace ==
  ASSUME SInv, IInv', QueueInv',
         Active' \subseteq Active, Overtaken' \subseteq Overtaken,
         \A k \in Items : job'[k] = "skipped" => Budgeted /\ late'
  PROVE  SInv'
<1>1. Active \in SUBSET Items /\ Overtaken \in SUBSET Items
  BY DEF Active, Overtaken, InState
<1>2. /\ Cardinality(Active') <= Cardinality(Active) /\ Cardinality(Active) \in Nat
      /\ Cardinality(Active') \in Nat
      /\ Cardinality(Overtaken') <= Cardinality(Overtaken) /\ Cardinality(Overtaken) \in Nat
      /\ Cardinality(Overtaken') \in Nat
  BY <1>1, FewerItems, SetsAreFinite
<1> QED
  BY <1>2, JobsAssumption DEF SInv, BudgetInv, RaceInv

\* A step of the calling thread starts no entry and leaves out none.
LEMMA CallerSInv == ASSUME SInv, Caller PROVE SInv'
<1>1. IInv'
  BY CallerIInv DEF SInv
<1>2. /\ late' = late
      /\ \A k \in Items : \/ job'[k] = job[k]
                          \/ job[k] = "new" /\ job'[k] = "queued"
                          \/ job[k] = "queued" /\ job'[k] = "cancelled"
  <2>1. CASE Submit
    <3>1. submitted + 1 \in Items /\ job[submitted + 1] = "new"
      BY <2>1, NAssumption DEF Submit, SInv, IInv, TypeOK, SubmittedInv, Items
    <3> QED
      BY <2>1, <3>1 DEF Submit, SInv, IInv, TypeOK
  <2>2. CASE Cancel
    <3>1. PICK q \in Items : job[q] = "queued" /\ job' = [job EXCEPT ![q] = "cancelled"]
      BY <2>2 DEF Cancel, InState
    <3> QED
      BY <2>2, <3>1 DEF Cancel, SInv, IInv, TypeOK
  <2>3. CASE Submitted \/ Collect \/ CollectError \/ Close \/ Shutdown
    BY <2>3 DEF Submitted, Collect, CollectError, Close, Shutdown
  <2> QED
    BY <2>1, <2>2, <2>3 DEF Caller
<1>3. QueueInv'
  BY <1>2 DEF SInv, QueueInv
<1>4. Active' \subseteq Active /\ Overtaken' \subseteq Overtaken
  BY <1>2 DEF Active, Overtaken, InState
<1>5. \A k \in Items : job'[k] = "skipped" => Budgeted /\ late'
  BY <1>2 DEF SInv, BudgetInv
<1> QED
  BY <1>1, <1>3, <1>4, <1>5, NoNewRace

\* A worker takes the entry in front: no later one is under way.
LEMMA TakeSInv == ASSUME SInv, NEW k \in Items, Take(k) PROVE SInv'
<1>1. /\ IInv' /\ job[k] = "queued" /\ job'[k] = "taken" /\ late' = late
      /\ \A j \in Items \ {k} : job'[j] = job[j]
      /\ \A j \in Items : job[j] = "queued" => k <= j
      /\ Cardinality(Active) < Jobs
  <2>1. IInv'
    BY WorkerIInv DEF Worker, SInv
  <2> QED
    BY <2>1 DEF Take, InState, SInv, IInv, TypeOK
<1>2. \A j \in Items : j < k => job[j] \notin {"new", "queued"}
  BY <1>1, NAssumption DEF SInv, IInv, TypeOK, SubmittedInv, Items
<1>3. QueueInv'
  BY <1>1, <1>2 DEF SInv, QueueInv, Items
<1>4. Overtaken' \subseteq Overtaken
  <2>1. \A m \in Items : k < m => job[m] \notin {"running", "result"}
    BY <1>1 DEF SInv, QueueInv
  <2> QED
    BY <1>1, <2>1 DEF Overtaken, InState
<1>5. Cardinality(Active') <= Jobs
  <2>1. Active' = Active \cup {k} /\ Active \in SUBSET Items
    BY <1>1 DEF Active, InState
  <2>2. /\ IsFiniteSet(Active) /\ Cardinality(Active) \in Nat
        /\ k \notin Active
    BY <1>1, <2>1, SetsAreFinite DEF Active, InState
  <2>3. Cardinality(Active \cup {k}) = Cardinality(Active) + 1
    BY <2>2, FS_AddElement
  <2>4. Cardinality(Active') = Cardinality(Active \cup {k})
    BY <2>1, Zenon
  <2> QED
    BY <1>1, <2>2, <2>3, <2>4, JobsAssumption
<1>6. RaceInv'
  <2>1. Overtaken \in SUBSET Items
    BY DEF Overtaken, InState
  <2>2. /\ Cardinality(Overtaken') <= Cardinality(Overtaken)
        /\ Cardinality(Overtaken) \in Nat /\ Cardinality(Overtaken') \in Nat
    BY <1>4, <2>1, FewerItems, SetsAreFinite
  <2> QED
    BY <2>2, JobsAssumption DEF SInv, RaceInv
<1>7. BudgetInv'
  BY <1>1, <1>5 DEF SInv, BudgetInv
<1> QED
  BY <1>1, <1>3, <1>6, <1>7 DEF SInv

\* A worker starts the tool on its entry.  Those it overtakes are in the hands
\* of the other workers.
LEMMA StartSInv ==
  ASSUME SInv, NEW k \in Items, Begin(k), job'[k] = "running"
  PROVE  SInv'
<1>1. /\ IInv' /\ job[k] = "taken" /\ ~(Budgeted /\ late) /\ late' = late
      /\ \A j \in Items \ {k} : job'[j] = job[j]
  <2>1. IInv'
    BY WorkerIInv DEF Worker, SInv
  <2> QED
    BY <2>1 DEF Begin, SInv, IInv, TypeOK
<1>2. QueueInv'
  BY <1>1 DEF SInv, QueueInv
<1>3. Active' = Active /\ Active \in SUBSET Items /\ k \in Active
  BY <1>1 DEF Active, InState
<1>4. BudgetInv'
  <2>1. Cardinality(Active') = Cardinality(Active)
    BY <1>3, Zenon
  <2> QED
    BY <1>1, <2>1 DEF SInv, BudgetInv
<1>5. RaceInv'
  <2>1. Overtaken' \subseteq Active \ {k}
    BY <1>1 DEF Overtaken, Active, InState, SInv, BudgetInv
  <2>2. /\ IsFiniteSet(Active) /\ Cardinality(Active) \in Nat
        /\ Cardinality(Active \ {k}) = Cardinality(Active) - 1
    BY <1>3, SetsAreFinite, FS_RemoveElement
  <2>3. /\ Cardinality(Overtaken') <= Cardinality(Active \ {k})
        /\ Cardinality(Overtaken') \in Nat
    BY <1>3, <2>1, FewerItems, SetsAreFinite
  <2> QED
    BY <2>2, <2>3, JobsAssumption DEF SInv, BudgetInv, RaceInv
<1> QED
  BY <1>1, <1>2, <1>4, <1>5 DEF SInv

\* An entry is left out, cannot be started, or has ended.
LEMMA EndSInv ==
  ASSUME SInv, NEW k \in Items, (Begin(k) /\ job'[k] # "running") \/ End(k)
  PROVE  SInv'
<1>1. IInv' /\ UNCHANGED late
  BY WorkerIInv DEF Worker, SInv, Begin, End
<1>2. /\ \A j \in Items \ {k} : job'[j] = job[j]
      /\ \/ job[k] = "taken" /\ job'[k] \in {"skipped", "error"}
         \/ job[k] = "running" /\ job'[k] \in {"result", "error"}
      /\ job'[k] = "skipped" => Budgeted /\ late
  BY DEF Begin, End, SInv, IInv, TypeOK
<1>3. QueueInv'
  BY <1>2 DEF SInv, QueueInv
<1>4. Active' \subseteq Active /\ Overtaken' \subseteq Overtaken
  BY <1>2 DEF Active, Overtaken, InState
<1>5. \A j \in Items : job'[j] = "skipped" => Budgeted /\ late'
  BY <1>1, <1>2 DEF SInv, BudgetInv
<1> QED
  BY <1>1, <1>3, <1>4, <1>5, NoNewRace

LEMMA RaceInductive == Spec => []SInv
<1>1. ASSUME SInv, BudgetEnds \/ UNCHANGED vars PROVE SInv'
  <2>1. IInv'
    BY <1>1 DEF SInv, IInv, BudgetEnds, vars, TypeOK, SubmittedInv, CollectedInv, ClosedInv,
                FailedInv, AnsweredInv, Over
  <2>2. UNCHANGED job /\ (late => late')
    BY <1>1 DEF BudgetEnds, vars
  <2>3. QueueInv' /\ Active' \subseteq Active /\ Overtaken' \subseteq Overtaken
    BY <1>1, <2>2 DEF SInv, QueueInv, Active, Overtaken, InState
  <2>4. \A k \in Items : job'[k] = "skipped" => Budgeted /\ late'
    BY <1>1, <2>2 DEF SInv, BudgetInv
  <2> QED
    BY <1>1, <2>1, <2>3, <2>4, NoNewRace
<1>2. ASSUME SInv, NEW k \in Items, Worker(k) PROVE SInv'
  BY <1>2, TakeSInv, StartSInv, EndSInv DEF Worker
<1>3. SInv /\ [Next]_vars => SInv'
  BY <1>1, <1>2, CallerSInv DEF Next
<1> QED
  BY InitSInv, <1>3, PTL DEF Spec

\* However many units, entries and workers there are, and whenever the budget
\* of run_realworld (frama_c.py) is used up, at most one entry less than there
\* are workers was left out while another unit's deeper one ran.
THEOREM BudgetLeavesShallowScan == Spec => []ShallowScan
<1>1. ASSUME SInv PROVE ShallowScan
  <2> DEFINE lost == {k \in InState({"skipped"}) :
                        \E m \in Ran : RoundRobin[k][2] < RoundRobin[m][2]}
  <2>1. lost \subseteq Overtaken
    BY ShallowFirst DEF Overtaken, InState, Ran
  <2>2. Overtaken \in SUBSET Items
    BY DEF Overtaken, InState
  <2> HIDE DEF lost
  <2>3. /\ Cardinality(lost) <= Cardinality(Overtaken)
        /\ Cardinality(lost) \in Nat /\ Cardinality(Overtaken) \in Nat
    BY <2>1, <2>2, FewerItems, SetsAreFinite
  <2>4. Cardinality(lost) <= Jobs - 1
    BY <1>1, <2>3, JobsAssumption DEF SInv, RaceInv
  <2> QED
    BY <2>4 DEF lost, ShallowScan
<1> QED
  BY <1>1, RaceInductive, PTL
=============================================================================
