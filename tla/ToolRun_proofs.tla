---------------------------- MODULE ToolRun_proofs ----------------------------
(***************************************************************************)
(* Proofs about ToolRun, for any number of runs, any finite set of process *)
(* identities and any cap: a tool never leaves the group of its run, the   *)
(* figures of a run are its own, a kill by the cap means oom, and neither  *)
(* a peak nor a counter leaves its range.                                  *)
(***************************************************************************)
EXTENDS ToolRun, FiniteSetTheorems, TLAPS

Process == [state : {"unborn", "shell", "tool", "gone"}, group : 0..MaxRuns,
            by : 0..MaxRuns, waited : BOOLEAN, mem : Nat]

\* The types of what decides where a process is; group n is the group of run n.
Shape ==
  /\ run \in 0..MaxRuns /\ runs = run /\ current \in {0, run}
  /\ exists \subseteq 1..run
  /\ DOMAIN peak = Groups /\ DOMAIN result = Groups
  /\ kills \in [Groups -> Nat]
  /\ proc \in [Procs -> Process]
  /\ timeouts \in Nat

\* A shell belongs to the run that goes on, which waits for it.
ShellInv ==
  \A p \in Procs : proc[p].state = "shell" =>
    current # 0 /\ proc[p].by = run /\ proc[p].waited /\ proc[p].group = 0

\* A tool is in the group of the run that started it, or its ancestor.
ToolInv ==
  \A p \in Procs : proc[p].state = "tool" =>
    proc[p].group = proc[p].by /\ proc[p].by \in 1..run

VictimInv == \A p \in victims : p \in Procs /\ proc[p].state = "gone"

\* The counters of the group of the run that goes on are those of the run.
FigureInv ==
  current # 0 => /\ peak[run] = high /\ kills[run] = Cardinality(victims)
                 /\ result[run].status = "none"

\* What a run that is over has recorded.
RecordInv ==
  run > 0 /\ current = 0 =>
    /\ result[run].status \in {"ok", "timeout", "oom"}
    /\ result[run].peak = high /\ result[run].kills = Cardinality(victims)
    /\ result[run].status = "oom" <=> victims # {}

FreshInv == \A n \in Groups : n > run => result[n].status = "none"

IInv == Shape /\ ShellInv /\ ToolInv /\ VictimInv /\ FigureInv /\ RecordInv /\ FreshInv

\* The victims are finitely many, and one more counts one more.
LEMMA VictimCount ==
  ASSUME IInv
  PROVE  /\ Cardinality(victims) \in Nat /\ (Cardinality(victims) = 0 <=> victims = {})
         /\ \A q \in Procs : q \notin victims =>
              Cardinality(victims \cup {q}) = Cardinality(victims) + 1
<1>1. IsFiniteSet(victims)
  <2>1. victims \subseteq Procs /\ IsFiniteSet(Procs)
    BY CapAssumption DEF IInv, VictimInv
  <2> QED
    BY <2>1, FS_Subset
<1> QED
  BY <1>1, FS_CardinalityType, FS_EmptySet, FS_AddElement

\* The processes in the group of the run that goes on are its own tools.
LEMMA MembersAreMine ==
  ASSUME IInv, current # 0
  PROVE  current = run /\ run \in Groups /\ Members(run) = Mine
<1>1. current = run /\ run \in 1..MaxRuns
  BY CapAssumption DEF IInv, Shape
<1>2. \A p \in Procs : p \in Members(run) <=> p \in Mine
  <2> SUFFICES ASSUME NEW p \in Procs PROVE p \in Members(run) <=> p \in Mine
    OBVIOUS
  <2>1. CASE proc[p].state = "shell"
    BY <1>1, <2>1 DEF IInv, ShellInv, Members, Mine, In
  <2>2. CASE proc[p].state = "tool"
    BY <2>2 DEF IInv, ToolInv, Members, Mine, In
  <2>3. CASE proc[p].state \notin {"shell", "tool"}
    BY <2>3 DEF Members, Mine, In
  <2> QED
    BY <2>1, <2>2, <2>3
<1> QED
  BY <1>1, <1>2 DEF Groups, Members, Mine, In

LEMMA InitIInv == Init => IInv
<1> SUFFICES ASSUME Init PROVE IInv
  OBVIOUS
<1>1. Shape
  BY CapAssumption DEF Init, Shape, Groups, Process
<1>2. ShellInv /\ ToolInv /\ VictimInv /\ FigureInv /\ RecordInv
  BY DEF Init, ShellInv, ToolInv, VictimInv, FigureInv, RecordInv
<1>3. FreshInv
  BY DEF Init, FreshInv, NoResult
<1> QED
  BY <1>1, <1>2, <1>3 DEF IInv

-----------------------------------------------------------------------------
(* Every step preserves IInv.                                              *)

\* A run begins: its group cannot be there, since no run had its number.
LEMMA EnterIInv == ASSUME IInv, Enter PROVE IInv'
<1> USE DEF IInv
<1>1. run < MaxRuns /\ current = 0 /\ run' = run + 1 /\ runs' = run + 1
  BY DEF Enter, EnterGroup, Shape
<1>2. run + 1 \in Groups /\ run + 1 \notin exists /\ run \in Nat
  BY <1>1, CapAssumption DEF Shape, Groups
<1>3. /\ timeouts' = 0 /\ high' = 0 /\ victims' = {} /\ current' = run + 1
      /\ exists' = exists \cup {run + 1}
      /\ peak' = [peak EXCEPT ![run + 1] = 0]
      /\ kills' = [kills EXCEPT ![run + 1] = 0]
      /\ UNCHANGED <<result, proc>>
  BY <1>1, <1>2 DEF Enter, EnterGroup, Shape
<1>4. Shape'
  BY <1>1, <1>2, <1>3, CapAssumption DEF Shape, Groups
<1>5. ShellInv'
  BY <1>1, <1>3 DEF ShellInv
<1>6. ToolInv'
  BY <1>1, <1>2, <1>3 DEF ToolInv
<1>7. VictimInv' /\ RecordInv'
  BY <1>1, <1>2, <1>3 DEF VictimInv, RecordInv
<1>8. FigureInv'
  BY <1>1, <1>2, <1>3, FS_EmptySet DEF FigureInv, FreshInv, Shape
<1>9. FreshInv'
  BY <1>1, <1>2, <1>3, CapAssumption DEF FreshInv, Groups
<1> QED
  BY <1>4, <1>5, <1>6, <1>7, <1>8, <1>9

\* What holds after a step of one process that leaves the figures alone.
LEMMA SameFigures ==
  ASSUME IInv, UNCHANGED <<run, runs, current, exists, result, peak, kills, high, victims>>,
         proc' \in [Procs -> Process], timeouts' \in Nat,
         NEW q \in Procs, \A p \in Procs \ {q} : proc'[p] = proc[p],
         q \notin victims,
         proc'[q].state = "shell" =>
           current # 0 /\ proc'[q].by = run /\ proc'[q].waited /\ proc'[q].group = 0,
         proc'[q].state = "tool" => proc'[q].group = proc'[q].by /\ proc'[q].by \in 1..run
  PROVE  IInv'
<1> USE DEF IInv
<1>1. Shape'
  BY DEF Shape
<1>2. ShellInv' /\ ToolInv'
  BY DEF ShellInv, ToolInv
<1>3. VictimInv'
  BY DEF VictimInv
<1>4. FigureInv' /\ RecordInv' /\ FreshInv'
  BY DEF FigureInv, RecordInv, FreshInv
<1> QED
  BY <1>1, <1>2, <1>3, <1>4

LEMMA StartIInv == ASSUME IInv, NEW p \in Procs, Start(p) PROVE IInv'
<1> DEFINE new == [state |-> "shell", group |-> 0, by |-> run, waited |-> TRUE, mem |-> 0]
<1>1. /\ current # 0 /\ proc[p].state = "unborn" /\ proc' = [proc EXCEPT ![p] = new]
      /\ UNCHANGED <<run, runs, current, exists, timeouts, result, peak, kills, high, victims>>
  BY DEF Start, env
<1>2. new \in Process
  BY CapAssumption DEF IInv, Shape, Process
<1>3. /\ proc' \in [Procs -> Process] /\ timeouts' \in Nat /\ proc'[p] = new
      /\ \A q \in Procs \ {p} : proc'[q] = proc[q]
  BY <1>1, <1>2 DEF IInv, Shape
<1>4. p \notin victims
  BY <1>1 DEF IInv, VictimInv
<1> QED
  BY <1>1, <1>3, <1>4, SameFigures

LEMMA JoinIInv == ASSUME IInv, NEW p \in Procs, JoinAndExec(p) PROVE IInv'
<1>1. /\ proc[p].state = "shell"
      /\ UNCHANGED <<run, runs, current, exists, timeouts, result, peak, kills, high, victims>>
  BY DEF JoinAndExec, env
<1>2. current # 0 /\ proc[p].by = run /\ p \notin victims
  BY <1>1 DEF IInv, ShellInv, VictimInv
<1>3. current = run /\ run \in 1..MaxRuns /\ run \in 1..run /\ timeouts' \in Nat
  BY <1>1, <1>2, MembersAreMine DEF Groups, IInv, Shape
<1>4. CASE proc' = [proc EXCEPT ![p].state = "tool", ![p].group = current]
  <2>1. /\ proc' \in [Procs -> Process]
        /\ proc'[p].state = "tool" /\ proc'[p].group = run /\ proc'[p].by = run
        /\ \A q \in Procs \ {p} : proc'[q] = proc[q]
    BY <1>2, <1>3, <1>4 DEF IInv, Shape, Process
  <2> QED
    BY <1>1, <1>2, <1>3, <2>1, SameFigures
<1>5. CASE proc' = [proc EXCEPT ![p].state = "gone"]
  <2>1. /\ proc' \in [Procs -> Process] /\ proc'[p].state = "gone"
        /\ \A q \in Procs \ {p} : proc'[q] = proc[q]
    BY <1>5 DEF IInv, Shape, Process
  <2> QED
    BY <1>1, <1>2, <1>3, <2>1, SameFigures
<1> QED
  BY <1>4, <1>5 DEF JoinAndExec

LEMMA ForkIInv == ASSUME IInv, NEW p \in Procs, NEW q \in Procs, Fork(p, q) PROVE IInv'
<1>1. /\ proc[p].state = "tool" /\ proc[q].state = "unborn"
      /\ proc' = [proc EXCEPT ![q] = [proc[p] EXCEPT !.waited = FALSE, !.mem = 0]]
      /\ UNCHANGED <<run, runs, current, exists, timeouts, result, peak, kills, high, victims>>
  BY DEF Fork, env
<1>2. /\ proc' \in [Procs -> Process] /\ timeouts' \in Nat
      /\ proc'[q].state = "tool" /\ proc'[q].group = proc[p].group /\ proc'[q].by = proc[p].by
      /\ \A r \in Procs \ {q} : proc'[r] = proc[r]
  BY <1>1 DEF IInv, Shape, Process
<1>3. q \notin victims /\ proc[p].group = proc[p].by /\ proc[p].by \in 1..run
  BY <1>1 DEF IInv, VictimInv, ToolInv
<1> QED
  BY <1>1, <1>2, <1>3, SameFigures

LEMMA ExitIInv == ASSUME IInv, NEW p \in Procs, Exit(p) PROVE IInv'
<1>1. /\ proc[p].state = "tool"
      /\ proc' = [proc EXCEPT ![p].state = "gone", ![p].mem = 0]
      /\ timeouts' \in {timeouts, timeouts + 1}
      /\ UNCHANGED <<run, runs, current, exists, result, peak, kills, high, victims>>
  BY DEF Exit
<1>2. /\ proc' \in [Procs -> Process] /\ proc'[p].state = "gone"
      /\ \A q \in Procs \ {p} : proc'[q] = proc[q]
  <2>1. proc \in [Procs -> Process]
    BY DEF IInv, Shape
  <2> QED
    BY <1>1, <2>1 DEF Process
<1>3. p \notin victims /\ timeouts' \in Nat
  BY <1>1 DEF IInv, VictimInv, Shape
<1> QED
  BY <1>1, <1>2, <1>3, SameFigures

\* A process gets its memory: the peak of the group is the run's, since the
\* group has the run's tools and no others.
LEMMA ServedIInv ==
  ASSUME IInv, NEW p \in Procs, Grow(p), Used(Members(proc[p].group)) < Cap
  PROVE  IInv'
<1> USE DEF IInv
<1> DEFINE g == proc[p].group
<1>1. /\ proc[p].state = "tool" /\ g # 0
      /\ proc' = [proc EXCEPT ![p].mem = @ + 1]
      /\ peak' = [peak EXCEPT ![g] = Higher(@, Used(Members(g)))]
      /\ high' = IF p \in Mine /\ current # 0 THEN Higher(high, Used(Mine)) ELSE high
      /\ UNCHANGED <<run, runs, current, exists, timeouts, result, kills, victims>>
  BY DEF Grow, env
<1>2. /\ proc' \in [Procs -> Process]
      /\ \A q \in Procs : /\ proc'[q].state = proc[q].state /\ proc'[q].group = proc[q].group
                          /\ proc'[q].by = proc[q].by /\ proc'[q].waited = proc[q].waited
  BY <1>1 DEF Shape, Process
<1>3. g = proc[p].by /\ g \in 1..run /\ g \in Groups
  BY <1>1, CapAssumption DEF ToolInv, Shape, Groups
<1>4. Shape'
  BY <1>1, <1>2 DEF Shape
<1>5. ShellInv' /\ ToolInv'
  BY <1>1, <1>2 DEF ShellInv, ToolInv
<1>6. VictimInv' /\ FreshInv'
  BY <1>1, <1>2 DEF VictimInv, FreshInv
<1>7. RecordInv'
  BY <1>1 DEF RecordInv
<1>8. FigureInv'
  <2> SUFFICES ASSUME current # 0
               PROVE  peak'[run] = high' /\ kills[run] = Cardinality(victims) /\ result[run].status = "none"
    BY <1>1 DEF FigureInv
  <2>1. /\ peak[run] = high /\ kills[run] = Cardinality(victims) /\ result[run].status = "none"
        /\ run \in Groups /\ Members(run) = Mine
    BY MembersAreMine DEF FigureInv
  <2>2. CASE g = run
    <3>1. p \in Mine
      BY <1>1, <1>3, <2>2 DEF Mine, In
    <3>2. high' = Higher(high, Used(Mine))
      BY <1>1, <3>1
    <3>3. peak'[run] = Higher(peak[run], Used(Members(run)))
      BY <1>1, <2>1, <2>2 DEF Shape
    <3> QED
      BY <2>1, <3>2, <3>3
  <2>3. CASE g # run
    <3>1. p \notin Mine
      BY <1>3, <2>3 DEF Mine
    <3> QED
      BY <1>1, <2>1, <2>3, <3>1 DEF Shape
  <2> QED
    BY <2>2, <2>3
<1> QED
  BY <1>4, <1>5, <1>6, <1>7, <1>8

\* The kernel kills: the counter of the group counts the run's victims.
LEMMA KilledIInv ==
  ASSUME IInv, NEW p \in Procs, Grow(p), ~(Used(Members(proc[p].group)) < Cap)
  PROVE  IInv'
<1> USE DEF IInv
<1> DEFINE g == proc[p].group
<1>1. /\ proc[p].state = "tool" /\ g # 0
      /\ UNCHANGED <<run, runs, current, exists, timeouts, result, peak, high>>
  BY DEF Grow, env
<1>2. PICK q \in Members(g) :
        /\ proc' = [proc EXCEPT ![q].state = "gone", ![q].mem = 0]
        /\ kills' = [kills EXCEPT ![g] = @ + 1]
        /\ victims' = IF q \in Mine /\ current # 0 THEN victims \cup {q} ELSE victims
  BY DEF Grow
<1>3. q \in Procs /\ proc[q].state \in {"shell", "tool"} /\ proc[q].group = g
  BY <1>2 DEF Members, In
<1>4. proc[q].state = "tool" /\ proc[q].by = g /\ g \in 1..run /\ g \in Groups
  BY <1>1, <1>3, CapAssumption DEF ShellInv, ToolInv, Shape, Groups
<1>5. /\ proc' \in [Procs -> Process] /\ proc'[q].state = "gone"
      /\ \A r \in Procs \ {q} : proc'[r] = proc[r]
  BY <1>2, <1>3 DEF Shape, Process
<1>6. Shape'
  BY <1>1, <1>2, <1>4, <1>5 DEF Shape
<1>7. ShellInv' /\ ToolInv'
  BY <1>1, <1>5 DEF ShellInv, ToolInv
<1>8. VictimInv'
  BY <1>2, <1>3, <1>5 DEF VictimInv
<1>9. FreshInv'
  BY <1>1 DEF FreshInv
<1>10. RecordInv'
  BY <1>1, <1>2 DEF RecordInv
<1>11. FigureInv'
  <2> SUFFICES ASSUME current # 0
               PROVE  /\ peak[run] = high /\ kills'[run] = Cardinality(victims')
                      /\ result[run].status = "none"
    BY <1>1 DEF FigureInv
  <2>1. /\ peak[run] = high /\ kills[run] = Cardinality(victims) /\ result[run].status = "none"
        /\ run \in Groups
    BY MembersAreMine DEF FigureInv
  <2>2. CASE g = run
    <3>1. q \in Mine /\ q \notin victims
      BY <1>3, <1>4, <2>2 DEF Mine, In, VictimInv
    <3>2. Cardinality(victims') = Cardinality(victims) + 1
      BY <1>2, <1>3, <3>1, VictimCount
    <3> QED
      BY <1>2, <2>1, <2>2, <3>2 DEF Shape
  <2>3. CASE g # run
    <3>1. q \notin Mine
      BY <1>4, <2>3 DEF Mine
    <3> QED
      BY <1>2, <2>1, <2>3, <3>1 DEF Shape
  <2> QED
    BY <2>2, <2>3
<1> QED
  BY <1>6, <1>7, <1>8, <1>9, <1>10, <1>11

\* The figures are read before anything else can change them.
LEMMA LeaveIInv == ASSUME IInv, Leave PROVE IInv'
<1> USE DEF IInv
<1>1. /\ current # 0 /\ current' = 0
      /\ \A p \in In({"shell", "tool"}) : proc[p].by = run => ~proc[p].waited
      /\ result' = [result EXCEPT ![run] = [status |-> Status, peak |-> peak[current],
                                            kills |-> kills[current]]]
      /\ exists' \subseteq exists
      /\ UNCHANGED <<run, runs, timeouts, peak, kills, proc, high, victims>>
  BY DEF Leave, kern
<1>2. current = run /\ run \in Groups
  BY <1>1, MembersAreMine
<1>3. Shape'
  BY <1>1 DEF Shape
<1>4. ShellInv'
  BY <1>1 DEF ShellInv, In
<1>5. ToolInv' /\ VictimInv'
  BY <1>1 DEF ToolInv, VictimInv
<1>6. FigureInv'
  BY <1>1 DEF FigureInv
<1>7. FreshInv'
  BY <1>1, <1>2, CapAssumption DEF FreshInv, Shape, Groups
<1>8. RecordInv'
  <2>1. result'[run] = [status |-> Status, peak |-> peak[run], kills |-> kills[run]]
    BY <1>1, <1>2 DEF Shape
  <2>2. peak[run] = high /\ kills[run] = Cardinality(victims)
    BY <1>1 DEF FigureInv
  <2>3. Status \in {"ok", "timeout", "oom"} /\ (Status = "oom" <=> kills[run] > 0)
    BY <1>2 DEF Status
  <2>4. kills[run] > 0 <=> victims # {}
    BY <2>2, VictimCount
  <2> QED
    BY <1>1, <2>1, <2>2, <2>3, <2>4 DEF RecordInv
<1> QED
  BY <1>3, <1>4, <1>5, <1>6, <1>7, <1>8

LEMMA NextIInv == IInv /\ [Next]_vars => IInv'
<1> SUFFICES ASSUME IInv, [Next]_vars PROVE IInv'
  OBVIOUS
<1>1. CASE Enter \/ Leave
  BY <1>1, EnterIInv, LeaveIInv
<1>2. CASE \E p \in Procs : Start(p) \/ JoinAndExec(p) \/ Grow(p) \/ Exit(p)
  BY <1>2, StartIInv, JoinIInv, ServedIInv, KilledIInv, ExitIInv
<1>3. CASE \E p, q \in Procs : Fork(p, q)
  BY <1>3, ForkIInv
<1>4. CASE UNCHANGED vars
  BY <1>4 DEF IInv, Shape, ShellInv, ToolInv, VictimInv, FigureInv, RecordInv, FreshInv,
              vars, env, kern
<1> QED
  BY <1>1, <1>2, <1>3, <1>4 DEF Next

LEMMA Inductive == Spec => []IInv
BY InitIInv, NextIInv, PTL DEF Spec

-----------------------------------------------------------------------------
(* The theorems.                                                           *)

\* A tool and its descendants are in the group of the run that started them
\* (envelope.py wrap_argv), never in the harness' or another run's.
THEOREM ToolsAreConfined == Spec => []Confined
<1>1. IInv => Confined
  BY DEF IInv, ToolInv, Confined
<1> QED
  BY <1>1, Inductive, PTL

\* The peak and the kills that run_cgroup (envelope.py) records are those of
\* the run's own processes, whatever earlier runs left running.
THEOREM FiguresAreTheRuns == Spec => []FiguresAreOwn
<1>1. IInv => FiguresAreOwn
  BY DEF IInv, RecordInv, FiguresAreOwn
<1> QED
  BY <1>1, Inductive, PTL

\* A run that is over has status oom (run.py _envelope_status) exactly if the
\* cap killed one of its processes.
THEOREM CapKillIsOom == Spec => []CapKillMeansOom
<1>1. IInv => CapKillMeansOom
  BY DEF IInv, Shape, FigureInv, RecordInv, CapKillMeansOom
<1> QED
  BY <1>1, Inductive, PTL

-----------------------------------------------------------------------------
(* Type correctness: the cap bounds the peaks, and every kill and every    *)
(* timeout that is counted is of another process.                          *)

Gone == In({"gone"})
Counts == 0..Cardinality(Procs)
Result == [status : {"none", "ok", "timeout", "oom", "raised"}, peak : 0..Cap, kills : Counts]

RangeInv ==
  /\ \A p \in Procs : proc[p].mem <= Cap
  /\ peak \in [Groups -> 0..Cap] /\ high \in 0..Cap
  /\ result \in [Groups -> Result]

CountInv ==
  /\ \A g \in Groups : kills[g] <= Cardinality(Gone)
  /\ timeouts <= Cardinality(Gone)

TInv == IInv /\ RangeInv /\ CountInv

LEMMA GoneCount ==
  /\ IsFiniteSet(Gone) /\ Cardinality(Gone) \in Nat /\ Cardinality(Procs) \in Nat
  /\ Cardinality(Gone) <= Cardinality(Procs)
<1>1. Gone \in SUBSET Procs
  BY DEF Gone, In
<1> QED
  BY <1>1, CapAssumption, FS_Subset, FS_CardinalityType

\* A process that is gone stays so; one that goes is one more.
LEMMA GoneGrows ==
  ASSUME \A p \in Procs : proc[p].state = "gone" => proc'[p].state = "gone"
  PROVE  /\ Cardinality(Gone') \in Nat /\ Cardinality(Gone) <= Cardinality(Gone')
         /\ \A q \in Procs : proc[q].state # "gone" /\ proc'[q].state = "gone"
                               => Cardinality(Gone) + 1 <= Cardinality(Gone')
<1>1. Gone' \in SUBSET Procs /\ Gone \subseteq Gone'
  BY DEF Gone, In
<1>2. /\ IsFiniteSet(Gone') /\ Cardinality(Gone') \in Nat
      /\ Cardinality(Gone) <= Cardinality(Gone')
  BY <1>1, CapAssumption, FS_Subset, FS_CardinalityType
<1>3. ASSUME NEW q \in Procs, proc[q].state # "gone", proc'[q].state = "gone"
      PROVE  Cardinality(Gone) + 1 <= Cardinality(Gone')
  <2>1. q \notin Gone /\ Gone \cup {q} \in SUBSET Gone'
    BY <1>1, <1>3 DEF Gone, In
  <2>2. Cardinality(Gone \cup {q}) = Cardinality(Gone) + 1
    BY <2>1, GoneCount, FS_AddElement
  <2>3. Cardinality(Gone \cup {q}) <= Cardinality(Gone')
    BY <1>2, <2>1, FS_Subset
  <2> QED
    BY <2>2, <2>3
<1> QED
  BY <1>2, <1>3

LEMMA InitTInv == Init => TInv
<1> SUFFICES ASSUME Init PROVE TInv
  OBVIOUS
<1>1. RangeInv
  BY CapAssumption, GoneCount DEF Init, RangeInv, Result, Counts, NoResult
<1>2. CountInv
  BY GoneCount DEF Init, CountInv
<1> QED
  BY <1>1, <1>2, InitIInv DEF TInv

\* A process holds no more than its group does.
LEMMA OwnIsWithin ==
  ASSUME TInv, NEW p \in Procs, NEW S \in SUBSET Procs, p \in S
  PROVE  Used(S) \in Nat /\ proc[p].mem <= Used(S)
<1> DEFINE own == {p} \X (1..proc[p].mem)
<1>1. proc[p].mem \in Nat /\ proc[p].mem <= Cap /\ Cap \in Nat
  BY CapAssumption DEF TInv, IInv, Shape, Process, RangeInv
<1>2. IsFiniteSet(Units(S))
  <2>1. 1 \in Int /\ Cap \in Int /\ IsFiniteSet(S)
    BY <1>1, CapAssumption, FS_Subset
  <2>2. IsFiniteSet(S \X (1..Cap))
    BY <2>1, FS_Interval, FS_Product
  <2> QED
    BY <2>2, FS_Subset DEF Units
<1>3. own \in SUBSET Units(S)
  BY <1>1 DEF Units
<1>4. Cardinality(own) = proc[p].mem
  <2>1. 1 \in Int /\ proc[p].mem \in Int
    BY <1>1
  <2>2. /\ IsFiniteSet(1..proc[p].mem)
        /\ Cardinality(1..proc[p].mem) = IF 1 > proc[p].mem THEN 0 ELSE proc[p].mem - 1 + 1
    BY <2>1, FS_Interval
  <2>3. IsFiniteSet({p}) /\ Cardinality({p}) = 1
    BY FS_Singleton
  <2>4. Cardinality(own) = Cardinality({p}) * Cardinality(1..proc[p].mem)
    BY <2>2, <2>3, FS_Product
  <2> QED
    BY <1>1, <2>2, <2>3, <2>4
<1> HIDE DEF own
<1>5. Cardinality(own) <= Cardinality(Units(S)) /\ Cardinality(Units(S)) \in Nat
  BY <1>2, <1>3, FS_Subset, FS_CardinalityType
<1> QED
  BY <1>4, <1>5 DEF Used

-----------------------------------------------------------------------------

\* The steps of the harness, and of a process that asks for no memory.
LEMMA HarnessTInv == ASSUME TInv, Enter \/ Leave PROVE TInv'
<1>1. IInv'
  BY EnterIInv, LeaveIInv DEF TInv
<1>2. UNCHANGED proc /\ \A p \in Procs : proc'[p].mem <= Cap
  BY DEF Enter, EnterGroup, Leave, kern, TInv, RangeInv
<1>3. UNCHANGED Gone
  BY <1>2 DEF Gone, In
<1>4. Cardinality(Gone') = Cardinality(Gone)
  BY <1>3, Zenon
<1>5. CASE Enter
  <2>1. /\ run + 1 \in Groups /\ high' = 0 /\ timeouts' = 0
        /\ \/ result' = result
           \/ result' = [result EXCEPT ![run + 1].status = "raised"]
        /\ \/ UNCHANGED <<peak, kills>>
           \/ /\ peak' = [peak EXCEPT ![run + 1] = 0]
              /\ kills' = [kills EXCEPT ![run + 1] = 0]
    BY <1>5, CapAssumption DEF Enter, EnterGroup, TInv, IInv, Shape, Groups
  <2>2. RangeInv'
    BY <1>2, <2>1, CapAssumption DEF TInv, RangeInv, Result
  <2>3. CountInv'
    BY <1>4, <2>1, GoneCount DEF TInv, CountInv, IInv, Shape
  <2> QED
    BY <1>1, <2>2, <2>3 DEF TInv
<1>6. CASE Leave
  <2>1. current \in Groups /\ run \in Groups
    BY <1>6, MembersAreMine DEF Leave, TInv
  <2>2. /\ result' = [result EXCEPT ![run] = [status |-> Status, peak |-> peak[current],
                                              kills |-> kills[current]]]
        /\ UNCHANGED <<timeouts, peak, kills, high>>
    BY <1>6 DEF Leave, kern
  <2>3. peak[current] \in 0..Cap /\ kills[current] \in Counts
    BY <2>1, GoneCount DEF TInv, IInv, Shape, RangeInv, CountInv, Counts
  <2>4. [status |-> Status, peak |-> peak[current], kills |-> kills[current]] \in Result
    BY <2>3 DEF Status, Result
  <2>5. RangeInv'
    BY <1>2, <2>2, <2>4 DEF TInv, RangeInv
  <2>6. CountInv'
    BY <1>4, <2>2 DEF TInv, CountInv
  <2> QED
    BY <1>1, <2>5, <2>6 DEF TInv
<1> QED
  BY <1>5, <1>6

LEMMA QuietTInv ==
  ASSUME TInv, NEW p \in Procs, NEW q \in Procs,
         Start(p) \/ JoinAndExec(p) \/ Exit(p) \/ Fork(p, q)
  PROVE  TInv'
<1>1. IInv'
  BY StartIInv, JoinIInv, ExitIInv, ForkIInv DEF TInv
<1>2. /\ UNCHANGED <<peak, kills, high, result>>
      /\ \A r \in Procs : proc'[r].mem <= Cap
      /\ \A r \in Procs : proc[r].state = "gone" => proc'[r].state = "gone"
      /\ \/ timeouts' = timeouts
         \/ /\ timeouts' = timeouts + 1
            /\ proc[p].state = "tool" /\ proc'[p].state = "gone"
  <2>1. proc \in [Procs -> Process] /\ Cap \in Nat /\ \A r \in Procs : proc[r].mem <= Cap
    BY CapAssumption DEF TInv, IInv, Shape, RangeInv
  <2>2. CASE Start(p)
    BY <2>1, <2>2 DEF Start, env, Process
  <2>3. CASE JoinAndExec(p)
    BY <2>1, <2>3 DEF JoinAndExec, env, Process
  <2>4. CASE Exit(p)
    BY <2>1, <2>4 DEF Exit, Process
  <2>5. CASE Fork(p, q)
    BY <2>1, <2>5 DEF Fork, env, Process
  <2> QED
    BY <2>2, <2>3, <2>4, <2>5
<1>3. RangeInv'
  BY <1>2 DEF TInv, RangeInv
<1>4. /\ Cardinality(Gone') \in Nat /\ Cardinality(Gone) <= Cardinality(Gone')
      /\ \/ timeouts' = timeouts
         \/ timeouts' = timeouts + 1 /\ Cardinality(Gone) + 1 <= Cardinality(Gone')
  BY <1>2, GoneGrows
<1>5. CountInv'
  BY <1>2, <1>4, GoneCount DEF TInv, CountInv, IInv, Shape
<1> QED
  BY <1>1, <1>3, <1>5 DEF TInv

\* A process asks for memory: within the cap, its group holds less than the
\* cap before; beyond it, a process goes.
LEMMA GrowTInv == ASSUME TInv, NEW p \in Procs, Grow(p) PROVE TInv'
<1> DEFINE g == proc[p].group
<1>1. /\ proc[p].state = "tool" /\ g = proc[p].by /\ g \in Groups
      /\ proc \in [Procs -> Process] /\ Cap \in Nat
      /\ \A r \in Procs : proc[r].mem <= Cap
      /\ UNCHANGED <<result, timeouts>>
  BY CapAssumption DEF Grow, env, TInv, IInv, Shape, ToolInv, RangeInv, Groups
<1>2. CASE Used(Members(g)) < Cap
  <2>1. IInv'
    BY <1>2, ServedIInv DEF TInv
  <2>2. /\ proc' = [proc EXCEPT ![p].mem = @ + 1]
        /\ peak' = [peak EXCEPT ![g] = Higher(@, Used(Members(g)))]
        /\ high' = IF p \in Mine /\ current # 0 THEN Higher(high, Used(Mine)) ELSE high
        /\ UNCHANGED kills
    BY <1>2 DEF Grow
  <2>3. /\ p \in Members(g) /\ Members(g) \in SUBSET Procs
        /\ Used(Members(g)) \in Nat /\ proc[p].mem <= Used(Members(g))
    <3>1. p \in Members(g) /\ Members(g) \in SUBSET Procs
      BY <1>1 DEF Members, In
    <3> QED
      BY <3>1, OwnIsWithin
  <2>4. ASSUME NEW old \in 0..Cap PROVE Higher(old, Used(Members(g))) \in 0..Cap
    BY <1>1, <1>2, <2>3 DEF Higher
  <2>5. peak' \in [Groups -> 0..Cap]
    BY <1>1, <2>2, <2>4 DEF TInv, RangeInv
  <2>6. high' \in 0..Cap
    <3>1. ASSUME p \in Mine, current # 0 PROVE Used(Mine) = Used(Members(g))
      <4>1. g = run /\ Members(run) = Mine
        BY <1>1, <3>1, MembersAreMine DEF TInv, Mine
      <4> QED
        BY <4>1
    <3> QED
      BY <2>2, <2>4, <3>1 DEF TInv, RangeInv
  <2>7. /\ \A r \in Procs : proc'[r].mem <= Cap /\ proc'[r].state = proc[r].state
    BY <1>1, <1>2, <2>2, <2>3 DEF Process
  <2>8. RangeInv'
    BY <1>1, <2>5, <2>6, <2>7 DEF TInv, RangeInv
  <2>9. Gone' = Gone
    BY <2>7 DEF Gone, In
  <2>10. Cardinality(Gone') = Cardinality(Gone)
    BY <2>9, Zenon
  <2>11. CountInv'
    BY <1>1, <2>2, <2>10 DEF TInv, CountInv
  <2> QED
    BY <2>1, <2>8, <2>11 DEF TInv
<1>3. CASE ~(Used(Members(g)) < Cap)
  <2>1. IInv'
    BY <1>3, KilledIInv DEF TInv
  <2>2. PICK q \in Members(g) :
          /\ proc' = [proc EXCEPT ![q].state = "gone", ![q].mem = 0]
          /\ kills' = [kills EXCEPT ![g] = @ + 1]
    BY <1>3 DEF Grow
  <2>3. UNCHANGED <<peak, high>>
    BY <1>3 DEF Grow
  <2>4. q \in Procs /\ proc[q].state # "gone"
    BY <2>2 DEF Members, In
  <2>5. /\ proc'[q].state = "gone"
        /\ \A r \in Procs : proc'[r].mem <= Cap
        /\ \A r \in Procs : proc[r].state = "gone" => proc'[r].state = "gone"
    BY <1>1, <2>2, <2>4 DEF Process
  <2>6. RangeInv'
    BY <1>1, <2>3, <2>5 DEF TInv, RangeInv
  <2>7. /\ Cardinality(Gone') \in Nat /\ Cardinality(Gone) \in Nat
        /\ Cardinality(Gone) + 1 <= Cardinality(Gone')
    BY <2>4, <2>5, GoneGrows, GoneCount
  <2>8. CountInv'
    BY <1>1, <2>2, <2>7 DEF TInv, CountInv, IInv, Shape
  <2> QED
    BY <2>1, <2>6, <2>8 DEF TInv
<1> QED
  BY <1>2, <1>3

LEMMA NextTInv == TInv /\ [Next]_vars => TInv'
<1>1. ASSUME TInv, UNCHANGED vars PROVE TInv'
  <2>1. IInv' /\ UNCHANGED <<proc, peak, kills, high, result, timeouts>>
    BY <1>1, NextIInv DEF TInv, vars, env, kern
  <2>2. Gone' = Gone
    BY <2>1 DEF Gone, In
  <2>3. Cardinality(Gone') = Cardinality(Gone)
    BY <2>2, Zenon
  <2> QED
    BY <1>1, <2>1, <2>3 DEF TInv, RangeInv, CountInv
<1> QED
  BY <1>1, HarnessTInv, QuietTInv, GrowTInv DEF Next

\* Whatever runs leave behind: no group's memory.peak, as run_cgroup
\* (envelope.py) reads it, exceeds the cap, no process holds more, and no more
\* kills and timeouts are counted than there were processes.
THEOREM RunTypeCorrect == Spec => []TypeOK
<1>1. ASSUME TInv PROVE TypeOK
  <2>1. /\ run \in 0..MaxRuns /\ runs \in 0..MaxRuns /\ current \in 0..MaxRuns
        /\ exists \subseteq Groups
    BY <1>1, CapAssumption DEF TInv, IInv, Shape, Groups
  <2>2. proc \in [Procs -> [state : {"unborn", "shell", "tool", "gone"}, group : 0..MaxRuns,
                            by : 0..MaxRuns, waited : BOOLEAN, mem : 0..Cap]]
    BY <1>1, CapAssumption DEF TInv, IInv, Shape, Process, RangeInv
  <2>3. kills \in [Groups -> Counts] /\ timeouts \in Counts
    BY <1>1, GoneCount DEF TInv, IInv, Shape, CountInv, Counts
  <2>4. /\ peak \in [Groups -> 0..Cap] /\ high \in 0..Cap /\ result \in [Groups -> Result]
        /\ victims \subseteq Procs
    BY <1>1 DEF TInv, IInv, VictimInv, RangeInv
  <2> QED
    BY <2>1, <2>2, <2>3, <2>4 DEF TypeOK, Result, Counts
<1>2. TInv /\ [Next]_vars => TInv'
  BY NextTInv
<1> QED
  BY <1>1, <1>2, InitTInv, PTL DEF Spec
=============================================================================
