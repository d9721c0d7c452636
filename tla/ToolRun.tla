------------------------------- MODULE ToolRun -------------------------------
(***************************************************************************)
(* The tool runs of one tcb process under a memory cap: tool_run,          *)
(* run_cgroup and wrap_argv (tcb/envelope.py) around the invocations of an *)
(* adapter, and the status that _envelope_status gives the bundle          *)
(* (tcb/run.py).  `tcb timing` and `tcb selfcheck` make several runs in    *)
(* one process, so what one run leaves behind is there in the next.        *)
(*                                                                         *)
(* Group 0 is the harness; group n is the cgroup tools-n.  A process of an *)
(* invocation starts as a shell in group 0, joins the run's group and only *)
(* then executes the tool, whose descendants stay in that group.           *)
(***************************************************************************)
EXTENDS Naturals, FiniteSets

CONSTANTS Procs,     \* process identities
          MaxRuns,   \* bound: runs the process makes
          Cap        \* memory.max, in units

ASSUME CapAssumption == Cap \in Nat \ {0} /\ MaxRuns \in Nat /\ IsFiniteSet(Procs)

VARIABLES run,       \* runs begun
          runs,      \* env._runs, the number of the last group made
          current,   \* _CURRENT: a group, 0 outside tool_run
          exists,    \* the groups that are there
          peak,      \* memory.peak of each group
          kills,     \* memory.events oom_kill of each group
          proc,      \* the processes
          timeouts,  \* invocations of this run with an unexpected 124
          result,    \* per run: what run_cgroup read, and the bundle's status
          high,      \* history: the most memory this run's processes held
          victims    \* history: this run's processes the kernel killed

env  == <<run, runs, current, exists, timeouts, result>>
kern == <<peak, kills, proc>>
vars == <<env, kern, high, victims>>

Groups == 1..MaxRuns
NoResult == [status |-> "none", peak |-> 0, kills |-> 0]

TypeOK ==
  /\ run \in 0..MaxRuns /\ runs \in 0..MaxRuns /\ current \in 0..MaxRuns
  /\ exists \subseteq Groups
  /\ peak \in [Groups -> 0..Cap]
  /\ kills \in [Groups -> 0..Cardinality(Procs)]
  /\ proc \in [Procs -> [state : {"unborn", "shell", "tool", "gone"}, group : 0..MaxRuns,
                         by : 0..MaxRuns, waited : BOOLEAN, mem : 0..Cap]]
  /\ timeouts \in 0..Cardinality(Procs)
  /\ result \in [Groups -> [status : {"none", "ok", "timeout", "oom", "raised"},
                            peak : 0..Cap, kills : 0..Cardinality(Procs)]]
  /\ high \in 0..Cap /\ victims \subseteq Procs

Init == /\ run = 0 /\ runs = 0 /\ current = 0 /\ exists = {} /\ timeouts = 0
        /\ peak = [g \in Groups |-> 0] /\ kills = [g \in Groups |-> 0]
        /\ proc = [p \in Procs |-> [state |-> "unborn", group |-> 0, by |-> 0,
                                    waited |-> FALSE, mem |-> 0]]
        /\ result = [g \in Groups |-> NoResult]
        /\ high = 0 /\ victims = {}

In(S) == {p \in Procs : proc[p].state \in S}
Units(S) == {x \in S \X (1..Cap) : x[2] <= proc[x[1]].mem}
Used(S) == Cardinality(Units(S))
Members(g) == {p \in In({"shell", "tool"}) : proc[p].group = g}
Mine == {p \in In({"tool"}) : proc[p].by = run}

-----------------------------------------------------------------------------
(* The harness.                                                            *)

EnterGroup(g) ==
  /\ run < MaxRuns /\ current = 0
  /\ run' = run + 1 /\ runs' = g
  /\ timeouts' = 0 /\ high' = 0 /\ victims' = {}
  /\ IF g \in exists
     THEN /\ result' = [result EXCEPT ![run'].status = "raised"]
          /\ UNCHANGED <<current, exists, peak, kills>>
     ELSE /\ current' = g
          /\ exists' = exists \cup {g}
          /\ peak' = [peak EXCEPT ![g] = 0]
          /\ kills' = [kills EXCEPT ![g] = 0]
          /\ UNCHANGED result
  /\ UNCHANGED proc

EnterKeepingGroup ==
  IF 1 \notin exists THEN EnterGroup(1)
  ELSE /\ run < MaxRuns /\ current = 0
       /\ run' = run + 1 /\ current' = 1
       /\ timeouts' = 0 /\ high' = 0 /\ victims' = {}
       /\ UNCHANGED <<runs, exists, kern, result>>

EnterUncounted == EnterGroup(runs)

\* tool_run: a fresh group tools-N; mkdir raises if it is there already.
Enter == EnterGroup(runs + 1)

\* run_timed(wrap_argv(...)): the shell starts where the harness is.
Start(p) == /\ current # 0 /\ proc[p].state = "unborn"
            /\ proc' = [proc EXCEPT ![p] = [state |-> "shell", group |-> 0, by |-> run,
                                            waited |-> TRUE, mem |-> 0]]
            /\ UNCHANGED <<env, peak, kills, high, victims>>

ExecFirst(p) ==
  /\ proc[p].state = "shell"
  /\ \E g \in {0, proc[p].by} : proc' = [proc EXCEPT ![p].state = "tool", ![p].group = g]
  /\ UNCHANGED <<env, peak, kills, high, victims>>

\* echo $$ > "$p" || exit 125, then exec: the tool runs only in the group.
JoinAndExec(p) ==
  /\ proc[p].state = "shell"
  /\ \/ proc' = [proc EXCEPT ![p].state = "tool", ![p].group = current]
     \/ proc' = [proc EXCEPT ![p].state = "gone"]
  /\ UNCHANGED <<env, peak, kills, high, victims>>

JudgeTimeoutFirst ==
  IF timeouts > 0 THEN "timeout" ELSE IF kills[current] > 0 THEN "oom" ELSE "ok"

\* The oom of _envelope_status overrides the timeout of run_realworld and
\* run_juliet; a 124 an adapter expects counts as neither.
Status ==
  IF kills[current] > 0 THEN "oom" ELSE IF timeouts > 0 THEN "timeout" ELSE "ok"

\* The adapter has returned: its pool waited for every invocation.  The
\* figures are read, then rmdir is tried; it fails on a straggler.
Leave == /\ current # 0
         /\ \A p \in In({"shell", "tool"}) : proc[p].by = run => ~proc[p].waited
         /\ result' = [result EXCEPT ![run] = [status |-> Status, peak |-> peak[current],
                                               kills |-> kills[current]]]
         /\ exists' = IF Members(current) = {} THEN exists \ {current} ELSE exists
         /\ current' = 0
         /\ UNCHANGED <<run, runs, timeouts, kern, high, victims>>

-----------------------------------------------------------------------------
(* The tool and the kernel.                                                *)

\* A tool starts a process and does not wait for it.
Fork(p, q) == /\ proc[p].state = "tool" /\ proc[q].state = "unborn"
              /\ proc' = [proc EXCEPT ![q] = [proc[p] EXCEPT !.waited = FALSE, !.mem = 0]]
              /\ UNCHANGED <<env, peak, kills, high, victims>>

\* The higher of a peak and one unit more than is used.
Higher(old, used) == IF old > used THEN old ELSE used + 1

\* A process asks for memory.  Above the cap the kernel kills a process of
\* the group, counts it, and serves the request of a survivor later.
Grow(p) ==
  LET g == proc[p].group
  IN /\ proc[p].state = "tool" /\ g # 0
     /\ IF Used(Members(g)) < Cap
        THEN /\ proc' = [proc EXCEPT ![p].mem = @ + 1]
             /\ peak' = [peak EXCEPT ![g] = Higher(@, Used(Members(g)))]
             /\ high' = IF p \in Mine /\ current # 0 THEN Higher(high, Used(Mine)) ELSE high
             /\ UNCHANGED <<kills, victims>>
        ELSE \E q \in Members(g) :
             /\ proc' = [proc EXCEPT ![q].state = "gone", ![q].mem = 0]
             /\ kills' = [kills EXCEPT ![g] = @ + 1]
             /\ victims' = IF q \in Mine /\ current # 0 THEN victims \cup {q} ELSE victims
             /\ UNCHANGED <<peak, high>>
     /\ UNCHANGED env

\* A process ends; an invocation may end with an unexpected 124 (RunTimed).
Exit(p) == /\ proc[p].state = "tool"
           /\ proc' = [proc EXCEPT ![p].state = "gone", ![p].mem = 0]
           /\ \/ timeouts' = timeouts
              \/ proc[p].waited /\ timeouts' = timeouts + 1
           /\ UNCHANGED <<run, runs, current, exists, result, peak, kills, high, victims>>

Next == \/ Enter \/ Leave
        \/ \E p \in Procs : Start(p) \/ JoinAndExec(p) \/ Grow(p) \/ Exit(p)
        \/ \E p, q \in Procs : Fork(p, q)

Spec == Init /\ [][Next]_vars

-----------------------------------------------------------------------------
(* Properties.                                                             *)

\* The cap covers every process of a run and none of another run's: a
\* straggler never moves into the next run's group, nor a tool into the
\* harness'.
Confined == \A p \in Procs : proc[p].state = "tool" => proc[p].group = proc[p].by

\* Every run that was begun and is over has figures, and the peak and the
\* kills are those of its own processes while it lasted, whatever earlier runs
\* left running: a straggler that keeps its group from being removed neither
\* adds to the next run's figures nor keeps that run from starting.
FiguresAreOwn ==
  run > 0 /\ current = 0 =>
    /\ result[run].status \in {"ok", "timeout", "oom"}
    /\ result[run].peak = high
    /\ result[run].kills = Cardinality(victims)

\* envelope.py:18-20: a run in which the cap killed a process, not only the
\* invocation itself, has status oom, even if an invocation also timed out.
CapKillMeansOom ==
  run > 0 /\ result[run].status \in {"ok", "timeout", "oom"} =>
    (result[run].status = "oom" <=> victims # {})

=============================================================================
