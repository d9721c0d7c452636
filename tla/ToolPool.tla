------------------------------ MODULE ToolPool ------------------------------
(***************************************************************************)
(* The thread pool of the per-file adapters: `with ThreadPoolExecutor(jobs)*)
(* as pool: results = list(pool.map(one, items))` in clang_tidy.py,        *)
(* cppcheck.py and frama_c.py.  One item is one invocation of the tool.    *)
(* The real-world run of Frama-C also has a wall-clock budget, which a     *)
(* worker checks after it has taken an item off the queue.                 *)
(* SequentialMap is what the adapters rely on.                             *)
(***************************************************************************)
EXTENDS Naturals, FiniteSets, Sequences

CONSTANTS Jobs,      \* max_workers
          N,         \* the number of items
          Budgeted,  \* whether items are skipped once the budget is used up
          Outcomes,  \* how an invocation may end
          NoOutcome  \* the outcome of an invocation that has not ended

ASSUME JobsAssumption == Jobs \in Nat \ {0}
ASSUME NAssumption == N \in Nat
ASSUME OutcomeAssumption == NoOutcome \notin Outcomes

VARIABLES main,      \* the thread that called map
          submitted, \* items it has submitted
          job,       \* the future of each item
          outcome,   \* how the invocation of an item ended
          late,      \* the budget is used up
          results    \* the items whose results list() has taken, in order

vars == <<main, submitted, job, outcome, late, results>>

Items == 1..N

InState(S) == {k \in Items : job[k] \in S}
Active == InState({"taken", "running"})

TypeOK ==
  /\ main \in {"submitting", "collecting", "failing", "closing", "done", "raised"}
  /\ submitted \in 0..N
  /\ job \in [Items -> {"new", "queued", "taken", "running", "result",
                        "skipped", "error", "cancelled"}]
  /\ outcome \in [Items -> Outcomes \cup {NoOutcome}]
  /\ late \in BOOLEAN
  /\ results \in Seq(Items) /\ Len(results) <= N

Init == /\ main = "submitting" /\ submitted = 0
        /\ job = [k \in Items |-> "new"]
        /\ outcome = [k \in Items |-> NoOutcome]
        /\ late = FALSE /\ results = <<>>

-----------------------------------------------------------------------------
(* The calling thread.                                                     *)

SubmitPastEnd == /\ main = "submitting" /\ submitted <= N
                 /\ submitted' = submitted + 1
                 /\ job' = [k \in Items |-> IF k = submitted' THEN "queued" ELSE job[k]]
                 /\ UNCHANGED <<main, outcome, late, results>>

\* map submits every item before the first result is asked for.
Submit == /\ main = "submitting" /\ submitted < N
          /\ submitted' = submitted + 1
          /\ job' = [job EXCEPT ![submitted'] = "queued"]
          /\ UNCHANGED <<main, outcome, late, results>>

Submitted == /\ main = "submitting" /\ submitted = N
             /\ main' = "collecting"
             /\ UNCHANGED <<submitted, job, outcome, late, results>>

CollectAsCompleted ==
  /\ main = "collecting"
  /\ \E k \in InState({"result", "skipped"}) :
       /\ \A m \in DOMAIN results : results[m] # k
       /\ results' = Append(results, k)
  /\ UNCHANGED <<main, submitted, job, outcome, late>>

\* list(map) takes the results in the order of the items.
Collect == LET k == Len(results) + 1
           IN /\ main = "collecting" /\ k <= N
              /\ job[k] \in {"result", "skipped"}
              /\ results' = Append(results, k)
              /\ UNCHANGED <<main, submitted, job, outcome, late>>

\* An item that raised ends the iteration: the generator cancels the futures
\* it has not yielded, and the exception leaves the with block.
CollectError == /\ main = "collecting" /\ Len(results) < N
                /\ job[Len(results) + 1] = "error"
                /\ main' = "failing"
                /\ UNCHANGED <<submitted, job, outcome, late, results>>

\* The futures are cancelled from the last to the first, one at a time; one
\* that a worker has taken is not cancelled.
Cancel == /\ main = "failing"
          /\ \E k \in InState({"queued"}) :
               /\ \A m \in InState({"queued"}) : m <= k
               /\ job' = [job EXCEPT ![k] = "cancelled"]
          /\ UNCHANGED <<main, submitted, outcome, late, results>>

CloseAwaitingAll ==
  /\ \/ main = "collecting" /\ Len(results) = N
     \/ main = "failing" /\ InState({"queued", "cancelled"}) = {}
  /\ main' = "closing"
  /\ UNCHANGED <<submitted, job, outcome, late, results>>

Close == /\ \/ main = "collecting" /\ Len(results) = N
            \/ main = "failing" /\ InState({"queued"}) = {}
         /\ main' = "closing"
         /\ UNCHANGED <<submitted, job, outcome, late, results>>

ShutdownNoWait ==
  /\ main = "closing"
  /\ main' = IF Len(results) = N THEN "done" ELSE "raised"
  /\ UNCHANGED <<submitted, job, outcome, late, results>>

\* shutdown(wait=True) joins the workers, then the call goes on or raises.
Shutdown ==
  /\ main = "closing" /\ Active = {}
  /\ main' = IF Len(results) = N THEN "done" ELSE "raised"
  /\ UNCHANGED <<submitted, job, outcome, late, results>>

-----------------------------------------------------------------------------
(* The workers.                                                            *)

\* The work queue is first in, first out.
Take(k) == /\ job[k] = "queued" /\ Cardinality(Active) < Jobs
           /\ \A m \in InState({"queued"}) : k <= m
           /\ job' = [job EXCEPT ![k] = "taken"]
           /\ UNCHANGED <<main, submitted, outcome, late, results>>

\* one(item): an item that finds the budget used up is skipped; otherwise
\* the tool is started, which raises if it cannot be.
Begin(k) ==
  /\ job[k] = "taken"
  /\ \E s \in IF Budgeted /\ late THEN {"skipped"} ELSE {"running", "error"} :
       job' = [job EXCEPT ![k] = s]
  /\ UNCHANGED <<main, submitted, outcome, late, results>>

\* The invocation ends, at the latest with its timeout (see RunTimed); what
\* the tool printed may be such that reading it raises.
End(k) ==
  /\ job[k] = "running"
  /\ \/ /\ job' = [job EXCEPT ![k] = "result"]
        /\ \E o \in Outcomes : outcome' = [outcome EXCEPT ![k] = o]
     \/ job' = [job EXCEPT ![k] = "error"] /\ UNCHANGED outcome
  /\ UNCHANGED <<main, submitted, late, results>>

\* time.monotonic() passes the budget.
BudgetEnds == /\ Budgeted /\ ~late /\ main \notin {"done", "raised"}
              /\ late' = TRUE
              /\ UNCHANGED <<main, submitted, job, outcome, results>>

-----------------------------------------------------------------------------
Caller == \/ Submit \/ Submitted \/ Collect \/ CollectError
          \/ Cancel \/ Close \/ Shutdown
Worker(k) == Take(k) \/ Begin(k) \/ End(k)

Next == Caller \/ (\E k \in Items : Worker(k)) \/ BudgetEnds

Spec == Init /\ [][Next]_vars

\* Threads are scheduled, and every invocation ends (RunTimed: it has a
\* timeout).  The budget need not run out.
FairSpec == Spec /\ WF_vars(Caller) /\ \A k \in Items : WF_vars(Worker(k))

-----------------------------------------------------------------------------
(* Properties.                                                             *)

Over == main \in {"done", "raised"}

\* A prefix of the items in their order, and all of them if the call returns.
ResultsInItemOrder ==
  /\ \A m \in DOMAIN results : results[m] = m
  /\ main = "done" => Len(results) = N

\* When the with block is left, also by an exception, no worker still runs a
\* tool or can start one: nothing the pool began writes into the cgroup or
\* the raw directory of what comes after it.
NothingOutlivesThePool == Over => Active \cup InState({"queued"}) = {}

\* The call of the pool ends, with the results or with the exception.
PoolEnds == <>Over

\* What an item has come to; a future that is not done, or cancelled, has no
\* answer.
Answer(k) == CASE job[k] = "result"  -> [is |-> "value", of |-> outcome[k]]
               [] job[k] = "skipped" -> [is |-> "skipped", of |-> NoOutcome]
               [] job[k] = "error"   -> [is |-> "failed", of |-> NoOutcome]
               [] OTHER              -> [is |-> "none", of |-> NoOutcome]

Loop == INSTANCE SequentialMap WITH
  N       <- N,
  Answers <- [is : {"value"}, of : Outcomes] \cup {[is |-> "skipped", of |-> NoOutcome]},
  Failed  <- [is |-> "failed", of |-> NoOutcome],
  NotYet  <- [is |-> "none", of |-> NoOutcome],
  answer  <- [k \in Items |-> Answer(k)],
  got     <- [m \in DOMAIN results |-> Answer(results[m])],
  over    <- CASE main = "done" -> "returned" [] main = "raised" -> "raised" [] OTHER -> "no"

\* The adapters get from the pool what a loop over the items would have given
\* them: the findings of a bundle, and the exception that ends a run, do not
\* depend on which worker was faster.
ActsAsLoop == Loop!Spec
=============================================================================
