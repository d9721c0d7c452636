------------------------------ MODULE RunTimed ------------------------------
(***************************************************************************)
(* run_timed (tcb/tools/base.py): one call per pool worker, each with a    *)
(* child process, two reader threads and, if it has a timeout, a timer     *)
(* thread that kills the child by pid.  The calls share the kernel's pid   *)
(* table: the pid of a child that was reaped can be given to the child of  *)
(* another call.                                                           *)
(*                                                                         *)
(* The `lock` of the code is held by the main thread for one assignment    *)
(* and by the timer thread from its test to its kill, so it is held        *)
(* exactly when timer[i] = "killing"; the steps that need it are guarded   *)
(* by LockFree.                                                            *)
(***************************************************************************)
EXTENDS Naturals

CONSTANTS Inv,      \* the calls of run_timed
          Pids,     \* the pids the kernel hands out
          Codes,    \* exit codes other than SIGKILL's
          Streams,  \* the piped streams, stdout and stderr
          OutLen,   \* bound: chunks a child writes to each stream
          Cap,      \* chunks a pipe holds
          Nobody    \* "no process has this pid"

ASSUME NobodyAssumption == Nobody \notin Inv /\ Nobody \notin Pids
ASSUME PipeAssumption == OutLen \in Nat /\ Cap \in Nat \ {0}
ASSUME CodesAssumption == "none" \notin Codes /\ "killed" \notin Codes

VARIABLES pc,        \* the main thread of the call
          pid,       \* p.pid
          timer,     \* the timer thread
          exited,    \* state["exited"]
          timedOut,  \* state["timed_out"]
          rc,        \* the return code of the Completed
          child,     \* whose status and rusage wait4 returned
          life,      \* the child in the kernel
          status,    \* the child's exit status
          heirs,     \* a descendant of the child holds its pipes open
          left,      \* chunks the child has still to write, per stream
          pipe,      \* chunks in the pipe
          got,       \* chunks in the reader's sink
          open,      \* streams whose reader has not seen end of file
          owner      \* the kernel's pid table

call == <<pc, pid, timer, exited, timedOut, rc, child>>
io   == <<heirs, left, pipe, got, open>>
vars == <<call, life, status, io, owner>>

TypeOK ==
  /\ pc \in [Inv -> {"idle", "waiting", "observed", "marked", "cancelled",
                     "reaped", "returned", "raised"}]
  /\ pid \in [Inv -> Pids \cup {Nobody}]
  /\ timer \in [Inv -> {"none", "armed", "fired", "killing", "over"}]
  /\ exited \in [Inv -> BOOLEAN]
  /\ timedOut \in [Inv -> BOOLEAN]
  /\ rc \in [Inv -> Codes \cup {"none", "killed", "124"}]
  /\ child \in [Inv -> Inv \cup {Nobody}]
  /\ life \in [Inv -> {"unborn", "running", "zombie", "gone"}]
  /\ status \in [Inv -> Codes \cup {"none", "killed"}]
  /\ heirs \in [Inv -> BOOLEAN]
  /\ left \in [Inv -> [Streams -> 0..OutLen]]
  /\ pipe \in [Inv -> [Streams -> 0..Cap]]
  /\ got \in [Inv -> [Streams -> 0..OutLen]]
  /\ open \in [Inv -> SUBSET Streams]
  /\ owner \in [Pids -> Inv \cup {Nobody}]

Init ==
  /\ pc = [i \in Inv |-> "idle"]
  /\ pid = [i \in Inv |-> Nobody]
  /\ timer = [i \in Inv |-> "none"]
  /\ exited = [i \in Inv |-> FALSE]
  /\ timedOut = [i \in Inv |-> FALSE]
  /\ rc = [i \in Inv |-> "none"]
  /\ child = [i \in Inv |-> Nobody]
  /\ life = [i \in Inv |-> "unborn"]
  /\ status = [i \in Inv |-> "none"]
  /\ heirs = [i \in Inv |-> FALSE]
  /\ left = [i \in Inv |-> [s \in Streams |-> OutLen]]
  /\ pipe = [i \in Inv |-> [s \in Streams |-> 0]]
  /\ got = [i \in Inv |-> [s \in Streams |-> 0]]
  /\ open = [i \in Inv |-> {}]
  /\ owner = [p \in Pids |-> Nobody]

-----------------------------------------------------------------------------
(* The main thread.                                                        *)

\* Popen forks the child under a free pid; the readers and, if a timeout
\* was given, the timer are started.
Spawn(i) ==
  /\ pc[i] = "idle"
  /\ \E p \in Pids, t \in {"none", "armed"} :
       /\ owner[p] = Nobody
       /\ owner' = [owner EXCEPT ![p] = i]
       /\ pid' = [pid EXCEPT ![i] = p]
       /\ timer' = [timer EXCEPT ![i] = t]
  /\ pc' = [pc EXCEPT ![i] = "waiting"]
  /\ life' = [life EXCEPT ![i] = "running"]
  /\ open' = [open EXCEPT ![i] = Streams]
  /\ UNCHANGED <<exited, timedOut, rc, child, status, heirs, left, pipe, got>>

\* Popen raises: no child, no thread, no Completed.
SpawnFails(i) ==
  /\ pc[i] = "idle"
  /\ pc' = [pc EXCEPT ![i] = "raised"]
  /\ UNCHANGED <<pid, timer, exited, timedOut, rc, child, life, status, io, owner>>

ObserveReaping(i) ==
  /\ pc[i] = "waiting" /\ life[i] = "zombie"
  /\ pc' = [pc EXCEPT ![i] = "observed"]
  /\ owner' = [owner EXCEPT ![pid[i]] = Nobody]
  /\ UNCHANGED <<pid, timer, exited, timedOut, rc, child, life, status, io>>

\* waitid(WEXITED | WNOWAIT): the child has ended and stays a zombie.
Observe(i) ==
  /\ pc[i] = "waiting" /\ life[i] = "zombie"
  /\ pc' = [pc EXCEPT ![i] = "observed"]
  /\ UNCHANGED <<pid, timer, exited, timedOut, rc, child, life, status, io, owner>>

LockFree(i) == timer[i] # "killing"

MarkExitedUnlocked(i) ==
  /\ pc[i] = "observed"
  /\ exited' = [exited EXCEPT ![i] = TRUE]
  /\ pc' = [pc EXCEPT ![i] = "marked"]
  /\ UNCHANGED <<pid, timer, timedOut, rc, child, life, status, io, owner>>

\* with lock: state["exited"] = True
MarkExited(i) ==
  /\ pc[i] = "observed" /\ LockFree(i)
  /\ exited' = [exited EXCEPT ![i] = TRUE]
  /\ pc' = [pc EXCEPT ![i] = "marked"]
  /\ UNCHANGED <<pid, timer, timedOut, rc, child, life, status, io, owner>>

\* timer.cancel() only stops a timer that has not fired yet.
CancelTimer(i) ==
  /\ pc[i] = "marked"
  /\ timer' = [timer EXCEPT ![i] = IF @ = "armed" THEN "over" ELSE @]
  /\ pc' = [pc EXCEPT ![i] = "cancelled"]
  /\ UNCHANGED <<pid, exited, timedOut, rc, child, life, status, io, owner>>

\* wait4 takes the status and rusage of the process that has the pid j has.
ReapOf(i, j) ==
  /\ life[j] = "zombie"
  /\ life' = [life EXCEPT ![j] = "gone"]
  /\ owner' = [owner EXCEPT ![pid[j]] = Nobody]
  /\ child' = [child EXCEPT ![i] = j]
  /\ rc' = [rc EXCEPT ![i] = IF timedOut[i] THEN "124" ELSE status[j]]
  /\ pc' = [pc EXCEPT ![i] = "reaped"]
  /\ UNCHANGED <<pid, timer, exited, timedOut, status, io>>

ReapAny(i) == pc[i] = "cancelled" /\ \E j \in Inv : ReapOf(i, j)

\* wait4(p.pid, 0), then the code is 124 if the timer declared a timeout.
Reap(i) == pc[i] = "cancelled" /\ \E j \in Inv : owner[pid[i]] = j /\ ReapOf(i, j)

ReturnWithoutJoin(i) ==
  /\ pc[i] = "reaped"
  /\ pc' = [pc EXCEPT ![i] = "returned"]
  /\ UNCHANGED <<pid, timer, exited, timedOut, rc, child, life, status, io, owner>>

\* r.join() for both readers, then the Completed is built.
Return(i) ==
  /\ pc[i] = "reaped" /\ open[i] = {}
  /\ pc' = [pc EXCEPT ![i] = "returned"]
  /\ UNCHANGED <<pid, timer, exited, timedOut, rc, child, life, status, io, owner>>

-----------------------------------------------------------------------------
(* The timer thread: expire() runs under the lock from its test on.        *)

TimerFire(i) ==
  /\ timer[i] = "armed"
  /\ timer' = [timer EXCEPT ![i] = "fired"]
  /\ UNCHANGED <<pc, pid, exited, timedOut, rc, child, life, status, io, owner>>

ExpireUntested(i) ==
  /\ timer[i] = "fired"
  /\ timer' = [timer EXCEPT ![i] = "killing"]
  /\ timedOut' = [timedOut EXCEPT ![i] = TRUE]
  /\ UNCHANGED <<pc, pid, exited, rc, child, life, status, io, owner>>

\* The test of state["exited"]; a timeout is declared before the kill.
Expire(i) ==
  /\ timer[i] = "fired"
  /\ timer' = [timer EXCEPT ![i] = IF exited[i] THEN "over" ELSE "killing"]
  /\ timedOut' = [timedOut EXCEPT ![i] = ~exited[i]]
  /\ UNCHANGED <<pc, pid, exited, rc, child, life, status, io, owner>>

ExpireKillNothing(i) ==
  /\ timer[i] = "killing"
  /\ timer' = [timer EXCEPT ![i] = "over"]
  /\ UNCHANGED <<pc, pid, exited, timedOut, rc, child, life, status, io, owner>>

\* os.kill(p.pid, SIGKILL) reaches whichever process has that pid now; it
\* ends one that runs and does nothing to a zombie.
ExpireKill(i) ==
  LET victims == {j \in Inv : owner[pid[i]] = j /\ life[j] = "running"}
  IN /\ timer[i] = "killing"
     /\ life' = [j \in Inv |-> IF j \in victims THEN "zombie" ELSE life[j]]
     /\ status' = [j \in Inv |-> IF j \in victims THEN "killed" ELSE status[j]]
     /\ timer' = [timer EXCEPT ![i] = "over"]
     /\ UNCHANGED <<pc, pid, exited, timedOut, rc, child, io, owner>>

-----------------------------------------------------------------------------
(* The readers: _drain reads to end of file and closes.                    *)

Transfer(i, s) ==
  /\ pipe' = [pipe EXCEPT ![i][s] = @ - 1]
  /\ got' = [got EXCEPT ![i][s] = @ + 1]
  /\ UNCHANGED <<call, life, status, heirs, left, open, owner>>

\* One reader for both streams: stdout to its end, then stderr.
ReadInTurn(i, s) ==
  /\ s \in open[i] /\ pipe[i][s] > 0
  /\ \A t \in open[i] : s = "out" \/ t # "out"
  /\ Transfer(i, s)

ReadUnguarded(i, s) == s \in open[i] /\ Transfer(i, s)

Read(i, s) == s \in open[i] /\ pipe[i][s] > 0 /\ Transfer(i, s)

\* End of file needs every holder of the write end gone, the child and the
\* descendants that inherited it.
Eof(i, s) ==
  /\ s \in open[i] /\ pipe[i][s] = 0 /\ life[i] # "running" /\ ~heirs[i]
  /\ open' = [open EXCEPT ![i] = @ \ {s}]
  /\ UNCHANGED <<call, life, status, heirs, left, pipe, got, owner>>

-----------------------------------------------------------------------------
(* The tool: code outside the harness.                                     *)

\* A write blocks while the pipe is full.
Write(i, s) ==
  /\ life[i] = "running" /\ left[i][s] > 0 /\ pipe[i][s] < Cap
  /\ left' = [left EXCEPT ![i][s] = @ - 1]
  /\ pipe' = [pipe EXCEPT ![i][s] = @ + 1]
  /\ UNCHANGED <<call, life, status, heirs, got, open, owner>>

\* The child ends at any time: by itself, by a crash, by the OOM killer.
Exit(i) ==
  /\ life[i] = "running"
  /\ \E c \in Codes : status' = [status EXCEPT ![i] = c]
  /\ life' = [life EXCEPT ![i] = "zombie"]
  /\ UNCHANGED <<call, io, owner>>

\* A tool may leave a worker process behind that holds stdout and stderr.
Fork(i) ==
  /\ life[i] = "running" /\ ~heirs[i]
  /\ heirs' = [heirs EXCEPT ![i] = TRUE]
  /\ UNCHANGED <<call, life, status, left, pipe, got, open, owner>>

HeirExit(i) ==
  /\ heirs[i]
  /\ heirs' = [heirs EXCEPT ![i] = FALSE]
  /\ UNCHANGED <<call, life, status, left, pipe, got, open, owner>>

-----------------------------------------------------------------------------
Main(i) == \/ Spawn(i) \/ SpawnFails(i) \/ Observe(i) \/ MarkExited(i)
           \/ CancelTimer(i) \/ Reap(i) \/ Return(i)
Timer(i) == TimerFire(i) \/ Expire(i) \/ ExpireKill(i)
Reader(i, s) == Read(i, s) \/ Eof(i, s)
Tool(i) == \/ \E s \in Streams : Write(i, s)
           \/ Exit(i) \/ Fork(i) \/ HeirExit(i)

\* Every call is over and every thread it started has ended.
AllOver == /\ \A i \in Inv : /\ pc[i] \in {"returned", "raised"}
                             /\ timer[i] \in {"none", "over"}
                             /\ ~heirs[i]
           /\ UNCHANGED vars

Next == \/ \E i \in Inv : \/ Main(i) \/ Timer(i) \/ Tool(i)
                          \/ \E s \in Streams : Reader(i, s)
        \/ AllOver

Spec == Init /\ [][Next]_vars

\* The harness' own threads are scheduled by the kernel.  Nothing is assumed
\* of the tool.
HarnessFairness ==
  \A i \in Inv : /\ WF_vars(Main(i))
                 /\ WF_vars(Timer(i))
                 /\ \A s \in Streams : WF_vars(Reader(i, s))

\* The tool's leftover processes end, or close the pipes, sooner or later.
HeirFairness == \A i \in Inv : WF_vars(HeirExit(i) /\ life[i] # "running")

\* A tool that is not stopped writes what it has to write, then ends.
ToolFairness ==
  \A i \in Inv : /\ WF_vars(\E s \in Streams : Write(i, s))
                 /\ WF_vars(Exit(i) /\ \A s \in Streams : left[i][s] = 0)

KillSpec == Spec /\ HarnessFairness /\ HeirFairness
LoneSpec == Spec /\ HarnessFairness

-----------------------------------------------------------------------------
(* The inductive invariant behind the properties.                          *)

\* The child is in the kernel's table: running or a zombie.
Held(i) == pc[i] \in {"waiting", "observed", "marked", "cancelled"}

\* The pid table and the calls agree: a pid stays the child's until wait4.
PidTable ==
  /\ \A i \in Inv : Held(i) => pid[i] \in Pids /\ owner[pid[i]] = i
  /\ \A p \in Pids : owner[p] # Nobody => Held(owner[p]) /\ pid[owner[p]] = p

\* Where each thread of a call may be when the others are where they are.
Threads(i) ==
  /\ pc[i] \in {"idle", "raised"} => timer[i] = "none" /\ life[i] = "unborn"
  /\ pc[i] = "waiting" => life[i] \in {"running", "zombie"}
  /\ pc[i] \in {"observed", "marked", "cancelled"} => life[i] = "zombie"
  /\ pc[i] \in {"reaped", "returned"} => life[i] = "gone" /\ child[i] = i
  /\ exited[i] <=> pc[i] \in {"marked", "cancelled", "reaped", "returned"}
  /\ timer[i] = "killing" => ~exited[i] /\ timedOut[i]
  /\ timer[i] \in {"none", "armed", "fired"} => ~timedOut[i]

\* A child has a status exactly when it has ended, "killed" if the timer did.
Statuses(i) ==
  /\ status[i] = "none" <=> life[i] \in {"unborn", "running"}
  /\ status[i] = "killed" => timedOut[i]
  /\ rc[i] = IF pc[i] \in {"reaped", "returned"}
              THEN IF timedOut[i] THEN "124" ELSE status[i]
              ELSE "none"

\* No chunk is lost or made up, and a reader stops at the true end of file.
Pipes(i) ==
  /\ \A s \in Streams :
       /\ left[i][s] + pipe[i][s] + got[i][s] = OutLen
       /\ s \notin open[i] => pipe[i][s] = 0 /\ life[i] # "running"
  /\ pc[i] = "returned" => open[i] = {}

IInv == TypeOK /\ PidTable /\ \A i \in Inv : Threads(i) /\ Statuses(i) /\ Pipes(i)

-----------------------------------------------------------------------------
(* Properties.                                                             *)

\* The comment of base.py:63-65: while the timer thread can still call
\* os.kill, the pid it will pass is the pid of this call's own child, never
\* one the kernel has given to the child of another worker.
KillHitsOwnChild == \A i \in Inv : timer[i] = "killing" => owner[pid[i]] = i

\* A child that was killed by SIGKILL from the harness belongs to a call
\* that reports 124: no worker's timeout ends another worker's tool.
KilledReports124 ==
  \A i \in Inv : status[i] = "killed" =>
    timedOut[i] /\ (rc[i] # "none" => rc[i] = "124")

\* The Completed holds this child's status and rusage, and all the output
\* the child wrote before it ended, whichever way it ended.
ResultIsOwn ==
  \A i \in Inv : pc[i] = "returned" =>
    /\ child[i] = i
    /\ \A s \in Streams : got[i][s] + left[i][s] = OutLen

\* timed_out is read without the lock after the child was reaped: nothing
\* can change it once the exit is marked, so the code that is reported and
\* the kill that was or was not sent agree.
TimedOutSettles ==
  [][\A i \in Inv : exited[i] => timedOut'[i] = timedOut[i]]_vars

\* run_timed implements the promise of Invocation: each call behaves as if
\* it were alone.
phase == [i \in Inv |->
            CASE pc[i] = "idle" -> "new"
              [] pc[i] = "raised" -> "failed"
              [] pc[i] \in {"waiting", "observed"} -> "running"
              [] pc[i] \in {"marked", "cancelled"} -> "seen"
              [] OTHER -> "done"]

Promise == INSTANCE Invocation WITH phase <- phase, timedOut <- timedOut,
                                    status <- status, rc <- rc
Implements == Promise!Spec

Over(i) == pc[i] \in {"returned", "raised"}

\* A call with a timeout returns whatever its tool does, if the processes
\* the tool leaves behind let go of the pipes.
TimedCallReturns == \A i \in Inv : timer[i] = "armed" ~> Over(i)

\* tests/test_envelope.py, test_timeout_is_124_and_does_not_hang: once the
\* timer has killed the child the call returns, with nothing assumed of the
\* processes the child leaves behind.
TimeoutDoesNotHang == \A i \in Inv : timedOut[i] ~> Over(i)

\* A tool that writes more than a pipe holds, on both streams in any order,
\* is never stuck on a full pipe: if it is scheduled at all the call returns,
\* also one that has no timeout.
ToolNeverStuck ==
  ToolFairness => \A i \in Inv : pc[i] = "waiting" ~> Over(i)

=============================================================================
