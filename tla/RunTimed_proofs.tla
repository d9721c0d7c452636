--------------------------- MODULE RunTimed_proofs ---------------------------
(***************************************************************************)
(* Proofs about RunTimed for any set of calls, pids, codes and streams and *)
(* any pipe capacity.  IInv is inductive; the safety properties and the    *)
(* refinement of Invocation follow from it.                                *)
(***************************************************************************)
EXTENDS RunTimed, TLAPS

\* The initial states satisfy the inductive invariant.
LEMMA InitIInv == Init => IInv
<1>1. SUFFICES ASSUME Init PROVE IInv
  OBVIOUS
<1>2. TypeOK
  BY <1>1, PipeAssumption DEF Init, TypeOK
<1>3. PidTable
  BY <1>1 DEF Init, PidTable, Held
<1>4. \A i \in Inv : Threads(i) /\ Statuses(i) /\ Pipes(i)
  <2>1. \A i \in Inv : Threads(i) /\ Statuses(i)
    BY <1>1, CodesAssumption DEF Init, Threads, Statuses
  <2>2. \A i \in Inv : Pipes(i)
    <3>1. ASSUME NEW i \in Inv, NEW s \in Streams
          PROVE  left[i][s] = OutLen /\ pipe[i][s] = 0 /\ got[i][s] = 0 /\ life[i] = "unborn"
      BY <1>1 DEF Init
    <3>2. OutLen + 0 + 0 = OutLen
      BY PipeAssumption
    <3>. QED  BY <1>1, <3>1, <3>2 DEF Init, Pipes
  <2>. QED  BY <2>1, <2>2
<1>. QED  BY <1>2, <1>3, <1>4 DEF IInv

\* The steps of the main thread preserve it: a pid is taken from the table
\* at Spawn and given back at Reap only.
LEMMA SpawnIInv == ASSUME IInv, NEW k \in Inv, Spawn(k) PROVE IInv'
<1>. USE NobodyAssumption DEF IInv
<1>1. PICK p \in Pids, t \in {"none", "armed"} :
        /\ owner[p] = Nobody
        /\ owner' = [owner EXCEPT ![p] = k]
        /\ pid' = [pid EXCEPT ![k] = p]
        /\ timer' = [timer EXCEPT ![k] = t]
  BY DEF Spawn
<1>2. TypeOK'
  BY <1>1 DEF TypeOK, Spawn
<1>3. PidTable'
  BY <1>1 DEF TypeOK, Spawn, PidTable, Held
<1>4. \A i \in Inv : (Threads(i) /\ Statuses(i) /\ Pipes(i))'
  BY <1>1 DEF TypeOK, Spawn, Threads, Statuses, Pipes
<1>. QED  BY <1>2, <1>3, <1>4

LEMMA ReapIInv == ASSUME IInv, NEW k \in Inv, Reap(k) PROVE IInv'
<1>. USE NobodyAssumption DEF IInv
<1>1. ReapOf(k, k) /\ pc[k] = "cancelled" /\ owner[pid[k]] = k
  BY DEF Reap, PidTable, Held
<1>2. TypeOK'
  BY <1>1 DEF TypeOK, ReapOf, io
<1>3. PidTable'
  BY <1>1 DEF TypeOK, ReapOf, io, PidTable, Held
<1>4. \A i \in Inv : (Threads(i) /\ Statuses(i) /\ Pipes(i))'
  BY <1>1 DEF TypeOK, ReapOf, io, Threads, Statuses, Pipes
<1>. QED  BY <1>2, <1>3, <1>4

LEMMA MainIInv == ASSUME IInv, NEW k \in Inv, Main(k) PROVE IInv'
<1>. USE NobodyAssumption DEF IInv
<1>1. CASE SpawnFails(k)
  BY <1>1 DEF SpawnFails, TypeOK, io, PidTable, Held, Threads, Statuses, Pipes
<1>2. CASE Observe(k)
  BY <1>2 DEF Observe, TypeOK, io, PidTable, Held, Threads, Statuses, Pipes
<1>3. CASE MarkExited(k)
  BY <1>3 DEF MarkExited, LockFree, TypeOK, io, PidTable, Held, Threads, Statuses, Pipes
<1>4. CASE CancelTimer(k)
  BY <1>4 DEF CancelTimer, TypeOK, io, PidTable, Held, Threads, Statuses, Pipes
<1>5. CASE Return(k)
  BY <1>5 DEF Return, TypeOK, io, PidTable, Held, Threads, Statuses, Pipes
<1>. QED  BY <1>1, <1>2, <1>3, <1>4, <1>5, SpawnIInv, ReapIInv DEF Main

\* The process a timer kills is its own call's child, or nobody.
LEMMA KillStep ==
  ASSUME IInv, NEW k \in Inv, ExpireKill(k)
  PROVE  /\ Held(k) /\ owner[pid[k]] = k /\ timedOut[k]
         /\ timer' = [timer EXCEPT ![k] = "over"]
         /\ life' = [j \in Inv |-> IF j = k /\ life[k] = "running" THEN "zombie" ELSE life[j]]
         /\ status' = [j \in Inv |-> IF j = k /\ life[k] = "running" THEN "killed" ELSE status[j]]
         /\ UNCHANGED <<pc, pid, exited, timedOut, rc, child, io, owner>>
<1>1. timer[k] = "killing" /\ timedOut[k] /\ Held(k)
  BY DEF ExpireKill, IInv, TypeOK, Threads, Held
<1>2. owner[pid[k]] = k
  BY <1>1 DEF IInv, PidTable
<1>3. {j \in Inv : owner[pid[k]] = j /\ life[j] = "running"}
        = IF life[k] = "running" THEN {k} ELSE {}
  BY <1>2
<1>. QED  BY <1>1, <1>2, <1>3 DEF ExpireKill

LEMMA TimerIInv == ASSUME IInv, NEW k \in Inv, Timer(k) PROVE IInv'
<1>. USE NobodyAssumption DEF IInv
<1>1. CASE TimerFire(k)
  BY <1>1 DEF TimerFire, TypeOK, io, PidTable, Held, Threads, Statuses, Pipes
<1>2. CASE Expire(k)
  <2>1. ~timedOut[k]
    BY <1>2 DEF Expire, Threads
  <2>2. CASE exited[k]
    <3>1. timer' = [timer EXCEPT ![k] = "over"] /\ timedOut' = timedOut
      BY <1>2, <2>1, <2>2 DEF Expire, TypeOK
    <3>. QED
      BY <1>2, <2>1, <2>2, <3>1 DEF Expire, TypeOK, io, PidTable, Held, Threads, Statuses, Pipes
  <2>3. CASE ~exited[k]
    <3>1. /\ timer' = [timer EXCEPT ![k] = "killing"]
          /\ timedOut' = [timedOut EXCEPT ![k] = TRUE]
      BY <1>2, <2>3 DEF Expire, TypeOK
    <3>. QED
      BY <1>2, <2>1, <2>3, <3>1 DEF Expire, TypeOK, io, PidTable, Held, Threads, Statuses, Pipes
  <2>. QED  BY <2>2, <2>3
<1>3. CASE ExpireKill(k)
  <2>1. TypeOK'
    <3>1. /\ timer' \in [Inv -> {"none", "armed", "fired", "killing", "over"}]
          /\ life' \in [Inv -> {"unborn", "running", "zombie", "gone"}]
          /\ status' \in [Inv -> Codes \cup {"none", "killed"}]
      <4>1. timer' \in [Inv -> {"none", "armed", "fired", "killing", "over"}]
        BY <1>3, KillStep DEF TypeOK
      <4>2. life' \in [Inv -> {"unborn", "running", "zombie", "gone"}]
        BY <1>3, KillStep DEF TypeOK
      <4>3. status' \in [Inv -> Codes \cup {"none", "killed"}]
        BY <1>3, KillStep DEF TypeOK
      <4>. QED  BY <4>1, <4>2, <4>3
    <3>. QED  BY <1>3, <3>1, KillStep DEF TypeOK, io
  <2>2. PidTable'
    BY <1>3, KillStep DEF TypeOK, io, PidTable, Held
  <2>3. \A i \in Inv : (Threads(i) /\ Statuses(i) /\ Pipes(i))'
    BY <1>3, KillStep DEF TypeOK, io, Held, Threads, Statuses, Pipes
  <2>. QED  BY <2>1, <2>2, <2>3
<1>. QED  BY <1>1, <1>2, <1>3 DEF Timer

\* Reading and writing keep the number of chunks.
LEMMA ReaderIInv == ASSUME IInv, NEW k \in Inv, NEW s \in Streams, Reader(k, s) PROVE IInv'
<1>. USE PipeAssumption DEF IInv
<1>1. CASE Read(k, s)
  <2>1. TypeOK'
    BY <1>1 DEF Read, Transfer, call, TypeOK, Pipes
  <2>2. PidTable' /\ \A i \in Inv : (Threads(i) /\ Statuses(i))'
    BY <1>1 DEF Read, Transfer, call, PidTable, Held, Threads, Statuses
  <2>3. \A i \in Inv : Pipes(i)'
    <3>1. TAKE i \in Inv
    <3>2. ASSUME NEW t \in Streams
          PROVE  /\ left'[i][t] = left[i][t]
                 /\ IF i = k /\ t = s
                    THEN pipe'[i][t] = pipe[i][t] - 1 /\ got'[i][t] = got[i][t] + 1
                    ELSE pipe'[i][t] = pipe[i][t] /\ got'[i][t] = got[i][t]
      BY <1>1 DEF Read, Transfer, TypeOK
    <3>3. ASSUME NEW t \in Streams
          PROVE  /\ left[i][t] \in Nat /\ pipe[i][t] \in Nat /\ got[i][t] \in Nat
                 /\ left[i][t] + pipe[i][t] + got[i][t] = OutLen
      BY DEF TypeOK, Pipes
    <3>4. ASSUME NEW t \in Streams
          PROVE  left'[i][t] + pipe'[i][t] + got'[i][t] = OutLen
      BY <3>2, <3>3
    <3>5. life' = life /\ pc' = pc /\ open' = open /\ s \in open[k]
      BY <1>1 DEF Read, Transfer, call
    <3>. QED  BY <3>2, <3>4, <3>5 DEF Pipes
  <2>. QED  BY <2>1, <2>2, <2>3
<1>2. CASE Eof(k, s)
  BY <1>2 DEF Eof, TypeOK, call, PidTable, Held, Threads, Statuses, Pipes
<1>. QED  BY <1>1, <1>2 DEF Reader

LEMMA ToolIInv == ASSUME IInv, NEW k \in Inv, Tool(k) PROVE IInv'
<1>. USE PipeAssumption, CodesAssumption DEF IInv
<1>1. ASSUME NEW s \in Streams, Write(k, s) PROVE IInv'
  <2>1. TypeOK'
    BY <1>1 DEF Write, call, TypeOK
  <2>2. PidTable' /\ \A i \in Inv : (Threads(i) /\ Statuses(i))'
    BY <1>1 DEF Write, call, PidTable, Held, Threads, Statuses
  <2>3. \A i \in Inv : Pipes(i)'
    <3>1. TAKE i \in Inv
    <3>2. ASSUME NEW t \in Streams
          PROVE  /\ got'[i][t] = got[i][t]
                 /\ IF i = k /\ t = s
                    THEN left'[i][t] = left[i][t] - 1 /\ pipe'[i][t] = pipe[i][t] + 1
                    ELSE left'[i][t] = left[i][t] /\ pipe'[i][t] = pipe[i][t]
      BY <1>1 DEF Write, TypeOK
    <3>3. ASSUME NEW t \in Streams
          PROVE  /\ left[i][t] \in Nat /\ pipe[i][t] \in Nat /\ got[i][t] \in Nat
                 /\ left[i][t] + pipe[i][t] + got[i][t] = OutLen
      BY DEF TypeOK, Pipes
    <3>4. ASSUME NEW t \in Streams
          PROVE  left'[i][t] + pipe'[i][t] + got'[i][t] = OutLen
      BY <3>2, <3>3
    <3>5. life' = life /\ pc' = pc /\ open' = open /\ life[k] = "running"
      BY <1>1 DEF Write, call
    <3>. QED  BY <3>2, <3>4, <3>5 DEF Pipes
  <2>. QED  BY <2>1, <2>2, <2>3
<1>2. CASE Exit(k)
  BY <1>2 DEF Exit, TypeOK, call, io, PidTable, Held, Threads, Statuses, Pipes
<1>3. CASE Fork(k) \/ HeirExit(k)
  <2>1. /\ heirs' \in [Inv -> BOOLEAN]
        /\ UNCHANGED <<call, life, status, left, pipe, got, open, owner>>
    BY <1>3 DEF Fork, HeirExit, TypeOK
  <2>. QED  BY <2>1 DEF TypeOK, call, PidTable, Held, Threads, Statuses, Pipes
<1>. QED  BY <1>1, <1>2, <1>3 DEF Tool

LEMMA NextIInv == IInv /\ [Next]_vars => IInv'
<1>1. ASSUME IInv, UNCHANGED vars PROVE IInv'
  BY <1>1 DEF vars, call, io, IInv, TypeOK, PidTable, Held, Threads, Statuses, Pipes
<1>. QED  BY <1>1, MainIInv, TimerIInv, ReaderIInv, ToolIInv DEF Next, AllOver

THEOREM Inductive == Spec => []IInv
<1>. QED  BY InitIInv, NextIInv, PTL DEF Spec

\* Type correctness, for every set of calls, pids, codes and streams.
THEOREM TypeCorrect == Spec => []TypeOK
<1>1. IInv => TypeOK
  BY DEF IInv
<1>. QED  BY <1>1, Inductive, PTL

\* The pid a timer is about to kill is still the pid of its own child
\* (base.py:63-65).
THEOREM KillsOwnChild == Spec => []KillHitsOwnChild
<1>1. IInv => KillHitsOwnChild
  BY DEF IInv, TypeOK, PidTable, Threads, Held, KillHitsOwnChild
<1>. QED  BY <1>1, Inductive, PTL

\* Only the timeout of a call kills its child, and the call reports 124.
THEOREM KilledIsTimeout == Spec => []KilledReports124
<1>1. IInv => KilledReports124
  BY DEF IInv, Statuses, KilledReports124
<1>. QED  BY <1>1, Inductive, PTL

\* A result is made of its own child's status, rusage and whole output.
THEOREM ResultsAreOwn == Spec => []ResultIsOwn
<1>1. IInv => ResultIsOwn
  BY DEF IInv, TypeOK, Threads, Pipes, ResultIsOwn
<1>. QED  BY <1>1, Inductive, PTL

\* Nothing changes the verdict on the timeout once the exit is marked.
THEOREM VerdictSettles == Spec => TimedOutSettles
<1>1. IInv /\ [Next]_vars => [\A i \in Inv : exited[i] => timedOut'[i] = timedOut[i]]_vars
  <2>1. SUFFICES ASSUME IInv, Next, NEW i \in Inv, exited[i]
                 PROVE  timedOut'[i] = timedOut[i]
    BY DEF vars
  <2>2. ASSUME NEW k \in Inv, Expire(k) PROVE timedOut'[i] = timedOut[i]
    <3>1. ~timedOut[k]
      BY <2>1, <2>2 DEF Expire, IInv, Threads
    <3>. QED  BY <2>1, <2>2, <3>1 DEF Expire, IInv, TypeOK
  <2>. QED
    BY <2>1, <2>2 DEF Next, AllOver, Main, Timer, Reader, Tool, Spawn, SpawnFails, Observe,
       MarkExited, CancelTimer, Reap, ReapOf, Return, TimerFire, ExpireKill, Read, Transfer,
       Eof, Write, Exit, Fork, HeirExit, vars, call
<1>. QED  BY <1>1, Inductive, PTL DEF Spec, TimedOutSettles

-----------------------------------------------------------------------------
(* The refinement: a step of a call is a step of the same call of          *)
(* Invocation, or leaves its variables alone.                              *)

LEMMA InitRefines == Init => Promise!Init
BY DEF Init, Promise!Init, phase

LEMMA MainRefines == ASSUME IInv, NEW k \in Inv, Main(k) PROVE [Promise!Next]_Promise!vars
<1>. USE DEF IInv, TypeOK
<1>1. CASE Spawn(k) \/ SpawnFails(k)
  <2>1. PICK c \in {"waiting", "raised"} : pc[k] = "idle" /\ pc' = [pc EXCEPT ![k] = c]
    BY <1>1 DEF Spawn, SpawnFails
  <2>2. phase[k] = "new" /\ UNCHANGED <<timedOut, status, rc>>
    BY <1>1, <2>1 DEF Spawn, SpawnFails, phase
  <2>3. phase' = [phase EXCEPT ![k] = IF c = "waiting" THEN "running" ELSE "failed"]
    BY <2>1 DEF phase
  <2>4. Promise!Start(k)
    BY <2>2, <2>3 DEF Promise!Start
  <2>. QED  BY <2>4 DEF Promise!Next
<1>2. CASE Observe(k) \/ CancelTimer(k) \/ Return(k)
  BY <1>2 DEF Observe, CancelTimer, Return, Promise!vars, phase
<1>3. CASE MarkExited(k)
  <2>1. Promise!See(k)
    BY <1>3 DEF MarkExited, Promise!See, phase, Threads, Statuses
  <2>. QED  BY <2>1 DEF Promise!Next
<1>4. CASE Reap(k)
  <2>1. ReapOf(k, k) /\ pc[k] = "cancelled"
    BY <1>4, NobodyAssumption DEF Reap, PidTable, Held
  <2>2. Promise!Report(k)
    BY <2>1 DEF ReapOf, Promise!Report, phase
  <2>. QED  BY <2>2 DEF Promise!Next
<1>. QED  BY <1>1, <1>2, <1>3, <1>4 DEF Main

LEMMA TimerRefines == ASSUME IInv, NEW k \in Inv, Timer(k) PROVE [Promise!Next]_Promise!vars
<1>1. CASE TimerFire(k)
  BY <1>1 DEF TimerFire, Promise!vars, phase
<1>2. CASE Expire(k) /\ exited[k]
  BY <1>2 DEF Expire, Promise!vars, phase, IInv, TypeOK, Threads
<1>3. CASE Expire(k) /\ ~exited[k]
  <2>1. Promise!Expire(k)
    BY <1>3 DEF Expire, Promise!Expire, phase, IInv, TypeOK, Threads
  <2>. QED  BY <2>1 DEF Promise!Next
<1>4. CASE ExpireKill(k) /\ life[k] = "running"
  <2>1. Promise!Kill(k)
    BY <1>4, KillStep DEF Promise!Kill, phase, IInv, TypeOK, Statuses
  <2>. QED  BY <2>1 DEF Promise!Next
<1>5. CASE ExpireKill(k) /\ life[k] # "running"
  BY <1>5, KillStep DEF Promise!vars, phase, IInv, TypeOK
<1>. QED  BY <1>1, <1>2, <1>3, <1>4, <1>5 DEF Timer

LEMMA ToolRefines == ASSUME IInv, NEW k \in Inv, Tool(k) PROVE [Promise!Next]_Promise!vars
<1>1. CASE Exit(k)
  <2>1. Promise!End(k)
    BY <1>1 DEF Exit, call, Promise!End, phase, IInv, Threads, Statuses, TypeOK
  <2>. QED  BY <2>1 DEF Promise!Next
<1>2. ASSUME NEW s \in Streams, Write(k, s) PROVE UNCHANGED Promise!vars
  BY <1>2 DEF Write, call, Promise!vars, phase
<1>3. CASE Fork(k) \/ HeirExit(k)
  BY <1>3 DEF Fork, HeirExit, call, Promise!vars, phase
<1>. QED  BY <1>1, <1>2, <1>3 DEF Tool

\* run_timed keeps the promise of Invocation: calls that share the kernel's
\* pids behave as if each were alone.
THEOREM RefinesInvocation == Spec => Implements
<1>1. IInv /\ [Next]_vars => [Promise!Next]_Promise!vars
  <2>1. ASSUME NEW k \in Inv, NEW s \in Streams, Reader(k, s) PROVE UNCHANGED Promise!vars
    BY <2>1 DEF Reader, Read, Transfer, Eof, call, Promise!vars, phase
  <2>2. ASSUME UNCHANGED vars PROVE UNCHANGED Promise!vars
    BY <2>2 DEF vars, call, Promise!vars, phase
  <2>. QED  BY <2>1, <2>2, MainRefines, TimerRefines, ToolRefines DEF Next, AllOver
<1>. QED  BY <1>1, InitRefines, Inductive, PTL DEF Spec, Implements, Promise!Spec
-----------------------------------------------------------------------------
(* Progress: what a call can be waiting for.                               *)

\* A timer thread that is over was cancelled, or found or made the child
\* dead: no child outlives its timer.
OverInv == \A i \in Inv : timer[i] = "over" => life[i] # "running"

LEMMA NextOverInv == IInv /\ OverInv /\ [Next]_vars => OverInv'
<1>1. SUFFICES ASSUME IInv, OverInv, [Next]_vars PROVE OverInv'
  OBVIOUS
<1>. USE <1>1 DEF IInv, OverInv
<1>2. ASSUME NEW k \in Inv, Spawn(k) PROVE OverInv'
  <2>1. PICK t \in {"none", "armed"} : timer' = [timer EXCEPT ![k] = t]
    BY <1>2 DEF Spawn
  <2>. QED  BY <1>2, <2>1 DEF Spawn, TypeOK
<1>3. ASSUME NEW k \in Inv, CancelTimer(k) PROVE OverInv'
  BY <1>3 DEF CancelTimer, TypeOK, Threads
<1>4. ASSUME NEW k \in Inv, Reap(k) PROVE OverInv'
  BY <1>4 DEF Reap, ReapOf, TypeOK
<1>5. ASSUME NEW k \in Inv, TimerFire(k) PROVE OverInv'
  BY <1>5 DEF TimerFire, TypeOK
<1>6. ASSUME NEW k \in Inv, Expire(k) PROVE OverInv'
  BY <1>6 DEF Expire, TypeOK, Threads
<1>7. ASSUME NEW k \in Inv, ExpireKill(k) PROVE OverInv'
  <2>1. /\ timer' = [timer EXCEPT ![k] = "over"]
        /\ life' = [j \in Inv |-> IF j = k /\ life[k] = "running" THEN "zombie" ELSE life[j]]
    BY <1>7, KillStep
  <2>2. \A j \in Inv \ {k} : timer'[j] = timer[j] /\ life'[j] = life[j]
    BY <2>1 DEF TypeOK
  <2>3. life'[k] # "running"
    BY <2>1 DEF TypeOK
  <2>. QED  BY <2>2, <2>3
<1>8. ASSUME NEW k \in Inv, Exit(k) PROVE OverInv'
  BY <1>8 DEF Exit, call, TypeOK
<1>9. ASSUME UNCHANGED <<timer, life>> PROVE OverInv'
  BY <1>9
<1>. QED
  BY <1>2, <1>3, <1>4, <1>5, <1>6, <1>7, <1>8, <1>9
     DEF Next, AllOver, Main, Timer, Reader, Tool, SpawnFails, Observe, MarkExited, Return,
         Read, Transfer, Eof, Write, Fork, HeirExit, vars, call

LEMMA OverHolds == Spec => []OverInv
<1>1. Init => OverInv
  BY DEF Init, OverInv
<1>. QED  BY <1>1, NextOverInv, Inductive, PTL DEF Spec

\* One of the threads the harness has in call i can take a step now: the
\* guards of Main, Timer and Reader (IInv settles the pid lookup of Reap).
HarnessCanStep(i) ==
  \/ pc[i] = "idle"
  \/ pc[i] \in {"waiting", "cancelled"} /\ life[i] = "zombie"
  \/ pc[i] = "observed" /\ LockFree(i)
  \/ pc[i] = "marked"
  \/ pc[i] = "reaped" /\ open[i] = {}
  \/ timer[i] \in {"armed", "fired", "killing"}
  \/ \E s \in open[i] : pipe[i][s] > 0 \/ (life[i] # "running" /\ ~heirs[i])

\* Its tool still runs, has no timeout and finds room in every pipe.
WaitsForTool(i) ==
  life[i] = "running" /\ timer[i] = "none" /\ \A s \in Streams : pipe[i][s] = 0

\* Its child is reaped and a process the child left holds the pipes.
WaitsForHeirs(i) ==
  pc[i] = "reaped" /\ life[i] = "gone" /\ heirs[i] /\ \A s \in Streams : pipe[i][s] = 0

\* A call that is not over either can move or waits for what is outside.
NoWaitWithin ==
  \A i \in Inv : ~Over(i) /\ ~HarnessCanStep(i) => WaitsForTool(i) \/ WaitsForHeirs(i)

\* The threads of a call never wait for one another: a call that is not over
\* and in which no thread of the harness can move waits for its tool, which
\* has no timeout and an empty pipe to write to, or for the leftovers of a
\* tool that has ended.  With a timeout only the second is possible.
THEOREM NeverWaitsForItself == Spec => []NoWaitWithin
<1>1. ASSUME IInv, OverInv, NEW i \in Inv, ~Over(i), ~HarnessCanStep(i)
      PROVE  WaitsForTool(i) \/ WaitsForHeirs(i)
  <2>1. timer[i] \in {"none", "over"} /\ LockFree(i)
    BY <1>1 DEF HarnessCanStep, LockFree, IInv, TypeOK
  <2>2. \A s \in Streams : pipe[i][s] = 0
    BY <1>1 DEF HarnessCanStep, IInv, TypeOK, Pipes
  <2>3. pc[i] \in {"waiting", "reaped"}
    BY <1>1, <2>1 DEF HarnessCanStep, Over, IInv, TypeOK, Threads
  <2>4. CASE pc[i] = "waiting"
    <3>1. life[i] = "running"
      BY <1>1, <2>4 DEF HarnessCanStep, IInv, Threads
    <3>. QED  BY <1>1, <2>1, <2>2, <3>1 DEF OverInv, WaitsForTool
  <2>5. CASE pc[i] = "reaped"
    <3>1. life[i] = "gone" /\ open[i] # {}
      BY <1>1, <2>5 DEF HarnessCanStep, IInv, Threads
    <3>2. heirs[i]
      BY <1>1, <3>1 DEF HarnessCanStep, IInv, TypeOK
    <3>. QED  BY <2>2, <2>5, <3>1, <3>2 DEF WaitsForHeirs
  <2>. QED  BY <2>3, <2>4, <2>5
<1>2. IInv /\ OverInv => NoWaitWithin
  BY <1>1 DEF NoWaitWithin
<1>. QED  BY <1>2, Inductive, OverHolds, PTL
=============================================================================
