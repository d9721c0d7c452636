----------------------------- MODULE Invocation -----------------------------
(***************************************************************************)
(* What one tool invocation promises its adapter, whatever else the        *)
(* harness runs at the same time: the code it reports is the child's own   *)
(* exit status, or 124 if the timeout was declared while the child had not *)
(* been seen to exit, and nobody but that timeout ever kills the child.    *)
(* There are no pids, pipes, locks or threads here.  RunTimed implements   *)
(* this specification.                                                     *)
(***************************************************************************)
CONSTANTS Inv,     \* the invocations
          Codes    \* the exit codes a tool may choose, or be ended with

VARIABLES phase,     \* "new", "running", "seen", "done" or "failed"
          timedOut,  \* the timeout was declared
          status,    \* how the child ended: "none", "killed" or a code
          rc         \* the reported return code, "none" before it is known

vars == <<phase, timedOut, status, rc>>

Init == /\ phase = [i \in Inv |-> "new"]
        /\ timedOut = [i \in Inv |-> FALSE]
        /\ status = [i \in Inv |-> "none"]
        /\ rc = [i \in Inv |-> "none"]

\* The tool is started, or cannot be.
Start(i) == /\ phase[i] = "new"
            /\ \E p \in {"running", "failed"} : phase' = [phase EXCEPT ![i] = p]
            /\ UNCHANGED <<timedOut, status, rc>>

\* The tool ends by itself, or is ended from outside (the OOM killer).
End(i) == /\ phase[i] = "running" /\ status[i] = "none"
          /\ \E c \in Codes : status' = [status EXCEPT ![i] = c]
          /\ UNCHANGED <<phase, timedOut, rc>>

\* The timeout is declared: only while the exit has not been seen.
Expire(i) == /\ phase[i] = "running"
             /\ ~timedOut[i]
             /\ timedOut' = [timedOut EXCEPT ![i] = TRUE]
             /\ UNCHANGED <<phase, status, rc>>

\* The kill that follows the declaration.
Kill(i) == /\ timedOut[i] /\ status[i] = "none"
           /\ status' = [status EXCEPT ![i] = "killed"]
           /\ UNCHANGED <<phase, timedOut, rc>>

\* The exit is recorded; from here on the verdict on the timeout is final.
See(i) == /\ phase[i] = "running" /\ status[i] # "none"
          /\ phase' = [phase EXCEPT ![i] = "seen"]
          /\ UNCHANGED <<timedOut, status, rc>>

Report(i) == /\ phase[i] = "seen"
             /\ phase' = [phase EXCEPT ![i] = "done"]
             /\ rc' = [rc EXCEPT ![i] = IF timedOut[i] THEN "124" ELSE status[i]]
             /\ UNCHANGED <<timedOut, status>>

Next == \E i \in Inv : \/ Start(i) \/ End(i) \/ Expire(i) \/ Kill(i)
                       \/ See(i) \/ Report(i)

Spec == Init /\ [][Next]_vars
=============================================================================
