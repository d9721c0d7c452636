---------------------------- MODULE SequentialMap ----------------------------
(***************************************************************************)
(* What `list(pool.map(one, items))` inside a with block promises its      *)
(* caller: the list that a loop over the items would have made.  The       *)
(* answers become known in any order, but they are delivered in the order  *)
(* of the items, the exception that ends the call is that of the first     *)
(* item, in that order, which failed, and once the call is over nothing    *)
(* happens any more.  There are no threads, queues or futures here.        *)
(* ToolPool implements this specification.                                 *)
(***************************************************************************)
EXTENDS Naturals, Sequences

CONSTANTS N,        \* the number of items
          Answers,  \* what one(item) may return
          Failed,   \* the answer of an item that raised
          NotYet    \* the answer of an item that has none yet, or never gets one

VARIABLES answer,  \* the answer of each item
          got,     \* the list so far
          over     \* "no", "returned" or "raised"

vars == <<answer, got, over>>

Init == answer = [k \in 1..N |-> NotYet] /\ got = <<>> /\ over = "no"

\* An item ends, some other perhaps before it.
Settle(k) == /\ over = "no" /\ answer[k] = NotYet
             /\ \E a \in Answers \cup {Failed} : answer' = [answer EXCEPT ![k] = a]
             /\ UNCHANGED <<got, over>>

Deliver == LET k == Len(got) + 1
           IN /\ over = "no" /\ k <= N /\ answer[k] \in Answers
              /\ got' = Append(got, answer[k])
              /\ UNCHANGED <<answer, over>>

Return == /\ over = "no" /\ Len(got) = N
          /\ over' = "returned"
          /\ UNCHANGED <<answer, got>>

Raise == /\ over = "no" /\ Len(got) < N /\ answer[Len(got) + 1] = Failed
         /\ over' = "raised"
         /\ UNCHANGED <<answer, got>>

Next == (\E k \in 1..N : Settle(k)) \/ Deliver \/ Return \/ Raise

Spec == Init /\ [][Next]_vars
=============================================================================
