------------------------------- MODULE Ledger -------------------------------
(***************************************************************************)
(* What the bundle directory promises the tables made from it: a store in  *)
(* which a run enters a bundle of its own and later, in one step, finishes *)
(* it.  A bundle has one author; a finished one never changes or goes;     *)
(* what is loaded as finished is finished, and complete.  There are no     *)
(* files, names that are probed, or partial writes here.  BundleStore      *)
(* implements this specification.                                          *)
(***************************************************************************)
CONSTANTS Runs,
          Nowhere   \* no bundle

VARIABLES state,   \* of each bundle: "open" or "finished"
          author,  \* the bundle each run works on
          view     \* what a table has loaded: a bundle, whether it says that it
                   \* is finished, and whether all of it is there

vars == <<state, author, view>>

Init == /\ state = [d \in {} |-> "open"]
        /\ author = [r \in Runs |-> Nowhere]
        /\ view = Nowhere

\* A run enters a new bundle, of whatever name.
Enter(r) == /\ author[r] = Nowhere
            /\ \E d \in DOMAIN state' \ DOMAIN state :
                 /\ state' = [e \in DOMAIN state \cup {d} |-> IF e = d THEN "open" ELSE state[e]]
                 /\ author' = [author EXCEPT ![r] = d]
            /\ UNCHANGED view

\* The whole bundle is there from one step to the next.
Finish(r) == LET d == author[r]
             IN /\ d # Nowhere /\ state[d] = "open"
                /\ \A s \in Runs \ {r} : author[s] # d
                /\ state' = [state EXCEPT ![d] = "finished"]
                /\ UNCHANGED <<author, view>>

\* A run dies; its bundle stays open for good.
Die(r) == /\ author[r] # Nowhere /\ state[author[r]] = "open"
          /\ author' = [author EXCEPT ![r] = Nowhere]
          /\ UNCHANGED <<state, view>>

\* A bundle that is open when it is looked at may be finished soon after, and
\* may be loaded in part.
Load == /\ view = Nowhere
        /\ \E d \in DOMAIN state, says, whole \in BOOLEAN :
             /\ says => state[d] = "finished" /\ whole
             /\ view' = [bundle |-> d, finished |-> says, complete |-> whole]
        /\ UNCHANGED <<state, author>>

Forget == view # Nowhere /\ view' = Nowhere /\ UNCHANGED <<state, author>>

Next == (\E r \in Runs : Enter(r) \/ Finish(r) \/ Die(r)) \/ Load \/ Forget

Spec == Init /\ [][Next]_vars
=============================================================================
