---------------------------- MODULE AuroraBuild ----------------------------
(***************************************************************************)
(* The pinned aurora-lint under .cache/: `tcb build-aurora-lint`           *)
(* (tcb/build.py), the rows check_aurora_lint (tcb/check.py) holds against *)
(* the pin before a run, and the Juliet run that then uses the checkout    *)
(* (tcb/al_bench.py, tcb/tools/aurora_lint.py).  Builds and runs of several*)
(* tcb processes share one checkout, any of them may die between two       *)
(* commands, and while none is at work somebody may use the checkout by    *)
(* hand: move it to another commit and run cargo there.                    *)
(*                                                                         *)
(* A git command either takes effect or fails.  A checkout that changes    *)
(* the sources, the start of a compilation and the write of the binary     *)
(* each take an instant of the clock of their own: file times tell them    *)
(* apart.  Every commit answers --version alike, the hardest case.         *)
(***************************************************************************)
EXTENDS Naturals, FiniteSets

CONSTANTS Procs,     \* tcb processes
          Pin,       \* the pinned commit
          Other,     \* another one: the default branch, a developer's
          Nothing,   \* no checkout, no binary
          Dirs,      \* the number of CWE directories of a Juliet run
          Defined,   \* those the pinned commit generates a manifest for
          MaxTime    \* bound: instants of the clock

ASSUME DefinedAssumption == Dirs \in Nat /\ Defined \subseteq 1..Dirs
ASSUME TimeAssumption == MaxTime \in Nat
ASSUME CommitAssumption == /\ Pin # Other /\ Nothing \notin {Pin, Other}
                           /\ Nothing \notin [of : {Pin, Other}, begun : Nat]
                           /\ Nothing \notin [of : {Pin, Other}, begun : Nat, time : Nat]

VARIABLES clock,   \* the last instant used
          head,    \* HEAD of the checkout
          tree,    \* the commit the files under src/ are of
          srcTime, \* the newest mtime under src/
          bin,     \* the binary: its sources, when it was begun, its mtime
          made,    \* the manifests under rules_templates/cwe/
          pc,      \* each process' place in the code
          seen,    \* the sources a compilation has begun with
          next,    \* the CWE directory a run comes to next
          skipped, \* the CWEs its bundle notes as having no manifest
          ready    \* history: a build returned 0, and no hand since

shared == <<clock, head, tree, srcTime, bin, made>>
local  == <<pc, seen, next, skipped>>
vars   == <<shared, local, ready>>

Times == 0..MaxTime
Source == [of : {Pin, Other}, begun : Times]

TypeOK ==
  /\ clock \in Times /\ srcTime \in Times
  /\ head \in {Nothing, Pin, Other} /\ tree \in {Nothing, Pin, Other}
  /\ bin = Nothing \/ bin \in [of : {Pin, Other}, begun : Times, time : Times]
  /\ made \subseteq 1..Dirs
  /\ pc \in [Procs -> {"idle", "clone", "checkout", "compile", "link", "generate",
                       "head", "binary", "fresh", "manifests", "scan"}]
  /\ seen \in [Procs -> Source \cup {Nothing}]
  /\ \A p \in Procs : pc[p] = "link" <=> seen[p] # Nothing
  /\ next \in [Procs -> 1..(Dirs + 1)] /\ skipped \in [Procs -> SUBSET (1..Dirs)]
  /\ ready \in BOOLEAN

Init == /\ clock = 0 /\ head = Nothing /\ tree = Nothing /\ srcTime = 0
        /\ bin = Nothing /\ made = {}
        /\ pc = [p \in Procs |-> "idle"]
        /\ seen = [p \in Procs |-> Nothing]
        /\ next = [p \in Procs |-> 1] /\ skipped = [p \in Procs |-> {}]
        /\ ready = FALSE

Goto(p, l) == pc' = [pc EXCEPT ![p] = l]
Now == clock' = clock + 1 /\ clock < MaxTime

\* git puts the tree at commit c; only changed files get a new time.
MoveTo(c) ==
  /\ head' = c /\ tree' = c
  /\ IF tree = c THEN UNCHANGED <<clock, srcTime>> ELSE Now /\ srcTime' = clock'

\* cargo rebuilds what changed after the binary was begun.
UpToDate == bin # Nothing /\ srcTime < bin.begun

-----------------------------------------------------------------------------
(* build().                                                                *)

BeginBuild(p) == /\ pc[p] = "idle"
                 /\ Goto(p, IF head = Nothing THEN "clone" ELSE "checkout")
                 /\ UNCHANGED <<shared, seen, next, skipped, ready>>

\* git clone leaves the default branch; it fails if the directory has been
\* made meanwhile.
Clone(p) == /\ pc[p] = "clone" /\ head = Nothing
            /\ MoveTo(Other)
            /\ Goto(p, "checkout")
            /\ UNCHANGED <<bin, made, seen, next, skipped, ready>>

\* fetch, then checkout --detach of the pin.
Checkout(p) == /\ pc[p] = "checkout"
               /\ MoveTo(Pin)
               /\ Goto(p, "compile")
               /\ UNCHANGED <<bin, made, seen, next, skipped, ready>>

\* rev-parse HEAD must say the pin; then cargo, which holds a lock, reads
\* the sources, or finds the binary up to date.
Compile(p) ==
  /\ pc[p] = "compile" /\ head = Pin
  /\ \A q \in Procs : pc[q] # "link"
  /\ IF UpToDate
     THEN Goto(p, "generate") /\ UNCHANGED <<clock, seen>>
     ELSE /\ Now
          /\ seen' = [seen EXCEPT ![p] = [of |-> tree, begun |-> clock']]
          /\ Goto(p, "link")
  /\ UNCHANGED <<head, tree, srcTime, bin, made, next, skipped, ready>>

Link(p) == /\ pc[p] = "link"
           /\ Now
           /\ bin' = [of |-> seen[p].of, begun |-> seen[p].begun, time |-> clock']
           /\ seen' = [seen EXCEPT ![p] = Nothing]
           /\ Goto(p, "generate")
           /\ UNCHANGED <<head, tree, srcTime, made, next, skipped, ready>>

\* generate_rule_cwe_map.py writes one manifest after the other.
Generate(p) == /\ pc[p] = "generate"
               /\ \E c \in Defined \ made : made' = made \cup {c}
               /\ UNCHANGED <<clock, head, tree, srcTime, bin, local, ready>>

GeneratedAnyhow(p) == /\ pc[p] = "generate"
                      /\ Goto(p, "idle")
                      /\ ready' = TRUE
                      /\ UNCHANGED <<shared, seen, next, skipped>>

\* The script has ended with 0, and so does build().
Generated(p) == /\ pc[p] = "generate" /\ Defined \subseteq made
                /\ Goto(p, "idle")
                /\ ready' = TRUE
                /\ UNCHANGED <<shared, seen, next, skipped>>

-----------------------------------------------------------------------------
(* check_aurora_lint, then the scans of run_juliet.                        *)

BeginRunAtZero(p) == /\ pc[p] = "idle"
                     /\ Goto(p, "head")
                     /\ next' = [next EXCEPT ![p] = 0]
                     /\ skipped' = [skipped EXCEPT ![p] = {}]
                     /\ UNCHANGED <<shared, seen, ready>>

BeginRun(p) == /\ pc[p] = "idle"
               /\ Goto(p, "head")
               /\ next' = [next EXCEPT ![p] = 1]
               /\ skipped' = [skipped EXCEPT ![p] = {}]
               /\ UNCHANGED <<shared, seen, ready>>

RowPasses(l) == /\ l = "head" => head = Pin
                /\ l = "binary" => bin # Nothing
                /\ l = "fresh" => bin.time >= srcTime
                /\ l = "manifests" => Cardinality(made) > 1

FollowingNoFresh == [head |-> "binary", binary |-> "manifests", manifests |-> "scan"]

\* The rows in their order; a run with a failed row is refused.
Following == [head |-> "binary", binary |-> "fresh", fresh |-> "manifests",
              manifests |-> "scan"]

Row(p) == /\ pc[p] \in {"head", "binary", "fresh", "manifests"}
          /\ Goto(p, IF RowPasses(pc[p]) THEN Following[pc[p]] ELSE "idle")
          /\ UNCHANGED <<shared, seen, next, skipped, ready>>

\* per_cwe_manifest looks for the file when the run comes to the CWE; the
\* bundle notes a CWE without one as having none at the pinned commit.
Scan(p) == /\ pc[p] = "scan" /\ next[p] <= Dirs
           /\ next' = [next EXCEPT ![p] = @ + 1]
           /\ skipped' = [skipped EXCEPT ![p] = @ \cup ({next[p]} \ made)]
           /\ UNCHANGED <<shared, pc, seen, ready>>

Finish(p) == /\ pc[p] = "scan" /\ next[p] > Dirs
             /\ Goto(p, "idle")
             /\ UNCHANGED <<shared, seen, next, skipped, ready>>

-----------------------------------------------------------------------------
(* A process dies, or a command of it fails; a hand uses the checkout.     *)

Stop(p) == /\ pc[p] # "idle"
           /\ Goto(p, "idle")
           /\ seen' = [seen EXCEPT ![p] = Nothing]
           /\ UNCHANGED <<shared, next, skipped, ready>>

Quiet == \A p \in Procs : pc[p] = "idle"

HandCheckout == /\ Quiet /\ head # Nothing
                /\ \E c \in {Pin, Other} : MoveTo(c)
                /\ ready' = FALSE
                /\ UNCHANGED <<bin, made, local>>

HandBuild == /\ Quiet /\ head # Nothing /\ ~UpToDate
             /\ Now
             /\ bin' = [of |-> tree, begun |-> clock', time |-> clock']
             /\ ready' = FALSE
             /\ UNCHANGED <<head, tree, srcTime, made, local>>

Build(p) == BeginBuild(p) \/ Clone(p) \/ Checkout(p) \/ Compile(p) \/ Link(p)
            \/ Generate(p) \/ Generated(p)
Run(p) == BeginRun(p) \/ Row(p) \/ Scan(p) \/ Finish(p)

Next == (\E p \in Procs : Build(p) \/ Run(p) \/ Stop(p)) \/ HandCheckout \/ HandBuild

Spec == Init /\ [][Next]_vars

-----------------------------------------------------------------------------
(* Properties.                                                             *)

\* build.py:2, `the binary every table cites is the one at
\* pins/aurora_lint.json`: as long as a run scans, the binary it starts was
\* built from the pinned sources, whatever was built there before, wherever
\* an earlier build died, and while other builds go on.
ScanUsesPinned == \A p \in Procs : pc[p] = "scan" => bin # Nothing /\ bin.of = Pin

\* A build that returned 0 stays good: later builds, and those that die
\* half-way, never make a run refuse or skip a CWE the commit has a
\* manifest for.
ReadyStaysReady ==
  ready => /\ \A l \in {"head", "binary", "fresh"} : RowPasses(l)
           /\ Defined \subseteq made
=============================================================================
