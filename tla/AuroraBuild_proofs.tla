------------------------- MODULE AuroraBuild_proofs -------------------------
(***************************************************************************)
(* Proofs about AuroraBuild, for any number of processes, any bound of the *)
(* clock and any set of CWE directories: the state is well-typed, a scan   *)
(* uses a binary of the pinned sources, and a build that returned 0 stays  *)
(* good.                                                                   *)
(***************************************************************************)
EXTENDS AuroraBuild, TLAPS

\* git moves HEAD and the sources together.
TreeInv == tree = head

\* A binary that is not older than the sources was built from them; none is
\* newer than the clock, or was written before it was begun.
BinInv ==
  /\ srcTime <= clock
  /\ bin # Nothing =>
       /\ bin.begun <= bin.time /\ bin.time <= clock
       /\ srcTime <= bin.time => bin.of = tree

\* Past the checkout of a build and past the first row of a run the checkout
\* is at the pin: only a hand moves it elsewhere, and waits until all is over.
AtPinInv ==
  \A p \in Procs :
    pc[p] \in {"compile", "link", "generate", "binary", "fresh", "manifests", "scan"}
      => head = Pin

\* What a compilation has read are the pinned sources.
LinkInv == \A p \in Procs : pc[p] = "link" => seen[p].of = Pin /\ seen[p].begun <= clock

\* There is a binary after the row that looks for it, and after the link; it
\* is not older than the sources after the row that compares them.
HasBinInv ==
  \A p \in Procs :
    /\ pc[p] \in {"fresh", "manifests", "scan", "generate"} => bin # Nothing
    /\ pc[p] \in {"manifests", "scan", "generate"} => srcTime <= bin.time

ReadyInv == ready => /\ head = Pin /\ bin # Nothing /\ srcTime <= bin.time
                     /\ Defined \subseteq made

IInv == TypeOK /\ TreeInv /\ BinInv /\ AtPinInv /\ LinkInv /\ HasBinInv /\ ReadyInv

LEMMA InitIInv == Init => IInv
<1>1. SUFFICES ASSUME Init PROVE IInv
  OBVIOUS
<1>2. TypeOK
  <2>1. 0 \in Times /\ 1 \in 1..(Dirs + 1)
    BY TimeAssumption, DefinedAssumption DEF Times
  <2> QED
    BY <1>1, <2>1 DEF Init, TypeOK
<1>3. TreeInv /\ BinInv /\ AtPinInv
  BY <1>1 DEF Init, TreeInv, BinInv, AtPinInv
<1>4. LinkInv /\ HasBinInv /\ ReadyInv
  BY <1>1 DEF Init, LinkInv, HasBinInv, ReadyInv
<1> QED
  BY <1>2, <1>3, <1>4 DEF IInv

\* Where a commit is checked out nothing but the sources and their time
\* changes, and if they change, the time is a new one.
LEMMA MoveFacts ==
  ASSUME IInv, NEW c \in {Pin, Other}, MoveTo(c)
  PROVE  /\ head' = c /\ tree' = c
         /\ clock' \in Times /\ srcTime' \in Times /\ srcTime' <= clock' /\ clock <= clock'
         /\ tree # c => clock < srcTime'
         /\ tree = c => UNCHANGED <<clock, srcTime>>
BY TimeAssumption DEF IInv, TypeOK, BinInv, MoveTo, Now, Times

\* The binary facts after a move that leaves the binary alone.
LEMMA MoveBin ==
  ASSUME IInv, NEW c \in {Pin, Other}, MoveTo(c), UNCHANGED bin
  PROVE  BinInv' /\ (c = tree /\ bin # Nothing => (srcTime <= bin.time)' = (srcTime <= bin.time))
<1>1. CASE bin = Nothing
  BY <1>1, MoveFacts DEF BinInv
<1>2. CASE bin # Nothing
  <2>1. bin.begun \in Nat /\ bin.time \in Nat /\ clock \in Nat /\ srcTime \in Nat
    BY <1>2, TimeAssumption DEF IInv, TypeOK, Times
  <2>2. clock' \in Nat /\ srcTime' \in Nat
    BY MoveFacts, TimeAssumption DEF Times
  <2> QED
    BY <1>2, <2>1, <2>2, MoveFacts DEF IInv, BinInv
<1> QED
  BY <1>1, <1>2

-----------------------------------------------------------------------------
(* Every step preserves IInv.                                              *)

\* A step of one process that leaves the checkout alone.
LEMMA LocalIInv ==
  ASSUME IInv, NEW p \in Procs,
         BeginBuild(p) \/ BeginRun(p) \/ Row(p) \/ Scan(p) \/ Finish(p) \/ Stop(p)
  PROVE  IInv'
<1> USE DEF IInv
<1>1. UNCHANGED <<clock, head, tree, srcTime, bin, made, ready>>
  BY DEF BeginBuild, BeginRun, Row, Scan, Finish, Stop, shared
<1>2. TypeOK'
  <2>1. CASE BeginBuild(p)
    BY <2>1, <1>1 DEF BeginBuild, Goto, TypeOK
  <2>2. CASE BeginRun(p)
    BY <2>2, <1>1, DefinedAssumption DEF BeginRun, Goto, TypeOK
  <2>3. CASE Row(p)
    <3>1. pc'[p] \in {"idle", "binary", "fresh", "manifests", "scan"}
      BY <2>3 DEF Row, Goto, Following, TypeOK
    <3> QED
      BY <2>3, <3>1, <1>1 DEF Row, Goto, TypeOK
  <2>4. CASE Scan(p)
    <3>1. next[p] \in 1..Dirs /\ next[p] + 1 \in 1..(Dirs + 1)
      BY <2>4, DefinedAssumption DEF Scan, TypeOK
    <3> QED
      BY <2>4, <3>1, <1>1 DEF Scan, TypeOK
  <2>5. CASE Finish(p)
    BY <2>5, <1>1 DEF Finish, Goto, TypeOK
  <2>6. CASE Stop(p)
    BY <2>6, <1>1 DEF Stop, Goto, TypeOK
  <2> QED
    BY <2>1, <2>2, <2>3, <2>4, <2>5, <2>6
<1>3. TreeInv' /\ BinInv' /\ ReadyInv'
  BY <1>1 DEF TreeInv, BinInv, ReadyInv
<1>4. \A q \in Procs \ {p} : pc'[q] = pc[q] /\ seen'[q] = seen[q]
  BY DEF BeginBuild, BeginRun, Row, Scan, Finish, Stop, Goto, TypeOK
<1>5. \/ pc'[p] \in {"idle", "clone", "checkout", "head"}
      \/ pc'[p] = "binary" /\ head = Pin
      \/ pc'[p] = "fresh" /\ pc[p] = "binary" /\ bin # Nothing
      \/ pc'[p] = "manifests" /\ pc[p] = "fresh" /\ srcTime <= bin.time
      \/ pc'[p] = "scan" /\ pc[p] \in {"manifests", "scan"}
  <2>1. CASE Row(p)
    BY <2>1 DEF Row, Goto, Following, RowPasses, TypeOK
  <2>2. CASE ~Row(p)
    BY <2>2 DEF BeginBuild, BeginRun, Scan, Finish, Stop, Goto, TypeOK
  <2> QED
    BY <2>1, <2>2
<1>6. AtPinInv'
  BY <1>1, <1>4, <1>5 DEF AtPinInv
<1>7. LinkInv'
  BY <1>1, <1>4, <1>5 DEF LinkInv
<1>8. HasBinInv'
  BY <1>1, <1>4, <1>5 DEF HasBinInv
<1> QED
  BY <1>2, <1>3, <1>6, <1>7, <1>8

\* git clone: there was no checkout, so nobody is past one.
LEMMA CloneIInv == ASSUME IInv, NEW p \in Procs, Clone(p) PROVE IInv'
<1> USE DEF IInv
<1>1. MoveTo(Other) /\ head = Nothing /\ UNCHANGED <<bin, made, seen, next, skipped, ready>>
  BY DEF Clone
<1>2. pc' = [pc EXCEPT ![p] = "checkout"] /\ pc[p] = "clone"
  BY DEF Clone, Goto
<1>3. TypeOK'
  BY <1>1, <1>2, MoveFacts DEF TypeOK
<1>4. TreeInv' /\ BinInv'
  BY <1>1, MoveFacts, MoveBin DEF TreeInv
<1>5. ~ready /\ \A q \in Procs : pc[q] \notin {"compile", "link", "generate", "binary", "fresh", "manifests", "scan"}
  BY <1>1, CommitAssumption DEF ReadyInv, AtPinInv
<1>6. \A q \in Procs : pc'[q] \notin {"compile", "link", "generate", "binary", "fresh", "manifests", "scan"}
  BY <1>2, <1>5 DEF TypeOK
<1>7. AtPinInv' /\ LinkInv' /\ HasBinInv' /\ ReadyInv'
  BY <1>1, <1>5, <1>6 DEF AtPinInv, LinkInv, HasBinInv, ReadyInv
<1> QED
  BY <1>3, <1>4, <1>7

\* git checkout of the pin: if anybody is past one, the tree is there already
\* and nothing changes.
LEMMA CheckoutIInv == ASSUME IInv, NEW p \in Procs, Checkout(p) PROVE IInv'
<1> USE DEF IInv
<1>1. MoveTo(Pin) /\ UNCHANGED <<bin, made, seen, next, skipped, ready>>
  BY DEF Checkout
<1>2. pc' = [pc EXCEPT ![p] = "compile"] /\ pc[p] = "checkout"
  BY DEF Checkout, Goto
<1>3. TypeOK'
  BY <1>1, <1>2, MoveFacts DEF TypeOK
<1>4. TreeInv' /\ BinInv'
  BY <1>1, MoveFacts, MoveBin DEF TreeInv
<1>5. AtPinInv' /\ head' = Pin
  BY <1>1, MoveFacts DEF AtPinInv
<1>6. head = Pin => clock' = clock /\ srcTime' = srcTime
  BY <1>1, MoveFacts DEF TreeInv
<1>7. LinkInv'
  BY <1>1, <1>2, <1>6 DEF LinkInv, AtPinInv, TypeOK
<1>8. HasBinInv'
  BY <1>1, <1>2, <1>6 DEF HasBinInv, AtPinInv, TypeOK
<1>9. ReadyInv'
  BY <1>1, <1>5, <1>6 DEF ReadyInv
<1> QED
  BY <1>3, <1>4, <1>5, <1>7, <1>8, <1>9

\* A compilation begins: what it reads is the tree, at the pin.
LEMMA CompileIInv == ASSUME IInv, NEW p \in Procs, Compile(p) PROVE IInv'
<1> USE DEF IInv
<1>1. head = Pin /\ pc[p] = "compile" /\ UNCHANGED <<head, tree, srcTime, bin, made, next, skipped, ready>>
  BY DEF Compile
<1>2. CASE UpToDate
  <2>1. pc' = [pc EXCEPT ![p] = "generate"] /\ UNCHANGED <<clock, seen>>
    BY <1>2 DEF Compile, Goto
  <2>2. bin # Nothing /\ srcTime < bin.begun
    BY <1>2 DEF UpToDate
  <2>3. srcTime <= bin.time
    BY <2>2, TimeAssumption DEF BinInv, TypeOK, Times
  <2>4. TypeOK'
    BY <1>1, <2>1 DEF TypeOK
  <2>5. TreeInv' /\ BinInv' /\ AtPinInv' /\ ReadyInv'
    BY <1>1, <2>1 DEF TreeInv, BinInv, AtPinInv, ReadyInv
  <2>6. LinkInv' /\ HasBinInv'
    BY <1>1, <2>1, <2>2, <2>3 DEF LinkInv, HasBinInv, TypeOK
  <2> QED
    BY <2>4, <2>5, <2>6
<1>3. CASE ~UpToDate
  <2>1. /\ pc' = [pc EXCEPT ![p] = "link"]
        /\ seen' = [seen EXCEPT ![p] = [of |-> tree, begun |-> clock']]
        /\ clock' = clock + 1 /\ clock < MaxTime
    BY <1>3 DEF Compile, Goto, Now
  <2>2. clock \in Nat /\ clock' \in Times /\ clock <= clock'
    BY <2>1, TimeAssumption DEF TypeOK, Times
  <2>3. tree = Pin
    BY <1>1 DEF TreeInv
  <2>4. [of |-> tree, begun |-> clock'] \in Source /\ Nothing \notin Source
    BY <2>2, <2>3, CommitAssumption, TimeAssumption DEF Source, Times
  <2>5. TypeOK'
    BY <1>1, <2>1, <2>2, <2>4 DEF TypeOK
  <2>6. TreeInv' /\ AtPinInv' /\ ReadyInv'
    BY <1>1 DEF TreeInv, AtPinInv, ReadyInv
  <2>7. BinInv'
    BY <1>1, <2>1, <2>2, TimeAssumption DEF BinInv, TypeOK, Times
  <2>8. LinkInv'
    <3> SUFFICES ASSUME NEW q \in Procs, pc'[q] = "link"
                 PROVE  seen'[q].of = Pin /\ seen'[q].begun <= clock'
      BY DEF LinkInv
    <3>1. CASE q = p
      BY <3>1, <2>1, <2>2, <2>3, TimeAssumption DEF TypeOK, Times
    <3>2. CASE q # p
      <4>1. pc[q] = "link" /\ seen'[q] = seen[q] /\ seen[q] \in Source
        BY <3>2, <2>1 DEF TypeOK
      <4> QED
        BY <4>1, <2>1, <2>2, TimeAssumption DEF LinkInv, Source, Times
    <3> QED
      BY <3>1, <3>2
  <2>9. HasBinInv'
    BY <1>1, <2>1 DEF HasBinInv, TypeOK
  <2> QED
    BY <2>5, <2>6, <2>7, <2>8, <2>9
<1> QED
  BY <1>2, <1>3

\* The binary is written: it has the sources the compilation began with, and
\* these are at the pin as the tree is.
LEMMA LinkIInv == ASSUME IInv, NEW p \in Procs, Link(p) PROVE IInv'
<1> USE DEF IInv
<1> DEFINE new == [of |-> seen[p].of, begun |-> seen[p].begun, time |-> clock']
<1>1. /\ pc[p] = "link" /\ pc' = [pc EXCEPT ![p] = "generate"]
      /\ seen' = [seen EXCEPT ![p] = Nothing]
      /\ clock' = clock + 1 /\ clock < MaxTime
      /\ bin' = new
      /\ UNCHANGED <<head, tree, srcTime, made, next, skipped, ready>>
  BY DEF Link, Now, Goto
<1>2. seen[p] \in Source /\ seen[p].of = Pin /\ seen[p].begun <= clock
  BY <1>1 DEF TypeOK, LinkInv
<1>3. clock \in Nat /\ clock' \in Times /\ srcTime \in Nat /\ seen[p].begun \in Times
  BY <1>1, <1>2, TimeAssumption DEF TypeOK, Times, Source
<1>4. new \in [of : {Pin, Other}, begun : Times, time : Times]
  BY <1>2, <1>3
<1>5. bin' # Nothing /\ bin'.of = Pin /\ bin'.begun <= clock /\ bin'.time = clock + 1
  BY <1>1, <1>2, <1>3, <1>4, CommitAssumption, TimeAssumption DEF Times
<1>6. head = Pin /\ tree = Pin
  BY <1>1 DEF AtPinInv, TreeInv
<1>7. TypeOK'
  BY <1>1, <1>3, <1>4 DEF TypeOK
<1>8. TreeInv' /\ AtPinInv'
  BY <1>1, <1>6 DEF TreeInv, AtPinInv
<1>9. bin'.begun \in Nat
  BY <1>1, <1>3, TimeAssumption DEF Times
<1>10. BinInv' /\ srcTime' <= bin'.time
  BY <1>1, <1>3, <1>5, <1>6, <1>9 DEF BinInv
<1>11. LinkInv'
  <2> SUFFICES ASSUME NEW q \in Procs, pc'[q] = "link"
               PROVE  seen'[q].of = Pin /\ seen'[q].begun <= clock'
    BY DEF LinkInv
  <2>1. q # p /\ pc[q] = "link" /\ seen'[q] = seen[q] /\ seen[q] \in Source
    BY <1>1 DEF TypeOK
  <2> QED
    BY <2>1, <1>1, <1>3, TimeAssumption DEF LinkInv, Source, Times
<1>12. HasBinInv' /\ ReadyInv'
  BY <1>1, <1>5, <1>10 DEF HasBinInv, ReadyInv
<1> QED
  BY <1>7, <1>8, <1>10, <1>11, <1>12

\* A manifest more.
LEMMA GenerateIInv == ASSUME IInv, NEW p \in Procs, Generate(p) PROVE IInv'
<1> USE DEF IInv
<1>1. PICK c \in Defined \ made : made' = made \cup {c}
  BY DEF Generate
<1>2. UNCHANGED <<clock, head, tree, srcTime, bin, pc, seen, next, skipped, ready>>
  BY DEF Generate, local
<1>3. TypeOK'
  BY <1>1, <1>2, DefinedAssumption DEF TypeOK
<1>4. TreeInv' /\ BinInv' /\ AtPinInv' /\ LinkInv' /\ HasBinInv'
  BY <1>2 DEF TreeInv, BinInv, AtPinInv, LinkInv, HasBinInv
<1>5. ReadyInv'
  BY <1>1, <1>2 DEF ReadyInv
<1> QED
  BY <1>3, <1>4, <1>5

\* build() returns 0: what its last place in the code knows is what ready says.
LEMMA GeneratedIInv == ASSUME IInv, NEW p \in Procs, Generated(p) PROVE IInv'
<1> USE DEF IInv
<1>1. /\ pc[p] = "generate" /\ Defined \subseteq made /\ ready' = TRUE
      /\ pc' = [pc EXCEPT ![p] = "idle"]
      /\ UNCHANGED <<clock, head, tree, srcTime, bin, made, seen, next, skipped>>
  BY DEF Generated, Goto, shared
<1>2. TypeOK'
  BY <1>1 DEF TypeOK
<1>3. TreeInv' /\ BinInv'
  BY <1>1 DEF TreeInv, BinInv
<1>4. AtPinInv' /\ LinkInv' /\ HasBinInv'
  BY <1>1 DEF AtPinInv, LinkInv, HasBinInv, TypeOK
<1>5. ReadyInv'
  BY <1>1 DEF ReadyInv, AtPinInv, HasBinInv
<1> QED
  BY <1>2, <1>3, <1>4, <1>5

\* A hand moves the checkout while nobody is at work: nothing is promised then.
LEMMA HandCheckoutIInv == ASSUME IInv, HandCheckout PROVE IInv'
<1> USE DEF IInv
<1>1. PICK c \in {Pin, Other} : MoveTo(c)
  BY DEF HandCheckout
<1>2. /\ \A q \in Procs : pc[q] = "idle"
      /\ ready' = FALSE /\ UNCHANGED <<bin, made, pc, seen, next, skipped>>
  BY DEF HandCheckout, Quiet, local
<1>3. TypeOK'
  BY <1>1, <1>2, MoveFacts DEF TypeOK
<1>4. TreeInv' /\ BinInv'
  BY <1>1, <1>2, MoveFacts, MoveBin DEF TreeInv
<1>5. AtPinInv' /\ LinkInv' /\ HasBinInv' /\ ReadyInv'
  BY <1>2 DEF AtPinInv, LinkInv, HasBinInv, ReadyInv
<1> QED
  BY <1>3, <1>4, <1>5

\* A hand builds what is checked out.
LEMMA HandBuildIInv == ASSUME IInv, HandBuild PROVE IInv'
<1> USE DEF IInv
<1> DEFINE new == [of |-> tree, begun |-> clock', time |-> clock']
<1>1. /\ \A q \in Procs : pc[q] = "idle"
      /\ head # Nothing /\ clock' = clock + 1 /\ clock < MaxTime
      /\ bin' = new /\ ready' = FALSE
      /\ UNCHANGED <<head, tree, srcTime, made, pc, seen, next, skipped>>
  BY DEF HandBuild, Quiet, Now, local
<1>2. tree \in {Pin, Other} /\ clock \in Nat /\ clock' \in Times /\ srcTime \in Nat
  BY <1>1, TimeAssumption DEF TypeOK, TreeInv, Times
<1>3. new \in [of : {Pin, Other}, begun : Times, time : Times]
  BY <1>2
<1>4. TypeOK'
  BY <1>1, <1>2, <1>3 DEF TypeOK
<1>5. TreeInv' /\ BinInv'
  BY <1>1, <1>2 DEF TreeInv, BinInv
<1>6. AtPinInv' /\ LinkInv' /\ HasBinInv' /\ ReadyInv'
  BY <1>1 DEF AtPinInv, LinkInv, HasBinInv, ReadyInv
<1> QED
  BY <1>4, <1>5, <1>6

LEMMA StutterIInv == ASSUME IInv, UNCHANGED vars PROVE IInv'
BY DEF IInv, TypeOK, TreeInv, BinInv, AtPinInv, LinkInv, HasBinInv, ReadyInv, vars, shared, local

LEMMA NextIInv == IInv /\ [Next]_vars => IInv'
<1> SUFFICES ASSUME IInv, [Next]_vars PROVE IInv'
  OBVIOUS
<1>1. CASE \E p \in Procs : Build(p) \/ Run(p) \/ Stop(p)
  BY <1>1, LocalIInv, CloneIInv, CheckoutIInv, CompileIInv, LinkIInv, GenerateIInv, GeneratedIInv
     DEF Build, Run
<1>2. CASE HandCheckout
  BY <1>2, HandCheckoutIInv
<1>3. CASE HandBuild
  BY <1>3, HandBuildIInv
<1>4. CASE UNCHANGED vars
  BY <1>4, StutterIInv
<1> QED
  BY <1>1, <1>2, <1>3, <1>4 DEF Next

LEMMA Inductive == Spec => []IInv
BY InitIInv, NextIInv, PTL DEF Spec

-----------------------------------------------------------------------------
(* The theorems.                                                           *)

\* The state of the checkout and of its processes is well-typed; a process
\* has read sources exactly while it compiles them (build.py).
THEOREM BuildTypeCorrect == Spec => []TypeOK
<1>1. IInv => TypeOK
  BY DEF IInv
<1> QED
  BY <1>1, Inductive, PTL

\* As long as a run scans, the aurora-lint it starts was built from the pinned
\* sources (check.py check_aurora_lint, build.py), however many builds and
\* runs share the checkout and wherever they die.
THEOREM ScansArePinned == Spec => []ScanUsesPinned
<1>1. IInv => ScanUsesPinned
  <2> SUFFICES ASSUME IInv, NEW p \in Procs, pc[p] = "scan" PROVE bin # Nothing /\ bin.of = Pin
    BY DEF ScanUsesPinned
  <2>1. bin # Nothing /\ srcTime <= bin.time /\ head = Pin
    BY DEF IInv, HasBinInv, AtPinInv
  <2> QED
    BY <2>1 DEF IInv, BinInv, TreeInv
<1> QED
  BY <1>1, Inductive, PTL

\* After a build that returned 0 no build and no run, and none that dies, makes
\* a later run refuse or skip a CWE the pinned commit has a manifest for.
THEOREM ReadyIsKept == Spec => []ReadyStaysReady
<1>1. IInv => ReadyStaysReady
  <2> SUFFICES ASSUME IInv, ready
               PROVE  /\ \A l \in {"head", "binary", "fresh"} : RowPasses(l)
                      /\ Defined \subseteq made
    BY DEF ReadyStaysReady
  <2>1. head = Pin /\ bin # Nothing /\ srcTime <= bin.time /\ Defined \subseteq made
    BY DEF IInv, ReadyInv
  <2>2. bin.time \in Nat /\ srcTime \in Nat
    BY <2>1, TimeAssumption DEF IInv, TypeOK, Times
  <2> QED
    BY <2>1, <2>2 DEF RowPasses
<1> QED
  BY <1>1, Inductive, PTL
=============================================================================
