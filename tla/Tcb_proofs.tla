------------------------------ MODULE Tcb_proofs ------------------------------
(***************************************************************************)
(* Proofs about Tcb, for every value of the constants: what each command   *)
(* of a process promises.  A command has an inductive invariant of its own *)
(* (TimingInv, PinsInv, JulietInv, GoldenInv, RawInv, InferInv), and the   *)
(* other commands leave its variables alone.  Definitions of the command's *)
(* module have the prefix of its instance in Tcb.                          *)
(***************************************************************************)
EXTENDS Tcb, Integers, FiniteSetTheorems, FunctionTheorems, Ranks_proofs, TLAPS

-----------------------------------------------------------------------------
(* `tcb timing`: the repeats of a measurement.                             *)

\* The repeats recorded are the runs done but for the warmups, and measure
\* sums up when all are done.
CountInv ==
  /\ Len(runs) = IF done <= Warmup THEN 0 ELSE done - Warmup
  /\ pc \in {"start", "drop", "check", "prepare", "scan"} => done < Warmup + Repeats
  /\ pc \in {"summary", "done"} => done = Warmup + Repeats

\* The flag of a repeat says whether it found the keys of the first.
KeysInv ==
  \A m \in DOMAIN runs : /\ keys0 \in KeySets
                         /\ runs[m].identical <=> runs[m].keys = keys0

ValidInv == pc = "done" /\ valid => T!Valid

\* From the drop of the caches to the scan nothing reads a codebase.
ColdInv ==
  cold /\ ~juliet => /\ pc \in {"check", "prepare", "scan"} => ~cached
                     /\ \A m \in DOMAIN runs : ~runs[m].cached

TimingInv == T!TypeOK /\ CountInv /\ KeysInv /\ ValidInv /\ ColdInv

LEMMA InitTimingInv == T!Parameters /\ T!Init => TimingInv
<1> SUFFICES ASSUME T!Parameters, T!Init PROVE TimingInv
  OBVIOUS
<1>1. runs = <<>> /\ done = 0 /\ pc = "start"
  BY DEF T!Init
<1>2. 0 \in 0..(Warmup + Repeats) /\ 0 < Warmup + Repeats /\ 0 <= Repeats /\ 0 <= Warmup
  BY DEF T!Parameters
<1>3. T!TypeOK
  <2>1. runs \in Seq(T!Repeat) /\ Len(runs) <= Repeats
    BY <1>1, <1>2
  <2>2. /\ cold \in BOOLEAN /\ juliet \in BOOLEAN /\ busy \in BOOLEAN /\ cached \in BOOLEAN
        /\ forced \in BOOLEAN /\ valid \in BOOLEAN
    BY DEF T!Init
  <2>3. pc = "start" /\ keys0 = Nothing
    BY DEF T!Init
  <2> QED
    BY <1>1, <1>2, <2>1, <2>2, <2>3 DEF T!TypeOK
<1>4. CountInv
  BY <1>1, <1>2 DEF CountInv
<1>5. KeysInv /\ ValidInv /\ ColdInv
  BY <1>1 DEF KeysInv, ValidInv, ColdInv
<1> QED
  BY <1>3, <1>4, <1>5 DEF TimingInv

\* The steps between two scans record nothing.
LEMMA BetweenTimingInv ==
  ASSUME T!Parameters, TimingInv,
         T!Start \/ T!NotRoot \/ T!Drop \/ T!Check \/ T!Prepare \/ T!Raise \/ T!Others
  PROVE  TimingInv'
<1> USE DEF TimingInv
<1>1. UNCHANGED <<cold, juliet, done, keys0, runs, valid>>
  BY DEF T!Start, T!NotRoot, T!Drop, T!Check, T!Prepare, T!Raise, T!Others
<1>2. \/ pc' = pc
      \/ /\ pc \in {"start", "drop", "check", "prepare", "scan"}
         /\ pc' \in {"drop", "check", "prepare", "scan", "exited"}
  BY DEF T!Start, T!NotRoot, T!Drop, T!Check, T!Prepare, T!Raise, T!Others, T!Goto
<1>3. T!TypeOK'
  <2>1. cached' \in BOOLEAN
    BY DEF T!Start, T!NotRoot, T!Drop, T!Check, T!Prepare, T!Raise, T!Others, T!TypeOK
  <2>2. forced' \in BOOLEAN
    BY DEF T!Start, T!NotRoot, T!Drop, T!Check, T!Prepare, T!Raise, T!Others, T!TypeOK
  <2>3. busy' \in BOOLEAN
    BY DEF T!Start, T!NotRoot, T!Drop, T!Check, T!Prepare, T!Raise, T!Others, T!TypeOK
  <2> QED
    BY <1>1, <1>2, <2>1, <2>2, <2>3 DEF T!TypeOK
<1>4. CountInv'
  BY <1>1, <1>2 DEF CountInv
<1>5. KeysInv'
  BY <1>1 DEF KeysInv
<1>6. ValidInv'
  <2>1. pc' # "done" \/ (pc' = pc /\ forced' = forced)
    BY <1>2 DEF T!Start, T!NotRoot, T!Drop, T!Check, T!Prepare, T!Raise, T!Others, T!Goto
  <2> QED
    BY <1>1, <2>1 DEF ValidInv, T!Valid, T!AllIdentical
<1>7. ColdInv'
  <2>1. ASSUME cold, ~juliet, pc' \in {"check", "prepare", "scan"} PROVE ~cached'
    BY <2>1 DEF T!Start, T!NotRoot, T!Drop, T!Check, T!Prepare, T!Raise, T!Others, T!Goto, ColdInv
  <2> QED
    BY <1>1, <2>1 DEF ColdInv
<1> QED
  BY <1>3, <1>4, <1>5, <1>6, <1>7

\* A scan of a warmup leaves no trace in the record.
LEMMA WarmupTimingInv ==
  ASSUME T!Parameters, TimingInv, T!Scan, done < Warmup
  PROVE  TimingInv'
<1> USE DEF TimingInv
<1>1. /\ cached' = TRUE /\ done' = done + 1 /\ pc' = T!NextRun
      /\ UNCHANGED <<cold, juliet, busy, forced, valid, keys0, runs>>
  BY DEF T!Scan, T!Goto
<1>2. done \in Nat /\ Warmup \in Nat /\ Repeats \in Nat /\ Repeats > 0
  BY DEF T!TypeOK, T!Parameters
<1>3. pc' = "drop" /\ done' <= Warmup
  BY <1>1, <1>2 DEF T!NextRun
<1>4. T!TypeOK'
  BY <1>1, <1>2, <1>3 DEF T!TypeOK
<1>5. CountInv'
  BY <1>1, <1>2, <1>3 DEF CountInv
<1>6. KeysInv' /\ ValidInv' /\ ColdInv'
  BY <1>1, <1>3 DEF KeysInv, ValidInv, ColdInv
<1> QED
  BY <1>4, <1>5, <1>6

\* A scan of a repeat adds its keys, its status and how it found the cache.
LEMMA RepeatTimingInv ==
  ASSUME T!Parameters, TimingInv, T!Scan, ~(done < Warmup)
  PROVE  TimingInv'
<1> USE DEF TimingInv
<1>1. PICK k \in KeySets, s \in {"ok", "timeout", "oom"} :
        /\ keys0' = IF keys0 = Nothing THEN k ELSE keys0
        /\ runs' = Append(runs, [keys |-> k, status |-> s,
                                 identical |-> T!Identical(k), cached |-> cached])
  BY DEF T!Scan
<1> DEFINE new == [keys |-> k, status |-> s, identical |-> T!Identical(k), cached |-> cached]
<1>2. /\ pc = "scan" /\ cached' = TRUE /\ done' = done + 1 /\ pc' = T!NextRun
      /\ UNCHANGED <<cold, juliet, busy, forced, valid>>
  BY DEF T!Scan, T!Goto
<1>3. /\ done \in Nat /\ Warmup \in Nat /\ Repeats \in Nat
      /\ done < Warmup + Repeats /\ Warmup <= done /\ Len(runs) = done - Warmup
  BY <1>2 DEF T!TypeOK, T!Parameters, CountInv
<1>4. pc' = IF done' = Warmup + Repeats THEN "summary" ELSE "drop"
  BY <1>2, <1>3 DEF T!NextRun
<1>5. runs \in Seq(T!Repeat) /\ new \in T!Repeat
  BY DEF T!TypeOK, T!Repeat, T!Identical
<1>6. /\ runs' \in Seq(T!Repeat) /\ Len(runs') = Len(runs) + 1
      /\ DOMAIN runs' = DOMAIN runs \cup {Len(runs) + 1}
      /\ runs'[Len(runs) + 1] = new
      /\ \A m \in DOMAIN runs : runs'[m] = runs[m]
  BY <1>1, <1>5
<1>7. T!TypeOK'
  <2>1. done' \in 0..(Warmup + Repeats) /\ Len(runs') <= Repeats
    BY <1>2, <1>3, <1>6
  <2> QED
    BY <1>1, <1>2, <1>4, <1>6, <2>1 DEF T!TypeOK
<1>8. CountInv'
  BY <1>2, <1>3, <1>4, <1>6 DEF CountInv
<1>9. KeysInv'
  <2> SUFFICES ASSUME NEW m \in DOMAIN runs'
               PROVE  keys0' \in KeySets /\ (runs'[m].identical <=> runs'[m].keys = keys0')
    BY DEF KeysInv
  <2>1. keys0' \in KeySets
    BY <1>1 DEF T!TypeOK
  <2>2. CASE m \in DOMAIN runs
    <3>1. keys0 \in KeySets /\ (runs[m].identical <=> runs[m].keys = keys0)
      BY <2>2 DEF KeysInv
    <3>2. keys0' = keys0
      BY <1>1, <3>1 DEF T!Parameters
    <3> QED
      BY <1>6, <2>1, <2>2, <3>1, <3>2
  <2>3. CASE m = Len(runs) + 1
    <3>1. new.identical <=> k = keys0'
      BY <1>1 DEF T!Identical
    <3> QED
      BY <1>6, <2>1, <2>3, <3>1
  <2> QED
    BY <1>6, <2>2, <2>3
<1>10. ValidInv'
  BY <1>4 DEF ValidInv
<1>11. ColdInv'
  <2> SUFFICES ASSUME cold', ~juliet' PROVE \A m \in DOMAIN runs' : ~runs'[m].cached
    BY <1>4 DEF ColdInv
  <2>1. ~cached /\ \A m \in DOMAIN runs : ~runs[m].cached
    BY <1>2 DEF ColdInv
  <2>2. ~new.cached
    BY <2>1
  <2> QED
    BY <1>6, <2>1, <2>2
<1> QED
  BY <1>7, <1>8, <1>9, <1>10, <1>11

LEMMA SummariseTimingInv == ASSUME TimingInv, T!Summarise PROVE TimingInv'
<1> USE DEF TimingInv
<1>1. /\ pc = "summary" /\ pc' = "done" /\ valid' = T!Valid
      /\ UNCHANGED <<cold, juliet, done, busy, cached, forced, keys0, runs>>
  BY DEF T!Summarise, T!Goto
<1>2. T!Valid \in BOOLEAN /\ T!Valid' = T!Valid
  BY <1>1 DEF T!Valid, T!AllIdentical
<1>3. T!TypeOK'
  BY <1>1, <1>2 DEF T!TypeOK
<1>4. CountInv'
  BY <1>1 DEF CountInv
<1>5. KeysInv' /\ ColdInv'
  BY <1>1 DEF KeysInv, ColdInv
<1>6. ValidInv'
  BY <1>1, <1>2 DEF ValidInv
<1> QED
  BY <1>3, <1>4, <1>5, <1>6

LEMMA NextTimingInv == T!Parameters /\ TimingInv /\ [T!Next]_(T!vars) => TimingInv'
<1> SUFFICES ASSUME T!Parameters, TimingInv, [T!Next]_(T!vars) PROVE TimingInv'
  OBVIOUS
<1>1. CASE T!Next
  BY <1>1, BetweenTimingInv, WarmupTimingInv, RepeatTimingInv, SummariseTimingInv DEF T!Next
<1>2. CASE UNCHANGED T!vars
  BY <1>2 DEF TimingInv, T!TypeOK, CountInv, KeysInv, ValidInv, ColdInv, T!Valid, T!AllIdentical, T!vars
<1> QED
  BY <1>1, <1>2

\* The invariant of a process that executes `tcb timing`.
TimingPart == command = "timing" => TimingInv

LEMMA TimingHolds == Spec => []TimingPart
<1>1. Init => TimingPart
  <2> SUFFICES ASSUME Init, command = "timing" PROVE TimingInv
    BY DEF TimingPart
  <2> QED
    BY CommandAssumption, InitTimingInv DEF Init
<1>2. TimingPart /\ [Next]_tcbVars => TimingPart'
  <2> SUFFICES ASSUME TimingPart, [Next]_tcbVars, command' = "timing" PROVE TimingInv'
    BY DEF TimingPart
  <2>1. command = "timing"
    BY DEF Next, Timing, Pins, Infer, Juliet, SelfCheck, Table, tcbVars
  <2>2. T!Next \/ UNCHANGED timingVars
    BY <2>1 DEF Next, Timing, Pins, Infer, Juliet, SelfCheck, Table, tcbVars
  <2>3. UNCHANGED timingVars => UNCHANGED T!vars
    BY DEF timingVars, T!vars
  <2> QED
    BY <2>1, <2>2, <2>3, CommandAssumption, NextTimingInv DEF TimingPart
<1> QED
  BY <1>1, <1>2, PTL DEF Spec

\* A record that says valid (timing.py measure) has all repeats, any two of
\* which found the same keys and ended ok.
THEOREM ValidTimesOneThing == Spec => []ValidIsOneThing
<1>1. TimingPart => ValidIsOneThing
  <2> SUFFICES ASSUME TimingInv, pc = "done", valid
               PROVE  /\ Len(runs) = Repeats
                      /\ \A m, n \in DOMAIN runs : runs[m].keys = runs[n].keys /\ runs[m].status = "ok"
    BY DEF TimingPart, ValidIsOneThing, T!ValidIsOneThing
  <2>1. Len(runs) = Repeats
    BY CommandAssumption DEF TimingInv, CountInv, T!Parameters, T!TypeOK
  <2>2. \A m \in DOMAIN runs : runs[m].identical /\ runs[m].status = "ok"
    BY DEF TimingInv, ValidInv, T!Valid, T!AllIdentical
  <2>3. \A m \in DOMAIN runs : runs[m].keys = keys0
    BY <2>2 DEF TimingInv, KeysInv
  <2> QED
    BY <2>1, <2>2, <2>3
<1> QED
  BY <1>1, TimingHolds, PTL

\* With --cold on a codebase (timing.py drop_caches) no repeat scans sources
\* that are in the page cache, whatever the number of warmups.
THEOREM ColdIsColdOnACodebase == Spec => []ColdCodebaseIsCold
<1>1. TimingPart => ColdCodebaseIsCold
  <2> SUFFICES ASSUME TimingInv, cold, ~juliet PROVE T!Scanned \subseteq {FALSE}
    BY DEF TimingPart, ColdCodebaseIsCold, T!ColdCodebaseIsCold
  <2>1. \A m \in DOMAIN runs : ~runs[m].cached /\ runs[m].cached \in BOOLEAN
    <3> SUFFICES ASSUME NEW m \in DOMAIN runs PROVE ~runs[m].cached /\ runs[m].cached \in BOOLEAN
      OBVIOUS
    <3>1. runs \in Seq(T!Repeat)
      BY DEF TimingInv, T!TypeOK
    <3>2. runs[m] \in T!Repeat
      BY <3>1
    <3> QED
      BY <3>2 DEF TimingInv, ColdInv, T!Repeat
  <2> QED
    BY <2>1 DEF T!Scanned
<1> QED
  BY <1>1, TimingHolds, PTL

-----------------------------------------------------------------------------
(* The pins a run asserts.                                                 *)

\* The places after each row.
AfterVersion == {"path", "origin", "head", "status", "lint", "refuse", "entry", "scan", "done"}
AfterPath    == AfterVersion \ {"path"}
AfterOrigin  == AfterPath \ {"origin"}
AfterHead    == AfterOrigin \ {"head"}
AfterStatus  == AfterHead \ {"status"}

\* What the rows of the tool have found holds as long as the host is left alone.
HostInv ==
  "host" \notin since /\ ~bad =>
    /\ look \in AfterVersion => ~C!Unpinned /\ C!Binary \in {"shim", "pinned", "patched"}
    /\ look \in AfterPath => C!Origin[tool] = "opam" \/ C!ByPath \notin {"shim", "absent"}
    /\ look \in AfterOrigin =>
         \/ host.installed = "pinned"
         \/ C!Policy[tool] = "exact" /\ C!Origin[tool] = "dpkg" /\ host.installed = "patched"
         \/ C!Origin[tool] = "prebuilt"

\* So does what the rows of the checkout have found, with the pin left alone
\* as well, and the commit is the pin that was compared.
CheckoutInv ==
  since \cap {"tree", "pin"} = {} /\ ~bad =>
    /\ look \in AfterHead => tree.git /\ tree.head = corpusPin
    /\ look \in AfterStatus => ~tree.modified /\ "file" \notin tree.stray
    /\ look \in {"scan", "done"} => commit = corpusPin

\* A failed row refuses the run.
RefusedInv == look \in {"entry", "scan", "done"} => ~bad

PinsInv == C!TypeOK /\ HostInv /\ CheckoutInv /\ RefusedInv

\* The policies of the four tools.
LEMMA PolicyFacts ==
  /\ DOMAIN C!Policy = {"cppcheck", "clang-tidy", "infer", "frama-c"}
  /\ C!Policy["cppcheck"] = "distro" /\ C!Origin["cppcheck"] = "dpkg"
  /\ C!Policy["clang-tidy"] = "exact" /\ C!Origin["clang-tidy"] = "dpkg"
  /\ C!Policy["infer"] = "exact" /\ C!Origin["infer"] = "prebuilt"
  /\ C!Policy["frama-c"] = "exact" /\ C!Origin["frama-c"] = "opam"
BY DEF C!Policy, C!Origin

\* What is the same before and after a row says the same.
LEMMA SameMachine ==
  ASSUME UNCHANGED <<C!runVars, C!machine>>
  PROVE  UNCHANGED <<tool, known, host, tree, corpusPin, commit, since, touches,
                     C!Binary, C!ByPath, C!Unpinned>>
BY DEF C!runVars, C!machine, C!Binary, C!ByPath, C!ByOpam, C!Unpinned

LEMMA InitPinsInv == C!Parameters /\ C!Init => PinsInv
<1> SUFFICES ASSUME C!Parameters, C!Init PROVE PinsInv
  OBVIOUS
<1>1. C!TypeOK
  <2>1. host \in C!Host /\ tree \in C!Tree /\ touches \in 0..MaxTouches
    BY DEF C!Init, C!Host, C!Tree, C!Commits, C!Parameters
  <2> QED
    BY <2>1 DEF C!Init, C!TypeOK, C!Looks, C!Commits
<1>2. HostInv /\ CheckoutInv /\ RefusedInv
  BY DEF C!Init, HostInv, CheckoutInv, RefusedInv, AfterVersion, AfterPath, AfterOrigin, AfterHead, AfterStatus
<1> QED
  BY <1>1, <1>2 DEF PinsInv

\* A row of any kind keeps the types and what earlier rows have found.
LEMMA RowTypes ==
  ASSUME C!TypeOK, NEW here, NEW ok \in BOOLEAN, C!Row(here, ok, look'),
         look' \in C!Looks \cup {"refuse"}
  PROVE  /\ C!TypeOK' /\ RefusedInv'
         /\ UNCHANGED <<tool, known, host, tree, corpusPin, commit, since, touches,
                        C!Binary, C!ByPath, C!Unpinned>>
         /\ look = here /\ bad' = (bad \/ ~ok)
<1>1. look = here /\ bad' = (bad \/ ~ok) /\ UNCHANGED <<C!runVars, C!machine>>
  BY DEF C!Row
<1>2. UNCHANGED <<tool, known, host, tree, corpusPin, commit, since, touches,
                  C!Binary, C!ByPath, C!Unpinned>>
  BY <1>1, SameMachine
<1>3. C!TypeOK'
  BY <1>1, <1>2 DEF C!TypeOK
<1>4. RefusedInv'
  BY DEF RefusedInv, C!Looks
<1> QED
  BY <1>1, <1>2, <1>3, <1>4

\* The rows of the tool.
LEMMA ToolRowPinsInv ==
  ASSUME PinsInv, C!UnknownDistro \/ C!Version \/ C!Path \/ C!OriginRow
  PROVE  PinsInv'
<1> USE DEF PinsInv
<1>1. CASE C!UnknownDistro
  <2>1. C!Row("version", FALSE, "head") /\ look' = "head"
    BY <1>1 DEF C!UnknownDistro, C!Row
  <2>2. C!TypeOK' /\ RefusedInv' /\ bad'
    BY <2>1, RowTypes DEF C!Looks
  <2> QED
    BY <2>2 DEF HostInv, CheckoutInv
<1>2. CASE C!Version
  <2>1. PICK ok \in BOOLEAN : /\ C!Row("version", ok, "path") /\ look' = "path"
                              /\ ok => C!Binary \in {"shim", "pinned", "patched"}
    BY <1>2 DEF C!Version, C!Asked, C!Row
  <2>2. /\ C!TypeOK' /\ RefusedInv' /\ look = "version" /\ bad' = (bad \/ ~ok)
        /\ UNCHANGED <<tool, host, tree, corpusPin, commit, since, C!Binary, C!ByPath, C!Unpinned>>
    BY <2>1, RowTypes DEF C!Looks
  <2>3. HostInv'
    BY <1>2, <2>1, <2>2 DEF HostInv, C!Version, AfterVersion, AfterPath, AfterOrigin
  <2>4. CheckoutInv'
    BY <2>1 DEF CheckoutInv, AfterVersion, AfterPath, AfterOrigin, AfterHead, AfterStatus
  <2> QED
    BY <2>2, <2>3, <2>4
<1>3. CASE C!Path
  <2>1. PICK ok \in BOOLEAN : /\ C!Row("path", ok, "origin") /\ look' = "origin"
                              /\ ok => C!Origin[tool] = "opam" \/ C!ByPath \notin {"shim", "absent"}
    BY <1>3 DEF C!Path, C!Row
  <2>2. /\ C!TypeOK' /\ RefusedInv' /\ look = "path" /\ bad' = (bad \/ ~ok)
        /\ UNCHANGED <<tool, host, tree, corpusPin, commit, since, C!Binary, C!ByPath, C!Unpinned>>
    BY <2>1, RowTypes DEF C!Looks
  <2>3. HostInv'
    BY <2>1, <2>2 DEF HostInv, AfterVersion, AfterPath, AfterOrigin
  <2>4. CheckoutInv'
    BY <2>1 DEF CheckoutInv, AfterVersion, AfterPath, AfterOrigin, AfterHead, AfterStatus
  <2> QED
    BY <2>2, <2>3, <2>4
<1>4. CASE C!OriginRow
  <2>1. PICK ok \in BOOLEAN :
          /\ C!Row("origin", ok, "head") /\ look' = "head"
          /\ ok => \/ host.installed = "pinned"
                   \/ C!Policy[tool] = "exact" /\ C!Origin[tool] = "dpkg" /\ host.installed = "patched"
                   \/ C!Origin[tool] = "prebuilt"
    <3>1. CASE C!Origin[tool] = "prebuilt"
      BY <1>4, <3>1 DEF C!OriginRow, C!Row
    <3>2. CASE C!Origin[tool] # "prebuilt"
      BY <1>4, <3>2 DEF C!OriginRow, C!Asked, C!Row
    <3> QED
      BY <3>1, <3>2
  <2>2. /\ C!TypeOK' /\ RefusedInv' /\ look = "origin" /\ bad' = (bad \/ ~ok)
        /\ UNCHANGED <<tool, host, tree, corpusPin, commit, since, C!Binary, C!ByPath, C!Unpinned>>
    BY <2>1, RowTypes DEF C!Looks
  <2>3. HostInv'
    BY <2>1, <2>2 DEF HostInv, AfterVersion, AfterPath, AfterOrigin
  <2>4. CheckoutInv'
    BY <2>1 DEF CheckoutInv, AfterVersion, AfterPath, AfterOrigin, AfterHead, AfterStatus
  <2> QED
    BY <2>2, <2>3, <2>4
<1> QED
  BY <1>1, <1>2, <1>3, <1>4

\* The rows of the checkout and of aurora-lint.
LEMMA CheckoutRowPinsInv ==
  ASSUME PinsInv, C!Head \/ C!StatusRow \/ C!Lint
  PROVE  PinsInv'
<1> USE DEF PinsInv, AfterVersion, AfterPath, AfterOrigin, AfterHead, AfterStatus
<1>1. CASE C!Head
  <2>1. PICK ok \in BOOLEAN : /\ C!Row("head", ok, look') /\ look' \in {"status", "lint"}
                              /\ ok => tree.git /\ tree.head = corpusPin /\ look' = "status"
    <3>1. CASE tree.git
      BY <1>1, <3>1 DEF C!Head, C!Asked, C!Row
    <3>2. CASE ~tree.git
      BY <1>1, <3>2 DEF C!Head, C!Row
    <3> QED
      BY <3>1, <3>2
  <2>2. /\ C!TypeOK' /\ RefusedInv' /\ look = "head" /\ bad' = (bad \/ ~ok)
        /\ UNCHANGED <<tool, host, tree, corpusPin, commit, since, C!Binary, C!ByPath, C!Unpinned>>
    BY <2>1, RowTypes DEF C!Looks
  <2>3. HostInv' /\ CheckoutInv'
    BY <2>1, <2>2 DEF HostInv, CheckoutInv
  <2> QED
    BY <2>2, <2>3
<1>2. CASE C!StatusRow
  <2>1. PICK ok \in BOOLEAN : /\ C!Row("status", ok, "lint") /\ look' = "lint"
                              /\ ok => ~tree.modified /\ "file" \notin tree.stray
    BY <1>2 DEF C!StatusRow, C!Asked, C!Row, C!Listed
  <2>2. /\ C!TypeOK' /\ RefusedInv' /\ look = "status" /\ bad' = (bad \/ ~ok)
        /\ UNCHANGED <<tool, host, tree, corpusPin, commit, since, C!Binary, C!ByPath, C!Unpinned>>
    BY <2>1, RowTypes DEF C!Looks
  <2>3. HostInv' /\ CheckoutInv'
    BY <2>1, <2>2 DEF HostInv, CheckoutInv
  <2> QED
    BY <2>2, <2>3
<1>3. CASE C!Lint
  <2>1. PICK ok \in BOOLEAN : C!Row("lint", ok, "refuse") /\ look' = "refuse"
    BY <1>3 DEF C!Lint, C!Row
  <2>2. /\ C!TypeOK' /\ RefusedInv' /\ look = "lint" /\ bad' = (bad \/ ~ok)
        /\ UNCHANGED <<tool, host, tree, corpusPin, commit, since, C!Binary, C!ByPath, C!Unpinned>>
    BY <2>1, RowTypes DEF C!Looks
  <2>3. HostInv' /\ CheckoutInv'
    BY <2>1, <2>2 DEF HostInv, CheckoutInv
  <2> QED
    BY <2>2, <2>3
<1> QED
  BY <1>1, <1>2, <1>3

\* The refusal, the second look at the pin, the scan.
LEMMA RunPinsInv ==
  ASSUME PinsInv, C!Refuse \/ C!Entry \/ C!Scan
  PROVE  PinsInv'
<1> USE DEF PinsInv, AfterVersion, AfterPath, AfterOrigin, AfterHead, AfterStatus
<1>1. CASE C!Refuse
  <2>1. /\ look = "refuse" /\ look' = (IF bad THEN "refused" ELSE "entry") /\ bad' = bad
        /\ UNCHANGED <<C!runVars, C!machine>>
    BY <1>1 DEF C!Refuse
  <2>2. UNCHANGED <<tool, known, host, tree, corpusPin, commit, since, touches, C!Binary, C!ByPath, C!Unpinned>>
    BY <2>1, SameMachine
  <2>3. C!TypeOK'
    BY <2>1, <2>2 DEF C!TypeOK, C!Ends
  <2>4. HostInv' /\ CheckoutInv' /\ RefusedInv'
    BY <2>1, <2>2 DEF HostInv, CheckoutInv, RefusedInv
  <2> QED
    BY <2>3, <2>4
<1>2. CASE C!Entry
  <2>1. /\ look = "entry" /\ look' = "scan" /\ commit' = corpusPin /\ bad' = bad
        /\ UNCHANGED <<tool, known, host, tree, corpusPin, since, touches>>
    BY <1>2 DEF C!Entry, C!machine
  <2>2. UNCHANGED <<C!Binary, C!ByPath, C!Unpinned>>
    BY <2>1 DEF C!Binary, C!ByPath, C!ByOpam, C!Unpinned
  <2>3. C!TypeOK'
    BY <2>1 DEF C!TypeOK
  <2>4. HostInv' /\ CheckoutInv' /\ RefusedInv'
    BY <2>1, <2>2 DEF HostInv, CheckoutInv, RefusedInv
  <2> QED
    BY <2>3, <2>4
<1>3. CASE C!Scan
  <2>1. look = "scan" /\ look' = "done" /\ bad' = bad /\ UNCHANGED <<C!runVars, C!machine>>
    BY <1>3 DEF C!Scan
  <2>2. UNCHANGED <<tool, known, host, tree, corpusPin, commit, since, touches, C!Binary, C!ByPath, C!Unpinned>>
    BY <2>1, SameMachine
  <2>3. C!TypeOK'
    BY <2>1, <2>2 DEF C!TypeOK, C!Ends
  <2>4. HostInv' /\ CheckoutInv' /\ RefusedInv'
    BY <2>1, <2>2 DEF HostInv, CheckoutInv, RefusedInv
  <2> QED
    BY <2>3, <2>4
<1> QED
  BY <1>1, <1>2, <1>3

\* A change of the machine is noted, or comes before the rows it could upset.
LEMMA TouchPinsInv ==
  ASSUME C!Parameters, PinsInv, C!TouchHost \/ C!TouchTree \/ C!RaisePin
  PROVE  PinsInv'
<1> USE DEF PinsInv, AfterVersion, AfterPath, AfterOrigin, AfterHead, AfterStatus
<1>1. /\ touches' \in 0..MaxTouches /\ since \subseteq since'
      /\ since' \subseteq {"host", "tree", "pin"}
      /\ UNCHANGED <<tool, known, commit, look, bad>>
  <2>1. touches \in 0..MaxTouches /\ since \subseteq {"host", "tree", "pin"}
    BY DEF C!TypeOK
  <2>2. touches < MaxTouches /\ touches' = touches + 1 /\ UNCHANGED <<C!runVars, look, bad>>
    BY DEF C!TouchHost, C!TouchTree, C!RaisePin, C!Touch
  <2>3. touches' \in 0..MaxTouches
    BY <2>1, <2>2 DEF C!Parameters
  <2>4. since \subseteq since' /\ since' \subseteq {"host", "tree", "pin"}
    BY <2>1 DEF C!TouchHost, C!TouchTree, C!RaisePin, C!Touch
  <2> QED
    BY <2>2, <2>3, <2>4 DEF C!runVars
<1>2. RefusedInv'
  BY <1>1 DEF RefusedInv
<1>3. CASE C!TouchHost
  <2>1. /\ host' \in C!Host /\ UNCHANGED <<tree, corpusPin>>
        /\ look # "version" => "host" \in since'
    BY <1>3 DEF C!TouchHost, C!Touch
  <2>2. C!TypeOK'
    BY <1>1, <2>1 DEF C!TypeOK
  <2>3. HostInv'
    BY <1>1, <2>1 DEF HostInv
  <2>4. CheckoutInv'
    BY <1>1, <2>1 DEF CheckoutInv
  <2> QED
    BY <1>2, <2>2, <2>3, <2>4
<1>4. CASE C!TouchTree \/ C!RaisePin
  <2>1. /\ host' = host /\ tree' \in C!Tree /\ corpusPin' \in C!Commits
        /\ look \notin {"version", "path", "origin", "head"} => since' \cap {"tree", "pin"} # {}
    BY <1>4 DEF C!TouchTree, C!RaisePin, C!Touch, C!LookedAtTree, C!TypeOK
  <2>2. C!TypeOK'
    BY <1>1, <2>1 DEF C!TypeOK
  <2>3. UNCHANGED <<C!Binary, C!ByPath, C!Unpinned>>
    BY <1>1, <2>1 DEF C!Binary, C!ByPath, C!ByOpam, C!Unpinned
  <2>4. HostInv'
    BY <1>1, <2>1, <2>3 DEF HostInv
  <2>5. CheckoutInv'
    BY <1>1, <2>1 DEF CheckoutInv
  <2> QED
    BY <1>2, <2>2, <2>4, <2>5
<1> QED
  BY <1>3, <1>4

LEMMA NextPinsInv == C!Parameters /\ PinsInv /\ [C!Next]_(C!vars) => PinsInv'
<1> SUFFICES ASSUME C!Parameters, PinsInv, [C!Next]_(C!vars) PROVE PinsInv'
  OBVIOUS
<1>1. CASE C!Next
  BY <1>1, ToolRowPinsInv, CheckoutRowPinsInv, RunPinsInv, TouchPinsInv DEF C!Next
<1>2. CASE UNCHANGED C!vars
  <2>1. UNCHANGED <<C!runVars, C!machine>> /\ UNCHANGED <<look, bad>>
    BY <1>2 DEF C!vars
  <2>2. UNCHANGED <<tool, known, host, tree, corpusPin, commit, since, touches, C!Binary, C!ByPath, C!Unpinned>>
    BY <2>1, SameMachine
  <2> QED
    BY <2>1, <2>2 DEF PinsInv, C!TypeOK, HostInv, CheckoutInv, RefusedInv
<1> QED
  BY <1>1, <1>2

\* The invariant of a process that asserts pins.
PinsPart == command = "pins" => PinsInv

LEMMA PinsHolds == Spec => []PinsPart
<1>1. Init => PinsPart
  <2> SUFFICES ASSUME Init, command = "pins" PROVE PinsInv
    BY DEF PinsPart
  <2> QED
    BY CommandAssumption, InitPinsInv DEF Init
<1>2. PinsPart /\ [Next]_tcbVars => PinsPart'
  <2> SUFFICES ASSUME PinsPart, [Next]_tcbVars, command' = "pins" PROVE PinsInv'
    BY DEF PinsPart
  <2>1. command = "pins"
    BY DEF Next, Timing, Pins, Infer, Juliet, SelfCheck, Table, tcbVars
  <2>2. C!Next \/ UNCHANGED pinVars
    BY <2>1 DEF Next, Timing, Pins, Infer, Juliet, SelfCheck, Table, tcbVars
  <2>3. UNCHANGED pinVars => UNCHANGED C!vars
    BY DEF pinVars, C!vars, C!runVars, C!machine
  <2> QED
    BY <2>1, <2>2, <2>3, CommandAssumption, NextPinsInv DEF PinsPart
<1> QED
  BY <1>1, <1>2, PTL DEF Spec

\* A run that was not refused (run.py _refuse_on_failed) is by the tool and of
\* the checkout the rows (check.py) are about, pinned as far as they can tell,
\* and names the pinned commit: whatever the machine was before its first
\* look, as long as it did not change after it.
THEOREM PassedMatchesRows == Spec => []PassedRunMatchesRows
<1>1. PinsPart => PassedRunMatchesRows
  <2> SUFFICES ASSUME PinsInv, C!Scanning PROVE C!PassedRunMatchesRows
    BY DEF PinsPart, PassedRunMatchesRows, C!PassedRunMatchesRows
  <2>1. look \in {"scan", "done"} /\ ~bad /\ tool \in DOMAIN C!Policy /\ host \in C!Host
    BY DEF PinsInv, RefusedInv, C!TypeOK, C!Scanning
  <2>2. ASSUME "host" \notin since PROVE C!LooksPinned(C!Binary) /\ (C!Policy[tool] = "distro" => known)
    <3>1. /\ ~C!Unpinned /\ C!Binary \in {"shim", "pinned", "patched"}
          /\ C!Origin[tool] = "opam" \/ C!ByPath \notin {"shim", "absent"}
          /\ \/ host.installed = "pinned"
             \/ C!Policy[tool] = "exact" /\ C!Origin[tool] = "dpkg" /\ host.installed = "patched"
             \/ C!Origin[tool] = "prebuilt"
      BY <2>1, <2>2 DEF PinsInv, HostInv, AfterVersion, AfterPath, AfterOrigin
    <3>2. C!Policy[tool] = "distro" => known
      BY <3>1 DEF C!Unpinned
    <3>3. CASE C!Origin[tool] = "opam"
      <4>1. host.installed = "pinned"
        BY <3>1, <3>3
      <4>2. C!Binary = "pinned"
        BY <3>3, <4>1 DEF C!Binary, C!ByOpam
      <4> QED
        BY <3>2, <4>2 DEF C!LooksPinned
    <3>4. CASE C!Origin[tool] # "opam"
      <4>1. C!Binary = C!ByPath /\ C!ByPath # "shim"
        BY <3>1, <3>4 DEF C!Binary
      <4>2. C!Binary = host.installed
        BY <4>1 DEF C!ByPath
      <4>3. C!Origin[tool] = "prebuilt" => C!Policy[tool] = "exact"
        BY <2>1, PolicyFacts
      <4>4. C!LooksPinned(C!Binary)
        BY <3>1, <3>4, <4>1, <4>2, <4>3 DEF C!LooksPinned
      <4> QED
        BY <3>2, <4>4
    <3> QED
      BY <3>3, <3>4
  <2>3. ASSUME since \cap {"tree", "pin"} = {}
        PROVE  /\ tree.git /\ tree.head = corpusPin /\ commit = corpusPin
               /\ ~tree.modified /\ tree.stray \cap C!Listed = {}
    BY <2>1, <2>3 DEF PinsInv, CheckoutInv, C!Listed, AfterVersion, AfterPath, AfterOrigin, AfterHead, AfterStatus
  <2> QED
    BY <2>2, <2>3 DEF C!PassedRunMatchesRows
<1> QED
  BY <1>1, PinsHolds, PTL

-----------------------------------------------------------------------------
(* `tcb run juliet` and the tables made of it.                             *)

Sections == {"bad", "good", "support", "unknown"}
Classified == [cwe : Cwes, section : Sections, rec : J!Record]

Shape ==
  /\ DOMAIN perCwe = Bundles /\ DOMAIN statusOf = Bundles
  /\ findings \in [Bundles -> SUBSET Classified]
  /\ \A b \in Bundles : IsFiniteSet(findings[b])
  /\ bounds \in [Bundles -> SUBSET Cwes] /\ cutShort \in [Bundles -> SUBSET Cwes]

\* Nothing is known of a CWE before its row is written.
RowFirst ==
  \A b \in Bundles : /\ bounds[b] \subseteq cutShort[b] /\ cutShort[b] \subseteq DOMAIN perCwe[b]
                     /\ DOMAIN perCwe[b] \subseteq asked[b]
                     /\ \A f \in findings[b] : f.cwe \in J!OkCwes(b)

FlawsInv == \A b \in Bundles : \A c \in DOMAIN perCwe[b] : perCwe[b][c].flaws = Cardinality(J!Flaws)

JulietInv == Shape /\ RowFirst /\ FlawsInv /\ J!CountsAgree /\ J!CutShortShows

\* FiniteSets in Juliet is FiniteSets.
LEMMA JulietCardinality ==
  \A V : (J!IsFiniteSet(V) <=> IsFiniteSet(V)) /\ J!Cardinality(V) = Cardinality(V)
<1>1. ASSUME NEW V PROVE J!IsFiniteSet(V) <=> IsFiniteSet(V)
  BY DEF J!IsFiniteSet, IsFiniteSet
<1>2. ASSUME NEW V PROVE J!Cardinality(V) = Cardinality(V)
  BY Zenon DEF J!Cardinality, Cardinality
<1> QED
  BY <1>1, <1>2

LEMMA SectionType == ASSUME NEW r PROVE J!Section(r) \in Sections
BY Zenon DEF J!Section, Sections

\* The records the section function puts into a section, and the findings
\* they become.
InSection(rs, s) == {r \in rs : J!Section(r) \in {s}}
FindingsOf(rs, c, s) ==
  {f \in {[cwe |-> c, section |-> J!Section(r), rec |-> r] : r \in rs} : f.section = s}

LEMMA ClassifiedCount ==
  ASSUME NEW rs \in SUBSET J!Record, IsFiniteSet(rs), NEW c, NEW s
  PROVE  Cardinality(FindingsOf(rs, c, s)) = Cardinality(InSection(rs, s))
<1> DEFINE g == [r \in InSection(rs, s) |-> [cwe |-> c, section |-> J!Section(r), rec |-> r]]
<1>1. IsFiniteSet(InSection(rs, s))
  BY FS_Subset DEF InSection
<1>2. g \in [InSection(rs, s) -> FindingsOf(rs, c, s)]
  BY DEF InSection, FindingsOf
<1>3. \A q, r \in InSection(rs, s) : g[q] = g[r] => q = r
  OBVIOUS
<1>4. \A f \in FindingsOf(rs, c, s) : \E r \in InSection(rs, s) : g[r] = f
  BY DEF InSection, FindingsOf
<1> HIDE DEF g
<1>5. g \in Bijection(InSection(rs, s), FindingsOf(rs, c, s))
  BY <1>2, <1>3, <1>4, Fun_IsBij
<1>6. ExistsBijection(InSection(rs, s), FindingsOf(rs, c, s))
  BY <1>5 DEF ExistsBijection
<1> QED
  BY <1>1, <1>6, FS_Bijection

LEMMA DisjointUnion ==
  ASSUME NEW V, NEW Z, IsFiniteSet(V), IsFiniteSet(Z), V \cap Z = {}
  PROVE  IsFiniteSet(V \cup Z) /\ Cardinality(V \cup Z) = Cardinality(V) + Cardinality(Z)
<1>1. /\ IsFiniteSet(V \cup Z)
      /\ Cardinality(V \cup Z) = Cardinality(V) + Cardinality(Z) - Cardinality(V \cap Z)
  BY FS_Union
<1>2. Cardinality(V \cap Z) = 0
  BY FS_EmptySet, Zenon
<1>3. Cardinality(V) \in Nat /\ Cardinality(Z) \in Nat
  BY FS_CardinalityType
<1> QED
  BY <1>1, <1>2, <1>3

\* A scanned row adds up.
LEMMA RowAddsUp ==
  ASSUME NEW rs \in SUBSET J!Record, IsFiniteSet(rs)
  PROVE  J!ScanRow(rs).findings = J!ScanRow(rs).bad + J!ScanRow(rs).good + J!ScanRow(rs).unknown
<1> DEFINE in(V) == {r \in rs : J!Section(r) \in V}
<1>1. /\ IsFiniteSet(in({"bad"})) /\ IsFiniteSet(in({"good"})) /\ IsFiniteSet(in({"unknown", "support"}))
  BY FS_Subset
<1>2. /\ rs = (in({"bad"}) \cup in({"good"})) \cup in({"unknown", "support"})
      /\ in({"bad"}) \cap in({"good"}) = {}
      /\ (in({"bad"}) \cup in({"good"})) \cap in({"unknown", "support"}) = {}
  BY SectionType DEF Sections
<1>3. /\ J!ScanRow(rs).findings = Cardinality(rs)
      /\ J!ScanRow(rs).bad = Cardinality(in({"bad"}))
      /\ J!ScanRow(rs).good = Cardinality(in({"good"}))
      /\ J!ScanRow(rs).unknown = Cardinality(in({"unknown", "support"}))
  BY JulietCardinality DEF J!ScanRow
<1> DEFINE B == in({"bad"})  G == in({"good"})  U == in({"unknown", "support"})
<1>4. /\ Cardinality(B) \in Nat /\ Cardinality(G) \in Nat /\ Cardinality(U) \in Nat
      /\ Cardinality({}) = 0
  BY <1>1, FS_CardinalityType, FS_EmptySet
<1>5. Cardinality(rs) = Cardinality(B) + Cardinality(G) + Cardinality(U)
  <2>1. IsFiniteSet(B) /\ IsFiniteSet(G) /\ IsFiniteSet(U)
    BY <1>1
  <2>2. rs = (B \cup G) \cup U /\ B \cap G = {} /\ (B \cup G) \cap U = {}
    BY <1>2
  <2> HIDE DEF B, G, U
  <2>3. IsFiniteSet(B \cup G) /\ Cardinality(B \cup G) = Cardinality(B) + Cardinality(G)
    BY <2>1, <2>2, DisjointUnion
  <2>4. Cardinality((B \cup G) \cup U) = Cardinality(B \cup G) + Cardinality(U)
    BY <2>1, <2>2, <2>3, DisjointUnion
  <2>5. Cardinality(rs) = Cardinality((B \cup G) \cup U)
    BY <2>2, Zenon
  <2> QED
    BY <2>3, <2>4, <2>5, <1>4
<1> QED
  BY <1>3, <1>5

\* A matched finding hits at most three flaw lines.
LEMMA HitBound ==
  ASSUME J!Parameters, Shape, NEW b \in Bundles, NEW c
  PROVE  /\ IsFiniteSet(J!Hit(b, c)) /\ Cardinality(J!Hit(b, c)) <= Cardinality(J!Flaws)
         /\ Cardinality(J!Hit(b, c)) <= 3 * Cardinality(J!Matched(b, c, "bad"))
<1> DEFINE M == J!Matched(b, c, "bad")
           H == J!Hit(b, c)
           near == [x \in M \X (0..2) |-> (x[1].rec.line + x[2]) - 1]
           onFlaw == {x \in M \X (0..2) : near[x] \in H}
           to == [x \in onFlaw |-> near[x]]
<1>1. IsFiniteSet(J!Flaws) /\ IsFiniteSet(M)
  <2>1. J!Flaws \subseteq FlawLines /\ M \subseteq findings[b]
    BY DEF J!Flaws, J!Matched, J!Of
  <2> QED
    BY JulietCardinality, <2>1, FS_Subset DEF J!Parameters, Shape
<1>2. H \subseteq J!Flaws
  BY DEF J!Hit
<1>3. IsFiniteSet(H) /\ Cardinality(H) <= Cardinality(J!Flaws)
  <2> HIDE DEF H
  <2> QED
    BY <1>1, <1>2, FS_Subset
<1>4. \A f \in M : f.rec.line \in Nat
  BY DEF J!Matched, J!Of, Shape, Classified, J!Record, J!Parameters
<1>5. \A l \in H : l \in Nat /\ \E f \in M : f.rec.line \in {l - 1, l, l + 1}
  BY DEF J!Hit, J!Flaws, J!Parameters
<1>6. \A l \in H : \E x \in onFlaw : to[x] = l
  <2> SUFFICES ASSUME NEW l \in H PROVE \E x \in onFlaw : to[x] = l
    OBVIOUS
  <2>1. PICK f \in M : f.rec.line \in {l - 1, l, l + 1}
    BY <1>5
  <2> DEFINE n == (l + 1) - f.rec.line
  <2>2. l \in Nat /\ f.rec.line \in Nat
    BY <1>4, <1>5
  <2>3. n \in 0..2 /\ (f.rec.line + n) - 1 = l
    BY <2>1, <2>2
  <2>4. <<f, n>> \in M \X (0..2)
    BY <2>3
  <2>5. near[<<f, n>>] = (f.rec.line + n) - 1
    BY <2>4
  <2>6. <<f, n>> \in onFlaw /\ to[<<f, n>>] = l
    BY <2>3, <2>4, <2>5
  <2> QED
    BY <2>6
<1>7. to \in Surjection(onFlaw, H)
  <2>1. to \in [onFlaw -> H]
    OBVIOUS
  <2> HIDE DEF to, onFlaw, H
  <2> QED
    BY <1>6, <2>1, Fun_IsSurj
<1>8. /\ IsFiniteSet(M \X (0..2)) /\ Cardinality(M \X (0..2)) = 3 * Cardinality(M)
  <2>1. IsFiniteSet(0..2) /\ Cardinality(0..2) = 3
    <3>1. 0 \in Int /\ 2 \in Int /\ ~(0 > 2)
      OBVIOUS
    <3>2. IsFiniteSet(0..2) /\ Cardinality(0..2) = (IF 0 > 2 THEN 0 ELSE 2 - 0 + 1)
      BY <3>1, FS_Interval
    <3> QED
      BY <3>2
  <2>2. Cardinality(M) \in Nat
    BY <1>1, FS_CardinalityType
  <2> HIDE DEF M
  <2>3. IsFiniteSet(M \X (0..2)) /\ Cardinality(M \X (0..2)) = Cardinality(M) * Cardinality(0..2)
    BY <1>1, <2>1, FS_Product
  <2> QED
    BY <2>1, <2>2, <2>3
<1>9. IsFiniteSet(onFlaw) /\ Cardinality(onFlaw) <= Cardinality(M \X (0..2))
  BY <1>8, FS_Subset
<1>10. Cardinality(H) <= Cardinality(onFlaw)
  <2> HIDE DEF to, onFlaw, H
  <2> QED
    BY <1>7, <1>9, FS_Surjection
<1>11. Cardinality(H) \in Nat /\ Cardinality(onFlaw) \in Nat /\ Cardinality(M) \in Nat
  BY <1>1, <1>3, <1>9, FS_CardinalityType
<1> QED
  <2>1. Cardinality(H) <= 3 * Cardinality(M)
    <3> HIDE DEF H, onFlaw, M
    <3> QED
      BY <1>8, <1>9, <1>10, <1>11
  <2> QED
    BY <1>3, <2>1

LEMMA InitJulietInv == J!Init => JulietInv
<1> SUFFICES ASSUME J!Init PROVE JulietInv
  OBVIOUS
<1>1. Shape
  BY FS_EmptySet DEF J!Init, Shape
<1>2. \A b \in Bundles : DOMAIN perCwe[b] = {} /\ cutShort[b] = {} /\ findings[b] = {} /\ statusOf[b] = "ok"
  BY DEF J!Init
<1>3. RowFirst
  BY DEF J!Init, RowFirst
<1>4. FlawsInv /\ J!CountsAgree /\ J!CutShortShows
  BY <1>2 DEF FlawsInv, J!CountsAgree, J!CutShortShows
<1> QED
  BY <1>1, <1>3, <1>4 DEF JulietInv

\* What a new row changes of the rows.
LEMMA RowFacts ==
  ASSUME Shape, NEW b \in Bundles, NEW c, NEW row, J!AddRow(b, c, row)
  PROVE  /\ DOMAIN perCwe' = Bundles
         /\ \A x \in Bundles \ {b} : perCwe'[x] = perCwe[x]
         /\ DOMAIN perCwe'[b] = DOMAIN perCwe[b] \cup {c}
         /\ perCwe'[b][c] = row
         /\ \A d \in DOMAIN perCwe[b] \ {c} : perCwe'[b][d] = perCwe[b][d]
BY DEF Shape, J!AddRow

LEMMA SkipJulietInv ==
  ASSUME JulietInv, NEW b \in Bundles, NEW c \in Cwes, J!Skip(b, c) PROVE JulietInv'
<1> USE DEF JulietInv
<1>1. /\ c \notin DOMAIN perCwe[b] /\ J!AddRow(b, c, J!SkipRow)
      /\ UNCHANGED <<findings, statusOf, bounds, cutShort>>
  BY DEF J!Skip
<1>2. /\ DOMAIN perCwe' = Bundles
      /\ \A x \in Bundles \ {b} : perCwe'[x] = perCwe[x]
      /\ DOMAIN perCwe'[b] = DOMAIN perCwe[b] \cup {c}
      /\ perCwe'[b][c] = J!SkipRow
      /\ \A d \in DOMAIN perCwe[b] : perCwe'[b][d] = perCwe[b][d]
  BY <1>1, RowFacts
<1>3. Shape'
  BY <1>1, <1>2 DEF Shape
<1>4. RowFirst'
  <2>1. c \in asked[b] /\ UNCHANGED <<asked, toolOf>>
    BY DEF J!Skip
  <2>2. \A x \in Bundles : J!OkCwes(x) \subseteq J!OkCwes(x)'
    BY <1>1, <1>2 DEF J!OkCwes
  <2> QED
    BY <1>1, <1>2, <2>1, <2>2 DEF RowFirst
<1>5. FlawsInv'
  BY JulietCardinality, <1>2 DEF FlawsInv, J!SkipRow
<1>6. J!CountsAgree'
  <2>1. J!Of(b, c, "bad") = {} /\ J!Of(b, c, "good") = {}
    BY <1>1 DEF RowFirst, J!OkCwes, J!Of
  <2>2. \A x, d : J!Of(x, d, "bad")' = J!Of(x, d, "bad") /\ J!Of(x, d, "good")' = J!Of(x, d, "good")
    BY <1>1 DEF J!Of
  <2>3. J!SkipRow.bad = 0 /\ J!SkipRow.good = 0 /\ J!SkipRow.findings = 0 /\ J!SkipRow.unknown = 0
    BY DEF J!SkipRow
  <2>4. J!SkipRow.findings = J!SkipRow.bad + J!SkipRow.good + J!SkipRow.unknown
    BY <2>3
  <2> QED
    <3> SUFFICES ASSUME NEW x \in Bundles, NEW d \in DOMAIN perCwe'[x]
                 PROVE  /\ perCwe'[x][d].bad = Cardinality(J!Of(x, d, "bad"))
                        /\ perCwe'[x][d].good = Cardinality(J!Of(x, d, "good"))
                        /\ perCwe'[x][d].findings
                             = perCwe'[x][d].bad + perCwe'[x][d].good + perCwe'[x][d].unknown
      BY JulietCardinality, <2>2 DEF J!CountsAgree
    <3>1. CASE x = b /\ d = c
      BY <1>2, <2>1, <2>3, <2>4, <3>1, FS_EmptySet
    <3>2. CASE ~(x = b /\ d = c)
      BY JulietCardinality, <1>2, <3>2 DEF J!CountsAgree
    <3> QED
      BY <3>1, <3>2
<1>7. J!CutShortShows'
  BY <1>1, <1>2 DEF J!CutShortShows, RowFirst
<1> QED
  BY <1>3, <1>4, <1>5, <1>6, <1>7

LEMMA ScanJulietInv ==
  ASSUME JulietInv, NEW b \in Bundles, NEW c \in Cwes, J!Scan(b, c) PROVE JulietInv'
<1> USE DEF JulietInv
<1>1. PICK rs \in SUBSET J!Record :
        /\ IsFiniteSet(rs) /\ J!AddRow(b, c, J!ScanRow(rs))
        /\ findings' = [findings EXCEPT ![b] =
             @ \cup {[cwe |-> c, section |-> J!Section(r), rec |-> r] : r \in rs}]
  BY JulietCardinality DEF J!Scan
<1> DEFINE new == {[cwe |-> c, section |-> J!Section(r), rec |-> r] : r \in rs}
<1>2. PICK cut \in BOOLEAN :
        /\ statusOf' = [statusOf EXCEPT ![b] = J!Status(@, cut /\ ~(toolOf[b] \in Bounded))]
        /\ bounds' = [bounds EXCEPT ![b] = IF toolOf[b] \in Bounded
                                           THEN (IF cut THEN @ \cup {c} ELSE @) ELSE @]
        /\ cutShort' = [cutShort EXCEPT ![b] = IF cut THEN @ \cup {c} ELSE @]
  BY DEF J!Scan
<1>3. c \notin DOMAIN perCwe[b]
  BY DEF J!Scan
<1>4. /\ DOMAIN perCwe' = Bundles
      /\ \A x \in Bundles \ {b} : perCwe'[x] = perCwe[x]
      /\ DOMAIN perCwe'[b] = DOMAIN perCwe[b] \cup {c}
      /\ perCwe'[b][c] = J!ScanRow(rs)
      /\ \A d \in DOMAIN perCwe[b] : perCwe'[b][d] = perCwe[b][d]
  BY <1>1, <1>3, RowFacts
<1>5. new \subseteq Classified /\ IsFiniteSet(new)
  <2>1. new \subseteq Classified
    BY SectionType DEF Classified
  <2>2. IsFiniteSet(new)
    <3> DEFINE g == [r \in rs |-> [cwe |-> c, section |-> J!Section(r), rec |-> r]]
    <3>1. g \in [rs -> new] /\ \A t \in new : \E r \in rs : g[r] = t
      OBVIOUS
    <3> HIDE DEF g, new
    <3>2. g \in Surjection(rs, new)
      BY <3>1, Fun_IsSurj
    <3> QED
      BY <1>1, <3>2, FS_Surjection
  <2> QED
    BY <2>1, <2>2
<1>6. /\ findings'[b] = findings[b] \cup new
      /\ \A x \in Bundles \ {b} : findings'[x] = findings[x]
  BY <1>1 DEF Shape
<1>7. Shape'
  <2>1. findings' \in [Bundles -> SUBSET Classified]
    BY <1>1, <1>5 DEF Shape
  <2>2. \A x \in Bundles : IsFiniteSet(findings'[x])
    <3>1. IsFiniteSet(findings[b] \cup new)
      <4> HIDE DEF new
      <4> QED
        BY <1>5, FS_Union DEF Shape
    <3> QED
      BY <1>6, <3>1 DEF Shape
  <2>3. /\ DOMAIN statusOf' = Bundles
        /\ bounds' \in [Bundles -> SUBSET Cwes] /\ cutShort' \in [Bundles -> SUBSET Cwes]
    BY <1>2 DEF Shape
  <2> QED
    BY <1>4, <2>1, <2>2, <2>3 DEF Shape
<1>8. RowFirst'
  <2>1. /\ \/ cutShort'[b] = cutShort[b] /\ bounds'[b] = bounds[b]
           \/ cutShort'[b] = cutShort[b] \cup {c} /\ bounds'[b] \in {bounds[b], bounds[b] \cup {c}}
        /\ \A x \in Bundles \ {b} : cutShort'[x] = cutShort[x] /\ bounds'[x] = bounds[x]
    BY <1>2 DEF Shape
  <2>2. \A f \in new : f.cwe = c
    OBVIOUS
  <2>3. c \in asked[b] /\ asked' = asked
    BY DEF J!Scan
  <2>4. J!ScanRow(rs).status = "ok"
    BY DEF J!ScanRow
  <2> HIDE DEF new
  <2>5. \A x \in Bundles : J!OkCwes(x) \subseteq J!OkCwes(x)' /\ (x = b => c \in J!OkCwes(x)')
    BY <1>3, <1>4, <2>4 DEF J!OkCwes
  <2> QED
    BY <1>4, <1>6, <2>1, <2>2, <2>3, <2>5 DEF RowFirst
<1>9. FlawsInv'
  BY JulietCardinality, <1>4 DEF FlawsInv, J!ScanRow
<1>10. J!CountsAgree'
  <2>1. \A s : \A x \in Bundles : \A d \in DOMAIN perCwe[x] : J!Of(x, d, s)' = J!Of(x, d, s)
    <3>1. \A f \in new : f.cwe = c
      OBVIOUS
    <3> HIDE DEF new
    <3> QED
      BY <1>3, <1>6, <3>1 DEF J!Of
  <2>2. \A s : J!Of(b, c, s)' = FindingsOf(rs, c, s)
    <3>1. (\A f \in new : f.cwe = c) /\ \A s : FindingsOf(rs, c, s) = {f \in new : f.section = s}
      BY DEF FindingsOf
    <3> HIDE DEF new
    <3> QED
      BY <1>3, <1>6, <3>1 DEF J!Of, J!OkCwes, RowFirst
  <2>3. /\ Cardinality(J!Of(b, c, "bad")') = J!ScanRow(rs).bad
        /\ Cardinality(J!Of(b, c, "good")') = J!ScanRow(rs).good
    <3>1. /\ Cardinality(J!Of(b, c, "bad")') = Cardinality(FindingsOf(rs, c, "bad"))
          /\ Cardinality(J!Of(b, c, "good")') = Cardinality(FindingsOf(rs, c, "good"))
      BY <2>2, Zenon
    <3>2. /\ Cardinality(FindingsOf(rs, c, "bad")) = Cardinality(InSection(rs, "bad"))
          /\ Cardinality(FindingsOf(rs, c, "good")) = Cardinality(InSection(rs, "good"))
      BY <1>1, ClassifiedCount
    <3> QED
      BY JulietCardinality, <3>1, <3>2 DEF J!ScanRow, InSection
  <2>4. J!ScanRow(rs).findings = J!ScanRow(rs).bad + J!ScanRow(rs).good + J!ScanRow(rs).unknown
    BY <1>1, RowAddsUp
  <2> QED
    BY JulietCardinality, <1>4, <2>1, <2>3, <2>4 DEF J!CountsAgree
<1>11. J!CutShortShows'
  <2> SUFFICES ASSUME NEW x \in Bundles
               PROVE  /\ \A d \in DOMAIN perCwe'[x] \ bounds'[x] :
                            statusOf'[x] = "ok" => d \notin cutShort'[x]
                      /\ statusOf'[x] = "timeout" => cutShort'[x] \ bounds'[x] # {}
    BY DEF J!CutShortShows
  <2>1. CASE x # b
    <3>1. /\ perCwe'[x] = perCwe[x] /\ bounds'[x] = bounds[x]
          /\ statusOf'[x] = statusOf[x] /\ cutShort'[x] = cutShort[x]
      BY <1>2, <1>4, <2>1 DEF Shape
    <3> QED
      BY <3>1 DEF J!CutShortShows
  <2>2. CASE x = b
    <3>1. c \notin cutShort[b]
      BY <1>3 DEF RowFirst
    <3>2. CASE ~cut
      <4>1. bounds'[b] = bounds[b] /\ statusOf'[b] = statusOf[b] /\ cutShort'[b] = cutShort[b]
        BY <1>2, <3>2 DEF Shape, J!Status
      <4> QED
        BY <1>4, <2>2, <3>1, <4>1 DEF J!CutShortShows
    <3>3. CASE cut /\ toolOf[b] \in Bounded
      <4>1. /\ bounds'[b] = bounds[b] \cup {c} /\ statusOf'[b] = statusOf[b]
            /\ cutShort'[b] = cutShort[b] \cup {c}
        BY <1>2, <3>3 DEF Shape, J!Status
      <4> QED
        BY <1>4, <2>2, <3>1, <4>1 DEF J!CutShortShows
    <3>4. CASE cut /\ toolOf[b] \notin Bounded
      <4>1. /\ bounds'[b] = bounds[b] /\ statusOf'[b] = "timeout"
            /\ cutShort'[b] = cutShort[b] \cup {c}
        BY <1>2, <3>4 DEF Shape, J!Status
      <4>2. c \notin bounds[b]
        BY <1>3 DEF RowFirst
      <4> QED
        BY <1>4, <2>2, <4>1, <4>2
    <3> QED
      BY <3>2, <3>3, <3>4
  <2> QED
    BY <2>1, <2>2
<1> QED
  BY <1>7, <1>8, <1>9, <1>10, <1>11

LEMMA NextJulietInv == JulietInv /\ [J!Next]_(J!vars) => JulietInv'
<1> SUFFICES ASSUME JulietInv, [J!Next]_(J!vars) PROVE JulietInv'
  OBVIOUS
<1>1. CASE J!Next
  BY <1>1, SkipJulietInv, ScanJulietInv DEF J!Next
<1>2. CASE UNCHANGED J!vars
  BY <1>2 DEF JulietInv, Shape, RowFirst, FlawsInv, J!CountsAgree, J!CutShortShows, J!Of, J!OkCwes, J!vars
<1> QED
  BY <1>1, <1>2

LEMMA InitJulietTypes == J!Parameters /\ J!Init => J!TypeOK
<1> SUFFICES ASSUME J!Parameters, J!Init PROVE J!TypeOK
  OBVIOUS
<1>1. toolOf \in [Bundles -> Tools]
  BY DEF J!Init, J!Parameters
<1>2. \A b \in Bundles : DOMAIN perCwe[b] = {} /\ perCwe[b] \in [DOMAIN perCwe[b] -> J!Row]
  BY DEF J!Init
<1> QED
  BY <1>1, <1>2 DEF J!Init, J!TypeOK

\* A new row is a row.
LEMMA PerCweTypes ==
  ASSUME J!TypeOK, NEW b \in Bundles, NEW c \in Cwes, NEW row \in J!Row, J!AddRow(b, c, row)
  PROVE  /\ DOMAIN perCwe' = Bundles
         /\ \A x \in Bundles : /\ DOMAIN perCwe'[x] \subseteq Cwes
                               /\ perCwe'[x] \in [DOMAIN perCwe'[x] -> J!Row]
<1> DEFINE rows == perCwe[b]
           new == [d \in DOMAIN rows \cup {c} |-> IF d = c THEN row ELSE rows[d]]
<1>1. perCwe' = [perCwe EXCEPT ![b] = new]
  BY DEF J!AddRow
<1>2. DOMAIN perCwe = Bundles /\ DOMAIN rows \subseteq Cwes /\ rows \in [DOMAIN rows -> J!Row]
  BY DEF J!TypeOK
<1>3. DOMAIN new = DOMAIN rows \cup {c} /\ new \in [DOMAIN new -> J!Row]
  <2> HIDE DEF rows
  <2> QED
    BY <1>2
<1> HIDE DEF new, rows
<1>4. /\ DOMAIN perCwe' = Bundles /\ perCwe'[b] = new
      /\ \A x \in Bundles \ {b} : perCwe'[x] = perCwe[x]
  BY <1>1, <1>2
<1>5. ASSUME NEW x \in Bundles
      PROVE  DOMAIN perCwe'[x] \subseteq Cwes /\ perCwe'[x] \in [DOMAIN perCwe'[x] -> J!Row]
  <2>1. CASE x = b
    BY <1>2, <1>3, <1>4, <2>1
  <2>2. CASE x # b
    BY <1>4, <2>2 DEF J!TypeOK
  <2> QED
    BY <2>1, <2>2
<1> QED
  BY <1>4, <1>5

\* The counts of a row are numbers.
LEMMA ScanRowType ==
  ASSUME J!Parameters, NEW rs \in SUBSET J!Record, IsFiniteSet(rs)
  PROVE  J!ScanRow(rs) \in J!Row /\ J!SkipRow \in J!Row
<1> DEFINE in(V) == {r \in rs : J!Section(r) \in V}
<1>1. /\ IsFiniteSet(in({"bad"})) /\ IsFiniteSet(in({"good"})) /\ IsFiniteSet(in({"unknown", "support"}))
  BY FS_Subset
<1>2. /\ Cardinality(in({"bad"})) \in Nat /\ Cardinality(in({"good"})) \in Nat
      /\ Cardinality(in({"unknown", "support"})) \in Nat /\ Cardinality(rs) \in Nat
  BY <1>1, FS_CardinalityType
<1>3. Cardinality(J!Flaws) \in Nat
  <2>1. J!Flaws \in SUBSET FlawLines /\ IsFiniteSet(FlawLines)
    BY JulietCardinality DEF J!Flaws, J!Parameters
  <2> QED
    BY <2>1, FS_Subset, FS_CardinalityType
<1>4. /\ J!ScanRow(rs) = [status |-> "ok", findings |-> Cardinality(rs), bad |-> Cardinality(in({"bad"})),
                         good |-> Cardinality(in({"good"})),
                         unknown |-> Cardinality(in({"unknown", "support"})),
                         flaws |-> Cardinality(J!Flaws)]
      /\ J!SkipRow = [status |-> "skipped", findings |-> 0, bad |-> 0, good |-> 0, unknown |-> 0,
                      flaws |-> Cardinality(J!Flaws)]
  BY JulietCardinality, Zenon DEF J!ScanRow, J!SkipRow
<1> HIDE DEF in
<1> QED
  BY <1>2, <1>3, <1>4 DEF J!Row

LEMMA NextJulietTypes == J!Parameters /\ J!TypeOK /\ [J!Next]_(J!vars) => J!TypeOK'
<1> SUFFICES ASSUME J!Parameters, J!TypeOK, [J!Next]_(J!vars) PROVE J!TypeOK'
  OBVIOUS
<1>1. ASSUME NEW b \in Bundles, NEW c \in Cwes, J!Skip(b, c) PROVE J!TypeOK'
  <2>1. J!SkipRow \in J!Row
    <3>1. {} \in SUBSET J!Record /\ IsFiniteSet({})
      BY FS_EmptySet
    <3> QED
      BY <3>1, ScanRowType
  <2>2. J!AddRow(b, c, J!SkipRow) /\ UNCHANGED <<toolOf, asked, findings, statusOf, bounds, cutShort>>
    BY <1>1 DEF J!Skip
  <2>3. /\ DOMAIN perCwe' = Bundles
        /\ \A x \in Bundles : /\ DOMAIN perCwe'[x] \subseteq Cwes
                              /\ perCwe'[x] \in [DOMAIN perCwe'[x] -> J!Row]
    BY <2>1, <2>2, PerCweTypes
  <2> QED
    BY <2>2, <2>3 DEF J!TypeOK
<1>2. ASSUME NEW b \in Bundles, NEW c \in Cwes, J!Scan(b, c) PROVE J!TypeOK'
  <2>1. PICK rs \in SUBSET J!Record :
          /\ IsFiniteSet(rs) /\ J!AddRow(b, c, J!ScanRow(rs))
          /\ findings' = [findings EXCEPT ![b] =
               @ \cup {[cwe |-> c, section |-> J!Section(r), rec |-> r] : r \in rs}]
    BY <1>2, JulietCardinality DEF J!Scan
  <2>2. PICK cut \in BOOLEAN :
          /\ statusOf' = [statusOf EXCEPT ![b] = J!Status(@, cut /\ ~(toolOf[b] \in Bounded))]
          /\ bounds' = [bounds EXCEPT ![b] = IF toolOf[b] \in Bounded
                                             THEN (IF cut THEN @ \cup {c} ELSE @) ELSE @]
          /\ cutShort' = [cutShort EXCEPT ![b] = IF cut THEN @ \cup {c} ELSE @]
    BY <1>2 DEF J!Scan
  <2>3. UNCHANGED <<toolOf, asked>>
    BY <1>2 DEF J!Scan
  <2>4. J!ScanRow(rs) \in J!Row
    BY <2>1, ScanRowType
  <2>5. /\ DOMAIN perCwe' = Bundles
        /\ \A x \in Bundles : /\ DOMAIN perCwe'[x] \subseteq Cwes
                              /\ perCwe'[x] \in [DOMAIN perCwe'[x] -> J!Row]
    BY <2>1, <2>4, PerCweTypes
  <2>6. findings' \in [Bundles -> SUBSET J!Finding]
    <3>1. {[cwe |-> c, section |-> J!Section(r), rec |-> r] : r \in rs} \subseteq J!Finding
      BY SectionType DEF J!Finding, Sections
    <3> QED
      BY <2>1, <3>1 DEF J!TypeOK
  <2>7. statusOf' \in [Bundles -> {"ok", "timeout"}]
    BY <2>2 DEF J!TypeOK, J!Status
  <2>8. bounds' \in [Bundles -> SUBSET Cwes] /\ cutShort' \in [Bundles -> SUBSET Cwes]
    BY <2>2 DEF J!TypeOK
  <2> QED
    BY <2>3, <2>5, <2>6, <2>7, <2>8 DEF J!TypeOK
<1>3. CASE UNCHANGED J!vars
  BY <1>3 DEF J!vars, J!TypeOK
<1> QED
  BY <1>1, <1>2, <1>3 DEF J!Next

\* The invariant of a process that executes `tcb run juliet`.
JulietPart == command = "juliet" => JulietInv /\ J!TypeOK

LEMMA JulietHolds == Spec => []JulietPart
<1>1. Init => JulietPart
  <2> SUFFICES ASSUME Init, command = "juliet" PROVE JulietInv /\ J!TypeOK
    BY DEF JulietPart
  <2> QED
    BY CommandAssumption, InitJulietInv, InitJulietTypes DEF Init
<1>2. JulietPart /\ [Next]_tcbVars => JulietPart'
  <2> SUFFICES ASSUME JulietPart, [Next]_tcbVars, command' = "juliet" PROVE (JulietInv /\ J!TypeOK)'
    BY DEF JulietPart
  <2>1. command = "juliet"
    BY DEF Next, Timing, Pins, Infer, Juliet, SelfCheck, Table, tcbVars
  <2>2. J!Next \/ UNCHANGED julietVars
    BY <2>1 DEF Next, Timing, Pins, Infer, Juliet, SelfCheck, Table, tcbVars
  <2>3. UNCHANGED julietVars => UNCHANGED J!vars
    BY DEF julietVars, J!vars
  <2> QED
    BY <2>1, <2>2, <2>3, CommandAssumption, NextJulietInv, NextJulietTypes DEF JulietPart
<1> QED
  BY <1>1, <1>2, PTL DEF Spec

\* The sections that run_juliet (run.py) counts into per_cwe.csv are those
\* _juliet_rows (tables.py) counts in findings.jsonl, for any findings.
THEOREM BothCountsAgree == Spec => []CountsAgree
<1>1. JulietPart => CountsAgree
  BY DEF JulietPart, JulietInv, CountsAgree
<1> QED
  BY <1>1, JulietHolds, PTL

\* A flaw line that _juliet_rows (tables.py) counts as hit has a matched
\* finding, at most three lines to one, and recall is at most one.
THEOREM HitsRestOnMatches == Spec => []HitsAreMatched
<1>1. JulietPart => HitsAreMatched
  BY JulietCardinality, CommandAssumption, HitBound DEF JulietPart, JulietInv, FlawsInv, HitsAreMatched, J!HitsAreMatched
<1> QED
  BY <1>1, JulietHolds, PTL

\* The common rows of juliet-summary (tables.py juliet_summary) are of CWEs that
\* each tool with results was asked for and has scanned in one of its bundles,
\* over one recall denominator, and a tool that is left out of them for want
\* of an "ok" row has no findings.
THEOREM CommonRowsAreCovered == Spec => []CommonIsCovered
<1>1. JulietPart => CommonIsCovered
  <2> SUFFICES ASSUME JulietInv PROVE J!CommonIsCovered
    BY DEF JulietPart, CommonIsCovered
  <2>1. ASSUME NEW t \in J!ByTool, NEW c \in J!Common
        PROVE  \E b \in Bundles : toolOf[b] = t /\ c \in asked[b] \cap J!OkCwes(b)
    <3>1. c \in J!ToolCwes(t)
      BY DEF J!Common
    <3>2. PICK b \in Bundles : toolOf[b] = t /\ c \in J!OkCwes(b)
      BY <3>1 DEF J!ToolCwes
    <3>3. c \in DOMAIN perCwe[b]
      BY <3>2 DEF J!OkCwes
    <3> QED
      BY <3>2, <3>3 DEF JulietInv, RowFirst
  <2>2. ASSUME NEW c \in J!Common, NEW b \in Bundles, NEW d \in Bundles,
               c \in J!OkCwes(b) \cap J!OkCwes(d)
        PROVE  perCwe[b][c].flaws = perCwe[d][c].flaws
    BY <2>2 DEF JulietInv, FlawsInv, J!OkCwes
  <2>3. ASSUME NEW b \in Bundles, NEW f \in findings[b]
        PROVE  f.cwe \in J!OkCwes(b) /\ toolOf[b] \in J!ByTool
    <3>1. f.cwe \in J!OkCwes(b)
      BY DEF JulietInv, RowFirst
    <3>2. f.cwe \in J!ToolCwes(toolOf[b])
      BY <3>1 DEF J!ToolCwes
    <3> QED
      BY <3>1, <3>2 DEF J!ByTool
  <2> QED
    BY <2>1, <2>2, <2>3 DEF J!CommonIsCovered
<1> QED
  BY <1>1, JulietHolds, PTL

\* A CWE with an invocation that was ended by a timeout (run.py run_juliet)
\* makes the bundle a timeout or is in the tool's own count of timeouts.
THEOREM CutShortIsSeen == Spec => []CutShortShows
<1>1. JulietPart => CutShortShows
  BY DEF JulietPart, JulietInv, CutShortShows
<1> QED
  BY <1>1, JulietHolds, PTL
-----------------------------------------------------------------------------
(* `tcb selfcheck`: what the golden was written from.                      *)

Fresh(x) == [run |-> x, pin |-> madeAt[x], whole |-> TRUE]

GoldenTypes ==
  /\ golden \in [S!Files -> S!Golden \cup {None}] /\ written \in [S!Runs -> 0..4]
  /\ working \in S!Runs \cup {"nobody"}
  /\ pin \in 0..MaxPin /\ madeAt \in [S!Runs -> 0..MaxPin]

\* The older run is over when the newer one begins, and the pins stay while a
\* process is alive.
InTurn ==
  /\ working = "b" => "a" \in ended
  /\ "b" \in ended => "a" \in ended /\ working # "a"
  /\ \A x \in S!Runs : working = x /\ x \in ended => madeAt[x] = pin

\* An update opens only the file after those it has written, and what the
\* last update has written is as it wrote it.
WrittenInOrder ==
  /\ \A x \in S!Runs : written[x] > 0 => x \in ended
  /\ \A x \in S!Runs, n \in 1..4 : S!Opened(x, S!GoldenFiles[n]) =>
       x \in ended /\ n <= written[x] + 1 /\ golden[S!GoldenFiles[n]].pin = madeAt[x]
  /\ \A n \in 1..4 : n <= written["b"] => golden[S!GoldenFiles[n]] = Fresh("b")
  /\ (\A n \in 1..4 : ~S!Opened("b", S!GoldenFiles[n])) =>
       \A n \in 1..4 : n <= written["a"] => golden[S!GoldenFiles[n]] = Fresh("a")

GoldenInv == GoldenTypes /\ InTurn /\ WrittenInOrder

LEMMA GoldenNames ==
  /\ S!Files = {"keys.csv", "per_check.csv", "per_cwe.csv", "golden.json"}
  /\ S!GoldenFiles[1] = "keys.csv" /\ S!GoldenFiles[2] = "per_check.csv"
  /\ S!GoldenFiles[3] = "per_cwe.csv" /\ S!GoldenFiles[4] = "golden.json"
  /\ Len(S!GoldenFiles) = 4 /\ DOMAIN S!GoldenFiles = 1..4
  /\ S!Runs = {"a", "b"}
<1>1. S!Runs = {"a", "b"}
  BY DEF S!Runs
<1>2. /\ S!GoldenFiles[1] = "keys.csv" /\ S!GoldenFiles[2] = "per_check.csv"
      /\ S!GoldenFiles[3] = "per_cwe.csv" /\ S!GoldenFiles[4] = "golden.json"
      /\ Len(S!GoldenFiles) = 4 /\ DOMAIN S!GoldenFiles = 1..4
  BY DEF S!GoldenFiles
<1>3. 1..4 = {1, 2, 3, 4}
  OBVIOUS
<1>4. S!Files = {S!GoldenFiles[1], S!GoldenFiles[2], S!GoldenFiles[3], S!GoldenFiles[4]}
  BY <1>2, <1>3 DEF S!Files
<1> QED
  BY <1>1, <1>2, <1>4

LEMMA InitGoldenInv == S!ScParameters /\ S!ScInit => GoldenInv
<1> SUFFICES ASSUME S!ScParameters, S!ScInit PROVE GoldenInv
  OBVIOUS
<1>1. /\ golden = [f \in S!Files |-> None] /\ written = [x \in S!Runs |-> 0]
      /\ madeAt = [x \in S!Runs |-> 0] /\ pin = 0 /\ working = "nobody" /\ ended = {}
  BY DEF S!ScInit, S!Init
<1>2. \A n \in 1..4 : golden[S!GoldenFiles[n]] = None
  <2>1. \A n \in 1..4 : S!GoldenFiles[n] \in S!Files
    BY GoldenNames DEF S!Files
  <2> QED
    BY <1>1, <2>1
<1>3. GoldenTypes /\ InTurn
  BY <1>1, GoldenNames DEF GoldenTypes, InTurn, S!ScParameters
<1>4. WrittenInOrder
  <2>1. \A x, n : n \in 1..4 => ~S!Opened(x, S!GoldenFiles[n])
    BY <1>2 DEF S!Opened
  <2>2. \A n \in 1..4 : ~(n <= 0)
    OBVIOUS
  <2> QED
    BY <1>1, <2>1, <2>2, GoldenNames DEF WrittenInOrder
<1> QED
  BY <1>3, <1>4 DEF GoldenInv

\* While a process runs the adapter, or none is alive, the golden stays.
LEMMA RunGoldenInv ==
  ASSUME GoldenInv, NEW x \in S!Runs, S!Begin(x) \/ S!RunReport(x) \/ S!RunEnd(x) \/ S!Leave(x)
  PROVE  GoldenInv'
<1> USE DEF GoldenInv
<1>1. UNCHANGED <<golden, written, pin>>
  BY DEF S!Begin, S!RunReport, S!RunEnd, S!Leave
<1>2. \A y, f : S!Opened(y, f)' <=> S!Opened(y, f)
  BY <1>1 DEF S!Opened
<1>3. CASE ~S!RunEnd(x)
  <2>1. UNCHANGED <<ended, madeAt>>
    BY <1>3 DEF S!Begin, S!RunReport, S!Report, S!Leave
  <2>2. GoldenTypes' /\ InTurn'
    BY <1>1, <1>3, <2>1, GoldenNames
       DEF GoldenTypes, InTurn, S!Begin, S!RunReport, S!Report, S!Leave
  <2>3. WrittenInOrder'
    BY <1>1, <1>2, <2>1 DEF WrittenInOrder, Fresh
  <2> QED
    BY <2>2, <2>3
<1>4. CASE S!RunEnd(x)
  <2>1. /\ working = x /\ working' = working /\ x \notin ended /\ ended' = ended \cup {x}
        /\ madeAt' = [madeAt EXCEPT ![x] = pin]
    BY <1>4 DEF S!RunEnd, S!End
  <2>2. \A y \in S!Runs : y # x => madeAt'[y] = madeAt[y]
    BY <2>1 DEF GoldenTypes
  <2>3. GoldenTypes'
    BY <1>1, <2>1 DEF GoldenTypes
  <2>4. InTurn'
    <3>1. madeAt'[x] = pin
      BY <2>1 DEF GoldenTypes
    <3> QED
      BY <1>1, <2>1, <2>2, <3>1, GoldenNames DEF InTurn
  <2>5. written[x] = 0
    BY <2>1 DEF WrittenInOrder, GoldenTypes
  <2>6. \A n \in 1..4 : ~S!Opened(x, S!GoldenFiles[n]) /\ ~(n <= 0)
    BY <2>1 DEF WrittenInOrder
  <2>7. \A y \in S!Runs : y # x => Fresh(y)' = Fresh(y)
    BY <2>2 DEF Fresh
  <2>8. WrittenInOrder'
    <3>1. \A y \in S!Runs : written'[y] > 0 => y \in ended'
      BY <1>1, <2>1 DEF WrittenInOrder
    <3>2. \A y \in S!Runs, n \in 1..4 : S!Opened(y, S!GoldenFiles[n])' =>
            y \in ended' /\ n <= written'[y] + 1 /\ golden'[S!GoldenFiles[n]].pin = madeAt'[y]
      BY <1>1, <1>2, <2>1, <2>2, <2>6 DEF WrittenInOrder
    <3>3. \A n \in 1..4 : n <= written'["b"] => golden'[S!GoldenFiles[n]] = Fresh("b")'
      BY <1>1, <2>5, <2>6, <2>7, GoldenNames DEF WrittenInOrder
    <3>4. (\A n \in 1..4 : ~S!Opened("b", S!GoldenFiles[n])') =>
            \A n \in 1..4 : n <= written'["a"] => golden'[S!GoldenFiles[n]] = Fresh("a")'
      BY <1>1, <1>2, <2>5, <2>6, <2>7, GoldenNames DEF WrittenInOrder
    <3> QED
      BY <3>1, <3>2, <3>3, <3>4 DEF WrittenInOrder
  <2> QED
    BY <2>3, <2>4, <2>8
<1> QED
  BY <1>3, <1>4

\* The next file is of this update, and an older one writes no more.
LEMMA WriteGoldenInv ==
  ASSUME S!ScParameters, GoldenInv, NEW x \in S!Runs, S!OpenGolden(x) \/ S!CloseGolden(x)
  PROVE  GoldenInv'
<1> USE DEF GoldenInv
<1> DEFINE k == written[x] + 1
           whole == S!CloseGolden(x)
<1>1. /\ working = x /\ k \in 1..4 /\ UNCHANGED <<ended, working, pin, madeAt>>
  BY GoldenNames DEF S!OpenGolden, S!CloseGolden, GoldenTypes
<1>2. x \in ended
  <2>1. CASE S!OpenGolden(x)
    BY <2>1 DEF S!OpenGolden
  <2>2. CASE S!CloseGolden(x)
    BY <1>1, <2>2 DEF S!CloseGolden, WrittenInOrder
  <2> QED
    BY <2>1, <2>2
<1>3. madeAt[x] = pin
  BY <1>1, <1>2 DEF InTurn
<1>4. PICK w \in BOOLEAN :
        /\ golden' = [golden EXCEPT ![S!GoldenFiles[k]] = [run |-> x, pin |-> pin, whole |-> w]]
        /\ written' = IF w THEN [written EXCEPT ![x] = k] ELSE written
  <2>1. CASE S!OpenGolden(x)
    BY <2>1 DEF S!OpenGolden
  <2>2. CASE S!CloseGolden(x)
    BY <2>2 DEF S!CloseGolden
  <2> QED
    BY <2>1, <2>2
<1> DEFINE g == [run |-> x, pin |-> pin, whole |-> w]
<1>5. \A n \in 1..4 : golden'[S!GoldenFiles[n]] = IF n = k THEN g ELSE golden[S!GoldenFiles[n]]
  <2>1. GoldenTypes /\ k \in 1..4 /\ golden' = [golden EXCEPT ![S!GoldenFiles[k]] = g]
    BY <1>1, <1>4
  <2>2. \A m, n \in 1..4 : S!GoldenFiles[m] = S!GoldenFiles[n] => m = n
    BY GoldenNames
  <2>3. \A n \in 1..4 : S!GoldenFiles[n] \in DOMAIN golden
    BY GoldenNames DEF S!Files, GoldenTypes
  <2> HIDE DEF g, k, GoldenInv
  <2> QED
    BY <2>1, <2>2, <2>3
<1>6. g \in S!Golden /\ g # None
  BY DEF S!Golden, S!ScParameters, GoldenTypes
<1>7. GoldenTypes'
  <2>1. S!GoldenFiles[k] \in S!Files
    BY <1>1, GoldenNames DEF S!Files
  <2>2. golden' \in [S!Files -> S!Golden \cup {None}]
    BY <1>4, <1>6, <2>1 DEF GoldenTypes
  <2> QED
    BY <1>1, <1>4, <2>2 DEF GoldenTypes
<1>8. InTurn'
  BY <1>1 DEF InTurn
<1>9. /\ written'[x] = (IF w THEN k ELSE written[x])
      /\ \A y \in S!Runs : y # x => written'[y] = written[y]
  BY <1>4 DEF GoldenTypes
<1>10. written[x] \in Nat /\ written["a"] \in Nat /\ written["b"] \in Nat
  BY GoldenNames DEF GoldenTypes
<1>11. /\ \A y \in S!Runs, n \in 1..4 :
            S!Opened(y, S!GoldenFiles[n])' <=>
              IF n = k THEN y = x ELSE S!Opened(y, S!GoldenFiles[n])
  BY <1>5, <1>6 DEF S!Opened
<1>12. \A y \in S!Runs : Fresh(y)' = Fresh(y)
  BY <1>1 DEF Fresh
<1>13. x = "a" => "b" \notin ended
  BY <1>1 DEF InTurn
<1>14. w => g = Fresh(x)
  BY <1>3 DEF Fresh
<1> HIDE DEF g, k, Fresh
<1>15. k = written[x] + 1
  BY DEF k
<1>16. WrittenInOrder'
  <2>1. \A y \in S!Runs : written'[y] > 0 => y \in ended'
    BY <1>1, <1>2, <1>9 DEF WrittenInOrder
  <2>2. ASSUME NEW y \in S!Runs, NEW n \in 1..4, S!Opened(y, S!GoldenFiles[n])'
        PROVE  y \in ended' /\ n <= written'[y] + 1 /\ golden'[S!GoldenFiles[n]].pin = madeAt'[y]
    <3>1. CASE n = k
      <4>1. y = x
        BY <1>11, <2>2, <3>1
      <4>2. golden'[S!GoldenFiles[n]].pin = pin
        BY <1>5, <3>1 DEF g
      <4> QED
        BY <1>1, <1>2, <1>3, <1>9, <1>10, <1>15, <3>1, <4>1, <4>2
    <3>2. CASE n # k
      <4>1. S!Opened(y, S!GoldenFiles[n]) /\ golden'[S!GoldenFiles[n]] = golden[S!GoldenFiles[n]]
        BY <1>5, <1>11, <2>2, <3>2
      <4>2. y \in ended /\ n <= written[y] + 1 /\ golden[S!GoldenFiles[n]].pin = madeAt[y]
        BY <4>1 DEF WrittenInOrder
      <4>3. written'[y] \in Nat /\ written[y] \in Nat /\ written[y] <= written'[y]
        BY <1>9, <1>10, <1>15, GoldenNames
      <4> QED
        BY <1>1, <4>1, <4>2, <4>3
    <3> QED
      BY <3>1, <3>2
  <2>3. ASSUME NEW n \in 1..4, n <= written'["b"] PROVE golden'[S!GoldenFiles[n]] = Fresh("b")'
    <3>1. CASE x = "a"
      <4>1. written["b"] = 0
        BY <1>10, <1>13, <3>1, GoldenNames DEF WrittenInOrder
      <4> QED
        BY <1>9, <2>3, <3>1, <4>1, GoldenNames
    <3>2. CASE x = "b"
      <4>1. CASE n = k
        BY <1>5, <1>9, <1>10, <1>12, <1>14, <1>15, <2>3, <3>2, <4>1, GoldenNames
      <4>2. CASE n # k
        <5>1. n <= written["b"]
          BY <1>9, <1>10, <1>15, <2>3, <3>2, <4>2
        <5> QED
          BY <1>5, <1>12, <4>2, <5>1, GoldenNames DEF WrittenInOrder
      <4> QED
        BY <4>1, <4>2
    <3> QED
      BY <3>1, <3>2, GoldenNames
  <2>4. ASSUME \A n \in 1..4 : ~S!Opened("b", S!GoldenFiles[n])',
               NEW n \in 1..4, n <= written'["a"]
        PROVE  golden'[S!GoldenFiles[n]] = Fresh("a")'
    <3>1. x = "a"
      BY <1>1, <1>11, <2>4, GoldenNames
    <3>2. \A m \in 1..4 : ~S!Opened("b", S!GoldenFiles[m])
      BY <1>13, <3>1, GoldenNames DEF WrittenInOrder
    <3>3. CASE n = k
      BY <1>5, <1>9, <1>10, <1>12, <1>14, <1>15, <2>4, <3>1, <3>3, GoldenNames
    <3>4. CASE n # k
      <4>1. n <= written["a"]
        BY <1>9, <1>10, <1>15, <2>4, <3>1, <3>4
      <4> QED
        BY <1>5, <1>12, <3>2, <3>4, <4>1, GoldenNames DEF WrittenInOrder
    <3> QED
      BY <3>3, <3>4
  <2> QED
    BY <2>1, <2>2, <2>3, <2>4 DEF WrittenInOrder
<1> QED
  BY <1>7, <1>8, <1>16

LEMMA NextGoldenInv == S!ScParameters /\ GoldenInv /\ [S!ScNext]_(S!scVars) => GoldenInv'
<1> SUFFICES ASSUME S!ScParameters, GoldenInv, [S!ScNext]_(S!scVars) PROVE GoldenInv'
  OBVIOUS
<1>1. CASE S!MovePin
  <2>1. /\ working = "nobody" /\ pin' \in 0..MaxPin
        /\ UNCHANGED <<ended, golden, written, working, madeAt>>
    BY <1>1 DEF S!MovePin
  <2>2. GoldenTypes' /\ InTurn'
    BY <2>1, GoldenNames DEF GoldenInv, GoldenTypes, InTurn
  <2>3. WrittenInOrder'
    BY <2>1 DEF GoldenInv, WrittenInOrder, Fresh, S!Opened
  <2> QED
    BY <2>2, <2>3 DEF GoldenInv
<1>2. CASE \E x \in S!Runs : \/ S!Begin(x) \/ S!RunReport(x) \/ S!RunEnd(x)
                             \/ S!OpenGolden(x) \/ S!CloseGolden(x) \/ S!Leave(x)
  BY <1>2, RunGoldenInv, WriteGoldenInv
<1>3. CASE UNCHANGED S!scVars
  BY <1>3 DEF S!scVars, S!Opened, Fresh, GoldenInv, GoldenTypes, InTurn, WrittenInOrder
<1> QED
  BY <1>1, <1>2, <1>3 DEF S!ScNext

\* The invariant of a process that executes `tcb selfcheck`.
GoldenPart == command = "selfcheck" => GoldenInv

LEMMA GoldenHolds == Spec => []GoldenPart
<1>1. Init => GoldenPart
  <2> SUFFICES ASSUME Init, command = "selfcheck" PROVE GoldenInv
    BY DEF GoldenPart
  <2> QED
    BY CommandAssumption, InitGoldenInv DEF Init
<1>2. GoldenPart /\ [Next]_tcbVars => GoldenPart'
  <2> SUFFICES ASSUME GoldenPart, [Next]_tcbVars, command' = "selfcheck" PROVE GoldenInv'
    BY DEF GoldenPart
  <2>1. command = "selfcheck"
    BY DEF Next, Timing, Pins, Infer, Juliet, SelfCheck, Table, tcbVars
  <2>2. S!ScNext \/ UNCHANGED checkVars
    BY <2>1 DEF Next, Timing, Pins, Infer, Juliet, SelfCheck, Table, tcbVars
  <2>3. UNCHANGED checkVars => UNCHANGED S!scVars
    BY DEF checkVars, S!scVars
  <2> QED
    BY <2>1, <2>2, <2>3, CommandAssumption, NextGoldenInv DEF GoldenPart
<1> QED
  BY <1>1, <1>2, PTL DEF Spec

\* When run() (selfcheck.py) may answer MISMATCH.
LEMMA MismatchMeans ==
  ASSUME NEW x, "mismatch" \in S!Answers(x)
  PROVE  /\ \A f \in S!Files : golden[f] # None
         /\ golden["golden.json"].pin = pin
         /\ golden["keys.csv"].whole /\ golden["per_check.csv"].whole =>
              ~(/\ S!Keys(x) = S!Keys(golden["keys.csv"].run)
                /\ S!PerCheck(x) = S!PerCheck(golden["per_check.csv"].run))
<1> DEFINE torn == \E f \in {"keys.csv", "per_check.csv"} : ~golden[f].whole
           same == /\ S!Keys(x) = S!Keys(golden["keys.csv"].run)
                   /\ S!PerCheck(x) = S!PerCheck(golden["per_check.csv"].run)
           none == golden["golden.json"] = None
           cut == (\E f \in S!Files : golden[f] = None) \/ ~golden["golden.json"].whole
           differ == golden["golden.json"].pin # pin
<1>1. S!Answers(x) = IF none THEN {"noGolden"} ELSE IF cut THEN {"raises"}
                     ELSE IF differ THEN IF torn THEN {"raises", "pinsDiffer"} ELSE {"pinsDiffer"}
                     ELSE IF torn THEN {"raises", "mismatch", "ok"}
                     ELSE IF same THEN {"ok"} ELSE {"mismatch"}
  BY Zenon DEF S!Answers
<1>2. "mismatch" \notin {"noGolden"} /\ "mismatch" \notin {"raises"} /\ "mismatch" \notin {"ok"}
      /\ "mismatch" \notin {"raises", "pinsDiffer"} /\ "mismatch" \notin {"pinsDiffer"}
  OBVIOUS
<1>3. ~cut /\ ~differ /\ (torn \/ ~same)
  <2> HIDE DEF torn, same, none, cut, differ
  <2> QED
    BY <1>1, <1>2
<1> QED
  BY <1>3, Zenon

\* What selfcheck.py calls a mismatch, with the golden.json of the last update,
\* is neither a change of pins nor a half-written file, whichever updates
\* died at whichever point and however the pins moved in between.
THEOREM DriftIsDrift == Spec => []MismatchIsDrift
<1>1. GoldenPart => MismatchIsDrift
  <2> SUFFICES ASSUME GoldenInv, NEW x \in S!Runs, S!Asking(x), "mismatch" \in S!Answers(x),
                      golden["golden.json"].run = S!LastUpdate,
                      NEW f \in {"keys.csv", "per_check.csv"}
               PROVE  golden[f] = [run |-> S!LastUpdate, pin |-> madeAt[x], whole |-> TRUE]
    BY DEF GoldenPart, MismatchIsDrift, S!MismatchIsDrift
  <2> DEFINE L == S!LastUpdate
  <2>1. /\ golden["golden.json"] # None /\ golden["golden.json"].pin = pin
        /\ pin = madeAt[x]
    BY MismatchMeans, GoldenNames DEF S!Asking
  <2>2. \/ L = "b"
        \/ L = "a" /\ \A n \in 1..4 : ~S!Opened("b", S!GoldenFiles[n])
    BY GoldenNames DEF S!LastUpdate
  <2>3. L \in S!Runs
    BY <2>2, GoldenNames
  <2>4. S!Opened(L, S!GoldenFiles[4])
    BY <2>1, GoldenNames DEF S!Opened
  <2> HIDE DEF L
  <2>5. 4 <= written[L] + 1 /\ golden["golden.json"].pin = madeAt[L] /\ written[L] \in 0..4
    BY <2>3, <2>4, GoldenNames DEF GoldenInv, GoldenTypes, WrittenInOrder
  <2>6. PICK n \in {1, 2} : f = S!GoldenFiles[n]
    BY GoldenNames
  <2>7. n \in 1..4 /\ n <= written[L]
    BY <2>5, <2>6
  <2>8. golden[f] = Fresh(L)
    BY <2>2, <2>6, <2>7 DEF GoldenInv, WrittenInOrder
  <2> QED
    BY <2>1, <2>5, <2>8 DEF Fresh, L
<1> QED
  BY <1>1, GoldenHolds, PTL
-----------------------------------------------------------------------------
(* From what an adapter reports to findings.jsonl.                         *)

\* FiniteSets in SelfCheck is FiniteSets.
LEMMA FindingCardinality == \A V : S!Cardinality(V) = Cardinality(V)
BY Zenon DEF S!Cardinality, Cardinality

Values(q) == {q[n] : n \in DOMAIN q}

\* _dedupe (run.py) keeps one record of each key, and invents none.
LEMMA DedupeKeepsOne ==
  ASSUME NEW q \in Seq(S!Record)
  PROVE  /\ \E c \in Nat : DOMAIN S!Dedupe(q) = 1..c
         /\ Values(S!Dedupe(q)) \subseteq Values(q)
         /\ \A r \in Values(q) : \E s \in Values(S!Dedupe(q)) : S!DedupeKey(s) = S!DedupeKey(r)
         /\ \A k, l \in DOMAIN S!Dedupe(q) :
              S!DedupeKey(S!Dedupe(q)[k]) = S!DedupeKey(S!Dedupe(q)[l]) => k = l
<1> DEFINE key(n) == S!DedupeKey(q[n])
           kept == {n \in DOMAIN q : \A m \in 1..(n - 1) : key(m) # key(n)}
           before(n) == S!Cardinality({m \in kept : m < n})
           nth(k) == CHOOSE n \in kept : before(n) = k - 1
           d == S!Dedupe(q)
<1>1. DOMAIN q = 1..Len(q) /\ Len(q) \in Nat /\ kept \subseteq 1..Len(q)
  OBVIOUS
<1>2. IsFiniteSet(kept) /\ kept \in SUBSET Nat /\ Cardinality(kept) \in Nat
  <2>1. 1 \in Int /\ Len(q) \in Int
    BY <1>1
  <2>2. IsFiniteSet(1..Len(q))
    BY <2>1, FS_Interval
  <2> QED
    BY <1>1, <2>2, FS_Subset, FS_CardinalityType
<1>3. d = [k \in 1..Cardinality(kept) |-> q[nth(k)]]
  <2>1. d = [k \in 1..S!Cardinality(kept) |-> q[nth(k)]]
    BY DEF S!Dedupe
  <2>2. S!Cardinality(kept) = Cardinality(kept)
    BY FindingCardinality, Zenon
  <2> QED
    BY <2>1, <2>2, Zenon
<1>4. \A m, n \in kept : key(m) = key(n) => m = n
  <2> SUFFICES ASSUME NEW m \in kept, NEW n \in kept, key(m) = key(n), m < n PROVE FALSE
    BY <1>2
  <2>1. m \in 1..(n - 1)
    BY <1>1
  <2> QED
    BY <2>1
<1>5. \A n \in DOMAIN q : \E m \in kept : key(m) = key(n)
  <2> SUFFICES ASSUME NEW n \in DOMAIN q PROVE \E m \in kept : key(m) = key(n)
    OBVIOUS
  <2> DEFINE same == {m \in DOMAIN q : key(m) = key(n)}
  <2>1. same \in SUBSET Nat /\ IsFiniteSet(same) /\ same # {}
    <3>1. 1 \in Int /\ Len(q) \in Int
      BY <1>1
    <3>2. IsFiniteSet(1..Len(q))
      BY <3>1, FS_Interval
    <3> QED
      BY <1>1, <3>2, FS_Subset
  <2> HIDE DEF key
  <2>2. PICK m \in same : \A l \in same : m <= l
    <3> HIDE DEF same
    <3> QED
      BY <2>1, NatRanks
  <2>3. \A l \in 1..(m - 1) : key(l) # key(m)
    <3> SUFFICES ASSUME NEW l \in 1..(m - 1), key(l) = key(m) PROVE FALSE
      OBVIOUS
    <3>1. l \in same /\ l < m
      BY <1>1, <2>1
    <3> QED
      BY <1>1, <2>1, <2>2, <3>1
  <2> QED
    BY <2>2, <2>3
<1> HIDE DEF key, kept, d
<1>6. /\ \A m, n \in kept : before(m) = before(n) => m = n
      /\ \A k \in 1..Cardinality(kept) : \E n \in kept : before(n) = k - 1
      /\ \A n \in kept : before(n) + 1 \in 1..Cardinality(kept) /\ before(n) \in Nat
  <2>1. \A n : before(n) = Cardinality({m \in kept : m < n})
    BY FindingCardinality, Zenon
  <2>2. \A n \in kept : before(n) \in Nat
    <3> SUFFICES ASSUME NEW n \in kept PROVE Cardinality({m \in kept : m < n}) \in Nat
      BY <2>1
    <3>1. {m \in kept : m < n} \in SUBSET kept
      OBVIOUS
    <3>2. IsFiniteSet({m \in kept : m < n})
      BY <1>2, <3>1, FS_Subset
    <3> QED
      BY <3>2, FS_CardinalityType
  <2> HIDE DEF before
  <2>3. \A m, n \in kept : before(m) = before(n) => m = n
    <3> SUFFICES ASSUME NEW m \in kept, NEW n \in kept, before(m) = before(n) PROVE m = n
      OBVIOUS
    <3>1. Cardinality({i \in kept : i < m}) = Cardinality({i \in kept : i < n})
      BY <2>1, Zenon
    <3> QED
      BY <1>2, <3>1, NatRanks
  <2>4. \A k \in 1..Cardinality(kept) : \E n \in kept : before(n) = k - 1
    <3> SUFFICES ASSUME NEW k \in 1..Cardinality(kept)
                 PROVE  \E n \in kept : before(n) = k - 1
      OBVIOUS
    <3>1. PICK n \in kept : Cardinality({i \in kept : i < n}) = k - 1
      BY <1>2, NatReached, Zenon
    <3> QED
      BY <2>1, <3>1
  <2>5. \A n \in kept : before(n) + 1 \in 1..Cardinality(kept)
    BY <1>2, <2>1, NatRanks
  <2> QED
    BY <2>2, <2>3, <2>4, <2>5
<1> HIDE DEF before
<1>7. /\ \A k \in 1..Cardinality(kept) : nth(k) \in kept /\ before(nth(k)) = k - 1
      /\ \A n \in kept : nth(before(n) + 1) = n
  <2>1. \A k \in 1..Cardinality(kept) : nth(k) \in kept /\ before(nth(k)) = k - 1
    BY <1>6
  <2>2. ASSUME NEW n \in kept PROVE nth(before(n) + 1) = n
    <3> HIDE DEF nth
    <3>1. before(n) \in Nat /\ before(n) + 1 \in 1..Cardinality(kept)
      BY <1>6
    <3>2. nth(before(n) + 1) \in kept /\ before(nth(before(n) + 1)) = before(n)
      BY <2>1, <3>1
    <3> QED
      BY <1>6, <3>2
  <2> QED
    BY <2>1, <2>2
<1> HIDE DEF nth
<1>8. DOMAIN d = 1..Cardinality(kept) /\ \A k \in DOMAIN d : d[k] = q[nth(k)]
  BY <1>3
<1>9. kept \subseteq DOMAIN q
  BY DEF kept
<1>10. Values(d) \subseteq Values(q)
  BY <1>7, <1>8, <1>9 DEF Values
<1>11. \A r \in Values(q) : \E s \in Values(d) : S!DedupeKey(s) = S!DedupeKey(r)
  <2> SUFFICES ASSUME NEW n \in DOMAIN q
               PROVE  \E s \in Values(d) : S!DedupeKey(s) = S!DedupeKey(q[n])
    BY DEF Values
  <2>1. PICK m \in kept : key(m) = key(n)
    BY <1>5
  <2>2. q[m] \in Values(d)
    BY <1>6, <1>7, <1>8 DEF Values
  <2> QED
    BY <2>1, <2>2 DEF key
<1>12. \A k, l \in DOMAIN d : S!DedupeKey(d[k]) = S!DedupeKey(d[l]) => k = l
  <2> SUFFICES ASSUME NEW k \in DOMAIN d, NEW l \in DOMAIN d, S!DedupeKey(d[k]) = S!DedupeKey(d[l])
               PROVE  k = l
    OBVIOUS
  <2>1. nth(k) = nth(l)
    BY <1>4, <1>7, <1>8 DEF key
  <2>2. k - 1 = l - 1 /\ k \in Nat /\ l \in Nat
    BY <1>2, <1>7, <1>8, <2>1
  <2> QED
    BY <2>2
<1> QED
  BY <1>2, <1>8, <1>10, <1>11, <1>12 DEF d

\* SORT_KEY as a set of pairs.
SortOrder == {p \in S!Record \X S!Record : S!Before(p[1], p[2])}

\* Of records of different keys one comes before the other, so the sort
\* cannot show in which order they came: a record's place in the file is its
\* rank.
LEMMA FileIsRanked ==
  ASSUME S!ScParameters, NEW x \in S!Runs, raw[x] \in Seq(S!Record)
  PROVE  /\ IsFiniteSet(Values(S!Dedupe(raw[x])))
         /\ TotalOn(Values(S!Dedupe(raw[x])), SortOrder)
         /\ DOMAIN S!FindingsFile(x) = 1..Cardinality(Values(S!Dedupe(raw[x])))
         /\ \A k \in DOMAIN S!FindingsFile(x) :
              /\ S!FindingsFile(x)[k] \in Values(S!Dedupe(raw[x]))
              /\ Rank(Values(S!Dedupe(raw[x])), SortOrder, S!FindingsFile(x)[k]) = k
<1> DEFINE d == S!Dedupe(raw[x])
           V == Values(d)
           N == DOMAIN d
           f == S!FindingsFile(x)
           Q == {p \in N \X N : S!Before(d[p[1]], d[p[2]])}
           earlier(n) == {m \in N : \/ S!Before(d[m], d[n])
                                    \/ (m < n /\ ~S!Before(d[n], d[m]))}
           place(n) == 1 + S!Cardinality(earlier(n))
           at(k) == CHOOSE n \in N : place(n) = k
<1>1. /\ \E c \in Nat : N = 1..c
      /\ V \subseteq S!Record
      /\ \A k, l \in N : S!DedupeKey(d[k]) = S!DedupeKey(d[l]) => k = l
  <2>1. Values(raw[x]) \subseteq S!Record
    BY DEF Values
  <2> QED
    BY <2>1, DedupeKeepsOne
<1>2. f = [k \in N |-> d[at(k)]]
  BY DEF S!FindingsFile
<1> HIDE DEF d, f
<1>3. \A n \in N : d[n] \in S!Record /\ d[n] \in V
  BY <1>1 DEF Values
<1>4. PICK c \in Nat : N = 1..c
  BY <1>1
<1>5. IsFiniteSet(N) /\ Cardinality(N) = c
  <2>1. 1 \in Int /\ c \in Int
    BY <1>4
  <2>2. IsFiniteSet(1..c) /\ Cardinality(1..c) = IF 1 > c THEN 0 ELSE c - 1 + 1
    BY <2>1, FS_Interval
  <2>3. Cardinality(1..c) = c
    BY <1>4, <2>2
  <2> QED
    BY <1>4, <2>2, <2>3
<1>6. /\ \A r \in S!Record : ~S!Before(r, r)
      /\ \A r, s, t \in S!Record : S!Before(r, s) /\ S!Before(s, t) => S!Before(r, t)
      /\ \A r, s \in S!Record : \/ S!DedupeKey(r) = S!DedupeKey(s)
                                \/ S!Before(r, s) \/ S!Before(s, r)
  <2>1. \A r \in S!Record : r.line \in Nat /\ r.column \in Nat /\ r.check \in Nat
    BY DEF S!Record, S!ScParameters
  <2>2. \A r \in S!Record : ~S!Before(r, r)
    BY <2>1 DEF S!Before
  <2>3. ASSUME NEW r \in S!Record, NEW s \in S!Record, NEW t \in S!Record,
               S!Before(r, s), S!Before(s, t)
        PROVE  S!Before(r, t)
    <3>1. /\ r.line \in Nat /\ r.column \in Nat /\ r.check \in Nat
          /\ s.line \in Nat /\ s.column \in Nat /\ s.check \in Nat
          /\ t.line \in Nat /\ t.column \in Nat /\ t.check \in Nat
      BY <2>1
    <3>2. CASE r.line < s.line
      <4>1. s.line <= t.line
        BY <2>3, <3>1 DEF S!Before
      <4> QED
        BY <3>1, <3>2, <4>1 DEF S!Before
    <3>3. CASE r.line = s.line /\ s.line < t.line
      BY <3>3 DEF S!Before
    <3>4. CASE r.line = s.line /\ s.line = t.line
      <4>1. /\ r.column < s.column \/ (r.column = s.column /\ r.check < s.check)
            /\ s.column < t.column \/ (s.column = t.column /\ s.check < t.check)
        BY <2>3, <3>1, <3>4 DEF S!Before
      <4>2. r.column < t.column \/ (r.column = t.column /\ r.check < t.check)
        BY <3>1, <4>1
      <4> QED
        BY <3>4, <4>2 DEF S!Before
    <3> QED
      BY <2>3, <3>1, <3>2, <3>3, <3>4 DEF S!Before
  <2>4. ASSUME NEW r \in S!Record, NEW s \in S!Record
        PROVE  S!DedupeKey(r) = S!DedupeKey(s) \/ S!Before(r, s) \/ S!Before(s, r)
    <3>1. /\ r.line \in Nat /\ r.column \in Nat /\ r.check \in Nat
          /\ s.line \in Nat /\ s.column \in Nat /\ s.check \in Nat
      BY <2>1
    <3> QED
      BY <3>1 DEF S!Before, S!DedupeKey
  <2> QED
    BY <2>2, <2>3, <2>4
<1> HIDE DEF N
<1>7. TotalOn(N, Q)
  <2>1. \A m, n \in N : <<m, n>> \in Q <=> S!Before(d[m], d[n])
    OBVIOUS
  <2> HIDE DEF Q
  <2>2. \A m, n \in N : m = n \/ <<m, n>> \in Q \/ <<n, m>> \in Q
    <3> SUFFICES ASSUME NEW m \in N, NEW n \in N, ~(m = n)
                 PROVE  <<m, n>> \in Q \/ <<n, m>> \in Q
      BY Zenon
    <3>1. S!DedupeKey(d[m]) # S!DedupeKey(d[n])
      BY <1>1
    <3>2. S!Before(d[m], d[n]) \/ S!Before(d[n], d[m])
      BY <1>3, <1>6, <3>1
    <3> QED
      BY <2>1, <3>2
  <2>3. \A m \in N : <<m, m>> \notin Q
    BY <1>3, <1>6, <2>1
  <2>4. \A l, m, n \in N : <<l, m>> \in Q /\ <<m, n>> \in Q => <<l, n>> \in Q
    BY <1>3, <1>6, <2>1
  <2> QED
    BY <2>2, <2>3, <2>4 DEF TotalOn
<1>8. \A n \in N : place(n) = Rank(N, Q, n)
  <2> SUFFICES ASSUME NEW n \in N PROVE place(n) = Rank(N, Q, n)
    OBVIOUS
  <2>1. ASSUME NEW m \in N
        PROVE  S!Before(d[m], d[n]) \/ (m < n /\ ~S!Before(d[n], d[m])) <=> S!Before(d[m], d[n])
    BY <1>1, <1>3, <1>4, <1>6
  <2>2. earlier(n) = Below(N, Q, n)
    BY <2>1 DEF Below
  <2> HIDE DEF earlier
  <2>3. S!Cardinality(earlier(n)) = Cardinality(Below(N, Q, n))
    BY <2>2, FindingCardinality, Zenon
  <2> QED
    BY <2>3, Zenon DEF Rank
<1>9. \A k \in N : at(k) \in N /\ Rank(N, Q, at(k)) = k
  <2> HIDE DEF place, Q
  <2> SUFFICES ASSUME NEW k \in N PROVE at(k) \in N /\ Rank(N, Q, at(k)) = k
    OBVIOUS
  <2>1. k \in 1..Cardinality(N)
    BY <1>4, <1>5
  <2>2. \E n \in N : Rank(N, Q, n) = k
    BY <1>5, <1>7, <2>1, RankReached, Zenon
  <2> QED
    BY <1>8, <2>2
<1> HIDE DEF at
<1> DEFINE g == [n \in N |-> d[n]]
<1>10. /\ g \in [N -> V] /\ \A m, n \in N : g[m] = g[n] => m = n
       /\ \A v \in V : \E n \in N : g[n] = v
       /\ \A m, n \in N : <<m, n>> \in Q <=> <<g[m], g[n]>> \in SortOrder
  <2>1. g \in [N -> V]
    BY <1>3
  <2>2. \A m, n \in N : g[m] = g[n] => m = n
    BY <1>1
  <2>3. \A v \in V : \E n \in N : g[n] = v
    BY DEF Values, N
  <2>4. \A m, n \in N : <<m, n>> \in Q <=> <<g[m], g[n]>> \in SortOrder
    BY <1>3 DEF SortOrder
  <2> QED
    BY <2>1, <2>2, <2>3, <2>4
<1>11. \A n \in N : g[n] = d[n]
  OBVIOUS
<1> HIDE DEF g, Q, V
<1>12. /\ IsFiniteSet(V) /\ Cardinality(V) = Cardinality(N) /\ TotalOn(V, SortOrder)
       /\ \A n \in N : Rank(V, SortOrder, g[n]) = Rank(N, Q, n)
  <2>1. IsFiniteSet(N)
    BY <1>5
  <2> QED
    BY <1>7, <1>10, <2>1, SameRanks, SMTT(30)
<1>13. DOMAIN f = 1..Cardinality(V)
  BY <1>2, <1>4, <1>5, <1>12
<1>14. \A k \in DOMAIN f : f[k] \in V /\ Rank(V, SortOrder, f[k]) = k
  <2> SUFFICES ASSUME NEW k \in N
               PROVE  f[k] \in V /\ Rank(V, SortOrder, f[k]) = k
    BY <1>2
  <2>1. f[k] = g[at(k)]
    BY <1>2, <1>9, <1>11
  <2>2. f[k] \in V
    BY <1>9, <1>10, <2>1
  <2>3. Rank(V, SortOrder, g[at(k)]) = Rank(N, Q, at(k))
    BY <1>9, <1>12
  <2>4. Rank(V, SortOrder, f[k]) = k
    BY <1>9, <2>1, <2>3, Zenon
  <2> QED
    BY <2>2, <2>4
<1> QED
  BY <1>12, <1>13, <1>14, Zenon DEF V, d, f

\* The file holds what _dedupe kept, each record once, and of each reported
\* key one record.
LEMMA FileFacts ==
  ASSUME S!ScParameters, NEW x \in S!Runs, raw[x] \in Seq(S!Record)
  PROVE  /\ Values(S!FindingsFile(x)) \subseteq Values(raw[x])
         /\ \A r \in Values(raw[x]) : \E s \in Values(S!FindingsFile(x)) : S!DedupeKey(s) = S!DedupeKey(r)
         /\ \A r, s \in Values(S!FindingsFile(x)) : S!DedupeKey(r) = S!DedupeKey(s) => r = s
         /\ \A k, l \in DOMAIN S!FindingsFile(x) :
              S!FindingsFile(x)[k] = S!FindingsFile(x)[l] => k = l
         /\ Values(S!FindingsFile(x)) = Values(S!Dedupe(raw[x]))
<1> DEFINE d == S!Dedupe(raw[x])
           V == Values(d)
           f == S!FindingsFile(x)
<1>1. /\ V \subseteq Values(raw[x])
      /\ \A r \in Values(raw[x]) : \E s \in V : S!DedupeKey(s) = S!DedupeKey(r)
      /\ \A k, l \in DOMAIN d : S!DedupeKey(d[k]) = S!DedupeKey(d[l]) => k = l
  BY DedupeKeepsOne
<1>2. \A r, s \in V : S!DedupeKey(r) = S!DedupeKey(s) => r = s
  <2> HIDE DEF d
  <2> QED
    BY <1>1 DEF Values
<1>3. /\ IsFiniteSet(V) /\ TotalOn(V, SortOrder) /\ DOMAIN f = 1..Cardinality(V)
      /\ \A k \in DOMAIN f : f[k] \in V /\ Rank(V, SortOrder, f[k]) = k
  BY FileIsRanked
<1> HIDE DEF d, V, f
<1>4. Values(f) = V
  <2>1. Values(f) \subseteq V
    BY <1>3 DEF Values
  <2>2. ASSUME NEW v \in V PROVE v \in Values(f)
    <3>1. Rank(V, SortOrder, v) \in DOMAIN f
      BY <1>3, RankGrows
    <3>2. Rank(V, SortOrder, f[Rank(V, SortOrder, v)]) = Rank(V, SortOrder, v)
      BY <1>3, <3>1
    <3>3. f[Rank(V, SortOrder, v)] = v
      BY <1>3, <3>1, <3>2, RankNumbers
    <3> QED
      BY <3>1, <3>3 DEF Values
  <2> QED
    BY <2>1, <2>2
<1>5. \A k, l \in DOMAIN f : f[k] = f[l] => k = l
  <2> SUFFICES ASSUME NEW k \in DOMAIN f, NEW l \in DOMAIN f, f[k] = f[l] PROVE k = l
    OBVIOUS
  <2>1. Rank(V, SortOrder, f[k]) = k /\ Rank(V, SortOrder, f[l]) = l
    BY <1>3
  <2>2. Rank(V, SortOrder, f[k]) = Rank(V, SortOrder, f[l])
    BY Zenon
  <2> QED
    BY <2>1, <2>2
<1>6. /\ Values(f) \subseteq Values(raw[x])
      /\ \A r \in Values(raw[x]) : \E s \in Values(f) : S!DedupeKey(s) = S!DedupeKey(r)
      /\ \A r, s \in Values(f) : S!DedupeKey(r) = S!DedupeKey(s) => r = s
  BY <1>1, <1>2, <1>4
<1> QED
  BY <1>4, <1>5, <1>6 DEF f, V, d

\* Runs that report the same records report the same keys.
LEMMA SameValues ==
  ASSUME raw["a"] \in Seq(S!Record), raw["b"] \in Seq(S!Record), S!SameRecords
  PROVE  Values(raw["a"]) = Values(raw["b"])
<1>1. ASSUME NEW p \in {"a", "b"}, NEW q \in {"a", "b"}, NEW n \in DOMAIN raw[p]
      PROVE  raw[p][n] \in Values(raw[q])
  <2> DEFINE r == raw[p][n]
             here == {m \in DOMAIN raw[p] : raw[p][m] = r}
             there == {m \in DOMAIN raw[q] : raw[q][m] = r}
  <2>1. r \in S!Record
    OBVIOUS
  <2>2. S!Times(r, raw[p]) = S!Times(r, raw[q])
    BY <2>1 DEF S!SameRecords
  <2>3. Cardinality(here) = Cardinality(there)
    BY <2>2, FindingCardinality, Zenon DEF S!Times
  <2>4. IsFiniteSet(here) /\ here # {}
    <3>1. /\ here \in SUBSET (1..Len(raw[p])) /\ n \in here
          /\ 1 \in Int /\ Len(raw[p]) \in Int
      OBVIOUS
    <3>2. IsFiniteSet(1..Len(raw[p]))
      BY <3>1, FS_Interval
    <3> QED
      BY <3>1, <3>2, FS_Subset
  <2>5. there # {}
    <3> HIDE DEF here, there
    <3>1. Cardinality(here) # 0
      BY <2>4, FS_EmptySet
    <3>2. Cardinality({}) = 0
      BY FS_EmptySet
    <3>3. there = {} => Cardinality(there) = Cardinality({})
      BY Zenon
    <3> QED
      BY <2>3, <3>1, <3>2, <3>3
  <2> QED
    BY <2>5 DEF Values
<1> QED
  BY <1>1 DEF Values

RawInv == raw \in [S!Runs -> Seq(S!Record)] /\ ended \subseteq S!Runs

LEMMA NextRawInv == S!ScParameters /\ RawInv /\ [S!ScNext]_(S!scVars) => RawInv'
<1> SUFFICES ASSUME S!ScParameters, RawInv, [S!ScNext]_(S!scVars) PROVE RawInv'
  OBVIOUS
<1> USE DEF RawInv
<1>1. CASE UNCHANGED <<raw, ended>>
  BY <1>1
<1>2. ASSUME NEW x \in S!Runs, S!RunReport(x) PROVE RawInv'
  <2>1. PICK r \in Reported : raw' = [raw EXCEPT ![x] = Append(@, r)]
    BY <1>2 DEF S!RunReport, S!Report
  <2>2. ended' = ended /\ r \in S!Record
    BY <1>2 DEF S!RunReport, S!Report, S!ScParameters
  <2>3. Append(raw[x], r) \in Seq(S!Record)
    BY <2>2
  <2> QED
    BY <2>1, <2>2, <2>3
<1>3. ASSUME NEW x \in S!Runs, S!RunEnd(x) PROVE RawInv'
  BY <1>3 DEF S!RunEnd, S!End
<1>4. ASSUME NEW x \in S!Runs, S!Begin(x) \/ S!OpenGolden(x) \/ S!CloseGolden(x) \/ S!Leave(x)
      PROVE  UNCHANGED <<raw, ended>>
  BY <1>4 DEF S!Begin, S!OpenGolden, S!CloseGolden, S!Leave
<1>5. CASE S!MovePin
  BY <1>1, <1>5 DEF S!MovePin
<1> QED
  BY <1>1, <1>2, <1>3, <1>4, <1>5 DEF S!ScNext, S!scVars

\* The adapters of the two runs report records.
RawPart == command = "selfcheck" => RawInv

LEMMA RawHolds == Spec => []RawPart
<1>1. Init => RawPart
  <2> SUFFICES ASSUME Init, command = "selfcheck" PROVE RawInv
    BY DEF RawPart
  <2>1. raw = [x \in S!Runs |-> <<>>] /\ ended = {}
    BY DEF Init, S!ScInit, S!Init
  <2> QED
    BY <2>1 DEF RawInv
<1>2. RawPart /\ [Next]_tcbVars => RawPart'
  <2> SUFFICES ASSUME RawPart, [Next]_tcbVars, command' = "selfcheck" PROVE RawInv'
    BY DEF RawPart
  <2>1. command = "selfcheck"
    BY DEF Next, Timing, Pins, Infer, Juliet, SelfCheck, Table, tcbVars
  <2>2. S!ScNext \/ UNCHANGED checkVars
    BY <2>1 DEF Next, Timing, Pins, Infer, Juliet, SelfCheck, Table, tcbVars
  <2>3. UNCHANGED checkVars => UNCHANGED S!scVars
    BY DEF checkVars, S!scVars
  <2> QED
    BY <2>1, <2>2, <2>3, CommandAssumption, NextRawInv DEF RawPart
<1> QED
  BY <1>1, <1>2, PTL DEF Spec

\* findings.jsonl (run.py _dedupe, bundle.py finish) names each (line, column,
\* check) an adapter reported, and no other, and each once.
THEOREM FileNamesEachOnce == Spec => []FileIsExact
<1>1. RawPart => FileIsExact
  <2> SUFFICES ASSUME RawInv, NEW x \in ended
               PROVE  LET f == S!FindingsFile(x)
                          place(r) == <<r.line, r.column, r.check>>
                      IN /\ {place(f[n]) : n \in DOMAIN f} = {place(raw[x][n]) : n \in DOMAIN raw[x]}
                         /\ \A m, n \in DOMAIN f : m # n => place(f[m]) # place(f[n])
    BY DEF RawPart, FileIsExact, S!FileIsExact
  <2> DEFINE f == S!FindingsFile(x)
             place(r) == <<r.line, r.column, r.check>>
  <2>1. x \in S!Runs /\ raw[x] \in Seq(S!Record)
    BY DEF RawInv
  <2>2. \A r : place(r) = S!DedupeKey(r)
    BY DEF S!DedupeKey
  <2>3. S!ScParameters
    BY CommandAssumption
  <2>4. /\ Values(f) \subseteq Values(raw[x])
        /\ \A r \in Values(raw[x]) : \E s \in Values(f) : S!DedupeKey(s) = S!DedupeKey(r)
        /\ \A r, s \in Values(f) : S!DedupeKey(r) = S!DedupeKey(s) => r = s
        /\ \A k, l \in DOMAIN f : f[k] = f[l] => k = l
    BY <2>1, <2>3, FileFacts
  <2> HIDE DEF f, place
  <2>5. {place(f[n]) : n \in DOMAIN f} = {place(raw[x][n]) : n \in DOMAIN raw[x]}
    BY <2>2, <2>4 DEF Values
  <2>6. \A m, n \in DOMAIN f : m # n => place(f[m]) # place(f[n])
    BY <2>2, <2>4 DEF Values
  <2> QED
    BY <2>5, <2>6 DEF f, place
<1> QED
  BY <1>1, RawHolds, PTL

\* Two runs that report the same records in whatever order write the same
\* findings.jsonl, as long as a finding has one severity (reproducing.md,
\* bundle.py SORT_KEY).
THEOREM OrderIsForgotten == Spec => []OrderStaysOut
<1>1. RawPart => OrderStaysOut
  <2> SUFFICES ASSUME RawInv, S!SameRecords, S!SeverityIsFixed
               PROVE  S!FindingsFile("a") = S!FindingsFile("b")
    BY DEF RawPart, OrderStaysOut, S!OrderStaysOut
  <2> DEFINE fa == S!FindingsFile("a")   va == Values(S!Dedupe(raw["a"]))
             fb == S!FindingsFile("b")   vb == Values(S!Dedupe(raw["b"]))
  <2>1. /\ "a" \in S!Runs /\ raw["a"] \in Seq(S!Record)
        /\ "b" \in S!Runs /\ raw["b"] \in Seq(S!Record)
    BY GoldenNames DEF RawInv
  <2>2. S!ScParameters
    BY CommandAssumption
  <2>3. Values(raw["a"]) = Values(raw["b"])
    BY <2>1, SameValues
  <2>4. \A r, s \in Values(raw["a"]) : S!DedupeKey(r) = S!DedupeKey(s) => r = s
    BY <2>1 DEF S!SeverityIsFixed, Values
  <2>5. /\ va \subseteq Values(raw["a"])
        /\ \A r \in Values(raw["a"]) : \E s \in va : S!DedupeKey(s) = S!DedupeKey(r)
        /\ vb \subseteq Values(raw["b"])
        /\ \A r \in Values(raw["b"]) : \E s \in vb : S!DedupeKey(s) = S!DedupeKey(r)
    BY <2>1, DedupeKeepsOne
  <2>6. /\ IsFiniteSet(va) /\ TotalOn(va, SortOrder) /\ DOMAIN fa = 1..Cardinality(va)
        /\ \A k \in DOMAIN fa : fa[k] \in va /\ Rank(va, SortOrder, fa[k]) = k
    BY <2>1, <2>2, FileIsRanked
  <2>7. /\ DOMAIN fb = 1..Cardinality(vb)
        /\ \A k \in DOMAIN fb : fb[k] \in vb /\ Rank(vb, SortOrder, fb[k]) = k
    BY <2>1, <2>2, FileIsRanked
  <2>8. fa = [k \in DOMAIN fa |-> fa[k]] /\ fb = [k \in DOMAIN fb |-> fb[k]]
    BY DEF S!FindingsFile
  <2> HIDE DEF fa, fb, va, vb
  <2>9. va = vb
    BY <2>3, <2>4, <2>5
  <2>10. DOMAIN fb = DOMAIN fa
    BY <2>6, <2>7, <2>9, Zenon
  <2>11. ASSUME NEW k \in DOMAIN fa PROVE fa[k] = fb[k]
    <3>1. fa[k] \in va /\ Rank(va, SortOrder, fa[k]) = k
      BY <2>6
    <3>2. fb[k] \in va /\ Rank(va, SortOrder, fb[k]) = k
      BY <2>7, <2>9, <2>10, Zenon
    <3> QED
      BY <2>6, <3>1, <3>2, RankNumbers
  <2> QED
    BY <2>8, <2>10, <2>11 DEF fa, fb
<1> QED
  BY <1>1, RawHolds, PTL

\* Equal reports have equal keys and equal counts by check and section.
LEMMA SameArtifacts ==
  ASSUME S!ScParameters, RawInv, S!SameRecords, NEW x \in S!Runs, NEW y \in S!Runs
  PROVE  S!Keys(x) = S!Keys(y) /\ S!PerCheck(x) = S!PerCheck(y)
<1> DEFINE fx == Values(S!FindingsFile(x))
           fy == Values(S!FindingsFile(y))
<1>1. raw[x] \in Seq(S!Record) /\ raw[y] \in Seq(S!Record)
  BY DEF RawInv
<1>2. Values(raw[x]) = Values(raw[y])
  BY <1>1, GoldenNames, SameValues
<1>3. S!FindingOf(x) = fx /\ S!FindingOf(y) = fy
  BY DEF S!FindingOf, Values
<1>4. /\ fx \subseteq Values(raw[x]) /\ fy \subseteq Values(raw[y])
      /\ \A r \in Values(raw[x]) : \E s \in fx : S!DedupeKey(s) = S!DedupeKey(r)
      /\ \A r \in Values(raw[y]) : \E s \in fy : S!DedupeKey(s) = S!DedupeKey(r)
      /\ \A r, s \in fx : S!DedupeKey(r) = S!DedupeKey(s) => r = s
      /\ \A r, s \in fy : S!DedupeKey(r) = S!DedupeKey(s) => r = s
  BY <1>1, FileFacts
<1>5. IsFiniteSet(fx) /\ IsFiniteSet(fy)
  <2>1. fx = Values(S!Dedupe(raw[x])) /\ fy = Values(S!Dedupe(raw[y]))
    BY <1>1, FileFacts
  <2>2. IsFiniteSet(Values(S!Dedupe(raw[x]))) /\ IsFiniteSet(Values(S!Dedupe(raw[y])))
    BY <1>1, FileIsRanked
  <2> QED
    BY <2>1, <2>2, Zenon
<1> HIDE DEF fx, fy
<1>6. /\ \A r \in fx : \E s \in fy : S!DedupeKey(s) = S!DedupeKey(r)
      /\ \A r \in fy : \E s \in fx : S!DedupeKey(s) = S!DedupeKey(r)
  BY <1>2, <1>4
<1>7. \A r, s : S!DedupeKey(r) = S!DedupeKey(s) => r.line = s.line /\ r.check = s.check
  BY DEF S!DedupeKey
<1>8. S!Keys(x) = S!Keys(y)
  BY <1>3, <1>6, <1>7 DEF S!Keys
<1>9. ASSUME NEW p
      PROVE  Cardinality({r \in fx : r.check = p[1] /\ SectionOf[r.line] = p[2]})
             = Cardinality({r \in fy : r.check = p[1] /\ SectionOf[r.line] = p[2]})
  <2> DEFINE Ax == {r \in fx : r.check = p[1] /\ SectionOf[r.line] = p[2]}
             Ay == {r \in fy : r.check = p[1] /\ SectionOf[r.line] = p[2]}
             g == [r \in Ax |-> CHOOSE s \in fy : S!DedupeKey(s) = S!DedupeKey(r)]
  <2>1. IsFiniteSet(Ax)
    <3>1. Ax \in SUBSET fx
      OBVIOUS
    <3> QED
      BY <1>5, <3>1, FS_Subset
  <2>2. \A r \in Ax : g[r] \in fy /\ S!DedupeKey(g[r]) = S!DedupeKey(r)
    BY <1>6
  <2>3. g \in [Ax -> Ay]
    BY <1>7, <2>2
  <2>4. \A r, s \in Ax : g[r] = g[s] => r = s
    <3> HIDE DEF g
    <3> QED
      BY <1>4, <2>2
  <2>5. \A s \in Ay : \E r \in Ax : g[r] = s
    <3> SUFFICES ASSUME NEW s \in Ay PROVE \E r \in Ax : g[r] = s
      OBVIOUS
    <3>1. PICK r \in fx : S!DedupeKey(r) = S!DedupeKey(s)
      BY <1>6
    <3>2. r \in Ax
      BY <1>7, <3>1
    <3> HIDE DEF g
    <3> QED
      BY <1>4, <2>2, <3>1, <3>2
  <2> HIDE DEF g, Ax, Ay
  <2>6. Cardinality(Ay) = Cardinality(Ax)
    BY <2>1, <2>3, <2>4, <2>5, SameSize
  <2> QED
    BY <2>6 DEF Ax, Ay
<1>10. S!PerCheck(x) = S!PerCheck(y)
  <2> DEFINE Ps == Checks \X {SectionOf[l] : l \in Lines}
             cx(p) == S!Cardinality({r \in fx : r.check = p[1] /\ SectionOf[r.line] = p[2]})
             cy(p) == S!Cardinality({r \in fy : r.check = p[1] /\ SectionOf[r.line] = p[2]})
  <2>1. S!PerCheck(x) = [p \in Ps |-> cx(p)] /\ S!PerCheck(y) = [p \in Ps |-> cy(p)]
    BY <1>3, Zenon DEF S!PerCheck
  <2>2. ASSUME NEW p PROVE cx(p) = cy(p)
    BY <1>9, FindingCardinality, Zenon
  <2> HIDE DEF cx, cy, Ps
  <2> QED
    BY <2>1, <2>2
<1> QED
  BY <1>8, <1>10

\* Runs that report the same records are not called drift (selfcheck.py run),
\* in whatever order they report and whichever update left a file, as long as
\* no file was left half-written.
THEOREM EqualRunsAgree == Spec => []NoFalseAlarm
<1>1. RawPart /\ GoldenPart => NoFalseAlarm
  <2> SUFFICES ASSUME RawInv, GoldenInv, S!SameRecords,
                      \A f \in S!Files : golden[f] # None => golden[f].whole,
                      NEW x \in S!Runs, "mismatch" \in S!Answers(x)
               PROVE  FALSE
    BY DEF RawPart, GoldenPart, NoFalseAlarm, S!NoFalseAlarm
  <2>1. \A f \in S!Files : golden[f] # None /\ golden[f].whole
    BY MismatchMeans
  <2>2. ~(/\ S!Keys(x) = S!Keys(golden["keys.csv"].run)
          /\ S!PerCheck(x) = S!PerCheck(golden["per_check.csv"].run))
    BY <2>1, MismatchMeans, GoldenNames
  <2>3. \A f \in S!Files : golden[f] \in S!Golden
    BY <2>1 DEF GoldenInv, GoldenTypes
  <2>4. golden["keys.csv"].run \in S!Runs /\ golden["per_check.csv"].run \in S!Runs
    BY <2>3, GoldenNames DEF S!Golden
  <2> QED
    BY <2>2, <2>4, CommandAssumption, SameArtifacts, Zenon
<1> QED
  BY <1>1, RawHolds, GoldenHolds, PTL

-----------------------------------------------------------------------------
(* `tcb run realworld --tool infer`.                                       *)

\* FiniteSets in Infer is FiniteSets.
LEMMA InferCardinality == \A V : I!Cardinality(V) = Cardinality(V)
BY Zenon DEF I!Cardinality, Cardinality

\* The .c files in scope that a database names.
WantedIn(es) == {es[n].source : n \in {m \in DOMAIN es : es[m].dotC /\ es[m].source \in InScope}}

\* filtered (compile_db.py) keeps one entry of each .c file in scope.
LEMMA KeptOncePerFile ==
  ASSUME NEW es \in Seq(I!Entry)
  PROVE  /\ IsFiniteSet(I!Kept(es)) /\ I!Kept(es) \subseteq DOMAIN es
         /\ Cardinality(I!Kept(es)) \in 0..Len(es)
         /\ \A m, n \in I!Kept(es) : es[m].source = es[n].source => m = n
         /\ {es[n].source : n \in I!Kept(es)} = WantedIn(es)
<1> DEFINE K == I!Kept(es)
           eligible == {n \in DOMAIN es : es[n].dotC /\ es[n].source \in InScope}
<1>1. DOMAIN es = 1..Len(es) /\ Len(es) \in Nat
  OBVIOUS
<1>2. IsFiniteSet(1..Len(es)) /\ Cardinality(1..Len(es)) = Len(es)
  <2>1. 1 \in Int /\ Len(es) \in Int
    BY <1>1
  <2>2. IsFiniteSet(1..Len(es)) /\ Cardinality(1..Len(es)) = IF 1 > Len(es) THEN 0 ELSE Len(es) - 1 + 1
    BY <2>1, FS_Interval
  <2> QED
    BY <1>1, <2>2
<1>3. K = {n \in eligible : \A m \in eligible : es[m].source = es[n].source => n <= m}
  BY DEF I!Kept
<1>4. K \in SUBSET (1..Len(es))
  BY <1>1, <1>3
<1>5. IsFiniteSet(K) /\ Cardinality(K) <= Len(es) /\ Cardinality(K) \in Nat
  BY <1>2, <1>4, FS_Subset, FS_CardinalityType
<1>6. \A m, n \in K : es[m].source = es[n].source => m = n
  BY <1>1, <1>3
<1>7. ASSUME NEW n \in eligible PROVE \E m \in K : es[m].source = es[n].source
  <2> DEFINE same == {m \in eligible : es[m].source = es[n].source}
  <2>1. same \in SUBSET (1..Len(es)) /\ same \in SUBSET Nat /\ n \in same
    BY <1>1
  <2>2. IsFiniteSet(same)
    BY <1>2, <2>1, FS_Subset
  <2>3. PICK m \in same : \A l \in same : m <= l
    <3> HIDE DEF same
    <3> QED
      BY <2>1, <2>2, NatRanks
  <2>4. m \in K
    BY <1>3, <2>3
  <2> QED
    BY <2>3, <2>4
<1>8. {es[n].source : n \in K} = WantedIn(es)
  <2>1. K \subseteq eligible
    BY <1>3
  <2>2. WantedIn(es) = {es[n].source : n \in eligible}
    BY DEF WantedIn
  <2> HIDE DEF K, eligible
  <2> QED
    BY <1>7, <2>1, <2>2
<1>9. K \subseteq DOMAIN es
  BY <1>3
<1> QED
  BY <1>1, <1>5, <1>6, <1>8, <1>9

\* The entries of the filtered database are those kept, each once.
LEMMA FilteredIsKept ==
  ASSUME I!Parameters, NEW es \in Seq(I!Entry)
  PROVE  /\ I!Filtered(es) \in Seq(Nat)
         /\ Len(I!Filtered(es)) = Cardinality(I!Kept(es))
         /\ Values(I!Filtered(es)) = I!Kept(es)
<1> DEFINE K == I!Kept(es)
           Q == {p \in K \X K : es[p[1]].source < es[p[2]].source}
           before(n) == {m \in K : es[m].source < es[n].source}
           nth(k) == CHOOSE n \in K : I!Cardinality(before(n)) = k - 1
           u == I!Filtered(es)
<1>1. /\ IsFiniteSet(K) /\ K \subseteq DOMAIN es /\ Cardinality(K) \in Nat
      /\ \A m, n \in K : es[m].source = es[n].source => m = n
  BY KeptOncePerFile
<1>2. u = [k \in 1..Cardinality(K) |-> nth(k)]
  <2>1. u = [k \in 1..I!Cardinality(K) |-> nth(k)]
    BY DEF I!Filtered
  <2>2. I!Cardinality(K) = Cardinality(K)
    BY InferCardinality, Zenon
  <2> QED
    BY <2>1, <2>2, Zenon
<1>3. \A n \in K : es[n].source \in Nat /\ n \in Nat
  <2> SUFFICES ASSUME NEW n \in K PROVE es[n].source \in Nat /\ n \in Nat
    OBVIOUS
  <2>1. n \in Nat /\ es[n] \in I!Entry
    BY <1>1
  <2> QED
    BY <2>1 DEF I!Parameters, I!Entry
<1> HIDE DEF K, u
<1>4. TotalOn(K, Q)
  <2>1. \A m, n \in K : <<m, n>> \in Q <=> es[m].source < es[n].source
    OBVIOUS
  <2> HIDE DEF Q
  <2>2. ASSUME NEW m \in K, NEW n \in K PROVE m = n \/ <<m, n>> \in Q \/ <<n, m>> \in Q
    <3>1. es[m].source \in Nat /\ es[n].source \in Nat
      BY <1>3
    <3>2. es[m].source = es[n].source \/ es[m].source < es[n].source \/ es[n].source < es[m].source
      BY <3>1
    <3> QED
      BY <1>1, <2>1, <3>2
  <2>3. \A m \in K : <<m, m>> \notin Q
    BY <1>3, <2>1
  <2>4. ASSUME NEW l \in K, NEW m \in K, NEW n \in K, <<l, m>> \in Q, <<m, n>> \in Q
        PROVE  <<l, n>> \in Q
    <3>1. es[l].source \in Nat /\ es[m].source \in Nat /\ es[n].source \in Nat
      BY <1>3
    <3>2. es[l].source < es[m].source /\ es[m].source < es[n].source
      BY <2>1, <2>4
    <3> QED
      BY <2>1, <3>1, <3>2
  <2> QED
    BY <2>2, <2>3, <2>4 DEF TotalOn
<1>5. \A n \in K : /\ I!Cardinality(before(n)) \in Nat
                   /\ Rank(K, Q, n) = 1 + I!Cardinality(before(n))
  <2> SUFFICES ASSUME NEW n \in K
               PROVE  /\ I!Cardinality(before(n)) \in Nat
                      /\ Rank(K, Q, n) = 1 + I!Cardinality(before(n))
    OBVIOUS
  <2>1. before(n) = Below(K, Q, n) /\ before(n) \in SUBSET K
    BY DEF Below
  <2>2. IsFiniteSet(before(n))
    BY <1>1, <2>1, FS_Subset
  <2> HIDE DEF before
  <2>3. I!Cardinality(before(n)) = Cardinality(before(n))
    BY InferCardinality, Zenon
  <2>4. Cardinality(before(n)) = Cardinality(Below(K, Q, n))
    BY <2>1, Zenon
  <2>5. Cardinality(before(n)) \in Nat
    BY <2>2, FS_CardinalityType
  <2>6. Rank(K, Q, n) = 1 + Cardinality(before(n))
    BY <2>4, Zenon DEF Rank
  <2> QED
    BY <2>3, <2>5, <2>6
<1> HIDE DEF Q
<1>6. \A k \in 1..Cardinality(K) : nth(k) \in K /\ Rank(K, Q, nth(k)) = k
  <2> HIDE DEF before
  <2> SUFFICES ASSUME NEW k \in 1..Cardinality(K) PROVE nth(k) \in K /\ Rank(K, Q, nth(k)) = k
    OBVIOUS
  <2>1. PICK n \in K : Rank(K, Q, n) = k
    BY <1>1, <1>4, RankReached, Zenon
  <2>2. I!Cardinality(before(n)) = k - 1
    BY <1>5, <2>1
  <2>3. nth(k) \in K /\ I!Cardinality(before(nth(k))) = k - 1
    BY <2>2
  <2> QED
    BY <1>1, <1>5, <2>3
<1> HIDE DEF nth
<1>7. u \in Seq(Nat) /\ Len(u) = Cardinality(K) /\ DOMAIN u = 1..Cardinality(K)
  <2>1. \A k \in 1..Cardinality(K) : nth(k) \in Nat
    BY <1>3, <1>6
  <2> QED
    BY <1>1, <1>2, <2>1
<1>8. Values(u) = K
  <2>1. Values(u) \subseteq K
    BY <1>2, <1>6 DEF Values
  <2>2. ASSUME NEW n \in K PROVE n \in Values(u)
    <3>1. Rank(K, Q, n) \in 1..Cardinality(K)
      BY <1>1, <1>4, RankGrows
    <3>2. u[Rank(K, Q, n)] \in K /\ Rank(K, Q, u[Rank(K, Q, n)]) = Rank(K, Q, n)
      BY <1>2, <1>6, <3>1
    <3>3. u[Rank(K, Q, n)] = n
      BY <1>1, <1>4, <3>2, RankNumbers
    <3> QED
      BY <1>7, <3>1, <3>3 DEF Values
  <2> QED
    BY <2>1, <2>2
<1> QED
  BY <1>7, <1>8 DEF u, K

\* The units that are handed to Infer are of the files that are wanted.
LEMMA UnitsAreWanted ==
  ASSUME I!Parameters, db.entries \in Seq(I!Entry), units = I!Filtered(db.entries)
  PROVE  /\ I!UnitFiles = WantedIn(db.entries) /\ I!UnitFiles \subseteq Sources
         /\ IsFiniteSet(I!UnitFiles) /\ Cardinality(I!UnitFiles) = Len(units)
         /\ Len(units) \in 0..Len(db.entries)
         /\ units \in Seq(Nat)
<1> DEFINE es == db.entries
           K == I!Kept(es)
<1>1. /\ IsFiniteSet(K) /\ K \subseteq DOMAIN es /\ Cardinality(K) \in 0..Len(es)
      /\ \A m, n \in K : es[m].source = es[n].source => m = n
      /\ {es[n].source : n \in K} = WantedIn(es)
  BY KeptOncePerFile
<1>2. units \in Seq(Nat) /\ Len(units) = Cardinality(K) /\ Values(units) = K
  BY FilteredIsKept
<1> HIDE DEF K
<1>3. I!UnitFiles = {es[n].source : n \in K}
  BY <1>2 DEF I!UnitFiles, I!SourceOf, Values
<1>4. I!UnitFiles \subseteq Sources
  <2>1. \A n \in DOMAIN es : es[n] \in I!Entry
    OBVIOUS
  <2> QED
    BY <1>1, <1>3, <2>1 DEF I!Entry
<1>5. IsFiniteSet(I!UnitFiles) /\ Cardinality(I!UnitFiles) = Cardinality(K)
  <2> DEFINE g == [n \in K |-> es[n].source]
  <2>1. /\ g \in [K -> I!UnitFiles] /\ \A m, n \in K : g[m] = g[n] => m = n
        /\ \A s \in I!UnitFiles : \E n \in K : g[n] = s
    BY <1>1, <1>3
  <2> HIDE DEF g
  <2> QED
    BY <1>1, <2>1, SameSize
<1> QED
  BY <1>1, <1>2, <1>3, <1>4, <1>5

Failures == UNION {failedAt[s] : s \in I!UnitFiles}

InferInv ==
  /\ I!TypeOK
  /\ Len(db.entries) <= MaxEntries
  /\ units = IF step = "filter" THEN <<>> ELSE I!Filtered(db.entries)
  /\ step \in {"filter", "capture"} => codes = <<>>
  /\ step = "capture" => units # <<>>
  /\ step = "analyze" => Len(codes) = 1
  /\ codes = <<>> => coverage = I!NoCoverage
  /\ step \in {"finish", "done"} /\ units # <<>> => codes # <<>>
  /\ codes # <<>> => /\ step # "filter" /\ units # <<>>
                     /\ IsFiniteSet(Failures) /\ coverage = I!Coverage(Failures)
  /\ step = "done" => status = I!Status

LEMMA InitInferInv == I!Parameters /\ I!Init => InferInv
<1> SUFFICES ASSUME I!Parameters, I!Init PROVE InferInv
  OBVIOUS
<1>1. /\ step = "filter" /\ units = <<>> /\ codes = <<>> /\ silent = {}
      /\ failedAt = [s \in Sources |-> {}] /\ coverage = I!NoCoverage /\ status = "running"
  BY DEF I!Init
<1>2. /\ db.state \in {"missing", "garbled", "read"} /\ db.entries \in Seq(I!Entry)
      /\ Len(db.entries) <= MaxEntries
  <2>1. CASE \E st \in {"missing", "garbled"} : db = [state |-> st, entries |-> <<>>]
    BY <2>1 DEF I!Parameters
  <2>2. CASE \E n \in 0..MaxEntries : db \in [state : {"read"}, entries : [1..n -> I!Entry]]
    BY <2>2 DEF I!Parameters
  <2> QED
    BY <2>1, <2>2 DEF I!Init
<1>3. I!NoCoverage \in [handed : 0..MaxEntries, captured : 0..MaxEntries, partial : BOOLEAN]
  BY DEF I!NoCoverage, I!Parameters
<1>4. I!TypeOK
  <2>1. units \in Seq(Nat) /\ codes \in Seq(I!Codes) /\ Len(codes) <= 2
    BY <1>1
  <2> QED
    BY <1>1, <1>2, <1>3, <2>1 DEF I!TypeOK
<1> QED
  BY <1>1, <1>2, <1>4 DEF InferInv

LEMMA FilterInferInv == ASSUME I!Parameters, InferInv, I!Filter PROVE InferInv'
<1> USE DEF InferInv
<1>1. /\ step = "filter" /\ units' = I!Filtered(db.entries) /\ codes = <<>>
      /\ step' = IF units' = <<>> THEN "finish" ELSE "capture"
      /\ UNCHANGED <<db, failedAt, silent, codes, coverage, status>>
  BY DEF I!Filter
<1>2. units' \in Seq(Nat)
  BY <1>1, FilteredIsKept DEF I!TypeOK
<1>3. I!TypeOK'
  BY <1>1, <1>2 DEF I!TypeOK
<1> QED
  BY <1>1, <1>3

LEMMA CaptureInferInv == ASSUME I!Parameters, InferInv, I!Capture PROVE InferInv'
<1> USE DEF InferInv
<1>1. PICK code \in I!Codes, left \in SUBSET I!UnitFiles,
           at \in [I!UnitFiles -> {"nowhere", "itself", "header"}], h \in Headers :
        /\ \A s \in left : I!PlaceOf(at, h, s) = {}
        /\ failedAt' = [s \in Sources |-> IF s \in I!UnitFiles THEN I!PlaceOf(at, h, s) ELSE {}]
        /\ silent' = left
        /\ codes' = <<code>>
        /\ coverage' = I!Coverage(UNION {I!PlaceOf(at, h, s) : s \in I!UnitFiles})
        /\ step' = IF code = "124" THEN "finish" ELSE "analyze"
  BY Zenon DEF I!Capture
<1>2. /\ step = "capture" /\ units # <<>> /\ units = I!Filtered(db.entries)
      /\ UNCHANGED <<db, units, status>>
  BY DEF I!Capture
<1>3. /\ I!UnitFiles \subseteq Sources /\ IsFiniteSet(I!UnitFiles)
      /\ Cardinality(I!UnitFiles) = Len(units) /\ Len(units) \in 0..MaxEntries
  <2>1. db.entries \in Seq(I!Entry) /\ Len(db.entries) <= MaxEntries /\ Len(db.entries) \in Nat
    BY DEF I!TypeOK
  <2>2. /\ I!UnitFiles \subseteq Sources /\ IsFiniteSet(I!UnitFiles)
        /\ Cardinality(I!UnitFiles) = Len(units) /\ Len(units) \in 0..Len(db.entries)
    BY <1>2, <2>1, UnitsAreWanted
  <2> QED
    BY <2>1, <2>2 DEF I!Parameters
<1> DEFINE U == I!UnitFiles
           fails == UNION {I!PlaceOf(at, h, s) : s \in U}
<1>4. \A s \in U : I!PlaceOf(at, h, s) = {} \/ I!PlaceOf(at, h, s) = {s} \/ I!PlaceOf(at, h, s) = {h}
  BY Zenon DEF I!PlaceOf
<1>5. U' = U
  BY <1>2 DEF I!UnitFiles, I!SourceOf
<1>6. Failures' = fails
  <2>1. \A s \in U : failedAt'[s] = I!PlaceOf(at, h, s)
    BY <1>1, <1>3
  <2> QED
    BY <1>5, <2>1 DEF Failures
<1> HIDE DEF U
<1>7. IsFiniteSet(fails) /\ Cardinality(fails) \in 0..Len(units)
  <2> DEFINE failing == {s \in U : I!PlaceOf(at, h, s) # {}}
             g == [s \in failing |-> CHOOSE p : p \in I!PlaceOf(at, h, s)]
  <2>1. IsFiniteSet(failing) /\ Cardinality(failing) <= Cardinality(U)
    <3>1. failing \in SUBSET U
      OBVIOUS
    <3> QED
      BY <1>3, <3>1, FS_Subset DEF U
  <2>2. \A s \in failing : I!PlaceOf(at, h, s) = {g[s]}
    BY <1>4
  <2>3. g \in [failing -> fails] /\ \A p \in fails : \E s \in failing : g[s] = p
    <3> HIDE DEF g
    <3>1. \A s \in failing : g[s] \in fails
      BY <2>2
    <3>2. \A p \in fails : \E s \in failing : g[s] = p
      BY <2>2
    <3> QED
      BY <3>1, <3>2 DEF g
  <2> HIDE DEF g, failing, fails
  <2>4. g \in Surjection(failing, fails)
    BY <2>3, Fun_IsSurj
  <2>5. IsFiniteSet(fails) /\ Cardinality(fails) <= Cardinality(failing)
    BY <2>1, <2>4, FS_Surjection
  <2>6. Cardinality(fails) \in Nat /\ Cardinality(failing) \in Nat
    BY <2>1, <2>5, FS_CardinalityType
  <2> QED
    BY <1>3, <2>1, <2>5, <2>6 DEF U
<1>8. coverage' = I!Coverage(fails)
  BY <1>1 DEF U
<1>9. coverage' \in [handed : 0..MaxEntries, captured : 0..MaxEntries, partial : BOOLEAN]
  <2>1. I!Cardinality(fails) = Cardinality(fails)
    BY InferCardinality, Zenon
  <2> HIDE DEF fails
  <2>2. coverage' = [handed |-> Len(units), captured |-> Len(units) - I!Cardinality(fails),
                     partial |-> Len(units) - I!Cardinality(fails) < Len(units)]
    BY <1>8 DEF I!Coverage, I!CoverageOf
  <2>3. Len(units) - I!Cardinality(fails) \in 0..MaxEntries
    BY <1>3, <1>7, <2>1 DEF I!Parameters
  <2> QED
    BY <1>3, <2>2, <2>3
<1>10. failedAt' \in [Sources -> SUBSET (Sources \cup Headers)] /\ silent' \subseteq Sources
  <2>1. \A s \in U : I!PlaceOf(at, h, s) \subseteq Sources \cup Headers
    BY <1>3, <1>4 DEF U
  <2> QED
    BY <1>1, <1>3, <2>1 DEF U
<1>11. codes' \in Seq(I!Codes) /\ Len(codes') = 1 /\ codes' # <<>> /\ codes'[1] = code
  BY <1>1
<1>12. I!TypeOK'
  BY <1>1, <1>2, <1>9, <1>10, <1>11 DEF I!TypeOK
<1>13. IsFiniteSet(Failures') /\ coverage' = I!Coverage(Failures)'
  BY <1>2, <1>6, <1>7, <1>8 DEF I!Coverage, I!CoverageOf
<1> QED
  BY <1>1, <1>2, <1>11, <1>12, <1>13

LEMMA OneMore ==
  ASSUME NEW some, NEW q \in Seq(some), NEW e \in some, NEW r, r = Append(q, e)
  PROVE  r \in Seq(some) /\ Len(r) = Len(q) + 1 /\ \A m \in DOMAIN q : r[m] = q[m]
OBVIOUS

LEMMA SecondCode ==
  ASSUME NEW some, NEW q \in Seq(some), Len(q) = 1, NEW e \in some, NEW r, r = Append(q, e)
  PROVE  r \in Seq(some) /\ Len(r) = 2 /\ r # <<>> /\ q # <<>> /\ r[1] = q[1]
<1>1. r \in Seq(some) /\ Len(r) = 2 /\ \A m \in DOMAIN q : r[m] = q[m]
  BY OneMore
<1>2. r # <<>> /\ q # <<>> /\ 1 \in DOMAIN q
  BY <1>1
<1> QED
  BY <1>1, <1>2

LEMMA AnalyzeInferInv == ASSUME InferInv, I!Analyze PROVE InferInv'
<1> USE DEF InferInv
<1>1. PICK code \in I!Codes : codes' = Append(codes, code)
  BY DEF I!Analyze
<1>2. /\ step = "analyze" /\ step' = "finish"
      /\ UNCHANGED <<db, units, failedAt, silent, coverage, status>>
  BY DEF I!Analyze
<1>3. codes \in Seq(I!Codes) /\ Len(codes) = 1
  BY <1>2 DEF I!TypeOK
<1>4. /\ codes' \in Seq(I!Codes) /\ Len(codes') = 2 /\ codes' # <<>> /\ codes # <<>>
      /\ codes'[1] = codes[1]
  BY <1>1, <1>3, SecondCode
<1>5. I!TypeOK'
  BY <1>2, <1>4 DEF I!TypeOK
<1>6. Failures' = Failures /\ I!Coverage(Failures)' = I!Coverage(Failures)
  BY <1>2 DEF Failures, I!UnitFiles, I!SourceOf, I!Coverage, I!CoverageOf
<1> QED
  BY <1>2, <1>4, <1>5, <1>6

LEMMA FinishInferInv == ASSUME InferInv, I!Finish PROVE InferInv'
<1> USE DEF InferInv
<1>1. /\ step = "finish" /\ step' = "done" /\ status' = I!Status
      /\ UNCHANGED <<db, units, failedAt, silent, codes, coverage>>
  BY DEF I!Finish
<1>2. I!Status \in {"ok", "timeout"} /\ I!Status' = I!Status
  BY <1>1 DEF I!Status
<1>3. I!TypeOK'
  BY <1>1, <1>2 DEF I!TypeOK
<1>4. Failures' = Failures /\ I!Coverage(Failures)' = I!Coverage(Failures)
  BY <1>1 DEF Failures, I!UnitFiles, I!SourceOf, I!Coverage, I!CoverageOf
<1> QED
  BY <1>1, <1>2, <1>3, <1>4

LEMMA NextInferInv == I!Parameters /\ InferInv /\ [I!Next]_(I!vars) => InferInv'
<1> SUFFICES ASSUME I!Parameters, InferInv, [I!Next]_(I!vars) PROVE InferInv'
  OBVIOUS
<1>1. CASE I!Next
  BY <1>1, FilterInferInv, CaptureInferInv, AnalyzeInferInv, FinishInferInv DEF I!Next
<1>2. CASE UNCHANGED I!vars
  <2>1. UNCHANGED <<step, db, units, failedAt, silent, codes, coverage, status>>
    BY <1>2 DEF I!vars
  <2>2. I!TypeOK'
    BY <2>1 DEF InferInv, I!TypeOK
  <2>3. /\ Failures' = Failures /\ I!Coverage(Failures)' = I!Coverage(Failures)
        /\ I!Status' = I!Status
    BY <2>1 DEF Failures, I!UnitFiles, I!SourceOf, I!Coverage, I!CoverageOf, I!Status
  <2> QED
    BY <2>1, <2>2, <2>3 DEF InferInv
<1> QED
  BY <1>1, <1>2

\* The invariant of a process that runs Infer.
InferPart == command = "infer" => InferInv

LEMMA InferHolds == Spec => []InferPart
<1>1. Init => InferPart
  <2> SUFFICES ASSUME Init, command = "infer" PROVE InferInv
    BY DEF InferPart
  <2> QED
    BY CommandAssumption, InitInferInv DEF Init
<1>2. InferPart /\ [Next]_tcbVars => InferPart'
  <2> SUFFICES ASSUME InferPart, [Next]_tcbVars, command' = "infer" PROVE InferInv'
    BY DEF InferPart
  <2>1. command = "infer"
    BY DEF Next, Timing, Pins, Infer, Juliet, SelfCheck, Table, tcbVars
  <2>2. I!Next \/ UNCHANGED inferVars
    BY <2>1 DEF Next, Timing, Pins, Infer, Juliet, SelfCheck, Table, tcbVars
  <2>3. UNCHANGED inferVars => UNCHANGED I!vars
    BY DEF inferVars, I!vars
  <2> QED
    BY <2>1, <2>2, <2>3, CommandAssumption, NextInferInv DEF InferPart
<1> QED
  BY <1>1, <1>2, PTL DEF Spec

\* What coverage.tool (infer.py capture_coverage) says of a finished run: it
\* counts each .c file in scope that the database names, and is partial
\* exactly if there is none or one had a fatal error.  A bundle without that
\* mark lost only files capture did not speak of.
THEOREM ReportedLossesAreSeen == Spec => []ReportedLossesShow
<1>1. InferPart => ReportedLossesShow
  <2> SUFFICES ASSUME InferInv, step = "done"
               PROVE  /\ coverage.handed = I!Cardinality(I!Wanted)
                      /\ coverage.partial <=> (I!Wanted = {} \/ \E s \in I!Wanted : failedAt[s] # {})
                      /\ ~coverage.partial => I!Wanted \ I!Captured \subseteq silent
                      /\ ~coverage.partial /\ I!FailedInvocations = 0 => status = "ok"
    BY DEF InferPart, ReportedLossesShow, I!ReportedLossesShow
  <2> USE DEF InferInv
  <2>1. /\ I!UnitFiles = WantedIn(db.entries) /\ IsFiniteSet(I!UnitFiles)
        /\ Cardinality(I!UnitFiles) = Len(units) /\ units \in Seq(Nat)
    BY CommandAssumption, UnitsAreWanted DEF I!TypeOK
  <2>2. WantedIn(db.entries) = I!Wanted
    <3>1. \A n \in DOMAIN db.entries : db.entries[n] \in I!Entry
      BY DEF I!TypeOK
    <3>2. \A n \in DOMAIN db.entries : \A s : db.entries[n] = [source |-> s, dotC |-> TRUE]
                                              <=> db.entries[n].source = s /\ db.entries[n].dotC
      <4>1. ASSUME NEW e \in I!Entry, NEW s, e.source = s, e.dotC
            PROVE  e = [source |-> s, dotC |-> TRUE]
        BY <4>1 DEF I!Entry
      <4>2. ASSUME NEW e, NEW s, e = [source |-> s, dotC |-> TRUE]
            PROVE  e.source = s /\ e.dotC
        BY <4>2
      <4> QED
        BY <3>1, <4>1, <4>2
    <3> QED
      BY <3>2 DEF WantedIn, I!Wanted
  <2>3. I!Wanted = I!UnitFiles /\ I!Cardinality(I!Wanted) = Len(units)
    BY <2>1, <2>2, InferCardinality, Zenon
  <2>4. I!Wanted = {} <=> units = <<>>
    <3>1. Len(units) = 0 <=> units = <<>>
      BY <2>1
    <3>2. I!UnitFiles = {} => Cardinality(I!UnitFiles) = 0
      BY FS_EmptySet, Zenon
    <3>3. Cardinality(I!UnitFiles) = 0 => I!UnitFiles = {}
      BY <2>1, FS_EmptySet
    <3> QED
      BY <2>1, <2>3, <3>1, <3>2, <3>3
  <2>5. coverage.handed = Len(units)
    <3>1. CASE units = <<>>
      BY <3>1 DEF I!NoCoverage
    <3>2. CASE units # <<>>
      BY <3>2 DEF I!Coverage, I!CoverageOf
    <3> QED
      BY <3>1, <3>2
  <2>6. coverage.partial <=> (units = <<>> \/ Failures # {})
    <3>1. CASE units = <<>>
      BY <3>1 DEF I!NoCoverage
    <3>2. CASE units # <<>>
      <4>1. /\ IsFiniteSet(Failures) /\ I!Cardinality(Failures) = Cardinality(Failures)
        <5>1. codes # <<>>
          BY <3>2
        <5>2. IsFiniteSet(Failures)
          BY <5>1
        <5>3. I!Cardinality(Failures) = Cardinality(Failures)
          BY InferCardinality, Zenon
        <5> QED
          BY <5>2, <5>3
      <4>2. coverage.partial <=> Len(units) - Cardinality(Failures) < Len(units)
        <5>1. codes # <<>>
          BY <3>2
        <5>2. coverage = I!Coverage(Failures)
          BY <5>1
        <5>3. coverage.partial <=> Len(units) - I!Cardinality(Failures) < Len(units)
          BY <5>2, Zenon DEF I!Coverage, I!CoverageOf
        <5> QED
          BY <4>1, <5>3, Zenon
      <4>3. Cardinality(Failures) \in Nat /\ (Cardinality(Failures) = 0 <=> Failures = {})
        BY <4>1, FS_CardinalityType, FS_EmptySet
      <4>4. Len(units) \in Nat
        BY <2>1
      <4> QED
        BY <3>2, <4>2, <4>3, <4>4
    <3> QED
      BY <3>1, <3>2
  <2>7. Failures # {} <=> \E s \in I!Wanted : failedAt[s] # {}
    BY <2>3 DEF Failures
  <2>8. coverage.partial <=> (I!Wanted = {} \/ \E s \in I!Wanted : failedAt[s] # {})
    BY <2>4, <2>6, <2>7
  <2>9. ~coverage.partial => I!Wanted \ I!Captured \subseteq silent
    BY <2>3, <2>8 DEF I!Captured
  <2>10. I!FailedInvocations = 0 => status = "ok"
    <3> SUFFICES ASSUME I!FailedInvocations = 0 PROVE status = "ok"
      OBVIOUS
    <3> DEFINE failed == {n \in DOMAIN codes : codes[n] \notin {"0", "1"}}
    <3>1. Cardinality(failed) = 0
      BY InferCardinality, Zenon DEF I!FailedInvocations
    <3>2. IsFiniteSet(failed)
      <4>1. /\ failed \in SUBSET (1..Len(codes)) /\ 1 \in Int /\ Len(codes) \in Int
        BY DEF I!TypeOK
      <4>2. IsFiniteSet(1..Len(codes))
        BY <4>1, FS_Interval
      <4> QED
        BY <4>1, <4>2, FS_Subset
    <3>3. failed = {}
      <4> HIDE DEF failed
      <4> QED
        BY <3>1, <3>2, FS_EmptySet
    <3> QED
      BY <3>3 DEF I!Status
  <2> QED
    BY <2>3, <2>5, <2>8, <2>9, <2>10
<1> QED
  BY <1>1, InferHolds, PTL

-----------------------------------------------------------------------------
(* The real-world tables of a bundle.                                      *)

\* FiniteSets in RealworldTables is FiniteSets.
LEMMA TableCardinality ==
  \A V : (W!IsFiniteSet(V) <=> IsFiniteSet(V)) /\ W!Cardinality(V) = Cardinality(V)
<1>1. ASSUME NEW V PROVE W!IsFiniteSet(V) <=> IsFiniteSet(V)
  BY DEF W!IsFiniteSet, IsFiniteSet
<1>2. ASSUME NEW V PROVE W!Cardinality(V) = Cardinality(V)
  BY Zenon DEF W!Cardinality, Cardinality
<1> QED
  BY <1>1, <1>2

\* Each key has one class, so the columns partition the keys.
LEMMA ColumnsPartition ==
  ASSUME IsFiniteSet(recs) PROVE W!ColumnsAddUp
<1> DEFINE K == W!InScopeKeys
           A == W!KeysOf("TP")         B == W!KeysOf("FP")
           U == W!KeysOf("uncertain")  N == W!KeysOf("unlabeled")
<1>1. IsFiniteSet(K)
  <2> DEFINE Rs == W!InScopeRecs
             g == [f \in Rs |-> <<f.place, f.check>>]
  <2>1. IsFiniteSet(Rs)
    BY FS_Subset DEF W!InScopeRecs
  <2>2. g \in [Rs -> K] /\ \A k \in K : \E f \in Rs : g[f] = k
    BY DEF W!InScopeRecs, W!InScopeKeys
  <2> HIDE DEF g, Rs, K
  <2>3. g \in Surjection(Rs, K)
    BY <2>2, Fun_IsSurj
  <2> QED
    BY <2>1, <2>3, FS_Surjection
<1>2. \A key : W!Class(key) \in {"TP", "FP", "uncertain", "unlabeled"}
  BY Zenon DEF W!Class
<1>3. /\ A \subseteq K /\ B \subseteq K /\ U \subseteq K /\ N \subseteq K
      /\ K = ((A \cup B) \cup U) \cup N
      /\ A \cap B = {} /\ (A \cup B) \cap U = {} /\ ((A \cup B) \cup U) \cap N = {}
  BY <1>2 DEF W!KeysOf
<1>4. /\ W!CountsRow.keys = Cardinality(K)
      /\ W!PrecisionRow.TP = Cardinality(A) /\ W!PrecisionRow.FP = Cardinality(B)
      /\ W!PrecisionRow.uncertain = Cardinality(U) /\ W!PrecisionRow.unlabeled = Cardinality(N)
  BY TableCardinality DEF W!CountsRow, W!PrecisionRow, W!InScopeKeys, W!InScopeRecs
<1> HIDE DEF K, A, B, U, N
<1>5. IsFiniteSet(A) /\ IsFiniteSet(B) /\ IsFiniteSet(U) /\ IsFiniteSet(N)
  BY <1>1, <1>3, FS_Subset
<1>6. IsFiniteSet(A \cup B) /\ Cardinality(A \cup B) = Cardinality(A) + Cardinality(B)
  BY <1>3, <1>5, DisjointUnion
<1>7. /\ IsFiniteSet((A \cup B) \cup U)
      /\ Cardinality((A \cup B) \cup U) = Cardinality(A \cup B) + Cardinality(U)
  BY <1>3, <1>5, <1>6, DisjointUnion
<1>8. Cardinality(((A \cup B) \cup U) \cup N) = Cardinality((A \cup B) \cup U) + Cardinality(N)
  BY <1>3, <1>5, <1>7, DisjointUnion
<1>9. Cardinality(K) = Cardinality(((A \cup B) \cup U) \cup N)
  BY <1>3, Zenon
<1>10. W!CountsRow.keys = W!PrecisionRow.TP + W!PrecisionRow.FP
                          + W!PrecisionRow.uncertain + W!PrecisionRow.unlabeled
  BY <1>4, <1>6, <1>7, <1>8, <1>9
<1> QED
  BY <1>10 DEF W!ColumnsAddUp

\* A table is made of a bundle that stays what it is.
TablePart == command = "table" => W!TypeOK /\ IsFiniteSet(recs)

LEMMA TableHolds == Spec => []TablePart
<1>1. Init => TablePart
  <2> SUFFICES ASSUME W!Init PROVE W!TypeOK /\ IsFiniteSet(recs)
    BY DEF Init, TablePart
  <2> QED
    BY TableCardinality DEF W!Init, W!TypeOK, W!Commits
<1>2. TablePart /\ [Next]_tcbVars => TablePart'
  <2> SUFFICES ASSUME TablePart, [Next]_tcbVars, command' = "table" PROVE W!TypeOK' /\ IsFiniteSet(recs')
    BY DEF TablePart
  <2>1. command = "table"
    BY DEF Next, Timing, Pins, Infer, Juliet, SelfCheck, Table, tcbVars
  <2>2. W!Next \/ UNCHANGED tableVars
    BY <2>1 DEF Next, Timing, Pins, Infer, Juliet, SelfCheck, Table, tcbVars
  <2>3. recs' = recs
    BY <2>2 DEF W!Next, W!AddLabel, W!MovePin, tableVars
  <2>4. W!TypeOK'
    BY <2>1, <2>2 DEF TablePart, W!Next, W!AddLabel, W!MovePin, W!TypeOK, tableVars
  <2> QED
    BY <2>1, <2>3, <2>4 DEF TablePart
<1> QED
  BY <1>1, <1>2, PTL DEF Spec

\* The verdicts of a key only grow while the pin stays.
LEMMA VerdictsGrow ==
  ASSUME W!Next, pinned' = pinned
  PROVE  /\ W!InScopeKeys' = W!InScopeKeys
         /\ \A key : W!VerdictsOf(key) \subseteq W!VerdictsOf(key)'
<1>1. recs' = recs /\ labels \subseteq labels'
  BY DEF W!Next, W!AddLabel, W!MovePin
<1> QED
  BY <1>1 DEF W!InScopeKeys, W!VerdictsOf, W!VerdictsIn, W!LabelsOf, W!LabelsAt

\* The order in which realworld_precision (tables.py) looks for verdicts: one
\* true positive decides, then one false positive.
LEMMA ClassOfVerdicts ==
  ASSUME NEW v, NEW class,
         class = CASE v = {} -> "unlabeled" [] "TP" \in v -> "TP"
                   [] "FP" \in v /\ "TP" \notin v -> "FP" [] OTHER -> "uncertain"
  PROVE  /\ class = "TP" <=> "TP" \in v
         /\ class = "FP" <=> "FP" \in v /\ "TP" \notin v
         /\ class = "unlabeled" <=> v = {}
<1>1. /\ "TP" # "FP" /\ "TP" # "unlabeled" /\ "TP" # "uncertain"
      /\ "FP" # "unlabeled" /\ "FP" # "uncertain" /\ "unlabeled" # "uncertain"
  OBVIOUS
<1>2. CASE v = {}
  <2>1. class = "unlabeled" /\ "TP" \notin v /\ "FP" \notin v
    BY <1>2, Zenon
  <2> QED
    BY <1>1, <1>2, <2>1
<1>3. CASE v # {} /\ "TP" \in v
  <2>1. class = "TP"
    <3>1. ~(v = {}) /\ "TP" \in v
      BY <1>3
    <3> QED
      BY <3>1, Zenon
  <2> QED
    BY <1>1, <1>3, <2>1
<1>4. CASE v # {} /\ "TP" \notin v /\ "FP" \in v
  <2>1. class = "FP"
    <3>1. ~(v = {}) /\ ~("TP" \in v) /\ "FP" \in v
      BY <1>4
    <3> QED
      BY <3>1, Zenon
  <2> QED
    BY <1>1, <1>4, <2>1
<1>5. CASE v # {} /\ "TP" \notin v /\ "FP" \notin v
  <2>1. class = "uncertain"
    <3>1. ~(v = {}) /\ ~("TP" \in v) /\ ~("FP" \in v)
      BY <1>5
    <3> QED
      BY <3>1, Zenon
  <2> QED
    BY <1>1, <1>5, <2>1
<1> QED
  BY <1>2, <1>3, <1>4, <1>5

\* A label that is added leaves a true positive one and a labelled key
\* labelled.
LEMMA StepSettles ==
  ASSUME W!Next, pinned' = pinned
  PROVE  /\ W!KeysOf("TP") \subseteq W!KeysOf("TP")'
         /\ W!KeysOf("unlabeled")' \subseteq W!KeysOf("unlabeled")
         /\ (W!KeysOf("TP") \cup W!KeysOf("FP")) \subseteq (W!KeysOf("TP") \cup W!KeysOf("FP"))'
<1>1. \A key : /\ W!Class(key) = "TP" <=> "TP" \in W!VerdictsOf(key)
               /\ W!Class(key) = "FP" <=> "FP" \in W!VerdictsOf(key) /\ "TP" \notin W!VerdictsOf(key)
               /\ W!Class(key) = "unlabeled" <=> W!VerdictsOf(key) = {}
  <2> TAKE key
  <2> DEFINE v == W!VerdictsOf(key)
  <2>1. W!Class(key) = CASE v = {} -> "unlabeled" [] "TP" \in v -> "TP"
                         [] "FP" \in v /\ "TP" \notin v -> "FP" [] OTHER -> "uncertain"
    BY Zenon DEF W!Class
  <2> HIDE DEF v
  <2>2. /\ W!Class(key) = "TP" <=> "TP" \in v
        /\ W!Class(key) = "FP" <=> "FP" \in v /\ "TP" \notin v
        /\ W!Class(key) = "unlabeled" <=> v = {}
    BY <2>1, ClassOfVerdicts, Zenon
  <2> QED
    BY <2>2 DEF v
<1>2. \A key : /\ W!Class(key)' = "TP" <=> "TP" \in W!VerdictsOf(key)'
               /\ W!Class(key)' = "FP" <=> "FP" \in W!VerdictsOf(key)' /\ "TP" \notin W!VerdictsOf(key)'
               /\ W!Class(key)' = "unlabeled" <=> W!VerdictsOf(key)' = {}
  <2> TAKE key
  <2> DEFINE v == W!VerdictsOf(key)'
  <2>1. W!Class(key)' = CASE v = {} -> "unlabeled" [] "TP" \in v -> "TP"
                          [] "FP" \in v /\ "TP" \notin v -> "FP" [] OTHER -> "uncertain"
    BY Zenon DEF W!Class
  <2> HIDE DEF v
  <2>2. /\ W!Class(key)' = "TP" <=> "TP" \in v
        /\ W!Class(key)' = "FP" <=> "FP" \in v /\ "TP" \notin v
        /\ W!Class(key)' = "unlabeled" <=> v = {}
    BY <2>1, ClassOfVerdicts, Zenon
  <2> QED
    BY <2>2 DEF v
<1>3. \A c : /\ W!KeysOf(c) = {k \in W!InScopeKeys : W!Class(k) = c}
             /\ W!KeysOf(c)' = {k \in W!InScopeKeys : W!Class(k)' = c}
  BY VerdictsGrow DEF W!KeysOf
<1> QED
  BY <1>1, <1>2, <1>3, VerdictsGrow

\* What a label added at the pinned commit does to the tables of a bundle
\* (tables.py realworld_precision): a true positive stays one, no key leaves
\* the labelled share (a false positive may become a true one), and the
\* columns add up to the keys of the counts.
THEOREM MoreLabelsSettle == Spec => LabelsOnlySettle
<1>1. TablePart /\ command = "table" => W!ColumnsAddUp
  BY ColumnsPartition DEF TablePart
<1>2. /\ TablePart /\ TablePart' /\ [Next]_tcbVars
      /\ (command = "table" => W!ColumnsAddUp) /\ (command = "table" => W!ColumnsAddUp)'
      => [command = "table" /\ pinned' = pinned => W!Settles]_tcbVars
  <2> SUFFICES ASSUME Next, command = "table", pinned' = pinned, W!ColumnsAddUp,
                      (command = "table" => W!ColumnsAddUp)'
               PROVE  W!Settles
    OBVIOUS
  <2>1. W!Next /\ command' = command
    BY DEF Next, Timing, Pins, Infer, Juliet, SelfCheck, Table
  <2>2. W!ColumnsAddUp'
    BY <2>1
  <2> QED
    BY <2>1, <2>2, StepSettles DEF W!Settles
<1> QED
  BY <1>1, <1>2, TableHolds, PTL DEF Spec, LabelsOnlySettle

-----------------------------------------------------------------------------
(* The types of all commands.                                              *)

\* Every variable of the command that a tcb process runs (__main__.py main)
\* has its type.
THEOREM TypesHold == Spec => []TypeOK
<1>1. RawPart /\ GoldenPart => (command = "selfcheck" => S!ScTypeOK)
  BY GoldenNames DEF RawPart, RawInv, GoldenPart, GoldenInv, GoldenTypes, S!ScTypeOK
<1>2. TimingPart /\ PinsPart /\ InferPart /\ JulietPart /\ RawPart /\ GoldenPart /\ TablePart => TypeOK
  BY <1>1 DEF TimingPart, TimingInv, PinsPart, PinsInv, InferPart, InferInv, JulietPart, TablePart, TypeOK
<1> QED
  BY <1>2, TimingHolds, PinsHolds, InferHolds, JulietHolds, RawHolds, GoldenHolds, TableHolds, PTL
=============================================================================
