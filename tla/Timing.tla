------------------------------- MODULE Timing -------------------------------
(***************************************************************************)
(* `tcb timing` (tcb/timing.py): a contention check, untimed warmup runs,  *)
(* the timed repeats, and the verdict `valid` on the record.  Each run is  *)
(* a whole `tcb run`: its pin checks, the preparation before the clock is  *)
(* started (tcb/run.py) and the scan the clock measures.                   *)
(*                                                                         *)
(* The findings of a scan are abstracted to their key set (finding_keys),  *)
(* the page cache to whether the target's sources are in it.  Other        *)
(* analyzers come and go on the machine at any time.                       *)
(***************************************************************************)
EXTENDS Naturals, Sequences

CONSTANTS Repeats,   \* --repeats
          Warmup,    \* --warmup
          KeySets,   \* sets of finding keys a scan may report
          Nothing    \* no key set yet

Parameters == Repeats \in Nat \ {0} /\ Warmup \in Nat /\ Nothing \notin KeySets

VARIABLES cold,      \* --cold
          juliet,    \* the target is a Juliet suite, not a codebase
          pc,        \* where measure is
          done,      \* runs done, warmups included
          busy,      \* other analyzers or compilers run on the machine
          cached,    \* the sources are in the page cache
          forced,    \* record["forced"]
          keys0,     \* the keys of the first repeat
          runs,      \* record["runs"]
          valid      \* record["summary"]["valid"]

vars == <<cold, juliet, pc, done, busy, cached, forced, keys0, runs, valid>>

Repeat == [keys : KeySets, status : {"ok", "timeout", "oom"},
           identical : BOOLEAN, cached : BOOLEAN]

TypeOK ==
  /\ cold \in BOOLEAN /\ juliet \in BOOLEAN
  /\ pc \in {"start", "drop", "check", "prepare", "scan", "summary", "done", "exited"}
  /\ done \in 0..(Warmup + Repeats)
  /\ busy \in BOOLEAN /\ cached \in BOOLEAN /\ forced \in BOOLEAN
  /\ keys0 \in KeySets \cup {Nothing}
  /\ runs \in Seq(Repeat) /\ Len(runs) <= Repeats
  /\ valid \in BOOLEAN

Init == /\ cold \in BOOLEAN /\ juliet \in BOOLEAN
        /\ pc = "start" /\ done = 0 /\ forced = FALSE
        /\ busy \in BOOLEAN /\ cached \in BOOLEAN
        /\ keys0 = Nothing /\ runs = <<>> /\ valid = FALSE

Goto(l) == pc' = l

NextRunOffByOne == IF done' <= Warmup + Repeats THEN "drop" ELSE "summary"

NextRun == IF done' < Warmup + Repeats THEN "drop" ELSE "summary"

-----------------------------------------------------------------------------

\* contention(): refused under contention unless --force, which is recorded.
Start ==
  /\ pc = "start"
  /\ \E force \in BOOLEAN : /\ Goto(IF busy /\ ~force THEN "exited" ELSE "drop")
                            /\ forced' = (busy /\ force)
  /\ UNCHANGED <<cold, juliet, done, busy, cached, keys0, runs, valid>>

DropOnce ==
  /\ pc = "drop"
  /\ cached' = IF cold /\ done = 0 THEN FALSE ELSE cached
  /\ Goto("check")
  /\ UNCHANGED <<cold, juliet, done, busy, forced, keys0, runs, valid>>

\* drop_caches() ends tcb unless it is run by root.
NotRoot ==
  /\ pc = "drop" /\ cold /\ done = 0
  /\ Goto("exited")
  /\ UNCHANGED <<cold, juliet, done, busy, cached, forced, keys0, runs, valid>>

\* if cold: drop_caches(), before every run.
Drop ==
  /\ pc = "drop"
  /\ cached' = IF cold THEN FALSE ELSE cached
  /\ Goto("check")
  /\ UNCHANGED <<cold, juliet, done, busy, forced, keys0, runs, valid>>

\* _refuse_on_failed in the run: a failed row ends tcb, and no record is
\* written.
Check ==
  /\ pc = "check"
  /\ \/ Goto("prepare") \/ Goto("exited")
  /\ UNCHANGED <<cold, juliet, done, busy, cached, forced, keys0, runs, valid>>

\* run_juliet reads every test file for its good and bad sections before it
\* starts the clock of the scan; run_realworld reads no source.
Prepare ==
  /\ pc = "prepare"
  /\ cached' = (cached \/ juliet)
  /\ Goto("scan")
  /\ UNCHANGED <<cold, juliet, done, busy, forced, keys0, runs, valid>>

\* The comparison with the first repeat.
Identical(k) == keys0 \in {Nothing, k}

\* The timed scan; it leaves the sources in the page cache.  What the tool
\* reports may differ from run to run.  Only a repeat is recorded.
Scan ==
  /\ pc = "scan"
  /\ cached' = TRUE
  /\ done' = done + 1
  /\ IF done < Warmup
     THEN UNCHANGED <<keys0, runs>>
     ELSE \E k \in KeySets, s \in {"ok", "timeout", "oom"} :
            /\ keys0' = IF keys0 = Nothing THEN k ELSE keys0
            /\ runs' = Append(runs, [keys |-> k, status |-> s,
                                     identical |-> Identical(k), cached |-> cached])
  /\ Goto(NextRun)
  /\ UNCHANGED <<cold, juliet, busy, forced, valid>>

\* An adapter that raises ends tcb, and no record is written.
Raise ==
  /\ pc = "scan"
  /\ Goto("exited")
  /\ cached' = TRUE
  /\ UNCHANGED <<cold, juliet, done, busy, forced, keys0, runs, valid>>

AllIdentical == \A m \in DOMAIN runs : runs[m].identical

ValidKeysOnly == AllIdentical /\ ~forced

\* findings_identical, and a measurement that was not forced.
Valid == /\ AllIdentical
         /\ \A m \in DOMAIN runs : runs[m].status = "ok"
         /\ ~forced

Summarise ==
  /\ pc = "summary"
  /\ valid' = Valid
  /\ Goto("done")
  /\ UNCHANGED <<cold, juliet, done, busy, cached, forced, keys0, runs>>

\* Another analyzer or a compiler starts or stops.
Others ==
  /\ pc \notin {"done", "exited"}
  /\ busy' = ~busy
  /\ UNCHANGED <<cold, juliet, pc, done, cached, forced, keys0, runs, valid>>

Next == \/ Start \/ NotRoot \/ Drop \/ Check \/ Prepare \/ Scan \/ Raise
        \/ Summarise \/ Others

Spec == Init /\ [][Next]_vars

-----------------------------------------------------------------------------
(* Properties.                                                             *)

\* timing.py:19-21: a valid record times runs that found the same keys and
\* all ended ok: any two repeats, not only neighbours or the first.
ValidIsOneThing ==
  pc = "done" /\ valid =>
    /\ Len(runs) = Repeats
    /\ \A m, n \in DOMAIN runs : runs[m].keys = runs[n].keys /\ runs[m].status = "ok"

Scanned == {runs[m].cached : m \in DOMAIN runs}

\* On a codebase --cold is what it says: neither a warmup nor the repeat
\* before nor the harness leaves the sources in the page cache of a repeat.
ColdCodebaseIsCold == cold /\ ~juliet => Scanned \subseteq {FALSE}

\* timing.py:14-15: --cold drops the page cache before every repeat, never
\* faked, so no repeat scans sources that are in it.
ColdIsCold == cold => Scanned \subseteq {FALSE}
=============================================================================
