----------------------------- MODULE BundleStore -----------------------------
(***************************************************************************)
(* The run bundles under runs/ (tcb/bundle.py), as the `tcb run` processes *)
(* of one tool and target write them (tcb/run.py) and `tcb bundles` and    *)
(* `tcb table` read them.  Nothing locks the directory: names are probed   *)
(* before they are made, files are truncated before they are written, and  *)
(* a process may die between any two steps.                                *)
(*                                                                         *)
(* A bundle's name is its start second and a suffix number.  A file is     *)
(* "absent", "torn" between its truncation and its last write, or holds    *)
(* what was written: "whole", or for meta.json the status it shows.        *)
(***************************************************************************)
EXTENDS Naturals, Sequences

CONSTANTS Runs,      \* the processes that run the tool
          MaxClock,  \* bound: seconds of the clock
          Nowhere    \* "no bundle"

ASSUME ClockAssumption == MaxClock \in Nat

VARIABLES clock,   \* the second of datetime.now
          pc,      \* each run's place in the code
          dir,     \* the name it probes, then its bundle
          step,    \* the next write of the run
          disk,    \* the files of each existing bundle
          snap     \* a reader: the bundle and what it has read of each file

vars == <<clock, pc, dir, step, disk, snap>>

Names == (0..MaxClock) \X (Nat \ {0})

ASSUME NowhereAssumption == Nowhere \notin Names

Files == {"meta", "percwe", "findings", "perfile"}
Contents == {"absent", "torn", "whole", "running", "final"}

\* A new bundle has no files; an idle reader has read none.
Empty == [f \in Files |-> "absent"]
Idle  == [bundle |-> Nowhere, read |-> [f \in {} |-> "absent"]]

TypeOK ==
  /\ clock \in 0..MaxClock
  /\ pc \in [Runs -> {"checking", "naming", "making", "writing", "open",
                      "done", "refused", "raised", "crashed"}]
  /\ dir \in [Runs -> Names \cup {Nowhere}]
  /\ step \in [Runs -> 1..7]
  /\ DOMAIN disk \subseteq Names /\ disk \in [DOMAIN disk -> [Files -> Contents]]
  /\ snap = [bundle |-> snap.bundle, read |-> snap.read]
  /\ snap.bundle \in Names \cup {Nowhere}
  /\ DOMAIN snap.read \subseteq Files /\ snap.read \in [DOMAIN snap.read -> Contents]

Init == /\ clock = 0
        /\ pc = [r \in Runs |-> "checking"]
        /\ dir = [r \in Runs |-> Nowhere]
        /\ step = [r \in Runs |-> 1]
        /\ disk = [d \in {} |-> Empty]
        /\ snap = Idle

-----------------------------------------------------------------------------
(* A run.                                                                  *)

Goto(r, l) == pc' = [pc EXCEPT ![r] = l]

\* _refuse_on_failed: a failed check row ends the run before it has a bundle.
Check(r) == /\ pc[r] = "checking"
            /\ \/ /\ dir' = [dir EXCEPT ![r] = <<clock, 1>>]
                  /\ Goto(r, "naming")
               \/ Goto(r, "refused") /\ UNCHANGED dir
            /\ UNCHANGED <<clock, step, disk, snap>>

\* while self.dir.exists(): n += 1
Probe(r) == LET d == dir[r]
            IN /\ pc[r] = "naming"
               /\ IF d \in DOMAIN disk
                  THEN dir' = [dir EXCEPT ![r] = <<d[1], d[2] + 1>>] /\ UNCHANGED pc
                  ELSE Goto(r, "making") /\ UNCHANGED dir
               /\ UNCHANGED <<clock, step, disk, snap>>

MkdirExistOk(r) ==
  /\ pc[r] = "making"
  /\ Goto(r, "writing")
  /\ disk' = IF dir[r] \in DOMAIN disk THEN disk
             ELSE [d \in DOMAIN disk \cup {dir[r]} |-> IF d = dir[r] THEN Empty ELSE disk[d]]
  /\ UNCHANGED <<clock, dir, step, snap>>

\* mkdir(exist_ok=False) raises if another run made the directory meanwhile.
Mkdir(r) ==
  /\ pc[r] = "making"
  /\ IF dir[r] \in DOMAIN disk
     THEN Goto(r, "raised") /\ UNCHANGED disk
     ELSE /\ Goto(r, "writing")
          /\ disk' = [d \in DOMAIN disk \cup {dir[r]} |-> IF d = dir[r] THEN Empty ELSE disk[d]]
  /\ UNCHANGED <<clock, dir, step, snap>>

WritesMetaEarly ==
  << <<"meta", "running">>, <<"meta", "running">>, <<"meta", "running">>,
     <<"meta", "final">>, <<"percwe", "whole">>, <<"findings", "whole">>,
     <<"perfile", "whole">> >>

\* The files in the order a Juliet run writes them: Bundle(), record_checks
\* and record_envelope write meta.json with status "running"; per_cwe.csv
\* (and flaw_lines.csv) come before finish(), which writes meta.json last.
Writes ==
  << <<"meta", "running">>, <<"meta", "running">>, <<"meta", "running">>,
     <<"percwe", "whole">>, <<"findings", "whole">>, <<"perfile", "whole">>,
     <<"meta", "final">> >>

Store(r, content) ==
  disk' = [disk EXCEPT ![dir[r]][Writes[step[r]][1]] = content]

\* open(path, "w") truncates the file.
Open(r) == /\ pc[r] = "writing"
           /\ Goto(r, "open")
           /\ Store(r, "torn")
           /\ UNCHANGED <<clock, dir, step, snap>>

WriteOffByOne(r) ==
  /\ pc[r] = "open"
  /\ Store(r, Writes[step[r]][2])
  /\ IF step[r] > Len(Writes)
     THEN Goto(r, "done") /\ UNCHANGED step
     ELSE Goto(r, "writing") /\ step' = [step EXCEPT ![r] = @ + 1]
  /\ UNCHANGED <<clock, dir, snap>>

Write(r) == /\ pc[r] = "open"
            /\ Store(r, Writes[step[r]][2])
            /\ IF step[r] = Len(Writes)
               THEN Goto(r, "done") /\ UNCHANGED step
               ELSE Goto(r, "writing") /\ step' = [step EXCEPT ![r] = @ + 1]
            /\ UNCHANGED <<clock, dir, snap>>

\* The process is killed, the machine stops, or the adapter raises: the
\* files stay as they are.
Crash(r) == /\ pc[r] \in {"naming", "making", "writing", "open"}
            /\ Goto(r, "crashed")
            /\ UNCHANGED <<clock, dir, step, disk, snap>>

-----------------------------------------------------------------------------
(* A reader: list_bundles, then _load, which reads meta.json, then         *)
(* findings.jsonl, then (for the Juliet tables) per_cwe.csv.               *)

\* list_bundles shows the directories that have a meta.json.
Choose == /\ snap.bundle = Nowhere
          /\ \E d \in DOMAIN disk : /\ disk[d]["meta"] # "absent"
                                    /\ snap' = [Idle EXCEPT !.bundle = d]
          /\ UNCHANGED <<clock, pc, dir, step, disk>>

FindingsFirst == <<"findings", "meta", "percwe">>

ReadOrder == <<"meta", "findings", "percwe">>

\* A torn file does not parse, except that a findings.jsonl cut between two
\* records is read as if it were whole, and one that is missing as if it
\* were empty; a missing meta.json or per_cwe.csv raises.
Readable(f, c) == \/ c \in {"whole", "running", "final"}
                  \/ f = "findings" /\ c \in {"absent", "torn"}

With(read, f, c) == [g \in DOMAIN read \cup {f} |-> IF g = f THEN c ELSE read[g]]

ReadFile(f) ==
  LET c == disk[snap.bundle][f]
  IN /\ \/ Readable(f, c) /\ snap' = [snap EXCEPT !.read = With(@, f, c)]
        \/ /\ c = "torn" \/ ~Readable(f, c)
           /\ snap' = Idle
     /\ UNCHANGED <<clock, pc, dir, step, disk>>

Loaded == DOMAIN snap.read = {"meta", "findings", "percwe"}

ReadNext ==
  /\ snap.bundle # Nowhere /\ ~Loaded
  /\ \E k \in 1..3 : /\ DOMAIN snap.read = {ReadOrder[j] : j \in 1..(k - 1)}
                     /\ ReadFile(ReadOrder[k])

\* The table is made; the reader turns to another bundle.
Emit == /\ Loaded
        /\ snap' = Idle
        /\ UNCHANGED <<clock, pc, dir, step, disk>>

-----------------------------------------------------------------------------
Tick == /\ clock < MaxClock
        /\ clock' = clock + 1
        /\ UNCHANGED <<pc, dir, step, disk, snap>>

Run(r) == Check(r) \/ Probe(r) \/ Mkdir(r) \/ Open(r) \/ Write(r)

Next == \/ \E r \in Runs : Run(r) \/ Crash(r)
        \/ Choose \/ ReadNext \/ Emit
        \/ Tick

Spec == Init /\ [][Next]_vars

-----------------------------------------------------------------------------
(* Properties.                                                             *)

Writing(r) == pc[r] \in {"writing", "open", "done"}

\* Two runs, started in the same second or not, never write into one bundle.
DirExclusive == \A r, s \in Runs : r # s /\ Writing(r) /\ Writing(s) => dir[r] # dir[s]

\* A status other than "running" means that the whole bundle is there: the
\* bundle of a run that died at any point is not taken for a finished one.
FinalIsWhole ==
  \A d \in DOMAIN disk : disk[d]["meta"] = "final" =>
    \A f \in Files \ {"meta"} : disk[d][f] = "whole"

\* What a table loads of a bundle while the run may still be writing it: if
\* the status it read says finished, so are the files it read after it.
LoadIsConsistent ==
  Loaded /\ snap.read["meta"] = "final" =>
    snap.read["findings"] = "whole" /\ snap.read["percwe"] = "whole"

\* A finished bundle is never written to again, by its own run or another.
FinalIsFrozen ==
  [][\A d \in DOMAIN disk : disk[d]["meta"] = "final" => disk'[d] = disk[d]]_vars

\* A bundle that says that it finished, and is not all there, is in no state
\* a Ledger knows.
State(d) == IF disk[d]["meta"] # "final" THEN "open"
            ELSE IF \A f \in Files \ {"meta"} : disk[d][f] = "whole" THEN "finished"
            ELSE "broken"

View == [bundle   |-> snap.bundle,
         finished |-> snap.read["meta"] = "final",
         complete |-> \A f \in {"findings", "percwe"} : snap.read[f] = "whole"]

Promise == INSTANCE Ledger WITH
  state  <- [d \in DOMAIN disk |-> State(d)],
  author <- [r \in Runs |-> IF Writing(r) THEN dir[r] ELSE Nowhere],
  view   <- IF Loaded THEN View ELSE Nowhere

\* bundle.py, `a run bundle ... every table is computed from bundles`: with
\* names that are probed, files that are written one after the other, and
\* processes that die anywhere, the directory is to its readers a store of
\* whole bundles with one author each.
ActsAsLedger == Promise!Spec
=============================================================================
