-------------------------------- MODULE Infer --------------------------------
(***************************************************************************)
(* A real-world run of Infer: the compilation database cut to the scope    *)
(* (tcb/compile_db.py), one capture and one analysis (tcb/tools/infer.py), *)
(* the coverage the adapter reports and the status of the bundle           *)
(* (tcb/run.py).                                                           *)
(*                                                                         *)
(* Source files are numbered in the order of their real paths; two entries *)
(* of the database with the same number are one file compiled twice, or    *)
(* named by a symbolic link.  An invocation ends with 0, with 1 (and then  *)
(* prints a line with ": error:" or none), is ended by the harness with    *)
(* 124, or dies.  No exit status says that every unit was captured: Infer  *)
(* may pass a unit over without a word of it.                              *)
(*                                                                         *)
(* The number of files Infer says it starts to translate is taken to be    *)
(* the number it was handed.                                               *)
(***************************************************************************)
EXTENDS Naturals, FiniteSets, Sequences

CONSTANTS Sources,     \* real paths of source files
          InScope,     \* those under source_dirs that no exclude hits
          Headers,     \* files that translation units share, numbered as well
          MaxEntries   \* bound: entries of compile_commands.json

Parameters == /\ InScope \subseteq Sources /\ Sources \cup Headers \subseteq Nat
              /\ Sources \cap Headers = {} /\ MaxEntries \in Nat

VARIABLES step,      \* where the run is
          db,        \* compile_commands.json of the checkout
          units,     \* the entries of the filtered database, by index in db
          failedAt,  \* history: the place where the capture of a unit failed, if any
          silent,    \* history: units not captured of which no fatal error is printed
          codes,     \* the return codes of the invocations
          coverage,  \* ad.coverage
          status     \* the status of the bundle

vars == <<step, db, units, failedAt, silent, codes, coverage, status>>

Entry == [source : Sources, dotC : BOOLEAN]
Codes == {"0", "1", "1 error", "124", "died"}
NoCoverage == [handed |-> 0, captured |-> 0, partial |-> TRUE]

TypeOK ==
  /\ step \in {"filter", "capture", "analyze", "finish", "done"}
  /\ db.state \in {"missing", "garbled", "read"} /\ db.entries \in Seq(Entry)
  /\ units \in Seq(Nat)
  /\ failedAt \in [Sources -> SUBSET (Sources \cup Headers)]
  /\ silent \subseteq Sources
  /\ codes \in Seq(Codes) /\ Len(codes) <= 2
  /\ coverage \in [handed : 0..MaxEntries, captured : 0..MaxEntries, partial : BOOLEAN]
  /\ status \in {"running", "ok", "timeout"}

\* A checkout may lack the database (sel4 does), or hold what is not JSON.
Init == /\ step = "filter"
        /\ \/ \E st \in {"missing", "garbled"} : db = [state |-> st, entries |-> <<>>]
           \/ \E n \in 0..MaxEntries :
                db \in [state : {"read"}, entries : [1..n -> Entry]]
        /\ units = <<>> /\ codes = <<>>
        /\ failedAt = [s \in Sources |-> {}] /\ silent = {}
        /\ coverage = NoCoverage /\ status = "running"

-----------------------------------------------------------------------------
(* compile_db.filtered.                                                    *)

\* The first .c entry of each file in scope.
Kept(d) ==
  LET eligible == {n \in DOMAIN d : d[n].dotC /\ d[n].source \in InScope}
  IN {n \in eligible : \A m \in eligible : d[m].source = d[n].source => n <= m}

\* kept.sort: by the real path, of which each entry kept has its own.
Filtered(d) ==
  LET before(n) == {m \in Kept(d) : d[m].source < d[n].source}
  IN [k \in 1..Cardinality(Kept(d)) |-> CHOOSE n \in Kept(d) : Cardinality(before(n)) = k - 1]

\* Without a database, or with none that names a file in scope, nothing is
\* run; the coverage says so.
Filter ==
  /\ step = "filter"
  /\ units' = Filtered(db.entries)
  /\ step' = IF units' = <<>> THEN "finish" ELSE "capture"
  /\ UNCHANGED <<db, failedAt, silent, codes, coverage, status>>

-----------------------------------------------------------------------------
(* _capture_analyze and capture_coverage.                                  *)

SourceOf(n) == db.entries[units[n]].source
UnitFiles == {SourceOf(n) : n \in DOMAIN units}

\* capture_coverage: the places of the fatal errors are counted, each once,
\* and taken from the number of files Infer says it starts to translate; if
\* it was ended before it said so, from the number it was handed.
CoverageOf(failures) ==
  LET handed   == Len(units)
      captured == handed - Cardinality(failures)
  IN [handed |-> handed, captured |-> captured, partial |-> captured < handed]

CoverageOfKnown(failures) == CoverageOf(failures \ Headers)

Coverage(failures) == CoverageOf(failures)

\* Where the capture of a unit reports its error.
PlaceOf(at, h, s) == CASE at[s] = "itself" -> {s} [] at[s] = "header" -> {h} [] OTHER -> {}

\* infer capture --keep-going: a unit that will not preprocess is passed
\* over; the fatal error is printed for the unit, or for a header that others
\* include as well.  Units are also lost without one: those a capture that is
\* ended or dies never came to, and those that fail in another way, with 0
\* and with 1 as well.
Capture ==
  /\ step = "capture"
  /\ \E code \in Codes, left \in SUBSET UnitFiles :
     \E at \in [UnitFiles -> {"nowhere", "itself", "header"}], h \in Headers :
       /\ \A s \in left : PlaceOf(at, h, s) = {}
       /\ failedAt' = [s \in Sources |-> IF s \in UnitFiles THEN PlaceOf(at, h, s) ELSE {}]
       /\ silent' = left
       /\ codes' = <<code>>
       /\ coverage' = Coverage(UNION {PlaceOf(at, h, s) : s \in UnitFiles})
       /\ step' = IF code = "124" THEN "finish" ELSE "analyze"
  /\ UNCHANGED <<db, units, status>>

\* infer analyze, on whatever was captured.
Analyze == /\ step = "analyze"
           /\ \E code \in Codes : codes' = Append(codes, code)
           /\ step' = "finish"
           /\ UNCHANGED <<db, units, failedAt, silent, coverage, status>>

\* run_realworld: any invocation that timed out makes the bundle a timeout.
Status == IF \E n \in DOMAIN codes : codes[n] = "124" THEN "timeout" ELSE "ok"

\* _record: 0 is no failure, and 1 only if the output has ": error:".
FailedInvocations == Cardinality({n \in DOMAIN codes : codes[n] \notin {"0", "1"}})

Finish == /\ step = "finish"
          /\ status' = Status
          /\ step' = "done"
          /\ UNCHANGED <<db, units, failedAt, silent, codes, coverage>>

Next == Filter \/ Capture \/ Analyze \/ Finish

Spec == Init /\ [][Next]_vars

-----------------------------------------------------------------------------
(* Properties.                                                             *)

Captured == {s \in UnitFiles : failedAt[s] = {} /\ s \notin silent}

\* The .c files in scope that the database names.
Wanted == {s \in InScope : \E n \in DOMAIN db.entries : db.entries[n] = [source |-> s, dotC |-> TRUE]}

\* infer.py:15-18, as far as the code keeps it.  coverage.tool speaks of each
\* .c file in scope that the database names, once (curl's database names the
\* files of lib/ twice); it is partial exactly if there is none or one had a
\* fatal error, be it one that several files share; what else is missing was
\* lost without such a line, which no return code rules out; and a bundle
\* with neither mark nor failed invocation did not time out.
ReportedLossesShow ==
  step = "done" =>
    /\ coverage.handed = Cardinality(Wanted)
    /\ coverage.partial <=> (Wanted = {} \/ \E s \in Wanted : failedAt[s] # {})
    /\ ~coverage.partial => Wanted \ Captured \subseteq silent
    /\ ~coverage.partial /\ FailedInvocations = 0 => status = "ok"

\* infer.py:15-18, `the shortfall is recorded instead`: coverage.tool carries
\* captured against in-scope units, so a file that was not captured shows in
\* it, whatever else the bundle says.
ShortfallIsRecorded ==
  status # "running" /\ Captured # UnitFiles => coverage.partial
=============================================================================
