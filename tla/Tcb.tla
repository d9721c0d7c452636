--------------------------------- MODULE Tcb ---------------------------------
(***************************************************************************)
(* The command line (tcb/__main__.py): a tcb process parses one command    *)
(* and runs it.  Of the commands this module has                           *)
(*   `tcb timing` (Timing), the pins a run asserts (PinCheck), `tcb run    *)
(*   realworld --tool infer` (Infer), `tcb run juliet` and the tables made *)
(*   of it (Juliet), `tcb selfcheck` (SelfCheck over Findings) and the     *)
(*   real-world tables (RealworldTables).                                  *)
(* The variables of a command that is not run have the value Off.          *)
(***************************************************************************)
EXTENDS Naturals, FiniteSets, Sequences

CONSTANT Off

CONSTANTS Repeats, Warmup, KeySets, Nothing
VARIABLES cold, juliet, pc, done, busy, cached, forced, keys0, runs, valid

CONSTANT MaxTouches
VARIABLES tool, known, host, tree, corpusPin, look, bad, commit, since, touches

CONSTANTS Sources, InScope, Headers, MaxEntries
VARIABLES step, db, units, failedAt, silent, codes, coverage, status

CONSTANTS Bundles, Tools, Given, Cwes, CaseLines, BadLines, GoodLines, FlawLines,
          CaseChecks, Matches, Bounded, MaxFindings
VARIABLES toolOf, asked, perCwe, findings, statusOf, bounds, cutShort

CONSTANTS Lines, Columns, Checks, Severities, Reported, MaxRecords, SectionOf, MaxPin, None
VARIABLES raw, ended, golden, written, working, pin, madeAt

CONSTANTS Places, TableScope, Rules, CertOf, Current, Other, MaxLabels
VARIABLES recs, labels, pinned

VARIABLE command

T == INSTANCE Timing
C == INSTANCE PinCheck
I == INSTANCE Infer
J == INSTANCE Juliet WITH Lines <- CaseLines, Checks <- CaseChecks
S == INSTANCE SelfCheck
W == INSTANCE RealworldTables

ASSUME CommandAssumption == /\ T!Parameters /\ C!Parameters /\ I!Parameters
                            /\ J!Parameters /\ S!ScParameters /\ W!Parameters

timingVars == <<cold, juliet, pc, done, busy, cached, forced, keys0, runs, valid>>
pinVars    == <<tool, known, host, tree, corpusPin, look, bad, commit, since, touches>>
inferVars  == <<step, db, units, failedAt, silent, codes, coverage, status>>
julietVars == <<toolOf, asked, perCwe, findings, statusOf, bounds, cutShort>>
checkVars  == <<raw, ended, golden, written, working, pin, madeAt>>
tableVars  == <<recs, labels, pinned>>
tcbVars    == <<command, timingVars, pinVars, inferVars, julietVars, checkVars, tableVars>>

TimingOff ==
  /\ cold = Off /\ juliet = Off /\ pc = Off /\ done = Off /\ busy = Off
  /\ cached = Off /\ forced = Off /\ keys0 = Off /\ runs = Off /\ valid = Off
PinsOff ==
  /\ tool = Off /\ known = Off /\ host = Off /\ tree = Off /\ corpusPin = Off
  /\ look = Off /\ bad = Off /\ commit = Off /\ since = Off /\ touches = Off
InferOff ==
  /\ step = Off /\ db = Off /\ units = Off /\ failedAt = Off /\ silent = Off
  /\ codes = Off /\ coverage = Off /\ status = Off
JulietOff ==
  /\ toolOf = Off /\ asked = Off /\ perCwe = Off /\ findings = Off
  /\ statusOf = Off /\ bounds = Off /\ cutShort = Off
SelfCheckOff ==
  /\ raw = Off /\ ended = Off /\ golden = Off /\ written = Off
  /\ working = Off /\ pin = Off /\ madeAt = Off
TablesOff == recs = Off /\ labels = Off /\ pinned = Off

\* main() parses the arguments.
Init == /\ command \in {"timing", "pins", "infer", "juliet", "selfcheck", "table"}
        /\ IF command = "timing" THEN T!Init ELSE TimingOff
        /\ IF command = "pins" THEN C!Init ELSE PinsOff
        /\ IF command = "infer" THEN I!Init ELSE InferOff
        /\ IF command = "juliet" THEN J!Init ELSE JulietOff
        /\ IF command = "selfcheck" THEN S!ScInit ELSE SelfCheckOff
        /\ IF command = "table" THEN W!Init ELSE TablesOff

\* args.func(args): the one command of the process.
Timing == /\ command = "timing" /\ T!Next
          /\ UNCHANGED <<command, pinVars, inferVars, julietVars, checkVars, tableVars>>
Pins   == /\ command = "pins" /\ C!Next
          /\ UNCHANGED <<command, timingVars, inferVars, julietVars, checkVars, tableVars>>
Infer  == /\ command = "infer" /\ I!Next
          /\ UNCHANGED <<command, timingVars, pinVars, julietVars, checkVars, tableVars>>
Juliet == /\ command = "juliet" /\ J!Next
          /\ UNCHANGED <<command, timingVars, pinVars, inferVars, checkVars, tableVars>>
SelfCheck == /\ command = "selfcheck" /\ S!ScNext
             /\ UNCHANGED <<command, timingVars, pinVars, inferVars, julietVars, tableVars>>
Table  == /\ command = "table" /\ W!Next
          /\ UNCHANGED <<command, timingVars, pinVars, inferVars, julietVars, checkVars>>

Next == Timing \/ Pins \/ Infer \/ Juliet \/ SelfCheck \/ Table

Spec == Init /\ [][Next]_tcbVars

-----------------------------------------------------------------------------
(* The properties of the commands, stated and explained in their modules.  *)

\* Every variable of the command that runs has its type.
TypeOK == /\ command = "timing" => T!TypeOK
          /\ command = "pins" => C!TypeOK
          /\ command = "infer" => I!TypeOK
          /\ command = "juliet" => J!TypeOK
          /\ command = "selfcheck" => S!ScTypeOK
          /\ command = "table" => W!TypeOK

\* timing.measure: a valid record times one thing.
ValidIsOneThing == command = "timing" => T!ValidIsOneThing

\* timing.drop_caches: --cold on a codebase scans sources from the disk.
ColdCodebaseIsCold == command = "timing" => T!ColdCodebaseIsCold

\* check.check_tools and check_corpus: a run on an unchanging machine is of the
\* tool and the checkout that passed the rows, pinned as far as those can tell.
PassedRunMatchesRows == command = "pins" => C!PassedRunMatchesRows

\* infer.capture_coverage and run._record: a unit whose loss Infer reports is
\* seen in the bundle.
ReportedLossesShow == command = "infer" => I!ReportedLossesShow

\* run.run_juliet and tables._juliet_rows count the same findings.
CountsAgree == command = "juliet" => J!CountsAgree

\* tables._juliet_rows: hits of flaw lines rest on matched findings.
HitsAreMatched == command = "juliet" => J!HitsAreMatched

\* tables.juliet_summary: the common CWEs are covered by every tool with results.
CommonIsCovered == command = "juliet" => J!CommonIsCovered

\* run.run_juliet: a CWE that was cut short shows in the bundle.
CutShortShows == command = "juliet" => J!CutShortShows

\* run._dedupe and bundle.finish: the order of arrival leaves no trace.
OrderStaysOut == command = "selfcheck" => S!OrderStaysOut

\* run._dedupe and bundle.finish: the file has each finding exactly once.
FileIsExact == command = "selfcheck" => S!FileIsExact

\* selfcheck.run: equal runs are no drift, of a golden of whole files.
NoFalseAlarm == command = "selfcheck" => S!NoFalseAlarm

\* selfcheck.run: a change of pins is no drift, by the last golden.json.
MismatchIsDrift == command = "selfcheck" => S!MismatchIsDrift

\* tables.realworld_precision: with more labels a TP stays one and a labelled
\* key stays labelled.
LabelsOnlySettle == [][command = "table" /\ pinned' = pinned => W!Settles]_tcbVars
=============================================================================
