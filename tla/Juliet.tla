------------------------------- MODULE Juliet -------------------------------
(***************************************************************************)
(* Juliet runs and the tables made of them.  run_juliet (tcb/run.py) goes  *)
(* through its CWE directories, sorts each finding into a section of the   *)
(* test case and counts; juliet-per-cwe and juliet-summary (tcb/tables.py) *)
(* read per_cwe.csv, flaw_lines.csv and findings.jsonl of several bundles  *)
(* and count again.                                                        *)
(*                                                                         *)
(* Each CWE directory holds one test case "test"; other files a tool may   *)
(* report are a header and a source that is no test case of the directory. *)
(***************************************************************************)
EXTENDS Naturals, FiniteSets

CONSTANTS Bundles,     \* the bundles a table is made of
          Tools,       \* the tools
          Given,       \* bound: of which tools the bundles may be
          Cwes,        \* the CWE directories
          Lines,       \* lines of a file
          BadLines, GoodLines, FlawLines,  \* of a test case
          Checks,      \* check ids
          Matches,     \* the CWEs the mapping names for each check
          Bounded,     \* tools that bound each entry point by a timeout of their own
          MaxFindings  \* bound: findings of a bundle per CWE

Parameters == /\ IsFiniteSet(FlawLines) /\ Lines \cup BadLines \cup GoodLines \cup FlawLines \subseteq Nat
              /\ Bounded \subseteq Tools /\ Given \subseteq [Bundles -> Tools]
              /\ MaxFindings \in Nat

\* Of a file that is no test case the line does not matter.
Record == [file : {"test"}, line : Lines, check : Checks]
            \cup [file : {"header", "other"}, line : {1}, check : Checks]

VARIABLES toolOf,    \* per bundle: its tool
          asked,     \* per bundle: the CWEs the run was asked for
          perCwe,    \* per bundle: the rows of per_cwe.csv
          findings,  \* per bundle: the findings, with cwe and section
          statusOf,  \* per bundle: the status so far
          bounds,    \* per bundle: the CWEs whose coverage counts a timeout of an entry
          cutShort   \* history, per bundle: CWEs with an invocation ended by a timeout

vars == <<toolOf, asked, perCwe, findings, statusOf, bounds, cutShort>>

Counts == 0..MaxFindings

Row == [status : {"ok", "skipped"}, findings : Nat, bad : Nat, good : Nat,
        unknown : Nat, flaws : Nat]
Finding == [cwe : Cwes, section : {"bad", "good", "support", "unknown"}, rec : Record]

TypeOK ==
  /\ toolOf \in [Bundles -> Tools] /\ asked \in [Bundles -> SUBSET Cwes]
  /\ DOMAIN perCwe = Bundles
  /\ \A b \in Bundles : /\ DOMAIN perCwe[b] \subseteq Cwes
                        /\ perCwe[b] \in [DOMAIN perCwe[b] -> Row]
  /\ findings \in [Bundles -> SUBSET Finding]
  /\ statusOf \in [Bundles -> {"ok", "timeout"}]
  /\ bounds \in [Bundles -> SUBSET Cwes] /\ cutShort \in [Bundles -> SUBSET Cwes]

\* Several of the bundles may be of one tool.  --cwe names the directories of a
\* run; the default is the whole manifest.
Init == /\ toolOf \in Given
        /\ asked \in [Bundles -> SUBSET Cwes \ {{}}]
        /\ perCwe = [b \in Bundles |-> << >>]
        /\ findings = [b \in Bundles |-> {}]
        /\ statusOf = [b \in Bundles |-> "ok"]
        /\ bounds = [b \in Bundles |-> {}] /\ cutShort = [b \in Bundles |-> {}]

-----------------------------------------------------------------------------
(* run_juliet.                                                             *)

\* The section of a finding; a line in both a bad and a good region is bad.
Section(r) ==
  CASE r.file = "test" /\ r.line \in BadLines -> "bad"
    [] r.file = "test" /\ r.line \in GoodLines \ BadLines -> "good"
    [] r.file = "header" -> "support"
    [] OTHER -> "unknown"

\* A FLAW: comment is a defect only inside a bad region.
Flaws == FlawLines \cap BadLines

RowDroppingSupport(recs) ==
  LET in(S) == Cardinality({r \in recs : Section(r) \in S})
  IN [status |-> "ok", findings |-> Cardinality(recs), bad |-> in({"bad"}),
      good |-> in({"good"}), unknown |-> in({"unknown"}), flaws |-> Cardinality(Flaws)]

\* The per_cwe row of a scanned directory: a support finding is counted as
\* unclassified.
ScanRow(recs) ==
  LET in(S) == Cardinality({r \in recs : Section(r) \in S})
  IN [status |-> "ok", findings |-> Cardinality(recs), bad |-> in({"bad"}),
      good |-> in({"good"}), unknown |-> in({"unknown", "support"}),
      flaws |-> Cardinality(Flaws)]

SkipRow == [status |-> "skipped", findings |-> 0, bad |-> 0, good |-> 0, unknown |-> 0,
            flaws |-> Cardinality(Flaws)]

AddRow(b, c, row) ==
  perCwe' = [perCwe EXCEPT ![b] = [d \in DOMAIN @ \cup {c} |-> IF d = c THEN row ELSE @[d]]]

\* The adapter returned neither an invocation nor a record.
Skip(b, c) == /\ c \in asked[b] \ DOMAIN perCwe[b]
              /\ AddRow(b, c, SkipRow)
              /\ UNCHANGED <<toolOf, asked, findings, statusOf, bounds, cutShort>>

\* A run with one invocation that was ended is a timeout to its end.
StatusOfLast(old, timedOut) == IF timedOut THEN "timeout" ELSE "ok"

Status(old, timedOut) == IF timedOut THEN "timeout" ELSE old

\* The invocations of one directory end by themselves or some are cut short;
\* what a tool bounds itself is expected, and its coverage counts it.  The
\* deduplicated records are classified and added.
Scan(b, c) ==
  /\ c \in asked[b] \ DOMAIN perCwe[b]
  /\ \E recs \in {S \in SUBSET Record : IsFiniteSet(S) /\ Cardinality(S) \in Counts} :
       /\ AddRow(b, c, ScanRow(recs))
       /\ findings' = [findings EXCEPT ![b] =
            @ \cup {[cwe |-> c, section |-> Section(r), rec |-> r] : r \in recs}]
  /\ \E cut \in BOOLEAN :
       LET expected == toolOf[b] \in Bounded
           add(S) == IF cut THEN S \cup {c} ELSE S
       IN /\ statusOf' = [statusOf EXCEPT ![b] = Status(@, cut /\ ~expected)]
          /\ bounds' = [bounds EXCEPT ![b] = IF expected THEN add(@) ELSE @]
          /\ cutShort' = [cutShort EXCEPT ![b] = add(@)]
  /\ UNCHANGED <<toolOf, asked>>

Next == \E b \in Bundles, c \in Cwes : Skip(b, c) \/ Scan(b, c)

Spec == Init /\ [][Next]_vars

-----------------------------------------------------------------------------
(* The tables: _juliet_rows, then juliet_summary.                          *)

Of(b, c, section) == {f \in findings[b] : f.cwe = c /\ f.section = section}

\* _cwe_matched: the finding's check reports the CWE the case is about.
Matched(b, c, section) == {f \in Of(b, c, section) : c \in Matches[f.rec.check]}

HitBySectionOnly(b, c) ==
  {l \in Flaws : \E f \in Of(b, c, "bad") : f.rec.line \in {l - 1, l, l + 1}}

\* A flaw line is hit by a matched finding in a bad region at most one line
\* off.
Hit(b, c) ==
  {l \in Flaws : \E f \in Matched(b, c, "bad") : f.rec.line \in {l - 1, l, l + 1}}

OkCwes(b) == {c \in DOMAIN perCwe[b] : perCwe[b][c].status = "ok"}

\* The rows of a tool are those of all its bundles; a tool none of whose
\* rows is "ok" has no entry in by_tool.
ToolCwes(t) == UNION {OkCwes(b) : b \in {x \in Bundles : toolOf[x] = t}}
ByTool == {t \in {toolOf[b] : b \in Bundles} : ToolCwes(t) # {}}

CommonAnyRow ==
  LET listed == {DOMAIN perCwe[b] : b \in {x \in Bundles : toolOf[x] \in ByTool}}
  IN {c \in Cwes : listed # {} /\ \A S \in listed : c \in S}

Common == {c \in Cwes : ByTool # {} /\ \A t \in ByTool : c \in ToolCwes(t)}

-----------------------------------------------------------------------------
(* Properties.                                                             *)

\* The two counts of a bundle agree: what a table counts in findings.jsonl
\* is what the run counted into per_cwe.csv, and every finding is counted.
CountsAgree ==
  \A b \in Bundles : \A c \in DOMAIN perCwe[b] :
    LET row == perCwe[b][c]
    IN /\ row.bad = Cardinality(Of(b, c, "bad"))
       /\ row.good = Cardinality(Of(b, c, "good"))
       /\ row.findings = row.bad + row.good + row.unknown

\* Detection and precision rest on the same findings: a flaw line that is
\* hit has a finding that counts for cwe_matched_bad, two flaw lines next to
\* each other may share it, and no more lines are hit than the recall
\* denominator of per_cwe.csv counts.
HitsAreMatched ==
  \A b \in Bundles : \A c \in DOMAIN perCwe[b] :
    /\ Cardinality(Hit(b, c)) <= perCwe[b][c].flaws
    /\ Cardinality(Hit(b, c)) <= 3 * Cardinality(Matched(b, c, "bad"))

\* tables.py juliet_summary: the common rows compare the tools that have
\* results on CWEs each of them was asked for and has scanned, not only
\* listed, in one of its bundles, and with one recall denominator for all.
\* That is less than tables.py:13 says, `the CWEs every given bundle covers`:
\* of two bundles of one tool one is enough, and a bundle of a tool without
\* an "ok" row has no say.  A tool left out that way has no findings to lose:
\* what a bundle has findings of it has scanned.
CommonIsCovered ==
  /\ \A t \in ByTool, c \in Common :
       \E b \in Bundles : toolOf[b] = t /\ c \in asked[b] \cap OkCwes(b)
  /\ \A c \in Common : \A b, d \in Bundles :
       c \in OkCwes(b) \cap OkCwes(d) => perCwe[b][c].flaws = perCwe[d][c].flaws
  /\ \A b \in Bundles : \A f \in findings[b] : f.cwe \in OkCwes(b) /\ toolOf[b] \in ByTool

\* run.py:187, frama_c.py:257: a bundle that says "ok", and whose tool counts
\* no timeout in a CWE, has scanned that CWE to the end, whatever came after;
\* and none is called a timeout that was not cut short.  (The row of
\* per_cwe.csv says "ok" in both cases.)
CutShortShows ==
  \A b \in Bundles :
    /\ \A c \in DOMAIN perCwe[b] \ bounds[b] : statusOf[b] = "ok" => c \notin cutShort[b]
    /\ statusOf[b] = "timeout" => cutShort[b] \ bounds[b] # {}
=============================================================================
