------------------------------ MODULE SelfCheck ------------------------------
(***************************************************************************)
(* `tcb selfcheck` (tcb/selfcheck.py) over the two runs of Findings: the   *)
(* golden is four files, each opened for writing, which empties it, and    *)
(* then written, one after the other, by `--update` from a fresh run; any  *)
(* other run is compared with what they hold.  Each run is a process of    *)
(* its own, "a" the older one; either may update the golden, and may die   *)
(* at any point of it.                                                     *)
(*                                                                         *)
(* The pins are one number, and may be raised and put back.  golden.json   *)
(* names the pins of the moment it is written, not those the run asserted: *)
(* that they are the same is assumed, pins move while no selfcheck is at   *)
(* work, and two are never at work at once.                                *)
(***************************************************************************)
EXTENDS Findings

CONSTANTS SectionOf,  \* the section of each line
          MaxPin,     \* bound: the pins are one of 0..MaxPin
          None        \* no golden file

Golden == [run : Runs, pin : 0..MaxPin, whole : BOOLEAN]

ScParameters == /\ MaxPin \in Nat /\ Lines \cup Columns \cup Checks \subseteq Nat
                /\ Reported \subseteq Record /\ None \notin Golden

VARIABLES golden,   \* per file: the update it is of, its pins, and if it is whole
          written,  \* files each run's update has written
          working,  \* the run whose process is alive
          pin,      \* the pins in the repository
          madeAt    \* the pins each run was made under

scVars == <<raw, ended, golden, written, working, pin, madeAt>>

GoldenFirst == <<"golden.json", "keys.csv", "per_check.csv", "per_cwe.csv">>

\* The files in the order _write writes them.
GoldenFiles == <<"keys.csv", "per_check.csv", "per_cwe.csv", "golden.json">>
Files == {GoldenFiles[n] : n \in DOMAIN GoldenFiles}

ScTypeOK ==
  /\ raw \in [Runs -> Seq(Record)] /\ ended \subseteq Runs
  /\ golden \in [Files -> Golden \cup {None}] /\ written \in [Runs -> 0..Len(GoldenFiles)]
  /\ working \in Runs \cup {"nobody"}
  /\ pin \in 0..MaxPin /\ madeAt \in [Runs -> 0..MaxPin]

ScInit == /\ Init
          /\ golden = [f \in Files |-> None]
          /\ written = [x \in Runs |-> 0]
          /\ working = "nobody"
          /\ pin = 0 /\ madeAt = [x \in Runs |-> 0]

-----------------------------------------------------------------------------
(* The runs.                                                               *)

Begin(x) == /\ working = "nobody" /\ x \notin ended
            /\ x = "b" => "a" \in ended
            /\ working' = x
            /\ UNCHANGED <<raw, ended, golden, written, pin, madeAt>>

RunReport(x) == /\ working = x /\ Report(x)
                /\ UNCHANGED <<golden, written, working, pin, madeAt>>

\* run_juliet returns; it has asserted the pins.
RunEnd(x) == /\ working = x /\ End(x)
             /\ madeAt' = [madeAt EXCEPT ![x] = pin]
             /\ UNCHANGED <<golden, written, working, pin>>

Opened(x, f) == golden[f] # None /\ golden[f].run = x

\* _write: open(..., "w") or write_text empties or makes the next file.
OpenGolden(x) ==
  /\ working = x /\ x \in ended /\ written[x] < Len(GoldenFiles)
  /\ LET f == GoldenFiles[written[x] + 1]
     IN /\ ~Opened(x, f)
        /\ golden' = [golden EXCEPT ![f] = [run |-> x, pin |-> pin, whole |-> FALSE]]
  /\ UNCHANGED <<raw, ended, written, working, pin, madeAt>>

\* The last of its content reaches the file.
CloseGolden(x) ==
  /\ working = x /\ written[x] < Len(GoldenFiles)
  /\ LET f == GoldenFiles[written[x] + 1]
     IN /\ Opened(x, f)
        /\ golden' = [golden EXCEPT ![f] = [run |-> x, pin |-> pin, whole |-> TRUE]]
  /\ written' = [written EXCEPT ![x] = @ + 1]
  /\ UNCHANGED <<raw, ended, working, pin, madeAt>>

\* The process has compared or updated, or dies at any point of that.
Leave(x) == /\ working = x /\ x \in ended
            /\ working' = "nobody"
            /\ UNCHANGED <<raw, ended, golden, written, pin, madeAt>>

\* git pull or checkout in this repository.
MovePin == /\ working = "nobody"
           /\ \E p \in 0..MaxPin \ {pin} : pin' = p
           /\ UNCHANGED <<raw, ended, golden, written, working, madeAt>>

ScNext == \/ MovePin
          \/ \E x \in Runs : \/ Begin(x) \/ RunReport(x) \/ RunEnd(x)
                             \/ OpenGolden(x) \/ CloseGolden(x) \/ Leave(x)

ScSpec == ScInit /\ [][ScNext]_scVars

-----------------------------------------------------------------------------
(* The comparison.                                                         *)

FindingOf(x) == LET f == FindingsFile(x) IN {f[n] : n \in DOMAIN f}

KeysAsReported(x) ==
  LET d == Dedupe(raw[x]) IN [n \in DOMAIN d |-> <<d[n].line, d[n].check>>]

\* _artifacts: keys is a set, per_check counts records by check and section.
Keys(x) == {<<r.line, r.check>> : r \in FindingOf(x)}

PerCheck(x) ==
  [p \in Checks \X {SectionOf[l] : l \in Lines} |->
     Cardinality({r \in FindingOf(x) : r.check = p[1] /\ SectionOf[r.line] = p[2]})]

\* What run() may answer for a tool whose run finds what x found.  _read looks
\* for golden.json first; it raises if another file is missing or golden.json
\* is cut short, and may raise or not on rows that are.  The pins come before
\* the findings; per_cwe.csv is read and never compared.
Answers(x) ==
  LET torn == \E f \in {"keys.csv", "per_check.csv"} : ~golden[f].whole
      same == /\ Keys(x) = Keys(golden["keys.csv"].run)
              /\ PerCheck(x) = PerCheck(golden["per_check.csv"].run)
  IN IF golden["golden.json"] = None THEN {"noGolden"}
     ELSE IF (\E f \in Files : golden[f] = None) \/ ~golden["golden.json"].whole THEN {"raises"}
     ELSE IF golden["golden.json"].pin # pin THEN IF torn THEN {"raises", "pinsDiffer"} ELSE {"pinsDiffer"}
     ELSE IF torn THEN {"raises", "mismatch", "ok"}
     ELSE IF same THEN {"ok"} ELSE {"mismatch"}

\* x asks, or a later run under its pins that finds the same.
Asking(x) == x \in ended /\ madeAt[x] = pin

-----------------------------------------------------------------------------
(* Properties.                                                             *)

\* A run that reports what the golden's runs reported, in whatever order, is
\* not called drift, also when an update that died between two files left a
\* golden of two updates.  An update that dies inside a file over an older
\* golden.json is no such case: what it cut short may be called a mismatch.
NoFalseAlarm ==
  BothEnded /\ SameRecords /\ (\A f \in Files : golden[f] # None => golden[f].whole) =>
    \A x \in Runs : Asking(x) => "mismatch" \notin Answers(x)

LastUpdate == IF \E f \in Files : Opened("b", f) THEN "b" ELSE "a"

\* selfcheck.py:12-13: what is reported as drift is no change of pins and no
\* half-written file, wherever updates died, unless the golden.json that let
\* the comparison through is of an older update than the last one.  (Then it
\* may be: after an update under other pins that died, and the pins put
\* back, golden.json names the right pins and keys.csv is of the wrong ones.)
MismatchIsDrift ==
  \A x \in Runs :
    Asking(x) /\ "mismatch" \in Answers(x) /\ golden["golden.json"].run = LastUpdate =>
      \A f \in {"keys.csv", "per_check.csv"} :
        golden[f] = [run |-> LastUpdate, pin |-> madeAt[x], whole |-> TRUE]
=============================================================================
