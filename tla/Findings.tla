------------------------------ MODULE Findings ------------------------------
(***************************************************************************)
(* From the records a tool reports to the findings.jsonl of its bundle,    *)
(* for two runs of one tool on one target: _dedupe (tcb/run.py) and finish *)
(* (tcb/bundle.py).  Each run's adapter reports its records in an order of *)
(* its own.                                                                *)
(*                                                                         *)
(* Fields that order and equality do not tell apart are left out: tool and *)
(* project are fixed, check ids and messages are one field.                *)
(***************************************************************************)
EXTENDS Naturals, Sequences, FiniteSets

CONSTANTS Lines, Columns, Checks, Severities,  \* sets of numbers
          Reported,   \* bound: the records of those that are reported
          MaxRecords  \* bound: records of a run

Record == [line : Lines, column : Columns, check : Checks, severity : Severities]
Runs == {"a", "b"}

VARIABLES raw,    \* the records each run's adapter has reported so far
          ended   \* runs whose adapter has returned

vars == <<raw, ended>>

Init == raw = [x \in Runs |-> <<>>] /\ ended = {}

\* The adapter reports a record.
Report(x) == /\ x \notin ended /\ Len(raw[x]) < MaxRecords
             /\ \E r \in Reported : raw' = [raw EXCEPT ![x] = Append(@, r)]
             /\ UNCHANGED ended

End(x) == x \notin ended /\ ended' = ended \cup {x} /\ UNCHANGED raw

Next == \E x \in Runs : Report(x) \/ End(x)

Spec == Init /\ [][Next]_vars

-----------------------------------------------------------------------------

KeyNoColumn(r) == <<r.line, r.check>>

\* The key of _dedupe; the severity is no part of it.
DedupeKey(r) == <<r.line, r.column, r.check>>

\* Of the records with one key the first is kept.
Dedupe(recs) ==
  LET first(n) == \A m \in 1..(n - 1) : DedupeKey(recs[m]) # DedupeKey(recs[n])
      kept == {n \in DOMAIN recs : first(n)}
      nth(k) == CHOOSE n \in kept : Cardinality({m \in kept : m < n}) = k - 1
  IN [k \in 1..Cardinality(kept) |-> recs[nth(k)]]

BeforeNoCheck(r, s) ==
  r.line < s.line \/ (r.line = s.line /\ r.column < s.column)

\* SORT_KEY.
Before(r, s) == \/ r.line < s.line
                \/ r.line = s.line /\ r.column < s.column
                \/ r.line = s.line /\ r.column = s.column /\ r.check < s.check

\* findings.jsonl: finish() sorts the deduplicated records; the sort is stable.
FindingsFile(x) ==
  LET d == Dedupe(raw[x])
      place(n) == 1 + Cardinality({m \in DOMAIN d : \/ Before(d[m], d[n])
                                                    \/ (m < n /\ ~Before(d[n], d[m]))})
  IN [k \in DOMAIN d |-> d[CHOOSE n \in DOMAIN d : place(n) = k]]

-----------------------------------------------------------------------------
(* Properties.                                                             *)

BothEnded == ended = Runs
Times(r, recs) == Cardinality({n \in DOMAIN recs : recs[n] = r})
SameRecords == \A r \in Record : Times(r, raw["a"]) = Times(r, raw["b"])

\* No tool gives one finding two severities.
SeverityIsFixed ==
  \A x, y \in Runs : \A m \in DOMAIN raw[x], n \in DOMAIN raw[y] :
    DedupeKey(raw[x][m]) = DedupeKey(raw[y][n]) => raw[x][m] = raw[y][n]

\* reproducing.md:11-15: two runs that report the same records in whatever
\* order write the same file, as long as a finding has one severity.
OrderStaysOut ==
  BothEnded /\ SameRecords /\ SeverityIsFixed => FindingsFile("a") = FindingsFile("b")

\* Nothing is lost or invented on the way from one call of _dedupe to the
\* file: it names each reported (line, column, check) exactly once.  (A
\* selfcheck has one CWE and one call; a Juliet run has one per directory,
\* and a finding in a support file two of them share is in its bundle twice.)
FileIsExact ==
  \A x \in ended :
    LET f == FindingsFile(x)
        place(r) == <<r.line, r.column, r.check>>
    IN /\ {place(f[n]) : n \in DOMAIN f} = {place(raw[x][n]) : n \in DOMAIN raw[x]}
       /\ \A m, n \in DOMAIN f : m # n => place(f[m]) # place(f[n])
=============================================================================
