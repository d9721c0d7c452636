--------------------------- MODULE RealworldTables ---------------------------
(***************************************************************************)
(* The real-world tables (tcb/tables.py): realworld-counts and             *)
(* realworld-precision of one bundle.  The labels are rows of the          *)
(* adjudication repository, read at the pinned commit, and those of the    *)
(* commit the corpus pins name.  A step of this specification pins a later *)
(* commit of the labels, in which a row was added, or another commit of    *)
(* the codebase; a table may be made in every state.                       *)
(*                                                                         *)
(* A place is a file and a line.                                           *)
(***************************************************************************)
EXTENDS Naturals, FiniteSets

CONSTANTS Places,       \* files with lines
          TableScope,   \* places whose file scope_include names and scope_exclude does not
          Columns, Checks, Rules,
          CertOf,       \* the CERT rules the mapping names for a check, perhaps none
          Current,      \* the commit of the codebase the bundle is of
          Other,        \* another commit, with labels of its own
          MaxFindings,  \* bound: findings of the bundle
          MaxLabels     \* bound: rows of the label file

Parameters == TableScope \subseteq Places /\ Current # Other

VARIABLES recs,    \* findings.jsonl
          labels,  \* the rows of data/<project>/adjudication.csv
          pinned   \* the commit of the codebase in pins/corpus.json

vars == <<recs, labels, pinned>>

Commits == {Current, Other}
Finding == [place : Places, column : Columns, check : Checks]
Label == [commit : Commits, place : Places, rule : Rules,
          verdict : {"TP", "FP", "uncertain"}]

TypeOK == recs \subseteq Finding /\ labels \subseteq Label /\ pinned \in Commits

Init == /\ recs \in {S \in SUBSET Finding : IsFiniteSet(S) /\ Cardinality(S) <= MaxFindings}
        /\ labels = {} /\ pinned = Current

\* A place is labelled once per commit and rule.
AddLabel ==
  /\ Cardinality(labels) < MaxLabels
  /\ \E new \in Label :
       /\ \A l \in labels : <<l.commit, l.place, l.rule>> # <<new.commit, new.place, new.rule>>
       /\ labels' = labels \cup {new}
  /\ UNCHANGED <<recs, pinned>>

\* pins/corpus.json names another commit; the bundle stays what it is.
MovePin == /\ \E c \in Commits \ {pinned} : pinned' = c
           /\ UNCHANGED <<recs, labels>>

Next == AddLabel \/ MovePin

Spec == Init /\ [][Next]_vars

-----------------------------------------------------------------------------
(* realworld_counts: findings, in_scope and in_scope_keys.                 *)

InScopeRecs == {f \in recs : f.place \in TableScope}

CountsRow == [findings |-> Cardinality(recs), inScope |-> Cardinality(InScopeRecs),
              keys |-> Cardinality({<<f.place, f.check>> : f \in InScopeRecs})]

-----------------------------------------------------------------------------
(* realworld_precision.                                                    *)

InScopeKeys == {<<f.place, f.check>> : f \in {g \in recs : g.place \in TableScope}}

\* _labels: the rows of the commit that is pinned now.
LabelsAt(commit) == {l \in labels : l.commit = commit}
LabelsOf == LabelsAt(pinned)

\* The verdicts that rows give under the rules of a key's check.
VerdictsIn(rows, key) ==
  {l.verdict : l \in {m \in rows : m.place = key[1] /\ m.rule \in CertOf[key[2]]}}
VerdictsOf(key) == VerdictsIn(LabelsOf, key)

ClassFirstFP(key) ==
  LET v == VerdictsOf(key)
  IN CASE v = {} -> "unlabeled" [] "FP" \in v -> "FP"
       [] "TP" \in v /\ "FP" \notin v -> "TP" [] OTHER -> "uncertain"

\* One true positive among the rules of a key makes it one.
Class(key) ==
  LET v == VerdictsOf(key)
  IN CASE v = {} -> "unlabeled" [] "TP" \in v -> "TP"
       [] "FP" \in v /\ "TP" \notin v -> "FP" [] OTHER -> "uncertain"

RecordsOf(class) == {f \in InScopeRecs : Class(<<f.place, f.check>>) = class}

KeysOf(class) == {k \in InScopeKeys : Class(k) = class}

PrecisionRow ==
  [keys |-> Cardinality(InScopeKeys),
   TP |-> Cardinality(KeysOf("TP")), FP |-> Cardinality(KeysOf("FP")),
   uncertain |-> Cardinality(KeysOf("uncertain")),
   unlabeled |-> Cardinality(KeysOf("unlabeled"))]

-----------------------------------------------------------------------------
(* Properties.                                                             *)

\* Every key that realworld-counts counts is in exactly one column.
ColumnsAddUp ==
  LET p == PrecisionRow
  IN CountsRow.keys = p.TP + p.FP + p.uncertain + p.unlabeled

\* A step that adds a label leaves a true positive one, takes no key out of
\* the labelled share, and none out of the table.
Settles ==
  /\ KeysOf("TP") \subseteq KeysOf("TP")'
  /\ KeysOf("unlabeled")' \subseteq KeysOf("unlabeled")
  /\ (KeysOf("TP") \cup KeysOf("FP")) \subseteq (KeysOf("TP") \cup KeysOf("FP"))'
  /\ ColumnsAddUp /\ ColumnsAddUp'

\* tables.py:229-243.  With more labels and an unmoved pin a true positive
\* stays one, a labelled key stays labelled (a false positive may become a
\* true one, when another rule of its check is labelled) and the columns add
\* up to the keys of the counts.
LabelsOnlySettle == [][pinned' = pinned => Settles]_vars

\* bundle.py:147-148: the commit is part of the key `a label attaches to`.
\* A finding is classified by labels of the commit it was found at.
LabelsAreOfTheBundle ==
  \A key \in InScopeKeys : VerdictsOf(key) = VerdictsIn(LabelsAt(Current), key)

=============================================================================
