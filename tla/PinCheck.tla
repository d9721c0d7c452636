------------------------------- MODULE PinCheck -------------------------------
(***************************************************************************)
(* The pinned inputs of a run (tcb/check.py, tcb/run.py): run_realworld    *)
(* asserts the rows of its tool, of its corpus and of aurora-lint, refuses *)
(* on a failed one, reads the pins again for the commit it writes into     *)
(* every finding, and scans.  A row is one look at the machine: packages,  *)
(* PATH, the checkout and the pin file may change between any two looks.   *)
(*                                                                         *)
(* The tools and their policies are those of pins/tools.json.  The rows of *)
(* aurora-lint itself, which AuroraBuild has one by one, pass or fail.     *)
(***************************************************************************)
EXTENDS Naturals, FiniteSets

CONSTANT MaxTouches  \* bound: changes of the machine before or during the run

Parameters == MaxTouches \in Nat

\* version_policy and origin.kind of each tool.
Policy == [t \in {"cppcheck", "clang-tidy", "infer", "frama-c"} |->
             IF t = "cppcheck" THEN "distro" ELSE "exact"]
Origin == [t \in DOMAIN Policy |-> IF t = "infer" THEN "prebuilt"
                                   ELSE IF t = "frama-c" THEN "opam" ELSE "dpkg"]

\* What is installed where the pin says: "patched" prints the pinned version
\* and is another package or build.  A shim of that name, earlier on PATH,
\* prints the pinned version too.
Host == [shim : BOOLEAN, installed : {"pinned", "patched", "upgraded", "absent"}]

\* The checkout of the corpus; stray are its untracked or ignored C files:
\* next to tracked ones, there with a name git quotes, or in a directory
\* without tracked files.
Commits == {"this", "that"}
Tree == [git : BOOLEAN, head : Commits, modified : BOOLEAN, stray : SUBSET {"file", "quoted", "dir"}]

VARIABLES tool,     \* --tool
          known,    \* pins/tools.json has the distribution
          host, tree,
          corpusPin,  \* the commit pins/corpus.json names
          look,     \* the next look
          bad,      \* a row has failed
          commit,   \* codebase_commit of the findings
          since,    \* what has changed after the first look at it
          touches   \* changes so far

runVars == <<tool, known, commit>>
machine == <<host, tree, corpusPin, since, touches>>
vars == <<runVars, machine, look, bad>>

Looks == {"version", "path", "origin", "head", "status", "lint"}
Ends == {"done", "refused"}

TypeOK ==
  /\ tool \in DOMAIN Policy /\ known \in BOOLEAN
  /\ host \in Host /\ tree \in Tree /\ corpusPin \in Commits
  /\ look \in Looks \cup {"refuse", "entry", "scan"} \cup Ends
  /\ bad \in BOOLEAN /\ commit \in Commits \cup {"none"}
  /\ since \subseteq {"host", "tree", "pin"} /\ touches \in 0..MaxTouches

\* The machine was provisioned to its pins once.
Init == /\ tool \in DOMAIN Policy /\ known \in BOOLEAN
        /\ host = [shim |-> FALSE, installed |-> "pinned"]
        /\ corpusPin = "this"
        /\ tree = [git |-> TRUE, head |-> corpusPin, modified |-> FALSE, stray |-> {}]
        /\ look = "version" /\ bad = FALSE /\ commit = "none"
        /\ since = {} /\ touches = 0

-----------------------------------------------------------------------------
(* Which binary a command names.                                           *)

ByPath == IF host.shim THEN "shim" ELSE host.installed

\* `opam exec --` and `opam var bin`: the switch first, then PATH.
ByOpam == IF host.installed # "absent" THEN host.installed ELSE ByPath

Binary == IF Origin[tool] = "opam" THEN ByOpam ELSE ByPath

-----------------------------------------------------------------------------
(* The rows.                                                               *)

\* The row is added whether or not an earlier one failed.
Row(here, ok, next) ==
  /\ look = here
  /\ bad' = (bad \/ ~ok)
  /\ look' = next
  /\ UNCHANGED <<runVars, machine>>

\* _run: a command that does not answer in time leaves a text that no row
\* accepts.
Asked(here, ok, next) == \E late \in BOOLEAN : Row(here, ok /\ ~late, next)

\* check_tool returns at once if policy "distro" has no pin for this one.
Unpinned == Policy[tool] = "distro" /\ ~known
UnknownDistro == Unpinned /\ Row("version", FALSE, "head")

\* 1. what the tool prints.
Version == ~Unpinned /\ Asked("version", Binary \in {"shim", "pinned", "patched"}, "path")

\* 2. where `which` finds it; frama-c has no resolved_path.
PathFound == Row("path", Origin[tool] = "opam" \/ ByPath # "absent", "origin")

Path == Row("path", Origin[tool] = "opam" \/ ByPath \notin {"shim", "absent"}, "origin")

\* 3. what is installed there: the package version of the distribution or of
\* the switch is asserted whole, that of clang-tidy up to its build, and a
\* prebuilt archive only exists.
OriginRow ==
  LET accepted == IF Origin[tool] = "prebuilt" THEN {"pinned", "patched", "upgraded"}
                  ELSE IF Origin[tool] = "dpkg" /\ Policy[tool] = "exact"
                       THEN {"pinned", "patched"} ELSE {"pinned"}
  IN IF Origin[tool] = "prebuilt" THEN Row("origin", host.installed \in accepted, "head")
     ELSE Asked("origin", host.installed \in accepted, "head")

\* check_repo: one row without a checkout, else HEAD against the pin.
Head == IF tree.git THEN Asked("head", tree.head = corpusPin, "status") ELSE Row("head", FALSE, "lint")

\* git status names a directory without tracked files, not what is in it, and
\* a name it quotes ends in `.c"`, which is not one of the endings looked for.
Listed == {"file"}
StatusRow == Asked("status", ~tree.modified /\ tree.stray \cap Listed = {}, "lint")

Lint == \E ok \in BOOLEAN : Row("lint", ok, "refuse")

-----------------------------------------------------------------------------
(* The run.                                                                *)

\* _refuse_on_failed.
Refuse == /\ look = "refuse"
          /\ look' = IF bad THEN "refused" ELSE "entry"
          /\ UNCHANGED <<runVars, machine, bad>>

\* pins.corpus() is read anew.
Entry == /\ look = "entry"
         /\ commit' = corpusPin
         /\ look' = "scan"
         /\ UNCHANGED <<tool, known, machine, bad>>

Scan == /\ look = "scan"
        /\ look' = "done"
        /\ UNCHANGED <<runVars, machine, bad>>

-----------------------------------------------------------------------------
(* Everyone else.                                                          *)

Touch(what, looked) ==
  /\ look \notin Ends
  /\ touches < MaxTouches /\ touches' = touches + 1
  /\ since' = IF looked THEN since \cup {what} ELSE since
  /\ UNCHANGED <<runVars, look, bad>>

LookedAtTree == look \notin {"version", "path", "origin", "head"}

\* apt, opam, pip, an archive unpacked by hand.
TouchHost == /\ Touch("host", look # "version")
             /\ \E h \in Host \ {host} : host' = h
             /\ UNCHANGED <<tree, corpusPin>>

\* git, an editor, a build in the checkout.
TouchTree == /\ Touch("tree", LookedAtTree)
             /\ \E t \in Tree \ {tree} : tree' = t
             /\ UNCHANGED <<host, corpusPin>>

\* git pull in this repository.
RaisePin == /\ Touch("pin", LookedAtTree)
            /\ \E p \in Commits \ {corpusPin} : corpusPin' = p
            /\ UNCHANGED <<host, tree>>

Next == \/ UnknownDistro \/ Version \/ Path \/ OriginRow \/ Head \/ StatusRow \/ Lint
        \/ Refuse \/ Entry \/ Scan
        \/ TouchHost \/ TouchTree \/ RaisePin

Spec == Init /\ [][Next]_vars

-----------------------------------------------------------------------------
(* Properties.                                                             *)

Scanning == look \in {"scan", "done"}

\* What the rows take for the pinned tool.  They cannot tell it from another
\* build of the pinned clang-tidy (the package version is matched up to its
\* build) nor from any file that prints the pinned version where Infer was
\* unpacked: the sha256 pins/tools.json has of the archive is never computed.
LooksPinned(binary) ==
  \/ binary = "pinned"
  \/ binary = "patched" /\ Policy[tool] = "exact" /\ Origin[tool] # "opam"

\* check.py:60-171, run.py _refuse_on_failed: what the rows tell apart, they
\* tell apart of the run as a whole, though each is a look of its own at one
\* part of the machine.  If nothing changed after the first look at it, the
\* binary a scan runs is the one the rows are about: it is no shim, and it is
\* pinned as far as the rows can tell (LooksPinned); and the checkout it
\* scans is at the pinned commit, unmodified and without a plainly named
\* stray file next to a tracked one, and its findings name that commit.
\* Nothing is said of a run during which the machine changed: the code has no
\* defence there.
PassedRunMatchesRows ==
  Scanning =>
    /\ "host" \notin since => LooksPinned(Binary) /\ (Policy[tool] = "distro" => known)
    /\ since \cap {"tree", "pin"} = {} =>
         /\ tree.git /\ tree.head = corpusPin /\ commit = corpusPin
         /\ ~tree.modified /\ tree.stray \cap Listed = {}

\* check.py:165-167, README.md:46: a scan is never of a checkout that had an
\* untracked or ignored C file since before the look at it, wherever the
\* file is.
StraysAreRefused == Scanning /\ "tree" \notin since => tree.stray = {}
=============================================================================
