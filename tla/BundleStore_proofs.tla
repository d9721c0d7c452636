------------------------- MODULE BundleStore_proofs -------------------------
(***************************************************************************)
(* Proofs about BundleStore, for any number of runs and any clock: no two  *)
(* runs share a bundle, a bundle whose status says that it finished is     *)
(* whole and never changes again, what a reader loads is consistent, and   *)
(* the directory implements Ledger.                                        *)
(***************************************************************************)
EXTENDS BundleStore, TLAPS

Busy(r) == pc[r] \in {"writing", "open"}

\* A run that has no bundle yet is at its first write, and has a name to try.
NamedInv ==
  \A r \in Runs :
    /\ pc[r] \in {"checking", "naming", "making"} => step[r] = 1
    /\ pc[r] \in {"naming", "making"} => dir[r] \in Names

\* A run that has its bundle has it on the disk.
OwnInv == \A r \in Runs : Writing(r) => dir[r] \in DOMAIN disk

\* While a run writes, its bundle does not say that it finished, and the
\* files before the one it is at, other than meta.json, are whole.
ProgressInv ==
  \A r \in Runs : Busy(r) =>
    /\ disk[dir[r]]["meta"] # "final"
    /\ \A n \in 4..6 : n < step[r] => disk[dir[r]][Writes[n][1]] = "whole"

\* The reader reads in order; if it has read a final status, the bundle has
\* it still and what was read after it was whole.
ReaderInv ==
  /\ snap.bundle = Nowhere => DOMAIN snap.read = {}
  /\ snap.bundle # Nowhere => snap.bundle \in DOMAIN disk
  /\ DOMAIN snap.read \in {{}, {"meta"}, {"meta", "findings"}, {"meta", "findings", "percwe"}}
  /\ DOMAIN snap.read # {} /\ snap.read["meta"] = "final" =>
       /\ disk[snap.bundle]["meta"] = "final"
       /\ \A f \in DOMAIN snap.read \ {"meta"} : snap.read[f] = "whole"

IInv == TypeOK /\ NamedInv /\ OwnInv /\ DirExclusive /\ ProgressInv /\ FinalIsWhole /\ ReaderInv

\* The order of the writes: meta.json three times, every other file once,
\* meta.json with the final status.
LEMMA WritesOrder ==
  /\ Len(Writes) = 7
  /\ \A n \in 1..7 : /\ Writes[n][1] \in Files /\ Writes[n][2] \in Contents
                     /\ Writes[n][2] = "final" <=> n = 7
  /\ \A n \in {1, 2, 3, 7} : Writes[n][1] = "meta"
  /\ \A n \in 4..6 : Writes[n][1] # "meta" /\ Writes[n][2] = "whole"
  /\ \A m, n \in 4..6 : Writes[m][1] = Writes[n][1] => m = n
  /\ \A f \in Files \ {"meta"} : \E n \in 4..6 : Writes[n][1] = f
<1>1. Len(Writes) = 7
  BY DEF Writes
<1>2. /\ Writes[1] = <<"meta", "running">> /\ Writes[2] = <<"meta", "running">>
      /\ Writes[3] = <<"meta", "running">> /\ Writes[4] = <<"percwe", "whole">>
      /\ Writes[5] = <<"findings", "whole">> /\ Writes[6] = <<"perfile", "whole">>
      /\ Writes[7] = <<"meta", "final">>
  BY DEF Writes
<1>3. \A n \in 4..6 : n \in {4, 5, 6}
  OBVIOUS
<1>4. \A n \in 1..7 : n \in {1, 2, 3, 4, 5, 6, 7}
  OBVIOUS
<1> QED
  BY <1>1, <1>2, <1>3, <1>4 DEF Files, Contents

LEMMA InitIInv == Init => IInv
<1>1. SUFFICES ASSUME Init PROVE IInv
  OBVIOUS
<1>2. TypeOK
  BY <1>1, ClockAssumption DEF Init, TypeOK, Idle
<1>3. NamedInv /\ OwnInv /\ DirExclusive /\ ProgressInv
  BY <1>1 DEF Init, NamedInv, OwnInv, DirExclusive, ProgressInv, Writing, Busy
<1>4. FinalIsWhole /\ ReaderInv
  BY <1>1 DEF Init, FinalIsWhole, ReaderInv, Idle
<1> QED
  BY <1>2, <1>3, <1>4 DEF IInv

\* A run that checks, names or gives up leaves the disk and the reader alone.
LEMMA QuietIInv ==
  ASSUME IInv, NEW r \in Runs, Check(r) \/ Probe(r) \/ Crash(r)
  PROVE IInv'
<1> USE DEF IInv
<1>1. /\ UNCHANGED <<disk, snap, step, clock>>
      /\ pc' \in [Runs -> {"checking", "naming", "making", "writing", "open",
                           "done", "refused", "raised", "crashed"}]
      /\ \A s \in Runs \ {r} : pc'[s] = pc[s] /\ dir'[s] = dir[s]
      /\ pc'[r] \notin {"writing", "open", "done"}
  BY DEF Check, Probe, Crash, Goto, TypeOK
<1>2. dir' \in [Runs -> Names \cup {Nowhere}]
  <2>1. CASE Check(r)
    BY <2>1 DEF Check, TypeOK, Names
  <2>2. CASE Probe(r)
    BY <2>2 DEF Probe, TypeOK, Names
  <2>3. CASE Crash(r)
    BY <2>3 DEF Crash, TypeOK
  <2> QED
    BY <2>1, <2>2, <2>3
<1>3. TypeOK'
  BY <1>1, <1>2 DEF TypeOK
<1>4. OwnInv' /\ DirExclusive' /\ ProgressInv'
  BY <1>1 DEF OwnInv, DirExclusive, ProgressInv, Writing, Busy
<1>5. FinalIsWhole' /\ ReaderInv'
  BY <1>1 DEF FinalIsWhole, ReaderInv
<1>6. NamedInv'
  <2>1. CASE Check(r)
    BY <2>1 DEF Check, Goto, TypeOK, NamedInv, Names
  <2>2. CASE Probe(r)
    BY <2>2 DEF Probe, Goto, TypeOK, NamedInv, Names
  <2>3. CASE Crash(r)
    BY <2>3 DEF Crash, Goto, TypeOK, NamedInv
  <2> QED
    BY <2>1, <2>2, <2>3
<1> QED
  BY <1>3, <1>4, <1>5, <1>6

\* A directory that is made is new: no other run has it, and the reader is
\* not in it.
LEMMA MkdirIInv == ASSUME IInv, NEW r \in Runs, Mkdir(r) PROVE IInv'
<1> USE DEF IInv
<1>1. CASE dir[r] \in DOMAIN disk
  <2>1. pc' = [pc EXCEPT ![r] = "raised"] /\ UNCHANGED <<clock, dir, step, disk, snap>>
    BY <1>1 DEF Mkdir, Goto
  <2>2. TypeOK' /\ NamedInv' /\ OwnInv' /\ DirExclusive' /\ ProgressInv'
    BY <2>1 DEF TypeOK, NamedInv, OwnInv, DirExclusive, ProgressInv, Writing, Busy
  <2>3. FinalIsWhole' /\ ReaderInv'
    BY <2>1 DEF FinalIsWhole, ReaderInv
  <2> QED
    BY <2>2, <2>3
<1>2. CASE dir[r] \notin DOMAIN disk
  <2> DEFINE new == dir[r]
  <2>1. /\ pc[r] = "making" /\ pc' = [pc EXCEPT ![r] = "writing"]
        /\ disk' = [d \in DOMAIN disk \cup {new} |-> IF d = new THEN Empty ELSE disk[d]]
        /\ UNCHANGED <<clock, dir, step, snap>>
    BY <1>2 DEF Mkdir, Goto
  <2>2. /\ DOMAIN disk' = DOMAIN disk \cup {new}
        /\ \A d \in DOMAIN disk : d # new /\ disk'[d] = disk[d]
        /\ disk'[new] = Empty
    BY <1>2, <2>1
  <2>3. new \in Names /\ step[r] = 1
    BY <2>1 DEF NamedInv
  <2>4. Empty \in [Files -> Contents] /\ Empty["meta"] = "absent"
    BY DEF Empty, Files, Contents
  <2>5. disk' \in [DOMAIN disk' -> [Files -> Contents]]
    BY <2>1, <2>2, <2>4 DEF TypeOK
  <2>6. TypeOK'
    BY <2>1, <2>2, <2>3, <2>5 DEF TypeOK
  <2>7. NamedInv'
    BY <2>1 DEF TypeOK, NamedInv
  <2>8. OwnInv' /\ DirExclusive'
    BY <1>2, <2>1, <2>2 DEF TypeOK, OwnInv, DirExclusive, Writing
  <2>9. ProgressInv'
    <3>1. SUFFICES ASSUME NEW s \in Runs, Busy(s)'
                   PROVE  /\ disk'[dir[s]]["meta"] # "final"
                          /\ \A n \in 4..6 : n < step[s] => disk'[dir[s]][Writes[n][1]] = "whole"
      BY <2>1 DEF ProgressInv
    <3>2. CASE s = r
      BY <2>2, <2>3, <2>4, <3>2
    <3>3. CASE s # r
      <4>1. Busy(s) /\ dir[s] \in DOMAIN disk
        BY <2>1, <3>1, <3>3 DEF TypeOK, OwnInv, Busy, Writing
      <4> QED
        BY <2>2, <4>1 DEF ProgressInv
    <3> QED
      BY <3>2, <3>3
  <2>10. FinalIsWhole'
    BY <2>1, <2>2, <2>4 DEF FinalIsWhole
  <2>11. ReaderInv'
    BY <2>1, <2>2 DEF ReaderInv
  <2> QED
    BY <2>6, <2>7, <2>8, <2>9, <2>10, <2>11
<1> QED
  BY <1>1, <1>2

\* A write of run r touches its own bundle, which has no final status, and
\* nobody else's.
LEMMA WriteIInv == ASSUME IInv, NEW r \in Runs, Open(r) \/ Write(r) PROVE IInv'
<1> USE DEF IInv
<1> DEFINE b == dir[r]
           n == step[r]
           file == Writes[n][1]
<1>1. /\ Busy(r) /\ b \in DOMAIN disk /\ n \in 1..7 /\ b \in Names
      /\ disk[b]["meta"] # "final" /\ file \in Files
  BY WritesOrder DEF Open, Write, Busy, TypeOK, OwnInv, Writing, ProgressInv
<1>2. PICK c \in Contents :
        /\ disk' = [disk EXCEPT ![b][file] = c]
        /\ Open(r) => c = "torn"
        /\ Write(r) => c = Writes[n][2]
  BY <1>1, WritesOrder DEF Open, Write, Store, Contents
<1>3. /\ DOMAIN disk' = DOMAIN disk
      /\ disk' \in [DOMAIN disk -> [Files -> Contents]]
      /\ \A d \in DOMAIN disk : d # b => disk'[d] = disk[d]
      /\ \A f \in Files : disk'[b][f] = IF f = file THEN c ELSE disk[b][f]
  BY <1>1, <1>2 DEF TypeOK
<1>4. /\ UNCHANGED <<clock, dir, snap>>
      /\ \A s \in Runs \ {r} : pc'[s] = pc[s] /\ step'[s] = step[s]
      /\ \/ Open(r) /\ pc'[r] = "open" /\ step'[r] = n
         \/ Write(r) /\ pc'[r] = "done" /\ step'[r] = n /\ n = 7
         \/ Write(r) /\ pc'[r] = "writing" /\ step'[r] = n + 1 /\ n < 7
  <2>1. CASE Open(r)
    BY <2>1 DEF Open, Goto, TypeOK
  <2>2. CASE Write(r)
    <3>1. CASE n = 7
      BY <2>2, <3>1, WritesOrder DEF Write, Goto, TypeOK
    <3>2. CASE n # 7
      BY <1>1, <2>2, <3>2, WritesOrder DEF Write, Goto, TypeOK
    <3> QED
      BY <3>1, <3>2
  <2> QED
    BY <2>1, <2>2
<1>5. TypeOK'
  <2>1. pc' \in [Runs -> {"checking", "naming", "making", "writing", "open",
                           "done", "refused", "raised", "crashed"}]
    BY DEF Open, Write, Goto, TypeOK
  <2>2. step' \in [Runs -> 1..7]
    BY <1>1, WritesOrder DEF Open, Write, TypeOK
  <2> QED
    BY <1>3, <1>4, <2>1, <2>2 DEF TypeOK
<1>6. NamedInv' /\ OwnInv' /\ DirExclusive'
  BY <1>1, <1>3, <1>4 DEF NamedInv, OwnInv, DirExclusive, Writing, Busy
<1>7. ProgressInv'
  <2>1. SUFFICES ASSUME NEW s \in Runs, Busy(s)'
                 PROVE  /\ disk'[dir[s]]["meta"] # "final"
                        /\ \A k \in 4..6 : k < step'[s] => disk'[dir[s]][Writes[k][1]] = "whole"
    BY <1>4 DEF ProgressInv
  <2>2. CASE s = r
    <3>1. \/ Open(r) /\ step'[r] = n /\ c = "torn"
          \/ Write(r) /\ step'[r] = n + 1 /\ n < 7 /\ c = Writes[n][2]
      BY <1>2, <1>4, <2>1, <2>2 DEF Busy
    <3>2. c # "final"
      BY <1>1, <3>1, WritesOrder
    <3>3. disk'[b]["meta"] # "final"
      BY <1>1, <1>3, <3>2 DEF Files
    <3>4. ASSUME NEW k \in 4..6, k < step'[r] PROVE disk'[b][Writes[k][1]] = "whole"
      <4>1. CASE k < n
        <5>1. Writes[k][1] \in Files /\ Writes[k][1] # file
          BY <1>1, <4>1, WritesOrder
        <5>2. disk[b][Writes[k][1]] = "whole"
          BY <1>1, <4>1 DEF ProgressInv
        <5> QED
          BY <1>3, <5>1, <5>2
      <4>2. CASE k = n
        BY <1>1, <1>3, <3>1, <3>4, <4>2, WritesOrder
      <4> QED
        BY <1>1, <3>1, <3>4, <4>1, <4>2
    <3> QED
      BY <1>4, <2>2, <3>3, <3>4
  <2>3. CASE s # r
    <3>1. Busy(s) /\ dir[s] \in DOMAIN disk /\ dir[s] # b
      BY <1>1, <1>4, <2>1, <2>3 DEF OwnInv, DirExclusive, Busy, Writing
    <3> QED
      BY <1>3, <1>4, <2>3, <3>1 DEF ProgressInv
  <2> QED
    BY <2>2, <2>3
<1>8. FinalIsWhole'
  <2>1. SUFFICES ASSUME NEW d \in DOMAIN disk, disk'[d]["meta"] = "final",
                        NEW f \in Files \ {"meta"}
                 PROVE  disk'[d][f] = "whole"
    BY <1>3 DEF FinalIsWhole
  <2>2. CASE d # b
    BY <1>3, <2>1, <2>2 DEF FinalIsWhole
  <2>3. CASE d = b
    <3>1. file = "meta" /\ c = "final"
      BY <1>1, <1>3, <2>1, <2>3 DEF Files
    <3>2. n = 7
      BY <1>1, <1>2, <3>1, WritesOrder
    <3>3. PICK k \in 4..6 : Writes[k][1] = f
      BY WritesOrder
    <3>4. disk[b][f] = "whole"
      BY <1>1, <3>2, <3>3 DEF ProgressInv
    <3> QED
      BY <1>3, <2>3, <3>1, <3>4
  <2> QED
    BY <2>2, <2>3
<1>9. ReaderInv'
  BY <1>1, <1>3, <1>4 DEF ReaderInv
<1> QED
  BY <1>5, <1>6, <1>7, <1>8, <1>9

\* The reader leaves the disk alone; what it reads after a final status it
\* reads from a bundle that is whole.
LEMMA ReadNextIInv == ASSUME IInv, ReadNext PROVE IInv'
<1> USE DEF IInv
<1>1. PICK k \in 1..3 : /\ DOMAIN snap.read = {ReadOrder[j] : j \in 1..(k - 1)}
                        /\ ReadFile(ReadOrder[k])
  BY DEF ReadNext
<1> DEFINE b == snap.bundle
           f == ReadOrder[k]
           c == disk[b][f]
<1>2. /\ ReadOrder[1] = "meta" /\ ReadOrder[2] = "findings" /\ ReadOrder[3] = "percwe"
      /\ k \in {1, 2, 3}
  BY DEF ReadOrder
<1>3. /\ k = 1 => f = "meta" /\ DOMAIN snap.read = {}
      /\ k = 2 => f = "findings" /\ DOMAIN snap.read = {"meta"}
      /\ k = 3 => f = "percwe" /\ DOMAIN snap.read = {"meta", "findings"}
  <2>1. CASE k = 1
    BY <1>1, <1>2, <2>1
  <2>2. CASE k = 2
    <3>1. 1..(k - 1) = {1}
      BY <2>2
    <3> QED
      BY <1>1, <1>2, <2>2, <3>1
  <2>3. CASE k = 3
    <3>1. 1..(k - 1) = {1, 2}
      BY <2>3
    <3> QED
      BY <1>1, <1>2, <2>3, <3>1
  <2> QED
    BY <1>2, <2>1, <2>2, <2>3
<1>4. /\ b # Nowhere /\ b \in DOMAIN disk /\ f \in Files /\ c \in Contents
      /\ UNCHANGED <<clock, pc, dir, step, disk>>
      /\ snap' = [snap EXCEPT !.read = With(@, f, c)] \/ snap' = Idle
  BY <1>1, <1>2, <1>3 DEF ReadNext, ReadFile, ReaderInv, TypeOK, Files
<1>5. NamedInv' /\ OwnInv' /\ DirExclusive' /\ ProgressInv' /\ FinalIsWhole'
  BY <1>4 DEF NamedInv, OwnInv, DirExclusive, ProgressInv, FinalIsWhole, Writing, Busy
<1>6. CASE snap' = Idle
  BY <1>4, <1>5, <1>6 DEF TypeOK, ReaderInv, Idle
<1>7. CASE snap' = [snap EXCEPT !.read = With(@, f, c)]
  <2>1. /\ snap'.bundle = b
        /\ snap' = [bundle |-> snap'.bundle, read |-> snap'.read]
        /\ snap'.read = [g \in DOMAIN snap.read \cup {f} |-> IF g = f THEN c ELSE snap.read[g]]
    BY <1>7 DEF TypeOK, With
  <2>2. /\ DOMAIN snap'.read = DOMAIN snap.read \cup {f}
        /\ snap'.read[f] = c
        /\ \A g \in DOMAIN snap.read : g # f => snap'.read[g] = snap.read[g]
    BY <2>1
  <2>3. TypeOK'
    BY <1>4, <2>1, <2>2 DEF TypeOK
  <2>4. /\ snap'.bundle # Nowhere /\ snap'.bundle \in DOMAIN disk'
        /\ DOMAIN snap'.read \in {{}, {"meta"}, {"meta", "findings"}, {"meta", "findings", "percwe"}}
    BY <1>2, <1>3, <1>4, <2>1, <2>2
  <2>5. ASSUME snap'.read["meta"] = "final"
        PROVE  /\ disk[b]["meta"] = "final"
               /\ \A g \in DOMAIN snap'.read \ {"meta"} : snap'.read[g] = "whole"
    <3>1. CASE k = 1
      BY <1>3, <2>2, <2>5, <3>1
    <3>2. CASE k # 1
      <4>1. f # "meta" /\ "meta" \in DOMAIN snap.read
        BY <1>2, <1>3, <3>2
      <4>2. snap.read["meta"] = "final"
        BY <2>2, <2>5, <4>1
      <4>3. /\ disk[b]["meta"] = "final"
            /\ \A g \in DOMAIN snap.read \ {"meta"} : snap.read[g] = "whole"
        BY <4>1, <4>2 DEF ReaderInv
      <4>4. c = "whole"
        BY <1>4, <4>1, <4>3 DEF FinalIsWhole
      <4> QED
        BY <2>2, <4>3, <4>4
    <3> QED
      BY <3>1, <3>2
  <2>6. ReaderInv'
    BY <1>4, <2>1, <2>4, <2>5 DEF ReaderInv
  <2> QED
    BY <1>5, <2>3, <2>6
<1> QED
  BY <1>4, <1>6, <1>7

\* The reader's other steps, and the clock's.
LEMMA OtherIInv == ASSUME IInv, Choose \/ Emit \/ Tick PROVE IInv'
<1> USE DEF IInv
<1>1. UNCHANGED <<pc, dir, step, disk>> /\ clock' \in 0..MaxClock
  BY ClockAssumption DEF Choose, Emit, Tick, TypeOK
<1>2. NamedInv' /\ OwnInv' /\ DirExclusive' /\ ProgressInv' /\ FinalIsWhole'
  BY <1>1 DEF NamedInv, OwnInv, DirExclusive, ProgressInv, FinalIsWhole, Writing, Busy
<1>3. CASE Tick
  BY <1>1, <1>2, <1>3 DEF Tick, TypeOK, ReaderInv
<1>4. CASE Emit
  BY <1>1, <1>2, <1>4 DEF Emit, TypeOK, ReaderInv, Idle
<1>5. CASE Choose
  <2>1. PICK d \in DOMAIN disk : snap' = [Idle EXCEPT !.bundle = d]
    BY <1>5 DEF Choose
  <2>2. snap' = [bundle |-> d, read |-> [f \in {} |-> "absent"]]
    BY <2>1 DEF Idle
  <2>3. d \in Names
    BY DEF TypeOK
  <2>4. TypeOK'
    BY <1>1, <2>2, <2>3 DEF TypeOK
  <2>5. ReaderInv'
    BY <1>1, <2>1, <2>2 DEF ReaderInv
  <2> QED
    BY <1>2, <2>4, <2>5
<1> QED
  BY <1>3, <1>4, <1>5

LEMMA NextIInv == IInv /\ [Next]_vars => IInv'
<1>1. ASSUME IInv, UNCHANGED vars PROVE IInv'
  BY <1>1 DEF IInv, vars, TypeOK, NamedInv, OwnInv, DirExclusive, ProgressInv,
              FinalIsWhole, ReaderInv, Writing, Busy
<1> QED
  BY <1>1, QuietIInv, MkdirIInv, WriteIInv, ReadNextIInv, OtherIInv DEF Next, Run

THEOREM Inductive == Spec => []IInv
  BY InitIInv, NextIInv, PTL DEF Spec

\* Type correctness of the store, for any number of runs.
THEOREM StoreTypeCorrect == Spec => []TypeOK
<1>1. IInv => TypeOK
  BY DEF IInv
<1> QED
  BY <1>1, Inductive, PTL

\* However many runs are started in one second, and wherever they are stopped,
\* no two write into one bundle.
THEOREM NoSharedBundle == Spec => []DirExclusive
<1>1. IInv => DirExclusive
  BY DEF IInv
<1> QED
  BY <1>1, Inductive, PTL

\* A bundle whose meta.json says that the run finished has all its files.
THEOREM FinishedIsWhole == Spec => []FinalIsWhole
<1>1. IInv => FinalIsWhole
  BY DEF IInv
<1> QED
  BY <1>1, Inductive, PTL

\* A reader that saw a final status has read whole files.
THEOREM LoadsAreConsistent == Spec => []LoadIsConsistent
<1>1. IInv => LoadIsConsistent
  BY DEF IInv, ReaderInv, LoadIsConsistent, Loaded
<1> QED
  BY <1>1, Inductive, PTL

\* No step of any process changes a bundle that says that it finished.
THEOREM FinishedIsFrozen == Spec => FinalIsFrozen
<1> DEFINE Frozen == \A d \in DOMAIN disk : disk[d]["meta"] = "final" => disk'[d] = disk[d]
<1>1. IInv /\ [Next]_vars => [Frozen]_vars
  <2>1. SUFFICES ASSUME IInv, Next, NEW d \in DOMAIN disk, disk[d]["meta"] = "final"
                 PROVE  disk'[d] = disk[d]
    BY DEF vars
  <2>2. ASSUME NEW r \in Runs, Mkdir(r) PROVE disk'[d] = disk[d]
    BY <2>2 DEF Mkdir
  <2>3. ASSUME NEW r \in Runs, Open(r) \/ Write(r) PROVE disk'[d] = disk[d]
    <3>1. Busy(r) /\ dir[r] # d
      BY <2>1, <2>3 DEF IInv, ProgressInv, Busy, Open, Write
    <3> QED
      BY <2>1, <2>3, <3>1 DEF IInv, TypeOK, Open, Write, Store
  <2>4. ASSUME NEW r \in Runs, Check(r) \/ Probe(r) \/ Crash(r) PROVE disk'[d] = disk[d]
    BY <2>4 DEF Check, Probe, Crash
  <2>5. CASE Choose \/ ReadNext \/ Emit \/ Tick
    BY <2>5 DEF Choose, ReadNext, ReadFile, Emit, Tick
  <2> QED
    BY <2>1, <2>2, <2>3, <2>4, <2>5 DEF Next, Run
<1> QED
  BY <1>1, Inductive, PTL DEF Spec, FinalIsFrozen

-----------------------------------------------------------------------------
(* The refinement of Ledger.                                               *)

states  == [d \in DOMAIN disk |-> State(d)]
authors == [r \in Runs |-> IF Writing(r) THEN dir[r] ELSE Nowhere]
viewed  == IF Loaded THEN View ELSE Nowhere

LEMMA LedgerInit == Init => Promise!Init
<1>1. SUFFICES ASSUME Init PROVE Promise!Init
  OBVIOUS
<1>2. ~Loaded /\ disk = [d \in {} |-> Empty] /\ \A r \in Runs : ~Writing(r)
  BY <1>1 DEF Init, Loaded, Idle, Writing
<1> QED
  BY <1>2 DEF Promise!Init

\* A run that checks or names its bundle is not in the ledger; one that dies
\* later leaves its bundle open.
LEMMA QuietLedger ==
  ASSUME IInv, NEW r \in Runs, Check(r) \/ Probe(r) \/ Crash(r)
  PROVE  Promise!Next \/ UNCHANGED Promise!vars
<1>1. /\ UNCHANGED <<disk, snap>> /\ ~Writing(r)'
      /\ \A s \in Runs \ {r} : dir'[s] = dir[s] /\ Writing(s)' = Writing(s)
  BY DEF Check, Probe, Crash, Goto, IInv, TypeOK, Writing
<1>2. UNCHANGED states /\ UNCHANGED viewed
  BY <1>1 DEF states, State, viewed, Loaded, View
<1>3. authors' = [authors EXCEPT ![r] = Nowhere]
  BY <1>1 DEF authors
<1>4. CASE ~Writing(r)
  <2>1. UNCHANGED authors
    BY <1>3, <1>4 DEF authors
  <2> QED
    BY <1>2, <2>1 DEF Promise!vars, states, authors, viewed
<1>5. CASE Writing(r)
  <2>1. Busy(r)
    BY <1>5 DEF Check, Probe, Crash, Writing, Busy
  <2>2. dir[r] \in DOMAIN disk /\ dir[r] # Nowhere /\ disk[dir[r]]["meta"] # "final"
    BY <1>5, <2>1, NowhereAssumption DEF IInv, OwnInv, ProgressInv, TypeOK
  <2>3. authors[r] = dir[r] /\ states[dir[r]] = "open"
    BY <1>5, <2>2 DEF authors, states, State
  <2>4. Promise!Die(r)
    BY <1>2, <1>3, <2>2, <2>3 DEF Promise!Die, states, authors, viewed
  <2> QED
    BY <2>4 DEF Promise!Next
<1> QED
  BY <1>4, <1>5

\* mkdir enters the bundle, or raises.
LEMMA MkdirLedger ==
  ASSUME IInv, NEW r \in Runs, Mkdir(r) PROVE Promise!Next \/ UNCHANGED Promise!vars
<1>1. UNCHANGED <<dir, snap>> /\ ~Writing(r) /\ dir[r] \in Names
  BY DEF Mkdir, Writing, IInv, NamedInv
<1>2. UNCHANGED viewed
  BY <1>1 DEF viewed, Loaded, View
<1>3. CASE dir[r] \in DOMAIN disk
  <2>1. UNCHANGED disk /\ pc' = [pc EXCEPT ![r] = "raised"]
    BY <1>3 DEF Mkdir, Goto
  <2>2. \A s \in Runs : Writing(s)' = Writing(s)
    BY <1>1, <2>1 DEF Writing, IInv, TypeOK
  <2>3. UNCHANGED states /\ UNCHANGED authors
    BY <1>1, <2>1, <2>2 DEF states, State, authors
  <2> QED
    BY <1>2, <2>3 DEF Promise!vars, states, authors, viewed
<1>4. CASE dir[r] \notin DOMAIN disk
  <2> DEFINE new == dir[r]
  <2>1. /\ pc' = [pc EXCEPT ![r] = "writing"]
        /\ disk' = [d \in DOMAIN disk \cup {new} |-> IF d = new THEN Empty ELSE disk[d]]
    BY <1>4 DEF Mkdir, Goto
  <2>2. Empty["meta"] = "absent"
    BY DEF Empty, Files
  <2>3. states' = [d \in DOMAIN states \cup {new} |-> IF d = new THEN "open" ELSE states[d]]
    BY <1>4, <2>1, <2>2 DEF states, State
  <2>4. Writing(r)' /\ \A s \in Runs \ {r} : Writing(s)' = Writing(s)
    BY <2>1 DEF Writing, IInv, TypeOK
  <2>5. authors' = [authors EXCEPT ![r] = new] /\ authors[r] = Nowhere
    BY <1>1, <2>4 DEF authors
  <2>6. new \in DOMAIN states' \ DOMAIN states
    BY <1>4, <2>3 DEF states
  <2>7. Promise!Enter(r)
    BY <1>2, <2>3, <2>5, <2>6 DEF Promise!Enter, states, authors, viewed
  <2> QED
    BY <2>7 DEF Promise!Next
<1> QED
  BY <1>3, <1>4

\* Of all writes only the last one shows: it finishes the bundle.
LEMMA WriteLedger ==
  ASSUME IInv, NEW r \in Runs, Open(r) \/ Write(r)
  PROVE  Promise!Next \/ UNCHANGED Promise!vars
<1> DEFINE b == dir[r]
           n == step[r]
           file == Writes[n][1]
<1>1. /\ Busy(r) /\ b \in DOMAIN disk /\ n \in 1..7 /\ b # Nowhere
      /\ disk[b]["meta"] # "final" /\ file \in Files
  BY WritesOrder, NowhereAssumption
     DEF Open, Write, Busy, IInv, TypeOK, OwnInv, Writing, ProgressInv
<1>2. PICK c \in Contents :
        /\ disk' = [disk EXCEPT ![b][file] = c]
        /\ Open(r) => c = "torn"
        /\ Write(r) => c = Writes[n][2]
  BY <1>1, WritesOrder DEF Open, Write, Store, Contents
<1>3. /\ DOMAIN disk' = DOMAIN disk
      /\ \A d \in DOMAIN disk : d # b => disk'[d] = disk[d]
      /\ \A f \in Files : disk'[b][f] = IF f = file THEN c ELSE disk[b][f]
  BY <1>1, <1>2 DEF IInv, TypeOK
<1>4. UNCHANGED <<dir, snap>> /\ \A s \in Runs : Writing(s)' = Writing(s)
  BY <1>1 DEF Open, Write, Goto, Busy, Writing, IInv, TypeOK
<1>5. UNCHANGED viewed /\ UNCHANGED authors
  BY <1>4 DEF viewed, Loaded, View, authors
<1>6. states' = [states EXCEPT ![b] = State(b)'] /\ states[b] = "open"
  <2>1. \A d \in DOMAIN disk : d # b => State(d)' = State(d)
    BY <1>3 DEF State
  <2>2. states' = [d \in DOMAIN disk |-> State(d)']
    BY <1>3 DEF states
  <2>3. states[b] = "open"
    BY <1>1 DEF states, State
  <2> QED
    BY <1>1, <1>4, <2>1, <2>2, <2>3 DEF states
<1>7. CASE c # "final"
  <2>1. disk'[b]["meta"] # "final"
    BY <1>1, <1>3, <1>7 DEF Files
  <2>2. State(b)' = "open"
    BY <1>4, <2>1 DEF State
  <2>3. UNCHANGED states
    BY <1>1, <1>6, <2>2 DEF states
  <2> QED
    BY <1>5, <2>3 DEF Promise!vars, states, authors, viewed
<1>8. CASE c = "final"
  <2>1. n = 7 /\ file = "meta"
    BY <1>1, <1>2, <1>8, WritesOrder
  <2>2. \A f \in Files \ {"meta"} : disk[b][f] = "whole"
    <3>1. SUFFICES ASSUME NEW f \in Files \ {"meta"} PROVE disk[b][f] = "whole"
      OBVIOUS
    <3>2. PICK k \in 4..6 : Writes[k][1] = f
      BY WritesOrder
    <3> QED
      BY <1>1, <2>1, <3>2 DEF IInv, ProgressInv
  <2>3. State(b)' = "finished"
    <3>1. disk'[b]["meta"] = "final"
      BY <1>1, <1>3, <1>8, <2>1
    <3>2. \A f \in Files \ {"meta"} : disk'[b][f] = "whole"
      BY <1>3, <2>1, <2>2
    <3> QED
      BY <1>4, <3>1, <3>2 DEF State
  <2>4. authors[r] = b /\ \A s \in Runs \ {r} : authors[s] # b
    BY <1>1 DEF authors, IInv, DirExclusive, Busy, Writing
  <2>5. Promise!Finish(r)
    BY <1>1, <1>5, <1>6, <2>3, <2>4 DEF Promise!Finish, states, authors, viewed
  <2> QED
    BY <2>5 DEF Promise!Next
<1> QED
  BY <1>7, <1>8

\* The reader: only its last read shows, and what it has loaded by then agrees
\* with the bundle as it is.
LEMMA ReaderLedger ==
  ASSUME IInv, IInv', Choose \/ ReadNext \/ Emit \/ Tick \/ UNCHANGED vars
  PROVE  Promise!Next \/ UNCHANGED Promise!vars
<1>1. UNCHANGED <<disk, dir, pc>>
  BY DEF Choose, ReadNext, ReadFile, Emit, Tick, vars
<1>2. UNCHANGED states /\ UNCHANGED authors
  BY <1>1 DEF states, State, authors, Writing
<1>3. CASE viewed' = viewed
  BY <1>2, <1>3 DEF Promise!vars, states, authors, viewed
<1>4. CASE viewed' = Nowhere /\ viewed # Nowhere
  <2>1. Promise!Forget
    BY <1>2, <1>4 DEF Promise!Forget, states, authors, viewed
  <2> QED
    BY <2>1 DEF Promise!Next
<1>5. CASE ~Loaded /\ Loaded'
  <2> DEFINE d == snap'.bundle
  <2>1. viewed = Nowhere /\ viewed' = View'
    BY <1>5 DEF viewed
  <2>2. d \in DOMAIN disk
    BY <1>1, <1>5 DEF IInv, ReaderInv, Loaded
  <2>3. View' = [bundle |-> d, finished |-> View'.finished, complete |-> View'.complete]
        /\ View'.finished \in BOOLEAN /\ View'.complete \in BOOLEAN
    BY DEF View
  <2>4. View'.finished => states[d] = "finished" /\ View'.complete
    <3>1. SUFFICES ASSUME snap'.read["meta"] = "final"
                   PROVE  states[d] = "finished" /\ View'.complete
      BY DEF View
    <3>2. /\ disk[d]["meta"] = "final"
          /\ \A f \in {"findings", "percwe"} : snap'.read[f] = "whole"
      BY <1>1, <1>5, <3>1 DEF IInv, ReaderInv, Loaded
    <3>3. states[d] = "finished"
      BY <2>2, <3>2 DEF IInv, FinalIsWhole, states, State
    <3> QED
      BY <3>2, <3>3 DEF View
  <2>5. Promise!Load
    BY <1>2, <2>1, <2>2, <2>3, <2>4 DEF Promise!Load, states, authors, viewed
  <2> QED
    BY <2>5 DEF Promise!Next
<1>6. (Loaded /\ Loaded') => UNCHANGED snap
  BY DEF Choose, ReadNext, Emit, Tick, vars, IInv, ReaderInv, Loaded, Idle
<1>7. Loaded /\ Loaded' => viewed' = viewed
  BY <1>6 DEF viewed, View
<1> QED
  BY <1>3, <1>4, <1>5, <1>7 DEF viewed

\* The directory of bundles is to its readers a store of whole bundles, for
\* any number of runs that stop anywhere.
THEOREM RefinesLedger == Spec => ActsAsLedger
<1>1. IInv /\ IInv' /\ [Next]_vars => [Promise!Next]_(Promise!vars)
  BY QuietLedger, MkdirLedger, WriteLedger, ReaderLedger DEF Next, Run
<1> QED
  BY <1>1, LedgerInit, Inductive, PTL DEF Spec, ActsAsLedger, Promise!Spec
=============================================================================
