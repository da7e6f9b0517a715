---------------------------- MODULE KeygenProofs ----------------------------
(***************************************************************************)
(* Proofs about Keygen for any number of invocations, any of which may     *)
(* fail or be killed anywhere, in whatever directory they find, when no    *)
(* two of them overlap and os.Stat tells the truth about sig.key.          *)
(***************************************************************************)
EXTENDS Keygen, TLAPS

Writing == {"write", "filling"}

\* Two invocations are never running at once.
Alone ==
  \A p, q \in Invocations : pc[p] \in Running /\ pc[q] \in Running => p = q

\* An invocation that has not reached the loop starts at the first file.
Fresh ==
  \A p \in Invocations : pc[p] \in {"idle", "stat"} => next[p] = 1

\* While p writes, the files before its index are p's, the one at its index
\* is torn or as it was found, and the ones after it are as they were found.
Progress ==
  \A p \in Invocations : pc[p] \in Writing =>
    /\ found["sig.key"] = "none"
    /\ \A i \in 1..4 :
         disk[files[i]] = IF i < next[p] THEN p
                          ELSE IF i = next[p] /\ pc[p] = "filling" THEN "torn"
                          ELSE found[files[i]]

\* An invocation that wrote all four files left its own layout.
Complete ==
  \A p \in Invocations : pc[p] \in {"report", "done"} => \A f \in FileNames : disk[f] = p

\* sig.key is the first file to be touched, and none is if it was there.
SigKeyFirst ==
  disk["sig.key"] = "none" \/ found["sig.key"] # "none" => disk = found

\* Nobody writes an old key.
FoundStays == \A f \in FileNames : disk[f] = "old" => found[f] = "old"

\* The inductive invariant.
IInv ==
  /\ TypeOK
  /\ Alone
  /\ Fresh
  /\ Progress
  /\ SigKeyFirst
  /\ FoundStays
  /\ PairsMatch
  /\ Complete

\* The four names of the layout, by index.
LEMMA Layout ==
  /\ Len(files) = 4
  /\ files[1] = "sig.key" /\ files[2] = "sig.pub"
  /\ files[3] = "static.key" /\ files[4] = "static.pub"
  /\ FileNames = {"sig.key", "sig.pub", "static.key", "static.pub"}
  /\ \A i \in 1..4 : files[i] \in FileNames
BY DEF files, FileNames

\* What was found was written by no invocation.
LEMMA FoundBefore ==
  ASSUME found \in Directories
  PROVE  /\ found \in [FileNames -> Before]
         /\ \A f \in FileNames : found[f] \in Before /\ found[f] \notin Invocations
         /\ "torn" \notin Invocations /\ "none" \notin Invocations /\ "old" \notin Invocations
BY KeygenAssumption DEF Before

\* The invariant holds of every directory that may be found.
LEMMA InitInv == Init => IInv
<1> SUFFICES ASSUME Init PROVE IInv
  OBVIOUS
<1>1. \A f \in FileNames : found[f] \in Before /\ found[f] \notin Invocations
  BY FoundBefore DEF Init
<1>2. TypeOK
  BY FoundBefore DEF Init, TypeOK
<1>3. Alone /\ Fresh /\ Progress /\ Complete /\ SigKeyFirst /\ FoundStays
  BY DEF Init, Alone, Fresh, Progress, Complete, SigKeyFirst, FoundStays, Running, Writing
<1>4. PairsMatch
  BY <1>1, Layout DEF Init, PairsMatch, Pairs, Keys
<1> QED
  BY <1>2, <1>3, <1>4 DEF IInv

\* While an invocation writes, nobody else runs or has succeeded.
LEMMA WritesAlone ==
  ASSUME IInv, NEW p \in Invocations, pc[p] \in Writing
  PROVE  /\ next[p] \in 1..4
         /\ \A q \in Invocations : q # p => pc[q] \notin Running /\ pc[q] # "done"
<1>1. next[p] \in 1..4
  BY DEF IInv, TypeOK, Writing
<1>2. disk["static.pub"] \notin Invocations
  <2>1. disk[files[4]] = IF 4 < next[p] THEN p
                         ELSE IF 4 = next[p] /\ pc[p] = "filling" THEN "torn"
                         ELSE found[files[4]]
    BY DEF IInv, Progress
  <2> QED
    BY <1>1, <2>1, Layout, FoundBefore DEF IInv, TypeOK
<1>3. \A q \in Invocations : pc[q] # "done"
  BY <1>2, Layout DEF IInv, Complete
<1>4. \A q \in Invocations : q # p => pc[q] \notin Running
  BY DEF IInv, Alone, Writing, Running
<1> QED
  BY <1>1, <1>3, <1>4

\* A step that leaves the disk and the indices alone and sends p to a place
\* outside the write loop keeps the invariant, provided p runs alone.
LEMMA QuietStep ==
  ASSUME IInv, NEW p \in Invocations, NEW l \in {"stat"} \cup Ended,
         pc' = [pc EXCEPT ![p] = l], UNCHANGED <<next, disk, found>>,
         l = "stat" => pc[p] = "idle" /\ \A q \in Invocations : pc[q] \notin Running,
         l = "done" => pc[p] = "report"
  PROVE  IInv'
<1> USE DEF IInv
<1>1. TypeOK'
  BY DEF TypeOK, Running, Ended
<1>2. Alone'
  BY DEF Alone, TypeOK, Running, Ended
<1>3. Fresh'
  BY DEF Fresh, TypeOK, Ended
<1>4. Progress'
  BY DEF Progress, TypeOK, Ended, Writing
<1>5. SigKeyFirst' /\ FoundStays' /\ PairsMatch'
  BY DEF SigKeyFirst, FoundStays, PairsMatch
<1>6. Complete'
  BY DEF Complete, TypeOK, Ended
<1> QED
  BY <1>1, <1>2, <1>3, <1>4, <1>5, <1>6

\* Every step keeps the invariant.
LEMMA StepInv ==
  ASSUME ~Overlap, ~StatErrors, IInv, NEW p \in Invocations, Step(p)
  PROVE  IInv'
<1> USE DEF Goto
<1>1. CASE Mkdir(p)
  BY <1>1, QuietStep DEF Mkdir
<1>2. CASE MkdirFails(p)
  BY <1>2, QuietStep DEF MkdirFails, Ended
<1>3. CASE Refuse(p)
  BY <1>3, QuietStep DEF Refuse, Ended
<1>4. CASE Kill(p) \/ Report(p)
  BY <1>4, QuietStep DEF Kill, Report, Ended
<1>5. CASE WriteFails(p) /\ UNCHANGED disk
  BY <1>5, QuietStep DEF WriteFails, Ended
<1>6. CASE Absent(p)
  <2>1. /\ pc[p] = "stat" /\ next[p] = 1
        /\ disk["sig.key"] = "none" /\ disk = found
        /\ pc' = [pc EXCEPT ![p] = "write"] /\ UNCHANGED <<next, disk, found>>
    BY <1>6 DEF Absent, IInv, SigKeyFirst, Fresh
  <2>2. TypeOK' /\ Alone' /\ Fresh'
    BY <2>1 DEF IInv, TypeOK, Alone, Fresh, Running
  <2>3. \A q \in Invocations : pc'[q] \in Writing => q = p
    BY <2>1 DEF IInv, TypeOK, Alone, Running, Writing
  <2>4. pc'[p] = "write" /\ next'[p] = 1
    BY <2>1 DEF IInv, TypeOK
  <2>5. Progress'
    BY <2>1, <2>3, <2>4, Layout DEF Progress
  <2>6. SigKeyFirst' /\ FoundStays' /\ PairsMatch'
    BY <2>1 DEF IInv, SigKeyFirst, FoundStays, PairsMatch
  <2>7. Complete'
    BY <2>1 DEF IInv, Complete, TypeOK
  <2> QED
    BY <2>2, <2>5, <2>6, <2>7 DEF IInv
<1>7. ASSUME NEW l \in {"write", "filling", "failed", "report"},
             NEW n \in 1..5, NEW c \in {"torn", p},
             pc[p] \in Writing,
             pc' = [pc EXCEPT ![p] = l], next' = [next EXCEPT ![p] = n],
             disk' = [disk EXCEPT ![files[next[p]]] = c], found' = found,
             l = "filling" => n = next[p] /\ c = "torn",
             l \in {"write", "report"} => n = next[p] + 1 /\ c = p,
             l = "write" => n <= 4,
             l = "report" => n = 5
      PROVE  IInv'
  <2>0. /\ next[p] \in 1..4
        /\ \A q \in Invocations : q # p => pc[q] \notin Running /\ pc[q] # "done"
        /\ found["sig.key"] = "none"
    BY <1>7, WritesAlone DEF IInv, Progress
  <2>1. TypeOK'
    BY <1>7, <2>0, Layout DEF IInv, TypeOK, Running, Ended, Before
  <2>2. Alone' /\ Fresh'
    BY <1>7 DEF IInv, TypeOK, Alone, Fresh, Running, Writing
  <2>3. \A q \in Invocations : q # p => pc'[q] = pc[q] /\ pc[q] \notin Running \cup {"done"}
    BY <1>7, <2>0 DEF IInv, TypeOK
  <2>4. pc'[p] = l /\ next'[p] = n /\ disk \in [FileNames -> Before \cup Invocations]
    BY <1>7 DEF IInv, TypeOK
  <2>5. \A i \in 1..4 :
          disk'[files[i]] = IF i = next[p] THEN c ELSE disk[files[i]]
    BY <1>7, <2>0, <2>4, Layout
  <2>6. \A i \in 1..4 :
          disk[files[i]] = IF i < next[p] THEN p
                           ELSE IF i = next[p] /\ pc[p] = "filling" THEN "torn"
                           ELSE found[files[i]]
    BY <1>7 DEF IInv, Progress
  <2>7. Progress'
    <3> SUFFICES ASSUME l \in Writing, NEW i \in 1..4
                 PROVE  disk'[files[i]] = IF i < n THEN p
                          ELSE IF i = n /\ l = "filling" THEN "torn" ELSE found[files[i]]
      BY <1>7, <2>0, <2>3, <2>4 DEF Progress, Writing, Running
    <3> QED
      BY <1>7, <2>0, <2>5, <2>6 DEF Writing
  <2>8. \A i \in 1..4 :
          disk'[files[i]] = IF i < next[p] THEN p ELSE IF i = next[p] THEN c ELSE found[files[i]]
    BY <2>0, <2>5, <2>6
  <2>9. /\ disk'["sig.key"] = IF 1 < next[p] THEN p ELSE c
        /\ disk'["sig.pub"] = IF 2 < next[p] THEN p
                              ELSE IF 2 = next[p] THEN c ELSE found["sig.pub"]
        /\ disk'["static.key"] = IF 3 < next[p] THEN p
                                 ELSE IF 3 = next[p] THEN c ELSE found["static.key"]
        /\ disk'["static.pub"] = IF 4 = next[p] THEN c ELSE found["static.pub"]
    BY <2>0, <2>8, Layout
  <2>10. /\ \A f \in FileNames : found[f] \in Before /\ found[f] \notin Invocations
         /\ "torn" \notin Invocations /\ "none" \notin Invocations /\ "old" \notin Invocations
    BY FoundBefore DEF IInv, TypeOK
  <2>11. SigKeyFirst'
    <3>1. disk'["sig.key"] # "none"
      BY <2>9, <2>10
    <3> QED
      BY <1>7, <2>0, <3>1 DEF SigKeyFirst
  <2>12. PairsMatch'
    <3>1. disk'["sig.pub"] \in Keys =>
            disk'["sig.key"] = disk'["sig.pub"] \/ disk'["sig.pub"] = "old"
      BY <2>0, <2>9, <2>10, Layout DEF Keys
    <3>2. disk'["static.pub"] \in Keys =>
            disk'["static.key"] = disk'["static.pub"] \/ disk'["static.pub"] = "old"
      BY <2>0, <2>9, <2>10, Layout DEF Keys
    <3> QED
      BY <1>7, <2>0, <3>1, <3>2 DEF PairsMatch, Pairs
  <2>13. Complete'
    <3> SUFFICES ASSUME l = "report" PROVE \A f \in FileNames : disk'[f] = p
      BY <2>3, <2>4, <1>7 DEF Complete, Running
    <3> QED
      BY <1>7, <2>0, <2>9, Layout
  <2>14. FoundStays'
    BY <1>7, <2>4, <2>10 DEF IInv, FoundStays
  <2> QED
    BY <2>1, <2>2, <2>7, <2>11, <2>12, <2>13, <2>14 DEF IInv
<1>8. CASE WriteOpen(p)
  <2>1. next' = [next EXCEPT ![p] = next[p]] /\ next[p] \in 1..5 /\ pc[p] \in Writing
    BY <1>8 DEF WriteOpen, IInv, TypeOK, Writing
  <2> QED
    BY <1>7, <1>8, <2>1 DEF WriteOpen
<1>9. CASE WriteFill(p)
  <2>1. next[p] \in 1..4 /\ pc[p] \in Writing
    BY <1>9 DEF WriteFill, IInv, TypeOK, Writing
  <2>2. CASE next[p] = 4
    <3>1. /\ pc' = [pc EXCEPT ![p] = "report"]
          /\ next' = [next EXCEPT ![p] = 5] /\ found' = found
          /\ disk' = [disk EXCEPT ![files[next[p]]] = p]
      BY <1>9, <2>2, Layout DEF WriteFill
    <3> QED
      BY <1>7, <2>1, <2>2, <3>1
  <2>3. CASE next[p] # 4
    <3>1. /\ pc' = [pc EXCEPT ![p] = "write"]
          /\ next' = [next EXCEPT ![p] = next[p] + 1]
          /\ disk' = [disk EXCEPT ![files[next[p]]] = p] /\ found' = found
          /\ next[p] + 1 \in 1..5 /\ next[p] + 1 <= 4
      BY <1>9, <2>1, <2>3, Layout DEF WriteFill
    <3> QED
      BY <1>7, <2>1, <3>1
  <2> QED
    BY <2>2, <2>3
<1>10. CASE WriteFails(p) /\ disk' # disk
  <2>1. /\ pc[p] = "filling" /\ pc' = [pc EXCEPT ![p] = "failed"] /\ next' = next /\ found' = found
        /\ \E c \in {disk[files[next[p]]], p} : disk' = [disk EXCEPT ![files[next[p]]] = c]
    BY <1>10 DEF WriteFails
  <2>2. disk[files[next[p]]] = "torn" /\ next[p] \in 1..5 /\ next' = [next EXCEPT ![p] = next[p]]
    BY <2>1 DEF IInv, Progress, TypeOK, Writing
  <2>3. pc[p] \in Writing
    BY <2>1 DEF Writing
  <2>4. PICK c \in {"torn", p} : disk' = [disk EXCEPT ![files[next[p]]] = c]
    BY <2>1, <2>2
  <2>5. pc' = [pc EXCEPT ![p] = "failed"]
    BY <2>1
  <2> QED
    BY <1>7, <2>1, <2>2, <2>3, <2>4, <2>5
<1> QED
  BY <1>1, <1>2, <1>3, <1>4, <1>5, <1>6, <1>8, <1>9, <1>10 DEF Step

\* No step touches a secret that the test of sig.key protects.
LEMMA StepKeepsSecrets ==
  ASSUME IInv, NEW p \in Invocations, Step(p)
  PROVE  KeepsSecrets
<1>1. CASE UNCHANGED disk
  BY <1>1 DEF KeepsSecrets
<1>2. CASE disk' # disk
  <2>1. /\ pc[p] \in Writing
        /\ \E c : disk' = [disk EXCEPT ![files[next[p]]] = c]
    BY <1>2 DEF Step, Mkdir, MkdirFails, Refuse, Absent, Kill, Report, WriteOpen,
                WriteFill, WriteFails, Writing
  <2>2. /\ next[p] \in 1..4 /\ found["sig.key"] = "none"
        /\ disk[files[next[p]]] \in {"torn", found[files[next[p]]]}
    BY <2>1 DEF IInv, Progress, TypeOK, Writing
  <2>3. /\ \A f \in FileNames : found[f] \in Before /\ found[f] \notin Invocations
        /\ "torn" \notin Invocations
    BY FoundBefore DEF IInv, TypeOK
  <2>4. ASSUME NEW f \in Secrets, disk[f] \in Keys, f = files[next[p]]
        PROVE  Unprotected(f)
    <3>1. f \in FileNames /\ f \in {"sig.key", "static.key"}
      BY Layout DEF Secrets
    <3>2. disk[f] = "old" /\ found[f] = "old"
      BY <2>2, <2>3, <2>4, <3>1 DEF Keys, Before
    <3> QED
      BY <2>2, <3>1, <3>2 DEF Unprotected
  <2>5. \A f \in Secrets : f \in FileNames
    BY Layout DEF Secrets
  <2>6. \A f \in Secrets : f # files[next[p]] => disk'[f] = disk[f]
    BY <2>1, <2>5 DEF IInv, TypeOK
  <2> QED
    BY <2>4, <2>6 DEF KeepsSecrets
<1> QED
  BY <1>1, <1>2

\* Every index stays within the four files and every file holds what was found
\* or some invocation wrote: of overlapping invocations too, and whatever
\* os.Stat says.
THEOREM KeygenTypeCorrect == Spec => []TypeOK
<1>1. Init => TypeOK /\ Fresh
  BY FoundBefore DEF Init, TypeOK, Fresh
<1>2. ASSUME TypeOK, Fresh, NEW p \in Invocations, Step(p) PROVE TypeOK' /\ Fresh'
  <2> USE <1>2 DEF Goto
  <2>1. CASE \/ Mkdir(p) \/ MkdirFails(p) \/ Refuse(p) \/ Absent(p)
             \/ Report(p) \/ Kill(p)
    <3>1. /\ UNCHANGED <<next, disk, found>>
          /\ \E l \in {"stat", "failed", "refused", "write", "done", "killed"} :
               /\ pc' = [pc EXCEPT ![p] = l]
               /\ l = "write" => pc[p] = "stat"
               /\ l = "stat" => pc[p] = "idle"
      BY <2>1 DEF Mkdir, MkdirFails, Refuse, Absent, Report, Kill
    <3> QED
      BY <3>1 DEF TypeOK, Fresh, Running, Ended
  <2>2. CASE WriteOpen(p)
    BY <2>2, Layout DEF WriteOpen, TypeOK, Fresh, Running, Ended, Before
  <2>3. CASE WriteFill(p)
    BY <2>3, Layout DEF WriteFill, TypeOK, Fresh, Running, Ended
  <2>4. CASE WriteFails(p)
    BY <2>4, Layout DEF WriteFails, TypeOK, Fresh, Running, Ended
  <2> QED
    BY <2>1, <2>2, <2>3, <2>4 DEF Step
<1>3. TypeOK /\ Fresh /\ [Next]_vars => (TypeOK /\ Fresh)'
  <2> SUFFICES ASSUME TypeOK, Fresh, [Next]_vars PROVE (TypeOK /\ Fresh)'
    OBVIOUS
  <2>1. CASE UNCHANGED vars
    BY <2>1 DEF vars, TypeOK, Fresh
  <2> QED
    BY <1>2, <2>1 DEF Next, Terminated
<1> QED
  BY <1>1, <1>3, PTL DEF Spec

\* Without overlapping invocations the invariant holds throughout.
THEOREM Invariance == ASSUME ~Overlap, ~StatErrors PROVE Spec => []IInv
<1>1. IInv /\ [Next]_vars => IInv'
  <2> SUFFICES ASSUME IInv, [Next]_vars PROVE IInv'
    OBVIOUS
  <2>1. CASE UNCHANGED vars
    BY <2>1 DEF vars, IInv, TypeOK, Alone, Fresh, Progress, SigKeyFirst,
                FoundStays, PairsMatch, Complete
  <2>2. CASE \E p \in Invocations : Step(p)
    BY <2>2, StepInv
  <2> QED
    BY <2>1, <2>2 DEF Next, Terminated
<1> QED
  BY InitInv, <1>1, PTL DEF Spec

\* For any number of invocations one after the other, failed and killed ones
\* included, and whatever directory they find: no step of cmdKeygen replaces or
\* truncates a sig.key, a secret of an invocation, or a static.key that was
\* beside a sig.key.
THEOREM SecretsCorrect == ASSUME ~Overlap, ~StatErrors PROVE Spec => SecretsKept
<1>1. IInv /\ [Next]_vars => [KeepsSecrets]_vars
  BY StepKeepsSecrets DEF Next, Terminated, vars
<1> QED
  BY <1>1, Invariance, PTL DEF Spec, SecretsKept

\* The header's "never regenerates over existing secrets" as it stands, if no
\* directory is found with a static.key and without a sig.key: an empty one,
\* or any that keygen itself has left.
THEOREM HeaderHolds ==
  ASSUME ~Overlap, ~StatErrors,
         \A d \in Directories : d["sig.key"] = "none" => d["static.key"] # "old"
  PROVE  Spec => NoSecretReplaced
<1>1. IInv /\ [Next]_vars => [NeverRegenerates]_vars
  <2> SUFFICES ASSUME IInv, [Next]_vars PROVE [NeverRegenerates]_vars
    OBVIOUS
  <2>1. [KeepsSecrets]_vars
    BY StepKeepsSecrets DEF Next, Terminated, vars
  <2>2. ASSUME NEW f \in Secrets, Unprotected(f) PROVE disk'[f] = disk[f]
    <3>1. /\ f = "static.key" /\ disk[f] = "old" /\ found["sig.key"] = "none"
          /\ found["static.key"] # "old"
      BY <2>2 DEF Unprotected, IInv, TypeOK
    <3>2. disk["static.key"] # "old"
      BY <3>1, Layout DEF IInv, FoundStays
    <3> QED
      BY <3>1, <3>2
  <2> QED
    BY <2>1, <2>2 DEF KeepsSecrets, NeverRegenerates
<1> QED
  BY <1>1, Invariance, PTL DEF Spec, NoSecretReplaced

\* A public key that an invocation wrote belongs to the secret beside it, and
\* so does one it found, if it found the secrets as well.
THEOREM PairsCorrect == ASSUME ~Overlap, ~StatErrors PROVE Spec => []PairsMatch
<1>1. IInv => PairsMatch
  BY DEF IInv
<1> QED
  BY <1>1, Invariance, PTL

\* A keygen that reported success left its whole layout, for good.
THEOREM DoneCorrect == ASSUME ~Overlap, ~StatErrors PROVE Spec => []DoneIsComplete
<1>1. IInv => DoneIsComplete
  BY DEF IInv, Complete, DoneIsComplete
<1> QED
  BY <1>1, Invariance, PTL
=============================================================================
