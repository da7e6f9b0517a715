--------------------------- MODULE LastroRunProofs ---------------------------
(* Proofs about LastroRun, for every cap, pipe capacity and child.         *)
EXTENDS LastroRun, SequenceTheorems, TLAPS

(* Each goroutine: the chunk it holds was fetched, what it fetched was     *)
(* written, and it ends at EOF only with nothing left to read.             *)
FlowInv ==
  \A s \in Streams :
    /\ held[s] <= fetched[s] /\ fetched[s] <= written[s]
    /\ copier[s] \in {"read", "eof"} => held[s] = 0
    /\ copier[s] \in {"terminal", "capture"} => held[s] > 0
    /\ copier[s] = "eof" => closed[s] /\ fetched[s] = written[s]

Handed(s) == fetched[s] - held[s]

(* Until the cap is exceeded buf is a merge of all bytes handed to         *)
(* captureWriter; afterwards it stays what it was.                         *)
MergeInv ==
  \A s \in Streams :
    \E k \in 0..Handed(s) :
      /\ HasPrefix(buf, s, k)
      /\ ~exceeded => k = Handed(s)

(* The length of buf and the flag are decided by the number of bytes       *)
(* handed over.                                                            *)
CapInv ==
  LET total == Handed("stdout") + Handed("stderr")
  IN  IF exceeded THEN total > 0 /\ total > MaxOutput
                  ELSE Len(buf) = total /\ (total > 0 => total <= MaxOutput)

(* The main goroutine goes past Wait only with both goroutines joined,     *)
(* nothing exceeded and no copy error.                                     *)
Settled == child = "exited" /\ Joined /\ ~CopyError /\ ~exceeded

ControlInv ==
  /\ pc = "preflight" => child = "none"
  /\ pc = "wait" => child # "none"
  /\ pc \in {"save", "saving", "seal", "write", "writing", "report"} => Settled
  /\ pc = "giveup" => child = "exited"
  /\ pc \in {"preflight", "wait", "save", "saving", "seal"} =>
       receipt = <<>> /\ outFile = "before"
  /\ pc \in {"write", "writing", "report"} => receipt = captured
  /\ pc = "report" => outFile = "full"
  /\ receipt # <<>> => receipt = captured /\ Settled
  /\ outFile # "before" => receipt # <<>>
  /\ pc \in {"seal", "write", "writing", "report"} /\ saving => saveFile = "full"
  /\ outFile # "before" /\ saving => saveFile = "full"
  /\ pc = "exited" /\ child # "none" =>
       \/ /\ status = OsStatus(code) /\ outFile = "full" /\ receipt = captured
          /\ receipt # <<>>
       \/ status = exitNoReceipt

IInv == TypeOK /\ FlowInv /\ MergeInv /\ CapInv /\ ControlInv

-----------------------------------------------------------------------------
(* Facts about the merge.                                                  *)

(* A chunk of s that continues where q stopped extends the prefix of s and *)
(* leaves the prefixes of other streams alone.                             *)
LEMMA ExtendPrefix ==
  ASSUME NEW q \in Seq(Byte), NEW s \in Streams, NEW t \in Streams,
         NEW k \in Nat, NEW m \in Nat, NEW n \in Nat, NEW p \in Seq(Byte),
         Len(p) = n, \A i \in 1..n : p[i] = <<s, k + i>>,
         HasPrefix(q, s, k), HasPrefix(q, t, m)
  PROVE  /\ HasPrefix(q \o p, s, k + n)
         /\ t # s => HasPrefix(q \o p, t, m)
<1> DEFINE r == q \o p
<1>1. /\ Len(r) = Len(q) + n /\ Len(q) \in Nat
      /\ \A i \in 1..Len(q) : r[i] = q[i]
      /\ \A i \in 1..n : r[Len(q) + i] = <<s, k + i>>
  <2>1. Len(q) \in Nat
    OBVIOUS
  <2>0. Len(r) = Len(q) + n
    <3>1. Len(q \o p) = Len(q) + Len(p)
      BY ConcatProperties, Zenon
    <3> QED BY <3>1
  <2>2. \A i \in 1..Len(q) : r[i] = q[i]
    OBVIOUS
  <2>3. ASSUME NEW i \in 1..n PROVE r[Len(q) + i] = <<s, k + i>>
    <3>1. r[Len(q) + i] = p[i]
      OBVIOUS
    <3> QED BY <3>1
  <2> QED BY <2>0, <2>1, <2>2, <2>3
<1>2. \A j \in 1..Len(r) : \/ j \in 1..Len(q) /\ r[j] = q[j]
                           \/ \E i \in 1..n : j = Len(q) + i /\ r[j] = <<s, k + i>>
  <2> SUFFICES ASSUME NEW j \in 1..Len(r), j \notin 1..Len(q)
               PROVE  \E i \in 1..n : j = Len(q) + i /\ r[j] = <<s, k + i>>
    BY <1>1
  <2>1. j - Len(q) \in 1..n /\ j = Len(q) + (j - Len(q))
    BY <1>1
  <2> QED BY <2>1, <1>1
<1> HIDE DEF r
<1>3. HasPrefix(r, s, k + n)
  <2>1. ASSUME NEW i \in 1..(k + n)
        PROVE  \E j \in 1..Len(r) : r[j] = <<s, i>>
    <3>1. CASE i <= k
      <4>0. i \in 1..k
        BY <3>1
      <4>1. PICK j \in 1..Len(q) : q[j] = <<s, i>>
        BY <4>0 DEF HasPrefix
      <4>2. j \in 1..Len(r) /\ r[j] = <<s, i>>
        BY <4>1, <1>1
      <4> QED BY <4>2
    <3>2. CASE i > k
      <4>1. PICK a \in 1..n : k + a = i
        <5>1. i - k \in 1..n /\ k + (i - k) = i
          BY <3>2
        <5> QED BY <5>1
      <4>2. r[Len(q) + a] = <<s, i>>
        BY <1>1, <4>1
      <4>3. Len(q) + a \in 1..Len(r)
        BY <1>1
      <4> QED BY <4>2, <4>3
    <3> QED BY <3>1, <3>2
  <2>2. ASSUME NEW j \in 1..Len(r), r[j][1] = s
        PROVE  r[j][2] \in 1..(k + n)
    <3>1. CASE j \in 1..Len(q) /\ r[j] = q[j]
      <4>1. q[j][2] \in 1..k
        BY <3>1, <2>2 DEF HasPrefix
      <4> QED BY <4>1, <3>1
    <3>2. CASE \E i \in 1..n : j = Len(q) + i /\ r[j] = <<s, k + i>>
      BY <3>2
    <3> QED BY <3>1, <3>2, <1>2
  <2>3. ASSUME NEW i \in 1..Len(r), NEW j \in 1..Len(r),
               i < j, r[i][1] = s, r[j][1] = s
        PROVE  r[i][2] < r[j][2]
    <3>1. CASE j \in 1..Len(q) /\ r[j] = q[j]
      <4>1. i \in 1..Len(q) /\ r[i] = q[i]
        BY <1>1, <3>1, <2>3
      <4> QED BY <4>1, <3>1, <2>3 DEF HasPrefix
    <3>2. CASE \E a \in 1..n : j = Len(q) + a /\ r[j] = <<s, k + a>>
      <4>1. PICK a \in 1..n : j = Len(q) + a /\ r[j] = <<s, k + a>>
        BY <3>2
      <4>2. CASE i \in 1..Len(q) /\ r[i] = q[i]
        <5>1. r[i][2] \in 1..k
          BY <4>2, <2>3 DEF HasPrefix
        <5> QED BY <5>1, <4>1
      <4>3. CASE \E b \in 1..n : i = Len(q) + b /\ r[i] = <<s, k + b>>
        BY <4>1, <4>3, <2>3, <1>1
      <4> QED BY <4>2, <4>3, <1>2
    <3> QED BY <3>1, <3>2, <1>2
  <2> QED BY <2>1, <2>2, <2>3 DEF HasPrefix
<1>4. ASSUME t # s PROVE HasPrefix(r, t, m)
  <2>1. \A j \in 1..Len(r) : r[j][1] = t => j \in 1..Len(q) /\ r[j] = q[j]
    BY <1>2, <1>4
  <2>2. \A j \in 1..Len(q) : j \in 1..Len(r)
    BY <1>1
  <2> QED BY <1>1, <2>1, <2>2 DEF HasPrefix
<1> QED BY <1>3, <1>4 DEF r

(* The trailer is no byte of a stream: appending it keeps every prefix.    *)
LEMMA TrailerKeepsPrefix ==
  ASSUME NEW q \in Seq(Byte), NEW s \in Streams, NEW k \in Nat, NEW c,
         HasPrefix(q, s, k)
  PROVE  HasPrefix(Append(q, <<"exit-status", c>>), s, k)
<1> DEFINE r == Append(q, <<"exit-status", c>>)
<1>1. /\ Len(r) = Len(q) + 1 /\ Len(q) \in Nat
      /\ \A i \in 1..Len(q) : r[i] = q[i]
      /\ r[Len(q) + 1] = <<"exit-status", c>>
  OBVIOUS
<1>2. "exit-status" # s
  BY DEF Streams
<1> HIDE DEF r
<1>3. \A j \in 1..Len(r) : r[j][1] = s => j \in 1..Len(q) /\ r[j] = q[j]
  <2> TAKE j \in 1..Len(r)
  <2>1. j \in 1..Len(q) \/ j = Len(q) + 1
    BY <1>1
  <2> QED BY <2>1, <1>1, <1>2
<1>4. HasPrefix(r, s, k)
  <2>1. \A i \in 1..k : \E j \in 1..Len(r) : r[j] = <<s, i>>
    <3> TAKE i \in 1..k
    <3>1. PICK j \in 1..Len(q) : q[j] = <<s, i>>
      BY DEF HasPrefix
    <3> QED BY <3>1, <1>1
  <2>2. \A j \in 1..Len(r) : r[j][1] = s => r[j][2] \in 1..k
    BY <1>3 DEF HasPrefix
  <2>3. \A i, j \in 1..Len(r) :
          i < j /\ r[i][1] = s /\ r[j][1] = s => r[i][2] < r[j][2]
    BY <1>3 DEF HasPrefix
  <2> QED BY <2>1, <2>2, <2>3 DEF HasPrefix
<1> QED BY <1>4 DEF r

-----------------------------------------------------------------------------
(* The inductive invariant.                                                *)

(* Eight checks stand before the child; the last is Start.                 *)
LEMMA Stages ==
  /\ Len(EarlyReturns) = 8
  /\ \A i \in 1..8 : EarlyReturns[i].codes \subseteq 0..255
  /\ \A i \in 1..8 : EarlyReturns[i].check # "start" => i # 8
BY DEF EarlyReturns, verifyUsage, exitNoReceipt, exitNoStart

(* os.Exit keeps codes 0..255 and turns -1 into 255.                       *)
LEMMA StatusRange ==
  /\ \A c \in 0..255 : OsStatus(c) = c
  /\ \A c \in Int : c < 0 /\ c > -256 => OsStatus(c) = c + 256
  /\ OsStatus(exitNoReceipt) = 125
<1>1. \A c \in 0..255 : OsStatus(c) = c
  BY DEF OsStatus
<1>2. \A c \in Int : c < 0 /\ c > -256 => OsStatus(c) = c + 256
  BY Z3 DEF OsStatus
<1>3. OsStatus(exitNoReceipt) = 125
  BY <1>1 DEF exitNoReceipt
<1> QED BY <1>1, <1>2, <1>3

(* The child's code reaches os.Exit as a status in 0..255.                 *)
LEMMA CodeRange ==
  ASSUME TypeOK
  PROVE  /\ code \in -1..255
         /\ OsStatus(code) \in 0..255
         /\ OsStatus(code) = 0 => code = 0
<1>1. code \in -1..255
  BY BoundsAssumption DEF TypeOK, Killed
<1> QED BY <1>1, StatusRange

(* The inductive invariant holds before the first check of cmdRun.         *)
LEMMA InitInv == Init => IInv
<1> SUFFICES ASSUME Init PROVE IInv
  OBVIOUS
<1> USE DEF Init
<1>1. TypeOK
  <2>1. stage \in 1..Len(EarlyReturns)
    BY Stages
  <2>2. /\ written \in [Streams -> 0..MaxBytes]
        /\ fetched \in [Streams -> 0..MaxBytes]
        /\ held \in [Streams -> 0..MaxBytes]
    BY BoundsAssumption
  <2>3. buf \in Seq(Byte) /\ receipt \in Seq(Byte \cup Trailer)
    OBVIOUS
  <2> QED BY <2>1, <2>2, <2>3 DEF TypeOK, NoStatus
<1>2. FlowInv
  BY DEF FlowInv
<1>3. MergeInv
  <2>1. ASSUME NEW s \in Streams
        PROVE  HasPrefix(buf, s, 0) /\ Handed(s) = 0
    BY DEF HasPrefix, Handed
  <2> QED BY <2>1 DEF MergeInv
<1>4. CapInv
  BY DEF CapInv, Handed, Streams
<1>5. ControlInv
  BY DEF ControlInv
<1> QED BY <1>1, <1>2, <1>3, <1>4, <1>5 DEF IInv

(* The chunk a goroutine holds consists of bytes of its stream.            *)
LEMMA ChunkBytes ==
  ASSUME TypeOK, FlowInv, NEW s \in Streams
  PROVE  /\ Chunk(s) \in Seq(Byte) /\ Len(Chunk(s)) = held[s]
         /\ \A i \in 1..held[s] : Chunk(s)[i] = <<s, Handed(s) + i>>
<1>1. \A i \in 1..held[s] : <<s, fetched[s] - held[s] + i>> \in Byte
  BY BoundsAssumption DEF TypeOK, FlowInv, Byte
<1>2. held[s] \in Nat
  BY BoundsAssumption DEF TypeOK
<1> QED BY <1>1, <1>2 DEF Chunk, Handed

(* Every step keeps the types.                                             *)
LEMMA TypeStep == IInv /\ [Next]_vars => TypeOK'
<1> SUFFICES ASSUME IInv, [Next]_vars PROVE TypeOK'
  OBVIOUS
<1> USE BoundsAssumption DEF IInv, runVars, childVars, copyVars, fileVars
<1>1. ASSUME CheckPasses PROVE TypeOK'
  BY <1>1, Stages DEF CheckPasses, TypeOK
<1>2. ASSUME CheckFails PROVE TypeOK'
  <2>1. PICK c \in EarlyReturns[stage].codes : Exit(c)
    BY <1>2 DEF CheckFails
  <2>2. c \in 0..255
    BY <2>1, Stages DEF TypeOK
  <2>3. pc' = "exited" /\ status' \in 0..255
    BY <2>1, <2>2, StatusRange DEF Exit
  <2> QED BY <1>2, <2>3 DEF CheckFails, TypeOK
<1>3. ASSUME NEW s \in Streams, ChildWrite(s) PROVE TypeOK'
  BY <1>3 DEF ChildWrite, TypeOK
<1>4. ASSUME NEW s \in Streams, ChildBrokenPipe(s) PROVE TypeOK'
  BY <1>4 DEF ChildBrokenPipe, TypeOK
<1>5. ASSUME NEW s \in Streams, CloseStream(s) PROVE TypeOK'
  BY <1>5 DEF CloseStream, TypeOK
<1>6. ASSUME ChildExit PROVE TypeOK'
  BY <1>6 DEF ChildExit, TypeOK
<1>7. ASSUME HeadMoves PROVE TypeOK'
  BY <1>7 DEF HeadMoves, TypeOK
<1>8. ASSUME NEW s \in Streams, CopyRead(s) PROVE TypeOK'
  BY <1>8 DEF CopyRead, ReadSizes, Waiting, FlowInv, TypeOK
<1>9. ASSUME NEW s \in Streams, CopyEOF(s) PROVE TypeOK'
  BY <1>9 DEF CopyEOF, TypeOK
<1>10. ASSUME NEW s \in Streams, PassThrough(s) PROVE TypeOK'
  BY <1>10 DEF PassThrough, TypeOK
<1>11. ASSUME NEW s \in Streams, Capture(s) PROVE TypeOK'
  <2>1. Chunk(s) \in Seq(Byte)
    BY <1>11, ChunkBytes
  <2>2. buf \o Chunk(s) \in Seq(Byte)
    BY <2>1, ConcatProperties, Zenon DEF TypeOK
  <2>3. buf' \in Seq(Byte) /\ exceeded' \in BOOLEAN
    BY <1>11, <2>2 DEF Capture, Write, TypeOK
  <2> QED BY <1>11, <2>3 DEF Capture, TypeOK
<1>12. ASSUME NEW s \in Streams, PassThroughFails(s) PROVE TypeOK'
  BY <1>12 DEF PassThroughFails, TypeOK
<1>13. ASSUME NotObserved PROVE TypeOK'
  BY <1>13 DEF NotObserved, TypeOK
<1>14. ASSUME Observed PROVE TypeOK'
  BY <1>14 DEF Observed, NextFile, TypeOK
<1>15. ASSUME SaveOpen PROVE TypeOK'
  BY <1>15 DEF SaveOpen, TypeOK
<1>16. ASSUME SaveDone PROVE TypeOK'
  BY <1>16 DEF SaveDone, TypeOK
<1>17. ASSUME SaveFails PROVE TypeOK'
  BY <1>17 DEF SaveFails, TypeOK
<1>18. ASSUME Seal PROVE TypeOK'
  <2>1. <<"exit-status", code>> \in Trailer
    BY DEF Trailer, TypeOK
  <2>2. buf \in Seq(Byte \cup Trailer)
    BY DEF TypeOK
  <2>3. captured \in Seq(Byte \cup Trailer)
    BY <2>1, <2>2 DEF captured
  <2> QED BY <1>18, <2>3 DEF Seal, TypeOK
<1>19. ASSUME ReceiptOpen PROVE TypeOK'
  BY <1>19 DEF ReceiptOpen, TypeOK
<1>20. ASSUME ReceiptDone PROVE TypeOK'
  BY <1>20 DEF ReceiptDone, TypeOK
<1>21. ASSUME ReceiptFails PROVE TypeOK'
  BY <1>21 DEF ReceiptFails, TypeOK
<1>22. ASSUME Return PROVE TypeOK'
  <2>1. pc' = "exited" /\ status' \in 0..255
    BY <1>22, CodeRange, StatusRange DEF Return, Exit
  <2> QED BY <1>22, <2>1 DEF Return, TypeOK
<1>23. ASSUME Crash PROVE TypeOK'
  BY <1>23 DEF Crash, TypeOK
<1>24. ASSUME UNCHANGED vars PROVE TypeOK'
  BY <1>24 DEF vars, runVars, childVars, copyVars, fileVars, TypeOK
<1> QED
  BY <1>1, <1>2, <1>3, <1>4, <1>5, <1>6, <1>7, <1>8, <1>9, <1>10, <1>11, <1>12, <1>13,
     <1>14, <1>15, <1>16, <1>17, <1>18, <1>19, <1>20, <1>21, <1>22, <1>23, <1>24
  DEF Next, Copy, Main, Terminated

(* The pipes and captureWriter change only by a step of a writer or of a   *)
(* copy goroutine.                                                         *)
Still == UNCHANGED <<written, closed, fetched, held, copier, buf, exceeded>>

(* Only the child, CloseStream and the goroutines touch pipes and buffer.  *)
LEMMA PipeSteps ==
  ASSUME [Next]_vars
  PROVE  \/ Still
         \/ \E s \in Streams : \/ ChildWrite(s) \/ CloseStream(s) \/ Copy(s)
                               \/ PassThroughFails(s)
<1> USE DEF Still, childVars, copyVars
<1>1. CASE CheckPasses \/ CheckFails
  BY <1>1 DEF CheckPasses, CheckFails
<1>2. ASSUME NEW s \in Streams, ChildBrokenPipe(s) PROVE Still
  BY <1>2 DEF ChildBrokenPipe
<1>3. CASE ChildExit \/ HeadMoves
  BY <1>3 DEF ChildExit, HeadMoves
<1>4. CASE Main
  BY <1>4 DEF Main, NotObserved, Observed, SaveOpen, SaveDone, SaveFails,
              Seal, ReceiptOpen, ReceiptDone, ReceiptFails, Return
<1>5. CASE Crash \/ Terminated \/ UNCHANGED vars
  BY <1>5 DEF Crash, Terminated, vars
<1> QED BY <1>1, <1>2, <1>3, <1>4, <1>5 DEF Next

(* Every step keeps the account of the bytes in each pipe.                 *)
LEMMA FlowStep == IInv /\ [Next]_vars => FlowInv'
<1> SUFFICES ASSUME IInv, [Next]_vars PROVE FlowInv'
  OBVIOUS
<1> USE DEF IInv, FlowInv
<1>1. CASE Still
  BY <1>1 DEF Still
<1>2. ASSUME NEW s \in Streams, ChildWrite(s) PROVE FlowInv'
  BY <1>2 DEF ChildWrite, copyVars, TypeOK
<1>3. ASSUME NEW s \in Streams, CloseStream(s) PROVE FlowInv'
  BY <1>3 DEF CloseStream, copyVars, TypeOK
<1>4. ASSUME NEW s \in Streams, CopyRead(s) PROVE FlowInv'
  BY <1>4 DEF CopyRead, ReadSizes, Waiting, childVars, TypeOK
<1>5. ASSUME NEW s \in Streams, CopyEOF(s) PROVE FlowInv'
  BY <1>5 DEF CopyEOF, Waiting, childVars, TypeOK
<1>6. ASSUME NEW s \in Streams, PassThrough(s) \/ PassThroughFails(s)
      PROVE  FlowInv'
  BY <1>6 DEF PassThrough, PassThroughFails, childVars, TypeOK
<1>7. ASSUME NEW s \in Streams, Capture(s) PROVE FlowInv'
  BY <1>7 DEF Capture, childVars, TypeOK
<1> QED BY <1>1, <1>2, <1>3, <1>4, <1>5, <1>6, <1>7, PipeSteps DEF Copy

(* Reading moves bytes from the pipe to the chunk and hands nothing over.  *)
LEMMA ReadHandsNothing ==
  ASSUME IInv, NEW s \in Streams, CopyRead(s)
  PROVE  \A t \in Streams : Handed(t)' = Handed(t)
BY DEF IInv, FlowInv, TypeOK, CopyRead, ReadSizes, Waiting, Handed

(* Every step keeps buf a merge of prefixes of the two streams.            *)
LEMMA MergeStep == IInv /\ [Next]_vars => MergeInv'
<1> SUFFICES ASSUME IInv, [Next]_vars PROVE MergeInv'
  OBVIOUS
<1> USE DEF IInv
<1>1. ASSUME UNCHANGED <<buf, exceeded>>, \A t \in Streams : Handed(t)' = Handed(t)
      PROVE  MergeInv'
  BY <1>1 DEF MergeInv, HasPrefix
<1>2. CASE Still
  BY <1>1, <1>2 DEF Still, Handed
<1>3. ASSUME NEW s \in Streams,
             \/ ChildWrite(s) \/ CloseStream(s) \/ CopyEOF(s)
             \/ PassThrough(s) \/ PassThroughFails(s)
      PROVE  MergeInv'
  BY <1>1, <1>3 DEF ChildWrite, CloseStream, CopyEOF, PassThrough,
                    PassThroughFails, copyVars, Handed
<1>4. ASSUME NEW s \in Streams, CopyRead(s) PROVE MergeInv'
  BY <1>1, <1>4, ReadHandsNothing DEF CopyRead
<1>5. ASSUME NEW s \in Streams, Capture(s) PROVE MergeInv'
  <2>1. /\ Handed(s)' = fetched[s]
        /\ \A t \in Streams : t # s => Handed(t)' = Handed(t)
        /\ \A t \in Streams : /\ Handed(t) \in Nat /\ Handed(t)' \in Nat
                               /\ Handed(t) <= Handed(t)'
    BY <1>5 DEF Capture, Handed, TypeOK, FlowInv
  <2>2. CASE exceeded'
    <3>1. buf' = buf
      BY <1>5, <2>2 DEF Capture, Write
    <3>2. ASSUME NEW t \in Streams
          PROVE  \E k \in 0..Handed(t)' : HasPrefix(buf', t, k)
      <4>1. PICK k \in 0..Handed(t) : HasPrefix(buf, t, k)
        BY DEF MergeInv
      <4>2. k \in 0..Handed(t)'
        BY <2>1
      <4> QED BY <4>1, <4>2, <3>1
    <3> QED BY <2>2, <3>2 DEF MergeInv, HasPrefix
  <2>3. CASE ~exceeded'
    <3>1. ~exceeded /\ buf' = buf \o Chunk(s)
      BY <1>5, <2>3 DEF Capture, Write
    <3>2. \A t \in Streams : HasPrefix(buf, t, Handed(t))
      BY <3>1 DEF MergeInv
    <3>3. /\ held[s] \in Nat /\ Handed(s) \in Nat
          /\ Len(Chunk(s)) = held[s]
          /\ \A i \in 1..held[s] : Chunk(s)[i] = <<s, Handed(s) + i>>
          /\ Chunk(s) \in Seq(Byte)
      <4>1. held[s] \in Nat /\ Handed(s) \in Nat
        BY <2>1 DEF TypeOK
      <4> QED BY <4>1, ChunkBytes, Zenon
    <3>5. Handed(s) + held[s] = Handed(s)'
      BY <2>1 DEF Handed, TypeOK
    <3>6. ASSUME NEW t \in Streams PROVE HasPrefix(buf', t, Handed(t)')
      <4>1. buf \in Seq(Byte) /\ Handed(t) \in Nat
        BY <2>1 DEF TypeOK
      <4>2. /\ HasPrefix(buf \o Chunk(s), s, Handed(s) + held[s])
            /\ t # s => HasPrefix(buf \o Chunk(s), t, Handed(t))
        BY <3>2, <3>3, <4>1, ExtendPrefix
      <4> QED BY <4>2, <3>1, <3>5, <2>1
    <3>7. ASSUME NEW t \in Streams
          PROVE  (\E k \in 0..Handed(t) : HasPrefix(buf, t, k)
                                         /\ (~exceeded => k = Handed(t)))'
      <4>1. Handed(t)' \in 0..Handed(t)'
        BY <2>1
      <4> QED BY <3>6, <4>1 DEF HasPrefix
    <3> QED BY <3>7 DEF MergeInv
  <2> QED BY <2>2, <2>3
<1> QED BY <1>2, <1>3, <1>4, <1>5, PipeSteps DEF Copy

(* Every step keeps the account of the cap: Len(buf) and exceeded.         *)
LEMMA CapStep == IInv /\ [Next]_vars => CapInv'
<1> SUFFICES ASSUME IInv, [Next]_vars PROVE CapInv'
  OBVIOUS
<1> USE DEF IInv
<1>1. ASSUME UNCHANGED <<buf, exceeded>>, \A t \in Streams : Handed(t)' = Handed(t)
      PROVE  CapInv'
  BY <1>1 DEF CapInv, Streams
<1>2. CASE Still
  BY <1>1, <1>2 DEF Still, Handed
<1>3. ASSUME NEW s \in Streams,
             \/ ChildWrite(s) \/ CloseStream(s) \/ CopyEOF(s)
             \/ PassThrough(s) \/ PassThroughFails(s)
      PROVE  CapInv'
  BY <1>1, <1>3 DEF ChildWrite, CloseStream, CopyEOF, PassThrough,
                    PassThroughFails, copyVars, Handed
<1>4. ASSUME NEW s \in Streams, CopyRead(s) PROVE CapInv'
  BY <1>1, <1>4, ReadHandsNothing DEF CopyRead
<1>5. ASSUME NEW s \in Streams, Capture(s) PROVE CapInv'
  <2>1. /\ Handed(s)' = Handed(s) + held[s]
        /\ \A t \in Streams : t # s => Handed(t)' = Handed(t)
        /\ \A t \in Streams : Handed(t) \in Nat
        /\ held[s] \in Nat \ {0}
    BY <1>5 DEF Capture, Handed, TypeOK, FlowInv
  <2>2. /\ Handed("stdout")' + Handed("stderr")'
             = Handed("stdout") + Handed("stderr") + held[s]
        /\ Handed("stdout") \in Nat /\ Handed("stderr") \in Nat
    BY <2>1 DEF Streams
  <2>3. Chunk(s) \in Seq(Byte) /\ Len(Chunk(s)) = held[s]
    BY <1>5, ChunkBytes
  <2>4. Len(buf \o Chunk(s)) = Len(buf) + Len(Chunk(s))
    BY <2>3, ConcatProperties, Zenon DEF TypeOK
  <2>5. Len(buf) \in Nat
    BY DEF TypeOK
  <2>6. CASE exceeded
    <3>1. exceeded' = TRUE
      BY <1>5, <2>6 DEF Capture, Write
    <3> QED BY <2>1, <2>2, <2>6, <3>1, BoundsAssumption DEF CapInv
  <2>7. CASE ~exceeded /\ Len(buf) + Len(Chunk(s)) > MaxOutput
    <3>1. exceeded' = TRUE
      BY <1>5, <2>7 DEF Capture, Write
    <3> QED BY <2>1, <2>2, <2>3, <2>7, <3>1, BoundsAssumption DEF CapInv
  <2>8. CASE ~exceeded /\ ~(Len(buf) + Len(Chunk(s)) > MaxOutput)
    <3>1. exceeded' = FALSE /\ buf' = buf \o Chunk(s)
      BY <1>5, <2>8 DEF Capture, Write
    <3>2. Len(buf') = Handed("stdout")' + Handed("stderr")'
      BY <2>2, <2>3, <2>4, <2>8, <3>1 DEF CapInv
    <3>3. Len(buf') <= MaxOutput
      BY <2>3, <2>4, <2>5, <2>8, <3>1, BoundsAssumption
    <3> QED BY <3>1, <3>2, <3>3 DEF CapInv
  <2> QED BY <2>6, <2>7, <2>8
<1> QED BY <1>2, <1>3, <1>4, <1>5, PipeSteps DEF Copy

(* Every step keeps the order of cmdRun: join, save, seal, write, exit.    *)
LEMMA ControlStep == IInv /\ [Next]_vars => ControlInv'
<1> SUFFICES ASSUME IInv, [Next]_vars PROVE ControlInv'
  OBVIOUS
<1> USE DEF IInv, ControlInv, Settled, Joined, CopyError, captured,
            runVars, childVars, copyVars, fileVars
<1>1. ASSUME CheckPasses PROVE ControlInv'
  BY <1>1 DEF CheckPasses
<1>2. ASSUME CheckFails PROVE ControlInv'
  BY <1>2 DEF CheckFails, Exit
<1>3. ASSUME NEW s \in Streams, ChildWrite(s) PROVE ControlInv'
  BY <1>3 DEF ChildWrite
<1>4. ASSUME NEW s \in Streams, ChildBrokenPipe(s) PROVE ControlInv'
  BY <1>4 DEF ChildBrokenPipe
<1>5. ASSUME NEW s \in Streams, CloseStream(s) PROVE ControlInv'
  BY <1>5 DEF CloseStream
<1>6. ASSUME ChildExit PROVE ControlInv'
  BY <1>6 DEF ChildExit
<1>7. ASSUME HeadMoves PROVE ControlInv'
  BY <1>7 DEF HeadMoves
<1>8. ASSUME NEW s \in Streams, CopyRead(s) PROVE ControlInv'
  BY <1>8 DEF CopyRead
<1>9. ASSUME NEW s \in Streams, CopyEOF(s) PROVE ControlInv'
  BY <1>9 DEF CopyEOF
<1>10. ASSUME NEW s \in Streams, PassThrough(s) PROVE ControlInv'
  BY <1>10 DEF PassThrough
<1>11. ASSUME NEW s \in Streams, Capture(s) PROVE ControlInv'
  BY <1>11 DEF Capture
<1>12. ASSUME NEW s \in Streams, PassThroughFails(s) PROVE ControlInv'
  BY <1>12 DEF PassThroughFails
<1>13. ASSUME NotObserved PROVE ControlInv'
  BY <1>13 DEF NotObserved
<1>14. ASSUME Observed PROVE ControlInv'
  BY <1>14 DEF Observed, NextFile
<1>15. ASSUME SaveOpen PROVE ControlInv'
  BY <1>15 DEF SaveOpen
<1>16. ASSUME SaveDone PROVE ControlInv'
  BY <1>16 DEF SaveDone
<1>17. ASSUME SaveFails PROVE ControlInv'
  BY <1>17 DEF SaveFails
<1>18. ASSUME Seal PROVE ControlInv'
  BY <1>18 DEF Seal
<1>19. ASSUME ReceiptOpen PROVE ControlInv'
  BY <1>19 DEF ReceiptOpen
<1>20. ASSUME ReceiptDone PROVE ControlInv'
  BY <1>20 DEF ReceiptDone
<1>21. ASSUME ReceiptFails PROVE ControlInv'
  BY <1>21 DEF ReceiptFails
<1>22. ASSUME Return PROVE ControlInv'
  <2>1. CASE pc = "report"
    BY <1>22, <2>1 DEF Return, Exit
  <2>2. CASE pc = "giveup"
    <3>1. pc' = "exited" /\ status' = exitNoReceipt
      BY <1>22, <2>2, StatusRange DEF Return, Exit, exitNoReceipt
    <3> QED BY <1>22, <3>1 DEF Return
  <2> QED BY <1>22, <2>1, <2>2 DEF Return
<1>23. ASSUME Crash PROVE ControlInv'
  BY <1>23 DEF Crash
<1>24. ASSUME UNCHANGED vars PROVE ControlInv'
  BY <1>24 DEF vars
<1> QED BY <1>1, <1>2, <1>3, <1>4, <1>5, <1>6, <1>7, <1>8, <1>9, <1>10, <1>11, <1>12,
  <1>13, <1>14, <1>15, <1>16, <1>17, <1>18, <1>19, <1>20, <1>21, <1>22, <1>23, <1>24
  DEF Next, Copy, Main, Terminated

(* IInv is an invariant of LastroRun.                                      *)
THEOREM Invariance == Spec => []IInv
<1>1. IInv /\ [Next]_vars => IInv'
  BY TypeStep, FlowStep, MergeStep, CapStep, ControlStep DEF IInv
<1> QED BY InitInv, <1>1, PTL DEF Spec

-----------------------------------------------------------------------------
(* What the invariant implies.                                             *)

(* A stream copied to EOF was handed over whole; what was handed over is a *)
(* prefix of what was written.                                             *)
LEMMA HandedRange ==
  ASSUME IInv, NEW s \in Streams
  PROVE  /\ Handed(s) \in 0..written[s]
         /\ copier[s] = "eof" => Handed(s) = written[s]
BY DEF IInv, TypeOK, FlowInv, Handed

(* The inductive invariant implies ReceiptFaithful.                        *)
LEMMA FaithfulFromInv == IInv => ReceiptFaithful
<1> SUFFICES ASSUME IInv, receipt # <<>>
             PROVE  /\ receipt[Len(receipt)] = <<"exit-status", code>>
                    /\ child = "exited"
                    /\ \A s \in Streams :
                         \/ HoldsAll(receipt, s)
                         \/ /\ copier[s] = "failed" /\ code # 0
                            /\ \E k \in 0..written[s] : HasPrefix(receipt, s, k)
  BY DEF ReceiptFaithful
<1>1. receipt = captured /\ Settled /\ buf \in Seq(Byte)
  BY DEF IInv, ControlInv, TypeOK
<1>2. receipt[Len(receipt)] = <<"exit-status", code>>
  BY <1>1 DEF captured
<1>3. ASSUME NEW s \in Streams
      PROVE  \/ HoldsAll(receipt, s)
             \/ /\ copier[s] = "failed" /\ code # 0
                /\ \E k \in 0..written[s] : HasPrefix(receipt, s, k)
  <2>1. HasPrefix(buf, s, Handed(s))
    BY <1>1 DEF IInv, MergeInv, Settled
  <2>2. Handed(s) \in Nat
    BY HandedRange DEF IInv, TypeOK
  <2>3. HasPrefix(receipt, s, Handed(s))
    BY <1>1, <2>1, <2>2, TrailerKeepsPrefix DEF captured
  <2>4. CASE copier[s] = "eof"
    BY <2>3, <2>4, HandedRange DEF HoldsAll
  <2>5. CASE copier[s] = "failed"
    <3>1. code # 0
      BY <1>1, <2>5 DEF Settled, CopyError
    <3> QED BY <2>3, <2>5, <3>1, HandedRange
  <2> QED BY <1>1, <2>4, <2>5 DEF Settled, Joined
<1> QED BY <1>1, <1>2, <1>3 DEF Settled

(* The inductive invariant implies GreenIsWhole.                           *)
LEMMA GreenFromInv == IInv => GreenIsWhole
<1> SUFFICES ASSUME IInv, pc = "exited", child # "none", status = 0
             PROVE  /\ child = "exited" /\ code = 0
                    /\ outFile = "full" /\ receipt # <<>>
                    /\ \A s \in Streams : HoldsAll(receipt, s)
  BY DEF GreenIsWhole
<1>1. status = OsStatus(code) /\ outFile = "full" /\ receipt # <<>>
  BY DEF IInv, ControlInv, exitNoReceipt
<1>2. code = 0
  BY <1>1, CodeRange DEF IInv
<1>3. ReceiptFaithful
  BY FaithfulFromInv
<1> QED BY <1>1, <1>2, <1>3 DEF ReceiptFaithful

(* The inductive invariant implies CapIsExact.                             *)
LEMMA CapFromInv == IInv => CapIsExact
<1> SUFFICES ASSUME IInv, \A s \in Streams : copier[s] = "eof"
             PROVE  LET total == written["stdout"] + written["stderr"]
                    IN  exceeded <=> total > 0 /\ total > MaxOutput
  BY DEF CapIsExact
<1>1. /\ Handed("stdout") = written["stdout"] /\ Handed("stderr") = written["stderr"]
      /\ written["stdout"] \in Nat /\ written["stderr"] \in Nat
  BY HandedRange DEF IInv, TypeOK, Streams
<1>2. exceeded \in BOOLEAN
  BY DEF IInv, TypeOK
<1> QED BY <1>1, <1>2, BoundsAssumption DEF IInv, CapInv

(* cmdRun and captureWriter keep their types.                              *)
THEOREM TypeCorrect == Spec => []TypeOK
BY Invariance, PTL DEF IInv

(* captureWriter.buf is at all times a merge of prefixes of the two        *)
(* streams, for every cap, chunking and interleaving.                      *)
THEOREM MergeCorrect == Spec => []MergeKeepsStreams
<1>1. IInv => MergeKeepsStreams
  <2> SUFFICES ASSUME IInv, NEW s \in Streams
               PROVE  \E k \in 0..written[s] : HasPrefix(buf, s, k)
    BY DEF MergeKeepsStreams
  <2>1. PICK k \in 0..Handed(s) : HasPrefix(buf, s, k)
    BY DEF IInv, MergeInv
  <2>2. k \in 0..written[s]
    BY HandedRange DEF IInv, TypeOK
  <2> QED BY <2>1, <2>2
<1> QED BY <1>1, Invariance, PTL

(* Every sealed receipt covers what the child wrote and its exit code, up  *)
(* to the one exception ReceiptFaithful names.                             *)
THEOREM ReceiptCorrect == Spec => []ReceiptFaithful
BY FaithfulFromInv, Invariance, PTL

(* lastro run never turns a run without a whole receipt into exit 0.       *)
THEOREM GreenCorrect == Spec => []GreenIsWhole
BY GreenFromInv, Invariance, PTL

(* The verdict of the capture cap depends only on the size of the output.  *)
THEOREM CapCorrect == Spec => []CapIsExact
BY CapFromInv, Invariance, PTL

(* The saved output is complete before the receipt file is touched.        *)
THEOREM SaveCorrect == Spec => []SavedBeforeReceipt
<1>1. IInv => SavedBeforeReceipt
  BY DEF IInv, ControlInv, SavedBeforeReceipt
<1> QED BY <1>1, Invariance, PTL

(* Where no terminal write fails, every receipt on disk is whole: the      *)
(* clause of RECEIPT-PROFILE.md 2 holds outside that one failure.          *)
THEOREM WholeWithoutTerminalFailure ==
  ASSUME ~TerminalFails PROVE Spec => []ReceiptIsWhole
<1> DEFINE NoneFailed == \A s \in Streams : copier[s] # "failed"
<1>1. Init => NoneFailed
  BY DEF Init
<1>2. IInv /\ NoneFailed /\ [Next]_vars => NoneFailed'
  <2> SUFFICES ASSUME IInv, NoneFailed, [Next]_vars PROVE NoneFailed'
    OBVIOUS
  <2>1. CASE Still
    BY <2>1 DEF Still
  <2>2. ASSUME NEW s \in Streams,
               \/ ChildWrite(s) \/ CloseStream(s) \/ Copy(s) \/ PassThroughFails(s)
        PROVE  NoneFailed'
    BY <2>2 DEF ChildWrite, CloseStream, Copy, CopyRead, CopyEOF, PassThrough,
                Capture, PassThroughFails, copyVars, IInv, TypeOK
  <2> QED BY <2>1, <2>2, PipeSteps
<1>3. IInv /\ NoneFailed => ReceiptIsWhole
  <2> SUFFICES ASSUME IInv, NoneFailed, outFile = "full",
                      NEW s \in Streams
               PROVE  HoldsAll(receipt, s)
    BY DEF ReceiptIsWhole
  <2>1. receipt # <<>>
    BY DEF IInv, ControlInv
  <2> QED BY <2>1, FaithfulFromInv DEF ReceiptFaithful
<1> QED BY <1>1, <1>2, <1>3, Invariance, PTL DEF Spec

(* No commit is checked out between gitHead and the start of the child.    *)
SteadyHead == pc = "preflight" /\ stage \in 5..8 => head' = head

(* The {sha} in the name is HEAD as it was read, until the child starts.   *)
CommitInv ==
  /\ pc = "preflight" /\ stage \in 5..8 => sha = head
  /\ child # "none" => sha = startedAt

(* If HEAD does not move between gitHead and the start of the child, the   *)
(* receipt names the commit the child ran on, however HEAD moved before.   *)
THEOREM CommitWithSteadyHead ==
  Spec /\ [][SteadyHead]_vars => []ReceiptNamesItsCommit
<1>1. Init => CommitInv
  BY DEF Init, CommitInv
<1>2. IInv /\ CommitInv /\ [Next]_vars /\ [SteadyHead]_vars => CommitInv'
  <2> SUFFICES ASSUME IInv, CommitInv, [Next]_vars, [SteadyHead]_vars PROVE CommitInv'
    OBVIOUS
  <2> USE DEF CommitInv, runVars, childVars, copyVars, fileVars
  <2>1. stage \in 1..8 /\ (pc = "preflight" => child = "none")
    BY Stages DEF IInv, TypeOK, ControlInv
  <2>2. CASE CheckPasses
    <3>1. CASE stage \in 1..3
      BY <2>1, <2>2, <3>1 DEF CheckPasses, EarlyReturns
    <3>2. CASE stage = 4
      BY <2>1, <2>2, <3>2 DEF CheckPasses, EarlyReturns
    <3>3. CASE stage \in 5..8
      <4>1. EarlyReturns[stage].check # "sha" /\ (EarlyReturns[stage].check = "start" => stage = 8)
        BY <3>3 DEF EarlyReturns
      <4> QED BY <2>1, <2>2, <3>3, <4>1 DEF CheckPasses
    <3> QED BY <2>1, <3>1, <3>2, <3>3
  <2>3. CASE HeadMoves
    BY <2>3 DEF HeadMoves, SteadyHead, vars
  <2>4. CASE CheckFails
    BY <2>4 DEF CheckFails, Exit
  <2>5. ASSUME NEW s \in Streams,
               \/ ChildWrite(s) \/ CloseStream(s) \/ CopyRead(s) \/ CopyEOF(s)
               \/ PassThrough(s) \/ Capture(s) \/ PassThroughFails(s)
        PROVE  CommitInv'
    BY <2>5 DEF ChildWrite, CloseStream, CopyRead, CopyEOF, PassThrough, Capture,
                PassThroughFails
  <2>6. CASE ChildExit \/ \E s \in Streams : ChildBrokenPipe(s)
    BY <2>1, <2>6 DEF ChildExit, ChildBrokenPipe, IInv, ControlInv
  <2>7. CASE Main
    <3>1. pc # "preflight" /\ pc' # "preflight" /\ UNCHANGED <<child, sha, startedAt>>
      BY <2>7 DEF Main, NotObserved, Observed, NextFile, SaveOpen, SaveDone, SaveFails,
                  Seal, ReceiptOpen, ReceiptDone, ReceiptFails, Return, Exit
    <3> QED BY <3>1
  <2>8. CASE Crash \/ Terminated \/ UNCHANGED vars
    BY <2>8 DEF Crash, Terminated, vars
  <2> QED BY <2>2, <2>3, <2>4, <2>5, <2>6, <2>7, <2>8 DEF Next, Copy
<1>3. IInv /\ CommitInv => ReceiptNamesItsCommit
  BY DEF IInv, ControlInv, Settled, CommitInv, ReceiptNamesItsCommit
<1> QED BY <1>1, <1>2, <1>3, Invariance, PTL DEF Spec

-----------------------------------------------------------------------------
(* The end of a run.                                                       *)

(* The steps a goroutine still has to take: at most three for each read,   *)
(* which takes a byte at least, and one for EOF.                           *)
StreamWork(s) ==
  4 * Waiting(s) + (CASE copier[s] = "terminal" -> 3
                      [] copier[s] = "capture"  -> 2
                      [] copier[s] = "read"     -> 1
                      [] OTHER                  -> 0)

(* The steps cmdRun still has to take from Wait on.                        *)
MainWork ==
  CASE pc = "wait"    -> 7
    [] pc = "save"    -> 6
    [] pc = "saving"  -> 5
    [] pc = "seal"    -> 4
    [] pc = "write"   -> 3
    [] pc = "writing" -> 2
    [] pc \in {"report", "giveup"} -> 1
    [] OTHER          -> 0

RunWork == StreamWork("stdout") + StreamWork("stderr") + MainWork

(* The child has been reaped and nobody holds a write end.                 *)
Ending == child = "exited" /\ \A s \in Streams : closed[s]

EndingShrinks ==
  Ending => /\ Ending'
            /\ RunWork \in Nat
            /\ RunWork' < RunWork

(* Each step of a goroutine lowers the work of its stream and touches      *)
(* nothing else that RunWork counts.                                       *)
LEMMA CopyShrinks ==
  ASSUME IInv, NEW s \in Streams, Copy(s) \/ PassThroughFails(s)
  PROVE  /\ UNCHANGED <<pc, childVars>>
         /\ StreamWork(s)' < StreamWork(s)
         /\ \A t \in Streams \ {s} : StreamWork(t)' = StreamWork(t)
<1> USE DEF childVars, copyVars, fileVars, Waiting
<1>0. /\ written[s] \in Nat /\ fetched[s] \in Nat /\ fetched[s] <= written[s]
      /\ copier \in [Streams -> {"read", "terminal", "capture", "eof", "failed"}]
      /\ fetched \in [Streams -> 0..MaxBytes]
  BY BoundsAssumption DEF IInv, TypeOK, FlowInv
<1>1. CASE CopyRead(s)
  <2>1. PICK n \in 1..Waiting(s) : fetched' = [fetched EXCEPT ![s] = @ + n]
    BY <1>1 DEF CopyRead, ReadSizes
  <2>2. /\ copier' = [copier EXCEPT ![s] = "terminal"] /\ copier[s] = "read"
        /\ UNCHANGED <<pc, childVars>>
    BY <1>1 DEF CopyRead
  <2>3. /\ Waiting(s)' = Waiting(s) - n /\ Waiting(s) \in Nat
        /\ copier'[s] = "terminal"
    BY <1>0, <2>1, <2>2
  <2>4. \A t \in Streams \ {s} : Waiting(t)' = Waiting(t) /\ copier'[t] = copier[t]
    BY <1>0, <2>1, <2>2
  <2> HIDE DEF Waiting
  <2>5. StreamWork(s)' = 4 * Waiting(s)' + 3 /\ StreamWork(s) = 4 * Waiting(s) + 1
    BY <2>2, <2>3 DEF StreamWork
  <2>6. \A t \in Streams \ {s} : StreamWork(t)' = StreamWork(t)
    BY <2>4 DEF StreamWork
  <2> QED BY <2>2, <2>3, <2>5, <2>6
<1>2. CASE CopyEOF(s) \/ PassThrough(s) \/ Capture(s) \/ PassThroughFails(s)
  <2>1. /\ UNCHANGED <<pc, childVars, fetched>>
        /\ \/ copier[s] = "read" /\ copier' = [copier EXCEPT ![s] = "eof"]
           \/ copier[s] = "terminal" /\ copier' = [copier EXCEPT ![s] = "capture"]
           \/ copier[s] = "capture" /\ copier' = [copier EXCEPT ![s] = "read"]
           \/ copier[s] = "terminal" /\ copier' = [copier EXCEPT ![s] = "failed"]
    BY <1>2 DEF CopyEOF, PassThrough, Capture, PassThroughFails
  <2>2. \A t \in Streams : Waiting(t)' = Waiting(t)
    BY <2>1
  <2>3. \A t \in Streams \ {s} : copier'[t] = copier[t]
    BY <1>0, <2>1
  <2>4. Waiting(s) \in Nat
    BY <1>0
  <2>5. \/ copier[s] = "read" /\ copier'[s] = "eof"
        \/ copier[s] = "terminal" /\ copier'[s] \in {"capture", "failed"}
        \/ copier[s] = "capture" /\ copier'[s] = "read"
    BY <1>0, <2>1
  <2> HIDE DEF Waiting
  <2>6. StreamWork(s)' < StreamWork(s)
    BY <2>2, <2>4, <2>5 DEF StreamWork
  <2>7. \A t \in Streams \ {s} : StreamWork(t)' = StreamWork(t)
    BY <2>2, <2>3 DEF StreamWork
  <2> QED BY <2>1, <2>6, <2>7
<1> QED BY <1>1, <1>2 DEF Copy

(* Once the child is gone and both pipes are closed, every step of a       *)
(* goroutine or of cmdRun leaves less to do, whatever sizes the reads have *)
(* and whatever fails: lastro takes at most RunWork more steps.            *)
THEOREM EndingTerminates == Spec => [][EndingShrinks]_vars
<1>1. IInv /\ [Next]_vars => [EndingShrinks]_vars
  <2> SUFFICES ASSUME IInv, [Next]_vars, ~UNCHANGED vars, Ending
               PROVE  Ending' /\ RunWork \in Nat /\ RunWork' < RunWork
    BY DEF EndingShrinks
  <2>1. "stdout" \in Streams /\ "stderr" \in Streams /\ Streams = {"stdout", "stderr"}
    BY DEF Streams
  <2>2. \A s \in Streams : StreamWork(s) \in Nat
    <3> TAKE s \in Streams
    <3>1. Waiting(s) \in Nat
      BY BoundsAssumption DEF IInv, TypeOK, FlowInv, Waiting
    <3> QED BY <3>1 DEF StreamWork
  <2>3. MainWork \in Nat
    BY DEF MainWork
  <2>4. RunWork \in Nat
    BY <2>1, <2>2, <2>3 DEF RunWork
  <2>5. ASSUME NEW s \in Streams, Copy(s) \/ PassThroughFails(s)
        PROVE  Ending' /\ RunWork' < RunWork
    <3>1. /\ UNCHANGED <<pc, childVars>>
          /\ StreamWork(s)' < StreamWork(s)
          /\ \A t \in Streams \ {s} : StreamWork(t)' = StreamWork(t)
      BY <2>5, CopyShrinks
    <3>2. MainWork' = MainWork
      BY <3>1 DEF MainWork
    <3>3. Ending'
      BY <3>1 DEF Ending, childVars
    <3>4. StreamWork(s)' \in Int
      <4>1. TypeOK'
        BY TypeStep
      <4>2. Waiting(s)' \in Int
        BY <4>1, BoundsAssumption DEF TypeOK, Waiting
      <4> QED BY <4>2 DEF StreamWork
    <3> QED BY <2>1, <2>2, <2>3, <3>1, <3>2, <3>3, <3>4 DEF RunWork
  <2>6. CASE Main \/ Crash
    <3>0. pc # "preflight" /\ TypeOK
      BY DEF Ending, IInv, ControlInv
    <3>1. UNCHANGED <<childVars, copyVars>> /\ MainWork' < MainWork
      BY <2>6, <3>0 DEF TypeOK, Main, NotObserved, Observed, NextFile, SaveOpen, SaveDone,
                  SaveFails, Seal, ReceiptOpen, ReceiptDone, ReceiptFails, Return, Exit,
                  Crash, Done, MainWork
    <3>2. Ending' /\ \A s \in Streams : StreamWork(s)' = StreamWork(s)
      BY <3>1 DEF Ending, StreamWork, Waiting, childVars, copyVars
    <3>3. MainWork' \in Nat
      BY DEF MainWork
    <3> QED BY <2>1, <2>2, <2>3, <3>1, <3>2, <3>3 DEF RunWork
  <2>7. ~(CheckPasses \/ CheckFails \/ ChildExit \/ HeadMoves)
    BY DEF CheckPasses, CheckFails, ChildExit, HeadMoves, Ending, IInv, ControlInv
  <2>8. \A s \in Streams : ~(ChildWrite(s) \/ ChildBrokenPipe(s) \/ CloseStream(s))
    BY DEF ChildWrite, ChildBrokenPipe, CloseStream, Ending
  <2> QED BY <2>4, <2>5, <2>6, <2>7, <2>8 DEF Next, Terminated
<1> QED BY <1>1, Invariance, PTL DEF Spec

-----------------------------------------------------------------------------
(* The abstract contract.                                                  *)

(* Where the receipt file and the status stand at each point of cmdRun.    *)
FileInv ==
  /\ pc # "exited" => status = NoStatus
  /\ pc \in {"preflight", "wait", "save", "saving", "seal", "write"} => outFile = "before"
  /\ pc = "writing" => outFile = "torn"
  /\ pc = "report" => outFile = "full"

(* Steps of the child's pipes, the goroutines and the repository, and the  *)
(* steps of cmdRun that neither touch the receipt file nor exit.           *)
Inner ==
  /\ UNCHANGED <<child, code, outFile, status>>
  /\ \/ pc' = pc
     \/ /\ pc \in {"wait", "save", "saving", "seal"}
        /\ pc' \in {"save", "saving", "seal", "write", "giveup"}

(* A step is inner, or is one of those the contract speaks of.             *)
LEMMA ContractSteps ==
  ASSUME IInv, [Next]_vars
  PROVE  \/ Inner
         \/ CheckPasses \/ CheckFails \/ ChildExit \/ (\E s \in Streams : ChildBrokenPipe(s))
         \/ ReceiptOpen \/ ReceiptDone \/ ReceiptFails \/ Return \/ Crash
<1> USE DEF Inner, runVars, childVars, copyVars, fileVars
<1>1. ASSUME NEW s \in Streams,
             \/ ChildWrite(s) \/ CloseStream(s) \/ CopyRead(s) \/ CopyEOF(s)
             \/ PassThrough(s) \/ Capture(s) \/ PassThroughFails(s)
      PROVE  Inner
  BY <1>1 DEF ChildWrite, CloseStream, CopyRead, CopyEOF, PassThrough, Capture, PassThroughFails
<1>2. CASE HeadMoves
  BY <1>2 DEF HeadMoves
<1>3. CASE NotObserved \/ Observed \/ SaveOpen \/ SaveDone \/ SaveFails \/ Seal
  BY <1>3 DEF NotObserved, Observed, NextFile, SaveOpen, SaveDone, SaveFails, Seal
<1>4. CASE Terminated \/ UNCHANGED vars
  BY <1>4 DEF Terminated, vars
<1> QED BY <1>1, <1>2, <1>3, <1>4 DEF Next, Copy, Main

(* A started child's code and the early codes reach os.Exit as they are.   *)
LEMMA EarlyCodes ==
  ASSUME TypeOK, NEW c \in EarlyReturns[stage].codes
  PROVE  /\ OsStatus(c) = c
         /\ c \in {0, verifyUsage, exitNoReceipt, exitNoStart}
<1>1. stage \in 1..8
  BY Stages DEF TypeOK
<1>2. c \in {0, 2, 125, 127}
  BY <1>1 DEF EarlyReturns, verifyUsage, exitNoReceipt, exitNoStart
<1> QED BY <1>2, StatusRange DEF verifyUsage, exitNoReceipt, exitNoStart

(* Every step keeps FileInv.                                               *)
LEMMA FileStep == IInv /\ FileInv /\ [Next]_vars => FileInv'
<1> SUFFICES ASSUME IInv, FileInv, [Next]_vars PROVE FileInv'
  OBVIOUS
<1> USE DEF FileInv, runVars, childVars, copyVars, fileVars
<1>1. CASE Inner
  BY <1>1 DEF Inner
<1>2. CASE CheckPasses \/ ChildExit \/ (\E s \in Streams : ChildBrokenPipe(s))
  BY <1>2 DEF CheckPasses, ChildExit, ChildBrokenPipe
<1>3. CASE CheckFails \/ ReceiptDone \/ ReceiptFails \/ Return
  BY <1>3 DEF CheckFails, ReceiptDone, ReceiptFails, Return, Exit
<1>4. CASE ReceiptOpen \/ Crash
  BY <1>4 DEF ReceiptOpen, Crash, Done
<1> QED BY <1>1, <1>2, <1>3, <1>4, ContractSteps

(* cmdRun implements the abstract contract of the receipt file and the     *)
(* exit status, for every cap, pipe, child and failure of the terminal.    *)
THEOREM ContractCorrect == Spec => ImplementsContract
<1>1. Init => RC!Init /\ FileInv
  BY DEF Init, RC!Init, RC!Running, FileInv, NoStatus
<1>2. ASSUME IInv, FileInv, [Next]_vars PROVE [RC!Next]_(RC!vars)
  <2> USE <1>2 DEF runVars, childVars, copyVars, fileVars
  <2>0. /\ pc # "exited" => status = -1
        /\ pc = "preflight" => child = "none"
        /\ pc \in {"write", "writing", "report", "giveup"} => child = "exited"
    BY DEF IInv, ControlInv, Settled, FileInv, NoStatus
  <2>1. CASE Inner
    BY <2>1 DEF Inner, RC!vars
  <2>2. CASE CheckPasses
    <3>1. CASE EarlyReturns[stage].check = "start"
      BY <2>0, <2>2, <3>1 DEF CheckPasses, RC!Next, RC!Start, RC!Running
    <3>2. CASE EarlyReturns[stage].check # "start"
      BY <2>2, <3>2 DEF CheckPasses, RC!vars
    <3> QED BY <3>1, <3>2
  <2>3. CASE CheckFails
    <3>1. PICK c \in EarlyReturns[stage].codes : Exit(c)
      BY <2>3 DEF CheckFails
    <3>2. status' = c /\ pc' = "exited" /\ c \in {0, verifyUsage, exitNoReceipt, exitNoStart}
      BY <3>1, EarlyCodes DEF Exit, IInv
    <3>3. CASE c = exitNoReceipt
      <4>1. RC!NoKey
        BY <2>0, <2>3, <3>2, <3>3 DEF CheckFails, RC!NoKey, RC!Running, RC!GaveUp, exitNoReceipt
      <4> QED BY <4>1 DEF RC!Next
    <3>4. CASE c # exitNoReceipt
      <4>1. RC!Refuse
        BY <2>0, <2>3, <3>2, <3>4 DEF CheckFails, RC!Refuse, RC!Running
      <4> QED BY <4>1 DEF RC!Next
    <3> QED BY <3>3, <3>4
  <2>4. CASE ChildExit \/ (\E s \in Streams : ChildBrokenPipe(s))
    <3>1. RC!ChildEnds
      BY <2>0, <2>4 DEF ChildExit, ChildBrokenPipe, RC!ChildEnds, RC!Running
    <3> QED BY <3>1 DEF RC!Next
  <2>5. CASE ReceiptOpen
    <3>1. RC!Open
      BY <2>0, <2>5 DEF ReceiptOpen, FileInv, RC!Open, RC!Running
    <3> QED BY <3>1 DEF RC!Next
  <2>6. CASE ReceiptDone \/ ReceiptFails
    <3>1. /\ pc \in {"write", "writing"} /\ pc' \in {"report", "giveup"}
          /\ UNCHANGED <<child, code, status>>
          /\ \/ outFile' = outFile
             \/ outFile = "torn" /\ outFile' = "full"
      BY <2>6 DEF ReceiptDone, ReceiptFails, FileInv
    <3>2. CASE outFile' = outFile
      BY <3>1, <3>2 DEF RC!vars
    <3>3. CASE outFile = "torn" /\ outFile' = "full"
      <4>1. RC!Complete
        BY <2>0, <3>1, <3>3 DEF RC!Complete, RC!Running
      <4> QED BY <4>1 DEF RC!Next
    <3> QED BY <3>1, <3>2, <3>3
  <2>7. CASE Return
    <3>1. CASE pc = "report"
      <4>1. RC!Announce
        BY <2>0, <2>7, <3>1 DEF Return, Exit, OsStatus, FileInv, RC!Announce, RC!Running
      <4> QED BY <4>1 DEF RC!Next
    <3>2. CASE pc = "giveup"
      <4>1. status' = 125 /\ pc' = "exited" /\ UNCHANGED <<child, code, outFile>>
        BY <2>7, <3>2, StatusRange DEF Return, Exit
      <4>2. RC!GiveUp
        BY <2>0, <3>2, <4>1 DEF RC!GiveUp, RC!Running, RC!GaveUp
      <4> QED BY <4>2 DEF RC!Next
    <3> QED BY <2>7, <3>1, <3>2 DEF Return
  <2>8. CASE Crash
    <3>1. /\ pc \notin {"exited", "crashed"} /\ pc' = "crashed"
          /\ UNCHANGED <<child, code, outFile, status>>
      BY <2>8 DEF Crash, Done
    <3>2. RC!Die
      BY <2>0, <3>1 DEF RC!Die, RC!Running, RC!Dead
    <3> QED BY <3>2 DEF RC!Next
  <2> QED BY <2>1, <2>2, <2>3, <2>4, <2>5, <2>6, <2>7, <2>8, ContractSteps
<1> QED BY <1>1, <1>2, FileStep, Invariance, PTL DEF Spec, ImplementsContract, RC!Spec

(* The header of main.go: exit "125 when the child ran but no receipt      *)
(* could be produced".                                                     *)
NoReceiptMeansRan ==
  pc = "exited" /\ status = exitNoReceipt => child = "exited"

(* loadPriv finds a key: cmdRun does not return at that check.             *)
KeyReads ==
  pc = "preflight" /\ EarlyReturns[stage].check = "key" => pc' # "exited"

(* Where the key can be read, 125 means that the child ran: the unreadable *)
(* key (NoKey of the contract) is the one case against the header.         *)
THEOREM RanWhereKeyReads ==
  Spec /\ [][KeyReads]_vars => []NoReceiptMeansRan
<1>1. Init => NoReceiptMeansRan
  BY DEF Init, NoReceiptMeansRan
<1>2. ASSUME IInv, NoReceiptMeansRan, [Next]_vars, [KeyReads]_vars
      PROVE  NoReceiptMeansRan'
  <2> USE <1>2 DEF NoReceiptMeansRan, childVars, copyVars, fileVars
  <2>1. CASE Inner
    BY <2>1 DEF Inner
  <2>2. CASE CheckFails
    <3>1. PICK c \in EarlyReturns[stage].codes : Exit(c)
      BY <2>2 DEF CheckFails
    <3>2. stage \in 1..8 /\ status' = c
      BY <3>1, Stages, EarlyCodes DEF Exit, IInv, TypeOK
    <3>3. pc = "preflight" /\ pc' = "exited"
      BY <2>2, <3>1 DEF CheckFails, Exit
    <3>4. EarlyReturns[stage].check # "key"
      BY <3>3 DEF KeyReads, vars
    <3>5. c # exitNoReceipt
      BY <3>1, <3>2, <3>4 DEF EarlyReturns, verifyUsage, exitNoReceipt, exitNoStart
    <3> QED BY <3>2, <3>5
  <2>3. CASE CheckPasses \/ ChildExit \/ (\E s \in Streams : ChildBrokenPipe(s))
    BY <2>3 DEF CheckPasses, ChildExit, ChildBrokenPipe
  <2>4. CASE ReceiptOpen \/ ReceiptDone \/ ReceiptFails \/ Crash
    BY <2>4 DEF ReceiptOpen, ReceiptDone, ReceiptFails, Crash
  <2>5. CASE Return
    BY <2>5 DEF Return, IInv, ControlInv, Settled
  <2> QED BY <2>1, <2>2, <2>3, <2>4, <2>5, ContractSteps
<1> QED BY <1>1, <1>2, Invariance, PTL DEF Spec
=============================================================================
