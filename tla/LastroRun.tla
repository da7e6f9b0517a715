------------------------------ MODULE LastroRun ------------------------------
(***************************************************************************)
(* One invocation of `lastro run` (cmd/lastro/main.go, cmdRun): the checks *)
(* before the child starts, the child with its two pipes, the two copy     *)
(* goroutines of os/exec that tee each pipe into the terminal and into the *)
(* shared captureWriter, cmd.Wait, and the sealing and writing of the      *)
(* receipt.                                                                *)
(*                                                                         *)
(* Data abstraction: a byte of output is <<s, i>>, the i-th byte the child *)
(* wrote on stream s, so a sequence of bytes shows loss, duplication and   *)
(* reordering.  The digest is injective, so a receipt is represented by    *)
(* the byte stream it digests.  A read of a pipe takes any number of the   *)
(* bytes waiting in it: chunk boundaries are arbitrary.                    *)
(***************************************************************************)
EXTENDS Integers, Sequences

CONSTANTS
  MaxBytes,        \* bound: bytes the child writes per stream
  PipeCap,         \* capacity of one pipe
  MaxOutput,       \* --max-output, any int the flag package parses
  ExitCodes,       \* exit codes the child may choose
  Commits,         \* commits HEAD may point at
  TerminalFails    \* TRUE: a write to os.Stdout or os.Stderr may fail

ASSUME BoundsAssumption ==
  /\ MaxBytes \in Nat
  /\ PipeCap \in Nat \ {0}
  /\ MaxOutput \in Int
  /\ ExitCodes \subseteq 0..255
  /\ TerminalFails \in BOOLEAN

VARIABLES
  pc,           \* where the main goroutine is
  stage,        \* index into EarlyReturns of the next check before Start
  saving,       \* --save-output was given
  head,         \* commit HEAD points at
  sha,          \* commit substituted for {sha} in the resource path
  startedAt,    \* history: HEAD when the child started
  child,        \* "none", "running", "exited"
  code,         \* ProcessState.ExitCode(): -1 when a signal killed the child
  written,      \* written[s]: bytes put into pipe s
  closed,       \* closed[s]: no process holds the write end of pipe s
  fetched,      \* fetched[s]: bytes the copy goroutine took out of pipe s
  held,         \* held[s]: size of the chunk p the goroutine is writing
  copier,       \* state of the goroutine copying pipe s
  buf,          \* captureWriter.buf
  exceeded,     \* captureWriter.exceeded
  receipt,      \* bytes under Span.digest; empty before sealing
  saveFile,     \* file named by --save-output: "before", "torn", "full"
  outFile,      \* file named by --out: "before", "torn", "full"
  status        \* exit status of lastro; NoStatus while it runs

runVars   == <<stage, saving, head, sha, startedAt>>
copyVars  == <<fetched, held, copier, buf, exceeded>>
childVars == <<child, code, written, closed>>
fileVars  == <<receipt, saveFile, outFile>>
vars == <<pc, runVars, childVars, copyVars, fileVars, status>>

Streams == {"stdout", "stderr"}
NoStatus == -1
Killed == -1
exitNoReceipt == 125
exitNoStart == 127
verifyUsage == 2

(* os.Exit(exitCode): the kernel keeps the low 8 bits, so -1 becomes 255.  *)
OsStatus(c) == c % 256

(* The returns before the child runs, in the order of the code, with the   *)
(* exit codes each may return.  flag.ExitOnError makes -h exit 0.  Three   *)
(* branches cannot be taken and have no entry: a validated resource has at *)
(* most 234 bytes, so the 256-byte check and BuildSpan never fail, and     *)
(* crypto/rand.Read aborts instead of returning an error (Crash).          *)
EarlyReturns ==
  << [check |-> "separator", codes |-> {verifyUsage}],
     [check |-> "flags",     codes |-> {verifyUsage, 0}],
     [check |-> "required",  codes |-> {verifyUsage}],
     [check |-> "sha",       codes |-> {verifyUsage}],
     [check |-> "resource",  codes |-> {verifyUsage}],
     [check |-> "key",       codes |-> {exitNoReceipt}],
     [check |-> "trace",     codes |-> {verifyUsage}],
     [check |-> "start",     codes |-> {exitNoStart}] >>

Done == pc \in {"exited", "crashed"}

Init ==
  /\ pc = "preflight" /\ stage = 1
  /\ saving \in BOOLEAN
  /\ head \in Commits /\ sha = head /\ startedAt = head
  /\ child = "none" /\ code = 0
  /\ written = [s \in Streams |-> 0]
  /\ closed = [s \in Streams |-> FALSE]
  /\ fetched = [s \in Streams |-> 0]
  /\ held = [s \in Streams |-> 0]
  /\ copier = [s \in Streams |-> "read"]
  /\ buf = <<>> /\ exceeded = FALSE
  /\ receipt = <<>> /\ saveFile = "before" /\ outFile = "before"
  /\ status = NoStatus

(* `return c` from cmdRun, passed to os.Exit by main.                      *)
Exit(c) ==
  /\ pc' = "exited"
  /\ status' = OsStatus(c)

-----------------------------------------------------------------------------
(* Before the child.                                                       *)

(* A check passes; the {sha} check reads HEAD, Start forks the child.      *)
CheckPasses ==
  /\ pc = "preflight"
  /\ sha' = IF EarlyReturns[stage].check = "sha" THEN head ELSE sha
  /\ IF EarlyReturns[stage].check = "start"
       THEN /\ pc' = "wait"
            /\ child' = "running"
            /\ startedAt' = head
            /\ stage' = stage
       ELSE /\ stage' = stage + 1
            /\ UNCHANGED <<pc, child, startedAt>>
  /\ UNCHANGED <<saving, head, code, written, closed, copyVars, fileVars, status>>

CheckFails ==
  /\ pc = "preflight"
  /\ \E c \in EarlyReturns[stage].codes : Exit(c)
  /\ UNCHANGED <<runVars, childVars, copyVars, fileVars>>

-----------------------------------------------------------------------------
(* The child, its descendants and the repository (environment).            *)

Waiting(s) == written[s] - fetched[s]

(* A holder of the write end puts one byte in; a full pipe blocks it.      *)
ChildWrite(s) ==
  /\ pc = "wait" /\ ~closed[s] /\ copier[s] # "failed"
  /\ written[s] < MaxBytes /\ Waiting(s) < PipeCap
  /\ written' = [written EXCEPT ![s] = @ + 1]
  /\ UNCHANGED <<pc, runVars, child, code, closed, copyVars, fileVars, status>>

(* The read end is gone: the write raises SIGPIPE in the child.            *)
ChildBrokenPipe(s) ==
  /\ pc = "wait" /\ child = "running" /\ ~closed[s] /\ copier[s] = "failed"
  /\ child' = "exited" /\ code' = Killed
  /\ UNCHANGED <<pc, runVars, written, closed, copyVars, fileVars, status>>

ChildExit ==
  /\ pc = "wait" /\ child = "running"
  /\ child' = "exited"
  /\ code' \in ExitCodes \cup {Killed}
  /\ UNCHANGED <<pc, runVars, written, closed, copyVars, fileVars, status>>

(* The last holder of the write end goes: the child itself, early or at    *)
(* its exit, or a descendant that outlived it.                             *)
CloseStream(s) ==
  /\ pc = "wait" /\ ~closed[s]
  /\ closed' = [closed EXCEPT ![s] = TRUE]
  /\ UNCHANGED <<pc, runVars, child, code, written, copyVars, fileVars, status>>

(* Another commit is checked out.  After the start nobody reads HEAD.      *)
HeadMoves ==
  /\ pc = "preflight"
  /\ head' \in Commits \ {head}
  /\ UNCHANGED <<pc, stage, saving, sha, startedAt, childVars, copyVars, fileVars, status>>

-----------------------------------------------------------------------------
(* The two copy goroutines: io.Copy from the pipe into MultiWriter.        *)

(* Faulty: takes the size of the buffer for the number of bytes read.      *)
Bug_ReadSizes(s) == {PipeCap}

(* n of Read: some of the bytes waiting in the pipe.                       *)
ReadSizes(s) == 1..Waiting(s)

CopyRead(s) ==
  /\ pc = "wait" /\ copier[s] = "read"
  /\ \E n \in ReadSizes(s) :
       /\ fetched' = [fetched EXCEPT ![s] = @ + n]
       /\ held' = [held EXCEPT ![s] = n]
  /\ copier' = [copier EXCEPT ![s] = "terminal"]
  /\ UNCHANGED <<pc, runVars, childVars, buf, exceeded, fileVars, status>>

CopyEOF(s) ==
  /\ pc = "wait" /\ copier[s] = "read"
  /\ closed[s] /\ Waiting(s) = 0
  /\ copier' = [copier EXCEPT ![s] = "eof"]
  /\ UNCHANGED <<pc, runVars, childVars, fetched, held, buf, exceeded, fileVars, status>>

(* MultiWriter writes to the terminal first.                               *)
PassThrough(s) ==
  /\ pc = "wait" /\ copier[s] = "terminal"
  /\ copier' = [copier EXCEPT ![s] = "capture"]
  /\ UNCHANGED <<pc, runVars, childVars, fetched, held, buf, exceeded, fileVars, status>>

(* MultiWriter returns at the first error: captureWriter never sees the    *)
(* chunk, io.Copy stops, and the goroutine closes the read end.            *)
PassThroughFails(s) ==
  /\ TerminalFails
  /\ pc = "wait" /\ copier[s] = "terminal"
  /\ copier' = [copier EXCEPT ![s] = "failed"]
  /\ UNCHANGED <<pc, runVars, childVars, fetched, held, buf, exceeded, fileVars, status>>

(* Chunk p: the last held[s] bytes fetched from s.                         *)
Chunk(s) ==
  [i \in 1..held[s] |-> <<s, fetched[s] - held[s] + i>>]

(* Faulty: a chunk that fits is appended even after an earlier one was not.*)
Bug_WriteNotSticky(p) ==
  IF Len(buf) + Len(p) > MaxOutput
    THEN exceeded' = TRUE /\ buf' = buf
    ELSE exceeded' = exceeded /\ buf' = buf \o p

(* Faulty: the cap refuses a stream of exactly --max-output bytes.         *)
Bug_WriteOffByOne(p) ==
  IF exceeded \/ Len(buf) + Len(p) >= MaxOutput
    THEN exceeded' = TRUE /\ buf' = buf
    ELSE exceeded' = FALSE /\ buf' = buf \o p

(* Faulty: blocks the writer once the cap is exceeded.                     *)
Bug_WriteBlocks(p) ==
  /\ ~exceeded
  /\ exceeded' = (Len(buf) + Len(p) > MaxOutput)
  /\ buf' = IF exceeded' THEN buf ELSE buf \o p

(* captureWriter.Write(p), one critical section of w.mu.                   *)
Write(p) ==
  IF exceeded \/ Len(buf) + Len(p) > MaxOutput
    THEN exceeded' = TRUE /\ buf' = buf
    ELSE exceeded' = FALSE /\ buf' = buf \o p

(* Write always reports len(p), so the goroutine goes back to reading.     *)
Capture(s) ==
  /\ pc = "wait" /\ copier[s] = "capture"
  /\ Write(Chunk(s))
  /\ held' = [held EXCEPT ![s] = 0]
  /\ copier' = [copier EXCEPT ![s] = "read"]
  /\ UNCHANGED <<pc, runVars, childVars, fetched, fileVars, status>>

-----------------------------------------------------------------------------
(* After the child: Wait, the cap, the trailer, the two files.             *)

(* Faulty: Process.Wait instead of Cmd.Wait, the goroutines still copying. *)
Bug_JoinedChildOnly == child = "exited"

(* Faulty: waits for EOF on both pipes, also after a goroutine failed.     *)
Bug_JoinedEOF ==
  /\ child = "exited"
  /\ \A s \in Streams : copier[s] = "eof"

(* Wait returns once the process is reaped and both goroutines ended.      *)
Joined ==
  /\ child = "exited"
  /\ \A s \in Streams : copier[s] \in {"eof", "failed"}

(* Faulty: errors of the goroutines are dropped.                           *)
Bug_CopyErrorDropped == FALSE

(* The error of Wait that is not an ExitError.  An unsuccessful exit hides *)
(* the error of a goroutine, so this is seen only when the child exits 0.  *)
CopyError == code = 0 /\ \E s \in Streams : copier[s] = "failed"

(* Wait's copy error, or the cap: no receipt.                              *)
NotObserved ==
  /\ pc = "wait" /\ Joined
  /\ CopyError \/ exceeded
  /\ pc' = "giveup"
  /\ UNCHANGED <<runVars, childVars, copyVars, fileVars, status>>

(* Faulty: goes straight to the receipt, the output is saved later.        *)
Bug_NextFile == "seal"

NextFile == IF saving THEN "save" ELSE "seal"

Observed ==
  /\ pc = "wait" /\ Joined
  /\ ~CopyError /\ ~exceeded
  /\ pc' = NextFile
  /\ UNCHANGED <<runVars, childVars, copyVars, fileVars, status>>

(* The canonical trailer, appended after the last captured byte.           *)
captured == Append(buf, <<"exit-status", code>>)

(* os.WriteFile truncates, then writes, then closes; each may fail.        *)
SaveOpen ==
  /\ pc = "save"
  /\ pc' = "saving" /\ saveFile' = "torn"
  /\ UNCHANGED <<runVars, childVars, copyVars, receipt, outFile, status>>

SaveDone ==
  /\ pc = "saving"
  /\ pc' = "seal" /\ saveFile' = "full"
  /\ UNCHANGED <<runVars, childVars, copyVars, receipt, outFile, status>>

SaveFails ==
  /\ \/ pc = "save" /\ saveFile' = saveFile
     \/ pc = "saving" /\ saveFile' \in {"torn", "full"}
  /\ pc' = "giveup"
  /\ UNCHANGED <<runVars, childVars, copyVars, receipt, outFile, status>>

(* BuildSpan over Blake2s256(captured).                                    *)
Seal ==
  /\ pc = "seal"
  /\ pc' = "write" /\ receipt' = captured
  /\ UNCHANGED <<runVars, childVars, copyVars, saveFile, outFile, status>>

ReceiptOpen ==
  /\ pc = "write"
  /\ pc' = "writing" /\ outFile' = "torn"
  /\ UNCHANGED <<runVars, childVars, copyVars, receipt, saveFile, status>>

ReceiptDone ==
  /\ pc = "writing"
  /\ pc' = "report" /\ outFile' = "full"
  /\ UNCHANGED <<runVars, childVars, copyVars, receipt, saveFile, status>>

(* Faulty: an error after the file was opened is logged and the run goes   *)
(* on to return the child's code.                                          *)
Bug_ReceiptErrorLogged ==
  /\ \/ pc = "write" /\ outFile' = outFile /\ pc' = "giveup"
     \/ pc = "writing" /\ outFile' \in {"torn", "full"} /\ pc' = "report"
  /\ UNCHANGED <<runVars, childVars, copyVars, receipt, saveFile, status>>

ReceiptFails ==
  /\ \/ pc = "write" /\ outFile' = outFile
     \/ pc = "writing" /\ outFile' \in {"torn", "full"}
  /\ pc' = "giveup"
  /\ UNCHANGED <<runVars, childVars, copyVars, receipt, saveFile, status>>

(* The message on stderr, then the return: with the child's code after the *)
(* receipt was written, with 125 after an error.  Crash may come before.   *)
Return ==
  /\ pc \in {"report", "giveup"}
  /\ Exit(IF pc = "report" THEN code ELSE exitNoReceipt)
  /\ UNCHANGED <<runVars, childVars, copyVars, fileVars>>

(* The process dies: a signal (SIGINT, SIGKILL, SIGPIPE on its own stdout  *)
(* or stderr) or an abort in the runtime.                                  *)
Crash ==
  /\ ~Done
  /\ pc' = "crashed"
  /\ UNCHANGED <<runVars, childVars, copyVars, fileVars, status>>

Terminated == Done /\ UNCHANGED vars

-----------------------------------------------------------------------------

Copy(s) == CopyRead(s) \/ CopyEOF(s) \/ PassThrough(s) \/ Capture(s)

Main ==
  \/ NotObserved \/ Observed
  \/ SaveOpen \/ SaveDone \/ SaveFails
  \/ Seal \/ ReceiptOpen \/ ReceiptDone \/ ReceiptFails
  \/ Return

Next ==
  \/ CheckPasses \/ CheckFails
  \/ \E s \in Streams : ChildWrite(s) \/ ChildBrokenPipe(s) \/ CloseStream(s)
  \/ ChildExit \/ HeadMoves
  \/ \E s \in Streams : Copy(s) \/ PassThroughFails(s)
  \/ Main
  \/ Crash \/ Terminated

Spec == Init /\ [][Next]_vars

(* The goroutines and the main goroutine are scheduled; the terminal takes *)
(* or refuses a write eventually.  Nothing is assumed of the child.        *)
Fairness ==
  /\ \A s \in Streams : WF_vars(Copy(s) \/ PassThroughFails(s))
  /\ WF_vars(Main)

FairSpec == Spec /\ Fairness

-----------------------------------------------------------------------------
(* Properties.                                                             *)

Byte == Streams \X (1..MaxBytes)
Trailer == {"exit-status"} \X (ExitCodes \cup {Killed, 0})

(* Types of all variables, as declared in cmdRun and captureWriter.        *)
TypeOK ==
  /\ pc \in {"preflight", "wait", "save", "saving", "seal", "write",
             "writing", "report", "giveup", "exited", "crashed"}
  /\ stage \in 1..Len(EarlyReturns)
  /\ saving \in BOOLEAN
  /\ head \in Commits /\ sha \in Commits /\ startedAt \in Commits
  /\ child \in {"none", "running", "exited"}
  /\ code \in ExitCodes \cup {Killed, 0}
  /\ written \in [Streams -> 0..MaxBytes]
  /\ closed \in [Streams -> BOOLEAN]
  /\ fetched \in [Streams -> 0..MaxBytes]
  /\ held \in [Streams -> 0..MaxBytes]
  /\ copier \in [Streams -> {"read", "terminal", "capture", "eof", "failed"}]
  /\ buf \in Seq(Byte)
  /\ exceeded \in BOOLEAN
  /\ receipt \in Seq(Byte \cup Trailer)
  /\ saveFile \in {"before", "torn", "full"}
  /\ outFile \in {"before", "torn", "full"}
  /\ status \in 0..255 \cup {NoStatus}

(* The bytes of stream s in q are bytes 1..k of s, each once, in order.    *)
HasPrefix(q, s, k) ==
  /\ \A i \in 1..k : \E j \in 1..Len(q) : q[j] = <<s, i>>
  /\ \A j \in 1..Len(q) : q[j][1] = s => q[j][2] \in 1..k
  /\ \A i, j \in 1..Len(q) :
       i < j /\ q[i][1] = s /\ q[j][1] = s => q[i][2] < q[j][2]

(* q holds all that was written on s.                                      *)
HoldsAll(q, s) == HasPrefix(q, s, written[s])

(* At every moment, whatever the interleaving of the two goroutines and    *)
(* the sizes of their reads, captureWriter.buf holds a prefix of each      *)
(* stream: no byte is lost in the middle, doubled or out of order.         *)
MergeKeepsStreams ==
  \A s \in Streams : \E k \in 0..written[s] : HasPrefix(buf, s, k)

(* A sealed receipt covers both streams to the last byte, except that a    *)
(* stream whose terminal write failed may be cut short, and only when the  *)
(* child did not exit 0; its last element is the child's exit code.        *)
ReceiptFaithful ==
  receipt # <<>> =>
    /\ receipt[Len(receipt)] = <<"exit-status", code>>
    /\ child = "exited"
    /\ \A s \in Streams :
         \/ HoldsAll(receipt, s)
         \/ /\ copier[s] = "failed" /\ code # 0
            /\ \E k \in 0..written[s] : HasPrefix(receipt, s, k)

(* RECEIPT-PROFILE.md 2: "a missing receipt can never look like a passing  *)
(* step".  If the child was started and lastro exits 0, the child exited   *)
(* 0, the receipt is on disk, and it covers everything the child wrote.    *)
GreenIsWhole ==
  pc = "exited" /\ child # "none" /\ status = 0 =>
    /\ child = "exited" /\ code = 0
    /\ outFile = "full" /\ receipt # <<>>
    /\ \A s \in Streams : HoldsAll(receipt, s)

(* When both pipes were drained to EOF, the cap refused the run exactly    *)
(* when the two streams together exceed --max-output: the verdict depends  *)
(* neither on chunk sizes nor on the interleaving.                         *)
CapIsExact ==
  (\A s \in Streams : copier[s] = "eof") =>
    LET total == written["stdout"] + written["stderr"]
    IN  exceeded <=> total > 0 /\ total > MaxOutput

(* cmdRun writes --save-output before the receipt: no receipt file of this *)
(* run exists, not even a torn one, without its complete saved output.     *)
SavedBeforeReceipt ==
  outFile # "before" /\ saving => saveFile = "full"

(* The abstract contract of a run, read off the state of cmdRun.           *)
RC == INSTANCE RunContract WITH
  Refusals <- {0, verifyUsage, exitNoStart},
  Results <- ExitCodes \cup {Killed},
  result <- code,
  file <- outFile,
  outcome <- IF pc = "crashed" THEN -2 ELSE status

(* Checks, pipes, goroutines, cap, trailer and the two files together      *)
(* implement the contract (module RunContract): an older receipt of the    *)
(* same --out name stays untouched until the child has ended and its       *)
(* output is settled, and a run that leaves it, or leaves it torn, exits   *)
(* 125 or is killed, never with the child's own status.  A whole receipt   *)
(* may also be left by a run that is killed before it returns.             *)
ImplementsContract == RC!Spec

(* Draining goes on after the cap is exceeded (Write reports len(p)), so a *)
(* child blocked on a full pipe is always released.                        *)
ChildNeverStuck ==
  \A s \in Streams :
    (pc = "wait" /\ Waiting(s) = PipeCap)
      ~> (pc # "wait" \/ Waiting(s) < PipeCap \/ copier[s] = "failed")

(* Once the child has exited and both pipes are closed, lastro ends, also  *)
(* when a goroutine stopped on an error.                                   *)
RunFinishes ==
  (pc = "wait" /\ child = "exited" /\ \A s \in Streams : closed[s]) ~> Done

(* RECEIPT-PROFILE.md 2: "never a receipt of a truncation".                *)
ReceiptIsWhole ==
  outFile = "full" => \A s \in Streams : HoldsAll(receipt, s)

(* RECEIPT-PROFILE.md 1: "a receipt about commit X never claims anything   *)
(* about commit Y": the commit in the resource is the one the child ran on.*)
ReceiptNamesItsCommit ==
  outFile = "full" => sha = startedAt
=============================================================================
