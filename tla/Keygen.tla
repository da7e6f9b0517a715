------------------------------- MODULE Keygen -------------------------------
(***************************************************************************)
(* `lastro keygen --dir DIR` (cmd/lastro/main.go, cmdKeygen): several      *)
(* invocations on one key directory, which may have been there before, in  *)
(* any state.  Each draws its own fresh secrets, so the contents of a file *)
(* are named by the invocation that produced them, or "old".               *)
(* The existence test and the four writes are separate system calls, and   *)
(* an os.WriteFile truncates the file before it fills it: other            *)
(* invocations, failures and kills happen in between.                      *)
(***************************************************************************)
EXTENDS Naturals, Sequences

CONSTANTS
  Invocations,  \* the processes that ever run keygen on this directory
  Directories,  \* the states in which the directory may be found at first
  Overlap,      \* may an invocation start while another is running?
  StatErrors    \* may os.Stat fail on a file that exists?

\* Faulty: the public key is written before the secret one.
Bug_files == <<"sig.pub", "sig.key", "static.key", "static.pub">>

\* The order of the write loop.
files == <<"sig.key", "sig.pub", "static.key", "static.pub">>

FileNames == {files[i] : i \in 1..4}

Secrets == {"sig.key", "static.key"}

\* What a file may be before any invocation: absent, of no use as a key, or
\* a key of the layout that was there (an earlier keygen's, a copy, a backup).
Before == {"none", "torn", "old"}

ASSUME KeygenAssumption ==
  /\ Before \cap Invocations = {}
  /\ Directories \subseteq [FileNames -> Before]
  /\ Overlap \in BOOLEAN
  /\ StatErrors \in BOOLEAN

\* The contents of a file that are a whole key.
Keys == Invocations \cup {"old"}

VARIABLES
  pc,    \* pc[p]: where invocation p is
  next,  \* next[p]: index in files of the file p writes next
  disk,  \* disk[f]: "none", "torn", "old" or the invocation whose key it holds
  found  \* history: the directory before the first invocation

vars == <<pc, next, disk, found>>

Running == {"stat", "write", "filling", "report"}

Ended == {"done", "refused", "failed", "killed"}

Init ==
  /\ pc = [p \in Invocations |-> "idle"]
  /\ next = [p \in Invocations |-> 1]
  /\ found \in Directories
  /\ disk = found

Goto(p, l) == pc' = [pc EXCEPT ![p] = l]

\* Arguments parsed, os.MkdirAll made the directory or found it.
Mkdir(p) ==
  /\ pc[p] = "idle"
  /\ Overlap \/ \A q \in Invocations : pc[q] \notin Running
  /\ Goto(p, "stat")
  /\ UNCHANGED <<next, disk, found>>

\* Usage error or os.MkdirAll failed: nothing is touched.
MkdirFails(p) ==
  /\ pc[p] = "idle"
  /\ Goto(p, "failed")
  /\ UNCHANGED <<next, disk, found>>

\* os.Stat(sig.key) succeeded: "exists; refusing to overwrite key material".
Refuse(p) ==
  /\ pc[p] = "stat"
  /\ disk["sig.key"] # "none"
  /\ Goto(p, "refused")
  /\ UNCHANGED <<next, disk, found>>

\* Faulty: looks for the wrong file.
Bug_StatPublicKey(p) ==
  /\ pc[p] = "stat"
  /\ disk["sig.pub"] = "none" \/ StatErrors
  /\ Goto(p, "write")
  /\ UNCHANGED <<next, disk, found>>

\* os.Stat returned an error, which the code takes for "absent"; both
\* secrets are drawn and both public halves derived.
Absent(p) ==
  /\ pc[p] = "stat"
  /\ disk["sig.key"] = "none" \/ StatErrors
  /\ Goto(p, "write")
  /\ UNCHANGED <<next, disk, found>>

\* os.WriteFile opens (O_CREATE|O_TRUNC) the next file.
WriteOpen(p) ==
  /\ pc[p] = "write"
  /\ disk' = [disk EXCEPT ![files[next[p]]] = "torn"]
  /\ Goto(p, "filling")
  /\ UNCHANGED <<next, found>>

\* Faulty: the loop stops one file early.
Bug_FillStopsEarly(p) ==
  /\ pc[p] = "filling"
  /\ disk' = [disk EXCEPT ![files[next[p]]] = p]
  /\ next' = [next EXCEPT ![p] = @ + 1]
  /\ Goto(p, IF next[p] + 1 = Len(files) THEN "report" ELSE "write")
  /\ UNCHANGED found

\* Faulty: the loop runs one file too far.
Bug_FillRunsPast(p) ==
  /\ pc[p] = "filling"
  /\ disk' = [disk EXCEPT ![files[next[p]]] = p]
  /\ next' = [next EXCEPT ![p] = @ + 1]
  /\ Goto(p, IF next[p] > Len(files) THEN "report" ELSE "write")
  /\ UNCHANGED found

\* os.WriteFile wrote and closed it; the fourth is the last.
WriteFill(p) ==
  /\ pc[p] = "filling"
  /\ disk' = [disk EXCEPT ![files[next[p]]] = p]
  /\ next' = [next EXCEPT ![p] = @ + 1]
  /\ Goto(p, IF next[p] = Len(files) THEN "report" ELSE "write")
  /\ UNCHANGED found

\* os.WriteFile failed to open, or to write, or only to close: exit 1, and
\* the files already written stay.
WriteFails(p) ==
  \/ /\ pc[p] = "write"
     /\ Goto(p, "failed")
     /\ UNCHANGED <<next, disk, found>>
  \/ /\ pc[p] = "filling"
     /\ \E c \in {disk[files[next[p]]], p} :
          disk' = [disk EXCEPT ![files[next[p]]] = c]
     /\ Goto(p, "failed")
     /\ UNCHANGED <<next, found>>

\* The three lines on stdout, then exit 0.
Report(p) ==
  /\ pc[p] = "report"
  /\ Goto(p, "done")
  /\ UNCHANGED <<next, disk, found>>

\* The process is killed, by SIGPIPE in its report too; the files stay.
Kill(p) ==
  /\ pc[p] \in Running
  /\ Goto(p, "killed")
  /\ UNCHANGED <<next, disk, found>>

Step(p) ==
  \/ Mkdir(p) \/ MkdirFails(p) \/ Refuse(p) \/ Absent(p)
  \/ WriteOpen(p) \/ WriteFill(p) \/ WriteFails(p)
  \/ Report(p) \/ Kill(p)

\* Every invocation has ended.
Terminated ==
  /\ \A p \in Invocations : pc[p] \in Ended
  /\ UNCHANGED vars

Next == (\E p \in Invocations : Step(p)) \/ Terminated

Spec == Init /\ [][Next]_vars

-----------------------------------------------------------------------------
\* The variables have the values the code can give them.
TypeOK ==
  /\ pc \in [Invocations -> {"idle"} \cup Running \cup Ended]
  /\ next \in [Invocations -> 1..5]
  /\ \A p \in Invocations : pc[p] \in {"write", "filling"} => next[p] <= 4
  /\ disk \in [FileNames -> Before \cup Invocations]
  /\ found \in Directories

\* cmdKeygen's header: "Never regenerates over existing secrets."  No step
\* replaces or truncates a secret key that is on disk in full.
NeverRegenerates == \A f \in Secrets : disk[f] \in Keys => disk'[f] = disk[f]

NoSecretReplaced == [][NeverRegenerates]_vars

\* The one secret that the test of sig.key does not protect: a static.key
\* that was in the directory without a sig.key beside it.
Unprotected(f) ==
  f = "static.key" /\ disk[f] = "old" /\ found["sig.key"] = "none"

KeepsSecrets ==
  \A f \in Secrets : disk[f] \in Keys => disk'[f] = disk[f] \/ Unprotected(f)

\* What cmdKeygen does keep, in whatever directory and whatever failed or was
\* killed before: every sig.key, every secret any invocation wrote, and every
\* static.key it found beside a sig.key, whole or torn.
SecretsKept == [][KeepsSecrets]_vars

Pairs == {<<"sig.key", "sig.pub">>, <<"static.key", "static.pub">>}

\* A public key on disk is the public half of the secret key beside it: the
\* key that the CA certifies is the key `lastro run` will sign with, even in
\* a directory an interrupted keygen left behind.  Only a public key that was
\* there before any sig.key, or without its own secret, is left as it was.
PairsMatch ==
  \A w \in Pairs :
    disk[w[2]] \in Keys =>
      \/ disk[w[1]] = disk[w[2]]
      \/ disk[w[2]] = "old" /\ (found["sig.key"] = "none" \/ found[w[1]] # "old")

\* An invocation that reported success left its own complete layout, whatever
\* it found, and it is still there whatever later invocations did.
DoneIsComplete ==
  \A p \in Invocations : pc[p] = "done" => \A f \in FileNames : disk[f] = p
=============================================================================
