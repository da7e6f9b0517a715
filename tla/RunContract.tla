---------------------------- MODULE RunContract ----------------------------
(***************************************************************************)
(* What `lastro run` promises of the receipt file and of its exit status,  *)
(* without pipes, goroutines or buffers.  The file keeps what was there    *)
(* before until the child has ended; the child's own status is announced   *)
(* only after the file is complete; a run that gives up says 125, and a    *)
(* run that is killed says nothing, whatever it leaves in the file: what   *)
(* was there, a part of a receipt, or a whole one nobody announced.        *)
(***************************************************************************)
EXTENDS Integers

CONSTANTS
  Refusals,  \* statuses of a run whose child was never started
  Results    \* exit codes of a child

VARIABLES
  child,     \* "none", "running", "exited"
  result,    \* the child's exit code, once it has exited
  file,      \* the receipt file: "before", "torn", "full"
  outcome    \* Running, Dead, or the exit status of lastro

vars == <<child, result, file, outcome>>

Running == -1
Dead == -2
GaveUp == 125

Init == child = "none" /\ result = 0 /\ file = "before" /\ outcome = Running

Refuse ==
  /\ outcome = Running /\ child = "none"
  /\ outcome' \in Refusals
  /\ UNCHANGED <<child, result, file>>

\* The key cannot be read.  No child has run, and yet this is the status of a
\* run without a receipt.
NoKey ==
  /\ outcome = Running /\ child = "none"
  /\ outcome' = GaveUp
  /\ UNCHANGED <<child, result, file>>

Start ==
  /\ outcome = Running /\ child = "none"
  /\ child' = "running"
  /\ UNCHANGED <<result, file, outcome>>

ChildEnds ==
  /\ outcome = Running /\ child = "running"
  /\ child' = "exited" /\ result' \in Results
  /\ UNCHANGED <<file, outcome>>

Open ==
  /\ outcome = Running /\ child = "exited" /\ file = "before"
  /\ file' = "torn"
  /\ UNCHANGED <<child, result, outcome>>

Complete ==
  /\ outcome = Running /\ file = "torn"
  /\ file' = "full"
  /\ UNCHANGED <<child, result, outcome>>

Announce ==
  /\ outcome = Running /\ file = "full"
  /\ outcome' = result % 256
  /\ UNCHANGED <<child, result, file>>

GiveUp ==
  /\ outcome = Running /\ child = "exited"
  /\ outcome' = GaveUp
  /\ UNCHANGED <<child, result, file>>

Die ==
  /\ outcome = Running
  /\ outcome' = Dead
  /\ UNCHANGED <<child, result, file>>

Next ==
  \/ Refuse \/ NoKey \/ Start \/ ChildEnds
  \/ Open \/ Complete \/ Announce \/ GiveUp \/ Die

Spec == Init /\ [][Next]_vars
=============================================================================
