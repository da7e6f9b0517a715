----------------------------- MODULE MCLastroRun -----------------------------
(* Small instances of LastroRun for TLC.                                   *)
EXTENDS LastroRun
=============================================================================
