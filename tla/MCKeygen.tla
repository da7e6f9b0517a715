------------------------------ MODULE MCKeygen ------------------------------
(* Instances of Keygen: one directory, a few invocations of the command. *)
EXTENDS Keygen

\* Every directory the first invocation may find, and the empty one.
AnyDirectory == [FileNames -> Before]
EmptyDirectory == {[f \in FileNames |-> "none"]}
=============================================================================
