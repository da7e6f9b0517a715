------------------------------- MODULE Scope -------------------------------
(***************************************************************************)
(* What a certificate's scope covers.  A resource is a sequence of         *)
(* characters; a scope_id, an 8-byte hash of a path, stands for that path. *)
(***************************************************************************)
EXTENDS Naturals, Sequences

\* The prefix of r that ends at e stops at a segment boundary.
Boundary(r, e) == e = Len(r) \/ r[e + 1] = "/"

\* r, or one of its ancestors, is among the paths the scope names.
Covers(scope, r) ==
  \E e \in 1 .. Len(r) : Boundary(r, e) /\ SubSeq(r, 1, e) \in scope
=============================================================================
