----------------------------- MODULE ScopeWalk -----------------------------
(***************************************************************************)
(* scopeCoversResource (wire/grantchain.go) as the loop it is: an outer    *)
(* walk from the whole path towards the root, an inner scan for the        *)
(* previous '/', two indices and an early exit.  certCarriesScope is       *)
(* membership in the certificate's scope.                                  *)
(***************************************************************************)
EXTENDS Scope

CONSTANTS
  Chars,      \* the characters of resource ids, '/' among them
  Resources,  \* resource ids, sequences of characters
  Scopes      \* scopes, sets of such sequences

ASSUME ScopeAssumption == Resources \subseteq Seq(Chars)

VARIABLES resource, scope, pc, end, newEnd

vars == <<resource, scope, pc, end, newEnd>>

Init ==
  /\ resource \in Resources
  /\ scope \in Scopes
  /\ pc = "outer"
  /\ end = Len(resource)
  /\ newEnd = Len(resource)

Return(b) == pc' = b /\ UNCHANGED <<resource, scope, end, newEnd>>

\* for end > 0: the prefix is one of the cert's scopes.
Carried ==
  /\ pc = "outer"
  /\ end > 0
  /\ SubSeq(resource, 1, end) \in scope
  /\ Return("true")

\* Faulty: the scan starts at the end of the whole path in every round.
Bug_ScanFromWhole ==
  /\ pc = "outer"
  /\ end > 0
  /\ SubSeq(resource, 1, end) \notin scope
  /\ pc' = "inner"
  /\ newEnd' = Len(resource)
  /\ UNCHANGED <<resource, scope, end>>

\* It is not: look for the previous '/'.
NotCarried ==
  /\ pc = "outer"
  /\ end > 0
  /\ SubSeq(resource, 1, end) \notin scope
  /\ pc' = "inner"
  /\ newEnd' = end
  /\ UNCHANGED <<resource, scope, end>>

\* The loop condition fails.
Exhausted == pc = "outer" /\ end = 0 /\ Return("false")

\* newEnd-- while the byte before it is not '/'.
Scan ==
  /\ pc = "inner"
  /\ newEnd > 0
  /\ resource[newEnd] # "/"
  /\ newEnd' = newEnd - 1
  /\ UNCHANGED <<resource, scope, pc, end>>

\* break: no '/' found.
NoSlash == pc = "inner" /\ newEnd = 0 /\ Return("false")

\* Faulty: the '/' stays in the next prefix.
Bug_KeepSlash ==
  /\ pc = "inner"
  /\ newEnd > 0
  /\ resource[newEnd] = "/"
  /\ end' = newEnd
  /\ pc' = "outer"
  /\ UNCHANGED <<resource, scope, newEnd>>

\* Faulty: strips one byte, not one segment.
Bug_StripOneByte ==
  /\ pc = "inner"
  /\ end' = end - 1
  /\ pc' = "outer"
  /\ UNCHANGED <<resource, scope, newEnd>>

\* Strip the last segment and its '/'.
Strip ==
  /\ pc = "inner"
  /\ newEnd > 0
  /\ resource[newEnd] = "/"
  /\ end' = newEnd - 1
  /\ pc' = "outer"
  /\ UNCHANGED <<resource, scope, newEnd>>

Returned == pc \in {"true", "false"} /\ UNCHANGED vars

Walk == Carried \/ NotCarried \/ Exhausted \/ Scan \/ NoSlash \/ Strip

Next == Walk \/ Returned

Spec == Init /\ [][Next]_vars

\* The loop runs without blocking: it is a plain sequential function.
FairSpec == Spec /\ WF_vars(Walk)

-----------------------------------------------------------------------------
\* The indices stay inside the slice: resourceID[:end] and
\* resourceID[newEnd-1] never go out of range.
TypeOK ==
  /\ resource \in Resources
  /\ scope \in Scopes
  /\ pc \in {"outer", "inner", "true", "false"}
  /\ end \in 0 .. Len(resource)
  /\ newEnd \in 0 .. Len(resource)
  /\ pc = "inner" => newEnd <= end

\* The walk answers true exactly when the scope names the resource or an
\* ancestor of it that ends at a '/': the comment's 'a scope over ".../app"
\* does NOT cover ".../app2/x"', and also that no ancestor is skipped.
WalkIsCovers ==
  /\ pc = "true" => Covers(scope, resource)
  /\ pc = "false" => ~Covers(scope, resource)

\* The walk returns: every round trip strips at least one byte.
WalkReturns == <>(pc \in {"true", "false"})
=============================================================================
