---------------------------- MODULE MCScopeWalk ----------------------------
(* Every path of up to MaxPath pieces over a letter and '/', and every one *)
(* of up to MaxNamed pieces over all of Pieces, against every scope of at  *)
(* most two paths of up to MaxScopePath characters.  Pieces reach the      *)
(* bounds: "long" and a 40-digit HEAD, with a '/', are 180 bytes.          *)
EXTENDS ResourceWalk, FiniteSets

CONSTANTS Pieces, MaxPath, MaxNamed, MaxScopePath

Strings(C, n) == UNION {[1 .. k -> C] : k \in 0 .. n}

MCChars == Pieces
MCResources == Strings({"a", "/"}, MaxPath) \cup Strings(Pieces, MaxNamed)
MCScopes == {{}} \cup {{p, q} : p, q \in Strings({"a", "/"}, MaxScopePath)}

MCWidth ==
  [c \in Pieces \cup {"-", "_", "U", "sha1", "sha2", "sha256", "short", "huge", "branch", "n32"} |->
     CASE c = "long" -> 139 [] c = Placeholder -> 5
       [] c \in {"sha1", "sha2"} -> 40 [] c = "sha256" -> 64 [] c = "huge" -> 65
       [] c = "short" -> 6 [] c = "branch" -> 9 [] c = "n32" -> 32 [] OTHER -> 1]
MCHex == {"a", "sha1", "sha2", "sha256", "short", "huge"}
MCAlnum == MCHex \cup {"long", "branch", "n32"}
MCHeadOutputs == {Unavailable, "sha1", "sha2", "sha256", "short", "huge", "branch"}
MCNamespaces == {<<>>, <<"a">>, <<"n32">>, <<"n32", "-">>, <<"a", "/">>, <<"a", "U">>}
=============================================================================
