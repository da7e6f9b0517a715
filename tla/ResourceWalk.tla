---------------------------- MODULE ResourceWalk ----------------------------
(***************************************************************************)
(* The names `lastro run` gives and the walk that later decides whether a  *)
(* certificate's scope covers them.                                        *)
(***************************************************************************)
EXTENDS ScopeWalk, Resource

CONSTANT Namespaces

\* The walk over a path that passed validateResource compares only paths that
\* would pass it too, one for each ancestor, and finds the root when no '/' is
\* left, never an empty prefix: what the grammar admits is closed under the
\* ancestors the scope check looks at.
AncestorsStayValid ==
  pc = "outer" => \A ns \in Namespaces :
    validateResource(ns, resource) =>
      /\ end > 0
      /\ validateResource(ns, SubSeq(resource, 1, end))

\* What cmdRun accepts as the name of a run fits into a span, so that neither
\* the 256-byte check nor BuildSpan can fail after the child has run, has no
\* placeholder left, and is the same for two values of HEAD only if --path has
\* no placeholder.  The scope plays no part; the empty one stands for all.
NamesFitAndTell ==
  pc = "outer" /\ end = Len(resource) /\ scope = {} =>
    \A ns \in Namespaces : \A h, g \in HeadOutputs :
      LET path(x) == resolveShaTemplate(resource, x).path
      IN  Accepts(ns, resource, h) /\ Accepts(ns, resource, g) =>
            /\ IdBytes(ns, path(h)) <= MaxResource
            /\ Placeholder \notin ToSet(path(h))
            /\ path(h) = path(g) => h = g \/ Placeholder \notin ToSet(resource)
=============================================================================
