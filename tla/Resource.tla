------------------------------ MODULE Resource ------------------------------
(***************************************************************************)
(* How `lastro run` names what it observes (cmd/lastro/main.go): the {sha} *)
(* in --path is replaced by git's HEAD, namespace and path are held to the *)
(* grammar, and the id is put together.  A string is a sequence of pieces: *)
(* a character, a run of characters of one kind, the placeholder, or what  *)
(* `git rev-parse HEAD` printed, trimmed and in lower case.                *)
(***************************************************************************)
EXTENDS Naturals, Sequences, SequencesExt

CONSTANTS
  Width,       \* Width[c]: the bytes of piece c
  Alnum,       \* the pieces of letters and digits [a-z0-9]
  Hex,         \* those of [0-9a-f] only
  HeadOutputs  \* what git may print; Unavailable when it fails

MaxResource == 256
Unavailable == "unavailable"
Placeholder == "{sha}"

\* A piece is a non-empty run of bytes, and the placeholder's braces are not
\* letters or digits.
ASSUME PieceAssumption ==
  /\ \A c \in Alnum \cup {"-", ".", "_", "/"} : Width[c] \in Nat \ {0}
  /\ Placeholder \notin Alnum

Bytes(s) == FoldLeft(LAMBDA n, c : n + Width[c], 0, s)

\* The path with HEAD in place of every placeholder, and whether there is one.
resolveShaTemplate(p, head) ==
  IF Placeholder \notin ToSet(p) THEN [ok |-> TRUE, path |-> p]
  ELSE IF head = Unavailable \/ Width[head] \notin 7 .. 64 \/ head \notin Hex
       THEN [ok |-> FALSE, path |-> <<>>]
  ELSE [ok |-> TRUE, path |-> ReplaceAll(p, Placeholder, head)]

\* p[i:j] lies between neighbouring slashes: strings.Split(p, "/") has it.
IsSegment(p, i, j) ==
  /\ i = 1 \/ p[i - 1] = "/"
  /\ j = Len(p) \/ p[j + 1] = "/"
  /\ i <= j + 1
  /\ "/" \notin ToSet(SubSeq(p, i, j))

\* strings.Split(p, "/"), as a set.
Segments(p) ==
  {SubSeq(p, r[1], r[2]) : r \in
     {q \in (1 .. Len(p) + 1) \X (0 .. Len(p)) : IsSegment(p, q[1], q[2])}}

\* Faulty: empty segments pass.
Bug_EmptySegments(ns, p) ==
  /\ Bytes(ns) \in 1 .. 32
  /\ ToSet(ns) \subseteq Alnum \cup {"-"}
  /\ Bytes(p) \in 1 .. 180
  /\ ToSet(p) \subseteq Alnum \cup {"-", ".", "_", "/"}
  /\ {<<".">>, <<".", ".">>} \cap Segments(p) = {}

\* Faulty: the length of the path is not bounded.
Bug_PathUnbounded(ns, p) ==
  /\ Bytes(ns) \in 1 .. 32
  /\ ToSet(ns) \subseteq Alnum \cup {"-"}
  /\ p # <<>>
  /\ ToSet(p) \subseteq Alnum \cup {"-", ".", "_", "/"}
  /\ {<<>>, <<".">>, <<".", ".">>} \cap Segments(p) = {}

\* TRUE where validateResource returns nil.
validateResource(ns, p) ==
  /\ Bytes(ns) \in 1 .. 32
  /\ ToSet(ns) \subseteq Alnum \cup {"-"}
  /\ Bytes(p) \in 1 .. 180
  /\ ToSet(p) \subseteq Alnum \cup {"-", ".", "_", "/"}
  /\ {<<>>, <<".">>, <<".", ".">>} \cap Segments(p) = {}

\* len(resource) of "bol:" + Fingerprint(pub) + "/" + namespace + "/" + path.
IdBytes(ns, p) == 4 + 16 + 1 + Bytes(ns) + 1 + Bytes(p)

\* cmdRun goes past both checks.
Accepts(ns, p, head) ==
  LET r == resolveShaTemplate(p, head)
  IN  r.ok /\ validateResource(ns, r.path)
=============================================================================
