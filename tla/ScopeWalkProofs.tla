-------------------------- MODULE ScopeWalkProofs --------------------------
(***************************************************************************)
(* The scope walk computes Covers for every resource and every scope.  The *)
(* loop invariant: end is at a segment boundary, every boundary prefix     *)
(* longer than end has been looked up and was not in the scope, and the    *)
(* inner scan has passed no '/'.  Then what the grammar of resource names  *)
(* says about the prefixes the walk compares, and about the names a run    *)
(* gets; the lengths are sums over sequences, by induction over a set.     *)
(***************************************************************************)
EXTENDS ResourceWalk, WellFoundedInduction, TLAPS

Rejected(e) == Boundary(resource, e) => SubSeq(resource, 1, e) \notin scope

WalkInv ==
  /\ TypeOK
  /\ pc \in {"outer", "inner"} =>
       /\ end > 0 => Boundary(resource, end)
       /\ \A e \in 1 .. Len(resource) : e > end => Rejected(e)
  /\ pc = "inner" =>
       /\ end > 0
       /\ SubSeq(resource, 1, end) \notin scope
       /\ \A i \in 1 .. Len(resource) : newEnd < i /\ i <= end => resource[i] # "/"
  /\ WalkIsCovers

\* The length of the resource is a natural number.
LEMMA LenNat == TypeOK => Len(resource) \in Nat
BY ScopeAssumption DEF TypeOK

\* The loop starts at the whole path.
LEMMA WalkInit == Init => WalkInv
<1> SUFFICES ASSUME Init PROVE WalkInv
  OBVIOUS
<1>1. Len(resource) \in Nat
  BY ScopeAssumption DEF Init
<1> QED
  BY <1>1 DEF Init, WalkInv, TypeOK, WalkIsCovers, Rejected, Boundary

\* Every iteration of either loop keeps the loop invariant.
LEMMA WalkStep == WalkInv /\ [Next]_vars => WalkInv'
<1> SUFFICES ASSUME WalkInv, [Next]_vars PROVE WalkInv'
  OBVIOUS
<1> USE DEF WalkInv, Rejected, Return
<1>0. Len(resource) \in Nat
  BY LenNat
<1>1. CASE Carried
  <2>1. Covers(scope, resource)
    BY <1>0, <1>1 DEF Carried, Covers, TypeOK
  <2> QED
    BY <1>1, <2>1 DEF Carried, TypeOK, WalkIsCovers
<1>2. CASE NotCarried
  BY <1>0, <1>2 DEF NotCarried, TypeOK, WalkIsCovers
<1>3. CASE Exhausted
  <2>1. ~Covers(scope, resource)
    BY <1>0, <1>3 DEF Exhausted, Covers
  <2> QED
    BY <1>3, <2>1 DEF Exhausted, TypeOK, WalkIsCovers
<1>4. CASE Scan
  BY <1>0, <1>4 DEF Scan, TypeOK, WalkIsCovers
<1>5. CASE NoSlash
  <2>1. ASSUME NEW e \in 1 .. Len(resource), Boundary(resource, e)
        PROVE  SubSeq(resource, 1, e) \notin scope
    <3>1. CASE e < end
      <4>1. e + 1 \in 1 .. Len(resource) /\ newEnd < e + 1 /\ e + 1 <= end
        BY <1>0, <1>5, <3>1 DEF NoSlash, TypeOK
      <4>2. resource[e + 1] # "/"
        BY <1>5, <4>1 DEF NoSlash
      <4> QED
        BY <1>0, <2>1, <3>1, <4>2 DEF Boundary, TypeOK
    <3>2. CASE e = end
      BY <1>5, <3>2 DEF NoSlash
    <3>3. CASE e > end
      BY <1>5, <2>1, <3>3 DEF NoSlash
    <3> QED
      BY <1>0, <3>1, <3>2, <3>3 DEF TypeOK
  <2> QED
    BY <1>5, <2>1 DEF NoSlash, TypeOK, WalkIsCovers, Covers
<1>6. CASE Strip
  <2>1. newEnd \in 1 .. Len(resource) /\ newEnd <= end /\ end' = newEnd - 1
    BY <1>0, <1>6 DEF Strip, TypeOK
  <2>2. Boundary(resource, newEnd - 1)
    BY <1>6, <2>1 DEF Strip, Boundary
  <2>3. ASSUME NEW e \in 1 .. Len(resource), e > newEnd - 1, Boundary(resource, e)
        PROVE  SubSeq(resource, 1, e) \notin scope
    <3>1. CASE e < end
      <4>1. e + 1 \in 1 .. Len(resource) /\ newEnd < e + 1 /\ e + 1 <= end
        BY <1>0, <2>1, <2>3, <3>1 DEF TypeOK
      <4>2. resource[e + 1] # "/"
        BY <1>6, <4>1 DEF Strip
      <4> QED
        BY <1>0, <2>3, <3>1, <4>2 DEF Boundary, TypeOK
    <3>2. CASE e = end
      BY <1>6, <3>2 DEF Strip
    <3>3. CASE e > end
      BY <1>6, <2>3, <3>3 DEF Strip
    <3> QED
      BY <1>0, <3>1, <3>2, <3>3 DEF TypeOK
  <2> QED
    BY <1>0, <1>6, <2>1, <2>2, <2>3 DEF Strip, TypeOK, WalkIsCovers
<1>7. CASE UNCHANGED vars
  BY <1>7 DEF vars, TypeOK, WalkIsCovers
<1> QED
  BY <1>1, <1>2, <1>3, <1>4, <1>5, <1>6, <1>7 DEF Next, Walk, Returned

\* scopeCoversResource never indexes outside the resource.
THEOREM WalkTypeCorrect == Spec => []TypeOK
<1>1. WalkInv => TypeOK
  BY DEF WalkInv
<1> QED
  BY WalkInit, WalkStep, <1>1, PTL DEF Spec

\* scopeCoversResource returns true exactly for the resources a scope covers
\* at a '/' boundary, for paths of any length and scopes of any size.
THEOREM WalkCorrect == Spec => []WalkIsCovers
<1>1. WalkInv => WalkIsCovers
  BY DEF WalkInv
<1> QED
  BY WalkInit, WalkStep, <1>1, PTL DEF Spec

\* An upper bound on the steps the walk still takes.
StepsLeft ==
  CASE pc = "outer" -> 2 * end + 2
    [] pc = "inner" -> end + newEnd + 1
    [] OTHER -> 0

WalkShrinks == StepsLeft \in Nat /\ (Walk => StepsLeft' < StepsLeft)

\* Every step of either loop of scopeCoversResource brings it closer to its
\* return: it takes at most 2 * len(resourceID) + 2 of them.
THEOREM WalkTerminates ==
  /\ Init => StepsLeft = 2 * Len(resource) + 2
  /\ Spec => [][WalkShrinks]_vars
<1>1. Init => StepsLeft = 2 * Len(resource) + 2
  BY DEF Init, StepsLeft
<1>2. WalkInv /\ [Next]_vars => [WalkShrinks]_vars
  <2> SUFFICES ASSUME WalkInv PROVE WalkShrinks
    OBVIOUS
  <2>1. /\ end \in Nat
        /\ newEnd \in Nat
        /\ pc \in {"outer", "inner", "true", "false"}
        /\ pc = "inner" => newEnd <= end
    BY LenNat DEF WalkInv, TypeOK
  <2>2. StepsLeft \in Nat
    BY <2>1 DEF StepsLeft
  <2>3. ASSUME Walk PROVE StepsLeft' < StepsLeft
    <3>1. CASE Carried \/ Exhausted \/ NoSlash
      BY <2>1, <3>1 DEF Carried, Exhausted, NoSlash, Return, StepsLeft
    <3>2. CASE NotCarried
      BY <2>1, <3>2 DEF NotCarried, StepsLeft
    <3>3. CASE Scan
      BY <2>1, <3>3 DEF Scan, StepsLeft
    <3>4. CASE Strip
      BY <2>1, <3>4 DEF Strip, StepsLeft
    <3> QED
      BY <2>3, <3>1, <3>2, <3>3, <3>4 DEF Walk
  <2> QED
    BY <2>2, <2>3 DEF WalkShrinks
<1> QED
  BY WalkInit, WalkStep, <1>1, <1>2, PTL DEF Spec

-----------------------------------------------------------------------------
\* Induction over the naturals, for a set instead of a predicate.

Less == {p \in Nat \X Nat : p[1] < p[2]}

\* The order of the naturals is well founded.
LEMMA LessWF == IsWellFoundedOn(Less, Nat)
<1>1. IsWellFoundedOn(OpToRel(<, Nat), Nat)
  BY NatLessThanWellFounded
<1>2. OpToRel(<, Nat) = Less
  BY DEF OpToRel, Less
<1> QED
  BY <1>1, <1>2

\* A non-empty set of naturals has a least element.
LEMMA Least ==
  ASSUME NEW T, T \subseteq Nat, T # {}
  PROVE  \E x \in T : \A y \in T : x <= y
<1>1. PICK x \in T : \A y \in T : ~(<<y, x>> \in Less)
  BY LessWF, WFMin
<1>2. ASSUME NEW y \in T PROVE x <= y
  <2>1. x \in Nat /\ y \in Nat
    OBVIOUS
  <2>2. ~(y < x)
    BY <1>1, <2>1 DEF Less
  <2> QED
    BY <2>1, <2>2
<1> QED
  BY <1>2

\* Induction, for the naturals up to a bound.
LEMMA Induction ==
  ASSUME NEW S, NEW m \in Nat, 0 \in S,
         \A n \in 0 .. m : n < m /\ n \in S => n + 1 \in S
  PROVE  \A n \in 0 .. m : n \in S
<1> DEFINE T == {n \in 0 .. m : n \notin S}
<1>1. SUFFICES ASSUME T # {} PROVE FALSE
  OBVIOUS
<1>2. PICK x \in T : \A y \in T : x <= y
  <2>1. T \subseteq Nat
    OBVIOUS
  <2> HIDE DEF T
  <2> QED
    BY <1>1, <2>1, Least
<1>3. x # 0 /\ x \in 0 .. m /\ x \notin S
  BY <1>2
<1>4. x - 1 \in 0 .. m /\ ~(x <= x - 1) /\ x - 1 < m
  BY <1>3
<1>5. x - 1 \in S
  BY <1>2, <1>4
<1>6. (x - 1) + 1 \in S
  BY <1>4, <1>5
<1> QED
  BY <1>3, <1>6

-----------------------------------------------------------------------------
Legal == Alnum \cup {"-", ".", "_", "/"}

\* Every legal piece has a byte or more.
LEMMA WidthPositive == \A c \in Legal : Width[c] \in Nat \ {0}
BY PieceAssumption DEF Legal

\* The fold that Bytes is, on the subsets of the first n positions.
IsFold(g, s, n) ==
  /\ g \in [SUBSET (1 .. n) -> Nat]
  /\ \A d \in SUBSET (1 .. n) :
       g[d] = IF d = {} THEN 0 ELSE g[d \ {Max(d)}] + Width[s[Max(d)]]

\* The largest element of a set of positions that holds the last one.
LEMMA MaxLast ==
  ASSUME NEW n \in Nat, NEW d \in SUBSET (1 .. n), n \in d
  PROVE  Max(d) = n
<1>1. \A y \in d : n >= y
  OBVIOUS
<1>2. PICK x \in d : x = Max(d) /\ \A y \in d : x >= y
  BY <1>1 DEF Max
<1>3. x >= n /\ n >= x /\ x \in Nat
  BY <1>1, <1>2
<1> QED
  BY <1>2, <1>3

\* The fold over one more position.
LEMMA FoldGrows ==
  ASSUME NEW s \in Seq(Legal), NEW n \in Nat, n < Len(s),
         NEW g, IsFold(g, s, n)
  PROVE  \E h : IsFold(h, s, n + 1)
<1> DEFINE m == n + 1
           h == [d \in SUBSET (1 .. m) |->
                   IF m \in d THEN g[d \ {m}] + Width[s[m]] ELSE g[d]]
<1>1. Width[s[m]] \in Nat
  <2>1. m \in 1 .. Len(s)
    OBVIOUS
  <2>2. s[m] \in Legal
    BY <2>1
  <2> QED
    BY <2>2, WidthPositive
<1>2. \A d \in SUBSET (1 .. m) : d \ {m} \in SUBSET (1 .. n)
  OBVIOUS
<1>3. \A d \in SUBSET (1 .. m) : m \notin d => d \in SUBSET (1 .. n)
  OBVIOUS
<1>4. h \in [SUBSET (1 .. m) -> Nat]
  <2>1. ASSUME NEW d \in SUBSET (1 .. m)
        PROVE  (IF m \in d THEN g[d \ {m}] + Width[s[m]] ELSE g[d]) \in Nat
    BY <1>1, <1>2, <1>3 DEF IsFold
  <2> QED
    BY <2>1
<1>5. ASSUME NEW d \in SUBSET (1 .. m)
      PROVE  h[d] = IF d = {} THEN 0 ELSE h[d \ {Max(d)}] + Width[s[Max(d)]]
  <2>1. CASE m \in d
    <3>1. Max(d) = m
      BY <2>1, MaxLast
    <3>2. h[d \ {m}] = g[d \ {m}]
      OBVIOUS
    <3> QED
      BY <2>1, <3>1, <3>2
  <2>2. CASE m \notin d
    <3>1. d \in SUBSET (1 .. n) /\ h[d] = g[d]
      BY <2>2, <1>3
    <3>2. CASE d # {}
      <4>1. h[d \ {Max(d)}] = g[d \ {Max(d)}]
        BY <2>2
      <4> QED
        BY <3>1, <3>2, <4>1 DEF IsFold
    <3> QED
      BY <3>1, <3>2 DEF IsFold
  <2> QED
    BY <2>1, <2>2
<1> HIDE DEF h
<1> QED
  BY <1>4, <1>5 DEF IsFold

\* There is such a fold for every string of legal pieces.
LEMMA FoldExists ==
  ASSUME NEW s \in Seq(Legal)
  PROVE  \E g : IsFold(g, s, Len(s))
<1> DEFINE S == {n \in 0 .. Len(s) : \E g : IsFold(g, s, n)}
<1>1. 0 \in S
  <2> DEFINE g == [d \in SUBSET (1 .. 0) |-> 0]
  <2>1. IsFold(g, s, 0)
    BY DEF IsFold
  <2> QED
    BY <2>1
<1>2. ASSUME NEW n \in 0 .. Len(s), n < Len(s), n \in S
      PROVE  n + 1 \in S
  BY <1>2, FoldGrows
<1>3. Len(s) \in Nat
  OBVIOUS
<1> HIDE DEF S
<1>4. \A n \in 0 .. Len(s) : n \in S
  BY <1>1, <1>2, <1>3, Induction
<1>5. Len(s) \in S
  BY <1>3, <1>4
<1> QED
  BY <1>5 DEF S

\* g counts the bytes of the first pieces of s.
IsCount(g, s) ==
  /\ g \in [0 .. Len(s) -> Nat]
  /\ g[0] = 0
  /\ \A k \in 1 .. Len(s) : g[k] = g[k - 1] + Width[s[k]]

\* len(): Bytes adds the widths up, piece by piece.
LEMMA BytesCounts ==
  ASSUME NEW s \in Seq(Legal)
  PROVE  \E g : IsCount(g, s) /\ Bytes(s) = g[Len(s)]
<1> DEFINE F(f) == [d \in SUBSET (1 .. Len(s)) |->
                      IF d = {} THEN 0 ELSE f[d \ {Max(d)}] + Width[s[Max(d)]]]
           iter == CHOOSE f : f = F(f)
<1>1. DOMAIN s = 1 .. Len(s) /\ Len(s) \in Nat
  OBVIOUS
<1>2. Bytes(s) = iter[1 .. Len(s)]
  BY <1>1 DEF Bytes, FoldLeft, MapThenFoldSet
<1>3. PICK f : IsFold(f, s, Len(s))
  BY FoldExists
<1>4. f = F(f)
  BY <1>3 DEF IsFold
<1>5. iter = F(iter)
  BY <1>4
<1> HIDE DEF iter
<1>6. \A d \in SUBSET (1 .. Len(s)) :
        iter[d] = IF d = {} THEN 0 ELSE iter[d \ {Max(d)}] + Width[s[Max(d)]]
  BY <1>5
<1> DEFINE g == [k \in 0 .. Len(s) |-> iter[1 .. k]]
<1>7. g[0] = 0
  <2>1. iter[{}] = 0
    BY <1>6
  <2>2. 1 .. 0 = {} /\ 0 \in 0 .. Len(s)
    BY <1>1
  <2> QED
    BY <2>1, <2>2
<1>8. ASSUME NEW k \in 1 .. Len(s)
      PROVE  g[k] = g[k - 1] + Width[s[k]] /\ Width[s[k]] \in Nat
  <2> HIDE DEF g
  <2>1. 1 .. k \in SUBSET (1 .. Len(s)) /\ k \in 1 .. k /\ k \in Nat
    BY <1>1
  <2>2. Max(1 .. k) = k
    BY <2>1, MaxLast
  <2>3. (1 .. k) \ {k} = 1 .. k - 1
    OBVIOUS
  <2>4. iter[1 .. k] = iter[1 .. k - 1] + Width[s[k]]
    <3>1. 1 .. k # {}
      BY <2>1
    <3> QED
      BY <1>6, <2>1, <2>2, <2>3, <3>1
  <2>5. s[k] \in Legal
    OBVIOUS
  <2>6. Width[s[k]] \in Nat
    BY <2>5, WidthPositive
  <2>7. g[k] = iter[1 .. k] /\ g[k - 1] = iter[1 .. k - 1]
    <3>1. k \in 0 .. Len(s) /\ k - 1 \in 0 .. Len(s)
      BY <1>1
    <3> QED
      BY <3>1 DEF g
  <2> QED
    BY <2>4, <2>6, <2>7
<1>9. ASSUME NEW n \in 0 .. Len(s)
      PROVE  g[n] \in Nat
  <2> DEFINE S == {k \in 0 .. Len(s) : g[k] \in Nat}
  <2>1. 0 \in S
    BY <1>1, <1>7
  <2> HIDE DEF g
  <2>2. ASSUME NEW k \in 0 .. Len(s), k < Len(s), k \in S
        PROVE  k + 1 \in S
    <3>1. k + 1 \in 1 .. Len(s) /\ (k + 1) - 1 = k
      BY <1>1, <2>2
    <3>2. g[k + 1] = g[k] + Width[s[k + 1]] /\ Width[s[k + 1]] \in Nat
      BY <1>8, <3>1
    <3> QED
      BY <1>1, <2>2, <3>1, <3>2
  <2> HIDE DEF S
  <2>3. \A k \in 0 .. Len(s) : k \in S
    BY <1>1, <2>1, <2>2, Induction
  <2> QED
    BY <2>3 DEF S
<1>10. g \in [0 .. Len(s) -> Nat] /\ g[Len(s)] = Bytes(s)
  BY <1>1, <1>2, <1>9
<1> HIDE DEF g
<1> QED
  BY <1>7, <1>8, <1>10 DEF IsCount

\* A prefix has as many bytes as its pieces, no more than the whole, and at
\* least one if it has a piece.
LEMMA BytesOfPrefix ==
  ASSUME NEW s \in Seq(Legal), NEW e \in 1 .. Len(s)
  PROVE  /\ Bytes(s) \in Nat
         /\ Bytes(SubSeq(s, 1, e)) \in 1 .. Bytes(s)
<1> DEFINE t == SubSeq(s, 1, e)
<1>1. /\ t \in Seq(Legal)
      /\ Len(t) = e
      /\ Len(s) \in Nat
      /\ \A i \in 1 .. e : t[i] = s[i]
  OBVIOUS
<1> HIDE DEF t
<1>2. PICK g : IsCount(g, s) /\ Bytes(s) = g[Len(s)]
  BY BytesCounts
<1>3. PICK h : IsCount(h, t) /\ Bytes(t) = h[e]
  BY <1>1, BytesCounts
<1>4. ASSUME NEW k \in 1 .. Len(s)
      PROVE  Width[s[k]] \in Nat \ {0}
  <2>1. s[k] \in Legal
    OBVIOUS
  <2> QED
    BY <2>1, WidthPositive
<1>5. \A k \in 0 .. e : g[k] = h[k]
  <2> DEFINE S == {k \in 0 .. e : g[k] = h[k]}
  <2>1. 0 \in S
    BY <1>1, <1>2, <1>3 DEF IsCount
  <2>2. ASSUME NEW k \in 0 .. e, k < e, k \in S
        PROVE  k + 1 \in S
    <3>1. k + 1 \in 1 .. e /\ k + 1 \in 1 .. Len(s) /\ (k + 1) - 1 = k
      BY <1>1, <2>2
    <3>2. g[k + 1] = g[k] + Width[s[k + 1]]
      BY <1>2, <3>1 DEF IsCount
    <3>3. h[k + 1] = h[k] + Width[t[k + 1]]
      BY <1>1, <1>3, <3>1 DEF IsCount
    <3> QED
      BY <1>1, <2>2, <3>1, <3>2, <3>3
  <2> HIDE DEF S
  <2>3. \A k \in 0 .. e : k \in S
    BY <2>1, <2>2, Induction
  <2> QED
    BY <2>3 DEF S
<1>6. \A k \in 0 .. Len(s) : e <= k => g[e] <= g[k]
  <2> DEFINE S == {k \in 0 .. Len(s) : e <= k => g[e] <= g[k]}
  <2>1. 0 \in S
    BY <1>1
  <2>2. ASSUME NEW k \in 0 .. Len(s), k < Len(s), k \in S
        PROVE  k + 1 \in S
    <3>1. k + 1 \in 1 .. Len(s) /\ (k + 1) - 1 = k /\ e \in 0 .. Len(s)
      BY <1>1, <2>2
    <3>2. g[k + 1] = g[k] + Width[s[k + 1]]
      BY <1>2, <3>1 DEF IsCount
    <3>3. g[k] \in Nat /\ g[k + 1] \in Nat /\ g[e] \in Nat
      <4>1. g \in [0 .. Len(s) -> Nat]
        BY <1>2 DEF IsCount
      <4>2. k + 1 \in 0 .. Len(s)
        BY <3>1
      <4> QED
        BY <3>1, <4>1, <4>2
    <3>4. Width[s[k + 1]] \in Nat
      BY <1>4, <3>1
    <3>5. CASE e <= k
      BY <2>2, <3>1, <3>2, <3>4, <3>5, <3>3
    <3>6. CASE e = k + 1
      BY <3>1, <3>3, <3>6
    <3> QED
      BY <3>1, <3>5, <3>6
  <2> HIDE DEF S
  <2>3. \A k \in 0 .. Len(s) : k \in S
    BY <1>1, <2>1, <2>2, Induction
  <2> QED
    BY <2>3 DEF S
<1>7. g[e] >= 1
  <2>1. g[e] = g[e - 1] + Width[s[e]] /\ g[e - 1] \in Nat
    BY <1>1, <1>2 DEF IsCount
  <2> QED
    BY <1>4, <2>1
<1>8. Bytes(t) = g[e] /\ g[e] <= Bytes(s) /\ Bytes(s) \in Nat /\ g[e] \in Nat
  BY <1>1, <1>2, <1>3, <1>5, <1>6 DEF IsCount
<1> QED
  BY <1>7, <1>8 DEF t

\* strings.Split of an ancestor yields segments of the whole path.
LEMMA AncestorSegments ==
  ASSUME NEW C, NEW s \in Seq(C), NEW e \in 1 .. Len(s), Boundary(s, e)
  PROVE  Segments(SubSeq(s, 1, e)) \subseteq Segments(s)
<1> DEFINE t == SubSeq(s, 1, e)
<1>1. /\ Len(t) = e
      /\ Len(s) \in Nat
      /\ \A i \in 1 .. e : t[i] = s[i]
      /\ t \in Seq(C)
  OBVIOUS
<1>2. ASSUME NEW i \in 1 .. e + 1, NEW j \in 0 .. e, i <= j + 1
      PROVE  SubSeq(t, i, j) = SubSeq(s, i, j)
  OBVIOUS
<1> HIDE DEF t
<1>3. ASSUME NEW i \in 1 .. e + 1, NEW j \in 0 .. e, IsSegment(t, i, j)
      PROVE  IsSegment(s, i, j)
  <2>1. i <= j + 1 /\ "/" \notin ToSet(SubSeq(s, i, j))
    BY <1>2, <1>3 DEF IsSegment
  <2>2. i = 1 \/ s[i - 1] = "/"
    <3>1. CASE i # 1
      <4>1. i - 1 \in 1 .. e
        BY <3>1
      <4> QED
        BY <1>1, <1>3, <4>1 DEF IsSegment
    <3> QED
      BY <3>1
  <2>3. j = Len(s) \/ s[j + 1] = "/"
    <3>1. CASE j = e
      BY <3>1 DEF Boundary
    <3>2. CASE j # e
      <4>1. j + 1 \in 1 .. e
        BY <3>2
      <4> QED
        BY <1>1, <1>3, <3>2, <4>1 DEF IsSegment
    <3> QED
      BY <3>1, <3>2
  <2> QED
    BY <2>1, <2>2, <2>3 DEF IsSegment
<1>4. ASSUME NEW x \in Segments(t)
      PROVE  x \in Segments(s)
  <2>1. PICK r \in (1 .. e + 1) \X (0 .. e) : IsSegment(t, r[1], r[2]) /\ x = SubSeq(t, r[1], r[2])
    BY <1>1 DEF Segments
  <2>2. r[1] \in 1 .. e + 1 /\ r[2] \in 0 .. e /\ r[1] <= r[2] + 1
    BY <2>1 DEF IsSegment
  <2>3. IsSegment(s, r[1], r[2]) /\ x = SubSeq(s, r[1], r[2])
    BY <1>2, <1>3, <2>1, <2>2
  <2>4. r \in (1 .. Len(s) + 1) \X (0 .. Len(s))
    BY <1>1, <2>1
  <2> QED
    BY <2>3, <2>4 DEF Segments
<1> QED
  BY <1>4 DEF t

\* A path that is empty or starts with '/' has an empty segment.
LEMMA LeadingSlash ==
  ASSUME NEW C, NEW s \in Seq(C), s = <<>> \/ s[1] = "/"
  PROVE  <<>> \in Segments(s)
<1>1. SubSeq(s, 1, 0) = <<>> /\ "/" \notin ToSet(<<>>)
  BY DEF ToSet
<1>2. 0 = Len(s) \/ s[0 + 1] = "/"
  OBVIOUS
<1>3. IsSegment(s, 1, 0)
  <2>1. "/" \notin ToSet(SubSeq(s, 1, 0))
    BY <1>1, Zenon
  <2>2. 1 <= 0 + 1
    OBVIOUS
  <2> QED
    BY <1>2, <2>1, <2>2, Zenon DEF IsSegment
<1>4. <<1, 0>> \in (1 .. Len(s) + 1) \X (0 .. Len(s))
  OBVIOUS
<1> QED
  BY <1>1, <1>3, <1>4 DEF Segments

\* What validateResource admits, it admits at every boundary.
LEMMA AncestorValid ==
  ASSUME NEW C, NEW s \in Seq(C), NEW ns, validateResource(ns, s),
         NEW e \in 1 .. Len(s), Boundary(s, e)
  PROVE  validateResource(ns, SubSeq(s, 1, e))
<1> DEFINE t == SubSeq(s, 1, e)
<1>1. ToSet(s) \subseteq Legal
  BY DEF validateResource, Legal
<1>2. ToSet(t) \subseteq ToSet(s)
  <2>1. /\ DOMAIN t = 1 .. e /\ DOMAIN s = 1 .. Len(s)
        /\ \A i \in 1 .. e : t[i] = s[i] /\ i \in 1 .. Len(s)
    OBVIOUS
  <2> HIDE DEF t
  <2> QED
    BY <2>1 DEF ToSet
<1>3. s \in Seq(Legal)
  <2>1. \A i \in 1 .. Len(s) : s[i] \in Legal
    BY <1>1 DEF ToSet
  <2>2. s = [i \in 1 .. Len(s) |-> s[i]] /\ Len(s) \in Nat
    OBVIOUS
  <2>3. s \in [1 .. Len(s) -> Legal]
    BY <2>1, <2>2
  <2> QED
    BY <2>2, <2>3
<1>4. Bytes(s) \in 1 .. 180
  BY DEF validateResource
<1>5. Bytes(t) \in 1 .. 180
  <2>1. Bytes(t) \in 1 .. Bytes(s)
    BY <1>3, BytesOfPrefix, Zenon
  <2>2. \A b \in 1 .. 180 : 1 .. b \subseteq 1 .. 180
    OBVIOUS
  <2> QED
    BY <1>4, <2>1, <2>2, Zenon
<1>6. Segments(t) \subseteq Segments(s)
  BY AncestorSegments
<1> HIDE DEF t
<1>7. {<<>>, <<".">>, <<".", ".">>} \cap Segments(t) = {}
  BY <1>6 DEF validateResource
<1>8. ToSet(t) \subseteq Alnum \cup {"-", ".", "_", "/"}
  BY <1>1, <1>2 DEF Legal
<1>9. Bytes(ns) \in 1 .. 32 /\ ToSet(ns) \subseteq Alnum \cup {"-"}
  BY DEF validateResource
<1> QED
  BY <1>5, <1>7, <1>8, <1>9, Zenon DEF validateResource, t

-----------------------------------------------------------------------------
\* The walk reaches an empty prefix only from an empty first segment.
RootInv ==
  pc = "outer" /\ end = 0 => resource = <<>> \/ resource[1] = "/"

\* The walk stays where RootInv says.
LEMMA RootStep == WalkInv /\ RootInv /\ [Next]_vars => RootInv'
<1> SUFFICES ASSUME WalkInv, RootInv, [Next]_vars PROVE RootInv'
  OBVIOUS
<1>1. CASE Strip
  <2>1. newEnd \in Nat
    BY LenNat DEF WalkInv, TypeOK
  <2> QED
    BY <1>1, <2>1 DEF Strip, RootInv
<1>2. CASE Carried \/ NotCarried \/ Exhausted \/ Scan \/ NoSlash
  BY <1>2 DEF Carried, NotCarried, Exhausted, Scan, NoSlash, Return, RootInv
<1>3. CASE UNCHANGED vars
  BY <1>3 DEF vars, RootInv
<1> QED
  BY <1>1, <1>2, <1>3 DEF Next, Walk, Returned

\* What the grammar admits is closed under the ancestors the scope check looks
\* at, and the walk over an admitted path never compares an empty one: for
\* names of any length, scopes of any size and every width of the pieces.
THEOREM AncestorsCorrect == Spec => []AncestorsStayValid
<1>1. Init => RootInv
  <2> SUFFICES ASSUME Init PROVE RootInv
    OBVIOUS
  <2>1. resource \in Seq(Chars) /\ end = Len(resource)
    BY ScopeAssumption DEF Init
  <2>2. Len(resource) = 0 => resource = <<>>
    BY <2>1
  <2> QED
    BY <2>1, <2>2, Zenon DEF RootInv
<1>2. WalkInv /\ RootInv => AncestorsStayValid
  <2> SUFFICES ASSUME WalkInv, RootInv, pc = "outer",
                      NEW ns \in Namespaces, validateResource(ns, resource)
               PROVE  end > 0 /\ validateResource(ns, SubSeq(resource, 1, end))
    BY DEF AncestorsStayValid
  <2>1. resource \in Seq(Chars) /\ end \in 0 .. Len(resource)
    BY ScopeAssumption DEF WalkInv, TypeOK
  <2>2. end > 0
    <3>1. SUFFICES ASSUME end = 0 PROVE FALSE
      BY <2>1
    <3>2. <<>> \in Segments(resource)
      BY <2>1, <3>1, LeadingSlash DEF RootInv
    <3> QED
      BY <3>2 DEF validateResource
  <2>3. end \in 1 .. Len(resource) /\ Boundary(resource, end)
    BY <2>1, <2>2 DEF WalkInv
  <2> QED
    BY <2>1, <2>2, <2>3, AncestorValid
<1> QED
  BY WalkInit, WalkStep, RootStep, <1>1, <1>2, PTL DEF Spec

\* ReplaceAll puts the new piece wherever the old one was.
LEMMA ReplacesEach ==
  ASSUME NEW C, NEW s \in Seq(C), NEW i \in 1 .. Len(s), NEW x
  PROVE  ReplaceAll(s, s[i], x)[i] = x
BY DEF ReplaceAll

\* A name cmdRun accepts fits into a span and has no placeholder left.
LEMMA AcceptedFits ==
  ASSUME NEW ns, NEW p, validateResource(ns, p)
  PROVE  IdBytes(ns, p) <= MaxResource /\ Placeholder \notin ToSet(p)
<1>1. Bytes(ns) \in 1 .. 32 /\ Bytes(p) \in 1 .. 180
  BY DEF validateResource
<1>2. ToSet(p) \subseteq Alnum \cup {"-", ".", "_", "/"}
  BY DEF validateResource
<1>3. Placeholder \notin Alnum \cup {"-", ".", "_", "/"}
  BY PieceAssumption DEF Placeholder
<1>4. IdBytes(ns, p) <= MaxResource
  BY <1>1 DEF IdBytes, MaxResource
<1> QED
  BY <1>2, <1>3, <1>4, Zenon

\* Where --path has a placeholder, the name tells one HEAD from another.
LEMMA NameTellsHead ==
  ASSUME NEW C, NEW p \in Seq(C), NEW h, NEW g, Placeholder \in ToSet(p),
         resolveShaTemplate(p, h).ok, resolveShaTemplate(p, g).ok,
         resolveShaTemplate(p, h).path = resolveShaTemplate(p, g).path
  PROVE  h = g
<1>1. PICK i \in 1 .. Len(p) : p[i] = Placeholder
  BY DEF ToSet
<1>2. ASSUME NEW x, resolveShaTemplate(p, x).ok
      PROVE  resolveShaTemplate(p, x).path = ReplaceAll(p, Placeholder, x)
  BY <1>2 DEF resolveShaTemplate
<1>3. ReplaceAll(p, Placeholder, h) = ReplaceAll(p, Placeholder, g)
  BY <1>2
<1>4. ReplaceAll(p, Placeholder, h)[i] = h /\ ReplaceAll(p, Placeholder, g)[i] = g
  BY <1>1, ReplacesEach
<1> QED
  BY <1>3, <1>4

\* Neither the 256-byte check nor BuildSpan fails for a name cmdRun accepted,
\* no placeholder is left in it, and it is the same for two values of HEAD
\* only if --path has no placeholder: for every path, namespace and HEAD.
THEOREM NamesCorrect == Spec => []NamesFitAndTell
<1>1. WalkInv => NamesFitAndTell
  <2> SUFFICES ASSUME WalkInv, NEW ns \in Namespaces,
                      NEW h \in HeadOutputs, NEW g \in HeadOutputs,
                      Accepts(ns, resource, h), Accepts(ns, resource, g)
               PROVE  /\ IdBytes(ns, resolveShaTemplate(resource, h).path) <= MaxResource
                      /\ Placeholder \notin ToSet(resolveShaTemplate(resource, h).path)
                      /\ resolveShaTemplate(resource, h).path = resolveShaTemplate(resource, g).path
                           => h = g \/ Placeholder \notin ToSet(resource)
    BY DEF NamesFitAndTell
  <2>1. resource \in Seq(Chars)
    BY ScopeAssumption DEF WalkInv, TypeOK
  <2>2. /\ resolveShaTemplate(resource, h).ok
        /\ validateResource(ns, resolveShaTemplate(resource, h).path)
        /\ resolveShaTemplate(resource, g).ok
    BY DEF Accepts
  <2> QED
    BY <2>1, <2>2, AcceptedFits, NameTellsHead
<1> QED
  BY WalkInit, WalkStep, <1>1, PTL DEF Spec
=============================================================================
