---------------------------- MODULE CodecProofs ----------------------------
(***************************************************************************)
(* The cursor stays inside the buffer for every structure, every buffer    *)
(* size and all values of the length fields.                               *)
(***************************************************************************)
EXTENDS Codec, TLAPS

\* Every field of every layout has a kind, a size and a unit.
LEMMA Fields ==
  ASSUME NEW s \in Structures, NEW j \in 1 .. Len(Layout(s))
  PROVE  LET f == Layout(s)[j]
         IN  /\ f.kind \in {"take", "field", "pairs", "tbs"}
             /\ f.kind # "tbs" => f.n \in Nat
             /\ f.kind \in {"field", "pairs"} => f.unit \in Nat
             /\ DOMAIN Layout(s) = 1 .. Len(Layout(s))
<1> USE DEF Take, Field, Pairs, TBS, LenPubkey, LenSig
<1>1. CASE s = "span"
  BY <1>1 DEF Layout, ParseSpan
<1>2. CASE s = "cert"
  BY <1>2 DEF Layout, ParseCert
<1>3. CASE s = "grant"
  BY <1>3 DEF Layout, ParseGrant
<1>4. CASE s = "envelope"
  BY <1>4 DEF Layout, ParseEnvelope
<1>5. CASE s = "intent"
  BY <1>5 DEF Layout, ParseIntent
<1>6. CASE s = "refusal"
  BY <1>6 DEF Layout, ParseRefusal
<1> QED
  BY <1>1, <1>2, <1>3, <1>4, <1>5, <1>6, CodecAssumption

\* A layout is a non-empty sequence of fields.
LEMMA LayoutLen ==
  ASSUME NEW s \in Structures
  PROVE  Len(Layout(s)) \in Nat /\ Len(Layout(s)) >= 1
         /\ DOMAIN Layout(s) = 1 .. Len(Layout(s))
<1>1. CASE s = "span"
  BY <1>1 DEF Layout, ParseSpan
<1>2. CASE s = "cert"
  BY <1>2 DEF Layout, ParseCert
<1>3. CASE s = "grant"
  BY <1>3 DEF Layout, ParseGrant
<1>4. CASE s = "envelope"
  BY <1>4 DEF Layout, ParseEnvelope
<1>5. CASE s = "intent"
  BY <1>5 DEF Layout, ParseIntent
<1>6. CASE s = "refusal"
  BY <1>6 DEF Layout, ParseRefusal
<1> QED
  BY <1>1, <1>2, <1>3, <1>4, <1>5, <1>6, CodecAssumption

\* The inductive invariant: the cursor, the size of the buffer, and length
\* fields that hold naturals.
CursorInv ==
  /\ TypeOK
  /\ size \in Nat
  /\ \A j \in LengthFields(st) : lens[j] \in Nat

\* Parsing starts at the head of the buffer.
LEMMA CursorInit == Init => CursorInv
<1> SUFFICES ASSUME Init PROVE CursorInv
  OBVIOUS
<1>1. st \in Structures /\ size \in Nat
  BY DEF Init, Sizes
<1>2. \A j \in LengthFields(st) : lens[j] \in Nat
  BY <1>1, CodecAssumption DEF Init, Lengths, LengthFields, HasLength
<1>3. 1 \in 1 .. Len(Layout(st)) + 1
  BY <1>1, LayoutLen
<1>4. pos \in 0 .. size /\ tbs \in 0 .. pos
  BY <1>1 DEF Init
<1>5. i = 1 /\ left \in Nat /\ inBody \in BOOLEAN /\ result = "none"
  BY DEF Init
<1>6. TypeOK
  BY <1>1, <1>3, <1>4, <1>5 DEF TypeOK
<1> QED
  BY <1>1, <1>2, <1>6 DEF CursorInv

\* Every read is guarded by need, so every step keeps the cursor in range.
LEMMA CursorStep == CursorInv /\ [Next]_vars => CursorInv'
<1> SUFFICES ASSUME CursorInv, [Next]_vars PROVE CursorInv'
  OBVIOUS
<1> USE DEF CursorInv, input
<1>0. /\ Len(Layout(st)) \in Nat
      /\ DOMAIN Layout(st) = 1 .. Len(Layout(st))
      /\ size \in Nat /\ pos \in Nat /\ pos <= size /\ tbs \in Nat /\ tbs <= pos
      /\ i \in Nat /\ i >= 1 /\ left \in Nat
  BY LayoutLen DEF TypeOK
<1>1. st' = st /\ lens' = lens /\ size' = size
  BY DEF vars, Next, Returned, TakeFixed, MarkTBS, ReadLength, TakeBody, TakePair,
         PairsDone, Finish, Fail
<1> SUFFICES TypeOK'
  BY <1>1 DEF LengthFields
<1> DEFINE Errors == {"ErrTruncated", "ErrOversize", "ErrMalformed", "ErrTrailingBytes"}
<1>2. ASSUME NEW err \in Errors \cup {"ok"}, Fail(err) PROVE TypeOK'
  BY <1>1, <1>2 DEF Fail, TypeOK
<1>3. ASSUME NEW n \in Nat, need(n), pos' = pos + n, i' \in {i, i + 1},
             i <= Len(Layout(st)), left' \in Nat, inBody' \in BOOLEAN, tbs' = tbs,
             result' = result
      PROVE  TypeOK'
  <2>1. pos' \in 0 .. size' /\ tbs' \in 0 .. pos'
    BY <1>0, <1>1, <1>3 DEF need
  <2>2. i' \in 1 .. Len(Layout(st')) + 1
    BY <1>0, <1>1, <1>3
  <2> QED
    BY <1>1, <1>3, <2>1, <2>2 DEF TypeOK
<1>4. CASE TakeFixed
  <2>1. i \in 1 .. Len(Layout(st)) /\ field.kind = "take"
    BY <1>0, <1>4 DEF TakeFixed, Parsing
  <2>2. field.n \in Nat
    BY <2>1, Fields DEF field, TypeOK
  <2>3. CASE need(field.n)
    BY <1>3, <1>4, <2>1, <2>2, <2>3 DEF TakeFixed, TypeOK
  <2> QED
    BY <1>2, <1>4, <2>3 DEF TakeFixed
<1>5. CASE MarkTBS
  BY <1>0, <1>5 DEF MarkTBS, Parsing, TypeOK
<1>6. CASE ReadLength
  <2>1. i \in 1 .. Len(Layout(st)) /\ field.kind \in {"field", "pairs"}
    BY <1>0, <1>6 DEF ReadLength, Parsing
  <2>2. field.n \in Nat /\ lens[i] \in Nat
    BY <1>0, <2>1, Fields DEF field, TypeOK, LengthFields, HasLength
  <2>3. \/ \E err \in Errors : Fail(err)
        \/ /\ need(field.n) /\ pos' = pos + field.n /\ left' = lens[i]
           /\ inBody' = TRUE /\ UNCHANGED <<i, tbs, result>>
    BY <1>6 DEF ReadLength
  <2>4. CASE \E err \in Errors : Fail(err)
    BY <1>2, <2>4
  <2>5. CASE /\ need(field.n) /\ pos' = pos + field.n /\ left' = lens[i]
             /\ inBody' = TRUE /\ UNCHANGED <<i, tbs, result>>
    <3>1. i <= Len(Layout(st)) /\ i' \in {i, i + 1}
      BY <1>0, <2>1, <2>5
    <3>2. left' \in Nat /\ inBody' \in BOOLEAN
      BY <2>2, <2>5
    <3> HIDE DEF field
    <3> QED
      BY <1>3, <2>2, <2>5, <3>1, <3>2
  <2> QED
    BY <2>3, <2>4, <2>5
<1>7. CASE TakeBody
  <2>1. i \in 1 .. Len(Layout(st)) /\ field.kind = "field"
    BY <1>0, <1>7 DEF TakeBody, Parsing
  <2>2. field.unit \in Nat
    BY <2>1, Fields DEF field, TypeOK
  <2>3. left * field.unit \in Nat
    BY <1>0, <2>2
  <2>4. \/ Fail("ErrTruncated")
        \/ /\ need(left * field.unit) /\ pos' = pos + left * field.unit /\ i' = i + 1
           /\ inBody' = FALSE /\ UNCHANGED <<left, tbs, result>>
    BY <1>7 DEF TakeBody
  <2>5. CASE Fail("ErrTruncated")
    BY <1>2, <2>5
  <2>6. CASE /\ need(left * field.unit) /\ pos' = pos + left * field.unit /\ i' = i + 1
             /\ inBody' = FALSE /\ UNCHANGED <<left, tbs, result>>
    <3>1. i <= Len(Layout(st)) /\ i' \in {i, i + 1}
      BY <1>0, <2>1, <2>6
    <3>2. left' \in Nat /\ inBody' \in BOOLEAN
      BY <1>0, <2>6
    <3> DEFINE n == left * field.unit
    <3>3. n \in Nat /\ need(n) /\ pos' = pos + n /\ tbs' = tbs /\ result' = result
      BY <2>3, <2>6
    <3> HIDE DEF n
    <3> QED
      BY <1>3, <3>1, <3>2, <3>3
  <2> QED
    BY <2>4, <2>5, <2>6
<1>8. CASE TakePair
  <2>1. i <= Len(Layout(st)) /\ left > 0
    BY <1>8 DEF TakePair, Parsing
  <2>2. \/ \E err \in Errors : Fail(err)
        \/ /\ need(96) /\ pos' = pos + 96 /\ left' = left - 1
           /\ UNCHANGED <<i, inBody, tbs, result>>
    <3>1. LenPubkey + LenSig = 96 /\ pos + LenPubkey + LenSig = pos + 96
      BY <1>0 DEF LenPubkey, LenSig
    <3> QED
      BY <1>8, <3>1 DEF TakePair
  <2>3. CASE \E err \in Errors : Fail(err)
    BY <1>2, <2>3
  <2>4. CASE need(96) /\ pos' = pos + 96 /\ left' = left - 1
               /\ UNCHANGED <<i, inBody, tbs, result>>
    <3>1. left' \in Nat /\ inBody' \in BOOLEAN
      BY <1>0, <2>1, <2>4 DEF TypeOK
    <3> QED
      BY <1>3, <2>1, <2>4, <3>1
  <2> QED
    BY <2>2, <2>3, <2>4
<1>9. CASE PairsDone
  <2>1. i' = i + 1 /\ i <= Len(Layout(st)) /\ inBody' = FALSE
    BY <1>9 DEF PairsDone, Parsing
  <2>2. i' \in 1 .. Len(Layout(st')) + 1
    BY <1>0, <1>1, <2>1
  <2>3. UNCHANGED <<pos, left, tbs, result>>
    BY <1>9 DEF PairsDone
  <2> QED
    BY <1>1, <2>1, <2>2, <2>3 DEF TypeOK
<1>10. CASE Finish
  BY <1>2, <1>10 DEF Finish
<1>11. CASE UNCHANGED vars
  BY <1>11 DEF vars, TypeOK
<1> QED
  BY <1>4, <1>5, <1>6, <1>7, <1>8, <1>9, <1>10, <1>11 DEF Next, Returned

\* No parser of the wire package ever reads outside its buffer, whatever the
\* length fields claim.
THEOREM CursorInRange == Spec => []TypeOK
<1>1. CursorInv => TypeOK
  BY DEF CursorInv
<1> QED
  BY <1>1, CursorInit, CursorStep, PTL DEF Spec

-----------------------------------------------------------------------------
(* The parsers and the encoders agree.                                     *)

\* Where each field begins, and at the end the size of the whole: the sums
\* of the fields before it, written out.
Heads(s, l) ==
  CASE s = "span" ->
         <<0, 1, 17, 33, 35 + l[4], 36 + l[4], 37 + l[4], 69 + l[4], 77 + l[4],
           109 + l[4], 141 + l[4], 141 + l[4], 205 + l[4]>>
    [] s = "cert" ->
         <<0, 1, 2, 34, 66, 74, 82, 84 + l[7], 85 + l[7] + l[8] * 8,
           85 + l[7] + l[8] * 8, 86 + l[7] + l[8] * 8 + l[10] * 96>>
    [] s = "grant" ->
         <<0, 1, 17, 33, 65, 97, 129, 131 + l[7], 163 + l[7], 171 + l[7], 171 + l[7],
           235 + l[7]>>
    [] s = "envelope" ->
         <<0, 1, 33, 65, 73, 74 + l[5] * 32, 82 + l[5] * 32, 83 + l[5] * 32,
           87 + l[5] * 32 + l[8], 87 + l[5] * 32 + l[8], 151 + l[5] * 32 + l[8]>>
    [] s = "intent" ->
         <<0, 16, 18 + l[2], 22 + l[2] + l[3], 24 + l[2] + l[3] + l[4],
           24 + l[2] + l[3] + l[4]>>
    [] s = "refusal" -> <<0, 16, 18 + l[2], 18 + l[2], 82 + l[2]>>

\* A field begins where the one before it ends, and none lies past the end.
LEMMA HeadsStep ==
  ASSUME NEW s \in Structures, NEW l, \A j \in LengthFields(s) : l[j] \in Nat,
         NEW j \in 1 .. Len(Layout(s))
  PROVE  /\ Heads(s, l)[1] = 0
         /\ Heads(s, l)[j] \in Nat
         /\ Heads(s, l)[j + 1] \in Nat
         /\ Heads(s, l)[j + 1] = Heads(s, l)[j] + FieldSize(s, l, j)
         /\ Heads(s, l)[j + 1] <= Heads(s, l)[Len(Layout(s)) + 1]
<1> USE DEF Take, Field, Pairs, TBS, LenPubkey, LenSig, FieldSize, Heads, LengthFields, HasLength
<1>1. CASE s = "span"
  BY <1>1 DEF Layout, ParseSpan
<1>2. CASE s = "cert"
  <2>1. l[7] \in Nat /\ l[8] \in Nat /\ l[10] \in Nat
    BY <1>2 DEF Layout, ParseCert
  <2>2. j \in {1, 2, 3, 4, 5, 6} \/ j \in {7, 8} \/ j \in {9, 10}
    BY <1>2 DEF Layout, ParseCert
  <2>3. CASE j \in {1, 2, 3, 4, 5, 6}
    BY <1>2, <2>1, <2>3 DEF Layout, ParseCert
  <2>4. CASE j \in {7, 8}
    BY <1>2, <2>1, <2>4 DEF Layout, ParseCert
  <2>5. CASE j \in {9, 10}
    BY <1>2, <2>1, <2>5 DEF Layout, ParseCert
  <2> QED
    BY <2>2, <2>3, <2>4, <2>5
<1>3. CASE s = "grant"
  BY <1>3 DEF Layout, ParseGrant
<1>4. CASE s = "envelope"
  BY <1>4 DEF Layout, ParseEnvelope
<1>5. CASE s = "intent"
  BY <1>5 DEF Layout, ParseIntent
<1>6. CASE s = "refusal"
  BY <1>6 DEF Layout, ParseRefusal
<1> QED
  BY <1>1, <1>2, <1>3, <1>4, <1>5, <1>6, CodecAssumption

\* What ReadLength asks of the length of field j.
Bounded(s, l, j) ==
  /\ l[j] <= Layout(s)[j].max
  /\ Layout(s)[j].kind = "pairs" => l[j] >= 1

\* Every length is within its bound, and the CA keys ascend.
WithinBounds ==
  /\ \A j \in LengthFields(st) : Bounded(st, lens, j)
  /\ \A j \in LengthFields(st) : Layout(st)[j].kind = "pairs" => unsorted \notin 2 .. lens[j]

\* The encoders produce the sizes the layouts add up to, sign the part that
\* the layouts mark, and check the bounds that the parsers check (all but the
\* number of parents).
LEMMA EncoderAgrees ==
  ASSUME st \in Structures, \A j \in LengthFields(st) : lens[j] \in Nat,
         unsorted \in {0} \cup (2 .. MaxCASigs)
  PROVE  /\ Encoded.size = Heads(st, lens)[Len(Layout(st)) + 1]
         /\ \A j \in 1 .. Len(Layout(st)) :
              Layout(st)[j].kind = "tbs" => Encoded.tbs = Heads(st, lens)[j]
         /\ \E j \in 1 .. Len(Layout(st)) : Layout(st)[j].kind = "tbs"
         /\ WithinBounds => Encoded.ok
         /\ Encoded.ok /\ (st = "envelope" => lens[5] <= MaxParents) => WithinBounds
<1>1. CASE st = "span"
  <2>1. /\ Len(Layout(st)) = 12
        /\ \A j \in 1 .. 12 : Layout(st)[j].kind = "tbs" <=> j = 11
        /\ LengthFields(st) = {4}
        /\ Layout(st)[4].kind = "field" /\ Layout(st)[4].max = MaxResource
    BY <1>1 DEF Layout, ParseSpan, Take, Field, Pairs, TBS, LengthFields, HasLength
  <2>2. lens[4] \in Nat
    BY <2>1
  <2>3. Encoded = BuildSpan(lens)
    BY <1>1 DEF Encoded
  <2>4. /\ Encoded.size = 205 + lens[4]
        /\ Encoded.tbs = 141 + lens[4]
        /\ Encoded.ok <=> lens[4] <= MaxResource
    <3>1. /\ BuildSpan(lens).size = 205 + lens[4]
          /\ BuildSpan(lens).tbs = 141 + lens[4]
      BY <2>2 DEF BuildSpan, EncodeSpanTBS, LenPubkey, LenSig
    <3>2. BuildSpan(lens).ok <=> lens[4] <= MaxResource
      BY DEF BuildSpan
    <3> QED
      BY <2>3, <3>1, <3>2, Zenon
  <2>5. /\ Heads(st, lens)[13] = 205 + lens[4]
        /\ Heads(st, lens)[11] = 141 + lens[4]
    BY <1>1, <2>2 DEF Heads
  <2>6. WithinBounds <=> Encoded.ok
    BY <2>1, <2>2, <2>4 DEF WithinBounds, Bounded
  <2>7. 11 \in 1 .. Len(Layout(st)) /\ Len(Layout(st)) + 1 = 13
    BY <2>1
  <2> QED
    BY <1>1, <2>1, <2>4, <2>5, <2>6, <2>7
<1>2. CASE st = "cert"
  <2>1. /\ Len(Layout(st)) = 10
        /\ \A j \in 1 .. 10 : Layout(st)[j].kind = "tbs" <=> j = 9
        /\ LengthFields(st) = {7, 8, 10}
        /\ Layout(st)[7].kind = "field" /\ Layout(st)[7].max = MaxName
        /\ Layout(st)[8].kind = "field" /\ Layout(st)[8].max = MaxScope
        /\ Layout(st)[10].kind = "pairs" /\ Layout(st)[10].max = MaxCASigs
    BY <1>2 DEF Layout, ParseCert, Take, Field, Pairs, TBS, LengthFields, HasLength
  <2>2. lens[7] \in Nat /\ lens[8] \in Nat /\ lens[10] \in Nat
    BY <2>1
  <2>3. Encoded = AppendCertSignatures(lens, unsorted)
    BY <1>2 DEF Encoded
  <2>4. /\ Encoded.size = 86 + lens[7] + lens[8] * 8 + lens[10] * 96
        /\ Encoded.tbs = 85 + lens[7] + lens[8] * 8
        /\ Encoded.ok <=> lens[7] <= MaxName /\ lens[8] <= MaxScope
                            /\ lens[10] \in 1 .. MaxCASigs /\ unsorted \notin 2 .. lens[10]
    <3>1. /\ AppendCertSignatures(lens, unsorted).size = 86 + lens[7] + lens[8] * 8 + lens[10] * 96
          /\ AppendCertSignatures(lens, unsorted).tbs = 85 + lens[7] + lens[8] * 8
      BY <2>2 DEF AppendCertSignatures, EncodeCertTBS, LenPubkey, LenSig
    <3>2. AppendCertSignatures(lens, unsorted).ok <=> lens[7] <= MaxName /\ lens[8] <= MaxScope
                            /\ lens[10] \in 1 .. MaxCASigs /\ unsorted \notin 2 .. lens[10]
      BY DEF AppendCertSignatures
    <3> QED
      BY <2>3, <3>1, <3>2, Zenon
  <2>5. /\ Heads(st, lens)[11] = 86 + lens[7] + lens[8] * 8 + lens[10] * 96
        /\ Heads(st, lens)[9] = 85 + lens[7] + lens[8] * 8
    BY <1>2, <2>2 DEF Heads
  <2>6. WithinBounds <=> Encoded.ok
    BY <2>1, <2>2, <2>4 DEF WithinBounds, Bounded, MaxCASigs
  <2>7. 9 \in 1 .. Len(Layout(st)) /\ Len(Layout(st)) + 1 = 11
    BY <2>1
  <2>8. Encoded.size = Heads(st, lens)[Len(Layout(st)) + 1] /\ Encoded.tbs = Heads(st, lens)[9]
    BY <2>4, <2>5, <2>7, Zenon
  <2>9. \A j \in 1 .. Len(Layout(st)) :
          Layout(st)[j].kind = "tbs" => Encoded.tbs = Heads(st, lens)[j]
    BY <2>1, <2>8
  <2>10. \E j \in 1 .. Len(Layout(st)) : Layout(st)[j].kind = "tbs"
    BY <2>1, <2>7
  <2> QED
    BY <2>6, <2>8, <2>9, <2>10, Zenon
<1>3. CASE st = "grant"
  <2>1. /\ Len(Layout(st)) = 11
        /\ \A j \in 1 .. 11 : Layout(st)[j].kind = "tbs" <=> j = 10
        /\ LengthFields(st) = {7}
        /\ Layout(st)[7].kind = "field" /\ Layout(st)[7].max = MaxResource
    BY <1>3 DEF Layout, ParseGrant, Take, Field, Pairs, TBS, LengthFields, HasLength
  <2>2. lens[7] \in Nat
    BY <2>1
  <2>3. Encoded = EncodeGrantTBS(lens)
    BY <1>3 DEF Encoded
  <2>4. /\ Encoded.size = 235 + lens[7]
        /\ Encoded.tbs = 171 + lens[7]
        /\ Encoded.ok <=> lens[7] <= MaxResource
    <3>1. /\ EncodeGrantTBS(lens).size = 235 + lens[7]
          /\ EncodeGrantTBS(lens).tbs = 171 + lens[7]
      BY <2>2 DEF EncodeGrantTBS, LenPubkey, LenSig
    <3>2. EncodeGrantTBS(lens).ok <=> lens[7] <= MaxResource
      BY DEF EncodeGrantTBS
    <3> QED
      BY <2>3, <3>1, <3>2, Zenon
  <2>5. /\ Heads(st, lens)[12] = 235 + lens[7]
        /\ Heads(st, lens)[10] = 171 + lens[7]
    BY <1>3, <2>2 DEF Heads
  <2>6. WithinBounds <=> Encoded.ok
    BY <2>1, <2>2, <2>4 DEF WithinBounds, Bounded
  <2>7. 10 \in 1 .. Len(Layout(st)) /\ Len(Layout(st)) + 1 = 12
    BY <2>1
  <2> QED
    BY <1>3, <2>1, <2>4, <2>5, <2>6, <2>7
<1>4. CASE st = "envelope"
  <2>1. /\ Len(Layout(st)) = 10
        /\ \A j \in 1 .. 10 : Layout(st)[j].kind = "tbs" <=> j = 9
        /\ LengthFields(st) = {5, 8}
        /\ Layout(st)[5].kind = "field" /\ Layout(st)[5].max = MaxParents
        /\ Layout(st)[8].kind = "field" /\ Layout(st)[8].max = MaxBody
    BY <1>4 DEF Layout, ParseEnvelope, Take, Field, Pairs, TBS, LengthFields, HasLength
  <2>2. lens[5] \in Nat /\ lens[8] \in Nat
    BY <2>1
  <2>3. Encoded = BuildSignedEnvelope(lens)
    BY <1>4 DEF Encoded
  <2>4. /\ Encoded.size = 151 + lens[5] * 32 + lens[8]
        /\ Encoded.tbs = 87 + lens[5] * 32 + lens[8]
        /\ Encoded.ok <=> lens[5] <= 255 /\ lens[8] <= MaxBody
    <3>1. /\ BuildSignedEnvelope(lens).size = 151 + lens[5] * 32 + lens[8]
          /\ BuildSignedEnvelope(lens).tbs = 87 + lens[5] * 32 + lens[8]
      BY <2>2 DEF BuildSignedEnvelope, LenPubkey, LenSig
    <3>2. BuildSignedEnvelope(lens).ok <=> lens[5] <= 255 /\ lens[8] <= MaxBody
      BY DEF BuildSignedEnvelope
    <3> QED
      BY <2>3, <3>1, <3>2, Zenon
  <2>5. /\ Heads(st, lens)[11] = 151 + lens[5] * 32 + lens[8]
        /\ Heads(st, lens)[9] = 87 + lens[5] * 32 + lens[8]
    BY <1>4, <2>2 DEF Heads
  <2>6. WithinBounds <=> Encoded.ok /\ lens[5] <= MaxParents
    BY <2>1, <2>2, <2>4 DEF WithinBounds, Bounded, MaxParents
  <2>7. 9 \in 1 .. Len(Layout(st)) /\ Len(Layout(st)) + 1 = 11
    BY <2>1
  <2> QED
    BY <1>4, <2>1, <2>4, <2>5, <2>6, <2>7
<1>5. CASE st = "intent"
  <2>1. /\ Len(Layout(st)) = 5
        /\ \A j \in 1 .. 5 : Layout(st)[j].kind = "tbs" <=> j = 5
        /\ LengthFields(st) = {2, 3, 4}
        /\ Layout(st)[2].kind = "field" /\ Layout(st)[2].max = MaxResource
        /\ Layout(st)[3].kind = "field" /\ Layout(st)[3].max = MaxAction
        /\ Layout(st)[4].kind = "field" /\ Layout(st)[4].max = MaxRationale
    BY <1>5 DEF Layout, ParseIntent, Take, Field, Pairs, TBS, LengthFields, HasLength
  <2>2. lens[2] \in Nat /\ lens[3] \in Nat /\ lens[4] \in Nat
    BY <2>1
  <2>3. Encoded = EncodeIntentBody(lens)
    BY <1>5 DEF Encoded
  <2>4. /\ Encoded.size = 24 + lens[2] + lens[3] + lens[4]
        /\ Encoded.tbs = 24 + lens[2] + lens[3] + lens[4]
        /\ Encoded.ok <=> lens[2] <= MaxResource /\ lens[3] <= MaxAction
                            /\ lens[4] <= MaxRationale
    <3>1. /\ EncodeIntentBody(lens).size = 24 + lens[2] + lens[3] + lens[4]
          /\ EncodeIntentBody(lens).tbs = 24 + lens[2] + lens[3] + lens[4]
      BY <2>2 DEF EncodeIntentBody, LenPubkey, LenSig
    <3>2. EncodeIntentBody(lens).ok <=> lens[2] <= MaxResource /\ lens[3] <= MaxAction
                            /\ lens[4] <= MaxRationale
      BY DEF EncodeIntentBody
    <3> QED
      BY <2>3, <3>1, <3>2, Zenon
  <2>5. /\ Heads(st, lens)[6] = 24 + lens[2] + lens[3] + lens[4]
        /\ Heads(st, lens)[5] = 24 + lens[2] + lens[3] + lens[4]
    BY <1>5, <2>2 DEF Heads
  <2>6. WithinBounds <=> Encoded.ok
    BY <2>1, <2>2, <2>4 DEF WithinBounds, Bounded
  <2>7. 5 \in 1 .. Len(Layout(st)) /\ Len(Layout(st)) + 1 = 6
    BY <2>1
  <2> QED
    BY <1>5, <2>1, <2>4, <2>5, <2>6, <2>7
<1>6. CASE st = "refusal"
  <2>1. /\ Len(Layout(st)) = 4
        /\ \A j \in 1 .. 4 : Layout(st)[j].kind = "tbs" <=> j = 3
        /\ LengthFields(st) = {2}
        /\ Layout(st)[2].kind = "field" /\ Layout(st)[2].max = MaxNote
    BY <1>6 DEF Layout, ParseRefusal, Take, Field, Pairs, TBS, LengthFields, HasLength
  <2>2. lens[2] \in Nat
    BY <2>1
  <2>3. Encoded = RefusalLayout(lens)
    BY <1>6 DEF Encoded
  <2>4. /\ Encoded.size = 82 + lens[2]
        /\ Encoded.tbs = 18 + lens[2]
        /\ Encoded.ok <=> lens[2] <= MaxNote
    <3>1. /\ RefusalLayout(lens).size = 82 + lens[2]
          /\ RefusalLayout(lens).tbs = 18 + lens[2]
      BY <2>2 DEF RefusalLayout, LenPubkey, LenSig
    <3>2. RefusalLayout(lens).ok <=> lens[2] <= MaxNote
      BY DEF RefusalLayout
    <3> QED
      BY <2>3, <3>1, <3>2, Zenon
  <2>5. /\ Heads(st, lens)[5] = 82 + lens[2]
        /\ Heads(st, lens)[3] = 18 + lens[2]
    BY <1>6, <2>2 DEF Heads
  <2>6. WithinBounds <=> Encoded.ok
    BY <2>1, <2>2, <2>4 DEF WithinBounds, Bounded
  <2>7. 3 \in 1 .. Len(Layout(st)) /\ Len(Layout(st)) + 1 = 5
    BY <2>1
  <2> QED
    BY <1>6, <2>1, <2>4, <2>5, <2>6, <2>7
<1> QED
  BY <1>1, <1>2, <1>3, <1>4, <1>5, <1>6, CodecAssumption

\* The sizes of the fields, kind by kind; only CA pairs have kind "pairs".
LEMMA FieldSizes ==
  ASSUME NEW s \in Structures, NEW l, \A j \in LengthFields(s) : l[j] \in Nat,
         NEW j \in 1 .. Len(Layout(s))
  PROVE  LET f == Layout(s)[j]
         IN  /\ f.kind = "take" => FieldSize(s, l, j) = f.n
             /\ f.kind = "tbs" => FieldSize(s, l, j) = 0
             /\ f.kind = "field" => FieldSize(s, l, j) = f.n + l[j] * f.unit
             /\ f.kind = "pairs" => /\ FieldSize(s, l, j) = 1 + l[j] * 96
                                    /\ f.n = 1
             /\ f.kind \in {"field", "pairs"} <=> j \in LengthFields(s)
<1> DEFINE f == Layout(s)[j]
<1>1. f.kind \in {"field", "pairs"} <=> j \in LengthFields(s)
  BY LayoutLen DEF LengthFields, HasLength
<1>2. f.kind = "pairs" => f.n = 1 /\ f.unit = 96
  <2> USE DEF Take, Field, Pairs, TBS, LenPubkey, LenSig
  <2>1. CASE s = "span"
    BY <2>1 DEF Layout, ParseSpan
  <2>2. CASE s = "cert"
    BY <2>2 DEF Layout, ParseCert
  <2>3. CASE s = "grant"
    BY <2>3 DEF Layout, ParseGrant
  <2>4. CASE s = "envelope"
    BY <2>4 DEF Layout, ParseEnvelope
  <2>5. CASE s = "intent"
    BY <2>5 DEF Layout, ParseIntent
  <2>6. CASE s = "refusal"
    BY <2>6 DEF Layout, ParseRefusal
  <2> QED
    BY <2>1, <2>2, <2>3, <2>4, <2>5, <2>6, CodecAssumption
<1> HIDE DEF f
<1> QED
  BY <1>1, <1>2 DEF FieldSize, f

\* The cursor is where the layout puts it; every length already read is
\* within its bound; the CA keys already taken ascend; the signed part ends
\* where the layout marks it.
Follow ==
  /\ ~inBody => pos = Heads(st, lens)[i]
  /\ inBody =>
       /\ i <= Len(Layout(st))
       /\ Bounded(st, lens, i)
       /\ \/ /\ field.kind = "field"
             /\ left = lens[i]
             /\ pos = Heads(st, lens)[i] + field.n
          \/ /\ field.kind = "pairs"
             /\ left <= lens[i]
             /\ pos = Heads(st, lens)[i] + 1 + (lens[i] - left) * 96
             /\ unsorted \notin 2 .. lens[i] - left
  /\ \A j \in LengthFields(st) :
       j < i => /\ Bounded(st, lens, j)
                /\ Layout(st)[j].kind = "pairs" => unsorted \notin 2 .. lens[j]
  /\ \A j \in 1 .. Len(Layout(st)) :
       Layout(st)[j].kind = "tbs" /\ j < i => tbs = Heads(st, lens)[j]

\* A parser that ran out of bytes did so inside field i: the buffer ends before
\* the next field, and before the length of field i unless that has been read.
Cut ==
  result = "ErrTruncated" =>
    /\ i <= Len(Layout(st))
    /\ size < Heads(st, lens)[i + 1]
    /\ i \in LengthFields(st) /\ ~inBody => size < Heads(st, lens)[i] + field.n

\* The inductive invariant for the agreement of parsers and encoders.
ParseInv ==
  /\ CursorInv
  /\ unsorted \in {0} \cup (2 .. MaxCASigs)
  /\ Follow
  /\ Cut
  /\ result = "ok" => i = Len(Layout(st)) + 1 /\ pos = size
  /\ EncodingAccepted

\* Parsing starts at the head of the first field.
LEMMA ParseInit == Init => ParseInv
<1> SUFFICES ASSUME Init PROVE ParseInv
  OBVIOUS
<1>1. CursorInv
  BY CursorInit
<1>2. i = 1 /\ pos = 0 /\ ~inBody /\ result = "none" /\ unsorted \in {0} \cup (2 .. MaxCASigs)
  BY DEF Init
<1>3. 1 \in 1 .. Len(Layout(st)) /\ Len(Layout(st)) \in Nat
  BY <1>1, LayoutLen DEF CursorInv, TypeOK
<1>4. Heads(st, lens)[1] = 0
  BY <1>1, <1>3, HeadsStep DEF CursorInv, TypeOK
<1>5. \A j \in LengthFields(st) : ~(j < 1)
  BY <1>1, LayoutLen DEF LengthFields, CursorInv, TypeOK
<1>6. Follow
  BY <1>2, <1>3, <1>4, <1>5 DEF Follow
<1> QED
  BY <1>1, <1>2, <1>6 DEF ParseInv, EncodingAccepted, Cut

\* A buffer that is an encoding is never refused: at each of its refusals
\* the parser finds the bytes, the bound and the order it asks for.
LEMMA NoRefusal ==
  ASSUME ParseInv, result = "none",
         Encoded.ok, size = Encoded.size, st = "envelope" => lens[5] <= MaxParents
  PROVE  /\ Parsing({"take"}) => need(field.n)
         /\ Parsing({"field", "pairs"}) /\ ~inBody => need(field.n) /\ Bounded(st, lens, i)
         /\ Parsing({"field"}) /\ inBody => need(left * field.unit)
         /\ Parsing({"pairs"}) /\ inBody /\ left > 0 =>
              need(32) /\ need(96) /\ lens[i] - left + 1 # unsorted
         /\ i > Len(Layout(st)) => pos = size
<1> DEFINE N == Len(Layout(st))
           H == Heads(st, lens)
<1>1. /\ st \in Structures /\ N \in Nat /\ i \in 1 .. N + 1
      /\ size \in Nat /\ pos \in Nat /\ left \in Nat
      /\ \A j \in LengthFields(st) : lens[j] \in Nat
      /\ unsorted \in {0} \cup (2 .. MaxCASigs)
      /\ Follow
  BY LayoutLen DEF ParseInv, CursorInv, TypeOK
<1>2. WithinBounds /\ size = H[N + 1]
  BY <1>1, EncoderAgrees
<1>3. CASE i > N
  <2>1. i = N + 1 /\ ~inBody
    BY <1>1, <1>3 DEF Follow
  <2>2. pos = size
    BY <1>1, <1>2, <2>1 DEF Follow
  <2>3. ~(i <= N)
    BY <1>1, <1>3
  <2> QED
    BY <2>2, <2>3 DEF Parsing
<1>4. CASE i <= N
  <2>1. i \in 1 .. N
    BY <1>1, <1>4
  <2> DEFINE fs == FieldSize(st, lens, i)
  <2>2. /\ H[i] \in Nat /\ H[i + 1] = H[i] + fs /\ H[i + 1] <= size
    BY <1>1, <1>2, <2>1, HeadsStep
  <2>3. /\ field.kind = "take" => fs = field.n
        /\ field.kind = "field" => fs = field.n + lens[i] * field.unit
        /\ field.kind = "pairs" => fs = 1 + lens[i] * 96 /\ field.n = 1
        /\ field.kind \in {"field", "pairs"} => i \in LengthFields(st)
    BY <1>1, <2>1, FieldSizes DEF field
  <2>4. /\ field.kind \in {"take", "field", "pairs"} => field.n \in Nat
        /\ field.kind \in {"field", "pairs"} => field.unit \in Nat /\ lens[i] \in Nat
    BY <1>1, <2>1, <2>3, Fields DEF field
  <2> HIDE DEF N, H, fs
  <2>5. Parsing({"take"}) => need(field.n)
    <3> SUFFICES ASSUME field.kind = "take" PROVE need(field.n)
      BY DEF Parsing
    <3>1. ~inBody
      BY <1>1 DEF Follow
    <3>2. pos = H[i]
      BY <1>1, <3>1 DEF Follow, H
    <3> HIDE DEF field
    <3> QED
      BY <1>1, <2>2, <2>3, <2>4, <3>2 DEF need
  <2>6. Parsing({"field", "pairs"}) /\ ~inBody => need(field.n) /\ Bounded(st, lens, i)
    <3> SUFFICES ASSUME field.kind \in {"field", "pairs"}, ~inBody
                 PROVE  need(field.n) /\ Bounded(st, lens, i)
      BY DEF Parsing
    <3>1. pos = H[i]
      BY <1>1 DEF Follow, H
    <3>2. Bounded(st, lens, i)
      BY <1>2, <2>3 DEF WithinBounds
    <3>3. PICK prod : prod = lens[i] * field.unit
      OBVIOUS
    <3>4. prod \in Nat
      BY <2>4, <3>3
    <3> HIDE DEF field
    <3>5. field.n <= fs /\ fs \in Nat
      BY <2>3, <2>4, <3>3, <3>4
    <3>6. need(field.n)
      BY <1>1, <2>2, <2>4, <3>1, <3>5 DEF need
    <3> QED
      BY <3>2, <3>6
  <2>7. Parsing({"field"}) /\ inBody => need(left * field.unit)
    <3> SUFFICES ASSUME field.kind = "field", inBody PROVE need(left * field.unit)
      BY DEF Parsing
    <3>1. pos = H[i] + field.n /\ left = lens[i]
      BY <1>1 DEF Follow, H
    <3>2. PICK prod : prod = lens[i] * field.unit
      OBVIOUS
    <3>3. prod \in Nat /\ fs = field.n + prod /\ field.n \in Nat
      BY <2>3, <2>4, <3>2
    <3>4. need(prod)
      <4> HIDE DEF field
      <4> QED
        BY <1>1, <2>2, <3>1, <3>3 DEF need
    <3> QED
      BY <3>1, <3>2, <3>4
  <2>8. Parsing({"pairs"}) /\ inBody /\ left > 0 =>
          need(32) /\ need(96) /\ lens[i] - left + 1 # unsorted
    <3> SUFFICES ASSUME field.kind = "pairs", inBody, left > 0
                 PROVE  need(32) /\ need(96) /\ lens[i] - left + 1 # unsorted
      BY DEF Parsing
    <3>1. pos = H[i] + 1 + (lens[i] - left) * 96 /\ left <= lens[i]
      BY <1>1 DEF Follow, H
    <3>2. unsorted \notin 2 .. lens[i]
      BY <1>2, <2>3 DEF WithinBounds, field
    <3>3. fs = 1 + lens[i] * 96 /\ lens[i] \in Nat
      BY <2>3, <2>4
    <3> HIDE DEF field
    <3>4. need(32) /\ need(96)
      BY <1>1, <2>2, <3>1, <3>3 DEF need
    <3>5. lens[i] - left + 1 # unsorted
      BY <1>1, <3>1, <3>2, <3>3 DEF MaxCASigs
    <3> QED
      BY <3>4, <3>5
  <2>9. ~(i > Len(Layout(st)))
    BY <1>1, <1>4 DEF N
  <2> QED
    BY <2>5, <2>6, <2>7, <2>8, <2>9
<1> QED
  BY <1>1, <1>3, <1>4

\* A layout marks the end of the signed part once.
LEMMA OneTBS ==
  ASSUME NEW s \in Structures, NEW j \in 1 .. Len(Layout(s)), NEW k \in 1 .. Len(Layout(s)),
         Layout(s)[j].kind = "tbs", Layout(s)[k].kind = "tbs"
  PROVE  j = k
<1> USE DEF Take, Field, Pairs, TBS
<1>1. CASE s = "span"
  BY <1>1 DEF Layout, ParseSpan
<1>2. CASE s = "cert"
  BY <1>2 DEF Layout, ParseCert
<1>3. CASE s = "grant"
  BY <1>3 DEF Layout, ParseGrant
<1>4. CASE s = "envelope"
  BY <1>4 DEF Layout, ParseEnvelope
<1>5. CASE s = "intent"
  BY <1>5 DEF Layout, ParseIntent
<1>6. CASE s = "refusal"
  BY <1>6 DEF Layout, ParseRefusal
<1> QED
  BY <1>1, <1>2, <1>3, <1>4, <1>5, <1>6, CodecAssumption

\* The bound of a length is a natural, and four for the CA pairs.
LEMMA PairsMax ==
  ASSUME NEW s \in Structures, NEW j \in 1 .. Len(Layout(s)),
         Layout(s)[j].kind \in {"field", "pairs"}
  PROVE  Layout(s)[j].max \in Nat /\ (Layout(s)[j].kind = "pairs" => Layout(s)[j].max = 4)
<1> USE SMT DEF Take, Field, Pairs, TBS, MaxCASigs, MaxResource, MaxName, MaxScope,
            MaxParents, MaxRationale, MaxNote
<1>1. CASE s = "span"
  BY <1>1 DEF Layout, ParseSpan
<1>2. CASE s = "cert"
  BY <1>2 DEF Layout, ParseCert
<1>3. CASE s = "grant"
  BY <1>3 DEF Layout, ParseGrant
<1>4. CASE s = "envelope"
  BY <1>4 DEF Layout, ParseEnvelope, MaxBody
<1>5. CASE s = "intent"
  BY <1>5 DEF Layout, ParseIntent, MaxAction
<1>6. CASE s = "refusal"
  BY <1>6 DEF Layout, ParseRefusal
<1> QED
  BY <1>1, <1>2, <1>3, <1>4, <1>5, <1>6, CodecAssumption

\* Every step keeps parser and layout together.
LEMMA ParseStep == ParseInv /\ [Next]_vars => ParseInv'
<1> SUFFICES ASSUME ParseInv, [Next]_vars PROVE ParseInv'
  OBVIOUS
<1> DEFINE N == Len(Layout(st))
           H == Heads(st, lens)
<1>1. CursorInv'
  BY CursorStep DEF ParseInv
<1>2. st' = st /\ lens' = lens /\ size' = size /\ unsorted' = unsorted
  BY DEF vars, input, Next, Returned, TakeFixed, MarkTBS, ReadLength, TakeBody, TakePair,
         PairsDone, Finish, Fail
<1>3. /\ st \in Structures /\ N \in Nat /\ i \in 1 .. N + 1
      /\ size \in Nat /\ pos \in Nat /\ left \in Nat /\ inBody \in BOOLEAN
      /\ \A j \in LengthFields(st) : lens[j] \in Nat
      /\ \A j \in LengthFields(st) : j \in 1 .. N
      /\ unsorted \in {0} \cup (2 .. MaxCASigs)
  BY LayoutLen DEF ParseInv, CursorInv, TypeOK, LengthFields
<1>4. Encoded' = Encoded
  BY <1>2 DEF Encoded
\* Nothing but the result changes in a refusal.
<1>5. ASSUME NEW err \in {"ErrTruncated", "ErrOversize", "ErrMalformed", "ErrTrailingBytes"},
             Fail(err),
             ~(/\ Encoded.ok /\ size = Encoded.size
               /\ st = "envelope" => lens[5] <= MaxParents),
             err = "ErrTruncated" =>
               /\ i <= N /\ size < H[i + 1]
               /\ i \in LengthFields(st) /\ ~inBody => size < H[i] + field.n
      PROVE  ParseInv'
  <2>1. /\ i' = i /\ pos' = pos /\ left' = left /\ inBody' = inBody /\ tbs' = tbs
        /\ result' = err
    BY <1>5 DEF Fail
  <2>2. Follow' <=> Follow
    BY <1>2, <2>1 DEF Follow, Bounded, field
  <2>3. Cut'
    BY <1>2, <1>5, <2>1 DEF Cut, field
  <2>4. EncodingAccepted'
    BY <1>2, <1>4, <1>5 DEF EncodingAccepted
  <2> QED
    BY <1>1, <1>2, <1>3, <2>1, <2>2, <2>3, <2>4 DEF ParseInv
\* Any other step of the parser has to keep Follow.
<1>6. ASSUME result' = "none", Follow' PROVE ParseInv'
  BY <1>1, <1>2, <1>3, <1>6 DEF ParseInv, EncodingAccepted, Cut
\* A step over the whole of field i, from its head to the next.
<1>7. ASSUME i <= N, result = "none", result' = "none", i' = i + 1, inBody' = FALSE,
             pos' = H[i + 1],
             i \in LengthFields(st) =>
               /\ Bounded(st, lens, i)
               /\ Layout(st)[i].kind = "pairs" => unsorted \notin 2 .. lens[i],
             \A j \in 1 .. N : Layout(st)[j].kind = "tbs" /\ j < i + 1 => tbs' = H[j]
      PROVE  ParseInv'
  <2>1. Follow
    BY <1>7 DEF ParseInv
  <2>2. Heads(st', lens') = H /\ LengthFields(st') = LengthFields(st) /\ Layout(st') = Layout(st)
    BY <1>2
  <2>3. \A j \in LengthFields(st) : j < i + 1 =>
          /\ Bounded(st, lens, j)
          /\ Layout(st)[j].kind = "pairs" => unsorted \notin 2 .. lens[j]
    <3> SUFFICES ASSUME NEW j \in LengthFields(st), j < i + 1
                 PROVE  /\ Bounded(st, lens, j)
                        /\ Layout(st)[j].kind = "pairs" => unsorted \notin 2 .. lens[j]
      OBVIOUS
    <3>1. j < i \/ j = i
      BY <1>3
    <3> QED
      BY <1>7, <2>1, <3>1 DEF Follow
  <2>4. \A j : Bounded(st, lens, j)' <=> Bounded(st, lens, j)
    BY <1>2 DEF Bounded
  <2>5. Follow'
    BY <1>2, <1>7, <2>2, <2>3, <2>4 DEF Follow
  <2> QED
    BY <1>6, <1>7, <2>5
\* What is known of the field the parser is at.
<1>8. ASSUME result = "none", i <= N
      PROVE  /\ Follow /\ i \in 1 .. N
             /\ H[i] \in Nat /\ H[i + 1] = H[i] + FieldSize(st, lens, i)
             /\ field.kind = "take" => FieldSize(st, lens, i) = field.n /\ field.n \in Nat
             /\ field.kind = "tbs" => FieldSize(st, lens, i) = 0
             /\ field.kind = "field" => FieldSize(st, lens, i) = field.n + lens[i] * field.unit
             /\ field.kind = "pairs" => FieldSize(st, lens, i) = 1 + lens[i] * 96 /\ field.n = 1
             /\ field.kind \in {"field", "pairs"} <=> i \in LengthFields(st)
             /\ field.kind \in {"field", "pairs"} =>
                  field.n \in Nat /\ field.unit \in Nat /\ lens[i] \in Nat
  <2>1. i \in 1 .. N /\ Follow
    BY <1>3, <1>8 DEF ParseInv
  <2>2. H[i] \in Nat /\ H[i + 1] = H[i] + FieldSize(st, lens, i)
    BY <1>3, <2>1, HeadsStep
  <2> QED
    BY <1>3, <2>1, <2>2, FieldSizes, Fields DEF field
<1>9. CASE TakeFixed
  <2>1. result = "none" /\ i <= N /\ field.kind = "take" /\ Parsing({"take"})
    BY <1>9 DEF TakeFixed, Parsing
  <2>2. CASE need(field.n)
    <3>1. /\ pos' = pos + field.n /\ i' = i + 1 /\ inBody' = inBody /\ tbs' = tbs
          /\ result' = "none"
      BY <1>9, <2>1, <2>2 DEF TakeFixed
    <3>2. ~inBody /\ pos = H[i] /\ i \notin LengthFields(st)
      BY <1>8, <2>1 DEF Follow
    <3>3. pos' = H[i + 1]
      BY <1>8, <2>1, <3>1, <3>2
    <3>4. \A j \in 1 .. N : Layout(st)[j].kind = "tbs" /\ j < i + 1 => tbs' = H[j]
      <4> SUFFICES ASSUME NEW j \in 1 .. N, Layout(st)[j].kind = "tbs", j < i + 1
                   PROVE  tbs' = H[j]
        OBVIOUS
      <4>1. j # i
        BY <2>1 DEF field
      <4>2. j < i
        BY <1>3, <4>1
      <4> QED
        BY <1>8, <2>1, <3>1, <4>2 DEF Follow
    <3>5. inBody' = FALSE
      BY <1>3, <3>1, <3>2
    <3> QED
      BY <1>7, <2>1, <3>1, <3>2, <3>3, <3>4, <3>5
  <2>3. CASE ~need(field.n)
    <3>1. Fail("ErrTruncated")
      BY <1>9, <2>3 DEF TakeFixed
    <3>2. pos = H[i] /\ i \notin LengthFields(st)
      BY <1>8, <2>1 DEF Follow
    <3>3. size < H[i + 1]
      BY <1>3, <1>8, <2>1, <2>3, <3>2 DEF need
    <3> QED
      BY <1>5, <2>1, <2>3, <3>1, <3>2, <3>3, NoRefusal
  <2> QED
    BY <2>2, <2>3
<1>10. CASE MarkTBS
  <2>1. /\ result = "none" /\ i <= N /\ field.kind = "tbs"
        /\ tbs' = pos /\ i' = i + 1 /\ pos' = pos /\ inBody' = inBody /\ result' = "none"
    BY <1>10 DEF MarkTBS, Parsing
  <2>2. ~inBody /\ pos = H[i] /\ i \notin LengthFields(st)
    BY <1>8, <2>1 DEF Follow
  <2>3. pos' = H[i + 1] /\ tbs' = H[i]
    BY <1>8, <2>1, <2>2
  <2>4. \A j \in 1 .. N : Layout(st)[j].kind = "tbs" => j = i
    BY <1>3, <2>1, OneTBS DEF field
  <2>5. inBody' = FALSE
    BY <1>3, <2>1, <2>2
  <2> QED
    BY <1>7, <2>1, <2>2, <2>3, <2>4, <2>5
<1>11. CASE ReadLength
  <2>1. /\ result = "none" /\ i <= N /\ field.kind \in {"field", "pairs"} /\ ~inBody
        /\ Parsing({"field", "pairs"})
    BY <1>11 DEF ReadLength, Parsing
  <2>2. CASE need(field.n) /\ Bounded(st, lens, i)
    <3>1. lens[i] <= field.max /\ (field.kind = "pairs" => lens[i] \in 1 .. field.max)
      <4>1. field.kind = "pairs" => field.max = 4
        BY <1>3, <1>8, <2>1, PairsMax DEF field
      <4> QED
        BY <1>8, <2>1, <2>2, <4>1 DEF Bounded, field
    <3>2. /\ pos' = pos + field.n /\ left' = lens[i] /\ inBody' = TRUE
          /\ i' = i /\ tbs' = tbs /\ result' = "none"
      <4>1. ~(field.kind = "field" /\ lens[i] > field.max)
        <5>1. field.max \in Nat
          BY <1>3, <1>8, <2>1, PairsMax DEF field
        <5> HIDE DEF field
        <5> QED
          BY <1>8, <2>1, <3>1, <5>1
      <4> QED
        BY <1>11, <2>1, <2>2, <3>1, <4>1 DEF ReadLength
    <3>3. Follow'
      <4>1. /\ Heads(st', lens') = H /\ LengthFields(st') = LengthFields(st)
            /\ Layout(st') = Layout(st) /\ field' = field
        BY <1>2, <3>2 DEF field
      <4>2. \A j : Bounded(st, lens, j)' <=> Bounded(st, lens, j)
        BY <1>2 DEF Bounded
      <4>3. pos' = H[i] + field.n
        BY <1>8, <2>1, <3>2 DEF Follow
      <4>4. unsorted' \notin 2 .. lens'[i'] - left' /\ left' <= lens'[i']
            /\ (lens'[i'] - left') * 96 = 0
        BY <1>2, <1>3, <1>8, <2>1, <3>2
      <4>5. Bounded(st, lens, i)'
        BY <1>2, <2>2, <3>2 DEF Bounded
      <4>6. field.kind = "pairs" => pos' = H[i] + 1 + (lens'[i'] - left') * 96
        BY <1>8, <2>1, <4>3, <4>4
      <4>7. Follow
        BY <1>8, <2>1
      <4> QED
        BY <1>2, <2>1, <3>2, <4>1, <4>2, <4>3, <4>4, <4>5, <4>6, <4>7 DEF Follow
    <3> QED
      BY <1>6, <3>2, <3>3
  <2>3. CASE ~(need(field.n) /\ Bounded(st, lens, i))
    <3> DEFINE Short == size < H[i + 1] /\ size < H[i] + field.n
    <3>1. \/ Fail("ErrTruncated") /\ Short
          \/ Fail("ErrOversize")
          \/ Fail("ErrMalformed")
      <4>1. field.kind = "pairs" => field.max = 4
        BY <1>3, <1>8, <2>1, PairsMax DEF field
      <4>2. field.max \in Nat /\ lens[i] \in Nat
        BY <1>3, <1>8, <2>1, PairsMax DEF field
      <4>3. CASE ~need(field.n)
        <5>1. Fail("ErrTruncated")
          BY <1>11, <4>3 DEF ReadLength
        <5>2. PICK prod : prod = lens[i] * field.unit
          OBVIOUS
        <5>3. prod \in Nat
          BY <1>8, <2>1, <5>2
        <5>4. PICK h \in Nat : h = H[i]
          BY <1>8, <2>1
        <5>5. PICK fs \in Nat : H[i + 1] = h + fs /\ field.n <= fs
          <6>1. PICK fs : fs = FieldSize(st, lens, i)
            OBVIOUS
          <6>2. H[i + 1] = h + fs
            BY <1>8, <2>1, <5>4, <6>1
          <6>3. fs \in Nat /\ field.n <= fs
            BY <1>8, <2>1, <5>2, <5>3, <6>1, SMTT(60)
          <6> QED
            BY <6>2, <6>3
        <5>6. pos = h /\ field.n \in Nat
          BY <1>8, <2>1, <5>4 DEF Follow
        <5>7. size < h + field.n
          BY <1>3, <4>3, <5>6 DEF need
        <5>8. size < h + fs
          <6> HIDE DEF field
          <6> QED
            BY <1>3, <5>5, <5>6, <5>7
        <5> QED
          BY <5>1, <5>4, <5>5, <5>7, <5>8
      <4>4. CASE need(field.n) /\ ~Bounded(st, lens, i)
        <5>1. \/ field.kind = "field" /\ lens[i] > field.max
              \/ field.kind = "pairs" /\ lens[i] \notin 1 .. field.max
          BY <2>1, <4>2, <4>4 DEF Bounded, field
        <5> QED
          BY <1>11, <4>4, <5>1 DEF ReadLength
      <4> QED
        BY <2>3, <4>3, <4>4
    <3>2. ~(/\ Encoded.ok /\ size = Encoded.size
            /\ st = "envelope" => lens[5] <= MaxParents)
      BY <2>1, <2>3, NoRefusal
    <3> QED
      BY <1>5, <2>1, <3>1, <3>2
  <2> QED
    BY <2>2, <2>3
<1>12. CASE TakeBody
  <2>1. result = "none" /\ i <= N /\ field.kind = "field" /\ inBody /\ Parsing({"field"})
    BY <1>12 DEF TakeBody, Parsing
  <2>2. CASE need(left * field.unit)
    <3>1. /\ pos' = pos + left * field.unit /\ i' = i + 1 /\ inBody' = FALSE /\ tbs' = tbs
          /\ result' = "none"
      BY <1>12, <2>1, <2>2 DEF TakeBody
    <3>2. left = lens[i] /\ pos = H[i] + field.n /\ Bounded(st, lens, i)
      BY <1>8, <2>1 DEF Follow
    <3>3. PICK prod : prod = lens[i] * field.unit
      OBVIOUS
    <3>4. prod \in Nat /\ field.n \in Nat /\ H[i] \in Nat /\ H[i + 1] = H[i] + (field.n + prod)
      BY <1>8, <2>1, <3>3
    <3>5. pos' = H[i] + field.n + prod
      BY <3>1, <3>2, <3>3
    <3>6. pos' = H[i + 1]
      <4> HIDE DEF H, field
      <4> QED
        BY <3>4, <3>5
    <3>7. \A j \in 1 .. N : Layout(st)[j].kind = "tbs" /\ j < i + 1 => tbs' = H[j]
      <4> SUFFICES ASSUME NEW j \in 1 .. N, Layout(st)[j].kind = "tbs", j < i + 1
                   PROVE  tbs' = H[j]
        OBVIOUS
      <4>1. j # i
        BY <2>1 DEF field
      <4>2. j < i
        BY <1>3, <4>1
      <4> QED
        BY <1>8, <2>1, <3>1, <4>2 DEF Follow
    <3>8. Layout(st)[i].kind # "pairs"
      BY <2>1 DEF field
    <3> QED
      BY <1>7, <2>1, <3>1, <3>2, <3>6, <3>7, <3>8
  <2>3. CASE ~need(left * field.unit)
    <3>1. Fail("ErrTruncated")
      BY <1>12, <2>3 DEF TakeBody
    <3>2. left = lens[i] /\ pos = H[i] + field.n
      BY <1>8, <2>1 DEF Follow
    <3>3. PICK prod : prod = lens[i] * field.unit
      OBVIOUS
    <3>4. prod \in Nat /\ field.n \in Nat /\ H[i] \in Nat /\ H[i + 1] = H[i] + (field.n + prod)
      BY <1>8, <2>1, <3>3
    <3>5. ~need(prod)
      BY <2>3, <3>2, <3>3
    <3>6. size < H[i + 1]
      <4> HIDE DEF H, field
      <4> QED
        BY <1>3, <3>2, <3>4, <3>5, SMTT(60) DEF need
    <3> QED
      BY <1>5, <2>1, <2>3, <3>1, <3>6, NoRefusal
  <2> QED
    BY <2>2, <2>3
<1>13. CASE TakePair
  <2>1. /\ result = "none" /\ i <= N /\ field.kind = "pairs" /\ inBody /\ left > 0
        /\ Parsing({"pairs"})
    BY <1>13 DEF TakePair, Parsing
  <2>2. /\ left <= lens[i] /\ pos = H[i] + 1 + (lens[i] - left) * 96
        /\ unsorted \notin 2 .. lens[i] - left /\ Bounded(st, lens, i)
    BY <1>8, <2>1 DEF Follow
  <2>3. CASE need(32) /\ need(96) /\ lens[i] - left + 1 # unsorted
    <3>1. /\ pos' = pos + 96 /\ left' = left - 1 /\ i' = i /\ inBody' = TRUE /\ tbs' = tbs
          /\ result' = "none"
      <4>1. LenPubkey = 32 /\ LenPubkey + LenSig = 96 /\ pos + LenPubkey + LenSig = pos + 96
        BY <1>3 DEF LenPubkey, LenSig
      <4>2. inBody' = inBody /\ inBody = TRUE
        BY <1>3, <1>13, <2>1, <2>3, <4>1 DEF TakePair
      <4> QED
        BY <1>13, <2>1, <2>3, <4>1, <4>2 DEF TakePair
    <3>2. Follow'
      <4>1. /\ Heads(st', lens') = H /\ LengthFields(st') = LengthFields(st)
            /\ Layout(st') = Layout(st) /\ field' = field
        BY <1>2, <3>1 DEF field
      <4>2. \A j : Bounded(st, lens, j)' <=> Bounded(st, lens, j)
        BY <1>2 DEF Bounded
      <4>3. lens[i] \in Nat /\ H[i] \in Nat
        BY <1>8, <2>1
      <4>4. pos' = H[i] + 1 + (lens[i] - left') * 96 /\ left' <= lens[i]
        <5>1. PICK n \in Nat : n = lens[i]
          BY <4>3
        <5>2. PICK h \in Nat : h = H[i]
          BY <4>3
        <5>3. pos = h + 1 + (n - left) * 96 /\ left <= n /\ left > 0
          BY <2>1, <2>2, <5>1, <5>2
        <5>4. pos' = h + 1 + (n - left') * 96 /\ left' <= n
          BY <1>3, <3>1, <5>3
        <5> QED
          BY <5>1, <5>2, <5>4
      <4>5. unsorted' \notin 2 .. lens[i] - left'
        <5> HIDE DEF H, field
        <5> QED
          BY <1>2, <1>3, <2>2, <2>3, <3>1, <4>3, SMTT(60) DEF MaxCASigs
      <4>6. Bounded(st, lens, i)'
        BY <1>2, <2>2, <3>1 DEF Bounded
      <4>7. Follow
        BY <1>8, <2>1
      <4> QED
        BY <1>2, <2>1, <3>1, <4>1, <4>2, <4>4, <4>5, <4>6, <4>7 DEF Follow
    <3> QED
      BY <1>6, <3>1, <3>2
  <2>4. CASE ~(need(32) /\ need(96) /\ lens[i] - left + 1 # unsorted)
    <3>1. LenPubkey = 32 /\ LenPubkey + LenSig = 96
      BY DEF LenPubkey, LenSig
    <3>2. \/ Fail("ErrTruncated") /\ (~need(32) \/ ~need(96))
          \/ Fail("ErrMalformed")
      BY <1>13, <2>4, <3>1, ZenonT(60) DEF TakePair
    <3>3. ~need(32) \/ ~need(96) => size < H[i + 1]
      <4>1. PICK n \in Nat : n = lens[i]
        BY <1>8, <2>1
      <4>2. PICK h \in Nat : h = H[i]
        BY <1>8, <2>1
      <4>3. H[i + 1] = h + (1 + n * 96)
        BY <1>8, <2>1, <4>1, <4>2
      <4>4. pos = h + 1 + (n - left) * 96 /\ left <= n /\ left > 0
        BY <2>1, <2>2, <4>1, <4>2
      <4>5. ~need(32) \/ ~need(96) => size < h + (1 + n * 96)
        BY <1>3, <4>4 DEF need
      <4> QED
        BY <4>3, <4>5
    <3> QED
      BY <1>5, <2>1, <2>4, <3>2, <3>3, NoRefusal
  <2> QED
    BY <2>3, <2>4
<1>14. CASE PairsDone
  <2>1. /\ result = "none" /\ i <= N /\ field.kind = "pairs" /\ inBody /\ left = 0
        /\ i' = i + 1 /\ inBody' = FALSE /\ pos' = pos /\ tbs' = tbs /\ result' = "none"
    BY <1>14 DEF PairsDone, Parsing
  <2>2. /\ pos = H[i] + 1 + (lens[i] - left) * 96
        /\ unsorted \notin 2 .. lens[i] - left /\ Bounded(st, lens, i)
    BY <1>8, <2>1 DEF Follow
  <2>3. lens[i] \in Nat /\ H[i] \in Nat /\ H[i + 1] = H[i] + (1 + lens[i] * 96)
    BY <1>8, <2>1
  <2>4. pos' = H[i + 1] /\ unsorted \notin 2 .. lens[i]
    <3> HIDE DEF H, field
    <3> QED
      BY <2>1, <2>2, <2>3
  <2>5. \A j \in 1 .. N : Layout(st)[j].kind = "tbs" /\ j < i + 1 => tbs' = H[j]
    <3> SUFFICES ASSUME NEW j \in 1 .. N, Layout(st)[j].kind = "tbs", j < i + 1
                 PROVE  tbs' = H[j]
      OBVIOUS
    <3>1. j # i
      BY <2>1 DEF field
    <3>2. j < i
      BY <1>3, <3>1
    <3> QED
      BY <1>8, <2>1, <3>2 DEF Follow
  <2> QED
    BY <1>7, <2>1, <2>2, <2>4, <2>5
<1>15. CASE Finish
  <2>1. /\ result = "none" /\ i > N /\ i' = i /\ pos' = pos /\ left' = left
        /\ inBody' = inBody /\ tbs' = tbs
        /\ result' = IF pos # size THEN "ErrTrailingBytes" ELSE "ok"
    BY <1>15 DEF Finish, Fail
  <2>2. CASE pos = size
    <3>1. result' = "ok" /\ i = N + 1
      BY <1>3, <2>1, <2>2
    <3>2. Follow
      BY <2>1 DEF ParseInv
    <3>3. Follow'
      BY <1>2, <2>1, <3>2 DEF Follow, Bounded, field
    <3> QED
      BY <1>1, <1>2, <1>3, <2>1, <2>2, <3>1, <3>3 DEF ParseInv, EncodingAccepted, Cut
  <2>3. CASE pos # size
    <3>1. Fail("ErrTrailingBytes")
      BY <1>15, <2>3 DEF Finish
    <3> QED
      BY <1>5, <2>1, <2>3, <3>1, NoRefusal
  <2> QED
    BY <2>2, <2>3
<1>16. CASE UNCHANGED vars
  <2>1. /\ i' = i /\ pos' = pos /\ left' = left /\ inBody' = inBody /\ tbs' = tbs
        /\ result' = result
    BY <1>16 DEF vars
  <2>2. Follow' <=> Follow
    BY <1>2, <2>1 DEF Follow, Bounded, field
  <2>3. EncodingAccepted' <=> EncodingAccepted
    BY <1>2, <1>4, <2>1 DEF EncodingAccepted
  <2>4. Cut' <=> Cut
    BY <1>2, <2>1 DEF Cut, field
  <2> QED
    BY <1>1, <1>2, <2>1, <2>2, <2>3, <2>4 DEF ParseInv
<1> QED
  BY <1>9, <1>10, <1>11, <1>12, <1>13, <1>14, <1>15, <1>16 DEF Next, Returned

\* Parser and layout stay together throughout.
THEOREM ParseInvariance == Spec => []ParseInv
BY ParseInit, ParseStep, PTL DEF Spec

\* No parser accepts anything but an encoding, for every size of the buffer
\* and all values of its length fields.
THEOREM AcceptedCorrect == Spec => []AcceptedIsEncoding
<1>1. ASSUME ParseInv, result = "ok" PROVE AcceptedIsEncoding
  <2> DEFINE N == Len(Layout(st))
  <2>1. /\ st \in Structures /\ \A j \in LengthFields(st) : lens[j] \in Nat
        /\ unsorted \in {0} \cup (2 .. MaxCASigs) /\ Follow /\ i = N + 1 /\ pos = size
        /\ N \in Nat /\ DOMAIN Layout(st) = 1 .. N
    BY <1>1, LayoutLen DEF ParseInv, CursorInv, TypeOK
  <2>2. ~inBody
    BY <2>1 DEF Follow
  <2>3. pos = Heads(st, lens)[N + 1]
    BY <2>1, <2>2 DEF Follow
  <2>4. \A j \in LengthFields(st) : j < i
    BY <2>1 DEF LengthFields
  <2>5. WithinBounds
    BY <2>1, <2>4 DEF WithinBounds, Follow
  <2>6. PICK j \in 1 .. N : Layout(st)[j].kind = "tbs"
    BY <2>1, EncoderAgrees
  <2>7. j < i
    BY <2>1
  <2>8. tbs = Encoded.tbs
    BY <2>1, <2>6, <2>7, EncoderAgrees DEF Follow
  <2> QED
    BY <2>1, <2>3, <2>5, <2>8, EncoderAgrees DEF AcceptedIsEncoding
<1>2. ParseInv => AcceptedIsEncoding
  BY <1>1 DEF AcceptedIsEncoding
<1> QED
  BY <1>2, ParseInvariance, PTL

\* Every encoding is accepted (an envelope's: with at most four parents).
THEOREM EncodingCorrect == Spec => []EncodingAccepted
<1>1. ParseInv => EncodingAccepted
  BY DEF ParseInv
<1> QED
  BY <1>1, ParseInvariance, PTL

\* The recursive sum of the field sizes is the sum written out.
LEMMA OffsetIsHeads ==
  ASSUME NEW s \in Structures, NEW l, \A j \in LengthFields(s) : l[j] \in Nat,
         NEW k \in 0 .. Len(Layout(s))
  PROVE  Offset(s, l)[k] = Heads(s, l)[k + 1]
<1> DEFINE N == Len(Layout(s))
           F(g) == [j \in 0 .. N |-> IF j = 0 THEN 0 ELSE g[j - 1] + FieldSize(s, l, j)]
           h == [j \in 0 .. N |-> Heads(s, l)[j + 1]]
<1> DEFINE off == Offset(s, l)
           H == Heads(s, l)
           P(j) == j <= N => off[j] = H[j + 1]
<1>1. off = CHOOSE g : g = F(g)
  BY DEF Offset
<1>2. N \in 1 .. 12
  BY CodecAssumption DEF Layout, ParseSpan, ParseCert, ParseGrant, ParseEnvelope, ParseIntent,
     ParseRefusal
<1>3. H[1] = 0
  <2>1. PICK n \in 1 .. 12 : n = N
    BY <1>2
  <2>2. 1 \in 1 .. n
    BY <2>1
  <2> QED
    BY <2>1, <2>2, HeadsStep
<1>4. h = F(h)
  <2> SUFFICES ASSUME NEW j \in 0 .. N PROVE h[j] = F(h)[j]
    OBVIOUS
  <2>1. CASE j = 0
    <3>1. h[0] = H[0 + 1] /\ F(h)[0] = 0
      BY <2>1
    <3>2. H[0 + 1] = 0
      BY <1>3
    <3> QED
      BY <2>1, <3>1, <3>2
  <2>2. CASE j # 0
    <3>1. j \in 1 .. N /\ j - 1 \in 0 .. N /\ (j - 1) + 1 = j
      BY <1>2, <2>2
    <3>2. H[j + 1] = H[j] + FieldSize(s, l, j)
      BY <3>1, HeadsStep
    <3>3. h[j - 1] = H[j] /\ h[j] = H[j + 1]
      BY <3>1
    <3> HIDE DEF h, H
    <3> QED
      BY <2>2, <3>2, <3>3
  <2> QED
    BY <2>1, <2>2
<1> HIDE DEF h
<1>5. off = F(off)
  <2> HIDE DEF F, off
  <2> QED
    BY <1>1, <1>4, Zenon
<1> HIDE DEF off
<1>6. off[0] = 0 /\ \A j \in 1 .. N : off[j] = off[j - 1] + FieldSize(s, l, j)
  BY <1>2, <1>5
<1>7. P(0)
  BY <1>6, <1>3
<1>8. \A j \in 0 .. 11 : P(j) => P(j + 1)
  <2> SUFFICES ASSUME NEW j \in 0 .. 11, P(j) PROVE P(j + 1)
    <3> HIDE DEF P
    <3> QED
      OBVIOUS
  <2> SUFFICES ASSUME j + 1 <= N PROVE off[j + 1] = H[(j + 1) + 1]
    BY Zenon
  <2>1. j + 1 \in 1 .. N /\ (j + 1) - 1 = j /\ j <= N /\ (j + 1) + 1 = j + 2
    BY <1>2
  <2>2. off[j + 1] = off[j] + FieldSize(s, l, j + 1)
    BY <1>6, <2>1
  <2>3. H[j + 2] = H[j + 1] + FieldSize(s, l, j + 1)
    BY <2>1, HeadsStep
  <2> HIDE DEF H
  <2> QED
    BY <2>1, <2>2, <2>3
<1> HIDE DEF P
<1>9. P(1) /\ P(2) /\ P(3) /\ P(4)
  BY <1>7, <1>8
<1>10. P(5) /\ P(6) /\ P(7) /\ P(8)
  BY <1>8, <1>9
<1>11. P(9) /\ P(10) /\ P(11) /\ P(12)
  BY <1>8, <1>10
<1>12. k \in {0, 1, 2, 3, 4, 5, 6, 7, 8, 9, 10, 11, 12}
  <2>1. PICK n \in 1 .. 12 : n = N
    BY <1>2
  <2>2. k \in 0 .. n
    BY <2>1
  <2> QED
    BY <2>2
<1>13. P(k) /\ k <= N
  BY <1>2, <1>7, <1>9, <1>10, <1>11, <1>12
<1> QED
  BY <1>13 DEF P, off

\* A short list that ascends step by step ascends.
LEMMA Ascends ==
  ASSUME NEW n \in 1 .. 13, NEW g \in [1 .. n -> Nat],
         \A k \in 1 .. n : k + 1 <= n => g[k] <= g[k + 1],
         NEW x \in 1 .. n, NEW y \in 1 .. n, x <= y
  PROVE  g[x] <= g[y]
<1> DEFINE R(d) == x + d <= n => g[x] <= g[x + d]
<1>1. R(0)
  OBVIOUS
<1>2. \A d \in 0 .. 12 : R(d) => R(d + 1)
  <2> SUFFICES ASSUME NEW d \in 0 .. 12, R(d), x + (d + 1) <= n PROVE g[x] <= g[x + (d + 1)]
    OBVIOUS
  <2>1. x + d \in 1 .. n /\ (x + d) + 1 = x + (d + 1) /\ (x + d) + 1 \in 1 .. n
    OBVIOUS
  <2>2. g[x + d] <= g[(x + d) + 1]
    BY <2>1
  <2>3. g[x] \in Nat /\ g[x + d] \in Nat /\ g[(x + d) + 1] \in Nat
    BY <2>1
  <2> QED
    BY <2>1, <2>2, <2>3
<1> HIDE DEF R
<1>3. R(1) /\ R(2) /\ R(3) /\ R(4)
  BY <1>1, <1>2
<1>4. R(5) /\ R(6) /\ R(7) /\ R(8)
  BY <1>2, <1>3
<1>5. R(9) /\ R(10) /\ R(11) /\ R(12)
  BY <1>2, <1>4
<1>6. PICK d \in {0, 1, 2, 3, 4, 5, 6, 7, 8, 9, 10, 11, 12} : y = x + d
  <2>1. y - x \in {0, 1, 2, 3, 4, 5, 6, 7, 8, 9, 10, 11, 12} /\ y = x + (y - x)
    OBVIOUS
  <2> QED
    BY <2>1
<1>7. R(d)
  BY <1>1, <1>3, <1>4, <1>5, <1>6
<1> QED
  BY <1>6, <1>7 DEF R

\* A field never begins before an earlier one ends.
LEMMA HeadsAscend ==
  ASSUME NEW s \in Structures, NEW l, \A j \in LengthFields(s) : l[j] \in Nat,
         NEW a \in 1 .. Len(Layout(s)), NEW b \in 1 .. Len(Layout(s)), a < b
  PROVE  Heads(s, l)[a + 1] <= Heads(s, l)[b]
<1>1. PICK n \in 1 .. 12 : n = Len(Layout(s))
  BY CodecAssumption DEF Layout, ParseSpan, ParseCert, ParseGrant, ParseEnvelope, ParseIntent,
     ParseRefusal
<1>2. PICK g : g = [k \in 1 .. n |-> Heads(s, l)[k]]
  OBVIOUS
<1>3. \A k \in 1 .. n : /\ Heads(s, l)[k] \in Nat
                        /\ Heads(s, l)[k + 1] = Heads(s, l)[k] + FieldSize(s, l, k)
                        /\ Heads(s, l)[k + 1] \in Nat
  BY <1>1, HeadsStep
<1>4. \A k \in 1 .. n : FieldSize(s, l, k) \in Nat
  <2> SUFFICES ASSUME NEW k \in 1 .. n PROVE FieldSize(s, l, k) \in Nat
    OBVIOUS
  <2>1. PICK f : f = Layout(s)[k]
    OBVIOUS
  <2>2. /\ f.kind \in {"take", "field", "pairs", "tbs"}
        /\ f.kind # "tbs" => f.n \in Nat
        /\ f.kind \in {"field", "pairs"} => f.unit \in Nat /\ l[k] \in Nat
    BY <1>1, <2>1, Fields, FieldSizes
  <2>3. f.kind \in {"field", "pairs"} => l[k] * f.unit \in Nat
    BY <2>2
  <2> QED
    BY <2>1, <2>2, <2>3 DEF FieldSize
<1>5. g \in [1 .. n -> Nat]
  BY <1>2, <1>3
<1>6. \A k \in 1 .. n : k + 1 <= n => g[k] <= g[k + 1]
  <2> SUFFICES ASSUME NEW k \in 1 .. n, k + 1 <= n PROVE g[k] <= g[k + 1]
    OBVIOUS
  <2>1. k + 1 \in 1 .. n
    OBVIOUS
  <2>2. g[k + 1] = g[k] + FieldSize(s, l, k)
    BY <1>2, <1>3, <2>1
  <2> QED
    BY <1>4, <1>5, <2>2
<1>7. a + 1 \in 1 .. n /\ b \in 1 .. n /\ a + 1 <= b /\ n \in 1 .. 13
  <2>1. a \in 1 .. n /\ b \in 1 .. n
    BY <1>1, Zenon
  <2>2. \A x, y, k \in Int : x \in 1 .. k /\ y \in 1 .. k /\ k \in 1 .. 12 /\ x < y =>
           x + 1 \in 1 .. k /\ x + 1 <= y /\ k \in 1 .. 13
    OBVIOUS
  <2>3. a \in Int /\ b \in Int /\ n \in Int
    BY <2>1
  <2> QED
    BY <1>1, <2>1, <2>2, <2>3, Zenon
<1>8. g[a + 1] <= g[b]
  BY <1>5, <1>6, <1>7, Ascends
<1> QED
  BY <1>2, <1>7, <1>8

\* A length over its bound is never reported as a truncation, wherever the
\* buffer ends: for every size and all values of the length fields.
THEOREM OversizeCorrect == Spec => []OversizeIsNeverTruncation
<1>1. ASSUME ParseInv, result = "ErrTruncated", NEW j \in LengthFields(st),
             size >= Offset(st, lens)[j - 1] + Layout(st)[j].n
      PROVE  lens[j] <= Layout(st)[j].max
  <2> DEFINE N == Len(Layout(st))
             H == Heads(st, lens)
  <2>1. /\ st \in Structures /\ \A k \in LengthFields(st) : lens[k] \in Nat
        /\ Follow /\ Cut /\ i \in 1 .. N + 1 /\ N \in Nat /\ size \in Nat
        /\ j \in 1 .. N /\ j - 1 \in 0 .. N /\ (j - 1) + 1 = j
    BY <1>1, LayoutLen DEF ParseInv, CursorInv, TypeOK, LengthFields
  <2>2. Offset(st, lens)[j - 1] = H[j]
    BY <2>1, OffsetIsHeads
  <2>3. i <= N /\ size < H[i + 1] /\ (i \in LengthFields(st) /\ ~inBody => size < H[i] + field.n)
    BY <1>1, <2>1 DEF Cut
  <2>4. H[j] \in Nat /\ H[i + 1] \in Nat /\ Layout(st)[j].n \in Nat
    <3>1. i \in 1 .. N /\ Layout(st)[j].kind # "tbs"
      BY <2>1, <2>3 DEF LengthFields, HasLength
    <3> QED
      BY <2>1, <3>1, HeadsStep, Fields
  <2>5. CASE j < i
    BY <2>1, <2>5 DEF Follow, Bounded
  <2>6. CASE j = i
    <3>1. inBody
      BY <1>1, <2>1, <2>2, <2>3, <2>4, <2>6 DEF field
    <3> QED
      BY <2>1, <2>6, <3>1 DEF Follow, Bounded
  <2>7. CASE j > i
    <3>1. i \in 1 .. N /\ i < j
      BY <2>1, <2>7
    <3>2. H[i + 1] <= H[j]
      BY <2>1, <3>1, HeadsAscend
    <3> HIDE DEF H
    <3> QED
      BY <1>1, <2>1, <2>2, <2>3, <2>4, <3>2, SMTT(60)
  <2> QED
    BY <2>1, <2>5, <2>6, <2>7
<1>2. ParseInv => OversizeIsNeverTruncation
  BY <1>1 DEF OversizeIsNeverTruncation
<1> QED
  BY <1>2, ParseInvariance, PTL
=============================================================================
