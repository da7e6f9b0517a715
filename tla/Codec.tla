------------------------------- MODULE Codec -------------------------------
(***************************************************************************)
(* The wire parsers (wire/cursor.go, span.go, cert.go, grant.go,           *)
(* envelope.go) as what they are: one bounds-checked cursor moving over a  *)
(* buffer, field by field, driven by the layout of the structure.  Bytes   *)
(* are abstracted to the facts the parsers branch on: the size of the      *)
(* buffer, the value found in each length or count field, and where (if    *)
(* anywhere) the CA keys stop ascending.  The encoders (wire/encode.go,    *)
(* grant.go, envelope.go) are the sizes and bounds they work with.         *)
(***************************************************************************)
EXTENDS Integers, Sequences

LenPubkey == 32
LenSig == 64
MaxResource == 256
MaxName == 64
MaxScope == 8
MaxCASigs == 4
MaxParents == 4
MaxBody == 1048576 - 512
MaxAction == 256 * 1024
MaxRationale == 4 * 1024
MaxNote == 1024

\* A field: n bytes; a length or count of w bytes followed by that many
\* units; CA pairs; the end of the signed part.
Take(n) == [kind |-> "take", n |-> n]
Field(w, max, unit) == [kind |-> "field", n |-> w, max |-> max, unit |-> unit]
Pairs == [kind |-> "pairs", n |-> 1, max |-> MaxCASigs, unit |-> LenPubkey + LenSig]
TBS == [kind |-> "tbs"]

ParseSpan ==
  <<Take(1), Take(16), Take(16), Field(2, MaxResource, 1), Take(1), Take(1),
    Take(32), Take(8), Take(32), Take(LenPubkey), TBS, Take(LenSig)>>

ParseCert ==
  <<Take(1), Take(1), Take(LenPubkey), Take(32), Take(8), Take(8),
    Field(2, MaxName, 1), Field(1, MaxScope, 8), TBS, Pairs>>

ParseGrant ==
  <<Take(1), Take(16), Take(16), Take(LenPubkey), Take(LenPubkey), Take(LenPubkey),
    Field(2, MaxResource, 1), Take(32), Take(8), TBS, Take(LenSig)>>

ParseEnvelope ==
  <<Take(1), Take(32), Take(LenPubkey), Take(8), Field(1, MaxParents, 32), Take(8),
    Take(1), Field(4, MaxBody, 1), TBS, Take(LenSig)>>

ParseIntent ==
  <<Take(16), Field(2, MaxResource, 1), Field(4, MaxAction, 1),
    Field(2, MaxRationale, 1), TBS>>

ParseRefusal == <<Take(16), Field(2, MaxNote, 1), TBS, Take(LenSig)>>

Layout(st) ==
  CASE st = "span" -> ParseSpan
    [] st = "cert" -> ParseCert
    [] st = "grant" -> ParseGrant
    [] st = "envelope" -> ParseEnvelope
    [] st = "intent" -> ParseIntent
    [] st = "refusal" -> ParseRefusal

CONSTANTS
  Structures,       \* the structures parsed
  LenValues(_, _),  \* LenValues(w, max): values a w-byte length may hold
  SizeSlack         \* how far the buffer size may be from a field boundary

ASSUME CodecAssumption ==
  /\ Structures \subseteq {"span", "cert", "grant", "envelope", "intent", "refusal"}
  /\ \A s \in Structures : \A j \in DOMAIN Layout(s) :
       Layout(s)[j].kind \in {"field", "pairs"} =>
         LenValues(Layout(s)[j].n, Layout(s)[j].max) \subseteq Nat
  /\ SizeSlack \in Nat

VARIABLES
  st,        \* the structure being parsed
  lens,      \* lens[i]: the value in the length field of field i
  unsorted,  \* the CA pair whose key does not ascend, 0 if they all do
  size,      \* len(buf)
  i,         \* the field the parser is at
  pos,       \* the cursor
  left,      \* units of the current field or pairs still to take
  inBody,    \* the length of field i has been read
  tbs,       \* end of the signed part
  result     \* "none" while parsing

input == <<st, lens, unsorted, size>>

vars == <<input, i, pos, left, inBody, tbs, result>>

HasLength(f) == f.kind \in {"field", "pairs"}

LengthFields(s) == {j \in DOMAIN Layout(s) : HasLength(Layout(s)[j])}

\* The bytes of field j of a structure with these lengths.
FieldSize(s, l, j) ==
  LET f == Layout(s)[j]
  IN  CASE f.kind = "take" -> f.n
        [] f.kind = "tbs" -> 0
        [] OTHER -> f.n + l[j] * f.unit

\* Where field j + 1 begins.
Offset(s, l) ==
  LET off[j \in 0 .. Len(Layout(s))] ==
        IF j = 0 THEN 0 ELSE off[j - 1] + FieldSize(s, l, j)
  IN  off

\* Buffers that end at, just before or just after a field boundary.
Sizes(s, l) ==
  {n \in {Offset(s, l)[j] + d : j \in 0 .. Len(Layout(s)), d \in -SizeSlack .. SizeSlack} :
     n \in Nat}

\* What the length fields of a buffer may hold.
Lengths(s) ==
  LET values(j) == LenValues(Layout(s)[j].n, Layout(s)[j].max)
  IN  {l \in [LengthFields(s) -> UNION {values(j) : j \in LengthFields(s)}] :
         \A j \in LengthFields(s) : l[j] \in values(j)}

Init ==
  /\ st \in Structures
  /\ lens \in Lengths(st)
  /\ unsorted \in IF st = "cert" THEN {0} \cup (2 .. MaxCASigs) ELSE {0}
  /\ size \in Sizes(st, lens)
  /\ i = 1
  /\ pos = 0
  /\ left = 0
  /\ inBody = FALSE
  /\ tbs = 0
  /\ result = "none"

field == Layout(st)[i]

Parsing(kind) ==
  /\ result = "none"
  /\ i <= Len(Layout(st))
  /\ field.kind \in kind

Fail(err) ==
  /\ result' = err
  /\ UNCHANGED <<input, i, pos, left, inBody, tbs>>

\* Faulty: one byte too generous.
Bug_need(n) == size - pos + 1 >= n

\* cursor.need
need(n) == size - pos >= n

\* c.take(n), c.u8(), c.u64be() of a fixed field.
TakeFixed ==
  /\ Parsing({"take"})
  /\ IF need(field.n)
     THEN /\ pos' = pos + field.n
          /\ i' = i + 1
          /\ UNCHANGED <<input, left, inBody, tbs, result>>
     ELSE Fail("ErrTruncated")

\* tbs := buf[:c.pos]
MarkTBS ==
  /\ Parsing({"tbs"})
  /\ tbs' = pos
  /\ i' = i + 1
  /\ UNCHANGED <<input, pos, left, inBody, result>>

\* Faulty: the bytes are looked for before the bound is checked.
Bug_ReadLength ==
  /\ Parsing({"field", "pairs"})
  /\ ~inBody
  /\ IF ~need(field.n) \/ ~need(field.n + lens[i] * field.unit)
     THEN Fail("ErrTruncated")
     ELSE IF field.kind = "field" /\ lens[i] > field.max THEN Fail("ErrOversize")
     ELSE IF field.kind = "pairs" /\ lens[i] \notin 1 .. field.max
     THEN Fail("ErrMalformed")
     ELSE /\ pos' = pos + field.n
          /\ left' = lens[i]
          /\ inBody' = TRUE
          /\ UNCHANGED <<input, i, tbs, result>>

\* Faulty: a length equal to its maximum is refused.
Bug_ReadLengthMax ==
  /\ Parsing({"field", "pairs"})
  /\ ~inBody
  /\ IF ~need(field.n) THEN Fail("ErrTruncated")
     ELSE IF lens[i] >= field.max THEN Fail("ErrOversize")
     ELSE /\ pos' = pos + field.n
          /\ left' = lens[i]
          /\ inBody' = TRUE
          /\ UNCHANGED <<input, i, tbs, result>>

\* The length or count of field16, field32, scope_count, parent_count and
\* ca_sig_count: read, then held against its bound before anything is taken.
ReadLength ==
  /\ Parsing({"field", "pairs"})
  /\ ~inBody
  /\ IF ~need(field.n) THEN Fail("ErrTruncated")
     ELSE IF field.kind = "field" /\ lens[i] > field.max THEN Fail("ErrOversize")
     ELSE IF field.kind = "pairs" /\ lens[i] \notin 1 .. field.max
     THEN Fail("ErrMalformed")
     ELSE /\ pos' = pos + field.n
          /\ left' = lens[i]
          /\ inBody' = TRUE
          /\ UNCHANGED <<input, i, tbs, result>>

\* c.take(length * unit)
TakeBody ==
  /\ Parsing({"field"})
  /\ inBody
  /\ IF need(left * field.unit)
     THEN /\ pos' = pos + left * field.unit
          /\ i' = i + 1
          /\ inBody' = FALSE
          /\ UNCHANGED <<input, left, tbs, result>>
     ELSE Fail("ErrTruncated")

\* One (ca_key, ca_sig) pair: the key is taken, then compared with the
\* previous one, then the signature is taken.
TakePair ==
  /\ Parsing({"pairs"})
  /\ inBody
  /\ left > 0
  /\ IF ~need(LenPubkey) THEN Fail("ErrTruncated")
     ELSE IF lens[i] - left + 1 = unsorted THEN Fail("ErrMalformed")
     ELSE IF ~need(LenPubkey + LenSig) THEN Fail("ErrTruncated")
     ELSE /\ pos' = pos + LenPubkey + LenSig
          /\ left' = left - 1
          /\ UNCHANGED <<input, i, inBody, tbs, result>>

PairsDone ==
  /\ Parsing({"pairs"})
  /\ inBody
  /\ left = 0
  /\ i' = i + 1
  /\ inBody' = FALSE
  /\ UNCHANGED <<input, pos, left, tbs, result>>

\* Faulty: trailing bytes are ignored.
Bug_Finish ==
  /\ result = "none"
  /\ i > Len(Layout(st))
  /\ Fail("ok")

\* if c.pos != len(buf): trailing bytes.
Finish ==
  /\ result = "none"
  /\ i > Len(Layout(st))
  /\ Fail(IF pos # size THEN "ErrTrailingBytes" ELSE "ok")

Returned == result # "none" /\ UNCHANGED vars

Next ==
  \/ TakeFixed \/ MarkTBS \/ ReadLength \/ TakeBody \/ TakePair \/ PairsDone
  \/ Finish \/ Returned

Spec == Init /\ [][Next]_vars
-----------------------------------------------------------------------------
\* The encoders: which lengths they accept, how many bytes they produce before
\* the signature and in all.
EncodeSpanTBS(l) == 1 + 16 + 16 + 2 + l[4] + 1 + 1 + 32 + 8 + 32 + LenPubkey

BuildSpan(l) ==
  [ok |-> l[4] <= MaxResource, tbs |-> EncodeSpanTBS(l),
   size |-> EncodeSpanTBS(l) + LenSig]

EncodeCertTBS(l) == 2 + LenPubkey + 32 + 8 + 8 + 2 + l[7] + 1 + l[8] * 8

\* EncodeCertTBS, then AppendCertSignatures, which refuses unsorted keys.
AppendCertSignatures(l, bad) ==
  [ok |-> l[7] <= MaxName /\ l[8] <= MaxScope /\ l[10] \in 1 .. MaxCASigs
            /\ bad \notin 2 .. l[10],
   tbs |-> EncodeCertTBS(l), size |-> EncodeCertTBS(l) + 1 + l[10] * (LenPubkey + LenSig)]

EncodeGrantTBS(l) ==
  [ok |-> l[7] <= MaxResource, tbs |-> 1 + 16 + 16 + 3 * LenPubkey + 2 + l[7] + 32 + 8,
   size |-> 1 + 16 + 16 + 3 * LenPubkey + 2 + l[7] + 32 + 8 + LenSig]

\* parentCount is a byte; the only condition on it is that it matches parents.
BuildSignedEnvelope(l) ==
  LET t == 1 + 32 + LenPubkey + 8 + 1 + l[5] * 32 + 8 + 1 + 4 + l[8]
  IN  [ok |-> l[5] <= 255 /\ l[8] <= MaxBody, tbs |-> t, size |-> t + LenSig]

EncodeIntentBody(l) ==
  LET t == 16 + 2 + l[2] + 4 + l[3] + 2 + l[4]
  IN  [ok |-> l[2] <= MaxResource /\ l[3] <= MaxAction /\ l[4] <= MaxRationale,
       tbs |-> t, size |-> t]

\* Refusals have no encoder: this is the layout ParseRefusal documents.
RefusalLayout(l) ==
  [ok |-> l[2] <= MaxNote, tbs |-> 16 + 2 + l[2], size |-> 16 + 2 + l[2] + LenSig]

Encoded ==
  CASE st = "span" -> BuildSpan(lens)
    [] st = "cert" -> AppendCertSignatures(lens, unsorted)
    [] st = "grant" -> EncodeGrantTBS(lens)
    [] st = "envelope" -> BuildSignedEnvelope(lens)
    [] st = "intent" -> EncodeIntentBody(lens)
    [] st = "refusal" -> RefusalLayout(lens)

-----------------------------------------------------------------------------
\* The cursor never passes the end of the buffer: no read is out of range.
TypeOK ==
  /\ st \in Structures
  /\ pos \in 0 .. size
  /\ tbs \in 0 .. pos
  /\ i \in 1 .. Len(Layout(st)) + 1
  /\ left \in Nat
  /\ inBody \in BOOLEAN
  /\ result \in {"none", "ok", "ErrTruncated", "ErrOversize", "ErrMalformed",
                 "ErrTrailingBytes"}

\* A parser accepts nothing an encoder could not have produced: no truncated
\* file, no trailing byte, no length over its bound, no unsorted CA keys; and
\* the signed part it slices is the one the encoder signed.
AcceptedIsEncoding ==
  result = "ok" =>
    Encoded.ok /\ size = Encoded.size /\ tbs = Encoded.tbs

\* "Encoding is the exact inverse of the parsers": what an encoder produces is
\* accepted (an envelope: with as many parents as the layout allows, which
\* BuildSignedEnvelope leaves to its caller).
EncodingAccepted ==
  /\ Encoded.ok
  /\ size = Encoded.size
  /\ st = "envelope" => lens[5] <= MaxParents
  => result \in {"none", "ok"}

\* field16's comment: "A length above the maximum is a parse failure, never a
\* truncation", at whatever byte the buffer ends.
OversizeIsNeverTruncation ==
  result = "ErrTruncated" =>
    \A j \in LengthFields(st) :
      size >= Offset(st, lens)[j - 1] + Layout(st)[j].n =>
        lens[j] <= Layout(st)[j].max
=============================================================================
