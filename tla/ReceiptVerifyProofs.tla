------------------------ MODULE ReceiptVerifyProofs ------------------------
(***************************************************************************)
(* Proofs about ReceiptVerify for every set of receipts, certificates, CA  *)
(* files and command lines, every width of the integers and every          *)
(* interleaving of the writers of the files with the verifications.        *)
(***************************************************************************)
EXTENDS ReceiptVerify, FiniteSetTheorems, TLAPS

\* A non-empty set of exit numbers has a least element.
LEMMA LeastExit ==
  ASSUME NEW S \in SUBSET (1 .. 8), S # {}
  PROVE  LET i == CHOOSE i \in S : \A j \in S : i <= j
         IN  i \in S /\ \A j \in S : i <= j
<1>1. \E i \in S : \A j \in S : i <= j
  <2> SUFFICES ASSUME \A i \in S : \E j \in S : j < i PROVE FALSE
    OBVIOUS
  <2>1. \A k \in 1 .. 8 : (\A j \in S : j >= k) => (\A j \in S : j >= k + 1)
    OBVIOUS
  <2>2. \A j \in S : j >= 5
    BY <2>1
  <2>3. \A j \in S : j >= 9
    BY <2>1, <2>2
  <2>4. PICK j \in S : TRUE
    OBVIOUS
  <2>5. j \in 1 .. 8 /\ j >= 9
    BY <2>3
  <2> QED
    BY <2>5
<1> QED
  BY <1>1

\* Either every condition held and the exit is 0, or the exit is that of a
\* failing condition with no failing one before it.
LEMMA ExitDecided ==
  ASSUME NEW args, NEW r, NEW c
  PROVE  \/ /\ cmdVerify(args, r, c) = verifyOK
            /\ \A i \in 1 .. 8 : Exits(args, r, c)[i].ok
         \/ \E i \in 1 .. 8 :
              /\ ~Exits(args, r, c)[i].ok
              /\ cmdVerify(args, r, c) = Exits(args, r, c)[i].code
              /\ \A j \in 1 .. 8 : j < i => Exits(args, r, c)[j].ok
<1> DEFINE exits == Exits(args, r, c)
           failing == {i \in 1 .. 8 : ~exits[i].ok}
           least == CHOOSE i \in failing : \A j \in failing : i <= j
<1>1. failing # {} => least \in failing /\ \A j \in failing : least <= j
  BY LeastExit
<1> HIDE DEF exits
<1>2. cmdVerify(args, r, c) = IF failing = {} THEN verifyOK ELSE exits[least].code
  BY DEF cmdVerify, exits
<1> QED
  BY <1>1, <1>2 DEF exits

\* The codes of the eight conditions: none is 0, only the fourth is 3.
LEMMA ExitCodes ==
  ASSUME NEW args, NEW r, NEW c, NEW i \in 1 .. 8
  PROVE  LET code == Exits(args, r, c)[i].code
         IN  code \in {1, 2, 3} /\ (code = 3 => i = 4)
BY DEF Exits, verifyUsage, verifyInvalid, verifyUnanchored

\* The exit is one of the documented four.
LEMMA ExitType ==
  ASSUME NEW args, NEW r, NEW c
  PROVE  cmdVerify(args, r, c) \in {0, 1, 2, 3}
BY ExitDecided, ExitCodes DEF verifyOK

\* What exit 0 says, condition by condition.
LEMMA VerifiedMeansAll ==
  ASSUME NEW args, NEW r, NEW c, cmdVerify(args, r, c) = verifyOK
  PROVE  /\ r.kind = "span" /\ c.kind = "cert"
         /\ CertGiven(args)
         /\ ParseCert(c)
         /\ NoKey \notin {CAKeyIn[f] : f \in caPaths(args)}
         /\ VerifyReceipt(r, c, {CAKeyIn[f] : f \in caPaths(args)})
<1> DEFINE exits == Exits(args, r, c)
<1> HIDE DEF exits
<1>1. \A i \in 1 .. 8 : exits[i].ok
  BY ExitDecided, ExitCodes DEF exits, verifyOK
<1>2. exits[4].ok /\ exits[5].ok /\ exits[7].ok /\ exits[8].ok
  BY <1>1
<1> QED
  BY <1>2 DEF exits, Exits

\* What exit 3 says: a parsed, signed receipt and no --cert.
LEMMA UnanchoredMeans ==
  ASSUME NEW args, NEW r, NEW c, cmdVerify(args, r, c) = verifyUnanchored
  PROVE  r.kind = "span" /\ VerifySig(r) /\ ~CertGiven(args)
<1> DEFINE exits == Exits(args, r, c)
<1> HIDE DEF exits
<1>1. ~exits[4].ok /\ exits[3].ok
  BY ExitDecided, ExitCodes DEF exits, verifyOK, verifyUnanchored
<1> QED
  BY <1>1 DEF exits, Exits

\* When all eight conditions hold the exit is 0.
LEMMA AllMeansVerified ==
  ASSUME NEW args, NEW r, NEW c,
         NArg(args) = 1, r.kind = "span", c.kind = "cert", CertGiven(args), ParseCert(c),
         NoKey \notin {CAKeyIn[f] : f \in caPaths(args)}, caPaths(args) # {},
         VerifyReceipt(r, c, {CAKeyIn[f] : f \in caPaths(args)})
  PROVE  cmdVerify(args, r, c) = verifyOK
<1> DEFINE exits == Exits(args, r, c)
<1>1. VerifySig(r)
  BY DEF VerifyReceipt
<1>2. /\ exits[1].ok /\ exits[2].ok /\ exits[3].ok /\ exits[4].ok
      /\ exits[5].ok /\ exits[6].ok /\ exits[7].ok /\ exits[8].ok
  BY <1>1 DEF Exits
<1> HIDE DEF exits
<1>3. \A i \in 1 .. 8 : exits[i].ok
  BY <1>2
<1> QED
  BY <1>3, ExitDecided DEF exits

\* A signature that covers a receipt is by its executor, under the span tag,
\* over its own fields.
LEMMA SignedFields ==
  ASSUME NEW s, VerifySig(s)
  PROVE  /\ s.sig.by = s.executor /\ s.sig.tag = DomainSpan
         /\ s.sig.tbs.method = s.method
         /\ s.sig.tbs.observedAt = s.observedAt
BY DEF VerifySig, VerifySigned, SignTagged, SpanTBS

\* The inductive invariant: the types; the command line is one of those
\* given; a verification that has ended answered cmdVerify of its command
\* line and of the two files as it read them, and its report is the one that
\* goes with that exit.
VerifyInv ==
  /\ receipt \in {Missing, Torn} \cup Spans
  /\ cert \in {Missing, Torn} \cup Certs
  /\ last.receipt \in {Missing, Torn} \cup Spans
  /\ last.cert \in {Missing, Torn} \cup Certs
  /\ last.args \in CommandLines \cup {<<>>}
  /\ last.exit \in {NotRun, Running, 0, 1, 2, 3}
  /\ last.exit \in {0, 1, 2, 3} =>
       last.exit = cmdVerify(last.args, last.receipt, last.cert)
  /\ last.report = Report(last.exit, last.receipt, last.cert)

\* Nothing has been verified yet.
LEMMA VerifyInit == Init => VerifyInv
BY DEF Init, VerifyInv, Report, NotRun, Running, verifyOK, verifyUnanchored

\* Writers of the files and both halves of a verification keep the invariant.
LEMMA VerifyStep == VerifyInv /\ [Next]_vars => VerifyInv'
<1> SUFFICES ASSUME VerifyInv, [Next]_vars PROVE VerifyInv'
  OBVIOUS
<1>1. CASE ReceiptOpens \/ \E s \in Spans : ReceiptFills(s)
  BY <1>1 DEF VerifyInv, ReceiptOpens, ReceiptFills
<1>2. CASE CertOpens \/ \E c \in Certs : CertFills(c)
  BY <1>2 DEF VerifyInv, CertOpens, CertFills
<1>3. CASE \E args \in CommandLines : VerifyBegins(args)
  BY <1>3 DEF VerifyInv, VerifyBegins, Report, NotRun, Running, verifyOK, verifyUnanchored
<1>4. CASE VerifyEnds
  <2>1. /\ last'.exit = cmdVerify(last.args, last.receipt, cert)
        /\ last'.args = last.args /\ last'.receipt = last.receipt /\ last'.cert = cert
        /\ last'.report = Report(last'.exit, last.receipt, cert)
        /\ receipt' = receipt /\ cert' = cert
    BY <1>4 DEF VerifyEnds
  <2>2. last'.exit \in {0, 1, 2, 3}
    BY <2>1, ExitType
  <2> QED
    BY <2>1, <2>2 DEF VerifyInv
<1>5. CASE UNCHANGED vars
  BY <1>5 DEF vars, VerifyInv
<1> QED
  BY <1>1, <1>2, <1>3, <1>4, <1>5 DEF Next

\* The invariant holds throughout.
THEOREM VerifyInvariance == Spec => []VerifyInv
BY VerifyInit, VerifyStep, PTL DEF Spec

\* The files and the exit code of every verification are as documented.
THEOREM VerifyTypeCorrect == Spec => []TypeOK
<1>1. VerifyInv => TypeOK
  <2> SUFFICES ASSUME VerifyInv PROVE last.report.ceiling \in {0, 165, 191, 216, 242}
    BY DEF VerifyInv, TypeOK
  <2>1. \A m : ClassOf(m)[2] \in {165, 191, 216, 242}
    BY DEF ClassOf, CeilingInference, CeilingDocumentation, CeilingExpertTestimony,
           CeilingDirectObservation
  <2> QED
    BY <2>1 DEF VerifyInv, Report, printReport, NoReport
<1> QED
  BY <1>1, VerifyInvariance, PTL

\* What the two exits that report say of the state they were reached in.
LEMMA ExitFacts ==
  ASSUME VerifyInv
  PROVE  /\ last.exit = verifyOK =>
              /\ last.receipt.kind = "span" /\ last.cert.kind = "cert"
              /\ last.cert \in Certs
              /\ CertGiven(last.args)
              /\ ParseCert(last.cert)
              /\ NoKey \notin {CAKeyIn[f] : f \in caPaths(last.args)}
              /\ VerifyReceipt(last.receipt, last.cert,
                               {CAKeyIn[f] : f \in caPaths(last.args)})
         /\ last.exit = verifyUnanchored =>
              last.receipt.kind = "span" /\ VerifySig(last.receipt) /\ ~CertGiven(last.args)
<1>1. last.exit \in {verifyOK, verifyUnanchored} =>
        cmdVerify(last.args, last.receipt, last.cert) = last.exit
  BY DEF VerifyInv, verifyOK, verifyUnanchored
<1>2. last.cert.kind = "cert" => last.cert \in Certs
  BY DEF VerifyInv, Missing, Torn
<1>3. CASE last.exit = verifyOK
  <2>1. cmdVerify(last.args, last.receipt, last.cert) = verifyOK
    BY <1>1, <1>3
  <2>2. /\ last.receipt.kind = "span" /\ last.cert.kind = "cert"
        /\ CertGiven(last.args)
        /\ ParseCert(last.cert)
        /\ NoKey \notin {CAKeyIn[f] : f \in caPaths(last.args)}
        /\ VerifyReceipt(last.receipt, last.cert, {CAKeyIn[f] : f \in caPaths(last.args)})
    BY <2>1, VerifiedMeansAll, Zenon
  <2>3. last.exit # verifyUnanchored
    BY <1>3 DEF verifyOK, verifyUnanchored
  <2> QED
    BY <1>2, <2>2, <2>3, Zenon
<1>4. CASE last.exit = verifyUnanchored
  <2>1. cmdVerify(last.args, last.receipt, last.cert) = verifyUnanchored
    BY <1>1, <1>4
  <2> QED
    BY <1>4, <2>1, UnanchoredMeans DEF verifyOK, verifyUnanchored
<1> QED
  BY <1>3, <1>4

\* UNANCHORED is said only of a receipt with a valid signature and without
\* --cert, and never in place of VERIFIED.
THEOREM UnanchoredCorrect == Spec => []UnanchoredIsSigned
<1>1. VerifyInv => UnanchoredIsSigned
  BY ExitFacts, SignedFields DEF UnanchoredIsSigned
<1> QED
  BY <1>1, VerifyInvariance, PTL

\* The keys of a certificate that parses are pairwise different.
LEMMA DistinctKeys ==
  ASSUME NEW c, IsCert(c), ParseCert(c), NEW i \in DOMAIN c.pairs, NEW j \in DOMAIN c.pairs,
         c.pairs[i].key = c.pairs[j].key
  PROVE  i = j
<1>1. PICK n : n = Len(c.pairs)
  OBVIOUS
<1>2. n \in 1 .. 4 /\ DOMAIN c.pairs = 1 .. n
  BY <1>1 DEF IsCert, ParseCert, MaxCASigs
<1>3. PICK k : k = [x \in 1 .. n |-> c.pairs[x].key]
  OBVIOUS
<1>4. k \in [1 .. n -> Nat] /\ \A x \in 2 .. n : k[x] > k[x - 1]
  <2>1. \A x \in 1 .. n : c.pairs[x].key \in Nat
    BY <1>2 DEF IsCert
  <2>2. \A x \in 2 .. n : c.pairs[x].key > c.pairs[x - 1].key
    BY <1>1 DEF ParseCert
  <2>3. \A x \in 2 .. n : x \in 1 .. n /\ x - 1 \in 1 .. n
    BY <1>2
  <2> QED
    BY <1>3, <2>1, <2>2, <2>3
<1>5. \A x, y \in 1 .. n : x < y => k[x] < k[y]
  <2> SUFFICES ASSUME NEW x \in 1 .. n, NEW y \in 1 .. n, x < y PROVE k[x] < k[y]
    OBVIOUS
  <2>1. n >= 2 => k[2] > k[1]
    BY <1>2, <1>4
  <2>2. n >= 3 => k[3] > k[2]
    BY <1>2, <1>4
  <2>3. n >= 4 => k[4] > k[3]
    BY <1>2, <1>4
  <2>4. \A z \in 1 .. n : k[z] \in Nat
    BY <1>4
  <2>5. x \in {1, 2, 3, 4} /\ y \in {1, 2, 3, 4}
    BY <1>2
  <2> QED
    BY <1>2, <2>1, <2>2, <2>3, <2>4, <2>5, SMTT(60)
<1>6. i \in 1 .. n /\ j \in 1 .. n /\ k[i] = k[j]
  BY <1>2, <1>3
<1>7. k[i] \in Nat /\ ~(i < j) /\ ~(j < i)
  BY <1>4, <1>5, <1>6
<1> QED
  BY <1>2, <1>6, <1>7

\* There are as many signers behind a certificate as it has pairs, when
\* every pair is signed.
LEMMA SignersCounted ==
  ASSUME NEW c, IsCert(c), ParseCert(c),
         Signers(c) = {c.pairs[i].key : i \in DOMAIN c.pairs}
  PROVE  Cardinality(Signers(c)) = Len(c.pairs)
<1> DEFINE n == Len(c.pairs)
           f == [i \in 1 .. n |-> c.pairs[i].key]
<1>1. n \in Nat /\ DOMAIN c.pairs = 1 .. n
  BY DEF IsCert
<1>2. f \in Bijection(1 .. n, Signers(c))
  <2>1. f \in [1 .. n -> Signers(c)]
    BY <1>1
  <2>2. \A i, j \in 1 .. n : f[i] = f[j] => i = j
    BY <1>1, DistinctKeys
  <2>3. \A k \in Signers(c) : \E i \in 1 .. n : f[i] = k
    BY <1>1
  <2> HIDE DEF f
  <2> QED
    BY <2>1, <2>2, <2>3 DEF Bijection, Injection, Surjection, IsInjective
<1>3. ExistsBijection(1 .. n, Signers(c))
  BY <1>2 DEF ExistsBijection
<1> QED
  BY <1>1, <1>3, FS_CountingElements

\* A wrapped difference is at most d only if the exact one is.
LEMMA WindowExact ==
  ASSUME NEW a \in 0 .. W - 1, NEW b \in 0 .. W - 1, NEW d \in Nat, Minus(a, b) <= d
  PROVE  a - b <= d
<1>1. CASE a >= b
  <2>1. a - b \in 0 .. W - 1
    BY <1>1, CertAssumption
  <2>2. (a - b) % W = a - b
    BY <2>1, CertAssumption
  <2> QED
    BY <2>2 DEF Minus
<1>2. CASE a < b
  BY <1>2
<1> QED
  BY <1>1, <1>2, CertAssumption

\* VERIFIED means what the receipt profile says, whatever was in the files
\* while they were read: for every set of receipts and certificates.
THEOREM AuthenticCorrect == Spec => []VerifiedIsAuthentic
<1>1. ASSUME VerifyInv, last.exit = verifyOK PROVE VerifiedIsAuthentic
  <2>1. PICK s : s = last.receipt
    OBVIOUS
  <2>2. PICK c : c = last.cert
    OBVIOUS
  <2>3. PICK trusted : trusted = {CAKeyIn[f] : f \in caPaths(last.args)}
    OBVIOUS
  <2>4. /\ s.kind = "span" /\ c.kind = "cert" /\ c \in Certs /\ ParseCert(c)
        /\ NoKey \notin trusted /\ VerifyReceipt(s, c, trusted)
    BY <1>1, <2>1, <2>2, <2>3, ExitFacts
  <2>5. IsCert(c)
    BY <2>4, VerifyAssumption
  <2>6. /\ s.sig = SignTagged(DomainSpan, SpanTBS(s), c.key)
        /\ s.resourceFp = c.key /\ "executor" \in c.roles
        /\ ValidateCertChainNoClock(c, trusted)
    BY <2>4 DEF VerifyReceipt, VerifySig, VerifySigned
  <2>7. Signers(c) = {c.pairs[i].key : i \in DOMAIN c.pairs}
    BY <2>6 DEF ValidateCertChainNoClock, Signers
  <2>8. Signers(c) \subseteq trusted
    BY <2>6, <2>7 DEF ValidateCertChainNoClock
  <2>9. Signers(c) # {}
    <3>1. Len(c.pairs) \in 1 .. 4 /\ DOMAIN c.pairs = 1 .. Len(c.pairs)
      BY <2>4, <2>5 DEF IsCert, ParseCert, MaxCASigs
    <3> DEFINE n == Len(c.pairs)
    <3> HIDE DEF n
    <3>2. n \in 1 .. 4 /\ DOMAIN c.pairs = 1 .. n
      BY <3>1 DEF n
    <3>3. 1 \in 1 .. n
      BY <3>2
    <3>4. 1 \in DOMAIN c.pairs
      BY <3>2, <3>3, Zenon
    <3> QED
      BY <2>7, <3>4
  <2>10. c.roles \cap {"agent", "approver", "executor"} = {"executor"}
    BY <2>6 DEF ValidateCertChainNoClock, CheckRoleConstraints
  <2>11. c.notAfter - c.notBefore <= MaxPrivilegedLifetimeMS
    <3>1. Minus(c.notAfter, c.notBefore) <= MaxPrivilegedLifetimeMS
      BY <2>6 DEF ValidateCertChainNoClock, LifetimeCapped
    <3> QED
      BY <2>5, <3>1, WindowExact, CertAssumption DEF IsCert
  <2>12. Cardinality(Signers(c)) = Len(c.pairs)
    BY <2>4, <2>5, <2>7, SignersCounted
  <2>13. Signers(c) \subseteq trusted \ {NoKey}
    BY <2>4, <2>8
  <2> QED
    BY <2>1, <2>2, <2>3, <2>4, <2>6, <2>7, <2>9, <2>10, <2>11, <2>12, <2>13
       DEF VerifiedIsAuthentic
<1>2. VerifyInv => VerifiedIsAuthentic
  BY <1>1 DEF VerifiedIsAuthentic
<1> QED
  BY <1>2, VerifyInvariance, PTL

\* Nothing in a printed report is more than the executor and the CAs signed.
THEOREM ReportCorrect == Spec => []ReportIsEarned
<1>1. ASSUME VerifyInv PROVE ReportIsEarned
  <2>1. PICK s : s = last.receipt
    OBVIOUS
  <2>2. PICK c : c = last.cert
    OBVIOUS
  <2>3. last.report = Report(last.exit, s, c)
    BY <1>1, <2>1, <2>2 DEF VerifyInv
  <2>4. \A m : /\ ClassOf(m)[2] > CeilingInference => m \in 1 .. 7
               /\ ClassOf(m)[1] = "DirectObservation" => m \in 1 .. 4
               /\ ClassOf(m)[2] # 0
    BY DEF ClassOf, CeilingInference, CeilingDocumentation, CeilingExpertTestimony,
           CeilingDirectObservation
  <2>5. CASE last.exit \notin {verifyOK, verifyUnanchored}
    BY <2>3, <2>5 DEF ReportIsEarned, Report, NoReport, CeilingInference
  <2>6. CASE last.exit \in {verifyOK, verifyUnanchored}
    <3>1. VerifySig(s)
      BY <1>1, <2>1, <2>6, ExitFacts DEF VerifyReceipt
    <3>2. s.sig.tbs.method = s.method /\ s.sig.tbs.observedAt = s.observedAt
      BY <3>1, SignedFields
    <3>3. /\ last.report.class = ClassOf(s.method)[1]
          /\ last.report.ceiling = ClassOf(s.method)[2]
      BY <2>3, <2>6 DEF Report, printReport
    <3>4. last.report # NoReport
      BY <2>4, <3>3 DEF NoReport
    <3>5. ASSUME last.report.inWindow = "yes"
          PROVE  /\ last.exit = verifyOK
                 /\ \A i \in DOMAIN c.pairs :
                      /\ c.pairs[i].sig.tbs.notBefore <= s.observedAt
                      /\ s.observedAt < c.pairs[i].sig.tbs.notAfter
      <4>1. last.exit = verifyOK
        BY <2>3, <2>6, <3>5 DEF Report, printReport, Missing, verifyOK, verifyUnanchored
      <4>2. c.notBefore <= s.observedAt /\ s.observedAt < c.notAfter
        BY <2>3, <3>5, <4>1 DEF Report, printReport, verifyOK, verifyUnanchored
      <4>3. ValidateCertChainNoClock(c, {CAKeyIn[f] : f \in caPaths(last.args)})
        BY <1>1, <2>2, <4>1, ExitFacts DEF VerifyReceipt
      <4>4. \A i \in DOMAIN c.pairs : c.pairs[i].sig.tbs = CertTBS(c)
        <5> SUFFICES ASSUME NEW i \in DOMAIN c.pairs PROVE c.pairs[i].sig.tbs = CertTBS(c)
          OBVIOUS
        <5>1. VerifySigned(DomainCert, CertTBS(c), c.pairs[i].sig, c.pairs[i].key)
          BY <4>3 DEF ValidateCertChainNoClock
        <5>2. PICK tbs : tbs = CertTBS(c)
          OBVIOUS
        <5>3. c.pairs[i].sig = [by |-> c.pairs[i].key, tag |-> DomainCert, tbs |-> tbs]
          BY <5>1, <5>2 DEF VerifySigned, SignTagged
        <5>4. c.pairs[i].sig.tbs = tbs
          BY <5>3
        <5> QED
          BY <5>2, <5>4
      <4>5. CertTBS(c).notBefore = c.notBefore /\ CertTBS(c).notAfter = c.notAfter
        BY DEF CertTBS
      <4> QED
        BY <4>1, <4>2, <4>4, <4>5
    <3> QED
      BY <2>1, <2>2, <2>4, <2>6, <3>2, <3>3, <3>4, <3>5 DEF ReportIsEarned
  <2> QED
    BY <2>5, <2>6
<1> QED
  BY <1>1, VerifyInvariance, PTL

\* What `lastro run` writes carries its executor's signature.
LEMMA BuiltIsSigned ==
  ASSUME NEW k, NEW at
  PROVE  LET s == BuildSpan(k, at)
         IN  s.executor = k /\ s.resourceFp = k /\ VerifySig(s)
<1>1. PICK s : s = BuildSpan(k, at)
  OBVIOUS
<1>2. /\ s.executor = k /\ s.resourceFp = k /\ s.method = 1 /\ s.observedAt = at
  BY <1>1 DEF BuildSpan
<1>3. PICK bare : bare = [kind |-> "span", executor |-> k, resourceFp |-> k, method |-> 1,
                          observedAt |-> at]
  OBVIOUS
<1>4. s.sig = SignTagged(DomainSpan, SpanTBS(bare), k)
  BY <1>1, <1>3 DEF BuildSpan
<1>5. SpanTBS(bare) = SpanTBS(s)
  BY <1>2, <1>3 DEF SpanTBS
<1> QED
  BY <1>1, <1>2, <1>4, <1>5 DEF VerifySig, VerifySigned

\* Flags first and one file last: the flag package leaves one argument.
LEMMA FlagsFirst ==
  ASSUME NEW args \in Seq(STRING), Len(args) > 0, args[Len(args)] = "FILE",
         \A i \in 1 .. Len(args) - 1 : args[i] # "FILE"
  PROVE  NArg(args) = 1
<1> DEFINE n == Len(args)
<1>1. n \in Nat /\ n > 0 /\ DOMAIN args = 1 .. n
  OBVIOUS
<1>2. \A i \in DOMAIN args : i \in LeadingFlags(args) <=> i # n
  BY <1>1 DEF LeadingFlags
<1>3. DOMAIN args \ LeadingFlags(args) = {n}
  BY <1>1, <1>2
<1>4. {i \in {n} : args[i] # "FILE"} = {}
  OBVIOUS
<1>5. Cardinality({n}) = 1 /\ Cardinality({}) = 0
  BY FS_EmptySet, FS_Singleton
<1>6. NArg(args) = Cardinality({n}) + Cardinality({i \in {n} : args[i] # "FILE"})
  BY <1>3 DEF NArg
<1>7. NArg(args) = Cardinality({n}) + Cardinality({})
  BY <1>4, <1>6, Zenon
<1> QED
  BY <1>5, <1>7

\* A certificate that parses, is an executor's within the cap, and of which
\* every pair's key is a trusted signer's, passes the clock-free chain.
LEMMA ChainHolds ==
  ASSUME NEW c, NEW trusted, IsCert(c), ParseCert(c), c.roles = {"executor"},
         c.notAfter - c.notBefore \in 0 .. MaxPrivilegedLifetimeMS,
         Signers(c) = {c.pairs[i].key : i \in DOMAIN c.pairs},
         Signers(c) \subseteq trusted
  PROVE  ValidateCertChainNoClock(c, trusted)
<1>1. CheckRoleConstraints(c.roles) /\ "approver" \notin c.roles
  BY DEF CheckRoleConstraints
<1>2. LifetimeCapped(c)
  <2>1. PICK d : d = c.notAfter - c.notBefore
    OBVIOUS
  <2>2. d \in 0 .. W - 1 /\ d <= MaxPrivilegedLifetimeMS
    BY <2>1, CertAssumption
  <2>3. d % W = d
    BY <2>2, CertAssumption
  <2> QED
    BY <2>1, <2>2, <2>3 DEF LifetimeCapped, Minus
<1>3. ASSUME NEW i \in DOMAIN c.pairs
      PROVE  /\ VerifySigned(DomainCert, CertTBS(c), c.pairs[i].sig, c.pairs[i].key)
             /\ c.pairs[i].key \in trusted
  <2>1. c.pairs[i].key \in Signers(c)
    OBVIOUS
  <2>2. PICK j \in DOMAIN c.pairs :
          /\ VerifySigned(DomainCert, CertTBS(c), c.pairs[j].sig, c.pairs[j].key)
          /\ c.pairs[j].key = c.pairs[i].key
    BY <2>1 DEF Signers
  <2>3. j = i
    BY <2>2, DistinctKeys
  <2> QED
    BY <2>1, <2>2, <2>3
<1> QED
  BY <1>1, <1>2, <1>3 DEF ValidateCertChainNoClock

\* No honest receipt is turned away: what `lastro run` wrote under a key
\* that trusted CAs certified verifies, for every number of CAs and flags.
THEOREM HonestCorrect == Spec => []HonestVerifies
<1>1. ASSUME VerifyInv,
             last.exit \notin {NotRun, Running}, HonestFiles,
             Len(last.args) > 0, last.args[Len(last.args)] = "FILE",
             \A i \in 1 .. Len(last.args) - 1 : last.args[i] # "FILE",
             CertGiven(last.args),
             \A f \in caPaths(last.args) : CAKeyIn[f] # NoKey,
             Signers(last.cert) \subseteq {CAKeyIn[f] : f \in caPaths(last.args)}
      PROVE  last.exit = verifyOK
  <2>1. PICK s : s = last.receipt
    OBVIOUS
  <2>2. PICK c : c = last.cert
    OBVIOUS
  <2>3. PICK args : args = last.args
    OBVIOUS
  <2>4. PICK trusted : trusted = {CAKeyIn[f] : f \in caPaths(args)}
    OBVIOUS
  <2>5. /\ s.kind = "span" /\ s = BuildSpan(s.executor, s.observedAt)
        /\ c.kind = "cert" /\ c.key = s.executor /\ c.roles = {"executor"}
        /\ c.notAfter - c.notBefore \in 0 .. MaxPrivilegedLifetimeMS
        /\ ParseCert(c)
        /\ Signers(c) = {c.pairs[i].key : i \in DOMAIN c.pairs}
    BY <1>1, <2>1, <2>2 DEF HonestFiles
  <2>6. c \in Certs /\ IsCert(c)
    BY <1>1, <2>2, <2>5, VerifyAssumption DEF VerifyInv, Missing, Torn
  <2>7. NArg(args) = 1
    <3>1. args \in Seq(STRING)
      BY <1>1, <2>3, VerifyAssumption DEF VerifyInv
    <3> QED
      BY <1>1, <2>3, <3>1, FlagsFirst
  <2>8. Signers(c) \subseteq trusted /\ NoKey \notin trusted
    BY <1>1, <2>2, <2>3, <2>4
  <2>9. ValidateCertChainNoClock(c, trusted)
    BY <2>5, <2>6, <2>8, ChainHolds
  <2>10. VerifySig(s) /\ s.resourceFp = s.executor
    BY <2>5, BuiltIsSigned
  <2>11. VerifyReceipt(s, c, trusted)
    BY <2>5, <2>9, <2>10 DEF VerifyReceipt
  <2>12. caPaths(args) # {}
    <3> DEFINE n == Len(c.pairs)
    <3>1. n \in 1 .. 4 /\ DOMAIN c.pairs = 1 .. n
      BY <2>5, <2>6 DEF IsCert, ParseCert, MaxCASigs
    <3> HIDE DEF n
    <3>2. 1 \in 1 .. n
      BY <3>1
    <3>3. 1 \in DOMAIN c.pairs
      BY <3>1, <3>2, Zenon
    <3>4. c.pairs[1].key \in trusted
      BY <2>5, <2>8, <3>3
    <3> QED
      BY <2>4, <3>4
  <2>13. cmdVerify(args, s, c) = verifyOK
    BY <1>1, <2>3, <2>4, <2>5, <2>7, <2>8, <2>11, <2>12, AllMeansVerified
  <2>14. last.exit = cmdVerify(args, s, c)
    BY <1>1, <2>1, <2>2, <2>3 DEF VerifyInv
  <2> QED
    BY <2>13, <2>14
<1>2. VerifyInv => HonestVerifies
  BY <1>1 DEF HonestVerifies
<1> QED
  BY <1>2, VerifyInvariance, PTL
=============================================================================
