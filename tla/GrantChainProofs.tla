-------------------------- MODULE GrantChainProofs --------------------------
(***************************************************************************)
(* Proofs about GrantChain for every width of the integers, every set of   *)
(* grants and contexts and every length of the run.                        *)
(***************************************************************************)
EXTENDS GrantChain, TLAPS

\* Reduction modulo W stays in the type and never increases a natural.
LEMMA Wrap ==
  ASSUME NEW x \in Nat
  PROVE  x % W \in 0 .. W - 1 /\ x % W <= x /\ (x < W => x % W = x)
BY CertAssumption

\* A wrapped difference is at most d only if the exact one is.
LEMMA WrapDifference ==
  ASSUME NEW a \in 0 .. W - 1, NEW b \in 0 .. W - 1, NEW d \in Nat, Minus(a, b) <= d
  PROVE  a - b <= d
<1>1. CASE a >= b
  <2>1. a - b \in Nat /\ a - b < W
    BY <1>1, CertAssumption
  <2>2. (a - b) % W = a - b
    BY <2>1, Wrap
  <2> QED
    BY <2>2 DEF Minus
<1>2. CASE a < b
  BY <1>2
<1> QED
  BY <1>1, <1>2, CertAssumption

\* checkExpiry fails closed: whatever wraps, a grant it lets through meets
\* the three conditions of BE-GRANT-05 in exact integers.
THEOREM ExpirySound ==
  ASSUME NEW notAfter \in 0 .. W - 1, NEW nowMS \in 0 .. W - 1, NEW first \in 0 .. W - 1,
         NEW tMaxS \in 0 .. W - 1, NEW tRecvS \in 0 .. W - 1,
         checkExpiry(notAfter, nowMS, first, tMaxS, tRecvS)
  PROVE  /\ nowMS < notAfter
         /\ notAfter <= first + tMaxS * MsPerSecond
         /\ nowMS <= first + tRecvS * MsPerSecond
<1>1. ASSUME NEW t \in 0 .. W - 1
      PROVE  Plus(first, Times(t, MsPerSecond)) <= first + t * MsPerSecond
  <2>1. t * MsPerSecond \in Nat
    BY GrantAssumption, CertAssumption
  <2>2. /\ Times(t, MsPerSecond) \in Nat
        /\ Times(t, MsPerSecond) <= t * MsPerSecond
    BY <2>1, Wrap, CertAssumption DEF Times
  <2>3. first + Times(t, MsPerSecond) \in Nat
    BY <2>2, CertAssumption
  <2>4. /\ Plus(first, Times(t, MsPerSecond)) \in Nat
        /\ Plus(first, Times(t, MsPerSecond)) <= first + Times(t, MsPerSecond)
    BY <2>3, Wrap, CertAssumption DEF Plus
  <2> QED
    BY <2>1, <2>2, <2>3, <2>4, CertAssumption
<1>2. ASSUME NEW t \in 0 .. W - 1
      PROVE  /\ Plus(first, Times(t, MsPerSecond)) \in Nat
             /\ first + t * MsPerSecond \in Nat
  <2>1. t * MsPerSecond \in Nat
    BY GrantAssumption, CertAssumption
  <2>2. Times(t, MsPerSecond) \in Nat
    BY <2>1, Wrap, CertAssumption DEF Times
  <2>3. first + Times(t, MsPerSecond) \in Nat
    BY <2>2, CertAssumption
  <2> QED
    BY <2>1, <2>3, Wrap, CertAssumption DEF Plus
<1>3. /\ nowMS < notAfter
      /\ notAfter <= Plus(first, Times(tMaxS, MsPerSecond))
      /\ nowMS <= Plus(first, Times(tRecvS, MsPerSecond))
  BY DEF checkExpiry
<1>4. notAfter <= first + tMaxS * MsPerSecond
  BY <1>1, <1>2, <1>3, CertAssumption
<1>5. nowMS <= first + tRecvS * MsPerSecond
  BY <1>1, <1>2, <1>3, CertAssumption
<1> QED
  BY <1>3, <1>4, <1>5

\* Where nothing overflows, checkExpiry is exactly BE-GRANT-05: it refuses
\* nothing else.
THEOREM ExpiryExact ==
  ASSUME NEW notAfter \in 0 .. W - 1, NEW nowMS \in 0 .. W - 1, NEW first \in 0 .. W - 1,
         NEW tMaxS \in 0 .. W - 1, NEW tRecvS \in 0 .. W - 1,
         first + tMaxS * MsPerSecond < W, first + tRecvS * MsPerSecond < W
  PROVE  checkExpiry(notAfter, nowMS, first, tMaxS, tRecvS) <=>
           /\ nowMS < notAfter
           /\ notAfter <= first + tMaxS * MsPerSecond
           /\ nowMS <= first + tRecvS * MsPerSecond
<1>1. ASSUME NEW t \in 0 .. W - 1, first + t * MsPerSecond < W
      PROVE  Plus(first, Times(t, MsPerSecond)) = first + t * MsPerSecond
  <2>1. t * MsPerSecond \in Nat /\ t * MsPerSecond < W
    BY <1>1, GrantAssumption, CertAssumption
  <2>2. Times(t, MsPerSecond) = t * MsPerSecond
    BY <2>1, Wrap DEF Times
  <2>3. first + t * MsPerSecond \in Nat
    BY <2>1, CertAssumption
  <2> QED
    BY <1>1, <2>2, <2>3, Wrap DEF Plus
<1> QED
  BY <1>1 DEF checkExpiry
\* A non-empty set of check numbers has a least element.
LEMMA LeastCheck ==
  ASSUME NEW S \in SUBSET (1 .. 15), S # {}
  PROVE  (CHOOSE i \in S : \A j \in S : i <= j) \in S
<1>1. \E i \in S : \A j \in S : i <= j
  <2> SUFFICES ASSUME \A i \in S : \E j \in S : j < i PROVE FALSE
    OBVIOUS
  <2>1. \A k \in 1 .. 15 : (\A j \in S : j >= k) => (\A j \in S : j >= k + 1)
    OBVIOUS
  <2>2. \A j \in S : j >= 4
    BY <2>1
  <2>3. \A j \in S : j >= 7
    BY <2>1, <2>2
  <2>4. \A j \in S : j >= 10
    BY <2>1, <2>3
  <2>5. \A j \in S : j >= 13
    BY <2>1, <2>4
  <2>6. \A j \in S : j >= 16
    BY <2>1, <2>5
  <2>7. PICK j \in S : TRUE
    OBVIOUS
  <2>8. j \in 1 .. 15 /\ j >= 16
    BY <2>6
  <2> QED
    BY <2>8
<1> QED
  BY <1>1

\* Either every check passed and v is nil, or v is the error of a failing check.
NamedBy(v, checks) ==
  \/ v = "nil" /\ \A i \in 1 .. 15 : checks[i].ok
  \/ \E i \in 1 .. 15 : ~checks[i].ok /\ v = checks[i].err

\* VerifyGrant's result is named by its checks.
LEMMA VerifyResult ==
  ASSUME NEW g, NEW c, NEW t, NEW first, NEW rev
  PROVE  NamedBy(VerifyGrant(g, c, t, first, rev), Checks(g, c, t, first, rev))
<1> DEFINE checks == Checks(g, c, t, first, rev)
           failing == {i \in 1 .. 15 : ~checks[i].ok}
           least == CHOOSE i \in failing : \A j \in failing : i <= j
<1>1. failing # {} => least \in failing
  BY LeastCheck
<1> HIDE DEF checks
<1>2. VerifyGrant(g, c, t, first, rev) = IF failing = {} THEN "nil" ELSE checks[least].err
  BY DEF VerifyGrant, checks
<1> QED
  BY <1>1, <1>2 DEF checks, NamedBy

\* The error of check i is a result other than nil, and ErrExpired only for
\* the last check.
IsErrorOf(err, i) ==
  err \in Verdicts /\ err # "nil" /\ (err = "ErrExpired" => i = 15)

\* The errors of the fifteen checks, none of which is nil and only the last
\* of which is ErrExpired.
LEMMA CheckErrors ==
  ASSUME NEW g, NEW c, NEW t, NEW first, NEW rev, NEW i \in 1 .. 15
  PROVE  IsErrorOf(Checks(g, c, t, first, rev)[i].err, i)
<1> PICK err : err = Checks(g, c, t, first, rev)[i].err
  OBVIOUS
<1>1. err = << "ErrBadVersion", "ErrBadEnvelopeBinding", "ErrGrantBadSignature",
               "ErrBadApproverCert", "ErrApproverRevoked", "ErrApproverOutOfScope",
               "ErrBadSubjectCert", "ErrSubjectRevoked", "ErrSubjectOutOfScope",
               "ErrWrongExecutor", "ErrWrongSubject", "ErrNoMatchingIntent",
               "ErrWrongResource", "ErrActionDigestMismatch", "ErrExpired" >>[i]
  BY DEF Checks
<1>2. IsErrorOf(err, i)
  BY <1>1 DEF IsErrorOf, Verdicts
<1> QED
  BY <1>2

\* VerifyGrant answers nil when every check passed, and otherwise the error of
\* a check that failed.
Outcome(v, checks) ==
  \/ v = "nil" /\ \A i \in 1 .. 15 : checks[i].ok
  \/ \E i \in 1 .. 15 : ~checks[i].ok /\ IsErrorOf(v, i)

\* The two facts about VerifyGrant together.
LEMMA VerdictOf ==
  ASSUME NEW g, NEW c, NEW t, NEW first, NEW rev
  PROVE  Outcome(VerifyGrant(g, c, t, first, rev), Checks(g, c, t, first, rev))
<1> DEFINE checks == Checks(g, c, t, first, rev)
           v == VerifyGrant(g, c, t, first, rev)
<1>1. NamedBy(v, checks)
  BY VerifyResult, Zenon
<1>2. \A i \in 1 .. 15 : IsErrorOf(checks[i].err, i)
  BY CheckErrors
<1> HIDE DEF checks, v
<1>3. Outcome(v, checks)
  BY <1>1, <1>2 DEF NamedBy, Outcome
<1> QED
  BY <1>3 DEF checks, v

\* What a nil result says, check by check.
LEMMA NilMeansAll ==
  ASSUME NEW g, NEW c, NEW t, NEW first, NEW rev, VerifyGrant(g, c, t, first, rev) = "nil"
  PROVE  /\ VerifySigned(DomainGrant, GrantTBS(g), g.sig, g.approver)
         /\ ValidateCert(c.approverCert, c.trustedCAs, t)
         /\ "approver" \in c.approverCert.roles
         /\ c.approverCert.key = g.approver
         /\ c.approverCert.key \notin rev
         /\ InScope(c.approverCert, g.resourceID)
         /\ ValidateCert(c.subjectCert, c.trustedCAs, t)
         /\ "agent" \in c.subjectCert.roles
         /\ c.subjectCert.key = g.subject
         /\ c.subjectCert.key \notin rev
         /\ InScope(c.subjectCert, g.resourceID)
         /\ g.executor = c.ownPubkey
         /\ g.subject = c.pending.sender
         /\ g.intentID = c.pending.intentID
         /\ g.resourceID = c.pending.resourceID
         /\ g.actionDigest = Blake2s256(c.pending.action)
         /\ checkExpiry(g.notAfter, t, first, c.tMaxSeconds, c.tRecvSeconds)
<1> DEFINE checks == Checks(g, c, t, first, rev)
<1> HIDE DEF checks
<1>1. \A i \in 1 .. 15 : checks[i].ok
  <2>1. Outcome("nil", checks)
    BY VerdictOf DEF checks
  <2> QED
    BY <2>1 DEF Outcome, IsErrorOf
<1>2. /\ checks[3].ok /\ checks[4].ok /\ checks[5].ok /\ checks[6].ok /\ checks[7].ok
      /\ checks[8].ok /\ checks[9].ok /\ checks[10].ok /\ checks[11].ok /\ checks[12].ok
      /\ checks[13].ok /\ checks[14].ok /\ checks[15].ok
  BY <1>1
<1> QED
  BY <1>2 DEF checks, Checks

\* VerifyGrant only answers ErrExpired when checkExpiry refused.
LEMMA ExpiredMeansExpired ==
  ASSUME NEW g, NEW c, NEW t, NEW first, NEW rev,
         VerifyGrant(g, c, t, first, rev) = "ErrExpired"
  PROVE  ~checkExpiry(g.notAfter, t, first, c.tMaxSeconds, c.tRecvSeconds)
<1>1. ~Checks(g, c, t, first, rev)[15].ok
  <2> PICK checks : checks = Checks(g, c, t, first, rev)
    OBVIOUS
  <2>1. Outcome("ErrExpired", checks)
    BY VerdictOf
  <2>2. ~checks[15].ok
    BY <2>1 DEF Outcome, IsErrorOf
  <2> QED
    BY <2>2
<1> QED
  BY <1>1 DEF Checks

\* The inductive invariant: the types, certificates that came out of the
\* parser, and a verdict that is VerifyGrant's answer for the moment at which
\* it was asked.
GrantInv ==
  /\ TypeOK
  /\ ParseCert(ctx.approverCert) /\ ParseCert(ctx.subjectCert)
  /\ verdict # "none" =>
       verdict = VerifyGrant(grant, ctx, decidedAt, firstReceipt, revokedThen)

\* The invariant holds before the grant arrives.
LEMMA GrantInit == Init => GrantInv
BY GrantAssumption, CertAssumption DEF Init, GrantInv, TypeOK, NotYet

\* Clock, arrival, revocation and decision keep the invariant.
LEMMA GrantStep == GrantInv /\ [Next]_vars => GrantInv'
<1> SUFFICES ASSUME GrantInv, [Next]_vars PROVE GrantInv'
  OBVIOUS
<1> USE GrantAssumption, CertAssumption DEF GrantInv, NotYet
<1>1. CASE Tick
  BY <1>1 DEF Tick, TypeOK
<1>2. CASE Receive
  BY <1>2 DEF Receive, TypeOK
<1>3. CASE \E k \in {grant.approver, grant.subject} : Revoke(k)
  BY <1>3 DEF Revoke, TypeOK
<1>4. CASE Decide
  <2>1. verdict' \in Verdicts
    <3> PICK checks : checks = Checks(grant, ctx, now, firstReceipt, revoked)
      OBVIOUS
    <3>1. Outcome(verdict', checks)
      BY <1>4, VerdictOf DEF Decide
    <3> QED
      BY <3>1 DEF Outcome, IsErrorOf, Verdicts
  <2>2. verdict' # "none"
    BY <2>1 DEF Verdicts
  <2>3. TypeOK'
    BY <1>4, <2>1, <2>2 DEF Decide, TypeOK
  <2> QED
    BY <1>4, <2>3 DEF Decide
<1>5. CASE UNCHANGED vars
  BY <1>5 DEF vars, TypeOK
<1> QED
  BY <1>1, <1>2, <1>3, <1>4, <1>5 DEF Next

\* The invariant holds throughout.
THEOREM GrantInvariance == Spec => []GrantInv
BY GrantInit, GrantStep, PTL DEF Spec

\* Every variable keeps its type; a verdict is one of VerifyGrant's results.
THEOREM GrantTypeCorrect == Spec => []TypeOK
<1>1. GrantInv => TypeOK
  BY DEF GrantInv
<1> QED
  BY <1>1, GrantInvariance, PTL

\* No wraparound lets a grant through too late: BE-GRANT-05 holds in exact
\* integers of every authorisation, for every width of the integers.
THEOREM TimelyCorrect == Spec => []AuthorityIsTimely
<1>1. GrantInv => AuthorityIsTimely
  <2> SUFFICES ASSUME GrantInv, verdict = "nil"
               PROVE  /\ decidedAt < grant.notAfter
                      /\ grant.notAfter <= firstReceipt + ctx.tMaxSeconds * MsPerSecond
                      /\ decidedAt <= firstReceipt + ctx.tRecvSeconds * MsPerSecond
    BY DEF AuthorityIsTimely
  <2>1. VerifyGrant(grant, ctx, decidedAt, firstReceipt, revokedThen) = "nil"
    BY DEF GrantInv
  <2>2. checkExpiry(grant.notAfter, decidedAt, firstReceipt, ctx.tMaxSeconds, ctx.tRecvSeconds)
    BY <2>1, NilMeansAll
  <2>3. decidedAt \in 0 .. W - 1 /\ firstReceipt \in 0 .. W - 1
    BY GrantAssumption, CertAssumption DEF GrantInv, TypeOK, NotYet
  <2>4. /\ grant.notAfter \in 0 .. W - 1
        /\ ctx.tMaxSeconds \in 0 .. W - 1 /\ ctx.tRecvSeconds \in 0 .. W - 1
    BY GrantAssumption DEF GrantInv, TypeOK
  <2> QED
    BY <2>2, <2>3, <2>4, ExpirySound
<1> QED
  BY <1>1, GrantInvariance, PTL

\* What a certificate that passed both validations is.
LEMMA ValidCert ==
  ASSUME NEW cert, NEW trusted, NEW t, IsCert(cert), ParseCert(cert),
         ValidateCert(cert, trusted, t)
  PROVE  /\ cert.notBefore <= t /\ t < cert.notAfter
         /\ Signers(cert) # {} /\ Signers(cert) \subseteq trusted
         /\ CheckRoleConstraints(cert.roles)
         /\ "approver" \in cert.roles =>
              /\ \E a, b \in Signers(cert) \cap trusted : a # b
              /\ cert.notAfter - cert.notBefore <= MaxPrivilegedLifetimeMS
<1>1. /\ ValidateCertChainNoClock(cert, trusted)
      /\ cert.notBefore <= t /\ t < cert.notAfter
  BY DEF ValidateCert, IsCert
<1>2. \A i \in DOMAIN cert.pairs :
        cert.pairs[i].key \in Signers(cert) /\ cert.pairs[i].key \in trusted
  BY <1>1 DEF ValidateCertChainNoClock, Signers
<1>3. Signers(cert) \subseteq trusted
  BY <1>2 DEF Signers
<1>4. 1 \in DOMAIN cert.pairs
  <2>1. Len(cert.pairs) \in Nat /\ Len(cert.pairs) >= 1
    <3>1. Len(cert.pairs) \in 1 .. MaxCASigs
      BY Zenon DEF ParseCert
    <3> DEFINE n == Len(cert.pairs)
    <3>2. n \in 1 .. MaxCASigs
      BY <3>1, Zenon
    <3> HIDE DEF n
    <3>3. n \in Nat /\ n >= 1
      BY <3>2 DEF MaxCASigs
    <3> QED BY <3>3 DEF n
  <2>2. DOMAIN cert.pairs = 1 .. Len(cert.pairs)
    BY DEF IsCert
  <2> QED
    BY <2>1, <2>2
<1>5. Signers(cert) # {}
  BY <1>2, <1>4
<1>6. CheckRoleConstraints(cert.roles)
  BY <1>1 DEF ValidateCertChainNoClock
<1>7. ASSUME "approver" \in cert.roles
      PROVE  /\ \E a, b \in Signers(cert) \cap trusted : a # b
             /\ cert.notAfter - cert.notBefore <= MaxPrivilegedLifetimeMS
  <2>1. Len(cert.pairs) >= 2
    BY <1>1, <1>7 DEF ValidateCertChainNoClock, ApproverQuorum
  <2>2. 2 \in DOMAIN cert.pairs /\ cert.pairs[2].key > cert.pairs[1].key
    BY <2>1 DEF IsCert, ParseCert
  <2>3. cert.pairs[1].key # cert.pairs[2].key
    BY <1>4, <2>2 DEF IsCert
  <2>4. \E a, b \in Signers(cert) \cap trusted : a # b
    BY <1>2, <1>4, <2>2, <2>3
  <2>5. Minus(cert.notAfter, cert.notBefore) <= MaxPrivilegedLifetimeMS
    BY <1>1, <1>7 DEF ValidateCertChainNoClock, LifetimeCapped
  <2>6. MaxPrivilegedLifetimeMS \in Nat
    BY CertAssumption
  <2>7. cert.notAfter - cert.notBefore <= MaxPrivilegedLifetimeMS
    BY <2>5, <2>6, WrapDifference DEF IsCert
  <2> QED
    BY <2>4, <2>7
<1> QED
  BY <1>1, <1>3, <1>5, <1>6, <1>7

\* Every authorisation rests on live certificates of trusted CAs, with a
\* quorum of two different ones behind the approver, no revoked key, scopes
\* that reach the resource, and separated roles.
THEOREM CertifiedCorrect == Spec => []AuthorityIsCertified
<1>1. GrantInv => AuthorityIsCertified
  <2> SUFFICES ASSUME GrantInv, verdict = "nil" PROVE AuthorityIsCertified
    BY DEF AuthorityIsCertified
  <2>1. VerifyGrant(grant, ctx, decidedAt, firstReceipt, revokedThen) = "nil"
    BY DEF GrantInv
  <2>2. IsCert(ctx.approverCert) /\ IsCert(ctx.subjectCert)
    BY GrantAssumption DEF GrantInv, TypeOK
  <2>3. /\ ValidateCert(ctx.approverCert, ctx.trustedCAs, decidedAt)
        /\ ValidateCert(ctx.subjectCert, ctx.trustedCAs, decidedAt)
        /\ "approver" \in ctx.approverCert.roles
        /\ "agent" \in ctx.subjectCert.roles
        /\ ctx.approverCert.key \notin revokedThen
        /\ ctx.subjectCert.key \notin revokedThen
        /\ ctx.approverCert.version >= 3 => Covers(ctx.approverCert.scope, grant.resourceID)
        /\ ctx.subjectCert.version >= 3 => Covers(ctx.subjectCert.scope, grant.resourceID)
    BY <2>1, NilMeansAll DEF InScope, scopeCoversResource
  <2>4. /\ \E a, b \in Signers(ctx.approverCert) \cap ctx.trustedCAs : a # b
        /\ ctx.approverCert.notAfter - ctx.approverCert.notBefore <= MaxPrivilegedLifetimeMS
        /\ ctx.approverCert.notBefore <= decidedAt /\ decidedAt < ctx.approverCert.notAfter
        /\ Signers(ctx.approverCert) # {}
        /\ Signers(ctx.approverCert) \subseteq ctx.trustedCAs
        /\ CheckRoleConstraints(ctx.approverCert.roles)
    BY <2>2, <2>3, ValidCert DEF GrantInv
  <2>5. /\ ctx.subjectCert.notBefore <= decidedAt /\ decidedAt < ctx.subjectCert.notAfter
        /\ Signers(ctx.subjectCert) # {}
        /\ Signers(ctx.subjectCert) \subseteq ctx.trustedCAs
        /\ CheckRoleConstraints(ctx.subjectCert.roles)
    BY <2>2, <2>3, ValidCert DEF GrantInv
  <2>6. ctx.approverCert.roles \cap {"agent", "approver", "executor"} = {"approver"}
    BY <2>3, <2>4 DEF CheckRoleConstraints
  <2>7. ctx.subjectCert.roles \cap {"agent", "approver", "executor"} = {"agent"}
    BY <2>3, <2>5 DEF CheckRoleConstraints
  <2> QED
    BY <2>3, <2>4, <2>5, <2>6, <2>7 DEF AuthorityIsCertified
<1> QED
  BY <1>1, GrantInvariance, PTL

\* Every authorisation is for the pending intent's own action, as signed by
\* the approver.
THEOREM BoundCorrect == Spec => []AuthorityIsBound
<1>1. GrantInv => AuthorityIsBound
  <2> SUFFICES ASSUME GrantInv, verdict = "nil" PROVE AuthorityIsBound
    BY DEF AuthorityIsBound
  <2>1. VerifyGrant(grant, ctx, decidedAt, firstReceipt, revokedThen) = "nil"
    BY DEF GrantInv
  <2>2. grant.sig = SignTagged(DomainGrant, GrantTBS(grant), grant.approver)
    BY <2>1, NilMeansAll DEF VerifySigned
  <2>3. /\ grant.sig.by = grant.approver /\ grant.sig.tag = DomainGrant
        /\ grant.sig.tbs = GrantTBS(grant)
    BY <2>2 DEF SignTagged
  <2>4. /\ grant.sig.tbs.executor = grant.executor
        /\ grant.sig.tbs.intentID = grant.intentID
        /\ grant.sig.tbs.subject = grant.subject
        /\ grant.sig.tbs.resourceID = grant.resourceID
        /\ grant.sig.tbs.actionDigest = grant.actionDigest
    BY <2>3 DEF GrantTBS
  <2>5. /\ ctx.approverCert.key = grant.approver
        /\ grant.executor = ctx.ownPubkey
        /\ grant.subject = ctx.pending.sender
        /\ grant.intentID = ctx.pending.intentID
        /\ grant.resourceID = ctx.pending.resourceID
        /\ grant.actionDigest = Blake2s256(ctx.pending.action)
    BY <2>1, NilMeansAll
  <2> QED
    BY <2>3, <2>4, <2>5 DEF AuthorityIsBound
<1> QED
  BY <1>1, GrantInvariance, PTL

\* A grant checkExpiry refuses now and that stands refused.
Lapsed ==
  /\ verdict # "nil"
  /\ firstReceipt # NotYet
  /\ ~checkExpiry(grant.notAfter, now, firstReceipt, ctx.tMaxSeconds, ctx.tRecvSeconds)

\* Once checkExpiry has refused a grant, no later delivery authorises it.
THEOREM ExpiryFinalCorrect == Spec => ExpiryIsFinal
<1>1. ASSUME NEW t1 \in 0 .. W - 1, NEW t2 \in 0 .. W - 1, t1 <= t2,
             NEW na \in 0 .. W - 1, NEW first \in 0 .. W - 1,
             NEW tm \in 0 .. W - 1, NEW tr \in 0 .. W - 1,
             ~checkExpiry(na, t1, first, tm, tr)
      PROVE  ~checkExpiry(na, t2, first, tm, tr)
  <2>1. tr * MsPerSecond \in Nat
    BY GrantAssumption, CertAssumption
  <2>2. first + Times(tr, MsPerSecond) \in Nat
    BY <2>1, Wrap, CertAssumption DEF Times
  <2>3. Plus(first, Times(tr, MsPerSecond)) \in Nat
    BY <2>2, Wrap, CertAssumption DEF Plus
  <2> QED
    BY <1>1, <2>3, CertAssumption DEF checkExpiry
<1>2. GrantInv => /\ now \in 0 .. W - 1 /\ now + 1 \in Nat
                  /\ firstReceipt # NotYet => firstReceipt \in 0 .. W - 1
                  /\ decidedAt # NotYet => decidedAt \in 0 .. W - 1 /\ decidedAt <= now
                  /\ grant.notAfter \in 0 .. W - 1
                  /\ ctx.tMaxSeconds \in 0 .. W - 1 /\ ctx.tRecvSeconds \in 0 .. W - 1
  BY GrantAssumption, CertAssumption DEF GrantInv, TypeOK, NotYet
<1>3. GrantInv /\ verdict = "ErrExpired" => Lapsed
  <2> SUFFICES ASSUME GrantInv, verdict = "ErrExpired" PROVE Lapsed
    OBVIOUS
  <2>1. ~checkExpiry(grant.notAfter, decidedAt, firstReceipt, ctx.tMaxSeconds, ctx.tRecvSeconds)
    BY ExpiredMeansExpired DEF GrantInv
  <2>2. decidedAt # NotYet /\ firstReceipt # NotYet
    BY DEF GrantInv, TypeOK
  <2> QED
    BY <1>1, <1>2, <2>1, <2>2 DEF Lapsed
<1>4. GrantInv /\ Lapsed /\ [Next]_vars => Lapsed'
  <2> SUFFICES ASSUME GrantInv, Lapsed, [Next]_vars PROVE Lapsed'
    OBVIOUS
  <2>1. CASE Tick
    <3>1. now + 1 \in 0 .. W - 1
      BY <2>1, GrantAssumption, CertAssumption DEF Tick, GrantInv, TypeOK
    <3> QED
      BY <1>1, <1>2, <2>1, <3>1 DEF Tick, Lapsed
  <2>2. CASE Decide
    <3>1. VerifyGrant(grant, ctx, now, firstReceipt, revoked) # "nil"
      BY NilMeansAll DEF Lapsed
    <3> QED
      BY <2>2, <3>1 DEF Decide, Lapsed
  <2>3. CASE Receive
    BY <2>3 DEF Receive, Lapsed
  <2>4. CASE \E k \in {grant.approver, grant.subject} : Revoke(k)
    BY <2>4 DEF Revoke, Lapsed
  <2>5. CASE UNCHANGED vars
    BY <2>5 DEF vars, Lapsed
  <2> QED
    BY <2>1, <2>2, <2>3, <2>4, <2>5 DEF Next
<1>5. Lapsed => verdict # "nil"
  BY DEF Lapsed
<1> QED
  BY <1>3, <1>4, <1>5, GrantInvariance, PTL DEF Spec, ExpiryIsFinal
=============================================================================
