----------------------------- MODULE GrantChain -----------------------------
(***************************************************************************)
(* The grant verification chain (wire/grantchain.go, VerifyGrant), run by  *)
(* an executor again and again on one grant while its clock advances and   *)
(* keys are revoked.  The executor around the pure function is external:   *)
(* it keeps the first-receipt time of the grant, supplies its clock, and   *)
(* its revocation hook is consulted at use.                                *)
(***************************************************************************)
EXTENDS CertChain, Scope

CONSTANTS
  Grants,       \* parsed grants
  Contexts,     \* the rest of GrantContext, fixed while the grant is pending
  MsPerSecond,  \* 1000
  MaxNow        \* last instant of the executor's clock, below W

NotYet == -1

ASSUME GrantAssumption ==
  /\ MsPerSecond \in Nat
  /\ MaxNow \in 0 .. W - 1
  /\ \A g \in Grants : g.notAfter \in 0 .. W - 1
  /\ \A c \in Contexts :
       /\ c.tMaxSeconds \in 0 .. W - 1
       /\ c.tRecvSeconds \in 0 .. W - 1
       /\ IsCert(c.approverCert)
       /\ IsCert(c.subjectCert)

VARIABLES
  grant,         \* the grant, as parsed
  ctx,           \* its context
  now,           \* NowMS
  firstReceipt,  \* FirstReceipt, durable, NotYet before the grant arrived
  revoked,       \* the keys for which IsRevoked answers true
  verdict,       \* the last result of VerifyGrant, "none" before the first
  decidedAt,     \* when it was computed
  revokedThen    \* the keys revoked at that moment

vars == <<grant, ctx, now, firstReceipt, revoked, verdict, decidedAt, revokedThen>>

Blake2s256(action) == <<"blake2s", action>>

\* What the approver signs: every field before sig (grant_id, which no check
\* reads, is left out of the model).
GrantTBS(g) ==
  [f \in {"version", "intentID", "approver", "subject", "executor", "resourceID",
          "actionDigest", "notAfter"} |-> g[f]]

\* Faulty: a grant is still good at not_after.
Bug_ExpiryNonStrict(notAfter, nowMS, first, tMaxS, tRecvS) ==
  /\ nowMS <= notAfter
  /\ notAfter <= Plus(first, Times(tMaxS, MsPerSecond))
  /\ nowMS <= Plus(first, Times(tRecvS, MsPerSecond))

\* TRUE where checkExpiry returns nil: uint64 arithmetic throughout.
checkExpiry(notAfter, nowMS, first, tMaxS, tRecvS) ==
  /\ nowMS < notAfter
  /\ notAfter <= Plus(first, Times(tMaxS, MsPerSecond))
  /\ nowMS <= Plus(first, Times(tRecvS, MsPerSecond))

\* What the walk of ScopeWalk computes.
scopeCoversResource(cert, resourceID) == Covers(cert.scope, resourceID)

InScope(cert, resourceID) ==
  cert.version >= 3 => scopeCoversResource(cert, resourceID)

\* The checks of VerifyGrant in the normative order, each with the error it
\* returns.
Checks(g, c, nowMS, first, revokedNow) == <<
  [ok |-> g.version = 2, err |-> "ErrBadVersion"],
  [ok |-> c.bodyType = "grant" /\ c.envelopeSender = g.approver,
   err |-> "ErrBadEnvelopeBinding"],
  [ok |-> VerifySigned(DomainGrant, GrantTBS(g), g.sig, g.approver),
   err |-> "ErrGrantBadSignature"],
  [ok |-> /\ ValidateCert(c.approverCert, c.trustedCAs, nowMS)
          /\ "approver" \in c.approverCert.roles
          /\ c.approverCert.key = g.approver,
   err |-> "ErrBadApproverCert"],
  [ok |-> c.approverCert.key \notin revokedNow, err |-> "ErrApproverRevoked"],
  [ok |-> InScope(c.approverCert, g.resourceID), err |-> "ErrApproverOutOfScope"],
  [ok |-> /\ ValidateCert(c.subjectCert, c.trustedCAs, nowMS)
          /\ "agent" \in c.subjectCert.roles
          /\ c.subjectCert.key = g.subject,
   err |-> "ErrBadSubjectCert"],
  [ok |-> c.subjectCert.key \notin revokedNow, err |-> "ErrSubjectRevoked"],
  [ok |-> InScope(c.subjectCert, g.resourceID), err |-> "ErrSubjectOutOfScope"],
  [ok |-> g.executor = c.ownPubkey, err |-> "ErrWrongExecutor"],
  [ok |-> g.subject = c.pending.sender, err |-> "ErrWrongSubject"],
  [ok |-> g.intentID = c.pending.intentID, err |-> "ErrNoMatchingIntent"],
  [ok |-> g.resourceID = c.pending.resourceID, err |-> "ErrWrongResource"],
  [ok |-> g.actionDigest = Blake2s256(c.pending.action),
   err |-> "ErrActionDigestMismatch"],
  [ok |-> checkExpiry(g.notAfter, nowMS, first, c.tMaxSeconds, c.tRecvSeconds),
   err |-> "ErrExpired"] >>

\* Faulty: checks 5 to 9 are not run.
Bug_VerifySkipsBinding(g, c, nowMS, first, revokedNow) ==
  LET checks == Checks(g, c, nowMS, first, revokedNow)
      failing == {i \in (1 .. 9) \cup {15} : ~checks[i].ok}
  IN  IF failing = {} THEN "nil"
      ELSE checks[CHOOSE i \in failing : \A j \in failing : i <= j].err

\* The error of the first failing check, or nil.
VerifyGrant(g, c, nowMS, first, revokedNow) ==
  LET checks == Checks(g, c, nowMS, first, revokedNow)
      failing == {i \in 1 .. 15 : ~checks[i].ok}
  IN  IF failing = {} THEN "nil"
      ELSE checks[CHOOSE i \in failing : \A j \in failing : i <= j].err

\* A grant and a context; both certificates came out of ParseCert.
Init ==
  /\ grant \in Grants
  /\ ctx \in {c \in Contexts : ParseCert(c.approverCert) /\ ParseCert(c.subjectCert)}
  /\ now = 0
  /\ firstReceipt = NotYet
  /\ revoked = {}
  /\ verdict = "none"
  /\ decidedAt = NotYet
  /\ revokedThen = {}

\* The executor's clock advances; it never runs backwards.
Tick ==
  /\ now < MaxNow
  /\ now' = now + 1
  /\ UNCHANGED <<grant, ctx, firstReceipt, revoked, verdict, decidedAt, revokedThen>>

\* Faulty: a redelivery restarts the first-receipt time.
Bug_ReceiveAgain ==
  /\ firstReceipt' = now
  /\ UNCHANGED <<grant, ctx, now, revoked, verdict, decidedAt, revokedThen>>

\* The grant arrives; a duplicate leaves the first-receipt time alone.
Receive ==
  /\ firstReceipt = NotYet
  /\ firstReceipt' = now
  /\ UNCHANGED <<grant, ctx, now, revoked, verdict, decidedAt, revokedThen>>

\* A revocation of one of the grant's parties reaches the executor.
Revoke(k) ==
  /\ k \notin revoked
  /\ revoked' = revoked \cup {k}
  /\ UNCHANGED <<grant, ctx, now, firstReceipt, verdict, decidedAt, revokedThen>>

\* Faulty: the time of this delivery passes for the first receipt.
Bug_DecideFreshReceipt ==
  /\ firstReceipt # NotYet
  /\ verdict' = VerifyGrant(grant, ctx, now, now, revoked)
  /\ decidedAt' = now
  /\ revokedThen' = revoked
  /\ UNCHANGED <<grant, ctx, now, firstReceipt, revoked>>

\* The executor runs VerifyGrant, on first delivery or on any later one.
Decide ==
  /\ firstReceipt # NotYet
  /\ verdict' = VerifyGrant(grant, ctx, now, firstReceipt, revoked)
  /\ decidedAt' = now
  /\ revokedThen' = revoked
  /\ UNCHANGED <<grant, ctx, now, firstReceipt, revoked>>

Next ==
  \/ Tick
  \/ Receive
  \/ \E k \in {grant.approver, grant.subject} : Revoke(k)
  \/ Decide

Spec == Init /\ [][Next]_vars

-----------------------------------------------------------------------------
\* The results VerifyGrant can have.
Verdicts ==
  {"nil", "ErrBadVersion", "ErrBadEnvelopeBinding", "ErrGrantBadSignature",
   "ErrBadApproverCert", "ErrApproverRevoked", "ErrApproverOutOfScope",
   "ErrBadSubjectCert", "ErrSubjectRevoked", "ErrSubjectOutOfScope",
   "ErrWrongExecutor", "ErrWrongSubject", "ErrNoMatchingIntent",
   "ErrWrongResource", "ErrActionDigestMismatch", "ErrExpired"}

\* Times are inside the integer type and no decision is older than the grant.
TypeOK ==
  /\ grant \in Grants
  /\ ctx \in Contexts
  /\ now \in 0 .. MaxNow
  /\ firstReceipt \in {NotYet} \cup (0 .. now)
  /\ revoked \subseteq {grant.approver, grant.subject}
  /\ revokedThen \subseteq revoked
  /\ verdict \in {"none"} \cup Verdicts
  /\ verdict = "none" <=> decidedAt = NotYet
  /\ decidedAt \in {NotYet} \cup (0 .. now)
  /\ decidedAt # NotYet => firstReceipt # NotYet /\ firstReceipt <= decidedAt

\* BE-GRANT-05 in exact integers: a grant is only ever authorised before its
\* not_after, with not_after at most T_max after first receipt, and at most
\* T_recv after first receipt.  The code computes with wrapping uint64.
AuthorityIsTimely ==
  verdict = "nil" =>
    /\ decidedAt < grant.notAfter
    /\ grant.notAfter <= firstReceipt + ctx.tMaxSeconds * MsPerSecond
    /\ decidedAt <= firstReceipt + ctx.tRecvSeconds * MsPerSecond

\* An authorised grant rests on two certificates that were live when it was
\* authorised, whose CAs are all trusted; the approver's was signed by at
\* least two different CAs and its window, in exact integers, is within the
\* 30-day cap; neither key was revoked by then; both scopes reach the
\* resource; and neither certificate mixes the three separated roles.
AuthorityIsCertified ==
  verdict = "nil" =>
    /\ \E a, b \in Signers(ctx.approverCert) \cap ctx.trustedCAs : a # b
    /\ ctx.approverCert.notAfter - ctx.approverCert.notBefore <= MaxPrivilegedLifetimeMS
    /\ \A cert \in {ctx.approverCert, ctx.subjectCert} :
         /\ cert.notBefore <= decidedAt /\ decidedAt < cert.notAfter
         /\ Signers(cert) # {} /\ Signers(cert) \subseteq ctx.trustedCAs
         /\ cert.key \notin revokedThen
         /\ cert.version >= 3 => Covers(cert.scope, grant.resourceID)
    /\ ctx.approverCert.roles \cap {"agent", "approver", "executor"} = {"approver"}
    /\ ctx.subjectCert.roles \cap {"agent", "approver", "executor"} = {"agent"}

\* What is authorised is what was asked for and approved: the approver's
\* signature covers this executor, the pending intent's id, its sender, its
\* resource and the digest of its action.
AuthorityIsBound ==
  verdict = "nil" =>
    /\ grant.sig.by = ctx.approverCert.key
    /\ grant.sig.tag = DomainGrant
    /\ grant.sig.tbs.executor = ctx.ownPubkey
    /\ grant.sig.tbs.intentID = ctx.pending.intentID
    /\ grant.sig.tbs.subject = ctx.pending.sender
    /\ grant.sig.tbs.resourceID = ctx.pending.resourceID
    /\ grant.sig.tbs.actionDigest = Blake2s256(ctx.pending.action)

\* checkExpiry's refusal is final: no redelivery at a later time turns an
\* expired grant into an authorised one.
ExpiryIsFinal == [](verdict = "ErrExpired" => [](verdict # "nil"))
=============================================================================
