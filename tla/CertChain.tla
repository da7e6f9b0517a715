----------------------------- MODULE CertChain -----------------------------
(***************************************************************************)
(* Certificates and their validation (wire/cert.go, wire/validate.go, the  *)
(* clocked half of wire/grantchain.go and the tagged signatures of         *)
(* wire/crypto.go).                                                        *)
(*                                                                         *)
(* Signatures are symbolic: a signature is the record of who signed what   *)
(* under which domain tag, so it verifies exactly against that signer, tag *)
(* and message.  Keys are numbers because the parser compares them.  Times *)
(* are uint64 milliseconds: numbers below W, with wrapping arithmetic.     *)
(***************************************************************************)
EXTENDS Integers, Sequences, FiniteSets

CONSTANTS
  W,                       \* number of values of the integer type, 2^64
  MaxPrivilegedLifetimeMS  \* 30 days in milliseconds

ASSUME CertAssumption ==
  /\ W \in Nat \ {0}
  /\ MaxPrivilegedLifetimeMS \in 0 .. W - 1

\* Domain tags (BE-SIG-01).
DomainCert == 1
DomainSpan == 3
DomainGrant == 4

ApproverQuorum == 2
MaxCASigs == 4

Plus(a, b) == (a + b) % W

Minus(a, b) == (a - b) % W

Times(a, b) == (a * b) % W

SignTagged(tag, tbs, key) == [by |-> key, tag |-> tag, tbs |-> tbs]

VerifySigned(tag, tbs, sig, pubkey) == sig = SignTagged(tag, tbs, pubkey)

\* The shape of a decoded certificate: 64-bit times, a list of CA pairs.
IsCert(cert) ==
  /\ cert.notBefore \in 0 .. W - 1
  /\ cert.notAfter \in 0 .. W - 1
  /\ Len(cert.pairs) \in Nat
  /\ DOMAIN cert.pairs = 1 .. Len(cert.pairs)
  /\ \A i \in DOMAIN cert.pairs : cert.pairs[i].key \in Nat

\* What the CAs sign: every field before ca_sig_count (name and kex_pubkey,
\* which no check reads, are left out of the model).
CertTBS(cert) ==
  [f \in {"version", "roles", "key", "notBefore", "notAfter", "scope"} |-> cert[f]]

\* Faulty: ascending, but not strictly.
Bug_ParseAllowsEqualKeys(cert) ==
  /\ Len(cert.pairs) \in 1 .. MaxCASigs
  /\ \A i \in 2 .. Len(cert.pairs) : cert.pairs[i].key >= cert.pairs[i - 1].key

\* The structural rules of ParseCert beyond the layout: between one and four
\* (ca_key, ca_sig) pairs, keys strictly ascending.
ParseCert(cert) ==
  /\ Len(cert.pairs) \in 1 .. MaxCASigs
  /\ \A i \in 2 .. Len(cert.pairs) : cert.pairs[i].key > cert.pairs[i - 1].key

CheckRoleConstraints(roles) ==
  \A r, s \in {"agent", "approver", "executor"} : {r, s} \subseteq roles => r = s

\* Faulty: a window of exactly the cap is refused.
Bug_LifetimeStrict(cert) ==
  cert.roles \cap {"approver", "executor"} # {}
    => Minus(cert.notAfter, cert.notBefore) < MaxPrivilegedLifetimeMS

\* BE-REV-01: the window of a privileged certificate, an unsigned difference.
LifetimeCapped(cert) ==
  cert.roles \cap {"approver", "executor"} # {}
    => Minus(cert.notAfter, cert.notBefore) <= MaxPrivilegedLifetimeMS

\* TRUE where the Go function returns nil.
ValidateCertChainNoClock(cert, trusted) ==
  /\ CheckRoleConstraints(cert.roles)
  /\ "approver" \in cert.roles => Len(cert.pairs) >= ApproverQuorum
  /\ LifetimeCapped(cert)
  /\ \A i \in DOMAIN cert.pairs :
       /\ VerifySigned(DomainCert, CertTBS(cert), cert.pairs[i].sig, cert.pairs[i].key)
       /\ cert.pairs[i].key \in trusted

\* Inclusive at not_before, exclusive at not_after.
ValidateCert(cert, trusted, now) ==
  /\ ValidateCertChainNoClock(cert, trusted)
  /\ now >= cert.notBefore
  /\ now < cert.notAfter

-----------------------------------------------------------------------------
\* The CAs that really signed this certificate.
Signers(cert) ==
  {cert.pairs[i].key : i \in {j \in DOMAIN cert.pairs :
     VerifySigned(DomainCert, CertTBS(cert), cert.pairs[j].sig, cert.pairs[j].key)}}
=============================================================================
