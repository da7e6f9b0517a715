--------------------------- MODULE ReceiptVerify ---------------------------
(***************************************************************************)
(* `lastro verify` (cmd/lastro/main.go, cmdVerify; wire/validate.go,       *)
(* VerifyReceipt) beside the runs that write the receipt file and the CA   *)
(* that issues the certificate file.  A verification may start at any      *)
(* moment: before the files exist, while os.WriteFile has truncated one    *)
(* and not yet filled it, after another runner has replaced the receipt.   *)
(***************************************************************************)
EXTENDS CertChain

CONSTANTS
  Spans,         \* what `lastro run` and other signers may leave as receipt
  Certs,         \* what the CA may leave as certificate
  CommandLines,  \* argument lists of `lastro verify`
  CAFiles,       \* names of files given to --ca
  CAKeyIn        \* CAKeyIn[f]: the CA key in file f, NoKey if not 32 bytes

NoKey == 0

ASSUME VerifyAssumption ==
  /\ \A c \in Certs : IsCert(c)
  /\ \A args \in CommandLines : args \in Seq(STRING)
  /\ CAKeyIn \in [CAFiles -> Nat]

VARIABLES
  receipt,  \* the receipt file: [kind |-> "missing"], "torn", "span" ...
  cert,     \* the certificate file, likewise
  last      \* the last verification: command line, files as read, the report
            \* it printed and its exit code (NotRun before the first, Running
            \* while it reads)

vars == <<receipt, cert, last>>

Missing == [kind |-> "missing"]
Torn == [kind |-> "torn"]

NotRun == -1
Running == -2

verifyOK == 0
verifyInvalid == 1
verifyUsage == 2

\* Faulty: an exit code the header does not list.
Bug_verifyUnanchored == 4

verifyUnanchored == 3

CeilingDirectObservation == 242
CeilingExpertTestimony == 216
CeilingDocumentation == 191
CeilingInference == 165

\* Faulty: a method outside the table gets the benefit of the doubt.
Bug_ClassOfUnknown(methodID) ==
  CASE methodID \in 1 .. 4 -> <<"DirectObservation", CeilingDirectObservation>>
    [] methodID \in 5 .. 6 -> <<"Documentation", CeilingDocumentation>>
    [] OTHER -> <<"ExpertTestimony", CeilingExpertTestimony>>

\* The evidence class of a method and its ceiling (in units of 1/255).
ClassOf(methodID) ==
  CASE methodID \in 1 .. 4 -> <<"DirectObservation", CeilingDirectObservation>>
    [] methodID \in 5 .. 6 -> <<"Documentation", CeilingDocumentation>>
    [] methodID = 7 -> <<"ExpertTestimony", CeilingExpertTestimony>>
    [] OTHER -> <<"Inference", CeilingInference>>

NoReport == [class |-> "none", ceiling |-> 0, inWindow |-> "unsaid"]

\* The report; the line about the window is printed only with a certificate.
printReport(s, c) ==
  [class |-> ClassOf(s.method)[1],
   ceiling |-> ClassOf(s.method)[2],
   inWindow |-> IF c.kind # "cert" THEN "unsaid"
                ELSE IF c.notBefore <= s.observedAt /\ s.observedAt < c.notAfter
                THEN "yes" ELSE "no"]

\* The flag package: flags, each with its value, up to the first argument
\* that is not a flag; everything from there on is positional.
LeadingFlags(args) ==
  {i \in DOMAIN args : \A j \in 1 .. i : args[j] # "FILE"}

\* fs.NArg(): a flag after the first positional counts twice, as itself and
\* as its value.
NArg(args) ==
  LET rest == DOMAIN args \ LeadingFlags(args)
  IN  Cardinality(rest) + Cardinality({i \in rest : args[i] # "FILE"})

CertGiven(args) == \E i \in LeadingFlags(args) : args[i] = "--cert"

caPaths(args) == {args[i] : i \in LeadingFlags(args)} \cap CAFiles

\* What the executor signs: every field before sig (those no check reads,
\* span_id, trace_id, origin and digest, are left out of the model).
SpanTBS(s) == [f \in {"executor", "resourceFp", "method", "observedAt"} |-> s[f]]

\* The receipt `lastro run` writes with signing key k: a resource under k's
\* own fingerprint, method 1, k's signature.
BuildSpan(k, at) ==
  LET s == [kind |-> "span", executor |-> k, resourceFp |-> k, method |-> 1,
            observedAt |-> at]
  IN  [f \in DOMAIN s \cup {"sig"} |->
         IF f = "sig" THEN SignTagged(DomainSpan, SpanTBS(s), k) ELSE s[f]]

VerifySig(s) == VerifySigned(DomainSpan, SpanTBS(s), s.sig, s.executor)

\* Faulty: the executor role is not asked for.
Bug_ReceiptAnyRole(s, c, trusted) ==
  /\ VerifySig(s)
  /\ ValidateCertChainNoClock(c, trusted)
  /\ c.key = s.executor
  /\ s.resourceFp = c.key

\* TRUE where VerifyReceipt returns nil.  resourceFp is the executor
\* fingerprint at the head of the resource; a fingerprint stands for its key.
VerifyReceipt(s, c, trusted) ==
  /\ VerifySig(s)
  /\ ValidateCertChainNoClock(c, trusted)
  /\ "executor" \in c.roles
  /\ c.key = s.executor
  /\ s.resourceFp = c.key

\* Faulty: without --cert the signature is not checked.
Bug_UnanchoredUnchecked(args, r, c) ==
  LET trusted == {CAKeyIn[f] : f \in caPaths(args)}
  IN  CASE NArg(args) # 1 -> verifyUsage
        [] NArg(args) = 1 /\ r.kind # "span" -> verifyInvalid
        [] NArg(args) = 1 /\ r.kind = "span" /\ ~CertGiven(args) -> verifyUnanchored
        [] OTHER -> IF c.kind = "cert" /\ VerifyReceipt(r, c, trusted)
                    THEN verifyOK ELSE verifyInvalid

\* The exits of cmdVerify in the order of the code: what must hold to get
\* past each, and its code.
Exits(args, r, c) ==
  LET trusted == {CAKeyIn[f] : f \in caPaths(args)}
  IN  << [ok |-> NArg(args) = 1, code |-> verifyUsage],
         [ok |-> r.kind = "span", code |-> verifyInvalid],    \* ReadFile, ParseSpan
         [ok |-> r.kind = "span" /\ VerifySig(r), code |-> verifyInvalid],
         [ok |-> CertGiven(args), code |-> verifyUnanchored],
         [ok |-> c.kind = "cert" /\ ParseCert(c), code |-> verifyInvalid],
         [ok |-> caPaths(args) # {}, code |-> verifyUsage],
         [ok |-> NoKey \notin trusted, code |-> verifyUsage],
         [ok |-> r.kind = "span" /\ c.kind = "cert" /\ VerifyReceipt(r, c, trusted),
          code |-> verifyInvalid] >>

\* The first condition that fails decides.
cmdVerify(args, r, c) ==
  LET exits == Exits(args, r, c)
      failing == {i \in 1 .. 8 : ~exits[i].ok}
  IN  IF failing = {} THEN verifyOK
      ELSE exits[CHOOSE i \in failing : \A j \in failing : i <= j].code

\* What the invocation prints before it exits: only two of the exits report.
Report(exit, r, c) ==
  CASE exit = verifyUnanchored -> printReport(r, Missing)
    [] exit = verifyOK -> printReport(r, c)
    [] OTHER -> NoReport

Init ==
  /\ receipt = Missing
  /\ cert = Missing
  /\ last = [exit |-> NotRun, args |-> <<>>, receipt |-> Missing, cert |-> Missing,
             report |-> NoReport]

\* `lastro run` (or a copy) truncates the receipt file ...
ReceiptOpens ==
  /\ receipt' = Torn
  /\ UNCHANGED <<cert, last>>

\* ... and fills it.
ReceiptFills(s) ==
  /\ receipt = Torn
  /\ receipt' = s
  /\ UNCHANGED <<cert, last>>

\* The CA issues or renews the certificate.
CertOpens ==
  /\ cert' = Torn
  /\ UNCHANGED <<receipt, last>>

CertFills(c) ==
  /\ cert = Torn
  /\ cert' = c
  /\ UNCHANGED <<receipt, last>>

\* The arguments are parsed and the receipt is read ...
VerifyBegins(args) ==
  /\ last.exit # Running
  /\ last' = [exit |-> Running, args |-> args, receipt |-> receipt, cert |-> Missing,
              report |-> NoReport]
  /\ UNCHANGED <<receipt, cert>>

\* ... and, by then perhaps renewed, the certificate.
VerifyEnds ==
  /\ last.exit = Running
  /\ LET exit == cmdVerify(last.args, last.receipt, cert)
     IN  last' = [exit |-> exit, args |-> last.args, receipt |-> last.receipt,
                  cert |-> cert, report |-> Report(exit, last.receipt, cert)]
  /\ UNCHANGED <<receipt, cert>>

Next ==
  \/ ReceiptOpens
  \/ \E s \in Spans : ReceiptFills(s)
  \/ CertOpens
  \/ \E c \in Certs : CertFills(c)
  \/ \E args \in CommandLines : VerifyBegins(args)
  \/ VerifyEnds

Spec == Init /\ [][Next]_vars
-----------------------------------------------------------------------------
\* The files hold nothing, part of a structure, or one structure; the exit
\* code is one of the documented four.
TypeOK ==
  /\ receipt \in {Missing, Torn} \cup Spans
  /\ cert \in {Missing, Torn} \cup Certs
  /\ last.exit \in {NotRun, Running, 0, 1, 2, 3}
  /\ last.receipt \in {Missing, Torn} \cup Spans
  /\ last.cert \in {Missing, Torn} \cup Certs
  /\ last.report.ceiling \in {0, 165, 191, 216, 242}

\* Exit 0 ("VERIFIED") means what RECEIPT-PROFILE section 4 says: the holder
\* of the certified key signed this receipt as a span, every CA behind the
\* certificate is one the verifier trusts, the key is an executor's and
\* nothing else's, its certificate's window is within the cap in exact
\* integers, and the resource names that executor.
VerifiedIsAuthentic ==
  last.exit = verifyOK =>
    LET s == last.receipt
        c == last.cert
        trusted == {CAKeyIn[f] : f \in caPaths(last.args)} \ {NoKey}
    IN  /\ s.kind = "span" /\ c.kind = "cert"
        /\ s.sig = SignTagged(DomainSpan, SpanTBS(s), c.key)
        /\ Signers(c) # {}
        /\ {c.pairs[i].key : i \in DOMAIN c.pairs} = Signers(c)
        /\ Signers(c) \subseteq trusted
        /\ Cardinality(Signers(c)) = Len(c.pairs)
        /\ c.roles \cap {"agent", "approver", "executor"} = {"executor"}
        /\ c.notAfter - c.notBefore <= MaxPrivilegedLifetimeMS
        /\ s.resourceFp = c.key

\* "Never presentable as a verified receipt": without --cert a receipt is at
\* best UNANCHORED, and UNANCHORED still says that its signature is valid.
UnanchoredIsSigned ==
  /\ last.exit = verifyUnanchored =>
       /\ ~CertGiven(last.args)
       /\ last.receipt.kind = "span"
       /\ last.receipt.sig.by = last.receipt.executor
       /\ last.receipt.sig.tag = DomainSpan
  /\ last.exit = verifyOK => CertGiven(last.args)

\* BE-EVID-13 in the report a reader relies on.  A report is only printed by
\* a verification that ended VERIFIED or UNANCHORED; a class above the
\* Inference floor rests on a method of the table that the executor itself
\* signed (1 to 4 for a direct observation, never an unknown method); and
\* "observed_at in window" rests on a window that every CA behind the
\* certificate signed and a time that the executor signed.
ReportIsEarned ==
  LET s == last.receipt
      c == last.cert
  IN  /\ last.report # NoReport <=> last.exit \in {verifyOK, verifyUnanchored}
      /\ last.report.ceiling > CeilingInference => s.sig.tbs.method \in 1 .. 7
      /\ last.report.class = "DirectObservation" => s.sig.tbs.method \in 1 .. 4
      /\ last.report.inWindow = "yes" =>
           /\ last.exit = verifyOK
           /\ \A i \in DOMAIN c.pairs :
                /\ c.pairs[i].sig.tbs.notBefore <= s.sig.tbs.observedAt
                /\ s.sig.tbs.observedAt < c.pairs[i].sig.tbs.notAfter

\* The files are the ones the documentation means: a receipt `lastro run`
\* wrote, the certificate a CA issued to that runner as an executor.
HonestFiles ==
  /\ last.receipt.kind = "span"
  /\ last.receipt = BuildSpan(last.receipt.executor, last.receipt.observedAt)
  /\ last.cert.kind = "cert"
  /\ last.cert.key = last.receipt.executor
  /\ last.cert.roles = {"executor"}
  /\ last.cert.notAfter - last.cert.notBefore \in 0 .. MaxPrivilegedLifetimeMS
  /\ ParseCert(last.cert)
  /\ Signers(last.cert) = {last.cert.pairs[i].key : i \in DOMAIN last.cert.pairs}
  /\ NoKey \notin Signers(last.cert)

\* What `lastro run` wrote under a key the CA certified verifies, whichever
\* trusted keys come along, when the flags precede the file.
HonestVerifies ==
  LET n == Len(last.args)
  IN  /\ last.exit \notin {NotRun, Running}
      /\ HonestFiles
      /\ n > 0 /\ last.args[n] = "FILE"
      /\ \A i \in 1 .. n - 1 : last.args[i] # "FILE"
      /\ CertGiven(last.args)
      /\ \A f \in caPaths(last.args) : CAKeyIn[f] # NoKey
      /\ Signers(last.cert) \subseteq {CAKeyIn[f] : f \in caPaths(last.args)}
      => last.exit = verifyOK

\* README.md gives the command as
\*   lastro verify lastro.receipt --cert keys/cert.bin --ca ca.pub
\* which should verify the receipt of the run before it.
DocumentedCommandVerifies ==
  \A f \in CAFiles :
    /\ last.exit \notin {NotRun, Running}
    /\ HonestFiles
    /\ last.args = <<"FILE", "--cert", f>>
    /\ Signers(last.cert) = {CAKeyIn[f]}
    => last.exit = verifyOK
=============================================================================
