-------------------------- MODULE MCReceiptVerify --------------------------
(* Two runners, two trusted CAs and one unknown CA.                        *)
EXTENDS ReceiptVerify

CA1 == 1
CA2 == 2
CA3 == 3
Runner == 21
Other == 22

Issue(k, roles, nb, na, cas) ==
  LET c == [kind |-> "cert", version |-> 3, roles |-> roles, key |-> k,
            notBefore |-> nb, notAfter |-> na, scope |-> {}]
  IN  [f \in DOMAIN c \cup {"pairs"} |->
         IF f = "pairs"
         THEN [i \in DOMAIN cas |->
                [key |-> cas[i], sig |-> SignTagged(DomainCert, CertTBS(c), cas[i])]]
         ELSE c[f]]

Good == Issue(Runner, {"executor"}, 1, 4, <<CA1>>)

MCCerts ==
  {Good,
   Issue(Runner, {"executor", "relay"}, 0, 3, <<CA1, CA2>>),
   Issue(Other, {"executor"}, 5, 7, <<CA2>>),
   Issue(Runner, {"executor"}, 0, 4, <<CA1>>),             \* one too long
   Issue(Runner, {"executor"}, 7, 1, <<CA1>>),             \* inverted, wraps small
   Issue(Runner, {"approver"}, 0, 1, <<CA1, CA2>>),
   Issue(Runner, {"executor", "agent"}, 0, 1, <<CA1>>),
   Issue(Runner, {"executor"}, 0, 1, <<CA3>>),
   Issue(Runner, {"executor"}, 0, 1, <<CA1, CA1>>),        \* does not parse
   [Good EXCEPT !.key = Other]}                            \* changed after signing

MCSpans ==
  {BuildSpan(Runner, 2), BuildSpan(Other, 6),
   [BuildSpan(Runner, 2) EXCEPT !.resourceFp = Other],     \* changed after signing
   [BuildSpan(Runner, 2) EXCEPT !.resourceFp = Other,
      !.sig.tbs.resourceFp = Other],                       \* signed, wrong resource
   [BuildSpan(Runner, 2) EXCEPT !.sig.tag = DomainCert],
   [BuildSpan(Runner, 2) EXCEPT !.executor = Other],
   [BuildSpan(Runner, 2) EXCEPT !.method = 5, !.sig.tbs.method = 5],
   [BuildSpan(Runner, 4) EXCEPT !.method = 7, !.sig.tbs.method = 7],
   [BuildSpan(Runner, 1) EXCEPT !.method = 9, !.sig.tbs.method = 9],
   [BuildSpan(Runner, 2) EXCEPT !.sig.tbs.method = 9]}     \* changed after signing

MCCAFiles == {"ca1.pub", "ca2.pub", "bad.pub"}

MCCAKeyIn == [f \in MCCAFiles |->
  CASE f = "ca1.pub" -> CA1 [] f = "ca2.pub" -> CA2 [] OTHER -> NoKey]

MCCommandLines ==
  {<<"FILE">>, <<>>, <<"--cert", "FILE">>,
   <<"--cert", "ca1.pub", "FILE">>,
   <<"ca1.pub", "--cert", "ca2.pub", "FILE">>,
   <<"--cert", "ca1.pub", "bad.pub", "FILE">>,
   <<"FILE", "--cert", "ca1.pub">>}
=============================================================================
