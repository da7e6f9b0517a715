----------------------------- MODULE MCInterop -----------------------------
(* Two runs of the harness against a daemon with two slots.                 *)
EXTENDS Interop

goStatic == 51
otherStatic == 52
daemonStatic == 53
lowOrder == 54

MCLowOrder == {lowOrder}

\* A certificate for key, signed by the CAs in cas.
Issue(key, roles, cas) ==
  LET c == [version |-> 1, roles |-> roles, key |-> key, notBefore |-> 0,
            notAfter |-> 3, scope |-> <<>>]
  IN  [f \in DOMAIN c \cup {"pairs"} |->
         IF f = "pairs"
         THEN [i \in DOMAIN cas |->
                 [key |-> cas[i], sig |-> SignTagged(DomainCert, c, cas[i])]]
         ELSE c[f]]

MCDaemonCert == Issue(20, {"executor"}, <<1>>)

Good ==
  [s |-> goStatic, S |-> goStatic, sig |-> 10, cert |-> Issue(10, {"agent"}, <<1>>),
   rs |-> daemonStatic, sigPub |-> 20, cas |-> <<1, 2>>, intent |-> TRUE, fits |-> TRUE]

\* The right files, and one thing wrong at a time.
MCOptions ==
  {Good,
   [Good EXCEPT !.intent = FALSE],
   [Good EXCEPT !.fits = FALSE],
   [Good EXCEPT !.S = otherStatic],
   [Good EXCEPT !.rs = otherStatic],
   [Good EXCEPT !.rs = lowOrder],
   [Good EXCEPT !.sigPub = 21],
   [Good EXCEPT !.cas = <<2, NoFile, 1>>],
   [Good EXCEPT !.cas = <<NoFile, 1>>],
   [Good EXCEPT !.cert = Issue(11, {"agent"}, <<1>>)]}
=============================================================================
