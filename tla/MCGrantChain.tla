---------------------------- MODULE MCGrantChain ----------------------------
(***************************************************************************)
(* One honest grant and context, and what differs from them in one place:  *)
(* each check of the chain has an input that only it refuses.              *)
(***************************************************************************)
EXTENDS GrantChain

CA1 == 1
CA2 == 2
CA3 == 3      \* not trusted
Approver == 11
Agent == 12
Executor == 13

App == <<"a", "/", "p">>
App2 == <<"a", "/", "p", "q">>

Sealed(c, cas) ==
  [f \in DOMAIN c \cup {"pairs"} |->
     IF f = "pairs"
     THEN [i \in DOMAIN cas |->
            [key |-> cas[i], sig |-> SignTagged(DomainCert, CertTBS(c), cas[i])]]
     ELSE c[f]]

ApproverBody ==
  [version |-> 3, roles |-> {"approver"}, key |-> Approver, notBefore |-> 1,
   notAfter |-> 6, scope |-> {<<"a">>}]

AgentBody ==
  [version |-> 3, roles |-> {"agent", "participant"}, key |-> Agent, notBefore |-> 0,
   notAfter |-> 7, scope |-> {App, App2}]

GoodApprover == Sealed(ApproverBody, <<CA1, CA2>>)

GoodAgent == Sealed(AgentBody, <<CA1>>)

\* Seven windows: full length, one too long, empty, inverted (the unsigned
\* difference wraps to a small and to a large value).
Windows == {<<0, 5>>, <<0, 6>>, <<3, 3>>, <<6, 1>>, <<2, 1>>, <<2, 7>>, <<4, 6>>}

ApproverCerts ==
  {GoodApprover}
    \cup {Sealed([ApproverBody EXCEPT !.notBefore = w[1], !.notAfter = w[2]], <<CA1, CA2>>)
            : w \in Windows}
    \cup {Sealed(ApproverBody, cas)
            : cas \in {<<>>, <<CA1>>, <<CA1, CA1>>, <<CA2, CA1>>, <<CA1, CA3>>}}
    \cup {Sealed([ApproverBody EXCEPT !.roles = r], <<CA1, CA2>>)
            : r \in {{"agent"}, {"approver", "executor"}, {"approver", "relay"}}}
    \cup {Sealed([ApproverBody EXCEPT !.scope = s], <<CA1, CA2>>) : s \in {{}, {App2}}}
    \cup {Sealed([ApproverBody EXCEPT !.scope = {}, !.version = 2], <<CA1, CA2>>)}
    \cup {[GoodApprover EXCEPT !.key = Agent],
          [GoodApprover EXCEPT !.pairs[2].sig = SignTagged(DomainCert, CertTBS(GoodAgent), CA2)],
          [GoodApprover EXCEPT !.pairs[2].sig.tag = DomainGrant]}

SubjectCerts ==
  {GoodAgent}
    \cup {Sealed([AgentBody EXCEPT !.notBefore = w[1], !.notAfter = w[2]], <<CA1>>)
            : w \in {<<2, 3>>, <<3, 2>>}}
    \cup {Sealed([AgentBody EXCEPT !.roles = r], <<CA1>>)
            : r \in {{"participant"}, {"agent", "executor"}}}
    \cup {Sealed([AgentBody EXCEPT !.scope = {App2}], <<CA1>>),
          Sealed(AgentBody, <<CA3>>),
          Sealed([AgentBody EXCEPT !.key = Approver], <<CA1>>)}

GoodPending ==
  [intentID |-> "i1", sender |-> Agent, resourceID |-> App, action |-> "act1"]

GoodContext ==
  [bodyType |-> "grant", envelopeSender |-> Approver, ownPubkey |-> Executor,
   trustedCAs |-> {CA1, CA2}, approverCert |-> GoodApprover, subjectCert |-> GoodAgent,
   pending |-> GoodPending, tMaxSeconds |-> 2, tRecvSeconds |-> 1]

MCContexts ==
  {[GoodContext EXCEPT !.approverCert = c] : c \in ApproverCerts}
    \cup {[GoodContext EXCEPT !.subjectCert = c] : c \in SubjectCerts}
    \cup {[GoodContext EXCEPT !.tMaxSeconds = l[1], !.tRecvSeconds = l[2]]
            : l \in {<<0, 0>>, <<3, 3>>, <<4, 2>>, <<5, 7>>}}
    \cup {[GoodContext EXCEPT !.bodyType = "effect"],
          [GoodContext EXCEPT !.envelopeSender = Agent],
          [GoodContext EXCEPT !.ownPubkey = Agent],
          [GoodContext EXCEPT !.pending.sender = Approver],
          [GoodContext EXCEPT !.pending.intentID = "i2"],
          [GoodContext EXCEPT !.pending.resourceID = App2],
          [GoodContext EXCEPT !.pending.action = "act2"]}

Signed(g, key) ==
  [f \in DOMAIN g \cup {"sig"} |->
     IF f = "sig" THEN SignTagged(DomainGrant, GrantTBS(g), key) ELSE g[f]]

GrantBody ==
  [version |-> 2, intentID |-> "i1", approver |-> Approver, subject |-> Agent,
   executor |-> Executor, resourceID |-> App, actionDigest |-> Blake2s256("act1"),
   notAfter |-> 5]

MCGrants ==
  {Signed([GrantBody EXCEPT !.notAfter = t], Approver) : t \in {0, 3, 5, 7}}
    \cup {Signed([GrantBody EXCEPT !.version = 1], Approver),
          Signed(GrantBody, Agent),
          [Signed(GrantBody, Approver) EXCEPT !.notAfter = 6]}
=============================================================================
