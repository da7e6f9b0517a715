--------------------------- MODULE ChannelProofs ----------------------------
(***************************************************************************)
(* The harness and the daemon implement the abstract pairing; a handshake  *)
(* that was read completes; a run refuses only what was not sent in its own*)
(* session; no key seals twice under one nonce.                            *)
(***************************************************************************)
EXTENDS InteropProofs

-----------------------------------------------------------------------------
(* The abstract pairing.                                                   *)

\* What a step of a run changes of what the pairing is read off from.
LEMMA LearnsStep ==
  ASSUME IInv, NEW a \in Attempts, NEW q, att' = [att EXCEPT ![a] = q]
  PROVE  /\ \A b \in Attempts \ {a} : att'[b] = att[b]
         /\ att'[a] = q
BY DEF IInv, AttShape

\* A run that neither pairs nor verifies.
LEMMA StutterStep ==
  ASSUME \A a \in Attempts : att'[a].index = att[a].index /\ att'[a].cert = att[a].cert,
         \A s \in Sessions : /\ ses'[s].cert = ses[s].cert
                             /\ ses[s].cert # None => ses'[s].m1 = ses[s].m1,
         admitted' = admitted
  PROVE  UNCHANGED Ch!vars
BY DEF Ch!vars

\* Steps of a run other than the two that read what they waited for.
LEMMA OtherSteps ==
  ASSUME IInv, NEW a \in Attempts,
         \/ Proceeds(a) \/ (\E o \in Options : Load(a, o))
         \/ \E m \in down : StageAFails(a, m) \/ StageBFails(a, m)
  PROVE  UNCHANGED Ch!vars
<1>0. AttShape /\ IsProcess(att[a])
  BY ProcessRecord DEF IInv
<1>1. UNCHANGED <<ses, admitted>>
  BY DEF Proceeds, Load, Fails, Initiate, Bind, StageC, Deadline, StageAFails, StageBFails
<1>2. ASSUME NEW q, att' = [att EXCEPT ![a] = q], q.index = att[a].index, q.cert = att[a].cert
      PROVE  UNCHANGED Ch!vars
  <2>1. \A b \in Attempts : att'[b].index = att[b].index /\ att'[b].cert = att[b].cert
    BY <1>2, LearnsStep
  <2>. QED  BY <1>1, <2>1, StutterStep
<1>3. ASSUME NEW o \in Options, Load(a, o) PROVE UNCHANGED Ch!vars
  <2>. DEFINE q == [att[a] EXCEPT !.pc = "dial", !.opt = o]
  <2>1. att' = [att EXCEPT ![a] = q]
    BY <1>3 DEF Load
  <2>2. q.index = att[a].index /\ q.cert = att[a].cert
    BY <1>0 DEF IsProcess
  <2>. HIDE DEF q
  <2>. QED  BY <1>2, <2>1, <2>2
<1>4. ASSUME Fails(a) \/ Deadline(a) PROVE UNCHANGED Ch!vars
  <2>. DEFINE q == [att[a] EXCEPT !.pc = "failed"]
  <2>1. att' = [att EXCEPT ![a] = q]
    BY <1>4 DEF Fails, Deadline
  <2>2. q.index = att[a].index /\ q.cert = att[a].cert
    BY <1>0 DEF IsProcess
  <2>. HIDE DEF q
  <2>. QED  BY <1>2, <2>1, <2>2
<1>5. ASSUME Initiate(a) PROVE UNCHANGED Ch!vars
  <2>. DEFINE i == Wr(a).st
              q == [att[a] EXCEPT !.pc = "stageA", !.in = i]
  <2>1. att' = [att EXCEPT ![a] = q]
    BY <1>5 DEF Initiate, Wr
  <2>. HIDE DEF i
  <2>2. q.index = att[a].index /\ q.cert = att[a].cert
    BY <1>0 DEF IsProcess
  <2>. HIDE DEF q
  <2>. QED  BY <1>2, <2>1, <2>2
<1>6. ASSUME Bind(a) PROVE UNCHANGED Ch!vars
  <2>. DEFINE q == [att[a] EXCEPT !.pc = "stageB"]
  <2>1. att' = [att EXCEPT ![a] = q]
    BY <1>6 DEF Bind
  <2>2. q.index = att[a].index /\ q.cert = att[a].cert
    BY <1>0 DEF IsProcess
  <2>. HIDE DEF q
  <2>. QED  BY <1>2, <2>1, <2>2
<1>7. ASSUME StageC(a) PROVE UNCHANGED Ch!vars
  <2>. DEFINE q == [att[a] EXCEPT !.pc = "ok"]
  <2>1. att' = [att EXCEPT ![a] = q]
    BY <1>7 DEF StageC
  <2>2. q.index = att[a].index /\ q.cert = att[a].cert
    BY <1>0 DEF IsProcess
  <2>. HIDE DEF q
  <2>. QED  BY <1>2, <2>1, <2>2
<1>8. ASSUME NEW m \in down, StageAFails(a, m) PROVE UNCHANGED Ch!vars
  <2>. DEFINE i == IF m.type = 2 THEN ReadResponse(att[a].in, m, att[a].opt.sigPub).st
                   ELSE att[a].in
              q == [att[a] EXCEPT !.pc = "refused", !.read = m, !.in = i]
  <2>1. att' = [att EXCEPT ![a] = q]
    BY <1>8 DEF StageAFails
  <2>. HIDE DEF i
  <2>2. q.index = att[a].index /\ q.cert = att[a].cert
    BY <1>0 DEF IsProcess
  <2>. HIDE DEF q
  <2>. QED  BY <1>2, <2>1, <2>2
<1>9. ASSUME NEW m \in down, StageBFails(a, m) PROVE UNCHANGED Ch!vars
  <2>. DEFINE q == [att[a] EXCEPT !.pc = "refused", !.read = m]
  <2>1. att' = [att EXCEPT ![a] = q]
    BY <1>9 DEF StageBFails
  <2>2. q.index = att[a].index /\ q.cert = att[a].cert
    BY <1>0 DEF IsProcess
  <2>. HIDE DEF q
  <2>. QED  BY <1>2, <2>1, <2>2
<1>. QED  BY <1>3, <1>4, <1>5, <1>6, <1>7, <1>8, <1>9 DEF Proceeds

\* Stage A pairs the run with the slot it addresses from then on.
LEMMA StageAPairs ==
  ASSUME IInv, IInv', NEW a \in Attempts, NEW m \in down, StageA(a, m)
  PROVE  \E s \in Sessions : Ch!Pair(a, s)
<1>. DEFINE r == ReadResponse(att[a].in, m, att[a].opt.sigPub)
            res == FinalizeInitiator(r.st)
            s == m.body.sender
            q == [att[a] EXCEPT !.pc = "bind", !.in = r.st, !.res = res, !.index = s]
<1>1. /\ att[a].pc = "stageA" /\ att' = [att EXCEPT ![a] = q]
      /\ UNCHANGED <<ses, up, down, admitted>>
  BY DEF StageA
<1>2. IsProcess(att[a]) /\ ProcInv(a)
  BY ProcessRecord DEF IInv
<1>3. res # None
  BY FinIsRecord
<1>. HIDE DEF r, res, s
<1>4. q.index = s /\ q.cert = att[a].cert /\ q.res = res
  BY <1>2 DEF IsProcess
<1>. HIDE DEF q
<1>5. (\A b \in Attempts \ {a} : att'[b] = att[b]) /\ att'[a] = q
  BY <1>1, LearnsStep
<1>6. s \in Sessions /\ s # NoIndex
  BY <1>3, <1>4, <1>5, InteropAssumption DEF IInv, PairInv, NoIndex
<1>7. att[a].index = NoIndex
  BY <1>1, <1>2 DEF ProcInv
<1>8. ASSUME NEW b \in Attempts PROVE att[b].index # s
  <2>1. CASE b = a
    BY <1>6, <1>7, <2>1
  <2>2. CASE b # a
    <3>1. ASSUME att'[b].res # None, att'[b].index = s PROVE FALSE
      <4>1. ses'[s].m1.body.e = a
        BY <1>3, <1>4, <1>5 DEF IInv, PairInv
      <4>2. ses'[s].m1.body.e = b
        BY <3>1 DEF IInv, PairInv
      <4>. QED  BY <2>2, <4>1, <4>2
    <3>2. att'[b].res = None => att'[b].index = NoIndex
      BY DEF IInv, ProcInv
    <3>. QED  BY <1>5, <1>6, <2>2, <3>1, <3>2
  <2>. QED  BY <2>1, <2>2
<1>9. [b \in Attempts |-> att'[b].index]
        = [[b \in Attempts |-> att[b].index] EXCEPT ![a] = s]
  BY <1>4, <1>5
<1>10. \A b \in Attempts : att'[b].cert = att[b].cert
  BY <1>4, <1>5
<1>11. Ch!Pair(a, s)
  BY <1>1, <1>7, <1>8, <1>9, <1>10 DEF Ch!Pair
<1>. QED  BY <1>6, <1>11

\* Stage B verifies the daemon.
LEMMA StageBVerifies ==
  ASSUME IInv, IInv', NEW a \in Attempts, NEW m \in down, StageB(a, m)
  PROVE  Ch!Verify(a)
<1>. DEFINE x == IF att[a].opt.intent THEN "intent" ELSE "ok"
            c == Plaintext(m.ct)[2]
            q == [att[a] EXCEPT !.pc = x, !.cert = c]
<1>1. /\ att[a].pc = "stageB" /\ att' = [att EXCEPT ![a] = q]
      /\ UNCHANGED <<ses, up, down, admitted>>
  BY DEF StageB
<1>2. IsProcess(att[a]) /\ ProcInv(a)
  BY ProcessRecord DEF IInv
<1>3. x \in {"intent", "ok"}
  OBVIOUS
<1>. HIDE DEF x, c
<1>4. q.pc = x /\ q.index = att[a].index
  BY <1>2 DEF IsProcess
<1>. HIDE DEF q
<1>5. (\A b \in Attempts \ {a} : att'[b] = att[b]) /\ att'[a] = q
  BY <1>1, LearnsStep
<1>6. att'[a].cert # None
  BY <1>3, <1>4, <1>5 DEF IInv, ProcInv
<1>7. att[a].index # NoIndex
  <2>1. att[a].res # None
    BY <1>1, <1>2 DEF ProcInv
  <2>. QED  BY <2>1, InteropAssumption DEF IInv, PairInv, NoIndex
<1>8. [b \in Attempts |-> att'[b].index] = [b \in Attempts |-> att[b].index]
  BY <1>4, <1>5
<1>9. {b \in Attempts : att'[b].cert # None} = {b \in Attempts : att[b].cert # None} \cup {a}
  BY <1>5, <1>6
<1>. QED  BY <1>1, <1>7, <1>8, <1>9 DEF Ch!Verify

\* The daemon's own steps.
LEMMA DaemonRefines ==
  ASSUME IInv, Daemon
  PROVE  [Ch!Next]_(Ch!vars)
<1>1. ASSUME NEW s \in Sessions, NEW m \in up, Respond(s, m) PROVE UNCHANGED Ch!vars
  <2>1. /\ ses[s].state = "free" /\ ses'[s].cert = None
        /\ \A t \in Sessions \ {s} : ses'[t] = ses[t]
        /\ UNCHANGED <<att, up, admitted>>
    BY <1>1 DEF Respond, IInv, SesShape
  <2>2. ses[s].cert = None
    BY <2>1 DEF IInv, SlotInv
  <2>. QED  BY <2>1, <2>2, StutterStep
<1>2. ASSUME NEW s \in Sessions, NEW p \in up, DaemonBinds(s, p)
      PROVE  \E a \in Attempts : Ch!Own(a, s)
  <2>1. /\ IInv' /\ ses[s].cert = None /\ ses'[s].cert # None /\ ses'[s].m1 = ses[s].m1
        /\ \A t \in Sessions \ {s} : ses'[t] = ses[t]
    BY <1>2, BindsStep
  <2>2. UNCHANGED <<att, up, down, admitted>>
    BY <1>2 DEF DaemonBinds
  <2>. DEFINE a == ses[s].m1.body.e
  <2>3. a \in Attempts /\ att[a].index = s
    <3>1. OwnerInv(s)'
      BY <2>1 DEF IInv
    <3>. QED  BY <2>1, <2>2, <3>1 DEF OwnerInv
  <2>4. [t \in Sessions |-> IF ses'[t].cert = None THEN NoIndex ELSE ses'[t].m1.body.e]
          = [[t \in Sessions |-> IF ses[t].cert = None THEN NoIndex ELSE ses[t].m1.body.e]
               EXCEPT ![s] = a]
    BY <2>1
  <2>. HIDE DEF a
  <2>5. Ch!Own(a, s)
    BY <2>1, <2>2, <2>3, <2>4 DEF Ch!Own
  <2>. QED  BY <2>3, <2>5
<1>3. ASSUME NEW s \in Sessions, NEW p \in up, DaemonAdmits(s, p)
      PROVE  \E a \in Attempts : Ch!Admit(a, s)
  <2>1. PICK a \in Attempts :
          /\ att[a].cert # None /\ ses[s].cert # None /\ ses[s].m1.body.e = a
          /\ admitted' = admitted \cup {[slot |-> s, sender |-> att[a].opt.sig,
                                         intent |-> [id |-> a, resource |-> DaemonCert.key]]}
    BY <1>3, AdmitsStep
  <2>2. UNCHANGED <<att, ses, up, down>>
    BY <1>3 DEF DaemonAdmits
  <2>3. {<<x.intent.id, x.slot>> : x \in admitted'}
          = {<<x.intent.id, x.slot>> : x \in admitted} \cup {<<a, s>>}
    <3>1. PICK y : y = [slot |-> s, sender |-> att[a].opt.sig,
                        intent |-> [id |-> a, resource |-> DaemonCert.key]]
      OBVIOUS
    <3>2. y.intent.id = a /\ y.slot = s
      BY <3>1
    <3>3. admitted' = admitted \cup {y}
      BY <2>1, <3>1
    <3>4. <<y.intent.id, y.slot>> = <<a, s>>
      BY <3>2
    <3>. QED  BY <3>3, <3>4, Zenon
  <2>4. Ch!Admit(a, s)
    BY <2>1, <2>2, <2>3 DEF Ch!Admit
  <2>. QED  BY <2>4
<1>4. ASSUME DaemonRestarts PROVE UNCHANGED Ch!vars
  <2>1. UNCHANGED <<att, admitted>>
    BY <1>4 DEF DaemonRestarts
  <2>. QED  BY <1>4, <2>1, RestartStep, StutterStep
<1>. QED  BY <1>1, <1>2, <1>3, <1>4 DEF Daemon, Ch!Next

\* The harness, the handshake and the binding frames implement the abstract
\* pairing, for any number of runs and slots.
THEOREM Refinement == Spec => ImplementsChannel
<1>1. Init => Ch!Init
  <2>. SUFFICES ASSUME Init PROVE Ch!Init
    OBVIOUS
  <2>1. \A a \in Attempts : att[a].index = NoIndex /\ att[a].cert = None
    BY DEF Init
  <2>2. \A s \in Sessions : ses[s].cert = None
    BY DEF Init
  <2>3. admitted = {}
    BY DEF Init
  <2>. QED  BY <2>1, <2>2, <2>3 DEF Ch!Init
<1>2. ASSUME IInv, IInv', [Next]_vars PROVE [Ch!Next]_(Ch!vars)
  <2>1. CASE UNCHANGED vars \/ AllEnded
    BY <1>2, <2>1, StutterStep DEF vars, AllEnded
  <2>2. ASSUME NEW a \in Attempts, Proceeds(a) \/ \E o \in Options : Load(a, o)
        PROVE  UNCHANGED Ch!vars
    BY <1>2, <2>2, OtherSteps
  <2>3. ASSUME NEW a \in Attempts, NEW m \in down, Reads(a, m) PROVE [Ch!Next]_(Ch!vars)
    <3>1. CASE StageA(a, m)
      BY <1>2, <3>1, StageAPairs DEF Ch!Next
    <3>2. CASE StageB(a, m)
      BY <1>2, <3>2, StageBVerifies DEF Ch!Next
    <3>. QED  BY <1>2, <2>3, <3>1, <3>2, OtherSteps DEF Reads
  <2>4. ASSUME Daemon PROVE [Ch!Next]_(Ch!vars)
    BY <1>2, <2>4, DaemonRefines
  <2>. QED  BY <1>2, <2>1, <2>2, <2>3, <2>4 DEF Next
<1>. QED  BY <1>1, <1>2, Invariance, PTL DEF Spec, ImplementsChannel, Ch!Spec

-----------------------------------------------------------------------------
(* The keys of a completed handshake.                                      *)

\* X25519 with one key in common: equal results, equal keys; either side's.
LEMMA DhInjective ==
  ASSUME NEW x, NEW y, NEW z
  PROVE  /\ dh(x, y) = dh(x, z) => y = z
         /\ dh(x, y) = dh(y, x)
         /\ dh(x, y) # <<"nil">>
<1>1. dh(x, y) = dh(x, z) => {x, y} = {x, z}
  BY DEF dh
<1>2. {x, y} = {x, z} => y = z
  OBVIOUS
<1>3. {x, y} = {y, x}
  OBVIOUS
<1>4. dh(x, y) = dh(y, x)
  BY <1>3, Zenon DEF dh
<1>5. dh(x, y) # <<"nil">>
  BY DEF dh
<1>. QED  BY <1>1, <1>2, <1>4, <1>5

\* The keys and the chaining keys of the first message, by their inputs.
Chain1(x) == hkdf2(protocolName, x)[1]
Key1(x) == hkdf2(protocolName, x)[2]
Chain2(x, y) == hkdf2(Chain1(x), y)[1]
Key2(x, y) == hkdf2(Chain1(x), y)[2]

\* Its two transcript hashes up to the ciphertexts.
Hash1(rs, e) == Hash(Hash(protocolName, Pub(rs)), Pub(e))

\* Under which keys and hashes the ciphertexts of a written initiation w are.
Sealed(w, s, S, rs, e, sigPub) ==
  /\ w.msg.body.encS = AeadSeal(Key1(dh(e, rs)), 0, Pub(S), Hash1(rs, e))
  /\ \E t : w.msg.body.encT = AeadSeal(Key2(dh(e, rs), dh(s, rs)), 0, t,
                                       Hash(Hash1(rs, e), w.msg.body.encS))
  /\ w.st.sym.ck = Chain2(dh(e, rs), dh(s, rs))
  /\ w.msg.mac1 = computeMac1(sigPub, w.msg.body)

\* The keys of a written initiation: es for the static key, es and ss for the
\* timestamp.
LEMMA InitiationKeys ==
  ASSUME NEW s, NEW S, NEW rs, NEW idx, NEW time, NEW e, NEW sigPub,
         WriteInitiation(NewInitiator(s, S, rs), idx, time, e, sigPub).ok
  PROVE  Sealed(WriteInitiation(NewInitiator(s, S, rs), idx, time, e, sigPub),
                s, S, rs, e, sigPub)
<1>. DEFINE in == NewInitiator(s, S, rs)
            s0 == mixHash(in.sym, Pub(e))
            s1 == mixKey(s0, dh(e, in.rs))
            encS == Encrypted(s1, Pub(in.S))
            t1 == AndHash(s1, encS)
            s2 == mixKey(t1, dh(in.s, in.rs))
            encT == Encrypted(s2, <<"time", time>>)
            w == WriteInitiation(in, idx, time, e, sigPub)
<1>1. /\ in.s = s /\ in.S = S /\ in.rs = rs
      /\ in.sym.h = Hash(protocolName, Pub(rs))
      /\ in.sym.ck = protocolName
  BY DEF NewInitiator, mixHash, newSymmetricState
<1>2. /\ w.st.sym = AndHash(s2, encT)
      /\ w.msg.body.encS = encS /\ w.msg.body.encT = encT
      /\ w.msg.mac1 = computeMac1(sigPub, w.msg.body)
  BY DEF WriteInitiation, NewInitiator
<1>3. /\ s1.h = Hash1(rs, e) /\ s1.n = 0
      /\ s1.k = Key1(dh(e, rs)) /\ s1.ck = Chain1(dh(e, rs))
  <2>. HIDE DEF in
  <2>1. s0.h = Hash1(rs, e) /\ s0.ck = protocolName
    BY <1>1, SymSteps DEF Hash1
  <2>. HIDE DEF s0
  <2>2. /\ s1.h = s0.h /\ s1.n = 0
        /\ s1.k = hkdf2(s0.ck, dh(e, in.rs))[2] /\ s1.ck = hkdf2(s0.ck, dh(e, in.rs))[1]
    BY SymSteps
  <2>. HIDE DEF s1
  <2>. QED  BY <1>1, <2>1, <2>2 DEF Key1, Chain1
<1>4. encS = AeadSeal(s1.k, s1.n, Pub(S), s1.h)
  <2>. HIDE DEF s1, in
  <2>1. s1.k # NoKey
    BY <1>3, KdfIsKey DEF Key1
  <2>. QED  BY <1>1, <2>1 DEF Encrypted
<1>5. /\ s2.h = Hash(s1.h, encS) /\ s2.n = 0
      /\ s2.k = hkdf2(s1.ck, dh(in.s, in.rs))[2] /\ s2.ck = hkdf2(s1.ck, dh(in.s, in.rs))[1]
  <2>1. t1.h = Hash(s1.h, encS) /\ t1.ck = s1.ck
    <3>. HIDE DEF s1, encS
    <3>. QED  BY SymSteps
  <2>. HIDE DEF t1, in
  <2>2. /\ s2.h = t1.h /\ s2.n = 0
        /\ s2.k = hkdf2(t1.ck, dh(in.s, in.rs))[2] /\ s2.ck = hkdf2(t1.ck, dh(in.s, in.rs))[1]
    BY SymSteps
  <2>. HIDE DEF s1, s2, encS
  <2>. QED  BY <2>1, <2>2
<1>6. encT = AeadSeal(s2.k, s2.n, <<"time", time>>, s2.h)
  <2>1. s2.k # NoKey
    BY <1>5, KdfIsKey, Zenon
  <2>. HIDE DEF s2
  <2>. QED  BY <2>1 DEF Encrypted
<1>7. AndHash(s2, encT).ck = s2.ck
  BY SymSteps
<1>. HIDE DEF s0, s1, s2, encS, encT, w, in
<1>8. s2.k = Key2(dh(e, rs), dh(s, rs)) /\ s2.ck = Chain2(dh(e, rs), dh(s, rs))
  BY <1>1, <1>3, <1>5 DEF Key2, Chain2
<1>9. Sealed(w, s, S, rs, e, sigPub)
  <2>1. w.msg.body.encS = AeadSeal(Key1(dh(e, rs)), 0, Pub(S), Hash1(rs, e))
    BY <1>2, <1>3, <1>4
  <2>2. w.msg.body.encT = AeadSeal(Key2(dh(e, rs), dh(s, rs)), 0, <<"time", time>>,
                                   Hash(Hash1(rs, e), w.msg.body.encS))
    BY <1>2, <1>3, <1>5, <1>6, <1>8
  <2>3. w.st.sym.ck = Chain2(dh(e, rs), dh(s, rs))
    BY <1>2, <1>7, <1>8
  <2>. QED  BY <1>2, <2>1, <2>2, <2>3, Zenon DEF Sealed
<1>. QED  BY <1>9 DEF w, in

\* Under which keys and hashes a responder with this key opened what it read.
Opened(r, key, m, sigPub) ==
  LET rs == Plaintext(m.body.encS)[2]
  IN  /\ AeadOpens(Key1(dh(key, m.body.e)), 0, m.body.encS, Hash1(key, m.body.e))
      /\ AeadOpens(Key2(dh(key, m.body.e), dh(key, rs)), 0, m.body.encT,
                   Hash(Hash1(key, m.body.e), m.body.encS))
      /\ r.sym.ck = Chain2(dh(key, m.body.e), dh(key, rs))
      /\ m.mac1 = computeMac1(sigPub, m.body)

\* The keys of an initiation the responder reads.
LEMMA ResponderKeys ==
  ASSUME NEW key, NEW m, NEW sigPub,
         ReadInitiation(NewResponder(key, key), m, sigPub).ok
  PROVE  Opened(ReadInitiation(NewResponder(key, key), m, sigPub).st, key, m, sigPub)
<1>. DEFINE r0 == NewResponder(key, key)
            re == m.body.e
            s0 == mixHash(r0.sym, Pub(re))
            s1 == mixKey(s0, dh(r0.s, re))
            rs == Plaintext(m.body.encS)[2]
            t1 == AndHash(s1, m.body.encS)
            s2 == mixKey(t1, dh(r0.s, rs))
            r == ReadInitiation(r0, m, sigPub)
<1>1. r0.sym.h = Hash(protocolName, Pub(key)) /\ r0.sym.ck = protocolName /\ r0.s = key
  BY DEF NewResponder, mixHash, newSymmetricState
<1>2. /\ r.st.sym = AndHash(s2, m.body.encT)
      /\ m.mac1 = computeMac1(sigPub, m.body)
      /\ Decrypts(s1, m.body.encS) /\ Decrypts(s2, m.body.encT)
  BY DEF ReadInitiation, NewResponder
<1>3. /\ s1.h = Hash1(key, re) /\ s1.n = 0
      /\ s1.k = Key1(dh(key, re)) /\ s1.ck = Chain1(dh(key, re))
  <2>. HIDE DEF r0, re
  <2>1. s0.h = Hash1(key, re) /\ s0.ck = protocolName
    BY <1>1, SymSteps DEF Hash1
  <2>. HIDE DEF s0
  <2>2. /\ s1.h = s0.h /\ s1.n = 0
        /\ s1.k = hkdf2(s0.ck, dh(r0.s, re))[2] /\ s1.ck = hkdf2(s0.ck, dh(r0.s, re))[1]
    BY SymSteps
  <2>. HIDE DEF s1
  <2>. QED  BY <1>1, <2>1, <2>2 DEF Key1, Chain1
<1>4. /\ s2.h = Hash(s1.h, m.body.encS) /\ s2.n = 0
      /\ s2.k = hkdf2(s1.ck, dh(r0.s, rs))[2] /\ s2.ck = hkdf2(s1.ck, dh(r0.s, rs))[1]
  <2>1. t1.h = Hash(s1.h, m.body.encS) /\ t1.ck = s1.ck
    <3>. HIDE DEF s1
    <3>. QED  BY SymSteps
  <2>. HIDE DEF t1, r0, rs
  <2>2. /\ s2.h = t1.h /\ s2.n = 0
        /\ s2.k = hkdf2(t1.ck, dh(r0.s, rs))[2] /\ s2.ck = hkdf2(t1.ck, dh(r0.s, rs))[1]
    BY SymSteps
  <2>. HIDE DEF s1, s2
  <2>. QED  BY <2>1, <2>2
<1>5. AndHash(s2, m.body.encT).ck = s2.ck
  BY SymSteps
<1>. HIDE DEF r0, s0, s1, s2, r, re, rs
<1>6. s2.k = Key2(dh(key, re), dh(key, rs)) /\ s2.ck = Chain2(dh(key, re), dh(key, rs))
  BY <1>1, <1>3, <1>4 DEF Key2, Chain2
<1>7. AeadOpens(s1.k, s1.n, m.body.encS, s1.h)
  <2>1. s1.k # NoKey
    BY <1>3, KdfIsKey DEF Key1
  <2>. QED  BY <1>2, <2>1 DEF Decrypts
<1>8. AeadOpens(s2.k, s2.n, m.body.encT, s2.h)
  <2>1. s2.k # NoKey
    BY <1>4, KdfIsKey, Zenon
  <2>. QED  BY <1>2, <2>1 DEF Decrypts
<1>9. AeadOpens(Key2(dh(key, re), dh(key, rs)), 0, m.body.encT, Hash(Hash1(key, re), m.body.encS))
  BY <1>3, <1>4, <1>6, <1>8
<1>10. AeadOpens(Key1(dh(key, re)), 0, m.body.encS, Hash1(key, re))
  BY <1>3, <1>7
<1>11. r.st.sym.ck = Chain2(dh(key, re), dh(key, rs))
  BY <1>2, <1>5, <1>6
<1>12. Opened(r.st, key, m, sigPub)
  BY <1>2, <1>9, <1>10, <1>11, Zenon DEF Opened, re, rs
<1>. QED  BY <1>12 DEF r, r0

\* What a responder and the initiator whose message it read have in common.
SameKeys(in, r, s, S, rs, key, sp, sp2) ==
  /\ rs = key
  /\ s = S
  /\ sp = sp2
  /\ in.sym.ck = r.sym.ck
  /\ in.sym.h = r.sym.h
  /\ r.rs = S

\* A responder reads an initiation only if it was written for its static key and
\* its signing key, by the owner of the static key inside.
LEMMA ReadMeansSame ==
  ASSUME NEW s, NEW S, NEW rs, NEW idx, NEW time, NEW e, NEW sp, NEW key, NEW sp2, NEW w,
         w = WriteInitiation(NewInitiator(s, S, rs), idx, time, e, sp), w.ok,
         ReadInitiation(NewResponder(key, key), w.msg, sp2).ok
  PROVE  SameKeys(w.st, ReadInitiation(NewResponder(key, key), w.msg, sp2).st,
                  s, S, rs, key, sp, sp2)
<1>. DEFINE r == ReadInitiation(NewResponder(key, key), w.msg, sp2).st
            encS == w.msg.body.encS
            encT == w.msg.body.encT
<1>1. Written(w, s, S, rs, idx, e)
  BY InitiationTranscript, Zenon
<1>2. Sealed(w, s, S, rs, e, sp)
  BY InitiationKeys, Zenon
<1>3. Opened(r, key, w.msg, sp2)
  BY ResponderKeys, Zenon
<1>4. /\ r.sym.h = Hash(Hash(Hash(Hash(protocolName, Pub(key)), Pub(w.msg.body.e)), encS), encT)
      /\ r.rs = Plaintext(encS)[2]
  <2>. DEFINE msg == w.msg
  <2>0. ReadInitiation(NewResponder(key, key), msg, sp2).ok
    OBVIOUS
  <2>. HIDE DEF msg
  <2>1. /\ ReadInitiation(NewResponder(key, key), msg, sp2).st.sym.h
             = Hash(Hash(Hash(Hash(protocolName, Pub(key)), Pub(msg.body.e)), msg.body.encS),
                    msg.body.encT)
        /\ ReadInitiation(NewResponder(key, key), msg, sp2).st.rs = Plaintext(msg.body.encS)[2]
    BY <2>0, ResponderTranscript
  <2>. QED  BY <2>1, Zenon DEF msg
<1>. HIDE DEF r
<1>5. /\ w.msg.body.e = e /\ Plaintext(encS)[2] = S
      /\ w.st.sym.h = Hash(Hash(Hash(Hash(protocolName, Pub(rs)), Pub(e)), encS), encT)
  BY <1>1 DEF Written
<1>6. PICK t :
        /\ encS = AeadSeal(Key1(dh(e, rs)), 0, Pub(S), Hash1(rs, e))
        /\ encT = AeadSeal(Key2(dh(e, rs), dh(s, rs)), 0, t, Hash(Hash1(rs, e), encS))
        /\ w.st.sym.ck = Chain2(dh(e, rs), dh(s, rs))
        /\ w.msg.mac1 = computeMac1(sp, w.msg.body)
  BY <1>2, Zenon DEF Sealed
<1>7. /\ AeadOpens(Key1(dh(key, e)), 0, encS, Hash1(key, e))
      /\ AeadOpens(Key2(dh(key, e), dh(key, S)), 0, encT, Hash(Hash1(key, e), encS))
      /\ r.sym.ck = Chain2(dh(key, e), dh(key, S))
      /\ w.msg.mac1 = computeMac1(sp2, w.msg.body)
  BY <1>3, <1>5, Zenon DEF Opened
<1>. HIDE DEF encS, encT
<1>8. Hash1(rs, e) = Hash1(key, e)
  <2>. DEFINE k == Key1(dh(e, rs))
              l == Key1(dh(key, e))
              x == Hash1(rs, e)
              y == Hash1(key, e)
  <2>1. encS = AeadSeal(k, 0, Pub(S), x) /\ AeadOpens(l, 0, encS, y)
    BY <1>6, <1>7, Zenon
  <2>. HIDE DEF k, l, x, y
  <2>2. x = y
    BY <2>1 DEF AeadSeal, AeadOpens
  <2>. QED  BY <2>2 DEF x, y
<1>9. rs = key
  BY <1>8, HashTwiceInjective, PubInjective DEF Hash1
<1>10. sp = sp2
  <2>1. computeMac1(sp, w.msg.body) = computeMac1(sp2, w.msg.body)
    BY <1>6, <1>7, Zenon
  <2>. QED  BY <2>1 DEF computeMac1
<1>11. Key2(dh(e, rs), dh(s, rs)) = Key2(dh(key, e), dh(key, S))
  <2>. DEFINE k == Key2(dh(e, rs), dh(s, rs))
              l == Key2(dh(key, e), dh(key, S))
              x == Hash(Hash1(rs, e), encS)
              y == Hash(Hash1(key, e), encS)
  <2>1. encT = AeadSeal(k, 0, t, x) /\ AeadOpens(l, 0, encT, y)
    BY <1>6, <1>7, Zenon
  <2>. HIDE DEF k, l, x, y
  <2>2. k = l
    BY <2>1 DEF AeadSeal, AeadOpens
  <2>. QED  BY <2>2 DEF k, l
<1>12. dh(s, rs) = dh(key, S)
  BY <1>11, KdfInjective DEF Key2
<1>13. s = S
  BY <1>9, <1>12, DhInjective
<1>14. dh(e, rs) = dh(key, e)
  BY <1>9, DhInjective
<1>15. w.st.sym.ck = r.sym.ck
  BY <1>6, <1>7, <1>12, <1>14
<1>16. w.st.sym.h = r.sym.h
  BY <1>4, <1>5, <1>9
<1>. QED  BY <1>4, <1>5, <1>9, <1>10, <1>13, <1>15, <1>16, Zenon DEF SameKeys, r

\* A response with the right mac, a usable key and a payload sealed under the
\* initiator's next key and hash.
Acceptable(in, m, sp) ==
  /\ m.mac1 = computeMac1(sp, m.body)
  /\ m.body.e \notin LowOrder
  /\ AeadOpens(hkdf2(hkdf2(in.sym.ck, dh(in.e, m.body.e))[1], dh(in.s, m.body.e))[2],
               0, m.body.encNothing, Hash(in.sym.h, Pub(m.body.e)))

\* ReadResponse takes it.
LEMMA ReadResponseTakes ==
  ASSUME NEW in, NEW m, NEW sp, Acceptable(in, m, sp)
  PROVE  ReadResponse(in, m, sp).ok
<1>. DEFINE re == m.body.e
            s0 == mixHash(in.sym, Pub(re))
            s1 == mixKey(mixKey(s0, dh(in.e, re)), dh(in.s, re))
<1>1. /\ s1.h = Hash(in.sym.h, Pub(re)) /\ s1.n = 0
      /\ s1.k = hkdf2(hkdf2(in.sym.ck, dh(in.e, re))[1], dh(in.s, re))[2]
  <2>1. ReadyFor(s1, in, re)
    BY ResponseState, Zenon
  <2>. HIDE DEF s1
  <2>. QED  BY <2>1, Zenon DEF ReadyFor
<1>2. Decrypts(s1, m.body.encNothing)
  <2>. HIDE DEF s1
  <2>. QED  BY <1>1, Zenon DEF Decrypts, Acceptable
<1>3. ReadResponse(in, m, sp).ok
        = (m.mac1 = computeMac1(sp, m.body) /\ ~dhFails(re) /\ Decrypts(s1, m.body.encNothing))
  BY DEF ReadResponse
<1>. HIDE DEF s1
<1>. QED  BY <1>2, <1>3, Zenon DEF Acceptable, dhFails

\* An initiator takes the response (ReadResponse returns nil) of every responder
\* that read its initiation, for all keys: with HandshakeAgrees, a response is
\* refused only by those it was not written for.
THEOREM HandshakeCompletes ==
  ASSUME NEW s, NEW S, NEW rs, NEW idx, NEW time, NEW e, NEW sp, NEW key, NEW sp2, NEW w,
         NEW i, NEW j, NEW f, f \notin LowOrder,
         w = WriteInitiation(NewInitiator(s, S, rs), idx, time, e, sp), w.ok,
         ReadInitiation(NewResponder(key, key), w.msg, sp2).ok
  PROVE  ReadResponse(w.st, WriteResponse(ReadInitiation(NewResponder(key, key), w.msg, sp2).st,
                                          i, j, f, sp2).msg, sp).ok
<1>. DEFINE r == ReadInitiation(NewResponder(key, key), w.msg, sp2).st
            a == WriteResponse(r, i, j, f, sp2)
            m == a.msg
            in == w.st
<1>1. SameKeys(in, r, s, S, rs, key, sp, sp2)
  BY ReadMeansSame, Zenon
<1>2. r.re = w.msg.body.e /\ "sym" \in DOMAIN r
  <2>. DEFINE msg == w.msg
  <2>0. ReadInitiation(NewResponder(key, key), msg, sp2).ok
    OBVIOUS
  <2>. HIDE DEF msg
  <2>1. /\ ReadInitiation(NewResponder(key, key), msg, sp2).st.re = msg.body.e
        /\ "sym" \in DOMAIN ReadInitiation(NewResponder(key, key), msg, sp2).st
    BY <2>0, ResponderTranscript
  <2>. QED  BY <2>1, Zenon DEF msg
<1>3. w.msg.body.e = e /\ in.e = e /\ in.s = s
  <2>1. Written(w, s, S, rs, idx, e)
    BY InitiationTranscript, Zenon
  <2>. QED  BY <2>1 DEF Written
<1>4. Answered(a, FinalizeResponder(a.st), r, i, f)
  BY <1>2, ResponseForm, Zenon
<1>5. m.mac1 = computeMac1(sp2, m.body)
  BY DEF WriteResponse
<1>. HIDE DEF r, a, in
<1>6. /\ m.body.encNothing
           = AeadSeal(hkdf2(hkdf2(r.sym.ck, dh(f, r.re))[1], dh(f, r.rs))[2], 0, <<"empty">>,
                      Hash(r.sym.h, Pub(f)))
      /\ m.body.e = f
  BY <1>4, Zenon DEF Answered
<1>7. /\ r.rs = s /\ r.re = e /\ sp = sp2
      /\ r.sym.ck = in.sym.ck /\ r.sym.h = in.sym.h
  BY <1>1, <1>2, <1>3, Zenon DEF SameKeys
<1>8. dh(f, r.re) = dh(in.e, f) /\ dh(f, r.rs) = dh(in.s, f)
  <2>1. r.re = in.e /\ r.rs = in.s
    BY <1>3, <1>7, Zenon
  <2>. QED  BY <2>1, DhInjective, Zenon
<1>. HIDE DEF m
<1>9. AeadOpens(hkdf2(hkdf2(in.sym.ck, dh(in.e, m.body.e))[1], dh(in.s, m.body.e))[2],
                0, m.body.encNothing, Hash(in.sym.h, Pub(m.body.e)))
  <2>. DEFINE k == hkdf2(hkdf2(in.sym.ck, dh(in.e, m.body.e))[1], dh(in.s, m.body.e))[2]
              x == Hash(in.sym.h, Pub(m.body.e))
  <2>1. m.body.encNothing = AeadSeal(k, 0, <<"empty">>, x)
    BY <1>6, <1>7, <1>8
  <2>. HIDE DEF k, x
  <2>2. AeadOpens(k, 0, AeadSeal(k, 0, <<"empty">>, x), x)
    BY OpensWhatWasSealed, Zenon
  <2>3. AeadOpens(k, 0, m.body.encNothing, x)
    BY <2>1, <2>2, Zenon
  <2>. QED  BY <2>3, Zenon DEF k, x
<1>10. Acceptable(in, m, sp)
  BY <1>5, <1>6, <1>7, <1>9, Zenon DEF Acceptable
<1>11. ReadResponse(in, m, sp).ok
  BY <1>10, ReadResponseTakes, Zenon
<1>. QED  BY <1>11 DEF in, m, a, r

-----------------------------------------------------------------------------
(* The key schedule.                                                       *)

\* The keys under which something is sealed, by their place in the schedule:
\* the static key and the timestamp of an initiation, the empty payload of a
\* response, the packets of the responder and those of the initiator.
IsKey(kind, k) ==
  \/ kind = "static" /\ \E x : k = Key1(x)
  \/ kind = "time" /\ \E x, y, z : k = Key2(x, dh(y, z))
  \/ kind = "empty" /\ \E c, x, y, u, v : k = hkdf2(hkdf2(hkdf2(c, x)[1], y)[1], dh(u, v))[2]
  \/ kind = "down" /\ \E c, x : k = hkdf2(hkdf2(c, x)[1], <<"nil">>)[2]
  \/ kind = "up" /\ \E c, x : k = hkdf2(c, x)[1]

\* The protocol name is no derived key.
LEMMA NameIsNoKey ==
  ASSUME NEW c, NEW x
  PROVE  protocolName # hkdf2(c, x)[1]
BY DEF protocolName, hkdf2

\* No key has two places in the schedule.
LEMMA KeyHasOnePlace ==
  ASSUME NEW i, NEW j, NEW k, IsKey(i, k), IsKey(j, k)
  PROVE  i = j
<1>1. ASSUME IsKey("static", k)
      PROVE  ~IsKey("time", k) /\ ~IsKey("empty", k) /\ ~IsKey("down", k) /\ ~IsKey("up", k)
  <2>1. PICK x : k = hkdf2(protocolName, x)[2]
    BY <1>1 DEF IsKey, Key1
  <2>2. ASSUME NEW c, NEW y, NEW z PROVE k # hkdf2(hkdf2(c, y)[1], z)[2]
    BY <2>1, KdfInjective, NameIsNoKey
  <2>3. ASSUME NEW c, NEW y PROVE k # hkdf2(c, y)[1]
    BY <2>1, KdfInjective
  <2>. QED  BY <2>2, <2>3 DEF IsKey, Key2, Chain1
<1>2. ASSUME IsKey("time", k)
      PROVE  ~IsKey("empty", k) /\ ~IsKey("down", k) /\ ~IsKey("up", k)
  <2>1. PICK x, y, z : k = hkdf2(hkdf2(protocolName, x)[1], dh(y, z))[2]
    BY <1>2 DEF IsKey, Key2, Chain1
  <2>2. ASSUME NEW c, NEW p, NEW q, NEW r PROVE k # hkdf2(hkdf2(hkdf2(c, p)[1], q)[1], r)[2]
    BY <2>1, KdfInjective, NameIsNoKey
  <2>3. ASSUME NEW c PROVE k # hkdf2(c, <<"nil">>)[2]
    BY <2>1, KdfInjective, DhInjective
  <2>4. ASSUME NEW c, NEW p PROVE k # hkdf2(c, p)[1]
    BY <2>1, KdfInjective
  <2>. QED  BY <2>2, <2>3, <2>4 DEF IsKey
<1>3. ASSUME IsKey("empty", k) PROVE ~IsKey("down", k) /\ ~IsKey("up", k)
  <2>1. PICK c, u, v : k = hkdf2(c, dh(u, v))[2]
    BY <1>3 DEF IsKey
  <2>2. ASSUME NEW d PROVE k # hkdf2(d, <<"nil">>)[2]
    BY <2>1, KdfInjective, DhInjective
  <2>3. ASSUME NEW d, NEW p PROVE k # hkdf2(d, p)[1]
    BY <2>1, KdfInjective
  <2>. QED  BY <2>2, <2>3 DEF IsKey
<1>4. ASSUME IsKey("down", k) PROVE ~IsKey("up", k)
  BY <1>4, KdfInjective DEF IsKey
<1>5. {i, j} \subseteq {"static", "time", "empty", "down", "up"}
  BY DEF IsKey
<1>. QED  BY <1>1, <1>2, <1>3, <1>4, <1>5

\* The keys of a session: those of the response and of the packets differ from
\* those of every other ephemeral key and every other response.
SessionSeed(r, f) == hkdf2(hkdf2(r.sym.ck, dh(f, r.re))[1], dh(f, r.rs))

\* The chaining key of a responder with this static key, after the initiation.
ChainOf(key, r) == r.sym.ck = Chain2(dh(key, r.re), dh(key, r.rs))

\* Seeds with a half in common.
ShareKey(x, y) == x[1] = y[1] \/ x[2] = y[2]

\* A session's keys tell the initiator's ephemeral key and the responder's.
LEMMA SeedInjective ==
  ASSUME NEW key, NEW f, NEW g, NEW r, NEW q, ChainOf(key, r), ChainOf(key, q),
         ShareKey(SessionSeed(r, f), SessionSeed(q, g))
  PROVE  r.re = q.re /\ f = g
<1>1. hkdf2(r.sym.ck, dh(f, r.re))[1] = hkdf2(q.sym.ck, dh(g, q.re))[1]
  <2>. DEFINE c == hkdf2(r.sym.ck, dh(f, r.re))[1]
              d == hkdf2(q.sym.ck, dh(g, q.re))[1]
              x == dh(f, r.rs)
              y == dh(g, q.rs)
  <2>1. hkdf2(c, x)[1] = hkdf2(d, y)[1] \/ hkdf2(c, x)[2] = hkdf2(d, y)[2]
    BY Zenon DEF SessionSeed, ShareKey
  <2>. HIDE DEF c, d, x, y
  <2>2. c = d
    BY <2>1, KdfInjective
  <2>. QED  BY <2>2 DEF c, d
<1>2. r.sym.ck = q.sym.ck /\ dh(f, r.re) = dh(g, q.re)
  BY <1>1, KdfInjective
<1>3. Chain1(dh(key, r.re)) = Chain1(dh(key, q.re))
  <2>1. Chain2(dh(key, r.re), dh(key, r.rs)) = Chain2(dh(key, q.re), dh(key, q.rs))
    BY <1>2 DEF ChainOf
  <2>. QED  BY <2>1, KdfInjective DEF Chain2
<1>4. dh(key, r.re) = dh(key, q.re)
  BY <1>3, KdfInjective DEF Chain1
<1>5. r.re = q.re
  BY <1>4, DhInjective
<1>6. dh(r.re, f) = dh(r.re, g)
  BY <1>2, <1>5, DhInjective
<1>. QED  BY <1>5, <1>6, DhInjective

-----------------------------------------------------------------------------
(* What was sent, answered and refused.                                    *)

\* An initiation on its way is that of a process with its options.
SentInv(p) ==
  p.type = 1 => \E a \in Attempts : att[a].opt # None /\ Wr(a).ok /\ p = Wr(a).msg

\* A slot in use answered an initiation that was sent.
AnswersInv(s) == ses[s].state # "free" => ses[s].m1 \in up /\ ses[s].m1.type = 1

\* What a process refused was sent to the harness, and is refused still.
RefusedInv(a) ==
  att[a].pc = "refused" =>
    /\ att[a].read \in down
    /\ IF att[a].res = None
       THEN /\ Wr(a).ok
            /\ ~(att[a].read.type = 2 /\ ReadResponse(Wr(a).st, att[a].read, att[a].opt.sigPub).ok)
       ELSE ~Verifies(a, att[a].read)

HistInv ==
  /\ \A a \in Attempts : (att[a].pc = "new" => att[a].opt = None) /\ RefusedInv(a)
  /\ \A s \in Sessions : AnswersInv(s)
  /\ \A p \in up : SentInv(p)

\* A step that one process makes: its new record q.
Moves(a, q) ==
  /\ att' = [att EXCEPT ![a] = q]
  /\ att[a].pc # "refused"
  /\ q.pc # "new"
  /\ att[a].opt # None => q.opt = att[a].opt
  /\ q.pc = "refused" =>
       /\ q.opt = att[a].opt
       /\ q.res = att[a].res
       /\ q.read \in down
       /\ \/ att[a].pc = "stageA"
             /\ ~(q.read.type = 2 /\ ReadResponse(att[a].in, q.read, att[a].opt.sigPub).ok)
          \/ att[a].pc = "stageB" /\ ~Verifies(a, q.read)

\* Every step of a process is one of these.
LEMMA ProcessMoves ==
  ASSUME IInv, HistInv, NEW a \in Attempts,
         \/ Proceeds(a) \/ (\E o \in Options : Load(a, o))
         \/ \E m \in down : Reads(a, m)
  PROVE  \E q : Moves(a, q)
<1>0. IsProcess(att[a])
  BY ProcessRecord DEF IInv
<1>1. ASSUME NEW o \in Options, Load(a, o) PROVE \E q : Moves(a, q)
  <2>. DEFINE q == [att[a] EXCEPT !.pc = "dial", !.opt = o]
  <2>1. att' = [att EXCEPT ![a] = q] /\ att[a].pc = "new"
    BY <1>1 DEF Load
  <2>2. q.pc = "dial"
    BY <1>0 DEF IsProcess
  <2>3. att[a].opt = None
    BY <2>1 DEF HistInv
  <2>. HIDE DEF q
  <2>4. Moves(a, q)
    BY <2>1, <2>2, <2>3 DEF Moves
  <2>. QED  BY <2>4
<1>2. ASSUME NEW q, att' = [att EXCEPT ![a] = q], q.pc \notin {"new", "refused"},
             q.opt = att[a].opt, att[a].pc # "refused"
      PROVE  \E x : Moves(a, x)
  <2>1. Moves(a, q)
    BY <1>2 DEF Moves
  <2>. QED  BY <2>1
<1>3. ASSUME Fails(a) \/ Deadline(a) PROVE \E q : Moves(a, q)
  <2>. DEFINE q == [att[a] EXCEPT !.pc = "failed"]
  <2>1. att' = [att EXCEPT ![a] = q] /\ att[a].pc # "refused"
    BY <1>3 DEF Fails, Deadline
  <2>2. q.pc = "failed" /\ q.opt = att[a].opt
    BY <1>0 DEF IsProcess
  <2>. HIDE DEF q
  <2>. QED  BY <1>2, <2>1, <2>2
<1>4. ASSUME Initiate(a) PROVE \E q : Moves(a, q)
  <2>. DEFINE i == Wr(a).st
              q == [att[a] EXCEPT !.pc = "stageA", !.in = i]
  <2>1. att' = [att EXCEPT ![a] = q] /\ att[a].pc = "dial"
    BY <1>4 DEF Initiate, Wr
  <2>. HIDE DEF i
  <2>2. q.pc = "stageA" /\ q.opt = att[a].opt
    BY <1>0 DEF IsProcess
  <2>. HIDE DEF q
  <2>. QED  BY <1>2, <2>1, <2>2
<1>5. ASSUME Bind(a) PROVE \E q : Moves(a, q)
  <2>. DEFINE q == [att[a] EXCEPT !.pc = "stageB"]
  <2>1. att' = [att EXCEPT ![a] = q] /\ att[a].pc = "bind"
    BY <1>5 DEF Bind
  <2>2. q.pc = "stageB" /\ q.opt = att[a].opt
    BY <1>0 DEF IsProcess
  <2>. HIDE DEF q
  <2>. QED  BY <1>2, <2>1, <2>2
<1>6. ASSUME StageC(a) PROVE \E q : Moves(a, q)
  <2>. DEFINE q == [att[a] EXCEPT !.pc = "ok"]
  <2>1. att' = [att EXCEPT ![a] = q] /\ att[a].pc = "intent"
    BY <1>6 DEF StageC
  <2>2. q.pc = "ok" /\ q.opt = att[a].opt
    BY <1>0 DEF IsProcess
  <2>. HIDE DEF q
  <2>. QED  BY <1>2, <2>1, <2>2
<1>7. ASSUME NEW m \in down, StageA(a, m) PROVE \E q : Moves(a, q)
  <2>. DEFINE i == ReadResponse(att[a].in, m, att[a].opt.sigPub).st
              r == FinalizeInitiator(i)
              s == m.body.sender
              q == [att[a] EXCEPT !.pc = "bind", !.in = i, !.res = r, !.index = s]
  <2>1. att' = [att EXCEPT ![a] = q] /\ att[a].pc = "stageA"
    BY <1>7 DEF StageA
  <2>. HIDE DEF i, r, s
  <2>2. q.pc = "bind" /\ q.opt = att[a].opt
    BY <1>0 DEF IsProcess
  <2>. HIDE DEF q
  <2>. QED  BY <1>2, <2>1, <2>2
<1>8. ASSUME NEW m \in down, StageB(a, m) PROVE \E q : Moves(a, q)
  <2>. DEFINE x == IF att[a].opt.intent THEN "intent" ELSE "ok"
              c == Plaintext(m.ct)[2]
              q == [att[a] EXCEPT !.pc = x, !.cert = c]
  <2>1. att' = [att EXCEPT ![a] = q] /\ att[a].pc = "stageB"
    BY <1>8 DEF StageB
  <2>2. x \in {"intent", "ok"}
    OBVIOUS
  <2>. HIDE DEF x, c
  <2>3. q.pc = x /\ q.opt = att[a].opt
    BY <1>0 DEF IsProcess
  <2>. HIDE DEF q
  <2>. QED  BY <1>2, <2>1, <2>2, <2>3
<1>9. ASSUME NEW m \in down, StageAFails(a, m) PROVE \E q : Moves(a, q)
  <2>. DEFINE i == IF m.type = 2 THEN ReadResponse(att[a].in, m, att[a].opt.sigPub).st
                   ELSE att[a].in
              q == [att[a] EXCEPT !.pc = "refused", !.read = m, !.in = i]
  <2>1. /\ att' = [att EXCEPT ![a] = q] /\ att[a].pc = "stageA"
        /\ ~(m.type = 2 /\ ReadResponse(att[a].in, m, att[a].opt.sigPub).ok)
    BY <1>9 DEF StageAFails
  <2>. HIDE DEF i
  <2>2. q.pc = "refused" /\ q.opt = att[a].opt /\ q.res = att[a].res /\ q.read = m
    BY <1>0 DEF IsProcess
  <2>. HIDE DEF q
  <2>3. Moves(a, q)
    BY <2>1, <2>2 DEF Moves
  <2>. QED  BY <2>3
<1>10. ASSUME NEW m \in down, StageBFails(a, m) PROVE \E q : Moves(a, q)
  <2>. DEFINE q == [att[a] EXCEPT !.pc = "refused", !.read = m]
  <2>1. att' = [att EXCEPT ![a] = q] /\ att[a].pc = "stageB" /\ ~Verifies(a, m)
    BY <1>10 DEF StageBFails
  <2>2. q.pc = "refused" /\ q.opt = att[a].opt /\ q.res = att[a].res /\ q.read = m
    BY <1>0 DEF IsProcess
  <2>. HIDE DEF q
  <2>3. Moves(a, q)
    BY <2>1, <2>2 DEF Moves
  <2>. QED  BY <2>3
<1>. QED  BY <1>1, <1>3, <1>4, <1>5, <1>6, <1>7, <1>8, <1>9, <1>10 DEF Proceeds, Reads

\* What a process sends: its initiation, or a packet.
LEMMA ProcessSends ==
  ASSUME NEW a \in Attempts,
         \/ Proceeds(a) \/ (\E o \in Options : Load(a, o))
         \/ \E m \in down : Reads(a, m)
  PROVE  /\ UNCHANGED <<ses, down>>
         /\ up \subseteq up'
         /\ \A p \in up' \ up : p.type = 1 => att[a].pc = "dial" /\ Wr(a).ok /\ p = Wr(a).msg
<1>1. ASSUME NEW k, NEW i, NEW n, NEW x PROVE SealTransport(k, i, n, x).type # 1
  BY DEF SealTransport
<1>2. ASSUME Initiate(a)
      PROVE  /\ UNCHANGED <<ses, down>> /\ up' = up \cup {Wr(a).msg}
             /\ att[a].pc = "dial" /\ Wr(a).ok
  BY <1>2 DEF Initiate, Wr
<1>3. ASSUME Bind(a) \/ StageC(a)
      PROVE  UNCHANGED <<ses, down>> /\ \E k, i, n, x : up' = up \cup {SealTransport(k, i, n, x)}
  BY <1>3, Zenon DEF Bind, StageC
<1>4. ASSUME \/ Fails(a) \/ Deadline(a) \/ \E o \in Options : Load(a, o)
             \/ \E m \in down : Reads(a, m)
      PROVE  UNCHANGED <<ses, up, down>>
  BY <1>4 DEF Fails, Deadline, Load, Reads, StageA, StageAFails, StageB, StageBFails
<1>5. CASE Bind(a) \/ StageC(a)
  BY <1>1, <1>3, <1>5
<1>. QED  BY <1>2, <1>4, <1>5 DEF Proceeds

\* A process that keeps its record keeps what HistInv says of it.
LEMMA RefusedKept ==
  ASSUME NEW b, att'[b] = att[b], down \subseteq down', RefusedInv(b)
  PROVE  RefusedInv(b)'
<1>1. Wr(b)' = Wr(b)
  BY DEF Wr
<1>2. ASSUME NEW p PROVE Verifies(b, p)' <=> Verifies(b, p)
  BY DEF Verifies, trusted
<1>. QED  BY <1>1, <1>2 DEF RefusedInv

\* A process that refuses what it read has the reason RefusedInv names.
LEMMA RefusedNew ==
  ASSUME IInv, NEW a \in Attempts, NEW q, Moves(a, q), att'[a] = q, q.pc = "refused",
         down' = down
  PROVE  RefusedInv(a)'
<1>. DEFINE m == q.read
<1>1. /\ att'[a].pc = "refused" /\ att'[a].opt = att[a].opt /\ att'[a].res = att[a].res
      /\ att'[a].read = m /\ m \in down
      /\ \/ att[a].pc = "stageA"
            /\ ~(m.type = 2 /\ ReadResponse(att[a].in, m, att[a].opt.sigPub).ok)
         \/ att[a].pc = "stageB" /\ ~Verifies(a, m)
  BY DEF Moves
<1>2. ProcInv(a)
  BY DEF IInv
<1>3. Wr(a)' = Wr(a)
  BY <1>1 DEF Wr
<1>. HIDE DEF m
<1>4. CASE att[a].pc = "stageA"
  <2>1. Wr(a).ok /\ att[a].in = Wr(a).st /\ att[a].res = None
    BY <1>2, <1>4 DEF ProcInv
  <2>2. ~(m.type = 2 /\ ReadResponse(Wr(a).st, m, att[a].opt.sigPub).ok)
    BY <1>1, <1>4, <2>1
  <2>. QED  BY <1>1, <1>3, <2>1, <2>2 DEF RefusedInv
<1>5. CASE att[a].pc = "stageB"
  <2>1. att[a].res # None
    BY <1>2, <1>5 DEF ProcInv
  <2>2. ~Verifies(a, m)
    BY <1>1, <1>5
  <2>3. Verifies(a, m)' <=> Verifies(a, m)
    BY <1>1 DEF Verifies, trusted
  <2>. QED  BY <1>1, <2>1, <2>2, <2>3 DEF RefusedInv
<1>. QED  BY <1>1, <1>4, <1>5

\* An initiation stays that of its process while the options stay.
LEMMA SentKept ==
  ASSUME NEW p, SentInv(p),
         \A b \in Attempts : att[b].opt # None => att'[b].opt = att[b].opt
  PROVE  SentInv(p)'
<1>. SUFFICES ASSUME p.type = 1
              PROVE  \E b \in Attempts : att'[b].opt # None /\ Wr(b)'.ok /\ p = Wr(b)'.msg
  BY DEF SentInv
<1>1. PICK b \in Attempts : att[b].opt # None /\ Wr(b).ok /\ p = Wr(b).msg
  BY DEF SentInv
<1>2. att'[b].opt = att[b].opt
  BY <1>1
<1>3. Wr(b)' = Wr(b)
  BY <1>2 DEF Wr
<1>. QED  BY <1>1, <1>2, <1>3

\* Before anything is sent.
LEMMA HistInit == Init => HistInv
<1>. SUFFICES ASSUME Init PROVE HistInv
  OBVIOUS
<1>1. ASSUME NEW a \in Attempts
      PROVE  (att[a].pc = "new" => att[a].opt = None) /\ RefusedInv(a)
  <2>1. att[a].pc = "new" /\ att[a].opt = None
    BY DEF Init
  <2>. QED  BY <2>1 DEF RefusedInv
<1>2. ASSUME NEW s \in Sessions PROVE AnswersInv(s)
  BY DEF Init, AnswersInv
<1>3. up = {}
  BY DEF Init
<1>. QED  BY <1>1, <1>2, <1>3 DEF HistInv

\* The steps of a process.
LEMMA HistProcess ==
  ASSUME IInv, HistInv, NEW a \in Attempts,
         \/ Proceeds(a) \/ (\E o \in Options : Load(a, o))
         \/ \E m \in down : Reads(a, m)
  PROVE  HistInv'
<1>1. PICK q : Moves(a, q)
  BY ProcessMoves
<1>2. (\A b \in Attempts \ {a} : att'[b] = att[b]) /\ att'[a] = q
  BY <1>1, LearnsStep DEF Moves
<1>3. /\ UNCHANGED <<ses, down>>
      /\ up \subseteq up'
      /\ \A p \in up' \ up : p.type = 1 => att[a].pc = "dial" /\ Wr(a).ok /\ p = Wr(a).msg
  BY ProcessSends
<1>4. ASSUME NEW b \in Attempts
      PROVE  /\ att[b].opt # None => att'[b].opt = att[b].opt
             /\ att'[b].pc = "new" => att'[b].opt = None
             /\ RefusedInv(b)'
  <2>1. CASE b = a
    <3>1. att'[a].pc # "refused" => RefusedInv(a)'
      BY DEF RefusedInv
    <3>2. RefusedInv(a)'
      BY <1>1, <1>2, <1>3, <3>1, RefusedNew
    <3>. QED  BY <1>1, <1>2, <2>1, <3>2 DEF Moves
  <2>2. CASE b # a
    <3>1. att'[b] = att[b]
      BY <1>2, <2>2
    <3>2. RefusedInv(b)'
      BY <1>3, <3>1, RefusedKept DEF HistInv
    <3>. QED  BY <3>1, <3>2 DEF HistInv
  <2>. QED  BY <2>1, <2>2
<1>5. ASSUME NEW p \in up' PROVE SentInv(p)'
  <2>1. CASE p \in up
    BY <1>4, <2>1, SentKept DEF HistInv
  <2>2. CASE p \notin up /\ p.type = 1
    <3>1. att[a].pc = "dial" /\ Wr(a).ok /\ p = Wr(a).msg
      BY <1>3, <2>2
    <3>2. att[a].opt # None
      BY <3>1, InteropAssumption DEF IInv, ProcInv
    <3>3. SentInv(p)
      BY <3>1, <3>2 DEF SentInv
    <3>. QED  BY <1>4, <3>3, SentKept
  <2>. QED  BY <2>1, <2>2 DEF SentInv
<1>6. ASSUME NEW s \in Sessions PROVE AnswersInv(s)'
  BY <1>3 DEF HistInv, AnswersInv
<1>. QED  BY <1>4, <1>5, <1>6 DEF HistInv

\* The steps of the daemon, which leaves the slots' initiations alone.
LEMMA HistDaemon ==
  ASSUME IInv, HistInv, UNCHANGED <<att, up>>, down \subseteq down',
         \A s \in Sessions : ses'[s].state # "free" =>
           \/ ses[s].state # "free" /\ ses'[s].m1 = ses[s].m1
           \/ ses'[s].m1 \in up /\ ses'[s].m1.type = 1
  PROVE  HistInv'
<1>1. ASSUME NEW b \in Attempts PROVE RefusedInv(b)' /\ (att'[b].pc = "new" => att'[b].opt = None)
  <2>1. att'[b] = att[b]
    OBVIOUS
  <2>2. RefusedInv(b)'
    BY <2>1, RefusedKept DEF HistInv
  <2>. QED  BY <2>1, <2>2 DEF HistInv
<1>2. \A p \in up' : SentInv(p)'
  BY SentKept DEF HistInv
<1>3. \A s \in Sessions : AnswersInv(s)'
  BY DEF HistInv, AnswersInv
<1>. QED  BY <1>1, <1>2, <1>3 DEF HistInv

\* Every step keeps what HistInv says.
LEMMA HistStep == IInv /\ HistInv /\ [Next]_vars => HistInv'
<1>. SUFFICES ASSUME IInv, HistInv, [Next]_vars PROVE HistInv'
  OBVIOUS
<1>1. ASSUME NEW a \in Attempts,
             \/ Proceeds(a) \/ (\E o \in Options : Load(a, o))
             \/ \E m \in down : Reads(a, m)
      PROVE  HistInv'
  BY <1>1, HistProcess
<1>2. CASE UNCHANGED vars \/ AllEnded
  BY <1>2, HistDaemon DEF vars, AllEnded
<1>3. ASSUME NEW s \in Sessions, NEW m \in up, Respond(s, m) PROVE HistInv'
  <2>1. /\ UNCHANGED <<att, up>> /\ down \subseteq down' /\ m.type = 1
        /\ ses'[s].m1 = m
        /\ \A t \in Sessions \ {s} : ses'[t] = ses[t]
    BY <1>3 DEF Respond, IInv, SesShape
  <2>. QED  BY <2>1, HistDaemon
<1>4. ASSUME NEW s \in Sessions, NEW p \in up, DaemonBinds(s, p) PROVE HistInv'
  <2>1. ses'[s].m1 = ses[s].m1 /\ \A t \in Sessions \ {s} : ses'[t] = ses[t]
    BY <1>4, BindsStep
  <2>2. UNCHANGED <<att, up, down>> /\ ses[s].state = "open"
    BY <1>4 DEF DaemonBinds
  <2>. QED  BY <2>1, <2>2, HistDaemon
<1>5. ASSUME NEW s \in Sessions, NEW p \in up, DaemonAdmits(s, p) PROVE HistInv'
  BY <1>5, HistDaemon DEF DaemonAdmits
<1>6. ASSUME DaemonRestarts PROVE HistInv'
  <2>1. ASSUME NEW s \in Sessions
        PROVE  ses'[s].m1 = ses[s].m1 /\ (ses[s].state = "free" => ses'[s].state = "free")
    <3>1. ses'[s].m1 = ses[s].m1
      BY <1>6, RestartStep
    <3>. QED  BY <1>6, <3>1 DEF DaemonRestarts, IInv, SesShape
  <2>2. UNCHANGED <<att, up, down>>
    BY <1>6 DEF DaemonRestarts
  <2>. QED  BY <2>1, <2>2, HistDaemon
<1>. QED  BY <1>1, <1>2, <1>3, <1>4, <1>5, <1>6 DEF Next, Daemon

\* Both invariants hold in every reachable state.
THEOREM History == Spec => [](IInv /\ HistInv)
BY InitInv, NextInv, HistInit, HistStep, PTL DEF Spec

-----------------------------------------------------------------------------
(* What a run refuses.                                                     *)

\* The keys of a slot.
Seed(s, m) == SessionSeed(Rd(m).st, s)

\* What a slot seals, and with which keys.
SlotSeals(s, m) ==
  /\ Ans(s, m).msg.body.encNothing
       = AeadSeal(Seed(s, m)[2], 0, <<"empty">>, Hash(Rd(m).st.sym.h, Pub(s)))
  /\ Fin(s, m).SendKey = hkdf2(Seed(s, m)[1], <<"nil">>)[2]
  /\ Fin(s, m).RecvKey = hkdf2(Seed(s, m)[1], <<"nil">>)[1]
  /\ Ans(s, m).msg.body.e = s
  /\ Ans(s, m).msg.type = 2

\* The answer to every initiation the daemon reads is such.
LEMMA SlotKeys ==
  ASSUME NEW s, NEW m, Rd(m).ok
  PROVE  SlotSeals(s, m)
<1>1. "sym" \in DOMAIN Rd(m).st
  BY ResponderTranscript DEF Rd
<1>2. Answered(Ans(s, m), Fin(s, m), Rd(m).st, s, s)
  BY <1>1, ResponseForm, Zenon DEF Ans, Fin
<1>. QED  BY <1>2, Zenon DEF Answered, SlotSeals, Seed, SessionSeed

\* Slots with a key in common are one slot, and answered one ephemeral key.
LEMMA SeedNamesSlot ==
  ASSUME NEW s, NEW m, NEW t, NEW n, Rd(m).ok, Rd(n).ok, ShareKey(Seed(s, m), Seed(t, n))
  PROVE  m.body.e = n.body.e /\ s = t
<1>. DEFINE r == Rd(m).st
            q == Rd(n).st
<1>1. ASSUME NEW x, Rd(x).ok
      PROVE  ChainOf(DaemonStatic, Rd(x).st) /\ Rd(x).st.re = x.body.e
  <2>1. Opened(Rd(x).st, DaemonStatic, x, DaemonSig)
    BY <1>1, ResponderKeys, Zenon DEF Rd
  <2>2. Rd(x).st.rs = Plaintext(x.body.encS)[2] /\ Rd(x).st.re = x.body.e
    BY <1>1, ResponderTranscript DEF Rd
  <2>. QED  BY <2>1, <2>2, Zenon DEF Opened, ChainOf
<1>2. /\ ChainOf(DaemonStatic, r) /\ r.re = m.body.e
      /\ ChainOf(DaemonStatic, q) /\ q.re = n.body.e
  BY <1>1, Zenon
<1>3. ShareKey(SessionSeed(r, s), SessionSeed(q, t))
  BY Zenon DEF Seed
<1>. HIDE DEF r, q
<1>4. r.re = q.re /\ s = t
  BY <1>2, <1>3, SeedInjective, Zenon
<1>. QED  BY <1>2, <1>4, Zenon

\* Slots s and t, of initiations m and n, with a transport key in common.
ShareTransport(s, m, t, n) ==
  /\ Rd(m).ok /\ Rd(n).ok
  /\ Fin(s, m).SendKey = Fin(t, n).SendKey \/ Fin(s, m).RecvKey = Fin(t, n).RecvKey

\* The transport keys tell the slot too.
LEMMA TransportKeyNamesSlot ==
  ASSUME NEW s, NEW m, NEW t, NEW n, ShareTransport(s, m, t, n)
  PROVE  m.body.e = n.body.e /\ s = t
<1>. DEFINE f == Seed(s, m)[1]
            g == Seed(t, n)[1]
<1>0. Rd(m).ok /\ Rd(n).ok
  BY DEF ShareTransport
<1>1. SlotSeals(s, m) /\ SlotSeals(t, n)
  BY <1>0, SlotKeys
<1>2. /\ Fin(s, m).SendKey = hkdf2(f, <<"nil">>)[2] /\ Fin(s, m).RecvKey = hkdf2(f, <<"nil">>)[1]
      /\ Fin(t, n).SendKey = hkdf2(g, <<"nil">>)[2] /\ Fin(t, n).RecvKey = hkdf2(g, <<"nil">>)[1]
  BY <1>1, Zenon DEF SlotSeals
<1>. HIDE DEF f, g
<1>3. f = g
  <2>1. \/ hkdf2(f, <<"nil">>)[1] = hkdf2(g, <<"nil">>)[1]
        \/ hkdf2(f, <<"nil">>)[2] = hkdf2(g, <<"nil">>)[2]
    BY <1>2 DEF ShareTransport
  <2>. QED  BY <2>1, KdfInjective
<1>4. ShareKey(Seed(s, m), Seed(t, n))
  BY <1>3 DEF f, g, ShareKey
<1>. QED  BY <1>0, <1>4, SeedNamesSlot, Zenon

\* A slot's packet: no response, and sealed under the key the slot sends with.
LEMMA PushKey ==
  ASSUME NEW s, NEW m
  PROVE  Push(s, m).type # 2 /\ Push(s, m).ct[2] = Fin(s, m).SendKey
BY DEF Push, SealTransport, AeadSeal

\* What a datagram to the harness is.
LEMMA DownForm ==
  ASSUME IInv, NEW p \in down
  PROVE  \E s \in Sessions :
           /\ ses[s].state # "free"
           /\ Rd(ses[s].m1).ok
           /\ SlotSeals(s, ses[s].m1)
           /\ p = Ans(s, ses[s].m1).msg \/ p = Push(s, ses[s].m1)
<1>1. DownInv(p)
  BY DEF IInv
<1>2. PICK s \in Sessions :
        ses[s].state # "free" /\ (p = Ans(s, ses[s].m1).msg \/ p = Push(s, ses[s].m1))
  BY <1>1 DEF DownInv
<1>3. SlotInv(s)
  BY DEF IInv
<1>4. Rd(ses[s].m1).ok
  BY <1>2, <1>3 DEF SlotInv
<1>. QED  BY <1>2, <1>4, SlotKeys

\* The process takes the answer of the slot that read its initiation.
LEMMA OwnAnswerTaken ==
  ASSUME NEW a, NEW s \in Sessions, Wr(a).ok, Rd(Wr(a).msg).ok
  PROVE  ReadResponse(Wr(a).st, Ans(s, Wr(a).msg).msg, att[a].opt.sigPub).ok
<1>. DEFINE o == att[a].opt
            w == Wr(a)
            j == w.msg.body.sender
<1>1. s \notin LowOrder
  BY FreshAssumption
<1>2. /\ w = WriteInitiation(NewInitiator(o.s, o.S, o.rs), senderIndex, a, a, o.sigPub)
      /\ w.ok
      /\ ReadInitiation(NewResponder(DaemonStatic, DaemonStatic), w.msg, DaemonSig).ok
  BY Zenon DEF Wr, Rd
<1>. HIDE DEF w, o
<1>3. ReadResponse(w.st, WriteResponse(
          ReadInitiation(NewResponder(DaemonStatic, DaemonStatic), w.msg, DaemonSig).st,
          s, j, s, DaemonSig).msg, o.sigPub).ok
  BY <1>1, <1>2, HandshakeCompletes, Zenon
<1>. QED  BY <1>3, Zenon DEF Ans, Rd, w, o

\* The process verifies the packet its own slot pushed, if its trust directory
\* covers the daemon's certificate.
LEMMA OwnPushVerified ==
  ASSUME NEW a, NEW s, NEW m, att[a].res.RecvKey = Fin(s, m).SendKey,
         att[a].res.H = Fin(s, m).H, ValidateCertChainNoClock(DaemonCert, trusted(att[a].opt))
  PROVE  Verifies(a, Push(s, m))
<1>. DEFINE k == Fin(s, m).SendKey
            h == Fin(s, m).H
            i == m.body.sender
            f == BuildBindingFrame(DaemonCert, DaemonSig, h)
            p == Push(s, m)
<1>1. p = SealTransport(k, i, 0, f)
  BY Zenon DEF Push
<1>. HIDE DEF p, k, h, i, f
<1>2. p.type = 4 /\ p.hdr = <<"hdr", i, 0>> /\ p.hdr[3] = 0 /\ p.ct = AeadSeal(k, 0, f, p.hdr)
  BY <1>1 DEF SealTransport
<1>3. OpenTransport(k, p) /\ Plaintext(p.ct) = f
  BY <1>2, OpensWhatWasSealed DEF OpenTransport
<1>4. f[1] = "frame" /\ f[2] = DaemonCert /\ f[3] = SignTagged(DomainBinding, h, DaemonSig)
  BY DEF f, BuildBindingFrame
<1>5. VerifyBindingFrame(f, h, trusted(att[a].opt))
  BY <1>4, DaemonAssumption, Zenon DEF VerifyBindingFrame, VerifySigned
<1>6. Verifies(a, p)
  BY <1>3, <1>5, Zenon DEF Verifies, k, h
<1>. QED  BY <1>6 DEF p

\* A run refuses nothing that was sent to it in its own session (noise.go
\* ReadResponse, transport.go OpenTransport and VerifyBindingFrame), unless its
\* trust directory does not cover the daemon.
THEOREM RefusalsJustified == Spec => []OnlyForeignDatagramsFail
<1>1. ASSUME IInv, HistInv PROVE OnlyForeignDatagramsFail
  <2>. SUFFICES ASSUME NEW a \in Attempts, att[a].pc = "refused"
                PROVE  IF att[a].res = None
                       THEN \A s \in Sessions :
                              att[a].read.type = 2 /\ ses[s].m1 # None /\ att[a].read.body.e = s
                                => ses[s].m1.body.e # a
                       ELSE \/ att[a].read.type = 2
                            \/ att[a].read.ct[2] # att[a].res.RecvKey
                            \/ ~ValidateCertChainNoClock(DaemonCert, trusted(att[a].opt))
    BY DEF OnlyForeignDatagramsFail
  <2>. DEFINE p == att[a].read
  <2>1. RefusedInv(a)
    BY <1>1 DEF HistInv
  <2>2. p \in down
    BY <2>1 DEF RefusedInv
  <2>3. PICK t \in Sessions :
          /\ ses[t].state # "free"
          /\ Rd(ses[t].m1).ok
          /\ SlotSeals(t, ses[t].m1)
          /\ p = Ans(t, ses[t].m1).msg \/ p = Push(t, ses[t].m1)
    BY <1>1, <2>2, DownForm
  <2>4. /\ Push(t, ses[t].m1).type # 2
        /\ Push(t, ses[t].m1).ct[2] = Fin(t, ses[t].m1).SendKey
    BY PushKey, Zenon
  <2>. HIDE DEF p
  <2>5. ASSUME att[a].res = None, NEW s \in Sessions, p.type = 2, p.body.e = s,
               ses[s].m1.body.e = a
        PROVE  FALSE
    <3>1. p = Ans(t, ses[t].m1).msg
      BY <2>3, <2>4, <2>5, Zenon
    <3>2. s = t
      BY <2>3, <2>5, <3>1 DEF SlotSeals
    <3>3. ses[t].m1 \in up /\ ses[t].m1.type = 1
      BY <1>1, <2>3 DEF HistInv, AnswersInv
    <3>4. PICK b \in Attempts : Wr(b).ok /\ ses[t].m1 = Wr(b).msg
      BY <1>1, <3>3 DEF HistInv, SentInv
    <3>5. Wr(b).msg.body.e = b
      <4>1. Written(Wr(b), att[b].opt.s, att[b].opt.S, att[b].opt.rs, senderIndex, b)
        BY <3>4, WrFacts
      <4>. QED  BY <4>1, Zenon DEF Written
    <3>6. b = a
      BY <2>5, <3>2, <3>4, <3>5
    <3>7. ReadResponse(Wr(a).st, p, att[a].opt.sigPub).ok
      BY <2>3, <3>1, <3>4, <3>6, OwnAnswerTaken
    <3>. QED  BY <2>1, <2>5, <3>7 DEF RefusedInv, p
  <2>6. ASSUME att[a].res # None, p.type # 2, p.ct[2] = att[a].res.RecvKey,
               ValidateCertChainNoClock(DaemonCert, trusted(att[a].opt))
        PROVE  FALSE
    <3>. DEFINE s == att[a].index
    <3>1. p = Push(t, ses[t].m1)
      BY <2>3, <2>6 DEF SlotSeals
    <3>2. s \in Sessions /\ Agree(a, s)
      BY <1>1, <2>6 DEF IInv, PairInv
    <3>3. SlotInv(s) /\ ses[s].res # None
      BY <1>1, <3>2 DEF IInv, Agree
    <3>4. Rd(ses[s].m1).ok /\ ses[s].res = Fin(s, ses[s].m1)
      BY <3>3 DEF SlotInv
    <3>5. /\ att[a].res.RecvKey = Fin(s, ses[s].m1).SendKey
          /\ att[a].res.H = Fin(s, ses[s].m1).H
      BY <3>2, <3>4 DEF Agree
    <3>6. Fin(t, ses[t].m1).SendKey = Fin(s, ses[s].m1).SendKey
      BY <2>4, <2>6, <3>1, <3>5
    <3>. HIDE DEF s
    <3>7. t = s
      <4>. DEFINE m == ses[t].m1
                  n == ses[s].m1
      <4>1. ShareTransport(t, m, s, n)
        BY <2>3, <3>4, <3>6 DEF ShareTransport
      <4>. HIDE DEF m, n
      <4>. QED  BY <4>1, TransportKeyNamesSlot, Zenon
    <3>8. Verifies(a, p)
      BY <2>6, <3>1, <3>5, <3>7, OwnPushVerified
    <3>. QED  BY <2>1, <2>6, <3>8 DEF RefusedInv, p
  <2>. QED  BY <2>5, <2>6 DEF p
<1>. QED  BY <1>1, History, PTL

-----------------------------------------------------------------------------
(* Keys and nonces.                                                        *)

\* The one ciphertext of an owner at each place of the schedule but the last.
CipherOf(kind, x) ==
  CASE kind = "static" -> Wr(x).msg.body.encS
    [] kind = "time" -> Wr(x).msg.body.encT
    [] kind = "empty" -> Ans(x, ses[x].m1).msg.body.encNothing
    [] kind = "down" -> Push(x, ses[x].m1).ct

\* What was sealed, by the place of its key in the schedule and by its owner.
SealedBy(kind, x, c) ==
  \/ /\ kind \in {"static", "time"}
     /\ x \in Attempts /\ att[x].opt \in Options /\ Wr(x).ok
     /\ c = CipherOf(kind, x)
  \/ /\ kind \in {"empty", "down"}
     /\ x \in Sessions /\ Rd(ses[x].m1).ok
     /\ c = CipherOf(kind, x)
  \/ /\ kind = "up"
     /\ x \in Attempts /\ att[x].res # None
     /\ c \in {BindPacket(x).ct, IntentPacket(x).ct}

\* Which ciphertext that is.
LEMMA CipherNames ==
  ASSUME NEW x
  PROVE  /\ CipherOf("static", x) = Wr(x).msg.body.encS
         /\ CipherOf("time", x) = Wr(x).msg.body.encT
         /\ CipherOf("empty", x) = Ans(x, ses[x].m1).msg.body.encNothing
         /\ CipherOf("down", x) = Push(x, ses[x].m1).ct
BY DEF CipherOf

\* A sealed value tells its key and its nonce.
LEMMA SealTells ==
  ASSUME NEW k, NEW n, NEW x, NEW ad
  PROVE  AeadSeal(k, n, x, ad)[2] = k /\ AeadSeal(k, n, x, ad)[3] = n
BY DEF AeadSeal

\* Every ciphertext on the wire has an owner.
LEMMA EveryCipher ==
  ASSUME IInv, HistInv, NEW c \in Ciphertexts
  PROVE  \E kind, x : SealedBy(kind, x, c)
<1>1. ASSUME NEW p \in up, p.type = 4, c = p.ct
      PROVE  \E x : SealedBy("up", x, c)
  <2>1. UpInv(p)
    BY DEF IInv
  <2>2. PICK a \in Attempts : \/ att[a].res # None /\ p = BindPacket(a)
                              \/ att[a].pc = "ok" /\ p = IntentPacket(a)
    BY <1>1, <2>1 DEF UpInv
  <2>3. att[a].res # None
    BY <2>2 DEF IInv, ProcInv
  <2>4. SealedBy("up", a, c)
    BY <1>1, <2>2, <2>3 DEF SealedBy
  <2>. QED  BY <2>4
<1>2. ASSUME NEW p \in up, p.type = 1
      PROVE  \E x : SealedBy("static", x, p.body.encS) /\ SealedBy("time", x, p.body.encT)
  <2>1. PICK a \in Attempts : att[a].opt # None /\ Wr(a).ok /\ p = Wr(a).msg
    BY <1>2 DEF HistInv, SentInv
  <2>2. att[a].opt \in Options
    BY <2>1 DEF IInv, ProcInv
  <2>3. SealedBy("static", a, p.body.encS) /\ SealedBy("time", a, p.body.encT)
    BY <2>1, <2>2, CipherNames DEF SealedBy
  <2>. QED  BY <2>3
<1>3. ASSUME NEW p \in down
      PROVE  /\ p.type = 4 => \E x : SealedBy("down", x, p.ct)
             /\ p.type = 2 => \E x : SealedBy("empty", x, p.body.encNothing)
  <2>1. PICK s \in Sessions :
          /\ Rd(ses[s].m1).ok
          /\ p = Ans(s, ses[s].m1).msg \/ p = Push(s, ses[s].m1)
    BY <1>3, DownForm
  <2>2. Ans(s, ses[s].m1).msg.type = 2 /\ Push(s, ses[s].m1).type = 4
    BY <2>1, DatagramTypes
  <2>3. /\ p.type = 4 => p = Push(s, ses[s].m1)
        /\ p.type = 2 => p = Ans(s, ses[s].m1).msg
    BY <2>1, <2>2
  <2>4. SealedBy("down", s, CipherOf("down", s)) /\ SealedBy("empty", s, CipherOf("empty", s))
    BY <2>1 DEF SealedBy
  <2>. QED  BY <2>3, <2>4, CipherNames, Zenon
<1>4. CASE c \in {p.ct : p \in {q \in up \cup down : q.type = 4}}
  BY <1>1, <1>3, <1>4
<1>5. CASE c \in UNION {{m.body.encS, m.body.encT} : m \in {q \in up : q.type = 1}}
  <2>1. PICK p \in up : p.type = 1 /\ c \in {p.body.encS, p.body.encT}
    BY <1>5
  <2>. QED  BY <1>2, <2>1
<1>6. CASE c \in {m.body.encNothing : m \in {q \in down : q.type = 2}}
  BY <1>3, <1>6
<1>. QED  BY <1>4, <1>5, <1>6, Zenon DEF Ciphertexts

\* The keys of the two ciphertexts of an initiation.
LEMMA InitiationSeals ==
  ASSUME NEW a, Wr(a).ok
  PROVE  /\ CipherOf("static", a)[2] = Key1(dh(a, att[a].opt.rs))
         /\ CipherOf("time", a)[2]
              = Key2(dh(a, att[a].opt.rs), dh(att[a].opt.s, att[a].opt.rs))
<1>. DEFINE o == att[a].opt
            k == Key1(dh(a, o.rs))
            l == Key2(dh(a, o.rs), dh(o.s, o.rs))
<1>1. Sealed(Wr(a), o.s, o.S, o.rs, a, o.sigPub)
  BY InitiationKeys, Zenon DEF Wr
<1>2. PICK t, u, v, x : /\ Wr(a).msg.body.encS = AeadSeal(k, 0, t, u)
                        /\ Wr(a).msg.body.encT = AeadSeal(l, 0, v, x)
  BY <1>1, Zenon DEF Sealed
<1>. HIDE DEF k, l
<1>3. CipherOf("static", a) = AeadSeal(k, 0, t, u) /\ CipherOf("time", a) = AeadSeal(l, 0, v, x)
  BY <1>2, CipherNames, Zenon
<1>4. CipherOf("static", a)[2] = k /\ CipherOf("time", a)[2] = l
  BY <1>3, SealTells
<1>. QED  BY <1>4 DEF k, l

\* The keys of what a slot seals: its response and its binding packet.
LEMMA SlotSealsKeys ==
  ASSUME NEW s, Rd(ses[s].m1).ok
  PROVE  /\ CipherOf("empty", s)[2] = Seed(s, ses[s].m1)[2]
         /\ CipherOf("down", s)[2] = Fin(s, ses[s].m1).SendKey
<1>. DEFINE m == ses[s].m1
            k == Seed(s, m)[2]
            l == Fin(s, m).SendKey
<1>1. PICK t, u : Ans(s, m).msg.body.encNothing = AeadSeal(k, 0, t, u)
  <2>1. SlotSeals(s, m)
    BY SlotKeys
  <2>. QED  BY <2>1, Zenon DEF SlotSeals
<1>2. PICK v, x : Push(s, m).ct = AeadSeal(l, 0, v, x)
  BY DEF Push, SealTransport
<1>3. CipherOf("empty", s) = AeadSeal(k, 0, t, u) /\ CipherOf("down", s) = AeadSeal(l, 0, v, x)
  BY <1>1, <1>2, CipherNames, Zenon
<1>. HIDE DEF k, l
<1>4. CipherOf("empty", s)[2] = k /\ CipherOf("down", s)[2] = l
  BY <1>3, SealTells
<1>. QED  BY <1>4 DEF k, l

\* The key and the counters of what a process seals: its two packets.
LEMMA ProcessSeals ==
  ASSUME IInv, NEW a \in Attempts, att[a].res # None
  PROVE  /\ att[a].index \in Sessions
         /\ Rd(ses[att[a].index].m1).ok
         /\ ses[att[a].index].m1.body.e = a
         /\ att[a].res.SendKey = Fin(att[a].index, ses[att[a].index].m1).RecvKey
         /\ BindPacket(a).ct[2] = att[a].res.SendKey /\ BindPacket(a).ct[3] = 0
         /\ IntentPacket(a).ct[2] = att[a].res.SendKey /\ IntentPacket(a).ct[3] = 1
<1>. DEFINE s == att[a].index
<1>1. s \in Sessions /\ Agree(a, s) /\ ses[s].m1.body.e = a
  BY DEF IInv, PairInv
<1>2. Rd(ses[s].m1).ok /\ ses[s].res = Fin(s, ses[s].m1)
  BY <1>1 DEF IInv, SlotInv, Agree
<1>3. att[a].res.SendKey = Fin(s, ses[s].m1).RecvKey
  BY <1>1, <1>2, Zenon DEF Agree
<1>4. /\ BindPacket(a).ct[2] = att[a].res.SendKey /\ BindPacket(a).ct[3] = 0
      /\ IntentPacket(a).ct[2] = att[a].res.SendKey /\ IntentPacket(a).ct[3] = 1
  BY DEF BindPacket, IntentPacket, SealTransport, AeadSeal
<1>. QED  BY <1>1, <1>2, <1>3, <1>4

\* c is under the key with which the slot that answered a receives.
ForSlotOf(a, c) == \E s, m : Rd(m).ok /\ m.body.e = a /\ c[2] = Fin(s, m).RecvKey

\* Both packets of a process are under the key of the slot it addresses.
LEMMA UpKey ==
  ASSUME IInv, NEW a, NEW c, SealedBy("up", a, c)
  PROVE  ForSlotOf(a, c)
<1>1. a \in Attempts /\ att[a].res # None /\ c \in {BindPacket(a).ct, IntentPacket(a).ct}
  BY DEF SealedBy
<1>. DEFINE s == att[a].index
            m == ses[s].m1
<1>2. /\ Rd(m).ok /\ m.body.e = a /\ att[a].res.SendKey = Fin(s, m).RecvKey
      /\ BindPacket(a).ct[2] = att[a].res.SendKey
      /\ IntentPacket(a).ct[2] = att[a].res.SendKey
  BY <1>1, ProcessSeals, Zenon
<1>. HIDE DEF s, m
<1>3. c[2] = Fin(s, m).RecvKey
  BY <1>1, <1>2
<1>. QED  BY <1>2, <1>3, Zenon DEF ForSlotOf

\* The key of a ciphertext has the place its kind says.
LEMMA CipherKey ==
  ASSUME IInv, NEW kind, NEW x, NEW c, SealedBy(kind, x, c)
  PROVE  IsKey(kind, c[2])
<1>1. CASE kind \in {"static", "time"}
  <2>1. Wr(x).ok /\ c = CipherOf(kind, x)
    BY <1>1 DEF SealedBy
  <2>. DEFINE u == att[x].opt.rs
              v == att[x].opt.s
  <2>2. /\ CipherOf("static", x)[2] = Key1(dh(x, u))
        /\ CipherOf("time", x)[2] = Key2(dh(x, u), dh(v, u))
    BY <2>1, InitiationSeals, Zenon
  <2>. HIDE DEF u, v
  <2>3. IsKey("static", CipherOf("static", x)[2]) /\ IsKey("time", CipherOf("time", x)[2])
    BY <2>2, Zenon DEF IsKey
  <2>. QED  BY <1>1, <2>1, <2>3
<1>2. CASE kind \in {"empty", "down"}
  <2>. DEFINE m == ses[x].m1
  <2>1. Rd(m).ok /\ c = CipherOf(kind, x)
    BY <1>2 DEF SealedBy
  <2>2. CipherOf("empty", x)[2] = Seed(x, m)[2] /\ CipherOf("down", x)[2] = Fin(x, m).SendKey
    BY <2>1, SlotSealsKeys, Zenon
  <2>. HIDE DEF m
  <2>3. Opened(Rd(m).st, DaemonStatic, m, DaemonSig)
    BY <2>1, ResponderKeys, Zenon DEF Rd
  <2>4. PICK y, z : Rd(m).st.sym.ck = hkdf2(y, z)[1]
    BY <2>3, Zenon DEF Opened, Chain2
  <2>5. Seed(x, m) = hkdf2(hkdf2(hkdf2(y, z)[1], dh(x, Rd(m).st.re))[1], dh(x, Rd(m).st.rs))
    BY <2>4, Zenon DEF Seed, SessionSeed
  <2>6. SlotSeals(x, m)
    BY <2>1, SlotKeys
  <2>7. IsKey("empty", Seed(x, m)[2])
    BY <2>5, Zenon DEF IsKey
  <2>8. IsKey("down", hkdf2(Seed(x, m)[1], <<"nil">>)[2])
    BY <2>5, Zenon DEF IsKey
  <2>9. IsKey("down", Fin(x, m).SendKey)
    BY <2>6, <2>8, Zenon DEF SlotSeals
  <2>. QED  BY <1>2, <2>1, <2>2, <2>7, <2>9
<1>3. CASE kind = "up"
  <2>0. ForSlotOf(x, c)
    BY <1>3, UpKey, Zenon
  <2>1. PICK s, m : Rd(m).ok /\ m.body.e = x /\ c[2] = Fin(s, m).RecvKey
    BY <2>0, Zenon DEF ForSlotOf
  <2>2. SlotSeals(s, m)
    BY <2>1, SlotKeys
  <2>3. c[2] = hkdf2(Seed(s, m)[1], <<"nil">>)[1]
    BY <2>1, <2>2, Zenon DEF SlotSeals
  <2>. QED  BY <1>3, <2>3, Zenon DEF IsKey
<1>. QED  BY <1>1, <1>2, <1>3 DEF SealedBy

\* Within a place, a key has one owner.
LEMMA KeyHasOneOwner ==
  ASSUME IInv, NEW kind, NEW x, NEW c, NEW y, NEW d,
         SealedBy(kind, x, c), SealedBy(kind, y, d), c[2] = d[2]
  PROVE  x = y
<1>1. CASE kind \in {"static", "time"}
  <2>1. /\ x \in Attempts /\ att[x].opt \in Options /\ Wr(x).ok /\ c = CipherOf(kind, x)
        /\ y \in Attempts /\ att[y].opt \in Options /\ Wr(y).ok /\ d = CipherOf(kind, y)
    BY <1>1 DEF SealedBy
  <2>. DEFINE u == att[x].opt.rs
              v == att[y].opt.rs
              p == dh(att[x].opt.s, u)
              q == dh(att[y].opt.s, v)
  <2>2. u \notin Attempts /\ v \notin Attempts
    BY <2>1, FreshAssumption
  <2>3. CipherOf("static", x)[2] = Key1(dh(x, u)) /\ CipherOf("time", x)[2] = Key2(dh(x, u), p)
    BY <2>1, InitiationSeals, Zenon
  <2>4. CipherOf("static", y)[2] = Key1(dh(y, v)) /\ CipherOf("time", y)[2] = Key2(dh(y, v), q)
    BY <2>1, InitiationSeals, Zenon
  <2>. HIDE DEF u, v, p, q
  <2>5. Key1(dh(x, u)) = Key1(dh(y, v)) \/ Key2(dh(x, u), p) = Key2(dh(y, v), q)
    BY <1>1, <2>1, <2>3, <2>4
  <2>6. dh(x, u) = dh(y, v)
    <3>1. ASSUME Key1(dh(x, u)) = Key1(dh(y, v)) PROVE dh(x, u) = dh(y, v)
      BY <3>1, KdfInjective DEF Key1
    <3>2. ASSUME Key2(dh(x, u), p) = Key2(dh(y, v), q) PROVE dh(x, u) = dh(y, v)
      <4>1. Chain1(dh(x, u)) = Chain1(dh(y, v))
        BY <3>2, KdfInjective DEF Key2
      <4>. QED  BY <4>1, KdfInjective DEF Chain1
    <3>. QED  BY <2>5, <3>1, <3>2
  <2>7. {x, u} = {y, v}
    BY <2>6 DEF dh
  <2>. QED  BY <2>1, <2>2, <2>7
<1>2. CASE kind \in {"empty", "down"}
  <2>. DEFINE m == ses[x].m1
              n == ses[y].m1
  <2>1. Rd(m).ok /\ Rd(n).ok /\ c = CipherOf(kind, x) /\ d = CipherOf(kind, y)
    BY <1>2 DEF SealedBy
  <2>2. CipherOf("empty", x)[2] = Seed(x, m)[2] /\ CipherOf("down", x)[2] = Fin(x, m).SendKey
    BY <2>1, SlotSealsKeys, Zenon
  <2>3. CipherOf("empty", y)[2] = Seed(y, n)[2] /\ CipherOf("down", y)[2] = Fin(y, n).SendKey
    BY <2>1, SlotSealsKeys, Zenon
  <2>. HIDE DEF m, n
  <2>4. ASSUME kind = "empty" PROVE x = y
    <3>1. Seed(x, m)[2] = Seed(y, n)[2]
      BY <2>1, <2>2, <2>3, <2>4
    <3>2. ShareKey(Seed(x, m), Seed(y, n))
      BY <3>1, Zenon DEF ShareKey
    <3>. QED  BY <2>1, <3>2, SeedNamesSlot, Zenon
  <2>5. ASSUME kind = "down" PROVE x = y
    <3>1. Fin(x, m).SendKey = Fin(y, n).SendKey
      BY <2>1, <2>2, <2>3, <2>5
    <3>2. ShareTransport(x, m, y, n)
      BY <2>1, <3>1, Zenon DEF ShareTransport
    <3>. QED  BY <3>2, TransportKeyNamesSlot, Zenon
  <2>. QED  BY <1>2, <2>4, <2>5
<1>3. CASE kind = "up"
  <2>0. ForSlotOf(x, c) /\ ForSlotOf(y, d)
    BY <1>3, UpKey, Zenon
  <2>1. PICK s, m : Rd(m).ok /\ m.body.e = x /\ c[2] = Fin(s, m).RecvKey
    BY <2>0, Zenon DEF ForSlotOf
  <2>2. PICK t, n : Rd(n).ok /\ n.body.e = y /\ d[2] = Fin(t, n).RecvKey
    BY <2>0, Zenon DEF ForSlotOf
  <2>3. ShareTransport(s, m, t, n)
    BY <2>1, <2>2 DEF ShareTransport
  <2>4. m.body.e = n.body.e
    BY <2>3, TransportKeyNamesSlot
  <2>. QED  BY <2>1, <2>2, <2>4
<1>. QED  BY <1>1, <1>2, <1>3 DEF SealedBy

\* No key seals two plaintexts under one nonce (noise.go encryptAndHash, main.go
\* SealTransport), for any number of processes and slots.
THEOREM NoncesNeverRepeat == Spec => []NoncesUnique
<1>1. ASSUME IInv, HistInv PROVE NoncesUnique
  <2>. SUFFICES ASSUME NEW c \in Ciphertexts, NEW d \in Ciphertexts, c[2] = d[2], c[3] = d[3]
                PROVE  c = d
    BY DEF NoncesUnique
  <2>1. PICK i, x : SealedBy(i, x, c)
    BY <1>1, EveryCipher
  <2>2. PICK j, y : SealedBy(j, y, d)
    BY <1>1, EveryCipher
  <2>3. i = j
    <3>1. IsKey(i, c[2]) /\ IsKey(j, c[2])
      BY <1>1, <2>1, <2>2, CipherKey
    <3>. QED  BY <3>1, KeyHasOnePlace, Zenon
  <2>4. x = y
    BY <1>1, <2>1, <2>2, <2>3, KeyHasOneOwner
  <2>5. CASE i = "up"
    <3>1. /\ x \in Attempts /\ att[x].res # None
          /\ c \in {BindPacket(x).ct, IntentPacket(x).ct}
          /\ d \in {BindPacket(x).ct, IntentPacket(x).ct}
      BY <2>1, <2>2, <2>3, <2>4, <2>5 DEF SealedBy
    <3>2. BindPacket(x).ct[3] = 0 /\ IntentPacket(x).ct[3] = 1
      BY <1>1, <3>1, ProcessSeals
    <3>. QED  BY <3>1, <3>2
  <2>6. CASE i # "up"
    <3>1. c = CipherOf(i, x) /\ d = CipherOf(j, y)
      BY <2>1, <2>2, <2>3, <2>6 DEF SealedBy
    <3>. QED  BY <2>3, <2>4, <3>1
  <2>. QED  BY <2>5, <2>6
<1>. QED  BY <1>1, History, PTL
=============================================================================
