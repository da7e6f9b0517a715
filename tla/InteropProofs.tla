--------------------------- MODULE InteropProofs ----------------------------
(***************************************************************************)
(* What the two handshake objects of wire/noise.go guarantee each other,   *)
(* for all keys, indices and messages; from it session agreement, and the  *)
(* meaning of a verified binding frame and of an admitted intent, for any  *)
(* number of runs, slots, options and lost, late or repeated datagrams.    *)
(***************************************************************************)
EXTENDS Interop, TLAPS

-----------------------------------------------------------------------------
(* The handshake.                                                          *)

\* A hash determines what was hashed.
LEMMA HashInjective ==
  ASSUME NEW x, NEW y, NEW u, NEW v, Hash(x, y) = Hash(u, v)
  PROVE  x = u /\ y = v
BY DEF Hash

\* So does a hash of a hash.
LEMMA HashTwiceInjective ==
  ASSUME NEW x, NEW y, NEW z, NEW u, NEW v, NEW w,
         Hash(Hash(x, y), z) = Hash(Hash(u, v), w)
  PROVE  x = u /\ y = v /\ z = w
<1>1. Hash(x, y) = Hash(u, v) /\ z = w
  BY HashInjective
<1>. QED  BY <1>1, HashInjective

\* A public key on the wire determines the key.
LEMMA PubInjective ==
  ASSUME NEW x, NEW y, Pub(x) = Pub(y)
  PROVE  x = y
BY DEF Pub

\* Each output of the key derivation determines its inputs, and is a key.
LEMMA KdfInjective ==
  ASSUME NEW c, NEW i, NEW d, NEW j
  PROVE  /\ hkdf2(c, i)[1] = hkdf2(d, j)[1] => c = d /\ i = j
         /\ hkdf2(c, i)[2] = hkdf2(d, j)[2] => c = d /\ i = j
         /\ hkdf2(c, i)[1] # hkdf2(d, j)[2]
         /\ hkdf2(c, i)[2] # NoKey
<1>1. hkdf2(c, i)[1] = hkdf2(d, j)[1] => c = d /\ i = j
  BY DEF hkdf2
<1>2. hkdf2(c, i)[2] = hkdf2(d, j)[2] => c = d /\ i = j
  BY DEF hkdf2
<1>3. hkdf2(c, i)[1] # hkdf2(d, j)[2]
  BY DEF hkdf2
<1>4. hkdf2(c, i)[2] # NoKey
  BY DEF hkdf2, NoKey
<1>. QED  BY <1>1, <1>2, <1>3, <1>4

\* A derived key is a key.
LEMMA KdfIsKey ==
  ASSUME NEW c, NEW x
  PROVE  hkdf2(c, x)[2] # NoKey
BY KdfInjective

\* A ciphertext opens only under the key, nonce and data it was sealed with,
\* and gives its plaintext back.
LEMMA OpensWhatWasSealed ==
  ASSUME NEW k, NEW n, NEW p, NEW ad, NEW k2, NEW n2, NEW ad2
  PROVE  /\ AeadOpens(k2, n2, AeadSeal(k, n, p, ad), ad2) <=> k2 = k /\ n2 = n /\ ad2 = ad
         /\ Plaintext(AeadSeal(k, n, p, ad)) = p
BY DEF AeadOpens, AeadSeal, Plaintext

-----------------------------------------------------------------------------
\* The effect of each operation on the fields of a symmetric state.
LEMMA SymSteps ==
  ASSUME NEW s, NEW x
  PROVE  /\ mixHash(s, x).h = Hash(s.h, x)
         /\ mixHash(s, x).ck = s.ck
         /\ mixHash(s, x).k = s.k
         /\ mixKey(s, x).h = s.h
         /\ mixKey(s, x).ck = hkdf2(s.ck, x)[1]
         /\ mixKey(s, x).k = hkdf2(s.ck, x)[2]
         /\ mixKey(s, x).n = 0
         /\ AndHash(s, x).h = Hash(s.h, x)
         /\ AndHash(s, x).ck = s.ck
         /\ AndHash(s, x).k = s.k
BY DEF mixHash, mixKey, AndHash

\* A hash and two keys, as in the second message.
LEMMA TwoKeys ==
  ASSUME NEW s, NEW x, NEW y, NEW z
  PROVE  /\ mixKey(mixKey(mixHash(s, x), y), z).h = Hash(s.h, x)
         /\ mixKey(mixKey(mixHash(s, x), y), z).n = 0
         /\ mixKey(mixKey(mixHash(s, x), y), z).ck = hkdf2(hkdf2(s.ck, y)[1], z)[1]
         /\ mixKey(mixKey(mixHash(s, x), y), z).k = hkdf2(hkdf2(s.ck, y)[1], z)[2]
<1>. DEFINE a == mixHash(s, x)
            b == mixKey(a, y)
            c == mixKey(b, z)
<1>1. a.h = Hash(s.h, x) /\ a.ck = s.ck
  BY SymSteps
<1>. HIDE DEF a
<1>2. b.h = a.h /\ b.ck = hkdf2(a.ck, y)[1]
  BY SymSteps
<1>. HIDE DEF b
<1>3. c.h = b.h /\ c.n = 0 /\ c.ck = hkdf2(b.ck, z)[1] /\ c.k = hkdf2(b.ck, z)[2]
  BY SymSteps
<1>. HIDE DEF c
<1>4. /\ c.h = Hash(s.h, x) /\ c.n = 0
      /\ c.ck = hkdf2(hkdf2(s.ck, y)[1], z)[1] /\ c.k = hkdf2(hkdf2(s.ck, y)[1], z)[2]
  BY <1>1, <1>2, <1>3
<1>. QED  BY <1>4, Zenon DEF a, b, c

\* s is the initiator's symmetric state when it opens a response from re.
ReadyFor(s, in, re) ==
  /\ s.h = Hash(in.sym.h, Pub(re)) /\ s.n = 0
  /\ s.ck = hkdf2(hkdf2(in.sym.ck, dh(in.e, re))[1], dh(in.s, re))[1]
  /\ s.k = hkdf2(hkdf2(in.sym.ck, dh(in.e, re))[1], dh(in.s, re))[2]

\* The one ReadResponse computes is.
LEMMA ResponseState ==
  ASSUME NEW in, NEW re
  PROVE  ReadyFor(mixKey(mixKey(mixHash(in.sym, Pub(re)), dh(in.e, re)), dh(in.s, re)), in, re)
BY TwoKeys DEF ReadyFor

\* What a written initiation w and the state after it hold.
Written(w, s, S, rs, idx, e) ==
  /\ w.st.sym.h = Hash(Hash(Hash(Hash(protocolName, Pub(rs)), Pub(e)),
                            w.msg.body.encS), w.msg.body.encT)
  /\ Plaintext(w.msg.body.encS)[2] = S
  /\ w.msg.body.e = e
  /\ w.msg.body.sender = idx
  /\ w.msg.type = 1
  /\ w.st.e = e
  /\ w.st.s = s
  /\ "sym" \in DOMAIN w.st

\* The transcript hash of a written initiation: the responder's static key, the
\* ephemeral key and the two ciphertexts, in this order.
LEMMA InitiationTranscript ==
  ASSUME NEW s, NEW S, NEW rs, NEW idx, NEW time, NEW e, NEW sigPub,
         WriteInitiation(NewInitiator(s, S, rs), idx, time, e, sigPub).ok
  PROVE  Written(WriteInitiation(NewInitiator(s, S, rs), idx, time, e, sigPub),
                 s, S, rs, idx, e)
<1>. DEFINE in == NewInitiator(s, S, rs)
            s0 == mixHash(in.sym, Pub(e))
            s1 == mixKey(s0, dh(e, in.rs))
            encS == Encrypted(s1, Pub(in.S))
            s2 == mixKey(AndHash(s1, encS), dh(in.s, in.rs))
            encT == Encrypted(s2, <<"time", time>>)
            w == WriteInitiation(in, idx, time, e, sigPub)
<1>1. /\ in.s = s /\ in.S = S /\ in.rs = rs
      /\ in.sym.h = Hash(protocolName, Pub(rs))
  BY DEF NewInitiator, mixHash, newSymmetricState
<1>2. /\ w.st.sym = AndHash(s2, encT)
      /\ w.msg.body.encS = encS /\ w.msg.body.encT = encT
      /\ w.msg.body.e = e /\ w.msg.body.sender = idx /\ w.msg.type = 1
      /\ w.st.e = e /\ w.st.s = in.s
  BY DEF WriteInitiation, NewInitiator
<1>3. encS = AeadSeal(s1.k, s1.n, Pub(S), s1.h)
  BY <1>1, SymSteps, KdfInjective DEF Encrypted
<1>4. Plaintext(encS)[2] = S
  BY <1>3, OpensWhatWasSealed DEF Pub
<1>5. s1.h = Hash(Hash(protocolName, Pub(rs)), Pub(e))
  BY <1>1, SymSteps
<1>6. s2.h = Hash(s1.h, encS)
  BY SymSteps
<1>7. AndHash(s2, encT).h = Hash(s2.h, encT)
  BY SymSteps
<1>9. "sym" \in DOMAIN w.st
  <2>1. "sym" \in DOMAIN in
    BY DEF NewInitiator
  <2>2. w.st = [in EXCEPT !.e = e, !.sym = IF dhFails(in.rs) THEN s0 ELSE AndHash(s2, encT)]
    BY DEF WriteInitiation
  <2>. HIDE DEF s0, s2, encT, in, w
  <2>. QED  BY <2>1, <2>2
<1>. HIDE DEF s0, s1, s2, encS, encT, w, in
<1>8. /\ w.st.sym.h = Hash(Hash(Hash(Hash(protocolName, Pub(rs)), Pub(e)),
                                       w.msg.body.encS), w.msg.body.encT)
      /\ Plaintext(w.msg.body.encS)[2] = S
      /\ w.st.s = s
  BY <1>1, <1>2, <1>4, <1>5, <1>6, <1>7
<1>10. Written(w, s, S, rs, idx, e)
  BY <1>2, <1>8, <1>9 DEF Written
<1>. QED  BY <1>10 DEF w, in

\* The same transcript hash at the responder, for any initiation it reads.
LEMMA ResponderTranscript ==
  ASSUME NEW key, NEW m, NEW sigPub,
         ReadInitiation(NewResponder(key, key), m, sigPub).ok
  PROVE  LET r == ReadInitiation(NewResponder(key, key), m, sigPub).st
         IN  /\ r.sym.h = Hash(Hash(Hash(Hash(protocolName, Pub(key)), Pub(m.body.e)),
                                    m.body.encS), m.body.encT)
             /\ r.rs = Plaintext(m.body.encS)[2]
             /\ r.re = m.body.e
             /\ "sym" \in DOMAIN r
<1>. DEFINE r0 == NewResponder(key, key)
            re == m.body.e
            s0 == mixHash(r0.sym, Pub(re))
            s1 == mixKey(s0, dh(r0.s, re))
            rs == Plaintext(m.body.encS)[2]
            s2 == mixKey(AndHash(s1, m.body.encS), dh(r0.s, rs))
            r == ReadInitiation(r0, m, sigPub)
<1>1. r0.sym.h = Hash(protocolName, Pub(key))
  BY DEF NewResponder, mixHash, newSymmetricState
<1>2. r.st.sym = AndHash(s2, m.body.encT) /\ r.st.rs = rs /\ r.st.re = re
  BY DEF ReadInitiation, NewResponder
<1>3. s1.h = Hash(Hash(protocolName, Pub(key)), Pub(re))
  BY <1>1, SymSteps
<1>4. s2.h = Hash(s1.h, m.body.encS)
  BY SymSteps
<1>5. AndHash(s2, m.body.encT).h = Hash(s2.h, m.body.encT)
  BY SymSteps
<1>6. "sym" \in DOMAIN r.st
  <2>1. "sym" \in DOMAIN r0
    BY DEF NewResponder
  <2>2. r.st = [r0 EXCEPT !.re = re, !.rs = rs, !.sym = AndHash(s2, m.body.encT)]
    BY DEF ReadInitiation
  <2>. HIDE DEF r0, re, rs, s2, r
  <2>. QED  BY <2>1, <2>2
<1>. HIDE DEF r0, s0, s1, s2, r
<1>. QED  BY <1>2, <1>3, <1>4, <1>5, <1>6 DEF r, r0

\* What a written response w seals, and the results res drawn from it.
Answered(w, res, r, i, e) ==
  LET k == hkdf2(hkdf2(r.sym.ck, dh(e, r.re))[1], dh(e, r.rs))
      ct == w.msg.body.encNothing
  IN  /\ ct = AeadSeal(k[2], 0, <<"empty">>, Hash(r.sym.h, Pub(e)))
      /\ res.H = Hash(Hash(r.sym.h, Pub(e)), ct)
      /\ res.SendKey = hkdf2(k[1], <<"nil">>)[2]
      /\ res.RecvKey = hkdf2(k[1], <<"nil">>)[1]
      /\ w.msg.body.e = e
      /\ w.msg.body.sender = i
      /\ w.msg.type = 2

\* The response the responder writes, and the results it draws from it.
LEMMA ResponseForm ==
  ASSUME NEW r, "sym" \in DOMAIN r, NEW i, NEW j, NEW e, NEW sigPub
  PROVE  Answered(WriteResponse(r, i, j, e, sigPub),
                  FinalizeResponder(WriteResponse(r, i, j, e, sigPub).st), r, i, e)
<1>. DEFINE w == WriteResponse(r, i, j, e, sigPub)
            s0 == mixHash(r.sym, Pub(e))
            s1 == mixKey(mixKey(s0, dh(e, r.re)), dh(e, r.rs))
            ct == Encrypted(s1, <<"empty">>)
<1>1. /\ w.st.sym = AndHash(s1, ct)
      /\ w.msg.body.encNothing = ct
      /\ w.msg.body.e = e /\ w.msg.body.sender = i /\ w.msg.type = 2
  <2>. DEFINE body == [sender |-> i, receiver |-> j, e |-> e, encNothing |-> ct]
  <2>1. /\ w.st = [r EXCEPT !.sym = AndHash(s1, body.encNothing)]
        /\ w.msg.body = body /\ w.msg.type = 2
    BY DEF WriteResponse
  <2>2. body.encNothing = ct /\ body.e = e /\ body.sender = i
    OBVIOUS
  <2>. HIDE DEF s1, ct, w, body
  <2>3. w.st.sym = AndHash(s1, ct)
    BY <2>1, <2>2
  <2>. QED  BY <2>1, <2>2, <2>3
<1>2. s1.h = Hash(r.sym.h, Pub(e)) /\ s1.n = 0
  BY TwoKeys
<1>3. /\ s1.ck = hkdf2(hkdf2(r.sym.ck, dh(e, r.re))[1], dh(e, r.rs))[1]
      /\ s1.k = hkdf2(hkdf2(r.sym.ck, dh(e, r.re))[1], dh(e, r.rs))[2]
  BY TwoKeys
<1>4. ct = AeadSeal(s1.k, s1.n, <<"empty">>, s1.h)
  <2>. HIDE DEF s1
  <2>1. s1.k # NoKey
    BY <1>3, KdfIsKey, Zenon
  <2>. QED  BY <2>1 DEF Encrypted
<1>5. AndHash(s1, ct).h = Hash(s1.h, ct) /\ AndHash(s1, ct).ck = s1.ck
  BY SymSteps
<1>. HIDE DEF s0, s1, ct, w
<1>6. /\ FinalizeResponder(w.st).H = w.st.sym.h
      /\ FinalizeResponder(w.st).SendKey = hkdf2(w.st.sym.ck, <<"nil">>)[2]
      /\ FinalizeResponder(w.st).RecvKey = hkdf2(w.st.sym.ck, <<"nil">>)[1]
  BY DEF FinalizeResponder, split
<1>7. Answered(w, FinalizeResponder(w.st), r, i, e)
  BY <1>1, <1>2, <1>3, <1>4, <1>5, <1>6 DEF Answered
<1>. QED  BY <1>7 DEF w

\* A response that ReadResponse takes is sealed under the key and the hash the
\* initiator has reached, and these decide the initiator's results.
LEMMA ReadResponseForm ==
  ASSUME NEW in, "sym" \in DOMAIN in, NEW m, NEW sigPub,
         ReadResponse(in, m, sigPub).ok
  PROVE  LET ck == hkdf2(in.sym.ck, dh(in.e, m.body.e))[1]
             k == hkdf2(ck, dh(in.s, m.body.e))
             ct == m.body.encNothing
             res == FinalizeInitiator(ReadResponse(in, m, sigPub).st)
         IN  /\ AeadOpens(k[2], 0, ct, Hash(in.sym.h, Pub(m.body.e)))
             /\ res.H = Hash(Hash(in.sym.h, Pub(m.body.e)), ct)
             /\ res.SendKey = hkdf2(k[1], <<"nil">>)[1]
             /\ res.RecvKey = hkdf2(k[1], <<"nil">>)[2]
<1>. DEFINE re == m.body.e
            ct == m.body.encNothing
            s0 == mixHash(in.sym, Pub(re))
            s1 == mixKey(mixKey(s0, dh(in.e, re)), dh(in.s, re))
            x == ReadResponse(in, m, sigPub)
<1>1. x.st.sym = AndHash(s1, ct) /\ Decrypts(s1, ct)
  <2>1. x.st = [in EXCEPT !.sym = AndHash(s1, ct)] /\ Decrypts(s1, ct)
    BY DEF ReadResponse
  <2>. QED  BY <2>1
<1>0. ReadyFor(s1, in, re)
  BY ResponseState, Zenon
<1>2. s1.h = Hash(in.sym.h, Pub(re)) /\ s1.n = 0
  BY <1>0, Zenon DEF ReadyFor
<1>3. /\ s1.ck = hkdf2(hkdf2(in.sym.ck, dh(in.e, re))[1], dh(in.s, re))[1]
      /\ s1.k = hkdf2(hkdf2(in.sym.ck, dh(in.e, re))[1], dh(in.s, re))[2]
  BY <1>0, Zenon DEF ReadyFor
<1>4. AeadOpens(s1.k, s1.n, ct, s1.h)
  <2>. HIDE DEF s1, ct
  <2>1. s1.k # NoKey
    BY <1>3, KdfIsKey, Zenon
  <2>. QED  BY <1>1, <2>1, Zenon DEF Decrypts
<1>5. AndHash(s1, ct).h = Hash(s1.h, ct) /\ AndHash(s1, ct).ck = s1.ck
  BY SymSteps
<1>. HIDE DEF s0, s1, x, ct
<1>6. /\ FinalizeInitiator(x.st).H = x.st.sym.h
      /\ FinalizeInitiator(x.st).SendKey = hkdf2(x.st.sym.ck, <<"nil">>)[1]
      /\ FinalizeInitiator(x.st).RecvKey = hkdf2(x.st.sym.ck, <<"nil">>)[2]
  BY DEF FinalizeInitiator, split
<1>. QED  BY <1>1, <1>2, <1>3, <1>4, <1>5, <1>6 DEF x, ct
\* Equal transcript hashes of two initiations: one ephemeral key, one pair of
\* ciphertexts.
LEMMA TranscriptInjective ==
  ASSUME NEW x, NEW e, NEW c, NEW d, NEW y, NEW f, NEW g, NEW h,
         Hash(Hash(Hash(Hash(protocolName, Pub(x)), Pub(e)), c), d)
           = Hash(Hash(Hash(Hash(protocolName, Pub(y)), Pub(f)), g), h)
  PROVE  x = y /\ e = f /\ c = g /\ d = h
<1>1. /\ Hash(Hash(protocolName, Pub(x)), Pub(e)) = Hash(Hash(protocolName, Pub(y)), Pub(f))
      /\ c = g /\ d = h
  <2>. DEFINE p == Hash(Hash(protocolName, Pub(x)), Pub(e))
              q == Hash(Hash(protocolName, Pub(y)), Pub(f))
  <2>1. Hash(Hash(p, c), d) = Hash(Hash(q, g), h)
    OBVIOUS
  <2>. HIDE DEF p, q
  <2>2. p = q /\ c = g /\ d = h
    BY <2>1, HashTwiceInjective
  <2>. QED  BY <2>2 DEF p, q
<1>2. Pub(x) = Pub(y) /\ Pub(e) = Pub(f)
  BY <1>1, HashTwiceInjective
<1>. QED  BY <1>1, <1>2, PubInjective

-----------------------------------------------------------------------------
\* The results of the two objects have crossed keys and one transcript hash, and
\* the objects had one transcript hash before the response.
ResultsAgree(in, r, here, there) ==
  /\ here.SendKey = there.RecvKey
  /\ here.RecvKey = there.SendKey
  /\ here.H = there.H
  /\ in.sym.h = r.sym.h

\* If an initiator takes a response (ReadResponse returns nil), then whatever
\* states the two objects were in, they had one transcript hash, and their
\* results have crossed keys and one transcript hash again.
THEOREM HandshakeAgrees ==
  ASSUME NEW in, "sym" \in DOMAIN in, NEW r, "sym" \in DOMAIN r,
         NEW i, NEW j, NEW f, NEW sp, NEW sp2,
         ReadResponse(in, WriteResponse(r, i, j, f, sp).msg, sp2).ok
  PROVE  ResultsAgree(in, r,
           FinalizeInitiator(ReadResponse(in, WriteResponse(r, i, j, f, sp).msg, sp2).st),
           FinalizeResponder(WriteResponse(r, i, j, f, sp).st))
<1>. DEFINE a == WriteResponse(r, i, j, f, sp)
            msg == a.msg
            here == FinalizeInitiator(ReadResponse(in, msg, sp2).st)
            there == FinalizeResponder(a.st)
            ckR == hkdf2(r.sym.ck, dh(f, r.re))[1]
            kR == hkdf2(ckR, dh(f, r.rs))
            ckI == hkdf2(in.sym.ck, dh(in.e, msg.body.e))[1]
            kI == hkdf2(ckI, dh(in.s, msg.body.e))
            ct == msg.body.encNothing
<1>1. /\ ct = AeadSeal(kR[2], 0, <<"empty">>, Hash(r.sym.h, Pub(f)))
      /\ there.H = Hash(Hash(r.sym.h, Pub(f)), ct)
      /\ there.SendKey = hkdf2(kR[1], <<"nil">>)[2]
      /\ there.RecvKey = hkdf2(kR[1], <<"nil">>)[1]
      /\ msg.body.e = f
  <2>1. Answered(a, there, r, i, f)
    BY ResponseForm, Zenon
  <2>. HIDE DEF a, there
  <2>. QED  BY <2>1 DEF Answered
<1>2. ReadResponse(in, msg, sp2).ok
  OBVIOUS
<1>. HIDE DEF a, msg
<1>3. /\ AeadOpens(kI[2], 0, ct, Hash(in.sym.h, Pub(msg.body.e)))
      /\ here.H = Hash(Hash(in.sym.h, Pub(msg.body.e)), ct)
      /\ here.SendKey = hkdf2(kI[1], <<"nil">>)[1]
      /\ here.RecvKey = hkdf2(kI[1], <<"nil">>)[2]
  BY <1>2, ReadResponseForm
<1>. HIDE DEF here, there, ckR, ckI, ct
<1>4. kI[2] = kR[2] /\ Hash(in.sym.h, Pub(f)) = Hash(r.sym.h, Pub(f))
  <2>. HIDE DEF kI, kR
  <2>. QED  BY <1>1, <1>3, OpensWhatWasSealed
<1>5. in.sym.h = r.sym.h
  BY <1>4, HashInjective
<1>6. kI[1] = kR[1]
  BY <1>4, KdfInjective
<1>. HIDE DEF kI, kR
<1>7. /\ here.SendKey = there.RecvKey
      /\ here.RecvKey = there.SendKey
      /\ here.H = there.H
  BY <1>1, <1>3, <1>5, <1>6
<1>8. ResultsAgree(in, r, here, there)
  BY <1>5, <1>7 DEF ResultsAgree
<1>. QED  BY <1>8 DEF a, msg, here, there

-----------------------------------------------------------------------------
(* The invariant.                                                          *)

\* att and ses are functions into records with the fields of Init.
AttShape ==
  \E P, O, I, R, N, C, D :
    att \in [Attempts -> [pc : P, opt : O, in : I, res : R, index : N, cert : C, read : D]]
SesShape ==
  \E P, M, N, R, C : ses \in [Sessions -> [state : P, m1 : M, rs : N, res : R, cert : C]]

Wr(a) == WriteInitiation(NewInitiator(att[a].opt.s, att[a].opt.S, att[a].opt.rs),
                         senderIndex, a, a, att[a].opt.sigPub)
Rd(m) == ReadInitiation(NewResponder(DaemonStatic, DaemonStatic), m, DaemonSig)
Ans(s, m) == WriteResponse(Rd(m).st, s, m.body.sender, s, DaemonSig)
Fin(s, m) == FinalizeResponder(Ans(s, m).st)
Push(s, m) ==
  SealTransport(Fin(s, m).SendKey, m.body.sender, 0,
                BuildBindingFrame(DaemonCert, DaemonSig, Fin(s, m).H))
BindPacket(a) ==
  SealTransport(att[a].res.SendKey, att[a].index, 0,
                BuildBindingFrame(att[a].opt.cert, att[a].opt.sig, att[a].res.H))
IntentPacket(a) ==
  SealTransport(att[a].res.SendKey, att[a].index, 1,
                BuildSignedEnvelope(att[a].opt.sig,
                  [id |-> a, resource |-> att[a].cert.key], att[a].opt.sig))

\* What a process holds at each point of its program.
ProcInv(a) ==
  /\ att[a].pc \in {"new", "dial", "stageA", "bind", "stageB", "intent", "ok",
                    "failed", "refused"}
  /\ att[a].opt \in Options \cup {None}
  /\ att[a].pc \notin {"new", "failed"} \/ att[a].res # None => att[a].opt \in Options
  /\ att[a].pc \in {"new", "dial", "stageA"} => att[a].res = None
  /\ att[a].pc \in {"bind", "stageB", "intent", "ok"} => att[a].res # None
  /\ att[a].pc \in {"bind", "stageB"} => att[a].cert = None
  /\ att[a].pc \in {"intent", "ok"} => att[a].cert # None
  /\ att[a].cert # None => att[a].res # None
  /\ att[a].res = None => att[a].index = NoIndex
  /\ att[a].pc \in {"stageA", "bind", "stageB", "intent", "ok"} => att[a].in # None
  /\ att[a].pc = "refused" => att[a].read # None
  /\ att[a].pc = "stageA" => Wr(a).ok /\ att[a].in = Wr(a).st

\* A slot in use holds what the Responder computed from its initiation.
SlotInv(s) ==
  /\ ses[s].state \in {"free", "open", "bound", "gone"}
  /\ ses[s].state = "free" => ses[s].res = None
  /\ ses[s].state \in {"free", "open"} => ses[s].cert = None
  /\ ses[s].state = "bound" => ses[s].cert # None
  /\ ses[s].state # "free" =>
       /\ Rd(ses[s].m1).ok
       /\ ses[s].rs = Rd(ses[s].m1).st.rs
       /\ ses[s].res = Fin(s, ses[s].m1)

\* Every datagram to the daemon is an initiation, or the binding packet or the
\* intent packet of a process that has got so far.
UpInv(p) ==
  \/ p.type = 1
  \/ \E a \in Attempts : att[a].res # None /\ p = BindPacket(a)
  \/ \E a \in Attempts : att[a].pc = "ok" /\ p = IntentPacket(a)

\* Every datagram to the harness is the answer or the binding packet of a slot.
DownInv(p) ==
  \E s \in Sessions :
    ses[s].state # "free" /\ (p = Ans(s, ses[s].m1).msg \/ p = Push(s, ses[s].m1))

\* A process with keys agrees with the slot it addresses.
PairInv(a) ==
  att[a].res # None =>
    /\ att[a].index \in Sessions
    /\ Agree(a, att[a].index)
    /\ ses[att[a].index].m1.body.e = a
    /\ ses[att[a].index].rs = att[a].opt.S

\* A process that verified a certificate verified the daemon's.
PeerInv(a) ==
  att[a].cert # None =>
    /\ att[a].cert = DaemonCert
    /\ Signers(DaemonCert) \subseteq trusted(att[a].opt)

\* A slot that verified a certificate verified that of the process it answered.
OwnerInv(s) ==
  ses[s].cert # None =>
    LET a == ses[s].m1.body.e
    IN  /\ a \in Attempts
        /\ att[a].res # None
        /\ att[a].index = s
        /\ ses[s].cert = att[a].opt.cert
        /\ att[a].opt.cert.key = att[a].opt.sig

\* An admitted intent is the one its owner sent last.
AdmitInv(x) ==
  /\ x.slot \in Sessions
  /\ ses[x.slot].cert # None
  /\ LET a == ses[x.slot].m1.body.e
     IN  /\ att[a].pc = "ok"
         /\ x.intent = [id |-> a, resource |-> DaemonCert.key]
         /\ x.sender = att[a].opt.sig

IInv ==
  /\ AttShape /\ SesShape
  /\ \A a \in Attempts : ProcInv(a) /\ PairInv(a) /\ PeerInv(a)
  /\ \A s \in Sessions : SlotInv(s) /\ OwnerInv(s)
  /\ \A p \in up : UpInv(p)
  /\ \A p \in down : DownInv(p)
  /\ \A x \in admitted : AdmitInv(x)

-----------------------------------------------------------------------------
(* The slot is determined by the transcript hash.                          *)

\* A process's initiation has the form InitiationTranscript gives it.
LEMMA WrFacts ==
  ASSUME NEW a, Wr(a).ok
  PROVE  Written(Wr(a), att[a].opt.s, att[a].opt.S, att[a].opt.rs, senderIndex, a)
BY InitiationTranscript, Zenon DEF Wr

\* The daemon's answer: its transcript hash, its index and its type.
LEMMA AnsFacts ==
  ASSUME NEW s, NEW m, Rd(m).ok
  PROVE  /\ Fin(s, m).H = Hash(Hash(Rd(m).st.sym.h, Pub(s)), Ans(s, m).msg.body.encNothing)
         /\ Ans(s, m).msg.body.sender = s
         /\ Ans(s, m).msg.type = 2
<1>1. "sym" \in DOMAIN Rd(m).st
  BY ResponderTranscript DEF Rd
<1>2. Answered(Ans(s, m), Fin(s, m), Rd(m).st, s, s)
  BY <1>1, ResponseForm, Zenon DEF Ans, Fin
<1>. QED  BY <1>2, Zenon DEF Answered

\* The keys of a slot are a value.
LEMMA FinIsRecord ==
  ASSUME NEW r, NEW in
  PROVE  FinalizeResponder(r) # None /\ FinalizeInitiator(in) # None
BY DEF FinalizeResponder, FinalizeInitiator, None

\* Two slots with one transcript hash are one slot, and answered initiations
\* with one ephemeral key.
LEMMA HashNamesSlot ==
  ASSUME NEW s, NEW m, NEW t, NEW n, Rd(m).ok, Rd(n).ok, Fin(s, m).H = Fin(t, n).H
  PROVE  s = t /\ m.body.e = n.body.e
<1>. DEFINE f == Rd(m).st
            g == Rd(n).st
            x == Ans(s, m).msg.body.encNothing
            y == Ans(t, n).msg.body.encNothing
<1>1. /\ "sym" \in DOMAIN f
      /\ f.sym.h = Hash(Hash(Hash(Hash(protocolName, Pub(DaemonStatic)), Pub(m.body.e)),
                             m.body.encS), m.body.encT)
  BY ResponderTranscript DEF Rd
<1>2. /\ "sym" \in DOMAIN g
      /\ g.sym.h = Hash(Hash(Hash(Hash(protocolName, Pub(DaemonStatic)), Pub(n.body.e)),
                             n.body.encS), n.body.encT)
  BY ResponderTranscript DEF Rd
<1>. HIDE DEF f, g
<1>3. Fin(s, m).H = Hash(Hash(f.sym.h, Pub(s)), x)
  <2>1. Rd(m).ok
    OBVIOUS
  <2>. QED  BY <2>1, AnsFacts, SMTT(60) DEF f
<1>4. Fin(t, n).H = Hash(Hash(g.sym.h, Pub(t)), y)
  <2>1. Rd(n).ok
    OBVIOUS
  <2>. QED  BY <2>1, AnsFacts, SMTT(60) DEF g
<1>. DEFINE hf == f.sym.h
            hg == g.sym.h
<1>5. Hash(Hash(hf, Pub(s)), x) = Hash(Hash(hg, Pub(t)), y)
  BY <1>3, <1>4
<1>. HIDE DEF x, y, hf, hg
<1>6. hf = hg /\ s = t
  BY <1>5, HashTwiceInjective, PubInjective
<1>. DEFINE pf == Hash(Hash(protocolName, Pub(DaemonStatic)), Pub(m.body.e))
            pg == Hash(Hash(protocolName, Pub(DaemonStatic)), Pub(n.body.e))
            fS == m.body.encS
            fT == m.body.encT
            gS == n.body.encS
            gT == n.body.encT
<1>7. Hash(Hash(pf, fS), fT) = Hash(Hash(pg, gS), gT)
  BY <1>1, <1>2, <1>6 DEF hf, hg
<1>8. pf = pg
  <2>. HIDE DEF pf, pg, fS, fT, gS, gT
  <2>. QED  BY <1>7, HashTwiceInjective
<1>9. m.body.e = n.body.e
  BY <1>8, HashInjective, PubInjective
<1>. QED  BY <1>6, <1>9

\* A process agrees with no slot but the one it addresses.
LEMMA AgreeIsIndex ==
  ASSUME IInv, NEW a \in Attempts, NEW s \in Sessions, att[a].res # None, ses[s].res # None,
         att[a].res.H = ses[s].res.H
  PROVE  s = att[a].index
<1>. DEFINE t == att[a].index
<1>1. /\ t \in Sessions
      /\ ses[t].res # None
      /\ att[a].res.H = ses[t].res.H
  BY DEF IInv, PairInv, Agree
<1>2. /\ Rd(ses[s].m1).ok /\ ses[s].res = Fin(s, ses[s].m1)
      /\ Rd(ses[t].m1).ok /\ ses[t].res = Fin(t, ses[t].m1)
  BY <1>1 DEF IInv, SlotInv
<1>3. Fin(s, ses[s].m1).H = Fin(t, ses[t].m1).H
  BY <1>1, <1>2
<1>. HIDE DEF t
<1>4. s = t
  BY <1>2, <1>3, HashNamesSlot
<1>. QED  BY <1>4 DEF t
-----------------------------------------------------------------------------
(* What the assignments of the actions leave in the fields of a process.    *)

\* A process is the record of its fields.
IsProcess(q) ==
  q \in [pc : {q.pc}, opt : {q.opt}, in : {q.in}, res : {q.res},
         index : {q.index}, cert : {q.cert}, read : {q.read}]

\* Every process of a state of this shape is one.
LEMMA ProcessRecord ==
  ASSUME AttShape, NEW a \in Attempts
  PROVE  IsProcess(att[a])
<1>1. PICK P, O, I, R, N, C, D :
        att \in [Attempts -> [pc : P, opt : O, in : I, res : R, index : N, cert : C, read : D]]
  BY DEF AttShape
<1>. QED  BY <1>1 DEF IsProcess

\* One process gets a new record.
LEMMA ProcessEffect ==
  ASSUME AttShape, NEW a \in Attempts, NEW q, IsProcess(q), att' = [att EXCEPT ![a] = q]
  PROVE  /\ AttShape'
         /\ \A b \in Attempts \ {a} : att'[b] = att[b]
         /\ att'[a] = q
<1>1. PICK P, O, I, R, N, C, D :
        att \in [Attempts -> [pc : P, opt : O, in : I, res : R, index : N, cert : C, read : D]]
  BY DEF AttShape
<1>. DEFINE P2 == P \cup {q.pc}
            O2 == O \cup {q.opt}
            I2 == I \cup {q.in}
            R2 == R \cup {q.res}
            N2 == N \cup {q.index}
            C2 == C \cup {q.cert}
            D2 == D \cup {q.read}
<1>2. att' \in [Attempts -> [pc : P2, opt : O2, in : I2, res : R2, index : N2, cert : C2,
                              read : D2]]
  BY <1>1 DEF IsProcess
<1>3. AttShape'
  <2>. HIDE DEF P2, O2, I2, R2, N2, C2, D2
  <2>. QED  BY <1>2, Zenon DEF AttShape
<1>. QED  BY <1>1, <1>3

-----------------------------------------------------------------------------
(* What both ends have settled stays settled.                              *)

Keeps(a) ==
  /\ att[a].res # None =>
       att'[a].res = att[a].res /\ att'[a].index = att[a].index /\ att'[a].opt = att[a].opt
  /\ att[a].cert # None => att'[a].cert = att[a].cert
  /\ att[a].pc = "ok" => att'[a].pc = "ok"

SlotKeeps(s) ==
  ses[s].state # "free" =>
    /\ ses'[s].state # "free"
    /\ ses'[s].m1 = ses[s].m1
    /\ ses'[s].rs = ses[s].rs
    /\ ses'[s].res = ses[s].res
    /\ ses[s].cert # None => ses'[s].cert = ses[s].cert

\* The parts of the invariant that speak of settled things are kept.
LEMMA Persist ==
  ASSUME IInv, \A a \in Attempts : Keeps(a), \A s \in Sessions : SlotKeeps(s)
  PROVE  /\ \A p \in up : UpInv(p)'
         /\ \A p \in down : DownInv(p)'
         /\ \A a \in Attempts : att[a].res # None => PairInv(a)'
         /\ \A a \in Attempts : att[a].cert # None => PeerInv(a)'
         /\ \A s \in Sessions : ses[s].cert # None => OwnerInv(s)'
         /\ \A x \in admitted : AdmitInv(x)'
<1>1. ASSUME NEW p \in up PROVE UpInv(p)'
  <2>1. CASE p.type = 1
    BY <2>1 DEF UpInv
  <2>2. ASSUME NEW a \in Attempts, att[a].res # None, p = BindPacket(a)
        PROVE  UpInv(p)'
    <3>1. att'[a].res # None /\ BindPacket(a)' = BindPacket(a)
      BY <2>2 DEF Keeps, BindPacket
    <3>. QED  BY <2>2, <3>1 DEF UpInv
  <2>3. ASSUME NEW a \in Attempts, att[a].pc = "ok", p = IntentPacket(a)
        PROVE  UpInv(p)'
    <3>1. att[a].res # None /\ att[a].cert # None
      BY <2>3 DEF IInv, ProcInv
    <3>2. att'[a].pc = "ok" /\ IntentPacket(a)' = IntentPacket(a)
      BY <2>3, <3>1 DEF Keeps, IntentPacket
    <3>. QED  BY <2>3, <3>2 DEF UpInv
  <2>. QED  BY <2>1, <2>2, <2>3 DEF IInv, UpInv
<1>2. ASSUME NEW p \in down PROVE DownInv(p)'
  <2>1. PICK s \in Sessions :
          ses[s].state # "free" /\ (p = Ans(s, ses[s].m1).msg \/ p = Push(s, ses[s].m1))
    BY DEF IInv, DownInv
  <2>2. ses'[s].state # "free" /\ ses'[s].m1 = ses[s].m1
    BY <2>1 DEF SlotKeeps
  <2>. QED  BY <2>1, <2>2 DEF DownInv
<1>3. ASSUME NEW a \in Attempts, att[a].res # None
      PROVE  /\ PairInv(a)'
             /\ att[a].cert # None => PeerInv(a)'
  <2>. DEFINE s == att[a].index
  <2>1. /\ s \in Sessions /\ Agree(a, s)
        /\ ses[s].m1.body.e = a /\ ses[s].rs = att[a].opt.S
    BY <1>3 DEF IInv, PairInv
  <2>2. ses[s].state # "free"
    BY <2>1 DEF IInv, SlotInv, Agree
  <2>3. ses'[s].m1 = ses[s].m1 /\ ses'[s].rs = ses[s].rs /\ ses'[s].res = ses[s].res
    BY <2>1, <2>2 DEF SlotKeeps
  <2>4. att'[a].res = att[a].res /\ att'[a].index = s /\ att'[a].opt = att[a].opt
    BY <1>3 DEF Keeps
  <2>5. PairInv(a)'
    <3>. HIDE DEF s
    <3>. QED  BY <2>1, <2>3, <2>4 DEF PairInv, Agree
  <2>6. att[a].cert # None => PeerInv(a)'
    <3>1. PeerInv(a)
      BY DEF IInv
    <3>2. att[a].cert # None => att'[a].cert = att[a].cert
      BY <1>3 DEF Keeps
    <3>. QED  BY <2>4, <3>1, <3>2 DEF PeerInv, trusted
  <2>. QED  BY <2>5, <2>6
<1>4. ASSUME NEW s \in Sessions, ses[s].cert # None PROVE OwnerInv(s)'
  <2>. DEFINE a == ses[s].m1.body.e
  <2>1. /\ a \in Attempts /\ att[a].res # None /\ att[a].index = s
        /\ ses[s].cert = att[a].opt.cert /\ att[a].opt.cert.key = att[a].opt.sig
    BY <1>4 DEF IInv, OwnerInv
  <2>2. ses'[s].m1 = ses[s].m1 /\ ses'[s].cert = ses[s].cert
    BY <1>4 DEF SlotKeeps, IInv, SlotInv
  <2>3. att'[a].res = att[a].res /\ att'[a].index = s /\ att'[a].opt = att[a].opt
    BY <2>1 DEF Keeps
  <2>. QED  BY <2>1, <2>2, <2>3 DEF OwnerInv
<1>5. ASSUME NEW x \in admitted PROVE AdmitInv(x)'
  <2>. DEFINE s == x.slot
              a == ses[s].m1.body.e
  <2>1. /\ s \in Sessions /\ ses[s].cert # None /\ att[a].pc = "ok"
        /\ x.intent = [id |-> a, resource |-> DaemonCert.key] /\ x.sender = att[a].opt.sig
    BY DEF IInv, AdmitInv
  <2>2. a \in Attempts /\ att[a].res # None
    BY <2>1 DEF IInv, OwnerInv
  <2>3. ses'[s].m1 = ses[s].m1 /\ ses'[s].cert = ses[s].cert
    BY <2>1 DEF SlotKeeps, IInv, SlotInv
  <2>4. att'[a].pc = "ok" /\ att'[a].opt = att[a].opt
    BY <2>1, <2>2 DEF Keeps
  <2>. QED  BY <2>1, <2>3, <2>4 DEF AdmitInv
<1>6. ASSUME NEW a \in Attempts, att[a].cert # None PROVE PeerInv(a)'
  <2>1. att[a].res # None
    BY <1>6 DEF IInv, ProcInv
  <2>. QED  BY <1>3, <1>6, <2>1
<1>. QED  BY <1>1, <1>2, <1>3, <1>4, <1>5, <1>6

\* A step of one process keeps the invariant if what is new about it does.
LEMMA ProcessStep ==
  ASSUME IInv, NEW a \in Attempts, AttShape', UNCHANGED <<ses, down, admitted>>,
         \A b \in Attempts \ {a} : att'[b] = att[b],
         Keeps(a), ProcInv(a)',
         att[a].res = None => PairInv(a)',
         att[a].cert = None => PeerInv(a)',
         \A p \in up' \ up : UpInv(p)'
  PROVE  IInv'
<1>1. \A b \in Attempts : Keeps(b)
  BY DEF Keeps
<1>2. \A s \in Sessions : SlotKeeps(s)
  BY DEF SlotKeeps
<1>3. \A b \in Attempts : ProcInv(b)'
  <2>1. ASSUME NEW b \in Attempts, b # a PROVE ProcInv(b)'
    <3>1. att'[b] = att[b]
      BY <2>1
    <3>. QED  BY <3>1 DEF IInv, ProcInv, Wr
  <2>. QED  BY <2>1
<1>4. \A b \in Attempts : PairInv(b)' /\ PeerInv(b)'
  <2>1. ASSUME NEW b \in Attempts, att[b].res = None, b # a PROVE PairInv(b)'
    BY <2>1 DEF PairInv
  <2>2. ASSUME NEW b \in Attempts, att[b].cert = None, b # a PROVE PeerInv(b)'
    BY <2>2 DEF PeerInv
  <2>. QED  BY <1>1, <1>2, <2>1, <2>2, Persist
<1>5. \A s \in Sessions : SlotInv(s)' /\ OwnerInv(s)'
  <2>1. \A s \in Sessions : SlotInv(s)'
    BY DEF IInv, SlotInv
  <2>2. ASSUME NEW s \in Sessions, ses[s].cert = None PROVE OwnerInv(s)'
    BY <2>2 DEF OwnerInv
  <2>. QED  BY <1>1, <1>2, <2>1, <2>2, Persist
<1>6. \A p \in up' : UpInv(p)'
  BY <1>1, <1>2, Persist
<1>7. (\A p \in down' : DownInv(p)') /\ (\A x \in admitted' : AdmitInv(x)')
  BY <1>1, <1>2, Persist
<1>8. SesShape'
  BY DEF IInv, SesShape
<1>. QED  BY <1>3, <1>4, <1>5, <1>6, <1>7, <1>8 DEF IInv

\* The same for a step of the daemon.
LEMMA DaemonStep ==
  ASSUME IInv, SesShape', UNCHANGED <<att, up>>,
         \A s \in Sessions : SlotKeeps(s) /\ SlotInv(s)',
         \A s \in Sessions : ses[s].cert = None => OwnerInv(s)',
         \A p \in down' \ down : DownInv(p)',
         \A x \in admitted' \ admitted : AdmitInv(x)'
  PROVE  IInv'
<1>1. \A b \in Attempts : Keeps(b)
  BY DEF Keeps
<1>2. \A b \in Attempts : ProcInv(b)' /\ PairInv(b)' /\ PeerInv(b)'
  <2>1. \A b \in Attempts : ProcInv(b)'
    BY DEF IInv, ProcInv, Wr
  <2>2. ASSUME NEW b \in Attempts, att[b].res = None PROVE PairInv(b)'
    BY <2>2 DEF PairInv
  <2>3. ASSUME NEW b \in Attempts, att[b].cert = None PROVE PeerInv(b)'
    BY <2>3 DEF PeerInv
  <2>. QED  BY <1>1, <2>1, <2>2, <2>3, Persist
<1>3. \A s \in Sessions : OwnerInv(s)'
  BY <1>1, Persist
<1>4. (\A p \in up' : UpInv(p)') /\ (\A p \in down' : DownInv(p)')
  BY <1>1, Persist
<1>5. \A x \in admitted' : AdmitInv(x)'
  BY <1>1, Persist
<1>6. AttShape'
  BY DEF IInv, AttShape
<1>. QED  BY <1>2, <1>3, <1>4, <1>5, <1>6 DEF IInv
-----------------------------------------------------------------------------
(* The initial state and the steps.                                        *)

\* Before anything is sent the invariant holds.
LEMMA InitInv == Init => IInv
<1>. SUFFICES ASSUME Init PROVE IInv
  OBVIOUS
<1>1. AttShape
  <2>1. att \in [Attempts -> [pc : {"new"}, opt : {None}, in : {None}, res : {None},
                              index : {NoIndex}, cert : {None}, read : {None}]]
    BY DEF Init
  <2>. QED  BY <2>1, Zenon DEF AttShape
<1>2. SesShape
  <2>1. ses \in [Sessions -> [state : {"free"}, m1 : {None}, rs : {NoFile},
                              res : {None}, cert : {None}]]
    BY DEF Init
  <2>. QED  BY <2>1, Zenon DEF SesShape
<1>3. \A a \in Attempts : ProcInv(a) /\ PairInv(a) /\ PeerInv(a)
  BY DEF Init, ProcInv, PairInv, PeerInv
<1>4. \A s \in Sessions : SlotInv(s) /\ OwnerInv(s)
  BY DEF Init, SlotInv, OwnerInv
<1>. QED  BY <1>1, <1>2, <1>3, <1>4 DEF IInv, Init

\* Load, an error, a deadline, and the steps that send.
LEMMA ProceedsStep ==
  ASSUME IInv, NEW a \in Attempts, Proceeds(a) \/ \E o \in Options : Load(a, o)
  PROVE  IInv'
<1>. USE DEF IInv
<1>0. AttShape
  OBVIOUS
<1>1. ASSUME NEW o \in Options, Load(a, o) PROVE IInv'
  <2>1. /\ AttShape'
        /\ \A b \in Attempts \ {a} : att'[b] = att[b]
        /\ att'[a].pc = "dial" /\ att'[a].opt = o /\ att'[a].in = att[a].in
        /\ att'[a].res = att[a].res /\ att'[a].index = att[a].index
        /\ att'[a].cert = att[a].cert /\ att'[a].read = att[a].read
    <3>. DEFINE q == [att[a] EXCEPT !.pc = "dial", !.opt = o]
    <3>1. att' = [att EXCEPT ![a] = q]
      BY <1>1 DEF Load
    <3>2. q \in [pc : {"dial"}, opt : {o}, in : {att[a].in}, res : {att[a].res},
                 index : {att[a].index}, cert : {att[a].cert}, read : {att[a].read}]
      BY <1>0, ProcessRecord DEF IsProcess
    <3>. HIDE DEF q, IInv
    <3>5. IsProcess(q)
      BY <3>2 DEF IsProcess
    <3>6. AttShape' /\ (\A b \in Attempts \ {a} : att'[b] = att[b]) /\ att'[a] = q
      BY <1>0, <3>1, <3>2, <3>5, ProcessEffect
    <3>. QED  BY <3>2, <3>6
  <2>2. att[a].res = None /\ att[a].cert = None /\ att[a].index = NoIndex /\ att[a].pc = "new"
    BY <1>1 DEF Load, ProcInv
  <2>3. ProcInv(a)' /\ PairInv(a)' /\ PeerInv(a)' /\ Keeps(a)
    BY <2>1, <2>2 DEF ProcInv, PairInv, PeerInv, Keeps
  <2>. QED  BY <1>1, <2>1, <2>3, ProcessStep DEF Load
<1>2. ASSUME Fails(a) \/ Deadline(a) PROVE IInv'
  <2>1. /\ AttShape'
        /\ \A b \in Attempts \ {a} : att'[b] = att[b]
        /\ att'[a].pc = "failed" /\ att'[a].opt = att[a].opt /\ att'[a].in = att[a].in
        /\ att'[a].res = att[a].res /\ att'[a].index = att[a].index
        /\ att'[a].cert = att[a].cert /\ att'[a].read = att[a].read
    <3>. DEFINE q == [att[a] EXCEPT !.pc = "failed"]
    <3>1. att' = [att EXCEPT ![a] = q]
      BY <1>2 DEF Fails, Deadline
    <3>2. q \in [pc : {"failed"}, opt : {att[a].opt}, in : {att[a].in}, res : {att[a].res},
                 index : {att[a].index}, cert : {att[a].cert}, read : {att[a].read}]
      BY <1>0, ProcessRecord DEF IsProcess
    <3>. HIDE DEF q, IInv
    <3>5. IsProcess(q)
      BY <3>2 DEF IsProcess
    <3>6. AttShape' /\ (\A b \in Attempts \ {a} : att'[b] = att[b]) /\ att'[a] = q
      BY <1>0, <3>1, <3>2, <3>5, ProcessEffect
    <3>. QED  BY <3>2, <3>6
  <2>2. att[a].pc # "ok"
    BY <1>2 DEF Fails, Deadline
  <2>3. ProcInv(a)' /\ Keeps(a)
    BY <2>1, <2>2 DEF ProcInv, Keeps
  <2>4. (att[a].res = None => PairInv(a)') /\ (att[a].cert = None => PeerInv(a)')
    BY <2>1 DEF PairInv, PeerInv
  <2>. QED  BY <1>2, <2>1, <2>3, <2>4, ProcessStep DEF Fails, Deadline
<1>3. ASSUME Initiate(a) PROVE IInv'
  <2>. DEFINE w == Wr(a)
  <2>1. att[a].pc = "dial" /\ w.ok /\ UNCHANGED <<ses, down, admitted>>
    BY <1>3 DEF Initiate, Wr
  <2>. DEFINE q == [att[a] EXCEPT !.pc = "stageA", !.in = w.st]
  <2>2. att' = [att EXCEPT ![a] = q] /\ up' = up \cup {w.msg}
    BY <1>3 DEF Initiate, Wr
  <2>3. /\ AttShape'
        /\ \A b \in Attempts \ {a} : att'[b] = att[b]
        /\ att'[a].pc = "stageA" /\ att'[a].opt = att[a].opt /\ att'[a].in = w.st
        /\ att'[a].res = att[a].res /\ att'[a].index = att[a].index
        /\ att'[a].cert = att[a].cert /\ att'[a].read = att[a].read
    <3>. HIDE DEF IInv, w
    <3>1. q \in [pc : {"stageA"}, opt : {att[a].opt}, in : {w.st}, res : {att[a].res},
                 index : {att[a].index}, cert : {att[a].cert}, read : {att[a].read}]
      BY <1>0, ProcessRecord DEF IsProcess
    <3>. HIDE DEF q
    <3>5. IsProcess(q)
      BY <3>1 DEF IsProcess
    <3>6. AttShape' /\ (\A b \in Attempts \ {a} : att'[b] = att[b]) /\ att'[a] = q
      BY <1>0, <2>2, <3>1, <3>5, ProcessEffect
    <3>. QED  BY <3>1, <3>6
  <2>4. Wr(a)' = w
    BY <2>3 DEF Wr
  <2>5. att[a].res = None /\ att[a].cert = None /\ att[a].index = NoIndex /\ att[a].opt \in Options
    BY <2>1 DEF ProcInv
  <2>6. w.st.e = a /\ "sym" \in DOMAIN w.st /\ w.msg.type = 1
    <3>1. Written(w, att[a].opt.s, att[a].opt.S, att[a].opt.rs, senderIndex, a)
      BY <2>1, WrFacts, Zenon
    <3>. HIDE DEF w
    <3>. QED  BY <3>1 DEF Written
  <2>7. w.st # None
    BY <2>6 DEF None
  <2>. HIDE DEF w
  <2>8. ProcInv(a)' /\ PairInv(a)' /\ PeerInv(a)' /\ Keeps(a)
    BY <2>1, <2>3, <2>4, <2>5, <2>7 DEF ProcInv, PairInv, PeerInv, Keeps
  <2>9. \A p \in up' \ up : UpInv(p)'
    BY <2>2, <2>6 DEF UpInv
  <2>. QED  BY <2>1, <2>3, <2>8, <2>9, ProcessStep
<1>4. ASSUME Bind(a) PROVE IInv'
  <2>1. /\ AttShape'
        /\ \A b \in Attempts \ {a} : att'[b] = att[b]
        /\ att'[a].pc = "stageB" /\ att'[a].opt = att[a].opt /\ att'[a].in = att[a].in
        /\ att'[a].res = att[a].res /\ att'[a].index = att[a].index
        /\ att'[a].cert = att[a].cert /\ att'[a].read = att[a].read
    <3>. DEFINE q == [att[a] EXCEPT !.pc = "stageB"]
    <3>1. att' = [att EXCEPT ![a] = q]
      BY <1>4 DEF Bind
    <3>2. q \in [pc : {"stageB"}, opt : {att[a].opt}, in : {att[a].in}, res : {att[a].res},
                 index : {att[a].index}, cert : {att[a].cert}, read : {att[a].read}]
      BY <1>0, ProcessRecord DEF IsProcess
    <3>. HIDE DEF q, IInv
    <3>5. IsProcess(q)
      BY <3>2 DEF IsProcess
    <3>6. AttShape' /\ (\A b \in Attempts \ {a} : att'[b] = att[b]) /\ att'[a] = q
      BY <1>0, <3>1, <3>2, <3>5, ProcessEffect
    <3>. QED  BY <3>2, <3>6
  <2>2. att[a].pc = "bind" /\ up' = up \cup {BindPacket(a)} /\ UNCHANGED <<ses, down, admitted>>
    BY <1>4 DEF Bind, BindPacket
  <2>3. BindPacket(a)' = BindPacket(a) /\ att[a].res # None /\ att[a].cert = None
    BY <2>1, <2>2 DEF BindPacket, ProcInv
  <2>4. ProcInv(a)' /\ Keeps(a) /\ PeerInv(a)'
    BY <2>1, <2>2, <2>3 DEF ProcInv, Keeps, PeerInv
  <2>5. \A p \in up' \ up : UpInv(p)'
    BY <2>1, <2>2, <2>3 DEF UpInv
  <2>. QED  BY <2>1, <2>2, <2>3, <2>4, <2>5, ProcessStep
<1>5. ASSUME StageC(a) PROVE IInv'
  <2>1. /\ AttShape'
        /\ \A b \in Attempts \ {a} : att'[b] = att[b]
        /\ att'[a].pc = "ok" /\ att'[a].opt = att[a].opt /\ att'[a].in = att[a].in
        /\ att'[a].res = att[a].res /\ att'[a].index = att[a].index
        /\ att'[a].cert = att[a].cert /\ att'[a].read = att[a].read
    <3>. DEFINE q == [att[a] EXCEPT !.pc = "ok"]
    <3>1. att' = [att EXCEPT ![a] = q]
      BY <1>5 DEF StageC
    <3>2. q \in [pc : {"ok"}, opt : {att[a].opt}, in : {att[a].in}, res : {att[a].res},
                 index : {att[a].index}, cert : {att[a].cert}, read : {att[a].read}]
      BY <1>0, ProcessRecord DEF IsProcess
    <3>. HIDE DEF q, IInv
    <3>5. IsProcess(q)
      BY <3>2 DEF IsProcess
    <3>6. AttShape' /\ (\A b \in Attempts \ {a} : att'[b] = att[b]) /\ att'[a] = q
      BY <1>0, <3>1, <3>2, <3>5, ProcessEffect
    <3>. QED  BY <3>2, <3>6
  <2>2. att[a].pc = "intent" /\ up' = up \cup {IntentPacket(a)} /\ UNCHANGED <<ses, down, admitted>>
    BY <1>5 DEF StageC, IntentPacket
  <2>3. IntentPacket(a)' = IntentPacket(a) /\ att[a].res # None /\ att[a].cert # None
    BY <2>1, <2>2 DEF IntentPacket, ProcInv
  <2>4. ProcInv(a)' /\ Keeps(a)
    BY <2>1, <2>2, <2>3 DEF ProcInv, Keeps
  <2>5. \A p \in up' \ up : UpInv(p)'
    BY <2>1, <2>2, <2>3 DEF UpInv
  <2>. QED  BY <2>1, <2>2, <2>3, <2>4, <2>5, ProcessStep
<1>. QED  BY <1>1, <1>2, <1>3, <1>4, <1>5 DEF Proceeds

\* The results res of process a are those of slot s, which answered a with m.
Matches(a, s, m, res) ==
  /\ res.SendKey = Fin(s, m).RecvKey
  /\ res.RecvKey = Fin(s, m).SendKey
  /\ res.H = Fin(s, m).H
  /\ m.body.e = a
  /\ Rd(m).st.rs = att[a].opt.S

\* HandshakeAgrees for a process and a slot.
LEMMA AnswerAgrees ==
  ASSUME NEW a, NEW s, NEW m, NEW sigPub, NEW res, Wr(a).ok, Rd(m).ok,
         ReadResponse(Wr(a).st, Ans(s, m).msg, sigPub).ok,
         res = FinalizeInitiator(ReadResponse(Wr(a).st, Ans(s, m).msg, sigPub).st)
  PROVE  Matches(a, s, m, res)
<1>. DEFINE w == Wr(a)
            r == Rd(m).st
<1>1. /\ w.st.sym.h = Hash(Hash(Hash(Hash(protocolName, Pub(att[a].opt.rs)), Pub(a)),
                                w.msg.body.encS), w.msg.body.encT)
      /\ Plaintext(w.msg.body.encS)[2] = att[a].opt.S
      /\ "sym" \in DOMAIN w.st
  <2>1. Written(w, att[a].opt.s, att[a].opt.S, att[a].opt.rs, senderIndex, a)
    BY WrFacts, Zenon
  <2>. HIDE DEF w
  <2>. QED  BY <2>1 DEF Written
<1>2. /\ r.sym.h = Hash(Hash(Hash(Hash(protocolName, Pub(DaemonStatic)), Pub(m.body.e)),
                             m.body.encS), m.body.encT)
      /\ r.rs = Plaintext(m.body.encS)[2]
      /\ "sym" \in DOMAIN r
  BY ResponderTranscript DEF Rd
<1>. DEFINE in == w.st
            ans == WriteResponse(r, s, m.body.sender, s, DaemonSig)
            here == FinalizeInitiator(ReadResponse(in, ans.msg, sigPub).st)
            there == FinalizeResponder(ans.st)
<1>3. ReadResponse(in, WriteResponse(r, s, m.body.sender, s, DaemonSig).msg, sigPub).ok
  BY DEF Ans
<1>. HIDE DEF in, r
<1>4. /\ here.SendKey = there.RecvKey /\ here.RecvKey = there.SendKey /\ here.H = there.H
      /\ in.sym.h = r.sym.h
  <2>1. "sym" \in DOMAIN in /\ "sym" \in DOMAIN r
    BY <1>1, <1>2 DEF in, r
  <2>2. ResultsAgree(in, r, here, there)
    BY <1>3, <2>1, HandshakeAgrees, Zenon
  <2>. HIDE DEF here, there
  <2>. QED  BY <2>2 DEF ResultsAgree
<1>5. /\ here = FinalizeInitiator(ReadResponse(Wr(a).st, Ans(s, m).msg, sigPub).st)
      /\ there = Fin(s, m)
  BY DEF in, r, Ans, Fin
<1>6. a = m.body.e /\ w.msg.body.encS = m.body.encS
  <2>. DEFINE rs == att[a].opt.rs
              encS == w.msg.body.encS
              encT == w.msg.body.encT
              fe == m.body.e
              fS == m.body.encS
              fT == m.body.encT
  <2>1. Hash(Hash(Hash(Hash(protocolName, Pub(rs)), Pub(a)), encS), encT)
          = Hash(Hash(Hash(Hash(protocolName, Pub(DaemonStatic)), Pub(fe)), fS), fT)
    BY <1>1, <1>2, <1>4 DEF in
  <2>. HIDE DEF rs, encS, encT, fe, fS, fT
  <2>2. a = fe /\ encS = fS
    BY <2>1, TranscriptInjective
  <2>. QED  BY <2>2 DEF encS, fe, fS
<1>. HIDE DEF w, here, there
<1>. QED  BY <1>1, <1>2, <1>4, <1>5, <1>6 DEF r, Matches

\* The type and the index of an answer; the type of a packet.
LEMMA DatagramTypes ==
  ASSUME NEW s, NEW m, Rd(m).ok
  PROVE  /\ Ans(s, m).msg.type = 2 /\ Ans(s, m).msg.body.sender = s /\ Push(s, m).type = 4
         /\ Ans(s, m).msg # None /\ Push(s, m) # None
<1>2. Ans(s, m).msg.type = 2 /\ Ans(s, m).msg.body.sender = s
  BY AnsFacts, Zenon
<1>3. Push(s, m).type = 4
  BY DEF Push, SealTransport
<1>4. Push(s, m) # None
  BY DEF Push, SealTransport, None
<1>5. Ans(s, m).msg # None
  <2>1. PICK b, c : Ans(s, m).msg = [type |-> 2, body |-> b, mac1 |-> c]
    BY Zenon DEF Ans, WriteResponse
  <2>. QED  BY <2>1 DEF None
<1>. QED  BY <1>2, <1>3, <1>4, <1>5

\* What a slot's packet carries.
LEMMA PushPlain ==
  ASSUME NEW s, NEW m
  PROVE  Plaintext(Push(s, m).ct) = BuildBindingFrame(DaemonCert, DaemonSig, Fin(s, m).H)
BY OpensWhatWasSealed DEF Push, SealTransport

\* A datagram to the harness is a value.
LEMMA DownIsValue ==
  ASSUME IInv, NEW m \in down
  PROVE  m # None
<1>1. DownInv(m)
  BY DEF IInv
<1>2. PICK s \in Sessions :
        ses[s].state # "free" /\ (m = Ans(s, ses[s].m1).msg \/ m = Push(s, ses[s].m1))
  BY <1>1 DEF DownInv
<1>3. SlotInv(s)
  BY DEF IInv
<1>4. Rd(ses[s].m1).ok
  BY <1>2, <1>3 DEF SlotInv
<1>. QED  BY <1>2, <1>4, DatagramTypes

\* The steps that read.
LEMMA ReadsStep ==
  ASSUME IInv, NEW a \in Attempts, NEW m \in down, Reads(a, m)
  PROVE  IInv'
<1>0. AttShape /\ ProcInv(a)
  BY DEF IInv
<1>1. ASSUME StageA(a, m) PROVE IInv'
  <2>. DEFINE r == ReadResponse(att[a].in, m, att[a].opt.sigPub)
              res == FinalizeInitiator(r.st)
              q == [att[a] EXCEPT !.pc = "bind", !.in = r.st, !.res = res, !.index = m.body.sender]
  <2>1. /\ att[a].pc = "stageA" /\ m.type = 2 /\ r.ok
        /\ att' = [att EXCEPT ![a] = q] /\ UNCHANGED <<ses, up, down, admitted>>
    BY <1>1 DEF StageA
  <2>2. /\ Wr(a).ok /\ att[a].in = Wr(a).st /\ att[a].opt \in Options
        /\ att[a].res = None /\ att[a].cert = None
    BY <1>0, <2>1 DEF ProcInv
  <2>3. PICK s \in Sessions :
          ses[s].state # "free" /\ (m = Ans(s, ses[s].m1).msg \/ m = Push(s, ses[s].m1))
    BY DEF IInv, DownInv
  <2>4. /\ Rd(ses[s].m1).ok /\ ses[s].rs = Rd(ses[s].m1).st.rs
        /\ ses[s].res = Fin(s, ses[s].m1)
    BY <2>3 DEF IInv, SlotInv
  <2>5. m = Ans(s, ses[s].m1).msg /\ m.body.sender = s
    BY <2>1, <2>3, <2>4, DatagramTypes
  <2>6. /\ res.SendKey = Fin(s, ses[s].m1).RecvKey
        /\ res.RecvKey = Fin(s, ses[s].m1).SendKey
        /\ res.H = Fin(s, ses[s].m1).H
        /\ ses[s].m1.body.e = a
        /\ Rd(ses[s].m1).st.rs = att[a].opt.S
    <3>. DEFINE n == ses[s].m1
    <3>1. ReadResponse(Wr(a).st, Ans(s, n).msg, att[a].opt.sigPub).ok /\ Rd(n).ok
      BY <2>1, <2>2, <2>4, <2>5
    <3>2. res = FinalizeInitiator(ReadResponse(Wr(a).st, Ans(s, n).msg, att[a].opt.sigPub).st)
      BY <2>2, <2>5
    <3>. HIDE DEF n, res
    <3>3. Matches(a, s, n, res)
      BY <2>2, <3>1, <3>2, AnswerAgrees, Zenon
    <3>. QED  BY <3>3 DEF Matches, n
  <2>7. res # None /\ ses[s].res # None
    BY <2>4, FinIsRecord DEF Fin
  <2>8. r.st # None
    <3>1. "sym" \in DOMAIN Wr(a).st
      BY <2>2, WrFacts DEF Written
    <3>2. r.st = [att[a].in EXCEPT !.sym = r.st.sym] \/ "sym" \in DOMAIN r.st
      BY <2>1, <2>2, <3>1 DEF ReadResponse
    <3>. QED  BY <2>2, <3>1, <3>2 DEF None
  <2>. HIDE DEF r, res
  <2>9. q \in [pc : {"bind"}, opt : {att[a].opt}, in : {r.st}, res : {res},
               index : {s}, cert : {att[a].cert}, read : {att[a].read}]
    BY <1>0, <2>5, ProcessRecord DEF IsProcess
  <2>. HIDE DEF q
  <2>10. IsProcess(q)
    BY <2>9 DEF IsProcess
  <2>11. AttShape' /\ (\A b \in Attempts \ {a} : att'[b] = att[b]) /\ att'[a] = q
    BY <1>0, <2>1, <2>10, ProcessEffect
  <2>12. /\ att'[a].pc = "bind" /\ att'[a].opt = att[a].opt /\ att'[a].in = r.st
         /\ att'[a].res = res /\ att'[a].index = s /\ att'[a].cert = None
    BY <2>2, <2>9, <2>11
  <2>13. ProcInv(a)' /\ PeerInv(a)' /\ Keeps(a)
    BY <2>1, <2>2, <2>7, <2>8, <2>12 DEF ProcInv, PeerInv, Keeps
  <2>14. PairInv(a)'
    <3>1. ses' = ses
      BY <2>1
    <3>2. Agree(a, s)'
      BY <2>4, <2>6, <2>7, <2>12, <3>1 DEF Agree
    <3>3. ses'[s].m1.body.e = a /\ ses'[s].rs = att'[a].opt.S
      BY <2>4, <2>6, <2>12, <3>1
    <3>. QED  BY <2>12, <3>2, <3>3 DEF PairInv
  <2>. QED  BY <2>1, <2>11, <2>13, <2>14, ProcessStep
<1>2. ASSUME StageAFails(a, m) PROVE IInv'
  <2>. DEFINE i == IF m.type = 2 THEN ReadResponse(att[a].in, m, att[a].opt.sigPub).st
                   ELSE att[a].in
              q == [att[a] EXCEPT !.pc = "refused", !.read = m, !.in = i]
  <2>1. /\ att[a].pc = "stageA"
        /\ att' = [att EXCEPT ![a] = q] /\ UNCHANGED <<ses, up, down, admitted>>
    BY <1>2 DEF StageAFails
  <2>2. att[a].opt \in Options /\ att[a].res = None /\ att[a].cert = None /\ att[a].index = NoIndex
    BY <1>0, <2>1 DEF ProcInv
  <2>. HIDE DEF i
  <2>3. q \in [pc : {"refused"}, opt : {att[a].opt}, in : {i}, res : {att[a].res},
               index : {att[a].index}, cert : {att[a].cert}, read : {m}]
    BY <1>0, ProcessRecord DEF IsProcess
  <2>. HIDE DEF q
  <2>4. IsProcess(q)
    BY <2>3 DEF IsProcess
  <2>5. AttShape' /\ (\A b \in Attempts \ {a} : att'[b] = att[b]) /\ att'[a] = q
    BY <1>0, <2>1, <2>4, ProcessEffect
  <2>6. m # None
    BY DownIsValue
  <2>7. ProcInv(a)' /\ PairInv(a)' /\ PeerInv(a)' /\ Keeps(a)
    BY <2>1, <2>2, <2>3, <2>5, <2>6 DEF ProcInv, PairInv, PeerInv, Keeps
  <2>. QED  BY <2>1, <2>5, <2>7, ProcessStep
<1>3. ASSUME StageB(a, m) PROVE IInv'
  <2>. DEFINE x == IF att[a].opt.intent THEN "intent" ELSE "ok"
              c == Plaintext(m.ct)[2]
              q == [att[a] EXCEPT !.pc = x, !.cert = c]
  <2>1. /\ att[a].pc = "stageB" /\ Verifies(a, m)
        /\ att' = [att EXCEPT ![a] = q] /\ UNCHANGED <<ses, up, down, admitted>>
    BY <1>3 DEF StageB
  <2>2. att[a].opt \in Options /\ att[a].res # None /\ att[a].cert = None /\ att[a].in # None
    BY <1>0, <2>1 DEF ProcInv
  <2>3. PICK s \in Sessions :
          ses[s].state # "free" /\ (m = Ans(s, ses[s].m1).msg \/ m = Push(s, ses[s].m1))
    BY DEF IInv, DownInv
  <2>4. m = Push(s, ses[s].m1)
    <3>1. Rd(ses[s].m1).ok
      BY <2>3 DEF IInv, SlotInv
    <3>. QED  BY <2>1, <2>3, <3>1, DatagramTypes DEF Verifies, OpenTransport
  <2>5. Plaintext(m.ct) = BuildBindingFrame(DaemonCert, DaemonSig, Fin(s, ses[s].m1).H)
    BY <2>4, PushPlain, Zenon
  <2>6. c = DaemonCert /\ ValidateCertChainNoClock(DaemonCert, trusted(att[a].opt))
    BY <2>1, <2>5 DEF BuildBindingFrame, Verifies, VerifyBindingFrame
  <2>7. Signers(DaemonCert) \subseteq trusted(att[a].opt)
    BY <2>6 DEF ValidateCertChainNoClock, Signers
  <2>8. x \in {"intent", "ok"}
    OBVIOUS
  <2>. HIDE DEF x, c
  <2>9. q \in [pc : {x}, opt : {att[a].opt}, in : {att[a].in}, res : {att[a].res},
               index : {att[a].index}, cert : {c}, read : {att[a].read}]
    BY <1>0, ProcessRecord DEF IsProcess
  <2>. HIDE DEF q
  <2>10. IsProcess(q)
    BY <2>9 DEF IsProcess
  <2>11. AttShape' /\ (\A b \in Attempts \ {a} : att'[b] = att[b]) /\ att'[a] = q
    BY <1>0, <2>1, <2>10, ProcessEffect
  <2>12. ProcInv(a)' /\ Keeps(a)
    BY <1>0, <2>1, <2>2, <2>6, <2>8, <2>9, <2>11, InteropAssumption DEF ProcInv, Keeps
  <2>13. PeerInv(a)'
    BY <2>6, <2>7, <2>9, <2>11 DEF PeerInv
  <2>. QED  BY <2>1, <2>2, <2>11, <2>12, <2>13, ProcessStep
<1>4. ASSUME StageBFails(a, m) PROVE IInv'
  <2>. DEFINE q == [att[a] EXCEPT !.pc = "refused", !.read = m]
  <2>1. /\ att[a].pc = "stageB"
        /\ att' = [att EXCEPT ![a] = q] /\ UNCHANGED <<ses, up, down, admitted>>
    BY <1>4 DEF StageBFails
  <2>2. att[a].opt \in Options /\ att[a].res # None /\ att[a].cert = None
    BY <1>0, <2>1 DEF ProcInv
  <2>3. q \in [pc : {"refused"}, opt : {att[a].opt}, in : {att[a].in}, res : {att[a].res},
               index : {att[a].index}, cert : {att[a].cert}, read : {m}]
    BY <1>0, ProcessRecord DEF IsProcess
  <2>. HIDE DEF q
  <2>4. IsProcess(q)
    BY <2>3 DEF IsProcess
  <2>5. AttShape' /\ (\A b \in Attempts \ {a} : att'[b] = att[b]) /\ att'[a] = q
    BY <1>0, <2>1, <2>4, ProcessEffect
  <2>6. m # None
    BY DownIsValue
  <2>7. ProcInv(a)' /\ PeerInv(a)' /\ Keeps(a)
    BY <1>0, <2>1, <2>2, <2>3, <2>5, <2>6 DEF ProcInv, PeerInv, Keeps
  <2>. QED  BY <2>1, <2>2, <2>5, <2>7, ProcessStep
<1>. QED  BY <1>1, <1>2, <1>3, <1>4 DEF Reads

\* What a packet to the daemon opens to.
LEMMA PacketForms ==
  ASSUME NEW a
  PROVE  /\ BindPacket(a).hdr[2] = att[a].index
         /\ Plaintext(BindPacket(a).ct)[1] = "frame"
         /\ Plaintext(BindPacket(a).ct)[2] = att[a].opt.cert
         /\ Plaintext(BindPacket(a).ct)[3]
              = SignTagged(DomainBinding, att[a].res.H, att[a].opt.sig)
         /\ IntentPacket(a).hdr[2] = att[a].index
         /\ Plaintext(IntentPacket(a).ct)[1] = "envelope"
         /\ Plaintext(IntentPacket(a).ct)[2]
              = <<"intent", att[a].opt.sig, [id |-> a, resource |-> att[a].cert.key]>>
BY DEF BindPacket, IntentPacket, SealTransport, AeadSeal, Plaintext, BuildBindingFrame,
       BuildSignedEnvelope

\* The steps of the daemon.
LEMMA RespondStep ==
  ASSUME IInv, NEW s \in Sessions, NEW m \in up, Respond(s, m)
  PROVE  IInv'
<1>. DEFINE q == [state |-> "open", m1 |-> m, rs |-> Rd(m).st.rs, res |-> Fin(s, m), cert |-> None]
<1>1. /\ ses[s].state = "free"
      /\ Rd(m).ok
      /\ ses' = [ses EXCEPT ![s] = q]
      /\ down' = down \cup {Ans(s, m).msg, Push(s, m)}
      /\ UNCHANGED <<att, up, admitted>>
  BY DEF Respond, Rd, Ans, Fin, Push
<1>2. PICK P, M, N, R, C : ses \in [Sessions -> [state : P, m1 : M, rs : N, res : R, cert : C]]
  BY DEF IInv, SesShape
<1>3. SesShape'
  <2>. DEFINE P2 == P \cup {"open"}
              M2 == M \cup {m}
              N2 == N \cup {Rd(m).st.rs}
              R2 == R \cup {Fin(s, m)}
              C2 == C \cup {None}
  <2>1. ses' \in [Sessions -> [state : P2, m1 : M2, rs : N2, res : R2, cert : C2]]
    BY <1>1, <1>2
  <2>. HIDE DEF P2, M2, N2, R2, C2
  <2>. QED  BY <2>1, Zenon DEF SesShape
<1>4. ses'[s] = q /\ \A t \in Sessions \ {s} : ses'[t] = ses[t]
  BY <1>1, <1>2
<1>fields. /\ ses'[s].state = "open" /\ ses'[s].m1 = m /\ ses'[s].rs = Rd(m).st.rs
           /\ ses'[s].res = Fin(s, m) /\ ses'[s].cert = None
  <2>1. /\ q.state = "open" /\ q.m1 = m /\ q.rs = Rd(m).st.rs
        /\ q.res = Fin(s, m) /\ q.cert = None
    OBVIOUS
  <2>. HIDE DEF q
  <2>. QED  BY <1>4, <2>1, Zenon
<1>. HIDE DEF q
<1>5. \A t \in Sessions : SlotKeeps(t)
  BY <1>1, <1>4 DEF SlotKeeps
<1>6. Fin(s, m) # None
  BY FinIsRecord DEF Fin
<1>7. \A t \in Sessions : SlotInv(t)'
  <2>1. SlotInv(s)'
    BY <1>1, <1>fields DEF SlotInv
  <2>2. ASSUME NEW t \in Sessions \ {s} PROVE SlotInv(t)'
    <3>1. SlotInv(t)
      BY DEF IInv
    <3>. QED  BY <1>4, <3>1 DEF SlotInv
  <2>. QED  BY <2>1, <2>2
<1>8. \A t \in Sessions : ses[t].cert = None => OwnerInv(t)'
  <2>. SUFFICES ASSUME NEW t \in Sessions, ses[t].cert = None PROVE OwnerInv(t)'
    OBVIOUS
  <2>1. ses'[t].cert = None
    BY <1>4, <1>fields
  <2>. QED  BY <2>1 DEF OwnerInv
<1>9. \A p \in down' \ down : DownInv(p)'
  <2>1. ses'[s].state # "free" /\ ses'[s].m1 = m
    BY <1>fields
  <2>. QED  BY <1>1, <2>1 DEF DownInv
<1>. QED  BY <1>1, <1>3, <1>5, <1>7, <1>8, <1>9, DaemonStep

\* A slot's new record after DaemonBinds.
LEMMA BindsStep ==
  ASSUME IInv, NEW s \in Sessions, NEW p \in up, DaemonBinds(s, p)
  PROVE  /\ IInv'
         /\ ses[s].cert = None /\ ses'[s].cert # None
         /\ ses'[s].m1 = ses[s].m1
         /\ \A t \in Sessions \ {s} : ses'[t] = ses[t]
<1>. DEFINE c == Plaintext(p.ct)[2]
            q == [ses[s] EXCEPT !.state = "bound", !.cert = c]
<1>1. /\ ses[s].state = "open" /\ p.type = 4 /\ p.hdr[2] = s
      /\ VerifyBindingFrame(Plaintext(p.ct), ses[s].res.H, DaemonTrust)
      /\ ses' = [ses EXCEPT ![s] = q]
      /\ UNCHANGED <<att, up, down, admitted>>
  BY DEF DaemonBinds
<1>2. PICK a \in Attempts : att[a].res # None /\ p = BindPacket(a)
  <2>1. ASSUME NEW b \in Attempts, p = IntentPacket(b) PROVE FALSE
    BY <1>1, <2>1, PacketForms DEF VerifyBindingFrame
  <2>. QED  BY <1>1, <2>1 DEF IInv, UpInv
<1>3. /\ att[a].index = s
      /\ c = att[a].opt.cert
      /\ c.key = att[a].opt.sig
  <2>1. att[a].index = s /\ c = att[a].opt.cert
    BY <1>1, <1>2, PacketForms
  <2>2. SignTagged(DomainBinding, ses[s].res.H, c.key)
          = SignTagged(DomainBinding, att[a].res.H, att[a].opt.sig)
    BY <1>1, <1>2, PacketForms DEF VerifyBindingFrame, VerifySigned
  <2>. QED  BY <2>1, <2>2 DEF SignTagged
<1>4. ses[s].m1.body.e = a
  BY <1>2, <1>3 DEF IInv, PairInv
<1>5. c # None
  <2>1. att[a].opt \in Options
    BY <1>2 DEF IInv, ProcInv
  <2>. QED  BY <1>3, <2>1, InteropAssumption
<1>. HIDE DEF c
<1>6. PICK P, M, N, R, C : ses \in [Sessions -> [state : P, m1 : M, rs : N, res : R, cert : C]]
  BY DEF IInv, SesShape
<1>7. q \in [state : {"bound"}, m1 : {ses[s].m1}, rs : {ses[s].rs}, res : {ses[s].res}, cert : {c}]
  BY <1>6
<1>. HIDE DEF q
<1>8. SesShape' /\ ses'[s] = q /\ \A t \in Sessions \ {s} : ses'[t] = ses[t]
  <2>. DEFINE P2 == P \cup {"bound"}
              C2 == C \cup {c}
  <2>0. q \in [state : P2, m1 : M, rs : N, res : R, cert : C2]
    BY <1>6, <1>7
  <2>1. ses' \in [Sessions -> [state : P2, m1 : M, rs : N, res : R, cert : C2]]
    BY <1>1, <1>6, <2>0
  <2>. HIDE DEF P2, C2
  <2>2. SesShape'
    BY <2>1, Zenon DEF SesShape
  <2>. QED  BY <1>1, <1>6, <2>2
<1>9. /\ ses'[s].state = "bound" /\ ses'[s].m1 = ses[s].m1 /\ ses'[s].rs = ses[s].rs
      /\ ses'[s].res = ses[s].res /\ ses'[s].cert = c
  BY <1>7, <1>8
<1>10. SlotInv(s)
  BY DEF IInv
<1>11. ses[s].cert = None
  BY <1>1, <1>10 DEF SlotInv
<1>12. \A t \in Sessions : SlotKeeps(t) /\ SlotInv(t)'
  <2>1. SlotKeeps(s) /\ SlotInv(s)'
    BY <1>1, <1>5, <1>9, <1>10, <1>11 DEF SlotKeeps, SlotInv
  <2>2. ASSUME NEW t \in Sessions \ {s} PROVE SlotKeeps(t) /\ SlotInv(t)'
    BY <1>8 DEF SlotKeeps, SlotInv, IInv
  <2>. QED  BY <2>1, <2>2
<1>13. \A t \in Sessions : ses[t].cert = None => OwnerInv(t)'
  <2>1. OwnerInv(s)'
    BY <1>1, <1>2, <1>3, <1>4, <1>9 DEF OwnerInv
  <2>2. ASSUME NEW t \in Sessions \ {s}, ses[t].cert = None PROVE OwnerInv(t)'
    BY <1>8, <2>2 DEF OwnerInv
  <2>. QED  BY <2>1, <2>2
<1>14. IInv'
  BY <1>1, <1>8, <1>12, <1>13, DaemonStep
<1>. QED  BY <1>5, <1>8, <1>9, <1>11, <1>14

\* What DaemonAdmits adds is the intent of the slot's owner.
LEMMA AdmitsStep ==
  ASSUME IInv, NEW s \in Sessions, NEW p \in up, DaemonAdmits(s, p)
  PROVE  /\ IInv'
         /\ \E a \in Attempts :
              /\ att[a].cert # None /\ ses[s].cert # None /\ ses[s].m1.body.e = a
              /\ admitted' = admitted \cup {[slot |-> s, sender |-> att[a].opt.sig,
                                             intent |-> [id |-> a, resource |-> DaemonCert.key]]}
<1>. DEFINE env == Plaintext(p.ct)
<1>1. /\ ses[s].state = "bound" /\ p.type = 4 /\ p.hdr[2] = s /\ env[1] = "envelope"
      /\ admitted' = admitted \cup {[slot |-> s, sender |-> env[2][2], intent |-> env[2][3]]}
      /\ UNCHANGED <<att, ses, up, down>>
  BY DEF DaemonAdmits
<1>2. PICK a \in Attempts : att[a].pc = "ok" /\ p = IntentPacket(a)
  <2>1. ASSUME NEW b \in Attempts, p = BindPacket(b) PROVE FALSE
    BY <1>1, <2>1, PacketForms, Zenon
  <2>2. UpInv(p)
    BY DEF IInv
  <2>3. p.type # 1
    <3>1. p.type = 4
      BY <1>1, Zenon
    <3>. QED  BY <3>1
  <2>. QED  BY <2>1, <2>2, <2>3, Zenon DEF UpInv
<1>3. /\ att[a].index = s
      /\ env[2] = <<"intent", att[a].opt.sig, [id |-> a, resource |-> att[a].cert.key]>>
  BY <1>1, <1>2, PacketForms
<1>4. att[a].res # None /\ att[a].cert # None
  BY <1>2 DEF IInv, ProcInv
<1>5. ses[s].m1.body.e = a /\ att[a].cert = DaemonCert
  BY <1>3, <1>4 DEF IInv, PairInv, PeerInv
<1>6. ses[s].cert # None
  BY <1>1 DEF IInv, SlotInv
<1>. PICK x : x = [slot |-> s, sender |-> att[a].opt.sig,
                   intent |-> [id |-> a, resource |-> DaemonCert.key]]
  OBVIOUS
<1>7. admitted' = admitted \cup {x}
  <2>. DEFINE sig == att[a].opt.sig
              body == [id |-> a, resource |-> att[a].cert.key]
  <2>2. env[2] = <<"intent", sig, body>>
    BY <1>3
  <2>3. body = [id |-> a, resource |-> DaemonCert.key]
    BY <1>5
  <2>. HIDE DEF sig, body, env
  <2>4. env[2][2] = sig /\ env[2][3] = body
    BY <2>2
  <2>. USE DEF env
  <2>1. env[2][2] = att[a].opt.sig /\ env[2][3] = [id |-> a, resource |-> DaemonCert.key]
    BY <2>3, <2>4, Zenon DEF sig
  <2>. QED  BY <1>1, <2>1
<1>8. AdmitInv(x)'
  BY <1>1, <1>2, <1>5, <1>6 DEF AdmitInv
<1>9. IInv'
  <2>1. \A t \in Sessions : SlotKeeps(t) /\ SlotInv(t)'
    BY <1>1 DEF SlotKeeps, SlotInv, IInv
  <2>2. \A t \in Sessions : ses[t].cert = None => OwnerInv(t)'
    BY <1>1 DEF OwnerInv
  <2>3. SesShape'
    BY <1>1 DEF SesShape, IInv
  <2>. QED  BY <1>1, <1>7, <1>8, <2>1, <2>2, <2>3, DaemonStep
<1>. QED  BY <1>4, <1>5, <1>6, <1>7, <1>9

\* A restart changes the state of the slots only.
LEMMA RestartStep ==
  ASSUME IInv, DaemonRestarts
  PROVE  /\ IInv'
         /\ \A s \in Sessions : ses'[s].m1 = ses[s].m1 /\ ses'[s].cert = ses[s].cert
<1>1. PICK P, M, N, R, C : ses \in [Sessions -> [state : P, m1 : M, rs : N, res : R, cert : C]]
  BY DEF IInv, SesShape
<1>2. UNCHANGED <<att, up, down, admitted>>
  BY DEF DaemonRestarts
<1>3. ASSUME NEW s \in Sessions
      PROVE  ses'[s] \in
               [state : {IF ses[s].state \in {"open", "bound"} THEN "gone" ELSE ses[s].state},
                m1 : {ses[s].m1}, rs : {ses[s].rs}, res : {ses[s].res}, cert : {ses[s].cert}]
  BY <1>1 DEF DaemonRestarts
<1>4. SesShape'
  <2>. DEFINE P2 == P \cup {"gone"}
  <2>1. ses' \in [Sessions -> [state : P2, m1 : M, rs : N, res : R, cert : C]]
    BY <1>1 DEF DaemonRestarts
  <2>. HIDE DEF P2
  <2>. QED  BY <2>1, Zenon DEF SesShape
<1>5. ASSUME NEW s \in Sessions
      PROVE  /\ SlotKeeps(s) /\ SlotInv(s)'
             /\ ses'[s].m1 = ses[s].m1 /\ ses'[s].cert = ses[s].cert
  <2>1. /\ ses'[s].m1 = ses[s].m1 /\ ses'[s].cert = ses[s].cert
        /\ ses'[s].rs = ses[s].rs /\ ses'[s].res = ses[s].res
        /\ ses'[s].state = IF ses[s].state \in {"open", "bound"} THEN "gone" ELSE ses[s].state
    BY <1>3
  <2>2. SlotInv(s)
    BY DEF IInv
  <2>. QED  BY <2>1, <2>2 DEF SlotKeeps, SlotInv
<1>6. \A s \in Sessions : ses[s].cert = None => OwnerInv(s)'
  BY <1>5 DEF OwnerInv
<1>. QED  BY <1>2, <1>4, <1>5, <1>6, DaemonStep

-----------------------------------------------------------------------------
(* The theorems.                                                           *)

\* Every step keeps the invariant.
LEMMA NextInv == IInv /\ [Next]_vars => IInv'
<1>. SUFFICES ASSUME IInv, [Next]_vars PROVE IInv'
  OBVIOUS
<1>1. CASE UNCHANGED vars \/ AllEnded
  <2>1. UNCHANGED <<att, ses, up, down, admitted>>
    BY <1>1 DEF vars, AllEnded
  <2>2. \A s \in Sessions : SlotKeeps(s) /\ SlotInv(s)'
    BY <2>1 DEF SlotKeeps, SlotInv, IInv
  <2>3. \A s \in Sessions : ses[s].cert = None => OwnerInv(s)'
    BY <2>1 DEF OwnerInv
  <2>4. SesShape'
    BY <2>1 DEF SesShape, IInv
  <2>. QED  BY <2>1, <2>2, <2>3, <2>4, DaemonStep
<1>2. ASSUME NEW a \in Attempts, Proceeds(a) \/ \E o \in Options : Load(a, o) PROVE IInv'
  BY <1>2, ProceedsStep
<1>3. ASSUME NEW a \in Attempts, NEW m \in down, Reads(a, m) PROVE IInv'
  BY <1>3, ReadsStep
<1>4. ASSUME Daemon PROVE IInv'
  BY <1>4, RespondStep, BindsStep, AdmitsStep, RestartStep DEF Daemon
<1>. QED  BY <1>1, <1>2, <1>3, <1>4 DEF Next

\* IInv holds in every reachable state.
THEOREM Invariance == Spec => []IInv
BY InitInv, NextInv, PTL DEF Spec

\* The states of a run and of a slot determine what they hold (TypeOK).
THEOREM Types == Spec => []TypeOK
<1>1. IInv => TypeOK
  <2>. SUFFICES ASSUME IInv PROVE TypeOK
    OBVIOUS
  <2>1. ASSUME NEW s \in Sessions
        PROVE  /\ ses[s].state \in {"free", "open", "bound", "gone"}
               /\ ses[s].state = "free" <=> ses[s].res = None
    BY FinIsRecord DEF IInv, SlotInv, Fin
  <2>. QED  BY <2>1, InteropAssumption DEF IInv, ProcInv, TypeOK
<1>. QED  BY <1>1, Invariance, PTL

\* A completed handshake is shared with exactly one slot, which answered this
\* run's own initiation (main.go "handshake complete").
THEOREM Agreement == Spec => []SessionAgreement
<1>1. ASSUME IInv PROVE SessionAgreement
  <2>1. ASSUME NEW a \in Attempts, att[a].res # None
        PROVE  \E s \in Sessions : /\ Agree(a, s) /\ ses[s].m1.body.e = a
                                   /\ ses[s].rs = att[a].opt.S /\ att[a].index = s
    BY <1>1, <2>1 DEF IInv, PairInv
  <2>2. ASSUME NEW a \in Attempts, NEW b \in Attempts, NEW s \in Sessions, NEW t \in Sessions,
               Agree(a, s), Agree(b, t)
        PROVE  a = b <=> s = t
    <3>1. s = att[a].index /\ t = att[b].index
      BY <1>1, <2>2, AgreeIsIndex DEF Agree
    <3>2. ses[s].m1.body.e = a /\ ses[t].m1.body.e = b
      BY <1>1, <2>2, <3>1 DEF IInv, PairInv, Agree
    <3>. QED  BY <3>1, <3>2
  <2>. QED  BY <2>1, <2>2, SMTT(60) DEF SessionAgreement
<1>. QED  BY <1>1, Invariance, PTL

\* A verified binding frame is that of the other end of the session
\* (transport.go VerifyBindingFrame).
THEOREM BindingAuthentic == Spec => []BoundMeansPeer
<1>1. ASSUME IInv PROVE BoundMeansPeer
  <2>1. ASSUME NEW a \in Attempts, att[a].cert # None
        PROVE  /\ \E s \in Sessions : Agree(a, s)
               /\ att[a].cert = DaemonCert
               /\ Signers(DaemonCert) \subseteq trusted(att[a].opt)
    BY <1>1, <2>1 DEF IInv, PeerInv, PairInv, ProcInv
  <2>2. ASSUME NEW s \in Sessions, ses[s].cert # None
        PROVE  \E a \in Attempts : /\ Agree(a, s) /\ ses[s].cert = att[a].opt.cert
                                   /\ att[a].opt.cert.key = att[a].opt.sig
    <3>. DEFINE a == ses[s].m1.body.e
    <3>1. OwnerInv(s)
      BY <1>1 DEF IInv
    <3>2. /\ a \in Attempts /\ att[a].res # None /\ att[a].index = s
          /\ ses[s].cert = att[a].opt.cert /\ att[a].opt.cert.key = att[a].opt.sig
      BY <2>2, <3>1 DEF OwnerInv
    <3>. HIDE DEF a
    <3>3. PairInv(a)
      BY <1>1, <3>2 DEF IInv
    <3>4. Agree(a, s)
      BY <3>2, <3>3 DEF PairInv
    <3>. QED  BY <3>2, <3>4
  <2>. QED  BY <2>1, <2>2 DEF BoundMeansPeer
<1>. QED  BY <1>1, Invariance, PTL

\* An admitted intent was sent in this session, to this daemon, by a run that
\* had verified it (main.go stage C).
THEOREM IntentsAuthentic == Spec => []AdmittedIsAuthentic
<1>1. ASSUME IInv PROVE AdmittedIsAuthentic
  <2>1. ASSUME NEW x \in admitted
        PROVE  \E a \in Attempts :
                 /\ Agree(a, x.slot) /\ att[a].pc = "ok"
                 /\ x.intent = [id |-> a, resource |-> DaemonCert.key]
                 /\ x.sender = att[a].opt.sig /\ ses[x.slot].cert = att[a].opt.cert
    <3>. DEFINE s == x.slot
                a == ses[s].m1.body.e
    <3>1. /\ s \in Sessions /\ ses[s].cert # None /\ att[a].pc = "ok"
          /\ x.intent = [id |-> a, resource |-> DaemonCert.key] /\ x.sender = att[a].opt.sig
      BY <1>1, <2>1 DEF IInv, AdmitInv
    <3>2. a \in Attempts /\ att[a].res # None /\ att[a].index = s /\ ses[s].cert = att[a].opt.cert
      BY <1>1, <3>1 DEF IInv, OwnerInv
    <3>3. Agree(a, s)
      BY <1>1, <3>2 DEF IInv, PairInv
    <3>. QED  BY <3>1, <3>2, <3>3
  <2>. QED  BY <2>1 DEF AdmittedIsAuthentic
<1>. QED  BY <1>1, Invariance, PTL
=============================================================================
