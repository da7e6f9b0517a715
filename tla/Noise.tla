------------------------------- MODULE Noise -------------------------------
(***************************************************************************)
(* The Noise_IK handshake (wire/noise.go): the symmetric state and the two *)
(* handshake objects, Initiator and Responder.                             *)
(*                                                                         *)
(* Cryptography is symbolic: a hash, a derived key, a ciphertext and a mac *)
(* are the tagged tuple of what they were computed from, so two are equal  *)
(* exactly when everything under them is.  A key pair is one value, used   *)
(* as the secret and as the public key.  Offsets and sizes of the two      *)
(* messages are fixed and left out; a message is a record, its "body" the  *)
(* bytes before mac1.  mac2 is an unread cookie and left out.  A method    *)
(* that may fail returns the object as the failure leaves it.              *)
(***************************************************************************)
EXTENDS Naturals

CONSTANT LowOrder   \* public keys that X25519 refuses

-----------------------------------------------------------------------------
\* Primitives of golang.org/x/crypto, and the Noise key derivation.
Hash(x, y) == <<"hash", x, y>>

hkdf2(ck, ikm) == << <<"o1", ck, ikm>>, <<"o2", ck, ikm>> >>

AeadSeal(key, nonce, plaintext, ad) == <<"sealed", key, nonce, plaintext, ad>>

AeadOpens(key, nonce, ct, ad) ==
  ct[1] = "sealed" /\ ct[2] = key /\ ct[3] = nonce /\ ct[5] = ad

Plaintext(ct) == ct[4]

dhFails(pub) == pub \in LowOrder

dh(secret, pub) == <<"dh", {secret, pub}>>

Pub(key) == <<"pub", key>>

computeMac1(responderSigPub, preceding) == <<"mac1", responderSigPub, preceding>>

-----------------------------------------------------------------------------
\* symmetricState.  k = NoKey stands for hasKey = false.
NoKey == <<"nokey">>

protocolName == <<"Noise_IK_25519_ChaChaPoly_BLAKE2s">>

newSymmetricState == [h |-> protocolName, ck |-> protocolName, k |-> NoKey, n |-> 0]

mixHash(s, data) == [h |-> Hash(s.h, data), ck |-> s.ck, k |-> s.k, n |-> s.n]

mixKey(s, ikm) ==
  [h |-> s.h, ck |-> hkdf2(s.ck, ikm)[1], k |-> hkdf2(s.ck, ikm)[2], n |-> 0]

\* The ciphertext of encryptAndHash; without a key it is the plaintext.
Encrypted(s, plaintext) ==
  IF s.k = NoKey THEN plaintext ELSE AeadSeal(s.k, s.n, plaintext, s.h)

\* The state after encryptAndHash has produced ct, or decryptAndHash read it.
AndHash(s, ct) ==
  [h |-> Hash(s.h, ct), ck |-> s.ck, k |-> s.k,
   n |-> IF s.k = NoKey THEN s.n ELSE s.n + 1]

\* decryptAndHash returns no error.
Decrypts(s, ct) == s.k = NoKey \/ AeadOpens(s.k, s.n, ct, s.h)

split(s) == hkdf2(s.ck, <<"nil">>)

-----------------------------------------------------------------------------
\* Initiator: static secret s, static public S, responder's static rs, and the
\* ephemeral e (any value before WriteInitiation sets it).
NewInitiator(s, S, rs) ==
  [sym |-> mixHash(newSymmetricState, Pub(rs)), s |-> s, S |-> S, rs |-> rs, e |-> rs]

\* Tokens e, es, s, ss and the timestamp.  Both DHs are with the responder's
\* static key, so the second never fails alone.
WriteInitiation(in, senderIndex, time, e, sigPub) ==
  LET s0 == mixHash(in.sym, Pub(e))
      s1 == mixKey(s0, dh(e, in.rs))
      encS == Encrypted(s1, Pub(in.S))
      s2 == mixKey(AndHash(s1, encS), dh(in.s, in.rs))
      encT == Encrypted(s2, <<"time", time>>)
      body == [sender |-> senderIndex, e |-> e, encS |-> encS, encT |-> encT]
  IN  [ok |-> ~dhFails(in.rs),
       st |-> [in EXCEPT !.e = e,
                         !.sym = IF dhFails(in.rs) THEN s0 ELSE AndHash(s2, encT)],
       msg |-> [type |-> 1, body |-> body, mac1 |-> computeMac1(sigPub, body)]]

\* Tokens e, ee, se and the empty payload.  A wrong mac1 leaves the object as
\* it was; a payload that does not open leaves it with re mixed in.
ReadResponse(in, m, sigPub) ==
  LET re == m.body.e
      s0 == mixHash(in.sym, Pub(re))
      s1 == mixKey(mixKey(s0, dh(in.e, re)), dh(in.s, re))
      mac == m.mac1 = computeMac1(sigPub, m.body)
      opens == mac /\ ~dhFails(re) /\ Decrypts(s1, m.body.encNothing)
      After(s) == [in EXCEPT !.sym = s]
  IN  [ok |-> opens,
       st |-> IF ~mac THEN in
              ELSE IF dhFails(re) THEN After(s0)
              ELSE IF opens THEN After(AndHash(s1, m.body.encNothing))
              ELSE After(s1)]

\* Faulty: the initiator sends under c2, like the responder.
Bug_KeysNotCrossed(in) ==
  [SendKey |-> split(in.sym)[2], RecvKey |-> split(in.sym)[1], H |-> in.sym.h]

FinalizeInitiator(in) ==
  [SendKey |-> split(in.sym)[1], RecvKey |-> split(in.sym)[2], H |-> in.sym.h]

-----------------------------------------------------------------------------
\* Responder: static secret s, the initiator's ephemeral re and static rs (any
\* values before ReadInitiation sets them).
NewResponder(s, S) ==
  [sym |-> mixHash(newSymmetricState, Pub(S)), s |-> s, re |-> s, rs |-> s]

\* Tokens e, es, s, ss and the timestamp, whose value is not looked at.
ReadInitiation(r, m, sigPub) ==
  LET re == m.body.e
      s0 == mixHash(r.sym, Pub(re))
      s1 == mixKey(s0, dh(r.s, re))
      rs == Plaintext(m.body.encS)[2]
      s2 == mixKey(AndHash(s1, m.body.encS), dh(r.s, rs))
      mac == m.mac1 = computeMac1(sigPub, m.body)
      readsS == mac /\ ~dhFails(re) /\ Decrypts(s1, m.body.encS)
      readsT == readsS /\ ~dhFails(rs) /\ Decrypts(s2, m.body.encT)
      After(s, static) == [r EXCEPT !.re = re, !.rs = static, !.sym = s]
  IN  [ok |-> readsT,
       st |-> IF ~mac THEN r
              ELSE IF dhFails(re) THEN After(s0, r.rs)
              ELSE IF ~readsS THEN After(s1, r.rs)
              ELSE IF dhFails(rs) THEN After(AndHash(s1, m.body.encS), rs)
              ELSE IF ~readsT THEN After(s2, rs)
              ELSE After(AndHash(s2, m.body.encT), rs)]

\* Faulty: the second DH is again with the initiator's ephemeral.
Bug_SecondDHRepeated(r, senderIndex, receiverIndex, e, sigPub) ==
  LET s1 == mixKey(mixKey(mixHash(r.sym, Pub(e)), dh(e, r.re)), dh(e, r.re))
      body == [sender |-> senderIndex, receiver |-> receiverIndex, e |-> e,
               encNothing |-> Encrypted(s1, <<"empty">>)]
  IN  [st |-> [r EXCEPT !.sym = AndHash(s1, body.encNothing)],
       msg |-> [type |-> 2, body |-> body, mac1 |-> computeMac1(sigPub, body)]]

\* Tokens e, ee, se and the empty payload.  After a successful read neither
\* of the initiator's keys is one that dh refuses.
WriteResponse(r, senderIndex, receiverIndex, e, sigPub) ==
  LET s1 == mixKey(mixKey(mixHash(r.sym, Pub(e)), dh(e, r.re)), dh(e, r.rs))
      body == [sender |-> senderIndex, receiver |-> receiverIndex, e |-> e,
               encNothing |-> Encrypted(s1, <<"empty">>)]
  IN  [st |-> [r EXCEPT !.sym = AndHash(s1, body.encNothing)],
       msg |-> [type |-> 2, body |-> body, mac1 |-> computeMac1(sigPub, body)]]

FinalizeResponder(r) ==
  [SendKey |-> split(r.sym)[2], RecvKey |-> split(r.sym)[1], H |-> r.sym.h]
=============================================================================
