----------------------------- MODULE Transport -----------------------------
(***************************************************************************)
(* After the handshake (wire/transport.go): type-4 data packets and the    *)
(* binding frame that ties a certificate to the session's transcript hash; *)
(* and the signed envelope that carries an intent (wire/envelope.go).  A   *)
(* fingerprint stands for its key.                                         *)
(***************************************************************************)
EXTENDS Noise, CertChain

DomainEnvelope == 2
DomainBinding == 5

\* The header is associated data; the counter in it is the nonce.
SealTransport(key, receiverIndex, counter, plaintext) ==
  LET hdr == <<"hdr", receiverIndex, counter>>
  IN  [type |-> 4, hdr |-> hdr, ct |-> AeadSeal(key, counter, plaintext, hdr)]

\* TRUE where OpenTransport returns nil.  It does not look at the receiver
\* index and leaves the counter to its caller.
OpenTransport(key, packet) ==
  packet.type = 4 /\ AeadOpens(key, packet.hdr[3], packet.ct, packet.hdr)

BuildBindingFrame(cert, key, h) ==
  <<"frame", cert, SignTagged(DomainBinding, h, key)>>

\* Faulty: the signature is not verified.
Bug_VerifyCertOnly(frame, h, trusted) ==
  /\ frame[1] = "frame"
  /\ ParseCert(frame[2])
  /\ ValidateCertChainNoClock(frame[2], trusted)

\* TRUE where VerifyBindingFrame returns the certificate, frame[2].
VerifyBindingFrame(frame, h, trusted) ==
  /\ frame[1] = "frame"
  /\ ParseCert(frame[2])
  /\ ValidateCertChainNoClock(frame[2], trusted)
  /\ VerifySigned(DomainBinding, h, frame[3], frame[2].key)

BuildSignedEnvelope(sender, intent, key) ==
  LET tbs == <<"intent", sender, intent>>
  IN  <<"envelope", tbs, SignTagged(DomainEnvelope, tbs, key)>>
=============================================================================
