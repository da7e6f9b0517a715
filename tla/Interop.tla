------------------------------ MODULE Interop ------------------------------
(***************************************************************************)
(* The interop harness (cmd/interop/main.go) against a daemon, over UDP.   *)
(* Each attempt is one process: it loads its files, sends the initiation,  *)
(* reads one datagram for the response, sends its binding frame, reads one *)
(* datagram for the daemon's, and may send one intent.  Nothing is         *)
(* repeated; an error or a passed deadline ends the process with status 1. *)
(*                                                                         *)
(* up and down hold every datagram ever sent in each direction.  One in    *)
(* the set may be delivered late, again, or never; a later attempt that is *)
(* given the same UDP port can still read what was sent to an earlier one. *)
(* The daemon is external: it answers with the Responder of wire/noise.go, *)
(* whose counterpart it is, and may restart and forget its sessions.       *)
(***************************************************************************)
EXTENDS Transport

CONSTANTS
  Attempts,      \* runs of the harness, numbered; also their ephemeral keys
  Sessions,      \* slots of the daemon, numbered; also their ephemeral keys
  Options,       \* what a run may find in its flags and files
  DaemonStatic, DaemonSig, DaemonCert, DaemonTrust

VARIABLES
  att,       \* att[a]: the process of attempt a; read is the datagram it refused
  ses,       \* ses[s]: the daemon's session in slot s
  up, down,  \* datagrams to the daemon, to the harness
  admitted   \* intents the daemon admitted

vars == <<att, ses, up, down, admitted>>

None == [none |-> TRUE]

ASSUME InteropAssumption ==
  /\ Attempts \subseteq Nat \ {0} /\ Sessions \subseteq Nat \ {0}
  /\ DaemonCert # None
  /\ \A o \in Options : o # None /\ o.cert # None

\* Ephemeral keys are drawn at random for each handshake (main.go rand.Read),
\* and their public keys are multiples of the base point (noise.go): none is a
\* static key that a run dials, and none is a point that X25519 refuses.
ASSUME FreshAssumption ==
  /\ \A o \in Options : o.rs \notin Attempts
  /\ Sessions \cap LowOrder = {}

\* The daemon's certificate is well formed and is one for its own key.
ASSUME DaemonAssumption == ParseCert(DaemonCert) /\ DaemonCert.key = DaemonSig

NoFile == 0
NoIndex == 0
senderIndex == 99   \* stands for 0x51530001, no slot of the daemon

\* trustDir: ca0.pub to ca7.pub, up to the first that is missing.
trusted(o) ==
  {o.cas[i] : i \in {j \in DOMAIN o.cas : j <= 8 /\ \A k \in 1 .. j : o.cas[k] # NoFile}}

Init ==
  /\ att = [a \in Attempts |-> [pc |-> "new", opt |-> None, in |-> None,
              res |-> None, index |-> NoIndex, cert |-> None, read |-> None]]
  /\ ses = [s \in Sessions |-> [state |-> "free", m1 |-> None, rs |-> NoFile,
              res |-> None, cert |-> None]]
  /\ up = {} /\ down = {} /\ admitted = {}

-----------------------------------------------------------------------------
(* The harness.                                                            *)

\* Exit status 0, or 1: with the error of a step, or with what was read refused.
Ended(a) == att[a].pc \in {"ok", "failed", "refused"}

\* One run after the other, on the same UDP port.
Turn(a) == \A b \in Attempts : b < a => Ended(b)

\* The flags and files of this run.
Load(a, o) ==
  /\ att[a].pc = "new"
  /\ Turn(a)
  /\ trusted(o) # {}
  /\ att' = [att EXCEPT ![a] = [@ EXCEPT !.pc = "dial", !.opt = o]]
  /\ UNCHANGED <<ses, up, down, admitted>>

\* fail(): a file, the network or a flag is not as it should be.
Fails(a) ==
  /\ Turn(a)
  /\ att[a].pc \in {"new", "dial", "bind", "intent"}
  /\ att' = [att EXCEPT ![a].pc = "failed"]
  /\ UNCHANGED <<ses, up, down, admitted>>

\* WriteInitiation and conn.Write.
Initiate(a) ==
  LET o == att[a].opt
      w == WriteInitiation(NewInitiator(o.s, o.S, o.rs), senderIndex, a, a, o.sigPub)
  IN  /\ att[a].pc = "dial"
      /\ w.ok
      /\ att' = [att EXCEPT ![a] = [@ EXCEPT !.pc = "stageA", !.in = w.st]]
      /\ up' = up \cup {w.msg}
      /\ UNCHANGED <<ses, down, admitted>>

\* Faulty: Finalize is not called.
Bug_NoFinalize(a, m) ==
  LET r == ReadResponse(att[a].in, m, att[a].opt.sigPub)
  IN  /\ att[a].pc = "stageA"
      /\ m \in down
      /\ m.type = 2
      /\ r.ok
      /\ att' = [att EXCEPT ![a] = [@ EXCEPT !.pc = "bind", !.in = r.st]]
      /\ UNCHANGED <<ses, up, down, admitted>>

\* Faulty: the daemon's index is read at offset 8.
Bug_ReadsOffset8(a, m) ==
  LET r == ReadResponse(att[a].in, m, att[a].opt.sigPub)
  IN  /\ att[a].pc = "stageA"
      /\ m \in down
      /\ m.type = 2
      /\ r.ok
      /\ att' = [att EXCEPT ![a] = [@ EXCEPT !.pc = "bind", !.in = r.st,
                   !.res = FinalizeInitiator(r.st), !.index = m.body.receiver]]
      /\ UNCHANGED <<ses, up, down, admitted>>

\* Stage A: one datagram is read, and it is a response that ReadResponse takes.
StageA(a, m) ==
  LET r == ReadResponse(att[a].in, m, att[a].opt.sigPub)
  IN  /\ att[a].pc = "stageA"
      /\ m \in down
      /\ m.type = 2
      /\ r.ok
      /\ att' = [att EXCEPT ![a] = [@ EXCEPT !.pc = "bind", !.in = r.st,
                   !.res = FinalizeInitiator(r.st), !.index = m.body.sender]]
      /\ UNCHANGED <<ses, up, down, admitted>>

\* ... or it is not.
StageAFails(a, m) ==
  LET r == ReadResponse(att[a].in, m, att[a].opt.sigPub)
  IN  /\ att[a].pc = "stageA"
      /\ m \in down
      /\ ~(m.type = 2 /\ r.ok)
      /\ att' = [att EXCEPT ![a] = [@ EXCEPT !.pc = "refused", !.read = m,
                   !.in = IF m.type = 2 THEN r.st ELSE att[a].in]]
      /\ UNCHANGED <<ses, up, down, admitted>>

\* The binding frame, in the packet with counter 0.
Bind(a) ==
  LET o == att[a].opt
      frame == BuildBindingFrame(o.cert, o.sig, att[a].res.H)
  IN  /\ att[a].pc = "bind"
      /\ att' = [att EXCEPT ![a].pc = "stageB"]
      /\ up' = up \cup {SealTransport(att[a].res.SendKey, att[a].index, 0, frame)}
      /\ UNCHANGED <<ses, down, admitted>>

\* The packet is the daemon's binding frame for this session.
Verifies(a, p) ==
  /\ OpenTransport(att[a].res.RecvKey, p)
  /\ VerifyBindingFrame(Plaintext(p.ct), att[a].res.H, trusted(att[a].opt))

\* Stage B: one datagram is read and verified.
StageB(a, p) ==
  /\ att[a].pc = "stageB"
  /\ p \in down
  /\ Verifies(a, p)
  /\ att' = [att EXCEPT ![a] = [@ EXCEPT !.pc = IF att[a].opt.intent THEN "intent" ELSE "ok",
                                       !.cert = Plaintext(p.ct)[2]]]
  /\ UNCHANGED <<ses, up, down, admitted>>

StageBFails(a, p) ==
  /\ att[a].pc = "stageB"
  /\ p \in down
  /\ ~Verifies(a, p)
  /\ att' = [att EXCEPT ![a] = [@ EXCEPT !.pc = "refused", !.read = p]]
  /\ UNCHANGED <<ses, up, down, admitted>>

\* Faulty: the deadline is cleared after stage A and none set for stage B.
Bug_OneDeadline(a) ==
  /\ att[a].pc = "stageA"
  /\ att' = [att EXCEPT ![a].pc = "failed"]
  /\ UNCHANGED <<ses, up, down, admitted>>

\* conn.Read returns when the deadline has passed.
Deadline(a) ==
  /\ att[a].pc \in {"stageA", "stageB"}
  /\ att' = [att EXCEPT ![a].pc = "failed"]
  /\ UNCHANGED <<ses, up, down, admitted>>

\* Faulty: the envelope is sealed with the counter of the binding frame.
Bug_CounterReused(a) ==
  LET o == att[a].opt
      env == BuildSignedEnvelope(o.sig, [id |-> a, resource |-> att[a].cert.key], o.sig)
  IN  /\ att[a].pc = "intent"
      /\ o.fits
      /\ att' = [att EXCEPT ![a].pc = "ok"]
      /\ up' = up \cup {SealTransport(att[a].res.SendKey, att[a].index, 0, env)}
      /\ UNCHANGED <<ses, down, admitted>>

\* Faulty: the resource is under the fingerprint of the sender.
Bug_OwnFingerprint(a) ==
  LET o == att[a].opt
      env == BuildSignedEnvelope(o.sig, [id |-> a, resource |-> o.sig], o.sig)
  IN  /\ att[a].pc = "intent"
      /\ o.fits
      /\ att' = [att EXCEPT ![a].pc = "ok"]
      /\ up' = up \cup {SealTransport(att[a].res.SendKey, att[a].index, 1, env)}
      /\ UNCHANGED <<ses, down, admitted>>

\* Stage C: one intent, on a resource under the daemon's fingerprint, in the
\* packet with counter 1.  The resource must fit into an intent.
StageC(a) ==
  LET o == att[a].opt
      env == BuildSignedEnvelope(o.sig, [id |-> a, resource |-> att[a].cert.key], o.sig)
  IN  /\ att[a].pc = "intent"
      /\ o.fits
      /\ att' = [att EXCEPT ![a].pc = "ok"]
      /\ up' = up \cup {SealTransport(att[a].res.SendKey, att[a].index, 1, env)}
      /\ UNCHANGED <<ses, down, admitted>>

-----------------------------------------------------------------------------
(* The daemon.                                                             *)

\* It answers an initiation, the same one again in a new slot, and pushes
\* its own binding frame.
Respond(s, m) ==
  LET r == ReadInitiation(NewResponder(DaemonStatic, DaemonStatic), m, DaemonSig)
      to == m.body.sender
      w == WriteResponse(r.st, s, to, s, DaemonSig)
      res == FinalizeResponder(w.st)
      frame == BuildBindingFrame(DaemonCert, DaemonSig, res.H)
  IN  /\ ses[s].state = "free"
      /\ \A t \in Sessions : t < s => ses[t].state # "free"
      /\ m \in up
      /\ m.type = 1
      /\ r.ok
      /\ ses' = [ses EXCEPT ![s] = [state |-> "open", m1 |-> m, rs |-> r.st.rs,
                                    res |-> res, cert |-> None]]
      /\ down' = down \cup {w.msg, SealTransport(res.SendKey, to, 0, frame)}
      /\ UNCHANGED <<att, up, admitted>>

\* The harness's binding frame arrives in an open session.
DaemonBinds(s, p) ==
  LET frame == Plaintext(p.ct)
  IN  /\ ses[s].state = "open"
      /\ p \in up
      /\ p.type = 4
      /\ p.hdr[2] = s
      /\ OpenTransport(ses[s].res.RecvKey, p)
      /\ VerifyBindingFrame(frame, ses[s].res.H, DaemonTrust)
      /\ ses' = [ses EXCEPT ![s] = [@ EXCEPT !.state = "bound", !.cert = frame[2]]]
      /\ UNCHANGED <<att, up, down, admitted>>

\* An envelope of the bound peer arrives.
DaemonAdmits(s, p) ==
  LET env == Plaintext(p.ct)
  IN  /\ ses[s].state = "bound"
      /\ p \in up
      /\ p.type = 4
      /\ p.hdr[2] = s
      /\ OpenTransport(ses[s].res.RecvKey, p)
      /\ env[1] = "envelope"
      /\ VerifySigned(DomainEnvelope, env[2], env[3], ses[s].cert.key)
      /\ admitted' = admitted \cup {[slot |-> s, sender |-> env[2][2], intent |-> env[2][3]]}
      /\ UNCHANGED <<att, ses, up, down>>

\* A restart forgets the sessions.
DaemonRestarts ==
  /\ \E s \in Sessions : ses[s].state \in {"open", "bound"}
  /\ ses' = [s \in Sessions |->
       [ses[s] EXCEPT !.state = IF @ \in {"open", "bound"} THEN "gone" ELSE @]]
  /\ UNCHANGED <<att, up, down, admitted>>

AllEnded == (\A a \in Attempts : Ended(a)) /\ UNCHANGED vars

-----------------------------------------------------------------------------
Proceeds(a) == Fails(a) \/ Initiate(a) \/ Bind(a) \/ StageC(a) \/ Deadline(a)

Reads(a, m) == StageA(a, m) \/ StageAFails(a, m) \/ StageB(a, m) \/ StageBFails(a, m)

Daemon ==
  \/ \E s \in Sessions, m \in up : Respond(s, m) \/ DaemonBinds(s, m) \/ DaemonAdmits(s, m)
  \/ DaemonRestarts

Next ==
  \/ \E a \in Attempts :
       Proceeds(a) \/ (\E m \in down : Reads(a, m)) \/ (\E o \in Options : Load(a, o))
  \/ Daemon
  \/ AllEnded

Spec == Init /\ [][Next]_vars

\* A process that does not wait runs on, and one that waits is woken by its
\* deadline.  No datagram need ever arrive; the daemon need do nothing.
FairSpec == Spec /\ \A a \in Attempts : WF_vars(Proceeds(a))

-----------------------------------------------------------------------------
(* Properties.                                                             *)

\* The process and the slot ran one handshake with each other.
Agree(a, s) ==
  /\ att[a].res # None
  /\ ses[s].res # None
  /\ att[a].res.SendKey = ses[s].res.RecvKey
  /\ att[a].res.RecvKey = ses[s].res.SendKey
  /\ att[a].res.H = ses[s].res.H

\* Every process and every slot is in one of its states, and holds exactly
\* what the code has assigned when it gets there.
TypeOK ==
  /\ \A a \in Attempts :
       /\ att[a].pc \in {"new", "dial", "stageA", "bind", "stageB", "intent", "ok",
                          "failed", "refused"}
       /\ att[a].opt \in Options \cup {None}
       /\ att[a].pc \notin {"new", "failed"} => att[a].opt # None
       /\ att[a].pc = "refused" => att[a].read # None
       /\ att[a].pc \in {"stageA", "bind", "stageB", "intent", "ok"} => att[a].in # None
       /\ att[a].pc \in {"bind", "stageB", "intent", "ok"} => att[a].res # None
       /\ att[a].pc \in {"intent", "ok"} => att[a].cert # None
  /\ \A s \in Sessions :
       /\ ses[s].state \in {"free", "open", "bound", "gone"}
       /\ ses[s].state = "free" <=> ses[s].res = None

\* A process whose handshake completed (main.go "handshake complete") shares
\* both keys, crossed, and the transcript hash with exactly one slot of the
\* daemon, one that answered this process's own initiation and took its static
\* public key from it; no two processes share a slot.  Responses to an earlier
\* process on the same port, and second responses to one initiation, are about.
SessionAgreement ==
  /\ \A a \in Attempts : att[a].res # None =>
       \E s \in Sessions :
         /\ Agree(a, s)
         /\ ses[s].m1.body.e = a
         /\ ses[s].rs = att[a].opt.S
         /\ att[a].index = s
  /\ \A a, b \in Attempts, s, t \in Sessions :
       Agree(a, s) /\ Agree(b, t) => (a = b <=> s = t)

\* A process that gives up on what it read (noise.go ReadResponse, transport.go
\* OpenTransport, VerifyBindingFrame) read something that is not for it: in
\* stage A no response to its own initiation, in stage B not the packet of its
\* own session, or a certificate that its trust directory does not cover.
OnlyForeignDatagramsFail ==
  \A a \in Attempts : att[a].pc = "refused" =>
    IF att[a].res = None
    THEN \A s \in Sessions :
           att[a].read.type = 2 /\ ses[s].m1 # None /\ att[a].read.body.e = s
             => ses[s].m1.body.e # a
    ELSE \/ att[a].read.type = 2
         \/ att[a].read.ct[2] # att[a].res.RecvKey
         \/ ~ValidateCertChainNoClock(DaemonCert, trusted(att[a].opt))

\* Every ciphertext that was sent.
Ciphertexts ==
  {p.ct : p \in {q \in up \cup down : q.type = 4}}
    \cup (UNION {{m.body.encS, m.body.encT} : m \in {q \in up : q.type = 1}})
    \cup {m.body.encNothing : m \in {q \in down : q.type = 2}}

\* No key seals two different plaintexts under one nonce: not in the
\* handshake, whose counter restarts with every key (noise.go mixKey), and not
\* in the packets, whose counters main.go chooses as literals.
NoncesUnique ==
  \A c, d \in Ciphertexts : c[2] = d[2] /\ c[3] = d[3] => c = d

\* A verified binding frame (transport.go VerifyBindingFrame) means the owner
\* of the certificate is the other end of this session, for both ends: the
\* frame of another session, or one under another certificate, never passes.
BoundMeansPeer ==
  /\ \A a \in Attempts : att[a].cert # None =>
       /\ \E s \in Sessions : Agree(a, s)
       /\ att[a].cert = DaemonCert
       /\ Signers(DaemonCert) \subseteq trusted(att[a].opt)
  /\ \A s \in Sessions : ses[s].cert # None =>
       \E a \in Attempts :
         /\ Agree(a, s)
         /\ ses[s].cert = att[a].opt.cert
         /\ att[a].opt.cert.key = att[a].opt.sig

\* An intent the daemon admits was sent by a process that had verified this
\* daemon in this very session, names the daemon's fingerprint, and came after
\* the binding frame of that process was accepted.
AdmittedIsAuthentic ==
  \A x \in admitted : \E a \in Attempts :
    /\ Agree(a, x.slot)
    /\ att[a].pc = "ok"
    /\ x.intent = [id |-> a, resource |-> DaemonCert.key]
    /\ x.sender = att[a].opt.sig
    /\ ses[x.slot].cert = att[a].opt.cert

\* The abstract pairing, read off the state: the index a process addresses, the
\* ephemeral key in the initiation a bound slot answered.
Ch == INSTANCE Channel WITH
  Nobody <- NoIndex,
  peer <- [a \in Attempts |-> att[a].index],
  verified <- {a \in Attempts : att[a].cert # None},
  owner <- [s \in Sessions |-> IF ses[s].cert = None THEN NoIndex ELSE ses[s].m1.body.e],
  intents <- {<<x.intent.id, x.slot>> : x \in admitted}

\* Handshake, binding frames and intents implement the abstract pairing
\* (module Channel): pairings are one to one and never change, an end learns
\* its peer only after the pairing, an intent comes after both have.
ImplementsChannel == Ch!Spec

\* A started process exits, whatever the network and the daemon do: both reads
\* have a deadline (main.go SetDeadline).
AttemptEnds ==
  \A a \in Attempts : att[a].pc = "dial" ~> Ended(a)
=============================================================================
