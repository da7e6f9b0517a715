------------------------------ MODULE Channel ------------------------------
(***************************************************************************)
(* What the handshake and the two binding frames promise together, without *)
(* messages or keys: a run of the harness is paired with a slot of the     *)
(* daemon that no other run has and keeps it; each end may then learn, on  *)
(* its own, who the other is; an intent is admitted only once both have.   *)
(***************************************************************************)
CONSTANTS Attempts, Sessions, Nobody

VARIABLES
  peer,      \* peer[a]: the slot a is paired with
  verified,  \* the runs that verified the daemon's binding frame
  owner,     \* owner[s]: the run whose binding frame slot s verified
  intents    \* pairs <<a, s>>: an intent of a was admitted in slot s

vars == <<peer, verified, owner, intents>>

Init ==
  /\ peer = [a \in Attempts |-> Nobody]
  /\ verified = {}
  /\ owner = [s \in Sessions |-> Nobody]
  /\ intents = {}

Pair(a, s) ==
  /\ peer[a] = Nobody
  /\ \A b \in Attempts : peer[b] # s
  /\ peer' = [peer EXCEPT ![a] = s]
  /\ UNCHANGED <<verified, owner, intents>>

Verify(a) ==
  /\ peer[a] # Nobody
  /\ verified' = verified \cup {a}
  /\ UNCHANGED <<peer, owner, intents>>

Own(a, s) ==
  /\ peer[a] = s
  /\ owner[s] = Nobody
  /\ owner' = [owner EXCEPT ![s] = a]
  /\ UNCHANGED <<peer, verified, intents>>

Admit(a, s) ==
  /\ owner[s] = a
  /\ a \in verified
  /\ intents' = intents \cup {<<a, s>>}
  /\ UNCHANGED <<peer, verified, owner>>

Next ==
  \E a \in Attempts :
    Verify(a) \/ \E s \in Sessions : Pair(a, s) \/ Own(a, s) \/ Admit(a, s)

Spec == Init /\ [][Next]_vars
=============================================================================
