------------------------------ MODULE Pairing ------------------------------
(***************************************************************************)
(* Which devices trust which (src/roastmesh/devices.py), and the exchange  *)
(* that makes two of them trust each other: run_pairing of pairing.py as   *)
(* pair_over_lan of device_sync.py drives it.                              *)
(*                                                                         *)
(* Both sides do the same: they send a message and wait for the other's,   *)
(* five times over.  The keys and the signatures are left out: on one      *)
(* connection both sides derive the same emoji, so what the two users      *)
(* answer is a choice.  Messages arrive in order or the exchange fails, at *)
(* one side, at both, or at one side only.                                 *)
(***************************************************************************)
EXTENDS Naturals, FiniteSets

CONSTANTS
    Devices,
    MaxPairings,    \* bound: exchanges
    MaxRemovals     \* bound: calls of `device remove`

ASSUME PairingAssumption == MaxPairings \in Nat /\ MaxRemovals \in Nat

VARIABLES
    trusted,    \* trusted[d]: the devices in d's devices.json
    with,       \* the two devices of the last exchange
    side,       \* side[d]: how far d is in it
    agreed,     \* pairs of devices whose users both said that the emoji match
    pairings, removals

pairVars == <<trusted, with, side, agreed, pairings, removals>>

\* The rounds: commitment, reveal, answer of the user, signature, and name.
Answer == 3
Signature == 4
Name == 5

Side == [on: BOOLEAN, sent: 0 .. Name, got: 0 .. Name, yes: BOOLEAN]
Away == [on |-> FALSE, sent |-> 0, got |-> 0, yes |-> FALSE]

PairTypeOK ==
    /\ trusted \in [Devices -> SUBSET Devices]
    /\ with \subseteq Devices
    /\ side \in [Devices -> Side]
    /\ agreed \subseteq SUBSET Devices
    /\ pairings \in 0 .. MaxPairings /\ removals \in 0 .. MaxRemovals

PairInit ==
    /\ trusted = [d \in Devices |-> {}]
    /\ with = {}
    /\ side = [d \in Devices |-> Away]
    /\ agreed = {}
    /\ pairings = 0 /\ removals = 0

Other(d) == CHOOSE o \in with : o # d

\* add_device: a row for the other side, in place of an earlier one.
Trusts(d) == trusted' = [trusted EXCEPT ![d] = @ \union {Other(d)}]

\* The two connected to whom they picked.
StartPairing(a, b) ==
    /\ a # b /\ \A d \in Devices : ~ side[d].on
    /\ pairings < MaxPairings /\ pairings' = pairings + 1  \* bound
    /\ with' = {a, b}
    /\ side' = [d \in Devices |-> [Away EXCEPT !.on = d \in {a, b}]]
    /\ UNCHANGED <<trusted, agreed, removals>>

\* d's next message; the third is the answer of its user, and a no ends it.
Send(d) ==
    /\ side[d].on /\ side[d].sent = side[d].got /\ side[d].sent < Name
    /\ \E yes \in IF side[d].sent + 1 = Answer THEN BOOLEAN ELSE {side[d].yes} :
          /\ side' = [side EXCEPT ![d].sent = @ + 1, ![d].yes = yes,
                                  ![d].on = side[d].sent + 1 = Answer => yes]
          /\ agreed' = IF yes /\ side[Other(d)].yes THEN agreed \union {with} ELSE agreed
    /\ UNCHANGED <<trusted, with, pairings, removals>>

Refused(d) == side[d].got + 1 = Answer /\ ~ side[Other(d)].yes

\* The other's message of the same round.  The last one makes d trust it.
Receive(d) ==
    /\ side[d].on /\ side[d].got < side[d].sent /\ side[d].got < side[Other(d)].sent
    /\ side' = [side EXCEPT ![d].got = @ + 1,
                            ![d].on = ~ Refused(d) /\ side[d].got + 1 # Name]
    /\ IF side[d].got + 1 = Name THEN Trusts(d) ELSE UNCHANGED trusted
    /\ UNCHANGED <<with, agreed, pairings, removals>>

Proved_AnyResult(d) == TRUE
Proved(d) == side[d].got >= Signature

\* The connection is lost or the time is up.  Without the name, which is only
\* for show, d trusts the other all the same, unless d itself was stopped.
Fail(d) ==
    /\ side[d].on
    /\ side' = [side EXCEPT ![d].on = FALSE]
    /\ IF Proved(d) THEN Trusts(d) \/ UNCHANGED trusted ELSE UNCHANGED trusted
    /\ UNCHANGED <<with, agreed, pairings, removals>>

\* `device remove`
RemoveDevice(d, o) ==
    /\ o \in trusted[d]
    /\ removals < MaxRemovals /\ removals' = removals + 1  \* bound
    /\ trusted' = [trusted EXCEPT ![d] = @ \ {o}]
    /\ UNCHANGED <<with, side, agreed, pairings>>

PairNext ==
    \/ \E a, b \in Devices : StartPairing(a, b) \/ RemoveDevice(a, b)
    \/ \E d \in Devices : Send(d) \/ Receive(d) \/ Fail(d)

\* A device is trusted only if the users of both said once that the emoji
\* match, whatever was lost, declined or stopped on the way.
TrustIsConsent == \A d \in Devices : \A o \in trusted[d] : {d, o} \in agreed
=============================================================================
