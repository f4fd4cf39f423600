------------------------------ MODULE WanRound ------------------------------
(***************************************************************************)
(* How a node keeps itself findable (src/roastmesh/wan_discovery.py,       *)
(* run_wan_discovery): each round it renews the port its router forwards,  *)
(* derives its public address from what other nodes say (dht.py, IpVoter), *)
(* adopts an id for it, publishes itself and looks itself up again.  The   *)
(* lookups themselves are module Search, the table is RoutingTable.        *)
(*                                                                         *)
(* Our address and what the router does may change while all this goes on. *)
(* Some of those who answer lie about our address, the others say what it  *)
(* is when they answer.  The NAT keeps the port: what claims differ in is  *)
(* the IP.  Time passes between rounds only.                               *)
(***************************************************************************)
EXTENDS Naturals, FiniteSets

CONSTANTS
    Ips, Lie,           \* the addresses we have in turn, and the one liars say
    Honest, Liars,      \* who answers our lookups
    NoIp,
    Quorum,             \* IP_VOTE_QUORUM
    RotateAfter,        \* IP_VOTE_ROTATE_AFTER
    ForwardedPorts,     \* ports a router may forward to us
    NoPort,
    AutoPort,           \* auto_port
    MaxChanges          \* bound: changes of the address and of the router

ASSUME WanRoundAssumption ==
    /\ Lie \notin Ips /\ NoIp \notin Ips \union {Lie}
    /\ {Quorum, RotateAfter} \subseteq Nat \ {0} /\ MaxChanges \in Nat
    /\ IsFiniteSet(Honest \union Liars) /\ Cardinality(Liars) < Quorum /\ Cardinality(Honest) >= Quorum
    /\ Cardinality(Honest) > 2 * Cardinality(Liars)
    /\ NoPort \notin ForwardedPorts /\ AutoPort \in BOOLEAN

Responders == Honest \union Liars
Claimed == Ips \union {Lie}
AnIp == Claimed \union {NoIp}
APort == ForwardedPorts \union {NoPort}

VARIABLES
    address, forward,   \* the world: our address, and the port our router forwards to us
    changes, held,      \* the addresses we had so far
    votes, settled,     \* IpVoter: _votes, _settled
    old,                \* ... its round has lasted five minutes
    adopted,            \* adopted_for_ip: our id conforms to it
    port,               \* effective_port
    due,                \* what is due: "mapping", "announce"
    at,                 \* where the round is; off: discovery is not enabled
    asked,              \* who has not answered the lookup yet
    announcing,
    published,          \* what the storing nodes hold of us: the last <<ip, port>>
    readback, readOnly

voteVars == <<votes, settled, old>>
wanVars == <<address, forward, changes, held, votes, settled, old, adopted, port, due, at,
             asked, announcing, published, readback, readOnly>>

WanTypeOK ==
    /\ address \in Ips /\ forward \in APort /\ changes \in 0 .. MaxChanges /\ held \subseteq Ips
    /\ votes \in [Claimed -> SUBSET Responders] /\ settled \in AnIp /\ old \in BOOLEAN
    /\ adopted \in AnIp /\ port \in APort
    /\ due \subseteq {"mapping", "announce"}
    /\ at \in {"off", "top", "lookup", "announce", "readback", "sleep"}
    /\ asked \subseteq Responders /\ announcing \in BOOLEAN
    /\ published \in AnIp \X APort
    /\ readback \in {"unknown", "found", "lost"} /\ readOnly \in BOOLEAN

NoVotes == [c \in Claimed |-> {}]

WanInit ==
    /\ address \in Ips /\ forward \in APort /\ changes = 0 /\ held = {address}
    /\ votes = NoVotes /\ settled = NoIp /\ old = FALSE
    /\ adopted = NoIp /\ port = NoPort
    /\ due = {"mapping", "announce"}
    /\ at \in {"off", "top"} /\ asked = {} /\ announcing = FALSE
    /\ published = <<NoIp, NoPort>> /\ readback = "unknown" /\ readOnly = FALSE

-----------------------------------------------------------------------------
(***************************************************************************)
(* IpVoter.                                                                *)
(***************************************************************************)
Count(c) == Cardinality(votes[c])
Tops == {c \in Claimed : \A d \in Claimed : Count(d) <= Count(c)}
RunnerUp(c) == CHOOSE n \in 0 .. Cardinality(Responders) :
                  /\ \E d \in Claimed \ {c} : n = Count(d)
                  /\ \A d \in Claimed \ {c} : Count(d) <= n

\* _winner, when c is ranked first: an address that is settled is only given up for one
\* with more than twice the votes of the next.
Winner_NoQuorum(c) ==
    CASE Count(c) = 0 -> NoIp
      [] Count(c) > 0 /\ settled \notin {NoIp, c} /\ Count(c) <= 2 * RunnerUp(c) -> settled
      [] OTHER -> c
Winner(c) ==
    CASE Count(c) < Quorum -> NoIp
      [] Count(c) >= Quorum /\ settled \notin {NoIp, c} /\ Count(c) <= 2 * RunnerUp(c) -> settled
      [] OTHER -> c

Total == Cardinality({v \in Claimed \X Responders : v[2] \in votes[v[1]]})
RotationDue == Total > 0 /\ (Total >= RotateAfter \/ old)

\* _maybe_rotate.
Rotated_KeepsVotes(c) == [votes |-> votes, settled |-> IF Winner(c) = NoIp THEN settled ELSE Winner(c), old |-> FALSE]
Rotated(c) == [votes |-> NoVotes, settled |-> IF Winner(c) = NoIp THEN settled ELSE Winner(c), old |-> FALSE]
Kept == [votes |-> votes, settled |-> settled, old |-> old]
Ballot(c) == IF RotationDue THEN Rotated(c) ELSE Kept

\* current: rotate if due, then the winner or what is settled.
Current(c) == LET won == Winner(c)
              IN  IF RotationDue \/ won = NoIp THEN Ballot(c).settled ELSE won
Becomes(b) == votes' = b.votes /\ settled' = b.settled /\ old' = b.old

ClaimsOf(r) == IF r \in Liars THEN {Lie, address} ELSE {address}

\* record.
Record(r) ==
    \E c \in Tops, claim \in ClaimsOf(r) :
        Becomes([Ballot(c) EXCEPT !.votes[claim] = @ \union {r}])

\* _maybe_adopt_node_id.
AdoptedFor(ip) == IF ip = NoIp THEN adopted ELSE ip

-----------------------------------------------------------------------------
(***************************************************************************)
(* A round.                                                                *)
(***************************************************************************)

\* _renew_mapping: a router that forwards nothing leaves the port as it was.
Renewed == IF AutoPort /\ "mapping" \in due /\ forward # NoPort THEN forward ELSE port

Top ==
    /\ at = "top"
    /\ port' = Renewed
    /\ \E c \in Tops :
          /\ Becomes(Ballot(c))
          /\ adopted' = AdoptedFor(Current(c))
    /\ readOnly' = (readback = "lost")
    /\ announcing' = ("announce" \in due)
    /\ due' = IF AutoPort THEN due \ {"mapping"} ELSE due
    /\ asked' = Responders /\ at' = "lookup"
    /\ UNCHANGED <<address, forward, changes, held, published, readback>>

\* An answer to the lookup, or to the ping of the bootstrap loop, which looks whether
\* to adopt an id as well.
Vote(r) ==
    /\ at = "lookup" /\ r \in asked
    /\ Record(r) /\ asked' = asked \ {r}
    /\ UNCHANGED <<address, forward, changes, held, adopted, port, due, at, announcing, published, readback, readOnly>>

Silence(r) ==
    /\ at = "lookup" /\ r \in asked /\ r \in Liars
    /\ asked' = asked \ {r}
    /\ UNCHANGED <<address, forward, changes, held, votes, settled, old, adopted, port, due, at, announcing,
                   published, readback, readOnly>>

BootstrapAdopts ==
    /\ at = "lookup"
    /\ \E c \in Tops : Becomes(Ballot(c)) /\ adopted' = AdoptedFor(Current(c))
    /\ UNCHANGED <<address, forward, changes, held, port, due, at, asked, announcing, published, readback, readOnly>>

\* The lookup came near the swarm, and somebody took our announcement: they see the
\* address it came from.
Announce ==
    /\ at = "lookup" /\ asked = {} /\ announcing
    /\ published' = <<address, port>> /\ due' = due \ {"announce"}
    /\ at' = "readback"
    /\ UNCHANGED <<address, forward, changes, held, votes, settled, old, adopted, port, asked, announcing, readback, readOnly>>

\* Nothing was due, or nobody took it.
NotAnnounced ==
    /\ at = "lookup" /\ asked = {} /\ at' = "sleep"
    /\ UNCHANGED <<address, forward, changes, held, votes, settled, old, adopted, port, due, asked, announcing,
                   published, readback, readOnly>>

\* The address is read again: the lookup may just have brought the votes.
Readback ==
    /\ at = "readback"
    /\ \E c \in Tops :
          /\ Becomes(Ballot(c))
          /\ readback' = CASE Current(c) = NoIp -> "unknown"
                           [] published = <<Current(c), port>> -> "found"
                           [] OTHER -> "lost"
    /\ at' = "sleep"
    /\ UNCHANGED <<address, forward, changes, held, adopted, port, due, asked, announcing, published, readOnly>>

Wake ==
    /\ at = "sleep" /\ at' = "top"
    /\ UNCHANGED <<address, forward, changes, held, votes, settled, old, adopted, port, due, asked, announcing,
                   published, readback, readOnly>>

-----------------------------------------------------------------------------
(***************************************************************************)
(* Time and the world.                                                     *)
(***************************************************************************)
RoundAges ==
    /\ at = "sleep" /\ ~ old /\ old' = TRUE
    /\ UNCHANGED <<address, forward, changes, held, votes, settled, adopted, port, due, at, asked, announcing,
                   published, readback, readOnly>>

FallsDue(what) ==
    /\ at = "sleep" /\ what \notin due /\ due' = due \union {what}
    /\ UNCHANGED <<address, forward, changes, held, votes, settled, old, adopted, port, at, asked, announcing,
                   published, readback, readOnly>>

Change ==
    /\ changes < MaxChanges /\ changes' = changes + 1
    /\ \/ address' \in Ips \ {address} /\ held' = held \union {address'} /\ UNCHANGED forward
       \/ forward' \in APort \ {forward} /\ UNCHANGED <<address, held>>
    /\ UNCHANGED <<votes, settled, old, adopted, port, due, at, asked, announcing, published, readback, readOnly>>

RoundStep == Top \/ Announce \/ NotAnnounced \/ Readback \/ Wake \/ \E r \in Responders : Vote(r) \/ Silence(r)

WanNext ==
    \/ RoundStep \/ BootstrapAdopts \/ RoundAges \/ Change
    \/ \E what \in {"mapping", "announce"} : FallsDue(what)

WanSpec == WanInit /\ [][WanNext]_wanVars

\* Rounds go on, time passes between them, and one of the lookups that are due to be
\* announced from comes near the swarm.
WanFairness ==
    /\ WF_wanVars(RoundStep) /\ SF_wanVars(Announce) /\ SF_wanVars(RoundAges)
    /\ \A what \in {"mapping", "announce"} : SF_wanVars(FallsDue(what))

-----------------------------------------------------------------------------
(***************************************************************************)
(* Properties.                                                             *)
(***************************************************************************)

\* As long as liars are fewer than the quorum, the node never believes, and never
\* adopts an id for, an address it did not have.
LiarsDoNotMoveUs == {settled, adopted} \subseteq held \union {NoIp}

\* After the last change the node ends up with an id that conforms to its address,
\* is published with that address and with the port the router forwards, if it
\* forwards one, and does not declare itself unreachable.
FindableAgain ==
    <>[](/\ adopted = address
         /\ published[1] = address
         /\ forward # NoPort /\ AutoPort => published[2] = forward
         /\ readback = "found" /\ ~ readOnly)
=============================================================================
