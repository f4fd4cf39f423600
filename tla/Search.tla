------------------------------- MODULE Search -------------------------------
(***************************************************************************)
(* One lookup in the DHT (src/roastmesh/dht.py): the table of candidates   *)
(* of class Search and the loop of discover_and_announce_peers that drives *)
(* it, from the bootstrap round to the announcement.                       *)
(*                                                                         *)
(* A node id is its rank by XOR distance to the target: 0 is the closest.  *)
(* What an address answers to a get_peers is one of Answers[a]; nothing    *)
(* makes an answer true.  A round asks several addresses at once, waits    *)
(* for all of them, and then takes the answers one after the other, each   *)
(* under the address its node has by then.                                 *)
(***************************************************************************)
EXTENDS Naturals, Sequences, FiniteSets, FiniteSetsExt, SequencesExt

CONSTANTS
    Ids,                \* node ids, as distances to the target
    Addrs,
    Prefix,             \* Prefix[a]: the /24 address a is in
    Exempt,             \* addresses that are not routable
    Martian,            \* addresses no node can have
    Impossible,         \* ids too close to the target to be true
    Contested,          \* <<id, address>> that BEP 42 refuses near the target
    Answers,            \* Answers[a]: what address a may answer
    NoReply,            \* no answer, or an error
    Nobody,             \* no id, no slot
    Bootstrap,          \* the addresses the lookup starts from, in order
    Seeds,              \* cached [id, addr] the lookup starts from, in order
    SlotLimit,          \* SEARCH_NODES
    K,                  \* ANNOUNCE_LIVE_COUNT
    MaxPerPrefix,       \* MAX_SEARCH_NODES_PER_PREFIX
    MaxPinged,          \* SEARCH_NODE_MAX_PINGED
    Inflight,           \* DHT_INFLIGHT_QUERIES
    MaxRounds,          \* MAX_SEARCH_ROUNDS
    Timeout,            \* the wait for an answer, in naps of 0.05 s
    Retransmit          \* DHT_SEARCH_RETRANSMIT_S, in naps

Candidate == [id: Ids, addr: Addrs]
Reply == [id: Ids, names: SUBSET Candidate, token: BOOLEAN, broken: BOOLEAN]

ASSUME SearchAssumption ==
    /\ Ids \subseteq Nat /\ Nobody \notin Ids
    /\ Answers \in [Addrs -> SUBSET (Reply \union {NoReply})] /\ NoReply \notin Reply
    /\ Bootstrap \in Seq(Addrs) /\ Seeds \in Seq(Candidate)
    /\ {SlotLimit, K, MaxPerPrefix, MaxPinged, Inflight, MaxRounds} \subseteq Nat \ {0}
    /\ {Timeout, Retransmit} \subseteq Nat

Replies == (UNION {Answers[a] : a \in Addrs}) \ {NoReply}
Networks == {Prefix[a] : a \in Addrs}

Slot == [addr: Addrs, replied: BOOLEAN, pinged: 0 .. MaxPinged, wait: 0 .. Retransmit,
         token: BOOLEAN, acked: BOOLEAN]

ASSUME NobodyAssumption == Nobody \notin Slot

VARIABLES
    slot,       \* slot[i]: what the search holds of node i; sorted by distance
    count,      \* count[n]: how many candidates of network n were admitted
    black,      \* the shared blacklist (its capacity of 256 is not reached)
    known,      \* known[a]: the id address a was last seen to claim
    found,      \* the nodes whose values were taken
    seeds,      \* the cached candidates still to be inserted, in order
    asked,      \* the answers of the round that are still to be taken, in order
    heard,      \* the candidates the last answer named, still to be inserted
    pc, rounds

vars == <<slot, count, black, known, found, seeds, asked, heard, pc, rounds>>

\* node is the candidate that was asked (the object: Nobody once it lost its slot
\* or when a bare address was asked), addr the address its answer is taken under.
Query == [node: Ids \union {Nobody}, addr: Addrs, reply: Reply \union {NoReply}]

TypeOK ==
    /\ slot \in [Ids -> Slot \union {Nobody}]
    /\ count \in [Networks -> Nat]
    /\ black \subseteq Addrs
    /\ known \in [Addrs -> Ids \union {Nobody}]
    /\ found \subseteq Ids
    /\ seeds \in Seq(Candidate)
    /\ asked \in Seq(Query)
    /\ heard \subseteq Candidate
    /\ pc \in {"bootstrap", "search", "announce", "done"}
    /\ rounds \in 0 .. MaxRounds

Init ==
    /\ slot = [i \in Ids |-> Nobody]
    /\ count = [n \in Networks |-> 0]
    /\ black = {}
    /\ known = [a \in Addrs |-> Nobody]
    /\ found = {}
    /\ seeds = Seeds
    /\ asked = <<>>
    /\ heard = {}
    /\ pc = "bootstrap"
    /\ rounds = 0

-----------------------------------------------------------------------------
(***************************************************************************)
(* The table of candidates.                                                *)
(***************************************************************************)
Held == {i \in Ids : slot[i] # Nobody}
Nearest(S, k) == {i \in S : Cardinality({j \in S : j < i}) < k}

\* The numbers of S, in order.
InOrder(S) == CHOOSE s \in [1 .. Cardinality(S) -> S] : \A i, j \in DOMAIN s : i < j => s[i] < s[j]

\* The candidates that are not given up, and the first K of them.
Live == {i \in Held : slot[i].pinged < MaxPinged}
FirstK == Nearest(Live, K)
FirstKReplied_AnyK == Cardinality({i \in Held : slot[i].replied}) >= K
FirstKReplied == \A i \in FirstK : slot[i].replied

\* nodes_to_query: no answer yet, and not asked a moment ago.
ToQuery_GivenUpToo == Nearest({i \in Held : ~ slot[i].replied /\ slot[i].wait = 0}, Inflight)
ToQuery == Nearest({i \in Live : ~ slot[i].replied /\ slot[i].wait = 0}, Inflight)

\* _admit, whether the node is new to the table or not.
Plausible(i, a) == a \notin Martian /\ i \notin Impossible /\ <<i, a>> \notin Contested
Genuine(i, a) == a \notin black /\ Plausible(i, a)
PrefixFree(a) == a \in Exempt \/ count[Prefix[a]] < MaxPerPrefix

\* There is a slot for node i: its own, a free one, or that of a farther node.
HasRoom(i) == i \in Held \/ Cardinality({j \in Held : j < i}) < SlotLimit

Admits_Anyone(i, a) == PrefixFree(a) /\ HasRoom(i)
Admits(i, a) == Genuine(i, a) /\ PrefixFree(a) /\ HasRoom(i)

NewSlot(a) == [addr |-> a, replied |-> FALSE, pinged |-> 0, wait |-> 0,
               token |-> FALSE, acked |-> FALSE]

\* insert, of a node that is admitted: its slot becomes s.  If that makes too
\* many, the farthest node loses its slot and its network's place is free again.
Displaced(i) == IF i \notin Held /\ Cardinality(Held) = SlotLimit THEN {Max(Held)} ELSE {}

NewCount(i, s) ==
    [n \in Networks |->
        LET in == IF i \notin Held /\ Prefix[s.addr] = n THEN 1 ELSE 0
            out == Cardinality({j \in Displaced(i) : Prefix[slot[j].addr] = n})
        IN  IF out <= count[n] + in THEN count[n] + in - out ELSE 0]

Insert(i, s) ==
    /\ slot' = [j \in Ids |-> IF j = i THEN s ELSE IF j \in Displaced(i) THEN Nobody ELSE slot[j]]
    /\ count' = NewCount(i, s)

\* The answers Q still to be taken once node i was inserted with address a, and
\* once the nodes of S lost their slots.
Readdressed(Q, i, a) ==
    [j \in 1 .. Len(Q) |-> IF i \in Held /\ Q[j].node = i THEN [Q[j] EXCEPT !.addr = a] ELSE Q[j]]
Detached(Q, S) ==
    [j \in 1 .. Len(Q) |-> IF Q[j].node \in S THEN [Q[j] EXCEPT !.node = Nobody] ELSE Q[j]]

\* A node that is merely named: its address is updated if it has a slot.
Named(i, a) == IF i \in Held THEN [slot[i] EXCEPT !.addr = a] ELSE NewSlot(a)

\* A node that answered.
Answered(i, a, r) == [Named(i, a) EXCEPT !.replied = TRUE, !.pinged = 0, !.wait = 0,
                                         !.token = @ \/ r.token]

\* _admit blacklists an address for an impossible id only.
Blamed(i, a) == IF a \notin Martian \union black /\ i \in Impossible THEN {a} ELSE {}

-----------------------------------------------------------------------------
(***************************************************************************)
(* The loop: _query_and_ingest_addrs, then rounds of nodes_to_query and    *)
(* _query_and_ingest_nodes.                                                *)
(***************************************************************************)
\* The candidates that may be asked again after t more naps.
Later(sl, t) == [sl EXCEPT !.wait = IF @ > t THEN @ - t ELSE 0]

\* Each of the addresses is asked, in order; nodes are the candidates they are of.
Ask(addrs, nodes) ==
    \E r \in [1 .. Len(addrs) -> Replies \union {NoReply}] :
        /\ \A j \in 1 .. Len(addrs) : r[j] \in Answers[addrs[j]]
        /\ asked' = [j \in 1 .. Len(addrs) |-> [node |-> nodes[j], addr |-> addrs[j], reply |-> r[j]]]

SomeoneSilent(round) == \E j \in 1 .. Len(round) : round[j].reply = NoReply

AskBootstrap ==
    /\ pc = "bootstrap"
    /\ LET unknown == InOrder({k \in 1 .. Len(Bootstrap) : \A j \in 1 .. Len(Seeds) : Seeds[j].addr # Bootstrap[k]})
       IN  Ask([j \in 1 .. Len(unknown) |-> Bootstrap[unknown[j]]], [j \in 1 .. Len(unknown) |-> Nobody])
    /\ pc' = "search"
    /\ UNCHANGED <<slot, count, black, known, found, seeds, heard, rounds>>

\* Nothing of the last round is left, and every seed is in.
RoundOver == pc = "search" /\ asked = <<>> /\ heard = {}

InsertSeed ==
    /\ RoundOver /\ seeds # <<>>
    /\ LET c == Head(seeds)
       IN  /\ IF Admits(c.id, c.addr) THEN Insert(c.id, Named(c.id, c.addr))
              ELSE UNCHANGED <<slot, count>>
           /\ black' = black \union Blamed(c.id, c.addr)
    /\ seeds' = Tail(seeds)
    /\ UNCHANGED <<known, found, asked, heard, pc, rounds>>

AskRound ==
    /\ RoundOver /\ seeds = <<>> /\ rounds < MaxRounds
    /\ ~ FirstKReplied /\ ToQuery # {}
    /\ LET batch == InOrder(ToQuery)
       IN  Ask([j \in 1 .. Len(batch) |-> slot[batch[j]].addr], batch)
    /\ LET t == IF SomeoneSilent(asked') THEN Timeout ELSE 0
           mark(i) == IF i \in ToQuery THEN [slot[i] EXCEPT !.pinged = @ + 1, !.wait = Retransmit]
                      ELSE slot[i]
       IN  slot' = [i \in Ids |-> IF i \in Held THEN Later(mark(i), t) ELSE Nobody]
    /\ rounds' = rounds + 1
    /\ UNCHANGED <<count, black, known, found, seeds, heard, pc>>

\* Nobody may be asked right now: a nap, which counts as a round.
Nap ==
    /\ RoundOver /\ seeds = <<>> /\ rounds < MaxRounds
    /\ ~ FirstKReplied /\ ToQuery = {}
    /\ slot' = [i \in Ids |-> IF i \in Held THEN Later(slot[i], 1) ELSE Nobody]
    /\ rounds' = rounds + 1
    /\ UNCHANGED <<count, black, known, found, seeds, asked, heard, pc>>

\* The first K have answered (which they have when the search is exhausted),
\* or the rounds are used up.
StopSearch ==
    /\ RoundOver /\ seeds = <<>>
    /\ FirstKReplied \/ rounds = MaxRounds
    /\ pc' = "announce"
    /\ UNCHANGED <<slot, count, black, known, found, seeds, asked, heard, rounds>>

-----------------------------------------------------------------------------
(***************************************************************************)
(* _ingest_reply.                                                          *)
(***************************************************************************)
\* The next answer to take is r, from address a.
NextAnswer(a, r) ==
    heard = {} /\ asked # <<>> /\ Head(asked).addr = a /\ Head(asked).reply = r

SameIdentity(a, r) == known[a] \in {Nobody, r.id}

Without(i) == [slot EXCEPT ![i] = Nobody]

TakeNothing(a) ==
    /\ NextAnswer(a, NoReply)
    /\ asked' = Tail(asked)
    /\ UNCHANGED <<slot, count, black, known, found, seeds, heard, pc, rounds>>

\* _identity_ok: an address that claims another id than before is blacklisted.
TakeSwapped(a, r) ==
    /\ NextAnswer(a, r) /\ ~ SameIdentity(a, r)
    /\ black' = black \union {a}
    /\ asked' = Tail(asked)
    /\ UNCHANGED <<slot, count, known, found, seeds, heard, pc, rounds>>

\* A nodes blob of a wrong length: blacklisted, and purged from the search.
TakeBroken(a, r) ==
    /\ NextAnswer(a, r) /\ SameIdentity(a, r) /\ r.broken
    /\ black' = black \union {a}
    /\ known' = [known EXCEPT ![a] = r.id]
    /\ slot' = Without(r.id)
    /\ asked' = Detached(Tail(asked), {r.id})
    /\ UNCHANGED <<count, found, seeds, heard, pc, rounds>>

\* Not admitted: its nodes and values are not trusted.
TakeRefused(a, r) ==
    /\ NextAnswer(a, r) /\ SameIdentity(a, r) /\ ~ r.broken /\ ~ Admits(r.id, a)
    /\ black' = black \union Blamed(r.id, a)
    /\ known' = [known EXCEPT ![a] = r.id]
    /\ IF a \in black' THEN slot' = Without(r.id) /\ asked' = Detached(Tail(asked), {r.id})
       ELSE slot' = slot /\ asked' = Tail(asked)
    /\ UNCHANGED <<count, found, seeds, heard, pc, rounds>>

TakeAnswer(a, r) ==
    /\ NextAnswer(a, r) /\ SameIdentity(a, r) /\ ~ r.broken /\ Admits(r.id, a)
    /\ Insert(r.id, Answered(r.id, a, r))
    /\ known' = [known EXCEPT ![a] = r.id]
    /\ found' = found \union {r.id}
    /\ heard' = r.names \ {[id |-> r.id, addr |-> a]}
    /\ asked' = Detached(Readdressed(Tail(asked), r.id, a), Displaced(r.id))
    /\ UNCHANGED <<black, seeds, pc, rounds>>

\* One of the candidates the answer named.
TakeCandidate ==
    /\ \E c \in heard :
          /\ IF Admits(c.id, c.addr)
             THEN /\ Insert(c.id, Named(c.id, c.addr))
                  /\ asked' = Detached(Readdressed(asked, c.id, c.addr), Displaced(c.id))
             ELSE UNCHANGED <<slot, count, asked>>
          /\ black' = black \union Blamed(c.id, c.addr)
          /\ heard' = heard \ {c}
    /\ UNCHANGED <<known, found, seeds, pc, rounds>>

\* The value is announced to those of the first K that answered and gave a
\* token; each may confirm it or not.
Announce ==
    /\ pc = "announce"
    /\ \E ok \in SUBSET {i \in FirstK : slot[i].replied /\ slot[i].token} :
          slot' = [i \in Ids |-> IF i \in ok THEN [slot[i] EXCEPT !.acked = TRUE] ELSE slot[i]]
    /\ pc' = "done"
    /\ UNCHANGED <<count, black, known, found, seeds, asked, heard, rounds>>

Done == pc = "done" /\ UNCHANGED vars

Next ==
    \/ AskBootstrap \/ InsertSeed \/ AskRound \/ Nap \/ StopSearch
    \/ \E a \in Addrs :
          \/ TakeNothing(a)
          \/ \E r \in Replies :
                TakeSwapped(a, r) \/ TakeBroken(a, r) \/ TakeRefused(a, r) \/ TakeAnswer(a, r)
    \/ TakeCandidate
    \/ Announce \/ Done

Spec == Init /\ [][Next]_vars

-----------------------------------------------------------------------------
\* Node i is at address a, alone in its network: it always answers from there,
\* under its own id and with a token, and nobody names it elsewhere or another
\* node there.
ReliableAt(i, a) ==
    /\ Plausible(i, a)
    /\ \A b \in Addrs \ {a} : Prefix[b] # Prefix[a]
    /\ Answers[a] # {}
    /\ \A r \in Answers[a] : r # NoReply /\ r.id = i /\ r.token /\ ~ r.broken
    /\ \A r \in Replies : \A c \in r.names : c.id = i <=> c.addr = a
Reliable == {i \in Ids : \E a \in Addrs : ReliableAt(i, a)}

\* The cache is right about reliable nodes, and nobody answers under their ids.
NobodyPosesAsReliable ==
    \A i \in Reliable, a \in Addrs : ReliableAt(i, a) =>
        /\ \A j \in 1 .. Len(Seeds) : Seeds[j].id = i <=> Seeds[j].addr = a
        /\ \A b \in Addrs \ {a} : \A r \in Answers[b] \ {NoReply} : r.id # i

\* The slots are not filled by nodes closer than a reliable one.
RoomForReliable ==
    /\ MaxPerPrefix > 1
    /\ \A i \in Reliable : Cardinality({j \in Ids \ Impossible : j < i}) < SlotLimit

\* The lookup starts with the farthest reliable node, and whoever answers from
\* between it and a closer one names that, or a reliable one on the way to it.
WayToReliable ==
    \E g \in Reliable :
        /\ \E a \in Addrs : /\ ReliableAt(g, a)
                            /\ \/ \E j \in 1 .. Len(Bootstrap) : Bootstrap[j] = a
                               \/ \E j \in 1 .. Len(Seeds) : Seeds[j].addr = a
        /\ \A i \in Reliable : i <= g
        /\ \A r \in Replies, i \in Reliable :
              ~ r.broken /\ i < r.id /\ r.id <= g
                 => \E c \in r.names : c.id \in Reliable /\ i <= c.id /\ c.id < r.id

\* The value goes to the closest nodes there are: a search that converged has not
\* passed over a reliable node for a farther one, whoever else kept silent or
\* answered nonsense on the way.
NearestAnnounced ==
    pc = "announce" /\ FirstKReplied =>
        \A i \in Reliable \ FirstK : Cardinality(FirstK) = K /\ i > Max(FirstK)

\* No id that is too close to be true, and none that BEP 42 refuses, ever holds a
\* slot or has its values taken, under whichever address it is named or answers.
NothingForged ==
    /\ \A i \in Held : i \notin Impossible /\ <<i, slot[i].addr>> \notin Contested
    /\ found \intersect Impossible = {}
=============================================================================
