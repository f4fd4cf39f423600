---------------------------- MODULE RoutingTable ----------------------------
(***************************************************************************)
(* The routing table of a DHT node (src/roastmesh/dht.py): class           *)
(* RoutingTable, the memory of which id a socket claims, and what a query, *)
(* an answer or a mention in an answer do to both.                         *)
(*                                                                         *)
(* The table is a list of buckets that cover the space of ids in order.    *)
(* Only the bucket of our own id is split, and each split halves what a    *)
(* bucket may take.  The order of the nodes within a bucket is left out:   *)
(* where the code takes the first of several, the model takes any.  What   *)
(* the rate limits refuse does not arrive here.                            *)
(*                                                                         *)
(* Times are kept as what the code asks of them: whether a node was heard  *)
(* in the last 15 minutes, answered in the last two hours, was pinged more *)
(* than 15 seconds ago.  A time nobody set is 0 on a clock that starts     *)
(* with the machine: on a young machine that is not long ago.              *)
(***************************************************************************)
EXTENDS Naturals, FiniteSets, FiniteSetsExt

CONSTANTS
    Bits,           \* the width of an id
    OwnIds,         \* ids of ours: the provisional one and those BEP 42 gives us
    Addrs, Ip,      \* sockets; Ip[a] is the IP of socket a
    Exempt,         \* IPs that are not routable
    Claims,         \* <<id, socket>>: who says to be where
    Named,          \* the claims that answers repeat
    Faulty,         \* the claims whose answers are malformed or forged
    Alive,          \* the claims of nodes that answer us again and again
    NoNode,
    BucketMax,      \* BUCKET_MAX_COUNT
    K,
    GoodPings,      \* NODE_GOOD_PINGED_MAX
    EvictPings      \* NODE_EVICT_PINGED

Ids == 0 .. 2^Bits - 1
Entry == [addr: Addrs, heard: BOOLEAN, answered: BOOLEAN, pings: 0 .. EvictPings, idle: BOOLEAN]

ASSUME RoutingTableAssumption ==
    /\ Bits \in Nat /\ OwnIds \subseteq Ids
    /\ Claims \subseteq Ids \X Addrs
    /\ Named \union Faulty \subseteq Claims /\ Alive \subseteq Claims
    /\ NoNode \notin Nat \union Entry
    /\ {BucketMax, K, GoodPings, EvictPings} \subseteq Nat
    /\ K <= BucketMax /\ GoodPings < EvictPings

VARIABLES
    own,        \* our id
    table,      \* room[f]: what the bucket that starts at f may take; node[i]: the entry of i
    black,      \* the blacklist (its capacity of 256 is not reached)
    known,      \* known[a]: the id socket a was last seen to claim
    uptime      \* how long the machine is up: minutes, an hour, longer than two

tableVars == <<own, table, black, known, uptime>>

TableTypeOK ==
    /\ own \in OwnIds
    /\ table \in [room: [Ids -> K .. BucketMax \union {NoNode}], node: [Ids -> Entry \union {NoNode}]]
    /\ table.room[0] # NoNode /\ table.node[own] = NoNode
    /\ black \subseteq Addrs
    /\ known \in [Addrs -> Ids \union {NoNode}]
    /\ uptime \in {"minutes", "hour", "longer"}

EmptyTable == [room |-> [f \in Ids |-> IF f = 0 THEN BucketMax ELSE NoNode],
               node |-> [i \in Ids |-> NoNode]]

TableInit ==
    /\ own \in OwnIds
    /\ table = EmptyTable
    /\ black = {}
    /\ known = [a \in Addrs |-> NoNode]
    /\ uptime \in {"minutes", "longer"}

-----------------------------------------------------------------------------
(***************************************************************************)
(* Buckets.                                                                *)
(***************************************************************************)
Firsts(t) == {f \in Ids : t.room[f] # NoNode}
First(t, i) == Max({f \in Firsts(t) : f <= i})
End(t, f) == Min({g \in Firsts(t) : g > f} \union {2^Bits})

Held(t) == {i \in Ids : t.node[i] # NoNode}
Mates(t, i) == Held(t) \intersect (First(t, i) .. End(t, First(t, i)) - 1)

\* _split: both halves may take half of what the whole could.
Half(n) == IF n \div 2 > K THEN n \div 2 ELSE K
Split(t, f) ==
    LET room == Half(t.room[f])
    IN  [t EXCEPT !.room[f] = room, !.room[(f + End(t, f)) \div 2] = room]

CanSplit_AnyBucket(t, i) == End(t, First(t, i)) - First(t, i) > 1
CanSplit(t, i) == First(t, i) = First(t, own) /\ End(t, First(t, i)) - First(t, i) > 1

\* Node.good.
Good(n) == /\ n.pings <= GoodPings
           /\ n.answered \/ uptime # "longer"
           /\ n.heard \/ uptime = "minutes"

-----------------------------------------------------------------------------
(***************************************************************************)
(* new_node.  confirm: 0 when someone else named the node, 1 when it asked *)
(* us, 2 when it answered us.                                              *)
(***************************************************************************)
NewEntry(a, confirm) == [addr |-> a, heard |-> confirm >= 1, answered |-> confirm >= 2,
                         pings |-> 0, idle |-> TRUE]

\* A node that has its place gets its new address.
Updated(n, a, confirm) ==
    CASE confirm = 2 -> NewEntry(a, 2)
      [] confirm = 1 -> [n EXCEPT !.addr = a, !.heard = TRUE]
      [] OTHER -> IF n.heard \/ uptime = "minutes" THEN n ELSE [n EXCEPT !.addr = a]

Dead_OneMore(t, S) == {j \in S : t.node[j].pings > EvictPings /\ t.node[j].idle}
Dead_Idle(t, S) == {j \in S : t.node[j].idle}
Dead(t, S) == {j \in S : t.node[j].pings >= EvictPings /\ t.node[j].idle}
Dubious(t, S) == {j \in S : ~ Good(t.node[j]) /\ t.node[j].idle}

Full(t, i) == Cardinality(Mates(t, i)) >= t.room[First(t, i)]

\* The bucket of i is split, and looked at again ("goto again"), until it need not or
\* cannot be.
MustSplit(t, i) == /\ Full(t, i) /\ CanSplit(t, i)
                   /\ Dead(t, Mates(t, i)) = {} /\ Dubious(t, Mates(t, i)) = {}
SplitFor(t, i) ==
    LET after[k \in 0 .. Bits] ==
            IF k = 0 THEN {t}
            ELSE {IF MustSplit(u, i) THEN Split(u, First(u, i)) ELSE u : u \in after[k - 1]}
    IN  after[Bits]

IpTaken(t, i, a) == Ip[a] \notin Exempt /\ \E j \in Held(t) \ {i} : Ip[t.node[j].addr] = Ip[a]

With(t, i, n) == [t EXCEPT !.node[i] = n]
Pinged_NotCounted(n) == [n EXCEPT !.idle = FALSE]
Pinged(n) == [n EXCEPT !.pings = @ + 1, !.idle = FALSE]

\* i does not have its place yet, and its bucket is as split as it gets.  Nobody sends
\* the dubious node its ping: nothing in the program passes on_dubious.
Places(t, i, a, confirm) ==
    LET dead == Dead(t, Mates(t, i))
        dubious == Dubious(t, Mates(t, i))
    IN  CASE dead # {} -> {With(With(t, j, NoNode), i, NewEntry(a, confirm)) : j \in dead}
          [] dead = {} /\ Full(t, i) /\ dubious # {} -> {With(t, j, Pinged(t.node[j])) : j \in dubious}
          [] OTHER -> {IF Full(t, i) \/ IpTaken(t, i, a) THEN t ELSE With(t, i, NewEntry(a, confirm))}

\* What the table may be after new_node.
NewNode(t, i, a, confirm) ==
    IF i = own \/ a \in black THEN {t}
    ELSE IF t.node[i] # NoNode THEN {With(t, i, Updated(t.node[i], a, confirm))}
    ELSE UNION {Places(u, i, a, confirm) : u \in SplitFor(t, i)}

-----------------------------------------------------------------------------
(***************************************************************************)
(* Messages.  A socket that claims another id than before is blacklisted   *)
(* (_identity_ok), and nothing else of its message counts.                 *)
(***************************************************************************)
SwapsId(i, a) == known[a] \notin {NoNode, i}

Swap(i, a) ==
    /\ SwapsId(i, a)
    /\ black' = black \union {a}
    /\ UNCHANGED <<own, table, known, uptime>>

Claim(i, a) == ~ SwapsId(i, a) /\ known' = [known EXCEPT ![a] = i]

\* A query: _handle_message.  One that is read-only asks for no place in the table.
Query(i, a) ==
    /\ i # own /\ Claim(i, a)
    /\ table' \in NewNode(table, i, a, 1) \union {table}
    /\ UNCHANGED <<own, black, uptime>>

\* An answer: _ingest_reply and, when it names nobody, bootstrap_ping.
Answer(i, a, named) ==
    /\ Claim(i, a) /\ a \notin black
    /\ \E t \in NewNode(table, i, a, 2) :
          table' \in IF named = {} THEN {t} ELSE UNION {NewNode(t, c[1], c[2], 0) : c \in named}
    /\ UNCHANGED <<own, black, uptime>>

\* _blacklist_and_purge leaves the node where it is, to be the first to be replaced.
Condemned(t, i) == IF t.node[i] = NoNode THEN t ELSE With(t, i, [t.node[i] EXCEPT !.pings = EvictPings])

\* An answer that cannot be parsed, or that claims an id too close to be true: the
\* latter gets its place first.
FaultyAnswer(i, a) ==
    /\ Claim(i, a) /\ a \notin black
    /\ table' \in {Condemned(t, i) : t \in {table} \union NewNode(table, i, a, 2)}
    /\ black' = black \union {a}
    /\ UNCHANGED <<own, uptime>>

\* An answer to a lookup, or to a ping, of a socket that is blacklisted by now.
LateAnswer(i, a) ==
    /\ Claim(i, a) /\ a \in black
    /\ table' \in {table, Condemned(table, i)}
    /\ UNCHANGED <<own, black, uptime>>

\* adopt_node_id: the table starts over; the blacklist and the claims are kept.
Adopt(new) ==
    /\ new # own
    /\ own' = new /\ table' = EmptyTable
    /\ UNCHANGED <<black, known, uptime>>

-----------------------------------------------------------------------------
(***************************************************************************)
(* Time.                                                                   *)
(***************************************************************************)
Turns(i, n) == table' = With(table, i, n) /\ UNCHANGED <<own, black, known, uptime>>

NotHeard(i) == table.node[i].heard /\ uptime # "minutes" /\ Turns(i, [table.node[i] EXCEPT !.heard = FALSE])
NoAnswer(i) == table.node[i].answered /\ uptime = "longer" /\ Turns(i, [table.node[i] EXCEPT !.answered = FALSE])

\* Fifteen seconds without a ping.
Idle ==
    /\ \E i \in Held(table) : ~ table.node[i].idle
    /\ table' = [table EXCEPT !.node = [i \in Ids |-> IF @[i] = NoNode THEN NoNode ELSE [@[i] EXCEPT !.idle = TRUE]]]
    /\ UNCHANGED <<own, black, known, uptime>>

Uptime ==
    /\ uptime # "longer"
    /\ uptime' = IF uptime = "minutes" THEN "hour" ELSE "longer"
    /\ UNCHANGED <<own, table, black, known>>

TableNext ==
    \/ \E c \in Claims : Swap(c[1], c[2]) \/ Query(c[1], c[2]) \/ LateAnswer(c[1], c[2])
    \/ \E c \in Claims \ Faulty : \E named \in {{}} \union {{d} : d \in Named} : Answer(c[1], c[2], named)
    \/ \E c \in Faulty : FaultyAnswer(c[1], c[2])
    \/ \E new \in OwnIds : Adopt(new)
    \/ \E i \in Held(table) : NotHeard(i) \/ NoAnswer(i)
    \/ Idle \/ Uptime

TableSpec == TableInit /\ [][TableNext]_tableVars

\* Time passes, and the nodes of Alive answer the lookups that keep asking them.
TableFairness ==
    /\ WF_tableVars(Idle)
    /\ \A c \in Alive : WF_tableVars(Answer(c[1], c[2], {}))

-----------------------------------------------------------------------------
(***************************************************************************)
(* Properties.                                                             *)
(***************************************************************************)

\* Buckets get smaller only towards our own id: every bucket is either the one
\* that has it or the other half of a bucket that was split around it, whichever
\* ids we had before.
SplitAroundSelf ==
    \A f \in Firsts(table) :
        LET size == End(table, f) - f
        IN  \/ f = First(table, own)
            \/ own \div (2 * size) = f \div (2 * size) /\ f % size = 0

\* A good node that was heard keeps its place as long as we keep our id and it
\* answers nothing faulty, and it is moved to another socket only if that socket
\* claimed its id itself.
GoodNodeStays ==
    [][\A i \in Held(table) :
          own' = own /\ Good(table.node[i]) /\ table.node[i].heard =>
              /\ table'.node[i] # NoNode
              /\ table'.node[i].addr = table.node[i].addr \/ known'[table'.node[i].addr] = i]_tableVars

\* Another node gets a place, or answers after it was pinged.
OtherGains(i) ==
    \E j \in Held(table)' \ {i} :
        table.node[j] = NoNode \/ table'.node[j].pings < table.node[j].pings

\* The quiet nodes of a bucket cannot keep a live one out: a node that answers again
\* and again gets in, unless its bucket is full of good nodes, others gain places or
\* come back to life for ever, its IP is in the table, or its socket is blacklisted.
AnsweringGetsIn ==
    \A c \in Alive :
        \/ []<> \/ table.node[c[1]] # NoNode
                \/ Full(table, c[1]) /\ \A j \in Mates(table, c[1]) : Good(table.node[j])
                \/ IpTaken(table, c[1], c[2])
                \/ c[2] \in black \/ SwapsId(c[1], c[2]) \/ c[1] = own
        \/ []<><<OtherGains(c[1])>>_tableVars
=============================================================================
