------------------------------- MODULE Hellos -------------------------------
(***************************************************************************)
(* How nodes that know the address of one another, or of a rendezvous      *)
(* host, get to know all the others (src/roastmesh/wan_discovery.py, the   *)
(* hellos of hello.py): datagrams that may get lost, a debounce per        *)
(* address, a few retries until the other answers, an answer to the first  *)
(* contact at once, gossip of the peers heard of last, and a push of a new *)
(* peer to the known ones.                                                 *)
(*                                                                         *)
(* A node has one address, and is named by it.  A debounce is the set of   *)
(* those it holds back; its time, a minute, passes only while no datagram  *)
(* is under way and no retry is due: both take seconds.  Behind a NAT, a   *)
(* node gets datagrams from where it has just sent one to.                 *)
(***************************************************************************)
EXTENDS Naturals, Sequences, SequencesExt

CONSTANTS
    Nodes,
    Graphs,         \* a graph: <<n, m>> when n finds m's address, in a lookup or its rendezvous list
    Natted,         \* nodes behind a restricted-cone NAT
    Sends,          \* the length of HELLO_RETRIES
    CacheSize,      \* _KNOWN_PEERS_CACHE_SIZE
    MaxKnownPeers,  \* _MAX_KNOWN_PEERS
    NoTask,
    Restarts,       \* nodes that may crash and start again
    MaxFaults       \* bound: hellos lost and nodes crashed

ASSUME HellosAssumption ==
    /\ \A g \in Graphs : g \subseteq Nodes \X Nodes
    /\ Natted \subseteq Nodes /\ Restarts \subseteq Nodes
    /\ {Sends, CacheSize} \subseteq Nat \ {0}
    /\ {MaxKnownPeers, MaxFaults} \subseteq Nat

VARIABLES
    graph,          \* who finds whom
    running,
    net,            \* the hellos under way
    open,           \* open[n]: whose datagrams the NAT of n lets in
    helloed,        \* last_helloed: the addresses said hello to within a minute
    acked,          \* _acked: the addresses ever heard from
    cache,          \* known_peers_cache, the latest last
    addrs,          \* pubkey_to_addr, the latest last
    task,           \* task[n][m]: n's _hello_with_retries to m
    faults,         \* hellos lost on the way and nodes crashed so far
    clean           \* no node crashed and every hello arrived so far

helloVars == <<graph, running, net, open, helloed, acked, cache, addrs, task, faults, clean>>

Hello == [from: Nodes, to: Nodes, known: Seq(Nodes)]
Task == [left: 1 .. Sends, known: Seq(Nodes)]

HellosTypeOK ==
    /\ graph \in Graphs /\ running \subseteq Nodes /\ net \subseteq Hello
    /\ {open, helloed, acked} \subseteq [Nodes -> SUBSET Nodes]
    /\ \A n \in Nodes : /\ {cache[n], addrs[n]} \subseteq Seq(Nodes \ {n})
                        /\ {Len(cache[n]), Len(addrs[n])} \subseteq 0 .. CacheSize
    /\ task \in [Nodes -> [Nodes -> Task \union {NoTask}]]
    /\ faults \in 0 .. MaxFaults /\ clean \in BOOLEAN

Nobody == [n \in Nodes |-> {}]
Idle0 == [n \in Nodes |-> [m \in Nodes |-> NoTask]]

HellosInit ==
    /\ graph \in Graphs /\ running = {} /\ net = {} /\ open = Nobody
    /\ helloed = Nobody /\ acked = Nobody
    /\ cache = [n \in Nodes |-> << >>] /\ addrs = [n \in Nodes |-> << >>]
    /\ task = Idle0 /\ faults = 0 /\ clean = TRUE

-----------------------------------------------------------------------------
\* The others of q, in its order; recursive functions, for a proof can reason about them.
Without(q, who) ==
    LET kept[i \in 0 .. Len(q)] ==
            IF i = 0 THEN << >> ELSE IF q[i] \in who THEN kept[i - 1] ELSE Append(kept[i - 1], q[i])
    IN  kept[Len(q)]

\* _remember_peer: move_to_end, and the one not heard of longest goes.
Remember(q, m) ==
    LET r == Append(Without(q, {m}), m)
    IN  IF Len(r) > CacheSize THEN Tail(r) ELSE r

RememberAll(q, ms) ==
    LET after[i \in 0 .. Len(ms)] == IF i = 0 THEN q ELSE Remember(after[i - 1], ms[i])
    IN  after[Len(ms)]

\* _gossip_snapshot, as much of it as fits in a hello.
Snapshot(q, but) ==
    LET others == Without(Reverse(q), but)
    IN  SubSeq(others, 1, IF Len(others) < MaxKnownPeers THEN Len(others) ELSE MaxKnownPeers)

HelloTo(n, m, known) == [from |-> n, to |-> m, known |-> known]

\* What n has sent: its NAT lets the answers in.
Opens(n, to) == IF n \in Natted THEN [open EXCEPT ![n] = @ \union to] ELSE open

-----------------------------------------------------------------------------
\* _maybe_hello, for an address a lookup or the rendezvous list gave.
Meet(n, m) ==
    /\ n \in running /\ <<n, m>> \in graph /\ m \notin helloed[n]
    /\ helloed' = [helloed EXCEPT ![n] = @ \union {m}]
    /\ task' = [task EXCEPT ![n][m] = [left |-> Sends, known |-> << >>]]
    /\ UNCHANGED <<graph, running, net, open, acked, cache, addrs, faults, clean>>

\* _hello_with_retries: the first send takes the snapshot, and is made even if the
\* other was heard from by now.
GivesUp(n, m) == task[n][m].left < Sends /\ m \in acked[n]

Retry(n, m) ==
    /\ task[n][m] # NoTask
    /\ LET tk == task[n][m]
           known == IF tk.left = Sends THEN Snapshot(cache[n], {n}) ELSE tk.known
       IN  IF GivesUp(n, m)
           THEN task' = [task EXCEPT ![n][m] = NoTask] /\ UNCHANGED <<net, open>>
           ELSE /\ net' = net \union {HelloTo(n, m, known)} /\ open' = Opens(n, {m})
                /\ task' = [task EXCEPT ![n][m] = IF tk.left = 1 THEN NoTask
                                                  ELSE [left |-> tk.left - 1, known |-> known]]
    /\ UNCHANGED <<graph, running, helloed, acked, cache, addrs, faults, clean>>

-----------------------------------------------------------------------------
(***************************************************************************)
(* _on_foreign.                                                            *)
(***************************************************************************)
LetIn(d) == d.to \in running /\ (d.to \in Natted => d.from \in open[d.to])

\* The first contact is answered whatever the debounce says, the others are not.
HeldBack_Never(n, m) == FALSE
HeldBack(n, m) == m \in acked[n] /\ m \in helloed[n]
Answers(n, m, c) == IF HeldBack(n, m) THEN {} ELSE {HelloTo(n, m, Snapshot(c, {n, m}))}

\* _push_new_peer_to_known_contacts.
Pushed_NotToKnown(n, m, a) == {}
Pushed(n, m, a) == IF Contains(cache[n], m) THEN {} ELSE Range(a) \ {m}
Pushes(n, to, c) == {HelloTo(n, o, Snapshot(c, {n, o})) : o \in to}

Receive(d) ==
    /\ d \in net /\ LetIn(d)
    /\ LET n == d.to
           m == d.from
           c == Remember(cache[n], m)
           a == Remember(addrs[n], m)
           news == Without(d.known, {n})
           sent == Answers(n, m, c) \union Pushes(n, Pushed(n, m, a), c)
       IN  /\ net' = (net \ {d}) \union sent
           /\ helloed' = [helloed EXCEPT ![n] = @ \union {e.to : e \in sent}]
           /\ open' = Opens(n, {e.to : e \in sent})
           /\ acked' = [acked EXCEPT ![n] = @ \union {m}]
           /\ cache' = [cache EXCEPT ![n] = RememberAll(c, news)]
           /\ addrs' = [addrs EXCEPT ![n] = a]
    /\ UNCHANGED <<graph, running, task, faults, clean>>

\* The NAT, or a node that does not run, drops it.
Drop(d) ==
    /\ d \in net /\ ~ LetIn(d)
    /\ net' = net \ {d} /\ clean' = FALSE
    /\ UNCHANGED <<graph, running, open, helloed, acked, cache, addrs, task, faults>>

Lose(d) ==
    /\ d \in net /\ faults < MaxFaults
    /\ net' = net \ {d} /\ faults' = faults + 1 /\ clean' = FALSE
    /\ UNCHANGED <<graph, running, open, helloed, acked, cache, addrs, task>>

-----------------------------------------------------------------------------
(***************************************************************************)
(* Time, and nodes that come and go.                                       *)
(***************************************************************************)
Quiet == net = {} /\ task = Idle0

HelloAgain(n, m) ==
    /\ Quiet /\ m \in helloed[n] /\ helloed' = [helloed EXCEPT ![n] = @ \ {m}]
    /\ UNCHANGED <<graph, running, net, open, acked, cache, addrs, task, faults, clean>>

Close(n) ==
    /\ Quiet /\ open[n] # {} /\ open' = [open EXCEPT ![n] = {}]
    /\ UNCHANGED <<graph, running, net, helloed, acked, cache, addrs, task, faults, clean>>

Start(n) ==
    /\ n \notin running /\ running' = running \union {n}
    /\ UNCHANGED <<graph, net, open, helloed, acked, cache, addrs, task, faults, clean>>

\* Nothing of this is on disk.
Crash(n) ==
    /\ n \in running /\ n \in Restarts /\ faults < MaxFaults
    /\ faults' = faults + 1 /\ clean' = FALSE /\ running' = running \ {n}
    /\ open' = [open EXCEPT ![n] = {}] /\ helloed' = [helloed EXCEPT ![n] = {}]
    /\ acked' = [acked EXCEPT ![n] = {}]
    /\ cache' = [cache EXCEPT ![n] = << >>] /\ addrs' = [addrs EXCEPT ![n] = << >>]
    /\ task' = [task EXCEPT ![n] = Idle0[n]]
    /\ UNCHANGED <<graph, net>>

HellosNext ==
    \/ \E n, m \in Nodes : Meet(n, m) \/ Retry(n, m) \/ HelloAgain(n, m)
    \/ \E d \in net : Receive(d) \/ Drop(d) \/ Lose(d)
    \/ \E n \in Nodes : Close(n) \/ Start(n) \/ Crash(n)

HelloSpec == HellosInit /\ [][HellosNext]_helloVars

\* Datagrams and retries take seconds; a debounce ends after a minute, and nodes
\* go on looking for others every two.
HellosFairness ==
    /\ WF_helloVars((\E n, m \in Nodes : Retry(n, m)) \/ \E d \in net : Receive(d) \/ Drop(d))
    /\ WF_helloVars(\E n \in Nodes : Start(n))
    /\ \A c \in UNION Graphs : WF_helloVars(Meet(c[1], c[2]))
    /\ \A c \in UNION Graphs : SF_helloVars(HelloAgain(c[1], c[2])) /\ SF_helloVars(HelloAgain(c[2], c[1]))

-----------------------------------------------------------------------------
(***************************************************************************)
(* Properties.                                                             *)
(***************************************************************************)

\* When nothing was lost and nobody restarted, two nodes that said hello to a third
\* know of each other as soon as the network is quiet, not a lookup round later.
Introduced ==
    Quiet /\ clean =>
        \A h \in Nodes : \A n, m \in acked[h] : n # m => Contains(cache[n], m)

\* A hello that is from m or names it is about to reach n: on_peer_discovered, unless
\* that was called for m within the last minute.
AboutToHear(n, m) == \E d \in net : d.to = n /\ LetIn(d) /\ m \in {d.from} \union Range(d.known)

Strangers == {p \in Nodes \X Nodes : p[1] # p[2] /\ \A g \in Graphs : p \notin g /\ <<p[2], p[1]>> \notin g}

\* Of any two nodes that no graph links directly, each hears of the other again and again,
\* once hellos stop getting lost and nodes stop crashing, and no exchange of hellos goes on
\* for ever.
HeardAgainAndAgain ==
    /\ []<>Quiet
    /\ \A p \in Strangers : []<>AboutToHear(p[1], p[2])
=============================================================================
