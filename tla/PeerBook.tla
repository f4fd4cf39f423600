------------------------------ MODULE PeerBook ------------------------------
(***************************************************************************)
(* The peers a node knows of, peers.json (src/roastmesh/peers.py): added   *)
(* by hand, written down by each sync, which also merges the whole list of *)
(* the other side, and forgotten a month after they were last seen.  A     *)
(* list is a set of entries, an entry is of one peer; its age stands for   *)
(* last_seen, in steps of which MaxAge are the month.                      *)
(*                                                                         *)
(* A load, change and save is one step: in one process nothing is awaited  *)
(* in between.                                                             *)
(***************************************************************************)
EXTENDS Naturals, FiniteSets

CONSTANTS
    Owners,         \* nodes whose list is followed
    Others,         \* nodes that are only heard of
    Dials,          \* <<n, m>>: n adds m by hand, or syncs with it
    Limit,          \* MAX_PEERS
    MaxAge          \* PEER_MAX_AGE_DAYS

Peers == Owners \union Others

ASSUME PeerBookAssumption ==
    /\ IsFiniteSet(Peers) /\ Dials \subseteq Owners \X Peers
    /\ Limit \in Nat \ {0} /\ MaxAge \in Nat \ {0}

VARIABLES
    book,           \* book[n]: the entries of n's peers.json
    dealt           \* dealt[n]: whom n added or synced with, and has not pruned since

bookVars == <<book, dealt>>

\* direct: added_via is anything but "gossip".
Entry == [peer: Peers, age: 0 .. MaxAge, direct: BOOLEAN]

BookTypeOK ==
    /\ book \in [Owners -> SUBSET Entry] /\ dealt \in [Owners -> SUBSET Peers]
    /\ \A n \in Owners : \A e, f \in book[n] : e.peer = f.peer => e = f

\* Some have heard of others, each at another time.
BookInit ==
    /\ book \in [Owners -> {{}} \union
                    {{[peer |-> p, age |-> a, direct |-> FALSE]} : p \in Others, a \in 0 .. MaxAge}]
    /\ dealt = [n \in Owners |-> {}]

-----------------------------------------------------------------------------
\* upsert_peer: the later to come is believed whatever its age, and gossip takes
\* nobody's tag.
Tag_OfTheNew(old, new) == new.direct
Tag(old, new) == new.direct \/ \E e \in old : e.direct
Upsert(entries, new) ==
    LET old == {e \in entries : e.peer = new.peer}
    IN  (entries \ old) \union {[new EXCEPT !.direct = Tag(old, new)]}

\* The same for each entry of another list, of no peer twice.
Merge_Appends(entries, news) == entries \union {[g EXCEPT !.direct = FALSE] : g \in news}
Merge(entries, news) ==
    UNION {{e \in entries : \A g \in news : g.peer # e.peer},
           {[g EXCEPT !.direct = Tag({e \in entries : e.peer = g.peer}, g)] : g \in news}}

\* cap_peers: those dealt with first, then those seen last; a tie is broken by the
\* order of the list.
Before(e, f) == (e.direct /\ ~ f.direct) \/ (e.direct = f.direct /\ e.age < f.age)
Capped(entries) ==
    IF Cardinality(entries) <= Limit THEN {entries}
    ELSE {kept \in SUBSET entries :
            Cardinality(kept) = Limit /\ \A e \in kept, f \in entries \ kept : ~ Before(f, e)}

Now(p, direct) == [peer |-> p, age |-> 0, direct |-> direct]

-----------------------------------------------------------------------------
\* `peer add`.
Add(n, p) ==
    /\ <<n, p>> \in Dials
    /\ book' = [book EXCEPT ![n] = Upsert(@, Now(p, TRUE))]
    /\ dealt' = [dealt EXCEPT ![n] = @ \union {p}]

\* One that fetches a stub keeps the tag the peer has.
Tags(n, p) == {TRUE} \union {e.direct : e \in {f \in book[n] : f.peer = p}}

\* The end of sync_with_peer.
Sync(n, p, direct) ==
    /\ <<n, p>> \in Dials /\ direct \in Tags(n, p)
    /\ LET told == IF p \in Owners THEN {[e EXCEPT !.direct = FALSE] : e \in book[p]} ELSE {}
       IN  \E kept \in Capped(Upsert(Merge(book[n], told), Now(p, direct))) :
             book' = [book EXCEPT ![n] = kept]
    /\ dealt' = IF direct THEN [dealt EXCEPT ![n] = @ \union {p}] ELSE dealt

\* prune_stale, by _prune_peers_loop or `peer prune`.
Stale(n) == {e \in book[n] : e.age = MaxAge}

Prune(n) ==
    /\ Stale(n) # {}
    /\ book' = [book EXCEPT ![n] = @ \ Stale(n)]
    /\ dealt' = [dealt EXCEPT ![n] = @ \ {e.peer : e \in Stale(n)}]

Older(e) == [e EXCEPT !.age = IF @ < MaxAge THEN @ + 1 ELSE @]
Day ==
    /\ book' = [n \in Owners |-> {Older(e) : e \in book[n]}]
    /\ book' # book /\ UNCHANGED dealt

BookNext ==
    \/ \E n \in Owners, p \in Peers :
          Add(n, p) \/ \E direct \in BOOLEAN : Sync(n, p, direct)
    \/ \E n \in Owners : Prune(n)
    \/ Day

BookSpec == BookInit /\ [][BookNext]_bookVars

-----------------------------------------------------------------------------
\* Whoever was added by hand or synced with stays until a prune, whatever others tell
\* of however many strangers: as long as these are not more than the list holds.
FloodDisplacesNobody ==
    \A n \in Owners :
        Cardinality({m \in Peers : <<n, m>> \in Dials}) <= Limit =>
            \A p \in dealt[n] : \E e \in book[n] : e.peer = p /\ e.direct
=============================================================================
