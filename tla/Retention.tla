----------------------------- MODULE Retention -----------------------------
(***************************************************************************)
(* Who keeps whose feeds (src/roastmesh/replication.py, the replication    *)
(* loop and the bookkeeping after a sync in net.py, and the ledger tables  *)
(* of index/repository.py).                                                *)
(*                                                                         *)
(* Every node publishes a feed of its own and mirrors those of others.     *)
(* Its ledger says how far a feed is known to go and which peers were seen *)
(* to hold it; its index has a row per entry, with a flag that says if the *)
(* bytes are on disk.  A sync is a step (FeedSync has the steps of one),   *)
(* and so is a pass of the replication loop.  A feed's length stands for   *)
(* latest_seq and entry_count, and its size is Size[f] bytes per entry.    *)
(***************************************************************************)
EXTENDS Naturals, Sequences, SequencesExt, FiniteSets, FiniteSetsExt

CONSTANTS
    Nodes,          \* a node's feed has its name
    Reach,          \* Reach[n]: the peers n can dial
    Budget,         \* Budget[n]: bytes of feeds n is to keep
    Size,           \* Size[f]: bytes of an entry
    Dist,           \* Dist[n][f]: the distance of f's key from n's
    Unknown,        \* the ledger has no row
    MaxAcquire,     \* MAX_ACQUIRE_PER_ROUND
    MaxHolders,     \* MAX_HOLDERS_PER_FEED
    MaxKnown,       \* MaxKnown[n]: MAX_KNOWN_FEEDS
    MaxLen,         \* bound: entries of a feed
    AtStart,        \* AtStart[f]: entries published before the nodes first met
    MayPublish,     \* bound: MayPublish[n]: how far n publishes
    MayChoose       \* bound: MayChoose[n]: whom n's user may make a favourite

Feeds == Nodes

ASSUME RetentionAssumption ==
    /\ IsFiniteSet(Nodes)
    /\ Reach \in [Nodes -> SUBSET Nodes]
    /\ Budget \in [Nodes -> Nat] /\ Size \in [Feeds -> Nat \ {0}]
    /\ Dist \in [Nodes -> [Feeds -> Nat]]
    /\ \A n \in Nodes : IsInjective(Dist[n])     \* _feed_distance: an XOR with n's key
    /\ MaxKnown \in [Nodes -> Nat] /\ MayChoose \in [Nodes -> SUBSET Feeds]
    /\ {MaxAcquire, MaxHolders, MaxLen} \subseteq Nat
    /\ {AtStart, MayPublish} \subseteq [Nodes -> 0 .. MaxLen]

VARIABLES
    len,        \* len[f]: entries the author has published
    held,       \* held[n][f]: how many of them n has on disk
    known,      \* known[n][f]: the ledger: how far the feed goes
    holders,    \* holders[n][f]: who reported to hold it, the latest first
    want,       \* want[n]: the acquire list of the last pass
    indexed,    \* indexed[n][f]: how many entries have index rows
    onDisk,     \* onDisk[n][f]: the rows flagged blob_local
    favorite    \* favorite[n]: authors the user chose: favourites, manual peers

vars == <<len, held, known, holders, want, indexed, onDisk, favorite>>

Lengths == 0 .. MaxLen

TypeOK ==
    /\ len \in [Feeds -> Lengths]
    /\ {held, indexed} \subseteq [Nodes -> [Feeds -> Lengths]]
    /\ known \in [Nodes -> [Feeds -> Lengths \union {Unknown}]]
    /\ DOMAIN holders = Nodes
    /\ \A n \in Nodes : DOMAIN holders[n] = Feeds /\ \A f \in Feeds :
          /\ Range(holders[n][f]) \subseteq Nodes
          /\ IsInjective(holders[n][f]) /\ Len(holders[n][f]) <= MaxHolders
    /\ want \in [Nodes -> SUBSET Feeds]
    /\ onDisk \in [Nodes -> [Feeds -> SUBSET (1 .. MaxLen)]]
    /\ favorite \in [Nodes -> SUBSET Feeds]

Init ==
    /\ len = AtStart
    /\ held = [n \in Nodes |-> [f \in Feeds |-> IF f = n THEN AtStart[f] ELSE 0]]
    /\ known = [n \in Nodes |-> [f \in Feeds |-> Unknown]] /\ indexed = held
    /\ holders = [n \in Nodes |-> [f \in Feeds |-> <<>>]]
    /\ want = [n \in Nodes |-> {}]
    /\ onDisk = [n \in Nodes |-> [f \in Feeds |-> 1 .. held[n][f]]]
    /\ favorite = want

-----------------------------------------------------------------------------
(***************************************************************************)
(* plan_retention.  Lists are sorted by _keep_rank, best to keep first.    *)
(***************************************************************************)
\* feed_holder_counts: a node never records itself.
Copies(n, f) == Len(holders[n][f])

Rarer(n, f, g) == Copies(n, f) < Copies(n, g)
                  \/ (Copies(n, f) = Copies(n, g) /\ Dist[n][f] < Dist[n][g])

Ranked_MostCopies(n, feeds) ==
    CHOOSE s \in [1 .. Cardinality(feeds) -> feeds] :
        \A i, j \in DOMAIN s : i < j => Rarer(n, s[j], s[i])

Ranked(n, feeds) ==
    CHOOSE s \in [1 .. Cardinality(feeds) -> feeds] :
        \A i, j \in DOMAIN s : i < j => Rarer(n, s[i], s[j])

Bytes(n, f) == held[n][f] * Size[f]
HeldBy(n) == {f \in Feeds : held[n][f] > 0}     \* held_feeds_digest
Pinned(n) == {n} \union favorite[n]             \* _pinned_pubkeys

\* What the pinned feeds take, byte by byte.
Reserved(n) == Cardinality(UNION {{f} \X (1 .. Bytes(n, f)) : f \in HeldBy(n) \intersect Pinned(n)})

Remaining(n) == IF Reserved(n) > Budget[n] THEN 0 ELSE Budget[n] - Reserved(n)

\* The ledger as a pass loads it: what is on disk and what is pinned is in it.
Ledger(n) ==
    [f \in Feeds |-> IF held[n][f] > 0 THEN held[n][f]
                     ELSE IF known[n][f] = Unknown /\ f \in Pinned(n) THEN 0
                     ELSE known[n][f]]
InLedger(n) == {f \in Feeds : held[n][f] > 0 \/ known[n][f] # Unknown \/ f \in Pinned(n)}

\* Feeds that are absent, or behind what the ledger says.  No feed that is held
\* ever is: the pass has just written what is on disk over what peers reported.
Candidates(n) == {f \in InLedger(n) : held[n][f] = 0 \/ Ledger(n)[f] > held[n][f]}

\* Bytes that a feed is said to grow by.
Growth(n, f) == IF Ledger(n)[f] > held[n][f] THEN (Ledger(n)[f] - held[n][f]) * Size[f] ELSE 0

\* An evictable feed is kept if it fits in what the better ranked have left ...
Keep(n, plan, f) ==
    IF Bytes(n, f) <= plan.free
    THEN [plan EXCEPT !.free = @ - Bytes(n, f), !.keep = @ \union {f}]
    ELSE plan

Acquire_CountsKept(n, plan, f) ==
    IF Cardinality(plan.acquire \union plan.keep) >= MaxAcquire THEN plan
    ELSE IF f \in plan.keep \union Pinned(n) \/ Growth(n, f) <= plan.free
         THEN [plan EXCEPT !.acquire = @ \union {f}] ELSE plan

\* ... and then missing ones are asked for: pinned and kept ones in any case.
Acquire(n, plan, f) ==
    IF Cardinality(plan.acquire) >= MaxAcquire THEN plan
    ELSE IF f \in plan.keep \union Pinned(n) THEN [plan EXCEPT !.acquire = @ \union {f}]
    ELSE IF Growth(n, f) <= plan.free
         THEN [plan EXCEPT !.acquire = @ \union {f}, !.free = @ - Growth(n, f)]
         ELSE plan

KeptFeeds(n) ==
    LET empty == [free |-> Remaining(n), keep |-> HeldBy(n) \intersect Pinned(n), acquire |-> {}]
        feeds == Ranked(n, HeldBy(n) \ Pinned(n))
        plan[i \in 0 .. Len(feeds)] == IF i = 0 THEN empty ELSE Keep(n, plan[i - 1], feeds[i])
    IN  plan[Len(feeds)]

Plan(n) ==
    LET feeds == Ranked(n, Candidates(n))
        plan[i \in 0 .. Len(feeds)] == IF i = 0 THEN KeptFeeds(n) ELSE Acquire(n, plan[i - 1], feeds[i])
    IN  plan[Len(feeds)]

\* cap_known_feeds: over the limit, the feeds that most peers hold are forgotten.
Forgotten(n, plan) ==
    LET droppable == InLedger(n) \ (plan.keep \union Pinned(n))
        worst == SetToSortSeq(droppable, LAMBDA f, g : Copies(n, f) > Copies(n, g))
        over == Cardinality(InLedger(n)) - MaxKnown[n]
    IN  IF Cardinality(InLedger(n)) <= MaxKnown[n] THEN {}
        ELSE {worst[i] : i \in 1 .. Min({over, Len(worst)})}

\* One pass of _replication_loop.
Pass(n) ==
    /\ \E plan \in {Plan(n)} : \E forgotten \in {Forgotten(n, plan)} :
          /\ held' = [held EXCEPT ![n] = [f \in Feeds |-> IF f \in plan.keep THEN @[f] ELSE 0]]
          /\ onDisk' = [onDisk EXCEPT ![n] = [f \in Feeds |->
                           IF f \in HeldBy(n) \ plan.keep THEN {} ELSE @[f]]]
          /\ known' = [known EXCEPT ![n] = [f \in Feeds |->
                           IF f \in forgotten THEN Unknown ELSE Ledger(n)[f]]]
          /\ holders' = [holders EXCEPT ![n] = [f \in Feeds |->
                           IF f \in forgotten THEN <<>> ELSE @[f]]]
          /\ want' = [want EXCEPT ![n] = plan.acquire]
    /\ UNCHANGED <<len, indexed, favorite>>

-----------------------------------------------------------------------------
(***************************************************************************)
(* Syncs.                                                                  *)
(***************************************************************************)
\* Third-party feeds that n gets from m, of those it asks for.
Pulled(n, m, targets) ==
    {f \in (targets \intersect HeldBy(m)) \ {n, m} : held[m][f] > held[n][f]}

\* What n has on disk after a sync with m: m's own feed, and what it pulled.
HeldAfter(n, m, targets) ==
    [f \in Feeds |-> IF f = m \/ f \in Pulled(n, m, targets) THEN held[m][f] ELSE held[n][f]]

Reported_Twice(seq, m) == SubSeq(<<m>> \o seq, 1, Min({Len(seq) + 1, MaxHolders}))

\* record_feed_holder and cap_feed_holders: the latest report first.
Reported(seq, m) == LET s == <<m>> \o RemoveFirst(seq, m)
                    IN  SubSeq(s, 1, Min({Len(s), MaxHolders}))

\* record_sync_replication: the digest goes to the ledger, a pulled feed is
\* indexed and all its rows are marked as on disk.
Recorded(n, m, pulled, rows) ==
    /\ known' = [known EXCEPT ![n] = [f \in Feeds |-> IF f \in HeldBy(m) THEN held[m][f] ELSE @[f]]]
    /\ holders' = [holders EXCEPT ![n] = [f \in Feeds |->
                      IF f \in HeldBy(m) THEN Reported(@[f], m) ELSE @[f]]]
    /\ indexed' = [indexed EXCEPT ![n] = [f \in Feeds |-> Max({@[f], rows[f]})]]
    /\ onDisk' = [onDisk EXCEPT ![n] = [f \in Feeds |->
                     IF f \in pulled THEN 1 .. indexed'[n][f]
                     ELSE @[f] \union (indexed[n][f] + 1 .. indexed'[n][f])]]

CanDial(n, m) == m \in Reach[n] /\ m # n

\* A sync of discovery: m's own feed is indexed as well.
Sync(n, m) ==
    LET pulled == Pulled(n, m, want[n])
    IN  /\ CanDial(n, m)
        /\ held' = [held EXCEPT ![n] = HeldAfter(n, m, want[n])]
        /\ Recorded(n, m, pulled, [f \in Feeds |-> IF f = m \/ f \in pulled THEN held[m][f] ELSE 0])
        /\ UNCHANGED <<len, want, favorite>>

\* Opening a stub asks a holder for the feed.  From the author the feed comes
\* as the author's own, not as a pulled one, and nothing is recorded.
OpenStub(n, f, m) ==
    LET pulled == Pulled(n, m, {f})
    IN  /\ CanDial(n, m)
        /\ (1 .. indexed[n][f]) \ onDisk[n][f] # {}
        /\ m \in Range(holders[n][f])
        /\ held' = [held EXCEPT ![n] = HeldAfter(n, m, {f})]
        /\ IF pulled # {}
           THEN Recorded(n, m, pulled, [g \in Feeds |-> IF g \in pulled THEN held[m][g] ELSE 0])
           ELSE UNCHANGED <<known, holders, indexed, onDisk>>
        /\ UNCHANGED <<len, want, favorite>>

-----------------------------------------------------------------------------
(***************************************************************************)
(* Users.                                                                  *)
(***************************************************************************)
Publish(n) ==
    /\ len[n] < MayPublish[n]  \* bound
    /\ len' = [len EXCEPT ![n] = @ + 1]
    /\ held' = [held EXCEPT ![n][n] = @ + 1]
    /\ indexed' = [indexed EXCEPT ![n][n] = @ + 1]
    /\ onDisk' = [onDisk EXCEPT ![n][n] = @ \union {indexed'[n][n]}]
    /\ UNCHANGED <<known, holders, want, favorite>>

\* A favourite, or a peer added by hand: pinned from the next pass on.
Choose(n, f) ==
    /\ f \in MayChoose[n] \ (favorite[n] \union {n})  \* bound
    /\ favorite' = [favorite EXCEPT ![n] = @ \union {f}]
    /\ UNCHANGED <<len, held, known, holders, want, indexed, onDisk>>

Next ==
    \/ \E n \in Nodes : Publish(n) \/ Pass(n)
    \/ \E n, m \in Nodes : Sync(n, m) \/ Choose(n, m)
    \/ \E n, f, m \in Nodes : OpenStub(n, f, m)

Spec == Init /\ [][Next]_vars

\* Nodes whose budget has room for everything.
Ample == {n \in Nodes : Budget[n] >= MapThenSumSet(LAMBDA f : Size[f] * MaxLen, Feeds)}

\* The loop of such a node goes on, and discovery keeps finding who it reaches.
Fairness ==
    \A n \in Ample : WF_vars(Pass(n)) /\ \A m \in Reach[n] : WF_vars(Sync(n, m))

FairSpec == Spec /\ Fairness

-----------------------------------------------------------------------------
(***************************************************************************)
(* Properties.                                                             *)
(***************************************************************************)
\* A pass gives up the most copied feeds: what it evicts is ranked below
\* everything of at least its size that it keeps and was free to evict.
RarestIsKept ==
    [][\A n \in Nodes : \A e, k \in Feeds \ Pinned(n) :
          held[n][e] > 0 /\ held'[n][e] = 0 /\ held'[n][k] > 0 /\ Bytes(n, k) >= Bytes(n, e)
              => Rarer(n, k, e)]_vars

\* A node whose budget has room for everything ends up with all of the feeds of
\* authors it can dial, and with a beginning of every other one, indexed as far
\* as it is held.  Not with all of it: what is held is not asked for again.
Settled(n) ==
    \A f \in Feeds :
        /\ f \in Reach[n] \union {n} => held[n][f] = len[f]
        /\ len[f] > 0 => held[n][f] > 0
        /\ indexed[n][f] = held[n][f]
EventuallyHeld == \A n \in Nodes : n \in Ample => <>[]Settled(n)
=============================================================================
