--------------------------- MODULE NearDuplicates ---------------------------
(***************************************************************************)
(* What a search leaves of the roasts that one author published several    *)
(* times in one sitting (_collapse_near_duplicates of                      *)
(* src/roastmesh/index/repository.py): the code's pass over the sorted     *)
(* rows, and what it is to compute.                                        *)
(*                                                                         *)
(* A row has a group (author, title and day; NoGroup when one is unknown   *)
(* or the row is superseded), an epoch and a position, 0 for none.         *)
(***************************************************************************)
EXTENDS Naturals, Sequences, SequencesExt, FiniteSets

CONSTANTS
    Window,     \* _NEAR_DUPLICATE_WINDOW_S, a number
    NoGroup

\* _canonical_key, compared.
Newer_EpochOnly(x, y) == x.epoch > y.epoch
Newer(x, y) == x.epoch > y.epoch \/ (x.epoch = y.epoch /\ x.seq > y.seq)

\* max(cluster): the first among the greatest.
Newest(cluster) ==
    cluster[CHOOSE i \in 1 .. Len(cluster) :
        /\ \A j \in 1 .. Len(cluster) : ~ Newer(cluster[j], cluster[i])
        /\ \A j \in 1 .. i - 1 : Newer(cluster[i], cluster[j])]

\* The pass over one group, sorted by epoch: a row further than the window
\* from the row before it closes the cluster.
KeptOf(group) ==
    LET sorted == SetToSortSeq(group, LAMBDA x, y : x.epoch < y.epoch)
        Step(acc, r) ==
            IF r.epoch - Last(acc.cluster).epoch <= Window
            THEN [acc EXCEPT !.cluster = Append(@, r)]
            ELSE [kept |-> acc.kept \union {Newest(acc.cluster)}, cluster |-> <<r>>]
        end == FoldLeft(Step, [kept |-> {}, cluster |-> <<Head(sorted)>>], Tail(sorted))
    IN  end.kept \union {Newest(end.cluster)}

Collapsed(rows) ==
    {r \in rows : r.group = NoGroup}
        \union UNION {KeptOf({r \in rows : r.group = g}) : g \in {r.group : r \in rows} \ {NoGroup}}

-----------------------------------------------------------------------------
(***************************************************************************)
(* The reference: rows of a group are of one sitting when steps of at most *)
(* the window lead from one to the other; each sitting keeps its newest.   *)
(***************************************************************************)
Adjacent(rows, x, y) ==
    /\ x.epoch <= y.epoch
    /\ \A e \in {r.epoch : r \in rows} \ {y.epoch} :
          x.epoch <= e /\ e < y.epoch =>
             \E r \in rows : e < r.epoch /\ r.epoch <= e + Window
SameSitting(rows, x, y) == Adjacent(rows, x, y) \/ Adjacent(rows, y, x)

\* One row of every sitting is kept, a newest one, and no row of no group is lost.
CollapsedToNewest(rows) ==
    LET InGroup(g) == {r \in rows : r.group = g}
        Sitting(x) == {y \in InGroup(x.group) : SameSitting(InGroup(x.group), x, y)}
    IN  \A x \in rows :
            IF x.group = NoGroup THEN x \in Collapsed(rows)
            ELSE /\ Cardinality(Collapsed(rows) \intersect Sitting(x)) = 1
                 /\ \A y \in Collapsed(rows) \intersect Sitting(x) : ~ Newer(x, y)
=============================================================================
