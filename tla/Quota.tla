------------------------------- MODULE Quota --------------------------------
(***************************************************************************)
(* check_feed_metadata of src/roastmesh/quota.py: how many of the entries  *)
(* a peer offers, in order, are admitted on top of those already held.     *)
(* Entries are records with a seq, a size and the day they are stamped     *)
(* with; the code's running totals are the totals of the entries taken.    *)
(***************************************************************************)
EXTENDS Naturals, FiniteSets, FiniteSetsExt

CONSTANTS MaxFilesPerFeed, MaxBytesPerFeed, MaxBytesPerFile, MaxFilesPerDay

ASSUME QuotaAssumption ==
    {MaxFilesPerFeed, MaxBytesPerFeed, MaxBytesPerFile, MaxFilesPerDay} \subseteq Nat

\* The first k of a set of entries, in seq order.
FirstOf(S, k) == {e \in S : Cardinality({f \in S : f.seq < e.seq}) < k}

TotalSize(S) == MapThenSumSet(LAMBDA e : e.size, S)

\* Entry e may be taken on top of what is held and what was taken before it.
Fits(held, taken, e) ==
    LET sameDay(S) == Cardinality({f \in S : f.day = e.day})
    IN  /\ e.size <= MaxBytesPerFile
        /\ Cardinality(held) + Cardinality(taken) + 1 <= MaxFilesPerFeed
        /\ TotalSize(held) + TotalSize(taken) + e.size <= MaxBytesPerFeed
        /\ sameDay(held) + sameDay(taken) + 1 <= MaxFilesPerDay

\* allowed_count: the loop stops at the first candidate that does not fit.
AllowedCount(existing, candidates) ==
    LET fits(e) == Fits(existing, {f \in candidates : f.seq < e.seq}, e)
    IN  Max({k \in 0 .. Cardinality(candidates) :
                \A e \in FirstOf(candidates, k) : fits(e)})
=============================================================================
