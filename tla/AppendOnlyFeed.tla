--------------------------- MODULE AppendOnlyFeed ---------------------------
(***************************************************************************)
(* What a roastmesh feed promises (src/ARCHITECTURE.md, Core model): the   *)
(* author's feed is a log that only ever grows at its end, and what a peer *)
(* holds verified of it is a prefix of that log.  A peer catches up with   *)
(* some longer prefix, or gives up what it holds (an eviction).            *)
(***************************************************************************)
EXTENDS Naturals, Sequences

CONSTANT Holders

VARIABLES log,      \* the author's entries, in order
          held      \* held[h]: what peer h holds of them, verified

vars == <<log, held>>

Init ==
    /\ log = <<>>
    /\ held = [h \in Holders |-> <<>>]

Publish ==
    /\ Len(log') = Len(log) + 1
    /\ SubSeq(log', 1, Len(log)) = log
    /\ UNCHANGED held

\* Holder h, and no other, has n entries of the log from now on.
HoldPrefix(h, n) ==
    /\ held' = [g \in Holders |-> IF g = h THEN SubSeq(log, 1, n) ELSE held[g]]
    /\ UNCHANGED log

CatchUp(h) == \E n \in Len(held[h]) + 1 .. Len(log) : HoldPrefix(h, n)

GiveUp(h) == \E n \in 0 .. Len(held[h]) - 1 : HoldPrefix(h, n)

Next == Publish \/ \E h \in Holders : CatchUp(h) \/ GiveUp(h)

Spec == Init /\ [][Next]_vars
=============================================================================
