----------------------------- MODULE MCFeedSync -----------------------------
(* Small instances of FeedSync for TLC. *)
EXTENDS FeedSync, TLC

CONSTANTS c1, c2, n1, n2, t1, t2, w1, e1

OneSize == [c \in Content |-> 1]
OneHome == [t \in Tasks |-> n1]
TwoHomes == [t \in Tasks |-> IF t = t2 THEN n2 ELSE n1]

\* The two nodes may be exchanged, each with its task, and so may the contents.
NodeSymmetry ==
    {f \in Permutations({n1, n2, t1, t2}) :
        \A t \in {t1, t2} : f[t] \in {t1, t2} /\ f[TwoHomes[t]] = TwoHomes[f[t]]}
NodeAndContentSymmetry == NodeSymmetry \union Permutations(Content)
=============================================================================
