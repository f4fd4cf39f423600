---------------------------- MODULE MCRetention ----------------------------
(* A small instance of Retention for TLC: three nodes in a chain whose ends *)
(* cannot dial each other; the budget of one end is tight, and what it first *)
(* took from afar is what it gives up first, to be opened as a stub.        *)
EXTENDS Retention, TLC

CONSTANTS a, b, m

Chain == (a :> {m}) @@ (m :> {a, b}) @@ (b :> {m})
OneEach == [f \in Feeds |-> 1]
Tight == (a :> 20) @@ (m :> 20) @@ (b :> 3)
RoomForAll == (a :> 3) @@ (m :> 3) @@ (b :> 2)
FanOfA == [n \in Nodes |-> IF n = b THEN {a} ELSE {}]
\* b publishes when they have met, and again: its feed grows after a holds it.
OneButB == (a :> 1) @@ (m :> 1) @@ (b :> 0)
OncePlus == (a :> 1) @@ (m :> 1) @@ (b :> 2)
\* m is the nearest.
Distances == [n \in Nodes |-> (m :> 1) @@ (a :> 2) @@ (b :> 3)]
=============================================================================
