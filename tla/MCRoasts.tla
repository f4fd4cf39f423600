------------------------------ MODULE MCRoasts ------------------------------
(***************************************************************************)
(* Two parts of what becomes of a roast, each on its own: its rows in the  *)
(* index of one node, and its edits on a paired device.  Which of them     *)
(* moves is chosen at the start.  And the collapse of near duplicates,     *)
(* against its reference on every small set of rows.                       *)
(***************************************************************************)
EXTENDS Index, CrossEdits, TLC

CONSTANTS me, p1, f1, owner, device, roast, watch, cli

VARIABLE part

RoastsInit == part \in {"rows", "edits"} /\ IndexInit /\ DeliveryInit

RoastsNext ==
    /\ UNCHANGED part
    /\ \/ part = "rows" /\ IndexNext /\ UNCHANGED deliveryVars
       \/ part = "edits" /\ DeliveryNext /\ UNCHANGED indexVars

\* In the other part no edit is ever delivered.
RoastsSpec == RoastsInit /\ [][RoastsNext]_<<part, indexVars, deliveryVars>> /\ DeliveryFairness

\* EventuallyApplied of the edits.
EditsEventuallyApplied == part = "edits" => EventuallyApplied

-----------------------------------------------------------------------------
ND == INSTANCE NearDuplicates WITH Window <- 2, NoGroup <- None

\* Up to four rows of one group, epochs in steps that the window does and does
\* not bridge, with and without a position; and a row of no group.
SomeRows == {[group |-> 1, epoch |-> e, seq |-> s] : e \in {0, 2, 3, 6}, s \in 0 .. 2}
                \union {[group |-> None, epoch |-> 2, seq |-> 0]}

ASSUME CollapseIsRight ==
    \A n \in 1 .. 4 : \A rows \in kSubset(n, SomeRows) : ND!CollapsedToNewest(rows)

-----------------------------------------------------------------------------
\* One device edits the owner's roast twice, and two processes of it push.
ByTheDevice == [x \in Edits |-> device]
OfTheRoast == [x \in Edits |-> roast]
TheRoast == <<roast>>
OnTheDevice == [p \in Pushers |-> device]
=============================================================================
