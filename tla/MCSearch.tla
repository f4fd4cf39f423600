------------------------------ MODULE MCSearch ------------------------------
(* Small instances of Search for TLC. *)
EXTENDS Search, TLC

Node(i) == [id |-> i, addr |-> i]
Moved(i, a) == [id |-> i, addr |-> a]
Tells(i, S) == [id |-> i, names |-> S, token |-> TRUE, broken |-> FALSE]
TellsOf(i, S) == Tells(i, {Node(j) : j \in S})

\* Nodes 2, 4 and 6 are reliable; 1, 3, 5 and 7 may keep silent; 7 shares a network
\* with 5 and 9, which keeps silent; 6 and 7 are where the lookup starts.
OrdinaryAnswers(i) ==
    CASE i = 1 -> {TellsOf(1, {2, 3}), NoReply}
      [] i = 2 -> {TellsOf(2, {1, 3, 4})}
      [] i = 3 -> {TellsOf(3, {1, 2, 4}), NoReply}
      [] i = 4 -> {TellsOf(4, {2, 3, 5})}
      [] i = 5 -> {TellsOf(5, {3, 4, 6}), NoReply}
      [] i = 6 -> {TellsOf(6, {4, 5, 7}), Tells(6, {Node(4), Moved(5, 8), Node(9)})}
      [] i = 7 -> {TellsOf(7, {4, 6}), NoReply}
      [] i = 9 -> {NoReply}

\* Node 8 is faulty: it names a node closer than anyone can be, or where it is
\* not; claims such an id itself; answers nonsense; or keeps silent.
FaultyAnswers ==
    {NoReply,
     Tells(8, {Moved(0, 8), Moved(1, 8), Moved(5, 7), Moved(9, 10), Node(4)}),
     TellsOf(0, {}),
     [id |-> 8, names |-> {}, token |-> FALSE, broken |-> TRUE],
     [id |-> 8, names |-> {Node(3)}, token |-> FALSE, broken |-> FALSE]}

CrowdAnswers ==
    [i \in 1 .. 10 |-> CASE i = 8 -> FaultyAnswers
                         [] i = 10 -> {NoReply}
                         [] OTHER -> OrdinaryAnswers(i)]
CrowdPrefix == [i \in 1 .. 10 |-> IF i \in {5, 7, 9} THEN 5 ELSE i]
CrowdBootstrap == <<6, 7, 8>>
CrowdSeeds == <<Node(9)>>
CrowdContested == {<<1, 8>>}

\* What LookupFindsNearest asks of the constants holds of this instance.
ASSUME CrowdAssumption == NobodyPosesAsReliable /\ RoomForReliable /\ WayToReliable
=============================================================================
