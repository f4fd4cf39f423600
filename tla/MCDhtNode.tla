------------------------------ MODULE MCDhtNode ------------------------------
(***************************************************************************)
(* Four parts of a DHT node that share no state, each on its own: the      *)
(* routing table, the answers to others, the rounds that keep us findable, *)
(* and the limits on requests.  Which of them moves is chosen at the start.*)
(***************************************************************************)
EXTENDS RoutingTable, DhtAnswers, WanRound, Limits, TLC

VARIABLE part

\* Nobody is listened to.
TableOff == own = 0 /\ table = EmptyTable /\ black = Addrs /\ known = [a \in Addrs |-> NoNode] /\ uptime = "longer"

Init ==
    /\ part \in {"table", "answers", "rounds", "limits"}
    /\ IF part = "table" THEN TableInit ELSE TableOff
    /\ AnswersInit /\ (part # "answers" => untilRotation = MinRotate)
    /\ WanInit /\ address = "home"
    /\ IF part = "rounds" THEN at = "top" ELSE at = "off"
    /\ forward = 1
    /\ LimitsInit

Next ==
    /\ UNCHANGED part
    /\ \/ part = "table" /\ TableNext /\ UNCHANGED <<answerVars, wanVars, limitVars>>
       \/ part = "answers" /\ AnswersNext /\ UNCHANGED <<tableVars, wanVars, limitVars>>
       \/ part = "rounds" /\ WanNext /\ UNCHANGED <<tableVars, answerVars, limitVars>>
       \/ part = "limits" /\ LimitsNext /\ UNCHANGED <<tableVars, answerVars, wanVars>>

vars == <<part, tableVars, answerVars, wanVars, limitVars>>

Spec == /\ Init /\ [][Next]_vars
        /\ TableFairness /\ WanFairness

TypeOK == TableTypeOK /\ AnswersTypeOK /\ WanTypeOK /\ LimitsTypeOK

\* AnsweringGetsIn of the routing table, and FindableAgain of the rounds.
TableAnsweringGetsIn == part = "table" => AnsweringGetsIn
NodeFindableAgain == part = "rounds" => FindableAgain

-----------------------------------------------------------------------------
\* 2 and 3 share the far half of the ids; socket 1 claims 1 and 2; sockets 2 and 3 are
\* at one IP.
TheClaims == {<<1, 1>>, <<2, 2>>, <<3, 3>>, <<2, 1>>}
TheIps == [a \in 1 .. 3 |-> IF a = 3 THEN 2 ELSE a]
TheNamed == {<<1, 1>>, <<2, 2>>, <<3, 3>>}
TheFaulty == {<<2, 2>>}
TheAlive == {<<3, 3>>}
=============================================================================
