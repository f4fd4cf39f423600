----------------------------- MODULE MCDiscovery -----------------------------
(***************************************************************************)
(* Four parts of how nodes find one another that share no state, each on   *)
(* its own: hellos over the internet, beacons on a LAN, the list of the    *)
(* peers known, and the port the router forwards.  Which of them moves is  *)
(* chosen at the start.                                                    *)
(***************************************************************************)
EXTENDS Hellos, Beacons, PeerBook, PortMapping, TLC

VARIABLE part

\* Everybody runs, and finds nobody.
HellosOff ==
    /\ graph = {} /\ running = Nodes /\ net = {} /\ open = Nobody /\ helloed = Nobody /\ acked = Nobody
    /\ cache = [n \in Nodes |-> << >>] /\ addrs = [n \in Nodes |-> << >>]
    /\ task = Idle0 /\ faults = 0 /\ clean = TRUE

Init ==
    /\ part \in {"hellos", "beacons", "book", "mapping"}
    /\ IF part = "hellos" THEN HellosInit ELSE HellosOff
    /\ BeaconsInit
    /\ BookInit /\ (part # "book" => book = [n \in Owners |-> {}])
    /\ MapInit /\ (part # "mapping" => kind = "pcp")

Next ==
    /\ UNCHANGED part
    /\ \/ part = "hellos" /\ HellosNext /\ UNCHANGED <<beaconVars, bookVars, mapVars>>
       \/ part = "beacons" /\ BeaconsNext /\ UNCHANGED <<helloVars, bookVars, mapVars>>
       \/ part = "book" /\ BookNext /\ UNCHANGED <<helloVars, beaconVars, mapVars>>
       \/ part = "mapping" /\ MapNext /\ UNCHANGED <<helloVars, beaconVars, bookVars>>

vars == <<part, helloVars, beaconVars, bookVars, mapVars>>

Spec == Init /\ [][Next]_vars /\ HellosFairness /\ (part = "beacons" => BeaconsFairness)

TypeOK == (part = "hellos" => HellosTypeOK) /\ BeaconsTypeOK /\ BookTypeOK /\ MapTypeOK

\* HeardAgainAndAgain of the hellos, and DialsWhoServes of the beacons.
NodesHearAgainAndAgain == part = "hellos" => HeardAgainAndAgain
HostDialsWhoServes == part = "beacons" => DialsWhoServes

-----------------------------------------------------------------------------
\* Two nodes that find a third one, and one that finds it and is not found.
TheGraphs == {{<<"a", "h">>, <<"b", "h">>}, {<<"a", "h">>, <<"h", "b">>}}
TheDials == {<<"n", "m">>, <<"n", "s">>, <<"m", "n">>}
=============================================================================
