------------------------------ MODULE Beacons ------------------------------
(***************************************************************************)
(* Finding one another on one LAN (src/roastmesh/lan_discovery.py): every  *)
(* five seconds `node serve` broadcasts a hello with its ticket, and syncs *)
(* with those whose beacon it hears, one of them at most once in a quarter *)
(* of an hour; `device pair` broadcasts pairing hellos from an endpoint of *)
(* its own for a few seconds and collects those of others.  Both listen on *)
(* one port, so that each hears the beacons of the other.                  *)
(*                                                                         *)
(* A ticket says which endpoint of its host it dials: the one that serves, *)
(* one that served before a restart, or the one of a pairing.  A debounce  *)
(* may end whenever nobody is pairing: it is far longer than a pairing.    *)
(***************************************************************************)
EXTENDS Naturals, FiniteSets

CONSTANTS
    Hosts,
    ListenSteps,    \* pairing hellos sent in one listen_s
    MaxMishaps      \* bound: beacons lost, starts after the first, pairings

ASSUME BeaconsAssumption ==
    /\ IsFiniteSet(Hosts) /\ ListenSteps \in Nat \ {0} /\ MaxMishaps \in Nat

VARIABLES
    serving,        \* hosts whose `node serve` runs
    known,          \* known_tickets[h][o]: the ticket of o that h dials, or none
    heard,          \* last_seen[h]: the hosts h has heard within resync_interval_s
    window,         \* window[h]: hellos left to send, 0 outside discover_pairing_beacons
    candidates,     \* candidates[h], of the pairing that runs or the last one
    mishaps

beaconVars == <<serving, known, heard, window, candidates, mishaps>>

Tickets == {"serving", "gone", "pairing"}

BeaconsTypeOK ==
    /\ serving \subseteq Hosts /\ known \in [Hosts -> [Hosts -> Tickets \union {"none"}]]
    /\ {heard, candidates} \subseteq [Hosts -> SUBSET Hosts]
    /\ window \in [Hosts -> 0 .. ListenSteps] /\ mishaps \in 0 .. MaxMishaps

BeaconsInit ==
    /\ serving = {} /\ known = [h \in Hosts |-> [o \in Hosts |-> "none"]]
    /\ heard = [h \in Hosts |-> {}] /\ window = [h \in Hosts |-> 0]
    /\ candidates = [h \in Hosts |-> {}] /\ mishaps = 0

-----------------------------------------------------------------------------
Pairing == {h \in Hosts : window[h] > 0}
Unpaired == Pairing = {}

\* The hosts that a broadcast misses: one of them, at times.
Missed == {{}} \union (IF mishaps < MaxMishaps THEN {{h} : h \in Hosts} ELSE {})

\* _handle: known_tickets is written by the sync it starts, and with nothing but the
\* ticket of the hello.
Handles(h, o) == h \in serving /\ h # o /\ o \notin heard[h]
Known_FirstStays(h, o, ticket) == IF known[h][o] = "none" THEN ticket ELSE known[h][o]
Known(h, o, ticket) == ticket

\* datagram_received of those that run `node serve`.
Broadcast(o, ticket, missed) ==
    LET told == {h \in Hosts \ missed : Handles(h, o)}
    IN  /\ known' = [h \in Hosts |-> IF h \in told THEN [known[h] EXCEPT ![o] = Known(h, o, ticket)] ELSE known[h]]
        /\ heard' = [h \in Hosts |-> IF h \in told THEN heard[h] \union {o} ELSE heard[h]]
        /\ mishaps' = mishaps + Cardinality(missed)

Beacon(o, missed) ==
    /\ o \in serving /\ Broadcast(o, "serving", missed)
    /\ UNCHANGED <<serving, window, candidates>>

\* A serving node does not tell a pairing hello from another.
PairingBeacon(o, missed) ==
    /\ o \in Pairing /\ Broadcast(o, "pairing", missed)
    /\ window' = [window EXCEPT ![o] = @ - 1]
    /\ candidates' = [h \in Hosts |-> IF h \in Pairing \ (missed \union {o})
                                      THEN candidates[h] \union {o} ELSE candidates[h]]
    /\ UNCHANGED serving

Pair(h) ==
    /\ h \notin Pairing /\ mishaps < MaxMishaps /\ mishaps' = mishaps + 1
    /\ window' = [window EXCEPT ![h] = ListenSteps] /\ candidates' = [candidates EXCEPT ![h] = {}]
    /\ UNCHANGED <<serving, known, heard>>

HearAgain(h, o) ==
    /\ Unpaired /\ o \in heard[h] /\ heard' = [heard EXCEPT ![h] = @ \ {o}]
    /\ UNCHANGED <<serving, known, window, candidates, mishaps>>

Serve(h) ==
    /\ h \notin serving /\ serving' = serving \union {h}
    /\ UNCHANGED <<known, heard, window, candidates, mishaps>>

\* The endpoint and everything it knew are gone.
Stop(h) ==
    /\ h \in serving /\ mishaps < MaxMishaps /\ mishaps' = mishaps + 1
    /\ serving' = serving \ {h} /\ heard' = [heard EXCEPT ![h] = {}]
    /\ known' = [o \in Hosts |->
                    IF o = h THEN [x \in Hosts |-> "none"]
                    ELSE [known[o] EXCEPT ![h] = IF @ = "serving" THEN "gone" ELSE @]]
    /\ UNCHANGED <<window, candidates>>

BeaconsNext ==
    \/ \E o \in Hosts, missed \in Missed : Beacon(o, missed) \/ PairingBeacon(o, missed)
    \/ \E h \in Hosts : Pair(h) \/ Serve(h) \/ Stop(h)
    \/ \E h, o \in Hosts : HearAgain(h, o)

\* Beacons and debounces go on as long as a node serves; nobody leaves it stopped.
BeaconsFairness ==
    /\ \A h \in Hosts : /\ WF_beaconVars(Serve(h))
                        /\ WF_beaconVars(\E missed \in Missed : PairingBeacon(h, missed))
                        /\ WF_beaconVars(\E missed \in Missed : Beacon(h, missed))
    /\ \A h, o \in Hosts : WF_beaconVars(HearAgain(h, o))

-----------------------------------------------------------------------------
\* A serving host has the ticket of every other one that serves: again and again, since
\* a restart or a pairing may leave it one that leads nowhere for a quarter of an hour.
DialsWhoServes ==
    \A h, o \in Hosts : h # o => []<>({h, o} \subseteq serving => known[h][o] = "serving")
=============================================================================
