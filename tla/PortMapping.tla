----------------------------- MODULE PortMapping -----------------------------
(***************************************************************************)
(* The port a router forwards to us (src/roastmesh/port_mapping.py and     *)
(* upnp.py, as the rounds of wan_discovery.py use them): asked for over    *)
(* PCP, NAT-PMP or UPnP, renewed before its lease ends, and removed on the *)
(* way out if it is a permanent one, which only UPnP routers give.         *)
(*                                                                         *)
(* A thread asks the router, call by call: the process may end meanwhile,  *)
(* and the thread goes on; another client may take the port.  Time passes  *)
(* while nothing is due.                                                   *)
(***************************************************************************)
EXTENDS Naturals

CONSTANTS
    Internal, Random,   \* the port asked for first, and those asked for on a conflict
    Lease,              \* DEFAULT_LIFETIME_S
    RetryAfter, RecheckAfter,     \* MAPPING_RETRY_S, PERMANENT_RECHECK_S
    MaxConflicts,       \* MAX_CONFLICT_RETRIES
    NoPort, NoRequest

ASSUME PortMappingAssumption ==
    /\ Internal \notin Random /\ NoPort \notin Random \union {Internal}
    /\ {Lease, RetryAfter, RecheckAfter, MaxConflicts} \subseteq Nat \ {0}
    /\ 2 * RetryAfter < Lease

VARIABLES
    kind,       \* the router: it leases over PCP, UPnP or both, or has permanent mappings only
    ours,       \* ours[p]: ticks for which p is forwarded to us, Forever, or 0
    others,     \* ports forwarded to somebody else
    up,    \* the process runs
    request,    \* what the thread asks for
    effective, due,     \* effective_port, and the ticks until mapping_renew_at
    active,     \* _active_upnp
    failing,    \* failures since the last success, up to two
    forgot,     \* the router has lost its table since
    conflict,   \* a port was ever taken when we asked for it
    granted,    \* this process was given a mapping over UPnP
    released    \* the last process was, and it removed it and asked for no other

mapVars == <<kind, ours, others, up, request, effective, due, active, failing, forgot, conflict, granted, released>>

Forever == Lease + 1
Ports == Random \union {Internal}
Request == [port: Ports, lease: {Lease, Forever}, conflicts: 0 .. MaxConflicts]

MapTypeOK ==
    /\ kind \in {"pcp", "timed", "both", "permanent"} /\ ours \in [Ports -> 0 .. Forever] /\ others \subseteq Ports
    /\ {up, forgot, conflict, granted, released} \subseteq BOOLEAN /\ request \in Request \union {NoRequest}
    /\ {effective, active} \subseteq Ports \union {NoPort}
    /\ due \in 0 .. Lease + RecheckAfter /\ failing \in 0 .. 2

MapInit ==
    /\ kind \in {"pcp", "timed", "both", "permanent"} /\ ours = [p \in Ports |-> 0] /\ others = {}
    /\ up = TRUE /\ request = NoRequest /\ effective = NoPort /\ due = 0 /\ active = NoPort
    /\ failing = 0 /\ forgot = FALSE /\ conflict = FALSE
    /\ granted = FALSE /\ released = FALSE

-----------------------------------------------------------------------------
\* _renew_mapping, in a thread.
StartRenewal ==
    /\ up /\ request = NoRequest /\ due = 0
    /\ request' = [port |-> Internal, lease |-> Lease, conflicts |-> 0]
    /\ UNCHANGED <<kind, ours, others, up, effective, due, active, failing, forgot, conflict, granted, released>>

\* A permanent mapping is looked at again, a leased one renewed half way.
Delay_AllOfIt(lease) == lease
Delay(lease) == IF lease = Forever THEN RecheckAfter ELSE lease \div 2

\* What the round does with what the thread returns; nobody does if the process is gone.
Returns(port, lease, overUpnp) ==
    /\ request' = NoRequest
    /\ IF ~ up THEN UNCHANGED <<effective, due, active, failing, forgot, granted>>
       ELSE /\ effective' = port /\ due' = Delay(lease) /\ failing' = 0 /\ forgot' = FALSE
            /\ active' = (IF overUpnp THEN port ELSE active) /\ granted' = (granted \/ overUpnp)

\* Without a mapping the earlier one stays noted.
Noted_TheLast == NoPort
Noted == active

ReturnsNothing ==
    /\ request' = NoRequest
    /\ IF ~ up THEN UNCHANGED <<due, active, failing>>
       ELSE due' = RetryAfter /\ active' = Noted /\ failing' = IF failing < 2 THEN failing + 1 ELSE 2
    /\ UNCHANGED <<ours, effective, forgot, granted>>

\* A PCP router prolongs the mapping it made, or chooses a port.
Chosen == IF \E p \in Ports : ours[p] > 0 THEN {p \in Ports : ours[p] > 0} ELSE Ports \ others
MapOverPcp ==
    /\ request # NoRequest /\ kind \in {"pcp", "both"}
    /\ \E p \in Chosen : ours' = [ours EXCEPT ![p] = Lease] /\ Returns(p, Lease, FALSE)
    /\ UNCHANGED <<kind, others, up, conflict, released>>

\* add_mapping, one AddPortMapping: it is granted, ...
Grants ==
    /\ request # NoRequest /\ request.port \notin others
    /\ kind = "permanent" => request.lease = Forever
    /\ kind # "pcp"
    /\ ours' = [ours EXCEPT ![request.port] = request.lease]
    /\ Returns(request.port, request.lease, TRUE)
    /\ UNCHANGED <<kind, others, up, conflict, released>>

\* ... refused for the lease (725), ...
PermanentOnly ==
    /\ request # NoRequest /\ kind = "permanent" /\ request.lease # Forever
    /\ request' = [request EXCEPT !.lease = Forever]
    /\ UNCHANGED <<kind, ours, others, up, effective, due, active, failing, forgot, conflict, granted, released>>

\* ... refused for the port (718, or 501, which is believed once), ...
PortTaken(code) ==
    /\ request # NoRequest /\ kind # "pcp" /\ request.port \in others
    /\ conflict' = TRUE
    /\ IF request.conflicts < IF code = 501 THEN 1 ELSE MaxConflicts
       THEN /\ \E p \in Random : request' = [request EXCEPT !.port = p, !.conflicts = @ + 1]
            /\ UNCHANGED <<ours, effective, due, active, failing, forgot, granted>>
       ELSE ReturnsNothing
    /\ UNCHANGED <<kind, others, up, released>>

\* ... or refused for good, or not answered.
Refuses ==
    /\ request # NoRequest /\ ReturnsNothing
    /\ UNCHANGED <<kind, others, up, conflict, released>>

-----------------------------------------------------------------------------
\* release, when serve() ends; deleting is tried once.
Exit ==
    /\ up /\ up' = FALSE /\ effective' = NoPort /\ due' = 0 /\ active' = NoPort
    /\ failing' = 0 /\ forgot' = FALSE /\ granted' = FALSE
    /\ \E deleted \in BOOLEAN :
        /\ ours' = IF active # NoPort /\ deleted THEN [ours EXCEPT ![active] = 0] ELSE ours
        /\ released' = (granted /\ deleted /\ request = NoRequest)
    /\ UNCHANGED <<kind, others, request, conflict>>

\* Killed: the thread as well.
Kill ==
    /\ up /\ up' = FALSE /\ request' = NoRequest /\ effective' = NoPort /\ due' = 0
    /\ active' = NoPort /\ failing' = 0 /\ forgot' = FALSE /\ granted' = FALSE /\ released' = FALSE
    /\ UNCHANGED <<kind, ours, others, conflict>>

StartServing ==
    /\ ~ up /\ request = NoRequest /\ up' = TRUE /\ released' = FALSE
    /\ UNCHANGED <<kind, ours, others, request, effective, due, active, failing, forgot, conflict, granted>>

\* Another client, the router, and time.
OtherClient ==
    /\ \/ \E p \in Ports \ others : ours[p] = 0 /\ others' = others \union {p}
       \/ \E p \in others : others' = others \ {p}
    /\ UNCHANGED <<kind, ours, up, request, effective, due, active, failing, forgot, conflict, granted, released>>

RouterForgets ==
    /\ others = {} /\ ours # [p \in Ports |-> 0] /\ ours' = [p \in Ports |-> 0] /\ forgot' = up
    /\ UNCHANGED <<kind, others, up, request, effective, due, active, failing, conflict, granted, released>>

Tick ==
    /\ request = NoRequest
    /\ up => due > 0
    /\ due' = IF up THEN due - 1 ELSE 0
    /\ ours' = [p \in Ports |-> IF ours[p] \in 1 .. Lease THEN ours[p] - 1 ELSE ours[p]]
    /\ UNCHANGED <<kind, others, up, request, effective, active, failing, forgot, conflict, granted, released>>

MapNext ==
    \/ StartRenewal \/ MapOverPcp \/ Grants \/ PermanentOnly \/ Refuses
    \/ PortTaken(718) \/ PortTaken(501)
    \/ Exit \/ Kill \/ StartServing \/ OtherClient \/ RouterForgets \/ Tick

MapSpec == MapInit /\ [][MapNext]_mapVars

-----------------------------------------------------------------------------
(***************************************************************************)
(* Properties.                                                             *)
(***************************************************************************)

\* The port a running node announces is forwarded to it, although one renewal
\* failed: only two failures in a row, or a router that lost its table, end that.
KeepsForwarding == up /\ effective # NoPort /\ failing < 2 /\ ~ forgot => ours[effective] > 0

\* A process that ended in order and removed its mapping leaves none for ever, also
\* none of an earlier process that was killed, unless ports were taken by others or
\* a request was still under way.
LeavesNothingBehind == ~ up /\ released /\ ~ conflict => \A p \in Ports : ours[p] # Forever
=============================================================================
