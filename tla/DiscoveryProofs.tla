--------------------------- MODULE DiscoveryProofs ---------------------------
(***************************************************************************)
(* What the specifications of PortMapping, PeerBook and Hellos guarantee,  *)
(* for every lease and delay, every set of ports and of peers and every    *)
(* limit:                                                                  *)
(*   - the port that is announced is forwarded, and an orderly end leaves  *)
(*     no permanent mapping behind;                                        *)
(*   - whoever was added by hand or synced with stays in the peer list;    *)
(*   - nodes that meet at a rendezvous host get to know each other.        *)
(***************************************************************************)
EXTENDS PortMapping, PeerBook, Hellos, NaturalLemmas, FiniteSetTheorems, SequenceTheorems

-----------------------------------------------------------------------------
(***************************************************************************)
(* The mapping is renewed half way through its lease, and the delay of a   *)
(* retry is less than the half that is left then.  Nothing is due earlier  *)
(* while a request is under way, for no time passes.                       *)
(***************************************************************************)
HalfLeft == Lease - Lease \div 2

LeaseOutlasts ==
    up /\ effective # NoPort /\ ~ forgot =>
        /\ failing = 0 => ours[effective] = Forever \/ ours[effective] >= due + HalfLeft
        /\ failing = 1 => ours[effective] = Forever \/ ours[effective] + RetryAfter >= due + HalfLeft

MapInv ==
    /\ MapTypeOK
    /\ up /\ request # NoRequest => due = 0
    /\ ~ up => effective = NoPort
    /\ LeaseOutlasts

LEMMA LeaseFacts ==
  /\ Lease \in Nat /\ RetryAfter \in Nat /\ RecheckAfter \in Nat /\ MaxConflicts \in Nat
  /\ Forever = Lease + 1 /\ Lease \div 2 \in 0 .. Lease /\ HalfLeft \in Nat /\ RetryAfter < HalfLeft /\ HalfLeft <= Lease
  /\ Delay(Lease) = Lease \div 2 /\ Delay(Forever) = RecheckAfter
  /\ NoPort \notin Ports /\ Internal \in Ports /\ Random \subseteq Ports
<1>1. Lease \in Nat /\ RetryAfter \in Nat /\ RecheckAfter \in Nat /\ MaxConflicts \in Nat /\ 2 * RetryAfter < Lease
  BY PortMappingAssumption
<1>2. Lease \div 2 \in Nat /\ 2 * (Lease \div 2) <= Lease
  BY <1>1
<1>3. Lease \div 2 \in 0 .. Lease /\ HalfLeft \in Nat /\ RetryAfter < HalfLeft /\ HalfLeft <= Lease
  BY <1>1, <1>2 DEF HalfLeft
<1>4. Delay(Lease) = Lease \div 2 /\ Delay(Forever) = RecheckAfter
  BY <1>1 DEF Delay, Forever
<1> QED BY <1>1, <1>3, <1>4, PortMappingAssumption DEF Forever, Ports

\* The type, with the flags apart.
Flags == {up, forgot, conflict, granted, released}
Rest ==
    /\ kind \in {"pcp", "timed", "both", "permanent"} /\ ours \in [Ports -> 0 .. Forever] /\ others \subseteq Ports
    /\ request \in Request \union {NoRequest} /\ {effective, active} \subseteq Ports \union {NoPort}
    /\ due \in 0 .. Lease + RecheckAfter /\ failing \in 0 .. 2

LEMMA TypeInTwo == MapTypeOK <=> Rest /\ Flags \subseteq BOOLEAN
BY Zenon DEF MapTypeOK, Rest, Flags

\* What the round does with a mapping of port p.
LEMMA ReturnsKeepsInv ==
  ASSUME MapInv, request # NoRequest, NEW p \in Ports, NEW lease \in {Lease, Forever}, NEW over \in BOOLEAN,
         Returns(p, lease, over), ours' = [ours EXCEPT ![p] = lease],
         UNCHANGED <<kind, others, up, released>>, conflict' = conflict
  PROVE  MapInv'
<1>1. /\ MapTypeOK /\ ours' \in [Ports -> 0 .. Forever] /\ ours'[p] = lease
      /\ lease \in Nat /\ (lease = Lease \/ lease = Forever)
  BY LeaseFacts DEF MapInv, MapTypeOK
<1>2. Delay(lease) \in 0 .. Lease + RecheckAfter /\ (lease = Lease => lease >= Delay(lease) + HalfLeft)
  BY LeaseFacts DEF HalfLeft
<1>3. CASE up
  <2>1. /\ effective' = p /\ due' = Delay(lease) /\ failing' = 0 /\ forgot' = FALSE /\ request' = NoRequest
        /\ active' \in {active, p} /\ granted' \in BOOLEAN
    BY <1>1, <1>3 DEF Returns, MapTypeOK
  <2>2. MapTypeOK'
    <3>1. Flags' \subseteq BOOLEAN
      BY <1>1, <2>1, TypeInTwo, Zenon DEF Flags
    <3>2. Rest'
      BY <1>1, <1>2, <2>1, LeaseFacts, TypeInTwo DEF Rest
    <3> QED BY <3>1, <3>2, Zenon DEF MapTypeOK, Rest, Flags
  <2>3. LeaseOutlasts'
    BY <1>1, <1>2, <2>1 DEF LeaseOutlasts
  <2> QED BY <1>3, <2>1, <2>2, <2>3 DEF MapInv
<1>4. CASE ~ up
  <2>1. request' = NoRequest /\ UNCHANGED <<effective, due, active, failing, forgot, granted>>
    BY <1>4 DEF Returns
  <2>2. MapTypeOK'
    BY <1>1, <2>1 DEF MapTypeOK
  <2> QED BY <1>4, <2>1, <2>2 DEF MapInv, LeaseOutlasts
<1> QED BY <1>3, <1>4

\* A request that comes to nothing.
LEMMA NothingKeepsInv ==
  ASSUME MapInv, request # NoRequest, ReturnsNothing, UNCHANGED <<kind, others, up, released>>,
         conflict' \in BOOLEAN
  PROVE  MapInv'
<1>1. MapTypeOK /\ request' = NoRequest /\ UNCHANGED <<ours, effective, forgot, granted>>
  BY DEF MapInv, ReturnsNothing
<1>2. CASE up
  <2>1. due = 0 /\ due' = RetryAfter /\ active' = active /\ failing' = IF failing < 2 THEN failing + 1 ELSE 2
    BY <1>2 DEF MapInv, ReturnsNothing, Noted
  <2>2. failing \in 0 .. 2 /\ failing' \in 0 .. 2 /\ failing' # 0 /\ (failing' = 1 => failing = 0)
    BY <1>1, <2>1 DEF MapTypeOK
  <2>3. MapTypeOK'
    <3>1. Flags' \subseteq BOOLEAN
      BY <1>1, <1>2, TypeInTwo, Zenon DEF Flags
    <3>2. Rest'
      BY <1>1, <2>1, <2>2, LeaseFacts, TypeInTwo DEF Rest
    <3> QED BY <3>1, <3>2, Zenon DEF MapTypeOK, Rest, Flags
  <2>4. LeaseOutlasts'
    <3>1. SUFFICES ASSUME up, effective # NoPort, ~ forgot, failing' = 1
                   PROVE  ours[effective] = Forever \/ ours[effective] + RetryAfter >= RetryAfter + HalfLeft
      BY <1>1, <2>1, <2>2 DEF LeaseOutlasts
    <3>2. ours[effective] = Forever \/ ours[effective] >= 0 + HalfLeft
      BY <2>1, <2>2, <3>1 DEF MapInv, LeaseOutlasts
    <3>3. ours[effective] \in Nat
      BY <1>1, <3>1, LeaseFacts DEF MapTypeOK
    <3> QED BY <3>2, <3>3, LeaseFacts
  <2> QED BY <1>1, <1>2, <2>3, <2>4 DEF MapInv
<1>3. CASE ~ up
  <2>1. UNCHANGED <<due, active, failing>>
    BY <1>3 DEF ReturnsNothing
  <2>2. MapTypeOK'
    BY <1>1, <2>1 DEF MapTypeOK
  <2> QED BY <1>1, <1>3, <2>1, <2>2 DEF MapInv, LeaseOutlasts
<1> QED BY <1>2, <1>3

LEMMA MapStepKeepsInv ==
  ASSUME MapInv, MapNext
  PROVE  MapInv'
<1>t. MapTypeOK
  BY DEF MapInv
<1>1. CASE StartRenewal
  <2>1. request' \in Request
    BY <1>1, LeaseFacts DEF StartRenewal, Request
  <2> QED BY <1>1, <1>t, <2>1 DEF StartRenewal, MapInv, MapTypeOK, LeaseOutlasts
<1>2. CASE MapOverPcp
  <2>1. PICK p \in Chosen : ours' = [ours EXCEPT ![p] = Lease] /\ Returns(p, Lease, FALSE)
    BY <1>2 DEF MapOverPcp
  <2>2. p \in Ports
    BY DEF Chosen
  <2> QED BY <1>2, <2>1, <2>2, ReturnsKeepsInv DEF MapOverPcp
<1>3. CASE Grants
  <2>1. request.port \in Ports /\ request.lease \in {Lease, Forever}
    BY <1>3, <1>t DEF Grants, MapTypeOK, Request
  <2> QED BY <1>3, <2>1, ReturnsKeepsInv DEF Grants
<1>4. CASE PermanentOnly
  <2>1. PICK r \in Request : r = request
    BY <1>4, <1>t DEF PermanentOnly, MapTypeOK
  <2>2. request' = [r EXCEPT !.lease = Forever]
    BY <1>4, <2>1 DEF PermanentOnly
  <2>3. request' \in Request
    BY <2>2 DEF Request
  <2> QED BY <1>4, <1>t, <2>3 DEF PermanentOnly, MapInv, MapTypeOK, LeaseOutlasts
<1>5. ASSUME NEW code \in {718, 501}, PortTaken(code) PROVE MapInv'
  <2>1. CASE ReturnsNothing
    BY <1>5, <2>1, NothingKeepsInv DEF PortTaken
  <2>2. CASE ~ ReturnsNothing
    <3>1. PICK r \in Request : r = request
      BY <1>5, <1>t DEF PortTaken, MapTypeOK
    <3>2. /\ r.conflicts < IF code = 501 THEN 1 ELSE MaxConflicts
          /\ \E p \in Random : request' = [r EXCEPT !.port = p, !.conflicts = @ + 1]
          /\ UNCHANGED <<ours, effective, due, active, failing, forgot, granted>>
      BY <1>5, <2>2, <3>1 DEF PortTaken
    <3>3. PICK p \in Random : request' = [r EXCEPT !.port = p, !.conflicts = @ + 1]
      BY <3>2
    <3>4. r.conflicts + 1 \in 0 .. MaxConflicts
      BY <3>2, PortMappingAssumption DEF Request
    <3>5. request' \in Request
      BY <3>3, <3>4, LeaseFacts DEF Request
    <3>6. UNCHANGED <<kind, others, up, released>> /\ conflict' = TRUE /\ request # NoRequest
      BY <1>5 DEF PortTaken
    <3>7. MapTypeOK'
      <4>1. Flags' \subseteq BOOLEAN
        BY <1>t, <3>2, <3>6, TypeInTwo, Zenon DEF Flags
      <4>2. Rest'
        BY <1>t, <3>2, <3>5, <3>6, TypeInTwo DEF Rest
      <4> QED BY <4>1, <4>2, Zenon DEF MapTypeOK, Rest, Flags
    <3> QED BY <3>2, <3>6, <3>7 DEF MapInv, LeaseOutlasts
  <2> QED BY <2>1, <2>2
<1>6. CASE Refuses
  BY <1>6, <1>t, NothingKeepsInv DEF Refuses, MapTypeOK
<1>7. CASE Exit \/ Kill
  <2>1. /\ up' = FALSE /\ effective' = NoPort /\ due' = 0 /\ active' = NoPort /\ failing' = 0 /\ forgot' = FALSE
        /\ granted' = FALSE /\ released' \in BOOLEAN /\ UNCHANGED <<kind, others, conflict>>
        /\ request' \in {request, NoRequest}
    BY <1>7, <1>t DEF Exit, Kill, MapTypeOK
  <2>2. ours' \in [Ports -> 0 .. Forever]
    <3>1. CASE Kill
      BY <1>t, <3>1 DEF Kill, MapTypeOK
    <3>2. CASE Exit
      <4>1. ours' = ours \/ ours' = [ours EXCEPT ![active] = 0]
        BY <3>2 DEF Exit
      <4> QED BY <1>t, <4>1, LeaseFacts DEF MapTypeOK
    <3> QED BY <1>7, <3>1, <3>2
  <2>3. MapTypeOK'
    <3>1. Flags' \subseteq BOOLEAN
      BY <1>t, <2>1, TypeInTwo, Zenon DEF Flags
    <3>2. Rest'
      BY <1>t, <2>1, <2>2, LeaseFacts, TypeInTwo DEF Rest
    <3> QED BY <3>1, <3>2, Zenon DEF MapTypeOK, Rest, Flags
  <2> QED BY <2>1, <2>3 DEF MapInv, LeaseOutlasts
<1>8. CASE StartServing
  BY <1>8, <1>t DEF StartServing, MapInv, MapTypeOK, LeaseOutlasts
<1>9. CASE OtherClient
  <2>1. others' \subseteq Ports
    BY <1>9, <1>t DEF OtherClient, MapTypeOK
  <2> QED BY <1>9, <1>t, <2>1 DEF OtherClient, MapInv, MapTypeOK, LeaseOutlasts
<1>10. CASE RouterForgets
  <2>1. ours' \in [Ports -> 0 .. Forever]
    BY <1>10, LeaseFacts DEF RouterForgets
  <2> QED BY <1>10, <1>t, <2>1 DEF RouterForgets, MapInv, MapTypeOK, LeaseOutlasts
<1>11. CASE Tick
  <2>1. /\ \A p \in Ports : ours[p] \in 0 .. Forever
        /\ \A p \in Ports : ours'[p] = IF ours[p] \in 1 .. Lease THEN ours[p] - 1 ELSE ours[p]
        /\ ours' = [p \in Ports |-> ours'[p]]
        /\ due \in 0 .. Lease + RecheckAfter
    BY <1>11, <1>t DEF Tick, MapTypeOK
  <2>2. ours' \in [Ports -> 0 .. Forever]
    <3>1. \A p \in Ports : ours'[p] \in 0 .. Forever
      BY <2>1, LeaseFacts
    <3> QED BY <2>1, <3>1
  <2>3. due' \in 0 .. Lease + RecheckAfter /\ (up => due' = due - 1)
    BY <1>11, <2>1, LeaseFacts DEF Tick
  <2>4. MapTypeOK'
    BY <1>11, <1>t, <2>2, <2>3 DEF Tick, MapTypeOK
  <2>5. LeaseOutlasts'
    <3> SUFFICES ASSUME up, effective # NoPort, ~ forgot
                 PROVE  /\ failing = 0 => ours'[effective] = Forever \/ ours'[effective] >= due' + HalfLeft
                        /\ failing = 1 => ours'[effective] = Forever \/ ours'[effective] + RetryAfter >= due' + HalfLeft
      BY <1>11 DEF Tick, LeaseOutlasts
    <3>1. effective \in Ports /\ due > 0 /\ due' = due - 1
      BY <1>11, <1>t, <2>3 DEF Tick, MapTypeOK
    <3>2. PICK o \in 0 .. Forever, o2 \in 0 .. Forever :
                /\ o = ours[effective] /\ o2 = ours'[effective]
                /\ o2 = IF o \in 1 .. Lease THEN o - 1 ELSE o
      <4>1. ours'[effective] \in 0 .. Forever
        BY <2>2, <3>1
      <4> QED BY <2>1, <3>1, <4>1
    <3>3. /\ failing = 0 => o = Forever \/ o >= due + HalfLeft
          /\ failing = 1 => o = Forever \/ o + RetryAfter >= due + HalfLeft
      BY <3>2 DEF MapInv, LeaseOutlasts
    <3> QED BY <2>1, <3>1, <3>2, <3>3, LeaseFacts
  <2> QED BY <1>11, <2>4, <2>5 DEF Tick, MapInv
<1> QED BY <1>1, <1>2, <1>3, <1>4, <1>5, <1>6, <1>7, <1>8, <1>9, <1>10, <1>11 DEF MapNext

LEMMA MapInvAtFirst == MapInit => MapInv
<1> SUFFICES ASSUME MapInit PROVE MapInv
  OBVIOUS
<1>1. Flags \subseteq BOOLEAN
  BY Zenon DEF MapInit, Flags
<1>2. Rest
  BY LeaseFacts DEF MapInit, Rest
<1>3. MapTypeOK
  BY <1>1, <1>2, TypeInTwo
<1> QED BY <1>3 DEF MapInit, MapInv, LeaseOutlasts

\* The port a running node announces is forwarded to it, although one renewal failed.
THEOREM AnnouncedPortIsForwarded == MapSpec => []KeepsForwarding
<1>2. MapInv /\ [MapNext]_mapVars => MapInv'
  <2>1. CASE MapNext
    BY <2>1, MapStepKeepsInv
  <2>2. CASE UNCHANGED mapVars
    BY <2>2 DEF mapVars, MapInv, MapTypeOK, LeaseOutlasts
  <2> QED BY <2>1, <2>2
<1>3. MapInv => KeepsForwarding
  <2> SUFFICES ASSUME MapInv, up, effective # NoPort, failing < 2, ~ forgot PROVE ours[effective] > 0
    BY DEF KeepsForwarding
  <2>1. effective \in Ports /\ ours[effective] \in 0 .. Forever /\ failing \in 0 .. 2 /\ due \in Nat
    BY LeaseFacts DEF MapInv, MapTypeOK
  <2>2. failing = 0 \/ failing = 1
    BY <2>1
  <2> QED BY <2>1, <2>2, LeaseFacts DEF MapInv, LeaseOutlasts
<1> QED BY <1>2, <1>3, MapInvAtFirst, PTL DEF MapSpec

-----------------------------------------------------------------------------
(***************************************************************************)
(* Until a port was found taken, there is one permanent mapping at most:   *)
(* the internal port's, which is what a process that was granted anything  *)
(* over UPnP removes when it ends in order.                                *)
(***************************************************************************)
OnlyInternal ==
    ~ conflict =>
        /\ request # NoRequest => request.port = Internal
        /\ \A p \in Ports : ours[p] = Forever => p = Internal
        /\ granted => active = Internal

BehindInv ==
    /\ MapInv
    /\ OnlyInternal
    /\ ~ up /\ released => request = NoRequest
    /\ LeavesNothingBehind

LEMMA MapStepKeepsBehind ==
  ASSUME BehindInv, MapNext
  PROVE  BehindInv'
<1>t. /\ MapInv' /\ MapTypeOK /\ OnlyInternal /\ LeavesNothingBehind /\ (~ up /\ released => request = NoRequest)
      /\ ours \in [Ports -> 0 .. Forever] /\ Lease # Forever /\ Forever # 0
      /\ \A p \in Ports : ours[p] \in 0 .. Forever
  BY MapStepKeepsInv, LeaseFacts DEF BehindInv, MapInv, MapTypeOK
\* What changes no mapping, no flag and no request.
<1>1. CASE StartServing \/ OtherClient
  <2>1. /\ UNCHANGED <<ours, request, active, conflict, granted>>
        /\ (up' = TRUE /\ released' = FALSE) \/ UNCHANGED <<up, released>>
    BY <1>1 DEF StartServing, OtherClient
  <2> QED BY <1>t, <2>1 DEF BehindInv, OnlyInternal, LeavesNothingBehind
<1>2. CASE StartRenewal
  <2>1. /\ request'.port = Internal /\ up /\ up' = up
        /\ UNCHANGED <<ours, active, conflict, granted>>
    BY <1>2 DEF StartRenewal
  <2> QED BY <1>t, <2>1 DEF BehindInv, OnlyInternal, LeavesNothingBehind
\* A step of a request: the process still runs, or it was not released.
<1>3. ASSUME request # NoRequest, UNCHANGED <<up, released>>, OnlyInternal' PROVE BehindInv'
  BY <1>3, <1>t DEF BehindInv, LeavesNothingBehind
<1>4. CASE MapOverPcp
  <2>1. PICK p \in Ports : ours' = [ours EXCEPT ![p] = Lease] /\ Returns(p, Lease, FALSE)
    BY <1>4 DEF MapOverPcp, Chosen
  <2>2. request' = NoRequest /\ (granted' => granted) /\ (active' = active)
    BY <2>1 DEF Returns
  <2>3. \A q \in Ports : ours'[q] = Forever => ours[q] = Forever
    BY <1>t, <2>1
  <2>4. request # NoRequest /\ UNCHANGED <<up, released, conflict>>
    BY <1>4 DEF MapOverPcp
  <2>5. OnlyInternal'
    BY <1>t, <2>2, <2>3, <2>4 DEF OnlyInternal
  <2> QED BY <1>3, <2>4, <2>5
<1>5. CASE Grants
  <2>1. /\ request # NoRequest /\ UNCHANGED <<up, released, conflict>>
        /\ ours' = [ours EXCEPT ![request.port] = request.lease]
        /\ request' = NoRequest
        /\ (active' = request.port \/ (granted' = granted /\ active' = active))
    BY <1>5 DEF Grants, Returns
  <2>2. \A q \in Ports : q # request.port => ours'[q] = ours[q]
    BY <1>t, <2>1
  <2>3. OnlyInternal'
    BY <1>t, <2>1, <2>2 DEF OnlyInternal
  <2> QED BY <1>3, <2>1, <2>3
<1>6. CASE PermanentOnly
  <2>1. PICK r \in Request : r = request
    BY <1>6, <1>t DEF PermanentOnly, MapTypeOK
  <2>2. /\ request # NoRequest /\ request' = [r EXCEPT !.lease = Forever]
        /\ UNCHANGED <<ours, up, released, conflict, granted, active>>
    BY <1>6, <2>1 DEF PermanentOnly
  <2>3. request'.port = request.port
    BY <2>1, <2>2 DEF Request
  <2>4. OnlyInternal'
    BY <1>t, <2>2, <2>3 DEF OnlyInternal
  <2> QED BY <1>3, <2>2, <2>4
<1>7. ASSUME NEW code \in {718, 501}, PortTaken(code) PROVE BehindInv'
  <2>1. request # NoRequest /\ conflict' /\ UNCHANGED <<up, released>>
    BY <1>7 DEF PortTaken
  <2> QED BY <1>3, <2>1 DEF OnlyInternal
<1>8. CASE Refuses
  <2>1. /\ request # NoRequest /\ request' = NoRequest
        /\ UNCHANGED <<ours, up, released, conflict, granted, active>>
    BY <1>8 DEF Refuses, ReturnsNothing, Noted
  <2>2. OnlyInternal'
    BY <1>t, <2>1 DEF OnlyInternal
  <2> QED BY <1>3, <2>1, <2>2
<1>9. CASE Exit
  <2>1. PICK deleted \in BOOLEAN :
          /\ ours' = IF active # NoPort /\ deleted THEN [ours EXCEPT ![active] = 0] ELSE ours
          /\ released' = (granted /\ deleted /\ request = NoRequest)
    BY <1>9 DEF Exit
  <2>2. ~ up' /\ ~ granted' /\ UNCHANGED <<request, conflict>>
    BY <1>9 DEF Exit
  <2>3. \A p \in Ports : ours'[p] = Forever => ours[p] = Forever
    BY <1>t, <2>1
  <2>4. OnlyInternal'
    BY <1>t, <2>2, <2>3 DEF OnlyInternal
  <2>5. LeavesNothingBehind'
    <3> SUFFICES ASSUME released', ~ conflict, NEW p \in Ports PROVE ours'[p] # Forever
      BY <2>2 DEF LeavesNothingBehind
    <3>1. granted /\ deleted
      BY <2>1
    <3>2. active = Internal /\ Internal # NoPort /\ Internal \in Ports
      BY <1>t, <3>1, LeaseFacts DEF OnlyInternal
    <3>3. ours' = [ours EXCEPT ![Internal] = 0]
      BY <2>1, <3>1, <3>2
    <3>4. ours'[Internal] = 0
      BY <1>t, <3>2, <3>3
    <3>5. p # Internal => ours'[p] = ours[p]
      BY <1>t, <3>3
    <3> QED BY <1>t, <3>4, <3>5 DEF OnlyInternal
  <2>6. released' => request' = NoRequest
    BY <2>1, <2>2
  <2> QED BY <1>t, <2>4, <2>5, <2>6 DEF BehindInv
<1>10. CASE Kill
  <2>1. ~ up' /\ ~ granted' /\ ~ released' /\ request' = NoRequest /\ UNCHANGED <<ours, conflict>>
    BY <1>10 DEF Kill
  <2> QED BY <1>t, <2>1 DEF BehindInv, OnlyInternal, LeavesNothingBehind
<1>11. CASE RouterForgets \/ Tick
  <2>1. UNCHANGED <<up, request, active, conflict, granted, released>>
    BY <1>11 DEF RouterForgets, Tick
  <2>2. \A p \in Ports : ours'[p] = Forever => ours[p] = Forever
    <3>1. CASE RouterForgets
      BY <1>t, <3>1 DEF RouterForgets
    <3>2. CASE Tick
      <4>1. Forever = Lease + 1 /\ Lease \in Nat
        BY LeaseFacts
      <4>2. \A p \in Ports : ours'[p] = IF ours[p] \in 1 .. Lease THEN ours[p] - 1 ELSE ours[p]
        BY <3>2 DEF Tick
      <4> QED BY <1>t, <4>1, <4>2
    <3> QED BY <1>11, <3>1, <3>2
  <2> QED BY <1>t, <2>1, <2>2 DEF BehindInv, OnlyInternal, LeavesNothingBehind
<1> QED BY <1>1, <1>2, <1>4, <1>5, <1>6, <1>7, <1>8, <1>9, <1>10, <1>11 DEF MapNext

\* A process that ended in order and removed its mapping leaves none for ever, whatever
\* earlier processes that were killed had asked for.
THEOREM NoMappingIsLeft == MapSpec => []LeavesNothingBehind
<1>1. MapInit => BehindInv
  <2> SUFFICES ASSUME MapInit PROVE BehindInv
    OBVIOUS
  <2>1. MapInv
    BY MapInvAtFirst
  <2>2. up /\ request = NoRequest /\ ~ granted /\ \A p \in Ports : ours[p] = 0
    BY DEF MapInit
  <2> QED BY <2>1, <2>2, LeaseFacts DEF BehindInv, OnlyInternal, LeavesNothingBehind
<1>2. BehindInv /\ [MapNext]_mapVars => BehindInv'
  <2>1. CASE MapNext
    BY <2>1, MapStepKeepsBehind
  <2>2. CASE UNCHANGED mapVars
    BY <2>2 DEF mapVars, BehindInv, OnlyInternal, LeavesNothingBehind, MapInv, MapTypeOK, LeaseOutlasts
  <2> QED BY <2>1, <2>2
<1>3. BehindInv => LeavesNothingBehind
  BY DEF BehindInv
<1> QED BY <1>1, <1>2, <1>3, PTL DEF MapSpec

-----------------------------------------------------------------------------
(***************************************************************************)
(* The peer list.  Only peers that were dealt with have a direct entry,    *)
(* each at most one: so that these entries are not more than the list      *)
(* holds, and the cap, which sorts them first, drops none of them.         *)
(***************************************************************************)
DialsOf(n) == {m \in Peers : <<n, m>> \in Dials}

\* A list as the code keeps it: each peer once, the direct ones among those dealt with.
ListOf(n, entries) ==
    /\ entries \in SUBSET Entry
    /\ \A e, f \in entries : e.peer = f.peer => e = f
    /\ \A e \in entries : e.direct => <<n, e.peer>> \in Dials

\* Every peer of a set has a direct entry.
Holds(entries, S) == \A p \in S : \E e \in entries : e.peer = p /\ e.direct

BookInv ==
    /\ book \in [Owners -> SUBSET Entry] /\ dealt \in [Owners -> SUBSET Peers]
    /\ \A n \in Owners :
        /\ ListOf(n, book[n])
        /\ Cardinality(DialsOf(n)) <= Limit => Holds(book[n], dealt[n])

\* Entries of different peers are as many as their peers.
LEMMA ListIsFinite ==
  ASSUME NEW S, S \in SUBSET Entry, \A e, f \in S : e.peer = f.peer => e = f,
         NEW P \in SUBSET Peers, \A e \in S : e.peer \in P
  PROVE  IsFiniteSet(S) /\ Cardinality(S) <= Cardinality(P)
<1> DEFINE peerOf == [e \in S |-> e.peer]
<1>1. peerOf \in [S -> P]
  OBVIOUS
<1>2. IsInjective(peerOf)
  BY DEF IsInjective
<1>3. peerOf \in Injection(S, P)
  <2> HIDE DEF peerOf
  <2> QED BY <1>1, <1>2 DEF Injection
<1>4. IsFiniteSet(P)
  BY PeerBookAssumption, FS_Subset
<1> HIDE DEF peerOf
<1> QED BY <1>3, <1>4, FS_Injection

\* The cap drops no direct entry.
LEMMA CapKeepsDirect ==
  ASSUME NEW n \in Owners, NEW entries, ListOf(n, entries), NEW kept \in Capped(entries)
  PROVE  /\ ListOf(n, kept)
         /\ Cardinality(DialsOf(n)) <= Limit => \A f \in entries : f.direct => f \in kept
<1>1. kept \subseteq entries
  BY DEF Capped
<1>2. ListOf(n, kept)
  BY <1>1 DEF ListOf
<1>3. ASSUME Cardinality(DialsOf(n)) <= Limit, NEW f \in entries, f.direct, f \notin kept PROVE FALSE
  <2>1. Cardinality(kept) = Limit /\ \A e \in kept : ~ Before(f, e)
    BY <1>1, <1>3 DEF Capped
  <2>2. \A e \in kept : e.direct
    BY <1>3, <2>1 DEF Before
  <2> DEFINE more == kept \union {f}
  <2>3. \A e \in more : e \in entries /\ e \in Entry /\ e.direct
    BY <1>1, <1>3, <2>2 DEF ListOf
  <2>4. \A e \in more : e.peer \in DialsOf(n)
    BY <2>3 DEF ListOf, DialsOf, Entry
  <2>5. /\ more \in SUBSET Entry /\ DialsOf(n) \in SUBSET Peers
        /\ \A e, g \in more : e.peer = g.peer => e = g
    BY <2>3 DEF ListOf, DialsOf
  <2>6. IsFiniteSet(kept) /\ Cardinality(more) = Cardinality(kept) + 1
    <3>1. IsFiniteSet(kept)
      BY <1>2, ListIsFinite DEF ListOf, Entry
    <3> QED BY <1>3, <3>1, FS_AddElement
  <2> HIDE DEF more
  <2>7. Cardinality(more) <= Cardinality(DialsOf(n))
    BY <2>4, <2>5, ListIsFinite
  <2>8. Limit \in Nat /\ Cardinality(DialsOf(n)) \in Nat
    <3>1. IsFiniteSet(DialsOf(n))
      BY <2>5, PeerBookAssumption, FS_Subset
    <3> QED BY <3>1, PeerBookAssumption, FS_CardinalityType
  <2> QED BY <1>3, <2>1, <2>6, <2>7, <2>8
<1> QED BY <1>2, <1>3

\* A tag changes nothing else of an entry.
LEMMA TaggedEntry ==
  ASSUME NEW e \in Entry, NEW tag \in BOOLEAN
  PROVE  LET put == [e EXCEPT !.direct = tag]
         IN  put \in Entry /\ put.peer = e.peer /\ put.direct = tag
BY DEF Entry

\* An entry that is written down.
LEMMA UpsertKeepsDirect ==
  ASSUME NEW n \in Owners, NEW entries, ListOf(n, entries), NEW new \in Entry,
         new.direct => <<n, new.peer>> \in Dials, NEW S, Holds(entries, S)
  PROVE  /\ ListOf(n, Upsert(entries, new))
         /\ Holds(Upsert(entries, new), S)
         /\ new.direct => Holds(Upsert(entries, new), S \union {new.peer})
<1> DEFINE old == {e \in entries : e.peer = new.peer}
<1>1. PICK tag \in BOOLEAN : tag = Tag(old, new) /\ (tag <=> new.direct \/ \E e \in old : e.direct)
  BY DEF Tag, Entry
<1>2. PICK put \in Entry : /\ put = [new EXCEPT !.direct = tag]
                          /\ put.peer = new.peer /\ put.direct = tag
  BY TaggedEntry
<1>3. Upsert(entries, new) = {e \in entries : e.peer # new.peer} \union {put}
  BY <1>1, <1>2 DEF Upsert
<1>4. put.direct => <<n, put.peer>> \in Dials
  BY <1>1, <1>2 DEF ListOf
<1>5. ListOf(n, Upsert(entries, new))
  BY <1>2, <1>3, <1>4 DEF ListOf
<1>6. ASSUME NEW p \in S PROVE \E e \in Upsert(entries, new) : e.peer = p /\ e.direct
  <2>1. PICK e \in entries : e.peer = p /\ e.direct
    BY DEF Holds
  <2>2. CASE e.peer = new.peer
    BY <1>1, <1>2, <1>3, <2>1, <2>2
  <2>3. CASE e.peer # new.peer
    BY <1>3, <2>1, <2>3
  <2> QED BY <2>2, <2>3
<1>7. new.direct => put.direct
  BY <1>1, <1>2
<1> QED BY <1>2, <1>3, <1>5, <1>6, <1>7 DEF Holds

\* The list of another node: what it calls direct is gossip here.
LEMMA MergeKeepsDirect ==
  ASSUME NEW n \in Owners, NEW entries, ListOf(n, entries), NEW news \in SUBSET Entry,
         \A g, h \in news : g.peer = h.peer => g = h, \A g \in news : ~ g.direct,
         NEW S, Holds(entries, S)
  PROVE  ListOf(n, Merge(entries, news)) /\ Holds(Merge(entries, news), S)
<1> DEFINE old(g) == {e \in entries : e.peer = g.peer}
           put(g) == [g EXCEPT !.direct = Tag(old(g), g)]
           others1 == {e \in entries : \A g \in news : g.peer # e.peer}
<1>1. ASSUME NEW g \in news
      PROVE  /\ put(g) \in Entry /\ put(g).peer = g.peer
             /\ put(g).direct <=> \E e \in old(g) : e.direct
  <2>1. PICK tag \in BOOLEAN : tag = Tag(old(g), g) /\ (tag <=> \E e \in old(g) : e.direct)
    BY DEF Tag
  <2> HIDE DEF old
  <2>2. put(g) = [g EXCEPT !.direct = tag]
    BY <2>1
  <2> HIDE DEF put
  <2> QED BY <2>1, <2>2 DEF Entry
<1>2. Merge(entries, news) = others1 \union {put(g) : g \in news}
  BY DEF Merge
<1>3. \A g \in news : put(g).direct => <<n, put(g).peer>> \in Dials
  BY <1>1 DEF ListOf
<1> HIDE DEF put
<1>4. ASSUME NEW e \in Merge(entries, news), NEW f \in Merge(entries, news), e.peer = f.peer PROVE e = f
  <2>1. e \in others1 \/ \E g \in news : e = put(g)
    BY <1>2
  <2>2. f \in others1 \/ \E g \in news : f = put(g)
    BY <1>2
  <2> QED BY <1>1, <1>4, <2>1, <2>2 DEF ListOf
<1>5. ListOf(n, Merge(entries, news))
  <2>1. Merge(entries, news) \in SUBSET Entry
    BY <1>1, <1>2 DEF ListOf
  <2>2. \A e \in Merge(entries, news) : e.direct => <<n, e.peer>> \in Dials
    BY <1>2, <1>3 DEF ListOf
  <2> QED BY <1>4, <2>1, <2>2 DEF ListOf
<1>6. ASSUME NEW p \in S PROVE \E e \in Merge(entries, news) : e.peer = p /\ e.direct
  <2>1. PICK e \in entries : e.peer = p /\ e.direct
    BY DEF Holds
  <2>2. CASE \A g \in news : g.peer # e.peer
    BY <1>2, <2>1, <2>2
  <2>3. ASSUME NEW g \in news, g.peer = e.peer PROVE \E f \in Merge(entries, news) : f.peer = p /\ f.direct
    BY <1>1, <1>2, <2>1, <2>3
  <2> QED BY <2>2, <2>3
<1> QED BY <1>5, <1>6 DEF Holds

\* What another node tells of its list.
LEMMA ToldIsGossip ==
  ASSUME NEW p, NEW entries, ListOf(p, entries),
         NEW told, told = {[e EXCEPT !.direct = FALSE] : e \in entries}
  PROVE  /\ told \in SUBSET Entry /\ \A g \in told : ~ g.direct
         /\ \A g, h \in told : g.peer = h.peer => g = h
<1> DEFINE gossip(e) == [e EXCEPT !.direct = FALSE]
<1>1. ASSUME NEW e \in entries
      PROVE  gossip(e) \in Entry /\ gossip(e).peer = e.peer /\ gossip(e).direct = FALSE
  BY TaggedEntry DEF ListOf
<1>2. told = {gossip(e) : e \in entries}
  OBVIOUS
<1> HIDE DEF gossip
<1>3. ASSUME NEW g \in told, NEW h \in told, g.peer = h.peer PROVE g = h
  <2>1. PICK e \in entries, f \in entries : g = gossip(e) /\ h = gossip(f)
    BY <1>2
  <2> QED BY <1>1, <1>3, <2>1 DEF ListOf
<1> QED BY <1>1, <1>2, <1>3

\* A day makes every entry older, and nothing else.
LEMMA DayKeepsDirect ==
  ASSUME NEW n, NEW entries, ListOf(n, entries), NEW S, Holds(entries, S)
  PROVE  LET later == {Older(e) : e \in entries} IN ListOf(n, later) /\ Holds(later, S)
<1> DEFINE later == {Older(e) : e \in entries}
<1>1. ASSUME NEW e \in Entry
      PROVE  Older(e) \in Entry /\ Older(e).peer = e.peer /\ Older(e).direct = e.direct
  <2>1. PICK age \in 0 .. MaxAge : age = IF e.age < MaxAge THEN e.age + 1 ELSE e.age
    BY PeerBookAssumption DEF Entry
  <2>2. Older(e) = [e EXCEPT !.age = age]
    BY <2>1 DEF Older
  <2> QED BY <2>2 DEF Entry
<1>2. entries \in SUBSET Entry
  BY DEF ListOf
<1>3. ASSUME NEW g \in later, NEW h \in later, g.peer = h.peer PROVE g = h
  <2>1. PICK e \in entries, f \in entries : g = Older(e) /\ h = Older(f)
    OBVIOUS
  <2> QED BY <1>1, <1>2, <1>3, <2>1 DEF ListOf
<1>4. ListOf(n, later)
  <2>1. later \in SUBSET Entry /\ \A e \in later : e.direct => <<n, e.peer>> \in Dials
    BY <1>1, <1>2 DEF ListOf
  <2> QED BY <1>3, <2>1 DEF ListOf
<1>5. Holds(later, S)
  BY <1>1, <1>2 DEF Holds
<1> QED BY <1>4, <1>5

\* Whom a node must still know: nobody, when it deals with more than the list holds.
Due(n) == IF Cardinality(DialsOf(n)) <= Limit THEN dealt[n] ELSE {}

\* The invariant of one node.
Sound(n) == ListOf(n, book[n]) /\ Holds(book[n], Due(n))

LEMMA SoundIsBookInv ==
  BookInv <=> /\ book \in [Owners -> SUBSET Entry] /\ dealt \in [Owners -> SUBSET Peers]
              /\ \A n \in Owners : Sound(n)
BY DEF BookInv, Sound, Due, Holds

LEMMA NowIsAnEntry ==
  ASSUME NEW p \in Peers, NEW direct \in BOOLEAN
  PROVE  Now(p, direct) \in Entry /\ Now(p, direct).peer = p /\ Now(p, direct).direct = direct
BY PeerBookAssumption DEF Now, Entry

\* `peer add`.
LEMMA AddKeepsBook ==
  ASSUME BookInv, NEW n \in Owners, NEW p \in Peers, Add(n, p)
  PROVE  BookInv'
<1> DEFINE new == Now(p, TRUE)
<1>1. new \in Entry /\ new.peer = p /\ new.direct = TRUE /\ <<n, p>> \in Dials
  BY NowIsAnEntry DEF Add
<1> HIDE DEF new
<1>2. /\ book' = [book EXCEPT ![n] = Upsert(book[n], new)]
      /\ dealt' = [dealt EXCEPT ![n] = dealt[n] \union {p}]
  BY DEF Add, new
<1>3. /\ book \in [Owners -> SUBSET Entry] /\ dealt \in [Owners -> SUBSET Peers]
      /\ \A o \in Owners : Sound(o)
  BY SoundIsBookInv
<1>4. /\ ListOf(n, Upsert(book[n], new))
      /\ Holds(Upsert(book[n], new), Due(n) \union {p})
  BY <1>1, <1>3, UpsertKeepsDirect DEF Sound
<1>5. Upsert(book[n], new) \in SUBSET Entry
  BY <1>4 DEF ListOf
<1>6. book' \in [Owners -> SUBSET Entry] /\ dealt' \in [Owners -> SUBSET Peers]
  BY <1>2, <1>3, <1>5
<1>7. ASSUME NEW o \in Owners PROVE Sound(o)'
  <2>1. CASE o = n
    <3>1. book'[n] = Upsert(book[n], new) /\ dealt'[n] = dealt[n] \union {p}
      BY <1>2, <1>3
    <3> QED BY <1>4, <2>1, <3>1 DEF Sound, Due, Holds
  <2>2. CASE o # n
    <3>1. book'[o] = book[o] /\ dealt'[o] = dealt[o]
      BY <1>2, <1>3, <2>2
    <3> QED BY <1>3, <3>1 DEF Sound, Due
  <2> QED BY <2>1, <2>2
<1> QED BY <1>6, <1>7 DEF BookInv, Sound, Due, Holds

\* A sync.
LEMMA SyncKeepsBook ==
  ASSUME BookInv, NEW n \in Owners, NEW p \in Peers, NEW direct \in BOOLEAN, Sync(n, p, direct)
  PROVE  BookInv'
<1> DEFINE told == IF p \in Owners THEN {[e EXCEPT !.direct = FALSE] : e \in book[p]} ELSE {}
           new == Now(p, direct)
           merged == Merge(book[n], told)
           now == Upsert(merged, new)
<1>1. new \in Entry /\ new.peer = p /\ new.direct = direct /\ <<n, p>> \in Dials
  BY NowIsAnEntry DEF Sync
<1>2. PICK kept \in Capped(now) : book' = [book EXCEPT ![n] = kept]
  BY DEF Sync
<1>3. dealt' = [dealt EXCEPT ![n] = IF direct THEN dealt[n] \union {p} ELSE dealt[n]]
  BY DEF Sync, BookInv
<1>4. /\ book \in [Owners -> SUBSET Entry] /\ dealt \in [Owners -> SUBSET Peers]
      /\ \A o \in Owners : Sound(o)
  BY SoundIsBookInv
<1>5. /\ told \in SUBSET Entry /\ \A g \in told : ~ g.direct
      /\ \A g, h \in told : g.peer = h.peer => g = h
  <2>1. CASE p \in Owners
    <3>1. ListOf(p, book[p]) /\ told = {[e EXCEPT !.direct = FALSE] : e \in book[p]}
      BY <1>4, <2>1 DEF Sound
    <3> HIDE DEF told
    <3> QED BY <3>1, ToldIsGossip
  <2>2. CASE p \notin Owners
    BY <2>2
  <2> QED BY <2>1, <2>2
<1> HIDE DEF told, new
<1>6. ListOf(n, merged) /\ Holds(merged, Due(n))
  BY <1>4, <1>5, MergeKeepsDirect DEF Sound
<1> HIDE DEF merged
<1>7. /\ ListOf(n, now) /\ Holds(now, Due(n))
      /\ direct => Holds(now, Due(n) \union {p})
  BY <1>1, <1>6, UpsertKeepsDirect
<1> HIDE DEF now
<1>8. /\ ListOf(n, kept)
      /\ Cardinality(DialsOf(n)) <= Limit => \A f \in now : f.direct => f \in kept
  BY <1>2, <1>7, CapKeepsDirect
<1>9. book' \in [Owners -> SUBSET Entry] /\ dealt' \in [Owners -> SUBSET Peers]
  BY <1>2, <1>3, <1>4, <1>8 DEF ListOf
<1>10. ASSUME NEW o \in Owners PROVE Sound(o)'
  <2>1. CASE o = n
    <3>1. book'[n] = kept /\ dealt'[n] = IF direct THEN dealt[n] \union {p} ELSE dealt[n]
      BY <1>2, <1>3, <1>4
    <3>2. Cardinality(DialsOf(n)) <= Limit => Holds(kept, dealt'[n])
      BY <1>7, <1>8, <3>1 DEF Holds, Due
    <3> QED BY <1>8, <2>1, <3>1, <3>2 DEF Sound, Due, Holds
  <2>2. CASE o # n
    <3>1. book'[o] = book[o] /\ dealt'[o] = dealt[o]
      BY <1>2, <1>3, <1>4, <2>2
    <3> QED BY <1>4, <3>1 DEF Sound, Due
  <2> QED BY <2>1, <2>2
<1> QED BY <1>9, <1>10 DEF BookInv, Sound, Due, Holds

\* A prune.
LEMMA PruneKeepsBook ==
  ASSUME BookInv, NEW n \in Owners, Prune(n)
  PROVE  BookInv'
<1> DEFINE stale == {e \in book[n] : e.age = MaxAge}
           gone == {e.peer : e \in stale}
<1>1. /\ book' = [book EXCEPT ![n] = book[n] \ stale]
      /\ dealt' = [dealt EXCEPT ![n] = dealt[n] \ gone]
  BY DEF Prune, Stale
<1>2. /\ book \in [Owners -> SUBSET Entry] /\ dealt \in [Owners -> SUBSET Peers]
      /\ \A o \in Owners : Sound(o)
  BY SoundIsBookInv
<1>3. ListOf(n, book[n] \ stale)
  BY <1>2 DEF Sound, ListOf
<1>4. \A p \in Due(n) \ gone : \E e \in book[n] \ stale : e.peer = p /\ e.direct
  BY <1>2 DEF Sound, Holds
<1> HIDE DEF stale, gone
<1>5. book' \in [Owners -> SUBSET Entry] /\ dealt' \in [Owners -> SUBSET Peers]
  BY <1>1, <1>2
<1>6. ASSUME NEW o \in Owners PROVE Sound(o)'
  <2>1. CASE o = n
    <3>1. book'[n] = book[n] \ stale /\ dealt'[n] = dealt[n] \ gone
      BY <1>1, <1>2
    <3> QED BY <1>3, <1>4, <2>1, <3>1 DEF Sound, Due, Holds
  <2>2. CASE o # n
    <3>1. book'[o] = book[o] /\ dealt'[o] = dealt[o]
      BY <1>1, <1>2, <2>2
    <3> QED BY <1>2, <3>1 DEF Sound, Due
  <2> QED BY <2>1, <2>2
<1> QED BY <1>5, <1>6 DEF BookInv, Sound, Due, Holds

\* Time passing.
LEMMA DayKeepsBook ==
  ASSUME BookInv, Day
  PROVE  BookInv'
<1>1. book' = [n \in Owners |-> {Older(e) : e \in book[n]}] /\ dealt' = dealt
  BY DEF Day
<1>2. /\ dealt \in [Owners -> SUBSET Peers] /\ \A n \in Owners : Sound(n)
  BY SoundIsBookInv
<1>3. ASSUME NEW n \in Owners PROVE ListOf(n, book'[n]) /\ Holds(book'[n], Due(n)')
  BY <1>1, <1>2, DayKeepsDirect DEF Sound, Due
<1>4. book' \in [Owners -> SUBSET Entry]
  <2>1. \A n \in Owners : {Older(e) : e \in book[n]} \in SUBSET Entry
    BY <1>1, <1>3 DEF ListOf
  <2> QED BY <1>1, <2>1
<1> QED BY <1>1, <1>2, <1>3, <1>4 DEF BookInv, Due, Holds

\* Whoever was added by hand or synced with is not displaced by strangers that others
\* tell of, however many: the cap keeps the direct entries, and these are not more than
\* the peers dealt with.
THEOREM NobodyIsDisplaced == BookSpec => []FloodDisplacesNobody
<1>1. BookInit => BookInv
  <2> SUFFICES ASSUME BookInit PROVE BookInv
    OBVIOUS
  <2>1. ASSUME NEW n \in Owners
        PROVE  /\ book[n] \in SUBSET Entry /\ \A e, f \in book[n] : e = f /\ ~ e.direct
               /\ dealt[n] = {}
    <3>1. CASE book[n] = {}
      BY <3>1 DEF BookInit
    <3>2. CASE \E p \in Others, a \in 0 .. MaxAge :
                 book[n] = {[peer |-> p, age |-> a, direct |-> FALSE]}
      BY <3>2 DEF BookInit, Entry, Peers
    <3> QED BY <3>1, <3>2 DEF BookInit
  <2>2. book \in [Owners -> SUBSET Entry] /\ dealt \in [Owners -> SUBSET Peers]
    BY <2>1 DEF BookInit
  <2> QED BY <2>1, <2>2 DEF BookInv, ListOf, Holds
<1>2. BookInv /\ [BookNext]_bookVars => BookInv'
  <2>1. CASE BookNext
    BY <2>1, AddKeepsBook, SyncKeepsBook, PruneKeepsBook, DayKeepsBook DEF BookNext
  <2>2. CASE UNCHANGED bookVars
    BY <2>2 DEF bookVars, BookInv
  <2> QED BY <2>1, <2>2
<1>3. BookInv => FloodDisplacesNobody
  BY DEF BookInv, Holds, DialsOf, FloodDisplacesNobody
<1> QED BY <1>1, <1>2, <1>3, PTL DEF BookSpec

-----------------------------------------------------------------------------
(***************************************************************************)
(* Hellos.  While no datagram was lost and nobody restarted, the host      *)
(* knows exactly those it heard from, and of any two of them each knows    *)
(* the other or a hello that tells it is on its way: the answer to the     *)
(* newcomer, and the push to the others.  The queues are shown to forget   *)
(* nobody first.                                                           *)
(***************************************************************************)
\* A queue that names each peer once.
Distinct(q) == \A i, j \in 1 .. Len(q) : q[i] = q[j] => i = j

LEMMA MembersOfAppend ==
  ASSUME NEW S, NEW q \in Seq(S), NEW m \in S
  PROVE  /\ Append(q, m) \in Seq(S) /\ Len(Append(q, m)) = Len(q) + 1 /\ Len(q) \in Nat
         /\ Append(q, m)[Len(q) + 1] = m /\ \A i \in 1 .. Len(q) : Append(q, m)[i] = q[i]
         /\ Range(Append(q, m)) = Range(q) \union {m}
         /\ Distinct(q) /\ m \notin Range(q) => Distinct(Append(q, m))
<1>1. Len(q) \in Nat
  BY LenProperties
<1>2. /\ Append(q, m) \in Seq(S) /\ Len(Append(q, m)) = Len(q) + 1
      /\ Append(q, m)[Len(q) + 1] = m /\ \A i \in 1 .. Len(q) : Append(q, m)[i] = q[i]
  BY AppendProperties
<1> DEFINE a == Append(q, m)
<1> HIDE DEF a
<1>3. Range(a) = {a[i] : i \in 1 .. Len(a)} /\ Range(q) = {q[i] : i \in 1 .. Len(q)}
  <2>1. a \in Seq(S)
    BY <1>2 DEF a
  <2>2. DOMAIN a = 1 .. Len(a) /\ DOMAIN q = 1 .. Len(q)
    BY <2>1, LenProperties
  <2> QED BY <2>2 DEF Range
<1>4. Len(a) = Len(q) + 1 /\ a[Len(q) + 1] = m /\ \A i \in 1 .. Len(q) : a[i] = q[i]
  BY <1>2 DEF a
<1>5. \A i : i \in 1 .. Len(a) <=> i \in 1 .. Len(q) \/ i = Len(q) + 1
  BY <1>1, <1>4
<1>6. Range(a) = Range(q) \union {m}
  BY <1>3, <1>4, <1>5
<1>7. ASSUME Distinct(q), m \notin Range(q), NEW i \in 1 .. Len(a), NEW j \in 1 .. Len(a), a[i] = a[j]
      PROVE  i = j
  <2>1. \A k \in 1 .. Len(q) : a[k] # m
    BY <1>3, <1>4, <1>7
  <2> QED BY <1>4, <1>5, <1>7, <2>1 DEF Distinct
<1> QED BY <1>1, <1>2, <1>6, <1>7 DEF a, Distinct

-----------------------------------------------------------------------------
\* What is kept of the first k of q.
Kept(q, who, k, w) ==
    /\ Range(w) = {q[i] : i \in 1 .. k} \ who
    /\ Distinct(q) => Distinct(w)
    /\ k > 0 /\ q[1] \notin who => Len(w) > 0 /\ w[1] = q[1]

LEMMA KeptNext ==
  ASSUME NEW S, NEW q \in Seq(S), NEW who, NEW k \in 1 .. Len(q), NEW w \in Seq(S), Kept(q, who, k - 1, w)
  PROVE  Kept(q, who, k, IF q[k] \in who THEN w ELSE Append(w, q[k]))
<1>1. Len(q) \in Nat /\ Len(w) \in Nat /\ q[k] \in S /\ k \in Nat \ {0}
  BY LenProperties, ElementOfSeq
<1>2. {q[i] : i \in 1 .. k} = {q[i] : i \in 1 .. k - 1} \union {q[k]}
  <2>1. \A i : i \in 1 .. k <=> i \in 1 .. k - 1 \/ i = k
    BY <1>1
  <2> QED BY <2>1
<1>3. k = 1 \/ k - 1 > 0
  BY <1>1
<1>4. CASE q[k] \in who
  <2>1. Range(w) = {q[i] : i \in 1 .. k} \ who
    BY <1>2, <1>4 DEF Kept
  <2> QED BY <1>3, <1>4, <2>1 DEF Kept
<1>5. CASE q[k] \notin who
  <2> DEFINE a == Append(w, q[k])
  <2>1. /\ Len(a) = Len(w) + 1 /\ a[Len(w) + 1] = q[k] /\ \A i \in 1 .. Len(w) : a[i] = w[i]
        /\ Range(a) = Range(w) \union {q[k]}
        /\ Distinct(w) /\ q[k] \notin Range(w) => Distinct(a)
    BY <1>1, MembersOfAppend
  <2> HIDE DEF a
  <2>2. Range(a) = {q[i] : i \in 1 .. k} \ who
    BY <1>2, <1>5, <2>1 DEF Kept
  <2>3. ASSUME Distinct(q) PROVE Distinct(a)
    <3>1. ASSUME q[k] \in Range(w) PROVE FALSE
      <4>1. PICK i \in 1 .. k - 1 : q[i] = q[k]
        BY <3>1 DEF Kept
      <4>2. i \in 1 .. Len(q) /\ i # k
        BY <1>1
      <4> QED BY <2>3, <4>1, <4>2 DEF Distinct
    <3> QED BY <2>1, <2>3, <3>1 DEF Kept
  <2>4. ASSUME q[1] \notin who PROVE Len(a) > 0 /\ a[1] = q[1]
    <3>1. CASE k = 1
      <4>1. Range(w) = {}
        BY <3>1 DEF Kept
      <4>2. Len(w) = 0
        <5>1. Range(w) = {w[i] : i \in 1 .. Len(w)}
          <6>1. DOMAIN w = 1 .. Len(w)
            BY LenProperties
          <6> QED BY <6>1 DEF Range
        <5>2. 1 \notin 1 .. Len(w)
          BY <4>1, <5>1
        <5> QED BY <1>1, <5>2
      <4> QED BY <2>1, <3>1, <4>2
    <3>2. CASE k - 1 > 0
      <4>1. Len(w) > 0 /\ w[1] = q[1]
        BY <2>4, <3>2 DEF Kept
      <4>2. 1 \in 1 .. Len(w)
        BY <1>1, <4>1
      <4> QED BY <1>1, <2>1, <4>1, <4>2
    <3> QED BY <1>3, <3>1, <3>2
  <2>5. Kept(q, who, k, a)
    BY <2>2, <2>3, <2>4 DEF Kept
  <2> QED BY <1>5, <2>5 DEF a
<1> QED BY <1>4, <1>5

\* Leaving some out keeps the others, each once, and the first if it is one of them.
LEMMA WithoutKeepsOthers ==
  ASSUME NEW S, NEW q \in Seq(S), NEW who
  PROVE  Without(q, who) \in Seq(S) /\ Kept(q, who, Len(q), Without(q, who))
<1> DEFINE N == Len(q)
           X == Seq(S)
           step == [i \in 1 .. N |-> [w \in X |-> IF q[i] \in who THEN w ELSE Append(w, q[i])]]
           Upto(f) == f = [i \in 0 .. N |->
                             IF i = 0 THEN << >> ELSE IF q[i] \in who THEN f[i - 1] ELSE Append(f[i - 1], q[i])]
           A == CHOOSE f : Upto(f)
<1>1. N \in Nat /\ \A i \in 1 .. N : q[i] \in S
  BY LenProperties, ElementOfSeq
<1>2. << >> \in X
  BY EmptySeq
<1>3. ASSUME NEW i \in 1 .. N, NEW w \in X PROVE (IF q[i] \in who THEN w ELSE Append(w, q[i])) \in X
  <2>1. Append(w, q[i]) \in X
    BY <1>1, AppendProperties
  <2> QED BY <2>1
<1> HIDE DEF X, N
<1>4. step \in [1 .. N -> [X -> X]]
  BY <1>3
<1>5. PICK g \in [0 .. N -> X] : Stepwise(N, << >>, step, g)
  <2> HIDE DEF step
  <2> QED BY <1>1, <1>2, <1>4, StepwiseExists
<1>6. Upto(g)
  <2>1. ASSUME NEW n \in 0 .. N
        PROVE  g[n] = IF n = 0 THEN << >> ELSE IF q[n] \in who THEN g[n - 1] ELSE Append(g[n - 1], q[n])
    <3>1. g[n] = IF n = 0 THEN << >> ELSE step[n][g[n - 1]]
      BY <1>5 DEF Stepwise
    <3>2. CASE n = 0
      BY <3>1, <3>2
    <3>3. CASE n # 0
      <4>1. n \in 1 .. N /\ n - 1 \in 0 .. N
        BY <1>1, <3>3
      <4>2. g[n - 1] \in X
        BY <4>1
      <4>3. step[n][g[n - 1]] = IF q[n] \in who THEN g[n - 1] ELSE Append(g[n - 1], q[n])
        BY <4>1, <4>2
      <4> QED BY <3>1, <3>3, <4>3
    <3> QED BY <3>2, <3>3
  <2>2. g = [n \in 0 .. N |-> g[n]]
    OBVIOUS
  <2> QED BY <2>1, <2>2
<1>7. Upto(A)
  <2> HIDE DEF Upto
  <2> QED BY <1>6
<1>8. Without(q, who) = A[N]
  BY DEF Without, N
<1> DEFINE T == {n \in 0 .. N : A[n] \in X /\ Kept(q, who, n, A[n])}
<1> HIDE DEF A
<1>9. A[0] = << >> /\ \A n \in 1 .. N : A[n] = IF q[n] \in who THEN A[n - 1] ELSE Append(A[n - 1], q[n])
  <2>1. A = [i \in 0 .. N |-> IF i = 0 THEN << >> ELSE IF q[i] \in who THEN A[i - 1] ELSE Append(A[i - 1], q[i])]
    BY <1>7
  <2>2. \A i \in 0 .. N : A[i] = IF i = 0 THEN << >> ELSE IF q[i] \in who THEN A[i - 1] ELSE Append(A[i - 1], q[i])
    BY <2>1
  <2>3. 0 \in 0 .. N /\ \A n \in 1 .. N : n \in 0 .. N /\ n # 0
    BY <1>1
  <2> QED BY <2>2, <2>3
<1>10. 0 \in T
  <2>1. Kept(q, who, 0, << >>)
    <3>1. Len(<< >>) = 0 /\ Range(<< >>) = {}
      BY EmptySeq DEF Range
    <3> QED BY <3>1 DEF Kept, Distinct
  <2> QED BY <1>1, <1>2, <1>9, <2>1
<1>11. ASSUME NEW n \in 1 .. N, n - 1 \in T PROVE n \in T
  <2>1. A[n - 1] \in X /\ Kept(q, who, n - 1, A[n - 1]) /\ n \in 0 .. N
    BY <1>1, <1>11
  <2>2. A[n] = IF q[n] \in who THEN A[n - 1] ELSE Append(A[n - 1], q[n])
    BY <1>9
  <2>3. A[n] \in X
    BY <1>3, <2>1, <2>2
  <2>4. Kept(q, who, n, A[n])
    BY <2>1, <2>2, KeptNext DEF X, N
  <2> QED BY <2>1, <2>3, <2>4
<1> HIDE DEF T
<1>12. 0 .. N \subseteq T
  <2>1. \A n \in 1 .. N : n - 1 \in T => n \in T
    BY <1>11
  <2> QED BY <1>1, <1>10, <2>1, BoundedInduction
<1>13. N \in T
  BY <1>1, <1>12
<1> QED BY <1>8, <1>13 DEF T, X, N

-----------------------------------------------------------------------------
\* Whoever the cache of n may hold fits in it, and one hello carries all of them but
\* the one it goes to.
CacheFits == IsFiniteSet(Nodes) /\ Cardinality(Nodes) <= CacheSize + 1
HelloFits == Cardinality(Nodes) <= MaxKnownPeers + 2

\* What n remembers of its peers.
Queue(n) == {q \in Seq(Nodes \ {n}) : Distinct(q)}

LEMMA DistinctAreFew ==
  ASSUME NEW T, IsFiniteSet(T), NEW q \in Seq(T), Distinct(q)
  PROVE  Len(q) \in Nat /\ Cardinality(T) \in Nat /\ Len(q) <= Cardinality(T)
<1>1. Len(q) \in Nat /\ q \in [1 .. Len(q) -> T]
  BY LenProperties
<1>2. q \in Injection(1 .. Len(q), T)
  BY <1>1 DEF Distinct, Injection, IsInjective
<1>3. Cardinality(1 .. Len(q)) = Len(q)
  BY <1>1, FS_Interval
<1> QED BY <1>1, <1>2, <1>3, FS_Injection, FS_CardinalityType

LEMMA RememberAddsOne ==
  ASSUME CacheFits, NEW n \in Nodes, NEW q \in Queue(n), NEW m \in Nodes \ {n}
  PROVE  LET r == Remember(q, m)
         IN  /\ r \in Queue(n) /\ Range(r) = Range(q) \union {m}
             /\ Len(r) > 0 /\ r[Len(r)] = m
<1> DEFINE T == Nodes \ {n}
           w == Without(q, {m})
           r == Append(w, m)
<1>1. w \in Seq(T) /\ Distinct(w) /\ Range(w) = Range(q) \ {m}
  <2>1. q \in Seq(T) /\ Distinct(q)
    BY DEF Queue
  <2>2. w \in Seq(T) /\ Kept(q, {m}, Len(q), w)
    BY <2>1, WithoutKeepsOthers
  <2>3. Range(q) = {q[i] : i \in 1 .. Len(q)}
    BY <2>1, RangeEquality
  <2> HIDE DEF T, w
  <2> QED BY <2>1, <2>2, <2>3 DEF Kept
<1>2. /\ r \in Seq(T) /\ Distinct(r) /\ Range(r) = Range(q) \union {m}
      /\ Len(r) > 0 /\ r[Len(r)] = m
  <2> HIDE DEF T, w
  <2>1. m \in T
    BY DEF T
  <2> QED BY <1>1, <2>1, MembersOfAppend
<1>3. Len(r) <= CacheSize
  <2>1. IsFiniteSet(T) /\ Cardinality(T) = Cardinality(Nodes) - 1 /\ Cardinality(Nodes) \in Nat
    BY FS_RemoveElement, FS_CardinalityType DEF CacheFits
  <2>2. Len(r) \in Nat /\ Len(r) <= Cardinality(T)
    <3> HIDE DEF T, r
    <3> QED BY <1>2, <2>1, DistinctAreFew
  <2>3. CacheSize \in Nat
    BY HellosAssumption
  <2> HIDE DEF T, r
  <2> QED BY <2>1, <2>2, <2>3 DEF CacheFits
<1>4. Remember(q, m) = r
  <2>1. Len(r) \in Nat /\ CacheSize \in Nat
    BY <1>2, LenProperties, HellosAssumption
  <2>2. ~ (Len(r) > CacheSize)
    <3> HIDE DEF r
    <3> QED BY <1>3, <2>1
  <2> QED BY <2>2 DEF Remember
<1> QED BY <1>2, <1>4 DEF Queue

LEMMA RememberAllAddsAll ==
  ASSUME CacheFits, NEW n \in Nodes, NEW q \in Queue(n), NEW ms \in Seq(Nodes \ {n})
  PROVE  LET r == RememberAll(q, ms)
         IN  r \in Queue(n) /\ Range(r) = Range(q) \union Range(ms)
<1> DEFINE N == Len(ms)
           X == Queue(n)
           step == [i \in 1 .. N |-> [r \in X |-> Remember(r, ms[i])]]
           Upto(f) == f = [i \in 0 .. N |-> IF i = 0 THEN q ELSE Remember(f[i - 1], ms[i])]
           A == CHOOSE f : Upto(f)
<1>1. N \in Nat /\ \A i \in 1 .. N : ms[i] \in Nodes \ {n}
  BY LenProperties, ElementOfSeq
<1>2. ASSUME NEW i \in 1 .. N, NEW r \in X
      PROVE  Remember(r, ms[i]) \in X /\ Range(Remember(r, ms[i])) = Range(r) \union {ms[i]}
  <2> DEFINE m == ms[i]
  <2>1. m \in Nodes \ {n} /\ r \in Queue(n)
    BY <1>1
  <2> HIDE DEF m, X
  <2>2. Remember(r, m) \in Queue(n) /\ Range(Remember(r, m)) = Range(r) \union {m}
    BY <2>1, RememberAddsOne
  <2> QED BY <2>2 DEF m, X
<1> HIDE DEF X, N
<1>3. step \in [1 .. N -> [X -> X]]
  BY <1>2
<1>4. PICK g \in [0 .. N -> X] : Stepwise(N, q, step, g)
  <2>1. q \in X
    BY DEF X
  <2> HIDE DEF step
  <2> QED BY <1>1, <1>3, <2>1, StepwiseExists
<1>5. Upto(g)
  <2>1. ASSUME NEW i \in 0 .. N PROVE g[i] = IF i = 0 THEN q ELSE Remember(g[i - 1], ms[i])
    <3>1. g[i] = IF i = 0 THEN q ELSE step[i][g[i - 1]]
      BY <1>4 DEF Stepwise
    <3>2. CASE i # 0
      <4>1. i \in 1 .. N /\ i - 1 \in 0 .. N
        BY <1>1, <3>2
      <4>2. g[i - 1] \in X
        BY <4>1
      <4>3. step[i][g[i - 1]] = Remember(g[i - 1], ms[i])
        BY <4>1, <4>2
      <4> QED BY <3>1, <3>2, <4>3
    <3> QED BY <3>1, <3>2
  <2>2. g = [i \in 0 .. N |-> g[i]]
    OBVIOUS
  <2> QED BY <2>1, <2>2
<1>6. Upto(A)
  <2> HIDE DEF Upto
  <2> QED BY <1>5
<1>7. RememberAll(q, ms) = A[N]
  BY DEF RememberAll, N
<1> DEFINE T == {k \in 0 .. N : A[k] \in X /\ Range(A[k]) = Range(q) \union {ms[i] : i \in 1 .. k}}
<1> HIDE DEF A
<1>8. A[0] = q /\ \A k \in 1 .. N : A[k] = Remember(A[k - 1], ms[k])
  <2>1. A = [i \in 0 .. N |-> IF i = 0 THEN q ELSE Remember(A[i - 1], ms[i])]
    BY <1>6
  <2>2. \A i \in 0 .. N : A[i] = IF i = 0 THEN q ELSE Remember(A[i - 1], ms[i])
    BY <2>1
  <2>3. 0 \in 0 .. N /\ \A k \in 1 .. N : k \in 0 .. N /\ k # 0
    BY <1>1
  <2> QED BY <2>2, <2>3
<1>9. 0 \in T
  BY <1>1, <1>8 DEF X
<1>10. ASSUME NEW k \in 1 .. N, k - 1 \in T PROVE k \in T
  <2>1. A[k - 1] \in X /\ Range(A[k - 1]) = Range(q) \union {ms[i] : i \in 1 .. k - 1} /\ k \in 0 .. N
    BY <1>1, <1>10
  <2>2. A[k] \in X /\ Range(A[k]) = Range(A[k - 1]) \union {ms[k]}
    BY <1>2, <1>8, <2>1
  <2>3. {ms[i] : i \in 1 .. k} = {ms[i] : i \in 1 .. k - 1} \union {ms[k]}
    <3>1. \A i : i \in 1 .. k <=> i \in 1 .. k - 1 \/ i = k
      BY <1>1
    <3> QED BY <3>1
  <2> QED BY <2>1, <2>2, <2>3
<1> HIDE DEF T
<1>11. 0 .. N \subseteq T
  <2>1. \A k \in 1 .. N : k - 1 \in T => k \in T
    BY <1>10
  <2> QED BY <1>1, <1>9, <2>1, BoundedInduction
<1>12. A[N] \in X /\ Range(A[N]) = Range(q) \union {ms[i] : i \in 1 .. N}
  BY <1>1, <1>11 DEF T
<1>13. Range(ms) = {ms[i] : i \in 1 .. N}
  BY RangeEquality DEF N
<1> QED BY <1>7, <1>12, <1>13 DEF X

\* What a hello tells: no one left out is in it, the one heard from last is, and in a
\* hello from n to o everybody n heard of but these two.
LEMMA SnapshotTells ==
  ASSUME CacheFits, NEW n \in Nodes, NEW q \in Queue(n), NEW but
  PROVE  LET s == Snapshot(q, but)
         IN  /\ s \in Seq(Nodes) /\ Range(s) \subseteq Range(q) \ but
             /\ MaxKnownPeers > 0 /\ Len(q) > 0 /\ q[Len(q)] \notin but => q[Len(q)] \in Range(s)
             /\ \A o \in Nodes \ {n} :
                   HelloFits /\ but = {n, o} => Range(s) = Range(q) \ {o}
<1> DEFINE T == Nodes \ {n}
           r == Reverse(q)
           w == Without(r, but)
           L == IF Len(w) < MaxKnownPeers THEN Len(w) ELSE MaxKnownPeers
           s == SubSeq(w, 1, L)
<1>1. q \in Seq(T) /\ Distinct(q) /\ Len(q) \in Nat /\ \A i \in 1 .. Len(q) : q[i] \in T
  BY LenProperties, ElementOfSeq DEF Queue
<1>2. /\ r \in Seq(T) /\ Len(r) = Len(q) /\ \A i \in 1 .. Len(q) : r[i] = q[(Len(q) - i) + 1]
  <2>1. r = [i \in 1 .. Len(q) |-> q[(Len(q) - i) + 1]]
    BY DEF Reverse
  <2>2. \A i \in 1 .. Len(q) : (Len(q) - i) + 1 \in 1 .. Len(q)
    BY <1>1
  <2>3. r \in [1 .. Len(q) -> T]
    <3> HIDE DEF r, T
    <3> QED BY <1>1, <2>1, <2>2
  <2>4. r \in Seq(T)
    <3> HIDE DEF r, T
    <3> QED BY <1>1, <2>3
  <2>5. DOMAIN r = 1 .. Len(q) /\ DOMAIN r = 1 .. Len(r) /\ Len(r) \in Nat
    <3> HIDE DEF r, T
    <3> QED BY <2>3, <2>4, LenProperties
  <2>6. Len(r) = Len(q)
    <3> HIDE DEF r, T
    <3> QED BY <1>1, <2>5
  <2> HIDE DEF r, T
  <2> QED BY <2>1, <2>4, <2>6
<1>3. \A i \in 1 .. Len(q) : (Len(q) - i) + 1 \in 1 .. Len(q) /\ (Len(q) - ((Len(q) - i) + 1)) + 1 = i
  BY <1>1
<1>4. Distinct(r)
  <2> HIDE DEF r, T
  <2>1. ASSUME NEW i \in 1 .. Len(r), NEW j \in 1 .. Len(r), r[i] = r[j] PROVE i = j
    <3>1. (Len(q) - i) + 1 = (Len(q) - j) + 1
      BY <1>1, <1>2, <1>3, <2>1 DEF Distinct
    <3> QED BY <1>1, <1>2, <3>1
  <2> QED BY <2>1 DEF Distinct
<1>5. Range(r) = Range(q)
  <2> HIDE DEF r, T
  <2>1. Range(r) = {r[i] : i \in 1 .. Len(q)} /\ Range(q) = {q[i] : i \in 1 .. Len(q)}
    BY <1>1, <1>2, RangeEquality
  <2>2. ASSUME NEW i \in 1 .. Len(q) PROVE r[i] \in Range(q) /\ q[i] \in Range(r)
    <3> DEFINE j == (Len(q) - i) + 1
    <3>1. j \in 1 .. Len(q) /\ (Len(q) - j) + 1 = i
      BY <1>3
    <3> HIDE DEF j
    <3>2. r[i] = q[j] /\ r[j] = q[i]
      BY <1>2, <3>1 DEF j
    <3> QED BY <2>1, <3>1, <3>2
  <2> QED BY <2>1, <2>2
<1>6. /\ w \in Seq(T) /\ Distinct(w) /\ Range(w) = Range(q) \ but /\ Len(w) \in Nat
      /\ Len(q) > 0 /\ q[Len(q)] \notin but => Len(w) > 0 /\ w[1] = q[Len(q)]
  <2> HIDE DEF r, T, w
  <2>1. w \in Seq(T) /\ Kept(r, but, Len(r), w)
    BY <1>2, WithoutKeepsOthers DEF w
  <2>2. Range(r) = {r[i] : i \in 1 .. Len(r)}
    BY <1>2, RangeEquality
  <2>3. Len(q) > 0 => r[1] = q[Len(q)]
    BY <1>1, <1>2
  <2>4. Len(w) \in Nat
    BY <2>1, LenProperties
  <2> QED BY <1>2, <1>4, <1>5, <2>1, <2>2, <2>3, <2>4 DEF Kept
<1>7. MaxKnownPeers \in Nat /\ L \in Nat /\ L <= Len(w)
  <2>1. MaxKnownPeers \in Nat
    BY HellosAssumption
  <2> HIDE DEF w
  <2> QED BY <1>6, <2>1
<1>8. s \in Seq(T) /\ Len(s) = L /\ \A i \in 1 .. L : s[i] = w[i]
  <2> HIDE DEF w, L, T
  <2>1. \A i \in 1 .. L : w[i] \in T
    BY <1>6, <1>7, ElementOfSeq
  <2>2. 1 \in Int /\ L \in Int
    BY <1>7
  <2>3. /\ s \in Seq(T) /\ Len(s) = IF 1 <= L THEN L - 1 + 1 ELSE 0
        /\ \A i \in 1 .. L - 1 + 1 : s[i] = w[1 + i - 1]
    BY <2>1, <2>2, SubSeqProperties
  <2> HIDE DEF s
  <2> QED BY <1>7, <2>3
<1>9. Range(s) = {w[i] : i \in 1 .. L} /\ Range(w) = {w[i] : i \in 1 .. Len(w)}
  <2> HIDE DEF w, L, T, s
  <2>1. Range(s) = {s[i] : i \in 1 .. Len(s)} /\ Range(w) = {w[i] : i \in 1 .. Len(w)}
    BY <1>6, <1>8, RangeEquality
  <2> QED BY <1>8, <2>1
<1>10. s \in Seq(Nodes) /\ Range(s) \subseteq Range(q) \ but
  <2>1. \A i \in 1 .. L : i \in 1 .. Len(w)
    <3> HIDE DEF w, L
    <3> QED BY <1>6, <1>7
  <2>2. T \subseteq Nodes
    OBVIOUS
  <2> HIDE DEF w, L, T, s
  <2>3. s \in Seq(Nodes)
    BY <1>8, <2>2, SeqMonotonic
  <2> QED BY <1>6, <1>9, <2>1, <2>3
<1>11. ASSUME MaxKnownPeers > 0, Len(q) > 0, q[Len(q)] \notin but PROVE q[Len(q)] \in Range(s)
  <2>1. Len(w) > 0 /\ w[1] = q[Len(q)]
    BY <1>6, <1>11
  <2>2. 1 \in 1 .. L
    <3> HIDE DEF w
    <3> QED BY <1>6, <1>7, <1>11, <2>1
  <2> HIDE DEF w, L, T, s
  <2> QED BY <1>9, <2>1, <2>2
<1>12. ASSUME NEW o \in Nodes \ {n}, HelloFits, but = {n, o} PROVE Range(s) = Range(q) \ {o}
  <2> DEFINE U == T \ {o}
  <2>1. n \notin Range(q)
    <3>1. Range(q) = {q[i] : i \in 1 .. Len(q)}
      BY <1>1, RangeEquality
    <3> QED BY <1>1, <3>1
  <2>2. Range(w) = Range(q) \ {o}
    <3> HIDE DEF w
    <3> QED BY <1>6, <1>12, <2>1
  <2>3. IsFiniteSet(U) /\ Cardinality(U) = Cardinality(Nodes) - 2 /\ Cardinality(Nodes) \in Nat
    <3>1. IsFiniteSet(T) /\ Cardinality(T) = Cardinality(Nodes) - 1 /\ Cardinality(Nodes) \in Nat
      BY FS_RemoveElement, FS_CardinalityType DEF CacheFits
    <3>2. o \in T
      BY <1>12
    <3> HIDE DEF T
    <3>3. IsFiniteSet(U) /\ Cardinality(U) = Cardinality(T) - 1
      BY <3>1, <3>2, FS_RemoveElement
    <3> HIDE DEF U
    <3> QED BY <3>1, <3>3
  <2>4. w \in Seq(U)
    <3>1. \A i \in 1 .. Len(w) : w[i] \in U
      <4> HIDE DEF w, T
      <4>1. \A i \in 1 .. Len(w) : w[i] \in T /\ w[i] \in Range(w)
        BY <1>6, <1>9, ElementOfSeq
      <4> QED BY <2>2, <4>1
    <3>2. w \in [1 .. Len(w) -> U]
      <4>1. w \in [1 .. Len(w) -> T]
        BY <1>6, LenProperties
      <4> HIDE DEF w, T, U
      <4> QED BY <3>1, <4>1
    <3> HIDE DEF w, U
    <3> QED BY <1>6, <3>2
  <2>5. Len(w) <= Cardinality(U)
    <3> HIDE DEF w, U
    <3> QED BY <1>6, <2>3, <2>4, DistinctAreFew
  <2>6. L = Len(w)
    <3> HIDE DEF w, U
    <3> QED BY <1>6, <1>7, <1>12, <2>3, <2>5 DEF HelloFits
  <2> HIDE DEF w, L, s
  <2> QED BY <1>9, <2>2, <2>6
<1>13. Snapshot(q, but) = s
  BY DEF Snapshot
<1> HIDE DEF s, L, w, r, T
<1> QED BY <1>10, <1>11, <1>12, <1>13

-----------------------------------------------------------------------------
\* All that find one another find one and the same host, or are found by it.
Centre(g, h) == \A n, m \in Nodes : <<n, m>> \in g => n # m /\ h \in {n, m}
Rendezvous == \A g \in Graphs : \E h \in Nodes : Centre(g, h)

\* Hellos go to that host or come from it, and tell of nobody it did not hear from.
AtRendezvous(h) ==
    /\ \A d \in net : d \in Hello /\ d.from # d.to /\ h \in {d.from, d.to} /\ Range(d.known) \subseteq acked[h] \union {h}
    /\ task \in [Nodes -> [Nodes -> Task \union {NoTask}]]
    /\ \A n, m \in Nodes : task[n][m] # NoTask =>
          n # m /\ h \in {n, m} /\ Range(task[n][m].known) \subseteq acked[h] \union {h}

\* The host knows exactly those it heard from, and the others no one else and the host.
HeardThere(h) ==
    /\ acked \in [Nodes -> SUBSET Nodes] /\ {cache, addrs} \subseteq [Nodes -> Seq(Nodes)]
    /\ \A n \in Nodes : cache[n] \in Queue(n) /\ addrs[n] \in Queue(n)
    /\ h \notin acked[h] /\ Range(cache[h]) = acked[h] /\ Range(addrs[h]) = acked[h]
    /\ \A n \in Nodes \ {h} : /\ acked[n] \subseteq {h} /\ Range(addrs[n]) \subseteq {h}
                             /\ Range(cache[n]) \subseteq acked[h] \union {h}

\* n knows m, or a hello of the host that tells it of m is on its way.
Told(h, n, m) == m \in Range(cache[n]) \/ \E d \in net : d.from = h /\ d.to = n /\ m \in Range(d.known)

AllTold(h) ==
    \A n, m \in acked[h] : n # m =>
        /\ HelloFits => Told(h, n, m)
        /\ MaxKnownPeers > 0 => Told(h, n, m) \/ Told(h, m, n)

HelloInv(h) == AtRendezvous(h) /\ HeardThere(h) /\ AllTold(h)

\* What is sent when d is received, and what its receiver knows then.
Heard(d) == Remember(cache[d.to], d.from)
Reached(d) == Remember(addrs[d.to], d.from)
SentOn(d) == Answers(d.to, d.from, Heard(d)) \union Pushes(d.to, Pushed(d.to, d.from, Reached(d)), Heard(d))

LEMMA NewsAreOthers ==
  ASSUME NEW n \in Nodes, NEW q \in Seq(Nodes)
  PROVE  Without(q, {n}) \in Seq(Nodes \ {n}) /\ Range(Without(q, {n})) = Range(q) \ {n}
<1> DEFINE w == Without(q, {n})
<1>1. w \in Seq(Nodes) /\ Kept(q, {n}, Len(q), w)
  BY WithoutKeepsOthers
<1> HIDE DEF w
<1>2. Range(q) = {q[i] : i \in 1 .. Len(q)} /\ Range(w) = {w[i] : i \in 1 .. Len(w)}
  BY <1>1, RangeEquality
<1>3. Range(w) = Range(q) \ {n}
  BY <1>1, <1>2 DEF Kept
<1>4. Len(w) \in Nat /\ w \in [1 .. Len(w) -> Nodes]
  BY <1>1, LenProperties
<1>5. w \in [1 .. Len(w) -> Nodes \ {n}]
  <2>1. \A i \in 1 .. Len(w) : w[i] \in Nodes \ {n}
    BY <1>2, <1>3, <1>4
  <2> QED BY <1>4, <2>1
<1>6. w \in Seq(Nodes \ {n})
  BY <1>4, <1>5
<1> QED BY <1>3, <1>6 DEF w

LEMMA ReceiverHears ==
  ASSUME CacheFits, NEW h \in Nodes, HelloInv(h), NEW d \in net
  PROVE  /\ d.to \in Nodes /\ d.from \in Nodes /\ d.from # d.to /\ h \in {d.from, d.to}
         /\ Heard(d) \in Queue(d.to) /\ Range(Heard(d)) = Range(cache[d.to]) \union {d.from}
         /\ Len(Heard(d)) > 0 /\ Heard(d)[Len(Heard(d))] = d.from
         /\ Reached(d) \in Queue(d.to) /\ Range(Reached(d)) = Range(addrs[d.to]) \union {d.from}
         /\ RememberAll(Heard(d), Without(d.known, {d.to})) \in Queue(d.to)
         /\ Range(RememberAll(Heard(d), Without(d.known, {d.to})))
               = Range(cache[d.to]) \union {d.from} \union (Range(d.known) \ {d.to})
<1> DEFINE n == d.to
           m == d.from
           news == Without(d.known, {n})
<1>1. n \in Nodes /\ m \in Nodes \ {n} /\ h \in {m, n} /\ d.known \in Seq(Nodes)
  BY DEF HelloInv, AtRendezvous, Hello
<1>2. cache[n] \in Queue(n) /\ addrs[n] \in Queue(n)
  BY <1>1 DEF HelloInv, HeardThere
<1> HIDE DEF n, m
<1>3. /\ Heard(d) \in Queue(n) /\ Range(Heard(d)) = Range(cache[n]) \union {m}
      /\ Len(Heard(d)) > 0 /\ Heard(d)[Len(Heard(d))] = m
  BY <1>1, <1>2, RememberAddsOne DEF Heard, n, m
<1>4. Reached(d) \in Queue(n) /\ Range(Reached(d)) = Range(addrs[n]) \union {m}
  BY <1>1, <1>2, RememberAddsOne DEF Reached, n, m
<1>5. news \in Seq(Nodes \ {n}) /\ Range(news) = Range(d.known) \ {n}
  BY <1>1, NewsAreOthers
<1>6. RememberAll(Heard(d), news) \in Queue(n) /\ Range(RememberAll(Heard(d), news)) = Range(Heard(d)) \union Range(news)
  <2> HIDE DEF news
  <2> QED BY <1>1, <1>3, <1>5, RememberAllAddsAll
<1> QED BY <1>1, <1>3, <1>4, <1>5, <1>6 DEF n, m

\* Each hello that is sent then tells what its receiver may know and does not.
LEMMA SentTells ==
  ASSUME CacheFits, NEW h \in Nodes, HelloInv(h), NEW d \in net, NEW e \in SentOn(d)
  PROVE  \E o \in {d.from} \union Pushed(d.to, d.from, Reached(d)) :
            /\ o \in Nodes \ {d.to} /\ e = HelloTo(d.to, o, Snapshot(Heard(d), {d.to, o}))
            /\ e \in Hello /\ Range(e.known) \subseteq Range(Heard(d))
<1> DEFINE n == d.to
<1>1. PICK o \in {d.from} \union Pushed(n, d.from, Reached(d)) : e = HelloTo(n, o, Snapshot(Heard(d), {n, o}))
  BY DEF SentOn, Answers, Pushes
<1>2. n \in Nodes /\ d.from \in Nodes \ {n} /\ Heard(d) \in Queue(n) /\ Reached(d) \in Queue(n)
  BY ReceiverHears
<1>3. o \in Nodes \ {n}
  <2>1. Pushed(n, d.from, Reached(d)) \subseteq Range(Reached(d))
    BY DEF Pushed
  <2>2. Range(Reached(d)) \subseteq Nodes \ {n}
    <3>1. Reached(d) \in Seq(Nodes \ {n})
      BY <1>2 DEF Queue
    <3>2. Range(Reached(d)) \in SUBSET (Nodes \ {n})
      BY <3>1, RangeOfSeq
    <3> QED BY <3>2
  <2> QED BY <1>2, <2>1, <2>2
<1> DEFINE s == Snapshot(Heard(d), {n, o})
<1>4. s \in Seq(Nodes) /\ Range(s) \subseteq Range(Heard(d))
  <2> HIDE DEF n
  <2> QED BY <1>2, SnapshotTells
<1>5. e \in Hello /\ e.known = s
  <2> HIDE DEF s, n
  <2> QED BY <1>1, <1>2, <1>3, <1>4 DEF HelloTo, Hello, s
<1> HIDE DEF s
<1> QED BY <1>1, <1>3, <1>4, <1>5

LEMMA ReceiveKeepsInv ==
  ASSUME CacheFits, NEW h \in Nodes, HelloInv(h), NEW d \in net, Receive(d)
  PROVE  HelloInv(h)'
<1> DEFINE k == d.to
           m == d.from
           new == RememberAll(Heard(d), Without(d.known, {k}))
<1>1. /\ net' = (net \ {d}) \union SentOn(d) /\ task' = task
      /\ acked' = [acked EXCEPT ![k] = @ \union {m}]
      /\ cache' = [cache EXCEPT ![k] = new] /\ addrs' = [addrs EXCEPT ![k] = Reached(d)]
  BY DEF Receive, SentOn, Heard, Reached
<1>2. /\ k \in Nodes /\ m \in Nodes /\ k # m /\ h \in {m, k}
      /\ Heard(d) \in Queue(k) /\ Range(Heard(d)) = Range(cache[k]) \union {m}
      /\ Len(Heard(d)) > 0 /\ Heard(d)[Len(Heard(d))] = m
      /\ Reached(d) \in Queue(k) /\ Range(Reached(d)) = Range(addrs[k]) \union {m}
      /\ new \in Queue(k) /\ Range(new) = Range(cache[k]) \union {m} \union (Range(d.known) \ {k})
  BY ReceiverHears
<1>3. /\ d \in Hello /\ Range(d.known) \subseteq acked[h] \union {h}
      /\ acked \in [Nodes -> SUBSET Nodes] /\ cache \in [Nodes -> Seq(Nodes)] /\ addrs \in [Nodes -> Seq(Nodes)]
      /\ \A n \in Nodes : cache[n] \in Queue(n) /\ addrs[n] \in Queue(n)
      /\ h \notin acked[h] /\ Range(cache[h]) = acked[h] /\ Range(addrs[h]) = acked[h]
      /\ \A n \in Nodes \ {h} : /\ acked[n] \subseteq {h} /\ Range(addrs[n]) \subseteq {h}
                               /\ Range(cache[n]) \subseteq acked[h] \union {h}
  BY DEF HelloInv, AtRendezvous, HeardThere
<1> HIDE DEF k, m, new
<1>4. \A n : Queue(n) \subseteq Seq(Nodes)
  <2>1. ASSUME NEW n, NEW q \in Queue(n) PROVE q \in Seq(Nodes)
    <3>1. q \in Seq(Nodes \ {n}) /\ Nodes \ {n} \subseteq Nodes
      BY DEF Queue
    <3> QED BY <3>1, SeqMonotonic
  <2> QED BY <2>1
<1>5. /\ acked'[k] = acked[k] \union {m} /\ cache'[k] = new /\ addrs'[k] = Reached(d)
      /\ \A n \in Nodes \ {k} : acked'[n] = acked[n] /\ cache'[n] = cache[n] /\ addrs'[n] = addrs[n]
      /\ acked' \in [Nodes -> SUBSET Nodes] /\ cache' \in [Nodes -> Seq(Nodes)] /\ addrs' \in [Nodes -> Seq(Nodes)]
  <2>1. new \in Seq(Nodes) /\ Reached(d) \in Seq(Nodes)
    BY <1>2, <1>4
  <2> QED BY <1>1, <1>2, <1>3, <2>1
<1>6. /\ \A n \in Nodes : Range(cache[n]) \subseteq Range(cache'[n])
      /\ acked'[h] = IF k = h THEN acked[h] \union {m} ELSE acked[h]
  BY <1>2, <1>5
<1>7. HeardThere(h)'
  <2>1. \A n \in Nodes : cache'[n] \in Queue(n) /\ addrs'[n] \in Queue(n)
    BY <1>2, <1>3, <1>5
  <2>2. h \notin acked'[h] /\ Range(cache'[h]) = acked'[h] /\ Range(addrs'[h]) = acked'[h]
    BY <1>2, <1>3, <1>5, <1>6
  <2>3. ASSUME NEW n \in Nodes \ {h}
        PROVE  acked'[n] \subseteq {h} /\ Range(addrs'[n]) \subseteq {h} /\ Range(cache'[n]) \subseteq acked'[h] \union {h}
    <3>1. CASE n # k
      BY <1>3, <1>5, <1>6, <3>1
    <3>2. CASE n = k
      <4>1. m = h /\ acked'[h] = acked[h]
        BY <1>2, <1>6, <3>2
      <4> QED BY <1>2, <1>3, <1>5, <3>2, <4>1
    <3> QED BY <3>1, <3>2
  <2> QED BY <1>5, <2>1, <2>2, <2>3 DEF HeardThere
<1>8. ASSUME NEW e \in SentOn(d)
      PROVE  e \in Hello /\ e.from # e.to /\ h \in {e.from, e.to} /\ Range(e.known) \subseteq acked'[h] \union {h}
  <2>1. PICK o \in {m} \union Pushed(k, m, Reached(d)) :
               /\ o \in Nodes \ {k} /\ e = HelloTo(k, o, Snapshot(Heard(d), {k, o}))
               /\ e \in Hello /\ Range(e.known) \subseteq Range(Heard(d))
    BY SentTells DEF k, m
  <2>2. e.from = k /\ e.to = o
    BY <2>1 DEF HelloTo
  <2>3. CASE k = h
    <3>1. Range(Heard(d)) = acked'[h]
      BY <1>2, <1>3, <1>6, <2>3
    <3>2. e.from # e.to /\ h \in {e.from, e.to}
      BY <2>1, <2>2, <2>3
    <3> QED BY <2>1, <3>1, <3>2
  <2>4. CASE k # h
    <3>1. m = h
      BY <1>2, <2>4
    <3>2. Pushed(k, m, Reached(d)) \subseteq Range(Reached(d)) \ {m}
      BY DEF Pushed
    <3>3. o = h
      BY <1>2, <1>3, <2>1, <2>4, <3>1, <3>2
    <3> QED BY <1>2, <1>3, <1>6, <2>1, <2>2, <2>4, <3>1, <3>3
  <2> QED BY <2>3, <2>4
<1>9. AtRendezvous(h)'
  <2>1. ASSUME NEW e \in net'
        PROVE  e \in Hello /\ e.from # e.to /\ h \in {e.from, e.to} /\ Range(e.known) \subseteq acked'[h] \union {h}
    <3>1. CASE e \in SentOn(d)
      BY <1>8, <3>1
    <3>2. CASE e \in net
      BY <1>6, <3>2 DEF HelloInv, AtRendezvous
    <3> QED BY <1>1, <3>1, <3>2
  <2>2. ASSUME NEW n \in Nodes, NEW p \in Nodes, task[n][p] # NoTask
        PROVE  n # p /\ h \in {n, p} /\ Range(task[n][p].known) \subseteq acked'[h] \union {h}
    BY <1>6, <2>2 DEF HelloInv, AtRendezvous
  <2>3. task \in [Nodes -> [Nodes -> Task \union {NoTask}]]
    BY DEF HelloInv, AtRendezvous
  <2> QED BY <1>1, <2>1, <2>2, <2>3 DEF AtRendezvous
<1>10. ASSUME NEW n \in acked[h], NEW p \in acked[h], n # p, Told(h, n, p)
       PROVE  Told(h, n, p)'
  <2>1. n \in Nodes
    BY <1>3
  <2>2. CASE p \in Range(cache[n])
    BY <1>6, <2>1, <2>2 DEF Told
  <2>3. CASE p \notin Range(cache[n])
    <3>1. PICK e \in net : e.from = h /\ e.to = n /\ p \in Range(e.known)
      BY <1>10, <2>3 DEF Told
    <3>2. CASE e = d
      <4>1. n = k /\ p \in Range(cache'[k])
        BY <1>2, <1>5, <1>10, <3>1, <3>2 DEF k
      <4> QED BY <4>1 DEF Told
    <3>3. CASE e # d
      <4>1. e \in net'
        BY <1>1, <3>3
      <4> QED BY <3>1, <4>1 DEF Told
    <3> QED BY <3>2, <3>3
  <2> QED BY <2>2, <2>3
<1>11. ASSUME k = h, m \notin acked[h], NEW o \in acked[h]
       PROVE  /\ HelloFits => Told(h, o, m)' /\ Told(h, m, o)'
              /\ MaxKnownPeers > 0 => Told(h, o, m)'
  <2> DEFINE toOld == HelloTo(k, o, Snapshot(Heard(d), {k, o}))
             toNew == HelloTo(k, m, Snapshot(Heard(d), {k, m}))
  <2>1. o \in Nodes \ {k} /\ m \in Nodes \ {k} /\ o # m /\ o \in Range(Heard(d)) /\ m \in Range(Heard(d))
    BY <1>2, <1>3, <1>11
  <2>2. toNew \in net'
    <3>1. ~ HeldBack(k, m)
      BY <1>11 DEF HeldBack
    <3>2. toNew \in Answers(k, m, Heard(d))
      BY <3>1 DEF Answers
    <3> QED BY <1>1, <3>2 DEF SentOn, k, m
  <2>3. toOld \in net'
    <3>1. ~ Contains(cache[k], m)
      <4>1. cache[k] \in Seq(Nodes)
        BY <1>2, <1>3
      <4>2. Range(cache[k]) = {cache[k][i] : i \in 1 .. Len(cache[k])}
        BY <4>1, RangeEquality
      <4> QED BY <1>3, <1>11, <4>2 DEF Contains
    <3>2. o \in Pushed(k, m, Reached(d))
      BY <1>2, <1>3, <1>11, <2>1, <3>1 DEF Pushed
    <3>3. toOld \in Pushes(k, Pushed(k, m, Reached(d)), Heard(d))
      BY <3>2 DEF Pushes
    <3> QED BY <1>1, <3>3 DEF SentOn, k, m
  <2>4. /\ toOld.from = h /\ toOld.to = o /\ toOld.known = Snapshot(Heard(d), {k, o})
        /\ toNew.from = h /\ toNew.to = m /\ toNew.known = Snapshot(Heard(d), {k, m})
    BY <1>11 DEF HelloTo
  <2>5. HelloFits => o \in Range(Snapshot(Heard(d), {k, m})) /\ m \in Range(Snapshot(Heard(d), {k, o}))
    BY <1>2, <2>1, SnapshotTells
  <2>6. MaxKnownPeers > 0 => m \in Range(Snapshot(Heard(d), {k, o}))
    BY <1>2, <2>1, SnapshotTells
  <2> HIDE DEF toOld, toNew
  <2> QED BY <2>2, <2>3, <2>4, <2>5, <2>6 DEF Told
<1>12. AllTold(h)'
  <2>1. ASSUME NEW n \in acked'[h], NEW p \in acked'[h], n # p
        PROVE  /\ HelloFits => Told(h, n, p)'
               /\ MaxKnownPeers > 0 => Told(h, n, p)' \/ Told(h, p, n)'
    <3>1. CASE n \in acked[h] /\ p \in acked[h]
      BY <1>10, <2>1, <3>1 DEF HelloInv, AllTold
    <3>2. CASE n \notin acked[h]
      <4>1. k = h /\ n = m /\ p \in acked[h]
        BY <1>6, <2>1, <3>2
      <4> QED BY <1>11, <3>2, <4>1
    <3>3. CASE p \notin acked[h]
      <4>1. k = h /\ p = m /\ n \in acked[h]
        BY <1>6, <2>1, <3>3
      <4> QED BY <1>11, <3>3, <4>1
    <3> QED BY <3>1, <3>2, <3>3
  <2> QED BY <2>1 DEF AllTold, HelloFits
<1> QED BY <1>7, <1>9, <1>12 DEF HelloInv

\* The first hello of a task tells what n knows then, the later ones the same.
LEMMA RetryKeepsInv ==
  ASSUME CacheFits, NEW h \in Nodes, HelloInv(h), NEW n \in Nodes, NEW m \in Nodes, Retry(n, m)
  PROVE  HelloInv(h)'
<1> DEFINE tk == task[n][m]
           known == IF tk.left = Sends THEN Snapshot(cache[n], {n}) ELSE tk.known
           e == HelloTo(n, m, known)
           later == [left |-> tk.left - 1, known |-> known]
<1>1. tk # NoTask /\ UNCHANGED <<acked, cache, addrs>>
  BY DEF Retry
<1>2. /\ tk \in Task /\ n # m /\ h \in {n, m} /\ Range(tk.known) \subseteq acked[h] \union {h}
      /\ task \in [Nodes -> [Nodes -> Task \union {NoTask}]]
  BY <1>1 DEF HelloInv, AtRendezvous
<1>3. tk.left \in 1 .. Sends /\ tk.known \in Seq(Nodes) /\ Sends \in Nat
  <2>1. Sends \in Nat
    BY HellosAssumption
  <2> QED BY <1>2, <2>1 DEF Task
<1>4. known \in Seq(Nodes) /\ Range(known) \subseteq acked[h] \union {h}
  <2>1. cache[n] \in Queue(n) /\ Range(cache[n]) \subseteq acked[h] \union {h}
    BY DEF HelloInv, HeardThere
  <2>2. Snapshot(cache[n], {n}) \in Seq(Nodes) /\ Range(Snapshot(cache[n], {n})) \subseteq Range(cache[n])
    BY <2>1, SnapshotTells
  <2> HIDE DEF tk
  <2> QED BY <1>2, <1>3, <2>1, <2>2
<1>5. e \in Hello /\ e.from = n /\ e.to = m /\ e.known = known
  <2> HIDE DEF known
  <2> QED BY <1>4 DEF HelloTo, Hello
<1>6. net' = net \/ net' = net \union {e}
  BY DEF Retry
<1>7. \E t \in Task \union {NoTask} :
         /\ task' = [task EXCEPT ![n][m] = t]
         /\ t # NoTask => Range(t.known) \subseteq acked[h] \union {h}
  <2>1. CASE task' = [task EXCEPT ![n][m] = NoTask]
    BY <2>1
  <2>2. CASE tk.left # 1 /\ task' = [task EXCEPT ![n][m] = later]
    <3>1. tk.left - 1 \in 1 .. Sends
      <4> HIDE DEF tk
      <4> QED BY <1>3, <2>2
    <3>2. later \in Task /\ later.known = known
      <4> HIDE DEF known, tk
      <4> QED BY <1>4, <3>1 DEF Task
    <3> HIDE DEF later
    <3> QED BY <1>4, <2>2, <3>2
  <2>3. task' = [task EXCEPT ![n][m] = NoTask] \/ (tk.left # 1 /\ task' = [task EXCEPT ![n][m] = later])
    BY Zenon DEF Retry
  <2> QED BY <2>1, <2>2, <2>3
<1> HIDE DEF e, later, known, tk
<1>8. PICK t \in Task \union {NoTask} :
         /\ task' = [task EXCEPT ![n][m] = t]
         /\ t # NoTask => Range(t.known) \subseteq acked[h] \union {h}
  BY <1>7
<1>9. /\ task' \in [Nodes -> [Nodes -> Task \union {NoTask}]]
      /\ \A i, j \in Nodes : task'[i][j] = IF i = n /\ j = m THEN t ELSE task[i][j]
  BY <1>2, <1>8
<1>10. AtRendezvous(h)'
  <2>1. ASSUME NEW x \in net'
        PROVE  x \in Hello /\ x.from # x.to /\ h \in {x.from, x.to} /\ Range(x.known) \subseteq acked'[h] \union {h}
    <3>1. CASE x \in net
      BY <1>1, <3>1 DEF HelloInv, AtRendezvous
    <3>2. CASE x = e
      BY <1>1, <1>2, <1>4, <1>5, <3>2
    <3> QED BY <1>6, <3>1, <3>2
  <2>2. ASSUME NEW i \in Nodes, NEW j \in Nodes, task'[i][j] # NoTask
        PROVE  i # j /\ h \in {i, j} /\ Range(task'[i][j].known) \subseteq acked'[h] \union {h}
    <3>1. CASE i = n /\ j = m
      <4>1. task'[i][j] = t
        BY <1>9, <3>1
      <4> QED BY <1>1, <1>2, <1>8, <2>2, <3>1, <4>1
    <3>2. CASE ~ (i = n /\ j = m)
      <4>1. task'[i][j] = task[i][j]
        BY <1>9, <3>2
      <4> QED BY <1>1, <2>2, <4>1 DEF HelloInv, AtRendezvous
    <3> QED BY <3>1, <3>2
  <2> QED BY <1>9, <2>1, <2>2 DEF AtRendezvous
<1>11. HeardThere(h)'
  BY <1>1 DEF HelloInv, HeardThere
<1>12. AllTold(h)'
  <2>1. net \subseteq net'
    BY <1>6
  <2>2. \A i, j : Told(h, i, j) => Told(h, i, j)'
    BY <1>1, <2>1 DEF Told
  <2> QED BY <1>1, <2>2 DEF HelloInv, AllTold, HelloFits
<1> QED BY <1>10, <1>11, <1>12 DEF HelloInv

LEMMA MeetKeepsInv ==
  ASSUME NEW h \in Nodes, HelloInv(h), Centre(graph, h), NEW n \in Nodes, NEW m \in Nodes, Meet(n, m)
  PROVE  HelloInv(h)'
<1> DEFINE t == [left |-> Sends, known |-> << >>]
<1>1. /\ <<n, m>> \in graph /\ task' = [task EXCEPT ![n][m] = t]
      /\ UNCHANGED <<net, acked, cache, addrs>>
  BY DEF Meet
<1>2. n # m /\ h \in {n, m} /\ task \in [Nodes -> [Nodes -> Task \union {NoTask}]]
  BY <1>1 DEF Centre, HelloInv, AtRendezvous
<1>3. t \in Task /\ Range(t.known) = {}
  <2>1. Sends \in 1 .. Sends
    BY HellosAssumption
  <2>2. << >> \in Seq(Nodes)
    BY EmptySeq
  <2>3. Range(<< >>) = {}
    BY DEF Range
  <2> QED BY <2>1, <2>2, <2>3 DEF Task
<1> HIDE DEF t
<1>4. /\ task' \in [Nodes -> [Nodes -> Task \union {NoTask}]]
      /\ \A i, j \in Nodes : task'[i][j] = IF i = n /\ j = m THEN t ELSE task[i][j]
  BY <1>1, <1>2, <1>3
<1>5. AtRendezvous(h)'
  <2>1. ASSUME NEW i \in Nodes, NEW j \in Nodes, task'[i][j] # NoTask
        PROVE  i # j /\ h \in {i, j} /\ Range(task'[i][j].known) \subseteq acked'[h] \union {h}
    <3>1. CASE i = n /\ j = m
      BY <1>2, <1>3, <1>4, <3>1
    <3>2. CASE ~ (i = n /\ j = m)
      <4>1. task'[i][j] = task[i][j]
        BY <1>4, <3>2
      <4> QED BY <1>1, <2>1, <4>1 DEF HelloInv, AtRendezvous
    <3> QED BY <3>1, <3>2
  <2> QED BY <1>1, <1>4, <2>1 DEF HelloInv, AtRendezvous
<1>6. HeardThere(h)' /\ AllTold(h)'
  BY <1>1 DEF HelloInv, HeardThere, AllTold, Told, HelloFits
<1> QED BY <1>5, <1>6 DEF HelloInv

\* Datagrams that get lost and crashes end what is claimed.
HellosInv == \E h \in Nodes : Centre(graph, h) /\ (clean => HelloInv(h))

LEMMA HellosStart ==
  ASSUME Rendezvous, HellosInit
  PROVE  HellosInv
<1>1. PICK h \in Nodes : Centre(graph, h)
  BY DEF Rendezvous, HellosInit
<1>2. /\ net = {} /\ acked = Nobody /\ cache = [n \in Nodes |-> << >>] /\ addrs = [n \in Nodes |-> << >>]
      /\ task = Idle0
  BY DEF HellosInit
<1>3. Range(<< >>) = {} /\ (\A n : << >> \in Queue(n)) /\ << >> \in Seq(Nodes)
  <2>1. \A n : << >> \in Seq(Nodes \ {n})
    BY EmptySeq
  <2>2. Distinct(<< >>)
    BY EmptySeq DEF Distinct
  <2>3. Range(<< >>) = {}
    BY DEF Range
  <2> QED BY <2>1, <2>2, <2>3, EmptySeq DEF Queue
<1>4. AtRendezvous(h)
  BY <1>2 DEF AtRendezvous, Idle0
<1>5. HeardThere(h)
  <2>1. cache \in [Nodes -> Seq(Nodes)] /\ addrs \in [Nodes -> Seq(Nodes)] /\ acked \in [Nodes -> SUBSET Nodes]
    BY <1>2, <1>3 DEF Nobody
  <2>2. \A n \in Nodes : cache[n] = << >> /\ addrs[n] = << >> /\ acked[n] = {}
    BY <1>2 DEF Nobody
  <2> QED BY <1>3, <2>1, <2>2 DEF HeardThere
<1>6. AllTold(h)
  BY <1>2 DEF AllTold, Nobody
<1> QED BY <1>1, <1>4, <1>5, <1>6 DEF HellosInv, HelloInv

LEMMA HellosStepKeepsInv ==
  ASSUME CacheFits, HellosInv, [HellosNext]_helloVars
  PROVE  HellosInv'
<1>1. PICK h \in Nodes : Centre(graph, h) /\ (clean => HelloInv(h))
  BY DEF HellosInv
<1> USE <1>1
<1>2. ASSUME UNCHANGED <<net, acked, cache, addrs, task>>, HelloInv(h) PROVE HelloInv(h)'
  BY <1>2 DEF HelloInv, AtRendezvous, HeardThere, AllTold, Told
<1>3. ASSUME graph' = graph, clean' => clean /\ HelloInv(h)' PROVE HellosInv'
  BY <1>3 DEF HellosInv, Centre
<1>4. ASSUME NEW n \in Nodes, NEW m \in Nodes, Meet(n, m) PROVE HellosInv'
  BY <1>3, <1>4, MeetKeepsInv DEF Meet
<1>5. ASSUME NEW n \in Nodes, NEW m \in Nodes, Retry(n, m) PROVE HellosInv'
  BY <1>3, <1>5, RetryKeepsInv DEF Retry
<1>6. ASSUME NEW n \in Nodes, NEW m \in Nodes, HelloAgain(n, m) PROVE HellosInv'
  BY <1>2, <1>3, <1>6 DEF HelloAgain
<1>7. ASSUME NEW d \in net, Receive(d) PROVE HellosInv'
  BY <1>3, <1>7, ReceiveKeepsInv DEF Receive
<1>8. ASSUME NEW d \in net, Drop(d) \/ Lose(d) PROVE HellosInv'
  BY <1>3, <1>8 DEF Drop, Lose
<1>9. ASSUME NEW n \in Nodes, Close(n) \/ Start(n) PROVE HellosInv'
  BY <1>2, <1>3, <1>9 DEF Close, Start
<1>10. ASSUME NEW n \in Nodes, Crash(n) PROVE HellosInv'
  BY <1>3, <1>10 DEF Crash
<1>11. CASE UNCHANGED helloVars
  BY <1>2, <1>3, <1>11 DEF helloVars
<1> QED BY <1>4, <1>5, <1>6, <1>7, <1>8, <1>9, <1>10, <1>11 DEF HellosNext

LEMMA InvGivesIntroduced ==
  ASSUME HellosInv, Quiet, clean
  PROVE  \A h \in Nodes : \A n, m \in acked[h] : n # m =>
            /\ HelloFits => Contains(cache[n], m)
            /\ MaxKnownPeers > 0 => Contains(cache[n], m) \/ Contains(cache[m], n)
<1>1. PICK c \in Nodes : HelloInv(c)
  BY DEF HellosInv
<1>2. ASSUME NEW n \in Nodes, NEW m \in Range(cache[n]) PROVE Contains(cache[n], m)
  <2>1. cache[n] \in Seq(Nodes)
    BY <1>1 DEF HelloInv, HeardThere
  <2>2. Range(cache[n]) = {cache[n][i] : i \in 1 .. Len(cache[n])}
    BY <2>1, RangeEquality
  <2> QED BY <2>2 DEF Contains
<1>3. ASSUME NEW h \in Nodes, NEW n \in acked[h], NEW m \in acked[h], n # m
      PROVE  /\ HelloFits => Contains(cache[n], m)
             /\ MaxKnownPeers > 0 => Contains(cache[n], m) \/ Contains(cache[m], n)
  <2>1. h = c
    BY <1>1, <1>3 DEF HelloInv, HeardThere
  <2>2. n \in Nodes /\ m \in Nodes
    BY <1>1, <1>3 DEF HelloInv, HeardThere
  <2>3. \A i, j : Told(c, i, j) => j \in Range(cache[i])
    BY DEF Quiet, Told
  <2> QED BY <1>1, <1>2, <1>3, <2>1, <2>2, <2>3 DEF HelloInv, AllTold
<1> QED BY <1>3

\* Where all meet at one host, in groups one hello can tell of, two nodes that said hello
\* to it know of each other as soon as the network is quiet (wan_discovery.py:677).
THEOREM EverybodyIsIntroduced ==
  ASSUME Rendezvous, CacheFits, HelloFits
  PROVE  HelloSpec => []Introduced
<1>1. HellosInit => HellosInv
  BY HellosStart
<1>2. HellosInv /\ [HellosNext]_helloVars => HellosInv'
  BY HellosStepKeepsInv
<1>3. HellosInv => Introduced
  BY InvGivesIntroduced DEF Introduced
<1> QED BY <1>1, <1>2, <1>3, PTL DEF HelloSpec

\* In larger groups a newcomer is told of the latest peers only, but each of the others
\* of it: of any two at least one can go to the other.
OneKnowsTheOther ==
    Quiet /\ clean =>
        \A h \in Nodes : \A n, m \in acked[h] : n # m => Contains(cache[n], m) \/ Contains(cache[m], n)

THEOREM OneOfTwoIsIntroduced ==
  ASSUME Rendezvous, CacheFits, MaxKnownPeers > 0
  PROVE  HelloSpec => []OneKnowsTheOther
<1>1. HellosInit => HellosInv
  BY HellosStart
<1>2. HellosInv /\ [HellosNext]_helloVars => HellosInv'
  BY HellosStepKeepsInv
<1>3. HellosInv => OneKnowsTheOther
  BY InvGivesIntroduced DEF OneKnowsTheOther
<1> QED BY <1>1, <1>2, <1>3, PTL DEF HelloSpec
=============================================================================
