---------------------------- MODULE RoastsProofs ----------------------------
(***************************************************************************)
(* Whatever the number of devices, exchanges, edits, pushers and faults:   *)
(* a device is trusted only after both users said yes, and an edit of a    *)
(* paired device's roast is never lost, as long as no edit is staged while *)
(* a push of that device is under way and one device edits a roast.        *)
(* And whatever files, peers and contents there are: a row of the index    *)
(* names the entry with its bytes, and a search shows the latest version.  *)
(* And whatever the graph of nodes, their budgets and the sizes of feeds:  *)
(* a node that must give up feeds gives up those that most others hold.    *)
(***************************************************************************)
EXTENDS Index, CrossEdits, Retention, NaturalLemmas, SequenceTheorems, TLAPS

(***************************************************************************)
(* Pairing.  Of the two in an exchange, each has received no more than the *)
(* other sent, and sends a round only after the one before was received.   *)
(* So a side that goes on past the answers has seen the other's yes, and   *)
(* whoever said yes last has noted that both did.                          *)
(***************************************************************************)
OfTwo ==
    /\ with # {} => \E a, b \in Devices : a # b /\ with = {a, b}
    /\ \A d \in Devices : side[d].on => d \in with

InRounds ==
    \A d \in with : /\ side[d].got <= side[Other(d)].sent
                   /\ side[d].got <= side[d].sent /\ side[d].sent <= side[d].got + 1

PastAnswers ==
    \A d \in with :
        side[d].on => /\ side[d].sent >= Answer => side[d].yes
                      /\ side[d].got >= Answer => side[Other(d)].yes

BothNoted == \A d \in with : side[d].yes /\ side[Other(d)].yes => with \in agreed

PairInv == PairTypeOK /\ OfTwo /\ InRounds /\ PastAnswers /\ BothNoted /\ TrustIsConsent

\* Each of the two has the other one as its other.
LEMMA OtherOfTwo ==
  ASSUME OfTwo, NEW d \in with
  PROVE  /\ Other(d) \in with /\ Other(d) # d /\ with = {d, Other(d)} /\ Other(Other(d)) = d
<1>1. PICK a, b \in Devices : a # b /\ with = {a, b}
  BY DEF OfTwo
<1>2. ASSUME NEW e \in with PROVE Other(e) \in with /\ Other(e) # e
  BY <1>1 DEF Other
<1> QED BY <1>1, <1>2

LEMMA PairStepKeepsInv ==
  ASSUME PairInv, PairNext
  PROVE  PairInv'
<1> USE PairingAssumption DEF PairInv, Answer, Signature, Name
<1>t. /\ trusted \in [Devices -> SUBSET Devices] /\ with \subseteq Devices
      /\ side \in [Devices -> Side] /\ agreed \subseteq SUBSET Devices
      /\ pairings \in 0 .. MaxPairings /\ removals \in 0 .. MaxRemovals
  BY DEF PairTypeOK
<1>o. \A d \in with : Other(d) \in with /\ Other(d) # d /\ with = {d, Other(d)} /\ Other(Other(d)) = d
  BY OtherOfTwo
<1>w. UNCHANGED with => \A d : Other(d)' = Other(d)
  BY DEF Other
\* A device that is still in the exchange past the answers may trust the other.
<1>c. ASSUME NEW d \in Devices, side[d].on, side[d].got >= Answer, UNCHANGED agreed,
             Trusts(d) \/ UNCHANGED trusted
      PROVE  trusted' \in [Devices -> SUBSET Devices] /\ TrustIsConsent'
  <2>1. d \in with /\ side[d] \in Side
    BY <1>c, <1>t DEF OfTwo
  <2>2. side[d].yes /\ side[Other(d)].yes
    <3>1. side[d].sent >= side[d].got
      BY <2>1 DEF InRounds
    <3>2. side[d].sent >= Answer
      BY <1>c, <2>1, <3>1 DEF Side
    <3> QED BY <1>c, <2>1, <3>2 DEF PastAnswers
  <2>3. {d, Other(d)} \in agreed /\ Other(d) \in Devices
    BY <1>o, <1>t, <2>1, <2>2 DEF BothNoted
  <2>4. CASE UNCHANGED trusted
    BY <1>c, <1>t, <2>4 DEF TrustIsConsent
  <2>5. CASE Trusts(d)
    <3>1. /\ trusted' \in [Devices -> SUBSET Devices]
          /\ \A e \in Devices : trusted'[e] = IF e = d THEN trusted[d] \union {Other(d)} ELSE trusted[e]
      BY <1>t, <2>3, <2>5 DEF Trusts
    <3> QED BY <1>c, <2>3, <3>1 DEF TrustIsConsent
  <2> QED BY <1>c, <2>4, <2>5
<1>1. ASSUME NEW a \in Devices, NEW b \in Devices, StartPairing(a, b) PROVE PairInv'
  <2>1. with' = {a, b} /\ a # b /\ UNCHANGED <<trusted, agreed, removals>>
    BY <1>1 DEF StartPairing
  <2>2. /\ side' \in [Devices -> Side]
        /\ \A d \in Devices : /\ side'[d].on => d \in {a, b}
                              /\ side'[d].sent = 0 /\ side'[d].got = 0 /\ side'[d].yes = FALSE
    <3>1. ASSUME NEW mine \in Side, NEW on \in BOOLEAN
          PROVE  LET now == [mine EXCEPT !.on = on]
                 IN  /\ now \in Side /\ now.on = on
                     /\ now.sent = mine.sent /\ now.got = mine.got /\ now.yes = mine.yes
      BY DEF Side
    <3>2. Away \in Side /\ Away.sent = 0 /\ Away.got = 0 /\ Away.yes = FALSE
      BY DEF Away, Side
    <3>3. \A d \in Devices : (d \in {a, b}) \in BOOLEAN
      OBVIOUS
    <3>4. side' = [d \in Devices |-> [Away EXCEPT !.on = d \in {a, b}]]
      BY <1>1 DEF StartPairing
    <3>5. \A d \in Devices : /\ side'[d] \in Side /\ side'[d].on = (d \in {a, b})
                              /\ side'[d].sent = 0 /\ side'[d].got = 0 /\ side'[d].yes = FALSE
      BY <3>1, <3>2, <3>3, <3>4, Zenon
    <3> QED BY <3>4, <3>5, Zenon
  <2>4. pairings' \in 0 .. MaxPairings
    BY <1>1, <1>t DEF StartPairing
  <2>5. OfTwo'
    BY <2>1, <2>2 DEF OfTwo
  <2>6. \A d \in with' : d \in Devices /\ Other(d)' \in Devices
    BY <2>1 DEF Other
  <2>7. InRounds' /\ PastAnswers' /\ BothNoted'
    BY <2>1, <2>2, <2>6 DEF InRounds, PastAnswers, BothNoted
  <2>8. TrustIsConsent'
    BY <2>1 DEF TrustIsConsent
  <2> QED BY <1>t, <2>1, <2>2, <2>4, <2>5, <2>7, <2>8 DEF PairTypeOK
<1>2. ASSUME NEW d \in Devices, Send(d) PROVE PairInv'
  <2>1. PICK yes \in BOOLEAN :
          /\ side[d].sent + 1 # Answer => yes = side[d].yes
          /\ side' = [side EXCEPT ![d].sent = @ + 1, ![d].yes = yes,
                                  ![d].on = side[d].sent + 1 = Answer => yes]
          /\ agreed' = IF yes /\ side[Other(d)].yes THEN agreed \union {with} ELSE agreed
    BY <1>2, <1>t DEF Send, Side
  <2>2. /\ side[d].on /\ side[d].sent = side[d].got /\ side[d].sent < Name
        /\ UNCHANGED <<trusted, with, pairings, removals>>
    BY <1>2 DEF Send
  <2>3. d \in with /\ Other(d) \in with /\ Other(d) \in Devices
    BY <1>t, <1>o, <2>2 DEF OfTwo
  <2>4. /\ side' \in [Devices -> Side]
        /\ \A e \in Devices \ {d} : side'[e] = side[e]
        /\ side'[d].sent = side[d].sent + 1 /\ side'[d].got = side[d].got /\ side'[d].yes = yes
        /\ side'[d].on <=> (side[d].sent + 1 = Answer => yes)
    <3> DEFINE on == side[d].sent + 1 = Answer => yes
               mine == [side[d] EXCEPT !.sent = side[d].sent + 1, !.yes = yes, !.on = on]
    <3>1. on \in BOOLEAN
      OBVIOUS
    <3>2. side' = [side EXCEPT ![d] = mine]
      BY <1>t, <2>1
    <3>3. on <=> (side[d].sent + 1 = Answer => yes)
      OBVIOUS
    <3>4. side[d] \in Side /\ side[d].sent + 1 \in 0 .. Name
      BY <1>t, <2>2 DEF Side
    <3> HIDE DEF on
    <3>5. mine \in Side /\ mine.sent = side[d].sent + 1 /\ mine.got = side[d].got /\ mine.yes = yes /\ mine.on = on
      BY <3>1, <3>4 DEF Side
    <3> HIDE DEF mine
    <3> QED BY <1>t, <3>2, <3>3, <3>5
  <2>5. agreed' \subseteq SUBSET Devices /\ agreed \subseteq agreed'
    BY <1>t, <2>1
  <2>6. OfTwo'
    BY <2>2, <2>3, <2>4 DEF OfTwo
  <2>7. InRounds'
    BY <1>t, <1>o, <1>w, <2>2, <2>3, <2>4 DEF InRounds, Side
  <2>8. PastAnswers'
    <3> SUFFICES ASSUME NEW e \in with, side'[e].on
                 PROVE  /\ side'[e].sent >= Answer => side'[e].yes
                        /\ side'[e].got >= Answer => side'[Other(e)].yes
      BY <1>w, <2>2 DEF PastAnswers
    <3>1. CASE e = d
      BY <1>t, <1>o, <2>1, <2>2, <2>3, <2>4, <3>1 DEF PastAnswers, Side
    <3>2. CASE e # d
      <4>1. Other(e) = d /\ Other(d) = e /\ side'[e] = side[e] /\ side[e] \in Side
        BY <1>t, <1>o, <2>3, <2>4, <3>2
      <4>2. side[e].got >= Answer => yes
        BY <1>t, <2>1, <2>3, <4>1 DEF PastAnswers, InRounds, Side
      <4> QED BY <2>4, <4>1, <4>2 DEF PastAnswers
    <3> QED BY <3>1, <3>2
  <2>9. BothNoted'
    <3> SUFFICES ASSUME NEW e \in with, side'[e].yes, side'[Other(e)].yes PROVE with \in agreed'
      BY <1>w, <2>2 DEF BothNoted
    <3>1. yes /\ side[Other(d)].yes
      BY <1>o, <1>t, <2>3, <2>4
    <3> QED BY <2>1, <3>1
  <2>10. TrustIsConsent'
    BY <2>2, <2>5 DEF TrustIsConsent
  <2> QED BY <1>t, <2>2, <2>4, <2>5, <2>6, <2>7, <2>8, <2>9, <2>10 DEF PairTypeOK
<1>3. ASSUME NEW d \in Devices, Receive(d) PROVE PairInv'
  <2>1. /\ side[d].on /\ side[d].got < side[d].sent /\ side[d].got < side[Other(d)].sent
        /\ side' = [side EXCEPT ![d].got = @ + 1, ![d].on = ~ Refused(d) /\ side[d].got + 1 # Name]
        /\ UNCHANGED <<with, agreed, pairings, removals>>
    BY <1>3 DEF Receive
  <2>2. d \in with /\ Other(d) \in with /\ Other(d) \in Devices
    BY <1>t, <1>o, <2>1 DEF OfTwo
  <2>3. /\ side' \in [Devices -> Side]
        /\ \A e \in Devices \ {d} : side'[e] = side[e]
        /\ side'[d].sent = side[d].sent /\ side'[d].got = side[d].got + 1 /\ side'[d].yes = side[d].yes
        /\ side'[d].on => (side[d].got + 1 = Answer => side[Other(d)].yes)
    <3> DEFINE on == ~ Refused(d) /\ side[d].got + 1 # Name
               mine == [side[d] EXCEPT !.got = side[d].got + 1, !.on = on]
    <3>1. on \in BOOLEAN /\ (on => (side[d].got + 1 = Answer => side[Other(d)].yes))
      BY DEF Refused
    <3>2. side' = [side EXCEPT ![d] = mine]
      BY <1>t, <2>1
    <3>4. side[d] \in Side /\ side[d].got + 1 \in 0 .. Name
      BY <1>t, <2>1 DEF Side
    <3> HIDE DEF on
    <3>5. mine \in Side /\ mine.sent = side[d].sent /\ mine.got = side[d].got + 1 /\ mine.yes = side[d].yes /\ mine.on = on
      BY <3>1, <3>4 DEF Side
    <3> HIDE DEF mine
    <3> QED BY <1>t, <3>1, <3>2, <3>5
  <2>4. OfTwo'
    BY <2>1, <2>2, <2>3 DEF OfTwo
  <2>5. InRounds'
    BY <1>t, <1>o, <1>w, <2>1, <2>2, <2>3 DEF InRounds, Side
  <2>6. PastAnswers'
    <3> SUFFICES ASSUME NEW e \in with, side'[e].on
                 PROVE  /\ side'[e].sent >= Answer => side'[e].yes
                        /\ side'[e].got >= Answer => side'[Other(e)].yes
      BY <1>w, <2>1 DEF PastAnswers
    <3>1. e \in Devices /\ side[e] \in Side /\ side'[Other(e)].yes = side[Other(e)].yes
      BY <1>t, <1>o, <2>3
    <3>2. CASE e = d
      <4>1. side'[d].got >= Answer => side[d].got >= Answer \/ side[d].got + 1 = Answer
        BY <1>t, <2>2, <2>3, <3>1, <3>2 DEF Side
      <4> QED BY <2>1, <2>3, <3>1, <3>2, <4>1 DEF PastAnswers
    <3>3. CASE e # d
      BY <2>1, <2>3, <3>1, <3>3 DEF PastAnswers
    <3> QED BY <3>2, <3>3
  <2>7. BothNoted'
    BY <1>t, <1>o, <1>w, <2>1, <2>2, <2>3 DEF BothNoted
  <2>8. trusted' \in [Devices -> SUBSET Devices] /\ TrustIsConsent'
    <3>1. CASE side[d].got + 1 = Name
      <4>1. side[d].got >= Answer
        BY <1>t, <3>1 DEF Side
      <4> QED BY <1>3, <1>c, <2>1, <3>1, <4>1 DEF Receive
    <3>2. CASE side[d].got + 1 # Name
      BY <1>3, <1>t, <3>2 DEF Receive, TrustIsConsent
    <3> QED BY <3>1, <3>2
  <2> QED BY <1>t, <2>1, <2>3, <2>4, <2>5, <2>6, <2>7, <2>8 DEF PairTypeOK
<1>4. ASSUME NEW d \in Devices, Fail(d) PROVE PairInv'
  <2>1. side[d].on /\ side' = [side EXCEPT ![d].on = FALSE] /\ UNCHANGED <<with, agreed, pairings, removals>>
    BY <1>4 DEF Fail
  <2>2. /\ side' \in [Devices -> Side]
        /\ \A e \in Devices : /\ side'[e].sent = side[e].sent /\ side'[e].got = side[e].got
                              /\ side'[e].yes = side[e].yes /\ (side'[e].on => side[e].on)
    <3> DEFINE mine == [side[d] EXCEPT !.on = FALSE]
    <3>1. side' = [side EXCEPT ![d] = mine]
      BY <2>1
    <3>2. side[d] \in Side
      BY <1>t
    <3>3. mine \in Side /\ mine.sent = side[d].sent /\ mine.got = side[d].got /\ mine.yes = side[d].yes
      BY <3>2 DEF Side
    <3> HIDE DEF mine
    <3> QED BY <1>t, <2>1, <3>1, <3>3
  <2>3. OfTwo' /\ InRounds' /\ PastAnswers' /\ BothNoted'
    BY <1>t, <1>o, <1>w, <2>1, <2>2 DEF OfTwo, InRounds, PastAnswers, BothNoted
  <2>4. trusted' \in [Devices -> SUBSET Devices] /\ TrustIsConsent'
    <3>1. CASE Proved(d)
      <4>1. side[d].got >= Answer
        BY <1>t, <3>1 DEF Proved, Side
      <4> QED BY <1>4, <1>c, <2>1, <3>1, <4>1 DEF Fail
    <3>2. CASE ~ Proved(d)
      BY <1>4, <1>t, <3>2 DEF Fail, TrustIsConsent
    <3> QED BY <3>1, <3>2
  <2> QED BY <1>t, <2>1, <2>2, <2>3, <2>4 DEF PairTypeOK
<1>5. ASSUME NEW d \in Devices, NEW o \in Devices, RemoveDevice(d, o) PROVE PairInv'
  <2>1. OfTwo' /\ InRounds' /\ PastAnswers' /\ BothNoted'
    BY <1>5, <1>w DEF RemoveDevice, OfTwo, InRounds, PastAnswers, BothNoted
  <2>2. trusted' \in [Devices -> SUBSET Devices] /\ TrustIsConsent'
    BY <1>5, <1>t DEF RemoveDevice, TrustIsConsent
  <2> QED BY <1>5, <1>t, <2>1, <2>2 DEF RemoveDevice, PairTypeOK
<1> QED BY <1>1, <1>2, <1>3, <1>4, <1>5 DEF PairNext

LEMMA PairVarsKeepInv == PairInv /\ UNCHANGED pairVars => PairInv'
BY DEF pairVars, PairInv, PairTypeOK, OfTwo, InRounds, PastAnswers, BothNoted, TrustIsConsent, Other

LEMMA InitPairInv == PairInit => PairInv
BY PairingAssumption DEF PairInit, PairInv, PairTypeOK, Side, Away, Name, OfTwo, InRounds, PastAnswers,
   BothNoted, TrustIsConsent

-----------------------------------------------------------------------------
(***************************************************************************)
(* Edits of a paired device's roast.  What is staged, and what a push has  *)
(* in its hands, is the newest edit at its address; a push that was        *)
(* answered has left its edit with the owner; and a push forgets only the  *)
(* records of addresses of which no copy is left.  The last needs that     *)
(* nothing is staged while a push is under way.  That a folder of the      *)
(* owner holds one edit for an address loses none of them if one device    *)
(* edits a roast (OneEditor): an address names the roast of the entry that *)
(* is there, and the feed only grows.                                      *)
(***************************************************************************)
OneEditor == \A x, y \in Edits : Of[x] = Of[y] => By[x] = By[y]

Newest(d, s, x) ==
    /\ x \in Made /\ By[x] = d /\ addr[x] = s
    /\ \A y \in Made : By[y] = d /\ addr[y] = s => y <= x

AtOwner(x) == x \in inbox \/ x \in Range(log)

Addressed == \A x \in Made : addr[x] \in 1 .. Len(log) /\ RoastOf(log[addr[x]]) = Of[x]

InOrder == \A x \in Made : \A y \in Edits : By[y] = By[x] /\ y < x => y \in Made

CopyIsNewest ==
    \A d \in Devices : \A x \in copy[d] : Newest(d, addr[x], x) /\ addr[x] \in record[d]

PushIsNewest ==
    \A p \in Pushers :
        push[p].edit # NoEdit => First(p) \in push[p].todo /\ Newest(On[p], First(p), push[p].edit)

LeftCovers ==
    \A p \in Pushers : push[p].at # "idle" => \A x \in copy[On[p]] : addr[x] \in push[p].left

AnsweredIsAtOwner == \A p \in Pushers : push[p].at = "answered" => AtOwner(push[p].edit)

EditInv ==
    /\ DeliveryTypeOK /\ Addressed /\ InOrder /\ CopyIsNewest /\ PushIsNewest /\ LeftCovers
    /\ AnsweredIsAtOwner /\ NoEditLost

\* A published edit becomes an element of the feed, behind what is there.
LEMMA LogGrows ==
  ASSUME log \in Seq(Roasts \union Edits), NEW x \in Edits
  PROVE  /\ Append(log, x) \in Seq(Roasts \union Edits)
         /\ Len(log) \in Nat /\ Len(Append(log, x)) = Len(log) + 1
         /\ \A i \in 1 .. Len(log) : Append(log, x)[i] = log[i]
         /\ Range(Append(log, x)) = Range(log) \union {x}
<1>1. /\ Append(log, x) \in Seq(Roasts \union Edits) /\ Len(Append(log, x)) = Len(log) + 1
      /\ \A i \in 1 .. Len(log) : Append(log, x)[i] = log[i]
      /\ Append(log, x)[Len(log) + 1] = x
  BY AppendProperties
<1>2. DOMAIN Append(log, x) = 1 .. Len(log) + 1 /\ DOMAIN log = 1 .. Len(log) /\ Len(log) \in Nat
  BY <1>1
<1> QED BY <1>1, <1>2 DEF Range

\* Two edits that are both the newest at their address are one.
LEMMA NewestIsOne ==
  ASSUME NEW d, NEW s, NEW x, NEW y, Newest(d, s, x), Newest(d, s, y)
  PROVE  x = y
BY CrossEditsAssumption DEF Newest, Made

\* Edits at one address are of one device.
LEMMA OneDeviceAtAnAddress ==
  ASSUME OneEditor, Addressed, NEW x \in Made, NEW y \in Made, addr[x] = addr[y]
  PROVE  By[x] = By[y]
BY DEF OneEditor, Addressed, Made

LEMMA StageKeepsInv ==
  ASSUME EditInv, ~ StagesMeanwhile, NEW x \in Edits, Stage(x)
  PROVE  EditInv' 
<1> DEFINE d == By[x]
<1> USE CrossEditsAssumption DEF EditInv
<1>t. /\ Made \subseteq Edits /\ copy \in [Devices -> SUBSET Edits]
      /\ record \in [Devices -> SUBSET Nat] /\ push \in [Pushers -> Push]
      /\ addr \in [Edits -> 0 .. Len(log)] /\ Len(log) \in Nat /\ d \in Devices
  BY DEF DeliveryTypeOK, Made
<1>1. PICK s \in 1 .. Len(log) :
      /\ x \notin Made /\ addr' = [addr EXCEPT ![x] = s] /\ RoastOf(log[s]) = Of[x]
      /\ \A y \in Edits : By[y] = d /\ y < x => y \in Made
      /\ \A p \in Pushers : On[p] = d => push[p].at = "idle"
      /\ copy' = [copy EXCEPT ![d] = Written(copy[d], x, s)]
      /\ record' = [record EXCEPT ![d] = record[d] \union {s}]
      /\ UNCHANGED <<pairVars, log, push, inbox, lost, killed>>
  BY DEF Stage
<1>a. /\ s \in Nat /\ s # 0 /\ addr' \in [Edits -> 0 .. Len(log)] /\ addr'[x] = s
      /\ \A y \in Edits \ {x} : addr'[y] = addr[y]
  BY <1>t, <1>1
<1>m. Made' = Made \union {x}
  BY <1>t, <1>a, <1>1 DEF Made
<1>2. /\ copy' \in [Devices -> SUBSET Edits] /\ x \in copy'[d]
      /\ \A y \in copy'[d] : y = x \/ (y \in copy[d] /\ addr[y] # s)
      /\ \A y \in copy[d] : addr[y] # s => y \in copy'[d]
      /\ \A e \in Devices : e # d => copy'[e] = copy[e]
  <2> DEFINE now == Written(copy[d], x, s)
  <2>1. now \in SUBSET Edits /\ now = {y \in copy[d] : addr[y] # s} \union {x}
    BY <1>t DEF Written
  <2>2. copy' = [copy EXCEPT ![d] = now]
    BY <1>1
  <2>3. \A y : y \in now <=> y = x \/ (y \in copy[d] /\ addr[y] # s)
    BY <2>1
  <2> HIDE DEF now
  <2>4. copy' \in [Devices -> SUBSET Edits] /\ copy'[d] = now /\ \A e \in Devices : e # d => copy'[e] = copy[e]
    BY <1>t, <2>1, <2>2
  <2>5. \A y : y \in copy'[d] <=> y = x \/ (y \in copy[d] /\ addr[y] # s)
    BY <2>3, <2>4
  <2>6. x \in copy'[d]
    BY <2>5
  <2>7. \A y \in copy'[d] : y = x \/ (y \in copy[d] /\ addr[y] # s)
    BY <2>5
  <2>8. \A y \in copy[d] : addr[y] # s => y \in copy'[d]
    BY <2>5
  <2> QED BY <2>4, <2>6, <2>7, <2>8
<1>3. /\ record' \in [Devices -> SUBSET Nat] /\ s \in record'[d]
      /\ \A e \in Devices : record[e] \subseteq record'[e]
  <2> DEFINE now == record[d] \union {s}
  <2>1. now \in SUBSET Nat
    BY <1>a, <1>t
  <2>2. record' = [record EXCEPT ![d] = now]
    BY <1>1
  <2> HIDE DEF now
  <2>3. record' \in [Devices -> SUBSET Nat] /\ record'[d] = now /\ \A e \in Devices : e # d => record'[e] = record[e]
    BY <1>t, <2>1, <2>2
  <2> QED BY <2>3 DEF now
<1>4. DeliveryTypeOK'
  BY <1>1, <1>2, <1>3, <1>a DEF DeliveryTypeOK, PairTypeOK, pairVars
<1>5. \A p \in Pushers : On[p] = d => push[p].edit = NoEdit
  BY <1>1 DEF DeliveryTypeOK
<1>6. ASSUME NEW e, NEW q, NEW y, e # d \/ q # s, Newest(e, q, y) PROVE Newest(e, q, y)'
  <2>1. y \in Made /\ y # x /\ y \in Edits /\ By[y] = e /\ addr[y] = q
        /\ \A z \in Made : By[z] = e /\ addr[z] = q => z <= y
    BY <1>1, <1>6, <1>t DEF Newest
  <2>2. \A z \in Made : z \in Edits \ {x}
    BY <1>1, <1>t
  <2> QED BY <1>6, <1>a, <1>m, <2>1, <2>2 DEF Newest
<1>7. \A y \in Made : By[y] = d => y < x
  <2> SUFFICES ASSUME NEW y \in Made, By[y] = d, ~ (y < x) PROVE FALSE
    OBVIOUS
  <2>1. x < y
    <3>1. y \in Nat /\ x \in Nat
      BY <1>t
    <3>2. y # x
      BY <1>1
    <3> QED BY <3>1, <3>2
  <2> QED BY <1>1, <2>1 DEF InOrder
<1>8. InOrder' /\ Addressed'
  <2>1. InOrder'
    BY <1>1, <1>t, <1>m DEF InOrder
  <2>2. Addressed'
    BY <1>1, <1>a, <1>t, <1>m DEF Addressed, RoastOf
  <2> QED BY <2>1, <2>2
<1>x. Newest(d, s, x)'
  <2>1. \A y \in Made : By[y] = d => y <= x
    <3> SUFFICES ASSUME NEW y \in Made, By[y] = d PROVE y <= x
      OBVIOUS
    <3>1. y < x /\ y \in Nat /\ x \in Nat
      BY <1>7, <1>t
    <3> QED BY <3>1
  <2>2. x <= x
    <3>1. x \in Nat
      OBVIOUS
    <3> QED BY <3>1
  <2> QED BY <1>a, <1>m, <2>1, <2>2 DEF Newest
<1>9. CopyIsNewest'
  <2> SUFFICES ASSUME NEW e \in Devices, NEW y \in copy'[e]
               PROVE  Newest(e, addr[y], y)' /\ addr'[y] \in record'[e]
    BY DEF CopyIsNewest
  <2>1. CASE e = d /\ y = x
    BY <1>3, <1>a, <1>x, <2>1
  <2>2. CASE e # d \/ y # x
    <3>1. y \in copy[e] /\ (e # d \/ addr[y] # s)
      BY <1>2, <2>2
    <3>2. Newest(e, addr[y], y) /\ addr[y] \in record[e]
      BY <3>1 DEF CopyIsNewest
    <3>3. addr'[y] = addr[y]
      BY <1>1, <1>a, <1>t, <3>2 DEF Newest
    <3>4. Newest(e, addr[y], y)'
      <4>1. PICK q : q = addr[y]
        OBVIOUS
      <4>2. Newest(e, q, y)'
        <5>1. Newest(e, q, y) /\ (e # d \/ q # s)
          BY <3>1, <3>2, <4>1
        <5> QED BY <1>6, <5>1
      <4> QED BY <3>3, <4>1, <4>2 DEF Newest
    <3> QED BY <1>3, <3>2, <3>3, <3>4
  <2> QED BY <2>1, <2>2
<1>10. PushIsNewest'
  <2> SUFFICES ASSUME NEW p \in Pushers, push'[p].edit # NoEdit
               PROVE  First(p)' \in push'[p].todo /\ Newest(On[p], First(p), push[p].edit)'
    BY DEF PushIsNewest
  <2>1. First(p)' = First(p) /\ push'[p] = push[p] /\ On[p] # d
    BY <1>1, <1>5 DEF First
  <2>2. First(p) \in push[p].todo /\ Newest(On[p], First(p), push[p].edit)
    BY <2>1 DEF PushIsNewest
  <2>3. PICK q, y : q = First(p) /\ y = push[p].edit
    OBVIOUS
  <2>4. Newest(On[p], q, y)'
    BY <1>6, <2>1, <2>2, <2>3
  <2> QED BY <2>1, <2>2, <2>3, <2>4 DEF Newest
<1>11. LeftCovers'
  <2> SUFFICES ASSUME NEW p \in Pushers, push[p].at # "idle", NEW y \in copy'[On[p]] PROVE addr'[y] \in push[p].left
    BY <1>1 DEF LeftCovers
  <2>1. On[p] # d /\ On[p] \in Devices
    BY <1>1
  <2>2. y \in copy[On[p]]
    BY <1>2, <2>1
  <2>3. y \in Made /\ addr[y] \in push[p].left
    BY <2>1, <2>2 DEF LeftCovers, CopyIsNewest, Newest
  <2> QED BY <1>1, <1>a, <1>t, <2>3
<1>12. AnsweredIsAtOwner'
  BY <1>1 DEF AnsweredIsAtOwner, AtOwner
<1>13. NoEditLost'
  <2> SUFFICES ASSUME NEW y \in Made'
               PROVE  \/ y \in copy'[By[y]] /\ addr'[y] \in record'[By[y]]
                      \/ y \in inbox' \/ y \in Range(log') \/ Replaced(y)'
    BY DEF NoEditLost
  <2>1. CASE y = x
    BY <1>2, <1>3, <1>a, <2>1
  <2>2. CASE y \in Made /\ By[y] = d /\ addr[y] = s
    <3>1. Replaced(y)'
      BY <1>1, <1>7, <1>a, <1>m, <1>t, <2>2 DEF Replaced
    <3> QED BY <3>1
  <2>3. CASE y \in Made /\ (By[y] # d \/ addr[y] # s)
    <3>1. \A z \in Made : addr'[z] = addr[z]
      BY <1>1, <1>a, <1>t
    <3>2. Replaced(y) => Replaced(y)'
      BY <1>m, <2>3, <3>1 DEF Replaced
    <3>3. y \in Edits /\ By[y] \in Devices /\ addr'[y] = addr[y]
      BY <1>t, <2>3, <3>1
    <3>4. \/ y \in copy[By[y]] /\ addr[y] \in record[By[y]]
          \/ y \in inbox \/ y \in Range(log) \/ Replaced(y)
      BY <2>3 DEF NoEditLost
    <3>5. y \in copy[By[y]] => y \in copy'[By[y]]
      BY <1>2, <2>3, <3>3
    <3> QED BY <1>1, <1>3, <3>2, <3>3, <3>4, <3>5
  <2> QED BY <1>m, <2>1, <2>2, <2>3
<1> QED BY <1>4, <1>8, <1>9, <1>10, <1>11, <1>12, <1>13

\* What the steps of a push make of it.
LEMMA PushDials ==
  ASSUME push \in [Pushers -> Push], NEW p \in Pushers, First(p) \in Nat, copy[On[p]] \subseteq Edits, Dial(p)
  PROVE  \E n \in Push :
           /\ push' = [push EXCEPT ![p] = n]
           /\ \/ n.at = "next" /\ n.edit = push[p].edit
              \/ /\ n.at = "dialled" /\ n.edit \in copy[On[p]] /\ addr[n.edit] = First(p)
                 /\ n.todo = push[p].todo
           /\ \A q \in push[p].left :
                 q \in n.left \/ (q = First(p) /\ \A x \in copy[On[p]] : addr[x] # First(p))
<1> DEFINE todo == push[p].todo \ {First(p)}
           left == push[p].left \ {First(p)}
           there == {x \in copy[On[p]] : addr[x] = First(p)}
<1>1. todo \in SUBSET Nat /\ left \in SUBSET Nat
  BY DEF Push
<1>2. CASE there = {} /\ push' = [push EXCEPT ![p] = [push[p] EXCEPT !.todo = todo, !.left = left]]
  <2> DEFINE n == [push[p] EXCEPT !.todo = todo, !.left = left]
  <2>1. push' = [push EXCEPT ![p] = n]
    BY <1>2
  <2>2. n \in Push /\ n.at = push[p].at /\ n.edit = push[p].edit /\ n.left = left
    <3> HIDE DEF todo, left
    <3> QED BY <1>1 DEF Push
  <2>3. \A q \in push[p].left : q \in n.left \/ q = First(p)
    BY <2>2
  <2>4. n.at = "next"
    BY <2>2 DEF Dial
  <2>5. \A x \in copy[On[p]] : addr[x] # First(p)
    BY <1>2
  <2> HIDE DEF n
  <2> QED BY <2>1, <2>2, <2>3, <2>4, <2>5
<1>3. CASE \E x \in there : push' = [push EXCEPT ![p] = [push[p] EXCEPT !.at = "dialled", !.edit = x]]
  <2>0. PICK x \in there : push' = [push EXCEPT ![p] = [push[p] EXCEPT !.at = "dialled", !.edit = x]]
    BY <1>3
  <2> DEFINE n == [push[p] EXCEPT !.at = "dialled", !.edit = x]
  <2>1. push' = [push EXCEPT ![p] = n]
    BY <2>0
  <2>2. n \in Push /\ n.at = "dialled" /\ n.edit = x /\ n.left = push[p].left /\ n.todo = push[p].todo
    <3>1. x \in Maybe
      BY DEF Maybe
    <3> QED BY <3>1 DEF Push
  <2>3. x \in copy[On[p]] /\ addr[x] = First(p)
    OBVIOUS
  <2> HIDE DEF n
  <2> QED BY <2>1, <2>2, <2>3
<1>4. CASE push' = [push EXCEPT ![p] = [push[p] EXCEPT !.todo = todo]]
  <2> DEFINE n == [push[p] EXCEPT !.todo = todo]
  <2>1. push' = [push EXCEPT ![p] = n]
    BY <1>4
  <2>2. n \in Push /\ n.at = push[p].at /\ n.edit = push[p].edit /\ n.left = push[p].left
    <3> HIDE DEF todo
    <3> QED BY <1>1 DEF Push
  <2>3. n.at = "next"
    BY <2>2 DEF Dial
  <2> HIDE DEF n
  <2> QED BY <2>1, <2>2, <2>3
<1>5. \/ there = {} /\ push' = [push EXCEPT ![p] = [push[p] EXCEPT !.todo = todo, !.left = left]]
      \/ push' = [push EXCEPT ![p] = [push[p] EXCEPT !.todo = todo]]
      \/ \E x \in there : push' = [push EXCEPT ![p] = [push[p] EXCEPT !.at = "dialled", !.edit = x]]
  BY DEF Dial
<1> QED BY <1>2, <1>3, <1>4, <1>5

LEMMA PushGoesOn ==
  ASSUME push \in [Pushers -> Push], NEW p \in Pushers, First(p) \in Nat, NEW left \in SUBSET Nat,
         push' = After(p, left)
  PROVE  \E n \in Push : /\ push' = [push EXCEPT ![p] = n]
                        /\ n.at = "next" /\ n.edit = NoEdit /\ n.left = left
<1> DEFINE todo == push[p].todo \ {First(p)}
           delivered == push[p].delivered \/ left # push[p].left
           n == [push[p] EXCEPT !.at = "next", !.todo = todo, !.left = left, !.edit = NoEdit,
                                !.delivered = delivered]
<1>1. push' = [push EXCEPT ![p] = n]
  BY DEF After
<1>2. todo \in SUBSET Nat /\ delivered \in BOOLEAN
  BY DEF Push
<1> HIDE DEF todo, delivered
<1>3. n \in Push /\ n.at = "next" /\ n.edit = NoEdit /\ n.left = left
  BY <1>2 DEF Push, Maybe
<1> QED BY <1>1, <1>3, Zenon

\* A step of the pushes stages nothing.
LEMMA PushKeepsInv ==
  ASSUME EditInv, OneEditor, NEW p \in Pushers, PushStep(p) \/ Lose(p) \/ Kill(p)
  PROVE  EditInv'
<1> DEFINE d == On[p]
           s == First(p)
<1> USE CrossEditsAssumption DEF EditInv
<1>t. /\ Made \subseteq Edits /\ copy \in [Devices -> SUBSET Edits]
      /\ record \in [Devices -> SUBSET Nat] /\ push \in [Pushers -> Push]
      /\ inbox \subseteq Edits /\ d \in Devices
      /\ \A q \in Pushers : push[q].at \in {"dialled", "answered"} <=> push[q].edit # NoEdit
      /\ lost \in 0 .. MaxLost /\ killed \in 0 .. MaxKilled
  BY DEF DeliveryTypeOK, Made
<1>p. /\ push[p] \in Push /\ push[p].at \in {"idle", "next", "dialled", "answered"}
      /\ push[p].todo \subseteq Nat /\ push[p].left \subseteq Nat /\ push[p].edit \in Maybe
      /\ push[p].delivered \in BOOLEAN
  BY <1>t DEF Push
<1>m. UNCHANGED <<pairVars, log, addr>> /\ Made' = Made
  BY DEF PushStep, StartPush, Dial, Put, Acknowledge, EndPush, Lose, Kill, Made
<1>n. \A e, q, y : Newest(e, q, y)' = Newest(e, q, y)
  BY <1>m DEF Newest
<1>o. InOrder' /\ PairTypeOK' /\ Addressed'
  BY <1>m DEF InOrder, DeliveryTypeOK, PairTypeOK, pairVars, Addressed, RoastOf
<1>c. \A x : Replaced(x)' = Replaced(x)
  BY <1>m DEF Replaced
<1>e. push[p].edit # NoEdit => /\ s \in push[p].todo /\ s \in Nat
                               /\ Newest(d, s, push[p].edit) /\ push[p].edit \in Made
  BY <1>p DEF PushIsNewest, Newest
<1>f. push[p].todo # {} => s \in push[p].todo
  BY DEF First
\* It is enough to see what becomes of p, and of what the pushes and the owner hold.
<1>s. ASSUME NEW mine \in Push, push' = [push EXCEPT ![p] = mine],
             mine.at \in {"dialled", "answered"} <=> mine.edit # NoEdit,
             mine.edit # NoEdit => s \in mine.todo /\ mine.todo = push[p].todo /\ Newest(d, s, mine.edit),
             mine.at # "idle" => \A x \in copy'[d] : addr[x] \in mine.left,
             mine.at = "answered" => \A x \in Made : x = mine.edit => AtOwner(x)',
             \A q \in Pushers \ {p} : \A x \in Made : x = push[q].edit /\ AtOwner(x) => AtOwner(x)',
             \A e \in Devices : copy'[e] \subseteq copy[e]
      PROVE  /\ push' \in [Pushers -> Push] /\ PushIsNewest' /\ LeftCovers' /\ AnsweredIsAtOwner'
             /\ \A q \in Pushers : push'[q].at \in {"dialled", "answered"} <=> push'[q].edit # NoEdit
  <2>1. push' \in [Pushers -> Push] /\ push'[p] = mine /\ \A q \in Pushers \ {p} : push'[q] = push[q]
    BY <1>s, <1>t
  <2>2. (mine.todo = push[p].todo => First(p)' = First(p)) /\ \A q \in Pushers \ {p} : First(q)' = First(q)
    BY <2>1 DEF First
  <2>3. PushIsNewest'
    BY <1>s, <1>n, <2>1, <2>2 DEF PushIsNewest
  <2>4. LeftCovers'
    <3>1. \A q \in Pushers : On[q] \in Devices
      OBVIOUS
    <3> QED BY <1>s, <1>m, <2>1, <3>1 DEF LeftCovers
  <2>5. AnsweredIsAtOwner'
    <3> SUFFICES ASSUME NEW q \in Pushers, push'[q].at = "answered" PROVE AtOwner(push[q].edit)'
      BY DEF AnsweredIsAtOwner
    <3>1. CASE q = p
      <4>1. mine.edit \in Made
        BY <1>s, <2>1, <3>1 DEF Newest
      <4> QED BY <1>s, <2>1, <3>1, <4>1 DEF AtOwner
    <3>2. CASE q # p
      <4>1. push[q].at = "answered" /\ push[q].edit \in Made
        BY <1>t, <2>1, <3>2 DEF PushIsNewest, Newest
      <4>2. AtOwner(push[q].edit)
        BY <4>1 DEF AnsweredIsAtOwner
      <4>3. PICK x \in Made : x = push[q].edit /\ AtOwner(x)
        BY <4>1, <4>2
      <4>4. AtOwner(x)' /\ push'[q].edit = x
        BY <1>s, <2>1, <3>2, <4>3
      <4> QED BY <4>4 DEF AtOwner
    <3> QED BY <3>1, <3>2
  <2> QED BY <1>s, <1>t, <2>1, <2>3, <2>4, <2>5
\* An edit that left the staging area is with the owner.
<1>l. ASSUME CopyIsNewest',
             \A x \in Made : AtOwner(x) => AtOwner(x)' \/ Replaced(x),
             \A x \in Made : x \in copy[By[x]] => x \in copy'[By[x]] \/ AtOwner(x)'
      PROVE  NoEditLost'
  <2> SUFFICES ASSUME NEW x \in Made
               PROVE  \/ x \in copy'[By[x]] /\ addr'[x] \in record'[By[x]]
                      \/ AtOwner(x)' \/ Replaced(x)'
    BY <1>m DEF NoEditLost, AtOwner
  <2>1. By[x] \in Devices
    BY <1>t
  <2>2. x \in copy'[By[x]] => addr'[x] \in record'[By[x]]
    BY <1>l, <2>1 DEF CopyIsNewest
  <2> QED BY <1>c, <1>l, <2>2 DEF NoEditLost, AtOwner
<1>1. CASE StartPush(p)
  <2> DEFINE mine == [Idle EXCEPT !.at = "next", !.todo = record[d], !.left = record[d]]
  <2>1. /\ push' = [push EXCEPT ![p] = mine]
        /\ UNCHANGED <<copy, record, inbox, lost, killed>>
    BY <1>1 DEF StartPush
  <2>2. /\ mine \in Push /\ mine.at = "next" /\ mine.edit = NoEdit /\ mine.left = record[d]
    <3>1. ASSUME NEW idle \in Push, NEW todo \in SUBSET Nat
          PROVE  LET now == [idle EXCEPT !.at = "next", !.todo = todo, !.left = todo]
                 IN  now \in Push /\ now.at = "next" /\ now.edit = idle.edit /\ now.left = todo
      BY DEF Push
    <3>2. Idle \in Push /\ Idle.edit = NoEdit
      BY DEF Idle, Push, Maybe
    <3>3. record[d] \in SUBSET Nat
      BY <1>t
    <3> QED BY <3>1, <3>2, <3>3, Zenon
  <2> HIDE DEF mine
  <2>3. /\ \A x \in copy'[d] : addr[x] \in mine.left
        /\ \A e \in Devices : copy'[e] \subseteq copy[e]
    BY <1>t, <2>1, <2>2 DEF CopyIsNewest
  <2>4. /\ \A q \in Pushers \ {p} : \A x \in Made : x = push[q].edit /\ AtOwner(x) => AtOwner(x)'
        /\ mine.at \in {"dialled", "answered"} <=> mine.edit # NoEdit
        /\ mine.at # "answered"
    BY <1>m, <2>1, <2>2 DEF AtOwner
  <2>5. /\ push' \in [Pushers -> Push] /\ PushIsNewest' /\ LeftCovers' /\ AnsweredIsAtOwner'
        /\ \A q \in Pushers : push'[q].at \in {"dialled", "answered"} <=> push'[q].edit # NoEdit
    BY <1>s, <2>1, <2>2, <2>3, <2>4
  <2>6. CopyIsNewest' /\ NoEditLost'
    BY <1>c, <1>m, <1>n, <2>1 DEF CopyIsNewest, NoEditLost
  <2> QED BY <1>m, <1>o, <2>1, <2>5, <2>6 DEF DeliveryTypeOK
<1>2. CASE Dial(p)
  <2>1. /\ push[p].at = "next" /\ push[p].todo # {} /\ s \in push[p].todo /\ s \in Nat
        /\ push[p].edit = NoEdit /\ copy[d] \subseteq Edits /\ UNCHANGED <<copy, record, inbox, lost, killed>>
    BY <1>2, <1>f, <1>p, <1>t DEF Dial
  <2>2. PICK mine \in Push :
          /\ push' = [push EXCEPT ![p] = mine]
          /\ \/ mine.at = "next" /\ mine.edit = NoEdit
             \/ mine.at = "dialled" /\ mine.edit \in copy[d] /\ addr[mine.edit] = s /\ mine.todo = push[p].todo
          /\ \A q \in push[p].left : q \in mine.left \/ (q = s /\ \A x \in copy[d] : addr[x] # s)
    BY <1>2, <1>t, <2>1, PushDials
  <2>3. /\ mine.edit # NoEdit => s \in mine.todo /\ mine.todo = push[p].todo /\ Newest(d, s, mine.edit)
        /\ mine.at # "answered" /\ (mine.at \in {"dialled", "answered"} <=> mine.edit # NoEdit)
    <3>1. CASE mine.at = "next" /\ mine.edit = NoEdit
      BY <3>1
    <3>2. CASE mine.at = "dialled" /\ mine.edit \in copy[d] /\ addr[mine.edit] = s /\ mine.todo = push[p].todo
      <4>1. mine.edit # NoEdit
        BY <2>1, <3>2
      <4>2. Newest(d, s, mine.edit)
        <5>1. Newest(d, addr[mine.edit], mine.edit)
          BY <1>t, <3>2 DEF CopyIsNewest
        <5> QED BY <3>2, <5>1 DEF Newest
      <4> QED BY <2>1, <3>2, <4>1, <4>2
    <3> QED BY <2>2, <3>1, <3>2
  <2>4. /\ \A x \in copy'[d] : addr[x] \in mine.left
        /\ \A e \in Devices : copy'[e] \subseteq copy[e]
    BY <2>1, <2>2 DEF LeftCovers
  <2>5. \A q \in Pushers \ {p} : \A x \in Made : x = push[q].edit /\ AtOwner(x) => AtOwner(x)'
    BY <1>m, <2>1 DEF AtOwner
  <2>6. /\ push' \in [Pushers -> Push] /\ PushIsNewest' /\ LeftCovers' /\ AnsweredIsAtOwner'
        /\ \A q \in Pushers : push'[q].at \in {"dialled", "answered"} <=> push'[q].edit # NoEdit
    BY <1>s, <2>2, <2>3, <2>4, <2>5
  <2>7. CopyIsNewest' /\ NoEditLost'
    BY <1>c, <1>m, <1>n, <2>1 DEF CopyIsNewest, NoEditLost
  <2> QED BY <1>m, <1>o, <2>1, <2>6, <2>7 DEF DeliveryTypeOK
<1>3. CASE Put(p)
  <2> DEFINE x0 == push[p].edit
  <2>1. /\ push[p].at = "dialled" /\ inbox' = Written(inbox, x0, s)
        /\ UNCHANGED <<copy, record, lost, killed>>
        /\ x0 # NoEdit /\ x0 \in Made /\ x0 \in Edits /\ x0 \in Nat /\ s \in Nat
        /\ addr[x0] = s /\ By[x0] = d /\ Newest(d, s, x0)
    BY <1>3, <1>e, <1>t DEF Put, Newest
  <2>2. PICK mine \in Push :
          /\ push' = [push EXCEPT ![p] = mine] /\ mine.at = "answered"
          /\ mine.edit = x0 /\ mine.todo = push[p].todo /\ mine.left = push[p].left
    <3>1. ASSUME NEW m \in Push
          PROVE  LET n == [m EXCEPT !.at = "answered"]
                 IN  /\ n \in Push /\ n.at = "answered"
                     /\ n.edit = m.edit /\ n.todo = m.todo /\ n.left = m.left
      BY DEF Push
    <3>2. push' = [push EXCEPT ![p] = [push[p] EXCEPT !.at = "answered"]]
      BY <1>3, <1>t DEF Put
    <3> QED BY <1>p, <3>1, <3>2
  <2>3. /\ inbox' \subseteq Edits /\ x0 \in inbox'
        /\ \A x \in inbox : addr[x] # s => x \in inbox'
    BY <1>t, <2>1 DEF Written
  \* What is at the owner under another address stays there.
  <2>a. ASSUME NEW x, AtOwner(x), addr[x] # s PROVE AtOwner(x)'
    BY <1>m, <2>3, <2>a DEF AtOwner
  \* What another push has delivered for the same address is the same edit.
  <2>4. ASSUME NEW q \in Pushers, NEW x \in Made, x = push[q].edit, AtOwner(x) PROVE AtOwner(x)'
    <3>1. Newest(On[q], First(q), x) /\ addr[x] = First(q) /\ By[x] = On[q]
      BY <1>t, <2>4 DEF PushIsNewest, Newest
    <3>2. CASE addr[x] = s
      <4>1. On[q] = d
        BY <2>1, <3>1, <3>2, OneDeviceAtAnAddress
      <4>2. x = x0
        BY <2>1, <3>1, <3>2, <4>1, NewestIsOne
      <4> QED BY <2>3, <4>2 DEF AtOwner
    <3> QED BY <2>4, <2>a, <3>2
  <2>5. \A x \in Made : x = mine.edit => AtOwner(x)'
    BY <2>2, <2>3 DEF AtOwner
  <2>6. /\ mine.edit # NoEdit => s \in mine.todo /\ mine.todo = push[p].todo /\ Newest(d, s, mine.edit)
        /\ \A x \in copy'[d] : addr[x] \in mine.left
        /\ mine.at \in {"dialled", "answered"} <=> mine.edit # NoEdit
        /\ \A e \in Devices : copy'[e] \subseteq copy[e]
    BY <1>e, <1>t, <2>1, <2>2 DEF LeftCovers
  <2>7. /\ push' \in [Pushers -> Push] /\ PushIsNewest' /\ LeftCovers' /\ AnsweredIsAtOwner'
        /\ \A q \in Pushers : push'[q].at \in {"dialled", "answered"} <=> push'[q].edit # NoEdit
    BY <1>s, <2>2, <2>4, <2>5, <2>6
  <2>8. CopyIsNewest'
    BY <1>m, <1>n, <2>1 DEF CopyIsNewest
  <2>9. ASSUME NEW x \in Made, AtOwner(x) PROVE AtOwner(x)' \/ Replaced(x)
    <3>1. CASE addr[x] = s
      <4>1. By[x] = d /\ x \in Nat
        BY <1>t, <2>1, <3>1, OneDeviceAtAnAddress
      <4>2. x <= x0
        BY <2>1, <3>1, <4>1 DEF Newest
      <4>3. CASE x = x0
        BY <2>3, <4>3 DEF AtOwner
      <4>4. CASE x # x0
        <5>1. x0 > x
          <6> HIDE DEF x0
          <6> QED BY <2>1, <4>1, <4>2, <4>4
        <5> QED BY <2>1, <3>1, <4>1, <5>1 DEF Replaced
      <4> QED BY <4>3, <4>4
    <3> QED BY <2>9, <2>a, <3>1
  <2>10. NoEditLost'
    BY <1>l, <2>1, <2>8, <2>9
  <2> QED BY <1>m, <1>o, <2>1, <2>3, <2>7, <2>8, <2>10 DEF DeliveryTypeOK
\* A record after which the push goes on to the next.
<1>a. ASSUME NEW left \in SUBSET Nat, push' = After(p, left), s \in Nat,
             \A x \in copy'[d] : addr[x] \in left,
             \A e \in Devices : copy'[e] \subseteq copy[e],
             UNCHANGED inbox
      PROVE  /\ push' \in [Pushers -> Push] /\ PushIsNewest' /\ LeftCovers' /\ AnsweredIsAtOwner'
             /\ \A q \in Pushers : push'[q].at \in {"dialled", "answered"} <=> push'[q].edit # NoEdit
  <2>3. PICK mine \in Push :
          push' = [push EXCEPT ![p] = mine] /\ mine.at = "next" /\ mine.edit = NoEdit /\ mine.left = left
    BY <1>a, <1>t, PushGoesOn
  <2>4. \A q \in Pushers \ {p} : \A x \in Made : x = push[q].edit /\ AtOwner(x) => AtOwner(x)'
    BY <1>a, <1>m DEF AtOwner
  <2>5. /\ mine.at \in {"dialled", "answered"} <=> mine.edit # NoEdit
        /\ mine.at # "answered"
        /\ \A x \in copy'[d] : addr[x] \in mine.left
    BY <1>a, <2>3
  <2> QED BY <1>a, <1>s, <2>3, <2>4, <2>5
<1>4. CASE Lose(p)
  <2>1. /\ push[p].at \in {"dialled", "answered"} /\ lost' \in 0 .. MaxLost /\ push' = After(p, push[p].left)
        /\ UNCHANGED <<copy, record, inbox, killed>>
    BY <1>4, <1>t DEF Lose
  <2>2. /\ \A x \in copy'[d] : addr[x] \in push[p].left
        /\ \A e \in Devices : copy'[e] \subseteq copy[e]
    BY <2>1 DEF LeftCovers
  <2>3. /\ push' \in [Pushers -> Push] /\ PushIsNewest' /\ LeftCovers' /\ AnsweredIsAtOwner'
        /\ \A q \in Pushers : push'[q].at \in {"dialled", "answered"} <=> push'[q].edit # NoEdit
    BY <1>a, <1>e, <1>p, <1>t, <2>1, <2>2
  <2>4. CopyIsNewest' /\ NoEditLost'
    BY <1>c, <1>m, <1>n, <2>1 DEF CopyIsNewest, NoEditLost
  <2> QED BY <1>m, <1>o, <2>1, <2>3, <2>4 DEF DeliveryTypeOK
<1>5. CASE Acknowledge(p)
  <2> DEFINE rest == {x \in copy[d] : addr[x] # s}
  <2>1. /\ push[p].at = "answered" /\ copy' = [copy EXCEPT ![d] = rest]
        /\ push' = After(p, push[p].left \ {s}) /\ UNCHANGED <<record, inbox, lost, killed>>
        /\ push[p].edit # NoEdit /\ s \in Nat
    BY <1>5, <1>e, <1>t DEF Acknowledge
  <2>r. rest \in SUBSET Edits /\ \A x : x \in rest <=> x \in copy[d] /\ addr[x] # s
    BY <1>t
  <2> HIDE DEF rest
  <2>2. /\ copy' \in [Devices -> SUBSET Edits] /\ copy'[d] = rest
        /\ \A e \in Devices : e # d => copy'[e] = copy[e]
    BY <1>t, <2>1, <2>r
  <2>3. /\ \A x \in copy'[d] : addr[x] \in push[p].left \ {s}
        /\ \A e \in Devices : copy'[e] \subseteq copy[e]
    BY <2>1, <2>2, <2>r DEF LeftCovers
  <2>4. /\ push' \in [Pushers -> Push] /\ PushIsNewest' /\ LeftCovers' /\ AnsweredIsAtOwner'
        /\ \A q \in Pushers : push'[q].at \in {"dialled", "answered"} <=> push'[q].edit # NoEdit
    <3>1. push[p].left \ {s} \in SUBSET Nat
      BY <1>p
    <3>2. PICK left \in SUBSET Nat : left = push[p].left \ {s}
      BY <3>1
    <3>3. push' = After(p, left) /\ \A x \in copy'[d] : addr[x] \in left
      BY <2>1, <2>3, <3>2
    <3> QED BY <1>a, <2>1, <2>3, <3>3
  <2>5. CopyIsNewest'
    <3> SUFFICES ASSUME NEW e \in Devices, NEW x \in copy'[e]
                 PROVE  Newest(e, addr[x], x)' /\ addr'[x] \in record'[e]
      BY DEF CopyIsNewest
    <3>1. Newest(e, addr[x], x) /\ addr[x] \in record[e]
      BY <2>3 DEF CopyIsNewest
    <3>2. PICK q : q = addr[x]
      OBVIOUS
    <3>3. Newest(e, q, x)' /\ addr'[x] = q /\ q \in record'[e]
      BY <1>m, <1>n, <2>1, <3>1, <3>2
    <3> QED BY <3>3 DEF Newest
  <2>6. \A x : AtOwner(x)' = AtOwner(x)
    BY <1>m, <2>1 DEF AtOwner
  <2>7. ASSUME NEW x \in Made, x \in copy[By[x]] PROVE x \in copy'[By[x]] \/ AtOwner(x)
    <3>1. By[x] \in Devices
      BY <1>t
    <3>2. CASE By[x] = d /\ addr[x] = s
      <4>1. Newest(d, s, x)
        BY <2>7, <3>1, <3>2 DEF CopyIsNewest
      <4>2. x = push[p].edit
        BY <1>e, <2>1, <4>1, NewestIsOne
      <4> QED BY <2>1, <4>2 DEF AnsweredIsAtOwner
    <3>3. CASE By[x] # d \/ addr[x] # s
      BY <2>2, <2>7, <2>r, <3>1, <3>3
    <3> QED BY <3>2, <3>3
  <2>8. NoEditLost'
    BY <1>l, <2>5, <2>6, <2>7
  <2> QED BY <1>m, <1>o, <2>1, <2>2, <2>4, <2>5, <2>8 DEF DeliveryTypeOK
\* A push that ends holds nothing.
<1>i. ASSUME push' = [push EXCEPT ![p] = Idle], UNCHANGED <<copy, inbox>>
      PROVE  /\ push' \in [Pushers -> Push] /\ PushIsNewest' /\ LeftCovers' /\ AnsweredIsAtOwner'
             /\ \A q \in Pushers : push'[q].at \in {"dialled", "answered"} <=> push'[q].edit # NoEdit
  <2>1. Idle \in Push /\ Idle.at = "idle" /\ Idle.edit = NoEdit
    BY DEF Idle, Push, Maybe
  <2>2. /\ \A q \in Pushers \ {p} : \A x \in Made : x = push[q].edit /\ AtOwner(x) => AtOwner(x)'
        /\ \A e \in Devices : copy'[e] \subseteq copy[e]
        /\ Idle.at \in {"dialled", "answered"} <=> Idle.edit # NoEdit
        /\ Idle.at # "answered"
    BY <1>i, <1>m, <2>1 DEF AtOwner
  <2> QED BY <1>i, <1>s, <2>1, <2>2
<1>6. CASE EndPush(p)
  <2>1. /\ push[p].at = "next" /\ push' = [push EXCEPT ![p] = Idle] /\ record' = [record EXCEPT ![d] = Kept(p)]
        /\ UNCHANGED <<copy, inbox, lost, killed>>
    BY <1>6 DEF EndPush
  <2>2. record' \in [Devices -> SUBSET Nat]
    BY <1>p, <1>t, <2>1 DEF Kept
  <2>3. CopyIsNewest'
    <3> SUFFICES ASSUME NEW e \in Devices, NEW x \in copy[e] PROVE addr[x] \in record'[e] /\ Newest(e, addr[x], x)
      BY <1>m, <1>n, <2>1 DEF CopyIsNewest
    <3>1. addr[x] \in record[e] /\ Newest(e, addr[x], x) /\ (e = d => addr[x] \in push[p].left)
      BY <2>1 DEF CopyIsNewest, LeftCovers
    <3> QED BY <1>t, <2>1, <3>1 DEF Kept
  <2>4. /\ push' \in [Pushers -> Push] /\ PushIsNewest' /\ LeftCovers' /\ AnsweredIsAtOwner'
        /\ \A q \in Pushers : push'[q].at \in {"dialled", "answered"} <=> push'[q].edit # NoEdit
    BY <1>i, <2>1
  <2>5. \A x : AtOwner(x)' = AtOwner(x)
    BY <1>m, <2>1 DEF AtOwner
  <2>6. NoEditLost'
    BY <1>l, <2>1, <2>3, <2>5
  <2> QED BY <1>m, <1>o, <2>1, <2>2, <2>3, <2>4, <2>6 DEF DeliveryTypeOK
<1>7. CASE Kill(p)
  <2>1. /\ killed' \in 0 .. MaxKilled /\ push' = [push EXCEPT ![p] = Idle]
        /\ UNCHANGED <<copy, record, inbox, lost>>
    BY <1>7, <1>t DEF Kill
  <2>2. /\ push' \in [Pushers -> Push] /\ PushIsNewest' /\ LeftCovers' /\ AnsweredIsAtOwner'
        /\ \A q \in Pushers : push'[q].at \in {"dialled", "answered"} <=> push'[q].edit # NoEdit
    BY <1>i, <2>1
  <2>3. CopyIsNewest' /\ NoEditLost'
    BY <1>c, <1>m, <1>n, <2>1 DEF CopyIsNewest, NoEditLost
  <2> QED BY <1>m, <1>o, <2>1, <2>2, <2>3 DEF DeliveryTypeOK
<1> QED BY <1>1, <1>2, <1>3, <1>4, <1>5, <1>6, <1>7 DEF PushStep

LEMMA ApplyKeepsInv ==
  ASSUME EditInv, NEW x \in Edits, Apply(x)
  PROVE  EditInv'
<1> USE CrossEditsAssumption DEF EditInv
<1>t. /\ inbox \subseteq Edits /\ log \in Seq(Roasts \union Edits) /\ killed \in 0 .. MaxKilled
      /\ Made \subseteq Edits /\ addr \in [Edits -> 0 .. Len(log)]
  BY DEF DeliveryTypeOK, Made
<1>1. /\ x \in inbox /\ log' = Append(log, x)
      /\ inbox' = inbox \ {x} \/ inbox' = inbox
      /\ killed' \in 0 .. MaxKilled /\ UNCHANGED <<pairVars, addr, copy, record, push, lost>>
  BY <1>t DEF Apply
<1>2. /\ log' \in Seq(Roasts \union Edits) /\ Len(log) \in Nat /\ Len(log') = Len(log) + 1
      /\ \A i \in 1 .. Len(log) : log'[i] = log[i]
      /\ Range(log') = Range(log) \union {x}
  BY <1>1, <1>t, LogGrows
<1>3. inbox' \subseteq Edits /\ inbox \subseteq inbox' \union {x}
  BY <1>1, <1>t
<1>4. ASSUME NEW y, AtOwner(y) PROVE AtOwner(y)'
  BY <1>2, <1>3, <1>4 DEF AtOwner
<1>5. Made' = Made /\ (\A d, q, y : Newest(d, q, y)' = Newest(d, q, y)) /\ \A y : Replaced(y)' = Replaced(y)
  BY <1>1 DEF Newest, Made, Replaced
<1>6. DeliveryTypeOK'
  <2>1. \A n \in 0 .. Len(log) : n \in 0 .. Len(log')
    BY <1>2
  <2>2. addr' \in [Edits -> 0 .. Len(log')]
    BY <1>1, <1>t, <2>1
  <2> QED BY <1>1, <1>2, <1>3, <2>2 DEF DeliveryTypeOK, PairTypeOK, pairVars
<1>7. InOrder' /\ CopyIsNewest' /\ LeftCovers'
  BY <1>1, <1>5 DEF InOrder, CopyIsNewest, LeftCovers
<1>8. PushIsNewest'
  BY <1>1, <1>5 DEF PushIsNewest, First
<1>9. AnsweredIsAtOwner'
  <2> SUFFICES ASSUME NEW p \in Pushers, push[p].at = "answered", NEW y, y = push[p].edit PROVE AtOwner(y)'
    BY <1>1 DEF AnsweredIsAtOwner, AtOwner
  <2> QED BY <1>4 DEF AnsweredIsAtOwner
<1>10. NoEditLost'
  <2> SUFFICES ASSUME NEW y \in Made
               PROVE  \/ y \in copy[By[y]] /\ addr[y] \in record[By[y]]
                      \/ AtOwner(y)' \/ Replaced(y)
    BY <1>1, <1>5 DEF NoEditLost, AtOwner
  <2> QED BY <1>4 DEF NoEditLost, AtOwner
<1>11. Addressed'
  <2> SUFFICES ASSUME NEW y \in Made PROVE addr[y] \in 1 .. Len(log') /\ RoastOf(log'[addr[y]]) = Of[y]
    BY <1>1, <1>5 DEF Addressed, RoastOf
  <2>1. addr[y] \in 1 .. Len(log) /\ RoastOf(log[addr[y]]) = Of[y]
    BY DEF Addressed
  <2>2. addr[y] \in 1 .. Len(log') /\ log'[addr[y]] = log[addr[y]]
    BY <1>2, <2>1
  <2> QED BY <2>1, <2>2
<1> QED BY <1>6, <1>7, <1>8, <1>9, <1>10, <1>11

-----------------------------------------------------------------------------
DeliveryInv == PairInv /\ EditInv

LEMMA EditStepsLeavePairing == EditNext => UNCHANGED pairVars
BY DEF EditNext, Stage, PushStep, StartPush, Dial, Put, Acknowledge, EndPush, Lose, Kill, Apply

\* Every device a device trusts is one with which its user and the other's said once that
\* the emoji match, whatever was lost, declined, stopped or removed, also while edits travel.
THEOREM TrustNeedsBothUsers == DeliverySpec => []TrustIsConsent
<1>1. DeliveryInit => PairInv
  BY InitPairInv DEF DeliveryInit
<1>2. PairInv /\ [DeliveryNext]_deliveryVars => PairInv'
  BY PairStepKeepsInv, PairVarsKeepInv, EditStepsLeavePairing DEF DeliveryNext, deliveryVars
<1>3. PairInv => TrustIsConsent
  BY DEF PairInv
<1> QED BY <1>1, <1>2, <1>3, PTL DEF DeliverySpec

LEMMA InitEditInv == DeliveryInit => EditInv
<1> SUFFICES ASSUME DeliveryInit PROVE EditInv
  OBVIOUS
<1>1. PairTypeOK
  BY InitPairInv DEF DeliveryInit, PairInv
<1>2. Idle \in Push /\ Idle.at = "idle" /\ Idle.edit = NoEdit
  BY DEF Idle, Push, Maybe
<1>3. DeliveryTypeOK
  <2>1. Posted \in Seq(Roasts \union Edits) /\ Len(Posted) \in Nat
    BY CrossEditsAssumption
  <2> QED BY <1>1, <1>2, <2>1, CrossEditsAssumption DEF DeliveryInit, DeliveryTypeOK, Maybe
<1>4. Made = {}
  BY DEF DeliveryInit, Made
<1> QED BY <1>2, <1>3, <1>4 DEF DeliveryInit, EditInv, Addressed, InOrder, CopyIsNewest, PushIsNewest,
        LeftCovers, AnsweredIsAtOwner, NoEditLost

\* An edit is staged with its record, delivered, published, or replaced by a later one,
\* however pushes overlap, answers get lost and processes are killed: if nothing is staged
\* while a push of that device is under way, and each roast is edited on one device.
THEOREM EditsAreKept ==
  ASSUME ~ StagesMeanwhile, OneEditor
  PROVE  DeliverySpec => []NoEditLost
<1>1. DeliveryInit => DeliveryInv
  BY InitPairInv, InitEditInv DEF DeliveryInit, DeliveryInv
<1>2. DeliveryInv /\ [DeliveryNext]_deliveryVars => DeliveryInv'
  <2> SUFFICES ASSUME DeliveryInv, [DeliveryNext]_deliveryVars PROVE DeliveryInv'
    OBVIOUS
  <2>1. PairInv'
    BY PairStepKeepsInv, PairVarsKeepInv, EditStepsLeavePairing DEF DeliveryNext, deliveryVars, DeliveryInv
  <2>2. CASE EditNext
    BY <2>1, <2>2, StageKeepsInv, PushKeepsInv, ApplyKeepsInv DEF EditNext, DeliveryInv
  <2>3. CASE UNCHANGED editVars
    <3>1. PairTypeOK'
      BY <2>1 DEF PairInv
    <3> QED BY <2>1, <2>3, <3>1 DEF DeliveryInv, editVars, EditInv, DeliveryTypeOK, Addressed, RoastOf, InOrder,
            CopyIsNewest, PushIsNewest, LeftCovers, AnsweredIsAtOwner, AtOwner, Newest, First, Made, NoEditLost,
            Replaced
  <2> QED BY <2>2, <2>3 DEF DeliveryNext, deliveryVars
<1>3. DeliveryInv => NoEditLost
  BY DEF DeliveryInv, EditInv
<1> QED BY <1>1, <1>2, <1>3, PTL DEF DeliverySpec

(***************************************************************************)
(* The index.  Nothing is published twice, and an entry supersedes an      *)
(* earlier one of its feed.  So the position of a row is that of the only  *)
(* entry with its bytes, whoever ingests them from wherever; what          *)
(* supersedes a row is further on in the same feed, and the walk to the    *)
(* latest version ends.                                                    *)
(***************************************************************************)
\* The author whose feed the position of a row is in.
FeedOf(r) == IF r.type = "p2p" THEN r.ref ELSE Me

In(fd, a, c) == \E i \in 1 .. Len(fd[a]) : fd[a][i].content = c

\* Feeds in which nothing is published twice, and an entry supersedes an earlier one.
FeedsFit(fd) ==
    /\ fd \in [Authors -> Seq(Entry)]
    /\ \A a \in Authors : Len(fd[a]) <= MaxLog
    /\ \A a, b \in Authors : \A i \in 1 .. Len(fd[a]), j \in 1 .. Len(fd[b]) :
          fd[a][i].content = fd[b][j].content => a = b /\ i = j
    /\ \A a \in Authors : \A i \in 1 .. Len(fd[a]) :
          fd[a][i].supersedes # None => fd[a][i].supersedes < i - 1

\* A row or source for the bytes c.
RowFits(fd, c, r) ==
    /\ r \in Row
    /\ r.type = "p2p" => r.ref \in Peers /\ r.path = r.ref /\ In(fd, r.ref, c)
    /\ r.type = "local" => r.path \in Paths \union {Me} /\ \A p \in Peers : ~ In(fd, p, c)
    /\ r.author \in {None, FeedOf(r)}
    /\ r.seq # None => r.seq < Len(fd[FeedOf(r)]) /\ fd[FeedOf(r)][r.seq + 1].content = c
    /\ r.supersedes # None => r.seq # None /\ r.supersedes < r.seq

RowsFit(fd, rows) ==
    /\ rows \in [Contents -> Row \union {None}]
    /\ \A c \in Contents : rows[c] # None => RowFits(fd, c, rows[c])

Item == [content: Contents, src: Row]

\* Ingesting a file leaves all other rows alone, and of its own the type and the path; the
\* position too, if none is known.
LeavesOthers(rows, new, c, src) ==
    /\ \A d \in Contents \ {c} : new[d] = rows[d]
    /\ rows[c] # None => /\ new[c] # None /\ new[c].type = rows[c].type /\ new[c].path = rows[c].path
                         /\ src.seq = None /\ src.supersedes = None => new[c].seq = rows[c].seq

\* What an update of a row changes and what it leaves.
LEMMA UpdatedFields ==
  ASSUME NEW r \in Row, NEW src \in Row
  PROVE  LET new == Updated(r, src)
             placed == src.seq # None \/ src.supersedes # None
         IN  /\ new \in Row /\ new.type = r.type /\ new.ref = r.ref /\ new.path = r.path
             /\ new.author = src.author /\ new.hidden = r.hidden
             /\ new.seq = IF placed THEN src.seq ELSE r.seq
             /\ new.supersedes = IF placed THEN src.supersedes ELSE r.supersedes
<1> DEFINE placed == src.seq # None \/ src.supersedes # None
<1>1. PICK seq \in Position : seq = IF placed THEN src.seq ELSE r.seq
  BY DEF Row
<1>2. PICK sup \in Position : sup = IF placed THEN src.supersedes ELSE r.supersedes
  BY DEF Row
<1>3. PICK a \in Authors \union {None} : a = src.author
  BY DEF Row
<1>4. Updated(r, src) = [r EXCEPT !.author = a, !.seq = seq, !.supersedes = sup]
  BY <1>1, <1>2, <1>3 DEF Updated
<1> HIDE DEF placed
<1>5. PICK new : new = [r EXCEPT !.author = a, !.seq = seq, !.supersedes = sup]
  OBVIOUS
<1>6. /\ new \in Row /\ new.type = r.type /\ new.ref = r.ref /\ new.path = r.path
      /\ new.author = a /\ new.hidden = r.hidden
      /\ new.seq = seq /\ new.supersedes = sup
  BY <1>5 DEF Row
<1> QED BY <1>1, <1>2, <1>3, <1>4, <1>5, <1>6 DEF placed

\* A source that fits its bytes leaves rows that fit theirs.
LEMMA IngestedFits ==
  ASSUME NEW fd, FeedsFit(fd), NEW rows, RowsFit(fd, rows), NEW c \in Contents, NEW src, RowFits(fd, c, src)
  PROVE  RowsFit(fd, Ingested(rows, c, src)) /\ LeavesOthers(rows, Ingested(rows, c, src), c, src)
<1>0. rows \in [Contents -> Row \union {None}] /\ src \in Row
  BY DEF RowsFit, RowFits
<1>1. CASE rows[c] = None
  <2>1. Ingested(rows, c, src) = [rows EXCEPT ![c] = src]
    BY <1>1 DEF Ingested
  <2>2. Ingested(rows, c, src) \in [Contents -> Row \union {None}]
    BY <1>0, <2>1
  <2> QED BY <1>0, <1>1, <2>1, <2>2 DEF RowsFit, LeavesOthers
<1>2. CASE rows[c] # None
  <2> DEFINE r == rows[c]
  <2>1. RowFits(fd, c, r) /\ r \in Row
    BY <1>2 DEF RowsFit, RowFits
  <2>2. PICK new \in Row :
           /\ new = Updated(r, src) /\ new.type = r.type /\ new.ref = r.ref /\ new.path = r.path
           /\ new.author = src.author
           /\ new.seq = IF src.seq # None \/ src.supersedes # None THEN src.seq ELSE r.seq
           /\ new.supersedes = IF src.seq # None \/ src.supersedes # None
                               THEN src.supersedes ELSE r.supersedes
    BY <1>0, <2>1, UpdatedFields
  <2>3. Ingested(rows, c, src) = [rows EXCEPT ![c] = new]
    BY <1>2, <2>2 DEF Ingested
  <2>4. FeedOf(src) = FeedOf(r) /\ FeedOf(new) = FeedOf(r) /\ src.type = r.type
    <3>1. r.type \in {"local", "p2p"} /\ src.type \in {"local", "p2p"}
      BY <1>0, <2>1 DEF Row
    <3>2. CASE r.type = "p2p" /\ src.type = "p2p"
      <4>1. In(fd, r.ref, c) /\ In(fd, src.ref, c) /\ r.ref \in Peers /\ src.ref \in Peers
        BY <2>1, <3>2 DEF RowFits
      <4>2. r.ref = src.ref
        BY <4>1 DEF In, FeedsFit, Authors
      <4> QED BY <2>2, <3>2, <4>2 DEF FeedOf
    <3>3. CASE r.type = "local" /\ src.type = "local"
      BY <2>2, <3>3 DEF FeedOf
    <3> QED BY <2>1, <3>1, <3>2, <3>3 DEF RowFits
  <2>5. RowFits(fd, c, new)
    BY <2>1, <2>2, <2>4 DEF RowFits
  <2>6. Ingested(rows, c, src) \in [Contents -> Row \union {None}]
    BY <1>0, <2>2, <2>3
  <2> QED BY <1>0, <1>2, <2>1, <2>2, <2>3, <2>5, <2>6, NoneAssumption DEF RowsFit, LeavesOthers
<1> QED BY <1>1, <1>2

\* So do any number, one after the other, and they leave the rows of other bytes alone.
LEMMA IngestedAllFits ==
  ASSUME NEW fd, FeedsFit(fd), NEW rows, RowsFit(fd, rows), NEW items \in Seq(Item),
         \A i \in 1 .. Len(items) : RowFits(fd, items[i].content, items[i].src)
  PROVE  /\ RowsFit(fd, IngestedAll(rows, items))
         /\ \A c \in Contents :
               (\A i \in 1 .. Len(items) : items[i].content # c) => IngestedAll(rows, items)[c] = rows[c]
<1> DEFINE X == {r \in [Contents -> Row \union {None}] : RowsFit(fd, r)}
           N == Len(items)
           step == [i \in 1 .. N |-> [r \in X |-> Ingested(r, items[i].content, items[i].src)]]
           Upto(f) == f = [n \in 0 .. N |->
                             IF n = 0 THEN rows ELSE Ingested(f[n - 1], items[n].content, items[n].src)]
           A == CHOOSE f : Upto(f)
<1>1. N \in Nat /\ \A i \in 1 .. N : items[i] \in Item /\ items[i].content \in Contents
  <2>1. N \in Nat /\ \A i \in 1 .. N : items[i] \in Item
    BY LenProperties, ElementOfSeq
  <2> QED BY <2>1 DEF Item
<1>2. ASSUME NEW i \in 1 .. N, NEW r \in X
      PROVE  /\ Ingested(r, items[i].content, items[i].src) \in X
             /\ LeavesOthers(r, Ingested(r, items[i].content, items[i].src), items[i].content, items[i].src)
  <2>1. RowsFit(fd, r) /\ items[i].content \in Contents /\ RowFits(fd, items[i].content, items[i].src)
    BY <1>1
  <2>2. RowsFit(fd, Ingested(r, items[i].content, items[i].src))
    BY <2>1, IngestedFits
  <2> QED BY <2>1, <2>2, IngestedFits DEF RowsFit
<1>3. rows \in X
  BY DEF RowsFit
<1> HIDE DEF X, N
<1>4. step \in [1 .. N -> [X -> X]]
  BY <1>2
<1>5. PICK g \in [0 .. N -> X] : Stepwise(N, rows, step, g)
  <2> HIDE DEF step
  <2> QED BY <1>1, <1>3, <1>4, StepwiseExists
<1>6. Upto(g)
  <2>1. ASSUME NEW n \in 0 .. N
        PROVE  g[n] = IF n = 0 THEN rows ELSE Ingested(g[n - 1], items[n].content, items[n].src)
    <3>1. g[n] = IF n = 0 THEN rows ELSE step[n][g[n - 1]]
      BY <1>5 DEF Stepwise
    <3>2. CASE n = 0
      BY <3>1, <3>2
    <3>3. CASE n # 0
      <4>1. n \in 1 .. N /\ n - 1 \in 0 .. N
        BY <1>1, <3>3
      <4>2. g[n - 1] \in X
        BY <4>1
      <4>3. step[n][g[n - 1]] = Ingested(g[n - 1], items[n].content, items[n].src)
        BY <4>1, <4>2
      <4> QED BY <3>1, <3>3, <4>3
    <3> QED BY <3>2, <3>3
  <2>2. g = [n \in 0 .. N |-> g[n]]
    OBVIOUS
  <2> QED BY <2>1, <2>2
<1>7. Upto(A)
  BY <1>6
<1>8. IngestedAll(rows, items) = A[N]
  BY DEF IngestedAll, N
<1> DEFINE S == {n \in 0 .. N : /\ A[n] \in X
                               /\ \A c \in Contents : (\A i \in 1 .. N : items[i].content # c)
                                                        => A[n][c] = rows[c]}
<1> HIDE DEF A
<1>9. A[0] = rows /\ \A n \in 1 .. N : A[n] = Ingested(A[n - 1], items[n].content, items[n].src)
  BY <1>1, <1>7
<1>10. 0 \in S
  BY <1>1, <1>3, <1>9
<1>11. ASSUME NEW n \in 1 .. N, n - 1 \in S PROVE n \in S
  <2>1. A[n - 1] \in X /\ A[n] = Ingested(A[n - 1], items[n].content, items[n].src)
    BY <1>9, <1>11
  <2>2. A[n] \in X /\ LeavesOthers(A[n - 1], A[n], items[n].content, items[n].src)
    BY <1>2, <2>1
  <2>3. ASSUME NEW c \in Contents, \A i \in 1 .. N : items[i].content # c PROVE A[n][c] = rows[c]
    <3>1. A[n][c] = A[n - 1][c]
      BY <2>2, <2>3 DEF LeavesOthers
    <3> QED BY <1>11, <2>3, <3>1
  <2>4. n \in 0 .. N
    BY <1>1
  <2> QED BY <2>2, <2>3, <2>4
<1>12. N \in S
  <2> HIDE DEF S
  <2>1. 0 .. N \subseteq S
    BY <1>1, <1>10, <1>11, BoundedInduction
  <2> QED BY <1>1, <2>1
<1> QED BY <1>8, <1>12 DEF X, N

-----------------------------------------------------------------------------
LocalFiles(fd, files) == \A f \in Paths : \A p \in Peers : ~ In(fd, p, files[f])

\* While the notes of an unpublished roast are edited, its row stays, and the new bytes
\* are nobody's.
EditFits(fd, rows, e) ==
    e # None =>
        /\ e \in Edit /\ rows[e.old] # None
        /\ rows[e.old].type = "local" /\ rows[e.old].path \in Paths /\ rows[e.old].seq = None
        /\ \A a \in Authors : ~ In(fd, a, e.new)

IndexInv ==
    /\ FeedsFit(feed) /\ RowsFit(feed, row)
    /\ mirror \in [Peers -> Nat] /\ \A p \in Peers : mirror[p] <= Len(feed[p])
    /\ file \in [Paths -> Contents \union {None}] /\ hasKey \in BOOLEAN
    /\ LocalFiles(feed, file) /\ EditFits(feed, row, editing)

\* The sources of the node's own files and feeds fit the bytes.
LEMMA ItemsFit ==
  ASSUME IndexInv
  PROVE  /\ \A f \in Paths : file[f] # None =>
              FromFile(f) \in Item /\ RowFits(feed, FromFile(f).content, FromFile(f).src)
         /\ \A c \in Contents : row[c] # None /\ BytesAt(row[c].path, c) # None =>
              FromRow(c) \in Item /\ RowFits(feed, FromRow(c).content, FromRow(c).src)
<1> USE IndexAssumption
<1>1. LocalAuthor \in {None, Me}
  BY DEF LocalAuthor
<1>2. ASSUME NEW f \in Paths, file[f] # None
      PROVE  FromFile(f) \in Item /\ RowFits(feed, FromFile(f).content, FromFile(f).src)
  <2> DEFINE src == Source("local", f, f, LocalAuthor, None, None)
  <2>1. /\ src \in Row /\ src.type = "local" /\ src.path = f /\ src.author \in {None, Me}
        /\ src.seq = None /\ src.supersedes = None
    BY <1>1 DEF Source, Row, Authors, Position
  <2>2. file[f] \in Contents
    BY <1>2 DEF IndexInv
  <2>3. FromFile(f) = [content |-> file[f], src |-> src]
    BY DEF FromFile
  <2> HIDE DEF src
  <2>4. FromFile(f) \in Item /\ FromFile(f).content = file[f] /\ FromFile(f).src = src
    BY <2>1, <2>2, <2>3 DEF Item
  <2>5. RowFits(feed, file[f], src)
    BY <2>1 DEF RowFits, FeedOf, IndexInv, LocalFiles
  <2> QED BY <2>4, <2>5
<1>3. ASSUME NEW c \in Contents, row[c] # None, BytesAt(row[c].path, c) # None
      PROVE  FromRow(c) \in Item /\ RowFits(feed, FromRow(c).content, FromRow(c).src)
  <2> DEFINE r == row[c]
             author == IF r.type = "p2p" THEN r.ref ELSE LocalAuthor
             src == Source(r.type, r.ref, r.path, author, None, None)
             bytes == BytesAt(r.path, c)
  <2>1. r \in Row /\ RowFits(feed, c, r) /\ r.type \in {"local", "p2p"}
    BY <1>3 DEF IndexInv, RowsFit, RowFits, Row
  <2>2. author \in {None, FeedOf(r)} /\ author \in Authors \union {None}
    BY <1>1, <2>1 DEF FeedOf, RowFits, Authors
  <2> HIDE DEF author
  <2>3. /\ src \in Row /\ src.type = r.type /\ src.path = r.path /\ src.ref = r.ref
        /\ src.author = author /\ src.seq = None /\ src.supersedes = None
    BY <2>1, <2>2 DEF Source, Row, Position
  <2>4. FromRow(c) = [content |-> bytes, src |-> src]
    BY DEF FromRow, author
  <2>5. bytes \in Contents /\ (bytes = c \/ (r.path \in Paths /\ bytes = file[r.path]))
    BY <1>3 DEF BytesAt, IndexInv
  <2> HIDE DEF src, bytes, r
  <2>6. FromRow(c) \in Item /\ FromRow(c).content = bytes /\ FromRow(c).src = src
    BY <2>3, <2>4, <2>5 DEF Item
  <2>7. RowFits(feed, bytes, src)
    <3>1. CASE r.type = "p2p"
      BY <2>1, <2>2, <2>3, <2>5, <3>1 DEF RowFits, FeedOf, Authors
    <3>2. CASE r.type = "local"
      <4>1. \A p \in Peers : ~ In(feed, p, bytes)
        BY <2>1, <2>5, <3>2 DEF RowFits, IndexInv, LocalFiles
      <4> QED BY <2>1, <2>2, <2>3, <3>2, <4>1 DEF RowFits, FeedOf
    <3> QED BY <2>1, <3>1, <3>2
  <2> QED BY <2>6, <2>7
<1> QED BY <1>2, <1>3

\* An entry of a feed, as an item.
LEMMA EntryFits ==
  ASSUME NEW fd, FeedsFit(fd), NEW a \in Authors, NEW i \in 1 .. Len(fd[a]), NEW type,
         type = IF a = Me THEN "local" ELSE "p2p"
  PROVE  LET src == Source(type, a, a, a, i - 1, fd[a][i].supersedes)
         IN  fd[a][i].content \in Contents /\ src \in Row /\ RowFits(fd, fd[a][i].content, src)
<1> USE IndexAssumption
<1> DEFINE e == fd[a][i]
           src == Source(type, a, a, a, i - 1, e.supersedes)
<1>1. fd[a] \in Seq(Entry) /\ Len(fd[a]) \in Nat /\ Len(fd[a]) <= MaxLog
  BY LenProperties DEF FeedsFit
<1>2. e \in Entry
  BY <1>1, ElementOfSeq
<1>3. e.content \in Contents /\ e.supersedes \in Position /\ i - 1 \in Seqs /\ i - 1 + 1 = i
  BY <1>1, <1>2 DEF Entry, Seqs
<1>4. /\ src \in Row /\ src.type = type /\ src.ref = a /\ src.path = a /\ src.author = a
      /\ src.seq = i - 1 /\ src.supersedes = e.supersedes
  BY <1>3 DEF Source, Row, Position
<1>5. e.supersedes # None => e.supersedes < i - 1
  BY DEF FeedsFit
<1>6. In(fd, a, e.content)
  BY DEF In
<1>7. a = Me => \A p \in Peers : ~ In(fd, p, e.content)
  BY <1>1 DEF In, FeedsFit, Authors
<1>8. i - 1 # None /\ i - 1 < Len(fd[a]) /\ fd[a][i - 1 + 1].content = e.content
  BY <1>1, <1>3
<1>9. (a = Me /\ type = "local") \/ (a \in Peers /\ type = "p2p")
  BY DEF Authors
<1> HIDE DEF e, src
<1>10. RowFits(fd, e.content, src)
  BY <1>4, <1>5, <1>6, <1>7, <1>8, <1>9 DEF RowFits, FeedOf
<1> QED BY <1>3, <1>4, <1>10 DEF e, src

\* A feed is ingested whole: no row of another author changes.
LEMMA FeedIngestedFits ==
  ASSUME FeedsFit(feed), RowsFit(feed, row), NEW a \in Authors, NEW n \in Nat, n = Len(feed[a]),
         NEW type, type = IF a = Me THEN "local" ELSE "p2p"
  PROVE  LET new == IngestedFeed(row, a, n, type)
         IN  /\ RowsFit(feed, new)
             /\ \A c \in Contents : ~ In(feed, a, c) => new[c] = row[c]
<1> DEFINE Src(i) == Source(type, a, a, a, i - 1, feed[a][i].supersedes)
           items == [i \in 1 .. n |-> [content |-> feed[a][i].content, src |-> Src(i)]]
<1>1. \A i \in 1 .. n : /\ feed[a][i].content \in Contents /\ Src(i) \in Row
                        /\ RowFits(feed, feed[a][i].content, Src(i))
  BY EntryFits
<1>2. IngestedFeed(row, a, n, type) = IngestedAll(row, items)
  BY DEF IngestedFeed
<1> HIDE DEF Src
<1>3. \A i \in 1 .. n : items[i] \in Item /\ items[i].content = feed[a][i].content /\ items[i].src = Src(i)
  BY <1>1 DEF Item
<1>4. items \in [1 .. n -> Item]
  BY <1>3
<1> HIDE DEF items
<1>5. items \in Seq(Item) /\ Len(items) = n
  BY <1>4, SeqDef, LenProperties
<1>6. \A i \in 1 .. Len(items) : RowFits(feed, items[i].content, items[i].src)
  BY <1>1, <1>3, <1>5
<1>7. /\ RowsFit(feed, IngestedAll(row, items))
      /\ \A c \in Contents : (\A i \in 1 .. Len(items) : items[i].content # c)
                              => IngestedAll(row, items)[c] = row[c]
  BY <1>5, <1>6, IngestedAllFits
<1>8. \A c \in Contents : ~ In(feed, a, c) => \A i \in 1 .. Len(items) : items[i].content # c
  BY <1>3, <1>5 DEF In
<1> QED BY <1>2, <1>7, <1>8

-----------------------------------------------------------------------------
\* What supersedes a row has a later position in the same feed.
LEMMA SupersederIsLater ==
  ASSUME RowsFit(feed, row), NEW c \in Rows, NEW d \in Superseders(c)
  PROVE  d \in Rows /\ row[c].seq \in Nat /\ row[d].seq \in Nat /\ row[c].seq < row[d].seq
<1>1. /\ d \in Rows /\ row[c].seq # None /\ row[d].supersedes = row[c].seq
  BY DEF Superseders
<1>2. row[c] \in Row /\ row[d] \in Row /\ RowFits(feed, d, row[d])
  BY <1>1 DEF Rows, RowsFit, RowFits
<1>3. row[c].seq \in Position /\ row[d].seq \in Position
  BY <1>2 DEF Row
<1>4. row[d].seq # None /\ row[d].supersedes < row[d].seq
  BY <1>1, <1>2 DEF RowFits
<1> QED BY <1>1, <1>3, <1>4 DEF Position, Seqs

\* The chain of versions is never as long as there are contents, so the walk ends.
LEMMA LatestEnds ==
  ASSUME RowsFit(feed, row), NEW c \in Rows
  PROVE  Latest(c) \in Rows /\ Superseders(Latest(c)) = {}
<1> DEFINE X == [at: Contents, seen: SUBSET Contents]
           M == Cardinality(Contents)
           Hop(w) == IF w.at \in w.seen \/ Superseders(w.at) = {} THEN w
                    ELSE [at |-> CHOOSE d \in Superseders(w.at) : TRUE, seen |-> w.seen \union {w.at}]
           first == [at |-> c, seen |-> {}]
           step == [n \in 1 .. M |-> [w \in X |-> Hop(w)]]
           Walk(f) == f = [n \in 0 .. M |-> IF n = 0 THEN first ELSE Hop(f[n - 1])]
           A == CHOOSE f : Walk(f)
<1>1. IsFiniteSet(Contents) /\ M \in Nat /\ Rows \subseteq Contents
  <2>1. Contents \subseteq Contents \union Paths
    OBVIOUS
  <2> QED BY <2>1, IndexAssumption, FS_Subset, FS_CardinalityType DEF Rows
<1>2. ASSUME NEW w \in X PROVE Hop(w) \in X
  <2>1. CASE w.at \in w.seen \/ Superseders(w.at) = {}
    BY <2>1
  <2>2. CASE ~ (w.at \in w.seen \/ Superseders(w.at) = {})
    <3>1. PICK d \in Superseders(w.at) : d = CHOOSE e \in Superseders(w.at) : TRUE
      BY <2>2
    <3>2. d \in Contents
      BY <1>1, <3>1 DEF Superseders
    <3> QED BY <2>2, <3>1, <3>2
  <2> QED BY <2>1, <2>2
<1>3. first \in X
  BY <1>1
<1> HIDE DEF X, M, Hop, first
<1>4. step \in [1 .. M -> [X -> X]]
  BY <1>2
<1>5. PICK g \in [0 .. M -> X] : Stepwise(M, first, step, g)
  <2> HIDE DEF step
  <2> QED BY <1>1, <1>3, <1>4, StepwiseExists
<1>6. Walk(g)
  <2>1. ASSUME NEW n \in 0 .. M PROVE g[n] = IF n = 0 THEN first ELSE Hop(g[n - 1])
    <3>1. g[n] = IF n = 0 THEN first ELSE step[n][g[n - 1]]
      BY <1>5 DEF Stepwise
    <3>2. CASE n = 0
      BY <3>1, <3>2
    <3>3. CASE n # 0
      <4>1. n \in 1 .. M /\ n - 1 \in 0 .. M
        BY <1>1, <3>3
      <4>2. g[n - 1] \in X
        BY <4>1
      <4>3. step[n][g[n - 1]] = Hop(g[n - 1])
        BY <4>1, <4>2
      <4> QED BY <3>1, <3>3, <4>3
    <3> QED BY <3>2, <3>3
  <2>2. g = [n \in 0 .. M |-> g[n]]
    OBVIOUS
  <2> QED BY <2>1, <2>2
<1>7. Walk(A)
  BY <1>6
<1>8. Latest(c) = A[M].at
  BY DEF Latest, M, Hop, first
<1> HIDE DEF A
<1>9. A[0] = first /\ \A n \in 1 .. M : A[n] = Hop(A[n - 1])
  BY <1>1, <1>7
<1> DEFINE Good(n, w) ==
             /\ w \in X /\ w.at \in Rows /\ IsFiniteSet(w.seen)
             /\ \A x \in w.seen : row[x].seq \in Nat /\ row[w.at].seq \in Nat /\ row[x].seq < row[w.at].seq
             /\ Superseders(w.at) = {} \/ Cardinality(w.seen) = n
           S == {n \in 0 .. M : Good(n, A[n])}
<1>10. 0 \in S
  <2>1. first.at = c /\ first.seen = {}
    BY DEF first
  <2>2. Good(0, first)
    BY <1>3, <2>1, FS_EmptySet
  <2> QED BY <1>1, <1>9, <2>2
<1>11. ASSUME NEW n \in 1 .. M, n - 1 \in S PROVE n \in S
  <2> DEFINE w == A[n - 1]
  <2>1. Good(n - 1, w) /\ A[n] = Hop(w) /\ n \in 0 .. M
    BY <1>1, <1>9, <1>11
  <2> HIDE DEF w
  <2>2. w.at \notin w.seen
    BY <2>1
  <2>3. CASE Superseders(w.at) = {}
    BY <2>1, <2>3 DEF Hop
  <2>4. CASE Superseders(w.at) # {}
    <3>1. PICK d \in Superseders(w.at) : d = CHOOSE e \in Superseders(w.at) : TRUE
      BY <2>4
    <3>2. A[n] = [at |-> d, seen |-> w.seen \union {w.at}]
      BY <2>1, <2>2, <2>4, <3>1 DEF Hop
    <3>3. A[n].at = d /\ A[n].seen = w.seen \union {w.at} /\ A[n] \in X
      <4>1. A[n].at = d /\ A[n].seen = w.seen \union {w.at}
        BY <3>2
      <4>2. w \in X /\ A[n] = Hop(w)
        BY <2>1
      <4>3. A[n] \in X
        BY <1>2, <4>2
      <4> QED BY <4>1, <4>3
    <3>4. d \in Rows /\ row[w.at].seq \in Nat /\ row[d].seq \in Nat /\ row[w.at].seq < row[d].seq
      BY <2>1, SupersederIsLater
    <3>5. \A x \in A[n].seen : row[x].seq \in Nat /\ row[d].seq \in Nat /\ row[x].seq < row[d].seq
      BY <2>1, <3>3, <3>4
    <3>6. IsFiniteSet(A[n].seen) /\ Cardinality(A[n].seen) = n
      <4>1. IsFiniteSet(w.seen) /\ Cardinality(w.seen) = n - 1
        BY <2>1, <2>4
      <4>2. IsFiniteSet(w.seen \union {w.at}) /\ Cardinality(w.seen \union {w.at}) = Cardinality(w.seen) + 1
        BY <2>2, <4>1, FS_AddElement
      <4> QED BY <1>1, <3>3, <4>1, <4>2
    <3>7. Good(n, A[n])
      BY <3>3, <3>4, <3>5, <3>6
    <3> QED BY <2>1, <3>7
  <2> QED BY <2>3, <2>4
<1>12. Good(M, A[M])
  <2> HIDE DEF Good
  <2>1. \A n \in 1 .. M : n - 1 \in S => n \in S
    BY <1>11
  <2> HIDE DEF S
  <2>2. 0 .. M \subseteq S
    BY <1>1, <1>10, <2>1, BoundedInduction
  <2>3. M \in S
    BY <1>1, <2>2
  <2> QED BY <2>3 DEF S
<1> DEFINE z == A[M]
<1>13. Good(M, z)
  BY <1>12
<1> HIDE DEF z
<1>14. Superseders(z.at) = {}
  <2> SUFFICES ASSUME Cardinality(z.seen) = M PROVE FALSE
    BY <1>13
  <2>1. z.at \notin z.seen /\ IsFiniteSet(z.seen) /\ z.seen \union {z.at} \in SUBSET Contents
    BY <1>13 DEF X
  <2>2. Cardinality(z.seen \union {z.at}) = M + 1
    BY <2>1, FS_AddElement
  <2>3. Cardinality(z.seen \union {z.at}) <= M
    BY <1>1, <2>1, FS_Subset DEF M
  <2> QED BY <1>1, <2>2, <2>3
<1> QED BY <1>8, <1>13, <1>14 DEF z

-----------------------------------------------------------------------------
\* New bytes are in no row, file or feed, and not those of the edit under way.
LEMMA NewBytesAreNew ==
  ASSUME IndexInv, NEW c \in NewBytes
  PROVE  /\ c \in Contents /\ row[c] = None /\ \A f \in Paths : file[f] # c
         /\ \A a \in Authors : ~ In(feed, a, c)
         /\ editing # None => editing.new # c
<1> DEFINE fresh == {d \in Contents : ~ Seen(d)}
<1>1. fresh # {} /\ c = Min(fresh)
  BY DEF NewBytes
<1>2. PICK x \in fresh : \A y \in fresh : x <= y
  <2>1. fresh \subseteq Nat
    BY IndexAssumption
  <2> HIDE DEF fresh
  <2> QED BY <1>1, <2>1, LeastNatural
<1>3. c \in fresh
  <2> HIDE DEF fresh
  <2> QED BY <1>1, <1>2 DEF Min
<1> QED BY <1>3 DEF Seen, Published, In

\* A feed gets one more entry, whose bytes are in no feed.
Grown(fd, new, a, e) ==
    /\ a \in Authors /\ e \in Entry
    /\ \A b \in Authors : ~ In(fd, b, e.content)
    /\ Len(fd[a]) < MaxLog
    /\ e.supersedes # None => e.supersedes < Len(fd[a])
    /\ new = [fd EXCEPT ![a] = Append(fd[a], e)]

\* All that was there is still there, and c besides.
Longer(fd, new, a, c) ==
    /\ a \in Authors /\ Len(fd[a]) \in Nat /\ Len(new[a]) = Len(fd[a]) + 1
    /\ \A b \in Authors \ {a} : new[b] = fd[b]
    /\ \A b \in Authors : \A i \in 1 .. Len(fd[b]) : new[b][i] = fd[b][i]
    /\ \A b \in Authors : \A d \in Contents : In(new, b, d) <=> In(fd, b, d) \/ (b = a /\ d = c)

\* Nothing in it changes, and still nothing is published twice.
LEMMA FeedGrows ==
  ASSUME NEW fd, NEW new, NEW a, NEW e, FeedsFit(fd), Grown(fd, new, a, e)
  PROVE  FeedsFit(new) /\ Longer(fd, new, a, e.content) /\ new[a][Len(fd[a]) + 1] = e
<1>0. a \in Authors /\ e \in Entry /\ new = [fd EXCEPT ![a] = Append(fd[a], e)]
      /\ (\A b \in Authors : ~ In(fd, b, e.content))
      /\ Len(fd[a]) < MaxLog /\ (e.supersedes # None => e.supersedes < Len(fd[a]))
  BY DEF Grown
<1> USE IndexAssumption
<1>1. fd \in [Authors -> Seq(Entry)] /\ \A b \in Authors : Len(fd[b]) \in Nat
  BY LenProperties DEF FeedsFit
<1>2. /\ new \in [Authors -> Seq(Entry)] /\ Len(new[a]) = Len(fd[a]) + 1
      /\ new[a] = Append(fd[a], e) /\ new[a][Len(fd[a]) + 1] = e
      /\ \A i \in 1 .. Len(fd[a]) : new[a][i] = fd[a][i]
  BY <1>0, <1>1, AppendProperties
<1>3. \A b \in Authors \ {a} : new[b] = fd[b]
  BY <1>0, <1>1
<1>4. \A b \in Authors : \A i \in 1 .. Len(fd[b]) : new[b][i] = fd[b][i]
  BY <1>2, <1>3
<1>5. \A b \in Authors : \A i \in 1 .. Len(new[b]) :
         \/ i \in 1 .. Len(fd[b]) /\ new[b][i] = fd[b][i]
         \/ b = a /\ i = Len(fd[a]) + 1 /\ new[b][i] = e
  BY <1>0, <1>1, <1>2, <1>3
<1>6. \A b \in Authors : 1 .. Len(fd[b]) \subseteq 1 .. Len(new[b]) /\ Len(fd[a]) + 1 \in 1 .. Len(new[a])
  BY <1>0, <1>1, <1>2, <1>3
<1>7. \A b \in Authors : \A c \in Contents : In(new, b, c) <=> In(fd, b, c) \/ (b = a /\ c = e.content)
  BY <1>0, <1>2, <1>4, <1>5, <1>6 DEF In
<1>8. ASSUME NEW b \in Authors, NEW d \in Authors, NEW i \in 1 .. Len(new[b]), NEW j \in 1 .. Len(new[d]),
             new[b][i].content = new[d][j].content
      PROVE  b = d /\ i = j
  <2>1. CASE i \in 1 .. Len(fd[b]) /\ j \in 1 .. Len(fd[d])
    BY <1>4, <1>8, <2>1 DEF FeedsFit
  <2>2. CASE i \in 1 .. Len(fd[b]) /\ d = a /\ new[d][j] = e
    <3>1. In(fd, b, e.content)
      BY <1>4, <1>8, <2>2 DEF In
    <3> QED BY <1>0, <3>1
  <2>3. CASE j \in 1 .. Len(fd[d]) /\ b = a /\ new[b][i] = e
    <3>1. In(fd, d, e.content)
      BY <1>4, <1>8, <2>3 DEF In
    <3> QED BY <1>0, <3>1
  <2> QED BY <1>5, <1>8, <2>1, <2>2, <2>3
<1>9. \A b \in Authors : \A i \in 1 .. Len(new[b]) :
         new[b][i].supersedes # None => new[b][i].supersedes < i - 1
  BY <1>0, <1>1, <1>5 DEF FeedsFit
<1>10. \A b \in Authors : Len(new[b]) <= MaxLog
  BY <1>0, <1>1, <1>2, <1>3 DEF FeedsFit
<1>11. FeedsFit(new)
  BY <1>2, <1>8, <1>9, <1>10 DEF FeedsFit
<1> QED BY <1>0, <1>1, <1>2, <1>3, <1>4, <1>7, <1>11 DEF Longer

\* The rows still fit when a feed grows, by bytes of which there is no row if it is a peer's.
LEMMA RowsOutliveGrowth ==
  ASSUME NEW fd, NEW new, NEW a, NEW c, FeedsFit(fd), Longer(fd, new, a, c),
         NEW rows, RowsFit(fd, rows), a \in Peers => rows[c] = None
  PROVE  RowsFit(new, rows)
<1>l. /\ a \in Authors /\ Len(fd[a]) \in Nat /\ Len(new[a]) = Len(fd[a]) + 1
      /\ \A b \in Authors \ {a} : new[b] = fd[b]
      /\ \A b \in Authors : \A i \in 1 .. Len(fd[b]) : new[b][i] = fd[b][i]
      /\ \A b \in Authors : \A d \in Contents : In(new, b, d) <=> In(fd, b, d) \/ (b = a /\ d = c)
  BY DEF Longer
<1> USE IndexAssumption
<1> SUFFICES ASSUME NEW d \in Contents, rows[d] # None PROVE RowFits(new, d, rows[d])
  BY DEF RowsFit
<1> DEFINE r == rows[d]
           b == FeedOf(r)
<1>1. r \in Row /\ RowFits(fd, d, r)
  BY DEF RowsFit, RowFits
<1>2. b \in Authors /\ Len(fd[b]) \in Nat
  BY <1>1, LenProperties DEF FeedOf, RowFits, Authors, FeedsFit
<1>3. r.seq # None => r.seq < Len(new[b]) /\ new[b][r.seq + 1].content = d
  <2> SUFFICES ASSUME r.seq # None PROVE r.seq < Len(new[b]) /\ new[b][r.seq + 1].content = d
    OBVIOUS
  <2>1. r.seq \in Nat /\ r.seq < Len(fd[b]) /\ fd[b][r.seq + 1].content = d
    BY <1>1 DEF RowFits, Row, Position, Seqs
  <2>2. Len(fd[b]) <= Len(new[b]) /\ Len(new[b]) \in Nat
    BY <1>l, <1>2
  <2>3. r.seq + 1 \in 1 .. Len(fd[b])
    BY <1>2, <2>1
  <2>4. new[b][r.seq + 1] = fd[b][r.seq + 1]
    BY <1>l, <1>2, <2>3
  <2> HIDE DEF b, r
  <2> QED BY <1>2, <2>1, <2>2, <2>4
<1>4. r.type = "p2p" => In(new, r.ref, d)
  BY <1>l, <1>1 DEF RowFits, Authors
<1>5. r.type = "local" => \A p \in Peers : ~ In(new, p, d)
  BY <1>l, <1>1 DEF RowFits, Authors
<1> QED BY <1>1, <1>3, <1>4, <1>5 DEF RowFits

-----------------------------------------------------------------------------
\* An entry appended to the own feed, and perhaps indexed from the file or blob at x.
LEMMA PublishKeepsInv ==
  ASSUME IndexInv, editing = None, NEW c \in Contents, \A a \in Authors : ~ In(feed, a, c),
         NEW s \in Position, s # None => s < Len(feed[Me]), Len(feed[Me]) < MaxLog,
         NEW x \in Paths \union {Me},
         feed' = Appended(Me, c, s),
         \/ row' = Ingested(row, c, Source("local", x, x, Me, Len(feed[Me]), s))
         \/ row' = row,
         hasKey' \in BOOLEAN, UNCHANGED <<mirror, file, editing>>
  PROVE  IndexInv'
<1> USE IndexAssumption
<1> DEFINE e == [content |-> c, supersedes |-> s]
           n == Len(feed[Me])
           src == Source("local", x, x, Me, n, s)
<1>1. e \in Entry /\ e.content = c /\ e.supersedes = s /\ Me \in Authors
  BY DEF Entry, Authors
<1>2. feed' = [feed EXCEPT ![Me] = Append(feed[Me], e)]
  BY DEF Appended
<1>a. FeedsFit(feed) /\ RowsFit(feed, row)
  BY DEF IndexInv
<1> HIDE DEF e
<1>g. Grown(feed, feed', Me, e)
  BY <1>1, <1>2 DEF Grown
<1>f. FeedsFit(feed') /\ Longer(feed, feed', Me, c) /\ feed'[Me][n + 1] = e
  BY <1>1, <1>a, <1>g, FeedGrows
<1>3. /\ FeedsFit(feed')
      /\ n \in Nat /\ Len(feed'[Me]) = n + 1 /\ feed'[Me][n + 1] = e
      /\ \A b \in Authors \ {Me} : feed'[b] = feed[b]
      /\ \A b \in Authors : \A d \in Contents : In(feed', b, d) <=> In(feed, b, d) \/ (b = Me /\ d = c)
  BY <1>f DEF Longer
<1>4. RowsFit(feed', row)
  BY <1>a, <1>f, RowsOutliveGrowth
<1>5. \A p \in Peers : feed'[p] = feed[p] /\ \A d : In(feed', p, d) <=> In(feed, p, d)
  BY <1>3 DEF Authors, In
<1>6. RowFits(feed', c, src)
  <2>1. n \in Seqs
    BY <1>3 DEF Seqs
  <2>2. /\ src \in Row /\ src.type = "local" /\ src.path = x /\ src.author = Me
        /\ src.seq = n /\ src.supersedes = s
    BY <2>1 DEF Source, Row, Authors, Position
  <2>3. \A p \in Peers : ~ In(feed', p, c)
    BY <1>5 DEF Authors
  <2>4. n # None /\ n < Len(feed'[Me]) /\ feed'[Me][n + 1].content = c
    BY <1>1, <1>3
  <2>5. FeedOf(src) = Me
    BY <2>2 DEF FeedOf
  <2> HIDE DEF src, n
  <2> QED BY <2>2, <2>3, <2>4, <2>5 DEF RowFits, n
<1>7. RowsFit(feed', row')
  BY <1>3, <1>4, <1>6, IngestedFits
<1>8. LocalFiles(feed', file')
  BY <1>5 DEF LocalFiles, IndexInv
<1>9. EditFits(feed', row', editing')
  BY DEF EditFits
<1>10. mirror' \in [Peers -> Nat] /\ \A p \in Peers : mirror'[p] <= Len(feed'[p])
  BY <1>5 DEF IndexInv
<1> QED BY <1>3, <1>7, <1>8, <1>9, <1>10 DEF IndexInv

\* Items that change no row of an edit under way.
LEMMA RowsChange ==
  ASSUME IndexInv, RowsFit(feed, row'), hasKey' \in BOOLEAN, UNCHANGED <<feed, file, editing>>,
         mirror' \in [Peers -> Nat], \A p \in Peers : mirror'[p] <= Len(feed[p]),
         editing # None => /\ row'[editing.old] # None
                           /\ row'[editing.old].type = row[editing.old].type
                           /\ row'[editing.old].path = row[editing.old].path
                           /\ row'[editing.old].seq = row[editing.old].seq
  PROVE  IndexInv'
<1>1. EditFits(feed', row', editing')
  BY DEF EditFits, IndexInv
<1>2. LocalFiles(feed', file')
  BY DEF IndexInv
<1> QED BY <1>1, <1>2 DEF IndexInv

\* `ingest`, the watch folder on a published file, hiding, claiming.
LEMMA RowStepKeepsInv ==
  ASSUME IndexInv, ~ EditsRace,
         \/ \E f \in Paths : IngestPath(f) \/ WatchKnown(f)
         \/ \E c \in Contents, hidden \in BOOLEAN : SetHidden(c, hidden)
         \/ ClaimOrphans
  PROVE  IndexInv'
<1> USE IndexAssumption
<1>a. FeedsFit(feed) /\ RowsFit(feed, row) /\ row \in [Contents -> Row \union {None}]
  BY DEF IndexInv, RowsFit
<1>b. /\ file \in [Paths -> Contents \union {None}]
      /\ mirror \in [Peers -> Nat] /\ \A p \in Peers : mirror[p] <= Len(feed[p])
      /\ hasKey \in BOOLEAN /\ EditFits(feed, row, editing)
  BY DEF IndexInv
<1>e. editing # None => editing.old \in Contents /\ row[editing.old] # None /\ row[editing.old] \in Row
  BY <1>a, <1>b DEF EditFits, Edit
<1>1. ASSUME NEW f \in Paths, IngestPath(f) PROVE IndexInv'
  <2> DEFINE c == FromFile(f).content
             src == FromFile(f).src
  <2>1. c \in Contents /\ RowFits(feed, c, src) /\ row' = Ingested(row, c, src)
    BY <1>1, ItemsFit DEF IngestPath, Item
  <2>2. src.seq = None /\ src.supersedes = None
    BY DEF FromFile, Source
  <2> HIDE DEF c, src
  <2>3. RowsFit(feed, row') /\ LeavesOthers(row, row', c, src)
    BY <1>a, <2>1, IngestedFits
  <2>4. UNCHANGED <<feed, mirror, file, hasKey, editing>>
    BY <1>1 DEF IngestPath
  <2>5. editing # None => /\ row'[editing.old] # None
                          /\ row'[editing.old].type = row[editing.old].type
                          /\ row'[editing.old].path = row[editing.old].path
                          /\ row'[editing.old].seq = row[editing.old].seq
    BY <1>e, <2>2, <2>3 DEF LeavesOthers
  <2> QED BY <1>b, <2>3, <2>4, <2>5, RowsChange
<1>2. ASSUME NEW f \in Paths, WatchKnown(f) PROVE IndexInv'
  <2> DEFINE c == file[f]
             T == {i - 1 : i \in {j \in 1 .. Len(feed[Me]) : feed[Me][j].content = c}}
             q == Max(T)
             src == Source("local", f, f, Me, q, None)
  <2>1. /\ c \in Contents /\ editing = None /\ T # {} /\ row' = Ingested(row, c, src)
        /\ UNCHANGED <<feed, mirror, file, hasKey, editing>>
    BY <1>2, <1>b DEF WatchKnown, Quiet, Published, LastSeq
  <2>2. Len(feed[Me]) \in Nat /\ Len(feed[Me]) <= MaxLog
    BY <1>a, LenProperties DEF FeedsFit, Authors
  <2>3. q \in T
    <3>1. T \subseteq 0 .. Len(feed[Me])
      BY <2>2
    <3> HIDE DEF T
    <3> QED BY <2>1, <2>2, <3>1, GreatestNatural
  <2>4. q \in Seqs /\ q < Len(feed[Me]) /\ feed[Me][q + 1].content = c
    <3>1. PICK i \in 1 .. Len(feed[Me]) : feed[Me][i].content = c /\ q = i - 1
      BY <2>3
    <3> HIDE DEF q
    <3>2. q + 1 = i /\ q \in 0 .. MaxLog - 1 /\ q < Len(feed[Me])
      BY <2>2, <3>1
    <3> QED BY <3>1, <3>2 DEF Seqs
  <2> HIDE DEF T, q
  <2>5. /\ src \in Row /\ src.type = "local" /\ src.path = f /\ src.author = Me
        /\ src.seq = q /\ src.supersedes = None
    BY <2>4 DEF Source, Row, Authors, Position
  <2> HIDE DEF src
  <2>6. RowFits(feed, c, src)
    BY <2>4, <2>5 DEF RowFits, FeedOf, IndexInv, LocalFiles
  <2>7. RowsFit(feed, row')
    BY <1>a, <2>1, <2>6, IngestedFits
  <2> QED BY <1>b, <2>1, <2>7, RowsChange
<1>3. ASSUME NEW d \in Contents, NEW hidden \in BOOLEAN, SetHidden(d, hidden) PROVE IndexInv'
  <2>1. PICK x \in Rows : x = Latest(d)
    BY <1>3, <1>a, LatestEnds DEF SetHidden
  <2>2. x \in Contents /\ row[x] \in Row /\ RowFits(feed, x, row[x])
    BY <1>a, <2>1 DEF Rows, RowsFit
  <2>3. row' = [row EXCEPT ![x].hidden = hidden] /\ UNCHANGED <<feed, mirror, file, hasKey, editing>>
    BY <1>3, <2>1 DEF SetHidden
  <2>4. PICK new : new = [row[x] EXCEPT !.hidden = hidden]
    OBVIOUS
  <2>5. /\ new \in Row /\ new.type = row[x].type /\ new.ref = row[x].ref /\ new.path = row[x].path
        /\ new.author = row[x].author /\ new.seq = row[x].seq /\ new.supersedes = row[x].supersedes
    BY <2>2, <2>4 DEF Row
  <2>6. row' = [row EXCEPT ![x] = new]
    BY <2>3, <2>4
  <2>7. RowFits(feed, x, new)
    BY <2>2, <2>5 DEF RowFits, FeedOf
  <2>8. row' \in [Contents -> Row \union {None}]
    BY <1>a, <2>2, <2>5, <2>6
  <2>9. RowsFit(feed, row')
    BY <1>a, <2>2, <2>6, <2>7, <2>8 DEF RowsFit
  <2>10. editing # None => /\ row'[editing.old] # None
                           /\ row'[editing.old].type = row[editing.old].type
                           /\ row'[editing.old].path = row[editing.old].path
                           /\ row'[editing.old].seq = row[editing.old].seq
    BY <1>a, <1>e, <2>2, <2>5, <2>6, NoneAssumption
  <2> QED BY <1>b, <2>3, <2>9, <2>10, RowsChange
<1>4. ASSUME ClaimOrphans PROVE IndexInv'
  <2> DEFINE Claimed(c) == row[c] # None /\ row[c].author = None /\ row[c].type = "local"
  <2>1. /\ row' = [c \in Contents |-> IF Claimed(c) THEN [row[c] EXCEPT !.author = Me] ELSE row[c]]
        /\ hasKey' = TRUE /\ UNCHANGED <<feed, mirror, file, editing>>
    BY <1>4 DEF ClaimOrphans
  <2>2. ASSUME NEW c \in Contents, row[c] # None
        PROVE  /\ row'[c] \in Row /\ RowFits(feed, c, row'[c])
               /\ row'[c].type = row[c].type /\ row'[c].path = row[c].path /\ row'[c].seq = row[c].seq
    <3>1. row[c] \in Row /\ RowFits(feed, c, row[c])
      BY <1>a, <2>2 DEF RowsFit
    <3>2. CASE Claimed(c)
      <4>1. row'[c] = [row[c] EXCEPT !.author = Me]
        BY <2>1, <3>2
      <4> DEFINE r == row[c]
      <4>2. PICK new : new = [r EXCEPT !.author = Me]
        OBVIOUS
      <4>3. /\ new \in Row /\ new.type = r.type /\ new.ref = r.ref /\ new.path = r.path
            /\ new.author = Me /\ new.seq = r.seq /\ new.supersedes = r.supersedes
        BY <3>1, <4>2 DEF Row, Authors
      <4>4. RowFits(feed, c, new)
        BY <3>1, <3>2, <4>3 DEF RowFits, FeedOf
      <4> QED BY <4>1, <4>2, <4>3, <4>4
    <3>3. CASE ~ Claimed(c)
      BY <2>1, <3>1, <3>3
    <3> QED BY <3>2, <3>3
  <2>3. \A c \in Contents : row[c] = None => row'[c] = None
    BY <2>1
  <2>4. RowsFit(feed, row')
    <3>1. \A c \in Contents : row'[c] \in Row \union {None} /\ (row'[c] # None => RowFits(feed, c, row'[c]))
      BY <2>2, <2>3
    <3>2. row' = [c \in Contents |-> row'[c]]
      BY <2>1
    <3> QED BY <3>1, <3>2 DEF RowsFit
  <2>5. editing # None => /\ row'[editing.old] # None
                          /\ row'[editing.old].type = row[editing.old].type
                          /\ row'[editing.old].path = row[editing.old].path
                          /\ row'[editing.old].seq = row[editing.old].seq
    BY <1>e, <2>2, NoneAssumption
  <2> QED BY <1>b, <2>1, <2>4, <2>5, RowsChange
<1> QED BY <1>1, <1>2, <1>3, <1>4

\* Files or rows, each ingested once, in any order.
LEMMA AllIngestedFit ==
  ASSUME FeedsFit(feed), NEW rows, RowsFit(feed, rows),
         NEW S, IsFiniteSet(S), NEW order \in SetToSeqs(S), NEW item \in [S -> Item],
         \A x \in S : RowFits(feed, item[x].content, item[x].src)
  PROVE  RowsFit(feed, IngestedAll(rows, [i \in DOMAIN order |-> item[order[i]]]))
<1> DEFINE n == Cardinality(S)
           items == [i \in DOMAIN order |-> item[order[i]]]
<1>1. n \in Nat
  BY FS_CardinalityType
<1>2. order \in [1 .. n -> S]
  BY DEF SetToSeqs
<1>3. items \in [1 .. n -> Item] /\ \A i \in 1 .. n : RowFits(feed, items[i].content, items[i].src)
  BY <1>2
<1> HIDE DEF items
<1>4. items \in Seq(Item) /\ Len(items) = n
  BY <1>1, <1>3, SeqDef, LenProperties
<1>5. RowsFit(feed, IngestedAll(rows, items))
  BY <1>3, <1>4, IngestedAllFits
<1> QED BY <1>5 DEF items

\* Whole rebuilds, and whole feeds.
LEMMA SweepKeepsInv ==
  ASSUME IndexInv, ~ EditsRace,
         Reindex \/ Refresh \/ IngestOwnFeed \/ \E p \in Peers : SyncFeed(p) \/ EvictFeed(p)
  PROVE  IndexInv'
<1> USE IndexAssumption
<1>a. FeedsFit(feed) /\ RowsFit(feed, row) /\ row \in [Contents -> Row \union {None}]
      /\ \A a \in Authors : Len(feed[a]) \in Nat
  BY LenProperties DEF IndexInv, RowsFit, FeedsFit
<1>b. /\ mirror \in [Peers -> Nat] /\ \A p \in Peers : mirror[p] <= Len(feed[p])
      /\ hasKey \in BOOLEAN /\ EditFits(feed, row, editing)
  BY DEF IndexInv
<1>1. CASE Reindex
  <2> DEFINE S == {f \in Paths : file[f] # None}
             item == [f \in S |-> FromFile(f)]
             none == [c \in Contents |-> None]
  <2>1. PICK order \in SetToSeqs(S) : row' = IngestedAll(none, [i \in DOMAIN order |-> FromFile(order[i])])
    BY <1>1 DEF Reindex
  <2>2. editing = None /\ UNCHANGED <<feed, mirror, file, hasKey, editing>>
    BY <1>1 DEF Reindex, Quiet
  <2>3. IsFiniteSet(S)
    <3>1. S \subseteq Contents \union Paths
      OBVIOUS
    <3> QED BY <3>1, FS_Subset
  <2>4. item \in [S -> Item] /\ \A f \in S : RowFits(feed, item[f].content, item[f].src)
    BY ItemsFit
  <2>5. RowsFit(feed, none)
    BY DEF RowsFit
  <2>6. [i \in DOMAIN order |-> FromFile(order[i])] = [i \in DOMAIN order |-> item[order[i]]]
    <3>1. \A i \in DOMAIN order : order[i] \in S
      BY DEF SetToSeqs
    <3> QED BY <3>1
  <2> HIDE DEF item, S, none
  <2>7. RowsFit(feed, row')
    BY <1>a, <2>1, <2>3, <2>4, <2>5, <2>6, AllIngestedFit
  <2> QED BY <1>b, <2>2, <2>7, RowsChange
<1>2. CASE Refresh
  <2> DEFINE S == {c \in Rows : BytesAt(row[c].path, c) # None}
             item == [c \in S |-> FromRow(c)]
  <2>1. PICK order \in SetToSeqs(S) : row' = IngestedAll(row, [i \in DOMAIN order |-> FromRow(order[i])])
    BY <1>2 DEF Refresh
  <2>2. editing = None /\ UNCHANGED <<feed, mirror, file, hasKey, editing>>
    BY <1>2 DEF Refresh, Quiet
  <2>3. IsFiniteSet(S)
    <3>1. S \subseteq Contents \union Paths
      BY DEF Rows
    <3> QED BY <3>1, FS_Subset
  <2>4. item \in [S -> Item] /\ \A c \in S : RowFits(feed, item[c].content, item[c].src)
    BY ItemsFit DEF Rows
  <2>6. [i \in DOMAIN order |-> FromRow(order[i])] = [i \in DOMAIN order |-> item[order[i]]]
    <3>1. \A i \in DOMAIN order : order[i] \in S
      BY DEF SetToSeqs
    <3> QED BY <3>1
  <2> HIDE DEF item, S
  <2>7. RowsFit(feed, row')
    BY <1>a, <2>1, <2>3, <2>4, <2>6, AllIngestedFit
  <2> QED BY <1>b, <2>2, <2>7, RowsChange
<1>3. CASE IngestOwnFeed
  <2>1. /\ editing = None /\ row' = IngestedFeed(row, Me, Len(feed[Me]), "local")
        /\ UNCHANGED <<feed, mirror, file, hasKey, editing>>
    BY <1>3 DEF IngestOwnFeed, Quiet
  <2>2. RowsFit(feed, row')
    BY <1>a, <2>1, FeedIngestedFits DEF Authors
  <2> QED BY <1>b, <2>1, <2>2, RowsChange
<1>4. ASSUME NEW p \in Peers, SyncFeed(p) PROVE IndexInv'
  <2> DEFINE new == IngestedFeed(row, p, Len(feed[p]), "p2p")
  <2>1. /\ mirror' = [mirror EXCEPT ![p] = Len(feed[p])] /\ UNCHANGED <<feed, file, hasKey, editing>>
        /\ row' = new \/ row' = row
    BY <1>4 DEF SyncFeed
  <2>2. RowsFit(feed, new) /\ \A c \in Contents : ~ In(feed, p, c) => new[c] = row[c]
    <3>1. p \in Authors /\ p # Me
      BY DEF Authors
    <3> QED BY <1>a, <3>1, FeedIngestedFits
  <2> HIDE DEF new
  <2>3. editing # None => row'[editing.old] = row[editing.old] /\ row[editing.old] # None
    <3> SUFFICES ASSUME editing # None PROVE row'[editing.old] = row[editing.old] /\ row[editing.old] # None
      OBVIOUS
    <3>1. /\ editing.old \in Contents /\ row[editing.old] # None /\ row[editing.old].type = "local"
      BY <1>b DEF EditFits, Edit
    <3>2. ~ In(feed, p, editing.old)
      BY <1>a, <3>1 DEF RowsFit, RowFits
    <3> QED BY <2>1, <2>2, <3>1, <3>2
  <2>4. mirror' \in [Peers -> Nat] /\ \A q \in Peers : mirror'[q] <= Len(feed[q])
    <3>1. Len(feed[p]) \in Nat
      BY <1>a DEF Authors
    <3> QED BY <1>b, <2>1, <3>1
  <2>5. RowsFit(feed, row')
    BY <1>a, <2>1, <2>2
  <2> QED BY <1>b, <2>1, <2>3, <2>4, <2>5, RowsChange
<1>5. ASSUME NEW p \in Peers, EvictFeed(p) PROVE IndexInv'
  <2>1. mirror' = [mirror EXCEPT ![p] = 0] /\ UNCHANGED <<feed, file, row, hasKey, editing>>
    BY <1>5 DEF EvictFeed
  <2>2. mirror' \in [Peers -> Nat] /\ \A q \in Peers : mirror'[q] <= Len(feed[q])
    <3>1. \A q \in Peers : Len(feed[q]) \in Nat
      BY <1>a DEF Authors
    <3> QED BY <1>b, <2>1, <3>1
  <2>3. editing # None => row[editing.old] # None
    BY <1>b DEF EditFits
  <2> QED BY <1>a, <1>b, <2>1, <2>2, <2>3, RowsChange
<1> QED BY <1>1, <1>2, <1>3, <1>4, <1>5

\* What users and peers save and publish, and edits.
LEMMA WriteKeepsInv ==
  ASSUME IndexInv, ~ EditsRace, ~ SharedBytes,
         \/ \E f \in Paths, c \in Contents : SaveFile(f, c)
         \/ \E f \in Paths : FeedPublish(f) \/ WatchNew(f)
         \/ \E p \in Peers, c \in Contents : PeerPublishes(p, c)
         \/ \E c, new \in Contents : StartEdit(c, new) \/ EditPublished(c, new)
         \/ \E s \in Seqs, new \in Contents : ApplyDelivered(s, new)
         \/ FinishEdit
  PROVE  IndexInv'
<1> USE IndexAssumption
<1>a. FeedsFit(feed) /\ RowsFit(feed, row) /\ row \in [Contents -> Row \union {None}]
      /\ \A a \in Authors : Len(feed[a]) \in Nat /\ Len(feed[a]) <= MaxLog
  BY LenProperties DEF IndexInv, RowsFit, FeedsFit
<1>b. /\ mirror \in [Peers -> Nat] /\ \A p \in Peers : mirror[p] <= Len(feed[p])
      /\ file \in [Paths -> Contents \union {None}] /\ LocalFiles(feed, file)
      /\ hasKey \in BOOLEAN /\ EditFits(feed, row, editing)
  BY DEF IndexInv
<1>n. AnyBytes = NewBytes
  BY DEF AnyBytes
<1>e. editing # None => editing \in Edit /\ editing.old \in Contents /\ editing.new \in Contents
                        /\ row[editing.old] # None
  BY <1>b DEF EditFits, Edit
<1>p. \A s : s \in {None} \union 0 .. Len(feed[Me]) - 1 => s \in Position /\ (s # None => s < Len(feed[Me]))
  BY <1>a DEF Position, Seqs, Authors
<1>1. ASSUME NEW f \in Paths, NEW c \in Contents, SaveFile(f, c) PROVE IndexInv'
  <2>1. c \in NewBytes /\ file' = [file EXCEPT ![f] = c] /\ UNCHANGED <<feed, mirror, row, hasKey, editing>>
    BY <1>1, <1>n DEF SaveFile
  <2>2. \A a \in Authors : ~ In(feed, a, c)
    BY <2>1, NewBytesAreNew
  <2>3. LocalFiles(feed, file') /\ file' \in [Paths -> Contents \union {None}]
    BY <1>b, <2>1, <2>2 DEF LocalFiles, Authors
  <2> QED BY <1>a, <1>b, <2>1, <2>3 DEF IndexInv
<1>2. ASSUME NEW f \in Paths, NEW s \in {None} \union 0 .. Len(feed[Me]) - 1,
             file[f] # None, file[f] \notin Published(Me), PublishFile(f, s)
      PROVE  IndexInv'
  <2>1. \A a \in Authors : ~ In(feed, a, file[f])
    BY <1>b, <1>2 DEF LocalFiles, Authors, In, Published
  <2>2. file[f] \in Contents /\ editing = None
    BY <1>b, <1>2 DEF PublishFile, Quiet
  <2>3. s \in Position /\ (s # None => s < Len(feed[Me]))
    BY <1>p
  <2> QED BY <1>2, <2>1, <2>2, <2>3, PublishKeepsInv DEF PublishFile
<1>3. ASSUME NEW new \in NewBytes, NEW s \in 0 .. Len(feed[Me]) - 1, Supersede(s, new) PROVE IndexInv'
  <2>1. new \in Contents /\ \A a \in Authors : ~ In(feed, a, new)
    BY NewBytesAreNew
  <2>2. s \in Position /\ (s # None => s < Len(feed[Me]))
    BY <1>p
  <2>3. editing = None /\ hasKey' \in BOOLEAN
    BY <1>3, <1>b DEF Supersede, Quiet
  <2> QED BY <1>3, <2>1, <2>2, <2>3, PublishKeepsInv DEF Supersede
<1>4. ASSUME NEW c \in Rows, row[c].author = Me, row[c].seq # None PROVE row[c].seq \in 0 .. Len(feed[Me]) - 1
  <2>1. RowFits(feed, c, row[c]) /\ row[c] \in Row
    BY <1>a DEF Rows, RowsFit, RowFits
  <2>2. FeedOf(row[c]) = Me
    BY <1>4, <2>1 DEF RowFits, Authors
  <2>3. row[c].seq \in Nat /\ row[c].seq < Len(feed[Me])
    BY <1>4, <2>1, <2>2 DEF RowFits, Row, Position, Seqs
  <2> QED BY <1>a, <2>3 DEF Authors
<1>5. ASSUME NEW p \in Peers, NEW c \in Contents, PeerPublishes(p, c) PROVE IndexInv'
  <2>1. PICK s \in {None} \union 0 .. Len(feed[p]) - 1 : feed' = Appended(p, c, s)
    BY <1>5 DEF PeerPublishes
  <2> DEFINE e == [content |-> c, supersedes |-> s]
  <2>2. c \in NewBytes /\ Len(feed[p]) < MaxLog /\ UNCHANGED <<mirror, file, row, hasKey, editing>>
    BY <1>5, <1>n DEF PeerPublishes
  <2>3. /\ row[c] = None /\ \A f \in Paths : file[f] # c
        /\ \A a \in Authors : ~ In(feed, a, c)
        /\ editing # None => editing.new # c
    BY <2>2, NewBytesAreNew
  <2>4. e \in Entry /\ e.content = c /\ (e.supersedes # None => e.supersedes < Len(feed[p])) /\ p \in Authors
    BY <1>a DEF Entry, Position, Seqs, Authors
  <2>5. feed' = [feed EXCEPT ![p] = Append(feed[p], e)]
    BY <2>1 DEF Appended
  <2> HIDE DEF e
  <2>6. Grown(feed, feed', p, e)
    BY <2>2, <2>3, <2>4, <2>5 DEF Grown
  <2>7. FeedsFit(feed') /\ Longer(feed, feed', p, c)
    BY <1>a, <2>4, <2>6, FeedGrows
  <2>8. RowsFit(feed', row)
    BY <1>a, <2>3, <2>7, RowsOutliveGrowth
  <2>9. /\ \A b \in Authors : b = p \/ feed'[b] = feed[b]
        /\ \A b \in Authors : \A d \in Contents : In(feed', b, d) <=> In(feed, b, d) \/ (b = p /\ d = c)
        /\ Len(feed[p]) \in Nat /\ Len(feed'[p]) = Len(feed[p]) + 1
    BY <2>7 DEF Longer
  <2>10. LocalFiles(feed', file)
    <3> SUFFICES ASSUME NEW f \in Paths, NEW q \in Peers, In(feed', q, file[f]) PROVE FALSE
      BY DEF LocalFiles
    <3>1. file[f] \in Contents
      <4>1. PICK i \in 1 .. Len(feed'[q]) : feed'[q][i].content = file[f]
        BY DEF In
      <4>2. feed'[q] \in Seq(Entry)
        BY <2>7 DEF FeedsFit, Authors
      <4>3. feed'[q][i] \in Entry
        BY <4>2, ElementOfSeq
      <4> QED BY <4>1, <4>3 DEF Entry
    <3> QED BY <1>b, <2>3, <2>9, <3>1 DEF LocalFiles, Authors
  <2>11. EditFits(feed', row, editing)
    BY <1>b, <1>e, <2>3, <2>9 DEF EditFits
  <2>12. \A q \in Peers : mirror[q] <= Len(feed'[q])
    BY <1>b, <2>9 DEF Authors
  <2> QED BY <1>b, <2>2, <2>7, <2>8, <2>10, <2>11, <2>12 DEF IndexInv
<1>6. ASSUME NEW c \in Contents, NEW new \in Contents, StartEdit(c, new) PROVE IndexInv'
  <2> DEFINE old == Latest(c)
  <2>1. /\ old \in Rows /\ new \in NewBytes /\ row[old].seq = None /\ row[old].path \in Paths
        /\ editing' = [old |-> old, new |-> new] /\ UNCHANGED <<feed, mirror, file, row, hasKey>>
    BY <1>6, <1>a, LatestEnds DEF StartEdit
  <2> HIDE DEF old
  <2>2. old \in Contents /\ row[old] # None /\ row[old] \in Row /\ RowFits(feed, old, row[old])
    BY <1>a, <2>1 DEF Rows, RowsFit
  <2>3. row[old].type = "local"
    BY <2>1, <2>2 DEF RowFits, Row, Authors
  <2>4. \A a \in Authors : ~ In(feed, a, new)
    BY <2>1, NewBytesAreNew
  <2>5. editing' \in Edit /\ editing'.old = old /\ editing'.new = new
    BY <2>1, <2>2 DEF Edit
  <2>6. EditFits(feed, row, editing')
    BY <2>1, <2>2, <2>3, <2>4, <2>5 DEF EditFits
  <2> QED BY <1>a, <1>b, <2>1, <2>6 DEF IndexInv
<1>7. ASSUME NEW c \in Contents, NEW new \in Contents, EditPublished(c, new) PROVE IndexInv'
  <2> DEFINE old == Latest(c)
  <2>1. old \in Rows /\ row[old].seq # None /\ row[old].author = Me /\ new \in NewBytes
        /\ Supersede(row[old].seq, new)
    BY <1>7, <1>a, LatestEnds DEF EditPublished
  <2> HIDE DEF old
  <2> QED BY <1>3, <1>4, <2>1
<1>8. ASSUME NEW s \in Seqs, NEW new \in Contents, ApplyDelivered(s, new) PROVE IndexInv'
  <2>1. PICK c \in Rows : row[c].author = Me /\ row[c].seq = s
    BY <1>8 DEF ApplyDelivered
  <2>2. s # None /\ new \in NewBytes /\ Supersede(s, new)
    BY <1>8 DEF ApplyDelivered, Seqs
  <2> QED BY <1>3, <1>4, <2>1, <2>2
<1>9. CASE FinishEdit
  <2> DEFINE r == row[editing.old]
             x == editing.new
  <2>1. /\ editing # None /\ file' = [file EXCEPT ![r.path] = x]
        /\ row' = [row EXCEPT ![editing.old] = None, ![x] = r]
        /\ editing' = None /\ UNCHANGED <<feed, mirror, hasKey>>
    BY <1>9 DEF FinishEdit
  <2>2. /\ editing.old \in Contents /\ x \in Contents /\ r # None
        /\ r.type = "local" /\ r.path \in Paths /\ r.seq = None
        /\ \A a \in Authors : ~ In(feed, a, x)
    BY <1>b, <1>e, <2>1 DEF EditFits
  <2>3. r \in Row /\ RowFits(feed, editing.old, r)
    BY <1>a, <2>2 DEF RowsFit
  <2> HIDE DEF r, x
  <2>4. RowFits(feed, x, r)
    BY <2>2, <2>3 DEF RowFits, Authors
  <2>5. /\ row' \in [Contents -> Row \union {None}] /\ row'[x] = r
        /\ \A c \in Contents \ {x} : row'[c] \in {None, row[c]}
    BY <1>a, <2>1, <2>2, <2>3
  <2>6. RowsFit(feed, row')
    BY <1>a, <2>4, <2>5 DEF RowsFit
  <2>7. file' \in [Paths -> Contents \union {None}] /\ LocalFiles(feed, file')
    BY <1>b, <2>1, <2>2 DEF LocalFiles, Authors
  <2>8. EditFits(feed', row', editing')
    BY <2>1 DEF EditFits
  <2> QED BY <1>a, <1>b, <2>1, <2>6, <2>7, <2>8 DEF IndexInv
<1>10. ASSUME NEW f \in Paths, FeedPublish(f) \/ WatchNew(f) PROVE IndexInv'
  BY <1>2, <1>10 DEF FeedPublish, WatchNew
<1> QED BY <1>1, <1>5, <1>6, <1>7, <1>8, <1>9, <1>10

\* Each step is one of the above.
LEMMA IndexStepKeepsInv ==
  ASSUME IndexInv, ~ EditsRace, ~ SharedBytes, [IndexNext]_indexVars
  PROVE  IndexInv'
<1>1. CASE IndexNext
  BY <1>1, WriteKeepsInv, SweepKeepsInv, RowStepKeepsInv DEF IndexNext
<1>2. CASE UNCHANGED indexVars
  BY <1>2 DEF indexVars, IndexInv
<1> QED BY <1>1, <1>2

\* At first there is neither feed nor row.
LEMMA IndexInvAtFirst == IndexInit => IndexInv
<1> USE IndexAssumption
<1> SUFFICES ASSUME IndexInit PROVE IndexInv
  OBVIOUS
<1>1. \A a \in Authors : feed[a] = <<>> /\ Len(feed[a]) = 0 /\ \A c : ~ In(feed, a, c)
  BY DEF IndexInit, In
<1>2. FeedsFit(feed)
  <2>1. feed \in [Authors -> Seq(Entry)]
    BY DEF IndexInit
  <2> QED BY <1>1, <2>1 DEF FeedsFit
<1>3. RowsFit(feed, row) /\ editing = None /\ file \in [Paths -> Contents \union {None}]
      /\ mirror = [p \in Peers |-> 0] /\ hasKey = FALSE
  BY DEF IndexInit, RowsFit
<1>4. LocalFiles(feed, file) /\ EditFits(feed, row, editing)
  BY <1>1, <1>3 DEF LocalFiles, EditFits, Authors
<1>5. mirror \in [Peers -> Nat] /\ \A p \in Peers : mirror[p] <= Len(feed[p])
  BY <1>1, <1>3 DEF Authors
<1> QED BY <1>2, <1>3, <1>4, <1>5 DEF IndexInv

\* The author and position of a row name the entry that has the row's bytes, whatever is
\* ingested, published, edited, mirrored, evicted and rebuilt in whatever order: as long as
\* nobody publishes what another did, and nothing is published during an unpublished edit.
THEOREM RowsNameTheirEntries ==
  ASSUME ~ EditsRace, ~ SharedBytes
  PROVE  IndexSpec => []RowNamesItsEntry
<1>1. ASSUME IndexInv, [IndexNext]_indexVars PROVE IndexInv'
  BY <1>1, IndexStepKeepsInv
<1>2. IndexInv => RowNamesItsEntry
  <2> SUFFICES ASSUME IndexInv, NEW c \in Rows, row[c].author # None, row[c].seq # None
               PROVE  /\ row[c].seq < Len(feed[row[c].author])
                      /\ feed[row[c].author][row[c].seq + 1].content = c
    BY DEF RowNamesItsEntry
  <2> QED BY DEF IndexInv, RowsFit, RowFits, Rows
<1>3. IndexInv /\ [IndexNext]_indexVars => IndexInv'
  BY <1>1
<1> QED BY <1>2, <1>3, IndexInvAtFirst, PTL DEF IndexSpec

\* Every roast has a latest version, which a search shows: what supersedes a row is a later
\* entry of the same feed, so the chain has no cycle and is not longer than the contents.
THEOREM LatestVersionIsShown ==
  ASSUME ~ EditsRace, ~ SharedBytes
  PROVE  IndexSpec => []LatestIsShown
<1>1. IndexInv => LatestIsShown
  BY LatestEnds DEF IndexInv, LatestIsShown
<1>2. IndexInv /\ [IndexNext]_indexVars => IndexInv'
  BY IndexStepKeepsInv
<1> QED BY <1>1, <1>2, IndexInvAtFirst, PTL DEF IndexSpec

-----------------------------------------------------------------------------
(***************************************************************************)
(* Retention.  A pass plans with the ledger and the holder lists as the    *)
(* syncs left them: their types are what is needed, and that nobody holds  *)
(* more of a feed than its author published, so that what a sync copies is *)
(* a length of that feed.  The rest is the plan: the loop over the ranking *)
(* keeps a feed if it fits in what those before it left.                   *)
(***************************************************************************)
\* The ledger's holder lists are sequences of nodes.
HoldersListed == holders \in [Nodes -> [Feeds -> Seq(Nodes)]]

\* An author has all of its own feed, and nobody has more of it.
AuthorsLead ==
    /\ \A f \in Feeds : held[f][f] = len[f] /\ indexed[f][f] = len[f]
    /\ \A n \in Nodes, f \in Feeds : held[n][f] <= held[f][f]

\* The inductive invariant.
RetentionInv == TypeOK /\ HoldersListed /\ AuthorsLead

-----------------------------------------------------------------------------
(***************************************************************************)
(* _keep_rank orders the feeds, so there is a ranking of any of them.      *)
(***************************************************************************)
LEMMA CopiesCount ==
  ASSUME HoldersListed, NEW n \in Nodes, NEW f \in Feeds
  PROVE  Copies(n, f) \in Nat /\ Dist[n][f] \in Nat
<1>1. holders[n][f] \in Seq(Nodes)
  BY DEF HoldersListed
<1>2. Dist[n][f] \in Nat
  BY RetentionAssumption
<1> QED BY <1>1, <1>2, LenProperties DEF Copies

\* Rarer is a strict total order: no two keys are at one distance.
LEMMA RarerIsOrder ==
  ASSUME HoldersListed, NEW n \in Nodes
  PROVE  /\ \A f \in Feeds : ~ Rarer(n, f, f)
         /\ \A f, g, h \in Feeds : Rarer(n, f, g) /\ Rarer(n, g, h) => Rarer(n, f, h)
         /\ \A f, g \in Feeds : f # g => Rarer(n, f, g) \/ Rarer(n, g, f)
<1>1. \A f \in Feeds : Copies(n, f) \in Nat /\ Dist[n][f] \in Nat
  BY CopiesCount
<1>2. \A f, g \in Feeds : Dist[n][f] = Dist[n][g] => f = g
  BY RetentionAssumption DEF IsInjective
<1>3. \A f \in Feeds : ~ Rarer(n, f, f)
  BY <1>1 DEF Rarer
<1>4. \A f, g, h \in Feeds : Rarer(n, f, g) /\ Rarer(n, g, h) => Rarer(n, f, h)
  BY <1>1 DEF Rarer
<1>5. ASSUME NEW f \in Feeds, NEW g \in Feeds, f # g PROVE Rarer(n, f, g) \/ Rarer(n, g, f)
  <2>1. Dist[n][f] # Dist[n][g]
    BY <1>2, <1>5
  <2> QED BY <1>1, <2>1 DEF Rarer
<1> QED BY <1>3, <1>4, <1>5

\* Ranked lists all of them, each before those it is rarer than.
LEMMA RankedOrders ==
  ASSUME HoldersListed, NEW n \in Nodes, NEW feeds \in SUBSET Feeds
  PROVE  /\ Ranked(n, feeds) \in Seq(feeds) /\ Len(Ranked(n, feeds)) \in Nat
         /\ \A i \in 1 .. Len(Ranked(n, feeds)) : Ranked(n, feeds)[i] \in feeds
         /\ \A i, j \in 1 .. Len(Ranked(n, feeds)) : i < j => Rarer(n, Ranked(n, feeds)[i], Ranked(n, feeds)[j])
         /\ \A f \in feeds : \E i \in 1 .. Len(Ranked(n, feeds)) : Ranked(n, feeds)[i] = f
<1> DEFINE N == Cardinality(feeds)
           R == {p \in feeds \X feeds : Rarer(n, p[1], p[2])}
           s == Ranked(n, feeds)
<1>1. IsFiniteSet(feeds) /\ N \in Nat
  BY RetentionAssumption, FS_Subset, FS_CardinalityType DEF Feeds
<1>2. \A f, g \in feeds : <<f, g>> \in R <=> Rarer(n, f, g)
  OBVIOUS
<1> HIDE DEF R, N
<1>3. /\ \A f \in feeds : <<f, f>> \notin R
      /\ \A f, g, h \in feeds : <<f, g>> \in R /\ <<g, h>> \in R => <<f, h>> \in R
      /\ \A f, g \in feeds : f # g => <<f, g>> \in R \/ <<g, f>> \in R
  BY <1>2, RarerIsOrder
<1>4. \A t \in [1 .. N -> feeds] : GoesUp(t, R) <=> \A i, j \in DOMAIN t : i < j => Rarer(n, t[i], t[j])
  BY <1>2 DEF GoesUp
<1>5. \E t \in [1 .. N -> feeds] : GoesUp(t, R)
  BY <1>1, <1>3, ListingExists DEF N
<1>6. s \in [1 .. N -> feeds] /\ \A i, j \in DOMAIN s : i < j => Rarer(n, s[i], s[j])
  BY <1>4, <1>5 DEF Ranked, N
<1> HIDE DEF s
<1>7. GoesUp(s, R)
  BY <1>4, <1>6
<1>8. \A f \in feeds : \E i \in 1 .. N : s[i] = f
  <2>1. \A f \in feeds : <<f, f>> \notin R
    BY <1>3
  <2>2. s \in [1 .. Cardinality(feeds) -> feeds]
    BY <1>6 DEF N
  <2>3. \A f \in feeds : \E i \in 1 .. Cardinality(feeds) : s[i] = f
    BY <1>1, <1>7, <2>1, <2>2, ListingIsComplete
  <2> QED BY <2>3 DEF N
<1>9. s \in Seq(feeds) /\ Len(s) = N
  BY <1>1, <1>6, SeqDef, LenProperties
<1> QED BY <1>1, <1>6, <1>8, <1>9 DEF s

-----------------------------------------------------------------------------
(***************************************************************************)
(* plan_retention: what is kept of the feeds that are free to evict.       *)
(***************************************************************************)
LEMMA BytesCount ==
  ASSUME TypeOK, NEW n \in Nodes, NEW f \in Feeds
  PROVE  held[n][f] \in Nat /\ Bytes(n, f) \in Nat
<1>1. held[n][f] \in Lengths /\ Lengths \subseteq Nat
  BY RetentionAssumption DEF TypeOK, Lengths
<1>2. Size[f] \in Nat
  BY RetentionAssumption
<1>3. \A x, y \in Nat : x * y \in Nat
  BY SMT
<1> QED BY <1>1, <1>2, <1>3 DEF Bytes

\* What the pinned feeds leave of the budget is a number of bytes.
LEMMA RemainingCounts ==
  ASSUME TypeOK, NEW n \in Nodes
  PROVE  Remaining(n) \in Nat
<1> DEFINE P == HeldBy(n) \intersect Pinned(n)
           T == {{f} \X (1 .. Bytes(n, f)) : f \in P}
           each == [f \in P |-> {f} \X (1 .. Bytes(n, f))]
<1>1. P \subseteq Feeds /\ IsFiniteSet(P)
  <2>1. P \in SUBSET Feeds
    BY DEF HeldBy
  <2> QED BY <2>1, RetentionAssumption, FS_Subset DEF Feeds
<1>2. ASSUME NEW f \in P PROVE IsFiniteSet({f} \X (1 .. Bytes(n, f)))
  <2>1. Bytes(n, f) \in Nat
    BY <1>1, BytesCount
  <2>2. IsFiniteSet(1 .. Bytes(n, f))
    BY <2>1, FS_Interval
  <2>3. IsFiniteSet({f})
    BY FS_Singleton
  <2> QED BY <2>2, <2>3, FS_Product
<1>3. each \in Surjection(P, T)
  BY DEF Surjection
<1>4. IsFiniteSet(T) /\ \A t \in T : IsFiniteSet(t)
  <2>1. IsFiniteSet(T)
    <3> HIDE DEF each, T, P
    <3> QED BY <1>1, <1>3, FS_Surjection
  <2> QED BY <1>2, <2>1
<1>5. Cardinality(UNION T) \in Nat
  <2> HIDE DEF T
  <2> QED BY <1>4, FS_UNION, FS_CardinalityType
<1>6. Reserved(n) \in Nat
  BY <1>5 DEF Reserved
<1>7. Budget[n] \in Nat
  BY RetentionAssumption
<1> QED BY <1>6, <1>7 DEF Remaining

Plans == [free: Nat, keep: SUBSET Feeds, acquire: SUBSET Feeds]

\* One turn of the loop that keeps feeds.
LEMMA KeepFacts ==
  ASSUME TypeOK, NEW n \in Nodes, NEW plan \in Plans, NEW f \in Feeds
  PROVE  /\ Keep(n, plan, f) \in Plans
         /\ Keep(n, plan, f).free \in Nat /\ Keep(n, plan, f).free <= plan.free
         /\ Keep(n, plan, f).keep = IF Bytes(n, f) <= plan.free THEN plan.keep \union {f} ELSE plan.keep
<1>1. Bytes(n, f) \in Nat
  BY BytesCount
<1>2. plan.free \in Nat
  BY DEF Plans
<1>3. CASE Bytes(n, f) <= plan.free
  <2>1. Keep(n, plan, f) = [plan EXCEPT !.free = plan.free - Bytes(n, f), !.keep = plan.keep \union {f}]
    BY <1>3 DEF Keep
  <2>2. plan.free - Bytes(n, f) \in Nat /\ plan.free - Bytes(n, f) <= plan.free
    BY <1>1, <1>2, <1>3
  <2> QED BY <1>3, <2>1, <2>2 DEF Plans
<1>4. CASE ~ (Bytes(n, f) <= plan.free)
  BY <1>2, <1>4 DEF Keep
<1> QED BY <1>3, <1>4

\* plan_retention's first loop.  The plan starts with the pinned feeds; the others are
\* tried in the order of their rank, each against what those before it left.
Evictable(n) == Ranked(n, HeldBy(n) \ Pinned(n))

LEMMA KeptFacts ==
  ASSUME TypeOK, HoldersListed, NEW n \in Nodes
  PROVE  /\ KeptFeeds(n) \in Plans
         /\ \E free \in [0 .. Len(Evictable(n)) -> Nat] :
              /\ \A i, j \in 0 .. Len(Evictable(n)) : i <= j => free[j] <= free[i]
              /\ KeptFeeds(n).keep = (HeldBy(n) \intersect Pinned(n)) \union
                     {Evictable(n)[i] : i \in {x \in 1 .. Len(Evictable(n)) : Bytes(n, Evictable(n)[x]) <= free[x - 1]}}
<1> DEFINE R == Evictable(n)
           N == Len(R)
           X == Plans
           first == [free |-> Remaining(n), keep |-> HeldBy(n) \intersect Pinned(n), acquire |-> {}]
           step == [i \in 1 .. N |-> [p \in X |-> Keep(n, p, R[i])]]
           Upto(f) == f = [i \in 0 .. N |-> IF i = 0 THEN first ELSE Keep(n, f[i - 1], R[i])]
           A == CHOOSE f : Upto(f)
<1>1. N \in Nat /\ \A i \in 1 .. N : R[i] \in Feeds
  <2>1. HeldBy(n) \ Pinned(n) \in SUBSET Feeds
    BY DEF HeldBy
  <2> QED BY <2>1, RankedOrders DEF Evictable
<1>2. first \in X /\ first.keep = HeldBy(n) \intersect Pinned(n)
  BY RemainingCounts DEF HeldBy, Plans
<1> HIDE DEF R, N, X, first
<1>3. ASSUME NEW i \in 1 .. N, NEW p \in X PROVE Keep(n, p, R[i]) \in X
  BY <1>1, KeepFacts DEF X
<1>4. step \in [1 .. N -> [X -> X]]
  BY <1>3
<1>5. PICK g \in [0 .. N -> X] : Stepwise(N, first, step, g)
  <2> HIDE DEF step
  <2> QED BY <1>1, <1>2, <1>4, StepwiseExists
<1>6. Upto(g)
  <2>1. ASSUME NEW i \in 0 .. N PROVE g[i] = IF i = 0 THEN first ELSE Keep(n, g[i - 1], R[i])
    <3>1. g[i] = IF i = 0 THEN first ELSE step[i][g[i - 1]]
      BY <1>5 DEF Stepwise
    <3>2. CASE i # 0
      <4>1. i \in 1 .. N /\ i - 1 \in 0 .. N
        BY <1>1, <3>2
      <4>2. g[i - 1] \in X
        BY <4>1
      <4>3. step[i][g[i - 1]] = Keep(n, g[i - 1], R[i])
        BY <4>1, <4>2
      <4> QED BY <3>1, <3>2, <4>3
    <3> QED BY <3>1, <3>2
  <2>2. g = [i \in 0 .. N |-> g[i]]
    OBVIOUS
  <2> QED BY <2>1, <2>2
<1>7. Upto(A)
  <2> HIDE DEF Upto
  <2> QED BY <1>6
<1>8. KeptFeeds(n) = A[N]
  BY DEF KeptFeeds, Evictable, N, R, first
<1> HIDE DEF A
<1>9. A[0] = first /\ \A i \in 1 .. N : A[i] = Keep(n, A[i - 1], R[i])
  <2>1. A = [i \in 0 .. N |-> IF i = 0 THEN first ELSE Keep(n, A[i - 1], R[i])]
    BY <1>7
  <2>2. \A i \in 0 .. N : A[i] = IF i = 0 THEN first ELSE Keep(n, A[i - 1], R[i])
    BY <2>1
  <2>3. 0 \in 0 .. N /\ \A i \in 1 .. N : i \in 0 .. N /\ i # 0
    BY <1>1
  <2> QED BY <2>2, <2>3
<1> DEFINE fits(m) == {x \in 1 .. m : Bytes(n, R[x]) <= A[x - 1].free}
           T == {m \in 0 .. N : /\ A[m] \in X
                                /\ \A i \in 0 .. m : A[i].free \in Nat /\ A[m].free <= A[i].free
                                /\ A[m].keep = first.keep \union {R[i] : i \in fits(m)}}
<1>10. 0 \in T
  <2>1. 1 .. 0 = {} /\ 0 .. 0 = {0} /\ first.free \in Nat
    BY <1>2 DEF X, Plans
  <2> QED BY <1>1, <1>2, <1>9, <2>1
<1>11. ASSUME NEW m \in 1 .. N, m - 1 \in T PROVE m \in T
  <2> DEFINE p == A[m - 1]
             f == R[m]
             q == A[m]
  <2>1. /\ p \in Plans /\ p.free \in Nat /\ f \in Feeds /\ q = Keep(n, p, f)
        /\ \A i \in 0 .. m - 1 : A[i].free \in Nat /\ p.free <= A[i].free
        /\ p.keep = first.keep \union {R[i] : i \in fits(m - 1)}
    BY <1>1, <1>9, <1>11 DEF X, Plans
  <2>2. /\ q \in Plans /\ q.free \in Nat /\ q.free <= p.free
        /\ q.keep = IF Bytes(n, f) <= p.free THEN p.keep \union {f} ELSE p.keep
    <3> HIDE DEF p, f, q
    <3> QED BY <2>1, KeepFacts
  <2>3. fits(m) = IF Bytes(n, f) <= p.free THEN fits(m - 1) \union {m} ELSE fits(m - 1)
    <3>1. 1 .. m = (1 .. m - 1) \union {m} /\ m \notin 1 .. m - 1
      BY <1>1
    <3> QED BY <3>1
  <2>4. q.keep = first.keep \union {R[i] : i \in fits(m)}
    <3> HIDE DEF fits, p, q
    <3> QED BY <2>1, <2>2, <2>3
  <2>5. \A i \in 0 .. m : A[i].free \in Nat /\ q.free <= A[i].free
    <3>1. ASSUME NEW i \in 0 .. m PROVE A[i].free \in Nat /\ q.free <= A[i].free
      <4>1. CASE i = m
        BY <2>2, <4>1
      <4>2. CASE i # m
        <5>1. i \in 0 .. m - 1
          BY <1>1, <4>2
        <5>2. p.free <= A[i].free /\ A[i].free \in Nat
          BY <2>1, <5>1
        <5> QED BY <2>1, <2>2, <5>2
      <4> QED BY <4>1, <4>2
    <3> QED BY <3>1
  <2>6. m \in 0 .. N
    BY <1>1
  <2> HIDE DEF fits
  <2> QED BY <2>2, <2>4, <2>5, <2>6 DEF X
<1>12. 0 .. N \subseteq T
  <2>1. \A m \in 1 .. N : m - 1 \in T => m \in T
    BY <1>11
  <2> HIDE DEF T
  <2> QED BY <1>1, <1>10, <2>1, BoundedInduction
<1> DEFINE free == [i \in 0 .. N |-> A[i].free]
<1>13. free \in [0 .. N -> Nat]
  <2>1. \A i \in 0 .. N : A[i].free \in Nat
    BY <1>12 DEF X, Plans
  <2> QED BY <2>1
<1>14. \A i, j \in 0 .. N : i <= j => free[j] <= free[i]
  BY <1>1, <1>12
<1>15. A[N].keep = first.keep \union {R[i] : i \in {x \in 1 .. N : Bytes(n, R[x]) <= free[x - 1]}}
  <2>1. A[N].keep = first.keep \union {R[i] : i \in fits(N)}
    BY <1>1, <1>12
  <2>2. fits(N) = {x \in 1 .. N : Bytes(n, R[x]) <= free[x - 1]}
    BY <1>1
  <2> QED BY <2>1, <2>2
<1>16. A[N] \in Plans
  BY <1>1, <1>12 DEF X
<1> HIDE DEF free, T, A
<1> QED BY <1>2, <1>8, <1>13, <1>14, <1>15, <1>16 DEF N, R

\* The ledger as a pass loads it knows the length of every feed in it.
LEMMA LedgerFacts ==
  ASSUME TypeOK, NEW n \in Nodes
  PROVE  /\ Ledger(n) \in [Feeds -> Lengths \union {Unknown}]
         /\ \A f \in InLedger(n) : Ledger(n)[f] \in Nat
<1>1. /\ \A f \in Feeds : held[n][f] \in Lengths /\ known[n][f] \in Lengths \union {Unknown}
      /\ 0 \in Lengths /\ Lengths \subseteq Nat
  BY RetentionAssumption DEF TypeOK, Lengths
<1>2. ASSUME NEW f \in Feeds
      PROVE  Ledger(n)[f] \in Lengths \union {Unknown} /\ (f \in InLedger(n) => Ledger(n)[f] \in Lengths)
  BY <1>1 DEF Ledger, InLedger
<1>3. InLedger(n) \subseteq Feeds
  BY DEF InLedger
<1> QED BY <1>1, <1>2, <1>3 DEF Ledger

\* One turn of the loop that asks for feeds.
LEMMA AcquireFacts ==
  ASSUME TypeOK, NEW n \in Nodes, NEW plan \in Plans, NEW f \in Candidates(n)
  PROVE  Acquire(n, plan, f) \in Plans /\ Acquire(n, plan, f).keep = plan.keep
<1>1. f \in Feeds /\ Growth(n, f) \in Nat
  <2>1. f \in Feeds /\ f \in InLedger(n)
    BY DEF Candidates, InLedger
  <2>2. Ledger(n)[f] \in Nat /\ held[n][f] \in Nat /\ Size[f] \in Nat
    BY <2>1, LedgerFacts, BytesCount, RetentionAssumption
  <2>3. \A x, y \in Nat : x * y \in Nat
    BY SMT
  <2>4. Ledger(n)[f] > held[n][f] => Ledger(n)[f] - held[n][f] \in Nat
    BY <2>2
  <2> QED BY <2>1, <2>2, <2>3, <2>4 DEF Growth
<1>2. plan.free \in Nat /\ plan.acquire \union {f} \in SUBSET Feeds
  BY <1>1 DEF Plans
<1> DEFINE more == [plan EXCEPT !.acquire = plan.acquire \union {f}]
           bought == [plan EXCEPT !.acquire = plan.acquire \union {f}, !.free = plan.free - Growth(n, f)]
<1>3. more \in Plans /\ more.keep = plan.keep
  BY <1>2 DEF Plans
<1>4. Growth(n, f) <= plan.free => bought \in Plans /\ bought.keep = plan.keep
  <2>1. Growth(n, f) <= plan.free => plan.free - Growth(n, f) \in Nat
    BY <1>1, <1>2
  <2> QED BY <1>2, <2>1 DEF Plans
<1>5. \/ Acquire(n, plan, f) = plan \/ Acquire(n, plan, f) = more
      \/ Growth(n, f) <= plan.free /\ Acquire(n, plan, f) = bought
  BY DEF Acquire
<1> HIDE DEF more, bought
<1> QED BY <1>3, <1>4, <1>5

\* What is asked for changes nothing of what is kept.
LEMMA PlanFacts ==
  ASSUME TypeOK, HoldersListed, NEW n \in Nodes
  PROVE  Plan(n) \in Plans /\ Plan(n).keep = KeptFeeds(n).keep
<1> DEFINE R == Ranked(n, Candidates(n))
           N == Len(R)
           X == {p \in Plans : p.keep = KeptFeeds(n).keep}
           first == KeptFeeds(n)
           step == [i \in 1 .. N |-> [p \in X |-> Acquire(n, p, R[i])]]
           Upto(f) == f = [i \in 0 .. N |-> IF i = 0 THEN first ELSE Acquire(n, f[i - 1], R[i])]
           A == CHOOSE f : Upto(f)
<1>1. N \in Nat /\ \A i \in 1 .. N : R[i] \in Candidates(n)
  <2>1. Candidates(n) \in SUBSET Feeds
    BY DEF Candidates, InLedger
  <2> QED BY <2>1, RankedOrders
<1>2. first \in X
  BY KeptFacts
<1> HIDE DEF R, N, first
<1>3. ASSUME NEW i \in 1 .. N, NEW p \in X PROVE Acquire(n, p, R[i]) \in X
  BY <1>1, AcquireFacts
<1> HIDE DEF X
<1>4. step \in [1 .. N -> [X -> X]]
  BY <1>3
<1>5. PICK g \in [0 .. N -> X] : Stepwise(N, first, step, g)
  <2> HIDE DEF step
  <2> QED BY <1>1, <1>2, <1>4, StepwiseExists
<1>6. Upto(g)
  <2>1. ASSUME NEW i \in 0 .. N PROVE g[i] = IF i = 0 THEN first ELSE Acquire(n, g[i - 1], R[i])
    <3>1. g[i] = IF i = 0 THEN first ELSE step[i][g[i - 1]]
      BY <1>5 DEF Stepwise
    <3>2. CASE i # 0
      <4>1. i \in 1 .. N /\ i - 1 \in 0 .. N
        BY <1>1, <3>2
      <4>2. g[i - 1] \in X
        BY <4>1
      <4>3. step[i][g[i - 1]] = Acquire(n, g[i - 1], R[i])
        BY <4>1, <4>2
      <4> QED BY <3>1, <3>2, <4>3
    <3> QED BY <3>1, <3>2
  <2>2. g = [i \in 0 .. N |-> g[i]]
    OBVIOUS
  <2> QED BY <2>1, <2>2
<1>7. Upto(A)
  <2> HIDE DEF Upto
  <2> QED BY <1>6
<1>8. Plan(n) = A[N]
  BY DEF Plan, N, R, first
<1> HIDE DEF A
<1>9. A[0] = first /\ \A i \in 1 .. N : A[i] = Acquire(n, A[i - 1], R[i])
  <2>1. A = [i \in 0 .. N |-> IF i = 0 THEN first ELSE Acquire(n, A[i - 1], R[i])]
    BY <1>7
  <2>2. \A i \in 0 .. N : A[i] = IF i = 0 THEN first ELSE Acquire(n, A[i - 1], R[i])
    BY <2>1
  <2>3. 0 \in 0 .. N /\ \A i \in 1 .. N : i \in 0 .. N /\ i # 0
    BY <1>1
  <2> QED BY <2>2, <2>3
<1> DEFINE T == {i \in 0 .. N : A[i] \in X}
<1>10. 0 .. N \subseteq T
  <2>1. 0 \in T
    BY <1>1, <1>2, <1>9
  <2>2. \A i \in 1 .. N : i - 1 \in T => i \in T
    BY <1>3, <1>9
  <2> HIDE DEF T
  <2> QED BY <1>1, <2>1, <2>2, BoundedInduction
<1>11. A[N] \in X
  BY <1>1, <1>10
<1> HIDE DEF A
<1> QED BY <1>8, <1>11 DEF X

\* Of two feeds free to evict, the one given up ranks below the one kept if that is as
\* large: had it come first, at least as much would have been left for it.
LEMMA PlanGivesUpTheCommonest ==
  ASSUME TypeOK, HoldersListed, NEW n \in Nodes,
         NEW e \in HeldBy(n) \ Pinned(n), NEW k \in HeldBy(n) \ Pinned(n),
         e \notin Plan(n).keep, k \in Plan(n).keep, Bytes(n, k) >= Bytes(n, e)
  PROVE  Rarer(n, k, e)
<1> DEFINE R == Evictable(n)
           N == Len(R)
<1>1. /\ N \in Nat
      /\ \A i, j \in 1 .. N : i < j => Rarer(n, R[i], R[j])
      /\ \A f \in HeldBy(n) \ Pinned(n) : \E i \in 1 .. N : R[i] = f
  <2>1. HeldBy(n) \ Pinned(n) \in SUBSET Feeds
    BY DEF HeldBy
  <2> QED BY <2>1, RankedOrders DEF Evictable
<1> HIDE DEF R, N
<1>2. PICK free \in [0 .. N -> Nat] :
        /\ \A i, j \in 0 .. N : i <= j => free[j] <= free[i]
        /\ Plan(n).keep = (HeldBy(n) \intersect Pinned(n)) \union
               {R[i] : i \in {x \in 1 .. N : Bytes(n, R[x]) <= free[x - 1]}}
  BY KeptFacts, PlanFacts DEF R, N
<1>3. PICK x \in 1 .. N : R[x] = k /\ Bytes(n, k) <= free[x - 1]
  BY <1>2
<1>4. PICK y \in 1 .. N : R[y] = e
  BY <1>1
<1>5. ~ (Bytes(n, e) <= free[y - 1])
  BY <1>2, <1>4
<1>6. Bytes(n, e) \in Nat /\ Bytes(n, k) \in Nat
  BY BytesCount DEF HeldBy
<1>7. x - 1 \in 0 .. N /\ y - 1 \in 0 .. N /\ free[x - 1] \in Nat /\ free[y - 1] \in Nat
  BY <1>1
<1>8. x < y
  <2>1. SUFFICES ASSUME y - 1 <= x - 1 PROVE FALSE
    BY <1>1
  <2>2. free[x - 1] <= free[y - 1]
    BY <1>2, <1>7, <2>1
  <2> QED BY <1>3, <1>5, <1>6, <1>7, <2>2
<1> QED BY <1>1, <1>3, <1>4, <1>8

-----------------------------------------------------------------------------
(***************************************************************************)
(* Steps.                                                                  *)
(***************************************************************************)
\* What a pass gives up is ranked below what it keeps of at least its size.
GivesUpTheCommonest ==
    \A n \in Nodes : \A e, k \in Feeds \ Pinned(n) :
        held[n][e] > 0 /\ held'[n][e] = 0 /\ held'[n][k] > 0 /\ Bytes(n, k) >= Bytes(n, e)
            => Rarer(n, k, e)

\* A step that loses nothing gives nothing up.
NothingLost == \A n \in Nodes, f \in Feeds : held[n][f] > 0 => held'[n][f] > 0

\* A step that gives nothing up satisfies the property.
LEMMA NothingIsGivenUp ==
  ASSUME RetentionInv, RetentionInv', NothingLost
  PROVE  GivesUpTheCommonest
<1>1. \A n \in Nodes, f \in Feeds : held'[n][f] \in Nat
  <2>1. \A n \in Nodes, f \in Feeds : held'[n][f] \in Lengths
    BY DEF RetentionInv, TypeOK
  <2> QED BY <2>1, RetentionAssumption DEF Lengths
<1>2. \A n \in Nodes, f \in Feeds : held[n][f] > 0 => held'[n][f] # 0
  BY <1>1 DEF NothingLost
<1> QED BY <1>2 DEF GivesUpTheCommonest

\* Lengths are numbers.
LEMMA HeldFacts ==
  ASSUME TypeOK
  PROVE  /\ MaxLen \in Nat /\ Lengths \subseteq Nat /\ 0 \in Lengths
         /\ \A n \in Nodes, f \in Feeds : /\ held[n][f] \in Lengths /\ held[n][f] \in Nat
                                         /\ indexed[n][f] \in Lengths /\ indexed[n][f] \in Nat
BY RetentionAssumption DEF TypeOK, Lengths

\* publish_file: an author's feed grows on its own disk.
LEMMA AppendKeepsInv ==
  ASSUME RetentionInv, NEW n \in Nodes, Publish(n)
  PROVE  RetentionInv' /\ NothingLost
<1>0. TypeOK /\ n \in Feeds /\ Feeds = Nodes
  BY DEF RetentionInv, Feeds
<1>1. /\ MaxLen \in Nat /\ len[n] \in Nat /\ len[n] + 1 \in Lengths
      /\ held[n][n] = len[n] /\ indexed[n][n] = len[n]
  <2>1. len[n] < MaxLen /\ len[n] \in 0 .. MaxLen /\ MaxLen \in Nat
    <3>1. MayPublish[n] \in 0 .. MaxLen /\ MaxLen \in Nat
      BY RetentionAssumption
    <3>2. len[n] < MayPublish[n] /\ len[n] \in 0 .. MaxLen
      BY <1>0 DEF Publish, TypeOK, Lengths
    <3> QED BY <3>1, <3>2
  <2>2. held[n][n] = len[n] /\ indexed[n][n] = len[n]
    BY <1>0 DEF RetentionInv, AuthorsLead
  <2> QED BY <2>1, <2>2 DEF Lengths
<1> DEFINE l == len[n] + 1
<1>2. /\ \A f \in Feeds : len'[f] = IF f = n THEN l ELSE len[f]
      /\ \A x \in Nodes, f \in Feeds : held'[x][f] = IF x = n /\ f = n THEN l ELSE held[x][f]
      /\ \A x \in Nodes, f \in Feeds : indexed'[x][f] = IF x = n /\ f = n THEN l ELSE indexed[x][f]
      /\ len' \in [Feeds -> Lengths] /\ held' \in [Nodes -> [Feeds -> Lengths]]
      /\ indexed' \in [Nodes -> [Feeds -> Lengths]]
  <2>1. len' = [len EXCEPT ![n] = l] /\ held' = [held EXCEPT ![n][n] = l] /\ indexed' = [indexed EXCEPT ![n][n] = l]
    BY <1>0, <1>1 DEF Publish, TypeOK
  <2>2. len \in [Feeds -> Lengths] /\ held \in [Nodes -> [Feeds -> Lengths]] /\ indexed \in [Nodes -> [Feeds -> Lengths]]
    BY <1>0 DEF TypeOK
  <2> HIDE DEF l
  <2> QED BY <1>0, <1>1, <2>1, <2>2 DEF l
<1>3. onDisk' \in [Nodes -> [Feeds -> SUBSET (1 .. MaxLen)]]
  <2>1. indexed'[n][n] \in 1 .. MaxLen
    BY <1>0, <1>1, <1>2 DEF Lengths
  <2>2. onDisk' = [onDisk EXCEPT ![n][n] = onDisk[n][n] \union {indexed'[n][n]}]
    BY DEF Publish
  <2> DEFINE i == indexed'[n][n]
  <2>3. i \in 1 .. MaxLen /\ onDisk' = [onDisk EXCEPT ![n][n] = onDisk[n][n] \union {i}]
    BY <2>1, <2>2
  <2> HIDE DEF i
  <2> QED BY <1>0, <2>3 DEF TypeOK
<1>4. UNCHANGED <<known, holders, want, favorite>>
  BY DEF Publish
<1>5. TypeOK' /\ HoldersListed'
  BY <1>0, <1>2, <1>3, <1>4 DEF RetentionInv, TypeOK, HoldersListed
<1>6. AuthorsLead' /\ NothingLost
  <2>1. /\ \A f \in Feeds : held[f][f] = len[f] /\ indexed[f][f] = len[f]
        /\ \A x \in Nodes, f \in Feeds : held[x][f] <= held[f][f] /\ held[x][f] \in Nat
    BY <1>0, HeldFacts DEF RetentionInv, AuthorsLead
  <2>2. \A f \in Feeds : held'[f][f] = len'[f] /\ indexed'[f][f] = len'[f]
    BY <1>0, <1>2, <2>1
  <2>3. ASSUME NEW x \in Nodes, NEW f \in Feeds
        PROVE  held'[x][f] <= held'[f][f] /\ (held[x][f] > 0 => held'[x][f] > 0)
    <3>1. held[x][f] \in Nat /\ held[f][f] \in Nat /\ held[x][f] <= held[f][f] /\ l \in Nat /\ l > 0
      BY <1>0, <1>1, <2>1
    <3>2. CASE f = n
      <4>1. held[f][f] = len[n] /\ l = len[n] + 1 /\ held'[f][f] = l
        BY <1>0, <1>1, <1>2, <3>2
      <4>2. held'[x][f] = l \/ held'[x][f] = held[x][f]
        BY <1>2
      <4> HIDE DEF l
      <4> QED BY <1>1, <3>1, <4>1, <4>2
    <3>3. CASE f # n
      BY <1>0, <1>2, <3>1, <3>3
    <3> QED BY <3>2, <3>3
  <2> QED BY <2>2, <2>3 DEF AuthorsLead, NothingLost
<1> QED BY <1>5, <1>6 DEF RetentionInv

\* _replication_loop: what is not in the plan is evicted.
LEMMA PassKeepsInv ==
  ASSUME RetentionInv, NEW n \in Nodes, Pass(n)
  PROVE  RetentionInv' /\ GivesUpTheCommonest
<1> DEFINE plan == Plan(n)
<1>0. TypeOK /\ HoldersListed /\ AuthorsLead /\ Feeds = Nodes
  BY DEF RetentionInv, Feeds
<1>1. PICK forgotten :
        /\ held' = [held EXCEPT ![n] = [f \in Feeds |-> IF f \in plan.keep THEN @[f] ELSE 0]]
        /\ onDisk' = [onDisk EXCEPT ![n] = [f \in Feeds |-> IF f \in HeldBy(n) \ plan.keep THEN {} ELSE @[f]]]
        /\ known' = [known EXCEPT ![n] = [f \in Feeds |-> IF f \in forgotten THEN Unknown ELSE Ledger(n)[f]]]
        /\ holders' = [holders EXCEPT ![n] = [f \in Feeds |-> IF f \in forgotten THEN <<>> ELSE @[f]]]
        /\ want' = [want EXCEPT ![n] = plan.acquire]
        /\ UNCHANGED <<len, indexed, favorite>>
  <2>1. PICK p \in {Plan(n)} : \E forgotten \in {Forgotten(n, p)} :
        /\ held' = [held EXCEPT ![n] = [f \in Feeds |-> IF f \in p.keep THEN @[f] ELSE 0]]
        /\ onDisk' = [onDisk EXCEPT ![n] = [f \in Feeds |-> IF f \in HeldBy(n) \ p.keep THEN {} ELSE @[f]]]
        /\ known' = [known EXCEPT ![n] = [f \in Feeds |-> IF f \in forgotten THEN Unknown ELSE Ledger(n)[f]]]
        /\ holders' = [holders EXCEPT ![n] = [f \in Feeds |-> IF f \in forgotten THEN <<>> ELSE @[f]]]
        /\ want' = [want EXCEPT ![n] = p.acquire]
        /\ UNCHANGED <<len, indexed, favorite>>
    BY DEF Pass
  <2>2. PICK forgotten \in {Forgotten(n, p)} :
        /\ held' = [held EXCEPT ![n] = [f \in Feeds |-> IF f \in p.keep THEN @[f] ELSE 0]]
        /\ onDisk' = [onDisk EXCEPT ![n] = [f \in Feeds |-> IF f \in HeldBy(n) \ p.keep THEN {} ELSE @[f]]]
        /\ known' = [known EXCEPT ![n] = [f \in Feeds |-> IF f \in forgotten THEN Unknown ELSE Ledger(n)[f]]]
        /\ holders' = [holders EXCEPT ![n] = [f \in Feeds |-> IF f \in forgotten THEN <<>> ELSE @[f]]]
        /\ want' = [want EXCEPT ![n] = p.acquire]
        /\ UNCHANGED <<len, indexed, favorite>>
    BY <2>1
  <2>3. p = plan
    OBVIOUS
  <2> HIDE DEF plan
  <2> WITNESS forgotten
  <2> QED BY <2>2, <2>3
<1>2. plan \in Plans /\ plan.keep = KeptFeeds(n).keep /\ plan.acquire \in SUBSET Feeds
  <2>1. plan \in Plans /\ plan.keep = KeptFeeds(n).keep
    BY <1>0, PlanFacts
  <2> QED BY <2>1 DEF Plans
<1> HIDE DEF plan
<1>3. /\ held' \in [Nodes -> [Feeds -> Lengths]]
      /\ \A x \in Nodes, f \in Feeds :
            held'[x][f] = IF x = n /\ f \notin plan.keep THEN 0 ELSE held[x][f]
  BY <1>0, <1>1, HeldFacts DEF TypeOK
<1>4. onDisk' \in [Nodes -> [Feeds -> SUBSET (1 .. MaxLen)]]
  BY <1>0, <1>1 DEF TypeOK
<1>5. known' \in [Nodes -> [Feeds -> Lengths \union {Unknown}]]
  <2>1. \A f \in Feeds : Ledger(n)[f] \in Lengths \union {Unknown}
    BY <1>0, LedgerFacts
  <2>2. known \in [Nodes -> [Feeds -> Lengths \union {Unknown}]]
    BY <1>0 DEF TypeOK
  <2> QED BY <1>1, <2>1, <2>2
<1>6. want' \in [Nodes -> SUBSET Feeds]
  BY <1>0, <1>1, <1>2 DEF TypeOK
<1>7. /\ holders' \in [Nodes -> [Feeds -> Seq(Nodes)]]
      /\ \A x \in Nodes, f \in Feeds : holders'[x][f] = <<>> \/ holders'[x][f] = holders[x][f]
  <2>1. <<>> \in Seq(Nodes)
    BY EmptySeq
  <2> DEFINE none == <<>>
             all == Seq(Nodes)
  <2>2. none \in all /\ holders \in [Nodes -> [Feeds -> all]]
        /\ holders' = [holders EXCEPT ![n] = [f \in Feeds |-> IF f \in forgotten THEN none ELSE holders[n][f]]]
    BY <1>0, <1>1, <2>1 DEF HoldersListed
  <2> HIDE DEF none, all
  <2>3. /\ holders' \in [Nodes -> [Feeds -> all]]
        /\ \A x \in Nodes, f \in Feeds : holders'[x][f] = none \/ holders'[x][f] = holders[x][f]
    BY <2>2
  <2> QED BY <2>3 DEF none, all
<1>8. \A x \in Nodes, f \in Feeds : /\ Range(holders'[x][f]) \subseteq Nodes
                                    /\ IsInjective(holders'[x][f]) /\ Len(holders'[x][f]) <= MaxHolders
  <2>1. Range(<<>>) \subseteq Nodes /\ IsInjective(<<>>) /\ Len(<<>>) = 0 /\ 0 <= MaxHolders
    BY RetentionAssumption DEF Range, IsInjective
  <2> DEFINE none == <<>>
  <2>2. Range(none) \subseteq Nodes /\ IsInjective(none) /\ Len(none) <= MaxHolders
    BY <2>1
  <2> HIDE DEF none
  <2>3. ASSUME NEW x \in Nodes, NEW f \in Feeds
        PROVE  /\ Range(holders'[x][f]) \subseteq Nodes
               /\ IsInjective(holders'[x][f]) /\ Len(holders'[x][f]) <= MaxHolders
    <3>1. holders'[x][f] = none \/ holders'[x][f] = holders[x][f]
      BY <1>7 DEF none
    <3>2. /\ Range(holders[x][f]) \subseteq Nodes
          /\ IsInjective(holders[x][f]) /\ Len(holders[x][f]) <= MaxHolders
      BY <1>0 DEF TypeOK
    <3> QED BY <2>2, <3>1, <3>2
  <2> QED BY <2>3
<1>9. TypeOK' /\ HoldersListed'
  <2>1. DOMAIN holders' = Nodes /\ \A x \in Nodes : DOMAIN holders'[x] = Feeds
    BY <1>7
  <2> QED BY <1>0, <1>1, <1>3, <1>4, <1>5, <1>6, <1>7, <1>8, <2>1 DEF TypeOK, HoldersListed
<1>10. HeldBy(n) \intersect Pinned(n) \subseteq plan.keep
  BY <1>0, <1>2, KeptFacts
<1>11. AuthorsLead'
  <2>1. held'[n][n] = held[n][n]
    <3>1. held[n][n] \in Nat /\ (held[n][n] > 0 => n \in HeldBy(n)) /\ n \in Pinned(n)
      BY <1>0, HeldFacts DEF HeldBy, Pinned
    <3> QED BY <1>0, <1>3, <1>10, <3>1
  <2>2. \A f \in Feeds : held'[f][f] = held[f][f]
    BY <1>0, <1>3, <2>1
  <2>3. \A x \in Nodes, f \in Feeds : held[x][f] \in Nat /\ held[f][f] \in Nat /\ held[x][f] <= held[f][f]
    BY <1>0, HeldFacts DEF AuthorsLead
  <2>4. \A x \in Nodes, f \in Feeds : held'[x][f] <= held'[f][f]
    BY <1>0, <1>3, <2>2, <2>3
  <2> QED BY <1>0, <1>1, <2>2, <2>4 DEF AuthorsLead
<1>12. ASSUME NEW x \in Nodes, NEW e \in Feeds \ Pinned(x), NEW k \in Feeds \ Pinned(x),
              held[x][e] > 0, held'[x][e] = 0, held'[x][k] > 0, Bytes(x, k) >= Bytes(x, e)
       PROVE  Rarer(x, k, e)
  <2>1. x = n /\ e \notin plan.keep
    <3>1. held[x][e] \in Nat
      BY <1>0, HeldFacts
    <3> QED BY <1>3, <1>12, <3>1
  <2>2. k \in plan.keep /\ held[n][k] > 0
    BY <1>3, <1>12, <2>1
  <2>3. e \in HeldBy(n) \ Pinned(n) /\ k \in HeldBy(n) \ Pinned(n)
    BY <1>12, <2>1, <2>2 DEF HeldBy
  <2> QED BY <1>0, <1>12, <2>1, <2>2, <2>3, PlanGivesUpTheCommonest DEF plan
<1> QED BY <1>9, <1>11, <1>12 DEF RetentionInv, GivesUpTheCommonest

-----------------------------------------------------------------------------
(***************************************************************************)
(* Syncs: record_sync_replication.                                         *)
(***************************************************************************)
\* A report moves its author to the front of a list without duplicates.
LEMMA MovedToFront ==
  ASSUME NEW S, NEW q \in Seq(S), IsInjective(q), NEW m \in S
  PROVE  <<m>> \o RemoveFirst(q, m) \in Seq(S) /\ IsInjective(<<m>> \o RemoveFirst(q, m))
<1> DEFINE I == {i \in 1 .. Len(q) : q[i] = m}
           r == RemoveFirst(q, m)
           t == <<m>> \o r
<1>1. Len(q) \in Nat /\ DOMAIN q = 1 .. Len(q) /\ \A i \in 1 .. Len(q) : q[i] \in S
  BY LenProperties, ElementOfSeq
<1>2. \A i, j \in 1 .. Len(q) : q[i] = q[j] => i = j
  BY <1>1 DEF IsInjective
<1>3. /\ r \in Seq(S) /\ Len(r) \in Nat
      /\ \E at \in [1 .. Len(r) -> 1 .. Len(q)] :
            /\ \A i \in 1 .. Len(r) : r[i] = q[at[i]] /\ q[at[i]] # m
            /\ \A i, j \in 1 .. Len(r) : at[i] = at[j] => i = j
  <2>1. CASE I = {}
    <3>1. r = q
      BY <2>1 DEF RemoveFirst
    <3> DEFINE at == [i \in 1 .. Len(q) |-> i]
    <3>2. /\ at \in [1 .. Len(q) -> 1 .. Len(q)]
          /\ \A i \in 1 .. Len(q) : q[i] = q[at[i]] /\ q[at[i]] # m
          /\ \A i, j \in 1 .. Len(q) : at[i] = at[j] => i = j
      BY <1>1, <2>1
    <3> HIDE DEF at, r
    <3> QED BY <1>1, <3>1, <3>2
  <2>2. CASE I # {}
    <3> DEFINE k == Min(I)
               a == SubSeq(q, 1, k - 1)
               b == SubSeq(q, k + 1, Len(q))
    <3>1. k \in 1 .. Len(q) /\ q[k] = m
      <4>1. I \subseteq Nat
        OBVIOUS
      <4>2. k \in I
        <5> HIDE DEF I
        <5> QED BY <2>2, <4>1, MinIsLeast
      <4> QED BY <4>2
    <3>2. r = a \o b
      BY <2>2 DEF RemoveFirst, RemoveAt, SelectInSeq
    <3> HIDE DEF k, I, r
    <3>3. a \in Seq(S) /\ Len(a) = k - 1 /\ \A i \in 1 .. k - 1 : a[i] = q[i]
      <4>1. a \in Seq(S) /\ Len(a) = (IF 1 <= k - 1 THEN k - 1 - 1 + 1 ELSE 0)
            /\ \A i \in 1 .. k - 1 - 1 + 1 : a[i] = q[1 + i - 1]
        BY <1>1, <3>1, SubSeqProperties
      <4> HIDE DEF a
      <4> QED BY <1>1, <3>1, <4>1
    <3>4. b \in Seq(S) /\ Len(b) = Len(q) - k /\ \A i \in 1 .. Len(q) - k : b[i] = q[k + i]
      <4>1. b \in Seq(S) /\ Len(b) = (IF k + 1 <= Len(q) THEN Len(q) - (k + 1) + 1 ELSE 0)
            /\ \A i \in 1 .. Len(q) - (k + 1) + 1 : b[i] = q[k + 1 + i - 1]
        BY <1>1, <3>1, SubSeqProperties
      <4> HIDE DEF b
      <4>2. Len(b) = Len(q) - k
        <5>0. Len(q) \in Nat /\ k \in Nat /\ 1 <= k /\ k <= Len(q)
          BY <1>1, <3>1, LenProperties
        <5>1. CASE k + 1 <= Len(q)
          <6>1. Len(q) - (k + 1) + 1 = Len(q) - k
            BY <5>0
          <6> QED BY <4>1, <5>1, <6>1
        <5>2. CASE ~ (k + 1 <= Len(q))
          <6>1. k = Len(q) /\ Len(q) - k = 0
            BY <5>0, <5>2
          <6> QED BY <4>1, <5>2, <6>1
        <5> QED BY <5>1, <5>2
      <4>3. ASSUME NEW i \in 1 .. Len(q) - k PROVE b[i] = q[k + i]
        <5>1. i \in 1 .. Len(q) - (k + 1) + 1 /\ k + 1 + i - 1 = k + i
          BY <1>1, <3>1
        <5>2. b[i] = q[k + 1 + i - 1]
          BY <4>1, <5>1
        <5> QED BY <5>1, <5>2
      <4> QED BY <4>1, <4>2, <4>3
    <3> HIDE DEF a, b
    <3>5. /\ r \in Seq(S) /\ Len(r) = Len(q) - 1
          /\ \A i \in 1 .. Len(r) : r[i] = IF i < k THEN q[i] ELSE q[i + 1]
      <4>1. r \in Seq(S) /\ Len(r) = Len(a) + Len(b)
            /\ \A i \in 1 .. Len(a) + Len(b) : r[i] = IF i <= Len(a) THEN a[i] ELSE b[i - Len(a)]
        BY <3>2, <3>3, <3>4, ConcatProperties
      <4>2. Len(r) = Len(q) - 1
        BY <1>1, <3>1, <3>3, <3>4, <4>1
      <4>3. ASSUME NEW i \in 1 .. Len(r) PROVE r[i] = IF i < k THEN q[i] ELSE q[i + 1]
        <5>1. CASE i < k
          BY <1>1, <3>1, <3>3, <3>4, <4>1, <4>2, <5>1
        <5>2. CASE ~ (i < k)
          <6>1. i - Len(a) \in 1 .. Len(q) - k /\ k + (i - Len(a)) = i + 1 /\ ~ (i <= Len(a))
            BY <1>1, <3>1, <3>3, <4>2, <5>2
          <6>2. r[i] = b[i - Len(a)]
            BY <4>1, <6>1
          <6>3. b[i - Len(a)] = q[k + (i - Len(a))]
            BY <3>4, <6>1
          <6> QED BY <5>2, <6>1, <6>2, <6>3
        <5> QED BY <5>1, <5>2
      <4> QED BY <4>1, <4>2, <4>3
    <3> DEFINE at == [i \in 1 .. Len(r) |-> IF i < k THEN i ELSE i + 1]
    <3>6. Len(r) \in Nat /\ at \in [1 .. Len(r) -> 1 .. Len(q)]
      BY <1>1, <3>1, <3>5
    <3>7. \A i \in 1 .. Len(r) : at[i] \in 1 .. Len(q) /\ at[i] # k /\ r[i] = q[at[i]]
      BY <1>1, <3>1, <3>5
    <3>8. \A i, j \in 1 .. Len(r) : at[i] = at[j] => i = j
      BY <1>1, <3>1, <3>5
    <3> HIDE DEF at
    <3>9. \A i \in 1 .. Len(r) : q[at[i]] # m
      BY <1>2, <3>1, <3>7
    <3> QED BY <3>5, <3>6, <3>7, <3>8, <3>9
  <2> QED BY <2>1, <2>2
<1>4. PICK at \in [1 .. Len(r) -> 1 .. Len(q)] :
          /\ \A i \in 1 .. Len(r) : r[i] = q[at[i]] /\ q[at[i]] # m
          /\ \A i, j \in 1 .. Len(r) : at[i] = at[j] => i = j
  BY <1>3
<1> HIDE DEF r, I
<1>5. /\ t \in Seq(S) /\ Len(t) = Len(r) + 1 /\ DOMAIN t = 1 .. Len(r) + 1
      /\ t[1] = m /\ \A i \in 1 .. Len(r) : t[i + 1] = r[i]
  BY <1>3
<1> HIDE DEF t
<1>6. ASSUME NEW i \in 1 .. Len(r) + 1, NEW j \in 1 .. Len(r) + 1, t[i] = t[j] PROVE i = j
  <2>1. \A x \in 1 .. Len(r) + 1 : x # 1 => x - 1 \in 1 .. Len(r) /\ t[x] = q[at[x - 1]] /\ t[x] # m
    <3>1. ASSUME NEW x \in 1 .. Len(r) + 1, x # 1 PROVE x - 1 \in 1 .. Len(r) /\ t[x] = r[x - 1]
      <4>1. x - 1 \in 1 .. Len(r) /\ (x - 1) + 1 = x
        BY <1>3, <3>1
      <4>2. t[(x - 1) + 1] = r[x - 1]
        BY <1>5, <4>1
      <4> QED BY <4>1, <4>2
    <3> QED BY <1>4, <3>1
  <2>2. CASE i = 1 \/ j = 1
    BY <1>5, <1>6, <2>1, <2>2
  <2>3. CASE i # 1 /\ j # 1
    <3>1. q[at[i - 1]] = q[at[j - 1]] /\ i - 1 \in 1 .. Len(r) /\ j - 1 \in 1 .. Len(r)
      BY <1>6, <2>1, <2>3
    <3>2. at[i - 1] = at[j - 1]
      BY <1>2, <3>1
    <3>3. i - 1 = j - 1
      BY <1>4, <3>1, <3>2
    <3> QED BY <1>3, <3>3
  <2> QED BY <2>2, <2>3
<1>7. IsInjective(t)
  BY <1>5, <1>6 DEF IsInjective
<1> QED BY <1>5, <1>7 DEF t, r

\* record_feed_holder and cap_feed_holders keep the newest reports, one per peer.
LEMMA ReportedFacts ==
  ASSUME NEW q \in Seq(Nodes), IsInjective(q), NEW m \in Nodes
  PROVE  /\ Reported(q, m) \in Seq(Nodes) /\ Range(Reported(q, m)) \subseteq Nodes
         /\ IsInjective(Reported(q, m)) /\ Len(Reported(q, m)) <= MaxHolders
<1> DEFINE t == <<m>> \o RemoveFirst(q, m)
           k == Min({Len(t), MaxHolders})
           u == SubSeq(t, 1, k)
<1>1. t \in Seq(Nodes) /\ IsInjective(t)
  BY MovedToFront
<1> HIDE DEF t
<1>2. Len(t) \in Nat /\ DOMAIN t = 1 .. Len(t) /\ MaxHolders \in Nat
  BY <1>1, LenProperties, RetentionAssumption
<1>3. k \in Nat /\ k <= Len(t) /\ k <= MaxHolders
  <2> DEFINE T == {Len(t), MaxHolders}
  <2>1. T \subseteq Nat /\ T # {}
    BY <1>2
  <2>2. Min(T) \in T /\ \A y \in T : Min(T) <= y
    <3> HIDE DEF T
    <3> QED BY <2>1, MinIsLeast
  <2> QED BY <1>2, <2>2
<1> HIDE DEF k
<1>4. u \in Seq(Nodes) /\ Len(u) = k /\ DOMAIN u = 1 .. k /\ \A i \in 1 .. k : u[i] = t[i] /\ u[i] \in Nodes
  <2>1. u \in Seq(Nodes) /\ Len(u) = (IF 1 <= k THEN k - 1 + 1 ELSE 0) /\ \A i \in 1 .. k - 1 + 1 : u[i] = t[1 + i - 1]
    <3>1. 1 .. k \subseteq 1 .. Len(t) /\ k \in 0 .. Len(t)
      BY <1>2, <1>3
    <3> QED BY <1>1, <1>2, <1>3, <3>1, SubSeqProperties
  <2> HIDE DEF u
  <2>2. Len(u) = k /\ \A i \in 1 .. k : u[i] = t[i]
    BY <1>3, <2>1
  <2> QED BY <2>1, <2>2, LenProperties, ElementOfSeq
<1> HIDE DEF u
<1>5. \A i, j \in 1 .. k : u[i] = u[j] => i = j
  <2>1. 1 .. k \subseteq 1 .. Len(t)
    BY <1>2, <1>3
  <2> QED BY <1>1, <1>2, <1>4, <2>1 DEF IsInjective
<1>6. Range(u) \subseteq Nodes /\ IsInjective(u)
  BY <1>4, <1>5 DEF Range, IsInjective
<1> QED BY <1>3, <1>4, <1>6 DEF Reported, u, k, t

\* The ledger, the index and the flags after a sync keep their types, and a node's
\* own feed is not touched.
LEMMA RecordedFacts ==
  ASSUME RetentionInv, NEW n \in Nodes, NEW m \in Nodes, NEW pulled, NEW rows \in [Feeds -> Lengths],
         rows[n] = 0, Recorded(n, m, pulled, rows)
  PROVE  /\ known' \in [Nodes -> [Feeds -> Lengths \union {Unknown}]]
         /\ holders' \in [Nodes -> [Feeds -> Seq(Nodes)]]
         /\ \A x \in Nodes, f \in Feeds : /\ Range(holders'[x][f]) \subseteq Nodes
                                         /\ IsInjective(holders'[x][f]) /\ Len(holders'[x][f]) <= MaxHolders
         /\ indexed' \in [Nodes -> [Feeds -> Lengths]]
         /\ \A f \in Feeds : indexed'[f][f] = indexed[f][f]
         /\ onDisk' \in [Nodes -> [Feeds -> SUBSET (1 .. MaxLen)]]
<1>0. TypeOK /\ HoldersListed /\ Feeds = Nodes
  BY DEF RetentionInv, Feeds
<1>1. known' \in [Nodes -> [Feeds -> Lengths \union {Unknown}]]
  BY <1>0, HeldFacts DEF Recorded, TypeOK
<1>2. \A f \in Feeds : /\ Reported(holders[n][f], m) \in Seq(Nodes)
                       /\ Range(Reported(holders[n][f], m)) \subseteq Nodes
                       /\ IsInjective(Reported(holders[n][f], m)) /\ Len(Reported(holders[n][f], m)) <= MaxHolders
  BY <1>0, ReportedFacts DEF TypeOK, HoldersListed
<1>3. /\ holders' \in [Nodes -> [Feeds -> Seq(Nodes)]]
      /\ \A x \in Nodes, f \in Feeds : \/ holders'[x][f] = holders[x][f]
                                      \/ (x = n /\ holders'[x][f] = Reported(holders[n][f], m))
  <2> DEFINE all == Seq(Nodes)
             new(f) == Reported(holders[n][f], m)
             told == [f \in Feeds |-> IF f \in HeldBy(m) THEN new(f) ELSE holders[n][f]]
  <2>1. /\ holders \in [Nodes -> [Feeds -> all]] /\ \A f \in Feeds : new(f) \in all
        /\ holders' = [holders EXCEPT ![n] = told]
    BY <1>0, <1>2 DEF HoldersListed, Recorded
  <2> HIDE DEF all, new
  <2>3. told \in [Feeds -> all] /\ \A f \in Feeds : told[f] = new(f) \/ told[f] = holders[n][f]
    <3>1. holders[n] \in [Feeds -> all]
      BY <2>1
    <3>2. ASSUME NEW f \in Feeds PROVE told[f] \in all /\ (told[f] = new(f) \/ told[f] = holders[n][f])
      BY <2>1, <3>1
    <3> QED BY <3>2
  <2> HIDE DEF told
  <2>4. holders' \in [Nodes -> [Feeds -> all]]
        /\ \A x \in Nodes : holders'[x] = IF x = n THEN told ELSE holders[x]
    BY <2>1, <2>3
  <2>5. ASSUME NEW x \in Nodes, NEW f \in Feeds
        PROVE  holders'[x][f] = holders[x][f] \/ (x = n /\ holders'[x][f] = new(f))
    <3>1. CASE x = n
      BY <2>3, <2>4, <3>1
    <3>2. CASE x # n
      <4>1. holders'[x] = holders[x]
        BY <2>4, <3>2
      <4> QED BY <4>1
    <3> QED BY <3>1, <3>2
  <2>2. /\ holders' \in [Nodes -> [Feeds -> all]]
        /\ \A x \in Nodes, f \in Feeds : holders'[x][f] = holders[x][f] \/ (x = n /\ holders'[x][f] = new(f))
    BY <2>4, <2>5
  <2> QED BY <2>2 DEF all, new
<1>4. \A x \in Nodes, f \in Feeds : /\ Range(holders'[x][f]) \subseteq Nodes
                                    /\ IsInjective(holders'[x][f]) /\ Len(holders'[x][f]) <= MaxHolders
  <2>1. ASSUME NEW x \in Nodes, NEW f \in Feeds
        PROVE  /\ Range(holders'[x][f]) \subseteq Nodes
               /\ IsInjective(holders'[x][f]) /\ Len(holders'[x][f]) <= MaxHolders
    <3>1. CASE holders'[x][f] = holders[x][f]
      BY <1>0, <3>1 DEF TypeOK
    <3>2. CASE holders'[x][f] = Reported(holders[n][f], m)
      BY <1>2, <3>2
    <3> QED BY <1>3, <3>1, <3>2
  <2> QED BY <2>1
<1> DEFINE i(f) == Max({indexed[n][f], rows[f]})
<1>5. ASSUME NEW f \in Feeds PROVE i(f) \in Lengths /\ (rows[f] = 0 => i(f) = indexed[n][f])
  <2> DEFINE T == {indexed[n][f], rows[f]}
  <2>1. MaxLen \in Nat /\ T \subseteq 0 .. MaxLen /\ T # {}
    BY <1>0, HeldFacts DEF Lengths
  <2>2. Max(T) \in T /\ \A y \in T : y <= Max(T)
    <3> HIDE DEF T
    <3> QED BY <2>1, GreatestNatural
  <2> QED BY <2>1, <2>2 DEF Lengths
<1> HIDE DEF i
<1>6. /\ indexed' \in [Nodes -> [Feeds -> Lengths]]
      /\ \A x \in Nodes, f \in Feeds : indexed'[x][f] = IF x = n THEN i(f) ELSE indexed[x][f]
  <2>1. indexed' = [indexed EXCEPT ![n] = [f \in Feeds |-> i(f)]]
    BY DEF Recorded, i
  <2> QED BY <1>0, <1>5, <2>1 DEF TypeOK
<1>7. \A f \in Feeds : indexed'[f][f] = indexed[f][f]
  BY <1>0, <1>5, <1>6
<1>8. onDisk' \in [Nodes -> [Feeds -> SUBSET (1 .. MaxLen)]]
  <2> DEFINE flags(f) == IF f \in pulled THEN 1 .. indexed'[n][f]
                         ELSE onDisk[n][f] \union (indexed[n][f] + 1 .. indexed'[n][f])
  <2>1. ASSUME NEW f \in Feeds PROVE flags(f) \in SUBSET (1 .. MaxLen)
    <3>1. indexed'[n][f] \in 0 .. MaxLen /\ indexed[n][f] \in Nat /\ MaxLen \in Nat
      BY <1>0, <1>6, HeldFacts DEF Lengths
    <3>2. onDisk[n][f] \in SUBSET (1 .. MaxLen)
      BY <1>0 DEF TypeOK
    <3> QED BY <3>1, <3>2
  <2>2. onDisk' = [onDisk EXCEPT ![n] = [f \in Feeds |-> flags(f)]]
    BY DEF Recorded
  <2> HIDE DEF flags
  <2> QED BY <1>0, <2>1, <2>2 DEF TypeOK
<1> QED BY <1>1, <1>3, <1>4, <1>6, <1>7, <1>8

\* sync_with_peer: what is copied is no longer than at the author's.
LEMMA SyncedKeepsInv ==
  ASSUME RetentionInv, NEW n \in Nodes, NEW m \in Nodes, n # m, NEW targets, NEW rows \in [Feeds -> Lengths],
         rows[n] = 0, held' = [held EXCEPT ![n] = HeldAfter(n, m, targets)],
         UNCHANGED <<len, want, favorite>>,
         \/ Recorded(n, m, Pulled(n, m, targets), rows)
         \/ UNCHANGED <<known, holders, indexed, onDisk>>
  PROVE  RetentionInv' /\ NothingLost
<1>0. TypeOK /\ HoldersListed /\ AuthorsLead /\ Feeds = Nodes
  BY DEF RetentionInv, Feeds
<1>1. /\ known' \in [Nodes -> [Feeds -> Lengths \union {Unknown}]]
      /\ holders' \in [Nodes -> [Feeds -> Seq(Nodes)]]
      /\ \A x \in Nodes, f \in Feeds : /\ Range(holders'[x][f]) \subseteq Nodes
                                      /\ IsInjective(holders'[x][f]) /\ Len(holders'[x][f]) <= MaxHolders
      /\ indexed' \in [Nodes -> [Feeds -> Lengths]]
      /\ \A f \in Feeds : indexed'[f][f] = indexed[f][f]
      /\ onDisk' \in [Nodes -> [Feeds -> SUBSET (1 .. MaxLen)]]
  <2>1. CASE Recorded(n, m, Pulled(n, m, targets), rows)
    <3> DEFINE pulled == Pulled(n, m, targets)
    <3>1. Recorded(n, m, pulled, rows)
      BY <2>1
    <3> HIDE DEF pulled
    <3> QED BY <3>1, RecordedFacts
  <2>2. CASE UNCHANGED <<known, holders, indexed, onDisk>>
    BY <1>0, <2>2 DEF TypeOK, HoldersListed
  <2> QED BY <2>1, <2>2
<1>2. /\ held' \in [Nodes -> [Feeds -> Lengths]]
      /\ \A x \in Nodes, f \in Feeds :
            held'[x][f] = IF x = n /\ (f = m \/ f \in Pulled(n, m, targets)) THEN held[m][f] ELSE held[x][f]
  BY <1>0 DEF HeldAfter, TypeOK
<1>3. \A x \in Nodes, f \in Feeds : held[x][f] \in Nat /\ held[x][f] <= held[f][f]
  BY <1>0, HeldFacts DEF AuthorsLead
<1>4. \A f \in Pulled(n, m, targets) : f # n /\ held[m][f] > held[n][f]
  BY DEF Pulled
<1>5. \A f \in Feeds : held'[f][f] = held[f][f]
  BY <1>0, <1>2, <1>4
<1>6. ASSUME NEW x \in Nodes, NEW f \in Feeds
      PROVE  held'[x][f] <= held'[f][f] /\ held[x][f] <= held'[x][f] /\ held'[x][f] \in Nat
  <2>1. held[m][f] \in Nat /\ held[x][f] \in Nat /\ held[m][f] <= held[f][f] /\ held[x][f] <= held[f][f]
    BY <1>3
  <2>2. CASE x = n /\ f = m
    <3>1. held'[x][f] = held[m][m] /\ held'[f][f] = held[m][m]
      BY <1>0, <1>2, <1>5, <2>2
    <3> QED BY <2>1, <2>2, <3>1
  <2>3. CASE x = n /\ f # m /\ f \in Pulled(n, m, targets)
    <3>1. held'[x][f] = held[m][f] /\ held'[f][f] = held[f][f] /\ held[m][f] > held[x][f]
      BY <1>2, <1>4, <1>5, <2>3
    <3> QED BY <2>1, <3>1
  <2>4. CASE ~ (x = n /\ (f = m \/ f \in Pulled(n, m, targets)))
    <3>1. held'[x][f] = held[x][f] /\ held'[f][f] = held[f][f]
      BY <1>2, <1>5, <2>4
    <3> QED BY <2>1, <3>1
  <2> QED BY <2>2, <2>3, <2>4
<1>7. TypeOK' /\ HoldersListed'
  <2>1. DOMAIN holders' = Nodes /\ \A x \in Nodes : DOMAIN holders'[x] = Feeds
    BY <1>1
  <2> QED BY <1>0, <1>1, <1>2, <2>1 DEF TypeOK, HoldersListed
<1>8. AuthorsLead'
  BY <1>0, <1>1, <1>5, <1>6 DEF AuthorsLead
<1>9. NothingLost
  BY <1>3, <1>6 DEF NothingLost
<1> QED BY <1>7, <1>8, <1>9 DEF RetentionInv

\* _auto_sync_discovered_peer and the sync of a stub that is opened are such syncs.
LEMMA SyncKeepsInv ==
  ASSUME RetentionInv, NEW n \in Nodes, NEW m \in Nodes, Sync(n, m)
  PROVE  RetentionInv' /\ NothingLost
<1> DEFINE pulled == Pulled(n, m, want[n])
           rows == [f \in Feeds |-> IF f = m \/ f \in pulled THEN held[m][f] ELSE 0]
<1>1. n # m
  BY DEF Sync, CanDial
<1>2. rows \in [Feeds -> Lengths] /\ rows[n] = 0
  <2>1. n \notin pulled /\ n \in Feeds
    BY DEF Pulled, Feeds
  <2>2. \A f \in Feeds : held[m][f] \in Lengths /\ 0 \in Lengths
    BY HeldFacts DEF RetentionInv
  <2> QED BY <1>1, <2>1, <2>2
<1>3. /\ held' = [held EXCEPT ![n] = HeldAfter(n, m, want[n])] /\ UNCHANGED <<len, want, favorite>>
      /\ Recorded(n, m, Pulled(n, m, want[n]), rows)
  BY DEF Sync
<1> HIDE DEF rows, pulled
<1> DEFINE targets == want[n]
<1>4. /\ held' = [held EXCEPT ![n] = HeldAfter(n, m, targets)]
      /\ Recorded(n, m, Pulled(n, m, targets), rows)
  BY <1>3
<1> HIDE DEF targets
<1> QED BY <1>1, <1>2, <1>3, <1>4, SyncedKeepsInv

LEMMA OpenStubKeepsInv ==
  ASSUME RetentionInv, NEW n \in Nodes, NEW f \in Feeds, NEW m \in Nodes, OpenStub(n, f, m)
  PROVE  RetentionInv' /\ NothingLost
<1> DEFINE pulled == Pulled(n, m, {f})
           rows == [g \in Feeds |-> IF g \in pulled THEN held[m][g] ELSE 0]
<1>1. n # m
  BY DEF OpenStub, CanDial
<1>2. rows \in [Feeds -> Lengths] /\ rows[n] = 0
  <2>1. n \notin pulled /\ n \in Feeds
    BY DEF Pulled, Feeds
  <2>2. \A g \in Feeds : held[m][g] \in Lengths /\ 0 \in Lengths
    BY HeldFacts DEF RetentionInv
  <2> QED BY <1>1, <2>1, <2>2
<1>3. /\ held' = [held EXCEPT ![n] = HeldAfter(n, m, {f})] /\ UNCHANGED <<len, want, favorite>>
      /\ \/ Recorded(n, m, Pulled(n, m, {f}), rows)
         \/ UNCHANGED <<known, holders, indexed, onDisk>>
  BY DEF OpenStub
<1> HIDE DEF rows, pulled
<1> QED BY <1>1, <1>2, <1>3, SyncedKeepsInv

\* Every step keeps the invariant, and none but a pass gives anything up.
LEMMA RetentionStep ==
  ASSUME RetentionInv, [Next]_vars
  PROVE  RetentionInv' /\ GivesUpTheCommonest
<1>1. ASSUME NEW n \in Nodes, Publish(n) PROVE RetentionInv' /\ GivesUpTheCommonest
  BY <1>1, AppendKeepsInv, NothingIsGivenUp
<1>2. ASSUME NEW n \in Nodes, Pass(n) PROVE RetentionInv' /\ GivesUpTheCommonest
  BY <1>2, PassKeepsInv
<1>3. ASSUME NEW n \in Nodes, NEW m \in Nodes, Sync(n, m) PROVE RetentionInv' /\ GivesUpTheCommonest
  BY <1>3, SyncKeepsInv, NothingIsGivenUp
<1>4. ASSUME NEW n \in Nodes, NEW f \in Nodes, NEW m \in Nodes, OpenStub(n, f, m)
      PROVE  RetentionInv' /\ GivesUpTheCommonest
  BY <1>4, OpenStubKeepsInv, NothingIsGivenUp DEF Feeds
<1>5. ASSUME UNCHANGED <<len, held, known, holders, want, indexed, onDisk>>,
             favorite' \in [Nodes -> SUBSET Feeds]
      PROVE  RetentionInv' /\ GivesUpTheCommonest
  <2>1. RetentionInv'
    BY <1>5 DEF RetentionInv, TypeOK, HoldersListed, AuthorsLead
  <2>2. NothingLost
    BY <1>5 DEF NothingLost
  <2> QED BY <2>1, <2>2, NothingIsGivenUp
<1>6. ASSUME NEW n \in Nodes, NEW f \in Nodes, Choose(n, f) PROVE RetentionInv' /\ GivesUpTheCommonest
  <2>1. favorite' \in [Nodes -> SUBSET Feeds]
    BY <1>6 DEF Choose, RetentionInv, TypeOK, Feeds
  <2> QED BY <1>5, <1>6, <2>1 DEF Choose
<1>7. CASE UNCHANGED vars
  <2>1. favorite' \in [Nodes -> SUBSET Feeds]
    BY <1>7 DEF vars, RetentionInv, TypeOK
  <2> QED BY <1>5, <1>7, <2>1 DEF vars
<1> QED BY <1>1, <1>2, <1>3, <1>4, <1>6, <1>7 DEF Next

\* At first a node holds what it has published itself.
LEMMA RetentionStart == Init => RetentionInv
<1> SUFFICES ASSUME Init PROVE RetentionInv
  OBVIOUS
<1>1. 0 \in Lengths /\ MaxHolders \in Nat
  BY RetentionAssumption DEF Lengths
<1>2. HoldersListed /\ \A n \in Nodes, f \in Feeds : holders[n][f] = <<>>
  BY EmptySeq DEF Init, HoldersListed
<1>3. DOMAIN holders = Nodes /\ \A n \in Nodes : DOMAIN holders[n] = Feeds /\ \A f \in Feeds :
          Range(holders[n][f]) \subseteq Nodes /\ IsInjective(holders[n][f]) /\ Len(holders[n][f]) <= MaxHolders
  <2>1. Range(<<>>) \subseteq Nodes /\ IsInjective(<<>>) /\ Len(<<>>) <= MaxHolders
    BY <1>1 DEF Range, IsInjective
  <2>2. DOMAIN holders = Nodes /\ \A n \in Nodes : DOMAIN holders[n] = Feeds
    BY <1>2 DEF HoldersListed
  <2> DEFINE none == <<>>
  <2>3. Range(none) \subseteq Nodes /\ IsInjective(none) /\ Len(none) <= MaxHolders
        /\ \A n \in Nodes, f \in Feeds : holders[n][f] = none
    BY <1>2, <2>1
  <2> HIDE DEF none
  <2> QED BY <2>2, <2>3
<1>a. AtStart \in [Feeds -> Lengths] /\ Lengths \subseteq Nat /\ MaxLen \in Nat /\ Feeds = Nodes
  BY RetentionAssumption DEF Lengths, Feeds
<1>h. /\ held \in [Nodes -> [Feeds -> Lengths]] /\ indexed = held /\ len = AtStart
      /\ \A n \in Nodes, f \in Feeds : held[n][f] = IF f = n THEN AtStart[f] ELSE 0
  BY <1>1, <1>a DEF Init
<1>4. AuthorsLead
  <2>1. ASSUME NEW n \in Nodes, NEW f \in Feeds PROVE held[n][f] <= held[f][f]
    <3>1. held[f][f] = AtStart[f] /\ held[f][f] \in Nat /\ held[n][f] \in {0, AtStart[f]}
      BY <1>a, <1>h
    <3> QED BY <3>1
  <2> QED BY <1>a, <1>h, <2>1 DEF AuthorsLead
<1>5. TypeOK
  <2>1. onDisk \in [Nodes -> [Feeds -> SUBSET (1 .. MaxLen)]]
    <3>1. ASSUME NEW n \in Nodes, NEW f \in Feeds PROVE 1 .. held[n][f] \subseteq 1 .. MaxLen
      <4>1. held[n][f] \in 0 .. MaxLen
        BY <1>h DEF Lengths
      <4> QED BY <1>a, <4>1
    <3>2. onDisk = [n \in Nodes |-> [f \in Feeds |-> 1 .. held[n][f]]]
      BY DEF Init
    <3> QED BY <3>1, <3>2
  <2> QED BY <1>1, <1>3, <1>a, <1>h, <2>1 DEF Init, TypeOK
<1> QED BY <1>2, <1>4, <1>5 DEF RetentionInv

\* The tables of every node stay well-formed: holder lists name nodes, none twice and
\* no more than cap_feed_holders allows, in whatever order passes, syncs and opened
\* stubs rewrite them.
THEOREM RetentionTypeCorrect == Spec => []TypeOK
<1>1. RetentionInv => TypeOK
  BY DEF RetentionInv
<1> QED BY <1>1, RetentionStart, RetentionStep, PTL DEF Spec

\* For every graph, budget and size: what plan_retention gives up is held by more
\* others, or as many and is farther by _keep_rank, than every feed of at least its
\* size that the pass keeps and was free to give up.  No sync gives anything up.
THEOREM CommonestGoFirst == Spec => RarestIsKept
<1> QED BY RetentionStart, RetentionStep, PTL DEF Spec, RarestIsKept, GivesUpTheCommonest
=============================================================================
