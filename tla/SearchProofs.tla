---------------------------- MODULE SearchProofs ----------------------------
(***************************************************************************)
(* Proofs about Search: what its filter keeps out of a lookup, whatever    *)
(* the addresses answer; that its state has its types; and that a lookup   *)
(* that converges has found the nearest reliable nodes.                    *)
(***************************************************************************)
EXTENDS Search, NaturalLemmas, SequenceTheorems

\* The parts of TypeOK the argument needs: the slots and what may be inserted.
SlotsTyped == slot \in [Ids -> Slot \union {Nobody}]
InputsTyped == seeds \in Seq(Candidate) /\ heard \subseteq Candidate

\* Every slot's holder passed _admit under the address the slot names.
SlotsPlausible == \A i \in Held : Plausible(i, slot[i].addr)
FoundPlausible == found \subseteq Ids /\ found \intersect Impossible = {}

Filtered == SlotsTyped /\ InputsTyped /\ SlotsPlausible /\ FoundPlausible

\* What an answer is made of.
LEMMA ReplyType == \A r \in Replies : r \in Reply
  <1>1. \A a \in Addrs : Answers[a] \subseteq Reply \union {NoReply}
    BY SearchAssumption
  <1> QED BY <1>1 DEF Replies

\* A slot that is created or renewed is a slot, under the address it is given.
LEMMA NamedSlot ==
    ASSUME SlotsTyped, NEW i \in Ids, NEW a \in Addrs
    PROVE  /\ Named(i, a) \in Slot /\ Named(i, a).addr = a
           /\ Named(i, a).pinged = (IF i \in Held THEN slot[i].pinged ELSE 0)
           /\ Named(i, a).replied = (IF i \in Held THEN slot[i].replied ELSE FALSE)
  <1>1. NewSlot(a) \in Slot /\ NewSlot(a).addr = a /\ NewSlot(a).pinged = 0 /\ NewSlot(a).replied = FALSE
    BY SearchAssumption DEF NewSlot, Slot
  <1>2. i \in Held => slot[i] \in Slot
    BY DEF Held, SlotsTyped
  <1>3. CASE i \in Held
    BY <1>2, <1>3 DEF Named, Slot
  <1>4. CASE i \notin Held
    BY <1>1, <1>4 DEF Named
  <1> QED BY <1>3, <1>4

LEMMA AnsweredSlot ==
    ASSUME SlotsTyped, NEW i \in Ids, NEW a \in Addrs, NEW r \in Reply
    PROVE  /\ Answered(i, a, r) \in Slot /\ Answered(i, a, r).addr = a
           /\ Answered(i, a, r).pinged = 0
  <1> DEFINE given == Named(i, a).token \/ r.token
  <1>1. r.token \in BOOLEAN /\ given \in BOOLEAN
    BY NamedSlot DEF Reply, Slot
  <1>2. 0 \in 0 .. MaxPinged /\ 0 \in 0 .. Retransmit
    BY SearchAssumption
  <1> DEFINE after(s, b) == [s EXCEPT !.replied = TRUE, !.pinged = 0, !.wait = 0, !.token = b]
  <1>3. Answered(i, a, r) = after(Named(i, a), given)
    BY DEF Answered
  <1>4. ASSUME NEW s \in Slot, NEW b \in BOOLEAN
        PROVE  after(s, b) \in Slot /\ after(s, b).addr = s.addr /\ after(s, b).pinged = 0
    BY <1>2 DEF Slot
  <1> HIDE DEF given, after
  <1>5. /\ after(Named(i, a), given) \in Slot /\ after(Named(i, a), given).addr = Named(i, a).addr
        /\ after(Named(i, a), given).pinged = 0
    <2>1. Named(i, a) \in Slot
      BY NamedSlot
    <2> QED BY <1>1, <1>4, <2>1
  <1> QED BY <1>3, <1>5, NamedSlot

\* A slot whose node is asked, and the running down of its wait.
LEMMA RetimedSlot ==
    ASSUME NEW s \in Slot, NEW p \in 0 .. MaxPinged, NEW w \in 0 .. Retransmit
    PROVE  LET m == [s EXCEPT !.pinged = p, !.wait = w]
           IN  m \in Slot /\ m.addr = s.addr
  BY DEF Slot

LEMMA LaterSlot ==
    ASSUME NEW s \in Slot, NEW t \in Nat
    PROVE  Later(s, t) \in Slot /\ Later(s, t).addr = s.addr
  <1> DEFINE w == IF s.wait > t THEN s.wait - t ELSE 0
  <1>1. Retransmit \in Nat /\ s.wait \in 0 .. Retransmit
    BY SearchAssumption DEF Slot
  <1>2. w \in 0 .. Retransmit
    BY <1>1
  <1>3. Later(s, t) = [s EXCEPT !.wait = w]
    BY DEF Later
  <1> HIDE DEF w
  <1> QED BY <1>2, <1>3 DEF Slot

\* Inserting an admitted node keeps the table filtered.
LEMMA InsertFilters ==
    ASSUME SlotsTyped, SlotsPlausible, NEW i \in Ids, NEW a \in Addrs, NEW s \in Slot,
           s.addr = a, Admits(i, a), Insert(i, s)
    PROVE  SlotsTyped' /\ SlotsPlausible'
  <1>1. SlotsTyped'
    BY DEF SlotsTyped, Insert
  <1>2. ASSUME NEW j \in Ids, slot'[j] # Nobody PROVE Plausible(j, slot'[j].addr)
    <2>1. CASE j = i
      BY <2>1 DEF Insert, Admits, Genuine
    <2>2. CASE j # i
      BY <2>2, <1>2 DEF Insert, SlotsPlausible, Held
    <2> QED BY <2>1, <2>2
  <1>3. SlotsPlausible'
    BY <1>2 DEF SlotsPlausible, Held, Plausible
  <1> QED BY <1>1, <1>3

\* Taking nodes away, or changing anything but their addresses, does too.
LEMMA KeepsAddresses ==
    ASSUME SlotsPlausible, SlotsTyped',
           \A i \in Ids : slot'[i] # Nobody => i \in Held /\ slot'[i].addr = slot[i].addr
    PROVE  SlotsPlausible'
  BY DEF SlotsPlausible, Held, Plausible

LEMMA WithoutFilters ==
    ASSUME SlotsTyped, SlotsPlausible, NEW i, slot' = Without(i)
    PROVE  SlotsTyped' /\ SlotsPlausible'
  BY DEF Without, SlotsTyped, SlotsPlausible, Held, Plausible

LEMMA FilteredInit == Init => Filtered
  BY SearchAssumption DEF Init, Filtered, SlotsTyped, InputsTyped, SlotsPlausible, FoundPlausible, Held

LEMMA FilteredStep == Filtered /\ [Next]_vars => Filtered'
  <1> SUFFICES ASSUME Filtered, [Next]_vars PROVE Filtered'
    OBVIOUS
  <1> USE DEF Filtered
  <1>0. CASE UNCHANGED vars
    BY <1>0 DEF vars, SlotsTyped, InputsTyped, SlotsPlausible, FoundPlausible, Held, Plausible
  <1>1. CASE AskBootstrap
    BY <1>1 DEF AskBootstrap, SlotsTyped, InputsTyped, SlotsPlausible, FoundPlausible, Held, Plausible
  <1>2. CASE InsertSeed
    <2> DEFINE c == Head(seeds)
    <2>1. c \in Candidate /\ Tail(seeds) \in Seq(Candidate)
      BY <1>2 DEF InsertSeed, InputsTyped
    <2>2. c.id \in Ids /\ c.addr \in Addrs
      BY <2>1 DEF Candidate
    <2>3. SlotsTyped' /\ SlotsPlausible'
      <3>1. CASE Admits(c.id, c.addr)
        <4>1. Insert(c.id, Named(c.id, c.addr))
          BY <1>2, <3>1 DEF InsertSeed
        <4> QED BY <2>2, <3>1, <4>1, InsertFilters, NamedSlot
      <3>2. CASE ~ Admits(c.id, c.addr)
        BY <1>2, <3>2 DEF InsertSeed, SlotsTyped, SlotsPlausible, Held, Plausible
      <3> QED BY <3>1, <3>2
    <2>4. InputsTyped' /\ FoundPlausible'
      BY <1>2, <2>1 DEF InsertSeed, InputsTyped, FoundPlausible
    <2> QED BY <2>3, <2>4
  <1>3. CASE AskRound
    <2>1. PICK t \in Nat :
            slot' = [i \in Ids |->
                       IF i \in Held
                       THEN Later(IF i \in ToQuery THEN [slot[i] EXCEPT !.pinged = @ + 1, !.wait = Retransmit]
                                  ELSE slot[i], t)
                       ELSE Nobody]
      BY <1>3, SearchAssumption DEF AskRound
    <2>2. \A i \in ToQuery : i \in Held /\ slot[i].pinged < MaxPinged
      BY DEF ToQuery, Nearest, Live
    <2>3. ASSUME NEW i \in Held
          PROVE  slot'[i] \in Slot /\ slot'[i].addr = slot[i].addr
      <3>1. slot[i] \in Slot /\ i \in Ids
        BY <2>3 DEF Held, SlotsTyped
      <3>2. CASE i \in ToQuery
        <4> DEFINE m == [slot[i] EXCEPT !.pinged = @ + 1, !.wait = Retransmit]
        <4>1. m \in Slot /\ m.addr = slot[i].addr
          <5>1. MaxPinged \in Nat /\ slot[i].pinged \in 0 .. MaxPinged /\ slot[i].pinged < MaxPinged
            BY <2>2, <3>1, <3>2, SearchAssumption DEF Slot
          <5>2. slot[i].pinged + 1 \in 0 .. MaxPinged
            BY <5>1
          <5>3. Retransmit \in 0 .. Retransmit
            BY SearchAssumption
          <5> QED BY <3>1, <5>2, <5>3, RetimedSlot
        <4>2. slot'[i] = Later(m, t)
          BY <2>1, <2>3, <3>1, <3>2
        <4> QED BY <4>1, <4>2, LaterSlot
      <3>3. CASE i \notin ToQuery
        BY <2>1, <2>3, <3>1, <3>3, LaterSlot
      <3> QED BY <3>2, <3>3
    <2>4. \A i \in Ids : i \notin Held => slot'[i] = Nobody
      BY <2>1
    <2>5. SlotsTyped'
      BY <2>1, <2>3, <2>4 DEF SlotsTyped
    <2>6. SlotsPlausible'
      BY <2>3, <2>4, <2>5, KeepsAddresses
    <2> QED BY <1>3, <2>5, <2>6 DEF AskRound, InputsTyped, FoundPlausible
  <1>4. CASE Nap
    <2>1. slot' = [i \in Ids |-> IF i \in Held THEN Later(slot[i], 1) ELSE Nobody]
      BY <1>4 DEF Nap
    <2>2. \A i \in Held : i \in Ids /\ slot'[i] \in Slot /\ slot'[i].addr = slot[i].addr
      BY <2>1, LaterSlot DEF Held, SlotsTyped
    <2>3. \A i \in Ids : i \notin Held => slot'[i] = Nobody
      BY <2>1
    <2>4. SlotsTyped'
      BY <2>1, <2>2, <2>3 DEF SlotsTyped
    <2>5. SlotsPlausible'
      BY <2>2, <2>3, <2>4, KeepsAddresses
    <2> QED BY <1>4, <2>4, <2>5 DEF Nap, InputsTyped, FoundPlausible
  <1>5. CASE StopSearch
    BY <1>5 DEF StopSearch, SlotsTyped, InputsTyped, SlotsPlausible, FoundPlausible, Held, Plausible
  <1>6. ASSUME NEW a \in Addrs, TakeNothing(a) PROVE Filtered'
    BY <1>6 DEF TakeNothing, SlotsTyped, InputsTyped, SlotsPlausible, FoundPlausible, Held, Plausible
  <1>7. ASSUME NEW a \in Addrs, NEW r \in Replies, TakeSwapped(a, r) PROVE Filtered'
    BY <1>7 DEF TakeSwapped, SlotsTyped, InputsTyped, SlotsPlausible, FoundPlausible, Held, Plausible
  <1>8. ASSUME NEW a \in Addrs, NEW r \in Replies, TakeBroken(a, r) PROVE Filtered'
    BY <1>8, WithoutFilters DEF TakeBroken, InputsTyped, FoundPlausible
  <1>9. ASSUME NEW a \in Addrs, NEW r \in Replies, TakeRefused(a, r) PROVE Filtered'
    <2>1. slot' = Without(r.id) \/ slot' = slot
      BY <1>9 DEF TakeRefused
    <2>2. SlotsTyped' /\ SlotsPlausible'
      BY <2>1, WithoutFilters DEF SlotsTyped, SlotsPlausible, Held, Plausible
    <2> QED BY <1>9, <2>2 DEF TakeRefused, InputsTyped, FoundPlausible
  <1>10. ASSUME NEW a \in Addrs, NEW r \in Replies, TakeAnswer(a, r) PROVE Filtered'
    <2>1. r \in Reply /\ r.id \in Ids /\ r.names \subseteq Candidate
      BY ReplyType DEF Reply
    <2>2. Admits(r.id, a) /\ Insert(r.id, Answered(r.id, a, r))
      BY <1>10 DEF TakeAnswer
    <2>3. Answered(r.id, a, r) \in Slot /\ Answered(r.id, a, r).addr = a
      BY <2>1, AnsweredSlot
    <2>4. SlotsTyped' /\ SlotsPlausible'
      BY <2>1, <2>2, <2>3, InsertFilters
    <2>5. r.id \notin Impossible
      BY <2>2 DEF Admits, Genuine, Plausible
    <2> QED BY <1>10, <2>1, <2>4, <2>5 DEF TakeAnswer, InputsTyped, FoundPlausible
  <1>11. CASE TakeCandidate
    <2>1. PICK c \in heard :
            /\ \/ Admits(c.id, c.addr) /\ Insert(c.id, Named(c.id, c.addr))
               \/ slot' = slot
            /\ heard' = heard \ {c}
      BY <1>11 DEF TakeCandidate
    <2>2. c.id \in Ids /\ c.addr \in Addrs
      BY DEF InputsTyped, Candidate
    <2>3. SlotsTyped' /\ SlotsPlausible'
      <3>1. CASE Admits(c.id, c.addr) /\ Insert(c.id, Named(c.id, c.addr))
        BY <2>2, <3>1, InsertFilters, NamedSlot
      <3>2. CASE slot' = slot
        BY <3>2 DEF SlotsTyped, SlotsPlausible, Held, Plausible
      <3> QED BY <2>1, <3>1, <3>2
    <2> QED BY <1>11, <2>1, <2>3 DEF TakeCandidate, InputsTyped, FoundPlausible
  <1>12. CASE Announce
    <2>1. PICK ok \in SUBSET {i \in FirstK : slot[i].replied /\ slot[i].token} :
            slot' = [i \in Ids |-> IF i \in ok THEN [slot[i] EXCEPT !.acked = TRUE] ELSE slot[i]]
      BY <1>12 DEF Announce
    <2>2. \A i \in ok : i \in Held /\ slot[i] \in Slot
      BY <2>1 DEF FirstK, Nearest, Live, Held, SlotsTyped
    <2>3. SlotsTyped'
      BY <2>1, <2>2 DEF SlotsTyped, Slot
    <2>4. \A i \in Ids : slot'[i] # Nobody => i \in Held /\ slot'[i].addr = slot[i].addr
      BY <2>1, <2>2 DEF Held, Slot
    <2>5. SlotsPlausible'
      BY <2>3, <2>4, KeepsAddresses
    <2> QED BY <1>12, <2>3, <2>5 DEF Announce, InputsTyped, FoundPlausible
  <1>13. CASE Done
    BY <1>13 DEF Done, vars, SlotsTyped, InputsTyped, SlotsPlausible, FoundPlausible, Held, Plausible
  <1> QED
    BY <1>0, <1>1, <1>2, <1>3, <1>4, <1>5, <1>6, <1>7, <1>8, <1>9, <1>10, <1>11, <1>12, <1>13 DEF Next

\* Whatever the addresses answer and in whatever order, no id too close to be
\* true, and none that BEP 42 refuses, holds a slot of a lookup or contributes
\* values to it (Search._admit, _ingest_reply).
THEOREM LookupAdmitsNothingForged == Spec => []NothingForged
  <1>1. Filtered => NothingForged
    BY DEF Filtered, SlotsPlausible, FoundPlausible, Plausible, NothingForged
  <1> QED BY <1>1, FilteredInit, FilteredStep, PTL DEF Spec

-----------------------------------------------------------------------------
(***************************************************************************)
(* Type correctness: the parts that the filter does not need.              *)
(***************************************************************************)
RestTyped ==
    /\ count \in [Networks -> Nat]
    /\ black \subseteq Addrs
    /\ known \in [Addrs -> Ids \union {Nobody}]
    /\ asked \in Seq(Query)
    /\ pc \in {"bootstrap", "search", "announce", "done"}
    /\ rounds \in 0 .. MaxRounds
    /\ IsFiniteSet(Held)

Typed == Filtered /\ RestTyped

\* InOrder lists a finite set of numbers.
LEMMA InOrderLists ==
    ASSUME NEW S, S \subseteq Nat, IsFiniteSet(S)
    PROVE  /\ InOrder(S) \in Seq(S) /\ Len(InOrder(S)) \in Nat
           /\ \A k \in 1 .. Len(InOrder(S)) : InOrder(S)[k] \in S
           /\ \A x \in S : \E k \in 1 .. Len(InOrder(S)) : InOrder(S)[k] = x
  <1> DEFINE R == {p \in S \X S : p[1] < p[2]}
             N == Cardinality(S)
             s == InOrder(S)
  <1>1. N \in Nat
    BY FS_CardinalityType
  <1>2. /\ \A f, g \in S : <<f, g>> \in R <=> f < g
        /\ \A f \in S : f \in Nat
    OBVIOUS
  <1> HIDE DEF R, N
  <1>3. /\ \A f \in S : <<f, f>> \notin R
        /\ \A f, g, h \in S : <<f, g>> \in R /\ <<g, h>> \in R => <<f, h>> \in R
        /\ \A f, g \in S : f # g => <<f, g>> \in R \/ <<g, f>> \in R
    BY <1>2
  <1>4. \A t \in [1 .. N -> S] : GoesUp(t, R) <=> \A i, j \in DOMAIN t : i < j => t[i] < t[j]
    BY <1>2 DEF GoesUp
  <1>5. \E t \in [1 .. N -> S] : GoesUp(t, R)
    BY <1>3, ListingExists DEF N
  <1>6. \E t \in [1 .. N -> S] : \A i, j \in DOMAIN t : i < j => t[i] < t[j]
    BY <1>4, <1>5
  <1>7. s \in [1 .. N -> S] /\ \A i, j \in DOMAIN s : i < j => s[i] < s[j]
    BY <1>6 DEF InOrder, N
  <1> HIDE DEF s
  <1>8. GoesUp(s, R)
    BY <1>4, <1>7
  <1>9. \A x \in S : \E k \in 1 .. N : s[k] = x
    <2>1. \A f \in S : <<f, f>> \notin R
      BY <1>3
    <2>2. s \in [1 .. Cardinality(S) -> S]
      BY <1>7 DEF N
    <2>3. \A x \in S : \E k \in 1 .. Cardinality(S) : s[k] = x
      BY <1>8, <2>1, <2>2, ListingIsComplete
    <2> QED BY <2>3 DEF N
  <1>10. s \in Seq(S) /\ Len(s) = N
    BY <1>1, <1>7, SeqDef, LenProperties
  <1> QED BY <1>1, <1>7, <1>9, <1>10 DEF s

\* What a round asks and what it is answered.
LEMMA AskFacts ==
    ASSUME NEW addrs \in Seq(Addrs), NEW nodes, Ask(addrs, nodes),
           \A k \in 1 .. Len(addrs) : nodes[k] \in Ids \union {Nobody}
    PROVE  /\ asked' \in Seq(Query) /\ Len(asked') = Len(addrs)
           /\ \A k \in 1 .. Len(addrs) :
                 /\ asked'[k].node = nodes[k] /\ asked'[k].addr = addrs[k]
                 /\ addrs[k] \in Addrs /\ asked'[k].reply \in Answers[addrs[k]]
  <1>1. PICK r \in [1 .. Len(addrs) -> Replies \union {NoReply}] :
          /\ \A j \in 1 .. Len(addrs) : r[j] \in Answers[addrs[j]]
          /\ asked' = [j \in 1 .. Len(addrs) |-> [node |-> nodes[j], addr |-> addrs[j], reply |-> r[j]]]
    BY DEF Ask
  <1>2. Len(addrs) \in Nat /\ \A k \in 1 .. Len(addrs) : addrs[k] \in Addrs
    BY LenProperties, ElementOfSeq
  <1>3. \A k \in 1 .. Len(addrs) : r[k] \in Reply \union {NoReply}
    BY <1>1, ReplyType
  <1>4. \A k \in 1 .. Len(addrs) : [node |-> nodes[k], addr |-> addrs[k], reply |-> r[k]] \in Query
    BY <1>2, <1>3 DEF Query
  <1>5. asked' \in [1 .. Len(addrs) -> Query]
    BY <1>1, <1>4
  <1>6. asked' \in Seq(Query) /\ Len(asked') = Len(addrs)
    BY <1>2, <1>5, SeqDef, LenProperties
  <1> QED BY <1>1, <1>2, <1>6

\* What becomes of the answers still to be taken.
LEMMA PendingFacts ==
    ASSUME NEW Q \in Seq(Query), NEW i \in Ids, NEW a \in Addrs, NEW S
    PROVE  LET R == Detached(Readdressed(Q, i, a), S)
               D == Detached(Q, S)
           IN  /\ R \in Seq(Query) /\ Len(R) = Len(Q) /\ Len(Q) \in Nat
               /\ D \in Seq(Query) /\ Len(D) = Len(Q)
               /\ \A k \in 1 .. Len(Q) :
                     /\ Q[k] \in Query
                     /\ R[k].reply = Q[k].reply /\ D[k].reply = Q[k].reply /\ D[k].addr = Q[k].addr
                     /\ R[k].addr = (IF i \in Held /\ Q[k].node = i THEN a ELSE Q[k].addr)
                     /\ R[k].node = (IF Q[k].node \in S THEN Nobody ELSE Q[k].node)
                     /\ D[k].node = (IF Q[k].node \in S THEN Nobody ELSE Q[k].node)
  <1>1. Len(Q) \in Nat /\ \A k \in 1 .. Len(Q) : Q[k] \in Query
    BY LenProperties, ElementOfSeq
  <1>2. ASSUME NEW P \in Seq(Query), Len(P) = Len(Q)
        PROVE  /\ Detached(P, S) \in Seq(Query) /\ Len(Detached(P, S)) = Len(Q)
               /\ \A k \in 1 .. Len(Q) :
                     /\ Detached(P, S)[k].reply = P[k].reply /\ Detached(P, S)[k].addr = P[k].addr
                     /\ Detached(P, S)[k].node = (IF P[k].node \in S THEN Nobody ELSE P[k].node)
    <2> DEFINE new(k) == IF P[k].node \in S THEN [P[k] EXCEPT !.node = Nobody] ELSE P[k]
    <2>1. ASSUME NEW k \in 1 .. Len(Q)
          PROVE  /\ new(k) \in Query /\ new(k).reply = P[k].reply /\ new(k).addr = P[k].addr
                 /\ new(k).node = (IF P[k].node \in S THEN Nobody ELSE P[k].node)
      <3>1. P[k] \in Query
        BY <1>2, ElementOfSeq
      <3> QED BY <3>1 DEF Query
    <2>2. Detached(P, S) = [k \in 1 .. Len(Q) |-> new(k)]
      BY <1>2 DEF Detached
    <2> HIDE DEF new
    <2>3. Detached(P, S) \in [1 .. Len(Q) -> Query] /\ \A k \in 1 .. Len(Q) : Detached(P, S)[k] = new(k)
      BY <2>1, <2>2
    <2>4. Detached(P, S) \in Seq(Query) /\ Len(Detached(P, S)) = Len(Q)
      BY <1>1, <2>3, SeqDef, LenProperties
    <2> QED BY <2>1, <2>3, <2>4
  <1>3. /\ Readdressed(Q, i, a) \in Seq(Query) /\ Len(Readdressed(Q, i, a)) = Len(Q)
        /\ \A k \in 1 .. Len(Q) :
              /\ Readdressed(Q, i, a)[k].reply = Q[k].reply /\ Readdressed(Q, i, a)[k].node = Q[k].node
              /\ Readdressed(Q, i, a)[k].addr = (IF i \in Held /\ Q[k].node = i THEN a ELSE Q[k].addr)
    <2> DEFINE new(k) == IF i \in Held /\ Q[k].node = i THEN [Q[k] EXCEPT !.addr = a] ELSE Q[k]
    <2>1. ASSUME NEW k \in 1 .. Len(Q)
          PROVE  /\ new(k) \in Query /\ new(k).reply = Q[k].reply /\ new(k).node = Q[k].node
                 /\ new(k).addr = (IF i \in Held /\ Q[k].node = i THEN a ELSE Q[k].addr)
      <3>1. Q[k] \in Query
        BY <1>1
      <3> QED BY <3>1 DEF Query
    <2>2. Readdressed(Q, i, a) = [k \in 1 .. Len(Q) |-> new(k)]
      BY DEF Readdressed
    <2> HIDE DEF new
    <2>3. Readdressed(Q, i, a) \in [1 .. Len(Q) -> Query] /\ \A k \in 1 .. Len(Q) : Readdressed(Q, i, a)[k] = new(k)
      BY <2>1, <2>2
    <2>4. Readdressed(Q, i, a) \in Seq(Query) /\ Len(Readdressed(Q, i, a)) = Len(Q)
      BY <1>1, <2>3, SeqDef, LenProperties
    <2> QED BY <2>1, <2>3, <2>4
  <1> QED BY <1>1, <1>2, <1>3

LEMMA BootstrapAsks ==
    ASSUME AskBootstrap
    PROVE  /\ asked' \in Seq(Query)
           /\ \A k \in 1 .. Len(asked') : /\ asked'[k].node = Nobody /\ asked'[k].addr \in Addrs
                                         /\ asked'[k].reply \in Answers[asked'[k].addr]
           /\ \A k \in 1 .. Len(Bootstrap) :
                 (\A j \in 1 .. Len(Seeds) : Seeds[j].addr # Bootstrap[k])
                    => \E m \in 1 .. Len(asked') : asked'[m].addr = Bootstrap[k]
  <1> DEFINE S == {k \in 1 .. Len(Bootstrap) : \A j \in 1 .. Len(Seeds) : Seeds[j].addr # Bootstrap[k]}
             u == InOrder(S)
             addrs == [j \in 1 .. Len(u) |-> Bootstrap[u[j]]]
             nodes == [j \in 1 .. Len(u) |-> Nobody]
  <1>1. Len(Bootstrap) \in Nat /\ \A k \in 1 .. Len(Bootstrap) : Bootstrap[k] \in Addrs
    BY SearchAssumption, LenProperties, ElementOfSeq
  <1>2. S \subseteq Nat /\ IsFiniteSet(S) /\ S \subseteq 1 .. Len(Bootstrap)
    <2>1. S \in SUBSET (1 .. Len(Bootstrap))
      OBVIOUS
    <2>2. IsFiniteSet(1 .. Len(Bootstrap)) /\ 1 .. Len(Bootstrap) \subseteq Nat
      BY <1>1, FS_Interval
    <2> HIDE DEF S
    <2> QED BY <2>1, <2>2, FS_Subset
  <1>3. Ask(addrs, nodes)
    BY DEF AskBootstrap
  <1>4. \A k \in 1 .. Len(Bootstrap) : k \in S <=> \A j \in 1 .. Len(Seeds) : Seeds[j].addr # Bootstrap[k]
    OBVIOUS
  <1> HIDE DEF S
  <1>5. /\ Len(u) \in Nat /\ \A k \in 1 .. Len(u) : u[k] \in S
        /\ \A x \in S : \E k \in 1 .. Len(u) : u[k] = x
    BY <1>2, InOrderLists
  <1> HIDE DEF u
  <1>6. addrs \in [1 .. Len(u) -> Addrs] /\ \A j \in 1 .. Len(u) : addrs[j] = Bootstrap[u[j]] /\ nodes[j] = Nobody
    BY <1>1, <1>2, <1>5
  <1> HIDE DEF addrs, nodes
  <1>7. addrs \in Seq(Addrs) /\ Len(addrs) = Len(u)
    BY <1>5, <1>6, SeqDef, LenProperties
  <1>8. /\ asked' \in Seq(Query) /\ Len(asked') = Len(addrs)
        /\ \A k \in 1 .. Len(addrs) :
              /\ asked'[k].node = nodes[k] /\ asked'[k].addr = addrs[k]
              /\ addrs[k] \in Addrs /\ asked'[k].reply \in Answers[addrs[k]]
    BY <1>3, <1>6, <1>7, AskFacts
  <1>9. ASSUME NEW k \in 1 .. Len(Bootstrap), k \in S
        PROVE  \E m \in 1 .. Len(asked') : asked'[m].addr = Bootstrap[k]
    <2>1. PICK m \in 1 .. Len(u) : u[m] = k
      BY <1>5, <1>9
    <2> QED BY <1>6, <1>7, <1>8, <2>1
  <1> QED BY <1>4, <1>6, <1>7, <1>8, <1>9

\* nodes_to_query and the round: who is asked, where, and how it is marked.
LEMMA RoundAsks ==
    ASSUME Typed, AskRound
    PROVE  /\ asked' \in Seq(Query)
           /\ \A k \in 1 .. Len(asked') :
                 /\ asked'[k].node \in Held /\ asked'[k].addr = slot[asked'[k].node].addr
                 /\ asked'[k].addr \in Addrs /\ asked'[k].reply \in Answers[asked'[k].addr]
           /\ \A i \in ToQuery : \E k \in 1 .. Len(asked') : asked'[k].node = i
           /\ Held' = Held
           /\ \A i \in Held : /\ slot'[i].addr = slot[i].addr /\ slot'[i].replied = slot[i].replied
                              /\ i \notin ToQuery => slot'[i].pinged = slot[i].pinged
  <1> DEFINE u == InOrder(ToQuery)
             addrs == [j \in 1 .. Len(u) |-> slot[u[j]].addr]
  <1>1. ToQuery \subseteq Held /\ Held \subseteq Ids /\ Ids \subseteq Nat /\ Nobody \notin Ids
    BY SearchAssumption DEF ToQuery, Nearest, Live, Held
  <1>2. \A i \in Held : slot[i] \in Slot /\ slot[i].addr \in Addrs /\ slot[i] # Nobody
    BY DEF Typed, Filtered, SlotsTyped, Held, Slot
  <1>3. IsFiniteSet(ToQuery) /\ ToQuery \subseteq Nat
    <2>1. ToQuery \in SUBSET Held
      BY <1>1
    <2> QED BY <1>1, <2>1, FS_Subset DEF Typed, RestTyped
  <1>4. /\ u \in Seq(ToQuery) /\ Len(u) \in Nat /\ \A k \in 1 .. Len(u) : u[k] \in ToQuery
        /\ \A x \in ToQuery : \E k \in 1 .. Len(u) : u[k] = x
    BY <1>3, InOrderLists
  <1>5. Ask(addrs, u)
    BY DEF AskRound
  <1> HIDE DEF u
  <1>6. addrs \in [1 .. Len(u) -> Addrs] /\ \A j \in 1 .. Len(u) : addrs[j] = slot[u[j]].addr
    BY <1>1, <1>2, <1>4
  <1> HIDE DEF addrs
  <1>7. addrs \in Seq(Addrs) /\ Len(addrs) = Len(u)
    <2>1. Len(u) \in Nat
      BY <1>4
    <2>2. addrs \in [1 .. Len(u) -> Addrs]
      BY <1>6
    <2> QED BY <2>1, <2>2, SeqDef, LenProperties
  <1>8. /\ asked' \in Seq(Query) /\ Len(asked') = Len(addrs)
        /\ \A k \in 1 .. Len(addrs) :
              /\ asked'[k].node = u[k] /\ asked'[k].addr = addrs[k]
              /\ addrs[k] \in Addrs /\ asked'[k].reply \in Answers[addrs[k]]
    BY <1>1, <1>4, <1>5, <1>7, AskFacts
  <1>9. PICK t \in Nat :
          slot' = [i \in Ids |->
                     IF i \in Held
                     THEN Later(IF i \in ToQuery THEN [slot[i] EXCEPT !.pinged = @ + 1, !.wait = Retransmit]
                                ELSE slot[i], t)
                     ELSE Nobody]
    BY SearchAssumption DEF AskRound
  <1>10. ASSUME NEW i \in Held
         PROVE  /\ slot'[i] \in Slot /\ slot'[i].addr = slot[i].addr /\ slot'[i].replied = slot[i].replied
                /\ i \notin ToQuery => slot'[i].pinged = slot[i].pinged
    <2> DEFINE m == [slot[i] EXCEPT !.pinged = @ + 1, !.wait = Retransmit]
    <2>1. m.addr = slot[i].addr /\ m.replied = slot[i].replied /\ DOMAIN m = DOMAIN slot[i]
      BY <1>2 DEF Slot
    <2>6. i \in ToQuery => m \in Slot
      <3>1. MaxPinged \in Nat /\ slot[i].pinged \in 0 .. MaxPinged
        BY <1>2, SearchAssumption DEF Slot
      <3>2. i \in ToQuery => slot[i].pinged + 1 \in 0 .. MaxPinged
        BY <3>1 DEF ToQuery, Nearest, Live
      <3>3. Retransmit \in 0 .. Retransmit
        BY SearchAssumption
      <3> QED BY <1>2, <3>2, <3>3, RetimedSlot
    <2>2. ASSUME NEW x \in Slot
          PROVE  /\ Later(x, t) \in Slot /\ Later(x, t).addr = x.addr
                 /\ Later(x, t).replied = x.replied /\ Later(x, t).pinged = x.pinged
      BY LaterSlot DEF Later, Slot
    <2> HIDE DEF m
    <2>3. slot'[i] = Later(IF i \in ToQuery THEN m ELSE slot[i], t)
      BY <1>1, <1>9 DEF m
    <2>4. CASE i \in ToQuery
      BY <2>1, <2>2, <2>3, <2>4, <2>6
    <2>5. CASE i \notin ToQuery
      BY <1>2, <2>2, <2>3, <2>5
    <2> QED BY <2>4, <2>5
  <1>11. Held' = Held
    <2>2. \A i \in Ids : i \notin Held => slot'[i] = Nobody
      BY <1>9
    <2>3. \A i \in Held : slot'[i] # Nobody
      BY <1>10, NobodyAssumption
    <2> QED BY <1>1, <2>2, <2>3 DEF Held
  <1>12. /\ asked' \in Seq(Query)
         /\ \A k \in 1 .. Len(asked') :
               /\ asked'[k].node \in Held /\ asked'[k].addr = slot[asked'[k].node].addr
               /\ asked'[k].addr \in Addrs /\ asked'[k].reply \in Answers[asked'[k].addr]
    <2>1. ASSUME NEW k \in 1 .. Len(asked')
          PROVE  /\ asked'[k].node \in Held /\ asked'[k].addr = slot[asked'[k].node].addr
                 /\ asked'[k].addr \in Addrs /\ asked'[k].reply \in Answers[asked'[k].addr]
      <3>1. k \in 1 .. Len(u) /\ k \in 1 .. Len(addrs)
        BY <1>7, <1>8
      <3>2. asked'[k].node = u[k] /\ asked'[k].addr = addrs[k] /\ u[k] \in Held /\ addrs[k] = slot[u[k]].addr
        BY <1>1, <1>4, <1>6, <1>8, <3>1
      <3> QED BY <1>8, <3>1, <3>2
    <2> QED BY <1>8, <2>1
  <1>13. \A i \in ToQuery : \E k \in 1 .. Len(asked') : asked'[k].node = i
    BY <1>4, <1>7, <1>8
  <1> QED BY <1>10, <1>11, <1>12, <1>13

\* An insertion: who holds a slot afterwards, and what the networks count.
LEMMA InsertFacts ==
    ASSUME Typed, NEW i \in Ids, NEW s \in Slot, Insert(i, s)
    PROVE  /\ slot'[i] = s /\ i \in Held'
           /\ \A j \in Held \ Displaced(i) : j \in Held' /\ (j # i => slot'[j] = slot[j])
           /\ \A j \in Held' : j = i \/ (j \in Held /\ j \notin Displaced(i) /\ slot'[j] = slot[j])
           /\ IsFiniteSet(Held') /\ count' \in [Networks -> Nat]
  <1>1. \A j \in Ids : slot'[j] = IF j = i THEN s ELSE IF j \in Displaced(i) THEN Nobody ELSE slot[j]
    BY DEF Insert
  <1>2. s # Nobody /\ Held \subseteq Ids
    BY NobodyAssumption DEF Held
  <1>3. Held' = {j \in Ids : slot'[j] # Nobody}
    BY DEF Held
  <1>4. IsFiniteSet(Held')
    <2>1. Held' \in SUBSET (Held \union {i})
      BY <1>1, <1>3 DEF Held
    <2>2. IsFiniteSet(Held \union {i})
      BY FS_AddElement DEF Typed, RestTyped
    <2> QED BY <2>1, <2>2, FS_Subset
  <1>5. count' \in [Networks -> Nat]
    <2>1. IsFiniteSet(Displaced(i))
      BY FS_EmptySet, FS_Singleton DEF Displaced
    <2>2. ASSUME NEW n \in Networks
          PROVE  LET in == IF i \notin Held /\ Prefix[s.addr] = n THEN 1 ELSE 0
                     out == Cardinality({j \in Displaced(i) : Prefix[slot[j].addr] = n})
                 IN  (IF out <= count[n] + in THEN count[n] + in - out ELSE 0) \in Nat
      <3> DEFINE T == {j \in Displaced(i) : Prefix[slot[j].addr] = n}
      <3>1. Cardinality(T) \in Nat
        <4>1. T \in SUBSET Displaced(i)
          OBVIOUS
        <4> HIDE DEF T
        <4> QED BY <2>1, <4>1, FS_Subset, FS_CardinalityType
      <3>2. count[n] \in Nat
        BY DEF Typed, RestTyped
      <3> HIDE DEF T
      <3>3. ASSUME NEW c \in Nat, NEW in \in {0, 1}, NEW out \in Nat
            PROVE  (IF out <= c + in THEN c + in - out ELSE 0) \in Nat
        OBVIOUS
      <3> QED BY <3>1, <3>2, <3>3 DEF T
    <2> QED BY <2>2 DEF Insert, NewCount
  <1>6. slot'[i] = s /\ i \in Held'
    BY <1>1, <1>2, <1>3
  <1>7. ASSUME NEW j \in Held \ Displaced(i) PROVE j \in Held' /\ (j # i => slot'[j] = slot[j])
    BY <1>1, <1>2, <1>3, <1>6, <1>7 DEF Held
  <1>8. ASSUME NEW j \in Held' PROVE j = i \/ (j \in Held /\ j \notin Displaced(i) /\ slot'[j] = slot[j])
    BY <1>1, <1>3, <1>8 DEF Held
  <1> QED BY <1>4, <1>5, <1>6, <1>7, <1>8

LEMMA RestTypedInit == Init => RestTyped
  <1> SUFFICES ASSUME Init PROVE RestTyped
    OBVIOUS
  <1>1. Held = {}
    BY DEF Init, Held
  <1>2. <<>> \in Seq(Query)
    OBVIOUS
  <1> QED BY <1>1, <1>2, SearchAssumption, FS_EmptySet DEF Init, RestTyped

LEMMA WithoutShrinks ==
    ASSUME Typed, NEW i, slot' = Without(i)
    PROVE  /\ IsFiniteSet(Held') /\ Held' \subseteq Held
           /\ \A j \in Held : j # i => j \in Held' /\ slot'[j] = slot[j]
  <1>1. \A j \in Ids : slot'[j] = slot[j] \/ (j = i /\ slot'[j] = Nobody)
    BY DEF Without, Typed, Filtered, SlotsTyped
  <1>2. \A j \in Ids : j # i => slot'[j] = slot[j]
    BY DEF Without, Typed, Filtered, SlotsTyped
  <1>3. Held' \in SUBSET Held
    BY <1>1 DEF Held
  <1> QED BY <1>2, <1>3, FS_Subset DEF Typed, RestTyped, Held

\* The next answer, and those after it.
LEMMA NextFacts ==
    ASSUME Typed, NEW a, NEW r, NextAnswer(a, r)
    PROVE  /\ a \in Addrs /\ r \in Reply \union {NoReply} /\ asked[1] \in Query
           /\ asked[1].addr = a /\ asked[1].reply = r /\ 1 \in 1 .. Len(asked)
           /\ Tail(asked) \in Seq(Query) /\ Len(Tail(asked)) = Len(asked) - 1 /\ Len(asked) \in Nat
           /\ \A k \in 1 .. Len(asked) - 1 : k + 1 \in 1 .. Len(asked) /\ Tail(asked)[k] = asked[k + 1]
           /\ \A k \in 1 .. Len(asked) : k # 1 => k - 1 \in 1 .. Len(asked) - 1 /\ Tail(asked)[k - 1] = asked[k]
  <1>1. asked \in Seq(Query) /\ asked # <<>> /\ Head(asked).addr = a /\ Head(asked).reply = r
    BY DEF NextAnswer, Typed, RestTyped
  <1>2. /\ Len(asked) \in Nat /\ Len(asked) > 0 /\ Head(asked) = asked[1] /\ asked[1] \in Query
        /\ Tail(asked) \in Seq(Query) /\ Len(Tail(asked)) = Len(asked) - 1
        /\ \A k \in 1 .. Len(asked) - 1 : Tail(asked)[k] = asked[k + 1]
    BY <1>1
  <1> QED BY <1>1, <1>2 DEF Query

LEMMA TypedStep == Typed /\ [Next]_vars => Typed'
  <1> SUFFICES ASSUME Typed, [Next]_vars PROVE RestTyped'
    BY FilteredStep DEF Typed
  <1>0. Filtered /\ RestTyped /\ SlotsTyped /\ InputsTyped
    BY DEF Typed, Filtered
  <1>1. CASE UNCHANGED vars
    BY <1>0, <1>1 DEF vars, RestTyped, Held
  <1>2. CASE AskBootstrap
    BY <1>0, <1>2, BootstrapAsks DEF AskBootstrap, RestTyped, Held
  <1>3. CASE InsertSeed
    <2> DEFINE c == Head(seeds)
    <2>1. c \in Candidate
      BY <1>0, <1>3 DEF InsertSeed, InputsTyped
    <2>2. c.id \in Ids /\ c.addr \in Addrs
      BY <2>1 DEF Candidate
    <2>3. Named(c.id, c.addr) \in Slot
      BY <1>0, <2>2, NamedSlot
    <2>4. black' \subseteq Addrs
      BY <1>0, <1>3, <2>2 DEF InsertSeed, Blamed, RestTyped
    <2>5. count' \in [Networks -> Nat] /\ IsFiniteSet(Held')
      <3>1. CASE Insert(c.id, Named(c.id, c.addr))
        BY <2>2, <2>3, <3>1, InsertFacts
      <3>2. CASE UNCHANGED <<slot, count>>
        BY <1>0, <3>2 DEF RestTyped, Held
      <3> QED BY <1>3, <3>1, <3>2 DEF InsertSeed
    <2> QED BY <1>0, <1>3, <2>4, <2>5 DEF InsertSeed, RestTyped
  <1>4. CASE AskRound
    <2>2. rounds \in 0 .. MaxRounds /\ MaxRounds \in Nat
      BY <1>0, SearchAssumption DEF RestTyped
    <2>3. rounds < MaxRounds /\ rounds' = rounds + 1
      BY <1>4 DEF AskRound
    <2>1. rounds' \in 0 .. MaxRounds
      BY <2>2, <2>3
    <2> QED BY <1>0, <1>4, <2>1, RoundAsks DEF AskRound, RestTyped
  <1>5. CASE Nap
    <2>1. rounds' \in 0 .. MaxRounds
      BY <1>0, <1>5, SearchAssumption DEF Nap, RestTyped
    <2>2. IsFiniteSet(Held')
      <3>1. Held' \in SUBSET Held
        BY <1>5 DEF Nap, Held
      <3> QED BY <1>0, <3>1, FS_Subset DEF RestTyped
    <2> QED BY <1>0, <1>5, <2>1, <2>2 DEF Nap, RestTyped
  <1>6. CASE StopSearch
    BY <1>0, <1>6 DEF StopSearch, RestTyped, Held
  <1>7. ASSUME NEW a \in Addrs, TakeNothing(a) PROVE RestTyped'
    <2>1. asked' \in Seq(Query)
      BY <1>7, NextFacts DEF TakeNothing
    <2> QED BY <1>0, <1>7, <2>1 DEF TakeNothing, RestTyped, Held
  <1>8. ASSUME NEW a \in Addrs, NEW r \in Replies, TakeSwapped(a, r) PROVE RestTyped'
    <2>1. asked' \in Seq(Query)
      BY <1>8, NextFacts DEF TakeSwapped
    <2> QED BY <1>0, <1>8, <2>1 DEF TakeSwapped, RestTyped, Held
  <1>9. ASSUME NEW a \in Addrs, NEW r \in Replies, TakeBroken(a, r) PROVE RestTyped'
    <2>1. r.id \in Ids
      BY ReplyType DEF Reply
    <2>2. asked' \in Seq(Query)
      BY <1>9, <2>1, NextFacts, PendingFacts DEF TakeBroken
    <2>3. IsFiniteSet(Held')
      BY <1>9, WithoutShrinks DEF TakeBroken
    <2>4. known' \in [Addrs -> Ids \union {Nobody}]
      BY <1>0, <1>9, <2>1 DEF TakeBroken, RestTyped
    <2> QED BY <1>0, <1>9, <2>2, <2>3, <2>4 DEF TakeBroken, RestTyped
  <1>10. ASSUME NEW a \in Addrs, NEW r \in Replies, TakeRefused(a, r) PROVE RestTyped'
    <2>1. r.id \in Ids
      BY ReplyType DEF Reply
    <2>2. Tail(asked) \in Seq(Query) /\ Detached(Tail(asked), {r.id}) \in Seq(Query)
      BY <1>10, <2>1, NextFacts, PendingFacts DEF TakeRefused
    <2>3. IsFiniteSet(Held') /\ asked' \in Seq(Query)
      <3>1. CASE slot' = Without(r.id) /\ asked' = Detached(Tail(asked), {r.id})
        BY <2>2, <3>1, WithoutShrinks
      <3>2. CASE slot' = slot /\ asked' = Tail(asked)
        BY <1>0, <2>2, <3>2 DEF RestTyped, Held
      <3> QED BY <1>10, <3>1, <3>2 DEF TakeRefused
    <2>4. known' \in [Addrs -> Ids \union {Nobody}] /\ black' \subseteq Addrs
      BY <1>0, <1>10, <2>1 DEF TakeRefused, RestTyped, Blamed
    <2> QED BY <1>0, <1>10, <2>3, <2>4 DEF TakeRefused, RestTyped
  <1>11. ASSUME NEW a \in Addrs, NEW r \in Replies, TakeAnswer(a, r) PROVE RestTyped'
    <2>1. r \in Reply /\ r.id \in Ids
      BY ReplyType DEF Reply
    <2>2. asked' \in Seq(Query)
      BY <1>11, <2>1, NextFacts, PendingFacts DEF TakeAnswer
    <2>3. count' \in [Networks -> Nat] /\ IsFiniteSet(Held')
      BY <1>0, <1>11, <2>1, AnsweredSlot, InsertFacts DEF TakeAnswer
    <2>4. known' \in [Addrs -> Ids \union {Nobody}]
      BY <1>0, <1>11, <2>1 DEF TakeAnswer, RestTyped
    <2> QED BY <1>0, <1>11, <2>2, <2>3, <2>4 DEF TakeAnswer, RestTyped
  <1>12. CASE TakeCandidate
    <2>1. PICK c \in heard :
            /\ \/ /\ Insert(c.id, Named(c.id, c.addr))
                  /\ asked' = Detached(Readdressed(asked, c.id, c.addr), Displaced(c.id))
               \/ UNCHANGED <<slot, count, asked>>
            /\ black' = black \union Blamed(c.id, c.addr)
      BY <1>12 DEF TakeCandidate
    <2>2. c.id \in Ids /\ c.addr \in Addrs
      BY <1>0 DEF InputsTyped, Candidate
    <2>3. black' \subseteq Addrs
      BY <1>0, <2>1, <2>2 DEF Blamed, RestTyped
    <2>4. count' \in [Networks -> Nat] /\ IsFiniteSet(Held') /\ asked' \in Seq(Query)
      <3>1. CASE /\ Insert(c.id, Named(c.id, c.addr))
                 /\ asked' = Detached(Readdressed(asked, c.id, c.addr), Displaced(c.id))
        <4>1. Named(c.id, c.addr) \in Slot /\ asked \in Seq(Query)
          BY <1>0, <2>2, NamedSlot DEF RestTyped
        <4> QED BY <2>2, <3>1, <4>1, InsertFacts, PendingFacts
      <3>2. CASE UNCHANGED <<slot, count, asked>>
        BY <1>0, <3>2 DEF RestTyped, Held
      <3> QED BY <2>1, <3>1, <3>2
    <2> QED BY <1>0, <1>12, <2>3, <2>4 DEF TakeCandidate, RestTyped
  <1>13. CASE Announce
    <2>1. IsFiniteSet(Held')
      <3>1. PICK ok \in SUBSET {i \in FirstK : slot[i].replied /\ slot[i].token} :
              slot' = [i \in Ids |-> IF i \in ok THEN [slot[i] EXCEPT !.acked = TRUE] ELSE slot[i]]
        BY <1>13 DEF Announce
      <3>2. Held' \in SUBSET Held
        BY <3>1 DEF FirstK, Nearest, Live, Held
      <3> QED BY <1>0, <3>2, FS_Subset DEF RestTyped
    <2> QED BY <1>0, <1>13, <2>1 DEF Announce, RestTyped
  <1>14. CASE Done
    BY <1>0, <1>14 DEF Done, vars, RestTyped, Held
  <1> QED
    BY <1>1, <1>2, <1>3, <1>4, <1>5, <1>6, <1>7, <1>8, <1>9, <1>10, <1>11, <1>12, <1>13, <1>14 DEF Next

\* The candidates, the counts, the answers and the lookup's state have their types
\* throughout: in particular no count of a network is ever taken below zero.
THEOREM SearchTypeCorrect == Spec => []TypeOK
  <1>1. Init => Typed
    BY FilteredInit, RestTypedInit DEF Typed
  <1>2. Typed => TypeOK
    BY DEF Typed, Filtered, RestTyped, SlotsTyped, InputsTyped, FoundPlausible, TypeOK
  <1> QED BY <1>1, <1>2, TypedStep, PTL DEF Spec

-----------------------------------------------------------------------------
(***************************************************************************)
(* Reliable nodes: what is known of node i, which is reliable at address   *)
(* a, throughout a lookup.                                                 *)
(***************************************************************************)
\* Address a is node i's, in the table, and its network's place is i's alone.
SureTable(i, a) ==
    /\ \A j \in Held : slot[j].addr = a <=> j = i
    /\ count[Prefix[a]] = IF i \in Held THEN 1 ELSE 0

\* It is i's in what is still to be inserted ...
SureNames(i, a) ==
    /\ \A c \in heard : c.id = i <=> c.addr = a
    /\ \A k \in 1 .. Len(seeds) : seeds[k].id = i <=> seeds[k].addr = a

\* ... and in the answers Q that are still to be taken.
SureAnswer(i, a, q) ==
    /\ q.addr = a <=> (q.reply # NoReply /\ q.reply.id = i)
    /\ q.addr = a => q.reply \in Answers[a] /\ q.node \in {i, Nobody}
    /\ q.node = i => q.addr = a
SureAnswers(i, a, Q) == \A k \in 1 .. Len(Q) : SureAnswer(i, a, Q[k])

AwaitedAt(Q, a) == \E k \in 1 .. Len(Q) : Q[k].addr = a

\* If i was asked without an answer so far, its answer is among those.
SurePinged(i, a) == i \in Held => slot[i].pinged = 0 \/ AwaitedAt(asked, a)

Sure(i, a) ==
    /\ a \notin black /\ known[a] \in {Nobody, i}
    /\ SureTable(i, a) /\ SureNames(i, a) /\ SureAnswers(i, a, asked) /\ SurePinged(i, a)

\* An answer is node i's exactly if it comes from a.
LEMMA AnswersAreTrue ==
    ASSUME NobodyPosesAsReliable, NEW i \in Ids, NEW a \in Addrs, ReliableAt(i, a),
           NEW b \in Addrs, NEW r \in Answers[b]
    PROVE  b = a <=> (r # NoReply /\ r.id = i)
  BY DEF Reliable, NobodyPosesAsReliable, ReliableAt

\* The possible ids closer than one are finitely many, and none else has a slot.
LEMMA CloserFacts ==
    ASSUME NEW i \in Ids
    PROVE  /\ IsFiniteSet({j \in Ids \ Impossible : j < i})
           /\ Cardinality({j \in Ids \ Impossible : j < i}) \in Nat
  <1>1. {j \in Ids \ Impossible : j < i} \in SUBSET (0 .. i)
    <2>1. \A j \in Ids : j \in Nat
      BY SearchAssumption
    <2>2. \A j \in Ids : j < i => j \in 0 .. i
      BY <2>1
    <2> QED BY <2>2
  <1>2. IsFiniteSet(0 .. i)
    BY SearchAssumption, FS_Interval
  <1> QED BY <1>1, <1>2, FS_Subset, FS_CardinalityType

LEMMA HeldFacts ==
    ASSUME Typed
    PROVE  /\ Held \subseteq Ids \ Impossible /\ Held \subseteq Nat /\ IsFiniteSet(Held)
           /\ \A j \in Held : slot[j] \in Slot /\ slot[j].addr \in Addrs /\ slot[j] # Nobody
  BY SearchAssumption
     DEF Typed, Filtered, RestTyped, SlotsTyped, SlotsPlausible, Plausible, Held, Slot

\* A reliable node is admitted whenever it answers or is named.
LEMMA ReliableAdmitted ==
    ASSUME Typed, RoomForReliable, NEW i \in Ids, NEW a \in Addrs, ReliableAt(i, a),
           SureTable(i, a), a \notin black
    PROVE  Admits(i, a)
  <1>1. Genuine(i, a)
    BY DEF ReliableAt, Genuine
  <1>2. PrefixFree(a)
    <2>1. count[Prefix[a]] \in {0, 1}
      BY DEF SureTable
    <2>2. MaxPerPrefix \in Nat /\ MaxPerPrefix > 1
      BY SearchAssumption DEF RoomForReliable
    <2> QED BY <2>1, <2>2 DEF PrefixFree
  <1>3. HasRoom(i)
    <2> DEFINE C == {j \in Ids \ Impossible : j < i}
               H == {j \in Held : j < i}
    <2>1. H \in SUBSET C
      BY HeldFacts
    <2>2. IsFiniteSet(C) /\ Cardinality(C) \in Nat
      BY CloserFacts
    <2>3. Cardinality(C) < SlotLimit
      BY DEF RoomForReliable, Reliable
    <2>4. SlotLimit \in Nat
      BY SearchAssumption
    <2> HIDE DEF C, H
    <2>5. Cardinality(H) <= Cardinality(C) /\ Cardinality(H) \in Nat
      BY <2>1, <2>2, FS_Subset, FS_CardinalityType
    <2>6. Cardinality(H) < SlotLimit
      BY <2>2, <2>3, <2>4, <2>5
    <2> QED BY <2>6 DEF HasRoom, H
  <1> QED BY <1>1, <1>2, <1>3 DEF Admits

\* It never loses its slot to another node.
LEMMA ReliableKeepsSlot ==
    ASSUME Typed, RoomForReliable, NEW i \in Ids, NEW a \in Addrs, ReliableAt(i, a), i \in Held,
           NEW j \in Ids, NEW b \in Addrs, Admits(j, b)
    PROVE  i \notin Displaced(j)
  <1> SUFFICES ASSUME i \in Displaced(j) PROVE FALSE
    OBVIOUS
  <1>1. j \notin Held /\ Cardinality(Held) = SlotLimit /\ i = Max(Held)
    BY DEF Displaced
  <1>2. /\ Held \subseteq Ids \ Impossible /\ Held \subseteq Nat /\ IsFiniteSet(Held)
        /\ j \in Nat /\ i \in Nat /\ SlotLimit \in Nat /\ j \notin Impossible
    BY HeldFacts, SearchAssumption DEF Admits, Genuine, Plausible
  <1>3. \A k \in Held : k <= i
    <2>1. PICK n \in Held : \A k \in Held : k <= n
      BY <1>2, GreatestOfFinite
    <2> QED BY <1>1, <1>2, <2>1 DEF Max
  <1>4. {k \in Held : k < j} # Held
    BY <1>1, <1>2 DEF Admits, HasRoom
  <1>5. j < i
    <2>1. i # j
      BY <1>1
    <2>2. PICK k \in Held : ~ (k < j)
      BY <1>4
    <2> QED BY <1>2, <1>3, <2>1, <2>2
  <1> DEFINE C == {k \in Ids \ Impossible : k < i}
             D == Held \ {i}
             E == D \union {j}
  <1>6. E \in SUBSET C
    BY <1>2, <1>3, <1>5
  <1>7. IsFiniteSet(C) /\ Cardinality(C) \in Nat /\ Cardinality(C) < SlotLimit
    BY CloserFacts DEF RoomForReliable, Reliable
  <1>8. j \notin D
    BY <1>1
  <1> HIDE DEF C
  <1>9. IsFiniteSet(D) /\ Cardinality(D) = SlotLimit - 1
    BY <1>1, <1>2, FS_RemoveElement DEF D
  <1> HIDE DEF D
  <1>10. IsFiniteSet(E) /\ Cardinality(E) = Cardinality(D) + 1
    BY <1>8, <1>9, FS_AddElement
  <1> HIDE DEF E
  <1>11. Cardinality(E) <= Cardinality(C)
    BY <1>6, <1>7, FS_Subset
  <1> QED BY <1>2, <1>7, <1>9, <1>10, <1>11

\* Inserting an admitted node leaves a reliable one where it is.
LEMMA InsertKeepsSure ==
    ASSUME Typed, RoomForReliable, NEW i \in Ids, NEW a \in Addrs, ReliableAt(i, a), SureTable(i, a),
           NEW j \in Ids, NEW b \in Addrs, j = i <=> b = a,
           NEW s \in Slot, s.addr = b, Admits(j, b), Insert(j, s)
    PROVE  SureTable(i, a)' /\ (i \in Held => i \in Held')
  <1>1. i \in Held => i \notin Displaced(j)
    BY ReliableKeepsSlot
  <1>2. /\ slot'[j] = s /\ j \in Held'
        /\ \A k \in Held \ Displaced(j) : k \in Held' /\ (k # j => slot'[k] = slot[k])
        /\ \A k \in Held' : k = j \/ (k \in Held /\ k \notin Displaced(j) /\ slot'[k] = slot[k])
    BY InsertFacts
  <1>3. i \in Held => i \in Held'
    BY <1>1, <1>2
  <1>4. ASSUME NEW k \in Held' PROVE slot'[k].addr = a <=> k = i
    <2>1. CASE k = j
      BY <1>2, <2>1
    <2>2. CASE k # j
      BY <1>2, <1>4, <2>2 DEF SureTable
    <2> QED BY <2>1, <2>2
  <1>5. Displaced(j) \subseteq Held
    <2>1. SUFFICES ASSUME j \notin Held, Cardinality(Held) = SlotLimit PROVE Max(Held) \in Held
      BY DEF Displaced
    <2>2. Held # {}
      BY <2>1, FS_EmptySet, SearchAssumption
    <2>3. PICK n \in Held : \A k \in Held : k <= n
      BY <2>2, HeldFacts, GreatestOfFinite
    <2> QED BY <2>3 DEF Max
  <1>6. {k \in Displaced(j) : Prefix[slot[k].addr] = Prefix[a]} = {}
    <2>1. ASSUME NEW k \in Displaced(j), Prefix[slot[k].addr] = Prefix[a] PROVE FALSE
      <3>1. k \in Held /\ slot[k].addr \in Addrs
        BY <1>5, HeldFacts
      <3>2. slot[k].addr = a
        BY <2>1, <3>1 DEF ReliableAt
      <3>3. k = i
        BY <3>1, <3>2 DEF SureTable
      <3> QED BY <1>1, <3>1, <3>3
    <2> QED BY <2>1
  <1>7. Prefix[a] \in Networks /\ (Prefix[b] = Prefix[a] <=> j = i)
    BY DEF Networks, ReliableAt
  <1>8. count'[Prefix[a]] = IF j \notin Held /\ j = i THEN count[Prefix[a]] + 1 ELSE count[Prefix[a]]
    <2> DEFINE in == IF j \notin Held /\ Prefix[s.addr] = Prefix[a] THEN 1 ELSE 0
               out == Cardinality({k \in Displaced(j) : Prefix[slot[k].addr] = Prefix[a]})
    <2>1. out = 0
      BY <1>6, FS_EmptySet
    <2>2. count'[Prefix[a]] = IF out <= count[Prefix[a]] + in THEN count[Prefix[a]] + in - out ELSE 0
      BY <1>7 DEF Insert, NewCount
    <2>3. count[Prefix[a]] \in Nat
      BY <1>7 DEF Typed, RestTyped
    <2>4. in = IF j \notin Held /\ j = i THEN 1 ELSE 0
      BY <1>7
    <2> HIDE DEF in, out
    <2> QED BY <2>1, <2>2, <2>3, <2>4
  <1>9. i \in Held' <=> (i \in Held \/ i = j)
    BY <1>2, <1>3
  <1>10. count'[Prefix[a]] = IF i \in Held' THEN 1 ELSE 0
    BY <1>8, <1>9 DEF SureTable
  <1> QED BY <1>3, <1>4, <1>10 DEF SureTable

\* The answers still to be taken stay true of it.
LEMMA PendingKeepsSure ==
    ASSUME NEW Q \in Seq(Query), NEW i \in Ids, NEW a \in Addrs, SureAnswers(i, a, Q),
           NEW j \in Ids, NEW b \in Addrs, j = i <=> b = a, NEW S
    PROVE  LET R == Detached(Readdressed(Q, j, b), S)
               D == Detached(Q, S)
           IN  /\ SureAnswers(i, a, R) /\ (AwaitedAt(Q, a) => AwaitedAt(R, a))
               /\ SureAnswers(i, a, D) /\ (AwaitedAt(Q, a) => AwaitedAt(D, a))
  <1> DEFINE R == Detached(Readdressed(Q, j, b), S)
             D == Detached(Q, S)
  <1>1. /\ Len(R) = Len(Q) /\ Len(D) = Len(Q) /\ Nobody \notin Ids
        /\ \A k \in 1 .. Len(Q) :
              /\ Q[k] \in Query
              /\ R[k].reply = Q[k].reply /\ D[k].reply = Q[k].reply /\ D[k].addr = Q[k].addr
              /\ R[k].addr = (IF j \in Held /\ Q[k].node = j THEN b ELSE Q[k].addr)
              /\ R[k].node = (IF Q[k].node \in S THEN Nobody ELSE Q[k].node)
              /\ D[k].node = (IF Q[k].node \in S THEN Nobody ELSE Q[k].node)
    BY PendingFacts, SearchAssumption
  <1> HIDE DEF R, D
  <1>2. ASSUME NEW k \in 1 .. Len(Q)
        PROVE  R[k].addr = a <=> Q[k].addr = a
    <2>1. CASE Q[k].node = j
      BY <1>1, <2>1 DEF SureAnswers, SureAnswer
    <2>2. CASE Q[k].node # j
      BY <1>1, <2>2
    <2> QED BY <2>1, <2>2
  <1>3. ASSUME NEW k \in 1 .. Len(Q)
        PROVE  SureAnswer(i, a, R[k]) /\ SureAnswer(i, a, D[k])
    BY <1>1, <1>2 DEF SureAnswers, SureAnswer
  <1>4. SureAnswers(i, a, R) /\ SureAnswers(i, a, D)
    BY <1>1, <1>3 DEF SureAnswers
  <1>5. AwaitedAt(Q, a) => AwaitedAt(R, a) /\ AwaitedAt(D, a)
    BY <1>1, <1>2 DEF AwaitedAt
  <1> QED BY <1>4, <1>5 DEF R, D

\* So do those after the next; one from another address leaves its own among them.
LEMMA TailKeepsSure ==
    ASSUME Typed, NEW i, NEW a, SureAnswers(i, a, asked), NEW b, NEW r, NextAnswer(b, r)
    PROVE  /\ SureAnswers(i, a, Tail(asked)) /\ SureAnswer(i, a, asked[1])
           /\ b # a => (AwaitedAt(asked, a) => AwaitedAt(Tail(asked), a))
  <1>1. /\ asked[1].addr = b /\ 1 \in 1 .. Len(asked)
        /\ Len(Tail(asked)) = Len(asked) - 1 /\ Len(asked) \in Nat
        /\ \A k \in 1 .. Len(asked) - 1 : k + 1 \in 1 .. Len(asked) /\ Tail(asked)[k] = asked[k + 1]
        /\ \A k \in 1 .. Len(asked) : k # 1 => k - 1 \in 1 .. Len(asked) - 1 /\ Tail(asked)[k - 1] = asked[k]
    BY NextFacts
  <1>2. SureAnswers(i, a, Tail(asked)) /\ SureAnswer(i, a, asked[1])
    BY <1>1 DEF SureAnswers
  <1>3. ASSUME b # a, AwaitedAt(asked, a) PROVE AwaitedAt(Tail(asked), a)
    <2>1. PICK k \in 1 .. Len(asked) : asked[k].addr = a
      BY <1>3 DEF AwaitedAt
    <2>2. k # 1
      BY <1>1, <1>3, <2>1
    <2> QED BY <1>1, <2>1, <2>2 DEF AwaitedAt
  <1> QED BY <1>2, <1>3

-----------------------------------------------------------------------------
(***************************************************************************)
(* What is known of a reliable node stays so, it keeps its slot, and where *)
(* it is named or awaited it is inserted or still is.                      *)
(***************************************************************************)
Reached(i) == i \in Held \/ \E c \in heard : c.id = i
Coming(i, a) == i \in Held \/ AwaitedAt(asked, a) \/ \E k \in 1 .. Len(seeds) : seeds[k].id = i

Kept(i, a) ==
    /\ Sure(i, a)' /\ (i \in Held => i \in Held')
    /\ Reached(i) => Reached(i)'
    /\ Coming(i, a) => Coming(i, a)'

\* Nobody loses or gets a slot, or changes its address.
LEMMA SameSlots ==
    ASSUME NEW i \in Ids, NEW a \in Addrs, SureTable(i, a), Held' = Held, count' = count,
           \A j \in Held : slot'[j].addr = slot[j].addr
    PROVE  SureTable(i, a)'
  BY DEF SureTable

LEMMA SameSure ==
    ASSUME NEW i \in Ids, NEW a \in Addrs, Sure(i, a),
           UNCHANGED <<slot, count, black, known, seeds, asked, heard>>
    PROVE  Kept(i, a)
  BY DEF Kept, Reached, Coming, Sure, SureTable, SureNames, SureAnswers, SureAnswer, SurePinged,
         AwaitedAt, Held

\* Only an impossible id gets its address blacklisted.
LEMMA ReliableUnblamed ==
    ASSUME NEW i \in Ids, NEW a \in Addrs, ReliableAt(i, a), NEW j, NEW b, b = a => j = i
    PROVE  a \notin Blamed(j, b)
  BY DEF Blamed, ReliableAt, Plausible

\* A node is inserted that was not asked and left unanswered.
LEMMA InsertKeepsPinged ==
    ASSUME Typed, NEW i \in Ids, NEW a \in Addrs, SurePinged(i, a),
           NEW j \in Ids, NEW s \in Slot, Insert(j, s),
           s.pinged = 0 \/ (j \in Held /\ s.pinged = slot[j].pinged),
           AwaitedAt(asked, a) => AwaitedAt(asked', a) \/ (j = i /\ s.pinged = 0)
    PROVE  SurePinged(i, a)'
  <1>1. /\ slot'[j] = s
        /\ \A k \in Held' : k = j \/ (k \in Held /\ k \notin Displaced(j) /\ slot'[k] = slot[k])
    BY InsertFacts
  <1>2. CASE j = i
    BY <1>1, <1>2 DEF SurePinged, AwaitedAt
  <1>3. CASE j # i
    BY <1>1, <1>3 DEF SurePinged, AwaitedAt
  <1> QED BY <1>2, <1>3

LEMMA BootstrapKeepsSure ==
    ASSUME Typed, NobodyPosesAsReliable, NEW i \in Ids, NEW a \in Addrs, ReliableAt(i, a), Sure(i, a),
           asked = <<>>, AskBootstrap
    PROVE  Kept(i, a)
  <1>1. UNCHANGED <<slot, count, black, known, seeds, heard>> /\ Held' = Held
    BY DEF AskBootstrap, Held
  <1>2. ASSUME NEW k \in 1 .. Len(asked') PROVE SureAnswer(i, a, asked'[k])
    <2>1. /\ asked'[k].node = Nobody /\ asked'[k].addr \in Addrs
          /\ asked'[k].reply \in Answers[asked'[k].addr]
      BY <1>2, BootstrapAsks
    <2>2. asked'[k].addr = a <=> (asked'[k].reply # NoReply /\ asked'[k].reply.id = i)
      BY <2>1, AnswersAreTrue
    <2> QED BY <2>1, <2>2, SearchAssumption DEF SureAnswer
  <1>3. SurePinged(i, a)'
    BY <1>1 DEF Sure, SurePinged, AwaitedAt
  <1>4. SureTable(i, a)' /\ SureNames(i, a)'
    BY <1>1 DEF Sure, SureTable, SureNames
  <1>5. (Reached(i) => Reached(i)') /\ (Coming(i, a) => Coming(i, a)')
    BY <1>1 DEF Reached, Coming, AwaitedAt
  <1> QED BY <1>1, <1>2, <1>3, <1>4, <1>5 DEF Kept, Sure, SureAnswers

LEMMA SeedKeepsSure ==
    ASSUME Typed, RoomForReliable, NEW i \in Ids, NEW a \in Addrs, ReliableAt(i, a), Sure(i, a),
           InsertSeed
    PROVE  Kept(i, a)
  <1> DEFINE c == Head(seeds)
             s == Named(c.id, c.addr)
  <1>1. /\ c \in Candidate /\ c = seeds[1] /\ Tail(seeds) \in Seq(Candidate)
        /\ Len(seeds) \in Nat \ {0} /\ Len(Tail(seeds)) = Len(seeds) - 1
        /\ \A k \in 1 .. Len(seeds) - 1 : k + 1 \in 1 .. Len(seeds) /\ Tail(seeds)[k] = seeds[k + 1]
    <2>1. seeds \in Seq(Candidate) /\ seeds # <<>>
      BY DEF InsertSeed, Typed, Filtered, InputsTyped
    <2> QED BY <2>1
  <1>2. c.id \in Ids /\ c.addr \in Addrs /\ (c.id = i <=> c.addr = a)
    BY <1>1 DEF Candidate, Sure, SureNames
  <1>3. s \in Slot /\ s.addr = c.addr /\ (s.pinged = 0 \/ (c.id \in Held /\ s.pinged = slot[c.id].pinged))
    BY <1>2, NamedSlot DEF Typed, Filtered
  <1>4. /\ (Admits(c.id, c.addr) /\ Insert(c.id, s)) \/ (~ Admits(c.id, c.addr) /\ UNCHANGED <<slot, count>>)
        /\ black' = black \union Blamed(c.id, c.addr) /\ seeds' = Tail(seeds)
        /\ UNCHANGED <<known, asked, heard>>
    BY DEF InsertSeed
  <1> HIDE DEF c, s
  <1>5. a \notin black'
    BY <1>2, <1>4, ReliableUnblamed DEF Sure
  <1>6. SureNames(i, a)'
    <2>1. \A k \in 1 .. Len(seeds') : seeds'[k].id = i <=> seeds'[k].addr = a
      BY <1>1, <1>4 DEF Sure, SureNames
    <2> QED BY <1>4, <2>1 DEF Sure, SureNames
  <1>7. SureTable(i, a)' /\ SurePinged(i, a)' /\ (i \in Held => i \in Held')
    <2>1. CASE Admits(c.id, c.addr) /\ Insert(c.id, s)
      BY <1>2, <1>3, <1>4, <2>1, InsertKeepsSure, InsertKeepsPinged DEF Sure
    <2>2. CASE UNCHANGED <<slot, count>>
      BY <1>4, <2>2 DEF Sure, SureTable, SurePinged, AwaitedAt, Held
    <2> QED BY <1>4, <2>1, <2>2
  <1>8. c.id = i => i \in Held'
    <2>1. SUFFICES ASSUME c.id = i PROVE i \in Held'
      OBVIOUS
    <2>2. Admits(c.id, c.addr)
      BY <1>2, <2>1, ReliableAdmitted DEF Sure
    <2>3. Insert(c.id, s)
      BY <1>4, <2>2
    <2> QED BY <1>2, <1>3, <2>1, <2>3, InsertFacts
  <1>9. SureAnswers(i, a, asked')
    BY <1>4 DEF Sure
  <1>10. Reached(i) => Reached(i)'
    BY <1>4, <1>7 DEF Reached
  <1>11. Coming(i, a) => Coming(i, a)'
    <2>1. ASSUME NEW k \in 1 .. Len(seeds), seeds[k].id = i PROVE Coming(i, a)'
      <3>1. CASE k = 1
        BY <1>1, <1>8, <2>1, <3>1 DEF Coming
      <3>2. CASE k # 1
        <4>1. k - 1 \in 1 .. Len(seeds') /\ seeds'[k - 1] = seeds[k]
          BY <1>1, <1>4, <3>2
        <4> QED BY <2>1, <4>1 DEF Coming
      <3> QED BY <3>1, <3>2
    <2>2. AwaitedAt(asked, a) => AwaitedAt(asked', a)
      BY <1>4
    <2> QED BY <1>7, <2>1, <2>2 DEF Coming
  <1> QED BY <1>4, <1>5, <1>6, <1>7, <1>9, <1>10, <1>11 DEF Kept, Sure

LEMMA RoundKeepsSure ==
    ASSUME Typed, NobodyPosesAsReliable, NEW i \in Ids, NEW a \in Addrs, ReliableAt(i, a), Sure(i, a),
           AskRound
    PROVE  Kept(i, a)
  <1>1. UNCHANGED <<count, black, known, seeds, heard>> /\ asked = <<>>
    BY DEF AskRound, RoundOver
  <1>2. /\ Held' = Held
        /\ \A k \in 1 .. Len(asked') :
              /\ asked'[k].node \in Held /\ asked'[k].addr = slot[asked'[k].node].addr
              /\ asked'[k].addr \in Addrs /\ asked'[k].reply \in Answers[asked'[k].addr]
        /\ \A j \in ToQuery : \E k \in 1 .. Len(asked') : asked'[k].node = j
        /\ \A j \in Held : /\ slot'[j].addr = slot[j].addr
                           /\ j \notin ToQuery => slot'[j].pinged = slot[j].pinged
    BY RoundAsks
  <1>3. ASSUME NEW k \in 1 .. Len(asked')
        PROVE  SureAnswer(i, a, asked'[k])
    <2>1. asked'[k].addr = a <=> asked'[k].node = i
      BY <1>2 DEF Sure, SureTable
    <2>2. asked'[k].addr = a <=> (asked'[k].reply # NoReply /\ asked'[k].reply.id = i)
      BY <1>2, AnswersAreTrue
    <2> QED BY <1>2, <2>1, <2>2 DEF SureAnswer
  <1>4. SurePinged(i, a)'
    <2>1. ASSUME i \in Held, i \in ToQuery PROVE AwaitedAt(asked', a)
      BY <1>2, <2>1 DEF AwaitedAt, Sure, SureTable
    <2>2. ASSUME i \in Held, i \notin ToQuery PROVE slot'[i].pinged = 0
      BY <1>1, <1>2, <2>2 DEF Sure, SurePinged, AwaitedAt
    <2> QED BY <1>2, <2>1, <2>2 DEF SurePinged
  <1>5. SureTable(i, a)' /\ SureNames(i, a)'
    BY <1>1, <1>2, SameSlots DEF Sure, SureNames
  <1>6. (Reached(i) => Reached(i)') /\ (Coming(i, a) => Coming(i, a)')
    BY <1>1, <1>2 DEF Reached, Coming, AwaitedAt
  <1> QED BY <1>1, <1>2, <1>3, <1>4, <1>5, <1>6 DEF Kept, Sure, SureAnswers

\* A nap, and the announcement, change neither who is held, nor where, nor how
\* often it was asked.
LEMMA RetimedKeepsSure ==
    ASSUME NEW i \in Ids, NEW a \in Addrs, Sure(i, a), Held' = Held,
           \A j \in Held : slot'[j].addr = slot[j].addr /\ slot'[j].pinged = slot[j].pinged,
           UNCHANGED <<count, black, known, seeds, asked, heard>>
    PROVE  Kept(i, a)
  <1>1. SureTable(i, a)'
    BY SameSlots DEF Sure
  <1>2. SurePinged(i, a)'
    BY DEF Sure, SurePinged, AwaitedAt
  <1>3. SureNames(i, a)' /\ SureAnswers(i, a, asked')
    BY DEF Sure, SureNames
  <1>4. (Reached(i) => Reached(i)') /\ (Coming(i, a) => Coming(i, a)')
    BY DEF Reached, Coming
  <1> QED BY <1>1, <1>2, <1>3, <1>4 DEF Kept, Sure

\* The answers that leave its address and its slot alone: those from elsewhere.
LEMMA TailWithoutKeepsSure ==
    ASSUME Typed, NEW i \in Ids, NEW a \in Addrs, Sure(i, a),
           NEW b, NEW r, NextAnswer(b, r), b # a,
           \/ slot' = slot /\ asked' = Tail(asked)
           \/ \E j \in Ids \ {i} : slot' = Without(j) /\ asked' = Detached(Tail(asked), {j}),
           a \notin black', known'[a] = known[a],
           UNCHANGED <<count, seeds, heard>>
    PROVE  Kept(i, a)
  <1>1. /\ SureAnswers(i, a, Tail(asked)) /\ Tail(asked) \in Seq(Query)
        /\ AwaitedAt(asked, a) => AwaitedAt(Tail(asked), a)
    BY TailKeepsSure, NextFacts DEF Sure
  <1>2. SureNames(i, a)'
    BY DEF Sure, SureNames
  <1>3. CASE slot' = slot /\ asked' = Tail(asked)
    <2>1. SureTable(i, a)' /\ SurePinged(i, a)' /\ Held' = Held
      BY <1>1, <1>3 DEF Sure, SureTable, SurePinged, Held
    <2>2. (Reached(i) => Reached(i)') /\ (Coming(i, a) => Coming(i, a)')
      BY <1>1, <1>3, <2>1 DEF Reached, Coming
    <2> QED BY <1>1, <1>2, <1>3, <2>1, <2>2 DEF Kept, Sure
  <1>4. CASE \E j \in Ids \ {i} : slot' = Without(j) /\ asked' = Detached(Tail(asked), {j})
    <2>1. PICK j \in Ids \ {i} : slot' = Without(j) /\ asked' = Detached(Tail(asked), {j})
      BY <1>4
    <2>2. /\ Held' \subseteq Held /\ \A k \in Held : k # j => k \in Held' /\ slot'[k] = slot[k]
      BY <2>1, WithoutShrinks
    <2>3. j \notin Held'
      BY <2>1 DEF Without, Typed, Filtered, SlotsTyped, Held
    <2>4. SureAnswers(i, a, asked') /\ (AwaitedAt(Tail(asked), a) => AwaitedAt(asked', a))
      <3> DEFINE Q == Tail(asked)
      <3>1. Q \in Seq(Query) /\ SureAnswers(i, a, Q)
        BY <1>1
      <3> HIDE DEF Q
      <3>2. SureAnswers(i, a, Detached(Q, {j})) /\ (AwaitedAt(Q, a) => AwaitedAt(Detached(Q, {j}), a))
        <4>1. i \in Ids /\ a \in Addrs /\ (i = i <=> a = a)
          OBVIOUS
        <4> QED BY <3>1, <4>1, PendingKeepsSure
      <3> QED BY <2>1, <3>2 DEF Q
    <2>5. SureTable(i, a)'
      BY <2>2, <2>3 DEF Sure, SureTable
    <2>6. SurePinged(i, a)' /\ (i \in Held => i \in Held')
      BY <1>1, <2>2, <2>4 DEF Sure, SurePinged
    <2>7. (Reached(i) => Reached(i)') /\ (Coming(i, a) => Coming(i, a)')
      BY <1>1, <2>4, <2>6 DEF Reached, Coming
    <2> QED BY <1>2, <2>4, <2>5, <2>6, <2>7 DEF Kept, Sure
  <1> QED BY <1>3, <1>4

\* A reliable node's answer is taken, unless its turn has not come.
LEMMA TakenFacts ==
    ASSUME Typed, RoomForReliable, NEW i \in Ids, NEW a \in Addrs, ReliableAt(i, a), Sure(i, a),
           NEW b \in Addrs, NEW r, NextAnswer(b, r)
    PROVE  /\ b = a <=> (r # NoReply /\ r.id = i)
           /\ b = a => SameIdentity(b, r) /\ ~ r.broken /\ Admits(r.id, b)
  <1>1. asked[1].addr = b /\ asked[1].reply = r
    BY NextFacts
  <1>2. SureAnswer(i, a, asked[1])
    BY TailKeepsSure DEF Sure
  <1>3. b = a <=> (r # NoReply /\ r.id = i)
    BY <1>1, <1>2 DEF SureAnswer
  <1>4. b = a => r \in Answers[a]
    BY <1>1, <1>2 DEF SureAnswer
  <1>5. b = a => SameIdentity(b, r) /\ ~ r.broken
    BY <1>3, <1>4 DEF ReliableAt, SameIdentity, Sure
  <1>6. Admits(i, a)
    BY ReliableAdmitted DEF Sure
  <1> QED BY <1>3, <1>5, <1>6

LEMMA SilenceKeepsSure ==
    ASSUME Typed, RoomForReliable, NEW i \in Ids, NEW a \in Addrs, ReliableAt(i, a), Sure(i, a),
           NEW b \in Addrs, TakeNothing(b)
    PROVE  Kept(i, a)
  <1>1. NextAnswer(b, NoReply)
    BY DEF TakeNothing
  <1>2. b # a
    BY <1>1, TakenFacts
  <1> QED BY <1>1, <1>2, TailWithoutKeepsSure DEF TakeNothing, Sure

LEMMA RefusalKeepsSure ==
    ASSUME Typed, RoomForReliable, NEW i \in Ids, NEW a \in Addrs, ReliableAt(i, a), Sure(i, a),
           NEW b \in Addrs, NEW r \in Replies,
           TakeSwapped(b, r) \/ TakeBroken(b, r) \/ TakeRefused(b, r)
    PROVE  Kept(i, a)
  <1>0. NoReply \notin Replies /\ r.id \in Ids
    BY ReplyType DEF Replies, Reply
  <1>2. CASE TakeSwapped(b, r)
    <2>1. NextAnswer(b, r) /\ ~ SameIdentity(b, r)
      BY <1>2 DEF TakeSwapped
    <2>2. b # a
      BY <2>1, TakenFacts
    <2> QED BY <1>2, <2>1, <2>2, TailWithoutKeepsSure DEF TakeSwapped, Sure
  <1>3. CASE TakeBroken(b, r)
    <2>1. NextAnswer(b, r) /\ r.broken
      BY <1>3 DEF TakeBroken
    <2>2. b # a /\ r.id # i
      BY <1>0, <2>1, TakenFacts
    <2>3. known'[a] = known[a] /\ a \notin black'
      BY <1>3, <2>2 DEF TakeBroken, Sure, Typed, RestTyped
    <2> QED BY <1>0, <1>3, <2>1, <2>2, <2>3, TailWithoutKeepsSure DEF TakeBroken, Sure
  <1>4. CASE TakeRefused(b, r)
    <2>1. NextAnswer(b, r) /\ ~ Admits(r.id, b)
      BY <1>4 DEF TakeRefused
    <2>2. b # a /\ r.id # i
      BY <1>0, <2>1, TakenFacts
    <2>3. known'[a] = known[a] /\ a \notin black'
      BY <1>4, <2>2, ReliableUnblamed DEF TakeRefused, Sure, Typed, RestTyped
    <2>4. \/ slot' = slot /\ asked' = Tail(asked)
          \/ slot' = Without(r.id) /\ asked' = Detached(Tail(asked), {r.id})
      BY <1>4 DEF TakeRefused
    <2> QED BY <1>0, <1>4, <2>1, <2>2, <2>3, <2>4, TailWithoutKeepsSure DEF TakeRefused
  <1> QED BY <1>2, <1>3, <1>4

LEMMA AnswerKeepsSure ==
    ASSUME Typed, RoomForReliable, NEW i \in Ids, NEW a \in Addrs, ReliableAt(i, a), Sure(i, a),
           NEW b \in Addrs, NEW r \in Replies, TakeAnswer(b, r)
    PROVE  Kept(i, a)
  <1> DEFINE j == r.id
             s == Answered(j, b, r)
             Q == Tail(asked)
  <1>1. NoReply \notin Replies /\ r \in Reply /\ j \in Ids /\ r.names \subseteq Candidate
    BY ReplyType DEF Replies, Reply
  <1>2. NextAnswer(b, r)
    BY DEF TakeAnswer
  <1>3. j = i <=> b = a
    BY <1>1, <1>2, TakenFacts
  <1>4. s \in Slot /\ s.addr = b /\ s.pinged = 0
    BY <1>1, AnsweredSlot DEF Typed, Filtered
  <1>5. /\ Admits(j, b) /\ Insert(j, s) /\ known' = [known EXCEPT ![b] = j]
        /\ heard' = r.names \ {[id |-> j, addr |-> b]}
        /\ asked' = Detached(Readdressed(Q, j, b), Displaced(j))
        /\ UNCHANGED <<black, seeds>>
    BY DEF TakeAnswer
  <1>6. Q \in Seq(Query) /\ SureAnswers(i, a, Q) /\ (b # a => (AwaitedAt(asked, a) => AwaitedAt(Q, a)))
    BY <1>2, NextFacts, TailKeepsSure DEF Sure
  <1> HIDE DEF j, s, Q
  <1>7. SureAnswers(i, a, asked') /\ (AwaitedAt(Q, a) => AwaitedAt(asked', a))
    BY <1>1, <1>3, <1>5, <1>6, PendingKeepsSure
  <1>8. SureTable(i, a)' /\ (i \in Held => i \in Held')
    BY <1>1, <1>3, <1>4, <1>5, InsertKeepsSure DEF Sure
  <1>9. SurePinged(i, a)'
    BY <1>1, <1>3, <1>4, <1>5, <1>6, <1>7, InsertKeepsPinged DEF Sure
  <1>10. SureNames(i, a)'
    <2>1. \A c \in heard' : c.id = i <=> c.addr = a
      BY <1>5 DEF ReliableAt
    <2>2. \A k \in 1 .. Len(seeds') : seeds'[k].id = i <=> seeds'[k].addr = a
      BY <1>5 DEF Sure, SureNames
    <2> QED BY <2>1, <2>2 DEF SureNames
  <1>11. a \notin black' /\ known'[a] \in {Nobody, i}
    BY <1>3, <1>5 DEF Sure, Typed, RestTyped
  <1>12. Reached(i) => Reached(i)'
    <2>1. heard = {}
      BY <1>2 DEF NextAnswer
    <2> QED BY <1>8, <2>1 DEF Reached
  <1>13. Coming(i, a) => Coming(i, a)'
    <2>1. j \in Held'
      BY <1>1, <1>4, <1>5, InsertFacts
    <2>2. AwaitedAt(asked, a) => AwaitedAt(asked', a) \/ i \in Held'
      BY <1>3, <1>6, <1>7, <2>1
    <2> QED BY <1>5, <1>8, <2>2 DEF Coming
  <1> QED BY <1>7, <1>8, <1>9, <1>10, <1>11, <1>12, <1>13 DEF Kept, Sure

LEMMA CandidateKeepsSure ==
    ASSUME Typed, RoomForReliable, NEW i \in Ids, NEW a \in Addrs, ReliableAt(i, a), Sure(i, a),
           TakeCandidate
    PROVE  Kept(i, a)
  <1>1. PICK c \in heard :
          /\ \/ /\ Admits(c.id, c.addr) /\ Insert(c.id, Named(c.id, c.addr))
                /\ asked' = Detached(Readdressed(asked, c.id, c.addr), Displaced(c.id))
             \/ ~ Admits(c.id, c.addr) /\ UNCHANGED <<slot, count, asked>>
          /\ black' = black \union Blamed(c.id, c.addr)
          /\ heard' = heard \ {c}
    BY DEF TakeCandidate
  <1> DEFINE s == Named(c.id, c.addr)
  <1>2. c.id \in Ids /\ c.addr \in Addrs /\ (c.id = i <=> c.addr = a)
    BY DEF Typed, Filtered, InputsTyped, Candidate, Sure, SureNames
  <1>3. s \in Slot /\ s.addr = c.addr /\ (s.pinged = 0 \/ (c.id \in Held /\ s.pinged = slot[c.id].pinged))
    BY <1>2, NamedSlot DEF Typed, Filtered
  <1>4. UNCHANGED <<known, seeds>>
    BY DEF TakeCandidate
  <1>5. a \notin black'
    BY <1>1, <1>2, ReliableUnblamed DEF Sure
  <1>6. SureNames(i, a)'
    BY <1>1, <1>4 DEF Sure, SureNames
  <1> HIDE DEF s
  <1>7. /\ SureTable(i, a)' /\ SurePinged(i, a)' /\ SureAnswers(i, a, asked')
        /\ i \in Held => i \in Held'
        /\ AwaitedAt(asked, a) => AwaitedAt(asked', a)
    <2>1. CASE /\ Admits(c.id, c.addr) /\ Insert(c.id, s)
               /\ asked' = Detached(Readdressed(asked, c.id, c.addr), Displaced(c.id))
      <3>1. asked \in Seq(Query) /\ SureAnswers(i, a, asked)
        BY DEF Typed, RestTyped, Sure
      <3>2. SureAnswers(i, a, asked') /\ (AwaitedAt(asked, a) => AwaitedAt(asked', a))
        BY <1>2, <2>1, <3>1, PendingKeepsSure
      <3>3. SureTable(i, a)' /\ (i \in Held => i \in Held')
        BY <1>2, <1>3, <2>1, InsertKeepsSure DEF Sure
      <3>4. SurePinged(i, a)'
        BY <1>2, <1>3, <2>1, <3>2, InsertKeepsPinged DEF Sure
      <3> QED BY <3>2, <3>3, <3>4
    <2>2. CASE UNCHANGED <<slot, count, asked>>
      BY <2>2 DEF Sure, SureTable, SurePinged, SureAnswers, SureAnswer, AwaitedAt, Held
    <2> QED BY <1>1, <2>1, <2>2 DEF s
  <1>8. ASSUME c.id = i PROVE i \in Held'
    <2>1. Admits(c.id, c.addr)
      BY <1>2, <1>8, ReliableAdmitted DEF Sure
    <2>2. Insert(c.id, s)
      BY <1>1, <2>1 DEF s
    <2> QED BY <1>2, <1>3, <1>8, <2>2, InsertFacts
  <1>9. Reached(i) => Reached(i)'
    BY <1>1, <1>7, <1>8 DEF Reached
  <1>10. Coming(i, a) => Coming(i, a)'
    BY <1>4, <1>7 DEF Coming
  <1> QED BY <1>4, <1>5, <1>6, <1>7, <1>9, <1>10 DEF Kept, Sure

\* Where the loop begins and ends, nothing is left to be taken or inserted.
Ends ==
    /\ pc = "bootstrap" => asked = <<>> /\ heard = {} /\ seeds = Seeds
    /\ pc \in {"announce", "done"} => asked = <<>> /\ heard = {} /\ seeds = <<>>

LEMMA EndsStep == Ends /\ [Next]_vars => Ends'
  <1> SUFFICES ASSUME Ends, [Next]_vars PROVE Ends'
    OBVIOUS
  <1>1. CASE UNCHANGED vars \/ Done
    BY <1>1 DEF Done, vars, Ends
  <1>2. CASE AskBootstrap \/ InsertSeed \/ AskRound \/ Nap \/ StopSearch \/ Announce
    BY <1>2 DEF AskBootstrap, InsertSeed, AskRound, Nap, StopSearch, Announce, RoundOver, Ends
  <1>3. CASE TakeCandidate
    <2>1. heard # {} /\ UNCHANGED <<pc, seeds>>
      BY <1>3 DEF TakeCandidate
    <2> QED BY <2>1 DEF Ends
  <1>4. ASSUME NEW a \in Addrs, NEW r, NextAnswer(a, r), UNCHANGED pc PROVE Ends'
    BY <1>4 DEF NextAnswer, Ends
  <1>5. ASSUME NEW a \in Addrs, TakeNothing(a) PROVE Ends'
    BY <1>4, <1>5 DEF TakeNothing
  <1>6. ASSUME NEW a \in Addrs, NEW r \in Replies,
               TakeSwapped(a, r) \/ TakeBroken(a, r) \/ TakeRefused(a, r) \/ TakeAnswer(a, r)
        PROVE  Ends'
    BY <1>4, <1>6 DEF TakeSwapped, TakeBroken, TakeRefused, TakeAnswer
  <1> QED BY <1>1, <1>2, <1>3, <1>5, <1>6 DEF Next

\* What a nap or the announcement does to the slots.
LEMMA RetimedSlots ==
    ASSUME Typed, Nap \/ Announce
    PROVE  /\ Held' = Held
           /\ \A j \in Held : /\ slot'[j].addr = slot[j].addr /\ slot'[j].pinged = slot[j].pinged
                              /\ slot'[j].replied = slot[j].replied
  <1>1. \A j \in Held : j \in Ids /\ slot[j] \in Slot /\ slot[j] # Nobody
    BY HeldFacts
  <1>2. \A s \in Slot : s # Nobody
    BY NobodyAssumption
  <1>3. CASE Nap
    <2>1. slot' = [i \in Ids |-> IF i \in Held THEN Later(slot[i], 1) ELSE Nobody]
      BY <1>3 DEF Nap
    <2>2. ASSUME NEW s \in Slot
          PROVE  /\ Later(s, 1) \in Slot /\ Later(s, 1).addr = s.addr
                 /\ Later(s, 1).pinged = s.pinged /\ Later(s, 1).replied = s.replied
      BY LaterSlot DEF Later, Slot
    <2>3. Held' = Held
      BY <1>1, <1>2, <2>1, <2>2 DEF Held
    <2> QED BY <1>1, <2>1, <2>2, <2>3
  <1>4. CASE Announce
    <2>1. PICK ok \in SUBSET {i \in FirstK : slot[i].replied /\ slot[i].token} :
            slot' = [i \in Ids |-> IF i \in ok THEN [slot[i] EXCEPT !.acked = TRUE] ELSE slot[i]]
      BY <1>4 DEF Announce
    <2>2. \A i \in ok : i \in Held
      BY <2>1 DEF FirstK, Nearest, Live, Held
    <2>3. ASSUME NEW s \in Slot
          PROVE  LET m == [s EXCEPT !.acked = TRUE]
                 IN  m \in Slot /\ m.addr = s.addr /\ m.pinged = s.pinged /\ m.replied = s.replied
      BY DEF Slot
    <2>4. Held' = Held
      BY <1>1, <1>2, <2>1, <2>2, <2>3 DEF Held
    <2> QED BY <1>1, <2>1, <2>2, <2>3, <2>4
  <1> QED BY <1>3, <1>4

LEMMA SureStep ==
    ASSUME Typed, Ends, NobodyPosesAsReliable, RoomForReliable, [Next]_vars,
           NEW i \in Ids, NEW a \in Addrs, ReliableAt(i, a), Sure(i, a)
    PROVE  Kept(i, a)
  <1>1. CASE UNCHANGED vars \/ Done \/ StopSearch
    <2>1. UNCHANGED <<slot, count, black, known, seeds, asked, heard>>
      BY <1>1 DEF Done, vars, StopSearch
    <2> QED BY <2>1, SameSure
  <1>2. CASE AskBootstrap
    <2>1. asked = <<>>
      BY <1>2 DEF AskBootstrap, Ends
    <2> QED BY <1>2, <2>1, BootstrapKeepsSure
  <1>3. CASE InsertSeed
    BY <1>3, SeedKeepsSure
  <1>4. CASE AskRound
    BY <1>4, RoundKeepsSure
  <1>5. CASE Nap \/ Announce
    <2>1. UNCHANGED <<count, black, known, seeds, asked, heard>>
      BY <1>5 DEF Nap, Announce
    <2> QED BY <1>5, <2>1, RetimedSlots, RetimedKeepsSure
  <1>6. ASSUME NEW b \in Addrs, TakeNothing(b) PROVE Kept(i, a)
    BY <1>6, SilenceKeepsSure
  <1>7. ASSUME NEW b \in Addrs, NEW r \in Replies, TakeSwapped(b, r) \/ TakeBroken(b, r) \/ TakeRefused(b, r)
        PROVE  Kept(i, a)
    BY <1>7, RefusalKeepsSure
  <1>8. ASSUME NEW b \in Addrs, NEW r \in Replies, TakeAnswer(b, r) PROVE Kept(i, a)
    BY <1>8, AnswerKeepsSure
  <1>9. CASE TakeCandidate
    BY <1>9, CandidateKeepsSure
  <1> QED BY <1>1, <1>2, <1>3, <1>4, <1>5, <1>6, <1>7, <1>8, <1>9 DEF Next

-----------------------------------------------------------------------------
(***************************************************************************)
(* The way from the farthest reliable node, g at address e, to a closer    *)
(* one: whoever answered on it has a reliable node after it.               *)
(***************************************************************************)
IsWay(g, e) ==
    /\ ReliableAt(g, e)
    /\ \/ \E j \in 1 .. Len(Bootstrap) : Bootstrap[j] = e
       \/ \E j \in 1 .. Len(Seeds) : Seeds[j].addr = e
    /\ \A i \in Reliable : i <= g
    /\ \A r \in Replies, i \in Reliable :
          ~ r.broken /\ i < r.id /\ r.id <= g
             => \E c \in r.names : c.id \in Reliable /\ i <= c.id /\ c.id < r.id

LeadsOn(g, j) ==
    \A i \in Reliable : i < j /\ j <= g
        => \E c \in Reliable : i <= c /\ c < j /\ Reached(c)
Way(g) == \A j \in Held : slot[j].replied => LeadsOn(g, j)

AllSure == \A i \in Ids, a \in Addrs : ReliableAt(i, a) => Sure(i, a)
AllKept == \A i \in Ids, a \in Addrs : ReliableAt(i, a) => Kept(i, a)

\* What led on still does, so only new answers matter.
LEMMA WayKept ==
    ASSUME NEW g, Way(g), \A c \in Reliable : Reached(c) => Reached(c)',
           \A j \in Held' : slot'[j].replied => (j \in Held /\ slot[j].replied) \/ LeadsOn(g, j)'
    PROVE  Way(g)'
  <1>1. ASSUME NEW j, LeadsOn(g, j) PROVE LeadsOn(g, j)'
    BY <1>1 DEF LeadsOn
  <1> QED BY <1>1 DEF Way

LEMMA WayStep ==
    ASSUME Typed, AllSure, AllKept, [Next]_vars, NEW g, NEW e, IsWay(g, e), Way(g)
    PROVE  Way(g)'
  <1>1. \A c \in Reliable : Reached(c) => Reached(c)'
    BY DEF AllKept, Kept, Reliable
  <1>2. SUFFICES ASSUME NEW j \in Held', slot'[j].replied
                 PROVE  (j \in Held /\ slot[j].replied) \/ LeadsOn(g, j)'
    BY <1>1, WayKept
  <1>3. ASSUME NEW k \in Ids, NEW b \in Addrs, Insert(k, Named(k, b))
        PROVE  j \in Held /\ slot[j].replied
    <2>1. Named(k, b) \in Slot /\ Named(k, b).replied = (IF k \in Held THEN slot[k].replied ELSE FALSE)
      BY NamedSlot DEF Typed, Filtered
    <2>2. slot'[k] = Named(k, b) /\ (j = k \/ (j \in Held /\ slot'[j] = slot[j]))
      BY <1>3, <2>1, InsertFacts
    <2> QED BY <1>2, <2>1, <2>2
  <1>4. ASSUME slot' = slot PROVE j \in Held /\ slot[j].replied
    BY <1>2, <1>4 DEF Held
  <1>5. ASSUME NEW k \in Ids, slot' = Without(k) PROVE j \in Held /\ slot[j].replied
    BY <1>2, <1>5 DEF Without, Typed, Filtered, SlotsTyped, Held
  <1>6. CASE UNCHANGED vars \/ Done \/ StopSearch \/ AskBootstrap
    BY <1>4, <1>6 DEF Done, vars, StopSearch, AskBootstrap
  <1>7. CASE InsertSeed
    <2>1. Head(seeds) \in Candidate
      BY <1>7 DEF InsertSeed, Typed, Filtered, InputsTyped
    <2>2. Head(seeds).id \in Ids /\ Head(seeds).addr \in Addrs
      BY <2>1 DEF Candidate
    <2> QED BY <1>3, <1>4, <1>7, <2>2 DEF InsertSeed
  <1>8. CASE AskRound
    BY <1>2, <1>8, RoundAsks
  <1>9. CASE Nap \/ Announce
    BY <1>2, <1>9, RetimedSlots
  <1>10. ASSUME NEW b \in Addrs, TakeNothing(b) PROVE j \in Held /\ slot[j].replied
    BY <1>4, <1>10 DEF TakeNothing
  <1>11. ASSUME NEW b \in Addrs, NEW r \in Replies, TakeSwapped(b, r) \/ TakeBroken(b, r) \/ TakeRefused(b, r)
         PROVE  j \in Held /\ slot[j].replied
    <2>1. r.id \in Ids
      BY ReplyType DEF Reply
    <2>2. slot' = slot \/ slot' = Without(r.id)
      BY <1>11 DEF TakeSwapped, TakeBroken, TakeRefused
    <2> QED BY <1>4, <1>5, <2>1, <2>2
  <1>12. ASSUME NEW b \in Addrs, NEW r \in Replies, TakeAnswer(b, r)
         PROVE  (j \in Held /\ slot[j].replied) \/ LeadsOn(g, j)'
    <2>1. r \in Reply /\ r.id \in Ids /\ Ids \subseteq Nat
      BY ReplyType, SearchAssumption DEF Reply
    <2>2. /\ Insert(r.id, Answered(r.id, b, r)) /\ ~ r.broken
          /\ heard' = r.names \ {[id |-> r.id, addr |-> b]}
      BY <1>12 DEF TakeAnswer
    <2>3. Answered(r.id, b, r) \in Slot
      BY <2>1, AnsweredSlot DEF Typed, Filtered
    <2>4. j = r.id \/ (j \in Held /\ slot'[j] = slot[j])
      BY <2>1, <2>2, <2>3, InsertFacts
    <2>5. CASE j = r.id
      <3>1. ASSUME NEW i \in Reliable, i < j, j <= g
            PROVE  \E c \in Reliable : i <= c /\ c < j /\ Reached(c)'
        <4>1. PICK c \in r.names : c.id \in Reliable /\ i <= c.id /\ c.id < r.id
          BY <2>2, <2>5, <3>1 DEF IsWay
        <4>2. c.id # r.id
          <5>1. c.id \in Ids
            BY <4>1 DEF Reliable
          <5>2. c.id \in Nat /\ r.id \in Nat
            BY <2>1, <5>1
          <5> QED BY <4>1, <5>2
        <4>3. c \in heard'
          BY <2>2, <4>2
        <4> QED BY <2>5, <4>1, <4>3 DEF Reached
      <3> QED BY <3>1 DEF LeadsOn
    <2>6. CASE j \in Held /\ slot'[j] = slot[j]
      BY <1>2, <2>6
    <2> QED BY <2>4, <2>5, <2>6
  <1>13. CASE TakeCandidate
    <2>1. PICK c \in heard : Insert(c.id, Named(c.id, c.addr)) \/ slot' = slot
      BY <1>13 DEF TakeCandidate
    <2>2. c.id \in Ids /\ c.addr \in Addrs
      BY DEF Typed, Filtered, InputsTyped, Candidate
    <2> QED BY <1>3, <1>4, <2>1, <2>2
  <1> QED
    BY <1>6, <1>7, <1>8, <1>9, <1>10, <1>11, <1>12, <1>13 DEF Next

-----------------------------------------------------------------------------
(***************************************************************************)
(* The first K, and what all this comes to.                                *)
(***************************************************************************)
\* The nearest k of S: closer ones come first, and they are k or all there are.
LEMMA NearestFacts ==
    ASSUME NEW S, S \subseteq Nat, IsFiniteSet(S), NEW k \in Nat
    PROVE  /\ Nearest(S, k) \subseteq S /\ IsFiniteSet(Nearest(S, k))
           /\ \A x \in Nearest(S, k), y \in S : y < x => y \in Nearest(S, k)
           /\ Nearest(S, k) = S \/ Cardinality(Nearest(S, k)) = k
  <1> DEFINE before(x) == {y \in S : y < x}
             N == Nearest(S, k)
  <1>1. ASSUME NEW x \in S PROVE IsFiniteSet(before(x)) /\ Cardinality(before(x)) \in Nat
    <2>1. before(x) \in SUBSET S
      OBVIOUS
    <2> HIDE DEF before
    <2> QED BY <2>1, FS_Subset, FS_CardinalityType
  <1>2. N = {x \in S : Cardinality(before(x)) < k}
    BY DEF Nearest
  <1>3. ASSUME NEW x \in S, NEW y \in S, y < x
        PROVE  before(y) \subseteq before(x)
    <2>1. x \in Nat /\ y \in Nat
      OBVIOUS
    <2>2. ASSUME NEW z \in S, z < y PROVE z < x
      <3>1. z \in Nat
        OBVIOUS
      <3> QED BY <1>3, <2>1, <2>2, <3>1
    <2> QED BY <2>2
  <1>4. \A x \in S, y \in S : y \in before(x) <=> y < x
    OBVIOUS
  <1>5. \A x \in S : before(x) \subseteq S
    OBVIOUS
  <1> HIDE DEF before, N
  <1>6. ASSUME NEW x \in N, NEW y \in S, y < x PROVE y \in N
    <2>1. before(y) \in SUBSET before(x) /\ x \in S
      BY <1>2, <1>3, <1>6
    <2>2. Cardinality(before(y)) <= Cardinality(before(x))
      BY <1>1, <2>1, FS_Subset
    <2>3. Cardinality(before(x)) < k
      BY <1>2
    <2>4. Cardinality(before(y)) \in Nat /\ Cardinality(before(x)) \in Nat
      BY <1>1, <2>1
    <2>5. Cardinality(before(y)) < k
      BY <2>2, <2>3, <2>4
    <2> QED BY <1>2, <2>5
  <1>7. N \in SUBSET S /\ IsFiniteSet(N) /\ Cardinality(N) \in Nat
    <2>1. N \in SUBSET S
      BY <1>2
    <2> QED BY <2>1, FS_Subset, FS_CardinalityType
  <1>8. ASSUME N # S PROVE Cardinality(N) >= k
    <2>1. PICK x \in S \ N : \A y \in S \ N : x <= y
      <3>1. S \ N \subseteq Nat /\ S \ N # {}
        BY <1>7, <1>8
      <3> QED BY <3>1, LeastNatural
    <2>2. \A y \in S : y \in Nat
      OBVIOUS
    <2>3. ASSUME NEW y \in S, y < x PROVE y \in N
      BY <2>1, <2>2, <2>3
    <2>4. before(x) \in SUBSET N
      BY <1>4, <1>5, <2>3
    <2>5. Cardinality(before(x)) <= Cardinality(N)
      BY <1>7, <2>4, FS_Subset
    <2>6. ~ (Cardinality(before(x)) < k) /\ Cardinality(before(x)) \in Nat
      BY <1>1, <1>2
    <2> QED BY <1>7, <2>5, <2>6
  <1>9. Cardinality(N) <= k
    <2>1. CASE N = {}
      BY <2>1, FS_EmptySet
    <2>2. CASE N # {}
      <3>1. PICK x \in N : \A y \in N : y <= x
        <4>1. N \subseteq Nat
          BY <1>7
        <4> QED BY <1>7, <2>2, <4>1, GreatestOfFinite
      <3>2. x \in S /\ Cardinality(before(x)) < k /\ x \notin before(x)
        BY <1>2, <1>4, <1>7
      <3>3. N \in SUBSET (before(x) \union {x})
        <4>1. \A y \in N : y \in Nat /\ x \in Nat
          BY <1>7
        <4>2. ASSUME NEW y \in N, y # x PROVE y < x
          BY <3>1, <4>1, <4>2
        <4> QED BY <1>4, <1>7, <3>2, <4>2
      <3>4. /\ IsFiniteSet(before(x) \union {x})
            /\ Cardinality(before(x) \union {x}) = Cardinality(before(x)) + 1
        BY <1>1, <3>2, FS_AddElement
      <3>5. Cardinality(N) <= Cardinality(before(x) \union {x})
        BY <3>3, <3>4, FS_Subset
      <3> QED BY <1>1, <1>7, <3>2, <3>4, <3>5
    <2> QED BY <2>1, <2>2
  <1>10. N = S \/ Cardinality(N) = k
    BY <1>7, <1>8, <1>9
  <1> QED BY <1>6, <1>7, <1>10 DEF N

\* A lookup that has converged, and may announce, has passed nobody over.
LEMMA WayLeadsToNearest ==
    ASSUME Typed, AllSure, Ends, NEW g \in Ids, NEW e \in Addrs, IsWay(g, e), Way(g), Coming(g, e)
    PROVE  NearestAnnounced
  <1> SUFFICES ASSUME pc = "announce", FirstKReplied, NEW i \in Reliable \ FirstK
               PROVE  Cardinality(FirstK) = K /\ i > Max(FirstK)
    BY DEF NearestAnnounced
  <1>1. asked = <<>> /\ heard = {} /\ seeds = <<>>
    BY DEF Ends
  <1>2. g \in Held
    BY <1>1 DEF Coming, AwaitedAt
  <1>3. /\ Held \subseteq Ids /\ Held \subseteq Nat /\ IsFiniteSet(Held)
        /\ g \in Nat /\ i \in Nat /\ K \in Nat \ {0} /\ g \in Reliable
    BY HeldFacts, SearchAssumption DEF Reliable, IsWay
  <1>4. i <= g
    BY DEF IsWay
  <1>5. ASSUME NEW c \in Reliable, c \in Held PROVE c \in Live
    <2>1. PICK a \in Addrs : ReliableAt(c, a)
      BY DEF Reliable
    <2>2. slot[c].pinged = 0
      <3>1. SurePinged(c, a)
        BY <1>3, <1>5, <2>1 DEF AllSure, Sure
      <3>2. ~ AwaitedAt(asked, a)
        BY <1>1 DEF AwaitedAt
      <3> QED BY <1>5, <3>1, <3>2 DEF SurePinged
    <2>3. 0 < MaxPinged
      BY SearchAssumption
    <2> QED BY <1>5, <2>2, <2>3 DEF Live
  <1>6. Live \in SUBSET Held
    BY DEF Live
  <1>7. /\ FirstK \subseteq Live /\ IsFiniteSet(FirstK) /\ FirstK \subseteq Nat
        /\ \A x \in FirstK, y \in Live : y < x => y \in FirstK
        /\ FirstK = Live \/ Cardinality(FirstK) = K
    <2>1. Live \subseteq Nat /\ IsFiniteSet(Live)
      BY <1>3, <1>6, FS_Subset
    <2>2. /\ Nearest(Live, K) \subseteq Live /\ IsFiniteSet(Nearest(Live, K))
          /\ \A x \in Nearest(Live, K), y \in Live : y < x => y \in Nearest(Live, K)
          /\ Nearest(Live, K) = Live \/ Cardinality(Nearest(Live, K)) = K
      BY <1>3, <2>1, NearestFacts
    <2> QED BY <2>1, <2>2 DEF FirstK
  <1>8. \A j \in FirstK : j < i
    <2> DEFINE T == {j \in FirstK : i < j}
    <2>1. SUFFICES ASSUME T # {} PROVE FALSE
      BY <1>3, <1>7
    <2>2. PICK j \in T : \A x \in T : j <= x
      <3>1. T \subseteq Nat
        BY <1>7
      <3> HIDE DEF T
      <3> QED BY <2>1, <3>1, LeastNatural
    <2>3. j \in FirstK /\ i < j /\ j \in Held /\ j \in Nat
      BY <1>6, <1>7, <2>2
    <2>4. \A x \in Live : x \in Nat /\ (i < x /\ x < j => FALSE)
      <3>1. ASSUME NEW x \in Live, i < x, x < j PROVE FALSE
        <4>1. x \in FirstK /\ x \in Nat
          BY <1>3, <1>6, <1>7, <2>3, <3>1
        <4>2. j <= x
          BY <2>2, <3>1, <4>1
        <4> QED BY <2>3, <3>1, <4>1, <4>2
      <3> QED BY <1>3, <1>6, <3>1
    <2> HIDE DEF T
    <2>5. CASE j <= g
      <3>1. slot[j].replied
        BY <2>3 DEF FirstKReplied
      <3>2. PICK c \in Reliable : i <= c /\ c < j /\ Reached(c)
        BY <2>3, <2>5, <3>1 DEF Way, LeadsOn
      <3>3. c \in Live
        BY <1>1, <1>5, <3>2 DEF Reached
      <3>4. c \in FirstK
        BY <1>7, <2>3, <3>2, <3>3
      <3>5. c # i
        BY <3>4
      <3> QED BY <1>3, <2>4, <3>2, <3>3, <3>5
    <2>6. CASE ~ (j <= g)
      <3>1. g \in Live /\ g < j
        BY <1>2, <1>3, <1>5, <2>3, <2>6
      <3>2. g \in FirstK
        BY <1>7, <2>3, <3>1
      <3>3. g # i
        BY <3>2
      <3> QED BY <1>3, <1>4, <2>4, <3>1, <3>3
    <2> QED BY <2>5, <2>6
  <1>9. FirstK # Live
    <2>1. g \in Live
      BY <1>2, <1>3, <1>5
    <2> QED BY <1>3, <1>4, <1>8, <2>1
  <1>10. Cardinality(FirstK) = K
    BY <1>7, <1>9
  <1>11. FirstK # {}
    BY <1>3, <1>10, FS_EmptySet
  <1>12. PICK x \in FirstK : \A y \in FirstK : y <= x
    BY <1>7, <1>11, GreatestOfFinite
  <1>13. Max(FirstK) \in FirstK
    BY <1>12 DEF Max
  <1>14. Max(FirstK) \in Nat /\ Max(FirstK) < i
    BY <1>7, <1>8, <1>13
  <1> QED BY <1>3, <1>10, <1>14

SureInv(g, e) == Typed /\ Ends /\ AllSure /\ Way(g) /\ (pc = "bootstrap" \/ Coming(g, e))

LEMMA SureInit ==
    ASSUME NobodyPosesAsReliable, Init, NEW g, NEW e
    PROVE  SureInv(g, e)
  <1>1. Held = {} /\ Typed
    BY FilteredInit, RestTypedInit DEF Init, Held, Typed
  <1>2. Ends /\ pc = "bootstrap"
    BY DEF Init, Ends
  <1>3. Way(g)
    BY <1>1 DEF Way
  <1>4. ASSUME NEW i \in Ids, NEW a \in Addrs, ReliableAt(i, a) PROVE Sure(i, a)
    <2>1. \A k \in 1 .. Len(Seeds) : Seeds[k].id = i <=> Seeds[k].addr = a
      BY <1>4 DEF NobodyPosesAsReliable, Reliable
    <2>2. SureNames(i, a)
      BY <2>1 DEF SureNames, Init
    <2>3. Prefix[a] \in Networks
      BY DEF Networks
    <2>4. SureTable(i, a) /\ SurePinged(i, a)
      BY <1>1, <2>3 DEF SureTable, SurePinged, Init
    <2>5. SureAnswers(i, a, asked)
      BY DEF SureAnswers, Init
    <2> QED BY <2>2, <2>4, <2>5 DEF Sure, Init
  <1> QED BY <1>1, <1>2, <1>3, <1>4 DEF SureInv, AllSure

LEMMA SureInvStep ==
    ASSUME NobodyPosesAsReliable, RoomForReliable, NEW g \in Ids, NEW e \in Addrs, IsWay(g, e),
           SureInv(g, e), [Next]_vars
    PROVE  SureInv(g, e)'
  <1>1. Typed /\ Ends /\ AllSure /\ Way(g)
    BY DEF SureInv
  <1>2. Typed' /\ Ends'
    BY <1>1, TypedStep, EndsStep
  <1>3. AllKept
    BY <1>1, SureStep DEF AllKept, AllSure
  <1>4. AllSure'
    BY <1>3 DEF AllKept, AllSure, Kept
  <1>5. Way(g)'
    BY <1>1, <1>3, WayStep
  <1>6. pc' = "bootstrap" \/ Coming(g, e)'
    <2>1. CASE Coming(g, e)
      BY <1>3, <2>1 DEF AllKept, Kept, IsWay
    <2>2. CASE pc = "bootstrap" /\ ~ AskBootstrap
      <3>1. asked = <<>> /\ heard = {}
        BY <1>1, <2>2 DEF Ends
      <3> QED BY <2>2, <3>1
              DEF Next, vars, InsertSeed, AskRound, Nap, StopSearch, RoundOver, TakeNothing, TakeSwapped,
                  TakeBroken, TakeRefused, TakeAnswer, NextAnswer, TakeCandidate, Announce, Done
    <2>3. CASE pc = "bootstrap" /\ AskBootstrap
      <3>1. seeds = Seeds /\ seeds' = seeds
        BY <1>1, <2>3 DEF Ends, AskBootstrap
      <3>2. CASE \E j \in 1 .. Len(Seeds) : Seeds[j].addr = e
        <4>1. PICK j \in 1 .. Len(Seeds) : Seeds[j].addr = e
          BY <3>2
        <4>2. Seeds[j].id = g
          BY <4>1 DEF NobodyPosesAsReliable, IsWay, Reliable
        <4> QED BY <3>1, <4>1, <4>2 DEF Coming
      <3>3. CASE ~ \E j \in 1 .. Len(Seeds) : Seeds[j].addr = e
        <4>1. PICK k \in 1 .. Len(Bootstrap) : Bootstrap[k] = e
          BY <3>3 DEF IsWay
        <4>2. PICK m \in 1 .. Len(asked') : asked'[m].addr = e
          BY <2>3, <3>3, <4>1, BootstrapAsks
        <4> QED BY <4>2 DEF Coming, AwaitedAt
      <3> QED BY <3>2, <3>3
    <2> QED BY <2>1, <2>2, <2>3 DEF SureInv
  <1> QED BY <1>2, <1>4, <1>5, <1>6 DEF SureInv

\* Whoever keeps silent, claims an id too close to be true or answers nonsense, and
\* whatever the order the answers come in: a lookup that converges has passed over
\* no node that is reachable, answers and is where others say it is. What must be
\* true of the others: nobody has its id, there are not a whole table's worth of
\* possible ids closer than it, and the answers on the way lead on to it.
THEOREM LookupFindsNearest ==
    ASSUME NobodyPosesAsReliable, RoomForReliable, WayToReliable
    PROVE  Spec => []NearestAnnounced
  <1>1. PICK g \in Ids, e \in Addrs : IsWay(g, e)
    BY DEF WayToReliable, IsWay, Reliable
  <1>2. Init => SureInv(g, e)
    BY SureInit
  <1>3. SureInv(g, e) /\ [Next]_vars => SureInv(g, e)'
    BY <1>1, SureInvStep
  <1>4. SureInv(g, e) => NearestAnnounced
    <2>1. SUFFICES ASSUME SureInv(g, e) PROVE NearestAnnounced
      OBVIOUS
    <2>2. CASE pc = "bootstrap"
      BY <2>2 DEF NearestAnnounced
    <2>3. CASE Coming(g, e)
      BY <1>1, <2>1, <2>3, WayLeadsToNearest DEF SureInv
    <2> QED BY <2>1, <2>2, <2>3 DEF SureInv
  <1> QED BY <1>2, <1>3, <1>4, PTL DEF Spec
=============================================================================
