---------------------------- MODULE DhtNodeProofs ----------------------------
(***************************************************************************)
(* Four parts of a DHT node that share no state, whatever the number of    *)
(* responders, sources, queriers, ids and changes:                         *)
(*   - fewer liars than the quorum never move the node to an address it    *)
(*     did not have (WanRound);                                            *)
(*   - no more requests are taken up than the rate allows, and only a      *)
(*     source that sent a burst is ignored (Limits);                       *)
(*   - a token is good for a while, and whoever asks is told those who     *)
(*     announced and have not expired (DhtAnswers);                        *)
(*   - the buckets split around our own id only, and a good node keeps its *)
(*     place and its socket (RoutingTable).                                *)
(***************************************************************************)
EXTENDS RoutingTable, DhtAnswers, WanRound, Limits, NaturalLemmas, FiniteSetTheorems, SequenceTheorems

(***************************************************************************)
(* The address.  What liars alone claim has fewer votes than the quorum,   *)
(* and everybody else claims an address that we have when they say so:     *)
(* this outlives changes of the address, because held only grows.          *)
(***************************************************************************)
OnlyLiarsClaimElse == \A c \in Claimed \ held : votes[c] \subseteq Liars

WanInv == WanTypeOK /\ address \in held /\ OnlyLiarsClaimElse /\ LiarsDoNotMoveUs

\* Whoever wins is an address that we had, or nobody.
LEMMA WinnerWasOurs ==
  ASSUME WanInv, NEW c \in Tops
  PROVE  Winner(c) \in held \union {NoIp}
<1>1. c \in Claimed /\ settled \in held \union {NoIp} /\ votes[c] \subseteq Responders
  BY DEF Tops, WanInv, WanTypeOK, LiarsDoNotMoveUs
<1>2. CASE c \in held
  BY <1>1, <1>2 DEF Winner
<1>3. CASE c \notin held
  <2>1. votes[c] \subseteq Liars
    BY <1>1, <1>3 DEF WanInv, OnlyLiarsClaimElse
  <2>2. IsFiniteSet(Liars) /\ Cardinality(Liars) < Quorum /\ Quorum \in Nat
    <3>1. Liars \in SUBSET (Honest \union Liars)
      OBVIOUS
    <3> QED BY <3>1, WanRoundAssumption, FS_Subset
  <2>3. Cardinality(votes[c]) \in Nat /\ Cardinality(Liars) \in Nat /\ Cardinality(votes[c]) <= Cardinality(Liars)
    <3>1. votes[c] \in SUBSET Liars
      BY <2>1
    <3>2. IsFiniteSet(votes[c]) /\ Cardinality(votes[c]) <= Cardinality(Liars)
      BY <2>2, <3>1, FS_Subset
    <3>3. Cardinality(votes[c]) \in Nat /\ Cardinality(Liars) \in Nat
      BY <2>2, <3>2, FS_CardinalityType
    <3> QED BY <3>2, <3>3
  <2>4. Count(c) < Quorum /\ ~ (Count(c) >= Quorum)
    BY <2>2, <2>3 DEF Count
  <2> QED BY <2>4 DEF Winner
<1> QED BY <1>2, <1>3

\* A ballot that is looked at keeps its votes or loses them all, and settles on an
\* address that we had; so is what the node reads from it.
LEMMA BallotIsOurs ==
  ASSUME WanInv, NEW c \in Tops
  PROVE  /\ Ballot(c) \in [votes : {votes, NoVotes}, settled : held \union {NoIp}, old : BOOLEAN]
         /\ Current(c) \in held \union {NoIp}
<1>1. /\ Winner(c) \in held \union {NoIp} /\ settled \in held \union {NoIp}
      /\ old \in BOOLEAN
  BY WinnerWasOurs DEF WanInv, WanTypeOK, LiarsDoNotMoveUs
<1>2. Ballot(c) \in [votes : {votes, NoVotes}, settled : held \union {NoIp}, old : BOOLEAN]
  BY <1>1 DEF Ballot, Rotated, Kept
<1> QED BY <1>1, <1>2 DEF Current

\* What the node may know of its address after it looked at the ballot.
LEMMA LookedAtBallot ==
  ASSUME WanInv, NEW c \in Tops, Becomes(Ballot(c)), UNCHANGED held
  PROVE  /\ votes' \in [Claimed -> SUBSET Responders] /\ settled' \in AnIp /\ old' \in BOOLEAN
         /\ settled' \in held' \union {NoIp} /\ OnlyLiarsClaimElse'
<1>1. Ballot(c) \in [votes : {votes, NoVotes}, settled : held \union {NoIp}, old : BOOLEAN]
  BY BallotIsOurs
<1>2. votes' \in {votes, NoVotes} /\ settled' \in held \union {NoIp} /\ old' \in BOOLEAN
  BY <1>1 DEF Becomes
<1>3. held \subseteq Ips /\ votes \in [Claimed -> SUBSET Responders]
  BY DEF WanInv, WanTypeOK
<1>4. settled' \in AnIp /\ votes' \in [Claimed -> SUBSET Responders]
  BY <1>2, <1>3 DEF AnIp, Claimed, NoVotes
<1>5. OnlyLiarsClaimElse'
  BY <1>2 DEF WanInv, OnlyLiarsClaimElse, NoVotes
<1> QED BY <1>2, <1>4, <1>5

\* A vote for an address that we do not have is a liar's.
LEMMA VoteIsCounted ==
  ASSUME WanInv, NEW r \in Responders, Record(r), UNCHANGED held
  PROVE  /\ votes' \in [Claimed -> SUBSET Responders] /\ settled' \in AnIp /\ old' \in BOOLEAN
         /\ settled' \in held' \union {NoIp} /\ OnlyLiarsClaimElse'
<1>1. PICK c \in Tops, claim \in ClaimsOf(r) :
         Becomes([Ballot(c) EXCEPT !.votes[claim] = @ \union {r}])
  BY DEF Record
<1>2. PICK b \in [votes : {votes, NoVotes}, settled : held \union {NoIp}, old : BOOLEAN] : b = Ballot(c)
  BY BallotIsOurs
<1>3. held \subseteq Ips /\ votes \in [Claimed -> SUBSET Responders] /\ address \in held
  BY DEF WanInv, WanTypeOK
<1>4. claim \in Claimed /\ (claim \notin held => r \in Liars)
  BY <1>3 DEF ClaimsOf, Claimed
<1>5. /\ votes' = [b.votes EXCEPT ![claim] = b.votes[claim] \union {r}]
      /\ settled' = b.settled /\ old' = b.old
  BY <1>1, <1>2 DEF Becomes
<1>6. /\ b.votes \in [Claimed -> SUBSET Responders] /\ settled' \in held \union {NoIp} /\ old' \in BOOLEAN
      /\ \A d \in Claimed \ held : b.votes[d] \subseteq Liars
  BY <1>2, <1>3, <1>5 DEF NoVotes, WanInv, OnlyLiarsClaimElse
<1>7. votes' \in [Claimed -> SUBSET Responders]
  BY <1>4, <1>5, <1>6
<1>8. OnlyLiarsClaimElse'
  BY <1>4, <1>5, <1>6 DEF OnlyLiarsClaimElse
<1> QED BY <1>3, <1>6, <1>7, <1>8 DEF AnIp, Claimed

LEMMA WanStepKeepsInv ==
  ASSUME WanInv, WanNext
  PROVE  WanInv'
<1> USE DEF WanInv, WanTypeOK, LiarsDoNotMoveUs
<1>1. CASE Top
  <2>1. PICK c \in Tops : Becomes(Ballot(c)) /\ adopted' = AdoptedFor(Current(c))
    BY <1>1 DEF Top
  <2>2. adopted' \in held \union {NoIp} /\ adopted' \in AnIp
    BY <2>1, BallotIsOurs DEF AdoptedFor, AnIp, Claimed
  <2>3. port' \in APort /\ readOnly' \in BOOLEAN /\ announcing' \in BOOLEAN
    BY <1>1 DEF Top, Renewed
  <2> QED BY <1>1, <2>1, <2>2, <2>3, LookedAtBallot DEF Top
<1>2. CASE \E r \in Responders : Vote(r)
  BY <1>2, VoteIsCounted DEF Vote, OnlyLiarsClaimElse
<1>3. CASE BootstrapAdopts
  <2>1. PICK c \in Tops : Becomes(Ballot(c)) /\ adopted' = AdoptedFor(Current(c))
    BY <1>3 DEF BootstrapAdopts
  <2>2. adopted' \in held \union {NoIp} /\ adopted' \in AnIp
    BY <2>1, BallotIsOurs DEF AdoptedFor, AnIp, Claimed
  <2> QED BY <1>3, <2>1, <2>2, LookedAtBallot DEF BootstrapAdopts
<1>4. CASE Readback
  <2>1. PICK c \in Tops : Becomes(Ballot(c))
    BY <1>4 DEF Readback
  <2>2. readback' \in {"unknown", "found", "lost"}
    BY <1>4 DEF Readback
  <2> QED BY <1>4, <2>1, <2>2, LookedAtBallot DEF Readback
<1>5. CASE Announce
  <2>1. <<address, port>> \in AnIp \X APort
    BY DEF AnIp, Claimed
  <2> QED BY <1>5, <2>1 DEF Announce, OnlyLiarsClaimElse
<1>6. CASE RoundAges \/ \E what \in {"mapping", "announce"} : FallsDue(what)
  BY <1>6 DEF RoundAges, FallsDue, OnlyLiarsClaimElse
<1>7. CASE NotAnnounced \/ Wake \/ \E r \in Responders : Silence(r)
  BY <1>7 DEF NotAnnounced, Wake, Silence, OnlyLiarsClaimElse
<1>8. CASE Change
  BY <1>8, WanRoundAssumption DEF Change, OnlyLiarsClaimElse
<1> QED BY <1>1, <1>2, <1>3, <1>4, <1>5, <1>6, <1>7, <1>8 DEF WanNext, RoundStep

\* As long as fewer than the quorum lie about our address, the IpVoter never settles on
\* an address that we never had, and the node never adopts an id for one, whatever the
\* order of answers, rounds, rotations and changes of the address.
THEOREM LiarsNeverMoveUs == WanSpec => []LiarsDoNotMoveUs
<1>1. WanInit => WanInv
  <2>1. 0 \in 0 .. MaxChanges
    BY WanRoundAssumption
  <2>2. NoVotes \in [Claimed -> SUBSET Responders] /\ \A c \in Claimed : NoVotes[c] = {}
    BY DEF NoVotes
  <2>3. NoIp \in AnIp /\ NoPort \in APort /\ <<NoIp, NoPort>> \in AnIp \X APort
    BY DEF AnIp, APort
  <2> QED BY <2>1, <2>2, <2>3 DEF WanInit, WanInv, WanTypeOK, OnlyLiarsClaimElse, LiarsDoNotMoveUs
<1>2. WanInv /\ [WanNext]_wanVars => WanInv'
  <2>1. CASE UNCHANGED wanVars
    BY <2>1 DEF WanInv, WanTypeOK, wanVars, OnlyLiarsClaimElse, LiarsDoNotMoveUs
  <2> QED BY <2>1, WanStepKeepsInv
<1>3. WanInv => LiarsDoNotMoveUs
  BY DEF WanInv
<1> QED BY <1>1, <1>2, <1>3, PTL DEF WanSpec

-----------------------------------------------------------------------------
(***************************************************************************)
(* The limits.  What was taken up and what the bucket still holds are paid *)
(* for by what it held at first and by the time until it was last checked. *)
(***************************************************************************)
PaidFor == (taken + tokens) * PerToken <= Capacity * PerToken + last

\* Of a source in the table, as many of the last requests as it counts came since
\* its window began.
CountedInWindow ==
    \A s \in Sources : /\ seen[s].count <= Len(sent[s])
                       /\ \A n \in 1 .. seen[s].count : sent[s][n] >= seen[s].start

\* A block lasts no longer than the memory of the burst it is for.
BlockedForBurst == \A s \in Sources : seen[s].until <= burst[s] /\ burst[s] <= now + Block

LimitsInv == LimitsTypeOK /\ PaidFor /\ CountedInWindow /\ BlockedForBurst

\* The tokens of an empty bucket are worth no more than the time since it was checked.
LEMMA RefillIsPaid ==
  ASSUME LimitsTypeOK, tokens = 0
  PROVE  Refilled \in 0 .. Capacity /\ Refilled * PerToken <= now - last
<1>1. now \in Nat /\ last \in Nat /\ last <= now /\ PerToken \in Nat \ {0} /\ Capacity \in Nat \ {0}
  BY LimitsAssumption DEF LimitsTypeOK
<1>2. PICK d \in Nat : d = now - last
  BY <1>1
<1>3. d \div PerToken \in Nat /\ (d \div PerToken) * PerToken <= d
  BY <1>1, SMT
<1>4. PICK r \in Nat : r = d \div PerToken
  BY <1>3
<1>5. Refilled = IF Capacity < r THEN Capacity ELSE r
  BY <1>2, <1>4 DEF Refilled, Least
<1>6. Refilled \in 0 .. Capacity /\ Refilled <= r
  BY <1>1, <1>5
<1>7. Refilled * PerToken <= r * PerToken
  BY <1>1, <1>6, SMT
<1>8. r * PerToken <= d
  BY <1>3, <1>4
<1>9. Refilled * PerToken \in Nat /\ r * PerToken \in Nat
  BY <1>1, <1>6, SMT
<1> QED BY <1>2, <1>6, <1>7, <1>8, <1>9

LEMMA RequestIsPaid ==
  ASSUME LimitsTypeOK, PaidFor, NEW s \in Sources, Request(s)
  PROVE  tokens' \in 0 .. Capacity /\ last' \in 0 .. now /\ taken' \in Nat /\ PaidFor'
<1>1. /\ now \in Nat /\ last \in 0 .. now /\ PerToken \in Nat \ {0} /\ Capacity \in Nat \ {0}
      /\ tokens \in 0 .. Capacity /\ taken \in Nat
  BY LimitsAssumption DEF LimitsTypeOK
<1>2. CASE tokens > 0
  <2>1. tokens' = tokens - 1 /\ last' = last /\ taken' = taken + 1
    BY <1>1, <1>2 DEF Request, Refilled, Checked
  <2> QED BY <1>1, <1>2, <2>1 DEF PaidFor
<1>3. CASE tokens = 0
  <2>1. PICK r \in 0 .. Capacity : r = Refilled /\ r * PerToken <= now - last
    BY <1>3, RefillIsPaid
  <2>2. last' = now /\ tokens' \in 0 .. Capacity /\ taken' \in Nat /\ taken' + tokens' = taken + r
    BY <1>1, <1>3, <2>1 DEF Request, Checked
  <2>3. taken * PerToken <= Capacity * PerToken + last
    BY <1>1, <1>3 DEF PaidFor
  <2>4. (taken + r) * PerToken = taken * PerToken + r * PerToken
    BY <1>1, <2>1, SMT
  <2>5. taken * PerToken \in Nat /\ r * PerToken \in Nat /\ Capacity * PerToken \in Nat
    BY <1>1, <2>1, SMT
  <2>6. (taken + r) * PerToken <= Capacity * PerToken + now
    BY <1>1, <2>1, <2>3, <2>4, <2>5
  <2>7. now \in 0 .. now
    BY <1>1
  <2> QED BY <2>2, <2>6, <2>7 DEF PaidFor
<1> QED BY <1>1, <1>2, <1>3

SourceEntry == [count : 0 .. Burst, start : 0 .. now, until : 0 .. MaxNow + Block]

\* What a request makes of the entry of its source: it stays, it begins a window, or
\* one more is counted, and with the last of a burst the source is blocked.
LEMMA EntryAfterRequest ==
  ASSUME LimitsTypeOK, NEW s \in Sources, Allow(s)
  PROVE  /\ seen' \in [Sources -> SourceEntry]
         /\ \A t \in Sources \ {s} : seen'[t] \in {seen[t], NoEntry}
         /\ \/ seen'[s] = seen[s]
            \/ /\ seen'[s].count = 1 /\ seen'[s].start = now /\ seen'[s].until \in {0, seen[s].until}
            \/ /\ seen'[s].count = Least(Burst, seen[s].count + 1) /\ seen'[s].start = seen[s].start
               /\ now - seen[s].start <= Window
               /\ \/ seen'[s].until = seen[s].until
                  \/ seen'[s].until = now + Block /\ seen[s].count + 1 >= Burst
<1>1. /\ Burst \in Nat \ {0} /\ Block \in Nat /\ MaxNow \in Nat /\ now \in 0 .. MaxNow
      /\ seen \in [Sources -> SourceEntry]
  BY LimitsAssumption DEF LimitsTypeOK, SourceEntry
<1>2. NoEntry \in SourceEntry /\ Begun \in SourceEntry /\ Begun.count = 1 /\ Begun.start = now /\ Begun.until = 0
  BY <1>1 DEF NoEntry, Begun, SourceEntry
<1>3. Evicted \in [Sources -> SourceEntry] /\ \A t \in Sources : Evicted[t] \in {seen[t], NoEntry}
  BY <1>1, <1>2 DEF Evicted
<1>4. PICK e \in SourceEntry : e = seen[s]
  BY <1>1
<1>5. CASE e = NoEntry
  <2>1. PICK base \in [Sources -> SourceEntry] :
           /\ \A t \in Sources : base[t] \in {seen[t], NoEntry}
           /\ seen' = [base EXCEPT ![s] = Begun]
    BY <1>1, <1>3, <1>4, <1>5 DEF Allow
  <2> QED BY <1>2, <2>1
<1>6. CASE e # NoEntry /\ now < e.until
  BY <1>1, <1>4, <1>6 DEF Allow, SourceEntry
<1>7. CASE e # NoEntry /\ now >= e.until /\ Over(e)
  <2>1. PICK n : n = [Begun EXCEPT !.until = e.until]
    OBVIOUS
  <2>2. n \in SourceEntry /\ n.count = 1 /\ n.start = now /\ n.until = e.until
    BY <1>2, <2>1 DEF SourceEntry, Begun
  <2>3. seen' = [seen EXCEPT ![s] = n]
    BY <1>4, <1>7, <2>1, <1>1 DEF Allow, SourceEntry
  <2> QED BY <1>1, <1>4, <2>2, <2>3
<1>8. CASE e # NoEntry /\ now >= e.until /\ ~ Over(e)
  <2>1. PICK n : n = Counted(e)
    OBVIOUS
  <2>2. /\ n \in SourceEntry /\ n.count = Least(Burst, e.count + 1) /\ n.start = e.start
        /\ n.until = IF e.count + 1 >= Burst THEN now + Block ELSE e.until
    <3> DEFINE c == IF e.count < Burst THEN e.count + 1 ELSE e.count
               u == IF e.count + 1 >= Burst THEN now + Block ELSE e.until
    <3>1. c \in 0 .. Burst /\ c = Least(Burst, e.count + 1) /\ u \in 0 .. MaxNow + Block
      BY <1>1 DEF SourceEntry, Least
    <3>2. n = [e EXCEPT !.count = c, !.until = u]
      BY <2>1 DEF Counted
    <3> HIDE DEF c
    <3>3. n.until = u
      BY <3>2 DEF SourceEntry
    <3> HIDE DEF u
    <3>4. n \in SourceEntry /\ n.count = c /\ n.start = e.start
      BY <3>1, <3>2 DEF SourceEntry
    <3> QED BY <3>1, <3>3, <3>4 DEF u
  <2>3. seen' = [seen EXCEPT ![s] = n]
    BY <1>4, <1>8, <2>1, <1>1 DEF Allow, SourceEntry
  <2>4. now - e.start <= Window
    BY <1>1, <1>8, LimitsAssumption DEF Over, SourceEntry
  <2> QED BY <1>1, <1>4, <2>2, <2>3, <2>4
<1> QED BY <1>1, <1>4, <1>5, <1>6, <1>7, <1>8 DEF SourceEntry

\* The table takes a new source only after it made room for it.
LEMMA TrackedAfterRequest ==
  ASSUME LimitsTypeOK, NEW s \in Sources, Allow(s)
  PROVE  Cardinality(Tracked') <= TrackLimit
<1> DEFINE Others(f) == {t \in Sources : f[t] # NoEntry} \ {s}
<1>1. IsFiniteSet(Sources) /\ TrackLimit \in Nat \ {0}
  BY LimitsAssumption
<1>2. ASSUME NEW T \in SUBSET Sources PROVE IsFiniteSet(T) /\ Cardinality(T) \in Nat
  <2>1. IsFiniteSet(T)
    BY <1>1, FS_Subset
  <2> QED BY <2>1, FS_CardinalityType
<1>3. ASSUME NEW T \in SUBSET Sources, Cardinality(T) < TrackLimit, Tracked' \subseteq T \union {s}
      PROVE  Cardinality(Tracked') <= TrackLimit
  <2>1. Cardinality(T \union {s}) <= TrackLimit /\ Cardinality(T \union {s}) \in Nat
    <3>1. Cardinality(T \union {s}) = IF s \in T THEN Cardinality(T) ELSE Cardinality(T) + 1
      BY <1>2, FS_AddElement
    <3> QED BY <1>1, <1>2, <1>3, <3>1
  <2>2. T \union {s} \in SUBSET Sources /\ Tracked' \in SUBSET (T \union {s})
    BY <1>3
  <2>3. Cardinality(Tracked') <= Cardinality(T \union {s})
    BY <1>2, <2>2, FS_Subset
  <2>4. Tracked' \in SUBSET Sources
    BY <2>2
  <2> QED BY <1>1, <1>2, <2>1, <2>3, <2>4
<1>4. CASE seen[s] # NoEntry
  <2>1. \A t \in Sources : seen'[t] # NoEntry => seen[t] # NoEntry
    BY <1>4, EntryAfterRequest
  <2>2. Tracked' \in SUBSET Tracked /\ Tracked \in SUBSET Sources /\ Tracked' \in SUBSET Sources
    BY <2>1 DEF Tracked
  <2>3. Cardinality(Tracked') <= Cardinality(Tracked)
    BY <1>2, <2>2, FS_Subset
  <2>4. Cardinality(Tracked) <= TrackLimit
    BY DEF LimitsTypeOK
  <2>5. Cardinality(Tracked) \in Nat /\ Cardinality(Tracked') \in Nat
    BY <1>2, <2>2
  <2> QED BY <1>1, <2>3, <2>4, <2>5
<1>5. CASE seen[s] = NoEntry
  <2> DEFINE idle == {t \in Sources : now >= seen[t].until /\ now - seen[t].start > Window}
  <2>0. seen' = [IF Cardinality(Tracked) >= TrackLimit THEN Evicted ELSE seen EXCEPT ![s] = Begun]
    BY <1>5 DEF Allow
  <2>1. CASE ~ (Cardinality(Tracked) >= TrackLimit)
    <3>1. Tracked' \subseteq Tracked \union {s} /\ Tracked \in SUBSET Sources
      BY <2>0, <2>1 DEF Tracked, LimitsTypeOK
    <3> QED BY <1>1, <1>2, <1>3, <2>1, <3>1
  <2>2. CASE Cardinality(Tracked) >= TrackLimit /\ Cardinality(Tracked \ idle) >= TrackLimit
    <3>1. Evicted = [t \in Sources |-> NoEntry]
      BY <2>2 DEF Evicted
    <3>2. Tracked' \subseteq {} \union {s}
      BY <2>0, <2>2, <3>1 DEF Tracked
    <3>3. Cardinality({}) < TrackLimit
      BY <1>1, FS_EmptySet
    <3> QED BY <1>3, <3>2, <3>3
  <2>3. CASE Cardinality(Tracked) >= TrackLimit /\ ~ (Cardinality(Tracked \ idle) >= TrackLimit)
    <3>1. Evicted = [t \in Sources |-> IF t \in idle THEN NoEntry ELSE seen[t]]
      BY <2>3 DEF Evicted
    <3>2. Tracked' \subseteq (Tracked \ idle) \union {s} /\ Tracked \ idle \in SUBSET Sources
      <4> HIDE DEF idle
      <4> QED BY <2>0, <2>3, <3>1 DEF Tracked
    <3> HIDE DEF idle
    <3> QED BY <1>1, <1>2, <1>3, <2>3, <3>2
  <2> QED BY <2>1, <2>2, <2>3
<1> QED BY <1>4, <1>5

\* The memory of requests takes the new one in front and drops the oldest when it is full.
LEMMA LastRequests ==
  ASSUME LimitsTypeOK, NEW q \in Seq(0 .. now)
  PROVE  LET new == SubSeq(<<now>> \o q, 1, Least(Burst, Len(q) + 1))
         IN  /\ new \in Seq(0 .. now) /\ Len(new) = Least(Burst, Len(q) + 1)
             /\ new[1] = now /\ \A n \in 2 .. Len(new) : new[n] = q[n - 1]
<1>1. Burst \in Nat \ {0} /\ now \in Nat /\ now \in 0 .. now
  BY LimitsAssumption DEF LimitsTypeOK
<1>2. PICK m \in 1 .. Len(q) + 1 : m = Least(Burst, Len(q) + 1)
  BY <1>1 DEF Least
<1>3. PICK w : w = <<now>> \o q
  OBVIOUS
<1>4. /\ w \in Seq(0 .. now) /\ Len(w) = Len(q) + 1
      /\ \A n \in 1 .. Len(q) + 1 : w[n] = IF n <= 1 THEN now ELSE q[n - 1]
  <2>1. <<now>> \in Seq(0 .. now) /\ Len(<<now>>) = 1 /\ <<now>>[1] = now
    BY <1>1
  <2> QED BY <1>3, <2>1, ConcatProperties
<1>5. \A n \in 1 .. m : w[n] \in 0 .. now
  <2>1. \A n \in 1 .. Len(w) : w[n] \in 0 .. now
    BY <1>4, ElementOfSeq
  <2> QED BY <1>2, <1>4, <2>1
<1>6. /\ SubSeq(w, 1, m) \in Seq(0 .. now) /\ Len(SubSeq(w, 1, m)) = m
      /\ \A n \in 1 .. m : SubSeq(w, 1, m)[n] = w[n]
  BY <1>2, <1>5, SubSeqProperties
<1>7. Len(q) \in Nat /\ m \in Nat /\ 1 <= m /\ m <= Len(q) + 1
  BY <1>2
<1>8. w[1] = now /\ \A n \in 2 .. m : w[n] = q[n - 1]
  BY <1>4, <1>7
<1>9. SubSeq(w, 1, m)[1] = now /\ \A n \in 2 .. m : SubSeq(w, 1, m)[n] = q[n - 1]
  BY <1>6, <1>7, <1>8
<1>10. SubSeq(<<now>> \o q, 1, Least(Burst, Len(q) + 1)) = SubSeq(w, 1, m)
  BY <1>2, <1>3
<1> QED BY <1>2, <1>6, <1>9, <1>10

LEMMA RequestIsCounted ==
  ASSUME LimitsInv, NEW s \in Sources, Request(s)
  PROVE  /\ seen' \in [Sources -> SourceEntry]
         /\ sent' \in [Sources -> Seq(0 .. now)] /\ burst' \in [Sources -> 0 .. MaxNow + Block]
         /\ CountedInWindow' /\ BlockedForBurst'
<1>1. /\ Burst \in Nat \ {0} /\ Block \in Nat \ {0} /\ MaxNow \in Nat \ {0} /\ Window \in Nat \ {0}
      /\ now \in 0 .. MaxNow /\ seen \in [Sources -> SourceEntry]
      /\ sent \in [Sources -> Seq(0 .. now)] /\ burst \in [Sources -> 0 .. MaxNow + Block]
  BY LimitsAssumption DEF LimitsInv, LimitsTypeOK, SourceEntry
<1>2. PICK e \in SourceEntry : e = seen[s]
  BY <1>1
<1>3. PICK q \in Seq(0 .. now) : q = sent[s]
  BY <1>1
<1>4. PICK new \in Seq(0 .. now) :
         /\ sent' = [sent EXCEPT ![s] = new] /\ Len(new) = Least(Burst, Len(q) + 1)
         /\ new[1] = now /\ \A n \in 2 .. Len(new) : new[n] = q[n - 1]
  <2>1. LimitsTypeOK
    BY DEF LimitsInv
  <2> QED BY <1>3, <2>1, LastRequests DEF Request
<1>5. PICK b \in 0 .. MaxNow + Block :
         /\ burst' = [burst EXCEPT ![s] = b]
         /\ b = IF Len(new) = Burst /\ now - new[Burst] <= Window THEN now + Block ELSE burst[s]
  <2>1. sent'[s] = new
    BY <1>1, <1>4
  <2>2. now + Block \in 0 .. MaxNow + Block
    BY <1>1
  <2> QED BY <1>1, <2>1, <2>2 DEF Request
<1>6. burst[s] <= b /\ b <= now + Block
  BY <1>1, <1>5 DEF LimitsInv, BlockedForBurst
<1>7. \/ UNCHANGED seen
      \/ Allow(s)
  BY DEF Request
<1>8. /\ seen' \in [Sources -> SourceEntry]
      /\ \A t \in Sources \ {s} : seen'[t] \in {seen[t], NoEntry}
  BY <1>1, <1>7, EntryAfterRequest DEF LimitsInv
<1>9. PICK n \in SourceEntry : n = seen'[s]
  BY <1>8
<1>10. \/ n = e
       \/ n.count = 1 /\ n.start = now /\ n.until \in {0, e.until}
       \/ /\ n.count = Least(Burst, e.count + 1) /\ n.start = e.start /\ now - e.start <= Window
          /\ \/ n.until = e.until
             \/ n.until = now + Block /\ e.count + 1 >= Burst
  BY <1>2, <1>7, <1>9, EntryAfterRequest DEF LimitsInv
<1>e. /\ e.count \in 0 .. Burst /\ e.start \in 0 .. now /\ e.until \in Nat
      /\ n.count \in 0 .. Burst /\ n.start \in 0 .. now /\ n.until \in Nat /\ now \in Nat
      /\ Len(q) \in Nat /\ Len(new) \in Nat /\ burst[s] \in Nat /\ b \in Nat
      /\ \A k \in 1 .. Len(new) : new[k] \in 0 .. now
  <2>1. Block \in Nat /\ MaxNow \in Nat
    BY <1>1
  <2>2. e.until \in Nat /\ n.until \in Nat /\ now \in Nat /\ b \in Nat
    BY <1>1, <2>1 DEF SourceEntry
  <2>3. burst[s] \in Nat
    BY <1>1, <2>1
  <2>4. /\ e.count \in 0 .. Burst /\ e.start \in 0 .. now
        /\ n.count \in 0 .. Burst /\ n.start \in 0 .. now
    BY DEF SourceEntry
  <2>5. Len(q) \in Nat /\ Len(new) \in Nat /\ \A k \in 1 .. Len(new) : new[k] \in 0 .. now
    BY LenProperties, ElementOfSeq
  <2> QED BY <2>2, <2>3, <2>4, <2>5
<1>11. e.count <= Len(q) /\ e.until <= burst[s] /\ \A k \in 1 .. e.count : q[k] >= e.start
  BY <1>2, <1>3 DEF LimitsInv, CountedInWindow, BlockedForBurst
<1>12. n.count <= Len(new) /\ \A k \in 1 .. n.count : new[k] >= n.start
  <2>1. n.count <= Len(new) /\ n.count <= e.count + 1
    <3>1. Len(new) = IF Burst < Len(q) + 1 THEN Burst ELSE Len(q) + 1
      BY <1>4 DEF Least
    <3>2. n.count = e.count \/ n.count = 1 \/ n.count = (IF Burst < e.count + 1 THEN Burst ELSE e.count + 1)
      BY <1>10 DEF Least
    <3>3. /\ n.count \in Nat /\ e.count \in Nat /\ Burst \in Nat /\ n.count <= Burst
          /\ Len(q) \in Nat /\ Len(new) \in Nat /\ e.count <= Len(q) /\ Burst >= 1
      BY <1>1, <1>e, <1>11
    <3> QED BY <3>1, <3>2, <3>3
  <2>2. n.start = e.start \/ (n.count = 1 /\ n.start = now)
    BY <1>10
  <2>3. ASSUME NEW k \in 1 .. n.count PROVE new[k] >= n.start
    <3>1. CASE k = 1
      BY <1>4, <1>e, <3>1
    <3>2. CASE k # 1
      <4>1. /\ k \in Nat /\ 2 <= k /\ k <= n.count /\ n.count \in Nat
            /\ e.count \in Nat /\ Len(new) \in Nat
        BY <1>e, <3>2
      <4>2. k \in 2 .. Len(new) /\ k - 1 \in 1 .. e.count
        BY <2>1, <4>1
      <4>3. n.start = e.start
        BY <2>2, <4>1
      <4> QED BY <1>4, <1>11, <4>2, <4>3
    <3> QED BY <3>1, <3>2
  <2> QED BY <2>1, <2>3
<1>13. n.until <= b
  <2>1. CASE n.until \in {0, e.until}
    BY <1>6, <1>11, <1>e, <2>1
  <2>2. CASE n.until # e.until /\ n.until # 0
    <3>1. n.start = e.start /\ now - e.start <= Window /\ n.until = now + Block /\ e.count + 1 >= Burst
      BY <1>10, <2>2
    <3>2. n.count = Least(Burst, e.count + 1)
      BY <1>10, <2>2
    <3>3. n.count = Burst
      BY <1>1, <1>e, <3>1, <3>2 DEF Least
    <3>4. Len(new) <= Burst
      BY <1>1, <1>4, <1>e DEF Least
    <3>5. Len(new) = Burst /\ new[Burst] >= e.start /\ new[Burst] \in 0 .. now
      BY <1>1, <1>12, <1>e, <3>1, <3>3, <3>4
    <3>6. b = now + Block
      BY <1>1, <1>5, <1>e, <3>1, <3>5
    <3> QED BY <1>e, <3>1, <3>6
  <2> QED BY <2>1, <2>2
<1>14. CountedInWindow'
  <2> SUFFICES ASSUME NEW t \in Sources
               PROVE  /\ seen'[t].count <= Len(sent'[t])
                      /\ \A k \in 1 .. seen'[t].count : sent'[t][k] >= seen'[t].start
    BY DEF CountedInWindow
  <2>1. CASE t = s
    BY <1>1, <1>4, <1>9, <1>12, <2>1
  <2>2. CASE t # s /\ seen'[t] = seen[t]
    BY <1>1, <1>4, <2>2 DEF LimitsInv, CountedInWindow
  <2>3. CASE t # s /\ seen'[t] = NoEntry
    <3>1. sent'[t] \in Seq(0 .. now)
      BY <1>1, <1>4, <2>3
    <3> QED BY <2>3, <3>1 DEF NoEntry
  <2> QED BY <1>8, <2>1, <2>2, <2>3
<1>15. BlockedForBurst'
  <2> SUFFICES ASSUME NEW t \in Sources PROVE seen'[t].until <= burst'[t] /\ burst'[t] <= now + Block
    BY DEF BlockedForBurst, Request
  <2>1. CASE t = s
    BY <1>1, <1>5, <1>6, <1>9, <1>13, <2>1
  <2>2. CASE t # s
    <3>1. burst'[t] = burst[t] /\ burst[t] \in Nat /\ burst[t] <= now + Block /\ seen[t].until <= burst[t]
      BY <1>1, <1>5, <2>2 DEF LimitsInv, BlockedForBurst
    <3>2. seen'[t].until \in {seen[t].until, 0}
      BY <1>8, <2>2 DEF NoEntry
    <3> QED BY <3>1, <3>2
  <2> QED BY <2>1, <2>2
<1>16. sent' \in [Sources -> Seq(0 .. now)] /\ burst' \in [Sources -> 0 .. MaxNow + Block]
  BY <1>1, <1>4, <1>5
<1> QED BY <1>8, <1>14, <1>15, <1>16

LEMMA LimitsStepKeepsInv ==
  ASSUME LimitsInv, LimitsNext
  PROVE  LimitsInv'
<1>1. ASSUME NEW s \in Sources, Request(s) PROVE LimitsInv'
  <2>1. UNCHANGED now
    BY <1>1 DEF Request
  <2>2. Cardinality(Tracked') <= TrackLimit
    <3>1. CASE Allow(s)
      BY <3>1, TrackedAfterRequest DEF LimitsInv
    <3>2. CASE UNCHANGED seen
      BY <3>2 DEF Tracked, LimitsInv, LimitsTypeOK
    <3> QED BY <1>1, <3>1, <3>2 DEF Request
  <2>3. /\ tokens' \in 0 .. Capacity /\ last' \in 0 .. now /\ taken' \in Nat /\ PaidFor'
    BY <1>1, RequestIsPaid DEF LimitsInv
  <2> QED BY <1>1, <2>1, <2>2, <2>3, RequestIsCounted DEF LimitsInv, LimitsTypeOK, SourceEntry
<1>2. CASE Passes
  <2>1. now \in 0 .. MaxNow /\ now < MaxNow /\ MaxNow \in Nat /\ Block \in Nat /\ now' = now + 1
    BY <1>2, LimitsAssumption DEF Passes, LimitsInv, LimitsTypeOK
  <2>2. 0 .. now \subseteq 0 .. now' /\ now' \in 0 .. MaxNow
    BY <2>1
  <2>3. LimitsTypeOK'
    <3>1. sent \in [Sources -> Seq(0 .. now')]
      <4>1. ASSUME NEW q \in Seq(0 .. now) PROVE q \in Seq(0 .. now')
        BY <2>2, SeqMonotonic
      <4> QED BY <4>1 DEF LimitsInv, LimitsTypeOK
    <3>2. seen \in [Sources -> [count : 0 .. Burst, start : 0 .. now', until : 0 .. MaxNow + Block]]
      BY <2>2 DEF LimitsInv, LimitsTypeOK
    <3> QED BY <1>2, <2>2, <3>1, <3>2 DEF LimitsInv, LimitsTypeOK, Passes, Tracked
  <2>4. BlockedForBurst'
    <3>1. burst \in [Sources -> 0 .. MaxNow + Block]
      BY DEF LimitsInv, LimitsTypeOK
    <3> QED BY <1>2, <2>1, <3>1 DEF LimitsInv, BlockedForBurst, Passes
  <2> QED BY <1>2, <2>3, <2>4 DEF LimitsInv, PaidFor, CountedInWindow, Passes
<1> QED BY <1>1, <1>2 DEF LimitsNext

LEMMA LimitsHoldsInv == LimitsSpec => []LimitsInv
<1>1. LimitsInit => LimitsInv
  <2> SUFFICES ASSUME LimitsInit PROVE LimitsInv
    OBVIOUS
  <2>1. /\ {Capacity, PerToken, Burst, Window, Block, TrackLimit, MaxNow} \subseteq Nat \ {0}
        /\ 0 \in 0 .. 0 /\ << >> \in Seq(0 .. 0)
    BY LimitsAssumption
  <2>2. /\ NoEntry \in [count : 0 .. Burst, start : 0 .. 0, until : 0 .. MaxNow + Block]
        /\ 0 \in 0 .. MaxNow /\ Capacity \in 0 .. Capacity /\ 0 \in 0 .. MaxNow + Block
    BY <2>1 DEF NoEntry
  <2>3. Cardinality(Tracked) <= TrackLimit
    <3>1. Tracked = {}
      BY DEF Tracked, LimitsInit
    <3> QED BY <2>1, <3>1, FS_EmptySet
  <2>4. LimitsTypeOK
    BY <2>1, <2>2, <2>3 DEF LimitsInit, LimitsTypeOK
  <2>5. PaidFor
    BY <2>1 DEF LimitsInit, PaidFor
  <2>6. CountedInWindow
    BY <2>1 DEF LimitsInit, CountedInWindow, NoEntry
  <2>7. BlockedForBurst
    BY <2>1 DEF LimitsInit, BlockedForBurst, NoEntry
  <2> QED BY <2>4, <2>5, <2>6, <2>7 DEF LimitsInv
<1>2. LimitsInv /\ [LimitsNext]_limitVars => LimitsInv'
  <2>1. CASE UNCHANGED limitVars
    BY <2>1 DEF LimitsInv, LimitsTypeOK, limitVars, Tracked, PaidFor, CountedInWindow, BlockedForBurst
  <2> QED BY <2>1, LimitsStepKeepsInv
<1> QED BY <1>1, <1>2, PTL DEF LimitsSpec

\* Whatever requests come in, and whenever the TokenBucket is found empty, the node takes
\* up no more than the bucket held at first and the time since the start accrued.
THEOREM RateIsKept == LimitsSpec => []AtMostRate
<1>1. LimitsInv => AtMostRate
  <2> SUFFICES ASSUME LimitsInv PROVE AtMostRate
    OBVIOUS
  <2>1. /\ taken \in Nat /\ tokens \in Nat /\ PerToken \in Nat /\ Capacity \in Nat /\ last \in Nat
        /\ now \in Nat /\ last <= now
    BY LimitsAssumption DEF LimitsInv, LimitsTypeOK
  <2>2. (taken + tokens) * PerToken = taken * PerToken + tokens * PerToken
    BY <2>1, SMT
  <2>3. tokens * PerToken \in Nat /\ taken * PerToken \in Nat /\ Capacity * PerToken \in Nat
    BY <2>1, SMT
  <2> QED BY <2>1, <2>2, <2>3 DEF LimitsInv, PaidFor, AtMostRate
<1> QED BY <1>1, LimitsHoldsInv, PTL

\* The SourceLimiter ignores only a source that sent a burst within one window, and only
\* while the block for that burst lasts; and its table never outgrows its limit, whatever
\* is evicted from it.
THEOREM QuietIsNeverBlocked == LimitsSpec => [](QuietIsHeard /\ Cardinality(Tracked) <= TrackLimit)
<1>1. LimitsInv => QuietIsHeard /\ Cardinality(Tracked) <= TrackLimit
  <2> SUFFICES ASSUME LimitsInv, NEW s \in Sources, now < seen[s].until PROVE now < burst[s]
    BY DEF LimitsInv, LimitsTypeOK, QuietIsHeard
  <2>1. now \in Nat /\ seen[s].until \in Nat /\ burst[s] \in Nat /\ seen[s].until <= burst[s]
    BY DEF LimitsInv, LimitsTypeOK, BlockedForBurst
  <2> QED BY <2>1
<1> QED BY <1>1, LimitsHoldsInv, PTL

-----------------------------------------------------------------------------
(***************************************************************************)
(* Tokens.  One that was made with the secret before is at least as old as *)
(* that secret is out of use, and the next rotation is no nearer than what *)
(* then lacks it to the shortest time between two.  Nothing rotates while  *)
(* nobody asks: a token may be any age and still be of the current secret. *)
(***************************************************************************)
TokenInv ==
    /\ untilRotation \in 0 .. MaxRotate
    /\ token \in [Queriers -> TokenState \union {NoToken}]
    /\ \A q \in Queriers :
          token[q] # NoToken =>
             /\ token[q].rotations = 1 => token[q].age + untilRotation >= MinRotate
             /\ token[q].rotations = 2 => token[q].age >= MinRotate

\* What a query that may find the secrets due to be rotated makes of the tokens.
LEMMA RotationKeepsAges ==
  ASSUME TokenInv, untilRotation' \in NextDue
  PROVE  /\ untilRotation' \in 0 .. MaxRotate
         /\ Rotation \in [Queriers -> TokenState \union {NoToken}]
         /\ \A q \in Queriers :
               Rotation[q] # NoToken =>
                  /\ Rotation[q].rotations = 1 => Rotation[q].age + untilRotation' >= MinRotate
                  /\ Rotation[q].rotations = 2 => Rotation[q].age >= MinRotate
<1>1. /\ MinRotate \in Nat \ {0} /\ MaxRotate \in Nat \ {0} /\ MinRotate <= MaxRotate
      /\ untilRotation \in 0 .. MaxRotate /\ untilRotation' \in 0 .. MaxRotate
      /\ untilRotation = 0 => untilRotation' >= MinRotate
      /\ untilRotation # 0 => untilRotation' = untilRotation
  BY DhtAnswersAssumption DEF TokenInv, NextDue, Rotates
<1>2. ASSUME NEW tk \in TokenState, tk # NoToken
      PROVE  /\ Turned(tk) \in TokenState /\ Turned(tk).age = tk.age
             /\ Turned(tk).rotations = IF tk.rotations < 2 THEN tk.rotations + 1 ELSE 2
  BY <1>2 DEF Turned, TokenState
<1>3. CASE Rotates
  <2>1. Rotation = [q \in Queriers |-> Turned(token[q])]
    BY <1>3 DEF Rotation
  <2>2. ASSUME NEW q \in Queriers, token[q] = NoToken PROVE Rotation[q] = NoToken
    BY <2>1, <2>2 DEF Turned
  <2>3. ASSUME NEW q \in Queriers, token[q] # NoToken
        PROVE  /\ Rotation[q] \in TokenState
               /\ Rotation[q].rotations = 1 => Rotation[q].age + untilRotation' >= MinRotate
               /\ Rotation[q].rotations = 2 => Rotation[q].age >= MinRotate
    <3>1. PICK tk \in TokenState : tk = token[q]
      BY <2>3 DEF TokenInv
    <3>2. PICK n \in TokenState : n = Rotation[q] /\ n.age = tk.age
                                  /\ n.rotations = IF tk.rotations < 2 THEN tk.rotations + 1 ELSE 2
      BY <1>2, <2>1, <2>3, <3>1
    <3>3. /\ tk.rotations = 1 => tk.age + untilRotation >= MinRotate
          /\ tk.rotations = 2 => tk.age >= MinRotate
      BY <2>3, <3>1 DEF TokenInv
    <3>4. tk.rotations \in 0 .. 2 /\ tk.age \in Nat
      BY <1>1 DEF TokenState
    <3>5. untilRotation = 0 /\ untilRotation' >= MinRotate
      BY <1>1, <1>3 DEF Rotates
    <3> QED BY <1>1, <3>2, <3>3, <3>4, <3>5
  <2> QED BY <1>1, <2>1, <2>2, <2>3
<1>4. CASE ~ Rotates
  BY <1>1, <1>4 DEF TokenInv, Rotation, Rotates
<1> QED BY <1>3, <1>4

LEMMA AnswersStepKeepsInv ==
  ASSUME TokenInv, AnswersNext
  PROVE  TokenInv'
<1>1. ASSUME NEW q \in Queriers, GetPeers(q) PROVE TokenInv'
  <2>1. [rotations |-> 0, age |-> 0] \in TokenState
    BY DhtAnswersAssumption DEF TokenState
  <2>2. PICK n \in TokenState : n.rotations = 0 /\ token' = [Rotation EXCEPT ![q] = n]
    BY <1>1, <2>1 DEF GetPeers
  <2>3. untilRotation' \in NextDue
    BY <1>1 DEF GetPeers
  <2> QED BY <2>2, <2>3, RotationKeepsAges DEF TokenInv
<1>2. ASSUME NEW q \in Queriers, AnnouncePeer(q) PROVE TokenInv'
  BY <1>2, RotationKeepsAges DEF AnnouncePeer, TokenInv
<1>3. CASE Tick
  <2>1. /\ MinRotate \in Nat \ {0} /\ MaxRotate \in Nat \ {0} /\ untilRotation \in 0 .. MaxRotate
        /\ untilRotation' = IF untilRotation = 0 THEN 0 ELSE untilRotation - 1
    BY <1>3, DhtAnswersAssumption DEF Tick, TokenInv
  <2>2. ASSUME NEW q \in Queriers, token[q] # NoToken
        PROVE  /\ token'[q] \in TokenState
               /\ token'[q].rotations = 1 => token'[q].age + untilRotation' >= MinRotate
               /\ token'[q].rotations = 2 => token'[q].age >= MinRotate
    <3>1. PICK tk \in TokenState : tk = token[q]
      BY <2>2 DEF TokenInv
    <3>2. tk.rotations \in 0 .. 2 /\ tk.age \in 0 .. MinRotate + 1
      BY DEF TokenState
    <3>3. PICK a \in 0 .. MinRotate + 1 : a = Older(tk.age, MinRotate) /\ a >= tk.age /\ (tk.age <= MinRotate => a = tk.age + 1)
      BY <2>1, <3>2 DEF Older
    <3>4. token'[q] = [tk EXCEPT !.age = a]
      BY <1>3, <2>2, <3>1, <3>3 DEF Tick
    <3>5. token'[q] \in TokenState /\ token'[q].rotations = tk.rotations /\ token'[q].age = a
      BY <3>3, <3>4 DEF TokenState
    <3>6. /\ tk.rotations = 1 => tk.age + untilRotation >= MinRotate
          /\ tk.rotations = 2 => tk.age >= MinRotate
      BY <2>2, <3>1 DEF TokenInv
    <3> QED BY <2>1, <3>2, <3>3, <3>5, <3>6
  <2>3. token' = [q \in Queriers |-> token'[q]] /\ \A q \in Queriers : token[q] = NoToken => token'[q] = NoToken
    BY <1>3 DEF Tick
  <2>4. untilRotation' \in 0 .. MaxRotate
    BY <2>1
  <2> QED BY <2>2, <2>3, <2>4 DEF TokenInv
<1> QED BY <1>1, <1>2, <1>3 DEF AnswersNext

\* A token that the node gave is good for an announcement for at least the shortest time
\* between two rotations, whenever the queries come that the rotations wait for.
THEOREM TokensAreGoodForAWhile == AnswersSpec => []TokenGrace
<1>1. AnswersInit => TokenInv
  BY DhtAnswersAssumption DEF AnswersInit, TokenInv
<1>2. TokenInv /\ [AnswersNext]_answerVars => TokenInv'
  <2>1. CASE UNCHANGED answerVars
    BY <2>1 DEF TokenInv, answerVars
  <2> QED BY <2>1, AnswersStepKeepsInv
<1>3. TokenInv => TokenGrace
  <2> SUFFICES ASSUME TokenInv, NEW q \in Queriers, token[q] # NoToken, token[q].age < MinRotate
               PROVE  Valid(Rotation[q])
    BY DEF TokenGrace
  <2>1. PICK tk \in TokenState : tk = token[q]
    BY DEF TokenInv
  <2>2. /\ tk.rotations \in 0 .. 2 /\ tk.age \in Nat /\ MinRotate \in Nat /\ tk.age < MinRotate
        /\ tk.rotations = 1 => tk.age + untilRotation >= MinRotate
        /\ tk.rotations = 2 => tk.age >= MinRotate
    BY <2>1, DhtAnswersAssumption DEF TokenInv, TokenState
  <2>3. CASE Rotates
    <3>1. tk.rotations = 0
      BY <2>2, <2>3 DEF Rotates
    <3>2. Rotation[q] = [tk EXCEPT !.rotations = 1]
      BY <2>1, <2>3, <3>1 DEF Rotation, Turned
    <3>3. Rotation[q].rotations = 1
      BY <3>2 DEF TokenState
    <3>4. Rotation[q] # NoToken
      BY <3>2, DhtAnswersAssumption DEF TokenState
    <3> QED BY <3>3, <3>4 DEF Valid
  <2>4. CASE ~ Rotates
    <3>1. Rotation[q] = tk /\ tk # NoToken
      BY <2>1, <2>4 DEF Rotation
    <3> QED BY <2>2, <3>1 DEF Valid
  <2> QED BY <2>3, <2>4
<1> QED BY <1>1, <1>2, <1>3, PTL DEF AnswersSpec

-----------------------------------------------------------------------------
(***************************************************************************)
(* The peers of the topic.  Each is stored once, with the age of its last  *)
(* accepted announcement; what is not stored any more has expired.         *)
(***************************************************************************)
StoreInv ==
    /\ store \in Seq(Announcement)
    /\ announced \in [Queriers -> 0 .. PeerExpiry + 1]
    /\ \A m, n \in 1 .. Len(store) : store[m].peer = store[n].peer => m = n
    /\ \A n \in 1 .. Len(store) : store[n].age = announced[store[n].peer]
    /\ \A q \in Queriers : announced[q] <= PeerExpiry => \E n \in 1 .. Len(store) : store[n].peer = q

\* Unexpired is defined by recursion on the announcements, whose function has to be
\* shown to exist.
KeptUpto(most, kept) ==
    kept = [n \in 0 .. most |->
               IF n = 0 THEN << >>
               ELSE IF Fresh(store[n]) THEN Append(kept[n - 1], store[n]) ELSE kept[n - 1]]

LEMMA KeptExists ==
  ASSUME NEW most \in Nat
  PROVE  \E kept : KeptUpto(most, kept)
<1> DEFINE None == {m \in 0 .. most : ~ \E kept : KeptUpto(m, kept)}
<1>1. SUFFICES ASSUME None # {} PROVE FALSE
  OBVIOUS
<1>2. PICK m \in None : \A n \in None : m <= n
  <2>1. None \subseteq Nat
    OBVIOUS
  <2> HIDE DEF None
  <2> QED BY <1>1, <2>1, LeastNatural
<1>3. m \in 0 .. most /\ ~ \E kept : KeptUpto(m, kept)
  OBVIOUS
<1>4. CASE m = 0
  <2> DEFINE f == [n \in 0 .. 0 |-> << >>]
  <2>1. KeptUpto(0, f)
    BY DEF KeptUpto
  <2> QED BY <1>3, <1>4, <2>1
<1>5. CASE m # 0
  <2>1. m - 1 \in 0 .. most /\ ~ (m <= m - 1)
    BY <1>3, <1>5
  <2>2. m - 1 \notin None
    <3> HIDE DEF None
    <3> QED BY <1>2, <2>1
  <2>3. PICK g : KeptUpto(m - 1, g)
    BY <2>1, <2>2
  <2> DEFINE Next(x) == IF Fresh(store[m]) THEN Append(x, store[m]) ELSE x
             f == [n \in 0 .. m |-> IF n = m THEN Next(g[m - 1]) ELSE g[n]]
  <2>4. \A n \in 0 .. m - 1 : f[n] = g[n]
    BY <1>3
  <2>5. ASSUME NEW n \in 0 .. m
        PROVE  f[n] = IF n = 0 THEN << >>
                      ELSE IF Fresh(store[n]) THEN Append(f[n - 1], store[n]) ELSE f[n - 1]
    <3>1. CASE n = m
      <4>1. f[n] = Next(g[m - 1]) /\ f[n - 1] = g[m - 1]
        BY <1>3, <1>5, <2>4, <3>1
      <4> HIDE DEF f
      <4> QED BY <1>5, <3>1, <4>1
    <3>2. CASE n # m
      <4>1. n \in 0 .. m - 1 /\ (n # 0 => n - 1 \in 0 .. m - 1)
        BY <1>3, <3>2
      <4>2. g[n] = IF n = 0 THEN << >>
                   ELSE IF Fresh(store[n]) THEN Append(g[n - 1], store[n]) ELSE g[n - 1]
        BY <2>3, <4>1 DEF KeptUpto
      <4> HIDE DEF f
      <4> QED BY <2>4, <4>1, <4>2
    <3> QED BY <3>1, <3>2
  <2>6. KeptUpto(m, f)
    <3>1. f = [n \in 0 .. m |-> f[n]]
      OBVIOUS
    <3> HIDE DEF f
    <3> QED BY <2>5, <3>1 DEF KeptUpto
  <2> QED BY <1>3, <2>6
<1> QED BY <1>4, <1>5

\* The announcements that are kept are those of the store that are fresh, each once.
KeptOf(k, kept) ==
    /\ kept \in Seq(Announcement)
    /\ \A n \in 1 .. Len(kept) : \E m \in 1 .. k : kept[n] = store[m] /\ Fresh(store[m])
    /\ \A m \in 1 .. k : Fresh(store[m]) => \E n \in 1 .. Len(kept) : kept[n] = store[m]
    /\ \A m, n \in 1 .. Len(kept) : kept[m].peer = kept[n].peer => m = n

LEMMA KeptOneMore ==
  ASSUME StoreInv, NEW k \in 1 .. Len(store), NEW kept, KeptOf(k - 1, kept)
  PROVE  KeptOf(k, IF Fresh(store[k]) THEN Append(kept, store[k]) ELSE kept)
<1>1. /\ store[k] \in Announcement /\ kept \in Seq(Announcement) /\ Len(kept) \in Nat
      /\ k \in Nat /\ 1 <= k /\ k \in 1 .. k /\ 1 .. k - 1 \subseteq 1 .. k
  BY ElementOfSeq DEF StoreInv, KeptOf
<1>2. CASE ~ Fresh(store[k])
  <2>1. ASSUME NEW m \in 1 .. k, Fresh(store[m]) PROVE m \in 1 .. k - 1
    BY <1>1, <1>2, <2>1
  <2> QED BY <1>1, <1>2, <2>1 DEF KeptOf
<1>3. CASE Fresh(store[k])
  <2>1. PICK new : new = Append(kept, store[k])
    OBVIOUS
  <2>2. /\ new \in Seq(Announcement) /\ Len(new) = Len(kept) + 1
        /\ \A n \in 1 .. Len(kept) : new[n] = kept[n]
        /\ new[Len(kept) + 1] = store[k]
    BY <1>1, <2>1
  <2>3. ASSUME NEW n \in 1 .. Len(new) PROVE n = Len(kept) + 1 \/ n \in 1 .. Len(kept)
    BY <1>1, <2>2
  <2>4. ASSUME NEW n \in 1 .. Len(new)
        PROVE  \E m \in 1 .. k : new[n] = store[m] /\ Fresh(store[m])
    <3>1. CASE n = Len(kept) + 1
      BY <1>1, <1>3, <2>2, <3>1
    <3>2. CASE n \in 1 .. Len(kept)
      <4>1. PICK m \in 1 .. k - 1 : kept[n] = store[m] /\ Fresh(store[m])
        BY <3>2 DEF KeptOf
      <4>2. m \in 1 .. k
        BY <1>1
      <4> QED BY <2>2, <3>2, <4>1, <4>2
    <3> QED BY <2>3, <3>1, <3>2
  <2>5. ASSUME NEW m \in 1 .. k, Fresh(store[m]) PROVE \E n \in 1 .. Len(new) : new[n] = store[m]
    <3>1. CASE m = k
      <4>1. Len(kept) + 1 \in 1 .. Len(new)
        BY <1>1, <2>2
      <4> QED BY <2>2, <3>1, <4>1
    <3>2. CASE m # k
      <4>1. m \in 1 .. k - 1
        BY <1>1, <3>2
      <4>2. PICK n \in 1 .. Len(kept) : kept[n] = store[m]
        BY <2>5, <4>1 DEF KeptOf
      <4>3. n \in 1 .. Len(new)
        BY <1>1, <2>2
      <4> QED BY <2>2, <4>2, <4>3
    <3> QED BY <3>1, <3>2
  <2>6. ASSUME NEW n \in 1 .. Len(kept) PROVE kept[n].peer # store[k].peer
    <3>1. PICK m \in 1 .. k - 1 : kept[n] = store[m]
      BY DEF KeptOf
    <3>2. m \in 1 .. Len(store) /\ m # k
      BY <1>1
    <3> QED BY <3>1, <3>2 DEF StoreInv
  <2>7. ASSUME NEW m \in 1 .. Len(new), NEW n \in 1 .. Len(new), new[m].peer = new[n].peer PROVE m = n
    BY <2>2, <2>3, <2>6, <2>7 DEF KeptOf
  <2> QED BY <1>3, <2>1, <2>2, <2>4, <2>5, <2>7 DEF KeptOf
<1> QED BY <1>2, <1>3

LEMMA UnexpiredAreFresh ==
  ASSUME StoreInv
  PROVE  KeptOf(Len(store), Unexpired)
<1>1. Len(store) \in Nat
  BY DEF StoreInv
<1>2. PICK kept : KeptUpto(Len(store), kept) /\ Unexpired = kept[Len(store)]
  <2> DEFINE A == CHOOSE kept : KeptUpto(Len(store), kept)
  <2>1. Unexpired = A[Len(store)]
    BY DEF Unexpired, KeptUpto
  <2>2. KeptUpto(Len(store), A)
    BY <1>1, KeptExists
  <2> HIDE DEF A
  <2> QED BY <2>1, <2>2
<1> DEFINE Bad == {k \in 0 .. Len(store) : ~ KeptOf(k, kept[k])}
<1>3. ASSUME Bad # {} PROVE FALSE
  <2>1. PICK k \in Bad : \A m \in Bad : k <= m
    <3>1. Bad \subseteq Nat
      OBVIOUS
    <3> HIDE DEF Bad
    <3> QED BY <1>3, <3>1, LeastNatural
  <2>2. k \in 0 .. Len(store) /\ ~ KeptOf(k, kept[k])
    OBVIOUS
  <2>3. CASE k = 0
    <3>1. kept[0] = << >>
      BY <1>2, <2>2, <2>3 DEF KeptUpto
    <3>2. KeptOf(0, << >>)
      BY DEF KeptOf
    <3> QED BY <2>2, <2>3, <3>1, <3>2
  <2>4. CASE k # 0
    <3>1. k - 1 \in 0 .. Len(store) /\ ~ (k <= k - 1) /\ k \in 1 .. Len(store)
      BY <1>1, <2>2, <2>4
    <3>2. k - 1 \notin Bad
      <4> HIDE DEF Bad
      <4> QED BY <2>1, <3>1
    <3>3. KeptOf(k - 1, kept[k - 1])
      BY <3>1, <3>2
    <3>4. kept[k] = IF Fresh(store[k]) THEN Append(kept[k - 1], store[k]) ELSE kept[k - 1]
      BY <1>2, <2>2, <2>4 DEF KeptUpto
    <3> QED BY <2>2, <3>1, <3>3, <3>4, KeptOneMore
  <2> QED BY <2>3, <2>4
<1>4. Len(store) \notin Bad /\ Len(store) \in 0 .. Len(store)
  BY <1>1, <1>3
<1> QED BY <1>2, <1>4

LEMMA StoreStepKeepsInv ==
  ASSUME StoreInv, AnswersNext
  PROVE  StoreInv'
<1>1. /\ PeerExpiry \in Nat /\ Len(store) \in Nat
      /\ \A n \in 1 .. Len(store) : store[n] \in Announcement /\ store[n].peer \in Queriers /\ store[n].age \in 0 .. PeerExpiry + 1
      /\ DOMAIN store = 1 .. Len(store)
  <2>1. PeerExpiry \in Nat /\ store \in Seq(Announcement)
    BY DhtAnswersAssumption DEF StoreInv
  <2>2. Len(store) \in Nat /\ DOMAIN store = 1 .. Len(store)
    BY <2>1
  <2>3. ASSUME NEW n \in 1 .. Len(store)
        PROVE  store[n] \in Announcement /\ store[n].peer \in Queriers /\ store[n].age \in 0 .. PeerExpiry + 1
    <3>1. store[n] \in Announcement
      BY <2>1, ElementOfSeq
    <3> QED BY <3>1 DEF Announcement
  <2> QED BY <2>1, <2>2, <2>3
<1>2. ASSUME NEW q \in Queriers, GetPeers(q) PROVE StoreInv'
  <2>1. PICK kept : store' = kept /\ KeptOf(Len(store), kept)
    BY <1>2, UnexpiredAreFresh DEF GetPeers
  <2>2. UNCHANGED announced
    BY <1>2 DEF GetPeers
  <2>3. \A n \in 1 .. Len(kept) : kept[n].age = announced[kept[n].peer]
    BY <2>1 DEF KeptOf, StoreInv
  <2>4. ASSUME NEW p \in Queriers, announced[p] <= PeerExpiry
        PROVE  \E n \in 1 .. Len(kept) : kept[n].peer = p
    <3>1. PICK m \in 1 .. Len(store) : store[m].peer = p
      BY <2>4 DEF StoreInv
    <3>2. Fresh(store[m])
      BY <2>4, <3>1 DEF StoreInv, Fresh
    <3> QED BY <2>1, <3>1, <3>2 DEF KeptOf
  <2> QED BY <2>1, <2>2, <2>3, <2>4 DEF StoreInv, KeptOf
<1>3. ASSUME NEW q \in Queriers, AnnouncePeer(q) PROVE StoreInv'
  <2>1. CASE UNCHANGED <<store, announced>>
    BY <2>1 DEF StoreInv
  <2>2. CASE store' = Stored(q) /\ announced' = [announced EXCEPT ![q] = 0]
    <3> DEFINE an == [peer |-> q, age |-> 0]
    <3>0. /\ store' = Stored(q) /\ announced' = [announced EXCEPT ![q] = 0]
          /\ announced' \in [Queriers -> 0 .. PeerExpiry + 1]
      BY <1>1, <2>2 DEF StoreInv
    <3>1. an \in Announcement /\ an.peer = q /\ an.age = 0
      BY <1>1 DEF Announcement
    <3>2. CASE Position(q) = {}
      <4>1. store' = Append(store, an)
        BY <3>0, <3>2 DEF Stored
      <4> HIDE DEF an
      <4>2. /\ store' \in Seq(Announcement) /\ Len(store') = Len(store) + 1
            /\ \A n \in 1 .. Len(store) : store'[n] = store[n]
            /\ store'[Len(store) + 1] = an
        BY <3>1, <4>1 DEF StoreInv
      <4>3. ASSUME NEW n \in 1 .. Len(store') PROVE n = Len(store) + 1 \/ n \in 1 .. Len(store)
        BY <1>1, <4>2
      <4>4. \A n \in 1 .. Len(store) : store[n].peer # q
        BY <1>1, <3>2 DEF Position
      <4>5. ASSUME NEW m \in 1 .. Len(store'), NEW n \in 1 .. Len(store'), store'[m].peer = store'[n].peer
            PROVE  m = n
        BY <3>1, <4>2, <4>3, <4>4, <4>5 DEF StoreInv
      <4>6. ASSUME NEW n \in 1 .. Len(store') PROVE store'[n].age = announced'[store'[n].peer]
        BY <1>1, <3>0, <3>1, <4>2, <4>3, <4>4 DEF StoreInv
      <4>7. ASSUME NEW p \in Queriers, announced'[p] <= PeerExpiry
            PROVE  \E n \in 1 .. Len(store') : store'[n].peer = p
        <5>1. CASE p = q
          <6>1. Len(store) + 1 \in 1 .. Len(store')
            BY <1>1, <4>2
          <6> QED BY <3>1, <4>2, <5>1, <6>1
        <5>2. CASE p # q
          <6>1. PICK n \in 1 .. Len(store) : store[n].peer = p
            BY <3>0, <4>7, <5>2 DEF StoreInv
          <6>2. n \in 1 .. Len(store')
            BY <1>1, <4>2
          <6> QED BY <4>2, <6>1, <6>2
        <5> QED BY <5>1, <5>2
      <4> QED BY <3>0, <4>2, <4>5, <4>6, <4>7 DEF StoreInv
    <3>3. CASE Position(q) # {}
      <4>1. store' = [n \in 1 .. Len(store) |-> IF n \in Position(q) THEN an ELSE store[n]]
        BY <1>1, <3>0, <3>3 DEF Stored
      <4> HIDE DEF an
      <4>2. \A n \in 1 .. Len(store) : n \in Position(q) <=> store[n].peer = q
        BY <1>1 DEF Position
      <4>3. \A n \in 1 .. Len(store) :
               store'[n] \in Announcement /\ store'[n].peer = store[n].peer
               /\ store'[n].age = announced'[store'[n].peer]
        <5> SUFFICES ASSUME NEW n \in 1 .. Len(store)
                     PROVE  store'[n] \in Announcement /\ store'[n].peer = store[n].peer
                            /\ store'[n].age = announced'[store'[n].peer]
          OBVIOUS
        <5>1. CASE n \in Position(q)
          <6>1. store'[n] = an /\ store[n].peer = q
            BY <4>1, <4>2, <5>1
          <6>2. announced'[q] = 0
            BY <3>0 DEF StoreInv
          <6> QED BY <3>1, <6>1, <6>2
        <5>2. CASE n \notin Position(q)
          <6>1. store'[n] = store[n] /\ store[n].peer \in Queriers /\ store[n].peer # q /\ store[n] \in Announcement
            BY <1>1, <4>1, <4>2, <5>2
          <6>2. announced'[store[n].peer] = announced[store[n].peer]
            BY <3>0, <6>1 DEF StoreInv
          <6> QED BY <6>1, <6>2 DEF StoreInv
        <5> QED BY <5>1, <5>2
      <4>4. store' \in Seq(Announcement) /\ Len(store') = Len(store)
        BY <1>1, <4>1, <4>3
      <4>5. ASSUME NEW p \in Queriers, announced'[p] <= PeerExpiry
            PROVE  \E n \in 1 .. Len(store') : store'[n].peer = p
        <5>1. \E n \in 1 .. Len(store) : store[n].peer = p
          <6>1. CASE p = q
            BY <1>1, <3>3, <6>1 DEF Position
          <6>2. CASE p # q
            BY <3>0, <4>5, <6>2 DEF StoreInv
          <6> QED BY <6>1, <6>2
        <5> QED BY <4>3, <4>4, <5>1
      <4> QED BY <3>0, <4>3, <4>4, <4>5 DEF StoreInv
    <3> QED BY <3>2, <3>3
  <2> QED BY <1>3, <2>1, <2>2 DEF AnnouncePeer
<1>4. CASE Tick
  <2>1. /\ store' = [n \in 1 .. Len(store) |-> [store[n] EXCEPT !.age = Older(@, PeerExpiry)]]
        /\ announced' = [q \in Queriers |-> Older(announced[q], PeerExpiry)]
    BY <1>1, <1>4 DEF Tick
  <2>2. ASSUME NEW a \in 0 .. PeerExpiry + 1
        PROVE  Older(a, PeerExpiry) \in 0 .. PeerExpiry + 1 /\ (Older(a, PeerExpiry) <= PeerExpiry => a <= PeerExpiry)
    BY <1>1 DEF Older
  <2>3. ASSUME NEW n \in 1 .. Len(store)
        PROVE  /\ store'[n] \in Announcement /\ store'[n].peer = store[n].peer
               /\ store'[n].age = Older(store[n].age, PeerExpiry)
    <3>1. PICK an \in Announcement : an = store[n]
      BY <1>1
    <3>2. PICK a \in 0 .. PeerExpiry + 1 : a = Older(an.age, PeerExpiry)
      BY <2>2 DEF Announcement
    <3>3. store'[n] = [an EXCEPT !.age = a]
      BY <2>1, <3>1, <3>2
    <3> QED BY <3>1, <3>2, <3>3 DEF Announcement
  <2>4. store' \in Seq(Announcement) /\ Len(store') = Len(store)
    <3>1. PICK L \in Nat : L = Len(store)
      BY <1>1
    <3>2. PICK after : /\ store' = after /\ after = [n \in 1 .. L |-> after[n]]
      BY <2>1, <3>1
    <3>3. \A n \in 1 .. L : after[n] \in Announcement
      BY <2>3, <3>1, <3>2
    <3> QED BY <3>1, <3>2, <3>3
  <2>5. announced' \in [Queriers -> 0 .. PeerExpiry + 1]
    BY <2>1, <2>2 DEF StoreInv
  <2>6. ASSUME NEW n \in 1 .. Len(store) PROVE store'[n].age = announced'[store'[n].peer]
    BY <1>1, <2>1, <2>3 DEF StoreInv
  <2>7. ASSUME NEW p \in Queriers, announced'[p] <= PeerExpiry
        PROVE  \E n \in 1 .. Len(store') : store'[n].peer = p
    <3>1. announced[p] <= PeerExpiry
      BY <2>1, <2>2, <2>7 DEF StoreInv
    <3> QED BY <2>3, <2>4, <3>1 DEF StoreInv
  <2> QED BY <2>3, <2>4, <2>5, <2>6, <2>7 DEF StoreInv
<1> QED BY <1>2, <1>3, <1>4 DEF AnswersNext

\* The peers that are told are those that announced: the unexpired are as many as the
\* peers whose announcement is current, each at one place.
LEMMA StoreInvTellsWhoAnnounced ==
  ASSUME StoreInv
  PROVE  TellsWhoAnnounced
<1> DEFINE current == {q \in Queriers : announced[q] <= PeerExpiry}
<1>1. PICK kept : Unexpired = kept /\ KeptOf(Len(store), kept)
  BY UnexpiredAreFresh
<1>2. Len(kept) \in Nat /\ DOMAIN kept = 1 .. Len(kept) /\ MaxPeersReply \in Nat /\ PeerExpiry \in Nat
  BY <1>1, DhtAnswersAssumption DEF KeptOf
<1>3. ASSUME NEW n \in 1 .. Len(kept) PROVE kept[n].peer \in current
  <2>1. PICK m \in 1 .. Len(store) : kept[n] = store[m] /\ Fresh(store[m])
    BY <1>1 DEF KeptOf
  <2>2. store[m] \in Announcement
    BY ElementOfSeq DEF StoreInv
  <2>3. store[m].peer \in Queriers /\ announced[store[m].peer] <= PeerExpiry
    BY <2>1, <2>2 DEF StoreInv, Announcement, Fresh
  <2> QED BY <2>1, <2>3
<1>4. ASSUME NEW q \in current PROVE \E n \in 1 .. Len(kept) : kept[n].peer = q
  <2>1. PICK m \in 1 .. Len(store) : store[m].peer = q
    BY DEF StoreInv
  <2>2. Fresh(store[m])
    BY <2>1 DEF StoreInv, Fresh
  <2> QED BY <1>1, <2>1, <2>2 DEF KeptOf
<1> HIDE DEF current
<1>5. Told \subseteq current
  BY <1>1, <1>2, <1>3 DEF Told
<1>6. ASSUME Cardinality(current) <= MaxPeersReply PROVE Told = current
  <2> DEFINE peerAt == [n \in 1 .. Len(kept) |-> kept[n].peer]
  <2>1. \A m, n \in 1 .. Len(kept) : kept[m].peer = kept[n].peer => m = n
    BY <1>1 DEF KeptOf
  <2>2. peerAt \in Bijection(1 .. Len(kept), current)
    <3>1. peerAt \in [1 .. Len(kept) -> current]
      BY <1>3
    <3>2. IsInjective(peerAt)
      BY <2>1 DEF IsInjective
    <3>3. \A q \in current : \E n \in 1 .. Len(kept) : peerAt[n] = q
      BY <1>4
    <3> HIDE DEF peerAt
    <3> QED BY <3>1, <3>2, <3>3 DEF Bijection, Injection, Surjection
  <2> HIDE DEF peerAt
  <2>3. ExistsBijection(1 .. Len(kept), current)
    BY <2>2, Zenon DEF ExistsBijection
  <2>4. Cardinality(current) = Len(kept)
    BY <1>2, <2>3, FS_CountingElements, Zenon
  <2>5. ASSUME NEW q \in current PROVE q \in Told
    <3>1. PICK n \in 1 .. Len(kept) : kept[n].peer = q
      BY <1>4
    <3>2. n \in DOMAIN Unexpired \intersect 1 .. MaxPeersReply /\ Unexpired[n].peer = q
      BY <1>1, <1>2, <1>6, <2>4, <3>1
    <3> QED BY <3>2 DEF Told
  <2> QED BY <1>5, <2>5
<1> QED BY <1>5, <1>6 DEF TellsWhoAnnounced, current

\* Whoever asks for the peers of the topic is told those whose announcement was accepted
\* and has not expired, and no others: announcing again renews the age in place, and
\* nothing but the answer itself drops an expired one.
THEOREM AskersAreTold == AnswersSpec => []TellsWhoAnnounced
<1>1. AnswersInit => StoreInv
  <2> SUFFICES ASSUME AnswersInit PROVE StoreInv
    OBVIOUS
  <2>1. PeerExpiry \in Nat
    BY DhtAnswersAssumption
  <2>2. store = << >> /\ announced = [q \in Queriers |-> PeerExpiry + 1]
    BY DEF AnswersInit
  <2> QED BY <2>1, <2>2 DEF StoreInv
<1>2. StoreInv /\ [AnswersNext]_answerVars => StoreInv'
  <2>1. CASE AnswersNext
    BY <2>1, StoreStepKeepsInv
  <2>2. CASE UNCHANGED answerVars
    BY <2>2 DEF StoreInv, answerVars
  <2> QED BY <2>1, <2>2
<1> QED BY <1>1, <1>2, StoreInvTellsWhoAnnounced, PTL DEF AnswersSpec

-----------------------------------------------------------------------------
(***************************************************************************)
(* The routing table.  Every bucket begins at a multiple of its length;    *)
(* the length of the one that has our id is a power of two, and any other  *)
(* one is the half, without our id, of a stretch that has it.              *)
(***************************************************************************)
WellFormed(t) ==
    /\ t \in [room: [Ids -> K .. BucketMax \union {NoNode}], node: [Ids -> Entry \union {NoNode}]]
    /\ t.room[0] # NoNode

AroundOwn(f, size) ==
    \E r \in Nat : {f, own} \subseteq r * (2 * size) .. (r + 1) * (2 * size) - 1

Halved(t) ==
    \A f \in Firsts(t) :
       LET size == End(t, f) - f
       IN  /\ \E q \in Nat : f = q * size
           /\ f = First(t, own) => \E k \in Nat : size = 2^k
           /\ f # First(t, own) => AroundOwn(f, size)

TableInv == TableTypeOK /\ Halved(table)

LEMMA IdsInRange ==
  /\ 2^Bits \in Nat \ {0} /\ 0 \in Ids /\ Ids \subseteq Nat
  /\ \A i \in Nat : i \in Ids <=> i < 2^Bits
<1>1. 2^Bits \in Nat \ {0}
  BY RoutingTableAssumption, PowersOfTwo
<1> QED BY <1>1 DEF Ids

\* A bucket ends where the next one begins, or where the ids end.
LEMMA EndOfBucket ==
  ASSUME NEW t, WellFormed(t), NEW f \in Ids
  PROVE  /\ End(t, f) \in Firsts(t) \union {2^Bits} /\ End(t, f) \in f + 1 .. 2^Bits
         /\ \A g \in Firsts(t) : g > f => End(t, f) <= g
<1> DEFINE T == {g \in Firsts(t) : g > f} \union {2^Bits}
<1>1. T \subseteq Nat /\ T # {} /\ f \in Nat /\ \A g \in T : g > f
  BY IdsInRange DEF Firsts
<1>2. End(t, f) \in T /\ \A g \in T : End(t, f) <= g
  <2> HIDE DEF T
  <2>1. Min(T) \in T /\ \A g \in T : Min(T) <= g
    BY <1>1, MinIsLeast
  <2>2. End(t, f) = Min(T)
    BY DEF End, T
  <2> QED BY <2>1, <2>2
<1>3. 2^Bits \in T
  OBVIOUS
<1>4. End(t, f) \in Nat /\ End(t, f) > f /\ End(t, f) <= 2^Bits
  <2> HIDE DEF T
  <2> QED BY <1>1, <1>2, <1>3
<1>5. End(t, f) \in f + 1 .. 2^Bits
  BY <1>1, <1>4, IdsInRange
<1> QED BY <1>2, <1>5

\* Every id is in the bucket that its First begins.
LEMMA FirstOfBucket ==
  ASSUME NEW t, WellFormed(t), NEW i \in Ids
  PROVE  /\ First(t, i) \in Firsts(t) /\ First(t, i) <= i /\ i < End(t, First(t, i))
         /\ \A g \in Firsts(t) : g <= i => g <= First(t, i)
<1> DEFINE T == {g \in Firsts(t) : g <= i}
<1>1. i \in Nat /\ T \subseteq 0 .. i /\ 0 \in T
  <2>1. 0 \in Firsts(t) /\ Firsts(t) \subseteq Nat /\ i \in Nat
    BY IdsInRange DEF Firsts, WellFormed
  <2> QED BY <2>1
<1>2. First(t, i) \in T /\ \A g \in T : g <= First(t, i)
  <2> HIDE DEF T
  <2>1. Max(T) \in T /\ \A g \in T : g <= Max(T)
    BY <1>1, GreatestNatural
  <2>2. First(t, i) = Max(T)
    BY DEF First, T
  <2> QED BY <2>1, <2>2
<1>3. First(t, i) \in Ids /\ First(t, i) \in Nat
  BY <1>2, IdsInRange DEF Firsts
<1>4. /\ End(t, First(t, i)) \in Firsts(t) \union {2^Bits}
      /\ End(t, First(t, i)) \in First(t, i) + 1 .. 2^Bits
  BY <1>3, EndOfBucket
<1>5. i < End(t, First(t, i))
  <2>1. CASE End(t, First(t, i)) = 2^Bits
    BY <2>1, IdsInRange
  <2>2. CASE End(t, First(t, i)) \in Firsts(t)
    <3>1. PICK e \in Nat : e = End(t, First(t, i)) /\ e > First(t, i)
      BY <1>3, <1>4, IdsInRange
    <3>2. ASSUME e <= i PROVE FALSE
      <4>1. e \in T
        BY <2>2, <3>1, <3>2
      <4>2. e <= First(t, i)
        BY <1>2, <4>1
      <4> QED BY <1>3, <3>1, <4>2
    <3> QED BY <1>1, <3>1, <3>2
  <2> QED BY <1>4, <2>1, <2>2
<1> QED BY <1>2, <1>5

\* Where a bucket ends, and which one an id is in, is told by what they are between.
LEMMA EndIs ==
  ASSUME NEW t, WellFormed(t), NEW f \in Ids, NEW e \in Firsts(t) \union {2^Bits},
         f < e, \A g \in Firsts(t) : g > f => e <= g
  PROVE  End(t, f) = e
<1>1. /\ End(t, f) \in Firsts(t) \union {2^Bits} /\ End(t, f) \in f + 1 .. 2^Bits
      /\ \A g \in Firsts(t) : g > f => End(t, f) <= g
  BY EndOfBucket
<1>2. e \in Nat /\ e <= 2^Bits /\ f \in Nat /\ 2^Bits \in Nat /\ End(t, f) \in Nat /\ End(t, f) > f /\ End(t, f) <= 2^Bits
  <2>1. e \in Nat /\ e <= 2^Bits
    <3>1. e \in Ids \union {2^Bits}
      BY DEF Firsts
    <3>2. ASSUME e \in Ids PROVE e \in Nat /\ e < 2^Bits
      BY <3>2, IdsInRange
    <3> QED BY <3>1, <3>2, IdsInRange
  <2>2. f \in Nat /\ 2^Bits \in Nat
    BY IdsInRange
  <2>3. ASSUME NEW n \in f + 1 .. 2^Bits PROVE n \in Nat /\ n > f /\ n <= 2^Bits
    BY <2>2
  <2>4. End(t, f) \in f + 1 .. 2^Bits
    BY <1>1
  <2> QED BY <2>1, <2>2, <2>3, <2>4
<1>3. End(t, f) <= e
  BY <1>1, <1>2
<1>4. e <= End(t, f)
  BY <1>1, <1>2
<1> QED BY <1>2, <1>3, <1>4

LEMMA FirstIs ==
  ASSUME NEW t, WellFormed(t), NEW i \in Ids, NEW f \in Firsts(t), f <= i, i < End(t, f)
  PROVE  First(t, i) = f
<1>1. /\ First(t, i) \in Firsts(t) /\ First(t, i) <= i
      /\ \A g \in Firsts(t) : g <= i => g <= First(t, i)
  BY FirstOfBucket
<1>2. /\ f \in Ids /\ f \in Nat /\ First(t, i) \in Nat /\ i \in Nat
  BY <1>1, IdsInRange DEF Firsts
<1>3. /\ End(t, f) \in f + 1 .. 2^Bits /\ \A g \in Firsts(t) : g > f => End(t, f) <= g
  BY <1>2, EndOfBucket
<1>4. f <= First(t, i)
  BY <1>1
<1>5. ~ (First(t, i) > f)
  BY <1>1, <1>2, <1>3, IdsInRange
<1> QED BY <1>2, <1>4, <1>5

\* The first table is one bucket with all the ids.
LEMMA EmptyTableIsHalved == own \in Ids => WellFormed(EmptyTable) /\ Halved(EmptyTable)
<1> SUFFICES ASSUME own \in Ids PROVE WellFormed(EmptyTable) /\ Halved(EmptyTable)
  OBVIOUS
<1>1. /\ WellFormed(EmptyTable) /\ Firsts(EmptyTable) = {0}
  BY IdsInRange, RoutingTableAssumption DEF WellFormed, EmptyTable, Firsts
<1>2. End(EmptyTable, 0) = 2^Bits
  BY <1>1, EndIs, IdsInRange
<1>3. First(EmptyTable, own) = 0
  BY <1>1, FirstOfBucket
<1>4. 2^Bits - 0 = 2^Bits /\ 0 = 0 * 2^Bits /\ Bits \in Nat
  BY IdsInRange, RoutingTableAssumption
<1> QED BY <1>1, <1>2, <1>3, <1>4 DEF Halved

\* A split of the bucket that has our id leaves every other bucket as it is and makes
\* two halves of this one, and moves no node.
LEMMA SplitKeepsHalves ==
  ASSUME NEW t, WellFormed(t), Halved(t), own \in Ids, NEW i \in Ids, CanSplit(t, i)
  PROVE  LET u == Split(t, First(t, i))
         IN  WellFormed(u) /\ Halved(u) /\ u.node = t.node
<1>1. PICK f \in Firsts(t) : f = First(t, own) /\ f = First(t, i)
  BY FirstOfBucket DEF CanSplit
<1>2. PICK e : e = End(t, f)
  OBVIOUS
<1>3. /\ f \in Ids /\ f \in Nat /\ e \in Nat /\ e > f + 1 /\ e <= 2^Bits /\ e \in Firsts(t) \union {2^Bits}
      /\ \A g \in Firsts(t) : g > f => e <= g
  <2>1. f \in Ids /\ f \in Nat
    BY IdsInRange DEF Firsts
  <2>2. e - f > 1
    BY <1>1, <1>2 DEF CanSplit
  <2> QED BY <1>2, <2>1, <2>2, EndOfBucket, IdsInRange
<1>4. PICK q \in Nat, s \in Nat \ {0}, k \in Nat : e - f = s + s /\ s = 2^k /\ f = q * (s + s)
  <2>1. PICK q \in Nat : f = q * (e - f)
    BY <1>1, <1>2 DEF Halved
  <2>2. PICK n \in Nat : e - f = 2^n
    BY <1>1, <1>2 DEF Halved
  <2>3. n # 0
    <3>1. 2^0 = 1 /\ e - f # 1
      BY <1>3, PowersOfTwo
    <3> QED BY <2>2, <3>1
  <2>4. PICK k \in Nat : n = k + 1
    <3>1. n - 1 \in Nat /\ n = (n - 1) + 1
      BY <2>3
    <3> QED BY <3>1
  <2>5. 2^k \in Nat \ {0} /\ e - f = 2^k + 2^k
    BY <2>2, <2>4, PowersOfTwo
  <2> QED BY <2>1, <2>5
<1>5. PICK m \in Ids : m = f + s /\ m = (f + e) \div 2 /\ m \notin Firsts(t) /\ f < m /\ m < e
  <2>1. (f + e) \div 2 = f + s /\ f < f + s /\ f + s < e /\ f + s \in Nat
    BY <1>3, <1>4
  <2>2. f + s \in Ids
    BY <1>3, <2>1, IdsInRange
  <2> QED BY <1>3, <2>1, <2>2
<1>6. PICK u : u = Split(t, First(t, i))
  OBVIOUS
<1>7. WellFormed(u) /\ u.node = t.node /\ Firsts(u) = Firsts(t) \union {m}
  <2>1. PICK room \in K .. BucketMax : room = Half(t.room[f])
    <3>1. t.room[f] \in K .. BucketMax
      BY <1>3 DEF WellFormed, Firsts
    <3>2. {BucketMax, K} \subseteq Nat /\ K <= BucketMax
      BY RoutingTableAssumption
    <3>3. Half(t.room[f]) \in K .. BucketMax
      BY <3>1, <3>2 DEF Half
    <3> QED BY <3>3
  <2>2. u = [t EXCEPT !.room[f] = room, !.room[m] = room]
    BY <1>1, <1>2, <1>5, <1>6, <2>1 DEF Split
  <2>3. t.room \in [Ids -> K .. BucketMax \union {NoNode}] /\ t.node \in [Ids -> Entry \union {NoNode}]
        /\ t = [room |-> t.room, node |-> t.node]
    BY DEF WellFormed
  <2>4. /\ u = [room |-> [[t.room EXCEPT ![f] = room] EXCEPT ![m] = room], node |-> t.node]
    BY <2>2, <2>3
  <2>5. u.room = [[t.room EXCEPT ![f] = room] EXCEPT ![m] = room] /\ u.node = t.node
    BY <2>4
  <2>6. /\ u.room \in [Ids -> K .. BucketMax \union {NoNode}]
        /\ \A g \in Ids : u.room[g] = IF g \in {f, m} THEN room ELSE t.room[g]
    BY <1>3, <1>5, <2>3, <2>5
  <2>7. room # NoNode
    BY RoutingTableAssumption
  <2>8. Firsts(u) = Firsts(t) \union {m}
    BY <1>1, <1>5, <2>6, <2>7 DEF Firsts
  <2>9. u.room[0] # NoNode
    BY <2>6, <2>7, IdsInRange DEF WellFormed
  <2> QED BY <2>3, <2>4, <2>5, <2>6, <2>8, <2>9 DEF WellFormed
<1>8. End(u, f) = m
  <2>1. \A g \in Firsts(u) : g > f => m <= g
    <3>1. ASSUME NEW g \in Firsts(t), g > f PROVE m <= g
      BY <1>3, <1>5, <3>1, IdsInRange DEF Firsts
    <3>2. m <= m
      BY <1>5, IdsInRange
    <3> QED BY <1>7, <3>1, <3>2
  <2> QED BY <1>3, <1>5, <1>7, <2>1, EndIs
<1>9. End(u, m) = e
  <2>1. m \in Ids /\ e \in Firsts(u) \union {2^Bits}
    BY <1>3, <1>7
  <2>2. m < e /\ \A g \in Firsts(u) : g > m => e <= g
    <3>1. ASSUME NEW g \in Firsts(u), g > m PROVE e <= g
      <4>1. g # m /\ g \in Firsts(t) /\ g > f
        BY <1>3, <1>5, <1>7, <3>1, IdsInRange DEF Firsts
      <4> QED BY <1>3, <4>1
    <3> QED BY <1>5, <3>1
  <2> QED BY <1>7, <2>1, <2>2, EndIs
<1>10. ASSUME NEW g \in Firsts(t), g # f
       PROVE  End(u, g) = End(t, g)
  <2>1. g \in Ids /\ g \in Nat
    BY IdsInRange DEF Firsts
  <2>2. /\ End(t, g) \in Firsts(t) \union {2^Bits} /\ End(t, g) \in g + 1 .. 2^Bits
        /\ \A h \in Firsts(t) : h > g => End(t, g) <= h
    BY <2>1, EndOfBucket
  <2>3. End(t, g) \in Nat /\ g < End(t, g)
    BY <2>1, <2>2, IdsInRange
  <2>4. m > g => End(t, g) <= m
    <3>1. CASE g < f
      BY <1>3, <1>5, <2>2, <2>3, <3>1
    <3>2. CASE g > f
      BY <1>3, <1>5, <2>1, <3>2, IdsInRange
    <3> QED BY <1>3, <1>10, <2>1, <3>1, <3>2
  <2>5. \A h \in Firsts(u) : h > g => End(t, g) <= h
    BY <1>7, <2>2, <2>4
  <2>6. End(t, g) \in Firsts(u) \union {2^Bits}
    BY <1>7, <2>2
  <2> QED BY <1>7, <2>1, <2>3, <2>5, <2>6, EndIs
<1>11. own \in Nat /\ f <= own /\ own < e
  BY <1>1, <1>2, FirstOfBucket, IdsInRange
<1>12. First(u, own) \in {f, m}
  <2>1. CASE own < m
    BY <1>1, <1>7, <1>8, <1>11, <2>1, FirstIs
  <2>2. CASE ~ (own < m)
    <3>1. m <= own
      BY <1>5, <1>11, <2>2, IdsInRange
    <3>2. m \in Firsts(u) /\ own < End(u, m)
      BY <1>7, <1>9, <1>11
    <3> QED BY <1>7, <3>1, <3>2, FirstIs
  <2> QED BY <2>1, <2>2
<1>13. /\ f = (q + q) * s /\ m = (q + q + 1) * s
       /\ f = q * (2 * s) /\ e = (q + 1) * (2 * s)
       /\ m - f = s /\ e - m = s
  <2>1. e = f + (s + s)
    BY <1>3, <1>4
  <2> QED BY <1>4, <1>5, <2>1, HalvesOfMultiple
<1>14. {f, m, own} \subseteq q * (2 * s) .. (q + 1) * (2 * s) - 1
  <2>1. {f, m, own} \subseteq f .. e - 1
    BY <1>3, <1>5, <1>11, IdsInRange
  <2> QED BY <1>13, <2>1
<1>15. Halved(u)
  <2> SUFFICES ASSUME NEW g \in Firsts(u)
               PROVE  /\ \E r \in Nat : g = r * (End(u, g) - g)
                      /\ g = First(u, own) => \E n \in Nat : End(u, g) - g = 2^n
                      /\ g # First(u, own) => AroundOwn(g, End(u, g) - g)
    BY DEF Halved
  <2>1. CASE g \in {f, m}
    <3>1. End(u, g) - g = s /\ \E r \in Nat : g = r * s
      <4>1. q + q \in Nat /\ q + q + 1 \in Nat
        OBVIOUS
      <4> QED BY <1>8, <1>9, <1>13, <2>1, <4>1
    <3>2. AroundOwn(g, s)
      BY <1>14, <2>1 DEF AroundOwn
    <3> QED BY <1>4, <3>1, <3>2
  <2>2. CASE g \notin {f, m}
    <3>1. g \in Firsts(t) /\ g # First(t, own) /\ g # First(u, own) /\ End(u, g) = End(t, g)
      BY <1>1, <1>7, <1>10, <1>12, <2>2
    <3> QED BY <3>1 DEF Halved
  <2> QED BY <2>1, <2>2
<1> QED BY <1>6, <1>7, <1>15

(***************************************************************************)
(* new_node splits the bucket of i as often as it can: SplitFor is defined *)
(* by recursion on the number of looks, whose function has to be shown to  *)
(* exist.                                                                  *)
(***************************************************************************)
Looked(U, i) == {IF MustSplit(u, i) THEN Split(u, First(u, i)) ELSE u : u \in U}

Looks(t, i, after) == after = [k \in 0 .. Bits |-> IF k = 0 THEN {t} ELSE Looked(after[k - 1], i)]

LEMMA LooksExist ==
  ASSUME NEW t, NEW i
  PROVE  \E after : Looks(t, i, after)
<1> DEFINE Upto(n, f) == f = [k \in 0 .. n |-> IF k = 0 THEN {t} ELSE Looked(f[k - 1], i)]
           None == {n \in 0 .. Bits : ~ \E f : Upto(n, f)}
<1>1. Bits \in Nat /\ Bits \in 0 .. Bits
  BY RoutingTableAssumption
<1>2. SUFFICES ASSUME None # {} PROVE FALSE
  <2>1. Bits \notin None => \E f : Upto(Bits, f)
    BY <1>1
  <2> QED BY <2>1 DEF Looks
<1>3. PICK n \in None : \A m \in None : n <= m
  <2>1. None \subseteq Nat
    OBVIOUS
  <2> HIDE DEF None
  <2> QED BY <1>2, <2>1, LeastNatural
<1>4. n \in 0 .. Bits /\ ~ \E f : Upto(n, f)
  OBVIOUS
<1>5. CASE n = 0
  <2> DEFINE f == [k \in 0 .. 0 |-> {t}]
  <2>1. f = [k \in 0 .. 0 |-> IF k = 0 THEN {t} ELSE Looked(f[k - 1], i)]
    OBVIOUS
  <2> QED BY <1>4, <1>5, <2>1
<1>6. CASE n # 0
  <2>1. n - 1 \in 0 .. Bits /\ ~ (n <= n - 1)
    BY <1>1, <1>4, <1>6
  <2>2. n - 1 \notin None
    <3> HIDE DEF None
    <3> QED BY <1>3, <2>1
  <2>3. PICK g : g = [k \in 0 .. n - 1 |-> IF k = 0 THEN {t} ELSE Looked(g[k - 1], i)]
    BY <2>1, <2>2
  <2> DEFINE f == [k \in 0 .. n |-> IF k = n THEN Looked(g[n - 1], i) ELSE g[k]]
  <2>4. \A k \in 0 .. n - 1 : f[k] = g[k]
    BY <1>4
  <2>5. ASSUME NEW k \in 0 .. n PROVE f[k] = IF k = 0 THEN {t} ELSE Looked(f[k - 1], i)
    <3>1. CASE k = n
      <4>1. f[k] = Looked(g[n - 1], i) /\ f[k - 1] = g[n - 1]
        BY <1>4, <1>6, <2>4, <3>1
      <4> HIDE DEF f
      <4> QED BY <1>6, <3>1, <4>1
    <3>2. CASE k # n
      <4>1. k \in 0 .. n - 1 /\ (k # 0 => k - 1 \in 0 .. n - 1)
        BY <1>4, <3>2
      <4>2. g[k] = IF k = 0 THEN {t} ELSE Looked(g[k - 1], i)
        BY <2>3, <4>1
      <4> HIDE DEF f
      <4> QED BY <2>4, <4>1, <4>2
    <3> QED BY <3>1, <3>2
  <2>6. f = [k \in 0 .. n |-> IF k = 0 THEN {t} ELSE Looked(f[k - 1], i)]
    <3>1. f = [k \in 0 .. n |-> f[k]]
      OBVIOUS
    <3> HIDE DEF f
    <3> QED BY <2>5, <3>1
  <2> QED BY <1>4, <2>6
<1> QED BY <1>5, <1>6

LEMMA SplitForKeepsHalves ==
  ASSUME NEW t, WellFormed(t), Halved(t), own \in Ids, NEW i \in Ids, NEW u \in SplitFor(t, i)
  PROVE  WellFormed(u) /\ Halved(u) /\ u.node = t.node
<1> DEFINE Fine(v) == WellFormed(v) /\ Halved(v) /\ v.node = t.node
<1>1. PICK after : Looks(t, i, after) /\ SplitFor(t, i) = after[Bits]
  <2> DEFINE A == CHOOSE after : Looks(t, i, after)
  <2>1. SplitFor(t, i) = A[Bits]
    BY DEF SplitFor, Looks, Looked
  <2>2. Looks(t, i, A)
    BY LooksExist
  <2> HIDE DEF A
  <2> QED BY <2>1, <2>2
<1>2. ASSUME NEW v, Fine(v), MustSplit(v, i) PROVE Fine(Split(v, First(v, i)))
  <2>1. CanSplit(v, i)
    BY <1>2 DEF MustSplit
  <2> QED BY <1>2, <2>1, SplitKeepsHalves
<1> HIDE DEF Fine
<1>3. ASSUME NEW U, \A v \in U : Fine(v) PROVE \A v \in Looked(U, i) : Fine(v)
  BY <1>2, <1>3 DEF Looked
<1>4. \A k \in 0 .. Bits : \A v \in after[k] : Fine(v)
  <2> DEFINE Bad == {k \in 0 .. Bits : ~ \A v \in after[k] : Fine(v)}
  <2>1. SUFFICES ASSUME Bad # {} PROVE FALSE
    OBVIOUS
  <2>2. PICK n \in Bad : \A m \in Bad : n <= m
    <3>1. Bad \subseteq Nat
      OBVIOUS
    <3> HIDE DEF Bad
    <3> QED BY <2>1, <3>1, LeastNatural
  <2>3. n \in 0 .. Bits /\ ~ \A v \in after[n] : Fine(v)
    OBVIOUS
  <2>4. CASE n = 0
    <3>1. after[n] = {t}
      BY <1>1, <2>3, <2>4 DEF Looks
    <3>2. Fine(t)
      BY DEF Fine
    <3> QED BY <2>3, <3>1, <3>2
  <2>5. CASE n # 0
    <3>1. n - 1 \in 0 .. Bits /\ ~ (n <= n - 1)
      BY <2>3, <2>5, RoutingTableAssumption
    <3>2. n - 1 \notin Bad
      <4> HIDE DEF Bad
      <4> QED BY <2>2, <3>1
    <3>3. \A v \in after[n - 1] : Fine(v)
      BY <3>1, <3>2
    <3>4. after[n] = Looked(after[n - 1], i)
      BY <1>1, <2>3, <2>5 DEF Looks
    <3> QED BY <1>3, <2>3, <3>3, <3>4
  <2> QED BY <2>4, <2>5
<1>5. Bits \in 0 .. Bits
  BY RoutingTableAssumption
<1>6. Fine(u)
  BY <1>1, <1>4, <1>5
<1> QED BY <1>6 DEF Fine

(***************************************************************************)
(* What new_node leaves of the good nodes: a node that is good and was     *)
(* heard is neither dead nor dubious, so that it is only touched when it   *)
(* is the one that comes, and then it gets the address it came from, if it *)
(* came itself.                                                            *)
(***************************************************************************)
Steady(n) == n # NoNode /\ Good(n) /\ n.heard

KeepsSteady(t, u, i, a, confirm) ==
    \A j \in Ids :
       Steady(t.node[j]) =>
          \/ u.node[j] = t.node[j]
          \/ /\ j = i /\ Steady(u.node[j])
             /\ u.node[j].addr = t.node[j].addr \/ (confirm > 0 /\ u.node[j].addr = a)

\* The table is as the invariant says.
Sound(t) == WellFormed(t) /\ Halved(t) /\ t.node[own] = NoNode

LEMMA WithNode ==
  ASSUME NEW t, Sound(t), NEW i \in Ids, i # own, NEW n \in Entry \union {NoNode}
  PROVE  Sound(With(t, i, n)) /\ With(t, i, n).node = [t.node EXCEPT ![i] = n]
<1>1. PICK u : u = With(t, i, n)
  OBVIOUS
<1>2. /\ t.room \in [Ids -> K .. BucketMax \union {NoNode}] /\ t.node \in [Ids -> Entry \union {NoNode}]
      /\ t = [room |-> t.room, node |-> t.node] /\ t.room[0] # NoNode
  BY DEF Sound, WellFormed
<1>3. u = [room |-> t.room, node |-> [t.node EXCEPT ![i] = n]]
  BY <1>1, <1>2 DEF With
<1>4. u.room = t.room /\ u.node = [t.node EXCEPT ![i] = n]
  BY <1>3
<1>5. WellFormed(u)
  BY <1>2, <1>3, <1>4 DEF WellFormed
<1>6. Firsts(u) = Firsts(t)
  BY <1>4 DEF Firsts
<1>7. (\A f : End(u, f) = End(t, f)) /\ \A f : First(u, f) = First(t, f)
  BY <1>6 DEF End, First
<1>8. Halved(u)
  BY <1>6, <1>7 DEF Sound, Halved
<1>9. u.node[own] = NoNode
  <2>1. t.node[own] = NoNode
    BY DEF Sound
  <2> QED BY <1>2, <1>4, <2>1
<1> QED BY <1>1, <1>4, <1>5, <1>8, <1>9 DEF Sound

\* A node that comes gets an entry, and keeps a good one.
LEMMA UpdatedEntry ==
  ASSUME NEW n \in Entry, NEW a \in Addrs, NEW confirm \in 0 .. 2
  PROVE  /\ Updated(n, a, confirm) \in Entry /\ NewEntry(a, confirm) \in Entry
         /\ Steady(n) => /\ Steady(Updated(n, a, confirm))
                         /\ \/ Updated(n, a, confirm) = n
                            \/ confirm > 0 /\ Updated(n, a, confirm).addr = a
<1>1. /\ NewEntry(a, confirm) \in Entry /\ NewEntry(a, confirm).addr = a /\ NewEntry(a, confirm).pings = 0
  <2>1. (confirm >= 1) \in BOOLEAN /\ (confirm >= 2) \in BOOLEAN /\ 0 \in 0 .. EvictPings
    BY RoutingTableAssumption
  <2> QED BY <2>1 DEF NewEntry, Entry
<1>2. GoodPings \in Nat /\ NoNode \notin Entry
  BY RoutingTableAssumption
<1>3. CASE confirm = 2
  <2>1. Updated(n, a, confirm) = NewEntry(a, 2)
    BY <1>3 DEF Updated
  <2>2. Good(NewEntry(a, 2)) /\ NewEntry(a, 2).heard
    <3>1. NewEntry(a, 2).heard /\ NewEntry(a, 2).answered
      <4>1. (2 >= 1) = TRUE /\ (2 >= 2) = TRUE
        OBVIOUS
      <4>2. NewEntry(a, 2) = [addr |-> a, heard |-> TRUE, answered |-> TRUE, pings |-> 0, idle |-> TRUE]
        BY <4>1 DEF NewEntry
      <4> QED BY <4>2
    <3> QED BY <1>1, <1>2, <1>3, <3>1 DEF Good
  <2> QED BY <1>1, <1>2, <1>3, <2>1, <2>2 DEF Steady
<1>4. CASE confirm = 1
  <2>1. Updated(n, a, confirm) = [n EXCEPT !.addr = a, !.heard = TRUE]
    BY <1>4 DEF Updated
  <2>2. PICK m : m = Updated(n, a, confirm)
    OBVIOUS
  <2>3. m \in Entry /\ m.addr = a /\ m.heard /\ m.pings = n.pings /\ m.answered = n.answered
    BY <2>1, <2>2 DEF Entry
  <2>4. Steady(n) => Steady(m)
    BY <1>2, <2>3 DEF Steady, Good
  <2> QED BY <1>1, <1>4, <2>2, <2>3, <2>4
<1>5. CASE confirm = 0
  <2>1. Updated(n, a, confirm) = IF n.heard \/ uptime = "minutes" THEN n ELSE [n EXCEPT !.addr = a]
    BY <1>5 DEF Updated
  <2>2. [n EXCEPT !.addr = a] \in Entry
    BY DEF Entry
  <2>3. Updated(n, a, confirm) \in Entry /\ (n.heard => Updated(n, a, confirm) = n)
    BY <2>1, <2>2
  <2> QED BY <1>1, <2>3 DEF Steady
<1> QED BY <1>3, <1>4, <1>5

LEMMA PlacesKeepSteady ==
  ASSUME NEW t, Sound(t), NEW i \in Ids, i # own, t.node[i] = NoNode, NEW a \in Addrs,
         NEW confirm \in 0 .. 2, NEW u \in Places(t, i, a, confirm)
  PROVE  Sound(u) /\ KeepsSteady(t, u, i, a, confirm)
<1> DEFINE dead == Dead(t, Mates(t, i))
           dubious == Dubious(t, Mates(t, i))
<1>1. NewEntry(a, confirm) \in Entry /\ NoNode \notin Entry
  BY RoutingTableAssumption DEF NewEntry, Entry
<1>2. t.node \in [Ids -> Entry \union {NoNode}] /\ t.node[own] = NoNode
  BY DEF Sound, WellFormed
<1>3. ASSUME NEW j \in dead \union dubious
      PROVE  j \in Ids /\ j # own /\ t.node[j] \in Entry /\ j # i
  BY <1>2, <1>3 DEF Dead, Dubious, Mates, Held
<1>4. ASSUME NEW j \in dead PROVE ~ Good(t.node[j])
  <2>1. t.node[j].pings \in Nat /\ t.node[j].pings >= EvictPings
    BY <1>3, <1>4, RoutingTableAssumption DEF Dead, Entry
  <2> QED BY <2>1, RoutingTableAssumption DEF Good
<1>5. CASE dead # {}
  <2>1. PICK j \in dead : u = With(With(t, j, NoNode), i, NewEntry(a, confirm))
    BY <1>5 DEF Places
  <2>2. PICK v : v = With(t, j, NoNode)
    OBVIOUS
  <2>3. Sound(v) /\ v.node = [t.node EXCEPT ![j] = NoNode]
    BY <1>3, <2>2, WithNode
  <2>4. Sound(u) /\ u.node = [v.node EXCEPT ![i] = NewEntry(a, confirm)]
    BY <1>1, <2>1, <2>2, <2>3, WithNode
  <2>5. ASSUME NEW k \in Ids, Steady(t.node[k]) PROVE u.node[k] = t.node[k]
    <3>1. k # i /\ k # j
      BY <1>4, <2>5 DEF Steady
    <3> QED BY <1>2, <2>3, <2>4, <3>1
  <2> QED BY <2>4, <2>5 DEF KeepsSteady
<1>6. CASE dead = {} /\ Full(t, i) /\ dubious # {}
  <2>1. PICK j \in dubious : u = With(t, j, Pinged(t.node[j]))
    BY <1>6 DEF Places
  <2>2. Pinged(t.node[j]) \in Entry
    <3>1. PICK n \in Entry : n = t.node[j]
      BY <1>3
    <3>2. n.idle /\ j \in Mates(t, i) /\ j \notin dead
      BY <1>6, <3>1 DEF Dubious
    <3>3. n.pings \in Nat /\ ~ (n.pings >= EvictPings) /\ EvictPings \in Nat
      BY <3>1, <3>2, RoutingTableAssumption DEF Dead, Entry
    <3>4. n.pings + 1 \in 0 .. EvictPings
      BY <3>3
    <3> QED BY <3>1, <3>4 DEF Pinged, Entry
  <2>3. Sound(u) /\ u.node = [t.node EXCEPT ![j] = Pinged(t.node[j])]
    BY <1>3, <2>1, <2>2, WithNode
  <2>4. ASSUME NEW k \in Ids, Steady(t.node[k]) PROVE u.node[k] = t.node[k]
    <3>1. k # j
      BY <2>4 DEF Steady, Dubious
    <3> QED BY <1>2, <2>3, <3>1
  <2> QED BY <2>3, <2>4 DEF KeepsSteady
<1>7. CASE dead = {} /\ ~ (Full(t, i) /\ dubious # {})
  <2>1. u = IF Full(t, i) \/ IpTaken(t, i, a) THEN t ELSE With(t, i, NewEntry(a, confirm))
    BY <1>7 DEF Places
  <2>2. Sound(With(t, i, NewEntry(a, confirm))) /\ With(t, i, NewEntry(a, confirm)).node = [t.node EXCEPT ![i] = NewEntry(a, confirm)]
    BY <1>1, WithNode
  <2>3. ASSUME NEW k \in Ids, Steady(t.node[k]) PROVE u.node[k] = t.node[k]
    BY <1>2, <2>1, <2>2, <2>3 DEF Steady
  <2> QED BY <2>1, <2>2, <2>3 DEF KeepsSteady
<1> QED BY <1>5, <1>6, <1>7

LEMMA NewNodeKeepsSteady ==
  ASSUME NEW t, Sound(t), own \in Ids, NEW i \in Ids, NEW a \in Addrs, NEW confirm \in 0 .. 2,
         NEW u \in NewNode(t, i, a, confirm)
  PROVE  Sound(u) /\ KeepsSteady(t, u, i, a, confirm)
<1>1. CASE i = own \/ a \in black
  BY <1>1 DEF NewNode, KeepsSteady
<1>2. CASE ~ (i = own \/ a \in black) /\ t.node[i] # NoNode
  <2>1. u = With(t, i, Updated(t.node[i], a, confirm))
    BY <1>2 DEF NewNode
  <2>2. PICK n \in Entry : n = t.node[i]
    BY <1>2 DEF Sound, WellFormed
  <2> DEFINE m == Updated(n, a, confirm)
  <2>3. m \in Entry /\ (Steady(n) => Steady(m) /\ (m = n \/ (confirm > 0 /\ m.addr = a)))
    BY UpdatedEntry
  <2> HIDE DEF m
  <2>4. Sound(u) /\ u.node = [t.node EXCEPT ![i] = m] /\ t.node \in [Ids -> Entry \union {NoNode}]
    BY <1>2, <2>1, <2>2, <2>3, WithNode DEF Sound, WellFormed, m
  <2>5. \A j \in Ids \ {i} : u.node[j] = t.node[j]
    BY <2>4
  <2>6. u.node[i] = m
    BY <2>4
  <2> QED BY <2>2, <2>3, <2>4, <2>5, <2>6 DEF KeepsSteady
<1>3. CASE ~ (i = own \/ a \in black) /\ t.node[i] = NoNode
  <2>1. PICK v \in SplitFor(t, i) : u \in Places(v, i, a, confirm)
    BY <1>3 DEF NewNode
  <2>2. WellFormed(v) /\ Halved(v) /\ v.node = t.node
    BY <2>1, SplitForKeepsHalves DEF Sound
  <2>3. Sound(v) /\ v.node[i] = NoNode
    BY <1>3, <2>2 DEF Sound
  <2>4. Sound(u) /\ KeepsSteady(v, u, i, a, confirm)
    BY <1>3, <2>1, <2>3, PlacesKeepSteady
  <2> QED BY <2>2, <2>4 DEF KeepsSteady
<1> QED BY <1>1, <1>2, <1>3

(***************************************************************************)
(* A step of the table.                                                    *)
(***************************************************************************)

\* What GoodNodeStays says of one step, while our id stays.
StayStep ==
    \A j \in Ids :
       Steady(table.node[j]) =>
          /\ table'.node[j] # NoNode
          /\ table'.node[j].addr = table.node[j].addr \/ known'[table'.node[j].addr] = j

LEMMA ClaimIsKnown ==
  ASSUME TableTypeOK, NEW i \in Ids, NEW a \in Addrs, Claim(i, a)
  PROVE  known' \in [Addrs -> Ids \union {NoNode}] /\ known'[a] = i
BY DEF TableTypeOK, Claim

\* A node that answers wrongly is to be the first to go, where it is.
LEMMA CondemnedStays ==
  ASSUME NEW t, Sound(t), NEW i \in Ids
  PROVE  /\ Sound(Condemned(t, i))
         /\ \A j \in Ids : t.node[j] # NoNode =>
                /\ Condemned(t, i).node[j] # NoNode
                /\ Condemned(t, i).node[j].addr = t.node[j].addr
<1>1. CASE t.node[i] = NoNode
  BY <1>1 DEF Condemned
<1>2. CASE t.node[i] # NoNode
  <2>1. i # own /\ t.node \in [Ids -> Entry \union {NoNode}]
    BY <1>2 DEF Sound, WellFormed
  <2>2. PICK n \in Entry : n = t.node[i]
    BY <1>2, <2>1
  <2> DEFINE m == [n EXCEPT !.pings = EvictPings]
  <2>3. m \in Entry /\ m.addr = n.addr /\ m # NoNode
    <3>1. EvictPings \in 0 .. EvictPings /\ NoNode \notin Entry
      BY RoutingTableAssumption
    <3> QED BY <3>1 DEF Entry
  <2>4. Condemned(t, i) = With(t, i, m)
    BY <1>2, <2>2 DEF Condemned
  <2> HIDE DEF m
  <2>5. Sound(Condemned(t, i)) /\ Condemned(t, i).node = [t.node EXCEPT ![i] = m]
    BY <2>1, <2>3, <2>4, WithNode
  <2> QED BY <2>1, <2>2, <2>3, <2>5
<1> QED BY <1>1, <1>2

\* A node that has its place gets another entry for the same address.
LEMMA TurnsKeeps ==
  ASSUME TableInv, own \in Ids, NEW i \in Held(table), NEW n \in Entry, n.addr = table.node[i].addr, Turns(i, n)
  PROVE  Sound(table') /\ StayStep
<1>1. Sound(table) /\ i \in Ids /\ i # own /\ table.node \in [Ids -> Entry \union {NoNode}]
  BY DEF TableInv, TableTypeOK, Sound, WellFormed, Held
<1>2. Sound(table') /\ table'.node = [table.node EXCEPT ![i] = n]
  BY <1>1, WithNode DEF Turns
<1>3. NoNode \notin Entry
  BY RoutingTableAssumption
<1> QED BY <1>1, <1>2, <1>3 DEF StayStep, Steady

LEMMA TableStep ==
  ASSUME TableInv, TableNext
  PROVE  TableInv' /\ (own' = own => StayStep)
<1>1. own \in Ids /\ Sound(table) /\ Claims \subseteq Ids \X Addrs /\ Faulty \subseteq Claims /\ Named \subseteq Claims
  BY RoutingTableAssumption DEF TableInv, TableTypeOK, Sound, WellFormed
<1>2. /\ own \in OwnIds /\ black \subseteq Addrs /\ known \in [Addrs -> Ids \union {NoNode}]
      /\ uptime \in {"minutes", "hour", "longer"} /\ table.node \in [Ids -> Entry \union {NoNode}]
  BY DEF TableInv, TableTypeOK
\* As long as our id stays, the table is sound for the next state as it is for this one.
<1>3. ASSUME own' = own, Sound(table'), black' \subseteq Addrs, known' \in [Addrs -> Ids \union {NoNode}],
             uptime' \in {"minutes", "hour", "longer"}
      PROVE  TableInv'
  <2>1. Halved(table)'
    <3>1. /\ Firsts(table)' = Firsts(table') /\ First(table, own)' = First(table', own)
          /\ \A f : End(table, f)' = End(table', f)
      BY <1>3 DEF First, Firsts, End
    <3>2. \A f, size : AroundOwn(f, size)' <=> AroundOwn(f, size)
      BY <1>3 DEF AroundOwn
    <3> QED BY <1>3, <3>1, <3>2 DEF Sound, Halved
  <2> QED BY <1>2, <1>3, <2>1 DEF TableInv, TableTypeOK, Sound, WellFormed
<1>4. ASSUME NEW c \in Claims, Swap(c[1], c[2])
      PROVE  TableInv' /\ StayStep
  <2>1. c[2] \in Addrs
    BY <1>1
  <2> QED BY <1>1, <1>2, <1>3, <1>4, <2>1 DEF Swap, StayStep, Steady
<1>5. ASSUME NEW c \in Claims, Query(c[1], c[2])
      PROVE  TableInv' /\ StayStep
  <2>1. PICK i \in Ids, a \in Addrs : i = c[1] /\ a = c[2]
    BY <1>1
  <2>2. known' \in [Addrs -> Ids \union {NoNode}] /\ known'[a] = i
    BY <1>5, <2>1, ClaimIsKnown DEF Query, TableInv
  <2>3. Sound(table') /\ (table' = table \/ KeepsSteady(table, table', i, a, 1))
    BY <1>1, <1>5, <2>1, NewNodeKeepsSteady DEF Query
  <2>4. StayStep
    BY <2>2, <2>3 DEF StayStep, KeepsSteady, Steady
  <2> QED BY <1>2, <1>3, <1>5, <2>2, <2>3, <2>4 DEF Query
<1>6. ASSUME NEW c \in Claims, NEW named \in {{}} \union {{d} : d \in Named}, Answer(c[1], c[2], named)
      PROVE  TableInv' /\ StayStep
  <2>1. PICK i \in Ids, a \in Addrs : i = c[1] /\ a = c[2]
    BY <1>1
  <2>2. known' \in [Addrs -> Ids \union {NoNode}] /\ known'[a] = i
    BY <1>6, <2>1, ClaimIsKnown DEF Answer, TableInv
  <2>3. PICK t \in NewNode(table, i, a, 2) :
           table' \in IF named = {} THEN {t} ELSE UNION {NewNode(t, d[1], d[2], 0) : d \in named}
    BY <1>6, <2>1 DEF Answer
  <2>4. Sound(t) /\ KeepsSteady(table, t, i, a, 2)
    BY <1>1, NewNodeKeepsSteady
  <2>5. Sound(table') /\ \A j \in Ids : Steady(t.node[j]) => table'.node[j] # NoNode /\ table'.node[j].addr = t.node[j].addr
    <3>1. CASE named = {}
      BY <2>3, <2>4, <3>1 DEF Steady
    <3>2. CASE named # {}
      <4>1. PICK d \in named : table' \in NewNode(t, d[1], d[2], 0)
        BY <2>3, <3>2
      <4>2. d[1] \in Ids /\ d[2] \in Addrs
        BY <1>1, <4>1
      <4>3. Sound(table') /\ KeepsSteady(t, table', d[1], d[2], 0)
        BY <1>1, <2>4, <4>1, <4>2, NewNodeKeepsSteady
      <4> QED BY <4>3 DEF KeepsSteady, Steady
    <3> QED BY <3>1, <3>2
  <2>6. StayStep
    BY <2>2, <2>4, <2>5 DEF StayStep, KeepsSteady
  <2> QED BY <1>2, <1>3, <1>6, <2>2, <2>5, <2>6 DEF Answer
<1>7. ASSUME NEW c \in Faulty, FaultyAnswer(c[1], c[2])
      PROVE  TableInv' /\ StayStep
  <2>1. PICK i \in Ids, a \in Addrs : i = c[1] /\ a = c[2]
    BY <1>1
  <2>2. known' \in [Addrs -> Ids \union {NoNode}] /\ known'[a] = i
    BY <1>7, <2>1, ClaimIsKnown DEF FaultyAnswer, TableInv
  <2>3. PICK t \in {table} \union NewNode(table, i, a, 2) : table' = Condemned(t, i)
    BY <1>7, <2>1 DEF FaultyAnswer
  <2>4. Sound(t) /\ (t = table \/ KeepsSteady(table, t, i, a, 2))
    BY <1>1, <2>3, NewNodeKeepsSteady
  <2>5. /\ Sound(table')
        /\ \A j \in Ids : t.node[j] # NoNode => table'.node[j] # NoNode /\ table'.node[j].addr = t.node[j].addr
    BY <2>3, <2>4, CondemnedStays
  <2>6. StayStep
    BY <2>2, <2>4, <2>5 DEF StayStep, KeepsSteady, Steady
  <2> QED BY <1>2, <1>3, <1>7, <2>1, <2>2, <2>5, <2>6 DEF FaultyAnswer
<1>8. ASSUME NEW c \in Claims, LateAnswer(c[1], c[2])
      PROVE  TableInv' /\ StayStep
  <2>1. PICK i \in Ids, a \in Addrs : i = c[1] /\ a = c[2]
    BY <1>1
  <2>2. known' \in [Addrs -> Ids \union {NoNode}]
    BY <1>8, <2>1, ClaimIsKnown DEF LateAnswer, TableInv
  <2>3. table' \in {table, Condemned(table, i)}
    BY <1>8, <2>1 DEF LateAnswer
  <2>4. /\ Sound(table')
        /\ \A j \in Ids : table.node[j] # NoNode => table'.node[j] # NoNode /\ table'.node[j].addr = table.node[j].addr
    <3>1. CASE table' = table
      BY <1>1, <3>1
    <3>2. CASE table' = Condemned(table, i)
      BY <1>1, <3>2, CondemnedStays
    <3> QED BY <2>3, <3>1, <3>2
  <2>5. StayStep
    BY <2>4 DEF StayStep, Steady
  <2> QED BY <1>2, <1>3, <1>8, <2>2, <2>4, <2>5 DEF LateAnswer
<1>9. ASSUME NEW new \in OwnIds, Adopt(new)
      PROVE  TableInv' /\ own' # own
  <2>1. own' \in Ids /\ own' \in OwnIds /\ table' = EmptyTable' /\ own' # own
    BY <1>9, RoutingTableAssumption DEF Adopt, EmptyTable
  <2>2. (own \in Ids => WellFormed(EmptyTable) /\ Halved(EmptyTable))'
    BY EmptyTableIsHalved, PTL
  <2>3. WellFormed(table)' /\ Halved(table)'
    BY <2>1, <2>2
  <2>4. table'.node[own'] = NoNode
    BY <2>1 DEF EmptyTable
  <2> QED BY <1>2, <1>9, <2>1, <2>3, <2>4 DEF Adopt, TableInv, TableTypeOK, WellFormed
<1>10. ASSUME NEW i \in Held(table), NotHeard(i) \/ NoAnswer(i)
       PROVE  TableInv' /\ StayStep
  <2>1. PICK n \in Entry : n = table.node[i]
    BY <1>2 DEF Held
  <2>2. /\ [n EXCEPT !.heard = FALSE] \in Entry /\ [n EXCEPT !.heard = FALSE].addr = n.addr
        /\ [n EXCEPT !.answered = FALSE] \in Entry /\ [n EXCEPT !.answered = FALSE].addr = n.addr
    BY DEF Entry
  <2>3. PICK m \in Entry : m.addr = table.node[i].addr /\ Turns(i, m)
    BY <1>10, <2>1, <2>2 DEF NotHeard, NoAnswer
  <2> QED BY <1>1, <1>2, <1>3, <2>3, TurnsKeeps DEF Turns
<1>11. CASE Idle
  <2> DEFINE nodes == [j \in Ids |-> IF table.node[j] = NoNode THEN NoNode ELSE [table.node[j] EXCEPT !.idle = TRUE]]
  <2>1. table' = [table EXCEPT !.node = nodes] /\ UNCHANGED <<own, black, known, uptime>>
    BY <1>11 DEF Idle
  <2>2. ASSUME NEW j \in Ids, table.node[j] # NoNode
        PROVE  nodes[j] \in Entry /\ nodes[j].addr = table.node[j].addr /\ nodes[j] # NoNode
    <3>1. PICK n \in Entry : n = table.node[j]
      BY <1>2, <2>2
    <3>2. nodes[j] = [n EXCEPT !.idle = TRUE]
      BY <2>2, <3>1
    <3>3. NoNode \notin Entry
      BY RoutingTableAssumption
    <3> HIDE DEF nodes
    <3> QED BY <3>1, <3>2, <3>3 DEF Entry
  <2>3. nodes \in [Ids -> Entry \union {NoNode}] /\ nodes[own] = NoNode
    BY <1>1, <2>2 DEF Sound
  <2> HIDE DEF nodes
  <2>4. table' = [room |-> table.room, node |-> nodes] /\ table'.room = table.room /\ table'.node = nodes
    BY <1>1, <2>1 DEF Sound, WellFormed
  <2>5. WellFormed(table') /\ Firsts(table') = Firsts(table)
    BY <1>1, <2>3, <2>4 DEF Sound, WellFormed, Firsts
  <2>6. (\A f : End(table', f) = End(table, f)) /\ \A f : First(table', f) = First(table, f)
    BY <2>5 DEF End, First
  <2>7. Sound(table')
    BY <1>1, <2>3, <2>4, <2>5, <2>6 DEF Sound, Halved
  <2>8. StayStep
    BY <2>2, <2>4 DEF StayStep, Steady
  <2> QED BY <1>2, <1>3, <2>1, <2>7, <2>8
<1>12. CASE Uptime
  BY <1>1, <1>2, <1>3, <1>12 DEF Uptime, StayStep, Steady
<1> QED BY <1>4, <1>5, <1>6, <1>7, <1>8, <1>9, <1>10, <1>11, <1>12 DEF TableNext

LEMMA TableHoldsInv == TableSpec => []TableInv
<1>1. TableInit => TableInv
  <2> SUFFICES ASSUME TableInit PROVE TableInv
    OBVIOUS
  <2>1. own \in OwnIds /\ own \in Ids /\ table = EmptyTable
    BY RoutingTableAssumption DEF TableInit
  <2>2. WellFormed(table) /\ Halved(table) /\ table.node[own] = NoNode
    BY <2>1, EmptyTableIsHalved DEF EmptyTable
  <2> QED BY <2>1, <2>2 DEF TableInit, TableInv, TableTypeOK, WellFormed
<1>2. TableInv /\ [TableNext]_tableVars => TableInv'
  <2> SUFFICES ASSUME TableInv, UNCHANGED tableVars PROVE TableInv'
    BY TableStep
  <2>1. own' = own /\ table' = table /\ black' = black /\ known' = known /\ uptime' = uptime
    BY DEF tableVars
  <2>2. TableTypeOK'
    BY <2>1 DEF TableInv, TableTypeOK
  <2>3. Halved(table)'
    BY <2>1 DEF TableInv, Halved, AroundOwn, First, Firsts, End
  <2> QED BY <2>2, <2>3 DEF TableInv
<1> QED BY <1>1, <1>2, PTL DEF TableSpec

\* Wherever nodes come from, and whichever ids we had, the buckets cover the ids in
\* halves that get smaller only towards our own id: the table stays fine around us and
\* coarse far from us.
THEOREM BucketsSplitAroundUs == TableSpec => []SplitAroundSelf
<1>1. TableInv => SplitAroundSelf
  <2> SUFFICES ASSUME TableInv, NEW f \in Firsts(table), f # First(table, own)
               PROVE  LET size == End(table, f) - f
                      IN  own \div (2 * size) = f \div (2 * size) /\ f % size = 0
    BY DEF SplitAroundSelf
  <2>1. WellFormed(table) /\ f \in Ids /\ f \in Nat /\ own \in Nat
    BY IdsInRange, RoutingTableAssumption DEF TableInv, TableTypeOK, WellFormed, Firsts
  <2>2. PICK size \in Nat \ {0} : size = End(table, f) - f
    <3>1. End(table, f) \in f + 1 .. 2^Bits /\ 2^Bits \in Nat
      BY <2>1, EndOfBucket, IdsInRange
    <3> QED BY <2>1, <3>1
  <2>3. PICK q \in Nat : f = q * size
    BY <2>2 DEF TableInv, Halved
  <2>4. PICK r \in Nat : {f, own} \subseteq r * (2 * size) .. (r + 1) * (2 * size) - 1
    BY <2>2 DEF TableInv, Halved, AroundOwn
  <2>5. PICK m \in Nat \ {0} : m = 2 * size
    BY <2>2
  <2>6. r * m \in Nat /\ (r + 1) * m \in Nat
    BY <2>5, SMT
  <2>7. r * m <= f /\ f < (r + 1) * m /\ r * m <= own /\ own < (r + 1) * m
    BY <2>1, <2>4, <2>5, <2>6
  <2>8. f \div m = r /\ own \div m = r
    BY <2>1, <2>5, <2>7, QuotientBetweenMultiples
  <2>9. f % size = 0
    BY <2>2, <2>3, RemainderOfMultiple
  <2> QED BY <2>2, <2>5, <2>8, <2>9
<1> QED BY <1>1, TableHoldsInv, PTL

\* A node that is good and was heard keeps its place, whatever others send and however
\* often its bucket is split, as long as our id stays; and only its own id's claim moves
\* it to another socket.
THEOREM GoodNodesStay == TableSpec => GoodNodeStays
<1>1. TableInv /\ [TableNext]_tableVars =>
         [\A i \in Held(table) :
             own' = own /\ Good(table.node[i]) /\ table.node[i].heard =>
                 /\ table'.node[i] # NoNode
                 /\ table'.node[i].addr = table.node[i].addr \/ known'[table'.node[i].addr] = i]_tableVars
  <2> SUFFICES ASSUME TableInv, TableNext, NEW i \in Held(table), own' = own,
                      Good(table.node[i]), table.node[i].heard
               PROVE  /\ table'.node[i] # NoNode
                      /\ table'.node[i].addr = table.node[i].addr \/ known'[table'.node[i].addr] = i
    OBVIOUS
  <2>1. StayStep
    BY TableStep
  <2> QED BY <2>1 DEF StayStep, Steady, Held
<1> QED BY <1>1, TableHoldsInv, PTL DEF TableSpec, GoodNodeStays
=============================================================================
