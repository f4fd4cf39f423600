-------------------------------- MODULE Limits --------------------------------
(***************************************************************************)
(* How many requests a DHT node takes up (src/roastmesh/dht.py): a bucket   *)
(* of tokens for all of them together, refilled only when it is found       *)
(* empty, and then a limit for each source, whose table is bounded too.     *)
(* Any number of requests may come between two ticks of the clock.          *)
(***************************************************************************)
EXTENDS Naturals, Sequences, FiniteSets

CONSTANTS
    Sources,
    Capacity, PerToken,     \* RATE_LIMIT_CAPACITY; the ticks in which one token accrues
    Burst, Window, Block,   \* rate * window_s requests, window_s, block_s
    TrackLimit,             \* SOURCE_TRACK_LIMIT
    MaxNow                  \* bound on the clock

ASSUME LimitsAssumption ==
    /\ {Capacity, PerToken, Burst, Window, Block, TrackLimit, MaxNow} \subseteq Nat \ {0}
    /\ IsFiniteSet(Sources)

VARIABLES
    now,
    tokens, last,   \* of the TokenBucket
    seen,           \* seen[s]: the entry of s in the SourceLimiter, one of no requests if there is none
    taken,          \* requests the bucket let through
    sent, burst     \* the last requests of each source, newest first, and whether it has
                    \* sent a burst of them, which is forgotten once Block has passed

limitVars == <<now, tokens, last, seen, taken, sent, burst>>

NoEntry == [count |-> 0, start |-> 0, until |-> 0]
Tracked == {s \in Sources : seen[s] # NoEntry}

LimitsTypeOK ==
    /\ now \in 0 .. MaxNow /\ tokens \in 0 .. Capacity /\ last \in 0 .. now
    /\ seen \in [Sources -> [count : 0 .. Burst, start : 0 .. now, until : 0 .. MaxNow + Block]]
    /\ Cardinality(Tracked) <= TrackLimit
    /\ taken \in Nat /\ sent \in [Sources -> Seq(0 .. now)] /\ burst \in [Sources -> 0 .. MaxNow + Block]

LimitsInit ==
    /\ now = 0 /\ tokens = Capacity /\ last = 0 /\ seen = [s \in Sources |-> NoEntry]
    /\ taken = 0 /\ sent = [s \in Sources |-> << >>] /\ burst = [s \in Sources |-> 0]

-----------------------------------------------------------------------------
Least(a, b) == IF a < b THEN a ELSE b

\* TokenBucket.take
Refilled == IF tokens > 0 THEN tokens ELSE Least(Capacity, (now - last) \div PerToken)
Checked_FromTheStart == 0
Checked == IF tokens > 0 THEN last ELSE now

\* SourceLimiter._evict: blocked sources survive, unless that frees nothing.
Evicted ==
    LET idle == {s \in Sources : now >= seen[s].until /\ now - seen[s].start > Window}
    IN  IF Cardinality(Tracked \ idle) >= TrackLimit THEN [s \in Sources |-> NoEntry]
        ELSE [s \in Sources |-> IF s \in idle THEN NoEntry ELSE seen[s]]

\* SourceLimiter.allow
Begun == [count |-> 1, start |-> now, until |-> 0]
Over_Never(e) == FALSE
Over(e) == now - e.start > Window
Counted(e) ==
    [e EXCEPT !.count = IF @ < Burst THEN @ + 1 ELSE @,
              !.until = IF e.count + 1 >= Burst THEN now + Block ELSE @]

Allow(s) ==
    LET e == seen[s] IN
    \/ e = NoEntry
       /\ seen' = [IF Cardinality(Tracked) >= TrackLimit THEN Evicted ELSE seen EXCEPT ![s] = Begun]
    \/ e # NoEntry /\ now < e.until /\ UNCHANGED seen
    \/ e # NoEntry /\ now >= e.until /\ Over(e)
       /\ seen' = [seen EXCEPT ![s] = [Begun EXCEPT !.until = e.until]]
    \/ e # NoEntry /\ now >= e.until /\ ~ Over(e) /\ seen' = [seen EXCEPT ![s] = Counted(e)]

\* _handle_message, one request: the bucket first, then its source.
Request(s) ==
    /\ tokens' = IF Refilled > 0 THEN Refilled - 1 ELSE 0
    /\ last' = Checked
    /\ IF Refilled = 0 THEN UNCHANGED <<seen, taken>> ELSE Allow(s) /\ taken' = taken + 1
    /\ sent' = [sent EXCEPT ![s] = SubSeq(<<now>> \o @, 1, Least(Burst, Len(@) + 1))]
    /\ burst' = [burst EXCEPT ![s] =
                    IF Len(sent'[s]) = Burst /\ now - sent'[s][Burst] <= Window THEN now + Block ELSE @]
    /\ UNCHANGED now

Passes ==
    /\ now < MaxNow /\ now' = now + 1
    /\ UNCHANGED <<tokens, last, seen, taken, sent, burst>>

LimitsNext == (\E s \in Sources : Request(s)) \/ Passes

LimitsSpec == LimitsInit /\ [][LimitsNext]_limitVars

-----------------------------------------------------------------------------
(***************************************************************************)
(* Properties.                                                             *)
(***************************************************************************)

\* Whatever comes in, and whenever the bucket is refilled, no more requests are taken
\* up than it held at first and has accrued since: no stretch of time is paid twice.
AtMostRate == taken * PerToken <= Capacity * PerToken + now

\* A source is ignored only if it really sent a burst within one window, and no longer
\* than the block lasts, although requests are counted in windows that start with the
\* first of them and entries of the table come and go.
QuietIsHeard == \A s \in Sources : now < seen[s].until => now < burst[s]
=============================================================================
