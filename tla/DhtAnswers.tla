----------------------------- MODULE DhtAnswers -----------------------------
(***************************************************************************)
(* What a DHT node keeps to answer others (src/roastmesh/dht.py): the      *)
(* secrets its tokens are made of (TokenSecrets), the peers announced to   *)
(* it (PeerStore), and the handlers of get_peers and announce_peer.        *)
(*                                                                         *)
(* A token is a hash of the secret and of the socket it was given to: here *)
(* it is the secret, by how many rotations it is old, and belongs to that  *)
(* socket.  Nothing rotates the secrets but a query that finds them due.   *)
(* Ages are counted in ticks and saturate one above what the code          *)
(* compares them with.                                                     *)
(***************************************************************************)
EXTENDS Naturals, Sequences, SequencesExt

CONSTANTS
    Queriers,       \* sockets that ask and announce, each for itself
    NoToken,
    MinRotate, MaxRotate,   \* TOKEN_ROTATE_MIN_S, and with the jitter
    PeerExpiry,             \* PEER_EXPIRY_S
    MaxPeersReply           \* MAX_PEERS_REPLY

ASSUME DhtAnswersAssumption ==
    /\ {MinRotate, MaxRotate, PeerExpiry, MaxPeersReply} \subseteq Nat \ {0}
    /\ MinRotate <= MaxRotate
    /\ NoToken \notin [rotations : 0 .. 2, age : Nat]

VARIABLES
    untilRotation,  \* ticks until the secrets are due to be rotated
    token,      \* token[q]: the last token q was given: its secret and its age
    store,      \* the peers of the topic in the order they came, and the age of their announcement
    announced   \* announced[q]: how long ago an announcement of q was last accepted

answerVars == <<untilRotation, token, store, announced>>

TokenState == [rotations: 0 .. 2, age: 0 .. MinRotate + 1]
Announcement == [peer: Queriers, age: 0 .. PeerExpiry + 1]

AnswersTypeOK ==
    /\ untilRotation \in 0 .. MaxRotate
    /\ token \in [Queriers -> TokenState \union {NoToken}]
    /\ store \in Seq(Announcement) /\ Len(store) <= Cardinality(Queriers)
    /\ announced \in [Queriers -> 0 .. PeerExpiry + 1]

AnswersInit ==
    /\ untilRotation \in MinRotate .. MaxRotate
    /\ token = [q \in Queriers |-> NoToken]
    /\ store = << >>
    /\ announced = [q \in Queriers |-> PeerExpiry + 1]

-----------------------------------------------------------------------------
\* _maybe_rotate.
Rotates == untilRotation = 0
Turned(tk) == IF tk = NoToken THEN tk ELSE [tk EXCEPT !.rotations = IF @ < 2 THEN @ + 1 ELSE 2]
Rotation == IF Rotates THEN [q \in Queriers |-> Turned(token[q])] ELSE token
NextDue == IF Rotates THEN MinRotate .. MaxRotate ELSE {untilRotation}

\* token_valid: made with the current secret or the one before it.
Valid_CurrentOnly(tk) == tk # NoToken /\ tk.rotations = 0
Valid(tk) == tk # NoToken /\ tk.rotations <= 1

Fresh(an) == an.age <= PeerExpiry
Position(q) == {n \in DOMAIN store : store[n].peer = q}

\* A peer that is stored already keeps its place.
Stored_KeepsAge(q) == IF Position(q) = {} THEN Append(store, [peer |-> q, age |-> 0]) ELSE store
Stored(q) ==
    IF Position(q) = {} THEN Append(store, [peer |-> q, age |-> 0])
    ELSE [n \in DOMAIN store |-> IF n \in Position(q) THEN [peer |-> q, age |-> 0] ELSE store[n]]

\* get_peers expires the announcements, and nothing else does; the answer names the
\* first of those that are left.
Unexpired ==
    LET kept[n \in 0 .. Len(store)] ==
            IF n = 0 THEN << >>
            ELSE IF Fresh(store[n]) THEN Append(kept[n - 1], store[n]) ELSE kept[n - 1]
    IN  kept[Len(store)]
Told == {Unexpired[n].peer : n \in DOMAIN Unexpired \intersect 1 .. MaxPeersReply}

GetPeers(q) ==
    /\ untilRotation' \in NextDue
    /\ token' = [Rotation EXCEPT ![q] = [rotations |-> 0, age |-> 0]]
    /\ store' = Unexpired
    /\ UNCHANGED announced

\* announce_peer, with the last token q was given: the secrets rotate before it is looked at.
\* One that names no valid port is answered like any other, and nothing is stored.
AnnouncePeer(q) ==
    /\ untilRotation' \in NextDue
    /\ token' = Rotation
    /\ \/ /\ Valid(Rotation[q])
          /\ store' = Stored(q)
          /\ announced' = [announced EXCEPT ![q] = 0]
       \/ UNCHANGED <<store, announced>>  \* a wrong token, or no valid port

Older(age, most) == IF age <= most THEN age + 1 ELSE age
Tick ==
    /\ untilRotation' = IF untilRotation = 0 THEN 0 ELSE untilRotation - 1
    /\ token' = [q \in Queriers |-> IF token[q] = NoToken THEN NoToken
                                    ELSE [token[q] EXCEPT !.age = Older(@, MinRotate)]]
    /\ store' = [n \in DOMAIN store |-> [store[n] EXCEPT !.age = Older(@, PeerExpiry)]]
    /\ announced' = [q \in Queriers |-> Older(announced[q], PeerExpiry)]

AnswersNext == Tick \/ \E q \in Queriers : GetPeers(q) \/ AnnouncePeer(q)

AnswersSpec == AnswersInit /\ [][AnswersNext]_answerVars

-----------------------------------------------------------------------------
(***************************************************************************)
(* Properties.                                                             *)
(***************************************************************************)

\* An announcement with a token not older than the shortest rotation is accepted,
\* however long the node was idle before and after it gave the token.
TokenGrace ==
    \A q \in Queriers :
        token[q] # NoToken /\ token[q].age < MinRotate => Valid(Rotation[q])

\* Whoever asks is told the peers whose announcement was accepted and has not expired,
\* all of them unless they are more than an answer takes, and nobody else.
TellsWhoAnnounced ==
    LET current == {q \in Queriers : announced[q] <= PeerExpiry}
    IN  /\ Told \subseteq current
        /\ Cardinality(current) <= MaxPeersReply => Told = current
=============================================================================
