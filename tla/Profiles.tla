------------------------------ MODULE Profiles ------------------------------
(***************************************************************************)
(* The signed profile of a user, with a name and the users liked           *)
(* (src/roastmesh/profile.py), changed by commands, which also run from    *)
(* the window and may overlap; served to whoever syncs; and kept in the    *)
(* tables users and user_likes of the peers (src/roastmesh/index/          *)
(* repository.py), beside favorites, which stay local.  The file is        *)
(* rewritten in place: it is torn while it is written, and after a kill.   *)
(***************************************************************************)
EXTENDS Naturals

CONSTANTS
    Changers, Readers,       \* users who change their profile, and users who sync with them
    UserNames, DefaultName,
    Commands, Syncs,        \* processes of a user that change the profile, and that sync
    MaxCommands, MaxKills,  \* bounds
    NoProfile, Torn, NoRow, NoSync

ASSUME ProfilesAssumption == DefaultName \notin UserNames /\ {MaxCommands, MaxKills} \subseteq Nat

VARIABLES
    saved,       \* saved[u]: profile.json
    command,    \* command[u][c]: how far it is, what it does, and the profile it writes
    user,       \* user[v][u]: the row of u in the users table of v
    likes,      \* likes[v]: the rows <<liker, subject>> of user_likes
    fetched,    \* fetched[v][u][s]: the profile of u that a sync of v with u holds
    online,     \* the users whose node serves
    commands, kills

profileVars == <<saved, command, user, likes, fetched, online, commands, kills>>

Users == Changers \union Readers
Profile == [name: UserNames \union {DefaultName}, likes: SUBSET Users]
Change == [kind: {"name"}, value: UserNames] \union [kind: {"like", "unlike"}, value: Users]
UserRow == [name: UserNames \union {DefaultName, NoProfile}, favorite: BOOLEAN]
Ended == [step |-> "none"]

ProfilesTypeOK ==
    /\ saved \in [Users -> Profile \union {NoProfile, Torn}]
    /\ \A u \in Users, c \in Commands :
        command[u][c] = Ended \/ command[u][c] \in [step: {"truncate", "write", "mirror"}, change: Change, next: Profile]
    /\ user \in [Users -> [Users -> UserRow \union {NoRow}]] /\ likes \in [Users -> SUBSET (Users \X Users)]
    /\ fetched \in [Users -> [Users -> [Syncs -> Profile \union {NoProfile, NoSync}]]]
    /\ online \subseteq Users /\ commands \in 0 .. MaxCommands /\ kills \in 0 .. MaxKills

ProfilesInit ==
    /\ saved = [u \in Users |-> NoProfile] /\ command = [u \in Users |-> [c \in Commands |-> Ended]]
    /\ user = [v \in Users |-> [u \in Users |-> NoRow]] /\ likes = [v \in Users |-> {}]
    /\ fetched = [v \in Users |-> [u \in Users |-> [s \in Syncs |-> NoSync]]]
    /\ online \in SUBSET Readers /\ commands = 0 /\ kills = 0

-----------------------------------------------------------------------------
\* load_or_default_profile, and the fields a command overrides.
Loaded(u) == IF saved[u] = NoProfile THEN [name |-> DefaultName, likes |-> {}] ELSE saved[u]
Overridden(profile, change) ==
    CASE change.kind = "name" -> [profile EXCEPT !.name = change.value]
      [] change.kind = "like" -> [profile EXCEPT !.likes = @ \union {change.value}]
      [] change.kind = "unlike" -> [profile EXCEPT !.likes = @ \ {change.value}]

\* A command starts; one that finds the file torn fails.
StartCommand(u, c) ==
    /\ command[u][c] = Ended /\ commands < MaxCommands /\ saved[u] # Torn
    /\ \E change \in Change :
        /\ change.value # u
        /\ command' = [command EXCEPT ![u][c] =
                [step |-> "truncate", change |-> change, next |-> Overridden(Loaded(u), change)]]
    /\ commands' = commands + 1
    /\ UNCHANGED <<saved, user, likes, fetched, online, kills>>

\* save_profile: write_text truncates the file, then writes it.
Truncate(u, c) ==
    /\ command[u][c].step = "truncate" /\ saved' = [saved EXCEPT ![u] = Torn]
    /\ command' = [command EXCEPT ![u][c].step = "write"]
    /\ UNCHANGED <<user, likes, fetched, online, commands, kills>>

Write(u, c) ==
    /\ command[u][c].step = "write" /\ saved' = [saved EXCEPT ![u] = command[u][c].next]
    /\ command' = [command EXCEPT ![u][c].step = "mirror"]
    /\ UNCHANGED <<user, likes, fetched, online, commands, kills>>

\* upsert_user_from_profile leaves the favorite of a row alone; ensure_user makes a bare row.
Upserted_OnlyNew(r, name) == IF r = NoRow THEN [name |-> name, favorite |-> FALSE] ELSE r
Upserted(r, name) == IF r = NoRow THEN [name |-> name, favorite |-> FALSE] ELSE [r EXCEPT !.name = name]
Ensured(r) == IF r = NoRow THEN [name |-> NoProfile, favorite |-> FALSE] ELSE r

\* add_user_like, remove_user_like.
AddLikes(rows, liker, subjects) == rows \union ({liker} \X subjects)
RemoveLike(rows, liker, subject) == rows \ {<<liker, subject>>}

\* The own index takes up the change.
Mirror(u, c) ==
    /\ command[u][c].step = "mirror"
    /\ LET change == command[u][c].change IN
        /\ user' = CASE change.kind = "name" -> [user EXCEPT ![u][u] = Upserted(@, change.value)]
                    [] change.kind = "like" -> [user EXCEPT ![u][change.value] = Ensured(@)]
                    [] change.kind = "unlike" -> user
        /\ likes' = CASE change.kind = "name" -> likes
                      [] change.kind = "like" -> [likes EXCEPT ![u] = AddLikes(@, u, {change.value})]
                      [] change.kind = "unlike" -> [likes EXCEPT ![u] = RemoveLike(@, u, change.value)]
    /\ command' = [command EXCEPT ![u][c] = Ended]
    /\ UNCHANGED <<saved, fetched, online, commands, kills>>

KillCommand(u, c) ==
    /\ command[u][c] # Ended /\ kills < MaxKills /\ kills' = kills + 1
    /\ command' = [command EXCEPT ![u][c] = Ended]
    /\ UNCHANGED <<saved, user, likes, fetched, online, commands>>

\* user favorite, user unfavorite.
Favorite(v, u, favorite) ==
    /\ v # u /\ user' = [user EXCEPT ![v][u] = [Ensured(@) EXCEPT !.favorite = favorite]]
    /\ favorite \/ user[v][u] # NoRow
    /\ UNCHANGED <<saved, command, likes, fetched, online, commands, kills>>

-----------------------------------------------------------------------------
\* sync_with_peer asks for the profile: a torn one is answered with an error, which is no profile.
Fetch(v, u, s) ==
    /\ v \in online /\ fetched[v][u][s] = NoSync /\ v # u
    /\ fetched' = [fetched EXCEPT ![v][u][s] = IF saved[u] = Torn THEN NoProfile ELSE saved[u]]
    /\ UNCHANGED <<saved, command, user, likes, online, commands, kills>>

\* The sync goes on to the feeds, and ends; persist_peer_profile only adds likes.
Persist(v, u, s) ==
    /\ fetched[v][u][s] # NoSync /\ fetched' = [fetched EXCEPT ![v][u][s] = NoSync]
    /\ LET p == fetched[v][u][s] IN
        IF p = NoProfile THEN UNCHANGED <<user, likes>>
        ELSE /\ user' = [user EXCEPT ![v][u] = Upserted(@, p.name)]
             /\ likes' = [likes EXCEPT ![v] = AddLikes(@, u, p.likes)]
    /\ UNCHANGED <<saved, command, online, commands, kills>>

\* The node stops, or is killed, with its syncs; it starts again.
Stop(v) ==
    /\ v \in online /\ kills < MaxKills /\ kills' = kills + 1 /\ online' = online \ {v}
    /\ fetched' = [fetched EXCEPT ![v] = [u \in Users |-> [s \in Syncs |-> NoSync]]]
    /\ UNCHANGED <<saved, command, user, likes, commands>>

Serve(v) ==
    /\ v \notin online /\ online' = online \union {v}
    /\ UNCHANGED <<saved, command, user, likes, fetched, commands, kills>>

CommandStep(u, c) == Truncate(u, c) \/ Write(u, c) \/ Mirror(u, c)

ProfilesNext ==
    \/ \E u \in Changers, c \in Commands : StartCommand(u, c) \/ CommandStep(u, c) \/ KillCommand(u, c)
    \/ \E v \in Readers, u \in Changers :
        \/ Stop(v) \/ Serve(v) \/ \E favorite \in BOOLEAN : Favorite(v, u, favorite)
        \/ \E s \in Syncs : Fetch(v, u, s) \/ Persist(v, u, s)

\* A node that serves syncs with every peer it hears, in a task of its own, again and again.
ProfilesFairness ==
    /\ \A u \in Changers : WF_profileVars(\E c \in Commands : CommandStep(u, c))
    /\ \A v \in Readers, u \in Changers :
        /\ WF_profileVars(\E s \in Syncs : Fetch(v, u, s))
        /\ WF_profileVars(\E s \in Syncs : Persist(v, u, s))

-----------------------------------------------------------------------------
(***************************************************************************)
(* Properties.                                                             *)
(***************************************************************************)

\* Who changes no more what they are called and whom they like is in the end shown so
\* by everyone who syncs with them, whatever row was there before and whichever sync held
\* an older profile, unless the file was left torn.
Settled(u) == saved[u] \in Profile /\ \A c \in Commands : command[u][c] = Ended
ShownTo(v, u) ==
    /\ saved[u] \in Profile /\ user[v][u] # NoRow /\ user[v][u].name = saved[u].name
    /\ {u} \X saved[u].likes \subseteq likes[v]

ProfilesArrive ==
    \A u \in Changers, v \in Readers : v # u => (<>[](Settled(u) /\ v \in online) => <>[]ShownTo(v, u))
=============================================================================
