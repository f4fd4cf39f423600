----------------------------- MODULE DeviceSync -----------------------------
(***************************************************************************)
(* The private folder that the paired devices of one person mirror         *)
(* (src/roastmesh/device_sync.py, and _device_watch_loop of net.py).       *)
(*                                                                         *)
(* Each device has the folder and a state file, its manifest: one record   *)
(* per path with the content's hash, a deleted mark and the time the       *)
(* change was noticed.  A session (reconcile_with_device) scans its own    *)
(* folder, asks for the other's manifest, then pulls and pushes one file   *)
(* at a time and saves its manifest at the end.  A step here is what runs  *)
(* between two awaits; the watch loop, the sessions of discovery and of    *)
(* the command line, and the requests served to others interleave.         *)
(*                                                                         *)
(* Every edit writes new bytes, so a content is named by the number of the *)
(* edit that made it, and so is an absence by the edit that deleted; the   *)
(* code sees only whether the bytes of two files are the same.  Clocks are *)
(* perfect: a later stamp is a later time.  Every file fits a message: one *)
(* that is too large is refused, or ends every session that reaches it.    *)
(***************************************************************************)
EXTENDS Naturals, FiniteSets, FiniteSetsExt

CONSTANTS
    Devices,
    Paths,              \* the paths of files; numbers, as they are sorted
    Sessions,           \* slots for running sessions
    NoRecord,           \* a manifest has no record of the path
    NoSession,          \* a slot where no session runs
    WatcherIsPrompt,    \* a user's edit is noticed at once
    EditsDuringSync,    \* users edit while sessions run
    MaxEdits,           \* bound: edits by users
    MaxStamp,           \* bound: changes noticed
    MaxDrops,           \* bound: sessions that end early
    MaxLosses           \* bound: state files lost

ASSUME DeviceSyncAssumption ==
    /\ Paths \subseteq Nat
    /\ {WatcherIsPrompt, EditsDuringSync} \subseteq BOOLEAN
    /\ {MaxEdits, MaxStamp, MaxDrops, MaxLosses} \subseteq Nat

VARIABLES
    disk,       \* disk[d][p]: the file at p on device d
    state,      \* state[d]: the manifest in device d's state file
    session,    \* session[s]: the local variables of a session
    edits, clock, drops, losses     \* how many of each so far

vars == <<disk, state, session, edits, clock, drops, losses>>

File == [edit: 0 .. MaxEdits, live: BOOLEAN]
Record == [edit: 0 .. MaxEdits, live: BOOLEAN, stamp: 1 .. MaxStamp]
Manifest == [Paths -> Record \union {NoRecord}]

ASSUME NoRecordAssumption == NoRecord \notin Record

NoFile == [edit |-> 0, live |-> FALSE]
NoManifest == [p \in Paths |-> NoRecord]

SessionState == [pc: {"manifest", "apply"}, client: Devices, server: Devices,
                 mine: Manifest, theirs: Manifest, pulls: SUBSET Paths, pushes: SUBSET Paths]

ASSUME NoSessionAssumption == NoSession \notin SessionState

TypeOK ==
    /\ disk \in [Devices -> [Paths -> File]]
    /\ state \in [Devices -> Manifest]
    /\ session \in [Sessions -> SessionState \union {NoSession}]
    /\ edits \in 0 .. MaxEdits
    /\ clock \in 0 .. MaxStamp
    /\ drops \in 0 .. MaxDrops
    /\ losses \in 0 .. MaxLosses

Init ==
    /\ disk = [d \in Devices |-> [p \in Paths |-> NoFile]]
    /\ state = [d \in Devices |-> NoManifest]
    /\ session = [s \in Sessions |-> NoSession]
    /\ edits = 0 /\ clock = 0 /\ drops = 0 /\ losses = 0

-----------------------------------------------------------------------------
(***************************************************************************)
(* Scanning and reconciling.                                               *)
(***************************************************************************)
SameBytes(f, g) == f.live = g.live /\ (f.live => f.edit = g.edit)

\* A scan notices a file its record does not describe: other bytes, a file the
\* record marks deleted or does not know, or a recorded file that is gone.
Noticed(f, r) == IF r = NoRecord THEN f.live ELSE ~ SameBytes(f, r)

Scanned_BeforeTheChange(files, prev, now) ==
    [p \in Paths |->
        IF Noticed(files[p], prev[p])
        THEN [edit |-> files[p].edit, live |-> files[p].live, stamp |-> now - 1]
        ELSE prev[p]]

\* scan_folder: a full manifest; what did not change keeps its record.
Scanned(files, prev, now) ==
    [p \in Paths |->
        IF Noticed(files[p], prev[p])
        THEN [edit |-> files[p].edit, live |-> files[p].live, stamp |-> now]
        ELSE prev[p]]

\* A scan of device d's folder, saved: the clock moves if it stamps anything.
Scan(d, files) ==
    /\ state' = [state EXCEPT ![d] = Scanned(files, @, clock + 1)]
    /\ clock' = IF \E p \in Paths : Noticed(files[p], state[d][p]) THEN clock + 1 ELSE clock
    /\ clock' <= MaxStamp  \* bound

\* reconcile: a side with record x must catch up with the other side's y.
Behind_RemoteWins(x, y) ==
    y # NoRecord /\ (x = NoRecord \/ (x.stamp # y.stamp /\ ~ SameBytes(x, y)))

Behind_IgnoresTombstones(x, y) ==
    y # NoRecord /\ y.live /\ (x = NoRecord \/ (x.stamp < y.stamp /\ ~ SameBytes(x, y)))

Behind(x, y) ==
    y # NoRecord /\ (x = NoRecord \/ (x.stamp < y.stamp /\ ~ SameBytes(x, y)))

BehindOn(loser, winner) == {p \in Paths : Behind(loser[p], winner[p])}

-----------------------------------------------------------------------------
(***************************************************************************)
(* The user, the watch loop, and what can happen to the state file.        *)
(***************************************************************************)
\* The user writes or deletes a file.  When the watcher is prompt, the scan
\* that its event starts is over before anything else happens.
UserEdit(d, p) ==
    /\ edits < MaxEdits
    /\ EditsDuringSync \/ \A s \in Sessions : session[s] = NoSession
    /\ \E f \in {[edit |-> edits + 1, live |-> l] : l \in BOOLEAN} :
          /\ f.live \/ disk[d][p].live
          /\ disk' = [disk EXCEPT ![d][p] = f]
    /\ edits' = edits + 1
    /\ IF WatcherIsPrompt THEN Scan(d, disk'[d]) ELSE UNCHANGED <<state, clock>>
    /\ UNCHANGED <<session, drops, losses>>

\* One pass of the watch loop that finds something to notice.
Notice(d) ==
    /\ \E p \in Paths : Noticed(disk[d][p], state[d][p])
    /\ Scan(d, disk[d])
    /\ UNCHANGED <<disk, session, edits, drops, losses>>

\* The state file is unreadable (a write of it was cut short): load_state then
\* takes it as empty, and the next scan starts from nothing.
LoseState(d) ==
    /\ losses < MaxLosses
    /\ state' = [state EXCEPT ![d] = NoManifest]
    /\ losses' = losses + 1
    /\ UNCHANGED <<disk, session, edits, clock, drops>>

-----------------------------------------------------------------------------
(***************************************************************************)
(* A session: reconcile_with_device, and the requests it is answered with. *)
(***************************************************************************)
At(s, pc) == session[s] # NoSession /\ session[s].pc = pc

\* The client is connected and scans its own folder.
Start(s, c, v) ==
    /\ session[s] = NoSession /\ c # v
    /\ Scan(c, disk[c])
    /\ session' = [session EXCEPT ![s] =
                      [pc |-> "manifest", client |-> c, server |-> v, mine |-> state'[c],
                       theirs |-> NoManifest, pulls |-> {}, pushes |-> {}]]
    /\ UNCHANGED <<disk, edits, drops, losses>>

\* The server scans its folder and answers; the client reconciles.
AnswerManifest(s) ==
    LET v == session[s].server
        mine == session[s].mine
    IN  /\ At(s, "manifest")
        /\ Scan(v, disk[v])
        /\ session' = [session EXCEPT ![s] = [@ EXCEPT !.pc = "apply", !.theirs = state'[v],
                                                !.pulls = BehindOn(mine, state'[v]),
                                                !.pushes = BehindOn(state'[v], mine)]]
        /\ UNCHANGED <<disk, edits, drops, losses>>

\* The next path to pull, or to push: the actions are sorted by path.
NextPull(s, p) ==
    At(s, "apply") /\ session[s].pulls # {} /\ p = Min(session[s].pulls)

NextPush(s, p) ==
    /\ At(s, "apply") /\ session[s].pulls = {}
    /\ session[s].pushes # {} /\ p = Min(session[s].pushes)

\* get_file is answered with the server's file as it is now (an error if it is
\* gone: the path is skipped), and the client writes it over its own.
PullFile(s, p) ==
    LET c == session[s].client
        f == disk[session[s].server][p]
        r == session[s].theirs[p]
    IN  /\ NextPull(s, p) /\ r.live
        /\ IF f.live
           THEN /\ disk' = [disk EXCEPT ![c][p] = f]
                /\ session' = [session EXCEPT ![s].pulls = @ \ {p}, ![s].mine[p] = r]
           ELSE /\ session' = [session EXCEPT ![s].pulls = @ \ {p}]
                /\ UNCHANGED disk
        /\ UNCHANGED <<state, edits, clock, drops, losses>>

\* The client deletes its own file.
PullDelete(s, p) ==
    LET r == session[s].theirs[p]
    IN  /\ NextPull(s, p) /\ ~ r.live
        /\ disk' = [disk EXCEPT ![session[s].client][p] = [edit |-> r.edit, live |-> FALSE]]
        /\ session' = [session EXCEPT ![s].pulls = @ \ {p}, ![s].mine[p] = r]
        /\ UNCHANGED <<state, edits, clock, drops, losses>>

\* put_file with the client's file as it is now (skipped if it is gone), and
\* the stamp of the record made when the session started.
PushFile(s, p) ==
    LET v == session[s].server
        f == disk[session[s].client][p]
        r == session[s].mine[p]
    IN  /\ NextPush(s, p) /\ r.live
        /\ IF f.live
           THEN /\ disk' = [disk EXCEPT ![v][p] = f]
                /\ state' = [state EXCEPT ![v][p] = [r EXCEPT !.edit = f.edit]]
           ELSE UNCHANGED <<disk, state>>
        /\ session' = [session EXCEPT ![s].pushes = @ \ {p}]
        /\ UNCHANGED <<edits, clock, drops, losses>>

\* delete_file.
PushDelete(s, p) ==
    LET v == session[s].server
        r == session[s].mine[p]
    IN  /\ NextPush(s, p) /\ ~ r.live
        /\ disk' = [disk EXCEPT ![v][p] = [edit |-> r.edit, live |-> FALSE]]
        /\ state' = [state EXCEPT ![v][p] = r]
        /\ session' = [session EXCEPT ![s].pushes = @ \ {p}]
        /\ UNCHANGED <<edits, clock, drops, losses>>

\* The client saves the manifest it started from, with what it pulled.
Finish(s) ==
    /\ At(s, "apply") /\ session[s].pulls = {} /\ session[s].pushes = {}
    /\ state' = [state EXCEPT ![session[s].client] = session[s].mine]
    /\ session' = [session EXCEPT ![s] = NoSession]
    /\ UNCHANGED <<disk, edits, clock, drops, losses>>

\* The connection is lost, or either device stops.
Drop(s) ==
    /\ drops < MaxDrops /\ session[s] # NoSession
    /\ session' = [session EXCEPT ![s] = NoSession]
    /\ drops' = drops + 1
    /\ UNCHANGED <<disk, state, edits, clock, losses>>

\* The server stops in put_file, between writing the file and saving its state.
DropHalfPut(s, p) ==
    LET f == disk[session[s].client][p]
    IN  /\ drops < MaxDrops
        /\ NextPush(s, p) /\ session[s].mine[p].live /\ f.live
        /\ disk' = [disk EXCEPT ![session[s].server][p] = f]
        /\ session' = [session EXCEPT ![s] = NoSession]
        /\ drops' = drops + 1
        /\ UNCHANGED <<state, edits, clock, losses>>

-----------------------------------------------------------------------------
SessionStep(s) ==
    \/ \E c, v \in Devices : Start(s, c, v)
    \/ AnswerManifest(s)
    \/ \E p \in Paths : PullFile(s, p) \/ PullDelete(s, p) \/ PushFile(s, p) \/ PushDelete(s, p)
    \/ Finish(s)
    \/ Drop(s)
    \/ \E p \in Paths : DropHalfPut(s, p)

Next ==
    \/ \E d \in Devices, p \in Paths : UserEdit(d, p)
    \/ \E d \in Devices : Notice(d) \/ LoseState(d)
    \/ \E s \in Sessions : SessionStep(s)

Spec == Init /\ [][Next]_vars

\* Discovery starts a session with every paired device it finds again, every
\* quarter of an hour, and a session that is not dropped runs to its end.
SyncFairness ==
    \A s \in Sessions :
        /\ \A c, v \in Devices : SF_vars(Start(s, c, v))
        /\ WF_vars(AnswerManifest(s))
        /\ \A p \in Paths : /\ WF_vars(PullFile(s, p) \/ PullDelete(s, p))
                            /\ WF_vars(PushFile(s, p) \/ PushDelete(s, p))
        /\ WF_vars(Finish(s))

FairSpec == Spec /\ SyncFairness

-----------------------------------------------------------------------------
\* Newest write wins (src/ARCHITECTURE.md): what a device has at a path, or the
\* deletion that left it with nothing, only ever gives way to a later edit.
NewestWins ==
    [][\A d \in Devices, p \in Paths : disk'[d][p].edit >= disk[d][p].edit]_vars

\* When the edits are over and sessions go on, all devices end up with the same
\* files, whatever was dropped, lost or edited in the middle of a session.
EventuallyMirrored ==
    <>[](\A d, e \in Devices, p \in Paths : SameBytes(disk[d][p], disk[e][p]))
=============================================================================
