-------------------------- MODULE DeviceSyncProofs --------------------------
(***************************************************************************)
(* What DeviceSync's specification guarantees for every number of devices, *)
(* paths, sessions, edits and faults: its state is well typed.  And when   *)
(* one session runs at a time, to its end, and users edit between sessions *)
(* with their watcher awake, the newest write wins: no file gives way to   *)
(* an older one.                                                           *)
(*                                                                         *)
(* The invariant is about what each device believes to have, which is its  *)
(* state file, or during a session the manifest its client will save: that *)
(* describes the disk, and orders the records of a path as their edits.    *)
(***************************************************************************)
EXTENDS DeviceSync, NaturalLemmas

-----------------------------------------------------------------------------
(***************************************************************************)
(* Type correctness.                                                       *)
(***************************************************************************)
\* What a session still has to transfer has a record.
DueIsRecorded ==
    \A s \in Sessions : session[s] # NoSession =>
        /\ \A p \in session[s].pulls : session[s].theirs[p] # NoRecord
        /\ \A p \in session[s].pushes : session[s].mine[p] # NoRecord

TypeInv == TypeOK /\ DueIsRecorded

\* What the assumptions say of the bounds and of absent records.
LEMMA BoundFacts ==
  MaxEdits \in Nat /\ MaxStamp \in Nat /\ MaxDrops \in Nat /\ MaxLosses \in Nat /\ NoRecord \notin Record
BY DeviceSyncAssumption, NoRecordAssumption

\* A scan stamps with a time within the bound and touches one manifest.
LEMMA ScanKeepsType ==
  ASSUME TypeOK, NEW d \in Devices, NEW files \in [Paths -> File], Scan(d, files)
  PROVE  /\ state' \in [Devices -> Manifest] /\ clock' \in 0 .. MaxStamp /\ clock <= clock'
         /\ \A e \in Devices \ {d} : state'[e] = state[e]
         /\ state'[d] = Scanned(files, state[d], clock + 1)
<1> DEFINE m == Scanned(files, state[d], clock + 1)
<1>1. state \in [Devices -> Manifest] /\ clock \in 0 .. MaxStamp /\ MaxStamp \in Nat
  BY BoundFacts DEF TypeOK
<1>2. state' = [state EXCEPT ![d] = m]
  BY DEF Scan
<1>3. clock' \in 0 .. MaxStamp /\ clock <= clock'
  BY <1>1 DEF Scan
<1>4. m \in Manifest
  <2>1. ASSUME NEW p \in Paths
        PROVE  (IF Noticed(files[p], state[d][p])
                THEN [edit |-> files[p].edit, live |-> files[p].live, stamp |-> clock + 1] ELSE state[d][p])
                 \in Record \union {NoRecord}
    <3>1. state[d][p] \in Record \union {NoRecord}
      BY <1>1 DEF Manifest
    <3>2. ASSUME Noticed(files[p], state[d][p])
          PROVE  [edit |-> files[p].edit, live |-> files[p].live, stamp |-> clock + 1] \in Record
      <4>1. clock' = clock + 1
        BY <3>2 DEF Scan
      <4>2. clock + 1 \in 1 .. MaxStamp
        BY <1>1, <1>3, <4>1
      <4>3. files[p].edit \in 0 .. MaxEdits /\ files[p].live \in BOOLEAN
        BY DEF File
      <4> QED BY <4>2, <4>3 DEF Record
    <3> QED BY <3>1, <3>2
  <2> QED BY <2>1 DEF Scanned, Manifest
<1> HIDE DEF m
<1>5. state' \in [Devices -> Manifest] /\ state'[d] = m /\ \A e \in Devices \ {d} : state'[e] = state[e]
  BY <1>1, <1>2, <1>4
<1> QED BY <1>3, <1>5 DEF m

\* A session that starts, and one that has the other's manifest.
LEMMA SessionFacts ==
  ASSUME TypeInv, NEW s \in Sessions, session[s] # NoSession
  PROVE  /\ session[s] \in SessionState
         /\ session[s].pc \in {"manifest", "apply"} /\ session[s].client \in Devices /\ session[s].server \in Devices
         /\ session[s].mine \in Manifest /\ session[s].theirs \in Manifest
         /\ session[s].pulls \subseteq Paths /\ session[s].pushes \subseteq Paths
         /\ \A p \in session[s].pulls : session[s].theirs[p] \in Record
         /\ \A p \in session[s].pushes : session[s].mine[p] \in Record
<1>1. session[s] \in SessionState
  BY DEF TypeInv, TypeOK
<1>2. /\ session[s].pc \in {"manifest", "apply"} /\ session[s].client \in Devices /\ session[s].server \in Devices
      /\ session[s].mine \in Manifest /\ session[s].theirs \in Manifest
      /\ session[s].pulls \subseteq Paths /\ session[s].pushes \subseteq Paths
  BY <1>1 DEF SessionState
<1>3. \A p \in Paths : /\ session[s].theirs[p] \in Record \union {NoRecord}
                      /\ session[s].mine[p] \in Record \union {NoRecord}
  BY <1>2 DEF Manifest
<1> QED BY <1>1, <1>2, <1>3 DEF TypeInv, DueIsRecorded

\* A path that is done leaves the session as it is otherwise.
SessionElse(s, t) ==
    /\ t.pc = session[s].pc /\ t.client = session[s].client /\ t.server = session[s].server
    /\ t.theirs = session[s].theirs

\* A path is pulled, and its record taken over.
TakesPull(s, p, r) == session' = [session EXCEPT ![s].pulls = @ \ {p}, ![s].mine[p] = r]

LEMMA PulledFacts ==
  ASSUME TypeInv, NEW s \in Sessions, session[s] # NoSession, NEW p \in Paths, NEW r \in Record,
         TakesPull(s, p, r)
  PROVE  \E t \in SessionState :
            /\ session' = [session EXCEPT ![s] = t] /\ SessionElse(s, t)
            /\ t.pulls = session[s].pulls \ {p} /\ t.pushes = session[s].pushes
            /\ t.mine = [session[s].mine EXCEPT ![p] = r]
<1> DEFINE t == [session[s] EXCEPT !.pulls = @ \ {p}, !.mine[p] = r]
<1>1. session[s] \in SessionState
  BY SessionFacts
<1>2. t \in SessionState /\ SessionElse(s, t) /\ t.pushes = session[s].pushes
  BY <1>1 DEF SessionState, SessionElse, Manifest
<1>3. t.pulls = session[s].pulls \ {p} /\ t.mine = [session[s].mine EXCEPT ![p] = r]
  BY <1>1 DEF SessionState
<1>4. session' = [session EXCEPT ![s] = t]
  BY DEF TakesPull
<1> HIDE DEF t
<1> QED BY <1>2, <1>3, <1>4

\* A path whose file is gone at the server is skipped.
LEMMA SkippedFacts ==
  ASSUME TypeInv, NEW s \in Sessions, session[s] # NoSession, NEW p \in Paths,
         session' = [session EXCEPT ![s].pulls = @ \ {p}]
  PROVE  \E t \in SessionState :
            /\ session' = [session EXCEPT ![s] = t] /\ SessionElse(s, t)
            /\ t.pulls = session[s].pulls \ {p} /\ t.pushes = session[s].pushes /\ t.mine = session[s].mine
<1> DEFINE t == [session[s] EXCEPT !.pulls = @ \ {p}]
<1>1. session[s] \in SessionState
  BY SessionFacts
<1>2. t \in SessionState /\ SessionElse(s, t) /\ t.pushes = session[s].pushes
  BY <1>1 DEF SessionState, SessionElse
<1>3. t.pulls = session[s].pulls \ {p} /\ t.mine = session[s].mine
  BY <1>1 DEF SessionState
<1>4. session' = [session EXCEPT ![s] = t]
  OBVIOUS
<1> HIDE DEF t
<1> QED BY <1>2, <1>3, <1>4

\* A path is pushed.
LEMMA PushedFacts ==
  ASSUME TypeInv, NEW s \in Sessions, session[s] # NoSession, NEW p \in Paths,
         session' = [session EXCEPT ![s].pushes = @ \ {p}]
  PROVE  \E t \in SessionState :
            /\ session' = [session EXCEPT ![s] = t] /\ SessionElse(s, t)
            /\ t.pulls = session[s].pulls /\ t.pushes = session[s].pushes \ {p} /\ t.mine = session[s].mine
<1> DEFINE t == [session[s] EXCEPT !.pushes = @ \ {p}]
<1>1. session[s] \in SessionState
  BY SessionFacts
<1>2. t \in SessionState /\ SessionElse(s, t) /\ t.pulls = session[s].pulls
  BY <1>1 DEF SessionState, SessionElse
<1>3. t.pushes = session[s].pushes \ {p} /\ t.mine = session[s].mine
  BY <1>1 DEF SessionState
<1>4. session' = [session EXCEPT ![s] = t]
  OBVIOUS
<1> HIDE DEF t
<1> QED BY <1>2, <1>3, <1>4

\* The answer fixes what is pulled and pushed.
LEMMA AnsweredFacts ==
  ASSUME TypeInv, NEW s \in Sessions, AnswerManifest(s)
  PROVE  \E t \in SessionState :
            /\ session' = [session EXCEPT ![s] = t] /\ t.pc = "apply"
            /\ t.client = session[s].client /\ t.server = session[s].server /\ t.mine = session[s].mine
            /\ t.theirs = state'[t.server]
            /\ t.pulls = BehindOn(t.mine, state'[t.server]) /\ t.pushes = BehindOn(state'[t.server], t.mine)
<1> DEFINE v == session[s].server
           mine == session[s].mine
           t == [session[s] EXCEPT !.pc = "apply", !.theirs = state'[v],
                                   !.pulls = BehindOn(mine, state'[v]), !.pushes = BehindOn(state'[v], mine)]
<1>1. session[s] # NoSession
  BY DEF AnswerManifest, At
<1>2. session[s] \in SessionState
  BY <1>1, SessionFacts
<1>3. state'[v] \in Manifest
  <2>1. Scan(v, disk[v]) /\ v \in Devices /\ disk[v] \in [Paths -> File]
    BY <1>1, SessionFacts DEF AnswerManifest, TypeInv, TypeOK
  <2>2. state' \in [Devices -> Manifest]
    <3> HIDE DEF v
    <3> QED BY <2>1, ScanKeepsType DEF TypeInv
  <2> QED BY <2>1, <2>2
<1>4. BehindOn(mine, state'[v]) \subseteq Paths /\ BehindOn(state'[v], mine) \subseteq Paths
  BY DEF BehindOn
<1>5. t \in SessionState
  BY <1>2, <1>3, <1>4 DEF SessionState
<1>6. /\ t.pc = "apply" /\ t.client = session[s].client /\ t.server = v /\ t.mine = mine /\ t.theirs = state'[v]
      /\ t.pulls = BehindOn(mine, state'[v]) /\ t.pushes = BehindOn(state'[v], mine)
  BY <1>2 DEF SessionState
<1>7. session' = [session EXCEPT ![s] = t]
  BY DEF AnswerManifest
<1> HIDE DEF t
<1> QED BY <1>5, <1>6, <1>7

\* What a session starts with.
LEMMA StartFacts ==
  ASSUME TypeInv, NEW s \in Sessions, NEW c \in Devices, NEW v \in Devices, Start(s, c, v)
  PROVE  \E t \in SessionState :
            /\ session' = [session EXCEPT ![s] = t] /\ t.pc = "manifest" /\ t.client = c /\ t.server = v
            /\ t.mine = state'[c] /\ t.pulls = {} /\ t.pushes = {}
<1> DEFINE t == [pc |-> "manifest", client |-> c, server |-> v, mine |-> state'[c],
                 theirs |-> NoManifest, pulls |-> {}, pushes |-> {}]
<1>1. state'[c] \in Manifest
  <2>1. Scan(c, disk[c]) /\ disk[c] \in [Paths -> File]
    BY DEF Start, TypeInv, TypeOK
  <2>2. state' \in [Devices -> Manifest]
    BY <2>1, ScanKeepsType DEF TypeInv
  <2> QED BY <2>2
<1>2. NoManifest \in Manifest
  BY DEF NoManifest, Manifest
<1>3. t \in SessionState
  BY <1>1, <1>2 DEF SessionState
<1>4. session' = [session EXCEPT ![s] = t]
  BY DEF Start
<1> QED BY <1>3, <1>4

\* A slot that gets a well-typed session, or is freed.
LEMMA SessionKeepsType ==
  ASSUME TypeInv, NEW s \in Sessions, NEW t \in SessionState \union {NoSession},
         session' = [session EXCEPT ![s] = t],
         t # NoSession => /\ \A p \in t.pulls : t.theirs[p] # NoRecord
                          /\ \A p \in t.pushes : t.mine[p] # NoRecord
  PROVE  session' \in [Sessions -> SessionState \union {NoSession}] /\ DueIsRecorded'
<1>1. session \in [Sessions -> SessionState \union {NoSession}]
  BY DEF TypeInv, TypeOK
<1>2. /\ session' \in [Sessions -> SessionState \union {NoSession}]
      /\ session'[s] = t /\ \A x \in Sessions \ {s} : session'[x] = session[x]
  BY <1>1
<1>3. ASSUME NEW x \in Sessions, session'[x] # NoSession
      PROVE  /\ \A p \in session'[x].pulls : session'[x].theirs[p] # NoRecord
             /\ \A p \in session'[x].pushes : session'[x].mine[p] # NoRecord
  <2>1. CASE x = s
    BY <1>2, <1>3, <2>1
  <2>2. CASE x # s
    <3>1. session'[x] = session[x]
      BY <1>2, <2>2
    <3> QED BY <1>3, <3>1 DEF TypeInv, DueIsRecorded
  <2> QED BY <2>1, <2>2
<1> QED BY <1>2, <1>3 DEF DueIsRecorded

\* A file and a manifest that a transfer changes.
LEMMA DiskKeepsType ==
  ASSUME TypeInv, NEW d \in Devices, NEW p \in Paths, NEW f \in File, disk' = [disk EXCEPT ![d][p] = f]
  PROVE  /\ disk' \in [Devices -> [Paths -> File]]
         /\ \A e \in Devices, q \in Paths : disk'[e][q] = IF e = d /\ q = p THEN f ELSE disk[e][q]
BY DEF TypeInv, TypeOK

\* The same of one record of a manifest.
LEMMA StateKeepsType ==
  ASSUME TypeInv, NEW d \in Devices, NEW p \in Paths, NEW r \in Record, state' = [state EXCEPT ![d][p] = r]
  PROVE  /\ state' \in [Devices -> Manifest]
         /\ \A e \in Devices, q \in Paths : state'[e][q] = IF e = d /\ q = p THEN r ELSE state[e][q]
BY DEF TypeInv, TypeOK, Manifest

\* All folders and manifests start empty.
LEMMA TypeStart == Init => TypeInv
<1>1. NoFile \in File /\ NoManifest \in Manifest
  BY BoundFacts DEF NoFile, File, NoManifest, Manifest
<1>2. 0 \in 0 .. MaxEdits /\ 0 \in 0 .. MaxStamp /\ 0 \in 0 .. MaxDrops /\ 0 \in 0 .. MaxLosses
  BY BoundFacts
<1> QED BY <1>1, <1>2 DEF Init, TypeInv, TypeOK, DueIsRecorded

\* Every step of a session keeps the types.
LEMMA SessionStepKeepsType ==
  ASSUME TypeInv, NEW s \in Sessions, SessionStep(s)
  PROVE  TypeInv'
<1>0. /\ disk \in [Devices -> [Paths -> File]] /\ state \in [Devices -> Manifest]
      /\ session \in [Sessions -> SessionState \union {NoSession}]
      /\ edits \in 0 .. MaxEdits /\ clock \in 0 .. MaxStamp /\ drops \in 0 .. MaxDrops /\ losses \in 0 .. MaxLosses
  BY DEF TypeInv, TypeOK
<1>1. ASSUME NEW c \in Devices, NEW v \in Devices, Start(s, c, v) PROVE TypeInv'
  <2>1. UNCHANGED <<disk, edits, drops, losses>> /\ Scan(c, disk[c]) /\ disk[c] \in [Paths -> File]
    BY <1>0, <1>1 DEF Start
  <2>2. state' \in [Devices -> Manifest] /\ clock' \in 0 .. MaxStamp
    BY <2>1, ScanKeepsType DEF TypeInv
  <2>3. PICK t \in SessionState : session' = [session EXCEPT ![s] = t] /\ t.pulls = {} /\ t.pushes = {}
    BY <1>1, StartFacts
  <2>4. session' \in [Sessions -> SessionState \union {NoSession}] /\ DueIsRecorded'
    BY <2>3, SessionKeepsType
  <2> QED BY <1>0, <2>1, <2>2, <2>4 DEF TypeInv, TypeOK
<1>2. ASSUME AnswerManifest(s) PROVE TypeInv'
  <2>1. session[s] # NoSession
    BY <1>2 DEF AnswerManifest, At
  <2>2. UNCHANGED <<disk, edits, drops, losses>> /\ Scan(session[s].server, disk[session[s].server])
        /\ session[s].server \in Devices /\ disk[session[s].server] \in [Paths -> File]
    BY <1>0, <1>2, <2>1, SessionFacts DEF AnswerManifest
  <2>3. state' \in [Devices -> Manifest] /\ clock' \in 0 .. MaxStamp
    BY <2>2, ScanKeepsType DEF TypeInv
  <2>4. PICK t \in SessionState :
            /\ session' = [session EXCEPT ![s] = t] /\ t.theirs = state'[t.server]
            /\ t.pulls = BehindOn(t.mine, state'[t.server]) /\ t.pushes = BehindOn(state'[t.server], t.mine)
    BY <1>2, AnsweredFacts
  <2>5. (\A p \in t.pulls : t.theirs[p] # NoRecord) /\ (\A p \in t.pushes : t.mine[p] # NoRecord)
    BY <2>4 DEF BehindOn, Behind
  <2>6. session' \in [Sessions -> SessionState \union {NoSession}] /\ DueIsRecorded'
    BY <2>4, <2>5, SessionKeepsType
  <2> QED BY <1>0, <2>2, <2>3, <2>6 DEF TypeInv, TypeOK
<1>3. ASSUME NEW p \in Paths, PullFile(s, p) \/ PullDelete(s, p) PROVE TypeInv'
  <2> DEFINE c == session[s].client
             r == session[s].theirs[p]
  <2>1. session[s] # NoSession /\ p \in session[s].pulls
    <3>1. NextPull(s, p)
      BY <1>3 DEF PullFile, PullDelete
    <3>2. At(s, "apply") /\ session[s].pulls # {} /\ p = Min(session[s].pulls)
      BY <3>1 DEF NextPull
    <3>3. session[s].pulls \subseteq Nat
      BY <3>2, SessionFacts, DeviceSyncAssumption DEF At
    <3>4. Min(session[s].pulls) \in session[s].pulls
      BY <3>2, <3>3, MinIsLeast
    <3> QED BY <3>2, <3>4 DEF At
  <2>2. c \in Devices /\ session[s].server \in Devices /\ r \in Record
    BY <2>1, SessionFacts
  <2>3. disk[session[s].server][p] \in File /\ [edit |-> r.edit, live |-> FALSE] \in File
    BY <1>0, <2>2 DEF Record, File
  <2>4. disk' \in [Devices -> [Paths -> File]]
    <3> HIDE DEF c, r
    <3>1. disk' = disk \/ \E f \in File : disk' = [disk EXCEPT ![c][p] = f]
      BY <1>3, <2>3 DEF PullFile, PullDelete, c, r
    <3> QED BY <1>0, <2>2, <3>1, DiskKeepsType
  <2>5. TakesPull(s, p, r) \/ session' = [session EXCEPT ![s].pulls = @ \ {p}]
    BY <1>3 DEF PullFile, PullDelete, TakesPull
  <2> HIDE DEF c, r
  <2>6. PICK t \in SessionState :
            /\ session' = [session EXCEPT ![s] = t] /\ SessionElse(s, t)
            /\ t.pulls = session[s].pulls \ {p} /\ t.pushes = session[s].pushes
            /\ t.mine = [session[s].mine EXCEPT ![p] = r] \/ t.mine = session[s].mine
    BY <2>1, <2>2, <2>5, PulledFacts, SkippedFacts
  <2>7. (\A q \in t.pulls : t.theirs[q] # NoRecord) /\ (\A q \in t.pushes : t.mine[q] # NoRecord)
    <3>1. \A q \in t.pulls : t.theirs[q] # NoRecord
      BY <2>1, <2>6 DEF SessionElse, TypeInv, DueIsRecorded
    <3>2. ASSUME NEW q \in t.pushes PROVE t.mine[q] # NoRecord
      <4>1. session[s].mine[q] # NoRecord /\ q \in Paths /\ session[s].mine \in Manifest
        BY <2>1, <2>6, SessionFacts DEF TypeInv, DueIsRecorded
      <4>2. t.mine[q] = session[s].mine[q] \/ t.mine[q] = r
        BY <2>6, <4>1 DEF Manifest
      <4> QED BY <2>2, <4>1, <4>2, BoundFacts
    <3> QED BY <3>1, <3>2
  <2>8. session' \in [Sessions -> SessionState \union {NoSession}] /\ DueIsRecorded'
    BY <2>6, <2>7, SessionKeepsType
  <2>9. UNCHANGED <<state, edits, clock, drops, losses>>
    BY <1>3 DEF PullFile, PullDelete
  <2> QED BY <1>0, <2>4, <2>8, <2>9 DEF TypeInv, TypeOK
<1>4. ASSUME NEW p \in Paths, PushFile(s, p) \/ PushDelete(s, p) \/ DropHalfPut(s, p) PROVE TypeInv'
  <2> DEFINE v == session[s].server
             r == session[s].mine[p]
             f == disk[session[s].client][p]
  <2>1. session[s] # NoSession /\ p \in session[s].pushes
    <3>1. NextPush(s, p)
      BY <1>4 DEF PushFile, PushDelete, DropHalfPut
    <3>2. At(s, "apply") /\ session[s].pushes # {} /\ p = Min(session[s].pushes)
      BY <3>1 DEF NextPush
    <3>3. session[s].pushes \subseteq Nat
      BY <3>2, SessionFacts, DeviceSyncAssumption DEF At
    <3>4. Min(session[s].pushes) \in session[s].pushes
      BY <3>2, <3>3, MinIsLeast
    <3> QED BY <3>2, <3>4 DEF At
  <2>2. v \in Devices /\ session[s].client \in Devices /\ r \in Record
    BY <2>1, SessionFacts
  <2>3. f \in File /\ [edit |-> r.edit, live |-> FALSE] \in File /\ [r EXCEPT !.edit = f.edit] \in Record
    BY <1>0, <2>2 DEF Record, File
  <2>4. disk' = disk \/ \E g \in File : disk' = [disk EXCEPT ![v][p] = g]
    BY <1>4, <2>3 DEF PushFile, PushDelete, DropHalfPut
  <2>5. state' = state \/ \E x \in Record : state' = [state EXCEPT ![v][p] = x]
    <3> DEFINE x == [r EXCEPT !.edit = f.edit]
    <3>1. state' = state \/ state' = [state EXCEPT ![v][p] = x] \/ state' = [state EXCEPT ![v][p] = r]
      BY <1>4 DEF PushFile, PushDelete, DropHalfPut
    <3> HIDE DEF x, r, v
    <3> QED BY <2>2, <2>3, <3>1 DEF x
  <2> HIDE DEF v, r, f
  <2>6. disk' \in [Devices -> [Paths -> File]] /\ state' \in [Devices -> Manifest]
    BY <1>0, <2>2, <2>4, <2>5, DiskKeepsType, StateKeepsType
  <2>7. session' \in [Sessions -> SessionState \union {NoSession}] /\ DueIsRecorded'
    <3>1. CASE DropHalfPut(s, p)
      <4>1. session' = [session EXCEPT ![s] = NoSession]
        BY <3>1 DEF DropHalfPut
      <4> QED BY <4>1, SessionKeepsType
    <3>2. CASE PushFile(s, p) \/ PushDelete(s, p)
      <4>1. session' = [session EXCEPT ![s].pushes = @ \ {p}]
        BY <3>2 DEF PushFile, PushDelete
      <4>2. PICK t \in SessionState :
                /\ session' = [session EXCEPT ![s] = t] /\ SessionElse(s, t)
                /\ t.pulls = session[s].pulls /\ t.pushes = session[s].pushes \ {p} /\ t.mine = session[s].mine
        BY <2>1, <4>1, PushedFacts
      <4>3. (\A q \in t.pulls : t.theirs[q] # NoRecord) /\ (\A q \in t.pushes : t.mine[q] # NoRecord)
        BY <2>1, <4>2 DEF SessionElse, TypeInv, DueIsRecorded
      <4> QED BY <4>2, <4>3, SessionKeepsType
    <3> QED BY <1>4, <3>1, <3>2
  <2>8. UNCHANGED <<edits, clock, losses>> /\ drops' \in 0 .. MaxDrops
    BY <1>0, <1>4, BoundFacts DEF PushFile, PushDelete, DropHalfPut
  <2> QED BY <1>0, <2>6, <2>7, <2>8 DEF TypeInv, TypeOK
<1>5. ASSUME Finish(s) PROVE TypeInv'
  <2>1. session[s] # NoSession
    BY <1>5 DEF Finish, At
  <2>2. session[s].mine \in Manifest
    BY <2>1, SessionFacts
  <2>3. state' \in [Devices -> Manifest]
    BY <1>0, <1>5, <2>2 DEF Finish
  <2>4. session' \in [Sessions -> SessionState \union {NoSession}] /\ DueIsRecorded'
    BY <1>5, SessionKeepsType DEF Finish
  <2> QED BY <1>0, <1>5, <2>3, <2>4 DEF Finish, TypeInv, TypeOK
<1>6. ASSUME Drop(s) PROVE TypeInv'
  <2>1. session' \in [Sessions -> SessionState \union {NoSession}] /\ DueIsRecorded'
    BY <1>6, SessionKeepsType DEF Drop
  <2>2. drops' \in 0 .. MaxDrops
    BY <1>0, <1>6, BoundFacts DEF Drop
  <2> QED BY <1>0, <1>6, <2>1, <2>2 DEF Drop, TypeInv, TypeOK
<1> QED BY <1>1, <1>2, <1>3, <1>4, <1>5, <1>6 DEF SessionStep

\* Every step does.
LEMMA StepKeepsType == TypeInv /\ [Next]_vars => TypeInv'
<1> SUFFICES ASSUME TypeInv, [Next]_vars PROVE TypeInv'
  OBVIOUS
<1>0. /\ disk \in [Devices -> [Paths -> File]] /\ state \in [Devices -> Manifest]
      /\ session \in [Sessions -> SessionState \union {NoSession}]
      /\ edits \in 0 .. MaxEdits /\ clock \in 0 .. MaxStamp /\ drops \in 0 .. MaxDrops /\ losses \in 0 .. MaxLosses
  BY DEF TypeInv, TypeOK
<1>1. ASSUME NEW d \in Devices, NEW p \in Paths, UserEdit(d, p) PROVE TypeInv'
  <2>1. PICK l \in BOOLEAN : disk' = [disk EXCEPT ![d][p] = [edit |-> edits + 1, live |-> l]]
    BY <1>1 DEF UserEdit
  <2>2. edits' = edits + 1 /\ edits' \in 0 .. MaxEdits /\ UNCHANGED <<session, drops, losses>>
    BY <1>0, <1>1, BoundFacts DEF UserEdit
  <2>3. [edit |-> edits + 1, live |-> l] \in File
    BY <2>2 DEF File
  <2>4. disk' \in [Devices -> [Paths -> File]]
    BY <2>1, <2>3, DiskKeepsType
  <2>5. state' \in [Devices -> Manifest] /\ clock' \in 0 .. MaxStamp
    <3>1. CASE UNCHANGED <<state, clock>>
      BY <1>0, <3>1
    <3>2. CASE Scan(d, disk'[d])
      <4> DEFINE files == disk'[d]
      <4>1. files \in [Paths -> File] /\ Scan(d, files)
        BY <2>4, <3>2
      <4> HIDE DEF files
      <4> QED BY <4>1, ScanKeepsType DEF TypeInv
    <3> QED BY <1>1, <3>1, <3>2 DEF UserEdit
  <2>6. DueIsRecorded'
    BY <2>2 DEF TypeInv, DueIsRecorded
  <2> QED BY <1>0, <2>2, <2>4, <2>5, <2>6 DEF TypeInv, TypeOK
<1>2. ASSUME NEW d \in Devices, Notice(d) PROVE TypeInv'
  <2>1. Scan(d, disk[d]) /\ disk[d] \in [Paths -> File] /\ UNCHANGED <<disk, session, edits, drops, losses>>
    BY <1>0, <1>2 DEF Notice
  <2>2. state' \in [Devices -> Manifest] /\ clock' \in 0 .. MaxStamp
    BY <2>1, ScanKeepsType DEF TypeInv
  <2>3. DueIsRecorded'
    BY <2>1 DEF TypeInv, DueIsRecorded
  <2> QED BY <1>0, <2>1, <2>2, <2>3 DEF TypeInv, TypeOK
<1>3. ASSUME NEW d \in Devices, LoseState(d) PROVE TypeInv'
  <2>1. NoManifest \in Manifest
    BY DEF NoManifest, Manifest
  <2>2. state' \in [Devices -> Manifest] /\ losses' \in 0 .. MaxLosses
    BY <1>0, <1>3, <2>1, BoundFacts DEF LoseState
  <2>3. DueIsRecorded'
    BY <1>3 DEF LoseState, TypeInv, DueIsRecorded
  <2> QED BY <1>0, <1>3, <2>2, <2>3 DEF LoseState, TypeInv, TypeOK
<1>4. CASE UNCHANGED vars
  BY <1>0, <1>4 DEF vars, TypeInv, TypeOK, DueIsRecorded
<1> QED BY <1>1, <1>2, <1>3, <1>4, SessionStepKeepsType DEF Next

\* Folders, state files and the variables of every session have their types, in
\* whatever order sessions, edits, passes of the watch loop and losses of state
\* files interleave: a path that reconcile_with_device pulls or pushes has a
\* record, so no transfer reads a missing one.
THEOREM DeviceTypeCorrect == Spec => [](TypeOK /\ DueIsRecorded)
<1>1. TypeInv => TypeOK /\ DueIsRecorded
  BY DEF TypeInv
<1> QED BY <1>1, TypeStart, StepKeepsType, PTL DEF Spec

-----------------------------------------------------------------------------
(***************************************************************************)
(* The newest write wins.                                                  *)
(***************************************************************************)
\* Edits are noticed at once and made while no session runs, one session runs at a
\* time, and none ends early.
OneAtATime ==
    /\ \E s : Sessions = {s}
    /\ WatcherIsPrompt /\ ~ EditsDuringSync /\ MaxDrops = 0 /\ MaxLosses = 0

\* A record tells what is on the disk.
Describes(r, f) == IF r = NoRecord THEN f.edit = 0 /\ ~ f.live ELSE r.edit = f.edit /\ r.live = f.live

\* Later stamps are those of later edits.
InOrder(x, y) == x # NoRecord /\ y # NoRecord => (x.edit < y.edit <=> x.stamp < y.stamp)

\* Beliefs describe the disks, know of nothing later than now, and are in order.
Faithful(B, files, last, now) ==
    /\ \A d \in Devices, p \in Paths : Describes(B[d][p], files[d][p])
    /\ \A d \in Devices, p \in Paths : B[d][p] # NoRecord => B[d][p].edit <= last /\ B[d][p].stamp <= now
    /\ \A d, e \in Devices, p \in Paths : InOrder(B[d][p], B[e][p])

\* What each device believes: its state file, or while it is the client of a session
\* the manifest that it will save.
Believed(s) ==
    [d \in Devices |-> IF session[s] # NoSession /\ session[s].client = d THEN session[s].mine ELSE state[d]]

\* What is left to transfer is newer where it comes from, and as it was told.
DueIsNewer(s) ==
    session[s] # NoSession =>
        /\ session[s].client # session[s].server
        /\ session[s].pc = "apply" =>
              /\ \A p \in session[s].pulls :
                    /\ session[s].theirs[p] = state[session[s].server][p]
                    /\ Behind(session[s].mine[p], state[session[s].server][p])
              /\ \A p \in session[s].pushes : Behind(state[session[s].server][p], session[s].mine[p])

SyncInv(s) == Faithful(Believed(s), disk, edits, clock) /\ DueIsNewer(s)

\* G is F with v on device d at path p.
Changed(F, G, d, p, v) ==
    \A x \in Devices, q \in Paths : G[x][q] = IF x = d /\ q = p THEN v ELSE F[x][q]

\* The action that NewestWins is about.
NeverOlder == \A d \in Devices, p \in Paths : disk'[d][p].edit >= disk[d][p].edit

\* Beliefs are manifests.
LEMMA BelievedFacts ==
  ASSUME TypeInv, NEW s \in Sessions
  PROVE  /\ Believed(s) \in [Devices -> Manifest]
         /\ \A d \in Devices, p \in Paths : Believed(s)[d][p] \in Record \union {NoRecord}
<1>1. ASSUME NEW d \in Devices
      PROVE  (IF session[s] # NoSession /\ session[s].client = d THEN session[s].mine ELSE state[d]) \in Manifest
  <2>1. state[d] \in Manifest
    BY DEF TypeInv, TypeOK
  <2>2. session[s] # NoSession => session[s].mine \in Manifest
    BY SessionFacts
  <2> QED BY <2>1, <2>2
<1>2. Believed(s) \in [Devices -> Manifest]
  BY <1>1 DEF Believed
<1>3. \A d \in Devices : Believed(s)[d] \in Manifest
  BY <1>2
<1> QED BY <1>2, <1>3 DEF Manifest

\* The fields of a record.
LEMMA RecordFacts ==
  ASSUME NEW r \in Record
  PROVE  r.edit \in Nat /\ r.stamp \in Nat /\ r.live \in BOOLEAN /\ r # NoRecord
BY BoundFacts DEF Record

\* The fields of a file.
LEMMA FileFacts ==
  ASSUME TypeInv, NEW d \in Devices, NEW p \in Paths
  PROVE  disk[d][p] \in File /\ disk[d][p].edit \in Nat /\ disk[d][p].live \in BOOLEAN
BY BoundFacts DEF TypeInv, TypeOK, File

\* Where the state file describes the folder, a scan changes nothing.
LEMMA ScanChangesNothing ==
  ASSUME TypeInv, NEW d \in Devices, \A p \in Paths : Describes(state[d][p], disk[d][p])
  PROVE  /\ \A p \in Paths : ~ Noticed(disk[d][p], state[d][p])
         /\ Scan(d, disk[d]) => state' = state /\ clock' = clock
<1>1. ASSUME NEW p \in Paths PROVE ~ Noticed(disk[d][p], state[d][p])
  <2>1. Describes(state[d][p], disk[d][p]) /\ disk[d][p].live \in BOOLEAN
    BY FileFacts
  <2>2. CASE state[d][p] = NoRecord
    BY <2>1, <2>2 DEF Describes, Noticed
  <2>3. CASE state[d][p] # NoRecord
    <3>1. SameBytes(disk[d][p], state[d][p])
      BY <2>1, <2>3 DEF Describes, SameBytes
    <3> QED BY <2>3, <3>1 DEF Noticed
  <2> QED BY <2>2, <2>3
<1>2. ASSUME Scan(d, disk[d]) PROVE state' = state /\ clock' = clock
  <2>1. Scanned(disk[d], state[d], clock + 1) = [p \in Paths |-> state[d][p]]
    BY <1>1 DEF Scanned
  <2>2. state \in [Devices -> Manifest] /\ state[d] = [p \in Paths |-> state[d][p]]
    BY DEF TypeInv, TypeOK, Manifest
  <2>3. state' = [state EXCEPT ![d] = state[d]]
    BY <1>2, <2>1, <2>2 DEF Scan
  <2> QED BY <1>1, <1>2, <2>2, <2>3 DEF Scan
<1> QED BY <1>1, <1>2

\* One device catches up with another on a path.
LEMMA CatchingUpIsFaithful ==
  ASSUME NEW B \in [Devices -> Manifest], NEW C, NEW files, NEW after, NEW last, NEW now,
         Faithful(B, files, last, now),
         NEW d \in Devices, NEW e \in Devices, NEW p \in Paths,
         NEW f, Changed(B, C, d, p, B[e][p]), Changed(files, after, d, p, f), Describes(B[e][p], f)
  PROVE  Faithful(C, after, last, now)
<1>1. ASSUME NEW x \in Devices, NEW q \in Paths PROVE Describes(C[x][q], after[x][q])
  BY DEF Faithful, Changed
<1>2. ASSUME NEW x \in Devices, NEW q \in Paths, C[x][q] # NoRecord
      PROVE  C[x][q].edit <= last /\ C[x][q].stamp <= now
  BY <1>2 DEF Faithful, Changed
<1>3. ASSUME NEW x \in Devices, NEW y \in Devices, NEW q \in Paths PROVE InOrder(C[x][q], C[y][q])
  <2>1. \E u, w \in Devices : C[x][q] = B[u][q] /\ C[y][q] = B[w][q]
    BY DEF Changed
  <2> QED BY <2>1 DEF Faithful
<1> QED BY <1>1, <1>2, <1>3 DEF Faithful

\* An edit, noticed at once, is the newest of all.
LEMMA EditIsFaithful ==
  ASSUME NEW B \in [Devices -> Manifest], NEW C, NEW files, NEW after, NEW last \in Nat, NEW now \in Nat,
         Faithful(B, files, last, now),
         NEW d \in Devices, NEW p \in Paths, NEW l \in BOOLEAN,
         NEW r \in Record, r.edit = last + 1, r.live = l, r.stamp = now + 1,
         NEW f \in File, f.edit = last + 1, f.live = l,
         Changed(B, C, d, p, r), Changed(files, after, d, p, f)
  PROVE  Faithful(C, after, last + 1, now + 1)
<1>0. \A x \in Devices, q \in Paths : B[x][q] \in Record \union {NoRecord}
  BY DEF Manifest
<1>1. ASSUME NEW x \in Devices, NEW q \in Paths PROVE Describes(C[x][q], after[x][q])
  <2>1. CASE x = d /\ q = p
    BY <2>1, RecordFacts DEF Changed, Describes
  <2>2. CASE ~ (x = d /\ q = p)
    BY <2>2 DEF Changed, Faithful
  <2> QED BY <2>1, <2>2
<1>2. r.edit = last + 1 /\ r.stamp = now + 1
  OBVIOUS
<1>3. \A x \in Devices, q \in Paths : C[x][q] = IF x = d /\ q = p THEN r ELSE B[x][q]
  BY DEF Changed
<1>4. \A x \in Devices, q \in Paths : B[x][q] # NoRecord =>
         /\ B[x][q].edit \in Nat /\ B[x][q].stamp \in Nat
         /\ B[x][q].edit <= last /\ B[x][q].stamp <= now
  <2>1. ASSUME NEW x \in Devices, NEW q \in Paths, B[x][q] # NoRecord
        PROVE  B[x][q].edit \in Nat /\ B[x][q].stamp \in Nat
    <3>1. B[x][q] \in Record
      BY <1>0, <2>1
    <3> QED BY <3>1, RecordFacts
  <2> QED BY <2>1 DEF Faithful
<1>5. ASSUME NEW x \in Devices, NEW q \in Paths, C[x][q] # NoRecord
      PROVE  C[x][q].edit <= last + 1 /\ C[x][q].stamp <= now + 1
  <2>1. CASE x = d /\ q = p
    BY <1>2, <1>3, <2>1
  <2>2. CASE ~ (x = d /\ q = p)
    BY <1>3, <1>4, <1>5, <2>2
  <2> QED BY <2>1, <2>2
<1>6. ASSUME NEW x \in Devices, NEW y \in Devices, NEW q \in Paths PROVE InOrder(C[x][q], C[y][q])
  <2>1. \A z \in Devices : C[z][q] = r \/ C[z][q] = B[z][q]
    BY <1>3
  <2>2. InOrder(B[x][q], B[y][q])
    BY DEF Faithful
  <2>3. CASE C[x][q] = r /\ C[y][q] = r
    BY <1>2, <2>3 DEF InOrder
  <2>4. CASE C[x][q] = r /\ C[y][q] = B[y][q]
    BY <1>2, <1>4, <2>4 DEF InOrder
  <2>5. CASE C[x][q] = B[x][q] /\ C[y][q] = r
    BY <1>2, <1>4, <2>5 DEF InOrder
  <2>6. CASE C[x][q] = B[x][q] /\ C[y][q] = B[y][q]
    BY <2>2, <2>6
  <2> QED BY <2>1, <2>3, <2>4, <2>5, <2>6
<1> QED BY <1>1, <1>5, <1>6 DEF Faithful

\* UserEdit with a prompt watcher: the record is the newest there is.
LEMMA EditKeepsOrder ==
  ASSUME OneAtATime, TypeInv, NEW s, Sessions = {s}, SyncInv(s),
         NEW d \in Devices, NEW p \in Paths, UserEdit(d, p), TypeInv'
  PROVE  SyncInv(s)' /\ NeverOlder
<1>0. s \in Sessions /\ session[s] = NoSession /\ session'[s] = NoSession
  BY DEF OneAtATime, UserEdit
<1>1. PICK l \in BOOLEAN : /\ disk' = [disk EXCEPT ![d][p] = [edit |-> edits + 1, live |-> l]]
                           /\ l \/ disk[d][p].live
  <2>1. PICK g \in {[edit |-> edits + 1, live |-> l] : l \in BOOLEAN} :
           (g.live \/ disk[d][p].live) /\ disk' = [disk EXCEPT ![d][p] = g]
    BY DEF UserEdit
  <2>2. PICK l \in BOOLEAN : g = [edit |-> edits + 1, live |-> l]
    OBVIOUS
  <2>3. g.live = l
    BY <2>2
  <2> QED BY <2>1, <2>2, <2>3
<1>2. edits \in Nat /\ clock \in Nat /\ edits' = edits + 1 /\ edits' \in 0 .. MaxEdits
  BY BoundFacts DEF TypeInv, TypeOK, UserEdit
<1> DEFINE f == [edit |-> edits + 1, live |-> l]
<1>3. f \in File
  BY <1>2 DEF File
<1>4. \A e \in Devices, q \in Paths : disk'[e][q] = IF e = d /\ q = p THEN f ELSE disk[e][q]
  BY <1>1, <1>3, DiskKeepsType
<1>5. Faithful(state, disk, edits, clock)
  <2>1. Believed(s) = [x \in Devices |-> state[x]] /\ state = [x \in Devices |-> state[x]]
    BY <1>0 DEF Believed, TypeInv, TypeOK
  <2> QED BY <2>1 DEF SyncInv
<1>6. /\ disk'[d] \in [Paths -> File] /\ Scan(d, disk'[d])
      /\ state \in [Devices -> Manifest]
  BY DEF TypeInv, TypeOK, OneAtATime, UserEdit
<1>7. /\ \A e \in Devices \ {d} : state'[e] = state[e]
      /\ state'[d] = Scanned(disk'[d], state[d], clock + 1)
  <2> DEFINE files == disk'[d]
  <2>1. files \in [Paths -> File] /\ Scan(d, files)
    BY <1>6
  <2> HIDE DEF files
  <2>2. /\ \A e \in Devices \ {d} : state'[e] = state[e]
        /\ state'[d] = Scanned(files, state[d], clock + 1)
    BY <2>1, ScanKeepsType DEF TypeInv
  <2> QED BY <2>2 DEF files
<1>8. \A q \in Paths \ {p} : ~ Noticed(disk'[d][q], state[d][q])
  BY <1>4, <1>5, ScanChangesNothing DEF Faithful
<1>9. Noticed(disk'[d][p], state[d][p])
  <2>1. disk'[d][p] = f /\ f.live = l /\ f.edit = edits + 1
    BY <1>4
  <2>2. Describes(state[d][p], disk[d][p]) /\ disk[d][p].live \in BOOLEAN
    BY <1>5, FileFacts DEF Faithful
  <2>3. CASE state[d][p] = NoRecord
    BY <1>1, <2>1, <2>2, <2>3 DEF Describes, Noticed
  <2>4. CASE state[d][p] # NoRecord
    <3>1. state[d][p].edit <= edits /\ state[d][p].edit \in Nat
      <4>1. state[d][p] \in Record
        BY <1>6, <2>4 DEF Manifest
      <4> QED BY <1>5, <2>4, <4>1, RecordFacts DEF Faithful
    <3>2. state[d][p].edit # edits + 1
      BY <1>2, <3>1
    <3>3. ~ SameBytes(disk'[d][p], state[d][p])
      BY <1>1, <2>1, <2>2, <2>4, <3>2 DEF Describes, SameBytes
    <3> QED BY <2>4, <3>3 DEF Noticed
  <2> QED BY <2>3, <2>4
<1> DEFINE r == [edit |-> edits + 1, live |-> l, stamp |-> clock + 1]
<1>10. \A x \in Devices, q \in Paths : state'[x][q] = IF x = d /\ q = p THEN r ELSE state[x][q]
  <2>1. disk'[d][p].edit = edits + 1 /\ disk'[d][p].live = l
    BY <1>4
  <2>2. \A q \in Paths : state'[d][q] = IF q = p THEN r ELSE state[d][q]
    BY <1>7, <1>8, <1>9, <2>1 DEF Scanned
  <2> QED BY <1>7, <2>2
<1>11. clock' = clock + 1
  <2> DEFINE files == disk'[d]
  <2>1. Scan(d, files) /\ Noticed(files[p], state[d][p])
    BY <1>6, <1>9
  <2> HIDE DEF files
  <2> QED BY <2>1 DEF Scan
<1>12. r \in Record
  <2>1. state'[d][p] \in Record \union {NoRecord} /\ state'[d][p] = r
    BY <1>10 DEF TypeInv, TypeOK, Manifest
  <2>2. clock + 1 \in 1 .. MaxStamp
    BY <1>2, <1>11 DEF TypeInv, TypeOK
  <2> QED BY <1>2, <2>2 DEF Record
<1>13. Faithful(state', disk', edits + 1, clock + 1)
  <2> DEFINE C == state'
             after == disk'
  <2>1. /\ r.edit = edits + 1 /\ r.live = l /\ r.stamp = clock + 1
        /\ f.edit = edits + 1 /\ f.live = l
    OBVIOUS
  <2> HIDE DEF f, r
  <2>2. Changed(state, C, d, p, r) /\ Changed(disk, after, d, p, f)
    BY <1>4, <1>10 DEF Changed
  <2> HIDE DEF C, after
  <2>3. Faithful(C, after, edits + 1, clock + 1)
    BY <1>2, <1>3, <1>5, <1>6, <1>12, <2>1, <2>2, EditIsFaithful
  <2> QED BY <2>3 DEF C, after
<1>14. Believed(s)' = state'
  <2>1. Believed(s)' = [x \in Devices |-> state'[x]]
    BY <1>0 DEF Believed
  <2> QED BY <2>1 DEF TypeInv, TypeOK
<1>15. SyncInv(s)'
  <2>1. Faithful(Believed(s), disk, edits, clock)'
    BY <1>2, <1>11, <1>13, <1>14 DEF Faithful
  <2> QED BY <1>0, <2>1 DEF SyncInv, DueIsNewer
<1>16. NeverOlder
  <2>1. ASSUME NEW e \in Devices, NEW q \in Paths PROVE disk'[e][q].edit >= disk[e][q].edit
    <3>1. disk[e][q].edit \in Nat
      BY FileFacts
    <3>2. disk[e][q].edit <= edits
      <4>1. Describes(state[e][q], disk[e][q])
        BY <1>5 DEF Faithful
      <4>2. state[e][q] = NoRecord => disk[e][q].edit = 0
        BY <4>1 DEF Describes
      <4>3. state[e][q] # NoRecord => disk[e][q].edit <= edits
        BY <1>5, <4>1 DEF Describes, Faithful
      <4> QED BY <1>2, <4>2, <4>3
    <3>3. disk'[e][q].edit = edits + 1 \/ disk'[e][q].edit = disk[e][q].edit
      BY <1>4
    <3> QED BY <1>2, <3>1, <3>2, <3>3
  <2> QED BY <2>1 DEF NeverOlder
<1> QED BY <1>15, <1>16

\* A record that the other side must catch up with is of a later edit.
LEMMA NewerIsLater ==
  ASSUME TypeInv, NEW s \in Sessions, Faithful(Believed(s), disk, edits, clock),
         NEW d \in Devices, NEW e \in Devices, NEW p \in Paths,
         Behind(Believed(s)[d][p], Believed(s)[e][p])
  PROVE  /\ Believed(s)[e][p] \in Record /\ disk[d][p].edit <= Believed(s)[e][p].edit
         /\ ~ Behind(Believed(s)[e][p], Believed(s)[d][p])
<1> DEFINE x == Believed(s)[d][p]
           y == Believed(s)[e][p]
<1>1. x \in Record \union {NoRecord} /\ y \in Record \union {NoRecord} /\ disk[d][p].edit \in Nat
  BY BelievedFacts, FileFacts
<1>2. Describes(x, disk[d][p]) /\ InOrder(x, y)
  BY DEF Faithful
<1>3. Behind(x, y)
  OBVIOUS
<1> HIDE DEF x, y
<1>4. y \in Record /\ y.edit \in Nat /\ y.stamp \in Nat
  <2>1. y \in Record
    BY <1>1, <1>3 DEF Behind
  <2> QED BY <2>1, RecordFacts
<1>5. CASE x = NoRecord
  BY <1>1, <1>2, <1>4, <1>5 DEF Describes, Behind, x, y
<1>6. CASE x # NoRecord
  <2>1. x.edit \in Nat /\ x.stamp \in Nat
    BY <1>1, <1>6, RecordFacts
  <2>2. x.stamp < y.stamp /\ y # NoRecord
    BY <1>3, <1>6 DEF Behind
  <2>3. ~ Behind(y, x)
    BY <1>4, <2>1, <2>2 DEF Behind
  <2>4. x.edit < y.edit /\ disk[d][p].edit = x.edit
    BY <1>2, <1>6, <2>2 DEF InOrder, Describes
  <2>5. disk[d][p].edit <= y.edit
    BY <1>4, <2>1, <2>4
  <2> QED BY <1>4, <2>3, <2>5 DEF x, y
<1> QED BY <1>5, <1>6

\* What the devices of a running session believe.
LEMMA BelievedInSession ==
  ASSUME TypeInv, NEW s \in Sessions, session[s] # NoSession, DueIsNewer(s)
  PROVE  /\ session[s].client \in Devices /\ session[s].server \in Devices
         /\ Believed(s)[session[s].client] = session[s].mine
         /\ Believed(s)[session[s].server] = state[session[s].server]
BY SessionFacts DEF DueIsNewer, Believed

\* A disk where one file has given way to that of a later edit.
LEMMA LaterIsNeverOlder ==
  ASSUME TypeInv, NEW d \in Devices, NEW p \in Paths, NEW f, Changed(disk, disk', d, p, f),
         disk[d][p].edit <= f.edit, f.edit \in Nat
  PROVE  NeverOlder
<1>1. ASSUME NEW e \in Devices, NEW q \in Paths PROVE disk'[e][q].edit >= disk[e][q].edit
  <2>1. disk[e][q].edit \in Nat
    BY FileFacts
  <2>2. CASE e = d /\ q = p
    BY <2>1, <2>2 DEF Changed
  <2>3. CASE ~ (e = d /\ q = p)
    <3>1. disk'[e][q] = disk[e][q]
      BY <2>3 DEF Changed
    <3> QED BY <2>1, <3>1
  <2> QED BY <2>2, <2>3
<1> QED BY <1>1 DEF NeverOlder

\* A pull brings the client to the record the server has.
LEMMA PullKeepsOrder ==
  ASSUME TypeInv, NEW s \in Sessions, SyncInv(s),
         NEW p \in Paths, PullFile(s, p) \/ PullDelete(s, p), TypeInv'
  PROVE  SyncInv(s)' /\ NeverOlder
<1> DEFINE c == session[s].client
           v == session[s].server
           r == session[s].theirs[p]
           mine == session[s].mine
<1>1. session[s] # NoSession /\ session[s].pc = "apply" /\ p \in session[s].pulls
  <2>1. NextPull(s, p)
    BY DEF PullFile, PullDelete
  <2>2. At(s, "apply") /\ session[s].pulls # {} /\ p = Min(session[s].pulls)
    BY <2>1 DEF NextPull
  <2>3. session[s].pulls \subseteq Nat
    BY <2>2, SessionFacts, DeviceSyncAssumption DEF At
  <2>4. Min(session[s].pulls) \in session[s].pulls
    BY <2>2, <2>3, MinIsLeast
  <2> QED BY <2>2, <2>4 DEF At
<1>2. /\ DueIsNewer(s) /\ Faithful(Believed(s), disk, edits, clock)
      /\ c # v /\ r = state[v][p] /\ Behind(mine[p], r)
  BY <1>1 DEF SyncInv, DueIsNewer
<1>3. /\ c \in Devices /\ v \in Devices /\ mine \in Manifest /\ r \in Record
      /\ Believed(s)[c] = mine /\ Believed(s)[v] = state[v]
  BY <1>1, <1>2, SessionFacts, BelievedInSession
<1>4. r.edit \in Nat /\ disk[c][p].edit <= r.edit
  <2>1. Behind(Believed(s)[c][p], Believed(s)[v][p])
    BY <1>2, <1>3
  <2>2. disk[c][p].edit <= Believed(s)[v][p].edit
    BY <1>2, <1>3, <2>1, NewerIsLater
  <2> QED BY <1>2, <1>3, <2>2, RecordFacts
<1>5. Describes(r, disk[v][p])
  BY <1>2, <1>3 DEF Faithful
<1>6. r.edit = disk[v][p].edit /\ r.live = disk[v][p].live
  BY <1>3, <1>5, RecordFacts DEF Describes
<1>7. \E f \in File : /\ disk' = [disk EXCEPT ![c][p] = f] /\ Describes(r, f) /\ f.edit = r.edit
                      /\ session' = [session EXCEPT ![s].pulls = @ \ {p}, ![s].mine[p] = r]
  <2>1. CASE PullFile(s, p)
    <3>1. disk[v][p].live
      BY <1>6, <2>1 DEF PullFile
    <3>2. /\ disk' = [disk EXCEPT ![c][p] = disk[v][p]]
          /\ session' = [session EXCEPT ![s].pulls = @ \ {p}, ![s].mine[p] = r]
      BY <2>1, <3>1 DEF PullFile
    <3>3. disk[v][p] \in File
      BY <1>3, FileFacts
    <3> QED BY <1>5, <1>6, <3>2, <3>3
  <2>2. CASE PullDelete(s, p)
    <3> DEFINE f == [edit |-> r.edit, live |-> FALSE]
    <3>1. /\ disk' = [disk EXCEPT ![c][p] = f] /\ ~ r.live
          /\ session' = [session EXCEPT ![s].pulls = @ \ {p}, ![s].mine[p] = r]
      BY <2>2 DEF PullDelete
    <3>2. f \in File /\ f.edit = r.edit
      BY <1>3 DEF Record, File
    <3>3. Describes(r, f)
      BY <1>3, <3>1, RecordFacts DEF Describes
    <3> HIDE DEF f
    <3> QED BY <3>1, <3>2, <3>3
  <2> QED BY <2>1, <2>2
<1>8. PICK f \in File : /\ disk' = [disk EXCEPT ![c][p] = f] /\ Describes(r, f) /\ f.edit = r.edit
                        /\ session' = [session EXCEPT ![s].pulls = @ \ {p}, ![s].mine[p] = r]
  BY <1>7
<1>9. UNCHANGED <<state, edits, clock>>
  BY DEF PullFile, PullDelete
<1> HIDE DEF c, r, v, mine
<1>10. PICK t \in SessionState :
          /\ session' = [session EXCEPT ![s] = t] /\ SessionElse(s, t)
          /\ t.pulls = session[s].pulls \ {p} /\ t.pushes = session[s].pushes
          /\ t.mine = [session[s].mine EXCEPT ![p] = r]
  <2>1. session[s] # NoSession /\ r \in Record /\ TakesPull(s, p, r)
    BY <1>1, <1>3, <1>8 DEF TakesPull
  <2> QED BY <2>1, PulledFacts
<1>11. /\ session'[s] = t /\ session'[s] # NoSession
       /\ t.client = c /\ t.server = v /\ t.theirs = session[s].theirs
       /\ \A q \in Paths : t.mine[q] = IF q = p THEN r ELSE mine[q]
  <2>1. session'[s] = t
    BY <1>10 DEF TypeInv, TypeOK
  <2>2. session'[s] # NoSession
    BY <2>1, NoSessionAssumption
  <2>3. \A q \in Paths : t.mine[q] = IF q = p THEN r ELSE mine[q]
    BY <1>3, <1>10 DEF Manifest, mine
  <2> QED BY <1>10, <2>1, <2>2, <2>3 DEF SessionElse, c, v
<1>12. Changed(disk, disk', c, p, f)
  BY <1>3, <1>8, DiskKeepsType DEF Changed
<1>13. Changed(Believed(s), Believed(s)', c, p, Believed(s)[v][p])
  <2>1. \A x \in Devices : Believed(s)'[x] = IF x = c THEN t.mine ELSE state[x]
    BY <1>9, <1>11 DEF Believed
  <2>2. \A x \in Devices : Believed(s)[x] = IF x = c THEN mine ELSE state[x]
    BY <1>1 DEF Believed, c, mine
  <2>3. Believed(s)[v][p] = r
    BY <1>2, <1>3
  <2> QED BY <1>11, <2>1, <2>2, <2>3 DEF Changed
<1>14. Faithful(Believed(s), disk, edits, clock)'
  <2> DEFINE C == Believed(s)'
             after == disk'
  <2>1. Changed(Believed(s), C, c, p, Believed(s)[v][p]) /\ Changed(disk, after, c, p, f)
    BY <1>12, <1>13
  <2>2. Believed(s) \in [Devices -> Manifest] /\ Describes(Believed(s)[v][p], f)
    BY <1>2, <1>3, <1>8, BelievedFacts
  <2> HIDE DEF C, after
  <2>3. Faithful(C, after, edits, clock)
    BY <1>2, <1>3, <2>1, <2>2, CatchingUpIsFaithful
  <2> QED BY <1>9, <2>3 DEF Faithful, C, after
<1>15. DueIsNewer(s)'
  <2>1. \A q \in t.pulls : t.theirs[q] = state[v][q] /\ Behind(t.mine[q], state[v][q])
    BY <1>1, <1>2, <1>10, <1>11, SessionFacts DEF DueIsNewer, v, mine
  <2>2. ASSUME NEW q \in t.pushes PROVE Behind(state[v][q], t.mine[q])
    <3>1. q \in Paths /\ Behind(state[v][q], mine[q])
      BY <1>1, <1>2, <1>10, SessionFacts DEF DueIsNewer, v, mine
    <3>2. q # p
      <4>1. Behind(Believed(s)[c][p], Believed(s)[v][p])
        BY <1>2, <1>3
      <4>2. ~ Behind(Believed(s)[v][p], Believed(s)[c][p])
        BY <1>2, <1>3, <4>1, NewerIsLater
      <4> QED BY <1>3, <3>1, <4>2
    <3> QED BY <1>11, <3>1, <3>2
  <2> QED BY <1>2, <1>9, <1>11, <2>1, <2>2 DEF DueIsNewer
<1>16. NeverOlder
  BY <1>3, <1>4, <1>8, <1>12, LaterIsNeverOlder
<1> QED BY <1>14, <1>15, <1>16 DEF SyncInv

\* A push brings the server to the record the client will save.
LEMMA PushKeepsOrder ==
  ASSUME TypeInv, NEW s \in Sessions, SyncInv(s),
         NEW p \in Paths, PushFile(s, p) \/ PushDelete(s, p), TypeInv'
  PROVE  SyncInv(s)' /\ NeverOlder
<1> DEFINE c == session[s].client
           v == session[s].server
           mine == session[s].mine
           r == mine[p]
<1>1. session[s] # NoSession /\ session[s].pc = "apply" /\ session[s].pulls = {} /\ p \in session[s].pushes
  <2>1. NextPush(s, p)
    BY DEF PushFile, PushDelete
  <2>2. At(s, "apply") /\ session[s].pulls = {} /\ session[s].pushes # {} /\ p = Min(session[s].pushes)
    BY <2>1 DEF NextPush
  <2>3. session[s].pushes \subseteq Nat
    BY <2>2, SessionFacts, DeviceSyncAssumption DEF At
  <2>4. Min(session[s].pushes) \in session[s].pushes
    BY <2>2, <2>3, MinIsLeast
  <2> QED BY <2>2, <2>4 DEF At
<1>2. /\ DueIsNewer(s) /\ Faithful(Believed(s), disk, edits, clock)
      /\ c # v /\ Behind(state[v][p], r)
  BY <1>1 DEF SyncInv, DueIsNewer
<1>3. /\ c \in Devices /\ v \in Devices /\ mine \in Manifest /\ r \in Record
      /\ Believed(s)[c] = mine /\ Believed(s)[v] = state[v]
  BY <1>1, <1>2, SessionFacts, BelievedInSession
<1>4. r.edit \in Nat /\ disk[v][p].edit <= r.edit
  <2>1. Behind(Believed(s)[v][p], Believed(s)[c][p])
    BY <1>2, <1>3
  <2>2. disk[v][p].edit <= Believed(s)[c][p].edit
    BY <1>2, <1>3, <2>1, NewerIsLater
  <2> QED BY <1>2, <1>3, <2>2, RecordFacts
<1>5. Describes(r, disk[c][p])
  BY <1>2, <1>3 DEF Faithful
<1>6. r.edit = disk[c][p].edit /\ r.live = disk[c][p].live
  BY <1>3, <1>5, RecordFacts DEF Describes
<1>7. \E f \in File : /\ disk' = [disk EXCEPT ![v][p] = f] /\ Describes(r, f) /\ f.edit = r.edit
                      /\ state' = [state EXCEPT ![v][p] = r]
  <2>1. CASE PushFile(s, p)
    <3>1. disk[c][p].live
      BY <1>6, <2>1 DEF PushFile
    <3>2. /\ disk' = [disk EXCEPT ![v][p] = disk[c][p]]
          /\ state' = [state EXCEPT ![v][p] = [r EXCEPT !.edit = disk[c][p].edit]]
      BY <2>1, <3>1 DEF PushFile
    <3>3. disk[c][p] \in File
      BY <1>3, FileFacts
    <3>4. [r EXCEPT !.edit = disk[c][p].edit] = r
      BY <1>3, <1>6 DEF Record
    <3> HIDE DEF r
    <3> QED BY <1>5, <1>6, <3>2, <3>3, <3>4
  <2>2. CASE PushDelete(s, p)
    <3> DEFINE f == [edit |-> r.edit, live |-> FALSE]
    <3>1. disk' = [disk EXCEPT ![v][p] = f] /\ ~ r.live /\ state' = [state EXCEPT ![v][p] = r]
      BY <2>2 DEF PushDelete
    <3>2. f \in File /\ f.edit = r.edit
      BY <1>3 DEF Record, File
    <3>3. Describes(r, f)
      BY <1>3, <3>1, RecordFacts DEF Describes
    <3> HIDE DEF f
    <3> QED BY <3>1, <3>2, <3>3
  <2> QED BY <2>1, <2>2
<1>8. PICK f \in File : /\ disk' = [disk EXCEPT ![v][p] = f] /\ Describes(r, f) /\ f.edit = r.edit
                        /\ state' = [state EXCEPT ![v][p] = r]
  BY <1>7
<1>9. UNCHANGED <<edits, clock>> /\ session' = [session EXCEPT ![s].pushes = @ \ {p}]
  BY DEF PushFile, PushDelete
<1> HIDE DEF c, r, v, mine
<1>10. PICK t \in SessionState :
          /\ session' = [session EXCEPT ![s] = t] /\ SessionElse(s, t)
          /\ t.pulls = session[s].pulls /\ t.pushes = session[s].pushes \ {p} /\ t.mine = session[s].mine
  BY <1>1, <1>9, PushedFacts
<1>11. /\ session'[s] = t /\ session'[s] # NoSession
       /\ t.client = c /\ t.server = v /\ t.mine = mine /\ t.pulls = {}
  <2>1. session'[s] = t
    BY <1>10 DEF TypeInv, TypeOK
  <2>2. session'[s] # NoSession
    BY <2>1, NoSessionAssumption
  <2> QED BY <1>1, <1>10, <2>1, <2>2 DEF SessionElse, c, v, mine
<1>12. Changed(disk, disk', v, p, f) /\ Changed(state, state', v, p, r)
  <2>1. Changed(disk, disk', v, p, f)
    BY <1>3, <1>8, DiskKeepsType DEF Changed
  <2>2. Changed(state, state', v, p, r)
    <3>1. r \in Record /\ v \in Devices /\ state' = [state EXCEPT ![v][p] = r]
      BY <1>3, <1>8
    <3>2. \A e \in Devices, q \in Paths : state'[e][q] = IF e = v /\ q = p THEN r ELSE state[e][q]
      BY <3>1 DEF TypeInv, TypeOK, Manifest
    <3> QED BY <3>2 DEF Changed
  <2> QED BY <2>1, <2>2
<1>13. Changed(Believed(s), Believed(s)', v, p, Believed(s)[c][p])
  <2>1. \A x \in Devices : Believed(s)'[x] = IF x = c THEN mine ELSE state'[x]
    BY <1>11 DEF Believed
  <2>2. \A x \in Devices : Believed(s)[x] = IF x = c THEN mine ELSE state[x]
    BY <1>1 DEF Believed, c, mine
  <2>3. Believed(s)[c][p] = r
    BY <1>3 DEF r
  <2> QED BY <1>2, <1>12, <2>1, <2>2, <2>3 DEF Changed
<1>14. Faithful(Believed(s), disk, edits, clock)'
  <2> DEFINE C == Believed(s)'
             after == disk'
  <2>1. Changed(Believed(s), C, v, p, Believed(s)[c][p]) /\ Changed(disk, after, v, p, f)
    BY <1>12, <1>13
  <2>2. Believed(s) \in [Devices -> Manifest] /\ Describes(Believed(s)[c][p], f)
    BY <1>3, <1>8, BelievedFacts DEF r
  <2> HIDE DEF C, after
  <2>3. Faithful(C, after, edits, clock)
    BY <1>2, <1>3, <2>1, <2>2, CatchingUpIsFaithful
  <2> QED BY <1>9, <2>3 DEF Faithful, C, after
<1>15. DueIsNewer(s)'
  <2>1. ASSUME NEW q \in t.pushes PROVE Behind(state'[v][q], t.mine[q])
    <3>1. q \in Paths /\ q # p /\ Behind(state[v][q], mine[q])
      BY <1>1, <1>2, <1>10, SessionFacts DEF DueIsNewer, v, mine
    <3>2. state'[v][q] = state[v][q]
      BY <1>3, <1>12, <3>1 DEF Changed
    <3> QED BY <1>11, <3>1, <3>2
  <2> QED BY <1>2, <1>11, <2>1 DEF DueIsNewer
<1>16. NeverOlder
  BY <1>3, <1>4, <1>8, <1>12, LaterIsNeverOlder
<1> QED BY <1>14, <1>15, <1>16 DEF SyncInv

\* Steps that move no file and change nobody's mind.
LEMMA BeliefStays ==
  ASSUME TypeInv, NEW s \in Sessions, Faithful(Believed(s), disk, edits, clock),
         \A d \in Devices : Believed(s)'[d] = Believed(s)[d],
         UNCHANGED <<disk, edits>>, clock' \in Nat, clock <= clock'
  PROVE  Faithful(Believed(s), disk, edits, clock)' /\ NeverOlder
<1>1. ASSUME NEW d \in Devices, NEW p \in Paths, Believed(s)'[d][p] # NoRecord
      PROVE  Believed(s)'[d][p].edit <= edits' /\ Believed(s)'[d][p].stamp <= clock'
  <2>1. Believed(s)[d][p] # NoRecord /\ Believed(s)'[d][p] = Believed(s)[d][p]
    BY <1>1
  <2>2. Believed(s)[d][p].stamp \in Nat
    BY <2>1, BelievedFacts, RecordFacts
  <2>3. Believed(s)[d][p].edit <= edits /\ Believed(s)[d][p].stamp <= clock
    BY <2>1 DEF Faithful
  <2>4. clock \in Nat
    BY BoundFacts DEF TypeInv, TypeOK
  <2> QED BY <2>1, <2>2, <2>3, <2>4
<1>2. ASSUME NEW d \in Devices, NEW p \in Paths PROVE Describes(Believed(s)'[d][p], disk'[d][p])
  BY DEF Faithful
<1>3. ASSUME NEW d \in Devices, NEW e \in Devices, NEW p \in Paths
      PROVE  InOrder(Believed(s)'[d][p], Believed(s)'[e][p])
  BY DEF Faithful
<1>4. NeverOlder
  BY FileFacts DEF NeverOlder
<1> QED BY <1>1, <1>2, <1>3, <1>4 DEF Faithful

\* The watch loop finds only what a running session has pulled; the record it
\* stamps then is overwritten when the session saves.
LEMMA NoticeKeepsOrder ==
  ASSUME TypeInv, NEW s, Sessions = {s}, SyncInv(s), NEW d \in Devices, Notice(d), TypeInv'
  PROVE  SyncInv(s)' /\ NeverOlder
<1>1. /\ s \in Sessions /\ UNCHANGED <<disk, session, edits>> /\ Scan(d, disk[d]) /\ disk[d] \in [Paths -> File]
      /\ Faithful(Believed(s), disk, edits, clock) /\ DueIsNewer(s)
  BY DEF Notice, SyncInv, TypeInv, TypeOK
<1>2. session[s] # NoSession /\ session[s].client = d
  <2>1. SUFFICES ASSUME ~ (session[s] # NoSession /\ session[s].client = d) PROVE FALSE
    OBVIOUS
  <2>2. Believed(s)[d] = state[d]
    BY <2>1 DEF Believed
  <2>3. \A p \in Paths : Describes(state[d][p], disk[d][p])
    BY <1>1, <2>2 DEF Faithful
  <2> QED BY <2>3, ScanChangesNothing DEF Notice
<1>3. clock <= clock' /\ \A e \in Devices \ {d} : state'[e] = state[e]
  BY <1>1, ScanKeepsType DEF TypeInv
<1>4. clock' \in Nat
  BY BoundFacts DEF TypeInv, TypeOK
<1>5. \A e \in Devices : Believed(s)'[e] = Believed(s)[e]
  BY <1>1, <1>2, <1>3 DEF Believed
<1>6. Faithful(Believed(s), disk, edits, clock)' /\ NeverOlder
  BY <1>1, <1>3, <1>4, <1>5, BeliefStays
<1>7. DueIsNewer(s)'
  <2>1. session[s].server \in Devices /\ session[s].server # d
    BY <1>1, <1>2, SessionFacts DEF DueIsNewer
  <2>2. state'[session[s].server] = state[session[s].server]
    BY <1>3, <2>1
  <2> QED BY <1>1, <2>2 DEF DueIsNewer
<1> QED BY <1>6, <1>7 DEF SyncInv

\* The client of a new session finds nothing to notice.
LEMMA StartKeepsOrder ==
  ASSUME TypeInv, NEW s \in Sessions, SyncInv(s),
         NEW c \in Devices, NEW v \in Devices, Start(s, c, v), TypeInv'
  PROVE  SyncInv(s)' /\ NeverOlder
<1>1. /\ session[s] = NoSession /\ c # v /\ UNCHANGED <<disk, edits>> /\ Scan(c, disk[c])
      /\ Faithful(Believed(s), disk, edits, clock)
  BY DEF Start, SyncInv
<1>2. \A d \in Devices : Believed(s)[d] = state[d]
  BY <1>1 DEF Believed
<1>3. state' = state /\ clock' = clock
  <2>1. \A p \in Paths : Describes(state[c][p], disk[c][p])
    BY <1>1, <1>2 DEF Faithful
  <2> QED BY <1>1, <2>1, ScanChangesNothing
<1>4. PICK t \in SessionState : /\ session' = [session EXCEPT ![s] = t] /\ t.pc = "manifest"
                                /\ t.client = c /\ t.server = v /\ t.mine = state'[c]
  BY StartFacts
<1>5. session'[s] = t /\ t # NoSession
  BY <1>4, NoSessionAssumption DEF TypeInv, TypeOK
<1>6. \A d \in Devices : Believed(s)'[d] = Believed(s)[d]
  BY <1>2, <1>3, <1>4, <1>5 DEF Believed
<1>7. clock \in Nat
  BY BoundFacts DEF TypeInv, TypeOK
<1>8. Faithful(Believed(s), disk, edits, clock)' /\ NeverOlder
  BY <1>1, <1>3, <1>6, <1>7, BeliefStays
<1>9. DueIsNewer(s)'
  BY <1>1, <1>4, <1>5 DEF DueIsNewer
<1> QED BY <1>8, <1>9 DEF SyncInv

\* Nor does the server, and what is due is newer where it comes from.
LEMMA AnswerKeepsOrder ==
  ASSUME TypeInv, NEW s \in Sessions, SyncInv(s), AnswerManifest(s), TypeInv'
  PROVE  SyncInv(s)' /\ NeverOlder
<1> DEFINE c == session[s].client
           v == session[s].server
<1>1. /\ session[s] # NoSession /\ UNCHANGED <<disk, edits>> /\ Scan(v, disk[v])
      /\ Faithful(Believed(s), disk, edits, clock) /\ DueIsNewer(s)
  BY DEF AnswerManifest, At, SyncInv
<1>2. c \in Devices /\ v \in Devices /\ c # v /\ Believed(s)[v] = state[v]
  BY <1>1, BelievedInSession DEF DueIsNewer
<1> HIDE DEF c, v
<1>3. state' = state /\ clock' = clock
  <2>1. \A p \in Paths : Describes(state[v][p], disk[v][p])
    BY <1>1, <1>2 DEF Faithful
  <2> QED BY <1>1, <1>2, <2>1, ScanChangesNothing
<1>4. PICK t \in SessionState :
            /\ session' = [session EXCEPT ![s] = t]
            /\ t.client = session[s].client /\ t.server = session[s].server /\ t.mine = session[s].mine
            /\ t.theirs = state'[t.server]
            /\ t.pulls = BehindOn(t.mine, state'[t.server]) /\ t.pushes = BehindOn(state'[t.server], t.mine)
  BY AnsweredFacts
<1>5. session'[s] = t /\ t # NoSession
  BY <1>4, NoSessionAssumption DEF TypeInv, TypeOK
<1>6. \A d \in Devices : Believed(s)'[d] = Believed(s)[d]
  BY <1>1, <1>3, <1>4, <1>5 DEF Believed
<1>7. clock \in Nat
  BY BoundFacts DEF TypeInv, TypeOK
<1>8. Faithful(Believed(s), disk, edits, clock)' /\ NeverOlder
  BY <1>1, <1>3, <1>6, <1>7, BeliefStays
<1>9. DueIsNewer(s)'
  BY <1>2, <1>4, <1>5 DEF DueIsNewer, BehindOn, c, v
<1> QED BY <1>8, <1>9 DEF SyncInv

\* The client saves what it believes.
LEMMA FinishKeepsOrder ==
  ASSUME TypeInv, NEW s \in Sessions, SyncInv(s), Finish(s), TypeInv'
  PROVE  SyncInv(s)' /\ NeverOlder
<1>1. /\ session[s] # NoSession /\ UNCHANGED <<disk, edits, clock>>
      /\ Faithful(Believed(s), disk, edits, clock)
  BY DEF Finish, At, SyncInv
<1>2. session'[s] = NoSession
  BY DEF Finish, TypeInv, TypeOK
<1>3. \A d \in Devices : state'[d] = IF d = session[s].client THEN session[s].mine ELSE state[d]
  BY DEF Finish, TypeInv, TypeOK
<1>4. \A d \in Devices : Believed(s)'[d] = Believed(s)[d]
  BY <1>1, <1>2, <1>3 DEF Believed
<1>5. clock \in Nat
  BY BoundFacts DEF TypeInv, TypeOK
<1>6. Faithful(Believed(s), disk, edits, clock)' /\ NeverOlder
  BY <1>1, <1>4, <1>5, BeliefStays
<1> QED BY <1>2, <1>6 DEF SyncInv, DueIsNewer

\* Every step keeps the invariant and replaces no file by an older one.
LEMMA StepKeepsOrder ==
  ASSUME OneAtATime, NEW s, Sessions = {s}, TypeInv, SyncInv(s), [Next]_vars
  PROVE  SyncInv(s)' /\ NeverOlder
<1>0. TypeInv' /\ s \in Sessions
  BY StepKeepsType
<1>1. ASSUME NEW d \in Devices, NEW p \in Paths, UserEdit(d, p) PROVE SyncInv(s)' /\ NeverOlder
  BY <1>0, <1>1, EditKeepsOrder
<1>2. ASSUME NEW d \in Devices, Notice(d) PROVE SyncInv(s)' /\ NeverOlder
  BY <1>0, <1>2, NoticeKeepsOrder
<1>3. ASSUME NEW d \in Devices, LoseState(d) PROVE FALSE
  <2>1. losses \in Nat /\ losses < 0
    BY <1>3, BoundFacts DEF LoseState, OneAtATime, TypeInv, TypeOK
  <2> QED BY <2>1
<1>4. ASSUME SessionStep(s) PROVE SyncInv(s)' /\ NeverOlder
  <2>1. ASSUME Drop(s) \/ \E p \in Paths : DropHalfPut(s, p) PROVE FALSE
    <3>1. drops \in Nat /\ drops < 0
      BY <2>1, BoundFacts DEF Drop, DropHalfPut, OneAtATime, TypeInv, TypeOK
    <3> QED BY <3>1
  <2> QED BY <1>0, <1>4, <2>1, StartKeepsOrder, AnswerKeepsOrder, PullKeepsOrder, PushKeepsOrder, FinishKeepsOrder
          DEF SessionStep
<1>5. CASE UNCHANGED vars
  <2>1. UNCHANGED <<disk, session, edits, state, clock>>
    BY <1>5 DEF vars
  <2>2. \A d \in Devices : Believed(s)'[d] = Believed(s)[d]
    BY <2>1 DEF Believed
  <2>3. clock \in Nat
    BY BoundFacts DEF TypeInv, TypeOK
  <2>4. Faithful(Believed(s), disk, edits, clock)' /\ NeverOlder
    BY <1>0, <2>1, <2>2, <2>3, BeliefStays DEF SyncInv
  <2>5. DueIsNewer(s)'
    BY <2>1 DEF SyncInv, DueIsNewer
  <2> QED BY <2>4, <2>5 DEF SyncInv
<1> QED BY <1>1, <1>2, <1>3, <1>4, <1>5 DEF Next

\* Empty folders agree.
LEMMA OrderStart ==
  ASSUME NEW s \in Sessions, Init
  PROVE  SyncInv(s)
<1>1. session[s] = NoSession /\ edits = 0 /\ clock = 0
  BY DEF Init
<1>2. \A d \in Devices, p \in Paths : Believed(s)[d][p] = NoRecord /\ disk[d][p] = NoFile
  BY <1>1 DEF Init, Believed, NoManifest
<1> QED BY <1>1, <1>2 DEF SyncInv, Faithful, DueIsNewer, Describes, InOrder, NoFile

\* The rule of reconcile ("newest write wins") holds of what happens to the
\* files, not only of one comparison: through any number of sessions, a device's
\* file or deletion only gives way to one of a later edit.  Each condition is
\* needed: a late watcher, an edit during a session, a second session, one that
\* breaks off or a state file that is lost lets an older file win.
THEOREM NewerWins == OneAtATime => (Spec => NewestWins)
<1> SUFFICES ASSUME OneAtATime PROVE Spec => NewestWins
  OBVIOUS
<1>1. PICK s : Sessions = {s}
  BY DEF OneAtATime
<1>2. Init => SyncInv(s)
  BY <1>1, OrderStart
<1>3. TypeInv /\ SyncInv(s) /\ [Next]_vars => SyncInv(s)' /\ NeverOlder
  BY <1>1, StepKeepsOrder
<1> QED BY <1>2, <1>3, TypeStart, StepKeepsType, PTL DEF Spec, NewestWins, NeverOlder
=============================================================================
