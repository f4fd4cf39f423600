---------------------------- MODULE DesktopProofs ----------------------------
(***************************************************************************)
(* Three parts of the desktop application.  For every number of windows,   *)
(* nodes, polls and crashes the supervisor's state is well typed, and with *)
(* a single supervisor process the state file never hides a running node   *)
(* of its but between the node's start and its record.  A window does not  *)
(* close over notes that were not saved.  An update never leaves a command *)
(* line program that does not run.                                         *)
(***************************************************************************)
EXTENDS Supervisor, DetailWindow, Update, NaturalLemmas

\* A new process has an id of its own.
LEMMA NewPid ==
  ASSUME FreePids # {}
  PROVE  /\ Min(FreePids) \in Pids
         /\ Min(FreePids) \notin nodes
         /\ \A s \in Supervisors : Min(FreePids) # sup[s].child
<1>1. FreePids \subseteq Nat
  BY SupervisorAssumption DEF FreePids, Pids
<1>2. Min(FreePids) \in FreePids
  BY <1>1, MinIsLeast
<1> QED BY <1>2 DEF FreePids

-----------------------------------------------------------------------------
(***************************************************************************)
(* Type correctness.                                                       *)
(***************************************************************************)
LEMMA InitTypeOK == Init => TypeOK
BY SupervisorAssumption
   DEF Init, TypeOK, NoStateFile, SupOff, WinClosed, StateFile, SupState, WinState

LEMMA SupervisorKeepsType ==
  ASSUME TypeOK, NEW s \in Supervisors,
         SupStep(s) \/ StartSup(s) \/ StopSup(s) \/ SpawnFails(s) \/ KillSup(s)
  PROVE  TypeOK'
<1> USE DEF TypeOK
<1>i. /\ SupOff \in SupState /\ sup[s] \in SupState /\ NoStateFile \in StateFile
      /\ [supervisor |-> s, node |-> None] \in StateFile
  BY DEF SupOff, SupState, NoStateFile, StateFile
<1>c. crashes < MaxCrashes => crashes + 1 \in 0 .. MaxCrashes
  BY SupervisorAssumption
<1>t. ASSUME Terminate(sup[s].child)
      PROVE  nodes' \subseteq nodes /\ crashes' \in 0 .. MaxCrashes
  BY <1>t, <1>c DEF Terminate
<1>1. CASE StartSup(s) \/ Claim(s)
  <2>1. CASE StartSup(s)
    BY <2>1 DEF StartSup, SupOff, SupState
  <2>2. CASE Claim(s)
    BY <2>2, <1>i DEF Claim, SupState
  <2> QED BY <1>1, <2>1, <2>2
<1>2. CASE ProbePort(s) \/ ReleasePort(s)
  <2>1. /\ [sup[s] EXCEPT !.pc = "probing", !.guiOpen = FALSE] \in SupState
        /\ [sup[s] EXCEPT !.pc = "decide", !.guiOpen = TRUE] \in SupState
        /\ [sup[s] EXCEPT !.pc = "decide"] \in SupState
    BY <1>i DEF SupState
  <2>2. CASE ProbePort(s)
    BY <2>1, <2>2 DEF ProbePort
  <2>3. CASE ReleasePort(s)
    BY <2>1, <2>3 DEF ReleasePort
  <2> QED BY <1>2, <2>2, <2>3
<1>3. CASE StopChild(s) \/ ForgetChild(s) \/ Rest(s)
  <2>1. CASE StopChild(s)
    BY <2>1, <1>i, <1>t DEF StopChild, SupState
  <2>2. CASE ForgetChild(s)
    <3>1. [sup[s] EXCEPT !.pc = "loop", !.child = None] \in SupState
      BY <1>i DEF SupState
    <3> QED BY <2>2, <3>1, <1>i DEF ForgetChild
  <2>3. CASE Rest(s)
    BY <2>3, <1>i DEF Rest, SupState
  <2> QED BY <1>3, <2>1, <2>2, <2>3
<1>4. CASE SpawnNode(s)
  <2>1. Min(FreePids) \in Pids
    BY <1>4, NewPid DEF SpawnNode
  <2> QED BY <1>4, <1>i, <2>1 DEF SpawnNode, SupState
<1>5. CASE SpawnFails(s)
  BY <1>5, <1>i, <1>c DEF SpawnFails, SupState
<1>6. CASE RecordNode(s)
  <2>1. [supervisor |-> s, node |-> sup[s].child] \in StateFile
    BY <1>i DEF StateFile, SupState
  <2> QED BY <1>6, <1>i, <2>1 DEF RecordNode, SupState
<1>7. CASE StopSup(s) \/ RemoveFile(s)
  BY <1>7, <1>i, <1>t DEF StopSup, RemoveFile, SupState
<1>8. CASE KillSup(s)
  <2>1. file' \in StateFile
    BY <1>8 DEF KillSup, StateFile
  <2> QED BY <1>8, <1>i, <1>c, <2>1 DEF KillSup
<1> QED BY <1>1, <1>2, <1>3, <1>4, <1>5, <1>6, <1>7, <1>8 DEF SupStep

LEMMA WindowKeepsType ==
  ASSUME TypeOK, NEW w \in Windows, WindowStep(w)
  PROVE  TypeOK'
<1> USE DEF TypeOK
<1>i. WinClosed \in WinState /\ win[w] \in WinState
  BY SupervisorAssumption DEF WinClosed, WinState
<1>1. CASE Launch(w) \/ Bind(w)
  <2>1. CASE Launch(w)
    BY <2>1, <1>i DEF Launch, WinState
  <2>2. CASE Bind(w)
    BY <2>2, <1>i DEF Bind, WinState
  <2> QED BY <1>1, <2>1, <2>2
<1>2. CASE LookForNode(w)
  <2>1. MustWait(w) => win[w].waited + 1 \in 0 .. MaxWait
    BY <1>i, SupervisorAssumption DEF MustWait, WinState
  <2> QED BY <1>2, <1>i, <2>1 DEF LookForNode, WinState
<1>3. CASE StartServing(w)
  <2>1. Min(FreePids) \in Pids
    BY <1>3, NewPid DEF StartServing
  <2> QED BY <1>3, <1>i, <2>1 DEF StartServing, WinState
<1>4. CASE StopServing(w) \/ Close(w) \/ Exit(w)
  BY <1>4, <1>i DEF StopServing, Close, Exit, WinState
<1>5. CASE KillWindow(w)
  BY <1>5, <1>i, SupervisorAssumption DEF KillWindow
<1> QED BY <1>1, <1>2, <1>3, <1>4, <1>5 DEF WindowStep

LEMMA NextKeepsTypeOK == TypeOK /\ [Next]_vars => TypeOK'
<1> SUFFICES ASSUME TypeOK, [Next]_vars PROVE TypeOK'
  OBVIOUS
<1>1. CASE \E n \in nodes : NodeDies(n)
  BY <1>1, SupervisorAssumption DEF NodeDies, TypeOK
<1>2. CASE UNCHANGED vars
  BY <1>2 DEF vars, TypeOK
<1> QED BY <1>1, <1>2, SupervisorKeepsType, WindowKeepsType DEF Next

\* The state of the supervisors, the windows, the port and the file stays well
\* typed: a window never waits longer than the handoff limit.
THEOREM HandoffTypeCorrect == Spec => []TypeOK
BY InitTypeOK, NextKeepsTypeOK, PTL DEF Spec

-----------------------------------------------------------------------------
(***************************************************************************)
(* The state file tells the truth.  To be inductive, the invariant also    *)
(* says that a supervisor has no child before it claims the file nor after *)
(* it tidied up.  It needs a single supervisor: two that start together    *)
(* both pass StartSup, and each overwrites the other's record.             *)
(***************************************************************************)
OneSupervisor == \A s, r \in Supervisors : s = r

ChildlessOutside ==
    \A s \in Supervisors : sup[s].pc \in {"off", "claim", "tidy"} => sup[s].child = None

FileInv == TypeOK /\ ChildlessOutside /\ NoHiddenNode

LEMMA InitFileInv == Init => FileInv
<1> SUFFICES ASSUME Init PROVE ChildlessOutside /\ NoHiddenNode
  BY InitTypeOK DEF FileInv
<1> QED BY DEF Init, ChildlessOutside, NoHiddenNode, SupOff

LEMMA SupervisorKeepsFile ==
  ASSUME OneSupervisor, FileInv, NEW s \in Supervisors,
         SupStep(s) \/ StartSup(s) \/ StopSup(s) \/ SpawnFails(s) \/ KillSup(s)
  PROVE  (ChildlessOutside /\ NoHiddenNode)'
<1> USE DEF FileInv, TypeOK, ChildlessOutside, NoHiddenNode
<1>s. Supervisors = {s} /\ sup[s] \in SupState
  BY DEF OneSupervisor
<1>n. None \notin nodes /\ None \notin nodes'
  <2>1. TypeOK'
    BY SupervisorKeepsType
  <2>2. None \notin Pids
    BY SupervisorAssumption DEF Pids
  <2> QED BY <2>1, <2>2
<1>1. CASE StartSup(s) \/ Claim(s)
  <2>1. CASE StartSup(s)
    BY <2>1, <1>s, <1>n DEF StartSup, SupOff, SupState
  <2>2. CASE Claim(s)
    <3>1. sup[s].child = None /\ sup'[s].child = None
      BY <2>2, <1>s DEF Claim, SupState
    <3> QED BY <3>1, <1>s, <1>n
  <2> QED BY <1>1, <2>1, <2>2
<1>2. CASE ProbePort(s) \/ ReleasePort(s) \/ Rest(s)
  <2>1. /\ sup'[s].child = sup[s].child
        /\ sup'[s].pc \in {"probing", "decide", "loop"}
        /\ sup[s].pc \in {"loop", "probing", "decide"}
    <3>1. CASE ProbePort(s)
      <4>1. \E r \in {[sup[s] EXCEPT !.pc = "probing", !.guiOpen = FALSE],
                     [sup[s] EXCEPT !.pc = "decide", !.guiOpen = TRUE]} : sup'[s] = r
        BY <3>1 DEF ProbePort
      <4>2. sup[s].pc = "loop"
        BY <3>1 DEF ProbePort
      <4>3. /\ DOMAIN sup[s] = {"pc", "child", "guiOpen"}
            /\ [sup[s] EXCEPT !.pc = "probing", !.guiOpen = FALSE].child = sup[s].child
            /\ [sup[s] EXCEPT !.pc = "probing", !.guiOpen = FALSE].pc = "probing"
            /\ [sup[s] EXCEPT !.pc = "decide", !.guiOpen = TRUE].child = sup[s].child
            /\ [sup[s] EXCEPT !.pc = "decide", !.guiOpen = TRUE].pc = "decide"
        BY <1>s DEF SupState
      <4> QED BY <4>1, <4>2, <4>3
    <3>2. CASE ReleasePort(s)
      BY <3>2, <1>s DEF ReleasePort, SupState
    <3>3. CASE Rest(s)
      BY <3>3, <1>s DEF Rest, SupState
    <3> QED BY <1>2, <3>1, <3>2, <3>3
  <2>2. UNCHANGED <<file, nodes>>
    BY <1>2 DEF ProbePort, ReleasePort, Rest
  <2> QED BY <2>1, <2>2, <1>s
<1>3. CASE StopChild(s) \/ ForgetChild(s)
  <2>1. CASE StopChild(s)
    <3>1. sup'[s].child = sup[s].child /\ sup'[s].pc = "forget"
      BY <2>1, <1>s DEF StopChild, SupState
    <3>2. /\ UNCHANGED file /\ nodes' \subseteq nodes
          /\ sup[s].pc = "decide"
      BY <2>1 DEF StopChild, Terminate
    <3> QED BY <3>1, <3>2, <1>s
  <2>2. CASE ForgetChild(s)
    <3>1. sup'[s].child = None
      BY <2>2, <1>s DEF ForgetChild, SupState
    <3> QED BY <3>1, <1>s, <1>n
  <2> QED BY <1>3, <2>1, <2>2
<1>4. CASE SpawnNode(s)
  <2>1. sup'[s].pc = "record"
    BY <1>4, <1>s DEF SpawnNode, SupState
  <2> QED BY <2>1, <1>s
<1>5. CASE SpawnFails(s)
  BY <1>5, <1>s, <1>n DEF SpawnFails, MayStart, SupState
<1>6. CASE RecordNode(s)
  BY <1>6, <1>s DEF RecordNode, SupState
<1>7. CASE StopSup(s) \/ RemoveFile(s) \/ KillSup(s)
  BY <1>7, <1>s, <1>n DEF StopSup, RemoveFile, KillSup, SupOff, SupState
<1> QED BY <1>1, <1>2, <1>3, <1>4, <1>5, <1>6, <1>7 DEF SupStep

\* What a window or a dying node does to the processes: it starts none under an
\* id the supervisor remembers.
LEMMA OthersKeepFile ==
  ASSUME FileInv, UNCHANGED <<sup, file>>,
         \A s \in Supervisors : sup[s].child \in nodes' => sup[s].child \in nodes
  PROVE  (ChildlessOutside /\ NoHiddenNode)'
BY DEF FileInv, ChildlessOutside, NoHiddenNode

LEMMA WindowKeepsFile ==
  ASSUME FileInv, NEW w \in Windows, WindowStep(w)
  PROVE  (ChildlessOutside /\ NoHiddenNode)'
<1>1. UNCHANGED <<sup, file>>
  BY DEF WindowStep, Launch, Bind, LookForNode, StartServing, StopServing, Close, Exit, KillWindow
<1>2. ASSUME NEW s \in Supervisors, sup[s].child \in nodes' PROVE sup[s].child \in nodes
  <2>1. CASE StartServing(w)
    BY <1>2, <2>1, NewPid DEF StartServing
  <2>2. CASE ~ StartServing(w)
    BY <1>2, <2>2 DEF WindowStep, Launch, Bind, LookForNode, StopServing, Close, Exit, KillWindow
  <2> QED BY <2>1, <2>2
<1> QED BY <1>1, <1>2, OthersKeepFile

\* With one supervisor process, whatever is killed and whenever windows open
\* and close, the file names the supervisor's node while it runs, so a window
\* that reads it waits, but for the moment between spawn and record.
THEOREM OneSupervisorHidesNoNode ==
  ASSUME OneSupervisor
  PROVE  Spec => []NoHiddenNode
<1>1. ASSUME FileInv, [Next]_vars PROVE FileInv'
  <2>1. TypeOK'
    BY <1>1, NextKeepsTypeOK DEF FileInv
  <2>2. CASE \E n \in nodes : NodeDies(n)
    BY <1>1, <2>1, <2>2, OthersKeepFile DEF NodeDies, FileInv
  <2>3. CASE UNCHANGED vars
    BY <1>1, <2>1, <2>3, OthersKeepFile DEF vars, FileInv
  <2> QED BY <1>1, <2>1, <2>2, <2>3, SupervisorKeepsFile, WindowKeepsFile DEF Next, FileInv
<1>2. FileInv /\ [Next]_vars => FileInv'
  BY <1>1
<1>3. FileInv => NoHiddenNode
  BY DEF FileInv
<1> QED BY <1>2, <1>3, InitFileInv, PTL DEF Spec

-----------------------------------------------------------------------------
(***************************************************************************)
(* The window of a roast.  While nothing is typed over a save, every save  *)
(* that was not noticed yet carries the text of the boxes; so what one of  *)
(* them stored is that text, and what is not dirty is stored.              *)
(***************************************************************************)
SavesCarryText == \A i \in Unnoticed : save[i].text = text
SavedIsStored == \A i \in Unnoticed : save[i].state = "done" => stored = text
CleanIsStored == ~ dirty => stored = text

NotesInv ==
    /\ dirty \in BOOLEAN /\ typedOver \in BOOLEAN /\ save \in [Slots -> Save \union {NoSave}]
    /\ text \in 0 .. MaxEdits
    /\ typedOver \/ (SavesCarryText /\ SavedIsStored /\ CleanIsStored)
    /\ EditsStick

LEMMA StartSaveKeepsNotes ==
  ASSUME NotesInv, NEW close \in BOOLEAN, StartSave(close),
         UNCHANGED <<text, dirty, stored, typedOver>>, window' = window
  PROVE  NotesInv'
<1>1. PICK i \in Slots \ Unnoticed :
        save' = [save EXCEPT ![i] = [text |-> text, close |-> close, state |-> "running"]]
  BY DEF StartSave
<1>2. [text |-> text, close |-> close, state |-> "running"] \in Save
  BY DEF NotesInv, Save
<1>3. save' \in [Slots -> Save \union {NoSave}]
  BY <1>1, <1>2 DEF NotesInv
<1>4. \A j \in Unnoticed' : \/ j = i /\ save'[j] = [text |-> text, close |-> close, state |-> "running"]
                            \/ j \in Unnoticed /\ save'[j] = save[j]
  BY <1>1 DEF NotesInv, Unnoticed
<1> QED BY <1>3, <1>4 DEF NotesInv, SavesCarryText, SavedIsStored, CleanIsStored, EditsStick

LEMMA NextKeepsNotes == NotesInv /\ [WindowNext]_windowVars => NotesInv'
<1> SUFFICES ASSUME NotesInv, [WindowNext]_windowVars PROVE NotesInv'
  OBVIOUS
<1> USE DEF NotesInv
<1>s. UNCHANGED save => Unnoticed' = Unnoticed
  BY DEF Unnoticed
<1>u. UNCHANGED <<text, dirty, stored, typedOver, save>>
      => (SavesCarryText' = SavesCarryText /\ SavedIsStored' = SavedIsStored
          /\ CleanIsStored' = CleanIsStored)
  BY <1>s DEF SavesCarryText, SavedIsStored, CleanIsStored
<1>1. CASE Type
  <2>1. /\ text' \in 0 .. MaxEdits /\ dirty' = TRUE /\ window' = "open"
        /\ typedOver' = (typedOver \/ Unnoticed # {}) /\ UNCHANGED save
    BY <1>1, DetailWindowAssumption DEF Type, Noticed
  <2>2. typedOver' \in BOOLEAN
    BY <2>1
  <2>3. CASE Unnoticed = {}
    BY <1>s, <2>1, <2>2, <2>3 DEF SavesCarryText, SavedIsStored, CleanIsStored, EditsStick
  <2>4. CASE Unnoticed # {}
    BY <2>1, <2>4 DEF EditsStick
  <2> QED BY <2>3, <2>4
<1>2. CASE Autosave
  <2>1. CASE UNCHANGED save
    BY <1>2, <1>u, <2>1 DEF Autosave, EditsStick
  <2>2. CASE StartSave(FALSE)
    BY <1>2, <2>2, StartSaveKeepsNotes DEF Autosave
  <2> QED BY <1>2, <2>1, <2>2 DEF Autosave
<1>3. CASE SaveNotes
  BY <1>3, StartSaveKeepsNotes DEF SaveNotes
<1>4. CASE CloseWindow
  <2>1. CASE ~ SaveRuns /\ ~ dirty /\ window' = "closed" /\ UNCHANGED save
    BY <1>4, <1>u, <2>1 DEF CloseWindow, CleanIsStored, EditsStick
  <2>2. CASE StartSave(TRUE) /\ UNCHANGED window
    BY <1>4, <2>2, StartSaveKeepsNotes DEF CloseWindow
  <2>3. CASE UNCHANGED <<window, save>>
    BY <1>4, <1>u, <2>3 DEF CloseWindow, EditsStick
  <2> QED BY <1>4, <2>1, <2>2, <2>3 DEF CloseWindow
<1>5. CASE AppCloses
  BY <1>5, <1>u DEF AppCloses, EditsStick
<1>6. ASSUME NEW i \in Slots, SaveEnds(i) PROVE NotesInv'
  <2>1. save[i] \in Save
    BY <1>6 DEF SaveEnds, Unnoticed
  <2>2. PICK end \in {"done", "failed"} :
          /\ save' = [save EXCEPT ![i].state = end]
          /\ stored' = IF end = "done" THEN save[i].text ELSE stored
    BY <1>6 DEF SaveEnds
  <2>3. [save[i] EXCEPT !.state = end] \in Save
    BY <2>1 DEF Save
  <2>4. save' \in [Slots -> Save \union {NoSave}]
    BY <2>2, <2>3
  <2>5. \A j \in Unnoticed' : j \in Unnoticed /\ save'[j].text = save[j].text
                             /\ (j # i => save'[j] = save[j])
    BY <1>6, <2>1, <2>2 DEF SaveEnds, Unnoticed, Save
  <2>6. i \in Unnoticed /\ save'[i].state = end
    BY <1>6, <2>1, <2>2 DEF SaveEnds, Save
  <2>7. UNCHANGED <<window, text, dirty, typedOver>>
    BY <1>6 DEF SaveEnds
  <2> QED BY <2>2, <2>4, <2>5, <2>6, <2>7 DEF SavesCarryText, SavedIsStored, CleanIsStored, EditsStick
<1>7. ASSUME NEW i \in Slots, Notice(i) PROVE NotesInv'
  <2>d. dirty' \in BOOLEAN /\ (dirty' <=> dirty /\ save[i].state = "failed")
    BY <1>7 DEF Notice
  <2>1. /\ save' \in [Slots -> Save \union {NoSave}]
        /\ \A j \in Unnoticed' : j \in Unnoticed /\ save'[j] = save[j]
    BY <1>7 DEF Notice, Unnoticed
  <2>2. save[i] \in Save
    BY <1>7 DEF Notice, Unnoticed
  <2>3. ~ typedOver /\ save[i].state # "failed" => stored = text
    BY <1>7, <2>2 DEF Notice, SavedIsStored, Save
  <2>4. /\ UNCHANGED <<text, stored, typedOver>>
        /\ window' = "closed" => save[i].state = "done"
    BY <1>7 DEF Notice, Closes
  <2>5. typedOver \/ (SavesCarryText /\ SavedIsStored)'
    BY <2>1, <2>4 DEF SavesCarryText, SavedIsStored
  <2>6. typedOver \/ CleanIsStored'
    BY <2>d, <2>3, <2>4 DEF CleanIsStored
  <2>7. EditsStick'
    BY <2>3, <2>4 DEF EditsStick
  <2> QED BY <2>d, <2>1, <2>4, <2>5, <2>6, <2>7
          DEF SavesCarryText, SavedIsStored, CleanIsStored, EditsStick
<1>8. CASE UNCHANGED windowVars
  BY <1>8, <1>u DEF windowVars, EditsStick
<1> QED BY <1>1, <1>2, <1>3, <1>4, <1>5, <1>6, <1>7, <1>8 DEF WindowNext

\* The window does not close over notes that were not saved, whatever saves fail
\* and in whatever order their ends are noticed, unless a save was typed over.
THEOREM NotesAreStored == WindowSpec => []EditsStick
<1>1. WindowInit => NotesInv
  <2>1. WindowInit => Unnoticed = {}
    BY DEF WindowInit, Unnoticed
  <2>2. WindowInit => SavesCarryText /\ SavedIsStored /\ CleanIsStored /\ EditsStick
    BY <2>1 DEF WindowInit, SavesCarryText, SavedIsStored, CleanIsStored, EditsStick
  <2>3. 0 \in 0 .. MaxEdits
    BY DetailWindowAssumption
  <2> QED BY <2>2, <2>3 DEF WindowInit, NotesInv
<1>2. NotesInv => EditsStick
  BY DEF NotesInv
<1> QED BY <1>1, <1>2, NextKeepsNotes, PTL DEF WindowSpec

-----------------------------------------------------------------------------
(***************************************************************************)
(* Updates.  What an updater has verified stays whole in its own staging   *)
(* directory until it is renamed over the installed program, whatever the  *)
(* other updaters do meanwhile and wherever this one is stopped.           *)
(***************************************************************************)
StagedWhole ==
    \A u \in Updaters :
        /\ updater[u].step \in {"gui", "verify", "swap"} => updater[u].staged["roastmesh"] \in Build
        /\ updater[u].step = "swap" => updater[u].staged["roastmesh"].whole
        /\ updater[u].step \in {"verify", "swap", "swap_gui"} => updater[u].staged["roastmesh-gui"] \in Build

UpdateInv == UpdateTypeOK /\ StagedWhole /\ CliRuns

LEMMA NextKeepsUpdates == UpdateInv /\ [UpdateNext]_updateVars => UpdateInv'
<1> SUFFICES ASSUME UpdateInv, [UpdateNext]_updateVars PROVE UpdateInv'
  OBVIOUS
<1> USE UpdateAssumption DEF UpdateInv
<1> DEFINE Steps == {"off", "cli", "gui", "verify", "swap", "swap_gui", "restart", "done"}
           Updater == [step: Steps, target: 0 .. MaxVersion, staged: [Names -> Build \union {NoBuild}]]
<1>t. /\ released \in Versions /\ gui \in 0 .. MaxVersion /\ service \in 0 .. MaxVersion
      /\ disk \in [Names -> Build] /\ enabled \in BOOLEAN /\ offered \in BOOLEAN
      /\ updater \in [Updaters -> Updater] /\ mishaps \in 0 .. MaxMishaps
  BY DEF UpdateTypeOK
<1>i. Idle \in Updater /\ Idle.step = "off"
  BY DEF Idle, NoFiles
<1>0. 0 \in 0 .. MaxVersion
  OBVIOUS
<1>n. "roastmesh" \in Names /\ "roastmesh-gui" \in Names
  BY DEF Names
<1>r. \A f \in Names : Runs(disk[f]) \in 0 .. MaxVersion
  BY <1>t DEF Runs, Build, Versions
<1>m. Mishap => mishaps' \in 0 .. MaxMishaps
  BY <1>t DEF Mishap
<1>g. ASSUME NEW u \in Updaters, NEW step \in Steps, Goes(u, step) 
      PROVE  /\ updater' \in [Updaters -> Updater]
             /\ \A v \in Updaters : updater'[v].staged = updater[v].staged
                /\ updater'[v].step = IF v = u THEN step ELSE updater[v].step
  BY <1>t, <1>g DEF Goes
\* An updater that stops or starts over, with an empty staging directory.
<1>b. ASSUME NEW u \in Updaters, NEW mine \in Updater, mine.step \in {"off", "cli"},
             updater' = [updater EXCEPT ![u] = mine]
      PROVE  updater' \in [Updaters -> Updater] /\ StagedWhole'
  BY <1>t, <1>b DEF StagedWhole
<1>l. Launches => gui' \in 0 .. MaxVersion /\ offered' \in BOOLEAN
  BY <1>r, <1>n DEF Launches
<1>1. ASSUME NEW u \in Updaters, Begin(u) PROVE UpdateInv'
  <2>1. ASSUME NEW mine \in Updater, NEW target \in 0 .. MaxVersion
        PROVE  /\ [mine EXCEPT !.step = "cli", !.target = target] \in Updater
               /\ [mine EXCEPT !.step = "cli", !.target = target].step = "cli"
               /\ [mine EXCEPT !.step = "cli"] \in Updater
               /\ [mine EXCEPT !.step = "cli"].step = "cli"
    OBVIOUS
  <2>2. PICK mine \in Updater : mine.step = "cli" /\ updater' = [updater EXCEPT ![u] = mine]
    <3>1. released \in 0 .. MaxVersion
      BY <1>t DEF Versions
    <3> HIDE DEF Updater
    <3> QED BY <1>1, <1>i, <2>1, <3>1, Zenon DEF Begin
  <2>3. mishaps' \in 0 .. MaxMishaps
    BY <1>1, <1>m, <1>t DEF Begin
  <2>4. updater' \in [Updaters -> Updater] /\ StagedWhole'
    BY <2>2, <1>b
  <2> QED BY <1>1, <1>t, <2>3, <2>4 DEF Begin, UpdateTypeOK, CliRuns
<1>2. ASSUME NEW u \in Updaters, Verify(u) PROVE UpdateInv'
  <2>1. PICK step \in {"swap", "off"} :
          /\ Goes(u, step)
          /\ step = "swap" => Runs(updater[u].staged["roastmesh"]) # 0
    BY <1>2 DEF Verify, Accepts
  <2>2. step = "swap" => updater[u].staged["roastmesh"].whole
    BY <2>1 DEF Runs
  <2>3. StagedWhole'
    BY <1>2, <1>g, <2>1, <2>2 DEF Verify, StagedWhole
  <2> QED BY <1>2, <1>g, <1>t, <2>1, <2>3 DEF Verify, UpdateTypeOK, CliRuns
<1>3. ASSUME NEW u \in Updaters, Restart(u) PROVE UpdateInv'
  <2>1. Goes(u, "done") /\ UNCHANGED <<released, disk, gui, offered, enabled>>
    BY <1>3 DEF Restart
  <2>2. StagedWhole'
    BY <1>g, <2>1 DEF StagedWhole
  <2>3. service' \in 0 .. MaxVersion /\ mishaps' \in 0 .. MaxMishaps
    BY <1>3, <1>t, <1>m, <1>r, <1>n DEF Restart
  <2> QED BY <1>g, <1>t, <2>1, <2>2, <2>3 DEF UpdateTypeOK, CliRuns
<1>4. ASSUME NEW u \in Updaters, Done(u) \/ Fail(u) PROVE UpdateInv'
  <2>1. updater' \in [Updaters -> Updater] /\ StagedWhole'
    BY <1>4, <1>b, <1>i DEF Done, Fail
  <2>2. gui' \in 0 .. MaxVersion /\ offered' \in BOOLEAN
    BY <1>4, <1>l, <1>t DEF Done, Fail
  <2>3. mishaps' \in 0 .. MaxMishaps
    BY <1>4, <1>m, <1>t DEF Done, Fail
  <2> QED BY <1>4, <1>t, <2>1, <2>2, <2>3 DEF Done, Fail, UpdateTypeOK, CliRuns
<1>5. ASSUME NEW u \in Updaters, NEW name \in Names, NEW step \in Steps, NEW next \in Steps,
             Download(u, name, step, next),
             \/ name = "roastmesh" /\ step = "cli" /\ next = "gui"
             \/ name = "roastmesh-gui" /\ step = "gui" /\ next = "verify"
      PROVE  UpdateInv'
  <2>1. PICK whole \in BOOLEAN :
          updater' = [updater EXCEPT ![u].step = next,
                                     ![u].staged[name] = [version |-> released, whole |-> whole]]
    BY <1>5 DEF Download
  <2> DEFINE build == [version |-> released, whole |-> whole]
  <2>2. build \in Build
    BY <1>t DEF Build
  <2> HIDE DEF build
  <2>3. updater' = [updater EXCEPT ![u] = [updater[u] EXCEPT !.step = next,
                                          !.staged = [updater[u].staged EXCEPT ![name] = build]]]
    BY <2>1, <1>t DEF build
  <2>4. [updater[u] EXCEPT !.step = next, !.staged = [updater[u].staged EXCEPT ![name] = build]] \in Updater
    BY <1>t, <2>2
  <2>5. updater' \in [Updaters -> Updater]
    BY <1>t, <2>3, <2>4
  <2>6. /\ \A v \in Updaters \ {u} : updater'[v] = updater[v]
        /\ updater'[u].step = next /\ updater'[u].staged[name] = build
        /\ \A f \in Names \ {name} : updater'[u].staged[f] = updater[u].staged[f]
    BY <1>t, <2>3
  <2>7. StagedWhole'
    <3> SUFFICES ASSUME NEW v \in Updaters
                 PROVE  /\ updater'[v].step \in {"gui", "verify", "swap"} => updater'[v].staged["roastmesh"] \in Build
                        /\ updater'[v].step = "swap" => updater'[v].staged["roastmesh"].whole
                        /\ updater'[v].step \in {"verify", "swap", "swap_gui"}
                              => updater'[v].staged["roastmesh-gui"] \in Build
      BY DEF StagedWhole
    <3>1. updater[u].step = step
      BY <1>5 DEF Download
    <3> QED BY <1>5, <1>n, <2>2, <2>6, <3>1 DEF StagedWhole
  <2>8. mishaps' \in 0 .. MaxMishaps
    BY <1>5, <1>m, <1>t DEF Download
  <2> QED BY <1>5, <1>t, <2>5, <2>7, <2>8 DEF Download, UpdateTypeOK, CliRuns
<1>6. ASSUME NEW u \in Updaters, NEW name \in Names, NEW step \in Steps, NEW next \in Steps,
             Replace(u, name, step, next),
             \/ name = "roastmesh" /\ step = "swap" /\ next = "swap_gui"
             \/ name = "roastmesh-gui" /\ step = "swap_gui" /\ next = "restart"
      PROVE  UpdateInv'
  <2>1. updater[u].step = step /\ updater[u].staged[name] \in Build
    BY <1>6 DEF Replace, StagedWhole
  <2>2. disk' \in [Names -> Build] /\ CliRuns'
    BY <1>6, <1>t, <1>n, <2>1 DEF Replace, StagedWhole, CliRuns
  <2>3. StagedWhole'
    BY <1>6, <1>g, <2>1 DEF Replace, StagedWhole
  <2> QED BY <1>6, <1>g, <1>t, <2>2, <2>3 DEF Replace, UpdateTypeOK
<1>7. CASE Release \/ OpenWindow \/ CloseGui \/ Enable \/ UNCHANGED updateVars
  <2>1. UNCHANGED <<disk, updater, mishaps>>
    BY <1>7 DEF Release, OpenWindow, CloseGui, Enable, updateVars
  <2>2. StagedWhole' /\ CliRuns'
    BY <2>1 DEF StagedWhole, CliRuns
  <2>3. CASE Release
    <3>1. released' \in Versions
      BY <1>t, <2>3 DEF Release, Versions
    <3> QED BY <1>t, <2>1, <2>2, <2>3, <3>1 DEF Release, UpdateTypeOK
  <2>4. CASE OpenWindow
    BY <1>t, <1>l, <2>1, <2>2, <2>4 DEF OpenWindow, UpdateTypeOK
  <2>5. CASE CloseGui
    BY <1>t, <1>0, <2>1, <2>2, <2>5 DEF CloseGui, UpdateTypeOK
  <2>6. CASE Enable
    <3>1. service' \in 0 .. MaxVersion
      BY <1>0, <1>r, <1>n, <2>6 DEF Enable
    <3>2. enabled' \in BOOLEAN
      BY <2>6 DEF Enable
    <3> QED BY <1>t, <2>1, <2>2, <2>6, <3>1, <3>2 DEF Enable, UpdateTypeOK
  <2>7. CASE UNCHANGED updateVars
    BY <1>t, <2>1, <2>2, <2>7 DEF updateVars, UpdateTypeOK
  <2> QED BY <1>7, <2>3, <2>4, <2>5, <2>6, <2>7
<1>8. CASE Boot
  <2>1. updater' \in [Updaters -> Updater] /\ StagedWhole'
    BY <1>8, <1>i DEF Boot, StagedWhole
  <2>2. service' \in 0 .. MaxVersion /\ mishaps' \in 0 .. MaxMishaps
    BY <1>8, <1>0, <1>r, <1>n, <1>m DEF Boot
  <2> QED BY <1>8, <1>0, <1>t, <2>1, <2>2 DEF Boot, UpdateTypeOK, CliRuns
<1>9. ASSUME NEW u \in Updaters,
             \/ Download(u, "roastmesh", "cli", "gui") \/ Download(u, "roastmesh-gui", "gui", "verify")
             \/ Replace(u, "roastmesh", "swap", "swap_gui") \/ Replace(u, "roastmesh-gui", "swap_gui", "restart")
      PROVE  UpdateInv'
  <2>1. {"cli", "gui", "verify", "swap", "swap_gui", "restart"} \subseteq Steps
    OBVIOUS
  <2> HIDE DEF Steps
  <2> QED BY <1>5, <1>6, <1>9, <1>n, <2>1
<1> HIDE DEF UpdateInv
<1> QED BY <1>1, <1>2, <1>3, <1>4, <1>7, <1>8, <1>9 DEF UpdateNext

\* However many updaters run at a time, whatever is released between their downloads,
\* and wherever they are cut short: the installed command line program is whole.
THEOREM UpdatesLeaveACli == UpdateSpec => []CliRuns
<1>1. UpdateInit => UpdateInv
  <2> SUFFICES ASSUME UpdateInit PROVE UpdateInv
    OBVIOUS
  <2>1. 1 \in Versions /\ {0, 1} \subseteq 0 .. MaxVersion /\ 0 \in 0 .. MaxMishaps
    BY UpdateAssumption DEF Versions
  <2>2. [version |-> 1, whole |-> TRUE] \in Build
    BY <2>1 DEF Build
  <2>3. StagedWhole /\ CliRuns
    BY DEF UpdateInit, StagedWhole, CliRuns, Idle, Names
  <2>4. Idle \in [step: {"off", "cli", "gui", "verify", "swap", "swap_gui", "restart", "done"},
                 target: 0 .. MaxVersion, staged: [Names -> Build \union {NoBuild}]]
    BY <2>1 DEF Idle, NoFiles
  <2> QED BY <2>1, <2>2, <2>3, <2>4 DEF UpdateInit, UpdateInv, UpdateTypeOK
<1>2. UpdateInv => CliRuns
  BY DEF UpdateInv
<1> QED BY <1>1, <1>2, NextKeepsUpdates, PTL DEF UpdateSpec
=============================================================================
