------------------------------ MODULE Supervisor ------------------------------
(***************************************************************************)
(* Who runs `roastmesh node serve` on one machine: the background          *)
(* supervisor (src/roastmesh/background.py), which stops its node while a  *)
(* window of the application holds the single-instance port, or a window   *)
(* (src/roastmesh/gui/app.py), which waits for the supervisor's node to go *)
(* before it starts its own.  They meet at the port and at the state file  *)
(* background.json; nothing locks either.                                  *)
(*                                                                         *)
(* A node is its process id.  The id of a process that is gone reads as no *)
(* id, as every reader of the file asks pid_alive.  Delays are not         *)
(* modelled: a step may take any time.  Every write of the state file      *)
(* succeeds and is seen whole: _write_state ignores one that fails, and a  *)
(* node whose record failed would be hidden from every window.             *)
(***************************************************************************)
EXTENDS Naturals, FiniteSets, FiniteSetsExt

CONSTANTS
    Supervisors,    \* processes that run run_forever
    Windows,        \* launches of the application
    None,           \* no process, nobody
    MaxWait,        \* polls a window waits for (_BACKGROUND_HANDOFF_MS / 500)
    MaxNodes,       \* bound: node processes at a time
    MaxCrashes      \* bound: processes killed, starts and terminations that fail

ASSUME SupervisorAssumption ==
    /\ Supervisors \intersect Windows = {}
    /\ None \notin Supervisors \union Windows \union Nat
    /\ MaxWait \in Nat /\ MaxNodes \in Nat /\ MaxCrashes \in Nat

VARIABLES
    port,       \* who has bound the single-instance port
    file,       \* background.json
    sup,        \* sup[s]: a supervisor's local variables
    win,        \* win[w]: a window's
    nodes,      \* the node processes that are running
    crashes     \* crashes and failures so far

vars == <<port, file, sup, win, nodes, crashes>>

Pids == 1 .. MaxNodes

NoStateFile == [supervisor |-> None, node |-> None]
SupOff == [pc |-> "off", child |-> None, guiOpen |-> FALSE]
WinClosed == [pc |-> "closed", node |-> None, waited |-> 0]

StateFile == [supervisor: Supervisors \union {None}, node: Pids \union {None}]

SupState == [pc: {"off", "claim", "loop", "probing", "decide", "forget", "record", "tidy"},
             child: Pids \union {None}, guiOpen: BOOLEAN]

WinState == [pc: {"closed", "launched", "waiting", "start", "serving", "stopped", "closing"},
             node: Pids \union {None}, waited: 0 .. MaxWait]

TypeOK ==
    /\ port \in Supervisors \union Windows \union {None}
    /\ file \in StateFile
    /\ sup \in [Supervisors -> SupState]
    /\ win \in [Windows -> WinState]
    /\ nodes \subseteq Pids
    /\ crashes \in 0 .. MaxCrashes

Init ==
    /\ port = None
    /\ file = NoStateFile
    /\ sup = [s \in Supervisors |-> SupOff]
    /\ win = [w \in Windows |-> WinClosed]
    /\ nodes = {}
    /\ crashes = 0

\* An id no process has and nobody remembers.
FreePids ==
    Pids \ (nodes \union {file.node} \union {sup[s].child : s \in Supervisors}
                  \union {win[w].node : w \in Windows})

\* node_is_running: the state file names a node that is alive.
NodeIsRunning == file.node \in nodes

-----------------------------------------------------------------------------
(***************************************************************************)
(* The supervisor: run_forever.                                            *)
(***************************************************************************)
\* Started, unless the file names another supervisor that is alive.
StartSup(s) ==
    /\ sup[s].pc = "off" /\ file.supervisor \in {None, s}
    /\ sup' = [sup EXCEPT ![s] = [SupOff EXCEPT !.pc = "claim"]]
    /\ UNCHANGED <<port, file, win, nodes, crashes>>

Claim(s) ==
    /\ sup[s].pc = "claim"
    /\ file' = [supervisor |-> s, node |-> None]
    /\ sup' = [sup EXCEPT ![s].pc = "loop"]
    /\ UNCHANGED <<port, win, nodes, crashes>>

\* port_is_held binds the port, and so holds it itself for a moment.
ProbePort(s) ==
    /\ sup[s].pc = "loop"
    /\ IF port = None
       THEN port' = s /\ sup' = [sup EXCEPT ![s] = [@ EXCEPT !.pc = "probing", !.guiOpen = FALSE]]
       ELSE UNCHANGED port /\ sup' = [sup EXCEPT ![s] = [@ EXCEPT !.pc = "decide", !.guiOpen = TRUE]]
    /\ UNCHANGED <<file, win, nodes, crashes>>

ReleasePort(s) ==
    /\ sup[s].pc = "probing"
    /\ port' = None
    /\ sup' = [sup EXCEPT ![s].pc = "decide"]
    /\ UNCHANGED <<file, win, nodes, crashes>>

\* The child has to go: a window is open, or it is dead already.
MustStop_OnlyDead(s) == sup[s].child # None /\ sup[s].child \notin nodes
MustStop_OnlyForWindow(s) == sup[s].child # None /\ sup[s].guiOpen
MustStop(s) == sup[s].child # None /\ (sup[s].guiOpen \/ sup[s].child \notin nodes)

MayStart(s) == sup[s].child = None /\ ~ sup[s].guiOpen

\* _terminate: a signal that is refused, or not obeyed in time, is not reported.
Terminate(n) ==
    \/ nodes' = nodes \ {n} /\ UNCHANGED crashes
    \/ /\ n \in nodes /\ UNCHANGED nodes
       /\ crashes < MaxCrashes /\ crashes' = crashes + 1

\* The child is terminated, and only then the file is rewritten.
StopChild_ForgetsFirst(s) ==
    /\ sup[s].pc = "decide" /\ MustStop(s)
    /\ file' = [supervisor |-> s, node |-> None]
    /\ sup' = [sup EXCEPT ![s].pc = "forget"]
    /\ UNCHANGED <<port, win, nodes, crashes>>

StopChild(s) ==
    /\ sup[s].pc = "decide" /\ MustStop(s)
    /\ Terminate(sup[s].child)
    /\ sup' = [sup EXCEPT ![s].pc = "forget"]
    /\ UNCHANGED <<port, file, win>>

ForgetChild(s) ==
    /\ sup[s].pc = "forget"
    /\ file' = [supervisor |-> s, node |-> None]
    /\ sup' = [sup EXCEPT ![s] = [@ EXCEPT !.pc = "loop", !.child = None]]
    /\ UNCHANGED <<port, win, nodes, crashes>>

SpawnNode(s) ==
    /\ sup[s].pc = "decide" /\ MayStart(s) /\ FreePids # {}
    /\ nodes' = nodes \union {Min(FreePids)}
    /\ sup' = [sup EXCEPT ![s] = [@ EXCEPT !.pc = "record", !.child = Min(FreePids)]]
    /\ UNCHANGED <<port, file, win, crashes>>

SpawnFails(s) ==
    /\ crashes < MaxCrashes
    /\ sup[s].pc = "decide" /\ MayStart(s)
    /\ sup' = [sup EXCEPT ![s].pc = "loop"]
    /\ crashes' = crashes + 1
    /\ UNCHANGED <<port, file, win, nodes>>

RecordNode(s) ==
    /\ sup[s].pc = "record"
    /\ file' = [supervisor |-> s, node |-> sup[s].child]
    /\ sup' = [sup EXCEPT ![s].pc = "loop"]
    /\ UNCHANGED <<port, win, nodes, crashes>>

\* Nothing to do in this round.
Rest(s) ==
    /\ sup[s].pc = "decide" /\ ~ MustStop(s) /\ ~ MayStart(s)
    /\ sup' = [sup EXCEPT ![s].pc = "loop"]
    /\ UNCHANGED <<port, file, win, nodes, crashes>>

\* SIGTERM: the loop ends, the child is terminated, then the file removed.
StopSup(s) ==
    /\ sup[s].pc = "loop"
    /\ Terminate(sup[s].child)
    /\ sup' = [sup EXCEPT ![s] = [SupOff EXCEPT !.pc = "tidy"]]
    /\ UNCHANGED <<port, file, win>>

RemoveFile(s) ==
    /\ sup[s].pc = "tidy"
    /\ file' = NoStateFile
    /\ sup' = [sup EXCEPT ![s] = SupOff]
    /\ UNCHANGED <<port, win, nodes, crashes>>

\* Killed outright; its node may outlive it, as it has a session of its own.
KillSup(s) ==
    /\ crashes < MaxCrashes /\ sup[s].pc # "off"
    /\ nodes' \in {nodes, nodes \ {sup[s].child}}
    /\ port' = IF port = s THEN None ELSE port
    /\ file' = IF file.supervisor = s THEN [file EXCEPT !.supervisor = None] ELSE file
    /\ sup' = [sup EXCEPT ![s] = SupOff]
    /\ crashes' = crashes + 1
    /\ UNCHANGED win

-----------------------------------------------------------------------------
(***************************************************************************)
(* A window: main, and the Network tab's serving task.                     *)
(***************************************************************************)
\* another_instance_is_running: nobody listens on the port (a supervisor that
\* probes it has bound it but does not listen), so this launch goes on.
Launch(w) ==
    /\ win[w].pc = "closed" /\ port \notin Windows
    /\ win' = [win EXCEPT ![w].pc = "launched"]
    /\ UNCHANGED <<port, file, sup, nodes, crashes>>

\* start_focus_listener: if the port cannot be bound, the window opens anyway.
Bind(w) ==
    /\ win[w].pc = "launched"
    /\ port' = IF port = None THEN w ELSE port
    /\ win' = [win EXCEPT ![w].pc = "waiting"]
    /\ UNCHANGED <<file, sup, nodes, crashes>>

MustWait_OneMore(w) == NodeIsRunning /\ win[w].waited <= MaxWait
MustWait(w) == NodeIsRunning /\ win[w].waited < MaxWait

\* _start_serving_when_background_idle: look again later, or start.
LookForNode(w) ==
    /\ win[w].pc = "waiting"
    /\ win' = IF MustWait(w) THEN [win EXCEPT ![w].waited = @ + 1]
              ELSE [win EXCEPT ![w].pc = "start"]
    /\ UNCHANGED <<port, file, sup, nodes, crashes>>

\* _on_start_serve, from the wait, from the Start button or the restart that
\* applies a setting, or from the debug toggle, which does not wait either.
StartServing(w) ==
    /\ win[w].pc \in {"start", "stopped", "waiting"} /\ FreePids # {}
    /\ nodes' = nodes \union {Min(FreePids)}
    /\ win' = [win EXCEPT ![w] = [WinClosed EXCEPT !.pc = "serving", !.node = Min(FreePids)]]
    /\ UNCHANGED <<port, file, sup, crashes>>

\* _on_stop_serve: Task.cancel.
StopServing(w) ==
    /\ win[w].pc = "serving"
    /\ nodes' = nodes \ {win[w].node}
    /\ win' = [win EXCEPT ![w] = [WinClosed EXCEPT !.pc = "stopped"]]
    /\ UNCHANGED <<port, file, sup, crashes>>

\* _on_close cancels the task; the port is free when the process is gone.
Close(w) ==
    /\ win[w].pc \notin {"closed", "closing"}
    /\ nodes' = nodes \ {win[w].node}
    /\ win' = [win EXCEPT ![w] = [WinClosed EXCEPT !.pc = "closing"]]
    /\ UNCHANGED <<port, file, sup, crashes>>

Exit(w) ==
    /\ win[w].pc = "closing"
    /\ port' = IF port = w THEN None ELSE port
    /\ win' = [win EXCEPT ![w] = WinClosed]
    /\ UNCHANGED <<file, sup, nodes, crashes>>

\* Killed outright: its node, in a session of its own, goes on.
KillWindow(w) ==
    /\ crashes < MaxCrashes /\ win[w].pc # "closed"
    /\ port' = IF port = w THEN None ELSE port
    /\ win' = [win EXCEPT ![w] = WinClosed]
    /\ crashes' = crashes + 1
    /\ UNCHANGED <<file, sup, nodes>>

NodeDies(n) ==
    /\ crashes < MaxCrashes
    /\ nodes' = nodes \ {n}
    /\ crashes' = crashes + 1
    /\ UNCHANGED <<port, file, sup, win>>

-----------------------------------------------------------------------------
SupStep(s) ==
    \/ Claim(s) \/ ProbePort(s) \/ ReleasePort(s) \/ StopChild(s) \/ ForgetChild(s)
    \/ SpawnNode(s) \/ RecordNode(s) \/ Rest(s) \/ RemoveFile(s)

WindowStep(w) ==
    \/ Launch(w) \/ Bind(w) \/ LookForNode(w) \/ StartServing(w) \/ StopServing(w)
    \/ Close(w) \/ Exit(w) \/ KillWindow(w)

Next ==
    \/ \E s \in Supervisors : SupStep(s) \/ StartSup(s) \/ StopSup(s) \/ SpawnFails(s) \/ KillSup(s)
    \/ \E w \in Windows : WindowStep(w)
    \/ \E n \in nodes : NodeDies(n)

Spec == Init /\ [][Next]_vars

\* A supervisor that runs goes round its loop; windows do as their users like.
FairSpec == Spec /\ \A s \in Supervisors : WF_vars(SupStep(s))

-----------------------------------------------------------------------------
\* The file a window asks tells it of the supervisor's node for as long as that
\* node runs, but for the moment between its start and its record.
NoHiddenNode ==
    \A s \in Supervisors :
        sup[s].child \in nodes /\ sup[s].pc # "record" => file.node = sup[s].child

\* While a window that holds the port stays open, the supervisor yields: in the
\* end it runs no node, whatever it was doing when the window opened.  A node that
\* it could not terminate is not its child any more.
YieldsToWindow ==
    \A w \in Windows :
        <>[](port = w) => <>[](\A s \in Supervisors : sup[s].child \notin nodes)

\* Once no window is open and the supervisor stays up, it serves, whether the
\* windows were closed or killed: nobody has to remember to resume it.
ResumesServing ==
    \A s \in Supervisors :
        <>[](sup[s].pc \notin {"off", "tidy"} /\ \A w \in Windows : win[w].pc = "closed")
            => <>[](sup[s].child \in nodes)

\* There are never two nodes with one identity (src/ARCHITECTURE.md).
OneNode == Cardinality(nodes) <= 1
=============================================================================
