------------------------------- MODULE Update -------------------------------
(***************************************************************************)
(* Updating the two binaries of a Linux installation in place              *)
(* (src/roastmesh/updater.py), from the window or from a shell: whatever   *)
(* is the latest release at the time of each download goes to a staging    *)
(* directory, the CLI is asked for its version, both are renamed over the  *)
(* installed ones, the background service is restarted, and the window     *)
(* starts itself anew.  A build is a version, and whether all of it came:  *)
(* a connection that closes early is no error to the download.             *)
(***************************************************************************)
EXTENDS Naturals

CONSTANTS
    Updaters,       \* processes of `roastmesh update`
    InWindow,       \* the one the window starts
    MaxVersion,     \* bound: releases
    MaxMishaps,     \* bound: failures, truncated downloads and kills
    NoBuild

ASSUME UpdateAssumption ==
    InWindow \in Updaters /\ MaxVersion \in Nat \ {0} /\ MaxMishaps \in Nat

VARIABLES
    released,       \* the latest release
    disk,           \* the installed binaries
    gui,            \* the version of the window that runs, 0 if none
    offered,        \* _update_info: the banner shows
    service,        \* the same of the background service
    enabled,        \* autostart.status().enabled
    updater,        \* updater[u]: how far it is, what it expects, its staging directory
    mishaps

updateVars == <<released, disk, gui, offered, service, enabled, updater, mishaps>>

Versions == 1 .. MaxVersion
Build == [version: Versions, whole: BOOLEAN]
Names == {"roastmesh", "roastmesh-gui"}
NoFiles == [f \in Names |-> NoBuild]
Idle == [step |-> "off", target |-> 0, staged |-> NoFiles]

UpdateTypeOK ==
    /\ released \in Versions /\ {gui, service} \subseteq 0 .. MaxVersion
    /\ disk \in [Names -> Build] /\ {enabled, offered} \subseteq BOOLEAN
    /\ updater \in [Updaters -> [step: {"off", "cli", "gui", "verify", "swap", "swap_gui", "restart", "done"},
                                 target: 0 .. MaxVersion, staged: [Names -> Build \union {NoBuild}]]]
    /\ mishaps \in 0 .. MaxMishaps

UpdateInit ==
    /\ released = 1 /\ disk = [f \in Names |-> [version |-> 1, whole |-> TRUE]]
    /\ gui = 0 /\ offered = FALSE /\ enabled \in BOOLEAN /\ service = IF enabled THEN 1 ELSE 0
    /\ updater = [u \in Updaters |-> Idle] /\ mishaps = 0

-----------------------------------------------------------------------------
Mishap == mishaps < MaxMishaps /\ mishaps' = mishaps + 1
Goes(u, step) == updater' = [updater EXCEPT ![u].step = step]
Runs(build) == IF build.whole THEN build.version ELSE 0

\* `roastmesh update`, and perform_update's own check_latest, which may fail.
Begin(u) ==
    /\ updater[u].step = "off" /\ disk["roastmesh"].whole
    /\ u = InWindow => gui > 0 /\ offered
    /\ \/ updater' = [updater EXCEPT ![u] = [Idle EXCEPT !.step = "cli", !.target = released]] /\ UNCHANGED mishaps
       \/ updater' = [updater EXCEPT ![u] = [Idle EXCEPT !.step = "cli"]] /\ Mishap
    /\ UNCHANGED <<released, disk, gui, offered, service, enabled>>

\* _download.
Download(u, file, step, next) ==
    /\ updater[u].step = step
    /\ \E whole \in BOOLEAN :
        /\ updater' = [updater EXCEPT ![u].step = next,
                                      ![u].staged[file] = [version |-> released, whole |-> whole]]
        /\ IF whole THEN UNCHANGED mishaps ELSE Mishap
    /\ UNCHANGED <<released, disk, gui, offered, service, enabled>>

\* _binary_version is asked of the CLI only.
Accepts_Any(got, target) == TRUE
Accepts(got, target) == got # 0 /\ target \in {0, got}

Verify(u) ==
    /\ updater[u].step = "verify"
    /\ Goes(u, IF Accepts(Runs(updater[u].staged["roastmesh"]), updater[u].target) THEN "swap" ELSE "off")
    /\ UNCHANGED <<released, disk, gui, offered, service, enabled, mishaps>>

\* os.replace.
Replace(u, file, step, next) ==
    /\ updater[u].step = step /\ disk' = [disk EXCEPT ![file] = updater[u].staged[file]]
    /\ Goes(u, next) /\ UNCHANGED <<released, gui, offered, service, enabled, mishaps>>

\* _restart_background: what fails there is no failure of the update.
Restart(u) ==
    /\ updater[u].step = "restart" /\ Goes(u, "done")
    /\ \/ service' = (IF enabled THEN Runs(disk["roastmesh"]) ELSE service) /\ UNCHANGED mishaps
       \/ enabled /\ Mishap /\ service' \in {0, service}
    /\ UNCHANGED <<released, disk, gui, offered, enabled>>

\* The window starts, and asks the CLI for a newer release, which may fail silently.
Launches ==
    /\ gui' = Runs(disk["roastmesh-gui"])
    /\ offered' \in {FALSE, gui' > 0 /\ disk["roastmesh"].whole /\ released > disk["roastmesh"].version}

\* _on_update_done starts the window anew, if it is still there.
Done(u) ==
    /\ updater[u].step = "done" /\ updater' = [updater EXCEPT ![u] = Idle]
    /\ IF u = InWindow /\ gui > 0 THEN Launches ELSE UNCHANGED <<gui, offered>>
    /\ UNCHANGED <<released, disk, service, enabled, mishaps>>

\* A download fails, or the process is killed at any point.
Fail(u) ==
    /\ updater[u].step # "off" /\ Mishap /\ updater' = [updater EXCEPT ![u] = Idle]
    /\ UNCHANGED <<released, disk, gui, offered, service, enabled>>

Release ==
    /\ released < MaxVersion /\ released' = released + 1
    /\ UNCHANGED <<disk, gui, offered, service, enabled, updater, mishaps>>

\* The window is opened and closed; the machine starts.
OpenWindow ==
    /\ gui = 0 /\ Launches
    /\ UNCHANGED <<released, disk, service, enabled, updater, mishaps>>

CloseGui ==
    /\ gui > 0 /\ gui' = 0 /\ offered' = FALSE
    /\ UNCHANGED <<released, disk, service, enabled, updater, mishaps>>

Boot ==
    /\ Mishap /\ gui' = 0 /\ offered' = FALSE /\ updater' = [u \in Updaters |-> Idle]
    /\ service' = IF enabled THEN Runs(disk["roastmesh"]) ELSE 0
    /\ UNCHANGED <<released, disk, enabled>>

Enable ==
    /\ disk["roastmesh"].whole
    /\ \/ enabled' = TRUE /\ service' = Runs(disk["roastmesh"])
       \/ enabled /\ enabled' = FALSE /\ service' = 0
    /\ UNCHANGED <<released, disk, gui, offered, updater, mishaps>>

UpdateNext ==
    \/ \E u \in Updaters :
        \/ Begin(u) \/ Verify(u) \/ Restart(u) \/ Done(u) \/ Fail(u)
        \/ Download(u, "roastmesh", "cli", "gui") \/ Download(u, "roastmesh-gui", "gui", "verify")
        \/ Replace(u, "roastmesh", "swap", "swap_gui") \/ Replace(u, "roastmesh-gui", "swap_gui", "restart")
    \/ Release \/ OpenWindow \/ CloseGui \/ Boot \/ Enable

UpdateSpec == UpdateInit /\ [][UpdateNext]_updateVars

-----------------------------------------------------------------------------
\* Whatever is cut short, killed or updated twice at a time, the command line program
\* on disk works, and with it the background service and the next update.
CliRuns == disk["roastmesh"].whole
=============================================================================
