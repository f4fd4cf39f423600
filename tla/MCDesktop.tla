------------------------------ MODULE MCDesktop ------------------------------
(***************************************************************************)
(* Four parts of the desktop application that share no state, each on its  *)
(* own: who runs the node, the window of a roast, an update, and the       *)
(* profile and the likes of a user.  Which of them moves is chosen at the  *)
(* start.                                                                  *)
(***************************************************************************)
EXTENDS Supervisor, DetailWindow, Update, Profiles, TLC

CONSTANTS s1, w1, w2

VARIABLE part

DesktopInit ==
    /\ part \in {"node", "window", "update", "profiles"}
    /\ Init /\ WindowInit
    /\ UpdateInit /\ (part # "update" => ~ enabled)
    /\ ProfilesInit /\ online = IF part = "profiles" THEN Readers ELSE {}

DesktopNext ==
    /\ UNCHANGED part
    /\ \/ part = "node" /\ Next /\ UNCHANGED <<windowVars, updateVars, profileVars>>
       \/ part = "window" /\ WindowNext /\ UNCHANGED <<vars, updateVars, profileVars>>
       \/ part = "update" /\ UpdateNext /\ UNCHANGED <<vars, windowVars, profileVars>>
       \/ part = "profiles" /\ ProfilesNext /\ UNCHANGED <<vars, windowVars, updateVars>>

desktopVars == <<part, vars, windowVars, updateVars, profileVars>>

DesktopSpec ==
    /\ DesktopInit /\ [][DesktopNext]_desktopVars
    /\ \A s \in Supervisors : WF_vars(SupStep(s))
    /\ WindowFairness
    /\ ProfilesFairness

=============================================================================
