---------------------------- MODULE DetailWindow ----------------------------
(***************************************************************************)
(* The notes of a roast in its window (RoastDetailWindow of                *)
(* src/roastmesh/gui/app.py): a minute after the last keystroke, on a      *)
(* click and on closing, a `notes edit` process of gui/runner.py saves     *)
(* them, and the window learns of its end from a queue it polls.           *)
(*                                                                         *)
(* The text is the number of changes typed so far.  A save whose process   *)
(* has ended is not `running` any more, and not yet noticed.               *)
(***************************************************************************)
EXTENDS Naturals

CONSTANTS
    MaxEdits,       \* bound: changes typed
    MaxFails,       \* bound: saves that fail
    Slots,          \* bound: saves started and not noticed at a time
    NoSave

ASSUME DetailWindowAssumption == {MaxEdits, MaxFails} \subseteq Nat /\ NoSave \notin Slots

VARIABLES
    window,         \* "open", "closed" by the user, or "gone" with the application
    text,           \* what is in the text boxes
    dirty,          \* _notes_dirty
    timer,          \* _autosave_after_id: whether an autosave is due some time
    closing,        \* _on_close_window will look again
    save,           \* save[i]: a Task, the text it saves and whether to close then
    saveTask,       \* save_task: the last one started, unless a save was noticed since
    stored,         \* the notes in the index
    fails,
    typedOver       \* something was typed between the start of a save and its being noticed

windowVars == <<window, text, dirty, timer, closing, save, saveTask, stored, fails, typedOver>>

Save == [text: 0 .. MaxEdits, close: BOOLEAN, state: {"running", "done", "failed"}]

WindowTypeOK ==
    /\ window \in {"open", "closed", "gone"} /\ {text, stored} \subseteq 0 .. MaxEdits
    /\ {dirty, timer, closing, typedOver} \subseteq BOOLEAN
    /\ save \in [Slots -> Save \union {NoSave}] /\ saveTask \in Slots \union {NoSave}
    /\ fails \in 0 .. MaxFails

WindowInit ==
    /\ window = "open" /\ text = 0 /\ dirty = FALSE /\ timer = FALSE /\ closing = FALSE
    /\ save = [i \in Slots |-> NoSave] /\ saveTask = NoSave
    /\ stored = 0 /\ fails = 0 /\ typedOver = FALSE

-----------------------------------------------------------------------------
Unnoticed == {i \in Slots : save[i] # NoSave}
SaveRuns == saveTask # NoSave /\ save[saveTask].state = "running"

\* _on_notes_text_modified: Tk tells of a change only while its own flag is reset.
Noticed_Once(t) == t = 1
Noticed(t) == TRUE

Type ==
    /\ window = "open" /\ text < MaxEdits /\ text' = text + 1
    /\ IF Noticed(text') THEN dirty' = TRUE /\ timer' = TRUE ELSE UNCHANGED <<dirty, timer>>
    /\ typedOver' = (typedOver \/ Unnoticed # {})
    /\ UNCHANGED <<window, closing, save, saveTask, stored, fails>>

\* The part of _on_save_notes after its check.
StartSave(close) ==
    \E i \in Slots \ Unnoticed :
        /\ save' = [save EXCEPT ![i] = [text |-> text, close |-> close, state |-> "running"]]
        /\ saveTask' = i

\* _on_autosave_fire.
Autosave ==
    /\ window = "open" /\ timer
    /\ IF dirty /\ SaveRuns THEN UNCHANGED <<timer, save, saveTask>>
       ELSE /\ timer' = FALSE
            /\ IF dirty THEN StartSave(FALSE) ELSE UNCHANGED <<save, saveTask>>
    /\ UNCHANGED <<window, text, dirty, closing, stored, fails, typedOver>>

\* The button.
SaveNotes ==
    /\ window = "open" /\ ~ SaveRuns /\ StartSave(FALSE)
    /\ UNCHANGED <<window, text, dirty, timer, closing, stored, fails, typedOver>>

\* _on_close_window, clicked or called again.
CloseWindow ==
    /\ window = "open" /\ timer' = FALSE
    /\ \/ SaveRuns /\ closing' = TRUE /\ UNCHANGED <<window, save, saveTask>>
       \/ ~ SaveRuns /\ dirty /\ StartSave(TRUE) /\ closing' = FALSE /\ UNCHANGED window
       \/ ~ SaveRuns /\ ~ dirty /\ window' = "closed" /\ closing' = FALSE /\ UNCHANGED <<save, saveTask>>
    /\ UNCHANGED <<text, dirty, stored, fails, typedOver>>

\* The process ends, and the thread that waited for it.
SaveEnds(i) ==
    /\ i \in Unnoticed /\ save[i].state = "running"
    /\ \/ /\ save' = [save EXCEPT ![i].state = "done"] /\ stored' = save[i].text /\ UNCHANGED fails
       \/ /\ fails < MaxFails /\ fails' = fails + 1
          /\ save' = [save EXCEPT ![i].state = "failed"] /\ UNCHANGED stored
    /\ UNCHANGED <<window, text, dirty, timer, closing, saveTask, typedOver>>

\* _on_notes_saved, called by the pump of stream_into: a failure leaves the window open.
Closes_AnyWay(s) == s.close
Closes(s) == s.close /\ s.state = "done"

Notice(i) ==
    /\ window = "open" /\ i \in Unnoticed /\ save[i].state # "running"
    /\ saveTask' = NoSave /\ save' = [save EXCEPT ![i] = NoSave]
    /\ dirty' = (dirty /\ save[i].state = "failed")
    /\ window' = IF Closes(save[i]) THEN "closed" ELSE "open"
    /\ UNCHANGED <<text, timer, closing, stored, fails, typedOver>>

\* RoastmeshApp._on_close destroys every window; the processes of saves go on.
AppCloses ==
    /\ window = "open" /\ window' = "gone"
    /\ UNCHANGED <<text, dirty, timer, closing, save, saveTask, stored, fails, typedOver>>

WindowNext ==
    \/ Type \/ Autosave \/ SaveNotes \/ CloseWindow \/ AppCloses
    \/ \E i \in Slots : SaveEnds(i) \/ Notice(i)

WindowSpec == WindowInit /\ [][WindowNext]_windowVars

\* Timers fire, processes end, the queue is polled.
WindowFairness ==
    /\ WF_windowVars(Autosave) /\ WF_windowVars(closing /\ CloseWindow)
    /\ \A i \in Slots : WF_windowVars(SaveEnds(i)) /\ WF_windowVars(Notice(i))

-----------------------------------------------------------------------------
(***************************************************************************)
(* Properties.                                                             *)
(***************************************************************************)

\* The window does not close over notes that were not saved: the last version typed is
\* the one in the index, unless something was typed while a save was under way.
EditsStick == window = "closed" /\ ~ typedOver => stored = text

\* Nobody has to click: what was typed gets saved, if not while a save was under way,
\* if no save failed and the application stays.
SavedInTime == []<>(stored = text \/ typedOver \/ fails > 0 \/ window = "gone")

\* What the comments say, without the exception.
NothingTypedIsLost == window = "closed" => stored = text
=============================================================================
