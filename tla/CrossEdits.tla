---------------------------- MODULE CrossEdits ----------------------------
(***************************************************************************)
(* Edits of a paired device's roast (src/roastmesh/device_sync.py, the     *)
(* device watch loop of net.py, `device stage-edit` of cli.py, and         *)
(* apply_delivered_edit of index/ingest.py), on top of Pairing.            *)
(*                                                                         *)
(* `device stage-edit` writes the edited bytes into the staging area and a *)
(* record into the state file; it and the watch loop of a serving node     *)
(* then run push_staged_edits, each in a process of its own: it puts the   *)
(* file into a folder of the device that owns the roast, whose watch loop  *)
(* publishes it as an entry that supersedes the roast.                     *)
(*                                                                         *)
(* An edit is addressed to a seq of the owner's feed, and its files are    *)
(* named after it: the seq that the row of the roast, or of an earlier     *)
(* edit of it, has in the index of the editing device.  That index lags    *)
(* behind the feed, and ingest_feed goes through all of it again for every *)
(* new entry, moving the row of bytes that are there twice back and forth: *)
(* any seq at which the feed had a version of the roast may be read.  In   *)
(* the owner's own index a row has moved to the last seq with its bytes,   *)
(* and `feed ingest` of the own feed is left out.  No two edits have the   *)
(* same bytes, nor those of a roast: setting notes back to an earlier text *)
(* is left out.  Seqs are counted from 1 here.                             *)
(***************************************************************************)
EXTENDS Pairing, Sequences, SequencesExt

CONSTANTS
    Owner,          \* the device whose roasts are edited
    Roasts,         \* the bytes of roasts it published
    Posted,         \* its feed before any edit
    Edits, By, Of,  \* edits: x is made on device By[x], of roast Of[x]
    Pushers, On,    \* processes that push: p runs on device On[p]
    NoEdit,
    StagesMeanwhile,  \* an edit may be staged while a push is under way
    MaxLost,        \* bound: answers lost
    MaxKilled       \* bound: processes killed

ASSUME CrossEditsAssumption ==
    /\ Owner \in Devices /\ NoEdit \notin Edits \union Roasts
    /\ Roasts \intersect Edits = {} /\ Posted \in Seq(Roasts)
    /\ Edits \subseteq Nat /\ By \in [Edits -> Devices \ {Owner}] /\ Of \in [Edits -> Roasts]
    /\ On \in [Pushers -> Devices \ {Owner}]
    /\ StagesMeanwhile \in BOOLEAN /\ {MaxLost, MaxKilled} \subseteq Nat

VARIABLES
    log,        \* the owner's feed: the bytes of each entry
    addr,       \* addr[x]: the seq edit x is addressed to, 0 before it is staged
    copy,       \* copy[d]: the edits in d's staging area, one for an address
    record,     \* record[d]: the addresses with a record in d's state file
    push,       \* push[p]: the call of push_staged_edits p is in
    inbox,      \* the edits in the owner's folder of delivered ones, one for an address
    lost, killed

editVars == <<log, addr, copy, record, push, inbox, lost, killed>>
deliveryVars == <<pairVars, editVars>>

Maybe == Edits \union {NoEdit}
\* at: idle, next, dialled, or answered; edit: the bytes read for the first of todo.
Push == [at: {"idle", "next", "dialled", "answered"}, todo: SUBSET Nat, left: SUBSET Nat,
         edit: Maybe, delivered: BOOLEAN]
Idle == [at |-> "idle", todo |-> {}, left |-> {}, edit |-> NoEdit, delivered |-> FALSE]

DeliveryTypeOK ==
    /\ PairTypeOK
    /\ log \in Seq(Roasts \union Edits)
    /\ addr \in [Edits -> 0 .. Len(log)]
    /\ copy \in [Devices -> SUBSET Edits]
    /\ record \in [Devices -> SUBSET Nat]
    /\ push \in [Pushers -> Push]
    /\ \A p \in Pushers : push[p].at \in {"dialled", "answered"} <=> push[p].edit # NoEdit
    /\ inbox \subseteq Edits
    /\ lost \in 0 .. MaxLost /\ killed \in 0 .. MaxKilled

DeliveryInit ==
    /\ PairInit
    /\ log = Posted
    /\ addr = [x \in Edits |-> 0]
    /\ copy = [d \in Devices |-> {}]
    /\ record = [d \in Devices |-> {}]
    /\ push = [p \in Pushers |-> Idle]
    /\ inbox = {}
    /\ lost = 0 /\ killed = 0

Made == {x \in Edits : addr[x] # 0}

\* The owner's index has a row at seq s: ingesting known bytes moves their row.
IsRow(s) == s \in 1 .. Len(log) /\ \A i \in s + 1 .. Len(log) : log[i] # log[s]

\* The roast that bytes are a version of.
RoastOf(c) == IF c \in Edits THEN Of[c] ELSE c

\* Files of one folder after x was written at seq s.
Written(files, x, s) == {y \in files : addr[y] # s} \union {x}

-----------------------------------------------------------------------------
(***************************************************************************)
(* The editing device.                                                     *)
(***************************************************************************)
\* `device stage-edit` of a row: the bytes, then the record.
Stage(x) ==
    LET d == By[x]
    IN  /\ x \notin Made
        /\ \A y \in Edits : By[y] = d /\ y < x => y \in Made
        /\ Owner \in trusted[d]
        /\ StagesMeanwhile \/ \A p \in Pushers : On[p] = d => push[p].at = "idle"
        /\ \E s \in 1 .. Len(log) :
               /\ RoastOf(log[s]) = Of[x]
               /\ addr' = [addr EXCEPT ![x] = s]
               /\ copy' = [copy EXCEPT ![d] = Written(@, x, s)]
               /\ record' = [record EXCEPT ![d] = @ \union {s}]
        /\ UNCHANGED <<pairVars, log, push, inbox, lost, killed>>

StartPush(p) ==
    /\ push[p].at = "idle" /\ record[On[p]] # {}
    /\ push' = [push EXCEPT ![p] = [Idle EXCEPT !.at = "next", !.todo = record[On[p]],
                                                !.left = record[On[p]]]]
    /\ UNCHANGED <<pairVars, log, addr, copy, record, inbox, lost, killed>>

First(p) == CHOOSE s \in push[p].todo : TRUE

\* The copy of the next edit is read and its owner dialled, which refuses
\* whom it does not trust.  A copy that is gone drops the record.
Dial(p) ==
    LET s == First(p)
        rest == push[p].todo \ {s}
        there == {x \in copy[On[p]] : addr[x] = s}
    IN  /\ push[p].at = "next" /\ push[p].todo # {}
        /\ \/ /\ there = {}
              /\ push' = [push EXCEPT ![p] = [@ EXCEPT !.todo = rest, !.left = push[p].left \ {s}]]
           \/ /\ there # {} /\ On[p] \notin trusted[Owner]
              /\ push' = [push EXCEPT ![p] = [@ EXCEPT !.todo = rest]]
           \/ /\ On[p] \in trusted[Owner]
              /\ \E x \in there :
                     push' = [push EXCEPT ![p] = [@ EXCEPT !.at = "dialled", !.edit = x]]
        /\ UNCHANGED <<pairVars, log, addr, copy, record, inbox, lost, killed>>

\* The owner's server writes the file.  Trust is not looked at again.
Put(p) ==
    /\ push[p].at = "dialled"
    /\ inbox' = Written(inbox, push[p].edit, First(p))
    /\ push' = [push EXCEPT ![p].at = "answered"]
    /\ UNCHANGED <<pairVars, log, addr, copy, record, lost, killed>>

After(p, left) == [push EXCEPT ![p].at = "next", ![p].todo = @ \ {First(p)}, ![p].left = left,
                               ![p].edit = NoEdit, ![p].delivered = @ \/ left # push[p].left]

\* An exception, before the file was written or after: a later pass retries.
Lose(p) ==
    /\ push[p].at \in {"dialled", "answered"}
    /\ lost < MaxLost /\ lost' = lost + 1  \* bound
    /\ push' = After(p, push[p].left)
    /\ UNCHANGED <<pairVars, log, addr, copy, record, inbox, killed>>

\* The answer arrives: the copy is deleted, whatever is in it by now.
Acknowledge(p) ==
    /\ push[p].at = "answered"
    /\ copy' = [copy EXCEPT ![On[p]] = {x \in @ : addr[x] # First(p)}]
    /\ push' = After(p, push[p].left \ {First(p)})
    /\ UNCHANGED <<pairVars, log, addr, record, inbox, lost, killed>>

Kept_OnlyUnread(p) == push[p].todo

\* What save_staged writes at the end: what was read at the start, without what
\* was delivered; nothing is written if nothing was.
Kept(p) == IF push[p].delivered THEN push[p].left ELSE record[On[p]]

EndPush(p) ==
    /\ push[p].at = "next" /\ push[p].todo = {}
    /\ record' = [record EXCEPT ![On[p]] = Kept(p)]
    /\ push' = [push EXCEPT ![p] = Idle]
    /\ UNCHANGED <<pairVars, log, addr, copy, inbox, lost, killed>>

Kill(p) ==
    /\ push[p].at # "idle"
    /\ killed < MaxKilled /\ killed' = killed + 1  \* bound
    /\ push' = [push EXCEPT ![p] = Idle]
    /\ UNCHANGED <<pairVars, log, addr, copy, record, inbox, lost>>

-----------------------------------------------------------------------------
(***************************************************************************)
(* The owner.                                                              *)
(***************************************************************************)
Applicable_Once(x) ==
    /\ IsRow(addr[x])
    /\ \A y \in Range(log) \intersect Edits : addr[y] # addr[x]

\* Its own index has a row at the seq the edit is addressed to.
Applicable(x) == IsRow(addr[x])

\* The watch loop publishes a delivered edit, ingests the entry and deletes the
\* file; the node may be killed in between.  A refused edit stays, and is
\* refused again by every later pass.
Apply(x) ==
    /\ x \in inbox /\ Applicable(x)
    /\ log' = Append(log, x)
    /\ \/ inbox' = inbox \ {x} /\ UNCHANGED killed
       \/ killed < MaxKilled /\ killed' = killed + 1 /\ UNCHANGED inbox  \* bound
    /\ UNCHANGED <<pairVars, addr, copy, record, push, lost>>

PushStep(p) == StartPush(p) \/ Dial(p) \/ Put(p) \/ Acknowledge(p) \/ EndPush(p)

EditNext ==
    \/ \E x \in Edits : Stage(x) \/ Apply(x)
    \/ \E p \in Pushers : PushStep(p) \/ Lose(p) \/ Kill(p)

DeliveryNext == EditNext \/ (PairNext /\ UNCHANGED editVars)

DeliverySpec == DeliveryInit /\ [][DeliveryNext]_deliveryVars

\* The watch loops go on, and a dialled device answers.
DeliveryFairness ==
    /\ \A p \in Pushers : WF_deliveryVars(PushStep(p))
    /\ \A x \in Edits : WF_deliveryVars(Apply(x))

FairDelivery == DeliverySpec /\ DeliveryFairness

-----------------------------------------------------------------------------
(***************************************************************************)
(* Properties.                                                             *)
(***************************************************************************)
Replaced(x) == \E y \in Made : y > x /\ By[y] = By[x] /\ addr[y] = addr[x]

\* An edit is always somewhere: staged with its record, delivered, published, or
\* replaced by a later one at its address.  Killed processes, lost answers and
\* devices that no longer trust each other do not change that.
NoEditLost ==
    \A x \in Made : \/ x \in copy[By[x]] /\ addr[x] \in record[By[x]]
                    \/ x \in inbox \/ x \in Range(log) \/ Replaced(x)

\* The bytes at the address of x were published again, further on.
Moved(x) == ~ IsRow(addr[x])

\* An edit is published, or replaced, unless the owner stops trusting its device
\* or the row it is addressed to moves, because an edit was published twice.
EventuallyApplied ==
    \A x \in Edits : [](x \in Made =>
        <>(x \in Range(log) \/ Replaced(x) \/ By[x] \notin trusted[Owner] \/ Moved(x)))
=============================================================================
