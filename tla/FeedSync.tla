------------------------------ MODULE FeedSync ------------------------------
(***************************************************************************)
(* One author's public feed and the nodes that mirror it.                  *)
(*                                                                         *)
(* On the author's machine, publishers call feed.append_entry: Watchers    *)
(* are runs of watch_folder.publish_new_files (serve() runs it in a        *)
(* thread), Editors are the calls that append without looking whether the  *)
(* bytes are already published (index.ingest.apply_delivered_edit on       *)
(* serve()'s event loop, the `feed publish` command in a process of its    *)
(* own).  Nothing locks the feed directory, so one call is four steps.     *)
(*                                                                         *)
(* On the other nodes, sync tasks pull the feed: directly from its author  *)
(* (net.sync_with_peer) or from another node that mirrors it               *)
(* (net._pull_third_party_feed).  A task's steps are the stretches between *)
(* its awaits, and each received entry is a step of its own, because the   *)
(* replication thread may evict the mirror in between.  Several tasks of   *)
(* one node may run at once: LAN discovery, internet discovery and the     *)
(* command line each start their own.                                      *)
(*                                                                         *)
(* Any of these calls may fail at any point; one that is killed, or out of *)
(* disk, while it writes a file leaves that file torn.  The removal of a   *)
(* mirror is one step: the code measures what is held before it removes    *)
(* it, file by file, and a task that reads or writes the mirror meanwhile  *)
(* sees a part of it.                                                      *)
(***************************************************************************)
EXTENDS Feed, Quota, Sequences

CONSTANTS
    Watchers, Editors,  \* the publishers
    Author,             \* the author, as the source of a sync
    Nodes,              \* the nodes that mirror the feed
    Tasks, Home,        \* sync tasks, and the node each one runs on
    MaxSigned,          \* bound: entries signed
    MaxTorn,            \* bound: file writes cut short
    MaxEvictions        \* bound: mirrors evicted

ASSUME FeedSyncAssumption ==
    /\ Author \notin Nodes
    /\ Home \in [Tasks -> Nodes]
    /\ Watchers \intersect Editors = {}
    /\ MaxSigned \in Nat /\ MaxTorn \in Nat /\ MaxEvictions \in Nat

Publishers == Watchers \union Editors

VARIABLES
    own,        \* the author's feed directory
    mirror,     \* mirror[n]: node n's directory for this feed
    index,      \* index[n]: the contents node n's search index holds
    pub,        \* pub[p]: publisher p's local variables
    task,       \* task[t]: sync task t's local variables
    today,      \* the calendar day
    signed,     \* every entry ever signed, in order: entry i has the id i
    torn, evictions     \* how many writes were cut short, mirrors evicted

vars == <<own, mirror, index, pub, task, today, signed, torn, evictions>>

PubIdle == [pc |-> "idle", content |-> NoFile, supersedes |-> NoSeq, entry |-> NoFile]

TaskIdle == [pc |-> "idle", source |-> Author, since |-> 0, held |-> {}, allow |-> 0,
             wire |-> {}, fresh |-> FALSE]

PubState == [pc: {"idle", "blob", "link", "write"}, content: Content \union {NoFile},
             supersedes: Seqs \union {NoSeq}, entry: Entry \union {NoFile}]

Wire == [entry: Entry, bytes: BlobState \ {"absent"}]

TaskState == [pc: {"idle", "meta", "feed", "store"}, source: Nodes \union {Author},
              since: Nat, held: SUBSET Entry, allow: Nat,
              wire: SUBSET Wire, fresh: BOOLEAN]

TypeOK ==
    /\ own \in FeedDir
    /\ mirror \in [Nodes -> FeedDir]
    /\ index \in [Nodes -> SUBSET Content]
    /\ pub \in [Publishers -> PubState]
    /\ task \in [Tasks -> TaskState]
    /\ today \in Days
    /\ signed \in Seq(Entry)
    /\ torn \in 0 .. MaxTorn
    /\ evictions \in 0 .. MaxEvictions

Init ==
    /\ own = EmptyDir
    /\ mirror = [n \in Nodes |-> EmptyDir]
    /\ index = [n \in Nodes |-> {}]
    /\ pub = [p \in Publishers |-> PubIdle]
    /\ task = [t \in Tasks |-> TaskIdle]
    /\ today = 1
    /\ signed = <<>>
    /\ torn = 0
    /\ evictions = 0

-----------------------------------------------------------------------------
(***************************************************************************)
(* Publishing: append_entry and its callers.                               *)
(***************************************************************************)
\* A call starts.  A watcher skips bytes that are already in the feed; an
\* editor may name an entry of the feed the new one supersedes.
Publish(p) ==
    /\ pub[p].pc = "idle"
    /\ Len(signed) + Cardinality({q \in Publishers : pub[q].pc # "idle"}) < MaxSigned
    /\ Readable(own)
    /\ \E c \in Content, s \in Files(own) \union {NoSeq} :
          /\ p \in Watchers => c \notin {e.content : e \in Entries(own)} /\ s = NoSeq
          /\ pub' = [pub EXCEPT ![p] = [PubIdle EXCEPT !.pc = "blob", !.content = c,
                                                       !.supersedes = s]]
    /\ UNCHANGED <<own, mirror, index, task, today, signed, torn, evictions>>

WriteOwnBlob(p) ==
    /\ pub[p].pc = "blob"
    /\ own' = WithBlob(own, pub[p].content, "whole")
    /\ pub' = [pub EXCEPT ![p].pc = "link"]
    /\ UNCHANGED <<mirror, index, task, today, signed, torn, evictions>>

\* read_entries, then the new entry is linked to the last one and signed.
SignEntry(p) ==
    /\ pub[p].pc = "link"
    /\ Readable(own)
    /\ EntryCount(own) < MaxSeq  \* bound
    /\ LET e == [id |-> Len(signed) + 1, seq |-> NextSeq(own), content |-> pub[p].content,
                 day |-> today, size |-> Size[pub[p].content], prev |-> LastHash(own),
                 supersedes |-> pub[p].supersedes]
       IN  /\ signed' = Append(signed, e)
           /\ pub' = [pub EXCEPT ![p] = [@ EXCEPT !.pc = "write", !.entry = e]]
    /\ UNCHANGED <<own, mirror, index, task, today, torn, evictions>>

WriteOwnEntry(p) ==
    /\ pub[p].pc = "write"
    /\ own' = WithEntry(own, pub[p].entry)
    /\ pub' = [pub EXCEPT ![p] = PubIdle]
    /\ UNCHANGED <<mirror, index, task, today, signed, torn, evictions>>

PublishFails(p) ==
    /\ pub[p].pc # "idle"
    /\ pub' = [pub EXCEPT ![p] = PubIdle]
    /\ UNCHANGED <<own, mirror, index, task, today, signed, torn, evictions>>

\* The write the publisher is at is cut short, and the publisher with it.
TearOwnWrite(p) ==
    /\ torn < MaxTorn
    /\ \/ /\ pub[p].pc = "blob"
          /\ own' = WithBlob(own, pub[p].content, "torn")
       \/ /\ pub[p].pc = "write"
          /\ own' = [own EXCEPT !.entry[pub[p].entry.seq] = Torn]
    /\ pub' = [pub EXCEPT ![p] = PubIdle]
    /\ torn' = torn + 1
    /\ UNCHANGED <<mirror, index, task, today, signed, evictions>>

NextDay ==
    /\ today < MaxDay
    /\ today' = today + 1
    /\ UNCHANGED <<own, mirror, index, pub, task, signed, torn, evictions>>

-----------------------------------------------------------------------------
(***************************************************************************)
(* Syncing: sync_with_peer (source = Author) and _pull_third_party_feed.   *)
(***************************************************************************)
SourceDir(src) == IF src = Author THEN own ELSE mirror[src]

\* What get_feed and get_feed_meta choose from.  A mirror that is not fully
\* held is answered as "no such feed here": no entries.
Offer(src, since) ==
    {e \in Entries(SourceDir(src)) :
        /\ e.seq >= since
        /\ src = Author \/ FullyHeld(SourceDir(src))}

\* The connection is up and the local mirror is read.  Another node is asked
\* only for a feed it advertised in get_held_feeds.
StartSync(t, src) ==
    LET d == mirror[Home[t]]
    IN  /\ task[t].pc = "idle"
        /\ Readable(d)
        /\ src # Author => src # Home[t] /\ FullyHeld(mirror[src])
        /\ task' = [task EXCEPT ![t] = [TaskIdle EXCEPT !.pc = "meta", !.source = src,
                                            !.since = EntryCount(d), !.held = Entries(d)]]
        /\ UNCHANGED <<own, mirror, index, pub, today, signed, torn, evictions>>

\* get_feed_meta is answered; the quotas say how many entries to ask for.  A
\* direct sync that asks for none still verifies and ingests what it has.
AnswerMeta(t) ==
    LET k == AllowedCount(task[t].held, Offer(task[t].source, task[t].since))
    IN  /\ task[t].pc = "meta"
        /\ Readable(SourceDir(task[t].source))
        /\ task' = [task EXCEPT ![t] =
                      IF k > 0 THEN [@ EXCEPT !.pc = "feed", !.held = {}, !.allow = k]
                      ELSE IF @.source = Author THEN [@ EXCEPT !.pc = "store", !.held = {}]
                      ELSE TaskIdle]
        /\ UNCHANGED <<own, mirror, index, pub, today, signed, torn, evictions>>

\* get_feed is answered with entries and blobs, as they are on disk now.
AnswerFeed(t) ==
    LET d == SourceDir(task[t].source)
        sent == FirstOf(Offer(task[t].source, task[t].since), task[t].allow)
    IN  /\ task[t].pc = "feed"
        /\ Readable(d)
        /\ \A e \in sent : d.blob[e.content] # "absent"
        /\ task' = [task EXCEPT ![t] =
                      IF sent = {} /\ @.source # Author THEN TaskIdle
                      ELSE [@ EXCEPT !.pc = "store", !.fresh = sent # {}, !.allow = 0,
                              !.wire = {[entry |-> e, bytes |-> d.blob[e.content]] : e \in sent}]]
        /\ UNCHANGED <<own, mirror, index, pub, today, signed, torn, evictions>>

\* The received entry to write next: they are written in order.
NextReceived_AnyOrder(t, r) ==
    task[t].pc = "store" /\ r \in task[t].wire

NextReceived(t, r) ==
    /\ task[t].pc = "store"
    /\ r \in task[t].wire
    /\ \A x \in task[t].wire : r.entry.seq <= x.entry.seq

StoreReceived(t) ==
    /\ \E r \in task[t].wire :
          /\ NextReceived(t, r)
          /\ mirror' = [mirror EXCEPT ![Home[t]] = Received(@, r.entry, r.bytes)]
          /\ task' = [task EXCEPT ![t].wire = @ \ {r}]
    /\ UNCHANGED <<own, index, pub, today, signed, torn, evictions>>

\* Whether a direct sync ingests: something arrived, or the index is behind
\* the mirror (_index_is_behind_mirror) because an earlier sync never got there.
IngestDue_FreshOnly(t) == task[t].fresh

IngestDue(t) ==
    task[t].fresh \/ Cardinality(index[Home[t]]) < EntryCount(mirror[Home[t]])

\* The end of a direct sync: the verified prefix is ingested.
FinishDirect(t) ==
    LET n == Home[t]
        d == mirror[n]
    IN  /\ task[t].pc = "store" /\ task[t].wire = {} /\ task[t].source = Author
        /\ Readable(d)
        /\ index' = [index EXCEPT ![n] =
                        IF IngestDue(t) THEN @ \union ContentsAt(d, 0 .. ValidCount(d) - 1) ELSE @]
        /\ task' = [task EXCEPT ![t] = TaskIdle]
        /\ UNCHANGED <<own, mirror, pub, today, signed, torn, evictions>>

\* The end of a third-party pull: keep the verified prefix only, drop the
\* mirror if there is none, ingest if the prefix grew (record_sync_replication).
FinishThirdParty(t) ==
    LET n == Home[t]
        d == mirror[n]
        v == ValidCount(d)
    IN  /\ task[t].pc = "store" /\ task[t].wire = {} /\ task[t].source # Author
        /\ Readable(d)
        /\ mirror' = [mirror EXCEPT ![n] = IF v = 0 THEN EmptyDir
                                           ELSE IF v < EntryCount(d) THEN Truncated(d, v) ELSE d]
        /\ index' = [index EXCEPT ![n] =
                        IF v > task[t].since THEN @ \union ContentsAt(d, 0 .. v - 1) ELSE @]
        /\ task' = [task EXCEPT ![t] = TaskIdle]
        /\ UNCHANGED <<own, pub, today, signed, torn, evictions>>

\* The connection is lost, the source answers with an error, or a file
\* operation raises: the task ends with what it has written so far.
SyncFails(t) ==
    /\ task[t].pc # "idle"
    /\ task' = [task EXCEPT ![t] = TaskIdle]
    /\ UNCHANGED <<own, mirror, index, pub, today, signed, torn, evictions>>

\* write_received_entry is cut short in its blob write or its entry write.
TearReceivedWrite(t) ==
    /\ torn < MaxTorn
    /\ \E r \in task[t].wire :
          /\ NextReceived(t, r)
          /\ LET d == mirror[Home[t]]
                 e == r.entry
             IN  \/ /\ d.blob[e.content] = "absent"
                    /\ mirror' = [mirror EXCEPT ![Home[t]] = WithBlob(d, e.content, "torn")]
                 \/ /\ d.entry[e.seq] = NoFile
                    /\ mirror' = [mirror EXCEPT ![Home[t]] =
                                    [WithBlob(d, e.content, r.bytes) EXCEPT !.entry[e.seq] = Torn]]
    /\ task' = [task EXCEPT ![t] = TaskIdle]
    /\ torn' = torn + 1
    /\ UNCHANGED <<own, index, pub, today, signed, evictions>>

\* _replication_loop, in its thread, evicts a mirror it measured as held.
Evict(n) ==
    /\ evictions < MaxEvictions
    /\ FullyHeld(mirror[n])
    /\ mirror' = [mirror EXCEPT ![n] = EmptyDir]
    /\ evictions' = evictions + 1
    /\ UNCHANGED <<own, index, pub, task, today, signed, torn>>

-----------------------------------------------------------------------------
PublisherStep(p) ==
    \/ Publish(p) \/ WriteOwnBlob(p) \/ SignEntry(p) \/ WriteOwnEntry(p)
    \/ PublishFails(p) \/ TearOwnWrite(p)

TaskStep(t) ==
    \/ \E src \in Nodes \union {Author} : StartSync(t, src)
    \/ AnswerMeta(t) \/ AnswerFeed(t) \/ StoreReceived(t)
    \/ FinishDirect(t) \/ FinishThirdParty(t)
    \/ SyncFails(t) \/ TearReceivedWrite(t)

Next ==
    \/ \E p \in Publishers : PublisherStep(p)
    \/ \E t \in Tasks : TaskStep(t)
    \/ \E n \in Nodes : Evict(n)
    \/ NextDay

Spec == Init /\ [][Next]_vars

\* Discovery redials a peer every few minutes for as long as both nodes run,
\* and connections do not fail forever; nothing obliges anyone to publish, to
\* pull from a third party, to evict or to fail.
SyncFairness ==
    \A t \in Tasks :
        /\ SF_vars(StartSync(t, Author))
        /\ SF_vars(AnswerMeta(t))
        /\ SF_vars(AnswerFeed(t))
        /\ SF_vars(StoreReceived(t))
        /\ SF_vars(FinishDirect(t))
        /\ SF_vars(FinishThirdParty(t))

FairSpec == Spec /\ SyncFairness

-----------------------------------------------------------------------------
\* The entries of a directory that follow each other without a gap.
RunLength(d) == Max({n \in 0 .. MaxSeq : 0 .. n - 1 \subseteq Whole(d)})

Prefix(d, n) == [i \in 1 .. n |-> d.entry[i-1]]

\* The author's log and what each mirror holds of it verified: with a single
\* writer, this module implements AppendOnlyFeed.
Abstract == INSTANCE AppendOnlyFeed WITH
    Holders <- Nodes,
    log <- Prefix(own, RunLength(own)),
    held <- [n \in Nodes |-> Prefix(mirror[n], ValidCount(mirror[n]))]

AbstractSpec == Abstract!Spec

\* No step removes or rewrites an entry the author's feed already holds
\* (feed.append_entry: "no entry is ever removed or rewritten").
AppendOnly ==
    [][\A i \in Whole(own) : own'.entry[i] = own.entry[i]]_vars

\* Every entry a mirror holds is the entry the author's feed holds at that
\* position: no publishing order leaves a peer with a branch of its own that
\* the direct sync, which never rewrites, could not leave again.
MirrorAgrees ==
    \A n \in Nodes : \A i \in Whole(mirror[n]) : own.entry[i] = mirror[n].entry[i]

\* A feed that a node advertises, and that others may ask it for, verifies to
\* its last entry, at every moment of the syncs that fill it.
AdvertisedVerifies ==
    \A n \in Nodes : FullyHeld(mirror[n]) => ValidCount(mirror[n]) = EntryCount(mirror[n])

\* Only an eviction takes a verified entry away from a node: neither a sync
\* that fails half way, nor the truncation and the removal that heal a mirror
\* from another, cost what had been verified before.
OnlyEvictionForgets ==
    [][\A n \in Nodes :
          evictions' = evictions => ValidCount(mirror'[n]) >= ValidCount(mirror[n])]_vars

\* The author's entries that the quotas admit.
Due == AllowedCount({}, Entries(own))

\* Every node that keeps syncing with the author ends up holding, verified, the
\* admissible entries of the author's feed (all it will ever publish), and its
\* index ends up with their contents.
EventuallyMirrored ==
    <>[](\A n \in Nodes :
            /\ ValidCount(mirror[n]) >= Due
            /\ ContentsAt(own, 0 .. Due - 1) \subseteq index[n])
=============================================================================
