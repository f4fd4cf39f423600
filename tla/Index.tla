------------------------------- MODULE Index -------------------------------
(***************************************************************************)
(* The search index of one node (src/roastmesh/index/), with everything    *)
(* that writes to it: ingestion of files, of the own feed and of mirrors,  *)
(* the watch folder, the refresh after an upgrade, hiding, and the edits   *)
(* of notes, made here or delivered by a paired device.                    *)
(*                                                                         *)
(* The index has one source row per content (its hash is UNIQUE) with the  *)
(* roast of that content: the two tables are joined one to one, so a row   *)
(* here is both.  What is parsed from the bytes is left out; a content     *)
(* stands for it.  A transaction is a step, and so are those of one feed,  *)
(* folder or refresh, one after the other.                                 *)
(***************************************************************************)
EXTENDS Naturals, Sequences, SequencesExt, FiniteSets, FiniteSetsExt

CONSTANTS
    Me, Peers,      \* the own identity, and the authors of mirrored feeds
    Paths,          \* the files of the watch folder
    Contents,       \* bytes of roast files, 1 .. n: how new they are
    None,           \* SQL's NULL, no such row, no such file
    SharedBytes,    \* the same bytes may be published or saved twice
    EditsRace,      \* publishing goes on while a notes edit is under way
    MaxLog          \* bound: entries of one feed

Authors == Peers \union {Me}

ASSUME IndexAssumption ==
    /\ Me \notin Peers /\ Paths \intersect Authors = {}
    /\ None \notin Authors \union Paths \union Nat
    /\ IsFiniteSet(Contents \union Paths) /\ Contents \subseteq Nat \ {0} /\ MaxLog \in Nat
    /\ {SharedBytes, EditsRace} \subseteq BOOLEAN

VARIABLES
    feed,       \* feed[a]: the entries a published, the first at seq 0
    mirror,     \* mirror[p]: how many of them are mirrored here
    file,       \* file[f]: what the watch folder holds at f
    row,        \* row[c]: the rows of sources and roasts for bytes c
    hasKey,     \* an identity exists on this machine
    editing     \* the notes edit that has read its row and not yet written

indexVars == <<feed, mirror, file, row, hasKey, editing>>

Seqs == 0 .. MaxLog - 1
Position == Seqs \union {None}
Entry == [content: Contents, supersedes: Position]

\* raw_path is a file of the watch folder or a blob of some feed.
Row == [type: {"local", "p2p"}, ref: Authors \union Paths, path: Authors \union Paths,
        author: Authors \union {None}, seq: Position, supersedes: Position, hidden: BOOLEAN]

Edit == [old: Contents, new: Contents]

ASSUME NoneAssumption == None \notin Row /\ None \notin Edit

IndexTypeOK ==
    /\ \A a \in Authors : Len(feed[a]) <= MaxLog /\ \A i \in 1 .. Len(feed[a]) : feed[a][i] \in Entry
    /\ DOMAIN feed = Authors /\ DOMAIN mirror = Peers
    /\ \A p \in Peers : mirror[p] \in 0 .. Len(feed[p])
    /\ file \in [Paths -> Contents \union {None}]
    /\ row \in [Contents -> Row \union {None}]
    /\ hasKey \in BOOLEAN
    /\ editing \in Edit \union {None}

IndexInit ==
    /\ feed = [a \in Authors |-> <<>>]
    /\ mirror = [p \in Peers |-> 0]
    /\ file = [f \in Paths |-> None]
    /\ row = [c \in Contents |-> None]
    /\ hasKey = FALSE
    /\ editing = None

-----------------------------------------------------------------------------
(***************************************************************************)
(* Files and feeds.                                                        *)
(***************************************************************************)
Published(a) == {feed[a][i].content : i \in 1 .. Len(feed[a])}

Seen(c) == row[c] # None \/ (\E f \in Paths : file[f] = c) \/ (\E a \in Authors : c \in Published(a))
           \/ (editing # None /\ editing.new = c)

\* The bytes somebody can save or publish: new ones, or known ones too.
NewBytes == LET fresh == {c \in Contents : ~ Seen(c)}
            IN  IF fresh = {} THEN {} ELSE {Min(fresh)}
AnyBytes == NewBytes \union (IF SharedBytes THEN {c \in Contents : Seen(c)} ELSE {})

\* read_bytes of a row's raw_path; None when the file or the mirror is gone.
BytesAt(path, c) ==
    IF path \in Paths THEN file[path]
    ELSE IF path = Me \/ c \in {feed[path][i].content : i \in 1 .. mirror[path]} THEN c ELSE None

Appended(a, c, s) == [feed EXCEPT ![a] = Append(@, [content |-> c, supersedes |-> s])]

LastSeq_FromOne(c) == Max({i : i \in {j \in 1 .. Len(feed[Me]) : feed[Me][j].content = c}})

LastSeq(c) == Max({i - 1 : i \in {j \in 1 .. Len(feed[Me]) : feed[Me][j].content = c}})

-----------------------------------------------------------------------------
(***************************************************************************)
(* ingest_file: a new row, or new author and position for a known one.     *)
(***************************************************************************)
LocalAuthor == IF hasKey THEN Me ELSE None

Source(type, ref, path, author, seq, s) ==
    [type |-> type, ref |-> ref, path |-> path, author |-> author,
     seq |-> seq, supersedes |-> s, hidden |-> FALSE]

\* set_source_author_pubkey, and set_source_seq_info of a caller that knows a position.
Updated(r, src) ==
    LET known == src.seq # None \/ src.supersedes # None
    IN  [r EXCEPT !.author = src.author,
                  !.seq = IF known THEN src.seq ELSE @,
                  !.supersedes = IF known THEN src.supersedes ELSE @]

Ingested(rows, c, src) ==
    [rows EXCEPT ![c] = IF @ = None THEN src ELSE Updated(@, src)]

\* One after the other.
IngestedAll(rows, items) ==
    LET upTo[n \in 0 .. Len(items)] ==
            IF n = 0 THEN rows ELSE Ingested(upTo[n - 1], items[n].content, items[n].src)
    IN  upTo[Len(items)]

\* ingest_feed: the first n entries of a feed, in order.
IngestedFeed(rows, a, n, type) ==
    IngestedAll(rows, [i \in 1 .. n |->
        [content |-> feed[a][i].content,
         src |-> Source(type, a, a, a, i - 1, feed[a][i].supersedes)]])

\* A file of the watch folder.
FromFile(f) == [content |-> file[f], src |-> Source("local", f, f, LocalAuthor, None, None)]

\* What a row's own file holds now, position unknown.
FromRow(c) ==
    LET r == row[c]
        author == IF r.type = "p2p" THEN r.ref ELSE LocalAuthor
    IN  [content |-> BytesAt(r.path, c), src |-> Source(r.type, r.ref, r.path, author, None, None)]

-----------------------------------------------------------------------------
(***************************************************************************)
(* What a search shows.                                                    *)
(***************************************************************************)
Rows == {c \in Contents : row[c] # None}

\* The rows whose source supersedes that of c.
Superseders(c) ==
    IF row[c].author = None \/ row[c].seq = None THEN {}
    ELSE {d \in Rows : row[d].author = row[c].author /\ row[d].supersedes = row[c].seq}

\* search_roasts with its defaults, before near duplicates are collapsed.
Shown == {c \in Rows : ~ row[c].hidden /\ Superseders(c) = {}}

Latest_OneHop(c) == IF Superseders(c) = {} THEN c ELSE CHOOSE d \in Superseders(c) : TRUE

\* resolve_to_latest_roast_id: along the chain to its end, or once round a cycle.
Latest(c) ==
    LET walk[n \in 0 .. Cardinality(Contents)] ==
            IF n = 0 THEN [at |-> c, seen |-> {}]
            ELSE LET w == walk[n - 1]
                 IN  IF w.at \in w.seen \/ Superseders(w.at) = {} THEN w
                     ELSE [at |-> CHOOSE d \in Superseders(w.at) : TRUE, seen |-> w.seen \union {w.at}]
    IN  walk[Cardinality(Contents)].at

-----------------------------------------------------------------------------
(***************************************************************************)
(* The user and the watch folder.                                          *)
(***************************************************************************)
\* Artisan saves a roast into the watch folder.
SaveFile(f, c) ==
    /\ c \in AnyBytes /\ file[f] # c
    /\ file' = [file EXCEPT ![f] = c]
    /\ UNCHANGED <<feed, mirror, row, hasKey, editing>>

\* `roastmesh ingest` of a file.
IngestPath(f) ==
    /\ file[f] # None
    /\ LET item == FromFile(f) IN row' = Ingested(row, item.content, item.src)
    /\ row' # row
    /\ UNCHANGED <<feed, mirror, file, hasKey, editing>>

Quiet == editing = None \/ EditsRace

\* `roastmesh reindex`: a new index, of the watch folder only, in the order of names, of
\* which the model knows nothing.
Reindex ==
    /\ Quiet
    /\ \E order \in SetToSeqs({f \in Paths : file[f] # None}) :
         row' = IngestedAll([c \in Contents |-> None], [i \in DOMAIN order |-> FromFile(order[i])])
    /\ row' # row
    /\ UNCHANGED <<feed, mirror, file, hasKey, editing>>

\* The entry is appended and the file indexed; the process may end in between.
PublishFile(f, s) ==
    /\ Quiet
    /\ Len(feed[Me]) < MaxLog  \* bound
    /\ hasKey' = TRUE
    /\ feed' = Appended(Me, file[f], s)
    /\ \/ row' = Ingested(row, file[f], Source("local", f, f, Me, Len(feed[Me]), s))
       \/ row' = row
    /\ UNCHANGED <<mirror, file, editing>>

\* `roastmesh feed publish`, with or without --supersedes.
FeedPublish(f) ==
    /\ file[f] # None
    /\ SharedBytes \/ file[f] \notin Published(Me)
    /\ \E s \in {None} \union 0 .. Len(feed[Me]) - 1 : PublishFile(f, s)

\* One file in a pass of publish_new_files.
WatchNew(f) ==
    /\ file[f] # None /\ file[f] \notin Published(Me)
    /\ PublishFile(f, None)

\* A file that is in the feed already is indexed again under its position.
WatchKnown(f) ==
    /\ Quiet
    /\ file[f] # None /\ file[f] \in Published(Me)
    /\ row' = Ingested(row, file[f], Source("local", f, f, Me, LastSeq(file[f]), None))
    /\ row' # row
    /\ UNCHANGED <<feed, mirror, file, hasKey, editing>>

\* `roastmesh profile set` claims the rows ingested before there was a key.
ClaimOrphans ==
    /\ hasKey' = TRUE
    /\ row' = [c \in Contents |->
                  IF row[c] # None /\ row[c].author = None /\ row[c].type = "local"
                  THEN [row[c] EXCEPT !.author = Me] ELSE row[c]]
    /\ row' # row
    /\ UNCHANGED <<feed, mirror, file, editing>>

\* `roastmesh hide` and `unhide` act on the latest version.
SetHidden(c, hidden) ==
    /\ c \in Rows /\ row[Latest(c)].hidden # hidden
    /\ row' = [row EXCEPT ![Latest(c)].hidden = hidden]
    /\ UNCHANGED <<feed, mirror, file, hasKey, editing>>

-----------------------------------------------------------------------------
(***************************************************************************)
(* Peers, mirrors and the refresh.                                         *)
(***************************************************************************)
PeerPublishes(p, c) ==
    /\ Len(feed[p]) < MaxLog  \* bound
    /\ c \in AnyBytes
    /\ \E s \in {None} \union 0 .. Len(feed[p]) - 1 : feed' = Appended(p, c, s)
    /\ UNCHANGED <<mirror, file, row, hasKey, editing>>

\* A sync mirrors entries and ingests the mirror, unless it fails in between.
SyncFeed(p) ==
    /\ mirror' = [mirror EXCEPT ![p] = Len(feed[p])]
    /\ \/ row' = IngestedFeed(row, p, Len(feed[p]), "p2p")
       \/ row' = row
    /\ <<mirror, row>>' # <<mirror, row>>
    /\ UNCHANGED <<feed, file, hasKey, editing>>

\* `roastmesh feed ingest --user-log` of the own feed.
IngestOwnFeed ==
    /\ Quiet
    /\ row' = IngestedFeed(row, Me, Len(feed[Me]), "local")
    /\ row' # row
    /\ UNCHANGED <<feed, mirror, file, hasKey, editing>>

\* The mirror is deleted, its rows stay as stubs.
EvictFeed(p) ==
    /\ mirror[p] > 0
    /\ mirror' = [mirror EXCEPT ![p] = 0]
    /\ UNCHANGED <<feed, file, row, hasKey, editing>>

\* refresh_known_sources: every row again from its own file, unless that is gone, in the
\* order of the database.
Refresh ==
    /\ Quiet
    /\ \E order \in SetToSeqs({c \in Rows : BytesAt(row[c].path, c) # None}) :
         row' = IngestedAll(row, [i \in DOMAIN order |-> FromRow(order[i])])
    /\ row' # row
    /\ UNCHANGED <<feed, mirror, file, hasKey, editing>>

-----------------------------------------------------------------------------
(***************************************************************************)
(* Edits of notes: `roastmesh notes edit`, and edits delivered by a        *)
(* paired device.                                                          *)
(***************************************************************************)
\* An unpublished roast: the row is read and its position looked at ...
StartEdit(c, new) ==
    LET old == Latest(c)
    IN  /\ editing = None
        /\ c \in Rows /\ row[old].seq = None /\ row[old].path \in Paths
        /\ file[row[old].path] # None
        /\ new \in NewBytes
        /\ editing' = [old |-> old, new |-> new]
        /\ UNCHANGED <<feed, mirror, file, row, hasKey>>

\* ... and the file is rewritten and the row pointed at the new bytes.
FinishEdit ==
    /\ editing # None
    /\ LET r == row[editing.old]
       IN  /\ file' = [file EXCEPT ![r.path] = editing.new]
           /\ row' = [row EXCEPT ![editing.old] = None, ![editing.new] = r]
    /\ editing' = None
    /\ UNCHANGED <<feed, mirror, hasKey>>

\* Bytes that supersede the entry at seq s: appended and indexed from the blob.
Supersede(s, new) ==
    /\ Quiet
    /\ Len(feed[Me]) < MaxLog  \* bound
    /\ feed' = Appended(Me, new, s)
    /\ \/ row' = Ingested(row, new, Source("local", Me, Me, Me, Len(feed[Me]), s))
       \/ row' = row
    /\ UNCHANGED <<mirror, file, hasKey, editing>>

EditPublished(c, new) ==
    LET old == Latest(c)
    IN  /\ c \in Rows /\ row[old].seq # None /\ row[old].author = Me
        /\ BytesAt(row[old].path, old) # None
        /\ new \in NewBytes
        /\ Supersede(row[old].seq, new)

\* apply_delivered_edit: the sender names the position, which must be indexed.
ApplyDelivered(s, new) ==
    /\ \E c \in Rows : row[c].author = Me /\ row[c].seq = s
    /\ new \in NewBytes
    /\ Supersede(s, new)

-----------------------------------------------------------------------------
IndexNext ==
    \/ \E f \in Paths, c \in Contents : SaveFile(f, c)
    \/ \E f \in Paths : IngestPath(f) \/ FeedPublish(f) \/ WatchNew(f) \/ WatchKnown(f)
    \/ \E p \in Peers, c \in Contents : PeerPublishes(p, c)
    \/ \E p \in Peers : SyncFeed(p) \/ EvictFeed(p)
    \/ \E c \in Contents, hidden \in BOOLEAN : SetHidden(c, hidden)
    \/ \E c, new \in Contents : StartEdit(c, new) \/ EditPublished(c, new)
    \/ \E s \in Seqs, new \in Contents : ApplyDelivered(s, new)
    \/ IngestOwnFeed \/ Refresh \/ Reindex \/ ClaimOrphans \/ FinishEdit

IndexSpec == IndexInit /\ [][IndexNext]_indexVars

-----------------------------------------------------------------------------
(***************************************************************************)
(* Properties.                                                             *)
(***************************************************************************)
\* The author and the position of a row name the entry with the row's bytes:
\* it is what a notes edit supersedes and what a delivered edit is found by.
RowNamesItsEntry ==
    \A c \in Rows : row[c].author # None /\ row[c].seq # None =>
        /\ row[c].seq < Len(feed[row[c].author])
        /\ feed[row[c].author][row[c].seq + 1].content = c

\* Whatever order versions arrive in, a roast has a latest version that a
\* search shows: following what supersedes it ends, at a row nothing supersedes.
LatestIsShown == \A c \in Rows : Superseders(Latest(c)) = {}
=============================================================================
