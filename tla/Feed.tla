-------------------------------- MODULE Feed --------------------------------
(***************************************************************************)
(* A feed directory of roastmesh (src/roastmesh/feed.py): the files        *)
(* entries/<seq>.json and blobs/<sha256>.alog, and what the functions of   *)
(* that file read from it and write to it.  The same layout serves the     *)
(* author's own feed and every peer's mirror of it.                        *)
(*                                                                         *)
(* A roast's bytes are a member of Content (equal contents, equal sha256). *)
(* The hash of an entry's stored bytes is its id: ids are unique because   *)
(* the signed bytes hold a microsecond timestamp.  Signatures are not      *)
(* modelled: every entry here was signed by the feed's author.             *)
(***************************************************************************)
EXTENDS Naturals, FiniteSets, FiniteSetsExt

CONSTANTS
    Content,    \* the contents a roast file can have
    MaxSeq,     \* bound: positions in the feed
    Size,       \* Size[c]: the length of content c
    MaxDay,     \* bound: calendar days the entries are stamped with
    NoFile,     \* no such file on disk
    Torn,       \* a file whose writer was killed half way
    NoSeq       \* the entry supersedes nothing

ASSUME FeedAssumption ==
    /\ MaxSeq \in Nat \ {0}
    /\ MaxDay \in Nat \ {0}
    /\ Size \in [Content -> Nat]
    /\ NoSeq \notin Nat

Seqs == 0 .. MaxSeq - 1
Days == 1 .. MaxDay
Genesis == 0

Entry == [id: Nat \ {Genesis}, seq: Seqs, content: Content, day: Days,
          size: Nat, prev: Nat, supersedes: Seqs \union {NoSeq}]

\* What is under a content's name in blobs/: "torn" bytes have another hash.
BlobState == {"absent", "torn", "whole"}

FeedDir == [entry: [Seqs -> Entry \union {NoFile, Torn}],
            blob: [Content -> BlobState]]

ASSUME SentinelAssumption ==
    NoFile # Torn /\ NoFile \notin Entry /\ Torn \notin Entry

EmptyDir == [entry |-> [i \in Seqs |-> NoFile],
             blob |-> [c \in Content |-> "absent"]]

-----------------------------------------------------------------------------
\* read_entries: the entry files, in file name (= seq) order.  It raises on a
\* torn one, so every reader below is guarded by Readable.
Files(d) == {i \in Seqs : d.entry[i] # NoFile}
Whole(d) == {i \in Seqs : d.entry[i] \notin {NoFile, Torn}}
Readable(d) == \A i \in Seqs : d.entry[i] # Torn
Entries(d) == {d.entry[i] : i \in Files(d)}
EntryCount(d) == Cardinality(Files(d))

\* The seq append_entry gives the next entry: len(existing).
NextSeq_LastSeq(d) == IF Files(d) = {} THEN 0 ELSE Max(Files(d))
NextSeq_FromOne(d) == EntryCount(d) + 1
NextSeq(d) == EntryCount(d)

\* The prev_hash append_entry links to: the last entry's hash, or the genesis.
LastHash(d) ==
    IF Files(d) = {} THEN Genesis
    ELSE d.entry[Max(Files(d))].id

HashBefore(d, i) == IF i = 0 THEN Genesis ELSE d.entry[i-1].id

\* One round of verify_feed's loop: entry i follows entry i-1, supersedes only
\* an earlier one, and its blob is there with the bytes its hash names.
Verifies(d, i) ==
    /\ i \in Whole(d) /\ (i > 0 => i - 1 \in Whole(d))
    /\ d.entry[i].prev = HashBefore(d, i)
    /\ d.entry[i].supersedes \in {NoSeq} \union 0 .. i - 1
    /\ d.blob[d.entry[i].content] = "whole"

\* verify_feed: valid_count, the length of the longest verified prefix.
ValidCount(d) == Max({n \in 0 .. MaxSeq : \A i \in 0 .. n - 1 : Verifies(d, i)})

\* feed_is_fully_held: a stat per entry, no hashing.
FullyHeld(d) ==
    /\ Readable(d)
    /\ Files(d) # {}
    /\ \A e \in Entries(d) : d.blob[e.content] # "absent"

-----------------------------------------------------------------------------
\* The blob write of append_entry and write_received_entry: never a rewrite.
WithBlob(d, c, b) ==
    IF d.blob[c] = "absent" THEN [d EXCEPT !.blob[c] = b] ELSE d

\* append_entry's entry write overwrites, write_received_entry's does not.
WithEntry(d, e) == [d EXCEPT !.entry[e.seq] = e]

Received(d, e, b) ==
    LET d1 == WithBlob(d, e.content, b)
    IN  IF d.entry[e.seq] = NoFile THEN WithEntry(d1, e) ELSE d1

\* net._truncate_mirror_to: drop the entries from n on, and every blob of
\* theirs no kept entry points at.
Cut(d, tail, dropped) ==
    [entry |-> [i \in Seqs |-> IF i \in tail THEN NoFile ELSE d.entry[i]],
     blob |-> [c \in Content |-> IF c \in dropped THEN "absent" ELSE d.blob[c]]]

ContentsAt(d, S) == {d.entry[i].content : i \in S}

Truncated_OneMore(d, n) ==
    LET tail == {i \in Files(d) : i + 1 >= n}
    IN  Cut(d, tail, ContentsAt(d, tail) \ ContentsAt(d, Files(d) \ tail))

Truncated(d, n) ==
    LET tail == {i \in Files(d) : i >= n}
    IN  Cut(d, tail, ContentsAt(d, tail) \ ContentsAt(d, Files(d) \ tail))
=============================================================================
