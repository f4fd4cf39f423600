--------------------------- MODULE FeedSyncProofs ---------------------------
(***************************************************************************)
(* What FeedSync's specification guarantees for every number of nodes,     *)
(* tasks, contents, entries, torn writes and evictions:                    *)
(*   - its state is well typed, and only an eviction takes verified        *)
(*     entries away from a node;                                           *)
(*   - with a single publisher, the author's feed is append-only, what     *)
(*     every mirror holds of it is what the author holds, and the whole is *)
(*     an AppendOnlyFeed;                                                  *)
(*   - with a single publisher, and while nothing is torn or evicted, what *)
(*     a node advertises verifies.                                         *)
(* Without the single publisher these fail: overlapping appends choose the *)
(* same sequence number, and the later write replaces the earlier entry.   *)
(***************************************************************************)
EXTENDS FeedSync, NaturalLemmas, FiniteSetTheorems, SequenceTheorems

-----------------------------------------------------------------------------
(***************************************************************************)
(* A feed directory has finitely many entries, of the right type.          *)
(***************************************************************************)
\* The entry files are the numbers of finitely many positions.
LEMMA FilesFinite ==
  ASSUME NEW d
  PROVE  /\ Files(d) \subseteq Seqs
         /\ IsFiniteSet(Files(d))
         /\ EntryCount(d) \in Nat
<1>1. IsFiniteSet(Seqs)
  BY FS_Interval, FeedAssumption DEF Seqs
<1>2. Files(d) \subseteq Seqs
  BY DEF Files
<1>3. IsFiniteSet(Files(d))
  BY <1>1, <1>2, FS_Subset
<1> QED BY <1>2, <1>3, FS_CardinalityType DEF EntryCount

\* The entries are the image of the files.
LEMMA EntriesFinite ==
  ASSUME NEW d
  PROVE  IsFiniteSet(Entries(d))
<1> DEFINE f == [i \in Files(d) |-> d.entry[i]]
<1>1. f \in Surjection(Files(d), Entries(d))
  BY DEF Surjection, Entries
<1> HIDE DEF f
<1> QED BY <1>1, FilesFinite, FS_Surjection

\* In a readable directory every file is an entry.
LEMMA ReadableEntries ==
  ASSUME NEW d \in FeedDir, Readable(d)
  PROVE  /\ Entries(d) \subseteq Entry
         /\ \A i \in Files(d) : d.entry[i] \in Entry
         /\ Files(d) = Whole(d)
BY DEF FeedDir, Readable, Entries, Files, Whole

\* verify_feed accepts a prefix of the entries.
LEMMA ValidPrefix ==
  ASSUME NEW d
  PROVE  /\ ValidCount(d) \in 0 .. MaxSeq
         /\ \A i \in 0 .. ValidCount(d) - 1 : Verifies(d, i)
<1> DEFINE T == {n \in 0 .. MaxSeq : \A i \in 0 .. n - 1 : Verifies(d, i)}
<1>1. T \subseteq 0 .. MaxSeq /\ MaxSeq \in Nat
  BY FeedAssumption
<1>2. 0 \in T
  BY FeedAssumption
<1>3. Max(T) \in T
  <2> HIDE DEF T
  <2> QED BY <1>1, <1>2, GreatestNatural
<1> QED BY <1>3 DEF ValidCount

\* verify_feed accepts the longest prefix whose entries all verify.
LEMMA ValidIsLongest ==
  ASSUME NEW d, NEW n \in 0 .. MaxSeq, \A i \in 0 .. n - 1 : Verifies(d, i)
  PROVE  n <= ValidCount(d)
<1> DEFINE T == {m \in 0 .. MaxSeq : \A i \in 0 .. m - 1 : Verifies(d, i)}
<1>1. T \subseteq 0 .. MaxSeq /\ MaxSeq \in Nat /\ n \in T
  BY FeedAssumption
<1>2. n <= Max(T)
  <2> HIDE DEF T
  <2> QED BY <1>1, GreatestNatural
<1> QED BY <1>2 DEF ValidCount

\* A directory that has the verified entries of another, and their blobs, verifies at
\* least as far.
LEMMA VerifiedStays ==
  ASSUME NEW d, NEW e,
         \A i \in 0 .. ValidCount(d) - 1 :
            e.entry[i] = d.entry[i] /\ e.blob[d.entry[i].content] = "whole"
  PROVE  ValidCount(d) <= ValidCount(e)
<1>1. ValidCount(d) \in 0 .. MaxSeq /\ MaxSeq \in Nat
  BY ValidPrefix, FeedAssumption
<1>2. ASSUME NEW i \in 0 .. ValidCount(d) - 1 PROVE Verifies(e, i)
  <2>1. Verifies(d, i) /\ i \in Nat
    BY <1>1, ValidPrefix
  <2>2. i > 0 => i - 1 \in 0 .. ValidCount(d) - 1
    BY <1>1
  <2>3. i \in Whole(e) /\ (i > 0 => i - 1 \in Whole(e))
    BY <2>1, <2>2 DEF Verifies, Whole
  <2>4. HashBefore(e, i) = HashBefore(d, i)
    BY <1>1, <2>1, <2>2 DEF HashBefore
  <2> QED BY <2>1, <2>3, <2>4 DEF Verifies
<1> QED BY <1>1, <1>2, ValidIsLongest

\* The contents of the verified prefix are contents.
LEMMA ValidContents ==
  ASSUME NEW d \in FeedDir
  PROVE  ContentsAt(d, 0 .. ValidCount(d) - 1) \subseteq Content
<1>1. ASSUME NEW i \in 0 .. ValidCount(d) - 1
      PROVE  d.entry[i].content \in Content
  <2>1. i \in Whole(d)
    BY ValidPrefix DEF Verifies
  <2>2. d.entry[i] \in Entry
    BY <2>1 DEF FeedDir, Whole
  <2> QED BY <2>2 DEF Entry
<1> QED BY <1>1 DEF ContentsAt

\* append_entry links to an entry, or to the genesis.
LEMMA LastHashType ==
  ASSUME NEW d \in FeedDir, Readable(d)
  PROVE  LastHash(d) \in Nat
<1>1. CASE Files(d) = {}
  BY <1>1 DEF LastHash, Genesis
<1>2. CASE Files(d) # {}
  <2>1. Max(Files(d)) \in Files(d)
    <3>1. Files(d) \subseteq 0 .. MaxSeq /\ MaxSeq \in Nat
      BY FilesFinite, FeedAssumption DEF Seqs
    <3> QED BY <1>2, <3>1, GreatestNatural
  <2>2. d.entry[Max(Files(d))] \in Entry
    BY <2>1, ReadableEntries
  <2> QED BY <1>2, <2>2 DEF LastHash, Entry
<1> QED BY <1>1, <1>2

-----------------------------------------------------------------------------
(***************************************************************************)
(* The writes keep a directory a directory, and say what they change.      *)
(***************************************************************************)
\* A blob write changes blobs only.
LEMMA WithBlobType ==
  ASSUME NEW d \in FeedDir, NEW c \in Content, NEW b \in BlobState
  PROVE  WithBlob(d, c, b) \in FeedDir /\ WithBlob(d, c, b).entry = d.entry
BY DEF FeedDir, WithBlob

\* It leaves the blobs that are there alone.
LEMMA WithBlobKeeps ==
  ASSUME NEW d \in FeedDir, NEW c \in Content, NEW b \in BlobState, NEW x \in Content
  PROVE  d.blob[x] # "absent" => WithBlob(d, c, b).blob[x] = d.blob[x]
BY DEF FeedDir, WithBlob

\* append_entry's entry write changes the entry at its position only.
LEMMA WithEntryType ==
  ASSUME NEW d \in FeedDir, NEW e \in Entry
  PROVE  /\ WithEntry(d, e) \in FeedDir
         /\ WithEntry(d, e).entry = [d.entry EXCEPT ![e.seq] = e]
BY DEF FeedDir, WithEntry, Entry

\* write_received_entry fills an empty position or leaves the entries alone.
LEMMA ReceivedType ==
  ASSUME NEW d \in FeedDir, NEW e \in Entry, NEW b \in BlobState
  PROVE  /\ Received(d, e, b) \in FeedDir
         /\ Received(d, e, b).entry =
              IF d.entry[e.seq] = NoFile THEN [d.entry EXCEPT ![e.seq] = e] ELSE d.entry
<1>1. e.content \in Content
  BY DEF Entry
<1>2. WithBlob(d, e.content, b) \in FeedDir /\ WithBlob(d, e.content, b).entry = d.entry
  BY <1>1, WithBlobType
<1> QED BY <1>2, WithEntryType DEF Received

\* It leaves the blobs that are there alone.
LEMMA ReceivedKeeps ==
  ASSUME NEW d \in FeedDir, NEW e \in Entry, NEW b \in BlobState, NEW x \in Content
  PROVE  d.blob[x] # "absent" => Received(d, e, b).blob[x] = d.blob[x]
<1>1. e.content \in Content
  BY DEF Entry
<1>2. Received(d, e, b).blob = WithBlob(d, e.content, b).blob
  BY <1>1, WithBlobType DEF Received, WithEntry, FeedDir
<1> QED BY <1>1, <1>2, WithBlobKeeps

\* _truncate_mirror_to removes entries, and adds or changes none.
LEMMA TruncatedType ==
  ASSUME NEW d \in FeedDir, NEW n
  PROVE  /\ Truncated(d, n) \in FeedDir
         /\ \A i \in Seqs : Truncated(d, n).entry[i] \in {NoFile, d.entry[i]}
BY DEF FeedDir, BlobState, Truncated, Cut

\* It keeps the entries below n, and their blobs.
LEMMA TruncatedKeeps ==
  ASSUME NEW d \in FeedDir, NEW n \in Nat, NEW i \in Whole(d), i < n
  PROVE  /\ Truncated(d, n).entry[i] = d.entry[i]
         /\ Truncated(d, n).blob[d.entry[i].content] = d.blob[d.entry[i].content]
<1> DEFINE tail == {j \in Files(d) : j >= n}
           dropped == ContentsAt(d, tail) \ ContentsAt(d, Files(d) \ tail)
<1>1. i \in Seqs /\ i \in Nat /\ i \in Files(d) /\ d.entry[i].content \in Content
  BY FeedAssumption DEF Whole, Files, Seqs, FeedDir, Entry
<1>2. i \notin tail /\ d.entry[i].content \notin dropped
  BY <1>1 DEF ContentsAt
<1>3. Truncated(d, n) = Cut(d, tail, dropped)
  BY DEF Truncated
<1> HIDE DEF tail, dropped
<1> QED BY <1>1, <1>2, <1>3 DEF Cut

\* A new directory is empty.
LEMMA EmptyDirType ==
  EmptyDir \in FeedDir /\ \A i \in Seqs : EmptyDir.entry[i] = NoFile
BY DEF FeedDir, BlobState, EmptyDir

-----------------------------------------------------------------------------
\* check_feed_metadata admits a number of entries: admitting none always fits.
LEMMA AllowedCountType ==
  ASSUME NEW existing, NEW candidates, IsFiniteSet(candidates)
  PROVE  AllowedCount(existing, candidates) \in Nat
<1> DEFINE fits(e) == Fits(existing, {f \in candidates : f.seq < e.seq}, e)
           T == {k \in 0 .. Cardinality(candidates) :
                   \A e \in FirstOf(candidates, k) : fits(e)}
<1>1. Cardinality(candidates) \in Nat
  BY FS_CardinalityType
<1>2. FirstOf(candidates, 0) = {}
  <2>1. ASSUME NEW e \in candidates
        PROVE  Cardinality({f \in candidates : f.seq < e.seq}) \in Nat
    <3>1. IsFiniteSet({f \in candidates : f.seq < e.seq})
      BY FS_Subset
    <3> QED BY <3>1, FS_CardinalityType
  <2> QED BY <2>1 DEF FirstOf
<1>3. 0 \in T
  BY <1>1, <1>2
<1>4. T \subseteq 0 .. Cardinality(candidates)
  OBVIOUS
<1>5. Max(T) \in T
  <2> HIDE DEF T
  <2> QED BY <1>1, <1>3, <1>4, GreatestNatural
<1>6. Max(T) \in Nat
  BY <1>1, <1>5
<1> QED BY <1>6 DEF AllowedCount

-----------------------------------------------------------------------------
(***************************************************************************)
(* Type correctness.  What a publisher carries is typed from the moment    *)
(* its call starts, which TypeOK alone does not say.                       *)
(***************************************************************************)
PubCarries ==
    \A p \in Publishers :
        /\ pub[p].pc # "idle" => pub[p].content \in Content
        /\ pub[p].pc = "write" => pub[p].entry \in Entry

TypeInv == TypeOK /\ PubCarries

LEMMA InitTypeInv == Init => TypeInv
BY FeedAssumption, FeedSyncAssumption, EmptyDirType
   DEF Init, TypeInv, TypeOK, PubCarries, PubIdle, PubState, TaskIdle, TaskState, Days

\* A source answers from a directory.
LEMMA SourceDirType ==
  ASSUME TypeOK, NEW src \in Nodes \union {Author}
  PROVE  SourceDir(src) \in FeedDir
BY DEF TypeOK, SourceDir

\* What is offered is a finite set of entries of the source's directory.
LEMMA OfferType ==
  ASSUME TypeOK, NEW src \in Nodes \union {Author}, NEW since,
         Readable(SourceDir(src))
  PROVE  /\ Offer(src, since) \subseteq Entry
         /\ IsFiniteSet(Offer(src, since))
<1>1. Offer(src, since) \subseteq Entries(SourceDir(src))
  BY DEF Offer
<1> QED BY <1>1, SourceDirType, ReadableEntries, EntriesFinite, FS_Subset

\* What is sent carries bytes, whole or torn.
LEMMA SentType ==
  ASSUME NEW d \in FeedDir, NEW sent \in SUBSET Entry,
         \A e \in sent : d.blob[e.content] # "absent"
  PROVE  {[entry |-> e, bytes |-> d.blob[e.content]] : e \in sent}
            \subseteq Wire
<1>1. ASSUME NEW e \in sent
      PROVE  d.blob[e.content] \in BlobState \ {"absent"}
  BY DEF FeedDir, Entry
<1> QED BY <1>1 DEF Wire

\* The entry a publisher signs is an entry.
LEMMA SignedEntryType ==
  ASSUME TypeInv, NEW p \in Publishers, SignEntry(p)
  PROVE  \E e \in Entry :
            /\ e.seq = NextSeq(own)
            /\ pub' = [pub EXCEPT ![p] = [@ EXCEPT !.pc = "write", !.entry = e]]
            /\ signed' = Append(signed, e)
<1> DEFINE e == [id |-> Len(signed) + 1, seq |-> NextSeq(own), content |-> pub[p].content,
                 day |-> today, size |-> Size[pub[p].content], prev |-> LastHash(own),
                 supersedes |-> pub[p].supersedes]
<1>1. pub[p].content \in Content
  BY DEF TypeInv, PubCarries, SignEntry
<1>2. own \in FeedDir /\ LastHash(own) \in Nat
  BY LastHashType DEF TypeInv, TypeOK, SignEntry
<1>3. NextSeq(own) \in Seqs
  BY FilesFinite, FeedAssumption DEF SignEntry, NextSeq, Seqs
<1>4. Len(signed) + 1 \in Nat \ {Genesis}
  <2>1. Len(signed) \in Nat
    BY DEF TypeInv, TypeOK
  <2> QED BY <2>1 DEF Genesis
<1>5. today \in Days /\ Size[pub[p].content] \in Nat
  BY <1>1, FeedAssumption DEF TypeInv, TypeOK
<1>6. pub[p].supersedes \in Seqs \union {NoSeq}
  BY DEF TypeInv, TypeOK, PubState
<1>7. e \in Entry /\ e.seq = NextSeq(own)
  BY <1>1, <1>2, <1>3, <1>4, <1>5, <1>6 DEF Entry
<1> QED BY <1>7 DEF SignEntry

LEMMA PublisherKeepsType ==
  ASSUME TypeInv, NEW p \in Publishers, PublisherStep(p)
  PROVE  TypeInv'
<1> USE DEF TypeInv, TypeOK, PubCarries, PubState
<1>1. CASE Publish(p)
  <2>1. PICK c \in Content, s \in Files(own) \union {NoSeq} :
          pub' = [pub EXCEPT ![p] = [PubIdle EXCEPT !.pc = "blob", !.content = c,
                                                    !.supersedes = s]]
    BY <1>1 DEF Publish
  <2>2. s \in Seqs \union {NoSeq}
    BY FilesFinite
  <2> QED BY <1>1, <2>1, <2>2 DEF Publish, PubIdle
<1>2. CASE WriteOwnBlob(p)
  <2>1. own' \in FeedDir
    BY <1>2, WithBlobType DEF WriteOwnBlob, BlobState
  <2> QED BY <1>2, <2>1 DEF WriteOwnBlob
<1>3. CASE SignEntry(p)
  <2>1. PICK e \in Entry :
          /\ pub' = [pub EXCEPT ![p] = [@ EXCEPT !.pc = "write", !.entry = e]]
          /\ signed' = Append(signed, e)
    BY <1>3, SignedEntryType
  <2>2. pub' \in [Publishers -> PubState]
    BY <2>1
  <2>3. pub[p].content \in Content
    BY <1>3 DEF SignEntry
  <2>4. PubCarries'
    BY <2>1, <2>3
  <2> QED BY <1>3, <2>1, <2>2, <2>4 DEF SignEntry
<1>4. CASE WriteOwnEntry(p)
  <2>1. own' \in FeedDir
    BY <1>4, WithEntryType DEF WriteOwnEntry
  <2> QED BY <1>4, <2>1 DEF WriteOwnEntry, PubIdle
<1>5. CASE PublishFails(p)
  BY <1>5 DEF PublishFails, PubIdle
<1>6. CASE TearOwnWrite(p)
  <2>1. own' \in FeedDir
    <3>1. CASE own' = WithBlob(own, pub[p].content, "torn") /\ pub[p].pc = "blob"
      BY <3>1, WithBlobType DEF BlobState
    <3>2. CASE own' = [own EXCEPT !.entry[pub[p].entry.seq] = Torn]
      BY <3>2 DEF FeedDir
    <3> QED BY <1>6, <3>1, <3>2 DEF TearOwnWrite
  <2>2. torn' \in 0 .. MaxTorn
    BY <1>6, FeedSyncAssumption DEF TearOwnWrite
  <2> QED BY <1>6, <2>1, <2>2 DEF TearOwnWrite, PubIdle
<1> QED BY <1>1, <1>2, <1>3, <1>4, <1>5, <1>6 DEF PublisherStep

LEMMA TaskKeepsType ==
  ASSUME TypeInv, NEW t \in Tasks, TaskStep(t)
  PROVE  TypeInv'
<1> USE DEF TypeInv, TypeOK, PubCarries
<1>h. Home[t] \in Nodes
  BY FeedSyncAssumption
<1>i. TaskIdle \in TaskState /\ task[t] \in TaskState
  BY DEF TaskIdle, TaskState
<1>1. ASSUME NEW src \in Nodes \union {Author}, StartSync(t, src)
      PROVE  TypeInv'
  <2>1. Entries(mirror[Home[t]]) \subseteq Entry
    BY <1>1, <1>h, ReadableEntries DEF StartSync
  <2>2. EntryCount(mirror[Home[t]]) \in Nat
    BY FilesFinite
  <2> QED BY <1>1, <2>1, <2>2 DEF StartSync, TaskIdle, TaskState
<1>2. CASE AnswerMeta(t)
  <2> DEFINE k == AllowedCount(task[t].held, Offer(task[t].source, task[t].since))
  <2>1. k \in Nat
    BY <1>2, <1>i, OfferType, AllowedCountType DEF AnswerMeta, TaskState
  <2>2. task' = [task EXCEPT ![t] =
                      IF k > 0 THEN [@ EXCEPT !.pc = "feed", !.held = {}, !.allow = k]
                      ELSE IF @.source = Author THEN [@ EXCEPT !.pc = "store", !.held = {}]
                      ELSE TaskIdle]
    BY <1>2 DEF AnswerMeta
  <2> HIDE DEF k
  <2>3. /\ [task[t] EXCEPT !.pc = "feed", !.held = {}, !.allow = k] \in TaskState
        /\ [task[t] EXCEPT !.pc = "store", !.held = {}] \in TaskState
    BY <1>i, <2>1 DEF TaskState
  <2>4. task' \in [Tasks -> TaskState]
    BY <1>i, <2>2, <2>3
  <2> QED BY <1>2, <2>4 DEF AnswerMeta
<1>3. CASE AnswerFeed(t)
  <2> DEFINE d == SourceDir(task[t].source)
             sent == FirstOf(Offer(task[t].source, task[t].since), task[t].allow)
             wire == {[entry |-> e, bytes |-> d.blob[e.content]] : e \in sent}
  <2>1. d \in FeedDir
    BY <1>i, SourceDirType DEF TaskState
  <2>2. sent \subseteq Entry
    BY <1>3, <1>i, OfferType DEF AnswerFeed, FirstOf, TaskState
  <2>3. wire \subseteq Wire
    BY <1>3, <2>1, <2>2, SentType DEF AnswerFeed
  <2>4. task' = [task EXCEPT ![t] =
                      IF sent = {} /\ @.source # Author THEN TaskIdle
                      ELSE [@ EXCEPT !.pc = "store", !.fresh = sent # {}, !.allow = 0,
                              !.wire = wire]]
    BY <1>3 DEF AnswerFeed
  <2> HIDE DEF d, sent, wire
  <2>5. [task[t] EXCEPT !.pc = "store", !.fresh = sent # {}, !.allow = 0, !.wire = wire]
           \in TaskState
    BY <1>i, <2>3 DEF TaskState
  <2>6. task' \in [Tasks -> TaskState]
    BY <1>i, <2>4, <2>5
  <2> QED BY <1>3, <2>6 DEF AnswerFeed
<1>4. CASE StoreReceived(t)
  <2>1. PICK r \in task[t].wire :
          /\ mirror' = [mirror EXCEPT ![Home[t]] = Received(@, r.entry, r.bytes)]
          /\ task' = [task EXCEPT ![t].wire = @ \ {r}]
    BY <1>4 DEF StoreReceived
  <2>2. r.entry \in Entry /\ r.bytes \in BlobState
    BY <1>i DEF TaskState, Wire
  <2>3. Received(mirror[Home[t]], r.entry, r.bytes) \in FeedDir
    BY <1>h, <2>2, ReceivedType
  <2>4. mirror' \in [Nodes -> FeedDir]
    BY <1>h, <2>1, <2>3
  <2>5. [task[t] EXCEPT !.wire = @ \ {r}] \in TaskState
    BY <1>i DEF TaskState
  <2>6. task' \in [Tasks -> TaskState]
    BY <2>1, <2>5
  <2> QED BY <1>4, <2>4, <2>6 DEF StoreReceived
<1>5. CASE FinishDirect(t)
  <2> DEFINE n == Home[t]
             new == ContentsAt(mirror[n], 0 .. ValidCount(mirror[n]) - 1)
  <2>1. new \subseteq Content
    BY <1>h, ValidContents
  <2>2. index' = [index EXCEPT ![n] = IF IngestDue(t) THEN @ \union new ELSE @]
    BY <1>5 DEF FinishDirect
  <2> HIDE DEF new
  <2>3. index' \in [Nodes -> SUBSET Content]
    BY <1>h, <2>1, <2>2
  <2> QED BY <1>5, <1>i, <2>3 DEF FinishDirect
<1>6. CASE FinishThirdParty(t)
  <2> DEFINE n == Home[t]
             d == mirror[n]
             v == ValidCount(d)
             new == ContentsAt(d, 0 .. v - 1)
  <2>1. new \subseteq Content
    BY <1>h, ValidContents
  <2>2. /\ index' = [index EXCEPT ![n] = IF v > task[t].since THEN @ \union new ELSE @]
        /\ mirror' = [mirror EXCEPT ![n] = IF v = 0 THEN EmptyDir
                                           ELSE IF v < EntryCount(d) THEN Truncated(d, v) ELSE d]
    BY <1>6 DEF FinishThirdParty
  <2>3. Truncated(d, v) \in FeedDir /\ EmptyDir \in FeedDir /\ d \in FeedDir
    BY <1>h, TruncatedType, EmptyDirType
  <2> HIDE DEF new, d, v
  <2>4. index' \in [Nodes -> SUBSET Content]
    BY <1>h, <2>1, <2>2
  <2>5. mirror' \in [Nodes -> FeedDir]
    BY <1>h, <2>2, <2>3
  <2> QED BY <1>6, <1>i, <2>4, <2>5 DEF FinishThirdParty
<1>7. CASE SyncFails(t)
  BY <1>7, <1>i DEF SyncFails
<1>8. CASE TearReceivedWrite(t)
  <2>1. mirror' \in [Nodes -> FeedDir]
    <3>1. PICK r \in task[t].wire :
            \/ mirror' = [mirror EXCEPT ![Home[t]] =
                            WithBlob(mirror[Home[t]], r.entry.content, "torn")]
            \/ mirror' = [mirror EXCEPT ![Home[t]] =
                            [WithBlob(mirror[Home[t]], r.entry.content, r.bytes)
                               EXCEPT !.entry[r.entry.seq] = Torn]]
      BY <1>8 DEF TearReceivedWrite
    <3> DEFINE a == WithBlob(mirror[Home[t]], r.entry.content, "torn")
               b == WithBlob(mirror[Home[t]], r.entry.content, r.bytes)
    <3>2. r.entry.content \in Content /\ r.bytes \in BlobState /\ "torn" \in BlobState
      BY <1>i DEF Entry, BlobState, TaskState, Wire
    <3>3. a \in FeedDir /\ b \in FeedDir
      BY <1>h, <3>2, WithBlobType
    <3> HIDE DEF a, b
    <3>4. [b EXCEPT !.entry[r.entry.seq] = Torn] \in FeedDir
      BY <3>3 DEF FeedDir
    <3> QED BY <1>h, <3>1, <3>3, <3>4 DEF a, b
  <2>2. torn' \in 0 .. MaxTorn
    BY <1>8, FeedSyncAssumption DEF TearReceivedWrite
  <2> QED BY <1>8, <1>i, <2>1, <2>2 DEF TearReceivedWrite
<1> QED BY <1>1, <1>2, <1>3, <1>4, <1>5, <1>6, <1>7, <1>8 DEF TaskStep

LEMMA NextKeepsType ==
  ASSUME TypeInv, [Next]_vars
  PROVE  TypeInv'
<1>1. CASE \E p \in Publishers : PublisherStep(p)
  BY <1>1, PublisherKeepsType
<1>2. CASE \E t \in Tasks : TaskStep(t)
  BY <1>2, TaskKeepsType
<1>3. ASSUME NEW n \in Nodes, Evict(n)
      PROVE  TypeInv'
  <2>1. evictions' \in 0 .. MaxEvictions
    BY <1>3, FeedSyncAssumption DEF Evict, TypeInv, TypeOK
  <2> QED BY <1>3, <2>1, EmptyDirType DEF Evict, TypeInv, TypeOK, PubCarries
<1>4. CASE NextDay
  <2>1. today' \in Days
    BY <1>4, FeedAssumption DEF NextDay, TypeInv, TypeOK, Days
  <2> QED BY <1>4, <2>1 DEF NextDay, TypeInv, TypeOK, PubCarries
<1>5. CASE UNCHANGED vars
  BY <1>5 DEF vars, TypeInv, TypeOK, PubCarries
<1> QED BY <1>1, <1>2, <1>3, <1>4, <1>5 DEF Next

LEMMA TypeInvariance == Spec => []TypeInv
BY InitTypeInv, NextKeepsType, PTL DEF Spec

\* Every reachable state is well typed, whatever fails, is cut short or is
\* evicted, and however many publishers and syncs run.
THEOREM TypeCorrect == Spec => []TypeOK
<1>1. TypeInv => TypeOK
  BY DEF TypeInv
<1> QED BY <1>1, TypeInvariance, PTL

-----------------------------------------------------------------------------
(***************************************************************************)
(* The append-only log, with one publisher.  MirrorAgrees is not           *)
(* inductive: a step may store a received entry, so what is on the wire    *)
(* must agree with the author's feed too; and an author's step must not    *)
(* overwrite, so the entry a publisher is about to write must be for the   *)
(* first free position.  That position is the number of the files only     *)
(* because the files leave no gap.                                         *)
(***************************************************************************)
SingleWriter == \A p, q \in Publishers : p = q

\* The author's entry files, torn ones included, are numbered from 0 on.
OwnIsDense == \E k \in 0 .. MaxSeq : Files(own) = 0 .. k - 1

\* An entry is stored at its own position.
OwnAtSeq == \A i \in Whole(own) : own.entry[i].seq = i

\* An entry on the wire is still the author's entry at its position.
WireAgrees ==
    \A t \in Tasks : \A r \in task[t].wire : own.entry[r.entry.seq] = r.entry

\* An entry that is signed and not written yet is for the first free position.
PubIsNext ==
    \A p \in Publishers :
        pub[p].pc = "write" => Files(own) = 0 .. pub[p].entry.seq - 1

LogInv ==
    /\ TypeInv
    /\ OwnIsDense
    /\ OwnAtSeq
    /\ MirrorAgrees
    /\ WireAgrees
    /\ PubIsNext

LEMMA InitLogInv == Init => LogInv
<1> SUFFICES ASSUME Init PROVE LogInv
  OBVIOUS
<1>1. TypeInv
  BY InitTypeInv
<1>2. Files(own) = {} /\ Whole(own) = {}
  BY EmptyDirType DEF Init, Files, Whole
<1>3. OwnIsDense
  BY <1>2, FeedAssumption DEF OwnIsDense
<1>4. \A n \in Nodes : Whole(mirror[n]) = {}
  BY EmptyDirType DEF Init, Whole
<1> QED BY <1>1, <1>2, <1>3, <1>4
        DEF Init, LogInv, OwnAtSeq, MirrorAgrees, WireAgrees, PubIsNext, PubIdle, TaskIdle

\* In a dense log, the number of files is the first free position.
LEMMA NextSeqIsFree ==
  ASSUME OwnIsDense
  PROVE  NextSeq(own) \in 0 .. MaxSeq /\ Files(own) = 0 .. NextSeq(own) - 1
<1>1. PICK k \in 0 .. MaxSeq : Files(own) = 0 .. k - 1
  BY DEF OwnIsDense
<1>2. k \in Nat /\ 0 \in Int /\ k - 1 \in Int
  BY <1>1, FeedAssumption
<1>3. Cardinality(0 .. k - 1) = k
  BY <1>2, FS_Interval
<1> QED BY <1>1, <1>3 DEF NextSeq, EntryCount

\* The position a write goes to has no file yet.
LEMMA WriteIsFree ==
  ASSUME LogInv, NEW p \in Publishers, pub[p].pc = "write"
  PROVE  /\ pub[p].entry \in Entry
         /\ pub[p].entry.seq \in Seqs
         /\ own.entry[pub[p].entry.seq] = NoFile
<1>1. pub[p].entry \in Entry /\ pub[p].entry.seq \in Seqs
  BY DEF LogInv, TypeInv, PubCarries, Entry
<1>2. pub[p].entry.seq \notin Files(own)
  <2>1. Files(own) = 0 .. pub[p].entry.seq - 1
    BY DEF LogInv, PubIsNext
  <2>2. pub[p].entry.seq \in Int
    BY <1>1, FeedAssumption DEF Seqs
  <2> QED BY <2>1, <2>2
<1> QED BY <1>1, <1>2 DEF Files

\* A write, whole or torn, of the entry file at the first free position keeps
\* the log: whoever held the entries before it still agrees with them.
LEMMA WriteKeepsLog ==
  ASSUME SingleWriter, LogInv, NEW p \in Publishers, pub[p].pc = "write",
         NEW x \in {pub[p].entry, Torn},
         own'.entry = [own.entry EXCEPT ![pub[p].entry.seq] = x],
         pub' = [pub EXCEPT ![p] = PubIdle], task' = task, mirror' = mirror
  PROVE  OwnIsDense' /\ OwnAtSeq' /\ MirrorAgrees' /\ WireAgrees' /\ PubIsNext'
<1> DEFINE k == pub[p].entry.seq
<1>1. k \in Seqs /\ own.entry[k] = NoFile /\ x # NoFile /\ pub[p].entry \in Entry
  BY WriteIsFree, SentinelAssumption
<1>2. own \in FeedDir /\ mirror \in [Nodes -> FeedDir] /\ task \in [Tasks -> TaskState]
      /\ pub \in [Publishers -> PubState]
  BY DEF LogInv, TypeInv, TypeOK
<1>3. Files(own) = 0 .. k - 1
  BY DEF LogInv, PubIsNext
<1>4. \A i \in Seqs : own'.entry[i] = IF i = k THEN x ELSE own.entry[i]
  BY <1>1, <1>2 DEF FeedDir
<1>5. Files(own)' = 0 .. k
  <2>1. Files(own)' = Files(own) \union {k}
    BY <1>1, <1>4 DEF Files
  <2>2. k \in Nat
    BY <1>1, FeedAssumption DEF Seqs
  <2> HIDE DEF k
  <2> QED BY <1>3, <2>1, <2>2
<1>6. OwnIsDense'
  <2>1. k \in Nat /\ k + 1 \in 0 .. MaxSeq
    BY <1>1, FeedAssumption DEF Seqs
  <2> HIDE DEF k
  <2>2. Files(own)' = 0 .. (k + 1) - 1
    BY <1>5, <2>1
  <2> QED BY <2>1, <2>2 DEF OwnIsDense
<1>7. OwnAtSeq'
  BY <1>1, <1>4 DEF OwnAtSeq, Whole, LogInv
<1>8. MirrorAgrees'
  <2> SUFFICES ASSUME NEW n \in Nodes, NEW i \in Whole(mirror[n])
               PROVE  own'.entry[i] = mirror[n].entry[i]
    BY DEF MirrorAgrees
  <2>1. own.entry[i] = mirror[n].entry[i] /\ own.entry[i] # NoFile /\ i \in Seqs
    BY DEF LogInv, MirrorAgrees, Whole
  <2> QED BY <1>1, <1>4, <2>1
<1>9. WireAgrees'
  <2> SUFFICES ASSUME NEW t \in Tasks, NEW r \in task[t].wire
               PROVE  own'.entry[r.entry.seq] = r.entry
    BY DEF WireAgrees
  <2>1. own.entry[r.entry.seq] = r.entry /\ r.entry \in Entry /\ r.entry.seq \in Seqs
    BY <1>2 DEF LogInv, WireAgrees, TaskState, Wire, Entry
  <2> QED BY <1>1, <1>4, <2>1, SentinelAssumption
<1>10. PubIsNext'
  <2> SUFFICES ASSUME NEW q \in Publishers PROVE pub'[q].pc # "write"
    BY DEF PubIsNext
  <2>1. q = p
    BY DEF SingleWriter
  <2> QED BY <1>2, <2>1 DEF PubIdle
<1> QED BY <1>6, <1>7, <1>8, <1>9, <1>10

\* The rest of the log invariant depends on the author's entries only: a
\* publisher's step that changes no entry file and goes to no write keeps it.
LEMMA NoWriteKeepsLog ==
  ASSUME LogInv, own'.entry = own.entry, task' = task, mirror' = mirror,
         \A p \in Publishers : pub'[p].pc = "write" => pub'[p] = pub[p]
  PROVE  OwnIsDense' /\ OwnAtSeq' /\ MirrorAgrees' /\ WireAgrees' /\ PubIsNext'
<1>1. Files(own)' = Files(own) /\ Whole(own)' = Whole(own)
  BY DEF Files, Whole
<1> QED BY <1>1 DEF LogInv, OwnIsDense, OwnAtSeq, MirrorAgrees, WireAgrees, PubIsNext

LEMMA PublisherKeepsLog ==
  ASSUME SingleWriter, LogInv, NEW p \in Publishers, PublisherStep(p)
  PROVE  OwnIsDense' /\ OwnAtSeq' /\ MirrorAgrees' /\ WireAgrees' /\ PubIsNext'
<1>t. /\ own \in FeedDir /\ pub \in [Publishers -> PubState]
      /\ pub[p].pc # "idle" => pub[p].content \in Content
      /\ pub[p].pc = "write" => pub[p].entry \in Entry
  BY DEF LogInv, TypeInv, TypeOK, PubCarries
<1>1. CASE Publish(p)
  BY <1>1, <1>t, NoWriteKeepsLog DEF Publish, PubState, PubIdle
<1>2. CASE WriteOwnBlob(p)
  <2>1. own'.entry = own.entry
    BY <1>2, <1>t, WithBlobType DEF WriteOwnBlob, BlobState
  <2> QED BY <1>2, <2>1, <1>t, NoWriteKeepsLog DEF WriteOwnBlob, PubState
<1>3. CASE SignEntry(p)
  <2>1. PICK e \in Entry :
          /\ e.seq = NextSeq(own)
          /\ pub' = [pub EXCEPT ![p] = [@ EXCEPT !.pc = "write", !.entry = e]]
    BY <1>3, SignedEntryType DEF LogInv
  <2>2. pub'[p].entry.seq = NextSeq(own)
    BY <2>1, <1>t DEF PubState
  <2>3. PubIsNext'
    <3> SUFFICES ASSUME NEW q \in Publishers
                 PROVE  Files(own)' = 0 .. pub'[q].entry.seq - 1
      BY DEF PubIsNext
    <3>1. q = p
      BY DEF SingleWriter
    <3>2. Files(own)' = Files(own)
      BY <1>3 DEF SignEntry, Files
    <3> QED BY <2>2, <3>1, <3>2, NextSeqIsFree DEF LogInv
  <2> QED BY <1>3, <2>3 DEF SignEntry, LogInv, OwnIsDense, OwnAtSeq, MirrorAgrees, WireAgrees,
                            Files, Whole
<1>4. CASE WriteOwnEntry(p)
  <2>1. own'.entry = [own.entry EXCEPT ![pub[p].entry.seq] = pub[p].entry]
    BY <1>4, <1>t, WithEntryType DEF WriteOwnEntry
  <2> QED BY <1>4, <2>1, WriteKeepsLog DEF WriteOwnEntry
<1>5. CASE PublishFails(p)
  BY <1>5, <1>t, NoWriteKeepsLog DEF PublishFails, PubState, PubIdle
<1>6. CASE TearOwnWrite(p)
  <2>1. pub' = [pub EXCEPT ![p] = PubIdle] /\ task' = task /\ mirror' = mirror
    BY <1>6 DEF TearOwnWrite
  <2>2. CASE pub[p].pc = "blob" /\ own' = WithBlob(own, pub[p].content, "torn")
    <3>1. own'.entry = own.entry
      BY <2>2, <1>t, WithBlobType DEF BlobState
    <3> QED BY <2>1, <3>1, <1>t, NoWriteKeepsLog DEF PubState, PubIdle
  <2>3. CASE pub[p].pc = "write" /\ own' = [own EXCEPT !.entry[pub[p].entry.seq] = Torn]
    <3>1. own'.entry = [own.entry EXCEPT ![pub[p].entry.seq] = Torn]
      BY <2>3, <1>t DEF FeedDir
    <3> QED BY <2>1, <2>3, <3>1, WriteKeepsLog
  <2> QED BY <1>6, <2>2, <2>3 DEF TearOwnWrite
<1> QED BY <1>1, <1>2, <1>3, <1>4, <1>5, <1>6 DEF PublisherStep

\* A step that leaves the author's machine alone keeps the log if every mirror
\* entry and every entry on the wire was already somewhere before it.
LEMMA SyncStepKeepsLog ==
  ASSUME LogInv, own' = own, pub' = pub,
         \A n \in Nodes : \A i \in Seqs :
            \/ mirror'[n].entry[i] \in {NoFile, Torn}
            \/ mirror'[n].entry[i] = own.entry[i],
         \A t \in Tasks : \A r \in task'[t].wire : own.entry[r.entry.seq] = r.entry
  PROVE  OwnIsDense' /\ OwnAtSeq' /\ MirrorAgrees' /\ WireAgrees' /\ PubIsNext'
<1>1. Files(own)' = Files(own) /\ Whole(own)' = Whole(own)
  BY DEF Files, Whole
<1>2. MirrorAgrees'
  BY DEF MirrorAgrees, Whole
<1> QED BY <1>1, <1>2 DEF LogInv, OwnIsDense, OwnAtSeq, WireAgrees, PubIsNext

\* Every position of a mirror is empty, torn or the author's.
LEMMA MirrorPositions ==
  ASSUME LogInv, NEW n \in Nodes, NEW i \in Seqs
  PROVE  mirror[n].entry[i] \in {NoFile, Torn} \/ mirror[n].entry[i] = own.entry[i]
BY DEF LogInv, MirrorAgrees, Whole

\* What any source offers agrees with the author's feed.
LEMMA OfferAgrees ==
  ASSUME LogInv, NEW src \in Nodes \union {Author}, NEW since,
         Readable(SourceDir(src))
  PROVE  \A e \in Offer(src, since) : own.entry[e.seq] = e
<1>1. own \in FeedDir /\ mirror \in [Nodes -> FeedDir] /\ TypeOK
  BY DEF LogInv, TypeInv, TypeOK
<1> SUFFICES ASSUME NEW i \in Whole(SourceDir(src))
             PROVE  LET e == SourceDir(src).entry[i] IN own.entry[e.seq] = e
  BY <1>1, SourceDirType, ReadableEntries DEF Offer, Entries
<1>2. own.entry[i] = SourceDir(src).entry[i]
  BY DEF SourceDir, LogInv, MirrorAgrees
<1>3. i \in Whole(own)
  BY <1>2 DEF Whole
<1>4. own.entry[i].seq = i
  BY <1>3 DEF LogInv, OwnAtSeq
<1> QED BY <1>2, <1>4

LEMMA TaskKeepsLog ==
  ASSUME LogInv, NEW t \in Tasks, TaskStep(t)
  PROVE  OwnIsDense' /\ OwnAtSeq' /\ MirrorAgrees' /\ WireAgrees' /\ PubIsNext'
<1>t. /\ mirror \in [Nodes -> FeedDir] /\ task \in [Tasks -> TaskState]
      /\ Home[t] \in Nodes
      /\ TypeOK
  BY FeedSyncAssumption DEF LogInv, TypeInv, TypeOK
<1>w. \A u \in Tasks : \A r \in task[u].wire : own.entry[r.entry.seq] = r.entry
  BY DEF LogInv, WireAgrees
<1>1. ASSUME NEW src \in Nodes \union {Author}, StartSync(t, src)
      PROVE  OwnIsDense' /\ OwnAtSeq' /\ MirrorAgrees' /\ WireAgrees' /\ PubIsNext'
  <2>1. \A u \in Tasks : task'[u].wire = task[u].wire \/ task'[u].wire = {}
    BY <1>1, <1>t DEF StartSync, TaskIdle
  <2> QED BY <1>1, <1>w, <2>1, MirrorPositions, SyncStepKeepsLog DEF StartSync
<1>2. CASE AnswerMeta(t)
  <2>1. \A u \in Tasks : task'[u].wire = task[u].wire \/ task'[u].wire = {}
    BY <1>2, <1>t DEF AnswerMeta, TaskIdle, TaskState
  <2> QED BY <1>2, <1>w, <2>1, MirrorPositions, SyncStepKeepsLog DEF AnswerMeta
<1>3. CASE AnswerFeed(t)
  <2> DEFINE d == SourceDir(task[t].source)
             sent == FirstOf(Offer(task[t].source, task[t].since), task[t].allow)
             wire == {[entry |-> e, bytes |-> d.blob[e.content]] : e \in sent}
  <2>1. \A r \in wire : own.entry[r.entry.seq] = r.entry
    <3>1. \A e \in Offer(task[t].source, task[t].since) : own.entry[e.seq] = e
      BY <1>3, <1>t, OfferAgrees DEF AnswerFeed, TaskState
    <3>2. sent \subseteq Offer(task[t].source, task[t].since)
      BY DEF FirstOf
    <3>3. \A r \in wire : r.entry \in sent
      OBVIOUS
    <3> HIDE DEF wire, sent
    <3> QED BY <3>1, <3>2, <3>3
  <2>2. task' = [task EXCEPT ![t] =
                      IF sent = {} /\ @.source # Author THEN TaskIdle
                      ELSE [@ EXCEPT !.pc = "store", !.fresh = sent # {}, !.allow = 0,
                              !.wire = wire]]
    BY <1>3 DEF AnswerFeed
  <2> HIDE DEF d, sent, wire
  <2>3. \A u \in Tasks : task'[u].wire \in {task[u].wire, wire, {}}
    BY <1>t, <2>2 DEF TaskIdle, TaskState
  <2> QED BY <1>3, <1>w, <2>1, <2>3, MirrorPositions, SyncStepKeepsLog DEF AnswerFeed
<1>4. CASE StoreReceived(t)
  <2>1. PICK r \in task[t].wire :
          /\ mirror' = [mirror EXCEPT ![Home[t]] = Received(@, r.entry, r.bytes)]
          /\ task' = [task EXCEPT ![t].wire = @ \ {r}]
    BY <1>4 DEF StoreReceived
  <2>2. r.entry \in Entry /\ r.entry.seq \in Seqs /\ r.bytes \in BlobState
    BY <1>t DEF TaskState, Wire, Entry
  <2>3. \A u \in Tasks : task'[u].wire \subseteq task[u].wire
    BY <1>t, <2>1 DEF TaskState
  <2>4. own.entry[r.entry.seq] = r.entry
    BY <1>w
  <2>5. \A i \in Seqs : \/ mirror'[Home[t]].entry[i] = mirror[Home[t]].entry[i]
                        \/ mirror'[Home[t]].entry[i] = own.entry[i]
    <3>1. mirror'[Home[t]].entry = IF mirror[Home[t]].entry[r.entry.seq] = NoFile
                                   THEN [mirror[Home[t]].entry EXCEPT ![r.entry.seq] = r.entry]
                                   ELSE mirror[Home[t]].entry
      BY <1>t, <2>1, <2>2, ReceivedType
    <3>2. mirror[Home[t]].entry \in [Seqs -> Entry \union {NoFile, Torn}]
      BY <1>t DEF FeedDir
    <3> QED BY <2>2, <2>4, <3>1, <3>2
  <2>6. \A n \in Nodes : n # Home[t] => mirror'[n] = mirror[n]
    BY <2>1, <1>t
  <2> QED BY <1>4, <1>w, <2>3, <2>5, <2>6, MirrorPositions, SyncStepKeepsLog DEF StoreReceived
<1>5. CASE FinishDirect(t)
  <2>1. \A u \in Tasks : task'[u].wire = task[u].wire \/ task'[u].wire = {}
    BY <1>5, <1>t DEF FinishDirect, TaskIdle
  <2> QED BY <1>5, <1>w, <2>1, MirrorPositions, SyncStepKeepsLog DEF FinishDirect
<1>6. CASE FinishThirdParty(t)
  <2>1. \A u \in Tasks : task'[u].wire = task[u].wire \/ task'[u].wire = {}
    BY <1>6, <1>t DEF FinishThirdParty, TaskIdle
  <2>2. mirror'[Home[t]] \in {EmptyDir, mirror[Home[t]],
                              Truncated(mirror[Home[t]], ValidCount(mirror[Home[t]]))}
    BY <1>6, <1>t DEF FinishThirdParty
  <2>3. \A i \in Seqs : \/ mirror'[Home[t]].entry[i] = NoFile
                        \/ mirror'[Home[t]].entry[i] = mirror[Home[t]].entry[i]
    BY <1>t, <2>2, EmptyDirType, TruncatedType
  <2>4. \A n \in Nodes : n # Home[t] => mirror'[n] = mirror[n]
    BY <1>6, <1>t DEF FinishThirdParty
  <2> QED BY <1>6, <1>w, <2>1, <2>3, <2>4, MirrorPositions, SyncStepKeepsLog
          DEF FinishThirdParty
<1>7. CASE SyncFails(t)
  <2>1. \A u \in Tasks : task'[u].wire = task[u].wire \/ task'[u].wire = {}
    BY <1>7, <1>t DEF SyncFails, TaskIdle
  <2> QED BY <1>7, <1>w, <2>1, MirrorPositions, SyncStepKeepsLog DEF SyncFails
<1>8. CASE TearReceivedWrite(t)
  <2>1. PICK r \in task[t].wire :
          \/ mirror' = [mirror EXCEPT ![Home[t]] = WithBlob(@, r.entry.content, "torn")]
          \/ mirror' = [mirror EXCEPT ![Home[t]] =
                          [WithBlob(@, r.entry.content, r.bytes)
                             EXCEPT !.entry[r.entry.seq] = Torn]]
    BY <1>8 DEF TearReceivedWrite
  <2>2. r.entry.content \in Content /\ r.bytes \in BlobState /\ "torn" \in BlobState
    BY <1>t DEF TaskState, Wire, Entry, BlobState
  <2>3. \A i \in Seqs : \/ mirror'[Home[t]].entry[i] = Torn
                        \/ mirror'[Home[t]].entry[i] = mirror[Home[t]].entry[i]
    <3> DEFINE d == mirror[Home[t]]
               a == WithBlob(d, r.entry.content, "torn")
               b == WithBlob(d, r.entry.content, r.bytes)
    <3>1. d \in FeedDir /\ a.entry = d.entry /\ b \in FeedDir /\ b.entry = d.entry
      BY <1>t, <2>2, WithBlobType
    <3>2. mirror'[Home[t]] \in {a, [b EXCEPT !.entry[r.entry.seq] = Torn]}
      BY <1>t, <2>1
    <3> HIDE DEF a, b, d
    <3>3. \A i \in Seqs : [b EXCEPT !.entry[r.entry.seq] = Torn].entry[i] \in {Torn, d.entry[i]}
      BY <3>1 DEF FeedDir
    <3>4. \A i \in Seqs : mirror'[Home[t]].entry[i] \in {Torn, d.entry[i]}
      BY <3>1, <3>2, <3>3
    <3> QED BY <3>4 DEF d
  <2>4. \A n \in Nodes : n # Home[t] => mirror'[n] = mirror[n]
    BY <1>t, <2>1
  <2>5. \A u \in Tasks : task'[u].wire = task[u].wire \/ task'[u].wire = {}
    BY <1>8, <1>t DEF TearReceivedWrite, TaskIdle
  <2> QED BY <1>8, <1>w, <2>3, <2>4, <2>5, MirrorPositions, SyncStepKeepsLog
          DEF TearReceivedWrite
<1> QED BY <1>1, <1>2, <1>3, <1>4, <1>5, <1>6, <1>7, <1>8 DEF TaskStep

LEMMA NextKeepsLog ==
  ASSUME SingleWriter, LogInv, [Next]_vars
  PROVE  LogInv'
<1>t. TypeInv' /\ mirror \in [Nodes -> FeedDir]
  BY NextKeepsType DEF LogInv, TypeInv, TypeOK
<1>w. \A u \in Tasks : \A r \in task[u].wire : own.entry[r.entry.seq] = r.entry
  BY DEF LogInv, WireAgrees
<1>1. CASE \E p \in Publishers : PublisherStep(p)
  BY <1>1, <1>t, PublisherKeepsLog DEF LogInv
<1>2. CASE \E t \in Tasks : TaskStep(t)
  BY <1>2, <1>t, TaskKeepsLog DEF LogInv
<1>3. ASSUME NEW n \in Nodes, Evict(n)
      PROVE  LogInv'
  <2>1. \A m \in Nodes : \A i \in Seqs : \/ mirror'[m].entry[i] = NoFile
                                        \/ mirror'[m].entry[i] = mirror[m].entry[i]
    BY <1>3, <1>t, EmptyDirType DEF Evict
  <2> QED BY <1>3, <1>t, <1>w, <2>1, MirrorPositions, SyncStepKeepsLog DEF Evict, LogInv
<1>4. CASE NextDay
  BY <1>4, <1>t, <1>w, MirrorPositions, SyncStepKeepsLog DEF NextDay, LogInv
<1>5. CASE UNCHANGED vars
  BY <1>5, <1>t, <1>w, MirrorPositions, SyncStepKeepsLog DEF vars, LogInv
<1> QED BY <1>1, <1>2, <1>3, <1>4, <1>5 DEF Next

LEMMA LogInvariance ==
  ASSUME SingleWriter
  PROVE  Spec => []LogInv
<1>1. SingleWriter /\ LogInv /\ [Next]_vars => LogInv'
  BY NextKeepsLog
<1>2. LogInv /\ [Next]_vars => LogInv'
  BY <1>1
<1> QED BY <1>2, InitLogInv, PTL DEF Spec

\* With one publisher, every mirror of the feed agrees with it: whatever path
\* an entry took, it is the author's entry at that position.
THEOREM SingleWriterMirrorsAgree ==
  ASSUME SingleWriter
  PROVE  Spec => []MirrorAgrees
<1>1. LogInv => MirrorAgrees
  BY DEF LogInv
<1> QED BY <1>1, LogInvariance, PTL

\* With one publisher, the author's feed is append-only: no step removes or
\* rewrites an entry it holds, also when publishing fails or is cut short.
THEOREM SingleWriterAppendOnly ==
  ASSUME SingleWriter
  PROVE  Spec => AppendOnly
<1>1. ASSUME LogInv, [Next]_vars
      PROVE  \A i \in Whole(own) : own'.entry[i] = own.entry[i]
  <2>t. own \in FeedDir /\ \A p \in Publishers : pub[p].pc # "idle" => pub[p].content \in Content
    BY <1>1 DEF LogInv, TypeInv, TypeOK, PubCarries
  <2>1. CASE own'.entry = own.entry
    BY <2>1
  <2>2. ASSUME NEW p \in Publishers, pub[p].pc = "write",
               NEW x, own'.entry = [own.entry EXCEPT ![pub[p].entry.seq] = x]
        PROVE  \A i \in Whole(own) : own'.entry[i] = own.entry[i]
    <3>1. own.entry[pub[p].entry.seq] = NoFile
      BY <1>1, <2>2, WriteIsFree
    <3>2. own.entry \in [Seqs -> Entry \union {NoFile, Torn}]
      BY <2>t DEF FeedDir
    <3> QED BY <2>2, <3>1, <3>2 DEF Whole
  <2>3. ASSUME NEW p \in Publishers, PublisherStep(p)
        PROVE  \/ own'.entry = own.entry
               \/ /\ pub[p].pc = "write"
                  /\ \E x : own'.entry = [own.entry EXCEPT ![pub[p].entry.seq] = x]
    <3>1. CASE Publish(p) \/ SignEntry(p) \/ PublishFails(p)
      BY <3>1 DEF Publish, SignEntry, PublishFails
    <3>2. CASE WriteOwnBlob(p)
      BY <3>2, <2>t, WithBlobType DEF WriteOwnBlob, BlobState
    <3>3. CASE WriteOwnEntry(p)
      <4>1. pub[p].entry \in Entry
        BY <1>1, <3>3, WriteIsFree DEF WriteOwnEntry
      <4> QED BY <3>3, <4>1, <2>t, WithEntryType DEF WriteOwnEntry
    <3>4. CASE TearOwnWrite(p)
      <4>1. CASE pub[p].pc = "blob" /\ own' = WithBlob(own, pub[p].content, "torn")
        BY <4>1, <2>t, WithBlobType DEF BlobState
      <4>2. CASE /\ pub[p].pc = "write"
                 /\ own' = [own EXCEPT !.entry[pub[p].entry.seq] = Torn]
        <5>1. own'.entry = [own.entry EXCEPT ![pub[p].entry.seq] = Torn]
          BY <4>2, <2>t DEF FeedDir
        <5> QED BY <4>2, <5>1
      <4> QED BY <3>4, <4>1, <4>2 DEF TearOwnWrite
    <3> QED BY <2>3, <3>1, <3>2, <3>3, <3>4 DEF PublisherStep
  <2>4. CASE \E p \in Publishers : PublisherStep(p)
    BY <2>1, <2>2, <2>3, <2>4
  <2>5. CASE ~ \E p \in Publishers : PublisherStep(p)
    <3>1. own' = own
      BY <1>1, <2>5 DEF Next, vars, TaskStep, StartSync, AnswerMeta, AnswerFeed, StoreReceived,
              FinishDirect, FinishThirdParty, SyncFails, TearReceivedWrite, Evict, NextDay
    <3> QED BY <3>1
  <2> QED BY <2>4, <2>5
<1>2. LogInv /\ [Next]_vars => [\A i \in Whole(own) : own'.entry[i] = own.entry[i]]_vars
  BY <1>1
<1> QED BY <1>2, LogInvariance, PTL DEF Spec, AppendOnly

-----------------------------------------------------------------------------
(***************************************************************************)
(* Nothing verified is forgotten, however many publishers and torn writes  *)
(* there are: the writes of a sync fill what is empty, and the truncation  *)
(* that heals a mirror cuts behind what verifies and keeps its blobs.      *)
(***************************************************************************)
\* What a step of a sync may do to a directory: it fills, or it cuts and keeps the
\* verified prefix.
LEMMA TaskKeepsVerified ==
  ASSUME TypeInv, NEW t \in Tasks, TaskStep(t), NEW n \in Nodes
  PROVE  ValidCount(mirror[n]) <= ValidCount(mirror'[n])
<1> DEFINE d == mirror[Home[t]]
<1>1. /\ mirror \in [Nodes -> FeedDir] /\ task[t] \in TaskState /\ Home[t] \in Nodes
      /\ d \in FeedDir /\ \A m \in Nodes : ValidCount(mirror[m]) \in Nat
  BY FeedSyncAssumption, ValidPrefix, FeedAssumption DEF TypeInv, TypeOK
<1>2. ASSUME NEW i \in 0 .. ValidCount(d) - 1
      PROVE  /\ i \in Whole(d) /\ i \in Seqs /\ d.entry[i] \notin {NoFile, Torn}
             /\ d.entry[i].content \in Content /\ d.blob[d.entry[i].content] = "whole"
  <2>1. i \in Whole(d) /\ d.blob[d.entry[i].content] = "whole"
    BY ValidPrefix DEF Verifies
  <2>2. i \in Seqs /\ d.entry[i] \in Entry
    BY <1>1, <2>1 DEF Whole, FeedDir
  <2> QED BY <2>1, <2>2 DEF Whole, Entry
<1>3. CASE StoreReceived(t)
  <2>1. PICK r \in task[t].wire : mirror' = [mirror EXCEPT ![Home[t]] = Received(@, r.entry, r.bytes)]
    BY <1>3 DEF StoreReceived
  <2>2. r.entry \in Entry /\ r.bytes \in BlobState
    BY <1>1 DEF TaskState, Wire
  <2>3. PICK d2 \in FeedDir : d2 = Received(d, r.entry, r.bytes)
    BY <1>1, <2>2, ReceivedType
  <2>4. ASSUME NEW i \in 0 .. ValidCount(d) - 1
        PROVE  d2.entry[i] = d.entry[i] /\ d2.blob[d.entry[i].content] = "whole"
    <3>1. d2.entry = IF d.entry[r.entry.seq] = NoFile
                     THEN [d.entry EXCEPT ![r.entry.seq] = r.entry] ELSE d.entry
      BY <1>1, <2>2, <2>3, ReceivedType
    <3>2. d2.entry[i] = d.entry[i]
      BY <1>1, <1>2, <3>1 DEF FeedDir
    <3> HIDE DEF d
    <3> QED BY <1>1, <1>2, <2>2, <2>3, <3>2, ReceivedKeeps
  <2>5. ValidCount(d) <= ValidCount(d2)
    BY <2>4, VerifiedStays
  <2>6. mirror' = [mirror EXCEPT ![Home[t]] = d2]
    BY <2>1, <2>3
  <2> QED BY <1>1, <2>5, <2>6
<1>4. CASE FinishThirdParty(t)
  <2>1. PICK v : v = ValidCount(d)
    OBVIOUS
  <2>2. PICK d2 : /\ d2 = IF v = 0 THEN EmptyDir ELSE IF v < EntryCount(d) THEN Truncated(d, v) ELSE d
                  /\ mirror' = [mirror EXCEPT ![Home[t]] = d2]
    BY <1>4, <2>1 DEF FinishThirdParty
  <2>3. CASE v = 0
    <3>1. ValidCount(d2) \in Nat
      BY ValidPrefix, FeedAssumption
    <3>2. ValidCount(d) <= ValidCount(d2)
      BY <2>1, <2>3, <3>1
    <3> HIDE DEF d
    <3> QED BY <1>1, <2>2, <3>2 DEF d
  <2>4. ASSUME v # 0, NEW i \in 0 .. ValidCount(d) - 1
        PROVE  d2.entry[i] = d.entry[i] /\ d2.blob[d.entry[i].content] = "whole"
    <3>1. i < v /\ v \in Nat
      BY <1>1, <2>1
    <3> HIDE DEF d
    <3> QED BY <1>1, <1>2, <2>2, <2>4, <3>1, TruncatedKeeps
  <2>5. v # 0 => ValidCount(d) <= ValidCount(d2)
    BY <2>4, VerifiedStays
  <2> QED BY <1>1, <2>2, <2>3, <2>5
<1>5. CASE TearReceivedWrite(t)
  <2>1. PICK r \in task[t].wire :
          \/ mirror' = [mirror EXCEPT ![Home[t]] = WithBlob(d, r.entry.content, "torn")]
          \/ /\ d.entry[r.entry.seq] = NoFile
             /\ mirror' = [mirror EXCEPT ![Home[t]] =
                             [WithBlob(d, r.entry.content, r.bytes) EXCEPT !.entry[r.entry.seq] = Torn]]
    BY <1>5 DEF TearReceivedWrite
  <2>2. r.entry.content \in Content /\ r.entry.seq \in Seqs /\ {r.bytes, "torn"} \subseteq BlobState
    BY <1>1 DEF TaskState, Wire, Entry, BlobState
  <2>3. PICK b \in {r.bytes, "torn"}, d1 \in FeedDir, d2 \in FeedDir :
          /\ d1 = WithBlob(d, r.entry.content, b)
          /\ \/ d2 = d1
             \/ d.entry[r.entry.seq] = NoFile /\ d2 = [d1 EXCEPT !.entry[r.entry.seq] = Torn]
          /\ mirror' = [mirror EXCEPT ![Home[t]] = d2]
    <3> DEFINE D(b) == WithBlob(d, r.entry.content, b)
    <3>1. \A b \in {r.bytes, "torn"} : D(b) \in FeedDir
      BY <1>1, <2>2, WithBlobType
    <3>2. \A d1 \in FeedDir : [d1 EXCEPT !.entry[r.entry.seq] = Torn] \in FeedDir
      BY <2>2 DEF FeedDir
    <3> HIDE DEF D, d
    <3>3. CASE mirror' = [mirror EXCEPT ![Home[t]] = D("torn")]
      BY <3>1, <3>3 DEF D
    <3>4. CASE /\ d.entry[r.entry.seq] = NoFile
               /\ mirror' = [mirror EXCEPT ![Home[t]] = [D(r.bytes) EXCEPT !.entry[r.entry.seq] = Torn]]
      BY <3>1, <3>2, <3>4 DEF D
    <3> QED BY <2>1, <3>3, <3>4 DEF D
  <2>4. ASSUME NEW i \in 0 .. ValidCount(d) - 1
        PROVE  d2.entry[i] = d.entry[i] /\ d2.blob[d.entry[i].content] = "whole"
    <3>1. d1.entry[i] = d.entry[i] /\ d1.blob[d.entry[i].content] = "whole"
      <4>1. d \in FeedDir /\ b \in BlobState /\ d1 = WithBlob(d, r.entry.content, b)
        BY <1>1, <2>2, <2>3
      <4>2. d.entry[i].content \in Content /\ d.blob[d.entry[i].content] = "whole" /\ i \in Seqs
        BY <1>2
      <4> HIDE DEF d
      <4>3. d1.entry = d.entry
        BY <2>2, <4>1, WithBlobType
      <4>4. d1.blob[d.entry[i].content] = d.blob[d.entry[i].content]
        BY <2>2, <4>1, <4>2, WithBlobKeeps
      <4> QED BY <4>2, <4>3, <4>4
    <3>2. d2.entry[i] = d1.entry[i] /\ d2.blob = d1.blob
      <4> HIDE DEF d
      <4> QED BY <1>2, <2>2, <2>3 DEF FeedDir
    <3> QED BY <3>1, <3>2
  <2>5. ValidCount(d) <= ValidCount(d2)
    BY <2>4, VerifiedStays
  <2> QED BY <1>1, <2>3, <2>5
<1>6. CASE ~ (StoreReceived(t) \/ FinishThirdParty(t) \/ TearReceivedWrite(t))
  <2>1. mirror' = mirror
    BY <1>6 DEF TaskStep, StartSync, AnswerMeta, AnswerFeed, FinishDirect, SyncFails
  <2> QED BY <1>1, <2>1
<1> QED BY <1>3, <1>4, <1>5, <1>6

\* Only an eviction takes a verified entry away from a node: no sync, however it is
\* interleaved with others and with the publishers, and wherever it fails, does.
THEOREM VerifiedIsKept == Spec => OnlyEvictionForgets
<1>1. ASSUME TypeInv, [Next]_vars, NEW n \in Nodes, evictions' = evictions
      PROVE  ValidCount(mirror'[n]) >= ValidCount(mirror[n])
  <2>1. ValidCount(mirror[n]) \in Nat /\ ValidCount(mirror'[n]) \in Nat
    BY ValidPrefix, FeedAssumption
  <2>2. CASE \E t \in Tasks : TaskStep(t)
    BY <1>1, <2>1, <2>2, TaskKeepsVerified
  <2>3. ~ \E m \in Nodes : Evict(m)
    BY <1>1, FeedSyncAssumption DEF Evict, TypeInv, TypeOK
  <2>4. CASE ~ \E t \in Tasks : TaskStep(t)
    <3>1. mirror' = mirror
      BY <1>1, <2>3, <2>4 DEF Next, vars, PublisherStep, Publish, WriteOwnBlob, SignEntry,
              WriteOwnEntry, PublishFails, TearOwnWrite, NextDay
    <3> QED BY <2>1, <3>1
  <2> QED BY <2>2, <2>4
<1>2. TypeInv /\ [Next]_vars
        => [\A n \in Nodes : evictions' = evictions => ValidCount(mirror'[n]) >= ValidCount(mirror[n])]_vars
  BY <1>1
<1> QED BY <1>2, TypeInvariance, PTL DEF Spec, OnlyEvictionForgets

-----------------------------------------------------------------------------
(***************************************************************************)
(* With one publisher, the feed and its mirrors implement AppendOnlyFeed.  *)
(* The author's log is the run of entry files without a gap, and a mirror  *)
(* holds what verifies of it: by MirrorAgrees, a prefix of that run.  So a *)
(* step of the author prolongs the log by one entry or leaves it alone,    *)
(* and a step of a mirror leaves it with another prefix of the same log.   *)
(***************************************************************************)
Log == Prefix(own, RunLength(own))
Held == [n \in Nodes |-> Prefix(mirror[n], ValidCount(mirror[n]))]

LEMMA RunIsLongest ==
  ASSUME NEW d
  PROVE  /\ RunLength(d) \in 0 .. MaxSeq /\ 0 .. RunLength(d) - 1 \subseteq Whole(d)
         /\ \A m \in 0 .. MaxSeq : 0 .. m - 1 \subseteq Whole(d) => m <= RunLength(d)
<1> DEFINE T == {m \in 0 .. MaxSeq : 0 .. m - 1 \subseteq Whole(d)}
<1>1. T \subseteq 0 .. MaxSeq /\ MaxSeq \in Nat /\ 0 \in T
  BY FeedAssumption
<1>2. Max(T) \in T /\ \A m \in T : m <= Max(T)
  <2> HIDE DEF T
  <2> QED BY <1>1, GreatestNatural
<1>3. RunLength(d) = Max(T)
  BY DEF RunLength
<1> QED BY <1>2, <1>3

LEMMA PrefixIsSeq ==
  ASSUME NEW d \in FeedDir, NEW n \in Nat, 0 .. n - 1 \subseteq Whole(d)
  PROVE  /\ Prefix(d, n) \in Seq(Entry) /\ Len(Prefix(d, n)) = n
         /\ \A i \in 1 .. n : Prefix(d, n)[i] = d.entry[i-1]
<1>1. ASSUME NEW i \in 1 .. n PROVE d.entry[i-1] \in Entry
  <2>1. i - 1 \in Whole(d)
    OBVIOUS
  <2> QED BY <2>1 DEF Whole, FeedDir
<1>2. PICK p : p = Prefix(d, n) /\ p = [i \in 1 .. n |-> d.entry[i-1]]
  BY DEF Prefix
<1>3. p \in [1 .. n -> Entry]
  BY <1>1, <1>2
<1>4. p \in Seq(Entry) /\ Len(p) = n
  BY <1>3
<1> QED BY <1>2, <1>4

\* A directory that agrees with the author's holds, verified, a prefix of the log.
LEMMA HeldIsPrefix ==
  ASSUME NEW d \in FeedDir, NEW o \in FeedDir, \A i \in Whole(d) : o.entry[i] = d.entry[i]
  PROVE  /\ ValidCount(d) \in 0 .. RunLength(o)
         /\ Len(Prefix(d, ValidCount(d))) = ValidCount(d)
         /\ Prefix(d, ValidCount(d)) = SubSeq(Prefix(o, RunLength(o)), 1, ValidCount(d))
<1> DEFINE v == ValidCount(d)
           r == RunLength(o)
<1>1. v \in 0 .. MaxSeq /\ MaxSeq \in Nat /\ v \in Nat /\ r \in Nat /\ 0 .. r - 1 \subseteq Whole(o)
  BY ValidPrefix, RunIsLongest, FeedAssumption
<1>2. 0 .. v - 1 \subseteq Whole(d)
  BY ValidPrefix DEF Verifies
<1>3. 0 .. v - 1 \subseteq Whole(o)
  BY <1>2 DEF Whole
<1>4. v <= r
  BY <1>1, <1>3, RunIsLongest
<1> HIDE DEF v, r
<1>5. /\ Prefix(d, v) \in Seq(Entry) /\ Len(Prefix(d, v)) = v
      /\ \A i \in 1 .. v : Prefix(d, v)[i] = d.entry[i-1]
      /\ Prefix(o, r) \in Seq(Entry) /\ Len(Prefix(o, r)) = r
      /\ \A i \in 1 .. r : Prefix(o, r)[i] = o.entry[i-1]
  BY <1>1, <1>2, PrefixIsSeq
<1>6. PICK p \in Seq(Entry), q \in Seq(Entry) : p = Prefix(d, v) /\ q = Prefix(o, r)
  BY <1>5
<1>7. PICK s : s = SubSeq(q, 1, v)
  OBVIOUS
<1>8. s \in Seq(Entry) /\ Len(s) = v /\ \A i \in 1 .. v : s[i] = q[i]
  <2>1. \A i \in 1 .. v : q[i] \in Entry
    BY <1>1, <1>4, <1>5, <1>6, ElementOfSeq
  <2>2. 1 \in Int /\ v \in Int /\ v - 1 + 1 = v /\ (1 <= v \/ v = 0)
    BY <1>1
  <2>3. /\ SubSeq(q, 1, v) \in Seq(Entry)
        /\ Len(SubSeq(q, 1, v)) = IF 1 <= v THEN v - 1 + 1 ELSE 0
        /\ \A i \in 1 .. v - 1 + 1 : SubSeq(q, 1, v)[i] = q[1 + i - 1]
    BY <2>1, <2>2, SubSeqProperties
  <2> QED BY <1>1, <1>7, <2>2, <2>3
<1>9. \A i \in 1 .. v : p[i] = s[i]
  <2> SUFFICES ASSUME NEW i \in 1 .. v PROVE p[i] = s[i]
    OBVIOUS
  <2>1. i - 1 \in 0 .. v - 1 /\ i \in 1 .. r
    BY <1>1, <1>4
  <2>2. i - 1 \in Whole(d)
    BY <1>2, <2>1
  <2> QED BY <1>5, <1>6, <1>8, <2>1, <2>2
<1>10. p = s
  BY <1>5, <1>6, <1>8, <1>9, SeqEqual
<1> QED BY <1>1, <1>4, <1>5, <1>6, <1>7, <1>10 DEF v, r

\* What each mirror holds, of the state.
LEMMA MirrorsHoldPrefixes ==
  ASSUME LogInv, NEW n \in Nodes
  PROVE  /\ Held[n] = SubSeq(Log, 1, ValidCount(mirror[n])) /\ Len(Held[n]) = ValidCount(mirror[n])
         /\ ValidCount(mirror[n]) \in 0 .. Len(Log) /\ Len(Log) \in Nat
<1>1. own \in FeedDir /\ mirror[n] \in FeedDir /\ \A i \in Whole(mirror[n]) : own.entry[i] = mirror[n].entry[i]
  BY DEF LogInv, TypeInv, TypeOK, MirrorAgrees
<1>2. Len(Log) = RunLength(own) /\ RunLength(own) \in Nat
  <2>1. RunLength(own) \in Nat /\ 0 .. RunLength(own) - 1 \subseteq Whole(own)
    BY RunIsLongest, FeedAssumption
  <2> QED BY <1>1, <2>1, PrefixIsSeq DEF Log
<1> QED BY <1>1, <1>2, HeldIsPrefix DEF Log, Held

\* A step of one mirror, or of none.
LEMMA MirrorStepIsAbstract ==
  ASSUME LogInv, LogInv', own'.entry = own.entry, NEW h \in Nodes,
         \A n \in Nodes : n # h => mirror'[n] = mirror[n]
  PROVE  [Abstract!Next]_Abstract!vars
<1>1. Log' = Log
  <2>1. Whole(own)' = Whole(own)
    BY DEF Whole
  <2> QED BY <2>1 DEF Log, RunLength, Prefix
<1>2. PICK v, w : v = ValidCount(mirror[h]) /\ w = ValidCount(mirror'[h])
  OBVIOUS
<1>3. /\ Held[h] = SubSeq(Log, 1, v) /\ Len(Held[h]) = v
      /\ v \in 0 .. Len(Log) /\ Len(Log) \in Nat
  BY <1>2, MirrorsHoldPrefixes
<1>4. Held'[h] = SubSeq(Log, 1, w) /\ w \in 0 .. Len(Log)
  <2>1. own' \in FeedDir /\ mirror'[h] \in FeedDir /\ \A i \in Whole(mirror'[h]) : own'.entry[i] = mirror'[h].entry[i]
    BY DEF LogInv, TypeInv, TypeOK, MirrorAgrees
  <2>2. w \in 0 .. RunLength(own') /\ Prefix(mirror'[h], w) = SubSeq(Prefix(own', RunLength(own')), 1, w)
    BY <1>2, <2>1, HeldIsPrefix
  <2>3. RunLength(own') \in Nat /\ 0 .. RunLength(own') - 1 \subseteq Whole(own')
    BY RunIsLongest, FeedAssumption
  <2>4. Len(Prefix(own', RunLength(own'))) = RunLength(own')
    BY <2>1, <2>3, PrefixIsSeq
  <2>5. Log' = Prefix(own', RunLength(own')) /\ Held'[h] = Prefix(mirror'[h], w)
    BY <1>2 DEF Log, Held
  <2> QED BY <1>1, <2>2, <2>4, <2>5
<1>5. \A n \in Nodes : n # h => Held'[n] = Held[n]
  BY DEF Held
<1>6. Held' = [n \in Nodes |-> IF n = h THEN SubSeq(Log, 1, w) ELSE Held[n]]
  <2>1. Held' = [n \in Nodes |-> Held'[n]]
    BY DEF Held
  <2> QED BY <1>4, <1>5, <2>1
<1>7. CASE w > v
  <2>1. w \in Len(Held[h]) + 1 .. Len(Log)
    BY <1>3, <1>4, <1>7
  <2>2. Abstract!CatchUp(h)
    BY <1>1, <1>6, <2>1 DEF Abstract!CatchUp, Abstract!HoldPrefix, Log, Held
  <2> QED BY <2>2 DEF Abstract!Next
<1>8. CASE w < v
  <2>1. w \in 0 .. Len(Held[h]) - 1
    BY <1>3, <1>4, <1>8
  <2>2. Abstract!GiveUp(h)
    BY <1>1, <1>6, <2>1 DEF Abstract!GiveUp, Abstract!HoldPrefix, Log, Held
  <2> QED BY <2>2 DEF Abstract!Next
<1>9. CASE w = v
  <2>1. Held' = Held
    <3>1. Held = [n \in Nodes |-> Held[n]]
      BY DEF Held
    <3> QED BY <1>3, <1>6, <1>9, <3>1
  <2> QED BY <1>1, <2>1 DEF Abstract!vars, Log, Held
<1> QED BY <1>3, <1>4, <1>7, <1>8, <1>9

\* The author's write prolongs the run by one entry, or does not reach it.
LEMMA AuthorStepIsAbstract ==
  ASSUME LogInv, LogInv', NEW p \in Publishers, pub[p].pc = "write",
         NEW x \in {pub[p].entry, Torn},
         own'.entry = [own.entry EXCEPT ![pub[p].entry.seq] = x], mirror' = mirror
  PROVE  [Abstract!Next]_Abstract!vars
<1>1. PICK k \in Seqs : /\ k = pub[p].entry.seq /\ own.entry[k] = NoFile /\ pub[p].entry \in Entry
                        /\ Files(own) = 0 .. k - 1 /\ k \in Nat /\ k + 1 \in 0 .. MaxSeq /\ MaxSeq \in Nat
  BY WriteIsFree, FeedAssumption DEF LogInv, PubIsNext, Seqs
<1>2. own \in FeedDir /\ own' \in FeedDir
  BY DEF LogInv, TypeInv, TypeOK
<1>3. \A i \in Seqs : own'.entry[i] = IF i = k THEN x ELSE own.entry[i]
  BY <1>1, <1>2 DEF FeedDir
<1>4. Held' = Held
  BY DEF Held
<1>5. \A d \in FeedDir : RunLength(d) \in 0 .. MaxSeq /\ 0 .. RunLength(d) - 1 \subseteq Whole(d)
  BY RunIsLongest
<1>6. PICK r, s : r = RunLength(own) /\ s = RunLength(own')
  OBVIOUS
<1>7. r \in Nat /\ s \in Nat /\ 0 .. r - 1 \subseteq Whole(own) /\ 0 .. s - 1 \subseteq Whole(own') /\ s <= MaxSeq /\ r <= MaxSeq
  BY <1>1, <1>2, <1>5, <1>6
<1>8. Whole(own) \subseteq 0 .. k - 1
  BY <1>1 DEF Whole, Files
<1>9. r <= k
  <2>1. k \notin 0 .. r - 1
    BY <1>1, <1>7, <1>8
  <2> QED BY <1>1, <1>7, <2>1
<1>10. 0 .. r - 1 \subseteq Whole(own')
  BY <1>1, <1>3, <1>7, <1>8 DEF Whole
<1>11. r <= s
  BY <1>6, <1>7, <1>10, RunIsLongest
<1>12. ASSUME NEW i \in 0 .. s - 1, i # k PROVE i \in Whole(own)
  <2>1. i \in Whole(own')
    BY <1>7, <1>12
  <2>2. i \in Seqs /\ own'.entry[i] = own.entry[i]
    BY <1>3, <1>12, <2>1 DEF Whole
  <2> QED BY <2>1, <2>2 DEF Whole
<1>13. \A i \in 0 .. r - 1 : own'.entry[i] = own.entry[i]
  <2> SUFFICES ASSUME NEW i \in 0 .. r - 1 PROVE own'.entry[i] = own.entry[i]
    OBVIOUS
  <2>1. i \in Seqs /\ i # k
    BY <1>1, <1>7, <1>9 DEF Whole
  <2> QED BY <1>3, <2>1
<1>14. CASE s = r
  <2>1. Prefix(own', s) = Prefix(own, r)
    BY <1>7, <1>13, <1>14 DEF Prefix
  <2>2. Log' = Log
    BY <1>6, <2>1 DEF Log
  <2> QED BY <1>4, <2>2 DEF Abstract!vars, Log, Held
<1>15. CASE s # r
  <2>1. s = k + 1 /\ r = k
    <3>1. r \in 0 .. s - 1 /\ 0 .. r \subseteq 0 .. s - 1
      BY <1>7, <1>11, <1>15
    <3>2. r = k
      <4>1. ASSUME r # k PROVE FALSE
        <5>1. 0 .. r \subseteq Whole(own)
          BY <1>1, <1>7, <1>9, <1>12, <3>1, <4>1
        <5>2. r + 1 \in 0 .. MaxSeq /\ 0 .. (r + 1) - 1 \subseteq Whole(own)
          BY <1>1, <1>7, <1>9, <5>1
        <5>3. r + 1 <= r
          BY <1>6, <5>2, RunIsLongest
        <5> QED BY <1>7, <5>3
      <4> QED BY <4>1
    <3>3. ~ (s > k + 1)
      <4>1. ASSUME s > k + 1 PROVE FALSE
        <5>1. k \in Nat /\ k + 1 \in 0 .. s - 1 /\ k + 1 # k /\ k + 1 \notin 0 .. k - 1
          BY <1>1, <1>7, <4>1
        <5>2. k + 1 \in Whole(own)
          BY <1>12, <5>1
        <5> QED BY <1>8, <5>1, <5>2
      <4> QED BY <4>1
    <3>4. k \in Nat /\ s \in Nat /\ k <= s - 1
      BY <1>1, <1>7, <3>1, <3>2
    <3> QED BY <3>2, <3>3, <3>4
  <2>2. PICK before, after : before = Log /\ after = Log'
    OBVIOUS
  <2>3. /\ before \in Seq(Entry) /\ Len(before) = k /\ \A i \in 1 .. k : before[i] = own.entry[i-1]
        /\ after \in Seq(Entry) /\ Len(after) = k + 1 /\ \A i \in 1 .. k + 1 : after[i] = own'.entry[i-1]
    <3>1. before = Prefix(own, k) /\ after = Prefix(own', k + 1)
      BY <1>6, <2>1, <2>2 DEF Log
    <3>2. 0 .. k - 1 \subseteq Whole(own) /\ 0 .. (k + 1) - 1 \subseteq Whole(own') /\ k \in Nat /\ k + 1 \in Nat
      BY <1>1, <1>7, <2>1
    <3>3. /\ Prefix(own, k) \in Seq(Entry) /\ Len(Prefix(own, k)) = k
          /\ \A i \in 1 .. k : Prefix(own, k)[i] = own.entry[i-1]
      BY <1>2, <3>2, PrefixIsSeq
    <3>4. /\ Prefix(own', k + 1) \in Seq(Entry) /\ Len(Prefix(own', k + 1)) = k + 1
          /\ \A i \in 1 .. k + 1 : Prefix(own', k + 1)[i] = own'.entry[i-1]
      <4>1. PICK m \in Nat : m = k + 1
        BY <3>2
      <4>2. 0 .. m - 1 \subseteq Whole(own')
        BY <3>2, <4>1
      <4> QED BY <1>2, <4>1, <4>2, PrefixIsSeq
    <3> QED BY <3>1, <3>3, <3>4
  <2>4. SubSeq(after, 1, k) = before
    <3>1. PICK t : t = SubSeq(after, 1, k)
      OBVIOUS
    <3>2. t \in Seq(Entry) /\ Len(t) = k /\ \A i \in 1 .. k : t[i] = after[i]
      <4>1. \A i \in 1 .. k : after[i] \in Entry
        BY <1>1, <2>3, ElementOfSeq
      <4>2. 1 \in Int /\ k \in Int /\ k - 1 + 1 = k /\ (1 <= k \/ k = 0)
        BY <1>1
      <4>3. /\ SubSeq(after, 1, k) \in Seq(Entry)
            /\ Len(SubSeq(after, 1, k)) = IF 1 <= k THEN k - 1 + 1 ELSE 0
            /\ \A i \in 1 .. k - 1 + 1 : SubSeq(after, 1, k)[i] = after[1 + i - 1]
        BY <4>1, <4>2, SubSeqProperties
      <4> QED BY <1>1, <3>1, <4>2, <4>3
    <3>3. \A i \in 1 .. k : t[i] = before[i]
      <4> SUFFICES ASSUME NEW i \in 1 .. k PROVE t[i] = before[i]
        OBVIOUS
      <4>1. i - 1 \in 0 .. k - 1 /\ i \in 1 .. k + 1
        <5>1. k \in Nat
          BY <1>1
        <5> QED BY <5>1
      <4> QED BY <1>13, <2>1, <2>3, <3>2, <4>1
    <3> QED BY <2>3, <3>1, <3>2, <3>3, SeqEqual
  <2>5. Abstract!Publish
    BY <1>4, <2>2, <2>3, <2>4 DEF Abstract!Publish, Log, Held
  <2> QED BY <2>5 DEF Abstract!Next
<1> QED BY <1>14, <1>15

\* With one publisher, whatever is interleaved, cut short or evicted, the author's log only
\* grows at its end, and every mirror holds a prefix of it, which it prolongs or gives up
\* (src/ARCHITECTURE.md, Core model: AppendOnlyFeed).
THEOREM SingleWriterImplementsLog ==
  ASSUME SingleWriter
  PROVE  Spec => AbstractSpec
<1>1. Init => Abstract!Init
  <2> SUFFICES ASSUME Init PROVE Abstract!Init
    OBVIOUS
  <2>1. own = EmptyDir /\ mirror = [n \in Nodes |-> EmptyDir] /\ EmptyDir \in FeedDir /\ Whole(EmptyDir) = {}
    BY EmptyDirType DEF Init, Whole
  <2>2. RunLength(EmptyDir) = 0 /\ ValidCount(EmptyDir) = 0
    <3>1. RunLength(EmptyDir) \in Nat /\ 0 .. RunLength(EmptyDir) - 1 \subseteq {}
      BY <2>1, RunIsLongest, FeedAssumption
    <3>2. ValidCount(EmptyDir) \in Nat /\ 0 .. ValidCount(EmptyDir) - 1 \subseteq {}
      BY <2>1, ValidPrefix, FeedAssumption DEF Verifies
    <3> QED BY <3>1, <3>2
  <2>3. Prefix(EmptyDir, 0) = << >>
    BY DEF Prefix
  <2> QED BY <2>1, <2>2, <2>3 DEF Abstract!Init
<1>2. ASSUME LogInv, LogInv', [Next]_vars PROVE [Abstract!Next]_Abstract!vars
  <2>t. own \in FeedDir /\ mirror \in [Nodes -> FeedDir]
        /\ \A p \in Publishers : pub[p].pc # "idle" => pub[p].content \in Content
    BY <1>2 DEF LogInv, TypeInv, TypeOK, PubCarries
  <2>1. ASSUME own'.entry = own.entry, mirror' = mirror PROVE [Abstract!Next]_Abstract!vars
    <3>1. Whole(own)' = Whole(own)
      BY <2>1 DEF Whole
    <3>2. Log' = Log /\ Held' = Held
      BY <2>1, <3>1 DEF Log, Held, RunLength, Prefix
    <3> QED BY <3>2 DEF Abstract!vars, Log, Held
  <2>2. ASSUME NEW p \in Publishers, PublisherStep(p) PROVE [Abstract!Next]_Abstract!vars
    <3>m. mirror' = mirror
      BY <2>2 DEF PublisherStep, Publish, WriteOwnBlob, SignEntry, WriteOwnEntry, PublishFails, TearOwnWrite
    <3>1. CASE Publish(p) \/ SignEntry(p) \/ PublishFails(p)
      BY <2>1, <3>1, <3>m DEF Publish, SignEntry, PublishFails
    <3>2. CASE WriteOwnBlob(p)
      <4>1. own'.entry = own.entry
        BY <3>2, <2>t, WithBlobType DEF WriteOwnBlob, BlobState
      <4> QED BY <2>1, <3>m, <4>1
    <3>3. CASE WriteOwnEntry(p)
      <4>1. pub[p].entry \in Entry /\ pub[p].pc = "write"
        BY <1>2, <3>3, WriteIsFree DEF WriteOwnEntry
      <4>2. own'.entry = [own.entry EXCEPT ![pub[p].entry.seq] = pub[p].entry]
        BY <2>t, <3>3, <4>1, WithEntryType DEF WriteOwnEntry
      <4> QED BY <1>2, <3>m, <4>1, <4>2, AuthorStepIsAbstract
    <3>4. CASE TearOwnWrite(p)
      <4>1. CASE pub[p].pc = "blob" /\ own' = WithBlob(own, pub[p].content, "torn")
        <5>1. own'.entry = own.entry
          BY <2>t, <4>1, WithBlobType DEF BlobState
        <5> QED BY <2>1, <3>m, <5>1
      <4>2. CASE /\ pub[p].pc = "write"
                 /\ own' = [own EXCEPT !.entry[pub[p].entry.seq] = Torn]
        <5>1. own'.entry = [own.entry EXCEPT ![pub[p].entry.seq] = Torn]
          BY <2>t, <4>2 DEF FeedDir
        <5> QED BY <1>2, <3>m, <4>2, <5>1, AuthorStepIsAbstract
      <4> QED BY <3>4, <4>1, <4>2 DEF TearOwnWrite
    <3> QED BY <2>2, <3>1, <3>2, <3>3, <3>4 DEF PublisherStep
  <2>3. ASSUME NEW t \in Tasks, TaskStep(t) PROVE [Abstract!Next]_Abstract!vars
    <3>1. own' = own /\ Home[t] \in Nodes
      BY <2>3, FeedSyncAssumption DEF TaskStep, StartSync, AnswerMeta, AnswerFeed, StoreReceived,
              FinishDirect, FinishThirdParty, SyncFails, TearReceivedWrite
    <3>2. \A n \in Nodes : n # Home[t] => mirror'[n] = mirror[n]
      BY <2>3, <2>t, <3>1 DEF TaskStep, StartSync, AnswerMeta, AnswerFeed, StoreReceived,
              FinishDirect, FinishThirdParty, SyncFails, TearReceivedWrite
    <3> QED BY <1>2, <3>1, <3>2, MirrorStepIsAbstract
  <2>4. ASSUME NEW n \in Nodes, Evict(n) PROVE [Abstract!Next]_Abstract!vars
    <3>1. own' = own /\ \A m \in Nodes : m # n => mirror'[m] = mirror[m]
      BY <2>4, <2>t DEF Evict
    <3> QED BY <1>2, <3>1, MirrorStepIsAbstract
  <2>5. CASE NextDay \/ UNCHANGED vars
    BY <2>1, <2>5 DEF NextDay, vars
  <2> QED BY <1>2, <2>2, <2>3, <2>4, <2>5 DEF Next
<1>3. LogInv /\ LogInv' /\ [Next]_vars => [Abstract!Next]_Abstract!vars
  BY <1>2
<1> QED BY <1>1, <1>3, LogInvariance, PTL DEF Spec, AbstractSpec, Abstract!Spec

-----------------------------------------------------------------------------
(***************************************************************************)
(* What is advertised verifies, with one publisher, as long as no write is *)
(* cut short and no mirror evicted: FullyHeld looks at names only, so that *)
(* it is not enough by itself.  A mirror has no gap because what a task    *)
(* still has to write follows, without one, what the mirror has; that is   *)
(* because a source has no gap either, and the quotas admit the first ones *)
(* of what it offers.  And each entry is linked to the one before it.      *)
(***************************************************************************)
NothingIsLost == MaxTorn = 0 /\ MaxEvictions = 0

Sound(d) == Readable(d) /\ \A c \in Content : d.blob[c] # "torn"
NothingTorn == Sound(own) /\ \A n \in Nodes : Sound(mirror[n])

\* An entry is linked to the author's entry before it.
Chained(e) == e.prev = HashBefore(own, e.seq) /\ e.supersedes \in {NoSeq} \union 0 .. e.seq - 1
OwnIsChain == \A i \in Whole(own) : Chained(own.entry[i])
PubLinks ==
    \A p \in Publishers :
        /\ pub[p].pc \in {"blob", "link"} => pub[p].supersedes \in Files(own) \union {NoSeq}
        /\ pub[p].pc = "write" => Chained(pub[p].entry)

MirrorIsDense ==
    \A n \in Nodes :
        /\ \E k \in 0 .. MaxSeq : Files(mirror[n]) = 0 .. k - 1
        /\ \A i \in Whole(mirror[n]) : mirror[n].blob[mirror[n].entry[i].content] = "whole"

SinceIsHeld ==
    \A t \in Tasks :
        task[t].pc # "idle" => 0 .. task[t].since - 1 \subseteq Files(mirror[Home[t]])

WireFollows ==
    \A t \in Tasks : \A r \in task[t].wire :
        /\ r.bytes = "whole"
        /\ \A j \in 0 .. r.entry.seq - 1 :
              j \in Files(mirror[Home[t]]) \/ \E x \in task[t].wire : x.entry.seq = j

Links == NothingTorn /\ OwnIsChain /\ PubLinks /\ MirrorIsDense /\ SinceIsHeld /\ WireFollows
ChainInv == LogInv /\ Links

LEMMA InitChainInv == Init => ChainInv
<1> SUFFICES ASSUME Init PROVE ChainInv
  OBVIOUS
<1>1. /\ own = EmptyDir /\ mirror = [n \in Nodes |-> EmptyDir] /\ EmptyDir \in FeedDir
      /\ \A i \in Seqs : EmptyDir.entry[i] = NoFile
      /\ \A c \in Content : EmptyDir.blob[c] = "absent"
  BY EmptyDirType DEF Init, EmptyDir
<1>2. Files(EmptyDir) = {} /\ Whole(EmptyDir) = {} /\ Sound(EmptyDir)
  BY <1>1, SentinelAssumption DEF Files, Whole, Sound, Readable
<1>3. MirrorIsDense
  <2>1. 0 \in 0 .. MaxSeq /\ {} = 0 .. 0 - 1
    BY FeedAssumption
  <2> QED BY <1>1, <1>2, <2>1 DEF MirrorIsDense
<1>4. PubLinks /\ SinceIsHeld /\ WireFollows
  BY DEF Init, PubLinks, SinceIsHeld, WireFollows, PubIdle, TaskIdle
<1> QED BY <1>1, <1>2, <1>3, <1>4, InitLogInv DEF ChainInv, Links, NothingTorn, OwnIsChain

\* Every mirror verifies to its last entry.
LEMMA ChainVerifies ==
  ASSUME ChainInv, NEW n \in Nodes
  PROVE  ValidCount(mirror[n]) = EntryCount(mirror[n])
<1> DEFINE d == mirror[n]
<1>1. /\ d \in FeedDir /\ own \in FeedDir /\ \A i \in Whole(d) : own.entry[i] = d.entry[i]
      /\ OwnIsChain /\ OwnAtSeq /\ Readable(d)
      /\ \A i \in Whole(d) : d.blob[d.entry[i].content] = "whole"
  BY DEF ChainInv, Links, LogInv, TypeInv, TypeOK, MirrorAgrees, MirrorIsDense, NothingTorn, Sound
<1>2. PICK k \in 0 .. MaxSeq : Files(d) = 0 .. k - 1
  BY DEF ChainInv, Links, MirrorIsDense
<1>3. k \in Nat /\ Whole(d) = 0 .. k - 1
  BY <1>1, <1>2, FeedAssumption, ReadableEntries
<1> HIDE DEF d
<1>4. ASSUME NEW i \in 0 .. k - 1 PROVE Verifies(d, i)
  <2>1. i \in Whole(d) /\ i \in Nat /\ (i > 0 => i - 1 \in Whole(d))
    BY <1>3
  <2>2. own.entry[i] = d.entry[i] /\ i \in Whole(own)
    BY <1>1, <2>1 DEF Whole
  <2>3. d.entry[i].seq = i /\ Chained(d.entry[i])
    BY <1>1, <2>2 DEF OwnIsChain, OwnAtSeq
  <2>4. HashBefore(own, i) = HashBefore(d, i)
    BY <1>1, <2>1 DEF HashBefore
  <2> QED BY <1>1, <2>1, <2>3, <2>4 DEF Verifies, Chained
<1>5. k <= ValidCount(d)
  BY <1>2, <1>4, ValidIsLongest
<1>6. ValidCount(d) <= k
  <2>1. ValidCount(d) \in Nat /\ \A i \in 0 .. ValidCount(d) - 1 : i \in Whole(d)
    BY ValidPrefix, FeedAssumption DEF Verifies
  <2>2. ASSUME k < ValidCount(d) PROVE FALSE
    <3>1. k \in 0 .. ValidCount(d) - 1
      BY <1>3, <2>1, <2>2
    <3> QED BY <1>3, <2>1, <3>1
  <2> QED BY <1>3, <2>1, <2>2
<1>7. EntryCount(d) = k
  <2>1. k \in Int /\ 0 \in Int /\ k - 1 \in Int
    BY <1>3
  <2>2. Cardinality(0 .. k - 1) = k
    BY <1>3, <2>1, FS_Interval
  <2> QED BY <1>2, <2>2 DEF EntryCount
<1> QED BY <1>3, <1>5, <1>6, <1>7, ValidPrefix, FeedAssumption DEF d

\* What the source sends has no gap behind what the task asked from.
LEMMA SentHasNoGap ==
  ASSUME ChainInv, NEW src \in Nodes \union {Author}, NEW since \in Nat, NEW allow \in Nat,
         Readable(SourceDir(src)),
         NEW e \in FirstOf(Offer(src, since), allow), NEW j \in 0 .. e.seq - 1, since <= j
  PROVE  \E f \in FirstOf(Offer(src, since), allow) : f.seq = j
<1> DEFINE d == SourceDir(src)
           offer == Offer(src, since)
           before(x) == {g \in offer : g.seq < x.seq}
<1>1. /\ TypeOK /\ d \in FeedDir /\ own \in FeedDir /\ OwnAtSeq
      /\ offer \subseteq Entry /\ IsFiniteSet(offer) /\ Files(d) = Whole(d)
      /\ \A i \in Whole(d) : own.entry[i] = d.entry[i]
  BY SourceDirType, OfferType, ReadableEntries
     DEF ChainInv, LogInv, TypeInv, TypeOK, MirrorAgrees, SourceDir
<1>2. PICK k \in 0 .. MaxSeq : Files(d) = 0 .. k - 1
  BY DEF ChainInv, Links, LogInv, OwnIsDense, MirrorIsDense, SourceDir
<1>3. /\ e \in offer /\ Cardinality(before(e)) < allow /\ e \in Entries(d)
      /\ (src = Author \/ FullyHeld(d))
  BY DEF FirstOf, Offer
<1>4. \A i \in Files(d) : d.entry[i] \in Entry /\ d.entry[i].seq = i
  <2> SUFFICES ASSUME NEW i \in Files(d) PROVE d.entry[i] \in Entry /\ d.entry[i].seq = i
    OBVIOUS
  <2>1. i \in Whole(d) /\ own.entry[i] = d.entry[i] /\ d.entry[i] \in Entry
    BY <1>1 DEF Whole, FeedDir
  <2>2. i \in Whole(own)
    BY <2>1 DEF Whole
  <2> QED BY <1>1, <2>1, <2>2 DEF OwnAtSeq
<1>5. k \in Nat /\ e.seq \in 0 .. k - 1 /\ j \in Nat /\ j < e.seq /\ j \in Files(d)
  <2>1. PICK i \in Files(d) : e = d.entry[i]
    BY <1>3 DEF Entries
  <2>2. e.seq \in 0 .. k - 1 /\ k \in Nat
    BY <1>2, <1>4, <2>1, FeedAssumption
  <2> QED BY <1>2, <2>2
<1>6. PICK f : f = d.entry[j] /\ f.seq = j /\ f \in Entries(d)
  BY <1>4, <1>5 DEF Entries
<1>7. f \in offer
  BY <1>3, <1>5, <1>6 DEF Offer
<1>8. before(f) \subseteq before(e) /\ IsFiniteSet(before(e))
  <2>1. ASSUME NEW g \in before(f) PROVE g \in before(e)
    <3>1. g \in offer /\ g.seq < j /\ g.seq \in Nat
      BY <1>1, <1>6, FeedAssumption DEF Entry, Seqs
    <3> HIDE DEF offer
    <3> QED BY <1>5, <3>1
  <2>2. before(e) \subseteq offer
    OBVIOUS
  <2> HIDE DEF before, offer
  <2> QED BY <1>1, <2>1, <2>2, FS_Subset
<1>9. Cardinality(before(f)) < allow
  <2> HIDE DEF before, offer, d
  <2>1. Cardinality(before(f)) <= Cardinality(before(e)) /\ IsFiniteSet(before(f))
    BY <1>8, FS_Subset
  <2>2. Cardinality(before(f)) \in Nat /\ Cardinality(before(e)) \in Nat
    BY <1>8, <2>1, FS_CardinalityType
  <2> QED BY <1>3, <2>1, <2>2
<1> QED BY <1>6, <1>7, <1>9 DEF FirstOf

\* A step of the publisher keeps the links.
LEMMA PublisherKeepsLinks ==
  ASSUME SingleWriter, NothingIsLost, ChainInv, LogInv', NEW p \in Publishers, PublisherStep(p)
  PROVE  Links'
<1>t. /\ own \in FeedDir /\ own' \in FeedDir /\ pub \in [Publishers -> PubState]
      /\ mirror' = mirror /\ task' = task /\ torn \in 0 .. 0 /\ MaxTorn = 0
      /\ \A q \in Publishers : pub[q].pc # "idle" => pub[q].content \in Content
  BY DEF ChainInv, LogInv, TypeInv, TypeOK, PubCarries, NothingIsLost, PublisherStep, Publish,
         WriteOwnBlob, SignEntry, WriteOwnEntry, PublishFails, TearOwnWrite
<1>l. /\ Sound(own) /\ \A n \in Nodes : Sound(mirror[n])
      /\ OwnIsChain /\ PubLinks /\ MirrorIsDense /\ SinceIsHeld /\ WireFollows
  BY DEF ChainInv, Links, NothingTorn
<1>m. MirrorIsDense' /\ SinceIsHeld' /\ WireFollows'
  BY <1>t, <1>l DEF MirrorIsDense, SinceIsHeld, WireFollows
<1>o. ASSUME NEW q \in Publishers PROVE q = p
  BY DEF SingleWriter
\* What does not touch the author's entries keeps their chain.
<1>e. ASSUME own'.entry = own.entry, \A c \in Content : own'.blob[c] # "torn", PubLinks'
      PROVE  Links'
  <2>1. Whole(own)' = Whole(own) /\ \A x : Chained(x)' <=> Chained(x)
    BY <1>e DEF Whole, Chained, HashBefore
  <2>2. Sound(own)'
    BY <1>e, <1>l DEF Sound, Readable
  <2> QED BY <1>e, <1>l, <1>m, <1>t, <2>1, <2>2 DEF Links, NothingTorn, OwnIsChain
<1>1. CASE Publish(p)
  <2>1. PICK c \in Content, x \in Files(own) \union {NoSeq} :
          pub' = [pub EXCEPT ![p] = [PubIdle EXCEPT !.pc = "blob", !.content = c, !.supersedes = x]]
    BY <1>1 DEF Publish
  <2>2. own' = own /\ pub'[p].pc = "blob" /\ pub'[p].supersedes = x
    BY <1>1, <1>t, <2>1 DEF Publish, PubIdle
  <2>3. PubLinks'
    BY <1>o, <2>2 DEF PubLinks
  <2> QED BY <1>e, <1>l, <2>2, <2>3 DEF Sound
<1>2. CASE WriteOwnBlob(p)
  <2>1. own' = WithBlob(own, pub[p].content, "whole") /\ pub[p].content \in Content /\ pub[p].pc = "blob"
    BY <1>2, <1>t DEF WriteOwnBlob
  <2>2. own'.entry = own.entry
    BY <1>t, <2>1, WithBlobType DEF BlobState
  <2>3. \A c \in Content : own'.blob[c] # "torn"
    BY <1>l, <1>t, <2>1 DEF WithBlob, FeedDir, Sound
  <2>4. pub'[p].pc = "link" /\ pub'[p].supersedes = pub[p].supersedes
    BY <1>2, <1>t DEF WriteOwnBlob, PubState
  <2>5. pub'[p].supersedes \in Files(own)' \union {NoSeq}
    BY <1>l, <2>1, <2>2, <2>4 DEF PubLinks, Files
  <2>6. PubLinks'
    BY <1>o, <2>4, <2>5 DEF PubLinks
  <2> QED BY <1>e, <2>2, <2>3, <2>6
<1>3. CASE SignEntry(p)
  <2> DEFINE signedNow == [id |-> Len(signed) + 1, seq |-> NextSeq(own), content |-> pub[p].content,
                           day |-> today, size |-> Size[pub[p].content], prev |-> LastHash(own),
                           supersedes |-> pub[p].supersedes]
  <2>1. PICK e : e = signedNow
    OBVIOUS
  <2>2. e.seq = NextSeq(own) /\ e.prev = LastHash(own) /\ e.supersedes = pub[p].supersedes
    BY <2>1
  <2>3. pub' = [pub EXCEPT ![p] = [@ EXCEPT !.pc = "write", !.entry = signedNow]]
    BY <1>3 DEF SignEntry
  <2> HIDE DEF signedNow
  <2>4. own' = own /\ pub'[p].pc = "write" /\ pub'[p].entry = e /\ pub[p].pc = "link"
    BY <1>3, <1>t, <2>1, <2>3 DEF SignEntry, PubState
  <2>5. PICK k \in 0 .. MaxSeq : k = NextSeq(own) /\ Files(own) = 0 .. k - 1
    BY NextSeqIsFree DEF ChainInv, LogInv
  <2>6. k \in Nat /\ Files(own) \subseteq 0 .. MaxSeq /\ MaxSeq \in Nat
    BY <2>5, FeedAssumption
  <2>7. LastHash(own) = HashBefore(own, k)
    <3>1. CASE k = 0
      BY <2>5, <3>1 DEF LastHash, HashBefore
    <3>2. CASE k # 0
      <4>1. k - 1 \in Files(own) /\ Files(own) # {}
        BY <2>5, <2>6, <3>2
      <4>2. Max(Files(own)) \in Files(own) /\ k - 1 <= Max(Files(own))
        BY <2>6, <4>1, GreatestNatural
      <4>3. Max(Files(own)) = k - 1
        BY <2>5, <2>6, <4>2
      <4> QED BY <3>2, <4>1, <4>3 DEF LastHash, HashBefore
    <3> QED BY <3>1, <3>2
  <2>8. e.supersedes \in {NoSeq} \union 0 .. k - 1
    BY <1>l, <2>2, <2>4, <2>5 DEF PubLinks
  <2>9. Chained(e)'
    BY <2>2, <2>4, <2>5, <2>7, <2>8 DEF Chained
  <2>10. PubLinks'
    BY <1>o, <2>4, <2>9 DEF PubLinks
  <2> QED BY <1>e, <1>l, <2>4, <2>10 DEF Sound
<1>4. CASE WriteOwnEntry(p)
  <2>1. PICK e \in Entry, k \in Seqs :
          /\ e = pub[p].entry /\ e.seq = k /\ own.entry[k] = NoFile /\ Files(own) = 0 .. k - 1
          /\ pub[p].pc = "write" /\ own' = WithEntry(own, e) /\ Chained(e)
    BY <1>4, <1>l, WriteIsFree DEF WriteOwnEntry, ChainInv, LogInv, PubIsNext, PubLinks
  <2>2. /\ k \in Nat
        /\ own' = [own EXCEPT !.entry = [own.entry EXCEPT ![k] = e]]
        /\ \A i \in Seqs : own'.entry[i] = IF i = k THEN e ELSE own.entry[i]
    BY <1>t, <2>1, FeedAssumption, WithEntryType DEF Seqs, WithEntry, FeedDir
  <2>3. Sound(own)'
    BY <1>l, <1>t, <2>2, SentinelAssumption DEF Sound, Readable, FeedDir
  <2>4. ASSUME NEW i \in 0 .. k PROVE HashBefore(own', i) = HashBefore(own, i)
    <3>1. i = 0 \/ (i - 1 \in Seqs /\ i - 1 # k)
      BY <2>1, <2>2, FeedAssumption DEF Seqs
    <3> QED BY <2>2, <3>1 DEF HashBefore
  <2>5. OwnIsChain'
    <3> SUFFICES ASSUME NEW i \in Whole(own')
                 PROVE  /\ own'.entry[i].prev = HashBefore(own', own'.entry[i].seq)
                        /\ own'.entry[i].supersedes \in {NoSeq} \union 0 .. own'.entry[i].seq - 1
      BY DEF OwnIsChain, Chained
    <3>1. CASE i = k
      <4>1. own'.entry[i] = e /\ k \in 0 .. k
        BY <2>1, <2>2, <3>1
      <4> QED BY <2>1, <2>4, <4>1 DEF Chained
    <3>2. CASE i # k
      <4>1. i \in Whole(own) /\ own'.entry[i] = own.entry[i]
        BY <2>2, <3>2 DEF Whole
      <4>2. own.entry[i].seq = i /\ Chained(own.entry[i])
        BY <1>l, <4>1 DEF OwnIsChain, ChainInv, LogInv, OwnAtSeq
      <4>3. i \in 0 .. k
        BY <2>1, <2>2, <4>1 DEF Whole, Files
      <4> QED BY <2>4, <4>1, <4>2, <4>3 DEF Chained
    <3> QED BY <3>1, <3>2
  <2>6. pub'[p].pc = "idle"
    BY <1>4, <1>t DEF WriteOwnEntry, PubIdle
  <2>7. PubLinks'
    BY <1>o, <2>6 DEF PubLinks
  <2> QED BY <1>l, <1>m, <1>t, <2>3, <2>5, <2>7 DEF Links, NothingTorn
<1>5. CASE PublishFails(p)
  <2>1. own' = own /\ pub'[p].pc = "idle"
    BY <1>5, <1>t DEF PublishFails, PubIdle
  <2>2. PubLinks'
    BY <1>o, <2>1 DEF PubLinks
  <2> QED BY <1>e, <1>l, <2>1, <2>2 DEF Sound
<1>6. CASE TearOwnWrite(p)
  BY <1>6, <1>t DEF TearOwnWrite
<1> QED BY <1>1, <1>2, <1>3, <1>4, <1>5, <1>6 DEF PublisherStep

\* A received entry goes to the first free position, or to one that is taken.
LEMMA ReceivedIsNext ==
  ASSUME ChainInv, NEW t \in Tasks, NEW r \in task[t].wire,
         \A x \in task[t].wire : r.entry.seq <= x.entry.seq,
         NEW d, d = Received(mirror[Home[t]], r.entry, r.bytes)
  PROVE  /\ Sound(d)
         /\ \E k \in 0 .. MaxSeq : Files(d) = 0 .. k - 1
         /\ \A i \in Whole(d) : d.blob[d.entry[i].content] = "whole"
         /\ Files(mirror[Home[t]]) \subseteq Files(d) /\ r.entry.seq \in Files(d)
<1>1. PICK c \in FeedDir, e \in Entry :
        /\ c = mirror[Home[t]] /\ e = r.entry /\ r.bytes = "whole" /\ d = Received(c, e, "whole")
        /\ Sound(c) /\ \A i \in Whole(c) : c.blob[c.entry[i].content] = "whole"
  BY FeedSyncAssumption DEF ChainInv, Links, NothingTorn, MirrorIsDense, WireFollows, LogInv, TypeInv, TypeOK,
     TaskState, Wire
<1>2. PICK k \in 0 .. MaxSeq : Files(c) = 0 .. k - 1
  BY <1>1, FeedSyncAssumption DEF ChainInv, Links, MirrorIsDense
<1>3. e.seq \in Seqs /\ e.seq \in Nat /\ e.seq + 1 \in 0 .. MaxSeq /\ e.content \in Content /\ k \in Nat
  BY FeedAssumption DEF Entry, Seqs
<1>4. 0 .. e.seq - 1 \subseteq Files(c)
  <2> SUFFICES ASSUME NEW j \in 0 .. e.seq - 1, j \notin Files(c) PROVE FALSE
    OBVIOUS
  <2>1. PICK x \in task[t].wire : x.entry.seq = j
    BY <1>1 DEF ChainInv, Links, WireFollows
  <2>2. e.seq <= j
    BY <1>1, <2>1
  <2> QED BY <1>3, <2>2
<1>5. PICK b \in FeedDir : b = WithBlob(c, e.content, "whole") /\ b.entry = c.entry
  BY <1>3, WithBlobType DEF BlobState
<1>6. /\ \A x \in Content : b.blob[x] # "torn" /\ (c.blob[x] = "whole" => b.blob[x] = "whole")
      /\ b.blob[e.content] = "whole"
  BY <1>1, <1>3, <1>5 DEF WithBlob, FeedDir, Sound, BlobState
<1>7. \A i \in Whole(c) : c.entry[i].content \in Content
  BY DEF Whole, FeedDir, Entry
<1>8. CASE c.entry[e.seq] # NoFile
  <2>1. d = b
    BY <1>1, <1>5, <1>8 DEF Received
  <2>2. Files(d) = Files(c) /\ Whole(d) = Whole(c) /\ e.seq \in Files(d)
    BY <1>3, <1>5, <1>8, <2>1 DEF Files, Whole
  <2>3. Sound(d)
    BY <1>1, <1>5, <1>6, <2>1 DEF Sound, Readable
  <2>4. \A i \in Whole(d) : d.blob[d.entry[i].content] = "whole"
    BY <1>1, <1>5, <1>6, <1>7, <2>1, <2>2
  <2> QED BY <1>1, <1>2, <2>2, <2>3, <2>4
<1>9. CASE c.entry[e.seq] = NoFile
  <2>1. d = WithEntry(b, e)
    BY <1>1, <1>5, <1>9 DEF Received
  <2>2. /\ d.blob = b.blob
        /\ \A i \in Seqs : d.entry[i] = IF i = e.seq THEN e ELSE c.entry[i]
    BY <1>3, <1>5, <2>1 DEF WithEntry, FeedDir
  <2>3. e.seq \notin Files(c)
    BY <1>9 DEF Files
  <2>4. e.seq = k
    <3>1. PICK m \in Nat : m = e.seq
      BY <1>3
    <3>2. m >= k
      BY <1>2, <1>3, <2>3, <3>1
    <3>3. ~ (m > k)
      <4>1. ASSUME m > k PROVE FALSE
        <5>1. k \in 0 .. m - 1 /\ k \notin 0 .. k - 1
          BY <1>3, <4>1
        <5> QED BY <1>2, <1>4, <3>1, <5>1
      <4> QED BY <4>1
    <3> QED BY <1>3, <3>1, <3>2, <3>3
  <2>5. Files(d) = Files(c) \union {e.seq}
    BY <1>3, <2>2, SentinelAssumption DEF Files
  <2>6. Files(d) = 0 .. (e.seq + 1) - 1
    BY <1>2, <1>3, <2>4, <2>5
  <2>7. Sound(d)
    BY <1>1, <1>6, <2>2, SentinelAssumption DEF Sound, Readable
  <2>8. ASSUME NEW i \in Whole(d) PROVE d.blob[d.entry[i].content] = "whole"
    <3>1. CASE i = e.seq
      BY <1>3, <1>6, <2>2, <3>1
    <3>2. CASE i # e.seq
      <4>1. i \in Whole(c) /\ d.entry[i] = c.entry[i]
        BY <2>2, <3>2 DEF Whole
      <4> QED BY <1>1, <1>6, <1>7, <2>2, <4>1
    <3> QED BY <3>1, <3>2
  <2> QED BY <1>1, <1>3, <2>5, <2>6, <2>7, <2>8
<1> QED BY <1>8, <1>9

\* A step of a sync keeps the links.
LEMMA TaskKeepsLinks ==
  ASSUME NothingIsLost, ChainInv, NEW t \in Tasks, TaskStep(t)
  PROVE  Links'
<1>t. /\ mirror \in [Nodes -> FeedDir] /\ task \in [Tasks -> TaskState] /\ \A u \in Tasks : Home[u] \in Nodes
      /\ own' = own /\ pub' = pub /\ torn \in 0 .. 0 /\ MaxTorn = 0
  BY FeedSyncAssumption DEF ChainInv, LogInv, TypeInv, TypeOK, NothingIsLost, TaskStep, StartSync, AnswerMeta,
     AnswerFeed, StoreReceived, FinishDirect, FinishThirdParty, SyncFails, TearReceivedWrite
<1>l. /\ Sound(own) /\ \A n \in Nodes : Sound(mirror[n])
      /\ OwnIsChain /\ PubLinks /\ MirrorIsDense /\ SinceIsHeld /\ WireFollows
  BY DEF ChainInv, Links, NothingTorn
<1>o. Sound(own)' /\ OwnIsChain' /\ PubLinks'
  BY <1>l, <1>t DEF Sound, Readable, OwnIsChain, Chained, PubLinks
\* What leaves the files of the mirrors alone.
<1>f. ASSUME \A n \in Nodes : /\ Sound(mirror'[n]) /\ Files(mirror'[n]) = Files(mirror[n])
                              /\ \A i \in Whole(mirror'[n]) : mirror'[n].blob[mirror'[n].entry[i].content] = "whole",
             \A u \in Tasks : task'[u].wire \in {task[u].wire, {}},
             \A u \in Tasks : task'[u].pc # "idle" => 0 .. task'[u].since - 1 \subseteq Files(mirror[Home[u]])
      PROVE  Links'
  <2>1. MirrorIsDense'
    BY <1>f, <1>l DEF MirrorIsDense
  <2>2. SinceIsHeld'
    BY <1>f, <1>t DEF SinceIsHeld
  <2>3. WireFollows'
    BY <1>f, <1>l, <1>t DEF WireFollows
  <2> QED BY <1>f, <1>o, <2>1, <2>2, <2>3 DEF Links, NothingTorn
<1>m. ASSUME mirror' = mirror
      PROVE  \A n \in Nodes : /\ Sound(mirror'[n]) /\ Files(mirror'[n]) = Files(mirror[n])
                             /\ \A i \in Whole(mirror'[n]) : mirror'[n].blob[mirror'[n].entry[i].content] = "whole"
  BY <1>l, <1>m DEF MirrorIsDense
<1>1. ASSUME NEW src \in Nodes \union {Author}, StartSync(t, src) PROVE Links'
  <2>1. \A u \in Tasks : task'[u].wire \in {task[u].wire, {}}
    BY <1>1, <1>t DEF StartSync, TaskIdle
  <2>2. task'[t].since = EntryCount(mirror[Home[t]]) /\ \A u \in Tasks : u # t => task'[u] = task[u]
    BY <1>1, <1>t DEF StartSync, TaskIdle
  <2>3. PICK k \in 0 .. MaxSeq : Files(mirror[Home[t]]) = 0 .. k - 1
    BY <1>l, <1>t DEF MirrorIsDense
  <2>4. EntryCount(mirror[Home[t]]) = k
    <3>1. k \in Nat /\ 0 \in Int /\ k - 1 \in Int
      BY <2>3, FeedAssumption
    <3>2. Cardinality(0 .. k - 1) = k
      BY <3>1, FS_Interval
    <3> QED BY <2>3, <3>2 DEF EntryCount
  <2>5. \A u \in Tasks : task'[u].pc # "idle" => 0 .. task'[u].since - 1 \subseteq Files(mirror[Home[u]])
    BY <1>l, <2>2, <2>3, <2>4 DEF SinceIsHeld
  <2>6. mirror' = mirror
    BY <1>1 DEF StartSync
  <2> QED BY <1>f, <1>m, <2>1, <2>5, <2>6
<1>2. CASE AnswerMeta(t)
  <2>1. \A u \in Tasks : task'[u].wire \in {task[u].wire, {}}
    BY <1>2, <1>t DEF AnswerMeta, TaskIdle, TaskState
  <2>2. \A u \in Tasks : task'[u].pc # "idle" => task[u].pc # "idle" /\ task'[u].since = task[u].since
    BY <1>2, <1>t DEF AnswerMeta, TaskIdle, TaskState
  <2>3. mirror' = mirror
    BY <1>2 DEF AnswerMeta
  <2> QED BY <1>f, <1>l, <1>m, <2>1, <2>2, <2>3 DEF SinceIsHeld
<1>3. CASE AnswerFeed(t)
  <2> DEFINE d == SourceDir(task[t].source)
             sent == FirstOf(Offer(task[t].source, task[t].since), task[t].allow)
             wire == {[entry |-> e, bytes |-> d.blob[e.content]] : e \in sent}
  <2>1. task' = [task EXCEPT ![t] =
                    IF sent = {} /\ @.source # Author THEN TaskIdle
                    ELSE [@ EXCEPT !.pc = "store", !.fresh = sent # {}, !.allow = 0, !.wire = wire]]
    BY <1>3 DEF AnswerFeed
  <2>2. /\ mirror' = mirror /\ task[t].pc = "feed" /\ task[t].source \in Nodes \union {Author}
        /\ task[t].since \in Nat /\ task[t].allow \in Nat /\ Readable(d)
        /\ \A e \in sent : d.blob[e.content] # "absent"
    BY <1>3, <1>t DEF AnswerFeed, TaskState
  <2>3. sent \subseteq Entry /\ Sound(d) /\ d \in FeedDir
    <3>1. TypeOK
      BY DEF ChainInv, LogInv, TypeInv
    <3>2. d \in FeedDir /\ Sound(d)
      BY <1>l, <2>2, <3>1, SourceDirType DEF SourceDir
    <3>3. Offer(task[t].source, task[t].since) \subseteq Entry
      BY <2>2, <3>1, OfferType
    <3> QED BY <3>2, <3>3 DEF FirstOf
  <2>4. \A r \in wire : r.bytes = "whole" /\ r.entry \in sent
    <3>1. ASSUME NEW e \in sent PROVE d.blob[e.content] = "whole"
      <4>1. e.content \in Content
        BY <2>3 DEF Entry
      <4>2. d.blob[e.content] \in BlobState
        BY <2>3, <4>1 DEF FeedDir
      <4> HIDE DEF d, sent
      <4> QED BY <2>2, <2>3, <4>1, <4>2 DEF Sound, BlobState
    <3> HIDE DEF d, sent
    <3> QED BY <3>1
  <2>5. \A e \in sent : \A j \in 0 .. e.seq - 1 :
           j \in Files(mirror[Home[t]]) \/ \E r \in wire : r.entry.seq = j
    <3> SUFFICES ASSUME NEW e \in sent, NEW j \in 0 .. e.seq - 1
                 PROVE  j \in Files(mirror[Home[t]]) \/ \E r \in wire : r.entry.seq = j
      OBVIOUS
    <3>1. CASE task[t].since <= j
      <4>1. PICK f \in sent : f.seq = j
        BY <2>2, <3>1, SentHasNoGap
      <4>2. [entry |-> f, bytes |-> d.blob[f.content]] \in wire
        OBVIOUS
      <4>3. [entry |-> f, bytes |-> d.blob[f.content]].entry.seq = j
        BY <4>1
      <4> HIDE DEF wire
      <4> QED BY <4>2, <4>3
    <3>2. CASE ~ (task[t].since <= j)
      <4>1. e.seq \in Nat
        BY <2>3, FeedAssumption DEF Entry, Seqs
      <4>2. j \in 0 .. task[t].since - 1
        BY <2>2, <3>2, <4>1
      <4> QED BY <1>l, <2>2, <4>2 DEF SinceIsHeld
    <3> QED BY <3>1, <3>2
  <2> HIDE DEF d, sent, wire
  <2>6. \A u \in Tasks : /\ u # t => task'[u] = task[u]
                         /\ task'[t].wire \in {wire, {}}
                         /\ task'[t].pc # "idle" => task'[t].since = task[t].since
    BY <1>t, <2>1 DEF TaskIdle, TaskState
  <2>7. WireFollows'
    <3> SUFFICES ASSUME NEW u \in Tasks, NEW r \in task'[u].wire
                 PROVE  /\ r.bytes = "whole"
                        /\ \A j \in 0 .. r.entry.seq - 1 :
                              j \in Files(mirror[Home[u]]) \/ \E x \in task'[u].wire : x.entry.seq = j
      BY <2>2 DEF WireFollows
    <3>1. CASE u = t
      <4>1. task'[t].wire = wire
        BY <2>6, <3>1
      <4> QED BY <2>4, <2>5, <3>1, <4>1
    <3>2. CASE u # t
      BY <1>l, <2>6, <3>2 DEF WireFollows
    <3> QED BY <3>1, <3>2
  <2>8. SinceIsHeld'
    BY <1>l, <2>2, <2>6 DEF SinceIsHeld
  <2>9. MirrorIsDense' /\ \A n \in Nodes : Sound(mirror'[n])
    BY <1>l, <2>2 DEF MirrorIsDense
  <2> QED BY <1>o, <2>7, <2>8, <2>9 DEF Links, NothingTorn
<1>4. CASE StoreReceived(t)
  <2>1. PICK r \in task[t].wire :
          /\ \A x \in task[t].wire : r.entry.seq <= x.entry.seq
          /\ mirror' = [mirror EXCEPT ![Home[t]] = Received(@, r.entry, r.bytes)]
          /\ task' = [task EXCEPT ![t].wire = @ \ {r}]
    BY <1>4 DEF StoreReceived, NextReceived
  <2>2. PICK d : d = Received(mirror[Home[t]], r.entry, r.bytes)
    OBVIOUS
  <2>3. /\ Sound(d) /\ \E k \in 0 .. MaxSeq : Files(d) = 0 .. k - 1
        /\ \A i \in Whole(d) : d.blob[d.entry[i].content] = "whole"
        /\ Files(mirror[Home[t]]) \subseteq Files(d) /\ r.entry.seq \in Files(d)
    BY <2>1, <2>2, ReceivedIsNext
  <2>4. \A n \in Nodes : mirror'[n] = IF n = Home[t] THEN d ELSE mirror[n]
    BY <1>t, <2>1, <2>2
  <2>5. \A n \in Nodes : Files(mirror[n]) \subseteq Files(mirror'[n])
    BY <2>3, <2>4
  <2>6. \A u \in Tasks : /\ task'[u].pc = task[u].pc /\ task'[u].since = task[u].since
                         /\ task'[u].wire = IF u = t THEN task[t].wire \ {r} ELSE task[u].wire
    BY <1>t, <2>1 DEF TaskState
  <2>7. MirrorIsDense' /\ \A n \in Nodes : Sound(mirror'[n])
    BY <1>l, <2>3, <2>4 DEF MirrorIsDense
  <2>8. SinceIsHeld'
    BY <1>l, <1>t, <2>5, <2>6 DEF SinceIsHeld
  <2>9. WireFollows'
    <3> SUFFICES ASSUME NEW u \in Tasks, NEW x \in task'[u].wire
                 PROVE  /\ x.bytes = "whole"
                        /\ \A j \in 0 .. x.entry.seq - 1 :
                              j \in Files(mirror'[Home[u]]) \/ \E y \in task'[u].wire : y.entry.seq = j
      BY DEF WireFollows
    <3>1. x \in task[u].wire /\ Home[u] \in Nodes
      BY <1>t, <2>6
    <3>2. x.bytes = "whole"
      BY <1>l, <3>1 DEF WireFollows
    <3>3. ASSUME NEW j \in 0 .. x.entry.seq - 1
          PROVE  j \in Files(mirror'[Home[u]]) \/ \E y \in task'[u].wire : y.entry.seq = j
      <4>1. CASE j \in Files(mirror[Home[u]])
        BY <2>5, <3>1, <4>1
      <4>2. CASE j \notin Files(mirror[Home[u]])
        <5>1. PICK y \in task[u].wire : y.entry.seq = j
          BY <1>l, <3>1, <4>2 DEF WireFollows
        <5>2. CASE y \in task'[u].wire
          BY <5>1, <5>2
        <5>3. CASE y \notin task'[u].wire
          <6>1. u = t /\ y = r
            BY <2>6, <5>3
          <6> QED BY <2>3, <2>4, <3>1, <5>1, <6>1
        <5> QED BY <5>2, <5>3
      <4> QED BY <4>1, <4>2
    <3> QED BY <3>2, <3>3
  <2> QED BY <1>o, <2>7, <2>8, <2>9 DEF Links, NothingTorn
<1>5. CASE FinishDirect(t)
  <2>1. \A u \in Tasks : task'[u].wire \in {task[u].wire, {}}
    BY <1>5, <1>t DEF FinishDirect, TaskIdle
  <2>2. \A u \in Tasks : task'[u].pc # "idle" => task[u].pc # "idle" /\ task'[u].since = task[u].since
    BY <1>5, <1>t DEF FinishDirect, TaskIdle
  <2>3. mirror' = mirror
    BY <1>5 DEF FinishDirect
  <2> QED BY <1>f, <1>l, <1>m, <2>1, <2>2, <2>3 DEF SinceIsHeld
<1>6. CASE FinishThirdParty(t)
  <2>1. \A u \in Tasks : task'[u].wire \in {task[u].wire, {}}
    BY <1>6, <1>t DEF FinishThirdParty, TaskIdle
  <2>2. \A u \in Tasks : task'[u].pc # "idle" => task[u].pc # "idle" /\ task'[u].since = task[u].since
    BY <1>6, <1>t DEF FinishThirdParty, TaskIdle
  <2>3. PICK d \in FeedDir : d = mirror[Home[t]] /\ ValidCount(d) = EntryCount(d) /\ EntryCount(d) \in Nat
    BY <1>t, ChainVerifies, FilesFinite
  <2>4. \A n \in Nodes : mirror'[n] = IF n = Home[t] /\ ValidCount(d) = 0 THEN EmptyDir ELSE mirror[n]
    BY <1>6, <1>t, <2>3 DEF FinishThirdParty
  <2>5. /\ Files(EmptyDir) = {} /\ Whole(EmptyDir) = {} /\ Sound(EmptyDir)
    BY EmptyDirType, SentinelAssumption DEF Files, Whole, Sound, Readable, EmptyDir
  <2>6. ValidCount(d) = 0 => Files(d) = {}
    BY <2>3, FilesFinite, FS_EmptySet DEF EntryCount
  <2>7. \A n \in Nodes : /\ Sound(mirror'[n]) /\ Files(mirror'[n]) = Files(mirror[n])
                         /\ \A i \in Whole(mirror'[n]) : mirror'[n].blob[mirror'[n].entry[i].content] = "whole"
    <3> SUFFICES ASSUME NEW n \in Nodes
                 PROVE  /\ Sound(mirror'[n]) /\ Files(mirror'[n]) = Files(mirror[n])
                        /\ \A i \in Whole(mirror'[n]) : mirror'[n].blob[mirror'[n].entry[i].content] = "whole"
      OBVIOUS
    <3>1. CASE n = Home[t] /\ ValidCount(d) = 0
      <4>1. mirror'[n] = EmptyDir /\ mirror[n] = d
        BY <2>3, <2>4, <3>1
      <4> QED BY <2>5, <2>6, <3>1, <4>1
    <3>2. CASE ~ (n = Home[t] /\ ValidCount(d) = 0)
      <4>1. mirror'[n] = mirror[n]
        BY <2>4, <3>2
      <4> QED BY <1>l, <4>1 DEF MirrorIsDense
    <3> QED BY <3>1, <3>2
  <2> QED BY <1>f, <1>l, <2>1, <2>2, <2>7 DEF SinceIsHeld
<1>7. CASE SyncFails(t)
  <2>1. \A u \in Tasks : task'[u].wire \in {task[u].wire, {}}
    BY <1>7, <1>t DEF SyncFails, TaskIdle
  <2>2. \A u \in Tasks : task'[u].pc # "idle" => task[u].pc # "idle" /\ task'[u].since = task[u].since
    BY <1>7, <1>t DEF SyncFails, TaskIdle
  <2>3. mirror' = mirror
    BY <1>7 DEF SyncFails
  <2> QED BY <1>f, <1>l, <1>m, <2>1, <2>2, <2>3 DEF SinceIsHeld
<1>8. CASE TearReceivedWrite(t)
  BY <1>8, <1>t DEF TearReceivedWrite
<1> QED BY <1>1, <1>2, <1>3, <1>4, <1>5, <1>6, <1>7, <1>8 DEF TaskStep

LEMMA NextKeepsChain ==
  ASSUME SingleWriter, NothingIsLost, ChainInv, [Next]_vars
  PROVE  ChainInv'
<1>1. LogInv'
  BY NextKeepsLog DEF ChainInv
<1>2. CASE \E p \in Publishers : PublisherStep(p)
  BY <1>1, <1>2, PublisherKeepsLinks DEF ChainInv
<1>3. CASE \E t \in Tasks : TaskStep(t)
  BY <1>1, <1>3, TaskKeepsLinks DEF ChainInv
<1>4. CASE \E n \in Nodes : Evict(n)
  BY <1>4 DEF Evict, NothingIsLost, ChainInv, LogInv, TypeInv, TypeOK
<1>5. CASE NextDay \/ UNCHANGED vars
  BY <1>1, <1>5 DEF NextDay, vars, ChainInv, Links, NothingTorn, Sound, Readable, OwnIsChain, Chained,
     PubLinks, MirrorIsDense, SinceIsHeld, WireFollows
<1> QED BY <1>2, <1>3, <1>4, <1>5 DEF Next

\* A feed that a node advertises verifies to its last entry, at every moment of the syncs
\* that fill it, directly or from one another and several at once: with one publisher, and
\* while nothing is torn or evicted.
THEOREM SingleWriterAdvertisesVerified ==
  ASSUME SingleWriter, NothingIsLost
  PROVE  Spec => []AdvertisedVerifies
<1>1. SingleWriter /\ NothingIsLost /\ ChainInv /\ [Next]_vars => ChainInv'
  BY NextKeepsChain
<1>2. ChainInv /\ [Next]_vars => ChainInv'
  BY <1>1
<1>3. ChainInv => AdvertisedVerifies
  BY ChainVerifies DEF AdvertisedVerifies
<1> QED BY <1>2, <1>3, InitChainInv, PTL DEF Spec
=============================================================================
