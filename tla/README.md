# roastmesh in TLA+

roastmesh is a peer-to-peer application with which coffee roasters share roast
files. Every user has a signed, append-only *feed* that other nodes mirror and
index; the paired devices of one user also mirror a private folder; a background
supervisor keeps a node serving while no window of the application is open. This
directory holds TLA+ models of those parts, TLC runs over small instances and
theorems checked by the TLA+ proof system. Paths such as `net.py` are under
`src/src/roastmesh/`.

    tlc -workers 2 -config MCFeedSync_mirror.cfg MCFeedSync     # a run
    tlapm DesktopProofs.tla                                     # a proof

`PROJECT.json` lists the components, the runs, one mutant of the code per
checked property, the source lines behind every definition, the hazards of this
code and the findings.

## 1. The system

A node is one process (`node serve`): an asyncio event loop with several tasks,
a few worker threads, and files on disk. There are no locks; what keeps state
consistent is that code between two `await`s is not interrupted by another task
of the loop, which says nothing of threads and of other processes.

| component | state | operations | talks to |
|---|---|---|---|
| feed log (`feed.py`, `quota.py`) | `entries/<seq>.json`, `blobs/<sha256>.alog`, one directory for the own feed and one per mirrored feed | append, write a received entry, read, verify, holding digest, quota | everyone below |
| publishing (`watch_folder.py`, `index/ingest.py`, `cli.py`) | none of its own | watch-folder pass, edit delivered for a device, `feed publish` | feed log, index |
| feed sync (`net.py`) | mirrors, the tasks' local variables, `peers.json` | answer `get_feed`, `get_feed_meta`, `get_peers`, `get_held_feeds`; direct sync; third-party pull; ingest | other nodes over QUIC streams |
| replication (`replication.py`, `net.py`) | tables `known_feeds`, `feed_holders` | plan what to keep, evict, acquire; cap the tables | mirrors, index |
| device sync (`device_sync.py`, `net.py`, `devices.py`) | private folder, `.roastmesh_sync_state.json` (manifest, staged edits), trusted devices | scan, reconcile, pull, push, serve requests, stage and deliver cross-device edits | paired devices |
| pairing (`pairing.py`) | trusted devices | the two-sided exchange with a short string to compare | a device on the LAN |
| discovery (`lan_discovery.py`, `wan_discovery.py`, `hello.py`, `bootstrap.py`, `peers.py`) | `peers.json`, debounce tables | LAN beacons, DHT announces and lookups, hole-punch bursts, hellos | DHT, feed sync |
| DHT (`dht.py`) | routing table, peer store, token secrets, votes on the own address, rate limits | ping, find_node, get_peers, announce_peer, iterative search | UDP |
| port mapping (`port_mapping.py`, `upnp.py`, `gateway.py`, `interfaces.py`) | leases | map, renew, unmap | the router |
| search index (`index/`) | an SQLite database | ingest, search, likes, stubs | everyone on the node |
| background supervisor (`background.py`) | `background.json`, its child | run, stop and restart a node, yield to a window | window, autostart |
| windows (`gui/app.py`, `gui/single_instance.py`, `gui/runner.py`) | the single-instance port, the serving task | launch, start and stop serving, close | supervisor, node |
| the rest (`identity.py`, `profile.py`, `machines.py`, `alog/`, `formats/`, `updater.py`, `autostart.py`, most of `gui/` and `cli.py`) | files and widgets | parsing, display, download | |

### Interactions and what makes them hard

* **Feed log.** The own feed is appended to from a thread (watch folder), from
  the event loop (delivered edits) and from other processes (the command line),
  each as read all, compute `seq`, write. A mirror is filled by any number of
  sync tasks and emptied by the replication thread. A file write can be cut
  short. *Correct when* the log is never rewritten, a mirror only ever holds
  the author's entries, what a node advertises verifies, failures do not lose
  verified entries, and a node that keeps syncing catches up.
* **Device sync.** Decisions are taken on two manifests of one moment and
  carried out file by file over many awaits, while the user, the watch loop and
  other sessions change the same folder and the same state file; tombstones
  carry deletions. *Correct when* newer beats older and all devices end up
  equal.
* **Supervisor and windows.** Two processes agree, through a port and a file
  that neither locks, who runs the one node; either may be killed. *Correct
  when* the node of the supervisor is always announced, it yields, it resumes,
  and there is only one node.
* **Replication.** Each node decides alone, on old claims of who holds what,
  what to throw away. *Correct when* pinned feeds stay, the budget holds, and
  the last copy of a feed is the last to go.
* **Cross-device edits, pairing.** Messages that can be lost between two updates
  of persistent state on two devices. *Correct when* an edit is neither lost
  nor published twice, and trust ends up mutual or absent.
* **Discovery, DHT.** Lossy datagrams, retries, debounce windows, tables at
  their limits. *Correct when* searches end, limits hold, two nodes that can
  reach each other end up connected, and quiet networks stay quiet.

* **Search index.** One row per content, written by ingestion from many
  directions, by edits and by rebuilds, in any order. *Correct when* a row's
  position names the entry with its bytes and a search shows the latest version.
* **Profiles, windows, updates.** Files replaced while others read them,
  processes that end between two steps. *Correct when* what the user entered
  arrives, and the program on disk still runs.

`PROJECT.json` lists these as *hazards*, each at its line, with the properties
that would catch it going wrong, or the reason none does.

## 2. Plan and state of it

| part | modules | composed in | state |
|---|---|---|---|
| feeds | `Feed`, `Quota`, `FeedSync`, abstract: `AppendOnlyFeed` | `MCFeedSync` | modelled, checked; safety and refinement proved |
| replication | `Retention` | `MCRetention` | modelled, checked; safety proved |
| device sync | `DeviceSync` | `MCDeviceSync` | modelled, checked; safety proved for one session at a time |
| roasts | `Index`, `NearDuplicates`; `Pairing`, extended by `CrossEdits` | `MCRoasts` | modelled, checked; safety of all but `NearDuplicates` proved |
| DHT lookup | `Search` | `MCSearch` | modelled, checked; safety proved |
| DHT node | `RoutingTable`, `DhtAnswers`, `WanRound`, `Limits` | `MCDhtNode` | modelled, checked; safety proved |
| discovery | `Hellos`, `Beacons`, `PeerBook`, `PortMapping` | `MCDiscovery` | modelled, checked; safety of all but `Beacons` proved |
| desktop | `Supervisor`, `DetailWindow`, `Update`, `Profiles` | `MCDesktop` | modelled, checked; safety proved |

The parts of `MCRoasts`, `MCDhtNode`, `MCDiscovery` and `MCDesktop` share no
state, and the code of one does not look at that of another. Each of these
modules chooses at the start which part moves (`part`), so that one run checks
them one after the other and not their product.

Every safety property a passing run checks is proved, with the assumptions
section 6 names; what `NearDuplicates` computes and all liveness stay with TLC. No module declares a RECURSIVE
operator: sums, folds and walks are `MapThenSumSet`, `FoldLeft` and recursive
functions, the last of which a proof can reason about.

## 3. What is modelled

### Feed, Quota, FeedSync, AppendOnlyFeed

`Feed` is a feed directory: `entry[i]` is the file `entries/<i>.json` and
`blob[c]` what is stored under the hash of content `c`. `Torn` is a file whose
writer was killed half way; reading a torn entry raises in the code, so every
action that reads a directory is guarded by `Readable`. A blob that is torn has
another hash, which only `verify_feed` notices (`Verifies`); `FullyHeld` is the
cheap stat-only test by which a node advertises a mirror. `Quota` is
`check_feed_metadata`. Signatures and the two genesis anchors are not modelled:
every entry was signed by the author, since nothing else verifies.

`FeedSync` has one author and the nodes that mirror its feed.

| action | code |
|---|---|
| `Publish`, `WriteOwnBlob`, `SignEntry`, `WriteOwnEntry` | `append_entry` and its callers, between any two file operations, as publishers run in threads and processes |
| `StartSync`, `AnswerMeta`, `AnswerFeed` | `sync_with_peer` (source `Author`) and `_pull_third_party_feed`, up to each answer, with the server's `_build_response` |
| `StoreReceived` | `write_received_entry`, one entry per step, as the replication thread may run in between |
| `FinishDirect`, `FinishThirdParty` | verify, `_index_is_behind_mirror`, `ingest_feed`; for a third-party pull also `_truncate_mirror_to` and the removal of an empty mirror |
| `Evict` | `_evict_feed_to_stub` in the thread of `_replication_loop` |
| `PublishFails`, `SyncFails`, `TearOwnWrite`, `TearReceivedWrite` | exceptions, lost connections, kills |

The index is the set of contents it holds; parsing a roast at ingest always
succeeds. A watch-folder pass takes its list of known contents when a call
starts. `AppendOnlyFeed` is what a feed promises: a log that grows at its end
and peers that hold verified prefixes of it. `FeedSync` implements it, with
`log <- ` the author's gapless run of entries and `held[n] <- ` the verified
prefix of n's mirror, if there is one publisher.

### DeviceSync

Each device has a folder (`disk`) and a manifest (`state`). A session is
`reconcile_with_device`: scan and save, ask for the other's manifest (which
scans and saves there), `reconcile`, then pulls and pushes file by file in path
order, each against the file *as it is by then*, and at the end the client saves
the manifest it started from. `Noticed`/`Scanned` are `scan_folder`, `Behind` is
`reconcile`'s rule, `LoseState` a state file that no longer parses, `Drop` a lost
connection, `DropHalfPut` a server killed between writing a pushed file and its
record. Every edit writes new bytes, so contents are numbered by edits; stamps
come from one clock. `WatcherIsPrompt` says that a user's edit is scanned before
anything else happens, `EditsDuringSync` that users edit while sessions run.

### Supervisor

`sup` is the local state of `run_forever` with one step per system call that
others can see (probe the port, terminate, rewrite the file, spawn, record);
`win` is a launch of the application from `main` to the end of its process;
`port` is the single-instance port, which the supervisor's own probe binds for a
moment; `file` is `background.json`. A node is its process id, and a file that
names a dead process reads as naming none. `Terminate` may fail, which the code does
not notice; writes of the file succeed. Times are not modelled: a window
polls `MaxWait` times and then starts anyway, as after the code's ten seconds.

### Search

`Search` is one lookup of `dht.py`: the sorted table of candidates of class
`Search` and the loop of `discover_and_announce_peers`, with a new client (empty
blacklist, nobody known). A node's id is its distance to the target. `Answers[a]`
is what address a may say to a `get_peers`; the filters of `_admit` are sets of
ids and addresses (`Impossible`, `Contested`, `Martian`), since BEP 42 and XOR
arithmetic only decide membership.

| action | code |
|---|---|
| `AskBootstrap`, `InsertSeed` | the bootstrap round and the cached seeds |
| `AskRound` | `nodes_to_query`, `mark_queried`, and the answers of the batch |
| `Nap`, `StopSearch` | the rest of the loop; a nap uses up a round |
| `TakeNothing`, `TakeSwapped`, `TakeBroken`, `TakeRefused`, `TakeAnswer` | the paths of `_ingest_reply`, with `insert` and `discard` |
| `TakeCandidate` | one candidate of an answer, in any order |
| `Announce` | the announcement to those of the first K that answered with a token |

The answers of a batch are taken one by one, each under the address its node has
by then, as `_query_and_ingest_nodes` reads `n.addr` again (`Readdressed`,
`Detached`). Time counts in naps: a batch in which somebody is silent takes
`Timeout` of them. The routing table, which a lookup also feeds, never feeds back
into the lookup and is left out.


### Retention

Every node publishes a feed and decides alone which others to keep. A sync is a
step here; `FeedSync` has the steps of one. `known` and `holders` are the tables
`known_feeds` and `feed_holders`, `indexed` and `onDisk` the rows of the index and
their `blob_local` flags.

| action | code |
|---|---|
| `Pass` | a pass of `_replication_loop`: load the ledger, `plan_retention` (`Plan`, its two loops over the ranked feeds), evict, `cap_known_feeds`, set the acquire list |
| `Sync` | `sync_with_peer` with the acquire list of the last pass, and `record_sync_replication` |
| `OpenStub` | the on-demand fetch of a feed of which only the rows are left |
| `Publish`, `Choose` | the user publishes, or makes somebody a favourite or a manual peer |

A feed that is held and behind is never asked for again, as the pass overwrites what
peers reported before it compares (`Candidates`); so `EventuallyHeld` claims all of
the feeds of authors a node can dial, and a beginning of the others (section 5).

Sorting by `_keep_rank` is described by its result: `Ranked` is the sequence of
the given feeds in which each comes before those it is rarer than. There is one
only, as distances are XORs with the own key and no two keys have the same.

### Index, NearDuplicates

`Index` is the tables `sources` and `roasts` of one node, joined one to one, with
everything that writes to them. A content is a number: a later one is newer. A
transaction is a step.

| action | code |
|---|---|
| `SaveFile` | Artisan saves into the watch folder |
| `IngestPath`, `Reindex`, `Refresh` | `ingest`, `reindex`, `refresh_known_sources`; the last two in any order, of names and of the database |
| `FeedPublish`, `WatchNew`, `WatchKnown` | `feed publish`, `publish_new_files` for a new and for a published file; the process may end between append and index |
| `PeerPublishes`, `SyncFeed`, `EvictFeed` | a peer's feed, its mirror and its ingestion (`ingest_feed`: `IngestedAll`, one entry after the other) |
| `IngestOwnFeed`, `ClaimOrphans`, `SetHidden` | `feed ingest` of the own log, `claim_orphaned_local_sources`, `hide` and `unhide` |
| `StartEdit`, `FinishEdit`, `EditPublished`, `ApplyDelivered` | `edit_roast_notes` of an unpublished roast in two steps, of a published one, and `apply_delivered_edit` |

`Latest` is `resolve_to_latest_roast_id`, a recursive function that walks the
chain, and `Shown` what a search with its defaults leaves. `NearDuplicates` has
`_collapse_near_duplicates` as the code's fold (`Collapsed`) and what it is to
compute (`CollapsedToNewest`: of each chain of rows within the window of one
another the newest, and every other row); `MCRoasts` compares the two for every
set of at most four rows of a small space, as an assumption TLC evaluates.

Two switches name what the code does not exclude and the properties do not
survive: `SharedBytes` (somebody publishes bytes somebody else published) and
`EditsRace` (publishing goes on while an unpublished roast is being edited).

### Pairing, CrossEdits

`Pairing` is both sides of `run_pairing`: five messages each, sent and received
in turn (`Send`, `Receive`), the user's answer in the third, and `Fail`, at either
side alone, at any point; `RemoveDevice` is `device remove`. `CrossEdits` extends
it. Its `Stage` is `device stage-edit`; `StartPush`, `Dial`, `Put`, `Acknowledge`,
`Lose` and `EndPush` are `push_staged_edits` from one await to the next, run by
the watch loop and by the command line at the same time; `Kill` ends a process
anywhere; `Apply` is the owner's watch loop with `apply_delivered_edit`, which may
be killed between the entry and the removal of the file. Whether a device is
trusted is looked at when it dials and not again.

An edit is addressed (`addr`) to a seq of the owner's feed, after which its files
are named: one that the editing device's index, which lags behind, has for a version of
the roast. The owner applies it if its own index has a row at that seq (`IsRow`), and
otherwise refuses it on every pass. Ingesting bytes again moves their row, so an edit
that was published twice leaves others addressed to where it was (section 5).
`EventuallyApplied` excepts an edit whose address has `Moved`. The entry and its
ingestion are one step; `feed ingest` of the own feed, and edits that set notes back to
an earlier text, are left out.

### RoutingTable, DhtAnswers, WanRound, Limits

`RoutingTable` is class `RoutingTable` with what decides who gets into it.
Buckets are the ids at which they start (`Firsts`); a node has the socket it is
at, its count of unanswered pings, and three answers to questions of time.
Actions are messages: `Query` and `Swap` (`_handle_message`, `_identity_ok`),
`Answer`, `FaultyAnswer`, `LateAnswer` (`_ingest_reply`, `bootstrap_ping`,
`_blacklist_and_purge`), `Adopt` (`adopt_node_id`), and time: `NotHeard`,
`NoAnswer`, `Idle`, `Uptime`. `NewNode` is `new_node` with its splits.

`DhtAnswers` is `TokenSecrets` and `PeerStore` with the handlers `GetPeers` and
`AnnouncePeer` (which stores nothing for a wrong token or without a valid port);
nothing but a query rotates secrets or expires announcements.

`WanRound` is a round of `run_wan_discovery`: `Top` (renew the mapping, vote,
adopt an id, decide whether to announce), `Vote` and `Silence` (answers to the
lookup), `Announce` or `NotAnnounced`, `Readback`, `Wake`; `BootstrapAdopts` is the
bootstrap loop, which also adopts, and `Change` an IP or a forwarded port that
changes. `Rotated`, `Winner` and `Current` are `IpVoter`.

`Limits` is `TokenBucket` and `SourceLimiter` as `_handle_message` asks them
(`Request`), with a clock (`Passes`) in which any number of requests share a tick.

### Hellos, Beacons, PeerBook, PortMapping

`Hellos`: `Meet` is `_maybe_hello` for an address a lookup gave, `Retry` a step of
`_hello_with_retries`, `Receive` the whole of `_on_foreign` (answer, gossip, push
of a new peer to those known), `HelloAgain` the end of a debounce, `Close` a NAT
that forgets; `Drop`, `Lose` and `Crash` are the faults.

`Beacons`: `Beacon` and `PairingBeacon` are the two senders on the one LAN port,
each received by everybody the datagram reaches; `HearAgain` is the end of the
resync interval; `Pair`, `Serve` and `Stop` come and go with their endpoints.

`PeerBook`: `Add`, `Sync` (the end of `sync_with_peer`: merge the list of the other
side, cap it, then the peer itself), `Prune`, `Day`.

`PortMapping`: `StartRenewal` in a thread, then the router's answer (`MapOverPcp`,
`Grants`, `PermanentOnly`, `PortTaken`, `Refuses`) with what `_renew_mapping` does
with it; `Exit` is `release`, `Kill` leaves everything as it is; `OtherClient`,
`RouterForgets` and `Tick` are the router's side. `ours[p]` is the rest of the
lease of port p.

### DetailWindow, Update, Profiles

`DetailWindow` is the window of a roast: `Type`, `Autosave`, `SaveNotes`,
`CloseWindow`, `AppCloses`; a save is a process (`SaveEnds`), of which the window
hears later (`Notice`), so that it can be ended and unnoticed.

`Update` is `_update_linux` with one action per file operation of each updater,
any number of which run at a time, releases that appear between two downloads,
downloads cut short, and kills.

`Profiles`: a command reads the profile, truncates the file, writes it and
mirrors the change into the own index (`StartCommand`, `Truncate`, `Write`,
`Mirror`), while the syncs of others fetch it (`Fetch`) and store it later
(`Persist`, `persist_peer_profile`); `Favorite` writes to the same rows.

## 4. Runs

| run | instance | checks |
|---|---|---|
| `feed_mirror` | 1 watcher, 2 nodes with a task each, 2 contents, 2 entries, 1 torn write, 1 eviction | `TypeOK`; `MirrorAgrees`; `AppendOnly`; `AbstractSpec`: the refinement; `OnlyEvictionForgets` |
| `feed_live` | 1 editor, 1 node, 3 entries over 2 days, 1 file a day admitted, any number of failed syncs | `AdvertisedVerifies`; `EventuallyMirrored` |
| `device_newest` | 3 devices, 2 paths, 3 edits, one session at a time | `NewestWins` |
| `device_converge` | 2 devices, 1 path, 3 edits at any time, 1 drop, 1 lost state file | `EventuallyMirrored` |
| `replication_chain` | 3 nodes in a chain of which the ends cannot dial each other; one has room for three entries only, and evicts a feed it can get again only from a node that mirrors it; the feed at the far end begins after they met and grows after it is held | `RarestIsKept`; `EventuallyHeld` |
| `roasts` | index: 1 peer, 1 file, 3 contents, 3 entries a feed; edits: 2 edits of a roast, 2 pushing processes, 1 lost answer, 1 kill, 1 pairing, 1 removal; near duplicates of up to 4 rows | `RowNamesItsEntry`; `LatestIsShown`; `TrustIsConsent`; `NoEditLost`; `EditsEventuallyApplied` |
| `dht_search` | 10 addresses: 3 reliable, 4 that may be silent, 1 silent, 1 that answers nonsense, 3 of one network; 6 slots, K = 2 | `NearestAnnounced`; `NothingForged` |
| `dht_node` | table: ids 0 to 3, two own ids in turn, 3 sockets, one of which claims two ids and two of which share an IP; answers: 2 queriers; rounds: 3 honest nodes and a liar, quorum 2, 1 change; limits: 2 sources, room for one in the table | `SplitAroundSelf`; `GoodNodeStays`; `TableAnsweringGetsIn`; `TokenGrace`; `TellsWhoAnnounced`; `LiarsDoNotMoveUs`; `NodeFindableAgain`; `AtMostRate`; `QuietIsHeard` |
| `discovery` | hellos: 3 nodes, one behind a NAT, one that may restart, 1 fault; beacons: 2 hosts, 2 mishaps; book: 2 owners and 3 others, at most 3 entries; mapping: 3 ports, 4 kinds of router | `Introduced`; `NodesHearAgainAndAgain`; `HostDialsWhoServes`; `FloodDisplacesNobody`; `KeepsForwarding`; `LeavesNothingBehind` |
| `desktop` | 1 supervisor, 2 windows, 2 crashes; 2 changes to the notes, 1 failed save; 2 updaters, 2 mishaps; 1 changer, 1 reader, 2 commands, 2 syncs, 1 kill | `NoHiddenNode`; `YieldsToWindow`; `ResumesServing`; `EditsStick`; `SavedInTime`; `CliRuns`; `ProfilesArrive` |
| `notes_lost` | as `desktop` | `NothingTypedIsLost` is **violated** (section 5) |
| `supervisor_two_nodes` | 1 supervisor, 1 window, no crash | `OneNode` is **violated** (section 5) |

**Bounds.** Two nodes that mirror each other are the least with third-party
pulls; two contents and two entries the least with a link and a shared or
different blob; three entries over two days the least in which the daily quota
delays an entry, admits it later, and the feed goes on. Three edits are a write, a
later write and a delete or a third writer; three devices are the least in which
a device hears of a file from one that did not write it. A chain of three nodes
is the least in which a feed travels by a node that is not its author, room for one
entry less than there are makes a node choose, and two entries are the least with
which a feed grows after it is held. Three contents are a
roast, its edit and an edit of the edit, or a roast of a peer between them; two
pushers are the watch loop and the command line. Four rows are the least of which
two pairs are within the window and the ends of a chain are not.
In `dht_search` K = 2 is the least in which a silent node and a reliable one
compete for the announcement; with six slots nodes are displaced while some are
given up, and there is still room for every reliable one, as the theorem asks. The ids 0 to 3 split twice, into buckets of one and two
nodes, and the second own id makes the table start over; three honest nodes are
enough to outvote the lie and to settle again after a change. Three nodes are
the least with an introduction. Two crashes are a node or supervisor and then
the one that took over; two updaters the least that mix two releases. The
numbers of faults, and of `Seqs`, ids, stamps and clock ticks, bound the state;
no guard but those marked `bound` comes from them. `feed_mirror` uses that
contents are interchangeable, and nodes with their tasks.

Some properties speak of less than everything, because the code does not keep
more: `NewestWins` of one session at a time and of devices whose watcher is
prompt, `RowNamesItsEntry` of bytes that only one author publishes,
`NearestAnnounced` of nodes alone in their /24 that nobody misplaces,
`EditsStick` and `SavedInTime` of notes at rest during a save, `NoEditLost` of
edits staged while no push is under way, on one device per roast,
`EditsEventuallyApplied` of edits whose address does not move, `EventuallyHeld` of a
beginning of the feeds of authors out of reach, `LeavesNothingBehind` of processes that
removed their mapping and met no conflict. Each excluded case is a finding.

**Deadlock.** A torn own entry makes every later read of the feed raise, and the
system really stops: `feed_mirror` does not check for deadlock. Neither do
`roasts`, `desktop` and the two violations: pairings, edits, commands and
launches end, and with them the behaviour. The other runs check it.

**Fairness.**
* `FeedSync`: discovery dials a known peer again every few minutes for as long as
  both nodes run, and the network does not lose every connection for ever, hence
  strong fairness for the steps of a direct sync, which failures disable again
  and again; nothing makes anyone publish, evict, or fail.
* `DeviceSync`: sessions of each pair start again and again (`SF`, as a slot may be
  taken) and run to their end unless dropped (`WF`).
* `Retention`: the loop of a node with room enough goes on, and discovery keeps
  finding whom it reaches (`WF`); nothing is assumed of the others.
* `CrossEdits`: watch loops run, and a device that was dialled answers (`WF`);
  pairings and answers of users are free.
* `RoutingTable`: time passes, and the nodes of `Alive` answer the lookups that
  keep asking. `WanRound`: rounds go on (`WF`); time passes between them, and of
  the lookups that are due to announce one again and again comes near the swarm
  (`SF`).
* `Hellos`: datagrams and retries take seconds; a debounce ends whenever the
  network is quiet again and again (`SF`); nodes find whom the lookups give them.
  `Beacons`: they are sent every five seconds while a node serves.
* `Supervisor`: it goes round its one-second loop (`WF`); windows do what their
  users like. `DetailWindow`: timers fire, processes end, the queue is polled.
  `Profiles`: commands end unless killed, a node that serves syncs again and again.

## 5. Findings

Two have a run:

* *Two nodes with one identity* (`supervisor_two_nodes`). A window that opens
  between the supervisor's probe and its record of the new node starts a second
  one. The model has other ways to two nodes: a killed supervisor or window
  leaves its node behind, and the debug toggle starts serving without waiting.
* *Notes are lost* (`notes_lost`). What is typed while a save is under way is
  marked as saved when the save ends, and a window closed then closes over it.

The others are recorded in `PROJECT.json` with the lines they bite at and the text
they contradict. They were met while the model of that code was written, and
read there; no run of the project shows them, though TLC found those of which that is
said, in the form of a property that is not claimed:

* feeds: overlapping appends rewrite the log; a mirror evicted while a direct
  sync is under way is never filled again; a direct sync leaves the roasts of an
  evicted feed marked as not downloaded;
* replication: a large rare feed goes while smaller, commoner ones stay; a pass
  may evict a feed and ask for it; a full ledger forgets what was just wanted; a
  digest that is behind lowers what is known; a feed that is held and behind is not
  asked for (with `Settled` claiming all of every feed, TLC finds it);
* device sync: sessions of one device that overlap let an older file win, and so do
  one that breaks off before its record is saved and a state file that is lost; an edit
  staged during a push loses its record; deliveries leave tombstones behind; a file of
  60 MB ends every session that reaches it;
* edits: those of one roast from two devices overwrite each other at the owner; one
  that is addressed to where the row no longer is, is refused for ever (TLC finds it
  without `Moved`);
* index: the watch folder clears what a row supersedes; a delivered edit forks
  the history; publishing races an edit; near duplicates are chained over a day;
* DHT: an address is blacklisted for the answer of another; two candidates of one
  /24 are never heard; a silent node is asked once instead of three times; an
  empty token bucket under load stays empty, one that was idle allows two bursts,
  blocked sources spend its tokens, and a full table forgets them; several nodes
  per IP; the verdict on the own NAT;
* discovery: a lease of half an hour lapses after one failure; a permanent
  mapping is left behind after a conflict; the first hello after boot is held
  back, a peer that gossip named before is not pushed when it comes itself;
  tickets of pairings are dialled; old gossip replaces fresh tickets; pruned
  peers come back;
* desktop: a node whose record fails, or that does not end when told, is hidden; likes
  taken back stay counted; the profile file is torn by a kill; the window's binary is not
  verified by an update; a cancelled task may start; the results of one user under
  the name of another.

## 6. Proofs

The theorems hold for all values of the constants that the modules' assumptions
allow. `NaturalLemmas` has the facts about naturals the provers lack: the
well-ordering on which `Min` and `Max` rest, powers of two as numbers of subsets,
and that a function defined step by step exists and what holds of all its
values (both by a least counterexample, without an induction theorem).

### FeedSyncProofs

What the operators of `Feed` and `Quota` return comes first, as lemmas.

* `TypeCorrect`: `[]TypeOK`, whatever the constants; `VerifiedIsKept`
  (`OnlyEvictionForgets`) follows from it and from one lemma per file operation:
  a write of an entry that is missing, or of a blob, never shortens the verified run.
* `SingleWriterMirrorsAgree` and `SingleWriterAppendOnly` assume that there is at
  most one publisher (`SingleWriter`). Neither property is inductive.
  `MirrorAgrees` needs that what is on the wire is the author's too
  (`WireAgrees`); that needs that the author's files never change, which needs
  that the next entry is written where there is none: the files of the log have no
  gap (`OwnIsDense`), each holds its own seq (`OwnAtSeq`), and the entry a
  publisher is about to write has the number of files as its seq (`PubIsNext`),
  which only one writer can keep true. `LogInv` is the conjunction; two writers
  that overlap break it, so the assumption cannot be dropped.
* `SingleWriterImplementsLog`: under the same assumption FeedSync refines
  `AppendOnlyFeed`. A step either leaves `log` and every `held[n]`, which is a
  stutter, or is the write of the next entry, or changes what one node holds; by
  `LogInv` that is a verified prefix of the log before and after.
* `SingleWriterAdvertisesVerified` (`AdvertisedVerifies`) also assumes that no
  file is torn and no mirror evicted (`NothingIsLost`). `ChainInv` says that the
  log links, that every blob matches its name, and that mirrors and answers on
  the wire are runs from the beginning with their blobs.

### RoastsProofs

* `TrustNeedsBothUsers` (`TrustIsConsent`), without further assumptions. The
  messages of an exchange alternate, so each side has received no more than the
  other sent (`InRounds`); whoever is past the answers has therefore seen the
  other's yes (`PastAnswers`), and that both said so is noted (`BothNoted`).
* `EditsAreKept` (`NoEditLost`) assumes that nothing is staged while a push is
  under way (`~ StagesMeanwhile`, the run's setting) and that each roast is edited
  on one device (`OneEditor`). `EditInv` relates the copy, the record, every push
  and the owner, all by address: an edit is addressed to a version of its roast
  (`Addressed`), so that edits with one address are of one device; a push under way carries the newest edit of its device
  (`PushIsNewest`), has not passed over a staged one (`LeftCovers`), and, once
  answered, has put it at the owner (`AnsweredIsAtOwner`). Without `OneEditor` the
  property fails: section 5.
* `RowsNameTheirEntries` (`RowNamesItsEntry`) and `LatestVersionIsShown`
  (`LatestIsShown`) assume `~ SharedBytes` and `~ EditsRace`, as the run does, and
  that there are finitely many files and contents. `IndexInv`: nothing is
  published twice and an entry supersedes an earlier one (`FeedsFit`); the
  position of a row, and of every source that is about to be ingested, is that of
  the only entry with its bytes, and what a row supersedes is earlier (`RowFits`);
  new bytes are in no feed. As a position stays the position of its bytes when
  feeds grow, any order of ingestion keeps this. The chain of versions then has
  growing positions, hence no cycle, hence ends within `Cardinality(Contents)`.

* `CommonestGoFirst` (`RarestIsKept`) and `RetentionTypeCorrect`, for every graph of
  nodes, every budget and all sizes. `RetentionInv` adds to the types that nobody
  holds more of a feed than its author published (`AuthorsLead`), so that what a
  sync copies is a length of that feed. The property is about one pass, hence
  about `Plan`: `Rarer` is a strict total order of finitely many feeds, so a
  ranking exists and lists them all (`RankedOrders`); the loop keeps a feed exactly
  if it fits in what those before it left, which only shrinks (`KeptFacts`); so a
  feed given up cannot rank before one that is kept and at least as large. That
  the ledger stays well typed rests on `MovedToFront`: a report moves its author
  to the front of a list without duplicates and leaves it one.

### DeviceSyncProofs

* `DeviceTypeCorrect`: the types, and that whatever a session has still to pull or
  push has a record (`DueIsRecorded`), through any interleaving of sessions, edits,
  dropped connections and lost state files.
* `NewerWins` (`NewestWins`) assumes the setting of `device_newest`: one session
  slot, edits that are noticed at once and not made during a session, no dropped
  connection, no lost state file (`OneAtATime`). Bounds, devices and paths are
  arbitrary. `SyncInv` is about what each device believes to have (`Believed`: its
  state file, or during a session the manifest that its client will save): it
  describes the disk (`Faithful`), orders the records of a path on any two devices
  as the edits they are of (`InOrder`), and what a session has still to transfer is
  newer than what it goes over (`DueIsNewer`). No condition can be dropped: TLC
  violates `NewestWins` when any one of the five settings of `MCDeviceSync_newest.cfg`
  is changed (section 5).

### DhtNodeProofs

* `LiarsNeverMoveUs`: the votes for an address we never had are those of liars
  (`OnlyLiarsClaimElse`), of whom there are fewer than the quorum. The assumptions
  are those of the module: finite sets of responders, and enough honest ones.
* `RateIsKept`: `PaidFor` accounts for a request with `PerToken` ticks or one of
  the tokens of the start, in time that was not used for another.
  `QuietIsNeverBlocked`: a block is no longer than the memory of the burst it is
  for (`BlockedForBurst`), which came within a window (`CountedInWindow`); also that
  the table of sources keeps to its limit.
* `TokensAreGoodForAWhile`: after one rotation a token's age and the time until the
  next add up to at least the shortest time between two; after two, its age alone
  does (`TokenInv`). `AskersAreTold`: the store has each announcer whose
  announcement has not expired, once, with the age of the last one (`StoreInv`).
* `BucketsSplitAroundUs`: every bucket is aligned to its size, our own has 2^k ids,
  and every other one lies with our own id in an aligned range of twice its size
  (`Halved`); `GoodNodesStay` uses the same invariant for one step.

### DiscoveryProofs

* `AnnouncedPortIsForwarded` (`KeepsForwarding`): while renewals succeed, what is
  left of the lease exceeds what is left until the next by half a lease, and after
  a failure by that less the retry delay (`LeaseOutlasts`). The assumption
  `2 * RetryAfter < Lease` is that of the code's constants.
* `NoMappingIsLeft` (`LeavesNothingBehind`): without a conflict there is only one
  port for which anything is ever permanent, and a process that ends in order has
  it removed (`OnlyInternal`).
* `NobodyIsDisplaced` (`FloodDisplacesNobody`): the list has each peer once, and a
  direct entry for everybody it must keep (`Sound`). The cap keeps as many as the
  limit, and sorts direct ones first, so that there would have to be more direct
  entries than the limit for one to go.

* `EverybodyIsIntroduced` (`Introduced`) assumes that all meet at one host
  (`Rendezvous`: every graph is a star), that a cache holds everybody (`CacheFits`)
  and that a hello carries the whole cache but its receiver (`HelloFits`, a group of
  six with the code's `_MAX_KNOWN_PEERS = 4`). `HelloInv` holds while nothing is
  lost: hellos go to the host or come from it and name nobody it did not hear from
  (`AtRendezvous`), it knows exactly those it heard from (`HeardThere`), and each of
  them knows the others or a hello with their names is on its way to it
  (`AllTold`). Introductions are complete because the answer to a newcomer names
  the old ones and the pushes name the newcomer, whatever is under way. Without
  `Rendezvous` it is false: a peer that gossip named is not new when it comes
  itself, and is not pushed (section 5).
* `OneOfTwoIsIntroduced` drops `HelloFits`: a newcomer is told of the latest
  peers only, but each of the old ones is told of the newcomer, so that of any two
  at least one can go to the other.

### SearchProofs, DesktopProofs

* `LookupAdmitsNothingForged`: `Search!Spec => []NothingForged`, whatever addresses
  answer. `Filtered` adds that what is about to be inserted is well typed; the
  point of the proof is that readdressing a node passes the same filter.
* `SearchTypeCorrect`: `Search!Spec => []Search!TypeOK`; its invariant `Typed` adds
  that the table is finite.
* `LookupFindsNearest` (`NearestAnnounced`) has three conditions on who is out there,
  which are constants of the model (`CrowdAssumption` has TLC evaluate them for the
  instance `dht_search` checks). `NobodyPosesAsReliable`: the cache of nodes is right
  about the reliable ones, and nobody else answers under their ids. Two nodes with
  one id share one slot in the code, and the second takes over the first's address.
  `RoomForReliable`: fewer possible ids than there are slots are closer than a
  reliable node. Nodes that gave no answer keep their slots, so that a whole table
  of closer ones would crowd it out; and a network has at least two places (the code's
  `MAX_SEARCH_NODES_PER_PREFIX = 2`). `WayToReliable`: the lookup starts with the
  farthest reliable node, and every answer from between that and a closer one names
  the closer one or a reliable one on the way. Without it a node may just never be
  mentioned.

  `SureInv` says of a reliable node (`Sure`) that its address is not blacklisted and
  is never another's in the table, in what was named and in the answers to come; that
  its network's place is taken by it alone; and that if it was asked, its answer is
  among those to come. So whenever it is named it is admitted (`ReliableAdmitted`), it
  is never displaced (`ReliableKeepsSlot`: that would take a full table of closer
  ones) or purged, and never given up once the round is over. `Way` says that every
  node that answered and is no farther than the farthest reliable one, g, leads on to
  each closer reliable node: one on the way holds a slot or is about to be inserted.
  When the search stops nothing is about to be, so the closest of the first K beyond
  a node that was passed over would have led to one that is closer still and alive:
  there is none beyond it. As g itself is alive (`Coming`), the first K are not all
  there are, and so there are K of them.
* `HandoffTypeCorrect`: `Supervisor!Spec => []Supervisor!TypeOK`, a lemma of the
  next. `OneSupervisorHidesNoNode` assumes at most one supervisor. `FileInv` adds
  to `NoHiddenNode` that a supervisor outside its loop has no child
  (`ChildlessOutside`); the proof is that a new node's id is remembered by nobody,
  so that no step but the supervisor's own touches it.
* `NotesAreStored` (`EditsStick`): unless something was typed over a save, every
  save that the window has not heard of carries the text as it is
  (`SavesCarryText`), and notes that are not dirty are stored (`CleanIsStored`).
* `UpdatesLeaveACli` (`CliRuns`): what an updater stages is whole from its check
  to its swap (`StagedWhole`), whatever others stage meanwhile.

### What stays with TLC

Liveness, which is out of the prover's reach: `EventuallyMirrored`,
`EventuallyHeld`, `EditsEventuallyApplied`, `TableAnsweringGetsIn`,
`NodeFindableAgain`, `NodesHearAgainAndAgain`, `HostDialsWhoServes`,
`YieldsToWindow`, `ResumesServing`, `SavedInTime`, `ProfilesArrive`, and
`EventuallyMirrored` of `DeviceSync`. The fold of `NearDuplicates`: an induction
over data.

## 7. Not modelled

* Formats: signatures, the genesis anchors, entry and message encodings, the
  parsers of roast files (`alog/`, `formats/`), numeric extraction, the catalogue of
  machines, key files. They have no protocol of their own; where a check of a
  signature guards a step, the model has the guard.
* Device sync: tombstones that age away, clocks that differ, exact ties of stamps.
  The first brings files of a device that was away longer back, by design; the
  others need clocks per device. Files larger than a message, about 48 MB.
* Mirrors: the removal of a mirror file by file, seen half done by a sync task, and
  the time between the measurement of a mirror and its eviction.
* DHT and discovery: bootstrap lists, the cache of nodes on disk, the drip that
  feeds the table at start, retransmission of single requests outside a lookup,
  reports of identity collisions and of double NAT, the relay.
* Port mapping: the choice of gateway and interface, SSDP, XML.
* Peers: two processes that load and save `peers.json` at a time, and a torn file.
* Index: the filters, ranking and schema migrations of a search.
* Desktop: tabs, tables, charts, the wizard, the Windows installer, dismissed
  update notices, unit files, times in the supervisor (a wait is a number of polls).
* The command line's arguments, prompts and printing; its commands that change
  state are actions of the modules above.
