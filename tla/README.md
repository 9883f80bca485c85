# A verification development of lumae-plugin

lumae-plugin is an AudioMuse plugin (`src/plugins/LumaeAnalysis`, with a small second plugin,
`FederatedAlbums`) that keeps a catalogue of every music source, analyses the audio of its tracks into
profiles, and lets a mobile client follow catalogue, analysis, profiles, loudness, collections and
personal records through journals. All state is in PostgreSQL; the processes are the web workers, a
runner elected among them, the queue's workers, and provider clients.

This directory holds TLA+ modules translated from that code, TLC configurations for small instances,
and theorems checked by TLAPS. The core is the **profile publication** (who may analyse a track, whose
result counts, what a client is served) and the **profile stream** (how its journal is kept, compacted
and followed). Around it are the catalogue and the other published streams, the identity changes of the
two providers, the runner and its workflows, the processes that analyse files, the records of a person,
and the albums of a friend: one module each, 19 in all.

## 1. Inventory

Paths are below `src/plugins/LumaeAnalysis/`.

| Component | State it keeps | Operations | What makes it hard, and what makes it correct | Module |
|---|---|---|---|---|
| Profile attempts and publication (`profile_publication.py`, routes and tasks of `__init__.py`) | `source_profiles` (attempt rows: status, token, attempt revision, retry columns), `published_source_profiles`, the `profile` journal | admit, release, recover, begin, complete, withdraw at a catalogue publication, withdraw orphans, republish ready, migrate | Downloads and analyses take minutes with no lock held; claims are lost, taken over and superseded; a publication commits under a running worker. *No stale profile is served; each claim ends; the attempt budget is finite; the journal is complete.* | `ProfilePublication`, `PublicProfiles` |
| Edge profiles (`edge_profile_store.py`) | `edge_profiles`, `edge_profile_jobs` | claim, fail, publish, purge | An edge is reached through a published profile of the same media. *A withdrawn edge never comes back.* | `ProfilePublication` |
| Profile stream (`profile_bootstrap.py`, `catalog_enrichment.py`) | capture sessions, journal sequence, floor, epoch | open, capture, page, expire; delta pages; compaction | The admission head and the snapshot are two transactions; compaction runs next to slow clients. *Bootstrap plus deltas is the published state.* | `ProfileStream` |
| Catalogue refresh and publication, analysis projection (`catalog.py`, `catalog_analysis.py`) | generations, journals, session leases, requests for a refresh | scan, diff, publish, project, lease, prune, compact | Long scans, two publishers, base changes, clients paging over superseded generations. *A lease keeps its generation; a follower holds what is published.* | `CatalogStreams` |
| Identity guard and rekey (`provider_identity_*.py`, `jellyfin_continuity.py`) | `provider_identity_transitions`, held tracks; moves the rows of nearly every other component | observe, block, prove, hold, rekey, project | A provider renames its IDs or moves its files while AudioMuse's own mapping follows at its own time. *A song keeps its profile; no transition wedges the catalogue.* | `NavidromeIdentity`, `JellyfinMoves`, `ProfilePublicationRekey` |
| Runner (`runner.py`, turns in `__init__.py`, `reconcile.py`) | leadership (session lock), notifications, claims, retry ladder | elect, listen, turn, sleep, hand over | A notification between a look and a sleep; a leader that dies; two roles. *Recorded work is done; a live leader keeps its claims.* | `Runner` |
| Workflows (`__init__.py`) | backfill, preparation and run rows, the refresh's flag | wake, take, retry, recover, finalise | Wakes are coalesced with what is finishing. *What was woken for is done; runs end.* | `Workflows` |
| Relationship build (`relationship_build.py`, `catalog_enrichment.py`) | a build with staged inputs and checkpoints, results, journal | claim, load, checkpoint, publish, requeue | Runs for hours over commits. *What it publishes belongs to the inputs it read.* | `RelationshipBuild` |
| Loudness (`loudness_stream.py`, `loudness_backfill.py`) | track records, pooled album records, journal, the pass and its attempts | measure, publish, pool, rekey | Members, membership and measurement change in different transactions. *An album's record stands for its members; followers hold the records.* | `LoudnessRecords` |
| Credits (`credits_store.py`, `credits_service.py`), metadata (`music_metadata.py`) | jobs with leases, results, journal; an allowance per account | request, claim, finish, compact; reserve | Workers are superseded; requests are counted before they are sent. *Credits follow their album; the allowance is kept.* | `CreditsStream`, `MetadataJobs` |
| Analysis processes (`parallel_analysis.py`, `analysis_isolation.py`, `action_isolation.py`) | a pool of threads with a worker process each, a pooled worker, a child per action | submit, cancel, answer, kill, reuse, reap | Late answers, kills that race the next job, parents that die. *A file is finished once; an action is not done twice at a time.* | `AnalysisPool`, `DecodeWorker`, `ActionChild` |
| Personal records (`vibes.py`, `covers.py`, `journeys.py`, `shelves.py`, `personal_discovery.py`) | revisions, receipts, tombstones, photos | compare-and-set, replay a receipt, merge, purge, rekey | Lost answers, several devices, sequences that commit out of order. *A repeated call changes nothing twice; no record is skipped.* | `PersonalRecords`, `DiscoveryRecords` |
| Collections (`collection_manager.py`) | collections, items, receipts, restores, feed | create, edit, withdraw, restore in chunks, rekey | Abandoned restores, two requests of one key. *The feed is the tables.* | `CollectionFeed` |
| FederatedAlbums (`src/plugins/FederatedAlbums`) | pairings, syncs under a session lock, copies of a friend's albums | pair, request, fetch, publish, retry, delete | A sync that was overtaken publishes late. *A copy is what the friend had, and of the pairing it names.* | `FriendAlbums` |
| Status, diagnostics, signal processing, host adapters, optional storage | none, a cache, or a retention clock | read, compute, detect | No interleaving of interest. | none |

`PROJECT.json` repeats this list under `components` with the modelling status of each, and under
`hazards` gives the lines where each of these is exposed.

How they interact: the catalogue publication calls the profile withdrawal inside its own transaction;
admission, completion, edge publication, repair and catalogue publication all lock the source's
`catalog_state` row first, which is what makes each of them one step against the others; the runner calls
selection, admission, recovery and the orphan sweep in turns; the rekey takes the same row lock and moves
the rows; clients see only what the journals and the published tables say. The modules share this
interface, not their variables: `ProfilePublication` takes a catalogue publication and a rekey as one step
each, `CatalogStreams`, `NavidromeIdentity` and `JellyfinMoves` show how these steps come about; `Runner`
shows that recorded work is taken, `Workflows` and the job modules what taking it does.

## 2. What is modelled

### `ProfilePublication`: state

| Variable | In the code |
|---|---|
| `catalog` | the published generation's occurrence of each track: its `media_fp`, `None` (available without a fingerprint) or `Gone` (missing or unavailable; the code treats the two alike wherever it asks) |
| `generation`, `epoch` | `catalog_state.published_generation`, `catalog_epoch` |
| `version` | the installed analyzer and schema version |
| `rows` | `source_profiles`: status, token, attempt revision, media and version of the last result, retry columns |
| `published` | `published_source_profiles` |
| `edges`, `edge_jobs` | `edge_profiles`, `edge_profile_jobs` |
| `feed` | the profile journal as a client has it after applying every event |
| `jobs` | analyses running in workers: what each one claimed and read at its start |
| `batch` | what a backfill task selected without a lock and has not admitted yet |
| `losses` | history: background attempts lost in a row on one revision and analyzer |
| `interruptions` | counts on-demand requests and uncounted releases, towards their bound |

### `ProfilePublication`: actions

| Action | Code |
|---|---|
| `SelectBatch`, `AdmitBatch` | `profile_backfill_task` with `backfill_due_sql`, then `admit_attempts` |
| `AdmitInteractive` | `POST /analyze` and `analyze_song_hook`, through `admit_attempts` |
| `ReleaseUncounted`, `ReleaseCounted` | `release_attempts` (paused, migrated, aborted batch / could not be queued) and `recover_stale_pending_profiles` |
| `StartAnalysis`, `Complete`, `WorkerCrash` | `begin_attempt`, the download and the analysis, `complete_attempt` with its ready, failed, mismatched and obsolete outcomes; a worker that dies |
| `CooldownEnds` | the clock passes `retry_after` |
| `ClaimEdge`, `FailEdge`, `PublishEdge`, `PurgeEdges` | the edge store, `purge_withdrawn_edges` |
| `PublishGeneration` | `withdraw_catalog_changes` in the publication's transaction, for an ordinary diff and for a fingerprint-schema rebase |
| `WithdrawOrphans`, `RepublishReady` | the orphan sweep; the repair that an install or an operator runs |
| `UpgradeAnalyzer` | a plugin update that ships a newer analyzer |
| `Init`, `UpgradeInit` | a fresh install; what a 1.2.5 install can leave behind after the migration's copy: rows of each status with their retry columns, claims without tokens, tracks without a fingerprint, profiles that are orphans or of replaced media |

`ProfilePublicationRekey` extends it with `Rekey`, the publication of an identity rekey: v1 moves rows
by UPDATE and rolls back on a collision; v2 purges what the target IDs still hold first.

`PublicProfiles` is the abstract service: a catalogue and what each client has, with no attempts, tokens,
workers or retries. `ProfilePublication` implements it with `served <- feed` (`ImplementsPublicProfiles`).

### Modelling decisions of the core

* The row lock makes each database transaction one step. What happens outside it is a step of its own: the
  scheduler's read of its batch, the download and analysis, the edge purge.
* A publisher holds the source's publisher lock from its diff on and re-checks its base under the row
  lock, so diff and publication are one action.
* `Tracks` are the tracks the instance looks at; the source may have others. A scan that finds no track at
  all is refused by the code, a publication without any of `Tracks` is not.
* Fingerprints are model values. The journal is kept as its applied effect; sequence numbers, floors and
  pages belong to `ProfileStream`.
* Redelivery of a queued job is covered: `StartAnalysis` of one token may happen more than once while the
  row holds it. The start of a token that its row no longer holds changes nothing and is no step.
* A token is reused only when no row and no running analysis holds it, as a uuid that was never repeated.
* The retry count saturates at `RetryLimit` in the model only: the code adds one at every failure without a cap, and
  compares the count with the limit and nothing else.
* The outcomes "file missing" and "failed" change the same columns and are one.
* Admissions are by the installed analyzer. A worker of the version before may still complete.
* Edge jobs keep their media and status; their tokens, priorities, backoff and the backfill cursor are
  left out. The source's binding is assumed active.

Bounds of `ProfilePublication`: `MaxGeneration` (catalogue publications), `MaxVersion` (analyzer upgrades), `MaxJobs` (analyses at
once), `MaxInterruptions` (on-demand requests and uncounted releases).

### `ProfileStream`: state

| Variable | In the code |
|---|---|
| `profiles`, `edges` | `published_source_profiles` and `edge_profiles`, as far as the stream tells them apart: media, waveform, edge digest |
| `events`, `head`, `floor`, `retention` | `profile_changes` by `seq`, and `profile_stream_state` |
| `admission` | what a create has read under the global lock and not committed yet |
| `sessions` | `profile_bootstrap_sessions`, with the snapshot and catch-up rows its client has not read yet |
| `captures` | what the REPEATABLE READ snapshot of a running capture holds |
| `replays` | the events a running catch-up has copied so far |
| `clients` | what each device has, its cursor and how far its bootstrap is |

### `ProfileStream`: actions

| Action | Code |
|---|---|
| `PublishProfile`, `PublishEdge`, `Withdraw` | `complete_attempt`, `publish_edge_profile`, the withdrawals; each appends with `record_profile_change` or `record_profile_deletions`, which compact by no more than the events' share |
| `PurgeEdges`, `Maintain`, `RefreshRetention` | `purge_withdrawn_edges`, `compact_enrichment_storage`, `refresh_profile_retention` |
| `ChangeIdentity` | a catalogue publication with a new epoch, a source bound to another core server |
| `AdmitRead`, `AdmitCommit` | `_admit`: slots and head, then the session row; a retry replaces its unclaimed session |
| `CaptureBegin`, `CaptureCommit` | `_capture_snapshot`: one MVCC snapshot, copied and committed later; the answer may be lost |
| `Adopt` | `_find_retried`, `_await_capture`, `_adopt` |
| `PurgeSession`, `EndSession`, `Expire`, `Overrun` | `_purge`, `_abandon` and `release_session`; an hour, or ten minutes of capture, are over |
| `SnapshotPage`, `CatchupBegin`, `CatchupBatch`, `CatchupCommit`, `CatchupPage`, `PageRefused` | `snapshot_page`; `catchup_page` with `_capture_catchup`, whose statements each see what compaction left; 410 and 413 |
| `LegacyBegin`, `LegacyPage`, `ChangesPage`, `Fetch` | `profile_bootstrap_page`, `read_profile_changes` over `read_change_page`, `POST /profiles` for an edge the client misses |

Decisions. A page is one row or one event; a longer page is several of them with nothing in between. An
event holds a reference to its edge, and the page that serves it resolves the reference at that time, with
the exact digest in snapshot and catch-up pages and with the media's current edge in event pages: both
lookups are modelled, since they are what may hand a client an edge that does not belong to its row. The
floor hold is read under the stream row's lock by the transaction that compacts, so event, hold and trim
are one step. The clients' side is external: it is what `docs/contracts/LUMAE_SYNC_CONTRACT.md` asks of a
client. A source's identity (its core server and the epochs) never recurs, so a session of an earlier one is as
`over` as one whose hour has passed. A retry of a create leaves out the row of the session it replaces, which is expired at once.
The journal's epoch does not change and the binding is active. Page-token signatures, create rate limits,
byte limits, edge schema v3 and journal rows from before edge references are left out.

Bounds of `ProfileStream`: `MaxSeq` (journal events). The code's constants `MAX_HELD_RETENTION_MULTIPLIER`,
`PROFILE_COMPACTION_MAX_ADVANCE` and `MAX_SESSIONS_SOURCE` are parameters; `Limits` is the set of retention
limits the sizes of the library give.

### The catalogue and the streams of a source

`CatalogStreams`. `RefreshStep(p)` is a refresh: `Start` takes the generation it will build on, `Fetch` and
`Build` scan and diff with no lock, `Publish` takes the publication lock, finds out under the state's row
lock whether the base `Moved`, and writes generation, journal and head in one transaction; an unchanged
scan is confirmed, a new fingerprint schema starts a new epoch. `ProjectStep(p)` is the projection of
analyses (links chosen at one generation, written under a lock that re-reads it, abandoned when IDs are
being rewritten). `ReaderStep(r, s)` is a client of stream `s`: a session with a lease over one generation
or the journal from a cursor. `PruneStorage` and the pruning of each publication delete generations that
nothing `Pins`. The journal's limit is `Retain`.

`RelationshipBuild`. A build is claimed, takes a session lock, stages the inputs it read and checkpoints
each entity; `InputsMove` lets the catalogue and the analyses publish in between; `Initialize` decides
whether a stored build is resumed, finishes its older inputs or is replaced; `Publish` re-checks what it
must. Two builders may overlap, fail or die at every point; the reader pages results or follows deltas.

`LoudnessRecords`. The backfill turn and the edge pass measure tracks and publish records; the albums of a
track are pooled again in the same transaction, from their members as the catalogue has them then
(`Publish`), and all albums when the turn follows a generation (`Reconcile`). An album has a record when
every member is measured on known current media and not all are `Silent`. A commit appends what
changed to the journal and moves its floor (`Commit`); `Rekey` moves or drops records and starts a new
epoch. The client pages the tables by key under the head of its first page, each request in up to three
statements with publications between any two, then the journal from that head; a new epoch, or a cursor
below the floor, sends it back to the start (`ReadHead` to `ReadChanges`). `MeasureFails`, `Cools` and
`NoDecoder` are the ladder of attempts. A pooled record is a record of what went into it, and the
measurement version is left out.

`CreditsStream`: visits by rank, the job with its lease, the result and its event, compaction under a
floor, and a reader that bootstraps page by page at a fixed head. `MetadataJobs`: the lookups of one
account, each reserving its requests against a daily allowance before the request is sent. The code checks
the lease in one transaction and reserves in the next; `Reserve` is both in one step, which the allowance
does not depend on.

### Identity

`NavidromeIdentity` is Navidrome's change of ID scheme, followed by AudioMuse's `MappingMoves` at any later
time, and the release comes at any point of a refresh or a projection. A refresh observes the version
(`Observe`, with the gate that blocks a scan), fetches, compares
(`PublishTrusted`, `PublishChecked`), counts equal scans (`Scans`) and rekeys when the mapping proves each
pair; the projection asks `Allowed` first. What a refresh publishes that began before the release is a
`Stray`. `JellyfinMoves` is a Jellyfin whose files move (a move is a new
path-derived ID): a missing track is held with an age, a likely target is held back, one pair of one
fingerprint is proved by two scans and rekeyed, failures are counted and end the pair, and a hold older
than `Grace` is given up. `DayPasses` is the clock. `Content` and `Home` say which ids hold the same song
and which library a path lies in.

### The runner and its workflows

`Runner` has processes of two roles, the role's session lock, notifications that a commit delivers to
connected leaders, and turns that read what is due, take claims, act, release and compute the time of
their sleep: the look and the read that sets the sleep are two steps with commits in between. `Workflows`
has the rows a turn works on: the profile backfill with its wake, the preparation, and the run of a
parent's songs; light and heavy work are two lanes, `Recovered` is what an upkeep step does to rows left
behind.

### Processes

`AnalysisPool` is a batch: the turn's thread with its slots, K threads with a dedicated worker each,
cancels that race with answers, limits and deaths. `DecodeWorker` is the path of a single file: the pooled
worker bound to the thread that forked it, one-off workers and resends. `ActionChild` is the child of one
runner action with its readiness, limit, kill and reap, and the window between fork and binding.

### Records of people

`PersonalRecords` holds the four record stores that share one pattern, with their own writes, merges and
retention: a transaction's sequence number is allocated before its commit, so that commits may be out of
order where nothing serializes them. `DiscoveryRecords` adds aliases and deduplication by identity.
`CollectionFeed` has requests with idempotency keys, restores in chunks, withdrawals and the rekey.
`FriendAlbums` is the pair of a sharing instance and a receiving one.

What these modules leave out is in `PROJECT.json` by component; each module's constants name its bounds.

### Composition in the MC modules

`MCProfilePublication`, `MCProfilePublicationRekey`, `MCProfileStream` and `MCRunner` instantiate one module.
`MCPersonalRecords`, `MCSourceStreams` and `MCWorkflows` instantiate several components that share no table.
A run of these explores the components one at a time: `focus`, chosen at the start, names the one whose
actions are enabled, the WITH clause maps its variables to a common set, and variables it lacks are `None`.
The state graph is the disjoint union of the components' graphs, and a property holds in it exactly when
it holds in each: `FollowersHoldStreams`, for instance, is the conjunction of what the followers of four
streams are promised. Where a component's graph is too large in full, its focus names the actions that
meet: two catalogue refreshes with a reader; a projection with a reader, over generations a refresh has
published; two builders without a reader; a builder with one.

## 3. What is checked

| Run | Instance | Shows |
|---|---|---|
| `profile_one_track` | 1 track, 2 media, 3 tokens, `RetryLimit` 1, 3 publications, 2 workers, 2 analyzer upgrades | Six invariants, two action properties and the refinement of `PublicProfiles` over every interleaving of schedulers, workers, edges, repairs and publications |
| `profile_liveness` | `FairSpec`, `RetryLimit` 2, 3 publications | `Convergence`, `ClaimsEnd` and the `RetryBudget` |
| `profile_upgrade` | `FairUpgradeSpec`, `RetryLimit` 2, 2 further publications | From what 1.2.5 can leave behind no step adds a stale publication (`NoNewStalePublication`), and every track settles (`UpgradeSettles`), but for a row left ready and unpublished whose media come back only after the install |
| `profile_rekey` | 2 tracks, 3 publications or rekeys | `ServiceSurvivesRekey` and `NoEdgeResurrection` when profiles move between IDs, there and back |
| `stream_service` | 1 track, 2 media, waveforms and edges, 1 client with either opt-in, changing limits | `ReadersConverge`, `JournalDense`, `HeldSessionsReadable` over every interleaving of publishers, compactions, captures and pages |
| `personal_records` | 2 records, 2 requests, 2 processes; 2 wants of one identity; 2 collections with 2 items, restores in two chunks | `FeedsComplete`, `RecordsKept`, `OneWantPerIdentity`, `KeyedOnce`, `NewestStays` |
| `runner` | two workers; a server and a worker; a server alone | `SleepersMissNothing`, `HeldClaimsStay`, and under fairness `WorkComesBack` |
| `source_streams` | 2 tracks, albums or files, 2 publishers or workers, 1 client, pages of 1 | the safety of catalogue, analysis, relationship, loudness and credits streams, of the analysis processes, a friend's albums and the allowance |
| `workflows` | `FairSpec` of each component, the least instance of each | what must eventually happen in workflows, transitions, syncs, children, credits and loudness, and two safety properties of the same instances |
| `profile_analyzer_upgrade` | as `profile_one_track`, one upgrade | Finding 1 |
| `profile_rekey_withdrawal` | as `profile_rekey` | Finding 2 |
| `stream_limit` | as `stream_service`, one profile and edge | Finding 3 |

Why the bounds are enough. Every action of the core but `Rekey` reads and writes the rows of each of its
tracks independently of the others, apart from distinct tokens, so one track shows every interleaving of
its rows; the theorems cover any number. Two media tell "current" from "replaced", and three publications
let a track get media, change or lose them, and get them back. Three tokens let a row be claimed a third
time while two obsolete workers run. The code's own retry limit is 3:
`profile_one_track`, whose properties do not read the count, takes 1, and the two runs with liveness take
2, the least value with a cooldown between two attempts. The rekey needs two tracks, and a second one to
come back.

The stream's runs take one track and one client for their size. Rows of different tracks meet in the
journal only, where an event of another track is one more event, and clients meet in the floor hold (the
least of their heads), in the slots and in the capture lock; all properties of this run are theorems for
any number of clients and tracks. `Init` has a profile that is older than the
journal, as an upgraded install does, so three events let it get an edge and a new waveform and then lose
or replace the edge, behind a session or between live pages, with a floor that follows one event behind.

Of the other components. Two publishers and two changes of what they read are the least instance in which
a base moves under each of them. A page of 1 over two rows puts a publication between any two rows of a
page. `Retain` is 1 or 2, so that a floor passes a client that stops. One worker that dies once, at any
point, shows each state a successor can find, and in `workflows` a second credits process claims what the first
one's lease ran out on while that one goes on; a third process adds no new state of the row it takes over.
Three files on two threads let a late answer meet a slot that was given again. Three paths of one song in
two libraries give a move, a move out of the selection and an ambiguous pair. One release of Navidrome
that comes at any time, and one ping or fetch without an answer, fall into each gap of a refresh and of a
projection. The edge pass starts with one track at most beside the turn (`MaxEdge`), and a friend has analysed
its first album at the start (`Shared`): two more bounds of size, which every theorem leaves open. The
sizes of each part of `source_streams` and `workflows` are constants of the MC module that the
configuration sets, so that the theorems about these compositions are about any sizes; what is fixed in the module
itself is the sizes of credits and loudness in `workflows`, one credits process in `source_streams`, and which actions a focus enables. In `personal_records` devices send journeys with the
old song ID only (`Songs`), as a device that was away through a rekey does, and the feed holds four events, which a
rekey of two full collections at once does not fit into; a rekey of one is in it.

Symmetry is taken over sets whose members nothing orders, not over the albums of loudness, which a publication
journals in an order.

`CHECK_DEADLOCK FALSE` is set throughout: a source whose tracks are all served really is at rest once its
bounded publications are used up, and so is a journal at its bound with clients that have read it.

### The properties

Core:

* `PublishedIsCurrent`: no profile of a removed track or replaced media is served, whatever completes
  while the catalogue moves. `NoNewStalePublication` is its form for an upgraded install.
* `WithdrawnOnlyOnProof`: nothing but proof of removal or replacement takes a profile from clients: no
  failure, missing fingerprint, lost claim or new epoch.
* `FeedMatchesPublication`: a client that applied the journal has what the tables serve;
  `ServiceSurvivesRekey` adds `PendingIffClaimed` and says both of rekeys.
* `PendingIffClaimed`: a row is pending exactly while it holds a claim nobody else holds.
* `ReadyIsServed`: what the scheduler takes as done is served.
* `ImplementsPublicProfiles`: the journal is the abstract service.
* `RetryBudget`: on one media revision the backfill loses at most `RetryLimit` attempts in a row with one
  analyzer. The history variable `losses` starts again when an admission is for another revision or
  analyzer than the last one, or a publication shows other media than the last counted loss was about.
* `NoEdgeResurrection`: an edge no published row reaches stays unreachable, so its purge may be late.
* `Convergence`, `ClaimsEnd`: each track is served or has used up its attempts, and each claim ends.
* `UpgradeSettles`: so it is with each track of an upgraded install, whatever rows the upgrade found, but for
  a row that 1.2.5 left ready and unpublished of media that return after the install (section 5).
* `ReadersConverge`: a client that has read up to the head has exactly what is published, edges included,
  whichever way it started and whatever was published, purged or withdrawn between its pages. Only an
  edge it has queued for a fetch may be missing.
* `JournalDense`: between floor and head no event is missing, so that a page is a prefix of what happened.
* `HeldSessionsReadable`: the floor stays at or below the head of a live session, from the head its
  admission read, over the later head of its capture, to its catch-up, unless the journal has outgrown the
  held limit. A capture that took longer than ten minutes has lost its hold and is excluded.

Streams (`source_streams`):

* `BuildsFromInputs`: what is published is computed entirely from the inputs the state row records, however
  the inputs moved between checkpoints and whichever builders staged them.
* `LeasesKeepCatalogue`: the generation of a live session stays stored until the session ends.
* `AlbumsFollowCatalogue`: once the turn has followed a generation, each album whose members are all
  measured and not all silent has a record, and each record is of exactly the members and media its album
  has now.
* `FollowersHoldStreams`: a client at the head of a stream holds what is published, in relationships,
  catalogue, analysis, loudness and credits, across pages, new epochs and compactions. An analysis client whose
  session lost its generation (`LeasesKeepAnalysis`, section 5) is excluded.
* `FilesFinishedOnce`: each file a pass took is finished exactly once, whichever answer of an earlier pass
  arrives; once a pass has cancelled its files no worker decodes one; an answer a thread reads is about
  its own file; no decode ends because another thread did.
* `CopiesAreTheirs`: a connection that reports "complete" shows what its present credential fetched, which
  is the friend's table when that did not change since the fetch began; one that is gone has no copy.
* `AllowanceKept`: no day sees more requests than its allowance.

Records (`personal_records`):

* `FeedsComplete`: a device at a cursor has each record committed up to it, in each store; the collection
  feed applied is the tables, an item is in one collection.
* `RecordsKept`: of two devices that write on one revision only one is acknowledged, a repeated mutation is
  applied once while its receipt is kept, and a cover never names a photo that is not stored.
* `OneWantPerIdentity`: whatever IDs two devices gave it offline, and whatever was deleted and restored, an
  album has one live want. `KeyedOnce`: while a key's receipt or progress is kept, what is sent under it
  takes effect once, a restore chunk by chunk.
* `NewestStays`: no write of a device that was away loses a journey's listening credit, puts back an older
  state of an entry, or an older place unless the newer one names an entry which that device's body no
  longer holds (`merge_journey` keeps it only while its entry is null or there); a removed shelf period comes
  back only by a restore, and a discovery field that changes was set at or below the base of the mutation
  that changes it.

Runner and workflows:

* `SleepersMissNothing`: a leader that sleeps to its sweep with no notification at hand has missed no
  recorded work of its lane. `HeldClaimsStay`: nobody takes on-demand work from a leader that serves it,
  holds its lock and is seen online. `WorkComesBack`: claims of dead processes come back and rows are done.
* `WorkIsDone`: a backfill that says complete leaves no track undone that it was woken for, and a complete
  run had each song its hooks recorded projected. `WorkEnds`: tracks are profiled, runs finalised, syncs
  complete or given up, actions back in their turn.
* `AloneAtWork`: an action is never at work twice: not in a child and in the thread that gave up on it, nor
  in the child of a process that died and in the process that took its role over (on Linux, where the
  kernel ends a bound child with its parent; elsewhere a thread looks once a second).
* `RekeysKeepRows`: a song that stays in a library keeps its profile through a provider's ID change or a
  file's move. Of a Navidrome release the admission shield is as good as its ping: a refresh that began
  before the release and publishes after it may lose profiles, and so may the publication that replaces
  what it published (`Stray`). No other step does.
* `TransitionsEnd`: no transition or hold lasts for ever, unless the baseline of the transition's proof has
  moved, and only a stray, or a refresh or projection that the release overtook, moves it (`BaselineKept`).
* `StreamsCatchUp`: credits are those of the album's current input again and again, and each track is
  measured or parked.

A property that is a conjunction has one mutant in `PROJECT.json`; each of its parts was shown to be
violated by a mutant of its own, and the operators commented as plausible bugs, or named for what they
drop, remain in the modules for that.

### Fairness

`ProfilePublication!Fairness` holds the code's own schedulers to their work: a runner turn selects and
admits a batch (`SelectBatch`, `AdmitBatch`) and recovers claims by their age (`ReleaseCounted`); time passes
(`CooldownEnds`); an analysis ends within its time limit (`Complete`); every refresh runs the orphan sweep
(`WithdrawOrphans`). The repair (`RepublishReady`) is *not* fair: an install runs it once, which is part of
`UpgradeInit`, and later only an operator does. The workers' start is *not* fair either: a
queue may lose every job, and recovery alone must do. Nothing is assumed of users, pauses, scans or edges.
All of it is weak fairness.

The others. `Runner`: each process's own steps, restarts and timeouts, heartbeats, retries falling due and
AudioMuse's jobs ending, with strong fairness of a row's success (an action that is tried again and again
succeeds in the end). `Workflows`: the steps of
either lane, the ages after which rows are recovered and retries due; strong fairness only of the heavy
lane's taking of work, which light work may disable again and again while a turn gives it its share, and
of the backfill's ageing. `NavidromeIdentity`: refreshes, the projection, the health check, and AudioMuse's
mapping moving at last. `JellyfinMoves`: refreshes, the server answering again, AudioMuse's job ending,
days passing. `FriendAlbums`: the workers and the retry time. `ActionChild`: the leader's own loop, *not*
the child. `CreditsStream`: the worker's steps, leases and retries expiring, strong fairness of visits and
claims, which the walk by rank reaches in every round. `LoudnessRecords`: the turn, the edge pass, waits
and cool-downs, and the report of a decoder that is back. In `workflows` the conditions of the components
are merged into five weak and two strong ones by `focus`: with one component moving, each is exactly that
component's own condition.

### Three disagreements

1. **An analyzer upgrade suspends the attempt budget** (`profile_analyzer_upgrade`).
   `backfill_due_sql` selects any row whose `analyzer_ver` is older than the installed one, whatever its
   status, count and cooldown are, and only a completion brings `analyzer_ver` up to date. A row whose
   claims are lost after an upgrade is due for ever, at once, although `stale_due_sql`'s docstring says an
   exhausted row stays exhausted for the same media and that released rows wait for their cooldown.
   `Convergence` fails with upgrades for the same reason, so `profile_liveness` has none.
2. **A rekey publication withdraws nothing** (`profile_rekey_withdrawal`). It replaces the generation by
   one whose other tracks may be gone or of other media, without `withdraw_catalog_changes`; the ledger
   says that catalogue publication withdraws changed and deleted media with a delete event. The profile
   stays public until a later admission, sweep or publication reaches it.
3. **A shrinking library fails a held catch-up** (`stream_limit`). `catchup_limits` promises that "a session
   the hold kept readable never gets 413 at catch-up", since it uses the limit the hold uses. A catalogue
   publication of a smaller library lowers `retention_limit` without compacting
   (`refresh_profile_retention`), and each later event moves the floor only a little: a session whose
   events are all stored then has more of them than the new limit allows.

Each passing run's property has a mutant in `PROJECT.json`: a plausible bug in one mapped definition
under which TLC finds the property violated.

## 4. What is proved

`ProfilePublication`: for every finite or infinite set of tracks, media and tokens and every bound, from `ConstantsAssumption`
(the null values are not media or tokens; limits are naturals) and `NoneAssumption` (the absence of a row
is not a row):

| Theorem | Statement |
|---|---|
| `TypeCorrect` | `TypeOK`, from both initial states |
| `ClaimsAreExclusive` | `Spec => []PendingIffClaimed`; after an upgrade, whose old claims have no token, the lemma `ClaimsStayExclusive` |
| `NoNewStale` | `NoNewStalePublication`, from both initial states |
| `PublicationIsCurrent` | `Spec => []PublishedIsCurrent` |
| `WithdrawalNeedsProof` | `WithdrawnOnlyOnProof` |
| `JournalIsComplete` | `FeedMatchesPublication` |
| `ReadyRowsAreServed` | `ReadyIsServed` |
| `WithdrawnEdgesStayUnreachable` | `NoEdgeResurrection` |
| `JournalImplementsService` | `Spec => ImplementsPublicProfiles` |

The argument. `TypeOK` and `PendingIffClaimed` are inductive together with nothing else: every action that
ends a claim clears the token and the status at once, and `Admit` takes tokens no row or job holds. That
no publication becomes stale is a fact of single steps: a completion publishes only what the catalogue
says under the lock, and a publication withdraws what it replaces; from a fresh install the invariant
follows. Whatever changes the journal is one of `Publish`, `Unpublish` and `PublishEdge`, and a lemma for
each says how it keeps the journal equal to the table. `ReadyIsServed` is not inductive: a row that is
ready for media the catalogue does not show now may become current again with a later publication, so the
strengthening says that every ready row whose media is not known to be replaced has its published row.
The refinement needs that versions only grow (`VersionsGrow`: a row's, a worker's
and a published profile's version is at most the installed one, and a completion never publishes an older
version over a newer one of the same media); each action then maps to `Refresh`, `Serve`, `AttachEdge` or
a stutter.

`RetryBudget` holds as long as nothing is upgraded (with upgrades it is finding 1), so that is what
`BackfillWithinBudget` states, of both specifications: `[](version = 1)` implies `[]RetryBudget`. The row's counter and
the history start again in different places; the invariant (`BudgetInv`) says that the history is at most the counter,
that it is empty when the counter is about other media than the catalogue shows, and that a claim of the backfill, and
a row of a batch it has read and not yet admitted, leave room for one more loss.

`ProfilePublicationRekey` (the end of `ProfilePublicationProofs`): `ServiceIsRekeyed` (`ServiceSurvivesRekey`) and
`RekeyBringsNoEdgeBack` (`NoEdgeResurrection`), for any library and any rekey, colliding moves, chains and
exchanges included. A rekey journals deletes and upserts of many tracks at once; the proof is by track: an old ID, a new ID, any other.
That no withdrawn edge comes back rests on an invariant of its own (`RowsKept`): a rekey of v1 may leave an edge payload
under an ID, but never without the attempt row, with which a row moved there collides.

`ProfileStream`: for any number of tracks, any sets of media, digests, clients and limits, and any
multiplier and advance, from its `ConstantsAssumption`:

| Theorem | Statement |
|---|---|
| `StreamInvariant` | the inductive invariant below |
| `JournalIsDense` | `JournalDense` |
| `HeldSessionsCanCatchUp` | `HeldSessionsReadable` |

The argument. `HeldSessionsReadable` is about ready sessions, but a session becomes ready with the head its
capture has read, which is later than the head its admission read, and only the latter held the floor in
the meantime. `StreamInv` therefore says of a running capture, too, that its head is kept (`CaptureOK`):
the hold covers it because the admission's head is not later. `TargetBounds` is the heart: the floor a
compaction aims at passes the head of a holder only if the journal has outgrown the held limit;
`LeastExists` (a nonempty set of naturals has a least element, from the library's well-founded induction)
gives the hold its meaning for any set of clients. `Compaction` turns this into "what was kept is kept",
`JournalStep` into the invariant of every action that journals, and `SessionStep` reduces an action of a
session to the four statements about that session.

`ReadersConverge` and the types of the stream (`ProfileStreamProofs`), from the same assumptions and
`NoneAssumption` (the absence of a row is not a row), are `StreamTypes` and `ReadersHaveWhatIsPublished`. The argument. At a cursor
`q` a client is right about each track that no event after `q` is about (`Follows`), and the last event about a track
says what is published (`JournalSays`); at the head both give the property. The rest of the
invariant says why each way of reading keeps `Follows`: the rows a running capture has copied and those it has yet
to read, the snapshot of a session and its unread rows, a catch-up that was copied at the end of the
bootstrap and the part of it still to be applied, the replay of a page whose answer was lost, the legacy bootstrap over the
live tables, where a row may have moved behind the reader but then has an event after the head the
bootstrap began with, and the delta.

`MetadataJobs`: from `MetadataAssumption` (the sets of jobs and processes are finite, bounds are naturals),
for any allowance and any number of days, crashes and failures, `AllowanceIsKept` (`Spec => []AllowanceKept`).
`AllowanceKept` is about requests sent, and a process that has reserved one may still send it: the
invariant says that the requests sent and the processes about to send one of the current day are together
no more than the allowance used. A worker that dies or fails leaves that set and the sum falls, one that
reserves moves both sides by one, one that sends moves from one summand to the other, and at midnight no
process waits to send a request of a day that has not begun (`NoFutureDay`).

`RelationshipBuild` and the suite of `source_streams` (`SourceStreamsProofs`, which extends `SourceWorkersProofs`: there are
the analysis processes, the friend's copies, and loudness and credits with their clients), for any number of entities, tracks,
albums, files, builders, refreshes, threads, clients, connections, generations, requests and crashes:

| Theorem | Statement |
|---|---|
| `PublishedSetIsBuilt` | `RelationshipBuild`'s `Spec => []PublishedFromInputs` |
| `SuiteBuildsFromInputs` | the same of the suite: `BuildsFromInputs` |
| `SuiteKeepsAllowance` | `AllowanceKept` of the suite, by citing the lemmas of `MetadataJobsProofs` through an instance |
| `SessionsKeepTheirRows` | `LeasesKeepCatalogue` |
| `CopiesStayTheirs` | `CopiesAreTheirs` |
| `FilesAreFinishedOnce` | `FilesFinishedOnce` |
| `AlbumsStayFollowed` | `AlbumsFollowCatalogue` |
| `FollowersHoldWhatIsPublished` | `FollowersHoldStreams` |

The argument of the first. A build may be begun by one process and finished by another, its inputs may move between any
two of its checkpoints, and it compares digests and not contents. Four facts carry it: the history of what
the inputs were only grows at its end, so that a state once named keeps its content; the rows a build has
staged belong to the identity it was begun for, phase by phase (a row of a build of older inputs is removed
before the first new one is staged); what a builder holds in memory agrees with its build, and the rows it
has read are the right ones *unless* an input has moved since, in which case its next checkpoint under the
lock says so; one builder holds the build's lock. The state row may name an analysis that is newer than the
one staged from, with the same digest, so the invariant says digest-equal where one expects equal.

`LeasesKeepCatalogue` (`LeasesInv`): the published generation is stored, and whatever a refresh that has finished
prunes for was published by then and is not newer than the published one, so that the pins which its
transaction reads are those of every session that may name an older generation.

`CopiesAreTheirs` (`FriendInv`): the token of a pairing is new whenever its credential changes, so that a worker whose
token the row still has carries the row's credential; the pages it has fetched are a prefix of what the friend's
table held, followed by what is still to be fetched, unless that table has changed since; what it publishes
it publishes under that comparison of tokens.

`FilesFinishedOnce` has two halves. In the pool (`PoolInv`) a file that was taken is queued, or held by one thread, or handed back,
and it is finished once exactly when it was taken and is not in flight; a cancelled pass is known to the slot or about
to be told to it, so no answer of its own is counted twice and none of an earlier pass at all. On the single-file path
(`DecodeInv`) a worker that is waited for was forked by the thread that waits, has that thread's file and owes an answer
to nothing else; the pooled one is only waited for under its lock, and when the lock is free it is idle.

`AlbumsFollowCatalogue` (`LoudInv`): the generation a pass follows is not newer than the catalogue's; a publication that
is open knows the album of its track for as long as the followed catalogue stands, and an album of which all members are
measured and not all silent has its record, or the open publication that completes it will pool it.

`FollowersHoldStreams` has an invariant for each stream. Those of relationships, catalogue and analysis, and loudness have two
statements in common: of each row the last event in the journal says what is published, and a client at a cursor is right
about each row that no later event is about. At the head nothing is later. (The credits keep versions, and what was published
at each head: a client holds what was published at its own.) What differs is why the two survive.

* A publication journals the differences of two tables in the order of a key, each differing row once (`Ranked`: the
  i-th event is about the row that i rows do not follow, so that the events are a numbering of the differences). That the
  table it was compared with is still the published one is a fact about the base: the build's lock and state row
  for relationships, the re-read of `catalog_state` for a refresh, the lock of the analysis state that a projection holds from
  its writes to its commit (`IsWritten`: what it wrote goes with the job until then, and no other projection has written).
* A page is applied row by row, of each row its last event in the page (`PageIsApplied`, `PageFollowed`); a later event that the page
  cuts off is an event after the new cursor.
* Compaction removes events at the floor only (`Shrinks`), and a client whose cursor is behind the floor starts again.
  An event of the catalogue or the analysis tells of the generation that is published when it is written; a
  new epoch (a fingerprint schema, a rekey of loudness records) makes every copy of an older one void.
* A bootstrap over several reads is right about what it has read. In relationships each page checks that the generation is
  the one it began with, and while it is, the client holds the published rows up to its place (`PagesThrough`). In catalogue and
  analysis a session pins a generation, which differs from the published one only in rows with an event after the
  session's cursor. In loudness the head is read before the rows, so that what moves behind the reader has an event after that head,
  and a floor that passes the head meanwhile refuses the first page of changes.
  In credits the head is fixed, and from the floor on the versions that are left say what the results were at
  each head (`VersionsTell`), so that the page of an old head is exact or refused.

A session whose generation the projection pruned (`LeasesKeepAnalysis`, section 5) is marked `torn` and excluded, as
in the property.

`WorkflowsProofs`, of the suite of `workflows`, for any number of leaders, actions, runs, songs, files and tracks:

| Theorem | Statement |
|---|---|
| `ActionsAreAloneAtWork` | `AloneAtWork` |
| `CompletedWorkIsDone` | `WorkIsDone` |
| `ProfilesFollowTheirSongs` | `RekeysKeepRows` |

The arguments. `ChildInv`: a child that works is bound to a parent that lives, or was forked by a process that has not
yet bound it and waits; a thread acts itself only when its child is reaped or was never forked; and a process takes
the role over when the one before is dead, with which its children died. `WorkInv` and `RunInv`: a batch that has
not looked since the last wake is not the one that finishes, and a run is completed in the transaction in which no recorded
song is left. `ReleaseInv` of a Navidrome: the published ids are all of one scheme, which the provider has or had, and a version whose ids were
compared, an applied rekey and a trusted refresh each say that it is the provider's; what a refresh has fetched is of that
scheme, too. Each of these holds of what nothing overtook: a refresh carries the provider's version at its start, and
a catalogue whose ids are not of the provider's scheme, under a version said to be checked, is a stray (`Sound`). Of a Jellyfin nothing is needed but that what a refresh scanned is
its own: a song that is still in a library is either where it was or at the one target its fingerprint proves.

`PersonalRecordsProofs`, of the suite of `personal_records`, for any number of records, requests, images, wants,
collections, items, keys and processes and every bound, from `ValuesAssumption`, `NilAssumption` and `FeedBounds` (the
absence of a value is not a value, kinds of values are told apart, there are finitely many ids):

| Theorem | Statement |
|---|---|
| `AcknowledgedRecordsStay` | `RecordsKept` |
| `AlbumsAreWantedOnce` | `OneWantPerIdentity` |
| `NewestIsKept` | `NewestStays` |
| `KeysAreAppliedOnce` | `KeyedOnce` |
| `FeedsAreComplete` | `FeedsComplete` |

The arguments. `RecordsInv`: one transaction at most is open in a store, and the tables it is going to commit are
consistent with the history as it will then be and follow the committed ones. `DiscoveryInv`: an alias leads to the first want of
its identity (`FirstOfIdentity`), and a field that was never set is what it was created with. `KeysInv`: the rows of a key count its
effects, and no two open transactions share one.

`FeedsComplete` is about three kinds of feeds. In the record stores (`CursorInv`) what an open transaction has
written is numbered above every committed record, and so above every cursor that was read from one. A
discovery device (`ReaderInv`) has, up to its cursor, copies of records whose numbers are all different and at most the
head, so that a page cut anywhere leaves no record of the same number behind. For the collections (`ClientInv`) each open
transaction has locked the rows it writes apart from those of any other, and its block of events does to *any* copy
what its writes do to the tables (`Tells`); what it writes of a deleted collection's items it need not tell.
The rekey's block has one event for each collection, in an order the code leaves to the ids: `ItemsTell` shows for
any sequence of item events that agrees with the writes that it tells them, by the least event at which a copy
would differ. That is an induction over data which needs no induction theorem: `LeastExists`
stands in for it, and the block is applied by a recursive function (`Applied`).

`Runner`: for any set of lanes, roles, actions, processes and rows, and any bounds:

| Theorem | Statement |
|---|---|
| `RunnerInvariant` | types, and what closed and sleeping leaders have seen |
| `SleepersMissNoWork` | `SleepersMissNothing` |
| `ClaimsOfServingLeadersStay` | `HeldClaimsStay` |

The argument. `SleepersMissNothing` is about leaders asleep; the invariant (`CalmMissNothing`) says the same of a leader
that closes its turn without work and that no notification waits for, from its last look on: whatever records work
in between notifies every connected leader in the same step, a leader that has lost its connection is not calm, and
one that comes back starts with a new look. An action that failed in the turn is settled: its rows wait for its
retry, and the property excludes them. The second is an action property: `DemandStep` says that only a turn that
starts takes claims away from a role, and such a turn holds the role's lock, so that it is of the claim's own
process or of a role that finds no live leader.

Only model-checked: liveness (`Convergence`, `ClaimsEnd`, `UpgradeSettles`, `WorkComesBack`, and
`TransitionsEnd`, `WorkEnds` and `StreamsCatchUp` of `workflows`), since fairness and `ENABLED` are beyond the
prover. Every other property of a passing run is a theorem.

## 5. What the models also showed

Met while modelling and outside the runs above: TLC found these with definitions that the modules keep
(named here) or they were read off the code. None is used by a property that passes.

Disagreements with a comment or a document:

* `NothingReadySleeps` (`Runner`): a retry that falls due between a turn's last look and the read that sets
  its sleep (`__init__.py:7472`) counts as ready work, which sets no wake time, so the leader sleeps to the
  fifteen-minute sweep with work ready (`docs/plan/LUMAE_RUNNER_PLAN_2026-10-25.md:174`).
* `ClaimsAreBuilt` (`RelationshipBuild`): a claim granted between a build's publication and its last update of the
  queued row is overwritten by "complete" (`relationship_build.py:588`, an unconditional update), although a queued
  build is said to be taken when its wait ends (`catalog_enrichment.py:2063`); the next change or sweep asks
  again. A rekey keeps the epoch, so a build staged before it finishes with the old provider IDs and is
  replaced by the next one.
* `PooledFromRecords` (`LoudnessRecords`): the reconciliation reads who is gone, deletes their records and then reads
  the members of every album (`loudness_stream.py:364`). A track that left and is back by then leaves its
  album's record standing, the members being the same, without that member's record until the track is
  measured again, though `loudness_stream.py:4` says that an album pools its members. A track that is gone
  keeps its record until the next generation is followed.
* `LeasesKeepAnalysis` (`CatalogStreams`): a session of the analysis stream is created under locks of the source and
  catalogue rows only (`catalog.py:3150`) and does not wait for a projection, which locks the analysis state
  (`catalog_analysis.py:890`). One opened between the projection's prune and its commit finds its generation deleted;
  its pages are then empty, without an error, against the docstring of `prune_snapshot_generations` (`catalog.py:147`).
* `RequestsKept` (`CatalogStreams`): a kept request of an app holds the earliest time only (`catalog.py:1938`), so one
  made while a scan runs, beside an earlier one, is cleared by that scan (`catalog.py:1965`) though the change
  it was made for came after the scan had read.
* `CarriedAnalysisKept` (`NavidromeIdentity`): after a rekey whose transition is applied, a projection before
  AudioMuse has mapped the new IDs drops the links the rekey carried, though after publication "catalogue and
  carried analysis sync are safe" (`src/plugins/LumaeAnalysis/CATALOG_SYNC.md:203`).
* The shield of `provider_identity_guard.py:1` is as good as the ping (`RekeysKeepRows` and `TransitionsEnd` state it):
  a release between a refresh's ping and its fetch lets that refresh publish the new IDs as deletions and
  additions, and a refresh or projection that the release overtook may publish when the transition is pending
  already. That moves the baseline of its proof, which is then refused (`provider_identity_rekey.py:700`), and the
  transition waits for an operator.
* `GraceRuns` (`JellyfinMoves`): a hold that expires, or whose library is not read, in a refresh that only counts a
  proof scan and publishes nothing (`catalog.py:2126`) has its row deleted (`jellyfin_continuity.py:681`) while the
  track stays published. The next refresh holds it again with age zero, so that the grace of
  `docs/contracts/LUMAE_SYNC_CONTRACT.md:206` starts anew. A pending proof stays pending while no track is readable.
* `CrashesAreOwn` (`AnalysisPool`): a cancel reads the slot's worker under the lock and kills it after releasing it
  (`analysis_isolation.py:1050`, against `:1029`). The thread may by then have finished that file and given the same
  worker the next one, which is then sent again or counted as a crash.
* `CutOffIsRecovered` (`Workflows`): a preparation that is asked for while one is finishing may be overwritten
  by its final state, which is written unconditionally (`__init__.py:6868`); the next change of the catalogue
  asks again.

Behaviours that a reader may not expect:

* A row that 1.2.5 left ready, journalled and unpublished, and whose media the catalogue did not show at the
  install, counts as done when they come back: nothing publishes it until the next install, or until an
  operator asks for the repair on the settings page (`repair_profile_publications`). `UpgradeSettles` excludes it.
* A friend sync that is `pending` or `running` is retaken without a limit of attempts, only failures count. An
  older rebuild of one's own shared albums may overwrite the row a newer hook wrote, until the next one.
* After a failed download a file of the pool counts as done for its pass. A child action is at-least-once.
* Rows of an action that failed in its turn wait for its retry, those that could have been served too.
* Work that a dying worker had claimed on demand waits for the sweep. While light work is always due, the
  heavy lane of a server alone is served only in its share. A wake that is not forced leaves no trace in a
  backfill that is finishing; forced ones do. A refresh's wake renews `updated_at` of a batch that is dead.
* A reader that pages a bootstrap of credits over several pages records the last page's generation. A job's
  album, loaded before its lock, may be out of date when its result deletes a newer one; the next visit
  repairs it.
* A metadata lookup that failed or was cancelled is answered "queued" when submitted again under its id, with
  nothing run, until it is dropped a week later.

## 6. Not modelled, and why

Signal analysis, the scoring of sonic and textual matches, and the building of search texts are numeric or
string computations without control state. Status, diagnostics, the settings' pages and the web views of
collections read. Host adapters detect APIs, and the schema's statements are idempotent DDL, but for the
seeding of published profiles (`UpgradeInit`). The MusicBrainz client, downloads, pipes and memory limits are
I/O; their outcomes are choices of the modules that call them. Optional storage is one conditional delete.
Row locks are not modelled one by one: a transaction is a step where a row or advisory lock that all its
rivals take makes it one, and several steps where none does, so that deadlocks between transactions are
outside the models. What a modelled component leaves out is in `PROJECT.json`.

## 7. Plan

What would come next: a refinement from each stream with followers to one abstract journal, of which
`ProfileStream`, `RelationshipBuild`, `LoudnessRecords`, `CreditsStream` and `CatalogStreams` would be
instances, as their invariants already have the same two statements; the composition of `Runner` with `Workflows`; and the
order in which transactions lock their rows.
