------------------------- MODULE ProfilePublication -------------------------
(***************************************************************************)
(* Fenced analysis attempts and the public profile publication of one      *)
(* catalogue source (profile_publication.py, with the callers of __init__  *)
(* .py, edge_profile_store.py and catalog.py that change the same rows).   *)
(*                                                                         *)
(* A track's attempt row (source_profiles) says what the scheduler and the *)
(* workers are doing with it; its published row (published_source_profiles)*)
(* is what clients are served, and every change of a published row appends *)
(* one event to the profile journal in the same transaction.  Admission,   *)
(* completion, edge publication, orphan withdrawal, republication and      *)
(* catalogue publication all take the catalog_state row lock first, so     *)
(* each is one step here; what happens between them (the download and the  *)
(* analysis, the scheduler's read of its batch, the edge purge) is not     *)
(* under that lock and is a step of its own.                               *)
(*                                                                         *)
(* A media fingerprint is a model value.  A track of the published         *)
(* generation has one, or none (None), or is missing or unavailable (Gone).*)
(* The journal is kept as `feed`: for each track the state a client has    *)
(* after applying every event.                                             *)
(***************************************************************************)
EXTENDS Naturals, FiniteSets

CONSTANTS
    Tracks,           \* tracks of the source; it may have others, which no row here names
    Medias,           \* media fingerprints
    Tokens,           \* attempt tokens (uuid4): one is reused once nothing holds it
    None,             \* SQL NULL / no row
    Gone,             \* no available occurrence in the published generation
    ScanMedia,        \* what a provider scan may report of a track
    RetryLimit,       \* RETRY_LIMIT
    MaxGeneration,    \* bound: catalogue publications
    MaxVersion,       \* bound: analyzer upgrades
    MaxJobs,          \* bound: analyses in progress at once
    MaxInterruptions  \* bound: on-demand requests and uncounted releases

ASSUME ConstantsAssumption ==
    /\ None \notin Medias /\ Gone \notin Medias \cup {None}
    /\ None \notin Tokens
    /\ ScanMedia \subseteq Medias \cup {None, Gone}
    /\ RetryLimit \in Nat \ {0}
    /\ MaxGeneration \in Nat /\ MaxVersion \in Nat \ {0} /\ MaxJobs \in Nat
    /\ MaxInterruptions \in Nat

VARIABLES
    catalog,        \* media_fp of each track in the published generation
    generation,     \* catalog_state.published_generation
    epoch,          \* catalog_state.catalog_epoch
    version,        \* the installed analyzer and schema version
    rows,           \* source_profiles
    published,      \* published_source_profiles
    edges,          \* edge_profiles: the media an edge payload was made from
    edge_jobs,      \* edge_profile_jobs
    feed,           \* the profile journal, applied
    jobs,           \* analyses in progress in worker processes
    batch,          \* what a backfill task selected and has not admitted yet
    losses,         \* history: background attempts lost in a row, see RetryBudget
    interruptions   \* counts towards MaxInterruptions

catalogVars == <<catalog, generation, epoch>>
publicVars == <<published, feed>>
edgeVars == <<edges, edge_jobs>>
vars == <<catalog, generation, epoch, version, rows, published, edges, edge_jobs,
          feed, jobs, batch, losses, interruptions>>

Pending == {"pending", "pending_interactive"}
Statuses == Pending \cup {"none", "ready", "failed", "stale", "deferred"}
Categories == {"none", "transient", "revision", "queue_unavailable"}
Cooldowns == {"none", "cooling", "due"}

Media == Medias \cup {None}
Versions == 0..MaxVersion
Counts == 0..RetryLimit
Profile == [media : Medias, ver : Versions]
Event == [media : Medias, ver : Versions, edge : BOOLEAN]
EdgeJob == [media : Medias, status : {"open", "ready", "failed", "unsupported"}]
Job == [track : Tracks, token : Tokens, media : Media, ver : Versions]
Row == [status : Statuses, token : Tokens \cup {None},
        attempt_media : Media, attempt_epoch : Nat, attempt_ver : Versions,
        media : Media, ver : Versions,
        category : Categories, count : Counts, after : Cooldowns,
        retry_media : Media, retry_ver : Versions]

\* The absence of a row is not a row.
ASSUME NoneAssumption == None \notin Profile \cup Event \cup EdgeJob

NoRow == [status |-> "none", token |-> None,
          attempt_media |-> None, attempt_epoch |-> 0, attempt_ver |-> 0,
          media |-> None, ver |-> 0,
          category |-> "none", count |-> 0, after |-> "none",
          retry_media |-> None, retry_ver |-> 0]

-----------------------------------------------------------------------------
(* Reading the published generation.                                       *)

\* A plausible bug: an occurrence that lost its fingerprint counts as removed.
AvailableWithMedia(t) == catalog[t] \in Medias

Available(t) == catalog[t] # Gone

\* _current_revision: None without an available, fingerprinted occurrence.
Revision(t) == IF catalog[t] \in Medias THEN catalog[t] ELSE None

\* A plausible bug: an unknown revision counts as another one.
DifferentOrUnknown(stored, current) == stored \in Medias /\ stored # current

\* Only two known, unequal revisions prove that the media was replaced.
KnownDifferent(stored, current) ==
    stored \in Medias /\ current \in Medias /\ stored # current

\* An edge payload is served only through a published row of the same media.
Reachable(t) ==
    /\ published[t] # None /\ edges[t] # None
    /\ published[t].media = edges[t]

PublishedMedia(t) == IF published[t] = None THEN None ELSE published[t].media

-----------------------------------------------------------------------------
(* What the retry columns say.                                             *)

\* retry_count + 1.  The column has no cap; it is compared with the limit only, so
\* the model lets it saturate there.
Bump(n) == IF n < RetryLimit THEN n + 1 ELSE RetryLimit

\* retry_after of a used attempt: a cooldown while attempts remain.
Cooldown(n) == IF n < RetryLimit THEN "cooling" ELSE "none"

RevisionChanged(t) ==
    /\ catalog[t] \in Medias
    /\ rows[t].retry_media # None /\ rows[t].retry_media # catalog[t]

\* A plausible bug: an abandoned attempt is due whatever it has used up.
StaleDueForever(t) == rows[t].status = "stale" /\ rows[t].category = "none"

StaleDue(t) ==
    /\ rows[t].status = "stale"
    /\ \/ rows[t].category = "none" /\ rows[t].count < RetryLimit
       \/ /\ rows[t].category = "queue_unavailable"
          /\ rows[t].count < RetryLimit /\ rows[t].after = "due"
       \/ RevisionChanged(t)

FailureDue(t) ==
    /\ rows[t].status = "failed"
    /\ \/ RevisionChanged(t)
       \/ rows[t].retry_ver # 0 /\ rows[t].retry_ver < version
       \/ rows[t].category = "none" /\ rows[t].count = 0
       \/ /\ rows[t].category \in {"transient", "queue_unavailable"}
          /\ rows[t].count < RetryLimit /\ rows[t].after = "due"

\* backfill_due_sql over the available occurrences.
Due(t) ==
    /\ Available(t)
    /\ \/ rows[t].status \in {"none", "ready", "failed", "stale"}
       \/ rows[t].status = "deferred" /\ catalog[t] \in Medias
    /\ \/ rows[t].status = "none"
       \/ rows[t].ver < version
       \/ rows[t].status = "deferred"
       \/ /\ rows[t].status = "ready" /\ catalog[t] \in Medias
          /\ rows[t].media # catalog[t]
       \/ StaleDue(t)
       \/ FailureDue(t)

-----------------------------------------------------------------------------
(* Withdrawal, publication and the journal.                                *)

\* Plausible bugs: the row stays public, or its delete is not journalled.
UnpublishKeepingRow(W) ==
    /\ published' = published
    /\ feed' = [t \in Tracks |-> IF t \in W THEN None ELSE feed[t]]

UnpublishUnjournalled(W) ==
    /\ published' = [t \in Tracks |-> IF t \in W THEN None ELSE published[t]]
    /\ feed' = feed

\* Delete the published rows of W, which all have one, and journal it.
Unpublish(W) ==
    /\ published' = [t \in Tracks |-> IF t \in W THEN None ELSE published[t]]
    /\ feed' = [t \in Tracks |-> IF t \in W THEN None ELSE feed[t]]

\* _withdraw also deletes the edge payload; a set-based withdrawal leaves it
\* to PurgeEdges.
DropEdges(W) == edges' = [t \in Tracks |-> IF t \in W THEN None ELSE edges[t]]

\* A plausible bug: only replaced media drops the edge, not a first publication.
FreshIfReplaced(t, profile) == published[t] # None /\ PublishedMedia(t) # profile.media

\* The profile is of other media than the published row's, or there is none.
Fresh(t, profile) == published[t] = None \/ PublishedMedia(t) # profile.media

\* Write t's published row and journal the upsert.  A fresh profile first drops
\* the edge payload and edge job; otherwise the event keeps the reachable edge.
\* An identical row journals nothing; one of the same media and analyzer may
\* still hold another waveform.
Publish(t, profile) ==
    LET fresh == Fresh(t, profile)
    IN /\ published' = [published EXCEPT ![t] = profile]
       /\ edges' = IF fresh THEN [edges EXCEPT ![t] = None] ELSE edges
       /\ edge_jobs' = IF fresh THEN [edge_jobs EXCEPT ![t] = None] ELSE edge_jobs
       /\ \/ feed' = [feed EXCEPT ![t] = [media |-> profile.media, ver |-> profile.ver,
                                          edge |-> ~fresh /\ Reachable(t)]]
          \/ published[t] = profile /\ feed' = feed

\* Plausible bugs: the old worker keeps its claim, or the row still looks done.
StaledKeepingClaim(row) == [row EXCEPT !.status = "stale", !.category = "none"]
StaledInPlace(row) == [row EXCEPT !.token = None, !.category = "none"]

\* STALE_RETRY_RESET_SQL: an abandoned attempt loses its token and category
\* and keeps its count.
Staled(row) == [row EXCEPT !.status = "stale", !.token = None, !.category = "none"]

-----------------------------------------------------------------------------
(* Admission (admit_attempts).                                             *)

\* A new claim on a known revision.  The budget restarts for media or an
\* analyzer the last counted loss was not about.
Claimed(t, token, status) ==
    LET row == rows[t]
        other == row.retry_media # Revision(t)
    IN [row EXCEPT
          !.status = status, !.token = token,
          !.attempt_media = Revision(t), !.attempt_epoch = epoch,
          !.attempt_ver = version,
          !.media = IF row.status = "none" THEN Revision(t) ELSE @,
          !.ver = IF row.status = "none" THEN version ELSE @,
          !.count = IF other \/ row.retry_ver # version THEN 0 ELSE @,
          !.category = IF other THEN "none" ELSE @,
          !.after = "none"]

\* An occurrence without a fingerprint waits for one; what it has published stays.
Deferred(t) ==
    [rows[t] EXCEPT
       !.status = "deferred", !.token = None,
       !.attempt_media = None, !.attempt_epoch = 0, !.attempt_ver = 0,
       !.ver = IF rows[t].status = "none" THEN version ELSE @]

\* Tokens no row and no analysis in progress holds.
FreshTokens == Tokens \ ({rows[t].token : t \in Tracks} \cup {j.token : j \in jobs})

Admit(S, status) ==
    LET known == {t \in S : Revision(t) # None}
        replaced == {t \in known : KnownDifferent(PublishedMedia(t), Revision(t))}
    IN \E token \in [known -> FreshTokens] :
         /\ \A t, u \in known : token[t] = token[u] => t = u
         /\ rows' = [t \in Tracks |->
                       IF t \in known THEN Claimed(t, token[t], status)
                       ELSE IF t \in S /\ Available(t) THEN Deferred(t)
                       ELSE rows[t]]
         /\ losses' = [t \in Tracks |->
                         IF t \in known
                            /\ \/ rows[t].attempt_media # Revision(t)
                               \/ rows[t].attempt_ver # version
                         THEN 0 ELSE losses[t]]
         /\ Unpublish(replaced)
         /\ DropEdges(replaced)
         /\ UNCHANGED <<catalogVars, version, edge_jobs, jobs>>

\* profile_backfill_task reads the due rows without a lock ...
SelectBatch ==
    /\ batch = {}
    /\ \E S \in SUBSET {t \in Tracks : Due(t)} : S # {} /\ batch' = S
    /\ UNCHANGED <<catalogVars, version, rows, publicVars, edgeVars, jobs, losses,
                   interruptions>>

\* ... and admits what it read, whatever happened to those rows since.
AdmitBatch ==
    /\ batch # {}
    /\ Admit(batch, "pending")
    /\ batch' = {}
    /\ UNCHANGED interruptions

\* split_analyze_ids leaves alone only a 'ready' row of the current media, and
\* the song hook only a published row that is current throughout.
Served(t) ==
    /\ rows[t].status = "ready"
    /\ Revision(t) = None \/ rows[t].media = Revision(t)

PublishedCurrent(t) ==
    /\ catalog[t] \in Medias
    /\ published[t] = [media |-> catalog[t], ver |-> version]
    /\ rows[t].status \notin {"none", "failed"}

\* POST /analyze and analyze_song_hook.
AdmitInteractive(t) ==
    /\ interruptions < MaxInterruptions
    /\ ~Served(t) \/ ~PublishedCurrent(t)
    /\ Admit({t}, "pending_interactive")
    /\ interruptions' = interruptions + 1
    /\ UNCHANGED batch

-----------------------------------------------------------------------------
(* Attempts that end without an analysis.                                  *)

\* A plausible bug: an attempt that was not used up gets no retry_after at all.
RetryAfterUsed(count, used) == IF count < RetryLimit /\ used = 1 THEN "cooling" ELSE "none"

\* When a released row is due: after its cooldown, at once when the attempt was
\* not used up, never when none is left.
RetryAfter(count, used) ==
    IF count = RetryLimit THEN "none" ELSE IF used = 1 THEN "cooling" ELSE "due"

\* A plausible bug: an attempt that was not used up is given back a second time.
ReleasedGivenBack(row, used) ==
    [row EXCEPT
       !.status = "stale", !.token = None, !.category = "queue_unavailable",
       !.count = IF used = 1 THEN Bump(row.count) ELSE row.count - 1,
       !.after = RetryAfter(row.count, used),
       !.retry_media = row.attempt_media, !.retry_ver = row.attempt_ver]

\* release_attempts and recover_stale_pending_profiles write the same columns;
\* used is 1 when the attempt counts.
Released(row, used) ==
    LET count == IF used = 1 THEN Bump(row.count) ELSE row.count
    IN [row EXCEPT
          !.status = "stale", !.token = None, !.category = "queue_unavailable",
          !.count = count, !.after = RetryAfter(count, used),
          !.retry_media = row.attempt_media, !.retry_ver = row.attempt_ver]

\* One more background attempt lost on the revision last admitted.  (A claim of
\* 1.2.5 was of no known revision.)
Lose(S) ==
    losses' = [t \in Tracks |->
                 IF /\ t \in S /\ rows[t].status = "pending" /\ rows[t].attempt_media # None
                    /\ losses[t] <= RetryLimit
                 THEN losses[t] + 1 ELSE losses[t]]

\* Plausible bugs: recovery misses the claims of 1.2.5, which have no token, or
\* leaves on-demand claims to their workers.
ClaimedByToken(t) == rows[t].token # None
ClaimedInBackground(t) == rows[t].status = "pending"

IsClaimed(t) == rows[t].status \in Pending

\* A pause, a legacy-job migration or an aborted batch never tried.
ReleaseUncounted(S) ==
    /\ interruptions < MaxInterruptions
    /\ S # {} /\ \A t \in S : IsClaimed(t)
    /\ rows' = [t \in Tracks |-> IF t \in S THEN Released(rows[t], 0) ELSE rows[t]]
    /\ interruptions' = interruptions + 1
    /\ UNCHANGED <<catalogVars, version, publicVars, edgeVars, jobs, batch, losses>>

\* A job that could not be queued, or a claim older than
\* PREPARATION_STALE_HOURS: its worker died, or it is still running.
ReleaseCounted(S) ==
    /\ S # {} /\ \A t \in S : IsClaimed(t)
    /\ rows' = [t \in Tracks |-> IF t \in S THEN Released(rows[t], 1) ELSE rows[t]]
    /\ Lose(S)
    /\ UNCHANGED <<catalogVars, version, publicVars, edgeVars, jobs, batch,
                   interruptions>>

\* retry_after <= now().
CooldownEnds(t) ==
    /\ rows[t].after = "cooling"
    /\ rows' = [rows EXCEPT ![t].after = "due"]
    /\ UNCHANGED <<catalogVars, version, publicVars, edgeVars, jobs, batch, losses,
                   interruptions>>

-----------------------------------------------------------------------------
(* Workers.                                                                *)

\* load_track_file reads the media revision and downloads the file.  The
\* process may still run the analyzer that admitted the attempt.
StartAnalysis(t) ==
    /\ rows[t].token # None
    /\ Cardinality(jobs) < MaxJobs
    /\ \E ver \in {rows[t].attempt_ver, version} :
         jobs' = jobs \cup {[track |-> t, token |-> rows[t].token,
                             media |-> Revision(t), ver |-> ver]}
    /\ UNCHANGED <<catalogVars, version, rows, publicVars, edgeVars, batch, losses,
                   interruptions>>

\* A worker process dies with what it was analysing.
WorkerCrash ==
    /\ jobs # {}
    /\ jobs' = {}
    /\ UNCHANGED <<catalogVars, version, rows, publicVars, edgeVars, batch, losses,
                   interruptions>>

\* complete_attempt's fence: the claim is still the row's, in this epoch and
\* for this analyzer.
Holds(j) ==
    /\ rows[j.track].token = j.token
    /\ rows[j.track].attempt_epoch = epoch
    /\ rows[j.track].attempt_ver = j.ver

CompleteSuperseded(j) ==
    /\ ~Holds(j)
    /\ UNCHANGED <<rows, publicVars, edgeVars, losses>>

\* The claimed revision is no longer the catalogue's.
CompleteChanged(j) ==
    LET t == j.track
        gone == ~Available(t) /\ published[t] # None
        replaced == KnownDifferent(PublishedMedia(t), Revision(t))
        W == IF gone \/ replaced THEN {t} ELSE {}
    IN /\ Holds(j)
       /\ Revision(t) = None \/ Revision(t) # rows[t].attempt_media
       /\ rows' = [rows EXCEPT ![t] = Staled(@)]
       /\ Unpublish(W)
       /\ DropEdges(W)
       /\ UNCHANGED <<edge_jobs, losses>>

\* The file was downloaded under another revision: nothing is written, and the
\* claim stays until it is recovered.
CompleteMismatched(j) ==
    /\ Holds(j)
    /\ Revision(j.track) # None /\ Revision(j.track) = rows[j.track].attempt_media
    /\ j.media # Revision(j.track)
    /\ UNCHANGED <<rows, publicVars, edgeVars, losses>>

CompleteReady(j) ==
    LET t == j.track IN
    /\ Holds(j)
    /\ Revision(t) # None /\ Revision(t) = rows[t].attempt_media
    /\ j.media = Revision(t)
    /\ rows' = [rows EXCEPT ![t] =
                  [rows[t] EXCEPT !.status = "ready", !.token = None,
                            !.media = j.media, !.ver = j.ver,
                            !.category = "none", !.count = 0, !.after = "none",
                            !.retry_media = None, !.retry_ver = 0]]
    /\ losses' = [losses EXCEPT ![t] = 0]
    /\ Publish(t, [media |-> j.media, ver |-> j.ver])

\* A failed download or analysis leaves the published row alone.
CompleteFailed(j, category) ==
    LET t == j.track IN
    /\ Holds(j)
    /\ Revision(t) # None /\ Revision(t) = rows[t].attempt_media
    /\ rows' = [rows EXCEPT ![t] =
                  [rows[t] EXCEPT !.status = "failed", !.token = None,
                            !.media = j.media, !.ver = j.ver,
                            !.category = category, !.count = Bump(rows[t].count),
                            !.after = IF category = "transient"
                                      THEN Cooldown(Bump(rows[t].count)) ELSE "none",
                            !.retry_media = rows[t].attempt_media,
                            !.retry_ver = j.ver]]
    /\ Lose({t})
    /\ UNCHANGED <<publicVars, edgeVars>>

Complete(j) ==
    /\ \/ CompleteSuperseded(j)
       \/ CompleteChanged(j)
       \/ CompleteMismatched(j)
       \/ CompleteReady(j)
       \/ \E category \in {"transient", "revision"} : CompleteFailed(j, category)
    /\ jobs' = jobs \ {j}
    /\ UNCHANGED <<catalogVars, version, batch, interruptions>>

-----------------------------------------------------------------------------
(* Edge profiles.                                                          *)

\* claim_edge_requests: a published track without a current edge.  A failed job
\* may be past its backoff and is claimed again; a job the media can never
\* satisfy is not.  (Claiming an open job again changes only its token, which
\* a worker's publication must match; tokens of edge jobs are not kept here.)
ClaimEdge(t) ==
    /\ published[t] # None /\ ~Reachable(t)
    /\ edge_jobs[t] # None => \/ edge_jobs[t].media # PublishedMedia(t)
                              \/ edge_jobs[t].status \in {"ready", "failed"}
    /\ edge_jobs' = [edge_jobs EXCEPT ![t] =
                       [media |-> PublishedMedia(t), status |-> "open"]]
    /\ UNCHANGED <<catalogVars, version, rows, publicVars, edges, jobs, batch, losses,
                   interruptions>>

\* fail_edge_job.
FailEdge(t) ==
    /\ edge_jobs[t] # None /\ edge_jobs[t].status = "open"
    /\ \E status \in {"failed", "unsupported"} :
         edge_jobs' = [edge_jobs EXCEPT ![t].status = status]
    /\ UNCHANGED <<catalogVars, version, rows, publicVars, edges, jobs, batch, losses,
                   interruptions>>

\* publish_edge_profile: the job is still open and the catalogue, the published
\* row and the job agree on the media.
PublishEdge(t) ==
    /\ edge_jobs[t] # None /\ edge_jobs[t].status = "open"
    /\ catalog[t] = edge_jobs[t].media
    /\ PublishedMedia(t) = edge_jobs[t].media
    /\ edges' = [edges EXCEPT ![t] = edge_jobs[t].media]
    /\ edge_jobs' = [edge_jobs EXCEPT ![t].status = "ready"]
    /\ feed' = [feed EXCEPT ![t] = [media |-> published[t].media,
                                    ver |-> published[t].ver, edge |-> TRUE]]
    /\ UNCHANGED <<catalogVars, version, rows, published, jobs, batch, losses,
                   interruptions>>

\* purge_withdrawn_edges: the sweep after a publication, and in maintenance.
PurgeEdges ==
    /\ \E t \in Tracks : edges[t] # None /\ ~Reachable(t)
    /\ edges' = [t \in Tracks |-> IF Reachable(t) THEN edges[t] ELSE None]
    /\ UNCHANGED <<catalogVars, version, rows, publicVars, edge_jobs, jobs, batch,
                   losses, interruptions>>

-----------------------------------------------------------------------------
(* Catalogue publication and the whole-source repairs.                     *)

\* The publication's transaction.  A publisher holds the source's publisher
\* lock from the diff on and re-checks its base under the row lock, so the
\* generation it diffs with is the one it replaces.  A fingerprint-schema
\* rebase diffs nothing: it abandons every claim, compares every published
\* track and starts a new epoch.
PublishGeneration(new, rebase) ==
    LET changed == IF rebase THEN {t \in Tracks : published[t] # None}
                   ELSE {t \in Tracks : new[t] # catalog[t]}
        signature(t) == IF rows[t].attempt_media # None THEN rows[t].attempt_media
                        ELSE rows[t].media
        stale(t, stored) == t \in changed
                            /\ (new[t] = Gone \/ KnownDifferent(stored, new[t]))
        abandoned(t) == \/ rebase /\ rows[t].token # None
                        \/ rows[t].status # "none" /\ stale(t, signature(t))
    IN /\ generation < MaxGeneration
       /\ IF rebase THEN generation > 0 ELSE changed # {}
       /\ catalog' = new
       /\ generation' = generation + 1
       /\ epoch' = IF rebase THEN epoch + 1 ELSE epoch
       /\ rows' = [t \in Tracks |-> IF abandoned(t) THEN Staled(rows[t]) ELSE rows[t]]
       /\ Unpublish({t \in Tracks : published[t] # None /\ stale(t, PublishedMedia(t))})
       /\ losses' = [t \in Tracks |->
                       IF new[t] \in Medias /\ new[t] # rows[t].retry_media
                       THEN 0 ELSE losses[t]]
       /\ UNCHANGED <<version, edgeVars, jobs, batch, interruptions>>

\* A published track the current generation does not have.
Orphan(t) == published[t] # None /\ ~Available(t)

\* withdraw_orphaned_profiles: S is what the batch's re-check under the lock
\* leaves of the candidates read before it.
WithdrawOrphans(S) ==
    /\ S # {} /\ \A t \in S : Orphan(t)
    /\ generation > 0
    /\ rows' = [t \in Tracks |-> IF t \in S /\ rows[t].status # "none"
                                 THEN Staled(rows[t]) ELSE rows[t]]
    /\ Unpublish(S)
    /\ UNCHANGED <<catalogVars, version, edgeVars, jobs, batch, losses, interruptions>>

\* republish_ready_profiles: a current 'ready' row without a published row.  After
\* the install only the operator's repair calls it.
ReadyUnpublished(t) ==
    /\ rows[t].status = "ready" /\ rows[t].ver = version
    /\ Revision(t) # None /\ rows[t].media = Revision(t)
    /\ published[t] = None

RepublishReady(t) ==
    /\ ReadyUnpublished(t)
    /\ Publish(t, [media |-> rows[t].media, ver |-> rows[t].ver])
    /\ UNCHANGED <<catalogVars, version, rows, jobs, batch, losses, interruptions>>

\* A plugin update installs a newer analyzer; workers of the old one finish.
UpgradeAnalyzer ==
    /\ version < MaxVersion
    /\ version' = version + 1
    /\ UNCHANGED <<catalogVars, rows, publicVars, edgeVars, jobs, batch, losses,
                   interruptions>>

-----------------------------------------------------------------------------
(* A fresh install: no generation, no rows.                                *)

Init ==
    /\ catalog = [t \in Tracks |-> Gone] /\ generation = 0 /\ epoch = 1
    /\ version = 1
    /\ rows = [t \in Tracks |-> NoRow]
    /\ published = [t \in Tracks |-> None] /\ feed = [t \in Tracks |-> None]
    /\ edges = [t \in Tracks |-> None] /\ edge_jobs = [t \in Tracks |-> None]
    /\ jobs = {} /\ batch = {}
    /\ losses = [t \in Tracks |-> 0] /\ interruptions = 0

\* The attempt rows an install before 1.3.0 has after the migration: 1.2.5 knew no
\* attempts, so its claims have no token and its retry columns are new and empty;
\* a row a later build left with a failure's category is exhausted, or its category
\* was cleared (marker stale_retry_category_v1).
OldRow(status, m) == [NoRow EXCEPT !.status = status, !.media = m, !.ver = 1]
Exhausted(row, category) ==
    [row EXCEPT !.category = category, !.count = RetryLimit,
                !.retry_media = row.media, !.retry_ver = 1]

OldRows ==
    {NoRow} \cup
    {OldRow(x[1], x[2]) : x \in (Pending \cup {"ready", "failed", "stale"}) \X Medias} \cup
    {Exhausted(OldRow(x[1], x[2]), x[3]) :
       x \in {"failed", "stale"} \X Medias \X {"transient", "revision"}}

\* What 1.2.5 journalled of a row: the profile while it was 'ready'.  (It journalled
\* the row's end as 'ready' as a removal.)
OldEvent(row, edge) ==
    IF row.status = "ready" THEN [media |-> row.media, ver |-> 1, edge |-> edge # None]
    ELSE None

\* An upgrade, after the migration's transaction.  It copied the 'ready' rows, of
\* whatever media, to the published table; a row a 1.2.5 worker wrote after the copy
\* is journalled and not published, and the repair at install publishes it if it is
\* of the catalogue's media.  An orphan beyond what the install's sweep takes stays
\* for the next one.
UpgradeInit ==
    /\ catalog \in [Tracks -> Medias \cup {None, Gone}] /\ generation = 1 /\ epoch = 1
    /\ version = 1
    /\ rows \in [Tracks -> OldRows]
    /\ \E copied \in [Tracks -> BOOLEAN] :
         published = [t \in Tracks |->
                        IF rows[t].status = "ready" /\ (copied[t] \/ rows[t].media = catalog[t])
                        THEN [media |-> rows[t].media, ver |-> 1] ELSE None]
    /\ edges \in [Tracks -> Media]
    /\ \A t \in Tracks : edges[t] \in {None, PublishedMedia(t)}
    /\ feed = [t \in Tracks |-> OldEvent(rows[t], edges[t])]
    /\ edge_jobs = [t \in Tracks |-> None]
    /\ jobs = {} /\ batch = {}
    /\ losses = [t \in Tracks |-> 0] /\ interruptions = 0

Attempts ==
    \/ SelectBatch
    \/ AdmitBatch
    \/ \E t \in Tracks : AdmitInteractive(t)
    \/ \E S \in SUBSET Tracks : ReleaseUncounted(S)
    \/ \E S \in SUBSET Tracks : ReleaseCounted(S)
    \/ \E t \in Tracks : CooldownEnds(t)
    \/ \E t \in Tracks : StartAnalysis(t)
    \/ WorkerCrash
    \/ \E j \in jobs : Complete(j)

Edges ==
    \/ \E t \in Tracks : ClaimEdge(t)
    \/ \E t \in Tracks : FailEdge(t)
    \/ \E t \in Tracks : PublishEdge(t)
    \/ PurgeEdges

Publications ==
    \/ \E new \in [Tracks -> ScanMedia], rebase \in BOOLEAN :
         PublishGeneration(new, rebase)
    \/ \E S \in SUBSET Tracks : WithdrawOrphans(S)
    \/ \E t \in Tracks : RepublishReady(t)
    \/ UpgradeAnalyzer

Next == Attempts \/ Edges \/ Publications

Spec == Init /\ [][Next]_vars
UpgradeSpec == UpgradeInit /\ [][Next]_vars

-----------------------------------------------------------------------------
(* Fairness.  A runner turn recovers old claims, selects and admits a batch *)
(* and starts its tracks; the clock ends cooldowns; an analysis ends within *)
(* its time limit; the orphan sweep follows every refresh.  The repair of   *)
(* 'ready' rows is not fair: an install runs it once (UpgradeInit) and an   *)
(* operator may.  Nothing makes users ask, pauses end, scans find changes   *)
(* or edges be claimed.                                                     *)

Fairness ==
    /\ WF_vars(SelectBatch)
    /\ WF_vars(AdmitBatch)
    /\ \A t \in Tracks :
         /\ WF_vars(ReleaseCounted({t}))
         /\ WF_vars(CooldownEnds(t))
    /\ WF_vars(\E j \in jobs : Complete(j))
    /\ WF_vars(\E S \in SUBSET Tracks : WithdrawOrphans(S))

FairSpec == Spec /\ Fairness
FairUpgradeSpec == UpgradeSpec /\ Fairness

-----------------------------------------------------------------------------
(* Properties.                                                             *)

\* Every variable has its type.
TypeOK ==
    /\ catalog \in [Tracks -> Medias \cup {None, Gone}]
    /\ generation \in 0..MaxGeneration + 1 /\ epoch \in Nat
    /\ version \in Versions
    /\ rows \in [Tracks -> Row]
    /\ published \in [Tracks -> Profile \cup {None}]
    /\ feed \in [Tracks -> Event \cup {None}]
    /\ edges \in [Tracks -> Media]
    /\ edge_jobs \in [Tracks -> EdgeJob \cup {None}]
    /\ jobs \subseteq Job
    /\ batch \subseteq Tracks
    /\ losses \in [Tracks -> 0..RetryLimit + 1]
    /\ interruptions \in 0..MaxInterruptions

\* The published row of a track the catalogue no longer has, or of media the
\* catalogue knows to be replaced.
StalePublication(t) ==
    /\ published[t] # None
    /\ ~Available(t) \/ KnownDifferent(published[t].media, catalog[t])

\* On an install without 1.2.5 rows no client is ever served the profile of a
\* removed track or of replaced media, whatever completes, fails or is released
\* while a catalogue publication replaces the generation.
PublishedIsCurrent == \A t \in Tracks : ~StalePublication(t)

\* No step makes a publication stale that was not: the upgraded rows that start
\* stale are the only ones.
NoNewStalePublication ==
    [][\A t \in Tracks : StalePublication(t)' => StalePublication(t)]_vars

\* A profile is withdrawn only on proof: its track left the catalogue or its
\* media is known to be replaced.  A failure, a missing fingerprint, a lost
\* claim or a new epoch alone never takes a profile from clients.
WithdrawnOnlyOnProof ==
    [][\A t \in Tracks :
         published[t] # None /\ published'[t] = None
         => catalog'[t] = Gone \/ KnownDifferent(published[t].media, catalog'[t])]_vars

\* A client that applied every journal event holds exactly what the public
\* tables serve, edges included.
FeedMatchesPublication ==
    \A t \in Tracks :
      feed[t] = IF published[t] = None THEN None
                ELSE [media |-> published[t].media, ver |-> published[t].ver,
                      edge |-> Reachable(t)]

\* What the journal tells a client is the abstract service PublicProfiles: media
\* never change without a delete in between, an analyzer upgrade is never undone
\* by an older worker's result, and an edge stays with its media.
Public == INSTANCE PublicProfiles WITH served <- feed
ImplementsPublicProfiles == Public!Spec

\* purge_withdrawn_edges may run late because an edge that no published row
\* reaches never becomes reachable again.
NoEdgeResurrection ==
    [][\A t \in Tracks :
         edges[t] # None /\ ~Reachable(t) /\ edges'[t] = edges[t] => ~Reachable(t)']_vars

\* A row is pending exactly while it holds a claim, and no two rows hold the
\* same one: a claim left on a finished row would let its old worker write, and
\* a pending row without one could be completed by nobody.
PendingIffClaimed ==
    /\ \A t \in Tracks : rows[t].status \in Pending <=> rows[t].token # None
    /\ \A t, u \in Tracks :
         rows[t].token # None /\ rows[t].token = rows[u].token => t = u

\* The scheduler takes a 'ready' row of the current media as done, so such a row
\* is always served.
ReadyIsServed ==
    \A t \in Tracks :
      rows[t].status = "ready" /\ rows[t].media \in Medias /\ rows[t].media = catalog[t]
      => published[t] = [media |-> rows[t].media, ver |-> rows[t].ver]

\* While the catalogue shows one media revision of a track, the backfill loses
\* at most RetryLimit attempts in a row on it with one analyzer: failures,
\* unqueued jobs and recovered claims share the budget, and no stale transition
\* gives it back (LUM-007).  (A batch selected under a revision the catalogue
\* had in between may spend one attempt more: a revision other than the last
\* loss's starts the history again.)
RetryBudget == \A t \in Tracks : losses[t] <= RetryLimit

\* Nothing is left to do for t: it is served, it waits for a fingerprint, or the
\* attempts its media allows are used up.
GaveUp(t) ==
    /\ rows[t].status \in {"stale", "failed"}
    /\ rows[t].count = RetryLimit \/ rows[t].category = "revision"

Settled(t) ==
    \/ ~Available(t) /\ published[t] = None
    \/ catalog[t] = None
    \/ catalog[t] \in Medias /\ (PublishedCurrent(t) \/ GaveUp(t))

\* Once the catalogue stops changing, every track is served from its current
\* media or has used up its attempts, whichever claims were lost, superseded or
\* downloaded under another revision on the way.
Convergence == <>[](\A t \in Tracks : Settled(t))

\* A claim always ends, also one whose worker died or whose completion was
\* refused.
ClaimsEnd == \A t \in Tracks : rows[t].status \in Pending ~> rows[t].status \notin Pending

\* 'ready' and not published, as a 1.2.5 worker left it, and no attempt since.
LeftReady(t) == rows[t].status = "ready" /\ published[t] = None

\* After an upgrade every track settles too, whatever rows it found: exhausted and
\* failed ones, claims of workers that are gone, profiles of media or tracks the
\* catalogue no longer has.  The exception is a row 1.2.5 left 'ready' and unpublished
\* of media the catalogue did not show at the install: when they come back, the row
\* counts as done and only a repair publishes it.
UpgradeSettles == \A t \in Tracks : <>[]Settled(t) \/ []LeftReady(t)

=============================================================================
