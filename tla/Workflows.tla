----------------------------- MODULE Workflows -----------------------------
(* The workflow rows of one source (plugins/LumaeAnalysis/__init__.py): its *)
(* profile backfill, its preparation and its analysis runs, worked by the   *)
(* two runner lanes. The light lane refreshes the catalogue, prepares and   *)
(* finalises runs; the heavy lane analyses batches of tracks. A row says    *)
(* which work is waiting, taken, finished or due for a retry; a lane may    *)
(* die between any two commits and its row is then taken again when stale.  *)
(*                                                                          *)
(* A track is "absent" (not in the music server), "due", "pending" (claimed *)
(* by a batch), "expired" (claimed by a worker that died, an hour ago),     *)
(* "later" (its retry is not due) or "done".                                *)
EXTENDS FiniteSets, Naturals

CONSTANTS Tracks, Runs, MaxFails, MaxCrashes, MaxAsks
ASSUME WorkflowsAssumption ==
    /\ IsFiniteSet(Tracks) /\ IsFiniteSet(Runs)
    /\ {MaxFails, MaxCrashes, MaxAsks} \subseteq Nat

VARIABLES
    library, analysed,   \* the music server's tracks; those AudioMuse analysed
    published, projected, \* the catalogue's tracks; the tracks with projected analysis
    refreshRequired,     \* the catalogue asks for a repair
    profile,             \* each track's profile work
    backfill, preparation, runs, \* the workflow rows
    parent, songs,       \* AudioMuse's runs, and the songs their hooks recorded
    light, heavy,        \* where each lane is
    woken,               \* history: due tracks the backfill was woken for
    prepared,            \* history: how far the last asked preparation got
    fails, crashes, asks

rows == <<backfill, preparation, runs>>
world == <<library, analysed, parent, songs>>
catalogue == <<published, projected, refreshRequired>>
history == <<woken, prepared>>
budget == <<fails, crashes, asks>>
vars == <<world, catalogue, profile, rows, light, heavy, history, budget>>

(* A workflow row: retry is a next_retry_at still ahead, stale an updated_at *)
(* older than the row's limit. The backfill's also keeps a wake.            *)
Row(status) == [status |-> status, retry |-> FALSE, stale |-> FALSE]
Backfill(status, wake, retry) ==
    [status |-> status, retry |-> retry, stale |-> FALSE, wake |-> wake]

Idle == [pc |-> "idle"]
At(lane, pc) == lane.pc = pc

DueTracks == {t \in published : profile[t] = "due"}
RetryKept == \E t \in published : profile[t] \in {"pending", "expired", "later"}
Held(t) == heavy.pc = "batch" /\ heavy.track = t

Admittable(row) == row.status \notin {"queued", "running"} \/ row.stale
Due(row) == row.status \in {"queued", "failed"} /\ ~row.retry
Abandoned(row) == row.status = "running" /\ row.stale
Takeable(row) == Due(row) \/ Abandoned(row)
----------------------------------------------------------------------------
(* The music server and AudioMuse. *)

TypeOK ==
    /\ published \subseteq library /\ projected \subseteq Tracks
    /\ profile \in [Tracks -> {"absent", "due", "pending", "expired", "later", "done"}]
    /\ backfill.status \in {"none", "queued", "running", "failed", "complete"}
    /\ preparation.status \in
            {"none", "queued", "running", "failed", "ready", "needs_attention"}
    /\ \A r \in Runs : runs[r].status \in {"none", "pending", "running", "failed", "complete"}

Init ==
    /\ library = {} /\ analysed = {} /\ published = {} /\ projected = {}
    /\ refreshRequired = FALSE
    /\ profile = [t \in Tracks |-> "absent"]
    /\ backfill = Backfill("none", FALSE, FALSE)
    /\ preparation = Row("none")
    /\ runs = [r \in Runs |-> Row("none")]
    /\ parent = [r \in Runs |-> "none"] /\ songs = [r \in Runs |-> {}]
    /\ light = Idle /\ heavy = Idle
    /\ woken = {} /\ prepared = "no"
    /\ fails = 0 /\ crashes = 0 /\ asks = 0

GainTrack(t) ==
    /\ t \notin library
    /\ library' = library \union {t}
    /\ profile' = [profile EXCEPT ![t] = "due"]
    /\ UNCHANGED <<analysed, parent, songs, catalogue, rows, light, heavy, history, budget>>

ParentMoves(r) ==
    /\ \/ parent[r] = "none" /\ parent' = [parent EXCEPT ![r] = "live"]
       \/ parent[r] = "live" /\ parent' = [parent EXCEPT ![r] = "ended"]
    /\ UNCHANGED <<library, analysed, songs, catalogue, profile, rows, light, heavy,
                   history, budget>>

(* The per-song hook of a live run. *)
RecordSong(r, t) ==
    /\ parent[r] = "live" /\ t \in library \ songs[r]
    /\ analysed' = analysed \union {t}
    /\ songs' = [songs EXCEPT ![r] = @ \union {t}]
    /\ runs' = IF runs[r].status \in {"running", "complete"}
               THEN runs ELSE [runs EXCEPT ![r] = Row("pending")]
    /\ UNCHANGED <<library, parent, catalogue, profile, backfill, preparation, light, heavy,
                   history, budget>>

AskPreparation ==
    /\ Admittable(preparation)
    /\ \/ asks < MaxAsks /\ asks' = asks + 1
       \/ refreshRequired /\ asks' = asks
    /\ preparation' = Row("queued")
    /\ prepared' = "asked"
    /\ UNCHANGED <<world, catalogue, profile, backfill, runs, light, heavy, woken, fails, crashes>>
----------------------------------------------------------------------------
(* The light lane. *)

RunNeverRetaken(r) ==
    parent[r] = "ended" /\ runs[r].status \in {"pending", "failed"} /\ ~runs[r].retry
RunTakeable(r) ==
    /\ parent[r] = "ended"
    /\ \/ runs[r].status \in {"pending", "failed"} /\ ~runs[r].retry
       \/ Abandoned(runs[r])

TakeRun(r) ==
    /\ RunTakeable(r)
    /\ runs' = [runs EXCEPT ![r] = Row("running")]
    /\ light' = [pc |-> "refresh", work |-> "run", run |-> r]
    /\ UNCHANGED preparation

TakePreparation ==
    /\ ~\E r \in Runs : RunTakeable(r)
    /\ preparation.status = "queued" \/ Takeable(preparation)
    /\ preparation' = Row("running")
    /\ light' = [pc |-> "refresh", work |-> "preparation"]
    /\ UNCHANGED runs

TakeRefresh ==
    /\ ~\E r \in Runs : RunTakeable(r)
    /\ ~(preparation.status = "queued" \/ Takeable(preparation))
    /\ library # published \/ DueTracks # {} \/ RetryKept
    /\ light' = [pc |-> "refresh", work |-> "refresh"]
    /\ UNCHANGED <<preparation, runs>>

LightTakes ==
    /\ At(light, "idle")
    /\ (\E r \in Runs : TakeRun(r)) \/ TakePreparation \/ TakeRefresh
    /\ UNCHANGED <<world, catalogue, profile, backfill, heavy, history, budget>>

RefreshSkippedByRuns ==
    /\ At(light, "refresh")
    /\ published' = (IF light.work = "run" THEN published ELSE library)
    /\ refreshRequired' = FALSE
    /\ light' = IF light.work = "refresh"
                THEN [pc |-> "wake", work |-> "refresh", changed |-> library # published]
                ELSE [light EXCEPT !.pc = "project"]
    /\ UNCHANGED <<world, projected, profile, rows, heavy, history, budget>>
RefreshPublishes ==
    /\ At(light, "refresh")
    /\ published' = library /\ refreshRequired' = FALSE
    /\ light' = IF light.work = "refresh"
                THEN [pc |-> "wake", work |-> "refresh", changed |-> library # published]
                ELSE [light EXCEPT !.pc = "project"]
    /\ UNCHANGED <<world, projected, profile, rows, heavy, history, budget>>

(* start_profile_backfill: admitted unless it is queued or running. *)
StartBackfill ==
    IF Admittable(backfill)
    THEN /\ backfill' = Backfill("queued", backfill.wake, FALSE)
         /\ woken' = woken \union DueTracks
    ELSE UNCHANGED <<backfill, woken>>

KeepWake(changed) ==
    /\ backfill' = [backfill EXCEPT !.wake = @ \/ changed, !.stale = FALSE,
                                    !.retry = @ /\ ~(changed /\ backfill.status = "queued")]
    /\ woken' = IF changed THEN woken \union DueTracks ELSE woken

WakeBackfill(changed) ==
    IF backfill.status \in {"queued", "running"} THEN KeepWake(changed) ELSE StartBackfill

RefreshWakes ==
    /\ At(light, "wake")
    /\ IF light.changed \/ DueTracks # {} \/ RetryKept
       THEN WakeBackfill(light.changed)
       ELSE UNCHANGED <<backfill, woken>>
    /\ light' = IF light.changed THEN [pc |-> "project", work |-> "refresh"] ELSE Idle
    /\ UNCHANGED <<world, catalogue, profile, preparation, runs, heavy, prepared, budget>>

Projects ==
    /\ At(light, "project")
    /\ projected' = published \intersect analysed
    /\ prepared' = IF light.work = "preparation" THEN "done" ELSE prepared
    /\ light' = CASE light.work = "refresh" -> Idle
                  [] light.work = "preparation" -> [light EXCEPT !.pc = "ready"]
                  [] light.work = "run" -> [light EXCEPT !.pc = "admit"]
    /\ UNCHANGED <<world, published, refreshRequired, profile, rows, heavy, woken, budget>>

PreparationReady ==
    /\ At(light, "ready")
    /\ preparation' = Row("ready")
    /\ light' = [light EXCEPT !.pc = "admit"]
    /\ UNCHANGED <<world, catalogue, profile, backfill, runs, heavy, history, budget>>

AdmitsBackfill ==
    /\ At(light, "admit")
    /\ StartBackfill
    /\ light' = IF light.work = "run" THEN [light EXCEPT !.pc = "complete"] ELSE Idle
    /\ UNCHANGED <<world, catalogue, profile, preparation, runs, heavy, prepared, budget>>

RunCompletes ==
    /\ At(light, "complete")
    /\ runs' = [runs EXCEPT ![light.run] = Row("complete")]
    /\ light' = Idle
    /\ UNCHANGED <<world, catalogue, profile, backfill, preparation, heavy, history, budget>>

(* A refresh or projection that raises; the work backs off. *)
LightFails ==
    /\ light.pc \in {"refresh", "project"} /\ fails < MaxFails
    /\ fails' = fails + 1
    /\ refreshRequired' = (refreshRequired \/ At(light, "refresh"))
    /\ preparation' = IF light.work = "preparation"
                      THEN [Row("failed") EXCEPT !.retry = TRUE] ELSE preparation
    /\ runs' = IF light.work = "run"
               THEN [runs EXCEPT ![light.run] = [Row("failed") EXCEPT !.retry = TRUE]] ELSE runs
    /\ light' = Idle
    /\ UNCHANGED <<world, published, projected, profile, backfill, heavy, history, crashes, asks>>

LightStep ==
    \/ LightTakes \/ RefreshPublishes \/ RefreshWakes \/ Projects
    \/ PreparationReady \/ AdmitsBackfill \/ RunCompletes
----------------------------------------------------------------------------
(* The heavy lane. *)

HeavyTakes ==
    /\ At(heavy, "idle") /\ Takeable(backfill)
    /\ backfill' = Backfill("running", backfill.wake, FALSE)
    /\ heavy' = [pc |-> "select"]
    /\ UNCHANGED <<world, catalogue, profile, preparation, runs, light, history, budget>>

(* Claims of dead workers are released, then a batch is selected and claimed; *)
(* the claim's recovery arm keeps a wake for the running batch.               *)
NoneRecovered == profile
Recovered == [t \in Tracks |-> IF profile[t] = "expired" THEN "later" ELSE profile[t]]

Selects ==
    /\ At(heavy, "select")
    /\ IF DueTracks = {}
       THEN /\ heavy' = [pc |-> "finish", retry |-> RetryKept]
            /\ profile' = Recovered /\ UNCHANGED backfill
       ELSE \E t \in DueTracks :
            /\ heavy' = [pc |-> "batch", track |-> t]
            /\ profile' = [Recovered EXCEPT ![t] = "pending"]
            /\ backfill' = Backfill("running", TRUE, FALSE)
    /\ UNCHANGED <<world, catalogue, preparation, runs, light, history, budget>>

(* The batch's track is published, failed for now, or past the deadline; *)
(* finalize_preparation_if_settled then reads the preparation and counts. *)
Verdict(after) ==
    IF preparation.status = "running" /\ \A t \in published : after[t] \notin {"pending", "expired"}
    THEN IF \A t \in published : after[t] = "done" THEN "ready" ELSE "needs_attention"
    ELSE "none"

Analyses ==
    /\ At(heavy, "batch")
    /\ \E outcome \in {"done", "later", "due"} :
         /\ outcome # "done" => fails < MaxFails
         /\ fails' = IF outcome # "done" THEN fails + 1 ELSE fails
         /\ profile' = [profile EXCEPT ![heavy.track] = outcome]
    /\ heavy' = [pc |-> "finalise", verdict |-> Verdict(profile')]
    /\ UNCHANGED <<world, catalogue, rows, light, history, crashes, asks>>

FinalisesPreparation ==
    /\ At(heavy, "finalise")
    /\ preparation' = IF heavy.verdict = "none" THEN preparation ELSE Row(heavy.verdict)
    /\ heavy' = [pc |-> "next"]
    /\ UNCHANGED <<world, catalogue, profile, backfill, runs, light, history, budget>>

(* update_profile_backfill_state: what a batch found, and a wake kept meanwhile. *)
WakeDropped(status, retry) == Backfill(status, FALSE, retry)
Finished(status, retry) ==
    Backfill(IF status = "complete" /\ backfill.wake THEN "queued" ELSE status,
             FALSE, retry /\ ~backfill.wake)

LooksForMore ==
    /\ At(heavy, "next")
    /\ IF DueTracks = {}
       THEN heavy' = [pc |-> "finish", retry |-> RetryKept] /\ UNCHANGED backfill
       ELSE heavy' = Idle /\ backfill' = Finished("queued", FALSE)
    /\ UNCHANGED <<world, catalogue, profile, preparation, runs, light, history, budget>>

BatchFinishes ==
    /\ At(heavy, "finish")
    /\ backfill' = Finished(IF heavy.retry THEN "queued" ELSE "complete", heavy.retry)
    /\ heavy' = Idle
    /\ UNCHANGED <<world, catalogue, profile, preparation, runs, light, history, budget>>

(* An aborted batch releases its claims uncounted and waits its minute. *)
HeavyFails ==
    /\ heavy.pc \in {"select", "batch"} /\ fails < MaxFails
    /\ fails' = fails + 1
    /\ profile' = [t \in Tracks |-> IF Held(t) THEN "due" ELSE profile[t]]
    /\ backfill' = Backfill("failed", FALSE, TRUE)
    /\ heavy' = Idle
    /\ UNCHANGED <<world, catalogue, preparation, runs, light, history, crashes, asks>>

HeavyStep ==
    \/ HeavyTakes \/ Selects \/ Analyses \/ FinalisesPreparation \/ LooksForMore \/ BatchFinishes
----------------------------------------------------------------------------
(* Time and deaths. *)

Crash ==
    /\ crashes < MaxCrashes /\ crashes' = crashes + 1
    /\ \/ ~At(light, "idle") /\ light' = Idle /\ UNCHANGED heavy
       \/ ~At(heavy, "idle") /\ heavy' = Idle /\ UNCHANGED light
    /\ UNCHANGED <<world, catalogue, profile, rows, history, fails, asks>>

(* A claim nobody works on, an hour on. *)
ClaimExpires(t) ==
    /\ profile[t] = "pending" /\ ~Held(t)
    /\ profile' = [profile EXCEPT ![t] = "expired"]
    /\ UNCHANGED <<world, catalogue, rows, light, heavy, history, budget>>

TrackRetryDue(t) ==
    /\ profile[t] = "later"
    /\ profile' = [profile EXCEPT ![t] = "due"]
    /\ UNCHANGED <<world, catalogue, rows, light, heavy, history, budget>>


Ages(row, worked) ==
    IF row.retry THEN [row EXCEPT !.retry = FALSE]
    ELSE IF row.status = "running" /\ ~worked THEN [row EXCEPT !.stale = TRUE] ELSE row

(* A retry falls due; a row whose worker died goes stale. A batch that is *)
(* worked on renews its row between tracks, and an action's time limit is *)
(* shorter than its row's.                                                *)
BackfillAges ==
    /\ backfill' = Ages(backfill, ~At(heavy, "idle")) /\ backfill' # backfill
    /\ UNCHANGED <<world, catalogue, profile, preparation, runs, light, heavy, history, budget>>

PreparationAges ==
    /\ preparation' = Ages(preparation, ~At(light, "idle") /\ light.work = "preparation")
    /\ preparation' # preparation
    /\ UNCHANGED <<world, catalogue, profile, backfill, runs, light, heavy, history, budget>>

RunAges(r) ==
    /\ runs' = [runs EXCEPT ![r] =
            Ages(@, ~At(light, "idle") /\ light.work = "run" /\ light.run = r)]
    /\ runs' # runs
    /\ UNCHANGED <<world, catalogue, profile, backfill, preparation, light, heavy, history, budget>>

Passes ==
    \/ BackfillAges \/ PreparationAges \/ \E r \in Runs : RunAges(r)
    \/ \E t \in Tracks : ClaimExpires(t) \/ TrackRetryDue(t)

Next ==
    \/ \E t \in Tracks : GainTrack(t)
    \/ \E r \in Runs : ParentMoves(r) \/ \E t \in Tracks : RecordSong(r, t)
    \/ AskPreparation \/ LightStep \/ LightFails \/ HeavyStep \/ HeavyFails \/ Crash \/ Passes

Spec == Init /\ [][Next]_vars
(* The lanes run and time passes. A refresh renews a running backfill row,   *)
(* so the row of a dead batch goes stale only if refreshes are at times half *)
(* an hour apart, and is taken before the next one: the strong fairness.     *)
Fairness ==
    /\ WF_vars(LightStep) /\ WF_vars(HeavyStep) /\ SF_vars(HeavyTakes)
    /\ SF_vars(BackfillAges) /\ \A r \in Runs : WF_vars(RunAges(r))
    /\ \A t \in Tracks : WF_vars(ClaimExpires(t)) /\ WF_vars(TrackRetryDue(t))
FairSpec == Spec /\ Fairness
----------------------------------------------------------------------------
(* A backfill row that says complete leaves no track undone that a changed *)
(* catalogue woke it for, also when the wake came while its last batch was *)
(* finishing (wake_profile_backfill_after_catalog_refresh).                *)
WokenIsDone == backfill.status = "complete" => \A t \in woken : profile[t] = "done"

(* A finalised analysis run has published and projected every song its hooks *)
(* recorded (finalize_analysis_run_task).                                    *)
CompleteRunsProjected ==
    \A r \in Runs : runs[r].status = "complete" => songs[r] \subseteq projected

(* Every track the library has is profiled in the end, whatever lane dies or *)
(* fails between (wake, retries, stale takeover and claim recovery).         *)
Profiled(t) == t \in library => profile[t] = "done"
TracksProfiled == \A t \in Tracks : []<>Profiled(t)

(* Every analysis run that recorded a song and ended is finalised. *)
Finalised(r) == parent[r] = "ended" /\ songs[r] # {} => runs[r].status = "complete"
RunsEnd == \A r \in Runs : []<>Finalised(r)

(* A preparation cut off before its projection can be taken again: its row *)
(* waits, failed, or goes stale while running.                             *)
CutOffIsRecovered ==
    At(light, "idle") /\ prepared = "asked" =>
        preparation.status \in {"queued", "running", "failed"}
=============================================================================
