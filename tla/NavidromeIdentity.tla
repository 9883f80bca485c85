---------------------------- MODULE NavidromeIdentity ----------------------------
(* A Navidrome release gives every song a new id.  The admission guard sees   *)
(* the version pass the boundary and holds the catalogue; two equal scans     *)
(* prove the new ids, and one transaction moves the catalogue, the plugin's   *)
(* own rows and the carried analysis to them.  AudioMuse moves its own        *)
(* mapping later, and until then no projection is built from it.              *)
EXTENDS Naturals, FiniteSets, Functions

CONSTANTS
    Songs,
    Procs,      \* processes that refresh the catalogue
    MaxMoves,   \* bound: changes of the provider
    MaxFaults   \* bound: calls of the provider without an answer

VARIABLES
    server,   \* the provider: its version, its id scheme, its songs
    mapping,  \* the id scheme of AudioMuse's own mapping
    catalog,  \* the published generation and its ids, and whether it is a stray (see Stray)
    analysis, \* the projected generation and the ids it links
    profiles, \* the ids that have a published profile
    trans,    \* provider_identity_transitions
    refresh,  \* what each refresh has read, and the provider's version when it began
    project,  \* what the projection has read, and the same
    moves, faults

plugin == <<catalog, analysis, profiles, trans>>
vars == <<server, mapping, plugin, refresh, project, moves, faults>>

\* The codec: an id of the old scheme and the song's id in the new one.
Old(s) == <<s, "old">>
New(s) == <<s, "new">>
Named(S, scheme) == {<<s, scheme>> : s \in S}
Idle == [phase |-> "idle"]

-----------------------------------------------------------------------------
(* The provider and AudioMuse.                                             *)

Upgrade(scheme) ==
    /\ server.version = "before"
    /\ server' = [server EXCEPT !.version = "after", !.scheme = scheme]
    /\ UNCHANGED <<mapping, plugin, refresh, project, moves, faults>>

SongsMove(S) ==
    /\ S \notin {{}, server.songs} /\ moves < MaxMoves /\ moves' = moves + 1
    /\ server' = [server EXCEPT !.songs = S]
    /\ UNCHANGED <<mapping, plugin, refresh, project, faults>>

MappingMoves ==
    /\ mapping # server.scheme /\ mapping' = server.scheme
    /\ UNCHANGED <<server, plugin, refresh, project, moves, faults>>

-----------------------------------------------------------------------------
(* The admission guard.                                                    *)

Health(links) == IF links \subseteq Named(Songs, mapping) THEN "ready" ELSE "migration_required"

\* The state an answered ping leads to: a version of before the boundary is
\* trusted, and one whose ids were checked keeps its state.
Verdict ==
    IF catalog.generation = 0 \/ server.version = "before" THEN "normal"
    ELSE IF trans.checked = server.version /\ trans.state \notin {"transition_pending", "blocked"}
         THEN trans.state
    ELSE "transition_pending"

Opens(state) ==
    state = "transition_pending" /\ (~trans.named \/ trans.state = "applied")
Now == <<catalog.generation, analysis.generation>>
Observed(state) ==
    [trans EXCEPT
        !.state = state, !.version = server.version,
        !.named = @ \/ Opens(state),
        !.base = IF trans.state = "normal" \/ Opens(state)
                 THEN Now ELSE @,
        !.scans = IF Opens(state) THEN 0 ELSE @,
        !.health = IF Opens(state) THEN "unknown"
                   ELSE IF state = "applied" THEN Health(analysis.links) ELSE @]

GateOfStoredState == trans.state  \* mutant: a ping without an answer lets its caller through
\* A ping without an answer is no evidence: the stored state stays, and this
\* caller alone is held back.
Gate ==
    IF catalog.generation > 0 /\ trans.state = "normal" THEN "transition_pending" ELSE trans.state

Observe(state) ==
    \/ state = Verdict /\ trans' = Observed(Verdict) /\ UNCHANGED faults
    \/ /\ state = Gate /\ faults < MaxFaults /\ faults' = faults + 1
       /\ trans' = [trans EXCEPT !.base = IF trans.state = "normal" THEN Now ELSE @]

-----------------------------------------------------------------------------
(* A refresh: observe, fetch, then publish under the publication lock.  The *)
(* provider may change at any point of it.                                 *)

States == {"normal", "transition_pending", "applied", "blocked"}
\* The version it goes by is the one of its ping, or the stored one.
StartRefresh(p) ==
    /\ refresh[p] = Idle
    /\ \E state \in States :
         /\ Observe(state)
         /\ refresh' = [refresh EXCEPT ![p] =
               [phase |-> "observed", state |-> state, version |-> trans'.version, began |-> server.version]]
    /\ UNCHANGED <<server, mapping, catalog, analysis, profiles, project, moves>>

\* A projection that is refused has pinged too, and so has a page of the settings.
Pings ==
    /\ \E state \in States : Observe(state)
    /\ UNCHANGED <<server, mapping, catalog, analysis, profiles, refresh, project, moves>>

Fetch(p) ==
    /\ refresh[p].phase = "observed"
    /\ refresh' = [refresh EXCEPT ![p] =
          [phase |-> "fetched", state |-> @.state, version |-> @.version, began |-> @.began,
           ids |-> Named(server.songs, server.scheme)]]
    /\ UNCHANGED <<server, mapping, plugin, project, moves, faults>>

\* No answer, or no usable track: the refresh ends and what is published stays.
FetchFails(p) ==
    /\ refresh[p].phase = "observed" /\ faults < MaxFaults /\ faults' = faults + 1
    /\ refresh' = [refresh EXCEPT ![p] = Idle]
    /\ UNCHANGED <<server, mapping, plugin, project, moves>>

Leave(p) == refresh' = [refresh EXCEPT ![p] = Idle] /\ UNCHANGED <<server, mapping, project, moves, faults>>

Moved(target) == {s \in Songs : Old(s) \in catalog.ids /\ New(s) \in target /\ Old(s) \notin target}
Missing(target) == {s \in Songs : Old(s) \in catalog.ids /\ {Old(s), New(s)} \cap target = {}}
Inspection(target) ==
    IF Moved(target) # {} THEN "transition_detected"
    ELSE IF Missing(target) # {} THEN "incomplete" ELSE "unchanged"

\* The version the inspection writes, unless none was ever known.
Heard(p) == IF refresh[p].version = "none" THEN trans.version ELSE refresh[p].version
\* The provider moved between the start of the refresh and its publication.
Overtaken(run) == run.began # server.version

\* An ordinary publication: what is gone is deleted, with its profile.
Diff(p) ==
    LET target == refresh[p].ids
    IN  /\ catalog' = [generation |-> catalog.generation + IF target = catalog.ids THEN 0 ELSE 1,
                       ids |-> target, stray |-> Overtaken(refresh[p])]
        /\ profiles' = profiles \cap target
        /\ UNCHANGED analysis

PublishTrusted(p) ==
    /\ refresh[p].phase = "fetched" /\ refresh[p].state \notin {"transition_pending", "blocked"}
    /\ Diff(p) /\ UNCHANGED trans /\ Leave(p)

\* No ids changed: the version is remembered as checked, and the diff publishes.
PublishChecked(p) ==
    /\ refresh[p].phase = "fetched" /\ refresh[p].state \in {"transition_pending", "blocked"}
    /\ Inspection(refresh[p].ids) = "unchanged"
    /\ trans' = IF trans.state = "applied" /\ trans.named
                THEN [trans EXCEPT !.version = Heard(p), !.checked = Heard(p), !.base = Now]
                ELSE [trans EXCEPT !.state = "normal", !.named = FALSE, !.base = Now,
                                   !.version = Heard(p), !.checked = Heard(p),
                                   !.target = {}, !.scans = 0]
    /\ Diff(p) /\ Leave(p)

Scans(target) == IF trans.target = target /\ trans.scans > 0 THEN 2 ELSE 1  \* two prove

\* The first scan of a proof, or one whose target moved, only counts.
Count(p) ==
    /\ refresh[p].phase = "fetched" /\ refresh[p].state \in {"transition_pending", "blocked"}
    /\ Inspection(refresh[p].ids) = "transition_detected" /\ Scans(refresh[p].ids) < 2
    /\ trans' = [trans EXCEPT !.state = "transition_pending", !.named = TRUE, !.version = Heard(p),
                              !.target = refresh[p].ids, !.scans = Scans(refresh[p].ids)]
    /\ UNCHANGED <<catalog, analysis, profiles>> /\ Leave(p)

Block(p) ==
    /\ refresh[p].phase = "fetched" /\ refresh[p].state \in {"transition_pending", "blocked"}
    /\ Inspection(refresh[p].ids) = "incomplete"
    /\ trans' = [trans EXCEPT !.state = "blocked", !.named = TRUE, !.version = Heard(p),
                              !.target = refresh[p].ids, !.scans = Scans(refresh[p].ids)]
    /\ UNCHANGED <<catalog, analysis, profiles>> /\ Leave(p)

\* One transaction under the lock of analysis_state, which waits for a
\* projection: the new generation, the plugin's rows and the links under their
\* new ids.  A proof whose baseline moved is refused, with the count of its scan.
Proven == trans.base = Now
MovedRows(rows, target) ==
    {i \in rows : i[1] \notin Moved(target)} \cup Named(Moved(target) \cap {i[1] : i \in rows}, "new")
Carried(p) ==
    LET target == refresh[p].ids IN
    /\ catalog' = [generation |-> catalog.generation + 1, ids |-> target, stray |-> Overtaken(refresh[p])]
    /\ profiles' = MovedRows(profiles, target) \cap target
    /\ analysis' = [generation |-> analysis.generation + 1,
                    links |-> MovedRows(analysis.links, target) \cap target]
    /\ trans' = [trans EXCEPT !.state = "applied", !.version = Heard(p), !.checked = Heard(p),
                              !.target = target, !.scans = Scans(target),
                              !.health = Health(analysis'.links)]
Rekey(p) ==
    /\ refresh[p].phase = "fetched" /\ refresh[p].state \in {"transition_pending", "blocked"}
    /\ Inspection(refresh[p].ids) = "transition_detected" /\ Scans(refresh[p].ids) >= 2
    /\ project.phase # "building"
    /\ IF Proven THEN Carried(p) ELSE UNCHANGED plugin
    /\ Leave(p)

-----------------------------------------------------------------------------
(* The projection, and the check of AudioMuse's own migration.             *)

Allowed(state) == state = "normal" \/ (state = "applied" /\ trans'.health = "ready")

StartProjection ==
    /\ project = Idle /\ catalog.generation > 0
    /\ \E state \in {"normal", "applied"} :
         Observe(state) /\ Allowed(state)
    /\ project' = [phase |-> "reading", began |-> server.version,
                   links |-> catalog.ids \cap Named(Songs, mapping)]
    /\ UNCHANGED <<server, mapping, catalog, analysis, profiles, refresh, moves>>

LockAnalysis ==
    /\ project.phase = "reading"
    /\ project' = [project EXCEPT !.phase = "building"]
    /\ UNCHANGED <<server, mapping, plugin, refresh, moves, faults>>

PublishProjection ==
    /\ project.phase = "building" /\ project' = Idle
    /\ analysis' = IF project.links = analysis.links THEN analysis
                   ELSE [generation |-> analysis.generation + 1, links |-> project.links]
    /\ UNCHANGED <<server, mapping, catalog, profiles, trans, refresh, moves, faults>>

\* provider_identity_recheck_task.
RecheckHealth ==
    /\ trans.state = "applied" /\ trans.health # "ready"
    /\ trans' = [trans EXCEPT !.health = Health(analysis.links)]
    /\ UNCHANGED <<server, mapping, catalog, analysis, profiles, refresh, project, moves, faults>>

\* A profile is published for a song of the catalogue.
PublishProfile(i) ==
    /\ i \in catalog.ids \ profiles /\ profiles' = profiles \cup {i}
    /\ UNCHANGED <<server, mapping, catalog, analysis, trans, refresh, project, moves, faults>>

-----------------------------------------------------------------------------
Unchecked == [state |-> "normal", named |-> FALSE, version |-> "none", checked |-> "none",
              base |-> <<0, 0>>, target |-> {}, scans |-> 0, health |-> "unknown"]

Init ==
    /\ server = [version |-> "before", scheme |-> "old", songs |-> Songs] /\ mapping = "old"
    /\ catalog = [generation |-> 1, ids |-> Named(Songs, "old"), stray |-> FALSE]
    /\ analysis = [generation |-> 1, links |-> Named(Songs, "old")]
    /\ profiles = {} /\ trans = Unchecked
    /\ refresh = [p \in Procs |-> Idle] /\ project = Idle
    /\ moves = 0 /\ faults = 0

Refreshes(p) ==
    \/ StartRefresh(p) \/ Fetch(p) \/ FetchFails(p)
    \/ PublishTrusted(p) \/ PublishChecked(p) \/ Count(p) \/ Block(p)
    \/ Rekey(p)
Projects == StartProjection \/ LockAnalysis \/ PublishProjection
Next ==
    \/ \E scheme \in {"old", "new"} : Upgrade(scheme)
    \/ \E S \in SUBSET Songs : SongsMove(S)
    \/ MappingMoves
    \/ \E p \in Procs : Refreshes(p)
    \/ Pings \/ Projects \/ RecheckHealth
    \/ \E i \in catalog.ids : PublishProfile(i)

\* The recheck and the daily refresh come again and again, a projection that
\* began ends, and AudioMuse's administrator runs its migration.
Fairness ==
    /\ \A p \in Procs : WF_vars(Refreshes(p))
    /\ WF_vars(LockAnalysis \/ PublishProjection)
    /\ WF_vars(RecheckHealth) /\ WF_vars(MappingMoves)
Spec == Init /\ [][Next]_vars /\ Fairness

-----------------------------------------------------------------------------
(* Properties.                                                             *)

Has(rows, s) == \E i \in rows \cap catalog.ids : i[1] = s
Listed(s) == \E i \in catalog.ids : i[1] = s

\* A catalogue is a stray when a refresh that began before the release published
\* it after: its ping had seen the earlier version, and what it fetched may be of
\* either scheme.
Stray == catalog.stray

\* A song that stays in the catalogue keeps its published profile, whatever
\* its id becomes and whenever the release comes: an id change is not published as
\* a deletion and an addition (provider_identity_guard: "Durable admission shield
\* for provider-ID transitions").  The shield is as good as the ping: it fails for
\* the publication of a stray, and for the one that replaces it, and for no other.
KeepsProfiles ==
    \A s \in Songs : (Listed(s) /\ Listed(s)' /\ Has(profiles, s)) =>
                        Has(profiles, s)' \/ Stray \/ Stray'
IdentityKept == [][KeepsProfiles]_vars

\* A song that stays keeps its analysis: until AudioMuse maps the new ids, no
\* projection replaces the links the rekey carried (CATALOG_SYNC.md:203).
CarriedAnalysisKept ==
    [][\A s \in Songs : (Listed(s) /\ Listed(s)' /\ Has(analysis.links, s)) => Has(analysis.links, s)']_vars

\* While a transition is pending nothing moves a generation, and so the baseline of
\* its proof, but what resolves it, what began before the release, and what the word
\* of a stray let through.
Pending == trans.state = "transition_pending"
BaselineKept ==
    Pending /\ Pending' /\ Now' # Now =>
      \/ Stray
      \/ project # Idle /\ project' = Idle /\ Overtaken(project)
      \/ \E p \in Procs : refresh[p] # Idle /\ refresh'[p] = Idle /\ Overtaken(refresh[p])

\* A pending transition is resolved: the ids are proven and applied, found
\* unchanged, or the evidence is found incomplete (provider_identity_recheck_task:
\* "Advance pending ID proofs").  One whose baseline moved is not.
Resolved == ~Pending \/ ~Proven
TransitionsSettle == []<>Resolved
=============================================================================
