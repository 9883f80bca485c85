---------------------------- MODULE CatalogStreams ----------------------------
(* The two core streams of one source: the catalogue, published by refreshes *)
(* of the media server, and the analysis projection of it.  A publication    *)
(* writes a whole generation and the journal of its differences, and then    *)
(* deletes superseded generations.  A reader bootstraps from the generation  *)
(* its session pins and follows the journal from there.                      *)
EXTENDS Naturals, Sequences, FiniteSets, SequencesExt

CONSTANTS
    Tracks,       \* track IDs, in the order of TrackOrder
    TrackOrder,   \* the tracks as a sequence
    Procs,        \* tasks and runner turns that refresh or project
    Readers,      \* clients
    None,
    MaxVersion,   \* bound: versions of a track
    MaxChanges,   \* bound: changes of the library and of AudioMuse's mapping
    MaxRequests,  \* bound: refreshes that apps ask for
    Retain,       \* journal events kept behind the head
    PageLimit     \* events in one page of a change feed

\* What the constants must satisfy.
StreamBounds ==
    /\ TrackOrder \in Seq(Tracks) /\ IsInjective(TrackOrder)
    /\ {TrackOrder[i] : i \in DOMAIN TrackOrder} = Tracks
    /\ MaxChanges \in Nat /\ MaxRequests \in Nat
    /\ Retain \in Nat \ {0} /\ PageLimit \in Nat \ {0}

VARIABLES
    library,    \* the version of each track at the media server, 0 when it is not there
    mapping,    \* whether AudioMuse maps the track to an analysis
    changes,    \* changes made so far
    stream,     \* catalog_state and analysis_state
    rows,       \* the stored generations of each stream
    journal,    \* the events of each stream's epoch
    required,   \* refresh_required
    wanted,     \* refresh_wanted_at
    requests,   \* requests made: the database clock as far as they tell it apart
    served,     \* history: the start of the latest finished scan, in requests
    job,        \* refreshes and projections in progress
    reader      \* sessions, cursors and what each reader holds

vars == <<library, mapping, changes, stream, rows, journal, required, wanted, requests,
          served, job, reader>>
world == <<library, mapping, changes>>
tables == <<stream, rows, journal>>
kept == <<required, wanted, requests, served>>

Streams == {"catalog", "analysis"}
Blank == [x \in Tracks |-> 0]
Idle == [kind |-> "idle"]
Away == [phase |-> "away"]

MaxOf(a, b) == IF a > b THEN a ELSE b
MinOf(a, b) == IF a < b THEN a ELSE b
\* A pruned generation has no rows, and reads as an empty one.
Stored(s, g) == IF g \in DOMAIN rows[s] THEN rows[s][g] ELSE Blank
Published(s) == Stored(s, stream[s].gen)

-----------------------------------------------------------------------------
(* The differences of two generations and their journal.                   *)

Differing(old, new) == {x \in Tracks : old[x] # new[x]}

\* Upserts in the order of the entities, then deletes backwards.
SortKey(new, x) ==
    LET at == CHOOSE i \in DOMAIN TrackOrder : TrackOrder[i] = x
    IN  IF new[x] = 0 THEN 2 * Len(TrackOrder) + 1 - at ELSE at
Sorted(old, new, x) == Cardinality({y \in Differing(old, new) : SortKey(new, y) <= SortKey(new, x)})
Diff(old, new) ==
    [i \in 1..Cardinality(Differing(old, new)) |->
       LET x == CHOOSE x \in Differing(old, new) : Sorted(old, new, x) = i
       IN  [track |-> x, value |-> new[x]]]

\* Events at or below the floor are deleted, the floor only rises.
TargetFloor(head) == IF head > Retain THEN head - Retain ELSE 0
Compacted(state) == [state EXCEPT !.floor = MaxOf(@, TargetFloor(state.head))]
Trimmed(events, floor) == [n \in {n \in DOMAIN events : n > floor} |-> events[n]]
Appended(events, head, new) ==
    [n \in DOMAIN events \cup (head + 1)..(head + Len(new)) |->
       IF n > head THEN new[n - head] ELSE events[n]]

-----------------------------------------------------------------------------
(* Bootstrap leases and superseded generations.                            *)

\* The rows of a new generation beside those that are stored.
Inserted(gens, g, table) == [k \in DOMAIN gens \cup {g} |-> IF k = g THEN table ELSE gens[k]]

PinsNothing(s, g) == FALSE
Pins(s, g) == \E r \in Readers :
    reader[r].phase = "paging" /\ reader[r].stream = s /\ reader[r].pin = g

\* The generations that stay when generation g is the published one.
Pruned(s, gens, g) ==
    [k \in {k \in DOMAIN gens : k >= g \/ Pins(s, k)} |-> gens[k]]

-----------------------------------------------------------------------------
(* The refresh.  It starts by committing its scan row, fetches, and only     *)
(* then takes the publisher lock of the source, which it holds to its end.   *)

PublisherBusy == \E p \in Procs : job[p].kind = "refresh" /\ job[p].step \in {"built", "written"}

Start(p) ==
    /\ job[p] = Idle
    /\ job' = [job EXCEPT ![p] = [kind |-> "refresh", step |-> "started", started |-> requests]]
    /\ UNCHANGED <<world, tables, kept, reader>>

\* An empty library is refused.
Fetch(p) ==
    /\ job[p].kind = "refresh" /\ job[p].step = "started" /\ library # Blank
    /\ job' = [job EXCEPT ![p] = [kind |-> "refresh", step |-> "fetched",
                                  started |-> job[p].started, scan |-> library]]
    /\ UNCHANGED <<world, tables, kept, reader>>

\* Under the lock the base is what is published now, and the generation and its
\* events are built on it.
Build(p) ==
    /\ job[p].kind = "refresh" /\ job[p].step = "fetched" /\ ~PublisherBusy
    /\ job' = [job EXCEPT ![p] = [kind |-> "refresh", step |-> "built",
                                  started |-> job[p].started, scan |-> job[p].scan,
                                  base |-> stream["catalog"], old |-> Published("catalog")]]
    /\ UNCHANGED <<world, tables, kept, reader>>

Rebased(base) == base.gen > 0 /\ base.schema = "old"
Unchanged(p) == ~Rebased(job[p].base) /\ job[p].base.gen > 0 /\ job[p].old = job[p].scan

\* The row lock of catalog_state, under which the base is checked again.
Moved(p) == \E field \in {"gen", "epoch", "head", "schema"} :
    stream["catalog"][field] # job[p].base[field]

\* A refresh that finds no difference publishes none, but is complete.
ConfirmUnchanged(p) ==
    /\ job[p].kind = "refresh" /\ job[p].step = "built" /\ Unchanged(p) /\ ~Moved(p)
    /\ stream' = [stream EXCEPT !["catalog"].schema = "current"]
    /\ required' = FALSE
    /\ job' = [job EXCEPT ![p] = [kind |-> "finished", started |-> job[p].started, ok |-> TRUE]]
    /\ served' = MaxOf(served, job[p].started)
    /\ UNCHANGED <<world, rows, journal, wanted, requests, reader>>

NewState(base, events) ==
    IF Rebased(base)
    THEN [gen |-> base.gen + 1, epoch |-> base.epoch + 1, head |-> 0, floor |-> 0, schema |-> "current"]
    ELSE [stream["catalog"] EXCEPT !.gen = base.gen + 1, !.head = base.head + Len(events),
                                   !.schema = "current"]

\* A rebase journals nothing: its epoch is new, and every session is ended.
Publish(p) ==
    /\ job[p].kind = "refresh" /\ job[p].step = "built" /\ ~Unchanged(p) /\ ~Moved(p)
    /\ LET base == job[p].base
           events == IF Rebased(base) THEN <<>> ELSE Diff(job[p].old, job[p].scan)
           state == Compacted(NewState(base, events))
           log == IF Rebased(base) THEN <<>> ELSE journal["catalog"]
       IN /\ stream' = [stream EXCEPT !["catalog"] = state]
          /\ rows' = [rows EXCEPT !["catalog"] = Inserted(@, state.gen, job[p].scan)]
          /\ journal' = [journal EXCEPT
               !["catalog"] = Trimmed(Appended(log, state.head - Len(events), events), state.floor)]
          /\ reader' = [r \in Readers |->
               IF Rebased(base) /\ reader[r].phase = "paging" THEN Away ELSE reader[r]]
          /\ job' = [job EXCEPT ![p] = [kind |-> "finished", started |-> job[p].started, ok |-> TRUE,
                                        gen |-> state.gen]]
    /\ required' = FALSE
    /\ served' = MaxOf(served, job[p].started)
    /\ UNCHANGED <<world, wanted, requests>>

\* A timeout, a refused scan, an error: the transaction is undone, and a
\* statement of its own asks for a repair.
FailRefresh(p) ==
    /\ job[p].kind = "refresh"
    /\ job' = [job EXCEPT ![p] = [kind |-> "finished", started |-> job[p].started, ok |-> FALSE]]
    /\ required' = TRUE
    /\ UNCHANGED <<world, tables, wanted, requests, served, reader>>

\* After the commit, in transactions of their own: the prune for the generation
\* this refresh published, and the requests it served.
AfterPublication(p) ==
    /\ job[p].kind = "finished" /\ "gen" \in DOMAIN job[p]
    /\ rows' = [rows EXCEPT !["catalog"] = Pruned("catalog", @, job[p].gen)]
    /\ job' = [job EXCEPT ![p] = [kind |-> "finished", started |-> job[p].started, ok |-> TRUE]]
    /\ UNCHANGED <<world, stream, journal, kept, reader>>

Satisfy(p) ==
    /\ job[p].kind = "finished" /\ "gen" \notin DOMAIN job[p]
    /\ wanted' = IF wanted # None /\ wanted <= job[p].started THEN None ELSE wanted
    /\ job' = [job EXCEPT ![p] = Idle]
    /\ UNCHANGED <<world, tables, required, requests, served, reader>>

\* An app asks; the earliest request is the one that is kept.
Want ==
    /\ requests < MaxRequests /\ requests' = requests + 1
    /\ wanted' = IF wanted = None THEN requests + 1 ELSE wanted
    /\ UNCHANGED <<world, tables, required, served, job, reader>>

-----------------------------------------------------------------------------
(* The projection.  The generation it projects is read first, its tracks     *)
(* after the identity check; the row lock of analysis_state is held from the *)
(* comparison to the commit.                                                 *)

ChooseGeneration(p) ==
    /\ job[p] = Idle /\ stream["catalog"].gen > 0
    /\ job' = [job EXCEPT ![p] = [kind |-> "project", step |-> "chosen", of |-> stream["catalog"].gen]]
    /\ UNCHANGED <<world, tables, kept, reader>>

\* A link for each track of the generation: missing, or ready when mapped.
Links(tracks) == [x \in Tracks |-> IF tracks[x] = 0 THEN 0 ELSE IF mapping[x] THEN 2 ELSE 1]

ReadTracks(p) ==
    /\ job[p].kind = "project" /\ job[p].step = "chosen"
    /\ job' = [job EXCEPT ![p] = [kind |-> "project", step |-> "read",
                                  links |-> Links(Stored("catalog", job[p].of))]]
    /\ UNCHANGED <<world, tables, kept, reader>>

ProjectionLocked == \E p \in Procs : job[p].kind = "project" /\ job[p].step = "written"

\* The whole publication up to its commit, the prune with the leases it can see.
WriteProjection(p) ==
    /\ job[p].kind = "project" /\ job[p].step = "read" /\ ~ProjectionLocked
    /\ LET state == stream["analysis"]
           links == job[p].links
           events == Diff(Published("analysis"), links)
           next == Compacted([state EXCEPT !.gen = @ + 1, !.head = @ + Len(events)])
       IN job' = [job EXCEPT ![p] =
            IF state.gen > 0 /\ events = <<>> THEN Idle
            ELSE [kind |-> "project", step |-> "written", state |-> next,
                  rows |-> Inserted(Pruned("analysis", rows["analysis"], next.gen), next.gen, links),
                  journal |-> Trimmed(Appended(journal["analysis"], state.head, events), next.floor)]]
    /\ UNCHANGED <<world, tables, kept, reader>>

CommitProjection(p) ==
    /\ job[p].kind = "project" /\ job[p].step = "written"
    /\ stream' = [stream EXCEPT !["analysis"] = job[p].state]
    /\ rows' = [rows EXCEPT !["analysis"] = job[p].rows]
    /\ journal' = [journal EXCEPT !["analysis"] = job[p].journal]
    /\ job' = [job EXCEPT ![p] = Idle]
    /\ UNCHANGED <<world, kept, reader>>

\* A deferral, an error, or an ID rewrite that began meanwhile.
AbandonProjection(p) ==
    /\ job[p].kind = "project"
    /\ job' = [job EXCEPT ![p] = Idle]
    /\ UNCHANGED <<world, tables, kept, reader>>

-----------------------------------------------------------------------------
(* Maintenance, the upgrade, and the world.                                *)

PruneStorage ==
    /\ ~ProjectionLocked /\ stream["catalog"].gen > 0
    /\ rows' = [s \in Streams |-> Pruned(s, rows[s], stream[s].gen)]
    /\ stream' = [s \in Streams |-> Compacted(stream[s])]
    /\ journal' = [s \in Streams |-> Trimmed(journal[s], Compacted(stream[s]).floor)]
    /\ UNCHANGED <<world, kept, job, reader>>

\* A release with another fingerprint schema is installed.
Upgrade ==
    /\ stream["catalog"].schema = "current" /\ stream["catalog"].epoch = 0 /\ stream["catalog"].gen > 0
    /\ \A p \in Procs : job[p] = Idle
    /\ stream' = [stream EXCEPT !["catalog"].schema = "old"]
    /\ UNCHANGED <<world, rows, journal, kept, job, reader>>

LibraryChanges ==
    /\ changes < MaxChanges /\ changes' = changes + 1
    /\ \E x \in Tracks, v \in 0..MaxVersion : v # library[x] /\ library' = [library EXCEPT ![x] = v]
    /\ UNCHANGED <<mapping, tables, kept, job, reader>>

MappingChanges ==
    /\ changes < MaxChanges /\ changes' = changes + 1
    /\ \E x \in Tracks : mapping' = [mapping EXCEPT ![x] = ~@]
    /\ UNCHANGED <<library, tables, kept, job, reader>>

-----------------------------------------------------------------------------
(* Readers.                                                                *)

\* Under the catalogue's row locks, which a projection does not take.
OpenSession(r, s) ==
    /\ reader[r] = Away /\ stream[s].gen > 0
    /\ reader' = [reader EXCEPT ![r] =
         [phase |-> "paging", stream |-> s, pin |-> stream[s].gen, epoch |-> stream[s].epoch,
          seq |-> stream[s].head, next |-> 1, copy |-> Blank, torn |-> FALSE]]
    /\ UNCHANGED <<world, tables, kept, job>>

\* One page; the last completes the session.
ReadPage(r) ==
    /\ reader[r].phase = "paging"
    /\ LET c == reader[r]
           x == TrackOrder[c.next]
           copy == [c.copy EXCEPT ![x] = Stored(c.stream, c.pin)[x]]
           torn == c.torn \/ c.pin \notin DOMAIN rows[c.stream]
       IN reader' = [reader EXCEPT ![r] =
            IF c.next < Len(TrackOrder) THEN [c EXCEPT !.next = @ + 1, !.copy = copy, !.torn = torn]
            ELSE [phase |-> "following", stream |-> c.stream, epoch |-> c.epoch, seq |-> c.seq,
                  copy |-> copy, torn |-> torn]]
    /\ UNCHANGED <<world, tables, kept, job>>

\* The session expires or is released.
Leave(r) ==
    /\ reader[r].phase = "paging"
    /\ reader' = [reader EXCEPT ![r] = Away]
    /\ UNCHANGED <<world, tables, kept, job>>

\* State and events of one snapshot; what cannot be continued densely asks for a bootstrap.
PageEnd(s, seq) == MinOf(stream[s].head, seq + PageLimit)
ContinuesInAnyEpoch(c) ==
    /\ c.seq >= stream[c.stream].floor /\ c.seq <= stream[c.stream].head
    /\ (c.seq + 1)..PageEnd(c.stream, c.seq) \subseteq DOMAIN journal[c.stream]
Continues(c) ==
    /\ c.epoch = stream[c.stream].epoch
    /\ c.seq >= stream[c.stream].floor /\ c.seq <= stream[c.stream].head
    /\ (c.seq + 1)..PageEnd(c.stream, c.seq) \subseteq DOMAIN journal[c.stream]

\* The last event of a page about a track says what its reader holds of it.
Followed(c) ==
    LET about(x) == {n \in c.seq + 1..PageEnd(c.stream, c.seq) : journal[c.stream][n].track = x}
    IN  [c EXCEPT !.seq = PageEnd(c.stream, c.seq), !.epoch = stream[c.stream].epoch,
                  !.copy = [x \in Tracks |->
                    IF about(x) = {} THEN @[x] ELSE journal[c.stream][Max(about(x))].value]]

ReadChanges(r) ==
    /\ reader[r].phase = "following"
    /\ reader' = [reader EXCEPT ![r] = IF Continues(@) THEN Followed(@) ELSE Away]
    /\ UNCHANGED <<world, tables, kept, job>>

-----------------------------------------------------------------------------

NoGenerations == [gen |-> 0, epoch |-> 0, head |-> 0, floor |-> 0, schema |-> "current"]

Init ==
    /\ library = [x \in Tracks |-> 1] /\ mapping = [x \in Tracks |-> FALSE] /\ changes = 0
    /\ stream = [s \in Streams |-> NoGenerations]
    /\ rows = [s \in Streams |-> <<>>] /\ journal = [s \in Streams |-> <<>>]
    /\ required = FALSE /\ wanted = None /\ requests = 0 /\ served = 0
    /\ job = [p \in Procs |-> Idle] /\ reader = [r \in Readers |-> Away]

RefreshStep(p) ==
    \/ Start(p) \/ Fetch(p) \/ Build(p) \/ ConfirmUnchanged(p) \/ Publish(p) \/ FailRefresh(p)
    \/ AfterPublication(p) \/ Satisfy(p)
ProjectStep(p) ==
    ChooseGeneration(p) \/ ReadTracks(p) \/ WriteProjection(p) \/ CommitProjection(p)
      \/ AbandonProjection(p)
ReaderStep(r, s) == OpenSession(r, s) \/ ReadPage(r) \/ Leave(r) \/ ReadChanges(r)

Next ==
    \/ \E p \in Procs : RefreshStep(p) \/ ProjectStep(p)
    \/ Want \/ PruneStorage \/ Upgrade \/ LibraryChanges \/ MappingChanges
    \/ \E r \in Readers, s \in Streams : ReaderStep(r, s)

Spec == Init /\ [][Next]_vars

-----------------------------------------------------------------------------
(* Properties.                                                             *)

\* While a session is open its generation is there, whoever published or pruned
\* since it was created (prune_snapshot_generations).
LeasedRowsStay(s) ==
    \A r \in Readers : reader[r].phase = "paging" /\ reader[r].stream = s =>
      reader[r].pin \in DOMAIN rows[s]

LeasesKeepCatalogue == LeasedRowsStay("catalog")
LeasesKeepAnalysis == LeasedRowsStay("analysis")

\* A reader whose cursor is at the head holds the published generation: the
\* snapshot it paged through, the position it was given and the journal agree,
\* although the generations, the floor and the epoch moved meanwhile.
ReadersHoldPublished ==
    \A r \in Readers :
      LET c == reader[r]
      IN c.phase = "following" /\ ~c.torn
           /\ c.epoch = stream[c.stream].epoch /\ c.seq = stream[c.stream].head
         => c.copy = Published(c.stream)

\* A request that no finished scan served is kept, or a repair is due.
RequestsKept == requests > served => wanted # None \/ required

=============================================================================
