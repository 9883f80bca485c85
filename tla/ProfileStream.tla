---------------------------- MODULE ProfileStream ----------------------------
(***************************************************************************)
(* The profile journal of one source and the clients that follow it        *)
(* (profile_bootstrap.py; record_profile_change, compaction and the pages  *)
(* of catalog_enrichment.py; compact_change_journal and read_change_page   *)
(* of catalog.py).                                                         *)
(*                                                                         *)
(* A change of a published profile or edge appends an event under the      *)
(* stream row's lock and compacts the journal up to a floor.  A client     *)
(* starts from a v2 session (a snapshot captured at a head, then the       *)
(* events up to a later head) or from the legacy bootstrap (live pages     *)
(* under a head read first) and goes on with pages of events.  An event    *)
(* holds a reference to its edge; the edge itself is read when a page is   *)
(* served.                                                                 *)
(*                                                                         *)
(* A page is one row or one event here: a longer page is several of them   *)
(* with nothing in between.  A client applies a page as the contract of    *)
(* the stream asks of it.                                                  *)
(***************************************************************************)
EXTENDS Naturals, Sequences, FiniteSets

CONSTANTS
    TrackCount,    \* tracks are in the order of their IDs
    Medias,        \* media revisions
    Waves,         \* waveforms an analysis of one media may give
    Digests,       \* edge profile digests
    Clients,       \* devices, each with at most one session at a time
    None,
    Limits,        \* retention limits the library's sizes give
    Multiplier,    \* MAX_HELD_RETENTION_MULTIPLIER
    MaxAdvance,    \* PROFILE_COMPACTION_MAX_ADVANCE
    MaxSessions,   \* MAX_SESSIONS_SOURCE
    MaxSeq         \* bound: journal events

ASSUME ConstantsAssumption ==
    /\ TrackCount \in Nat /\ MaxSeq \in Nat
    /\ None \notin Digests \cup Medias \cup Waves /\ None \notin Nat
    /\ Limits \subseteq Nat \ {0} /\ Limits # {}
    /\ Multiplier \in Nat \ {0} /\ MaxAdvance \in Nat \ {0} /\ MaxSessions \in Nat

VARIABLES
    profiles,    \* published_source_profiles
    edges,       \* edge_profiles
    events,      \* profile_changes: the stored events by their seq
    head, floor, \* profile_stream_state
    retention,   \* profile_stream_state.retention_limit
    admission,   \* what a create read before its session row is committed
    sessions,    \* profile_bootstrap_sessions with their snapshot and catch-up
    captures,    \* capture transactions: what their MVCC snapshot holds
    replays,     \* catch-up transactions: the events copied so far
    clients      \* what each device has

publicVars == <<profiles, edges>>
journalVars == <<events, head, floor, retention>>
sessionVars == <<admission, sessions, captures, replays>>
vars == <<profiles, edges, events, head, floor, retention, admission, sessions,
          captures, replays, clients>>

Tracks == 1..TrackCount
Profile == [media : Medias, wave : Waves]
Edge == [media : Medias, digest : Digests]
Event == [track : Tracks, profile : Profile \cup {None},
          ref : Digests \cup {None}, kept : BOOLEAN]
SnapshotRow == [track : Tracks, profile : Profile, ref : Digests \cup {None}]
Session == [state : {"none", "capturing", "ready"}, seq : Nat,
            head : Nat \cup {None},          \* head_seq
            over : BOOLEAN,                  \* expired, or of an earlier identity
            abandoned : BOOLEAN,
            claimed : BOOLEAN,               \* pages_served > 0
            snapshot : Seq(SnapshotRow),     \* stored and not read yet
            catchup : Seq(Event)]
NoSession == [state |-> "none", seq |-> 0, head |-> None, over |-> FALSE,
              abandoned |-> FALSE, claimed |-> FALSE,
              snapshot |-> <<>>, catchup |-> <<>>]
Copy == [profile : Profile, edge : Digests \cup {None}]
Client == [phase : {"idle", "snapshot", "catchup", "legacy", "delta"},
           refs : BOOLEAN,                      \* the edge_refs opt-in
           at : Nat,                            \* tracks of the legacy bootstrap read
           cursor : Nat,
           has : [Tracks -> Copy \cup {None}],
           misses : SUBSET Tracks]              \* edges to fetch

\* NULL is no row.
ASSUME NoneAssumption == None \notin Profile \cup Edge \cup Copy

Smaller(a, b) == IF a < b THEN a ELSE b
Larger(a, b) == IF a > b THEN a ELSE b
Minus(a, b) == IF a > b THEN a - b ELSE 0

-----------------------------------------------------------------------------
(* The published state.                                                    *)

\* edge_join: the edge of the published row's media.
PublicEdge(t) ==
    IF profiles[t] # None /\ edges[t] # None /\ edges[t].media = profiles[t].media
    THEN edges[t].digest ELSE None

Public(t) == IF profiles[t] = None THEN None
             ELSE [profile |-> profiles[t], edge |-> PublicEdge(t)]

\* The edge a reference of a snapshot or catch-up row resolves to: the very one.
ReferencedEdge(t, media, ref) ==
    IF ref # None /\ edges[t] = [media |-> media, digest |-> ref] THEN ref ELSE None

\* The one a reference of an event page resolves to: the media's current edge.
CurrentEdge(t, media, ref) ==
    IF ref # None /\ edges[t] # None /\ edges[t].media = media
    THEN edges[t].digest ELSE None

-----------------------------------------------------------------------------
(* Compaction.                                                             *)

Exists(c) == sessions[c].state # "none"

\* live_bootstrap_session_sql.
Live(c) ==
    /\ Exists(c)
    /\ ~sessions[c].over
    /\ sessions[c].state = "capturing" => ~sessions[c].abandoned

\* A plausible bug: a capture in progress holds nothing.
ReadyHolders == {c \in Clients : Live(c) /\ sessions[c].head = None
                                 /\ sessions[c].state = "ready"}

\* _profile_floor_hold: the sessions that have yet to copy their events.
Holders == {c \in Clients : Live(c) /\ sessions[c].head = None}

\* The floor compact_change_journal aims at for head h.
TargetFloor(h, limit) ==
    LET plain == Minus(h, limit)
        hard == Minus(h, limit * Multiplier)
        hold == CHOOSE s \in {sessions[c].seq : c \in Holders} :
                  \A c \in Holders : s <= sessions[c].seq
    IN IF Holders = {} THEN plain ELSE Larger(hard, Smaller(plain, hold))

\* A plausible bug: the event at the floor stays.
TrimBelow(newEvents, newFloor) ==
    /\ floor' = newFloor
    /\ events' = [s \in {s \in DOMAIN newEvents : s >= newFloor} |-> newEvents[s]]

Trim(newEvents, newFloor) ==
    /\ floor' = newFloor
    /\ events' = [s \in {s \in DOMAIN newEvents : s > newFloor} |-> newEvents[s]]

\* record_profile_change for one event, record_profile_deletions for several:
\* the events get the next seqs, and one compaction advances the floor by no
\* more than the events' share.
Journal(new) ==
    LET h == head + Len(new)
        stored == [s \in DOMAIN events \cup (head + 1)..h |->
                     IF s > head THEN new[s - head] ELSE events[s]]
    IN /\ h <= MaxSeq
       /\ head' = h
       /\ Trim(stored, Larger(floor, Smaller(TargetFloor(h, retention),
                                             floor + MaxAdvance * Len(new))))
       /\ UNCHANGED retention

-----------------------------------------------------------------------------
(* What changes the published state.                                       *)

Upsert(t, profile, ref, kept) ==
    [track |-> t, profile |-> profile, ref |-> ref, kept |-> kept]
Delete(t) == [track |-> t, profile |-> None, ref |-> None, kept |-> FALSE]

Fresh(t, profile) == profiles[t] = None \/ profiles[t].media # profile.media

\* complete_attempt: a first profile or one of new media drops the edge; another
\* waveform of the same media keeps it and says so.  The same row is no change.
PublishProfile(t, profile) ==
    /\ profiles[t] # profile
    /\ profiles' = [profiles EXCEPT ![t] = profile]
    /\ edges' = IF Fresh(t, profile) THEN [edges EXCEPT ![t] = None] ELSE edges
    /\ Journal(<<IF Fresh(t, profile) \/ PublicEdge(t) = None
                THEN Upsert(t, profile, None, FALSE)
                ELSE Upsert(t, profile, PublicEdge(t), TRUE)>>)
    /\ UNCHANGED <<sessionVars, clients>>

\* publish_edge_profile for the published media.
PublishEdge(t, digest) ==
    /\ profiles[t] # None
    /\ edges' = [edges EXCEPT ![t] = [media |-> profiles[t].media, digest |-> digest]]
    /\ Journal(<<Upsert(t, profiles[t], digest, FALSE)>>)
    /\ UNCHANGED <<profiles, sessionVars, clients>>

\* A withdrawal; the edges go with it or in a later sweep.
Withdraw(W, purge) ==
    /\ W # {} /\ \A t \in W : profiles[t] # None
    /\ profiles' = [t \in Tracks |-> IF t \in W THEN None ELSE profiles[t]]
    /\ edges' = [t \in Tracks |-> IF t \in W /\ purge THEN None ELSE edges[t]]
    /\ LET order(i) == CHOOSE t \in W : Cardinality({u \in W : u <= t}) = i
       IN Journal([i \in 1..Cardinality(W) |-> Delete(order(i))])
    /\ UNCHANGED <<sessionVars, clients>>

Reached == [t \in Tracks |-> IF PublicEdge(t) = None THEN None ELSE edges[t]]

\* purge_withdrawn_edges, after a publication that withdrew profiles.
PurgeEdges ==
    /\ edges # Reached
    /\ edges' = Reached
    /\ UNCHANGED <<profiles, journalVars, sessionVars, clients>>

\* compact_enrichment_storage: it purges edges, the limit follows the library, and
\* nothing bounds the compaction.  Its withdrawals are steps of their own.
Maintain(limit) ==
    /\ edges' = Reached
    /\ retention' = limit
    /\ Trim(events, Larger(floor, TargetFloor(head, limit)))
    /\ UNCHANGED <<profiles, head, sessionVars, clients>>

\* refresh_profile_retention, with a catalogue publication: the limit alone.
RefreshRetention(limit) ==
    /\ limit # retention
    /\ retention' = limit
    /\ UNCHANGED <<publicVars, events, head, floor, sessionVars, clients>>

\* The source is bound to another core server, or its catalogue gets a new epoch.
\* A session is of the identity it was admitted under; none comes back.
ChangeIdentity ==
    /\ sessions' = [c \in Clients |-> [sessions[c] EXCEPT !.over = @ \/ Exists(c)]]
    /\ admission' = IF admission = None THEN None ELSE [admission EXCEPT !.over = TRUE]
    /\ UNCHANGED <<publicVars, journalVars, captures, replays, clients>>

-----------------------------------------------------------------------------
(* Creating a session.                                                     *)

Start(client, phase, cursor) ==
    [client EXCEPT !.phase = phase, !.at = 0, !.cursor = cursor,
                   !.has = [t \in Tracks |-> None], !.misses = {}]

\* The row of c's session is locked by its catch-up or by a create that replaces it.
Locked(c) == replays[c] # None \/ (admission # None /\ admission.client = c)

\* pages_served > 0.
Claimed(c) == sessions[c].claimed

\* _admit reads the slots and the head under the global lock; the journal may
\* move before its row is committed.  A retry replaces its unclaimed session.
AdmitRead(c) ==
    /\ admission = None /\ clients[c].phase = "idle"
    /\ ~Claimed(c) /\ ~Locked(c)
    /\ Cardinality({d \in Clients \ {c} : Live(d)}) < MaxSessions
    /\ admission' = [client |-> c, seq |-> head, over |-> FALSE]
    /\ UNCHANGED <<publicVars, journalVars, sessions, captures, replays, clients>>

\* A capture of the replaced session then fails; its row, expired, is left out.
AdmitCommit ==
    /\ admission # None
    /\ sessions' = [sessions EXCEPT ![admission.client] =
                      [NoSession EXCEPT !.state = "capturing", !.seq = admission.seq,
                                        !.over = admission.over]]
    /\ captures' = [captures EXCEPT ![admission.client] = None]
    /\ admission' = None
    /\ UNCHANGED <<publicVars, journalVars, replays, clients>>

Drop(c) ==
    /\ Exists(c) /\ ~Locked(c)
    /\ sessions' = [sessions EXCEPT ![c] = NoSession]
    /\ captures' = [captures EXCEPT ![c] = None]
    /\ UNCHANGED <<publicVars, journalVars, admission, replays, clients>>

\* _delete_dead skips a locked session.
PurgeSession(c) ==
    /\ ~Live(c)
    /\ Drop(c)

\* _abandon after a failure, or release_session by its client.
EndSession(c) ==
    /\ sessions[c].state = "capturing" \/ clients[c].phase \in {"idle", "delta"}
    /\ Drop(c)

\* Time: the session's hour ends, or its capture is ten minutes old.
Expire(c) ==
    /\ Exists(c) /\ ~sessions[c].over
    /\ sessions' = [sessions EXCEPT ![c].over = TRUE]
    /\ UNCHANGED <<publicVars, journalVars, admission, captures, replays, clients>>

Overrun(c) ==
    /\ sessions[c].state = "capturing" /\ ~sessions[c].abandoned
    /\ sessions' = [sessions EXCEPT ![c].abandoned = TRUE]
    /\ UNCHANGED <<publicVars, journalVars, admission, captures, replays, clients>>

\* A plausible bug: the snapshot lists every track.
AllRows == [t \in Tracks |-> [track |-> t, profile |-> profiles[t], ref |-> PublicEdge(t)]]

\* The published rows in the order of their tracks, with references to their edges.
Rows ==
    LET published == {t \in Tracks : profiles[t] # None}
        order(i) == CHOOSE t \in published : Cardinality({u \in published : u <= t}) = i
    IN [i \in 1..Cardinality(published) |->
          [track |-> order(i), profile |-> profiles[order(i)],
           ref |-> PublicEdge(order(i))]]

\* _capture_snapshot: one REPEATABLE READ snapshot of head, rows and edges ...
CaptureBegin(c) ==
    /\ sessions[c].state = "capturing" /\ captures[c] = None
    /\ \A d \in Clients : captures[d] = None
    /\ ~sessions[c].over
    /\ captures' = [captures EXCEPT ![c] = [seq |-> head, rows |-> Rows]]
    /\ UNCHANGED <<publicVars, journalVars, admission, sessions, replays, clients>>

\* A plausible bug: the head is read after the rows, outside their snapshot.
HeadAtCommit(c) == head

CapturedSeq(c) == captures[c].seq

\* ... copied while the tables move on.  The answer with the first page token may
\* be lost.
CaptureCommit(c, answered) ==
    /\ captures[c] # None /\ ~Locked(c)
    /\ sessions' = [sessions EXCEPT ![c].state = "ready", ![c].seq = CapturedSeq(c),
                                    ![c].snapshot = captures[c].rows]
    /\ captures' = [captures EXCEPT ![c] = None]
    /\ clients' = IF answered
                  THEN [clients EXCEPT ![c] = Start(@, "snapshot", CapturedSeq(c))]
                  ELSE clients
    /\ UNCHANGED <<publicVars, journalVars, admission, replays>>

\* _session: ready, unexpired and of the source's current identity.
Valid(c) ==
    /\ sessions[c].state = "ready" /\ ~sessions[c].over

\* _adopt: a retry takes over the snapshot its earlier create has captured.
Adopt(c) ==
    /\ clients[c].phase = "idle" /\ Valid(c) /\ ~Claimed(c) /\ ~Locked(c)
    /\ clients' = [clients EXCEPT ![c] = Start(@, "snapshot", sessions[c].seq)]
    /\ UNCHANGED <<publicVars, journalVars, sessionVars>>

-----------------------------------------------------------------------------
(* Pages of a session.                                                     *)

\* 410 or 413: the client has to start again, from nothing.
Restart(c) == clients' = [clients EXCEPT ![c] = Start(@, "idle", 0)]

\* An upsert as the client stores it: `edge` is what the page carries.
Stored(client, t, profile, edge) ==
    [client EXCEPT !.has[t] = [profile |-> profile, edge |-> edge], !.misses = @ \ {t}]

\* A referenced edge is kept if the client has it, and queued for a fetch if not.
Referenced(client, t, profile, ref) ==
    LET mine == client.has[t] # None /\ client.has[t].edge = ref
                /\ client.has[t].profile.media = profile.media
    IN [client EXCEPT !.has[t] = [profile |-> profile, edge |-> IF mine THEN ref ELSE None],
                      !.misses = IF mine THEN @ \ {t} ELSE @ \cup {t}]

Applied(client, event, edge) ==
    LET t == event.track
    IN IF event.profile = None
       THEN [client EXCEPT !.has[t] = None, !.misses = @ \ {t}]
       ELSE IF client.refs /\ event.kept
       THEN Referenced(client, t, event.profile, event.ref)
       ELSE Stored(client, t, event.profile, edge)

\* snapshot_page.
SnapshotPage(c) ==
    LET client == clients[c]
        rows == sessions[c].snapshot
        row == Head(rows)
    IN /\ client.phase = "snapshot" /\ Valid(c) /\ ~Locked(c)
       /\ sessions' = [sessions EXCEPT ![c].claimed = TRUE,
                                       ![c].snapshot = IF rows = <<>> THEN rows ELSE Tail(rows)]
       /\ clients' = [clients EXCEPT ![c] =
            IF rows = <<>> THEN [client EXCEPT !.phase = "catchup"]
            ELSE Stored(client, row.track, row.profile,
                        ReferencedEdge(row.track, row.profile.media, row.ref))]
       /\ UNCHANGED <<publicVars, journalVars, admission, captures, replays>>

\* catchup_page, first call: fix the head and copy the events up to it, in
\* statements that each see what compaction has left.
CatchupBegin(c) ==
    /\ clients[c].phase = "catchup" /\ Valid(c) /\ ~Locked(c)
    /\ sessions[c].head = None
    /\ floor <= sessions[c].seq
    /\ replays' = [replays EXCEPT ![c] = [head |-> head, at |-> sessions[c].seq,
                                          most |-> retention * Multiplier,
                                          events |-> <<>>]]
    /\ UNCHANGED <<publicVars, journalVars, admission, sessions, captures, clients>>

CatchupBatch(c) ==
    LET r == replays[c] IN
    /\ r # None /\ r.at < r.head
    /\ IF r.at + 1 \in DOMAIN events /\ Len(r.events) < r.most
       THEN /\ replays' = [replays EXCEPT ![c].at = @ + 1,
                                          ![c].events = Append(@, events[r.at + 1])]
            /\ UNCHANGED clients
       ELSE /\ replays' = [replays EXCEPT ![c] = None]
            /\ Restart(c)
    /\ UNCHANGED <<publicVars, journalVars, admission, sessions, captures>>

CatchupCommit(c) ==
    LET r == replays[c] IN
    /\ r # None /\ r.at = r.head
    /\ sessions' = [sessions EXCEPT ![c].head = r.head, ![c].catchup = r.events,
                                    ![c].claimed = TRUE]
    /\ replays' = [replays EXCEPT ![c] = None]
    /\ UNCHANGED <<publicVars, journalVars, admission, captures, clients>>

\* Its pages; after the last the cursor is the captured head.
CatchupPage(c) ==
    LET client == clients[c]
        rest == sessions[c].catchup
        event == Head(rest)
    IN /\ client.phase = "catchup" /\ Valid(c) /\ sessions[c].head # None
       /\ sessions' = [sessions EXCEPT ![c].catchup =
                                         IF rest = <<>> THEN rest ELSE Tail(rest)]
       /\ clients' = [clients EXCEPT ![c] =
            IF rest = <<>>
            THEN [client EXCEPT !.phase = "delta", !.cursor = sessions[c].head]
            ELSE Applied(client, event,
                         IF event.profile = None THEN None
                         ELSE ReferencedEdge(event.track, event.profile.media, event.ref))]
       /\ UNCHANGED <<publicVars, journalVars, admission, captures, replays>>

\* A page of a session that is gone, or a catch-up below the floor.
PageRefused(c) ==
    /\ clients[c].phase \in {"snapshot", "catchup"}
    /\ replays[c] = None
    /\ \/ ~Valid(c)
       \/ /\ Valid(c) /\ clients[c].phase = "catchup"
          /\ sessions[c].head = None /\ floor > sessions[c].seq
    /\ Restart(c)
    /\ UNCHANGED <<publicVars, journalVars, sessionVars>>

-----------------------------------------------------------------------------
(* The legacy bootstrap, event pages and fetches.                          *)

\* profile_bootstrap_page reads the head before its first rows ...
LegacyBegin(c) ==
    /\ clients[c].phase = "idle"
    /\ clients' = [clients EXCEPT ![c] = Start(@, "legacy", head)]
    /\ UNCHANGED <<publicVars, journalVars, sessionVars>>

\* ... and pages what is published when each page is read.
LegacyPage(c) ==
    LET client == clients[c]
        t == client.at + 1
    IN /\ client.phase = "legacy"
       /\ clients' = [clients EXCEPT ![c] =
            IF client.at = TrackCount THEN [client EXCEPT !.phase = "delta"]
            ELSE [client EXCEPT !.at = t, !.has[t] = Public(t)]]
       /\ UNCHANGED <<publicVars, journalVars, sessionVars>>

\* read_change_page: state and events of one snapshot, and no gap.
Readable(cursor) ==
    /\ floor <= cursor
    /\ cursor + 1 \in DOMAIN events

ChangesPage(c) ==
    LET client == clients[c]
        event == events[client.cursor + 1]
    IN /\ client.phase = "delta" /\ client.cursor < head
       /\ IF Readable(client.cursor)
          THEN clients' = [clients EXCEPT ![c] =
                 [Applied(client, event,
                          IF event.profile = None THEN None
                          ELSE CurrentEdge(event.track, event.profile.media, event.ref))
                    EXCEPT !.cursor = @ + 1]]
          ELSE Restart(c)
       /\ UNCHANGED <<publicVars, journalVars, sessionVars>>

\* GET /api/profiles for an edge the client misses.
Fetch(c, t) ==
    LET client == clients[c]
        edge == IF PublicEdge(t) # None /\ profiles[t].media = client.has[t].profile.media
                THEN PublicEdge(t) ELSE None
    IN /\ t \in client.misses
       /\ clients' = [clients EXCEPT ![c] =
                        [client EXCEPT !.has[t].edge = edge, !.misses = @ \ {t}]]
       /\ UNCHANGED <<publicVars, journalVars, sessionVars>>

-----------------------------------------------------------------------------

\* An install; one that had profiles before it had a journal publishes them.
Init ==
    /\ profiles \in [Tracks -> Profile \cup {None}]
    /\ edges = [t \in Tracks |-> None]
    /\ events = <<>> /\ head = 0 /\ floor = 0
    /\ retention \in Limits
    /\ admission = None
    /\ sessions = [c \in Clients |-> NoSession]
    /\ captures = [c \in Clients |-> None] /\ replays = [c \in Clients |-> None]
    /\ clients \in [Clients -> {[phase |-> "idle", refs |-> refs, at |-> 0, cursor |-> 0,
                                 has |-> [t \in Tracks |-> None], misses |-> {}] :
                                refs \in BOOLEAN}]

Publish ==
    \/ \E t \in Tracks, p \in Profile : PublishProfile(t, p)
    \/ \E t \in Tracks, d \in Digests : PublishEdge(t, d)
    \/ \E W \in SUBSET Tracks, purge \in BOOLEAN : Withdraw(W, purge)
    \/ PurgeEdges
    \/ \E limit \in Limits : Maintain(limit) \/ RefreshRetention(limit)
    \/ ChangeIdentity

Create ==
    \/ \E c \in Clients : AdmitRead(c)
    \/ AdmitCommit
    \/ \E c \in Clients :
         \/ PurgeSession(c) \/ EndSession(c) \/ Expire(c) \/ Overrun(c)
         \/ CaptureBegin(c) \/ Adopt(c)
         \/ \E answered \in BOOLEAN : CaptureCommit(c, answered)

Read ==
    \E c \in Clients :
      \/ SnapshotPage(c) \/ CatchupBegin(c) \/ CatchupBatch(c) \/ CatchupCommit(c)
      \/ CatchupPage(c) \/ PageRefused(c)
      \/ LegacyBegin(c) \/ LegacyPage(c) \/ ChangesPage(c)
      \/ \E t \in Tracks : Fetch(c, t)

Next == Publish \/ Create \/ Read

Spec == Init /\ [][Next]_vars

-----------------------------------------------------------------------------
(* Properties.                                                             *)

TypeOK ==
    /\ profiles \in [Tracks -> Profile \cup {None}]
    /\ edges \in [Tracks -> Edge \cup {None}]
    /\ head \in 0..MaxSeq /\ floor \in 0..MaxSeq
    /\ DOMAIN events \subseteq 1..MaxSeq
    /\ \A s \in DOMAIN events : events[s] \in Event
    /\ retention \in Limits
    /\ admission = None \/ admission \in [client : Clients, seq : Nat, over : BOOLEAN]
    /\ \A c \in Clients : sessions[c] \in Session
    /\ \A c \in Clients : clients[c] \in Client

\* The journal has no gap: every event past the floor is stored, whatever the
\* compactions of publishers and of maintenance have trimmed under which holds.
JournalDense == DOMAIN events = (floor + 1)..head

\* A client that has read everything has what is published, edges included,
\* although pages were read while rows, edges and journal moved on.  Only an edge
\* it has queued for a fetch may still be missing.
ReadersConverge ==
    \A c \in Clients :
      clients[c].phase = "delta" /\ clients[c].cursor = head =>
        \A t \in Tracks :
          IF t \in clients[c].misses
          THEN clients[c].has[t] = [profile |-> profiles[t], edge |-> None]
          ELSE clients[c].has[t] = Public(t)

\* A live session that was never given up for dead can copy its events unless the
\* journal has outgrown the held limit since its snapshot, the least of the limits
\* where it changes: _profile_floor_hold covers it from its admission on.
HeldSessionsReadable ==
    \A c \in Clients :
      Live(c) /\ sessions[c].state = "ready" /\ sessions[c].head = None
        /\ ~sessions[c].abandoned
        /\ ~(\E limit \in Limits : head - sessions[c].seq > limit * Multiplier)
      => floor <= sessions[c].seq

\* "a session the hold kept readable never gets 413 at catch-up".
CatchupFits ==
    \A c \in Clients :
      Live(c) /\ sessions[c].state = "ready" /\ sessions[c].head = None
        /\ floor <= sessions[c].seq
      => head - sessions[c].seq <= retention * Multiplier

=============================================================================
