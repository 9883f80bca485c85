--------------------------- MODULE LoudnessRecords ---------------------------
(* Track and album loudness of one source.  A backfill turn follows the      *)
(* catalogue and measures what the edge pass does not; both publish track    *)
(* records and the album records pooled from them.  A publication reads the  *)
(* catalogue in two statements, and only the stream's state row is locked:   *)
(* the catalogue may move between them.                                      *)
EXTENDS Naturals, Sequences, FiniteSets, SequencesExt

CONSTANTS
    Tracks,      \* track IDs: numbers, for the order of the pass
    Albums,      \* album IDs: numbers too, for the order of the pages
    None,
    Silent,      \* the media that have no block over the loudness gate
    Steps,       \* the failures after which a track still backs off
    Retain,      \* events the journal keeps
    Advance,     \* the most events one publication removes (COMPACTION_MAX_ADVANCE)
    PageLimit,   \* items of a page
    MaxChanges,  \* bound: publications of the catalogue and rekeys
    MaxCrashes   \* bound: turns that die, decoders that go missing

\* What the constants must satisfy.
LoudnessBounds ==
    /\ Tracks \subseteq Nat \ {0} /\ IsFiniteSet(Tracks)
    /\ Albums \subseteq Nat \ {0} /\ IsFiniteSet(Albums)
    /\ {Retain, Advance, PageLimit} \subseteq Nat \ {0}
    /\ Steps \in Nat /\ MaxChanges \in Nat /\ MaxCrashes \in Nat

VARIABLES
    cat,       \* the published catalogue: its generation and the tracks it holds
    edge,      \* tracks whose current media the edge pass will still decode
    changes, crashes,
    measured,  \* loudness_tracks: the record of each track, or None
    pooled,    \* loudness_albums: the record of each album, or None
    stream, journal, \* loudness_stream_state and loudness_changes, by number
    pass,      \* loudness_backfill_state
    attempts,  \* loudness_attempts
    turn,      \* the backfill turn
    decode,    \* what the edge pass has measured and not published
    writer,    \* the open publication, which holds the stream's state row
    reader     \* a client

stored == <<measured, pooled, stream, journal>>
world == <<cat, edge, changes>>
vars == <<world, crashes, stored, pass, attempts, turn, decode, writer, reader>>

Idle == [at |-> "idle"]
Away == [at |-> "away"]
Unlocked == [by |-> "nobody"]  \* no publication holds the stream's state row
\* A track is in the catalogue when it is available music with an album.
Present(t) == cat.track[t] # None
Media(t) == cat.track[t].media
NoMedia == 0  \* the catalogue has no fingerprint of the file
\* The catalogue's statement of an album: its members and their media.
Members(a) == {[track |-> t, media |-> Media(t)] : t \in {u \in Tracks : Present(u) /\ cat.track[u].album = a}}

-----------------------------------------------------------------------------
(* The catalogue, and a provider rekey, which moves the records or drops     *)
(* them in its own publication.                                              *)

\* After a publication the refresh arms a finished pass and one that waits for
\* a decoder, unless it dies or fails first.
Armed(statuses) == IF pass.status \in statuses
                   THEN [pass EXCEPT !.status = "queued", !.wait = FALSE,
                                     !.cursor = IF pass.status = "complete" THEN 0 ELSE @]
                   ELSE pass

\* A track comes, leaves, gets other media, or none known, or another album.
Becomes(x) == IF x = None THEN [album : Albums, media : {1}]
              ELSE {None} \cup {[x EXCEPT !.album = a] : a \in Albums \ {x.album}}
                          \cup {[x EXCEPT !.media = m] : m \in {NoMedia, 1, 2} \ {x.media}}
CatalogMoves(t) ==
    /\ changes < MaxChanges /\ changes' = changes + 1
    /\ \E x \in Becomes(cat.track[t]) :
         /\ cat' = [gen |-> cat.gen + 1, track |-> [cat.track EXCEPT ![t] = x]]
         /\ \E due \in BOOLEAN :
              edge' = IF due /\ x # None /\ x.media # NoMedia THEN edge \cup {t} ELSE edge \ {t}
    /\ pass' \in {pass, Armed({"complete", "waiting_runtime"})}
    /\ UNCHANGED <<crashes, stored, attempts, turn, decode, writer, reader>>

Moved(f, o, n) == [f EXCEPT ![n] = f[o], ![o] = None]
NoEvents == [n \in {} |-> None]
EpochKept == UNCHANGED <<stream, journal>>  \* mutant: clients go on under the old IDs
\* Clients must bootstrap again under the new IDs.
NewEpoch == /\ stream' = [epoch |-> stream.epoch + 1, head |-> 0, floor |-> 0]
            /\ journal' = NoEvents
Rekey(o, n) ==
    /\ changes < MaxChanges /\ changes' = changes + 1
    /\ writer = Unlocked /\ o # n /\ Present(o) /\ ~Present(n)
    /\ cat' = [gen |-> cat.gen + 1, track |-> Moved(cat.track, o, n)]
    /\ edge' = (edge \ {o}) \cup {x \in {n} : o \in edge}
    /\ measured' \in {Moved(measured, o, n), [t \in Tracks |-> None]}
    /\ pooled' = [a \in Albums |-> None]
    /\ NewEpoch
    /\ UNCHANGED <<crashes, pass, attempts, turn, decode, writer, reader>>

-----------------------------------------------------------------------------
(* The records.                                                              *)

\* An album has a record when all its members are measured on their current media,
\* and are not all silent.
Pool(a, recs) ==
    LET ms == Members(a)
    IN  IF /\ \A m \in ms : m.media # NoMedia /\ recs[m.track] # None /\ recs[m.track].media = m.media
           /\ \E m \in ms : m.media \notin Silent
        THEN [hash |-> ms, pool |-> [t \in {m.track : m \in ms} |-> recs[t]]]
        ELSE None
StandsByTracks(a) ==  \* mutant: the track set without its media
    pooled[a] # None /\ {m.track : m \in pooled[a].hash} = {m.track : m \in Members(a)}
\* Same members, same media: the record stands.
Stands(a) == /\ pooled[a] # None /\ pooled[a].hash = Members(a)
             /\ \A m \in Members(a) : m.media # NoMedia
Event(kind, id, value) == [kind |-> kind, id |-> id, value |-> value]
Differences(kind, ids, old, new) ==
    SetToSeq({Event(kind, i, new[i]) : i \in {j \in ids : old[j] # new[j]}})

\* What changed is journaled; then the events past the retention go, as many as one
\* publication may remove.
Commit(recs, albs) ==
    LET events == Differences("track", Tracks, measured, recs) \o Differences("album", Albums, pooled, albs)
        head   == stream.head + Len(events)
        floor  == IF events = << >> \/ head <= stream.floor + Retain THEN stream.floor
                  ELSE Min({head - Retain, stream.floor + Advance})
    IN  /\ measured' = recs /\ pooled' = albs
        /\ stream' = [epoch |-> stream.epoch, head |-> head, floor |-> floor]
        /\ journal' = [n \in floor + 1..head |-> IF n <= stream.head THEN journal[n]
                                                 ELSE events[n - stream.head]]

\* The albums of the tracks, in one statement; their members, in the next.
BeginPublish(by, t, record) ==
    /\ writer = Unlocked
    /\ writer' = [by |-> by, track |-> t, record |-> record,
                  albums |-> {cat.track[u].album : u \in {x \in {t} : Present(x)}}]
Publish ==
    LET recs == [measured EXCEPT ![writer.track] = writer.record]
    IN  /\ Commit(recs, [a \in Albums |->
                           IF a \in writer.albums /\ Members(a) # {} THEN Pool(a, recs) ELSE pooled[a]])
        /\ writer' = Unlocked

BeginReconcile ==
    /\ writer = Unlocked
    /\ writer' = [by |-> "reconcile", gone |-> {t \in Tracks : measured[t] # None /\ ~Present(t)}]
Reconcile ==
    LET recs == [t \in Tracks |-> IF t \in writer.gone THEN None ELSE measured[t]]
    IN  /\ Commit(recs, [a \in Albums |-> IF Stands(a) THEN pooled[a] ELSE Pool(a, recs)])
        /\ writer' = Unlocked

-----------------------------------------------------------------------------
(* The backfill turn.                                                        *)

Cooling(t) == attempts[t] # None /\ attempts[t].media = Media(t) /\ attempts[t].until # "due"
Unmeasured(t) == /\ Present(t) /\ Media(t) # NoMedia
                 /\ (measured[t] = None \/ measured[t].media # Media(t))
Candidates(after) == {t \in Tracks : t > after /\ Unmeasured(t) /\ ~Cooling(t) /\ t \notin edge}

PassDue == pass.status \in {"queued", "complete", "failed", "running"} /\ ~pass.wait
Due == PassDue \/ (pass.reconciled # cat.gen /\ (pass.status = "failed" => ~pass.wait))
Put(x) == turn' = x
Finish(p) == pass' = p /\ Put(Idle)

StartTurn ==
    /\ turn.at = "idle" /\ Due
    /\ Put([at |-> IF pass.reconciled # cat.gen THEN "follow" ELSE "page",
            gen |-> cat.gen, due |-> PassDue, track |-> 0, media |-> 0,
            cursor |-> IF pass.status = "complete" THEN 0 ELSE pass.cursor])
    /\ UNCHANGED <<world, crashes, stored, pass, attempts, decode, writer, reader>>

Follow ==
    /\ turn.at = "follow" /\ BeginReconcile
    /\ Put([turn EXCEPT !.at = "following"])
    /\ UNCHANGED <<world, crashes, stored, pass, attempts, decode, reader>>
\* The generation remembered is the one this turn read at its start.
Followed ==
    /\ turn.at = "following" /\ Reconcile
    /\ pass' = [pass EXCEPT !.reconciled = turn.gen]
    /\ attempts' = [t \in Tracks |-> IF Present(t) THEN attempts[t] ELSE None]
    /\ Put(IF turn.due THEN [turn EXCEPT !.at = "page"] ELSE Idle)
    /\ UNCHANGED <<world, crashes, decode, reader>>

NoDecoder ==
    /\ turn.at = "page" /\ turn.due /\ turn.track = 0 /\ crashes < MaxCrashes /\ crashes' = crashes + 1
    /\ Finish([pass EXCEPT !.status = "waiting_runtime", !.wait = FALSE])
    /\ UNCHANGED <<world, stored, attempts, decode, writer, reader>>
NotDue ==
    /\ turn.at = "page" /\ ~turn.due /\ Put(Idle)
    /\ UNCHANGED <<world, crashes, stored, pass, attempts, decode, writer, reader>>
NextTrack ==
    /\ turn.at = "page" /\ turn.due
    /\ LET due == Candidates(turn.cursor) IN
         IF due = {} THEN Finish([pass EXCEPT !.status = "complete", !.cursor = 0, !.wait = TRUE])
         ELSE \E t \in due :
                /\ \A u \in due : t <= u
                /\ pass' = [pass EXCEPT !.status = "running", !.wait = FALSE]
                /\ Put([turn EXCEPT !.at = "measure", !.track = t, !.media = Media(t)])
    /\ UNCHANGED <<world, crashes, stored, attempts, decode, writer, reader>>
\* The slice's deadline, after at least one track.
Deadline ==
    /\ turn.at = "page" /\ turn.track # 0
    /\ Finish([pass EXCEPT !.status = "queued", !.cursor = turn.cursor, !.wait = FALSE])
    /\ UNCHANGED <<world, crashes, stored, attempts, decode, writer, reader>>

Reached == [turn EXCEPT !.at = "page", !.cursor = turn.track]
FailuresForgotten(t, m) == 1  \* mutant: every failure is the first
Failures(t, m) == IF attempts[t] # None /\ attempts[t].media = m THEN attempts[t].n + 1 ELSE 1
\* Every failure of the same media waits longer, and in the end it parks.
ParksAt(n, unsupported) == unsupported \/ n > Steps
Failed(t, m, unsupported) ==
    attempts' = [attempts EXCEPT ![t] =
        LET n == Failures(t, m)
        IN  [media |-> m, n |-> n, until |-> IF ParksAt(n, unsupported) THEN "parked" ELSE "cooling"]]
MeasureFails(unsupported) ==
    /\ turn.at = "measure"
    /\ Failed(turn.track, turn.media, unsupported) /\ Put(Reached)
    /\ UNCHANGED <<world, crashes, stored, pass, decode, writer, reader>>
\* The file measured is the one the catalogue described.
Measure ==
    /\ turn.at = "measure" /\ Present(turn.track) /\ Media(turn.track) = turn.media
    /\ Put([turn EXCEPT !.at = "publish"])
    /\ UNCHANGED <<world, crashes, stored, pass, attempts, decode, writer, reader>>
PublishMeasured ==
    /\ turn.at = "publish"
    /\ BeginPublish("backfill", turn.track, [media |-> turn.media, by |-> "backfill"])
    /\ Put([turn EXCEPT !.at = "publishing"])
    /\ UNCHANGED <<world, crashes, stored, pass, attempts, decode, reader>>
PublishedMeasured ==
    /\ turn.at = "publishing" /\ Publish
    /\ attempts' = [attempts EXCEPT ![turn.track] = None] /\ Put(Reached)
    /\ UNCHANGED <<world, crashes, pass, decode, reader>>

TurnStep == StartTurn \/ Follow \/ Followed \/ NotDue \/ NextTrack \/ Measure
            \/ PublishMeasured \/ PublishedMeasured

\* A worker dies, and its open transaction with it; the row looks running.
Mine == writer.by \notin {"nobody", "edge"}
Dies ==
    /\ turn.at # "idle" /\ crashes < MaxCrashes /\ crashes' = crashes + 1
    /\ Put(Idle) /\ writer' = IF Mine THEN Unlocked ELSE writer
    /\ pass' \in {pass, [pass EXCEPT !.status = "failed", !.wait = TRUE]}
    /\ UNCHANGED <<world, stored, attempts, decode, reader>>

WaitEnds ==
    /\ pass.wait /\ pass' = [pass EXCEPT !.wait = FALSE]
    /\ UNCHANGED <<world, crashes, stored, attempts, turn, decode, writer, reader>>
Cools(t) ==
    /\ attempts[t] # None /\ attempts[t].until = "cooling"
    /\ attempts' = [attempts EXCEPT ![t].until = "due"]
    /\ UNCHANGED <<world, crashes, stored, pass, turn, decode, writer, reader>>
DecoderReported ==
    /\ pass.status = "waiting_runtime" /\ pass' = Armed({"waiting_runtime"})
    /\ UNCHANGED <<world, crashes, stored, attempts, turn, decode, writer, reader>>

-----------------------------------------------------------------------------
(* The edge pass measures in the decode it makes anyway.                     *)

EdgeDecodes(t) ==
    /\ decode = None /\ t \in edge
    /\ decode' = [track |-> t, media |-> Media(t)]
    /\ edge' = edge \ {t}
    /\ UNCHANGED <<cat, changes, crashes, stored, pass, attempts, turn, writer, reader>>
EdgeFails(t) ==
    /\ t \in edge /\ edge' = edge \ {t}
    /\ UNCHANGED <<cat, changes, crashes, stored, pass, attempts, turn, decode, writer, reader>>
EdgePublishes ==
    /\ decode # None
    /\ BeginPublish("edge", decode.track, [media |-> decode.media, by |-> "edge"])
    /\ decode' = None
    /\ UNCHANGED <<world, crashes, stored, pass, attempts, turn, reader>>
EdgePublished ==
    /\ writer.by = "edge"
    /\ Publish
    /\ UNCHANGED <<world, crashes, pass, attempts, turn, decode, reader>>
\* Loudness never fails the edge pass: the backfill measures the track again.
EdgeLosesIt ==
    /\ writer.by = "edge" /\ crashes < MaxCrashes /\ crashes' = crashes + 1
    /\ writer' = Unlocked
    /\ UNCHANGED <<world, stored, pass, attempts, turn, decode, reader>>
EdgeStep == (\E t \in Tracks : EdgeDecodes(t) \/ EdgeFails(t)) \/ EdgePublishes \/ EdgePublished

-----------------------------------------------------------------------------
(* A client pages through the track records, then the album records, under   *)
(* the head of its first page; then it pages through the journal from that    *)
(* head.  A request reads the state row, the tracks and the albums in three   *)
(* statements, and publications go on between them and between the requests.  *)

ReadHead ==
    /\ reader.at = "away"
    /\ reader' = [at |-> "tracks", epoch |-> stream.epoch, cursor |-> stream.head,
                  after |-> 0, room |-> PageLimit,
                  track |-> [t \in Tracks |-> None], album |-> [a \in Albums |-> None]]
SameEpoch == reader.epoch = stream.epoch
\* The next page: 410 under a new epoch, whatever the journal still has.
ReadToken ==
    /\ reader.at \in {"tracksLeft", "albumsLeft"}
    /\ reader' = IF SameEpoch
                 THEN [reader EXCEPT !.at = IF @ = "tracksLeft" THEN "tracks" ELSE "albums",
                                     !.room = PageLimit]
                 ELSE Away

Rows(held) == {i \in DOMAIN held : i > reader.after /\ held[i] # None}
Page(rows) == {i \in rows : Cardinality({j \in rows : j < i}) < reader.room}
Taken(copy, held) == [i \in DOMAIN copy |-> IF i \in Page(Rows(held)) THEN held[i] ELSE copy[i]]
More(held) == Page(Rows(held)) # Rows(held)
\* The albums fill the rest of the last page of tracks.
ReadTracks ==
    LET room == PageLimit - Cardinality(Page(Rows(measured)))
    IN  /\ reader.at = "tracks"
        /\ reader' = [reader EXCEPT
              !.at    = IF More(measured) THEN "tracksLeft" ELSE IF room = 0 THEN "albumsLeft" ELSE "albums",
              !.after = IF More(measured) THEN Max(Page(Rows(measured))) ELSE 0,
              !.room  = room,
              !.track = Taken(@, measured)]
ReadAlbums ==
    /\ reader.at = "albums"
    /\ reader' = [reader EXCEPT
          !.at    = IF More(pooled) THEN "albumsLeft" ELSE "following",
          !.after = IF More(pooled) THEN Max(Page(Rows(pooled))) ELSE 0,
          !.room  = 0,
          !.album = Taken(@, pooled)]

\* The last event of a page about a record says what it is.
Apply(held, kind, last) ==
    LET news(i) == {n \in reader.cursor + 1..last : journal[n].kind = kind /\ journal[n].id = i}
    IN  [i \in DOMAIN held |-> IF news(i) = {} THEN held[i] ELSE journal[Max(news(i))].value]
\* A page of the journal, in one statement: 410 below its floor.
ReadChanges ==
    LET last == Min({reader.cursor + PageLimit, stream.head})
    IN  /\ reader.at = "following"
        /\ reader' = IF SameEpoch /\ reader.cursor >= stream.floor
                     THEN [reader EXCEPT !.cursor = last, !.track = Apply(@, "track", last),
                                         !.album = Apply(@, "album", last)]
                     ELSE Away
        /\ reader' # reader
ReaderStep ==
    /\ ReadHead \/ ReadToken \/ ReadTracks \/ ReadAlbums \/ ReadChanges
    /\ UNCHANGED <<world, crashes, stored, pass, attempts, turn, decode, writer>>

-----------------------------------------------------------------------------

Init ==
    /\ \E a \in Albums : cat = [gen |-> 1, track |-> [t \in Tracks |-> [album |-> a, media |-> 1]]]
    /\ edge \in SUBSET Tracks
    /\ changes = 0 /\ crashes = 0
    /\ measured = [t \in Tracks |-> None] /\ pooled = [a \in Albums |-> None]
    /\ stream = [epoch |-> 1, head |-> 0, floor |-> 0] /\ journal = NoEvents
    /\ pass = [status |-> "queued", cursor |-> 0, wait |-> FALSE, reconciled |-> 0]
    /\ attempts = [t \in Tracks |-> None]
    /\ turn = Idle /\ decode = None /\ writer = Unlocked /\ reader = Away

Environment == WaitEnds \/ (\E t \in Tracks : Cools(t)) \/ DecoderReported
Next ==
    \/ (\E t \in Tracks : CatalogMoves(t)) \/ (\E o, n \in Tracks : Rekey(o, n))
    \/ TurnStep \/ NoDecoder \/ Deadline \/ (\E u \in BOOLEAN : MeasureFails(u)) \/ Dies
    \/ Environment \/ EdgeStep \/ EdgeLosesIt \/ ReaderStep

Fairness ==
    /\ WF_vars(TurnStep \/ \E u \in BOOLEAN : MeasureFails(u)) /\ WF_vars(EdgeStep)
    /\ WF_vars(WaitEnds) /\ WF_vars(DecoderReported)
    /\ \A t \in Tracks : WF_vars(Cools(t))
Spec == Init /\ [][Next]_vars
FairSpec == Spec /\ Fairness

-----------------------------------------------------------------------------
(* Once the turn has followed a generation, an album record is of exactly    *)
(* the members and media its album has now, and an album whose members are    *)
(* all measured and not all silent has one, whatever moved while the records *)
(* were written.                                                             *)
AlbumsFollowCatalogue ==
    writer = Unlocked /\ pass.reconciled = cat.gen =>
      \A a \in Albums :
        /\ pooled[a] # None => pooled[a].hash = Members(a)
        /\ Pool(a, measured) # None => pooled[a] # None

(* A client at the head of its epoch holds the published records.            *)
FollowersHoldRecords ==
    reader.at = "following" /\ SameEpoch /\ reader.cursor = stream.head =>
      reader.track = measured /\ reader.album = pooled

(* Every track in the catalogue is measured in the end, or given up on after *)
(* a bounded number of attempts at its media.                                *)
Settled(t) == Unmeasured(t) => Cooling(t) /\ attempts[t].until = "parked"
MeasuredOrParked == \A t \in Tracks : <>[]Settled(t)

(* "album records pool their members' histograms when every member of the    *)
(* album in the source's published catalogue generation has a record of the  *)
(* current version for its current media" (loudness_stream.py:4).            *)
PooledFromRecords ==
    writer = Unlocked /\ pass.reconciled = cat.gen =>
      \A a \in Albums : pooled[a] # None => pooled[a] = Pool(a, measured)
=============================================================================
