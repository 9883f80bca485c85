--------------------------- MODULE CreditsStream ---------------------------
(* The album credits of one catalogue (credits_store.py, credits_service.py): *)
(* a job per album, worked under a lease by any process; results published    *)
(* into a journal of versions; and a client that bootstraps from a pinned     *)
(* head, then follows the changes, while the journal is compacted. An album   *)
(* is its input fingerprint, or None when the catalogue does not have it.     *)
EXTENDS FiniteSets, FiniteSetsExt, Naturals

CONSTANTS Albums, Inputs, Procs, None, Retain, PageLimit,
          MaxChanges, MaxExpiries, MaxFails, MaxCrashes
\* What the constants must satisfy.
CreditsAssumption ==
    /\ IsFiniteSet(Albums) /\ Albums \subseteq Nat \ {0}
    /\ None \notin Inputs
    /\ {Retain, PageLimit} \subseteq Nat \ {0}
    /\ {MaxChanges, MaxExpiries, MaxFails, MaxCrashes} \subseteq Nat

VARIABLES
    album,             \* each album's current input
    head, floor, versions, results, \* the stream, its versions, the latest results
    jobs,              \* each album's job, or None
    worker,            \* where each process is
    reader,            \* a client: its mode, position and copy
    past,              \* history: the results at each sequence number
    changes, expiries, fails, crashes

stream == <<head, floor, versions, results, past>>
budget == <<changes, expiries, fails, crashes>>
vars == <<album, stream, jobs, worker, reader, budget>>

Idle == [pc |-> "idle"]
Empty == [a \in Albums |-> None]
Pending(fp) == [fp |-> fp, status |-> "pending", due |-> TRUE,
                lease |-> None, live |-> FALSE, expired |-> FALSE]
Bootstrap(at) == [mode |-> "bootstrap", at |-> at, after |-> 0, copy |-> Empty]

TypeOK ==
    /\ album \in [Albums -> Inputs \union {None}]
    /\ results \in [Albums -> Inputs \union {None}]
    /\ {head, floor} \subseteq Nat /\ floor <= head
    /\ DOMAIN past = 0..head
    /\ \A v \in versions : v.seq \in 1..head
    /\ reader.mode \in {"bootstrap", "follow"}

Init ==
    /\ album \in [Albums -> Inputs] /\ results = Empty
    /\ head = 0 /\ floor = 0 /\ versions = {} /\ past = [n \in {0} |-> Empty]
    /\ jobs = [a \in Albums |-> None]
    /\ worker = [p \in Procs |-> Idle]
    /\ reader = Bootstrap(0)
    /\ changes = 0 /\ expiries = 0 /\ fails = 0 /\ crashes = 0
----------------------------------------------------------------------------
(* _publish: the result, or its tombstone, at the next sequence number. *)
Publish(a, value) ==
    /\ head' = head + 1
    /\ versions' = versions \union {[seq |-> head + 1, album |-> a, value |-> value]}
    /\ results' = [results EXCEPT ![a] = value]
    /\ past' = [n \in 0..head + 1 |-> IF n = head + 1 THEN results' ELSE past[n]]
    /\ UNCHANGED floor

AlbumChanges(a, input) ==
    /\ changes < MaxChanges /\ input # album[a]
    /\ changes' = changes + 1
    /\ album' = [album EXCEPT ![a] = input]
    /\ UNCHANGED <<stream, jobs, worker, reader, expiries, fails, crashes>>

(* A sweep, or a client's request, reads the album before it locks the stream. *)
Visit(p, a) ==
    /\ worker[p] = Idle
    /\ worker' = [worker EXCEPT ![p] = [pc |-> "request", album |-> a, seen |-> album[a]]]
    /\ UNCHANGED <<album, stream, jobs, reader, budget>>

(* The end of a sweep's page: results whose album the catalogue lost. *)
SeesGone(p, a) ==
    /\ worker[p] = Idle /\ results[a] # None /\ album[a] = None
    /\ worker' = [worker EXCEPT ![p] = [pc |-> "tombstone", album |-> a]]
    /\ UNCHANGED <<album, stream, jobs, reader, budget>>

Requested(job, fp) ==
    IF job = None THEN Pending(fp)
    ELSE IF job.fp # fp THEN Pending(fp)
    ELSE IF job.expired THEN [job EXCEPT !.status = "pending", !.due = TRUE, !.expired = FALSE]
    ELSE job

RequestGone(p) ==
    LET a == worker[p].album IN
    /\ \/ worker[p].pc = "tombstone" /\ Publish(a, None)
       \/ /\ worker[p].pc = "request" /\ worker[p].seen = None
          /\ IF results[a] # None THEN Publish(a, None) ELSE UNCHANGED stream
    /\ jobs' = [jobs EXCEPT ![a] = None]
    /\ worker' = [worker EXCEPT ![p] = Idle]
    /\ UNCHANGED <<album, reader, budget>>

RequestAlbum(p) ==
    LET a == worker[p].album  seen == worker[p].seen IN
    /\ worker[p].pc = "request" /\ seen # None
    /\ IF results[a] \notin {None, seen} THEN Publish(a, None) ELSE UNCHANGED stream
    /\ jobs' = [jobs EXCEPT ![a] = Requested(@, seen)]
    /\ worker' = [worker EXCEPT ![p] = Idle]
    /\ UNCHANGED <<album, reader, budget>>
----------------------------------------------------------------------------
NeverOver(job) == FALSE
LeaseOver(job) == job.status = "running" /\ ~job.live
Ready(a) ==
    /\ jobs[a] # None
    /\ jobs[a].due /\ (jobs[a].status \in {"pending", "failed"} \/ LeaseOver(jobs[a]))

Claim(p, a) ==
    /\ worker[p] = Idle /\ Ready(a)
    /\ jobs' = [jobs EXCEPT ![a].status = "running", ![a].lease = p, ![a].live = TRUE]
    /\ worker' = [worker EXCEPT ![p] = [pc |-> "claimed", album |-> a, fp |-> jobs[a].fp]]
    /\ UNCHANGED <<album, stream, reader, budget>>

(* run_one loads the album: a changed one is requested again instead. *)
LoadAlbum(p) ==
    LET a == worker[p].album IN
    /\ worker[p].pc = "claimed"
    /\ worker' = [worker EXCEPT ![p] =
            IF album[a] = @.fp THEN [@ EXCEPT !.pc = "resolve"]
            ELSE [pc |-> "request", album |-> a, seen |-> album[a]]]
    /\ UNCHANGED <<album, stream, jobs, reader, budget>>

Leased(p) ==
    LET job == jobs[worker[p].album] IN
    /\ job # None
    /\ job.lease = p /\ job.status = "running" /\ job.live /\ job.fp = worker[p].fp

Finish(p) ==
    LET a == worker[p].album IN
    /\ worker[p].pc = "resolve"
    /\ IF Leased(p) /\ album[a] = worker[p].fp
       THEN /\ Publish(a, worker[p].fp)
            /\ jobs' = [jobs EXCEPT ![a].status = "done", ![a].lease = None, ![a].live = FALSE]
       ELSE UNCHANGED <<stream, jobs>>
    /\ worker' = [worker EXCEPT ![p] = [pc |-> "compact"]]
    /\ UNCHANGED <<album, reader, budget>>

FinishError(p) ==
    LET a == worker[p].album IN
    /\ worker[p].pc = "resolve" /\ fails < MaxFails
    /\ fails' = fails + 1
    /\ jobs' = IF Leased(p)
               THEN [jobs EXCEPT ![a].status = "failed", ![a].due = FALSE,
                                 ![a].lease = None, ![a].live = FALSE]
               ELSE jobs
    /\ worker' = [worker EXCEPT ![p] = Idle]
    /\ UNCHANGED <<album, stream, reader, changes, expiries, crashes>>

(* compact: one baseline version of each album stays below the floor. *)
KeptAboveFloor(floor1) == {v \in versions : v.seq >= floor1}
Kept(floor1) ==
    LET baseline(a) == Max({0} \union {v.seq : v \in {u \in versions : u.album = a /\ u.seq <= floor1}})
    IN {v \in versions : v.seq >= floor1 \/ (v.value # None /\ v.seq = baseline(v.album))}

Compact(p) ==
    /\ worker[p].pc = "compact"
    /\ floor' = Max({floor, head - Min({head, Retain})})
    /\ versions' = Kept(floor')
    /\ worker' = [worker EXCEPT ![p] = Idle]
    /\ UNCHANGED <<album, head, results, past, jobs, reader, budget>>

WorkStep(p) ==
    RequestGone(p) \/ RequestAlbum(p) \/ LoadAlbum(p) \/ Finish(p) \/ Compact(p)
----------------------------------------------------------------------------
(* Time: a lease runs out (of a live worker too), a failed job falls due, a *)
(* result expires and is matched again.                                     *)
Worked(a) ==
    \E p \in Procs : /\ worker[p].pc \in {"claimed", "resolve"}
                     /\ worker[p].album = a /\ jobs[a].lease = p

LeaseExpires(a) ==
    /\ jobs[a] # None /\ jobs[a].status = "running" /\ jobs[a].live
    /\ Worked(a) => fails < MaxFails
    /\ fails' = IF Worked(a) THEN fails + 1 ELSE fails
    /\ jobs' = [jobs EXCEPT ![a].live = FALSE]
    /\ UNCHANGED <<album, stream, worker, reader, changes, expiries, crashes>>

RetryDue(a) ==
    /\ jobs[a] # None /\ ~jobs[a].due
    /\ jobs' = [jobs EXCEPT ![a].due = TRUE]
    /\ UNCHANGED <<album, stream, worker, reader, budget>>

ResultExpires(a) ==
    /\ expiries < MaxExpiries
    /\ jobs[a] # None /\ jobs[a].status = "done" /\ ~jobs[a].expired
    /\ expiries' = expiries + 1
    /\ jobs' = [jobs EXCEPT ![a].expired = TRUE]
    /\ UNCHANGED <<album, stream, worker, reader, changes, fails, crashes>>

Crash(p) ==
    /\ worker[p] # Idle /\ crashes < MaxCrashes
    /\ crashes' = crashes + 1
    /\ worker' = [worker EXCEPT ![p] = Idle]
    /\ UNCHANGED <<album, stream, jobs, reader, changes, expiries, fails>>
----------------------------------------------------------------------------
(* The client. A page it may no longer read, or an expired token, sends it  *)
(* back to a new bootstrap.                                                 *)
Restart ==
    /\ reader.mode = "bootstrap" \/ reader.at < floor
    /\ reader' = Bootstrap(head)
    /\ UNCHANGED <<album, stream, jobs, worker, budget>>

Latest(a, at) == Max({0} \union {v.seq : v \in {u \in versions : u.album = a /\ u.seq <= at}})
Standing(at) ==
    {v \in versions : v.seq = Latest(v.album, at) /\ v.value # None}

First(rows, place) ==
    {r \in rows : Cardinality({q \in rows : place[q] < place[r]}) < PageLimit}
Holding(copy, rows) ==
    [a \in Albums |-> IF \E r \in rows : r.album = a
                      THEN (CHOOSE r \in rows : r.album = a /\ \A q \in rows : q.album = a => q.seq <= r.seq).value
                      ELSE copy[a]]

BootstrapPage ==
    LET rows == {v \in Standing(reader.at) : v.album > reader.after}
        page == First(rows, [v \in rows |-> v.album])
    IN  /\ reader.mode = "bootstrap" /\ reader.at >= floor
        /\ reader' = [mode |-> IF page = rows THEN "follow" ELSE "bootstrap",
                      at |-> reader.at,
                      after |-> IF page = rows THEN 0 ELSE Max({v.album : v \in page}),
                      copy |-> Holding(reader.copy, page)]
        /\ UNCHANGED <<album, stream, jobs, worker, budget>>

ChangesPage ==
    LET rows == {v \in versions : v.seq > reader.at}
        page == First(rows, [v \in rows |-> v.seq])
    IN  /\ reader.mode = "follow" /\ reader.at >= floor /\ rows # {}
        /\ reader' = [reader EXCEPT !.at = Max({v.seq : v \in page}), !.copy = Holding(@, page)]
        /\ UNCHANGED <<album, stream, jobs, worker, budget>>

ReaderStep == Restart \/ BootstrapPage \/ ChangesPage
----------------------------------------------------------------------------
Next ==
    \/ \E a \in Albums :
         \/ \E input \in Inputs \union {None} : AlbumChanges(a, input)
         \/ \E p \in Procs : Visit(p, a) \/ SeesGone(p, a) \/ Claim(p, a)
         \/ LeaseExpires(a) \/ RetryDue(a) \/ ResultExpires(a)
    \/ \E p \in Procs : WorkStep(p) \/ FinishError(p) \/ Crash(p)
    \/ ReaderStep

Spec == Init /\ [][Next]_vars

(* The sweep visits every album again and again, ready jobs are claimed in   *)
(* turn (hence strong fairness: a process is busy between), and time passes. *)
Fairness ==
    /\ \A a \in Albums :
         /\ SF_vars(\E p \in Procs : Visit(p, a)) /\ SF_vars(\E p \in Procs : Claim(p, a))
         /\ WF_vars(LeaseExpires(a)) /\ WF_vars(RetryDue(a))
    /\ \A p \in Procs : WF_vars(WorkStep(p))
FairSpec == Spec /\ Fairness
----------------------------------------------------------------------------
(* A client that follows the changes holds exactly the results of the        *)
(* sequence number it is at, however the journal was compacted while it read *)
(* its bootstrap or its pages (bootstrap, changes, compact).                 *)
FollowerHoldsResults == reader.mode = "follow" => reader.copy = past[reader.at]

(* The published credits of every album come to be those of its current     *)
(* input, and none once it is gone, though its jobs are cut off, superseded, *)
(* expire or fail (request_album, claim, finish).                            *)
CreditsFollowAlbums == \A a \in Albums : []<>(results[a] = album[a])
=============================================================================
