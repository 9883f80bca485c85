------------------------------ MODULE FriendAlbums ------------------------------
(* Friend Album Discovery.  One instance keeps a fingerprint per analysed     *)
(* album, through full rebuilds and an analysis hook; another keeps, for each *)
(* connection to it, the copy that its last sync fetched page by page.  The   *)
(* sync jobs are rows: a worker that holds the connection's advisory lock     *)
(* takes a row with a new token, and publishes only while the row is still    *)
(* its own.                                                                  *)
EXTENDS Integers, FiniteSets, FiniteSetsExt

CONSTANTS
    Albums,       \* album keys of the sharing instance, in key order
    Connections,  \* ids of the receiving instance's connections, in id order
    Procs,        \* workers of the receiving instance
    MaxAttempts,  \* attempts after which a failed sync is left alone (5)
    PageLimit,    \* albums on a page (CATALOG_PAGE_SIZE)
    MaxVersion,   \* bound: analyses of one album
    MaxChanges,   \* bound: changes of the analysis
    MaxAsks,      \* bound: connections saved and syncs requested
    MaxCrashes    \* bound: workers that stop

\* What the constants must satisfy.
FriendAssumption ==
    /\ Albums \subseteq Nat \ {0} /\ Connections \subseteq Nat
    /\ IsFiniteSet(Albums) /\ IsFiniteSet(Connections) /\ IsFiniteSet(Procs)
    /\ {MaxAttempts, PageLimit} \subseteq Nat \ {0}

VARIABLES
    library,     \* the analysis of each album on the sharing instance, 0: none
    albums,      \* its fingerprint table
    owed,        \* albums the analysis hook has yet to be called for
    revoked,     \* pairing tokens it no longer accepts, by what they are saved as
    updates,     \* hooks and the rebuild between their read and their write
    conn,        \* the receiving instance's connections
    sync,        \* what each worker is doing
    remote,      \* the copies: rows, and the credential and time of their fetch
    moves, asks, crashes

sharing == <<library, albums, owed, updates, revoked, moves>>
vars == <<sharing, conn, sync, remote, asks, crashes>>

-----------------------------------------------------------------------------
(* The sharing instance.                                                   *)

\* The host analyses the album again, or cleans its last track up.
LibraryChanges(k) == \E v \in (0..MaxVersion) \ {library[k]} :
    /\ moves < MaxChanges /\ moves' = moves + 1
    /\ library' = [library EXCEPT ![k] = v]
    /\ owed' = IF v = 0 THEN owed ELSE owed \cup {k}
    /\ UNCHANGED <<albums, revoked, updates, conn, sync, remote, asks, crashes>>

\* An album is its analysed tracks, grouped by artist and title.
Analysed(K) == [k \in K |-> library[k]]

\* song_analyzed looks at its album only, and deletes nothing.
HookReads(k) ==
    /\ k \in owed /\ owed' = owed \ {k}
    /\ updates' = IF library[k] = 0 THEN updates
                  ELSE updates \cup {[of |-> {k}, seen |-> Analysed({k})]}
    /\ UNCHANGED <<library, albums, revoked, moves, conn, sync, remote, asks, crashes>>

\* One rebuild at a time, under its advisory lock; hooks take no lock.
RebuildReads ==
    /\ \A u \in updates : u.of # Albums
    /\ updates' = updates \cup {[of |-> Albums, seen |-> Analysed(Albums)]}
    /\ UNCHANGED <<library, albums, owed, revoked, moves, conn, sync, remote, asks, crashes>>

\* One transaction: upserts what was read, deletes what a rebuild did not see.
Write(u) ==
    /\ albums' = [k \in Albums |-> IF k \in u.of THEN u.seen[k] ELSE albums[k]]
    /\ updates' = updates \ {u} /\ UNCHANGED <<library, owed, revoked, moves>>
    /\ remote' = [c \in Connections |-> [remote[c] EXCEPT !.as_of = @ /\ albums' = albums]]
    /\ sync' = [p \in Procs |-> [sync[p] EXCEPT !.as_of = @ /\ albums' = albums]]
    /\ UNCHANGED <<conn, asks, crashes>>

\* A pairing token is looked up, not revoked, at every request that bears it.
Revoke(t) ==
    /\ t \notin revoked /\ \E c \in Connections : conn[c].credential = t
    /\ revoked' = revoked \cup {t}
    /\ UNCHANGED <<library, albums, owed, updates, moves, conn, sync, remote, asks, crashes>>
Accepted(t) == t \notin revoked

-----------------------------------------------------------------------------
(* Connections of the receiving instance.                                  *)

Absent == [status |-> "absent", token |-> 0, attempts |-> 0, credential |-> 0]
Deleted == [Absent EXCEPT !.status = "deleted"]
Unfetched == [rows |-> {}, credential |-> 0, as_of |-> FALSE]
Free == [of |-> 0, token |-> 0, credential |-> 0, cursor |-> 0, rows |-> {},
         phase |-> "idle", as_of |-> FALSE]
Working(p) == sync[p].phase # "idle"
Locked(c) == \E p \in Procs : Working(p) /\ sync[p].of = c

\* A uuid: one that no row and no worker holds.
NewToken == Min((1..Cardinality(Connections) + Cardinality(Procs) + 1)
    \ ({conn[c].token : c \in Connections} \cup {sync[p].token : p \in Procs}))

\* Saving a friend again replaces its credential and takes the row from the
\* worker that runs it; the request for a sync is a transaction of its own.
Save(c) ==
    /\ conn[c] # Deleted /\ asks < MaxAsks /\ asks' = asks + 1
    /\ conn' = [conn EXCEPT ![c] = [@ EXCEPT !.status = "idle", !.token = 0,
                                            !.credential = asks']]
    /\ UNCHANGED <<sharing, sync, remote, crashes>>

Request(c) ==
    /\ conn[c].status \in {"idle", "failed", "due", "complete"}
    /\ conn[c].status = "idle" \/ asks < MaxAsks
    /\ asks' = IF conn[c].status = "idle" THEN asks ELSE asks + 1
    /\ conn' = [conn EXCEPT ![c] = [@ EXCEPT !.status = "pending",
                                            !.token = NewToken, !.attempts = 0]]
    /\ UNCHANGED <<sharing, sync, remote, crashes>>

Delete(c) ==
    /\ conn[c] \notin {Absent, Deleted}
    /\ conn' = [conn EXCEPT ![c] = Deleted] /\ remote' = [remote EXCEPT ![c] = Unfetched]
    /\ UNCHANGED <<sharing, sync, asks, crashes>>

RetryComesDue(c) ==
    /\ conn[c].status = "failed" /\ conn[c].attempts < MaxAttempts
    /\ conn' = [conn EXCEPT ![c].status = "due"]
    /\ UNCHANGED <<sharing, sync, remote, asks, crashes>>

-----------------------------------------------------------------------------
(* One sync: run_one and sync_connection.                                  *)

DueUnlessRunning(c) == conn[c].status \in {"pending", "due"}
\* A row left running by a worker that stopped is taken again.
Due(c) == conn[c].status \in {"pending", "running", "due"}

Take(p, c) ==
    /\ ~Working(p) /\ Due(c) /\ ~Locked(c)
    /\ \A d \in Connections : d < c /\ Due(d) => Locked(d)
    /\ conn' = [conn EXCEPT ![c] = [@ EXCEPT !.status = "running", !.token = NewToken,
                                            !.attempts = conn[c].attempts + 1]]
    /\ sync' = [sync EXCEPT ![p] = [Free EXCEPT !.of = c, !.token = NewToken,
                                               !.phase = "taken"]]
    /\ UNCHANGED <<sharing, remote, asks, crashes>>

Owned(p) ==
    conn[sync[p].of].status = "running" /\ conn[sync[p].of].token = sync[p].token

Begin(p) ==
    /\ sync[p].phase = "taken" /\ Owned(p)
    /\ sync' = [sync EXCEPT ![p] = [@ EXCEPT !.phase = "fetching", !.as_of = TRUE,
                                    !.credential = conn[sync[p].of].credential]]
    /\ UNCHANGED <<sharing, conn, remote, asks, crashes>>

\* The friend answers with the rows after the cursor, one more than a page to
\* see whether there are others; the next cursor is the last row it returns.
After(cursor) == {k \in Albums : albums[k] # 0 /\ k > cursor}
Lowest(S, n) == {k \in S : Cardinality({j \in S : j <= k}) <= n}
CursorOfLookahead(cursor, page) == Max(Lowest(After(cursor), PageLimit + 1))
NextCursor(cursor, page) == Max(page)

FetchPage(p) == LET w == sync[p]
                    page == Lowest(After(w.cursor), PageLimit) IN
    /\ w.phase = "fetching" /\ Accepted(w.credential)
    /\ sync' = [sync EXCEPT ![p] = [w EXCEPT
         !.rows = @ \cup {<<k, albums[k]>> : k \in page},
         !.phase = IF page = After(w.cursor) THEN "fetched" ELSE "fetching",
         !.cursor = IF page = After(w.cursor) THEN 0 ELSE NextCursor(w.cursor, page)]]
    /\ UNCHANGED <<sharing, conn, remote, asks, crashes>>

\* The row is locked and looked at again; the copy is replaced whole.
PublishUnchecked(p) == LET w == sync[p] IN
    /\ w.phase = "fetched"
    /\ remote' = [remote EXCEPT ![w.of] = [rows |-> w.rows, credential |-> w.credential,
                                           as_of |-> w.as_of]]
    /\ conn' = IF Owned(p) THEN [conn EXCEPT ![w.of].status = "complete"] ELSE conn
    /\ sync' = [sync EXCEPT ![p] = Free]
    /\ UNCHANGED <<sharing, asks, crashes>>
Publish(p) == LET w == sync[p] IN
    /\ w.phase = "fetched" /\ Owned(p)
    /\ remote' = [remote EXCEPT ![w.of] = [rows |-> w.rows, credential |-> w.credential,
                                           as_of |-> w.as_of]]
    /\ conn' = [conn EXCEPT ![w.of].status = "complete"]
    /\ sync' = [sync EXCEPT ![p] = Free]
    /\ UNCHANGED <<sharing, asks, crashes>>

\* Any error of the network or of the friend, and a row that was replaced or
\* deleted meanwhile.  A worker whose token is gone writes nothing.
Fail(p) == LET w == sync[p] IN
    /\ \/ w.phase = "fetching"
       \/ w.phase \in {"taken", "fetched"} /\ ~Owned(p)
    /\ conn' = IF conn[w.of].token = w.token
               THEN [conn EXCEPT ![w.of].status = "failed"] ELSE conn
    /\ sync' = [sync EXCEPT ![p] = Free]
    /\ UNCHANGED <<sharing, remote, asks, crashes>>

\* The advisory lock dies with the worker's session; the row stays running.
Crash(p) ==
    /\ Working(p) /\ crashes < MaxCrashes /\ crashes' = crashes + 1
    /\ sync' = [sync EXCEPT ![p] = Free]
    /\ UNCHANGED <<sharing, conn, remote, asks>>

-----------------------------------------------------------------------------
Init ==
    /\ library \in [Albums -> 0..MaxVersion] /\ albums = library
    /\ owed = {} /\ updates = {} /\ revoked = {} /\ moves = 0
    /\ conn = [c \in Connections |-> Absent] /\ asks = 0 /\ crashes = 0
    /\ remote = [c \in Connections |-> Unfetched]
    /\ sync = [p \in Procs |-> Free]

Sharing ==
    \/ \E k \in Albums : LibraryChanges(k) \/ HookReads(k)
    \/ RebuildReads
    \/ \E u \in updates : Write(u)
    \/ \E t \in 1..MaxAsks : Revoke(t)
Works(p) ==
    \/ \E c \in Connections : Take(p, c)
    \/ Begin(p) \/ FetchPage(p) \/ Publish(p) \/ Fail(p)
Next ==
    \/ Sharing
    \/ \E c \in Connections : Save(c) \/ Request(c) \/ Delete(c) \/ RetryComesDue(c)
    \/ \E p \in Procs : Works(p) \/ Crash(p)

\* The cron starts a worker every minute, a worker that took a row runs on, and
\* the retry time passes.
Fairness ==
    /\ \A p \in Procs : WF_vars(Works(p))
    /\ \A c \in Connections : WF_vars(RetryComesDue(c))
Spec == Init /\ [][Next]_vars /\ Fairness

-----------------------------------------------------------------------------
(* Properties.                                                             *)

\* A connection that reports "complete" shows the catalogue that its present
\* credential fetched, and when the friend's table did not change since the
\* fetch began it is that table; a connection that is gone has no copy.  A worker
\* that was overtaken by a new credential or a deletion must not publish
\* (sync_connection: "recheck owner and token after bounded network I/O").
CopiesAreTheirs == \A c \in Connections :
    /\ conn[c].status = "complete" => remote[c].credential = conn[c].credential
    /\ conn[c].status = "complete" /\ remote[c].as_of =>
         remote[c].rows = {<<k, albums[k]>> : k \in {k \in Albums : albums[k] # 0}}
    /\ conn[c] \in {Absent, Deleted} => remote[c] = Unfetched

\* A sync that was asked for ends, complete or given up after its attempts,
\* whatever worker stops in between (run_one, and the cron that calls it).
Ended(c) ==
    \/ conn[c].status \in {"deleted", "idle", "complete"}
    \/ conn[c].status = "failed" /\ conn[c].attempts >= MaxAttempts
SyncsEnd == \A c \in Connections : []<>(Ended(c) \/ conn[c] = Absent)
=============================================================================
