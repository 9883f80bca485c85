----------------------------- MODULE MCWorkflows -----------------------------
(* The workflow rows of one source, and five components that must come to an  *)
(* end beside them: the identity moves of the two providers, a friend's       *)
(* albums, the child of an action, the credits jobs and the loudness pass.    *)
(* They share no table, so one run explores them one at a time.  `focus`,     *)
(* chosen at the start, names the one that moves; the variables are then its  *)
(* variables (the WITH clauses), and those it does not have stay at None.     *)
EXTENDS Workflows

CONSTANTS
    None, Inputs,
    Refreshers,        \* the processes that refresh a catalogue
    Titles,            \* the songs of a Navidrome source
    Files, Folders,    \* the ids of a Jellyfin source's paths, and its libraries
    SongAt, FolderOf,  \* the song each path leads to, and the library it lies in
    Grace, MaxFailures,
    \* bounds, named in the modules they belong to:
    MaxUpgrades, MaxFaults, MaxMoves, MaxJobs, MaxLeaders, MaxRuns, MaxLost
VARIABLE focus

all == <<vars, focus>>

\* The paths that one song's file is moved between, the third in another library.
OneSong == <<"a", "a", "a">>
ThirdElsewhere == <<"l", "l", "m">>

Songs == INSTANCE NavidromeIdentity WITH
    Songs <- Titles, Procs <- Refreshers, MaxMoves <- MaxUpgrades,
    server <- library, mapping <- analysed, catalog <- published, analysis <- projected,
    profiles <- profile, trans <- backfill, refresh <- light, project <- heavy,
    moves <- asks, faults <- fails
Paths == INSTANCE JellyfinMoves WITH
    Ids <- Files, Libraries <- Folders, Procs <- Refreshers, Content <- SongAt, Home <- FolderOf,
    selection <- parent, mapped <- analysed, server <- prepared, busy <- refreshRequired,
    scan <- light, catalog <- published, links <- projected, profiles <- profile,
    held <- songs, trans <- backfill, moves <- asks, jobs <- runs
Friends == INSTANCE FriendAlbums WITH
    Albums <- {1, 2}, Connections <- {1, 2}, Procs <- {1, 2}, MaxAttempts <- 2, PageLimit <- 1,
    MaxVersion <- 1, MaxChanges <- 2, MaxAsks <- 2, MaxCrashes <- 1,
    albums <- published, owed <- analysed, revoked <- parent, updates <- songs, conn <- runs,
    sync <- light, remote <- projected, moves <- fails
Child == INSTANCE ActionChild WITH
    leader <- light, child <- heavy, lost <- crashes
Credits == INSTANCE CreditsStream WITH
    Albums <- {1}, Procs <- {1, 2}, Retain <- 1, PageLimit <- 1,
    MaxChanges <- 1, MaxExpiries <- 1, MaxFails <- 1, MaxCrashes <- 1,
    album <- library, head <- published, floor <- projected, versions <- songs,
    results <- profile, jobs <- runs, worker <- light, reader <- heavy, past <- woken,
    changes <- asks, expiries <- prepared
Loudness == INSTANCE LoudnessRecords WITH
    Tracks <- {1}, Albums <- {1}, Silent <- {2}, Steps <- 1, Retain <- 1, Advance <- 1,
    PageLimit <- 1, MaxChanges <- 1, MaxCrashes <- 1,
    cat <- library, edge <- analysed, changes <- asks, measured <- profile,
    pooled <- projected, stream <- published, journal <- songs, pass <- backfill,
    attempts <- runs, turn <- light, decode <- preparation, writer <- parent, reader <- heavy

ASSUME BoundsHold ==
    /\ Paths!JellyfinAssumption /\ Friends!FriendAssumption
    /\ Child!ChildAssumption /\ Credits!CreditsAssumption /\ Loudness!LoudnessBounds

-----------------------------------------------------------------------------
NotOfSongs == <<refreshRequired, preparation, runs, parent, songs, woken, prepared, crashes>>
NotOfPaths == <<preparation, heavy, woken, fails, crashes>>
NotOfFriends == <<refreshRequired, profile, backfill, preparation, heavy, woken, prepared>>
NotOfChild == <<world, catalogue, profile, rows, history, fails, asks>>
NotOfCredits == <<analysed, refreshRequired, backfill, preparation, parent>>
NotOfLoudness == <<refreshRequired, woken, prepared, fails>>

NoSongs ==
    /\ refreshRequired = None /\ preparation = None /\ runs = None /\ parent = None
    /\ songs = None /\ woken = None /\ prepared = None /\ crashes = None
NoPaths ==
    /\ preparation = None /\ heavy = None /\ woken = None /\ fails = None
    /\ crashes = None
NoFriends ==
    /\ refreshRequired = None /\ profile = None /\ backfill = None /\ preparation = None
    /\ heavy = None /\ woken = None /\ prepared = None
NoChild ==
    /\ library = None /\ analysed = None /\ parent = None /\ songs = None
    /\ published = None /\ projected = None /\ refreshRequired = None /\ profile = None
    /\ backfill = None /\ preparation = None /\ runs = None /\ woken = None
    /\ prepared = None /\ fails = None /\ asks = None
NoCredits ==
    /\ analysed = None /\ refreshRequired = None /\ backfill = None /\ preparation = None
    /\ parent = None
NoLoudness ==
    /\ refreshRequired = None /\ woken = None /\ prepared = None /\ fails = None

SuiteInit ==
    \/ focus = "workflows" /\ Init
    \/ focus = "songs" /\ Songs!Init /\ NoSongs
    \/ focus = "paths" /\ Paths!Init /\ NoPaths
    \/ focus = "friends" /\ Friends!Init /\ NoFriends /\ library = [k \in {1, 2} |-> 1]
    \/ focus = "child" /\ Child!Init /\ NoChild
    \/ focus = "credits" /\ Credits!Init /\ NoCredits
    \/ focus = "loudness" /\ Loudness!Init /\ analysed = {} /\ NoLoudness

\* Two connections whose workers stop and fail; the friend's albums stay.
Syncs ==
    \/ \E c \in {1, 2} :
         Friends!Save(c) \/ Friends!Request(c) \/ Friends!Delete(c) \/ Friends!RetryComesDue(c)
    \/ \E p \in {1, 2} : Friends!Works(p) \/ Friends!Crash(p)

\* The jobs and the pass, without the clients that read what they publish.  A second
\* process claims what the first one's lease ran out on, while that one goes on.
CreditsWork ==
    \/ \E input \in Inputs \cup {None} : Credits!AlbumChanges(1, input)
    \/ Credits!LeaseExpires(1) \/ Credits!RetryDue(1) \/ Credits!ResultExpires(1)
    \/ Credits!Visit(1, 1) \/ Credits!SeesGone(1, 1) \/ Credits!Claim(1, 1)
    \/ runs[1] # None /\ Credits!LeaseOver(runs[1]) /\ Credits!Claim(2, 1)
    \/ Credits!FinishError(1) \/ Credits!Crash(1) \/ (\E p \in {1, 2} : Credits!WorkStep(p))
LoudnessPass ==
    \/ Loudness!CatalogMoves(1)
    \/ Loudness!TurnStep \/ Loudness!NoDecoder \/ Loudness!Deadline \/ Loudness!Dies
    \/ (\E unsupported \in BOOLEAN : Loudness!MeasureFails(unsupported))
    \/ Loudness!Environment \/ Loudness!EdgeStep

SuiteNext ==
    /\ \/ focus = "workflows" /\ Next
       \/ focus = "songs" /\ Songs!Next /\ UNCHANGED NotOfSongs
       \/ focus = "paths" /\ Paths!Next /\ UNCHANGED NotOfPaths
       \/ focus = "friends" /\ Syncs /\ UNCHANGED NotOfFriends
       \/ focus = "child" /\ Child!Next /\ UNCHANGED NotOfChild
       \/ focus = "credits" /\ CreditsWork /\ UNCHANGED NotOfCredits
       \/ focus = "loudness" /\ LoudnessPass /\ UNCHANGED NotOfLoudness
    /\ UNCHANGED focus

(* The fairness of each component.  Only one of them ever moves, so fairness  *)
(* of "the action of whichever moves" is the fairness of each, with one      *)
(* process that refreshes.                                                   *)
In(component, A) == focus = component /\ A /\ UNCHANGED focus
OfSongs(A) == In("songs", A) /\ UNCHANGED NotOfSongs
OfPaths(A) == In("paths", A) /\ UNCHANGED NotOfPaths
OfFriends(A) == In("friends", A) /\ UNCHANGED NotOfFriends
OfChild(A) == In("child", A) /\ UNCHANGED NotOfChild
OfCredits(A) == In("credits", A) /\ UNCHANGED NotOfCredits
OfLoudness(A) == In("loudness", A) /\ UNCHANGED NotOfLoudness

Fairness1 ==
    \/ In("workflows", LightStep) \/ (\E p \in Refreshers : OfSongs(Songs!Refreshes(p)))
    \/ (\E p \in Refreshers : OfPaths(Paths!Refreshes(p)))
    \/ OfFriends(Friends!Works(1)) \/ OfChild(Child!LeaderStep(1)) \/ OfCredits(Credits!WorkStep(1))
    \/ OfLoudness(Loudness!TurnStep \/ \E unsupported \in BOOLEAN : Loudness!MeasureFails(unsupported))
Fairness2 ==
    \/ In("workflows", HeavyStep) \/ OfSongs(Songs!LockAnalysis \/ Songs!PublishProjection)
    \/ OfPaths(Paths!ServerReturns) \/ OfFriends(Friends!Works(2)) \/ OfChild(Child!LeaderStep(2))
    \/ OfCredits(Credits!LeaseExpires(1)) \/ OfLoudness(Loudness!EdgeStep)
Fairness3 ==
    \/ In("workflows", \E r \in Runs : RunAges(r)) \/ OfSongs(Songs!RecheckHealth)
    \/ OfPaths(\E cleaning \in BOOLEAN : Paths!JobEnds(cleaning))
    \/ OfFriends(Friends!RetryComesDue(1)) \/ OfCredits(Credits!RetryDue(1))
    \/ OfLoudness(Loudness!WaitEnds)
Fairness4 ==
    \/ In("workflows", \E t \in Tracks : ClaimExpires(t)) \/ OfSongs(Songs!MappingMoves)
    \/ OfPaths(Paths!DayPasses) \/ OfFriends(Friends!RetryComesDue(2))
    \/ OfLoudness(Loudness!DecoderReported) \/ OfCredits(Credits!WorkStep(2))
Fairness5 == In("workflows", \E t \in Tracks : TrackRetryDue(t)) \/ OfLoudness(Loudness!Cools(1))
StrongFairness1 == In("workflows", HeavyTakes) \/ OfCredits(Credits!Visit(1, 1))
StrongFairness2 == In("workflows", BackfillAges) \/ OfCredits(\E p \in {1, 2} : Credits!Claim(p, 1))

SuiteSpec ==
    /\ SuiteInit /\ [][SuiteNext]_all
    /\ WF_all(Fairness1) /\ WF_all(Fairness2) /\ WF_all(Fairness3) /\ WF_all(Fairness4)
    /\ WF_all(Fairness5)
    /\ SF_all(StrongFairness1) /\ SF_all(StrongFairness2)

-----------------------------------------------------------------------------
(* The properties of the components (see there).                             *)

WorkIsDone == focus = "workflows" => WokenIsDone /\ CompleteRunsProjected
AloneAtWork == focus = "child" => Child!AloneAtWork

\* A song keeps its profile whatever becomes of its id, on either provider, but for
\* a refresh that a Navidrome release overtakes.
RekeysKeepRows ==
    [][(focus = "songs" => Songs!KeepsProfiles) /\ (focus = "paths" => Paths!FollowsMoves)]_all

\* A pending transition settles, unless what a release overtook moves the baseline
\* of its proof, and a held track does not stay held.
TransitionsEnd ==
    /\ []<>((focus = "songs" => Songs!Resolved) /\ (focus = "paths" => ~Paths!Pending))
    /\ [][focus = "songs" => Songs!BaselineKept]_all
    /\ \A i \in Files : []<>(focus = "paths" => ~Paths!Held(i))

\* Work that was asked for ends: every track profiled and every run finalised,
\* every sync complete or given up, every run of an action back in its turn.
WorkEnds ==
    /\ []<>(focus = "workflows" => \A t \in Tracks : Profiled(t))
    /\ \A r \in Runs : []<>(focus = "workflows" => Finalised(r))
    /\ \A c \in {1, 2} : []<>(focus = "friends" => Friends!Ended(c) \/ runs[c] = Friends!Absent)
    /\ \A n \in {1, 2} : []<>(focus = "child" => ~Child!Waits(n))

\* Credits follow their album, and loudness is measured or given up on.
StreamsCatchUp ==
    /\ []<>(focus = "credits" => profile[1] = library[1])
    /\ <>[](focus = "loudness" => Loudness!Settled(1))
=============================================================================
