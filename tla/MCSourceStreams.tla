--------------------------- MODULE MCSourceStreams ---------------------------
(* The published streams of one source, the analysis threads that feed them   *)
(* and the metadata lookups: components that share no table, so one run       *)
(* explores them one at a time.  `focus`, chosen at the start, names the one  *)
(* that moves; the variables are then its variables (the WITH clauses), and   *)
(* those it does not have stay at None.                                       *)
EXTENDS RelationshipBuild, TLC

CONSTANTS
    p1, p2,            \* two of the processes
    Order,             \* the entities in the order of a catalogue scan
    Clients, Groups, Inputs,       \* clients; albums of loudness; inputs of credits
    Threads, Main, Units, Decoders,  \* the analysis threads, files and processes
    Peers, Syncers,    \* a friend's connections, and the workers that sync them
    Lookups, PendingLimit, Allowance,  \* metadata requests and what limits them
    History,           \* journal events the core streams keep
    MaxAttempts,       \* attempts of a friend sync
    Shared,            \* albums a friend has analysed at the start
    MaxEdge,           \* bound: tracks the edge pass has at the start beside the turn
    \* bounds, named in the modules they belong to:
    MaxRequests, MaxVersion, MaxAsks, MaxPasses, MaxJobs, MaxRaises, MaxFiles, MaxDeaths,
    MaxSubmits, MaxDays, MaxFails
VARIABLE focus

all == <<vars, focus>>
TwoInOrder == <<1, 2>>

Streams == INSTANCE CatalogStreams WITH
    Tracks <- Entities, TrackOrder <- Order, Readers <- Clients, Retain <- History,
    library <- live, mapping <- past, stream <- state, rows <- results, required <- owed,
    wanted <- asking, requests <- claims, served <- lock, job <- builder
Loudness == INSTANCE LoudnessRecords WITH
    Tracks <- Entities, Albums <- Groups, Silent <- {2}, Steps <- 1, Advance <- 1,
    cat <- live, edge <- past, measured <- results, pooled <- state, stream <- claims,
    pass <- build, attempts <- owed, turn <- builder, decode <- asking, writer <- lock
Credits == INSTANCE CreditsStream WITH
    Albums <- Entities, Procs <- {p1}, MaxExpiries <- 0, MaxFails <- 0,
    album <- live, head <- build, floor <- state, versions <- journal, jobs <- lock,
    worker <- builder, expiries <- claims, fails <- owed
Pool == INSTANCE AnalysisPool WITH
    turn <- live, job <- past, handed <- journal, thread <- builder, slot <- lock,
    worker <- state, faults <- claims, queue <- results
Decoding == INSTANCE DecodeWorker WITH
    Others <- Threads, Workers <- Decoders,
    thread <- builder, pooled <- past, worker <- state, files <- live, deaths <- claims
Friend == INSTANCE FriendAlbums WITH
    Albums <- Entities, Connections <- Peers, Procs <- Syncers,
    library <- live, albums <- state, owed <- owed, revoked <- past, updates <- journal,
    conn <- build, sync <- builder, remote <- results, moves <- changes, asks <- claims
Metadata == INSTANCE MetadataJobs WITH
    Jobs <- Lookups,
    job <- live, used <- past, worker <- builder, sent <- state, submits <- claims,
    days <- build, fails <- results

ASSUME BoundsHold ==
    /\ Streams!StreamBounds /\ Loudness!LoudnessBounds /\ Credits!CreditsAssumption
    /\ Pool!PoolAssumption /\ Decoding!WorkerAssumption
    /\ Friend!FriendAssumption /\ Metadata!MetadataAssumption

ASSUME BuildersAssumption == {p1, p2} \subseteq Procs

-----------------------------------------------------------------------------
NoCatalog == crashes = None /\ build = None
NoCredits == asking = None
NoPool == changes = None /\ crashes = None /\ build = None /\ asking = None /\ owed = None /\ reader = None
NoDecoding ==
    /\ changes = None /\ crashes = None /\ build = None /\ results = None /\ journal = None
    /\ asking = None /\ owed = None /\ reader = None
NoFriend == lock = None /\ asking = None /\ reader = None
NoMetadata == changes = None /\ journal = None /\ lock = None /\ asking = None /\ owed = None /\ reader = None

SuiteInit ==
    \/ focus \in {"building", "reading"} /\ Init
    \/ focus \in {"catalogue", "analysis"} /\ Streams!Init /\ NoCatalog
    \/ focus = "measuring" /\ Loudness!Init /\ Cardinality(past) <= MaxEdge
    \/ focus = "loudness" /\ Loudness!Init /\ past = {}
    \/ focus = "credits" /\ Credits!Init /\ NoCredits
    \/ focus = "files" /\ Pool!Init /\ NoPool
    \/ focus = "decoding" /\ Decoding!Init /\ NoDecoding
    \/ focus = "friend" /\ Friend!Init /\ NoFriend /\ \A k \in Shared : live[k] # 0
    \/ focus = "lookups" /\ Metadata!Init /\ NoMetadata

\* Relationships: two builders that die, are superseded and fail, and a client
\* that reads while one builder publishes.
Building ==
    \/ InputsMove \/ Ask \/ Claim(FALSE) \/ WaitEnds
    \/ \E p \in Procs : BuilderStep(p) \/ IndexMissing(p) \/ Fails(p) \/ Crash(p)
Reading == InputsMove \/ Ask \/ Claim(TRUE) \/ BuilderStep(p1) \/ ReaderStep

\* Core streams: two refreshes, and a refresh beside a projection.
Catalogue ==
    \/ (\E p \in Procs : Streams!RefreshStep(p)) \/ Streams!PruneStorage \/ Streams!Upgrade
    \/ (changes = 0 /\ Streams!LibraryChanges)
    \/ \E r \in Clients : Streams!ReaderStep(r, "catalog")
Analysis ==
    \/ Streams!RefreshStep(p1) \/ Streams!ProjectStep(p2)
    \/ (state["catalog"].gen = 0 /\ Streams!Want)
    \/ (changes = 0 /\ Streams!LibraryChanges) \/ Streams!MappingChanges
    \/ \E r \in Clients : Streams!ReaderStep(r, "analysis")

\* Loudness: the turn beside the edge pass, and a client beside the turn and rekeys.
Measuring ==
    \/ (\E t \in Entities : Loudness!CatalogMoves(t) /\ past' \subseteq past)
    \/ Loudness!TurnStep \/ Loudness!EdgeStep \/ Loudness!EdgeLosesIt
Following ==
    \/ (\E t \in Entities : Loudness!CatalogMoves(t) /\ past' = {})
    \/ Loudness!TurnStep \/ (\E o, n \in Entities : Loudness!Rekey(o, n)) \/ Loudness!ReaderStep

Crediting ==
    \/ \E a \in Entities :
         \/ \E input \in Inputs \cup {None} : Credits!AlbumChanges(a, input)
         \/ Credits!Visit(p1, a) \/ Credits!SeesGone(p1, a) \/ Credits!Claim(p1, a)
    \/ Credits!WorkStep(p1) \/ Credits!ReaderStep

SuiteNext ==
    /\ CASE focus = "building" -> Building
         [] focus = "reading" -> Reading
         [] focus = "catalogue" -> Catalogue /\ UNCHANGED <<crashes, build>>
         [] focus = "analysis" -> Analysis /\ UNCHANGED <<crashes, build>>
         [] focus = "measuring" -> Measuring
         [] focus = "loudness" -> Following
         [] focus = "credits" -> Crediting /\ UNCHANGED asking
         [] focus = "files" -> Pool!Next /\ UNCHANGED <<changes, crashes, build, asking, owed, reader>>
         [] focus = "decoding" ->
              /\ Decoding!Next
              /\ UNCHANGED <<changes, crashes, build, results, journal, asking, owed, reader>>
         [] focus = "friend" -> Friend!Next /\ UNCHANGED <<lock, asking, reader>>
         [] focus = "lookups" -> Metadata!Next /\ UNCHANGED <<changes, journal, lock, asking, owed, reader>>
    /\ UNCHANGED focus

SuiteSpec == SuiteInit /\ [][SuiteNext]_all

\* The albums of loudness are no twins: a publication journals them in an order.
Twins == Permutations(Threads)

-----------------------------------------------------------------------------
(* The properties of the components (see there).                             *)

Relating == focus \in {"building", "reading"}
InStreams == focus \in {"catalogue", "analysis"}
InLoudness == focus \in {"measuring", "loudness"}

BuildsFromInputs == Relating => PublishedFromInputs
LeasesKeepCatalogue == InStreams => Streams!LeasesKeepCatalogue
AlbumsFollowCatalogue == InLoudness => Loudness!AlbumsFollowCatalogue

\* A client that reached the head of a stream it follows holds exactly what is
\* published, in each of the streams.
FollowersHoldStreams ==
    /\ Relating => FollowersHoldResults
    /\ InStreams => Streams!ReadersHoldPublished
    /\ InLoudness => Loudness!FollowersHoldRecords
    /\ focus = "credits" => Credits!FollowerHoldsResults

\* Each file of a batch is finished once, a cancelled one is decoded no more,
\* and an answer is read by the thread whose file it is about.
FilesFinishedOnce ==
    /\ focus = "files" => Pool!FinishedOnce /\ Pool!CancelSticks
    /\ focus = "decoding" => Decoding!OwnAnswers /\ Decoding!DecodesOutliveThreads

CopiesAreTheirs == focus = "friend" => Friend!CopiesAreTheirs
AllowanceKept == focus = "lookups" => Metadata!AllowanceKept
=============================================================================
