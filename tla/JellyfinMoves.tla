------------------------------ MODULE JellyfinMoves ------------------------------
(* A Jellyfin id is a hash of the file's path: a moved file comes back under   *)
(* another id.  A refresh holds a missing track for a grace time, holds back   *)
(* what could be its new id, pairs the two when AudioMuse maps both to one     *)
(* fingerprint, and rekeys the pair once two scans in a row agree.             *)
EXTENDS Naturals, FiniteSets, Functions

CONSTANTS
    Ids, Libraries, Procs,
    Content,          \* the song an id's path leads to: its fingerprint and its tags
    Home,             \* the library an id's path lies in
    Grace,            \* 14 days
    MaxFailures,      \* MAX_PUBLISH_FAILURES
    MaxMoves, MaxJobs \* bounds: changes of the library, jobs of AudioMuse

\* What the constants must satisfy.
JellyfinAssumption == Grace \in Nat \ {0} /\ MaxFailures \in Nat \ {0}

VARIABLES
    library,   \* the paths that hold a file
    selection, \* the libraries Lumae reads
    mapped,    \* the ids AudioMuse maps, gone ones too
    server,    \* which server answers: the bound one or another
    busy,      \* AudioMuse analyses, cleans or migrates
    scan,      \* what each refresh fetched
    catalog,   \* the published generation and its ids
    links,     \* the projected generation and the ids it links
    profiles,  \* the ids that have a published profile
    held,      \* jellyfin_missing_tracks: the age of a held id, whether its
               \* fingerprint is known, whether its rekey was abandoned
    trans,     \* provider_identity_transitions
    moves, jobs

outside == <<library, selection, server, mapped, busy, moves, jobs>>
plugin == <<catalog, links, profiles, held, trans>>
vars == <<outside, scan, plugin>>

Idle == [ids |-> {}, read |-> {}]
Normal == [state |-> "normal", target |-> {}, pairs |-> {}, base |-> <<0, 0>>, scans |-> 0, failures |-> 0]

-----------------------------------------------------------------------------
(* Jellyfin, AudioMuse and time.                                           *)

\* A provider without a readable track ends every refresh before its plan.
Readable(files, S) == \E i \in files : Home[i] \in S
FilesMove(files) ==
    /\ files # library /\ Readable(files, selection) /\ moves < MaxMoves /\ moves' = moves + 1 /\ library' = files
    /\ UNCHANGED <<selection, server, mapped, busy, jobs, scan, plugin>>
Select(S) ==
    /\ S # selection /\ Readable(library, S) /\ moves < MaxMoves /\ moves' = moves + 1 /\ selection' = S
    /\ UNCHANGED <<library, server, mapped, busy, jobs, scan, plugin>>

AnotherServer ==
    /\ server = "bound" /\ moves < MaxMoves /\ moves' = moves + 1 /\ server' = "other"
    /\ UNCHANGED <<library, selection, mapped, busy, jobs, scan, plugin>>
ServerReturns ==
    /\ server = "other" /\ server' = "bound"
    /\ UNCHANGED <<library, selection, mapped, busy, moves, jobs, scan, plugin>>

JobStarts ==
    /\ ~busy /\ jobs < MaxJobs /\ jobs' = jobs + 1 /\ busy' = TRUE
    /\ UNCHANGED <<library, selection, server, mapped, moves, scan, plugin>>
\* AudioMuse maps the files it found; a cleaning also forgets the ids of gone ones.
JobEnds(cleaning) ==
    /\ busy /\ busy' = FALSE
    /\ mapped' = IF cleaning THEN library ELSE mapped \cup library
    /\ UNCHANGED <<library, selection, server, moves, jobs, scan, plugin>>

\* The two scans of a proof are minutes apart, never days.
DayPasses ==
    /\ trans.state # "transition_pending"
    /\ \E i \in DOMAIN held : held[i].age < Grace
    /\ held' = [i \in DOMAIN held |-> [held[i] EXCEPT !.age = IF @ < Grace THEN @ + 1 ELSE @]]
    /\ UNCHANGED <<outside, scan, catalog, links, profiles, trans>>

-----------------------------------------------------------------------------
(* One refresh plans on its scan, under the publication lock.              *)

\* Only the bound server is read.  Another one blocks the catalogue and undoes
\* a proof; the bound one, seen again, makes a blocked catalogue normal.
Blocked == [Normal EXCEPT !.state = "blocked"]
Fetch(p) ==
    /\ scan[p] = Idle /\ server = "bound"
    /\ scan' = [scan EXCEPT ![p] = [ids |-> {i \in library : Home[i] \in selection}, read |-> selection]]
    /\ trans' = IF trans.state = "blocked" THEN Normal ELSE trans
    /\ UNCHANGED <<outside, catalog, links, profiles, held>>
Refuse(p) ==
    /\ scan[p] = Idle /\ server = "other" /\ trans' = Blocked
    /\ UNCHANGED <<outside, scan, catalog, links, profiles, held>>

Missing(r) == {i \in catalog.ids \ r.ids : Home[i] \in r.read}
Fresh(r) == r.ids \ catalog.ids
Age(i) == IF i \in DOMAIN held THEN held[i].age ELSE 0
Known(i) == (i \in DOMAIN held /\ held[i].known) \/ i \in links.ids \cup mapped
Abandoned(i) == i \in DOMAIN held /\ held[i].abandoned

\* One held track and one current file of one fingerprint, the file not published.
Candidates(r) == {i \in Missing(r) : Known(i) /\ ~Abandoned(i)}
Live(r, song) == {i \in r.ids \cap mapped : Content[i] = song}
Paired(r) ==
    {m \in Candidates(r) \X Fresh(r) :
        /\ {i \in Candidates(r) : Content[i] = Content[m[1]]} = {m[1]}
        /\ Live(r, Content[m[1]]) = {m[2]}}
Olds(pairs) == {m[1] : m \in pairs}
News(pairs) == {m[2] : m \in pairs}

Expired(r) == {i \in Missing(r) \ Olds(Paired(r)) : Age(i) >= Grace}
Kept(r) == Missing(r) \ Expired(r)

\* An unmapped new file with a held track's tags is probably its new place; its
\* album waits as a whole, and so do the pairs while AudioMuse is busy.
Waiting(r) == (Candidates(r) \cap Kept(r)) \ Olds(Paired(r))
Likely(r) ==
    {n \in Fresh(r) \ (News(Paired(r)) \cup mapped) : \E o \in Waiting(r) : Content[o] = Content[n]}
PairsNow(r) == IF busy \/ Likely(r) # {} THEN {} ELSE Paired(r)
HeldBack(r) == Likely(r) \cup (News(Paired(r)) \ News(PairsNow(r)))
Target(r) == (r.ids \ HeldBack(r)) \cup (Kept(r) \ Olds(PairsNow(r)))

\* What persist writes; rekeyed ids are released with those that came back.
RowSinceNow(i) == [age |-> 0, known |-> Known(i), abandoned |-> Abandoned(i)]
Row(i) == [age |-> Age(i), known |-> Known(i), abandoned |-> Abandoned(i)]
Holds(r, rekeyed) == [i \in Kept(r) \ rekeyed |-> Row(i)]

Leave(p) == scan' = [scan EXCEPT ![p] = Idle] /\ UNCHANGED outside
Now == <<catalog.generation, links.generation>>

\* Nothing to rekey: a pending proof closes and the ordinary diff publishes.
Publish(p) == LET r == scan[p] IN
    /\ r # Idle /\ PairsNow(r) = {}
    /\ trans' = IF trans.state = "transition_pending" THEN Normal ELSE trans
    /\ catalog' = IF Target(r) = catalog.ids THEN catalog
                  ELSE [generation |-> catalog.generation + 1, ids |-> Target(r)]
    /\ profiles' = profiles \cap Target(r)
    /\ held' = Holds(r, {}) /\ UNCHANGED links /\ Leave(p)

\* A proof counts equal targets on equal baselines, in a row.
Agrees(r) ==
    /\ trans.state = "transition_pending" /\ trans.base = Now
    /\ trans.target = Target(r) /\ trans.pairs = PairsNow(r)

Prove(p) == LET r == scan[p] IN
    /\ r # Idle /\ PairsNow(r) # {} /\ ~Agrees(r)
    /\ trans' = [state |-> "transition_pending", target |-> Target(r), pairs |-> PairsNow(r),
                 base |-> Now, scans |-> 1,
                 failures |-> IF trans.state = "transition_pending" THEN trans.failures ELSE 0]
    /\ held' = Holds(r, {})
    /\ UNCHANGED <<catalog, links, profiles>> /\ Leave(p)

\* The rows of a pair move to the new id, whatever an earlier publication left there.
Moved(rows, pairs) == (rows \ (Olds(pairs) \cup News(pairs))) \cup {m[2] : m \in {x \in pairs : x[1] \in rows}}
Rekey(p) == LET r == scan[p] IN
    /\ r # Idle /\ PairsNow(r) # {} /\ Agrees(r)
    /\ catalog' = [generation |-> catalog.generation + 1, ids |-> Target(r)]
    /\ links' = [generation |-> links.generation + 1, ids |-> Moved(links.ids, PairsNow(r)) \cap Target(r)]
    /\ profiles' = Moved(profiles, PairsNow(r)) \cap Target(r)
    /\ trans' = [Normal EXCEPT !.state = "applied"]
    /\ held' = Holds(r, Olds(PairsNow(r))) /\ Leave(p)

\* A publication that fails is rolled back and counted; the last one abandons
\* its pairs, which stay held while their targets publish as new tracks.
CountedFromZero(r) == 1
Counted(r) == trans.failures + 1
RekeyFails(p) == LET r == scan[p] IN
    /\ r # Idle /\ PairsNow(r) # {} /\ Agrees(r)
    /\ IF Counted(r) < MaxFailures
       THEN trans' = [trans EXCEPT !.failures = Counted(r)] /\ UNCHANGED held
       ELSE /\ trans' = Normal
            /\ held' = [i \in DOMAIN held \cup Olds(PairsNow(r)) |->
                           IF i \in Olds(PairsNow(r)) THEN [Row(i) EXCEPT !.abandoned = TRUE] ELSE held[i]]
    /\ UNCHANGED <<catalog, links, profiles>> /\ Leave(p)

\* A projection waits for a pending proof.
Project ==
    /\ trans.state \notin {"transition_pending", "blocked"} /\ links.ids # catalog.ids \cap mapped
    /\ links' = [generation |-> links.generation + 1, ids |-> catalog.ids \cap mapped]
    /\ UNCHANGED <<outside, scan, catalog, profiles, held, trans>>

-----------------------------------------------------------------------------
Init ==
    /\ \E first \in SUBSET Ids :
         /\ Readable(first, Libraries) /\ \A i, j \in first : Content[i] = Content[j] => i = j
         /\ library = first /\ mapped = first /\ profiles = first
         /\ catalog = [generation |-> 1, ids |-> first]
         /\ links = [generation |-> 1, ids |-> first]
    /\ selection = Libraries /\ server = "bound" /\ busy = FALSE /\ scan = [p \in Procs |-> Idle]
    /\ held = [i \in {} |-> Idle] /\ trans = Normal
    /\ moves = 0 /\ jobs = 0

Refreshes(p) == Fetch(p) \/ Refuse(p) \/ Publish(p) \/ Prove(p) \/ Rekey(p) \/ RekeyFails(p)
Next ==
    \/ \E files \in SUBSET Ids : FilesMove(files)
    \/ \E S \in SUBSET Libraries : Select(S)
    \/ AnotherServer \/ ServerReturns
    \/ JobStarts \/ (\E cleaning \in BOOLEAN : JobEnds(cleaning))
    \/ DayPasses
    \/ \E p \in Procs : Refreshes(p)
    \/ Project

\* Refreshes come again and again, the server is put back, AudioMuse's jobs end,
\* and days pass.
Fairness ==
    /\ \A p \in Procs : WF_vars(Refreshes(p))
    /\ WF_vars(ServerReturns) /\ WF_vars(\E cleaning \in BOOLEAN : JobEnds(cleaning)) /\ WF_vars(DayPasses)
Spec == Init /\ [][Next]_vars /\ Fairness

-----------------------------------------------------------------------------
(* Properties.                                                             *)

\* A published id goes away only with its profile under another id of the same
\* song, or after the grace time, or because its library is no longer read: a
\* move that AudioMuse can tell is never published as a deletion and an addition
\* (jellyfin_continuity, rules 1 to 4).
Followed(i) == \E n \in catalog'.ids \ catalog.ids :
    Content[n] = Content[i] /\ (i \in profiles => n \in profiles')
Read(i) == \E p \in Procs : scan[p] # Idle /\ scan'[p] = Idle /\ Home[i] \in scan[p].read
FollowsMoves == \A i \in catalog.ids \ catalog'.ids : Followed(i) \/ ~Read(i) \/ Age(i) >= Grace
MovesKeepRows == [][FollowsMoves]_vars

\* A pending proof ends, applied or closed: "so a rekey can never wedge the
\* catalogue" (record_publish_failure).
Pending == trans.state = "transition_pending"
ProofsEnd == Pending ~> ~Pending

\* A held track leaves the held table only when it leaves the catalogue or is
\* there again: its grace time runs from the first refresh that missed it
\* (LUMAE_SYNC_CONTRACT.md:206).
GraceRuns ==
    [][\A i \in DOMAIN held \ DOMAIN held' :
        i \notin catalog'.ids \/ \E p \in Procs : i \in scan[p].ids]_vars

\* A held track is rekeyed, comes back or expires; it is not held for ever.
Held(i) == i \in DOMAIN held
HeldEnds == \A i \in Ids : Held(i) ~> ~Held(i)
=============================================================================
