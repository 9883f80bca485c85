-------------------------- MODULE RelationshipBuild --------------------------
(* The album and artist relationships of one source.  A build copies its      *)
(* inputs, the published catalogue and the ready analyses, into staging rows, *)
(* fingerprints and scores every entity over many short transactions, and     *)
(* publishes the whole set and the journal of its differences in one.         *)
(* A session lock admits one builder; workers die, and inputs move on, between *)
(* any two transactions.                                                      *)
EXTENDS Naturals, Sequences, FiniteSets, SequencesExt, FiniteSetsExt

CONSTANTS
    Entities,    \* albums and artists: numbers, for the order of pages
    Procs,       \* runner turns that build
    None,
    MaxChanges,  \* bound: publications of the catalogue and the analysis
    MaxCrashes,  \* bound: builders that die
    MaxClaims,   \* bound: requests for a build
    PageLimit,   \* rows in a page of the bootstrap or of the feed
    Retain       \* journal events kept behind the head

ASSUME BuildBounds ==
    /\ Entities \subseteq Nat \ {0} /\ IsFiniteSet(Entities)
    /\ PageLimit \in Nat \ {0} /\ Retain \in Nat
    /\ None \notin Procs /\ None \notin [has : SUBSET Entities, digest : Nat]

VARIABLES
    live,     \* catalog_state and analysis_state of the source
    past,     \* history: what each published generation of the two held
    changes, crashes, claims,
    build,    \* relationship_builds with its staged inputs and entities
    state,    \* relationship_state
    results,  \* relationship_results: the content of each entity
    journal,  \* relationship_changes
    lock,     \* holder of the session advisory lock
    builder,  \* what each runner turn holds in memory
    asking,   \* a request read the state and has not claimed yet
    owed,     \* history: a build was granted and none has read its inputs since
    reader    \* a client

inputs == <<live, past, changes>>
durable == <<build, state, results, journal>>
vars == <<inputs, crashes, claims, durable, lock, builder, asking, owed, reader>>

Identity == [cat |-> live.cat, epoch |-> live.epoch, digest |-> live.digest]
Content(g, d) == [has |-> past.has[g], digest |-> d]
Nothing == [has |-> {}, digest |-> 0]
NoRun == [at |-> "idle"]

-----------------------------------------------------------------------------
(* The inputs.  A new generation replaces the stored rows of the old one;    *)
(* an analysis projection may carry the same vectors under a new number.     *)

CatalogMoves == \E s \in SUBSET Entities :
    /\ live' = [live EXCEPT !.cat = @ + 1, !.has = s]
    /\ past' = [past EXCEPT !.has = Append(@, s)]
AnalysisMoves == \E d \in {live.digest, changes + 2} :
    /\ live' = [live EXCEPT !.ana = @ + 1, !.digest = d]
    /\ past' = [past EXCEPT !.digest = Append(@, d)]
\* A new fingerprint schema publishes the catalogue under a new epoch.
Rebased ==
    /\ live' = [live EXCEPT !.cat = @ + 1, !.epoch = @ + 1]
    /\ past' = [past EXCEPT !.has = Append(@, live.has)]
Pauses == live' = [live EXCEPT !.ready = ~@] /\ UNCHANGED past

InputsMove ==
    /\ changes < MaxChanges /\ changes' = changes + 1
    /\ CatalogMoves \/ AnalysisMoves \/ Rebased \/ Pauses
    /\ UNCHANGED <<crashes, claims, durable, lock, builder, asking, owed, reader>>

-----------------------------------------------------------------------------
(* Requests.  A claim queues a build unless one is queued or running.        *)

Current == state.status = "complete" /\ state.cat = live.cat /\ state.ana = live.ana

Ask ==
    /\ ~asking /\ ~Current /\ claims < MaxClaims
    /\ asking' = TRUE /\ claims' = claims + 1
    /\ UNCHANGED <<inputs, crashes, durable, lock, builder, owed, reader>>

Claimable == state.status \notin {"queued", "running"} \/ (state.status = "running" /\ lock = None)
Claim(force) ==
    /\ asking /\ asking' = FALSE
    /\ state' = CASE Claimable ->
                       [state EXCEPT !.status = "queued", !.wait = ~force /\ state.gen > 0]
                  [] ~Claimable /\ force /\ state.status = "queued" -> [state EXCEPT !.wait = FALSE]
                  [] OTHER -> state
    /\ owed' = (owed \/ Claimable)
    /\ UNCHANGED <<inputs, crashes, claims, build, results, journal, lock, builder, reader>>

WaitEnds ==
    /\ state.wait /\ state' = [state EXCEPT !.wait = FALSE]
    /\ UNCHANGED <<inputs, crashes, claims, build, results, journal, lock, builder, asking, owed, reader>>

-----------------------------------------------------------------------------
(* A builder.  Every step ends in a commit.                                  *)

Due == state.status = "running" \/ (state.status # "complete" /\ ~state.wait)
LockIgnored == TRUE  \* mutant: builders do not exclude each other
LockFree == lock = None

Put(p, b) == builder' = [builder EXCEPT ![p] = b]
Leave(p) == Put(p, NoRun) /\ lock' = None
Status(st) == [state EXCEPT !.status = st]

Start(p) ==
    /\ builder[p].at = "idle" /\ LockFree /\ Due
    /\ lock' = p /\ Put(p, [at |-> "locked"])
    /\ UNCHANGED <<inputs, crashes, claims, durable, asking, owed, reader>>

Stop(p, st) ==
    /\ state' = [state EXCEPT !.status = st, !.wait = (st = "failed" \/ (st = "waiting_for_index") \/ @)]
    /\ Leave(p)
    /\ UNCHANGED <<inputs, crashes, claims, build, results, journal, asking, owed, reader>>

\* Newer inputs let a staged build finish; another epoch does not.
SameSource(id) == id.epoch = live.epoch
Finishes(b) ==
    /\ b # None
    /\ \/ b.id = Identity
       \/ b.ready /\ b.phase # "complete" /\ SameSource(b.id)
Fresh == [id |-> Identity, ana |-> live.ana, phase |-> "fingerprints", ready |-> FALSE,
          staged |-> Nothing, made |-> << >>, scored |-> {}]

At(b) == CASE b.phase = "fingerprints" -> "load" [] b.phase = "complete" -> "mark" [] OTHER -> b.phase
Initialize(p) ==
    /\ builder[p].at = "locked" /\ live.ready
    /\ LET b == IF Finishes(build) THEN build ELSE Fresh IN
         /\ build' = b
         /\ Put(p, [at |-> At(b), id |-> b.id, ana |-> IF b.id = Identity THEN live.ana ELSE b.ana,
                    current |-> b.id = Identity, rows |-> b.staged, worked |-> FALSE])
         /\ owed' = (owed /\ b.id # Identity)
    /\ state' = Status("running")
    /\ UNCHANGED <<inputs, crashes, claims, results, journal, lock, asking, reader>>
NotReady(p) == builder[p].at = "locked" /\ ~live.ready /\ Stop(p, "queued")

\* The rows of a superseded generation are there while a lease pins it.
Readable(id, ana) ==
    (IF id.cat = live.cat /\ ana = live.ana THEN {} ELSE {Nothing})
      \cup {Content(id.cat, past.digest[ana])}
Load(p) ==
    /\ builder[p].at = "load"
    /\ \/ build.ready /\ Put(p, [builder[p] EXCEPT !.at = "fingerprint", !.rows = build.staged])
       \/ /\ ~build.ready
          /\ \E r \in Readable(builder[p].id, builder[p].ana) :
               Put(p, [builder[p] EXCEPT !.at = "stage", !.rows = r])
    /\ UNCHANGED <<inputs, crashes, claims, durable, lock, asking, owed, reader>>

\* What verify_inputs accepts of the live inputs.
Verified(b, staged) == live.ready /\ (b.id = Identity \/ (staged /\ SameSource(b.id)))
Seen(b) == [b EXCEPT !.current = (b.id = Identity), !.ana = IF b.id = Identity THEN live.ana ELSE @]

UnchangedIdentity(b) == Verified(b, FALSE)  \* mutant: an equal digest is enough
Unchanged(b) == Verified(b, FALSE) /\ b.ana = live.ana
Stage(p) ==
    LET b == builder[p] IN
    /\ b.at = "stage"
    /\ IF Unchanged(b)
       THEN /\ build' = [build EXCEPT !.staged = b.rows, !.ready = TRUE]
            /\ Put(p, [Seen(b) EXCEPT !.at = "fingerprint"])
            /\ UNCHANGED <<inputs, crashes, claims, state, results, journal, lock, asking, owed, reader>>
       ELSE Stop(p, "queued")

Unmade(b) == b.rows.has \ DOMAIN build.made
Fingerprint(p) ==
    LET b == builder[p] IN
    /\ b.at = "fingerprint"
    /\ \E s \in SUBSET Unmade(b) \ {{}} :
         build' = [build EXCEPT !.made = [e \in DOMAIN @ \cup s |-> IF e \in s THEN b.rows ELSE @[e]]]
    /\ Put(p, [b EXCEPT !.worked = TRUE])
    /\ UNCHANGED <<inputs, crashes, claims, state, results, journal, lock, asking, owed, reader>>
Fingerprinted(p) ==
    LET b == builder[p] IN
    /\ b.at = "fingerprint" /\ Unmade(b) = {}
    /\ IF Verified(b, TRUE)
       THEN /\ build' = [build EXCEPT !.phase = "scoring"]
            /\ Put(p, [Seen(b) EXCEPT !.at = "scoring"])
            /\ UNCHANGED <<inputs, crashes, claims, state, results, journal, lock, asking, owed, reader>>
       ELSE Stop(p, "queued")

Unscored == DOMAIN build.made \ build.scored
Score(p) ==
    LET b == builder[p] IN
    /\ b.at = "scoring"
    /\ \E e \in Unscored : build' = [build EXCEPT !.scored = @ \cup {e}]
    /\ Put(p, [b EXCEPT !.worked = TRUE])
    /\ UNCHANGED <<inputs, crashes, claims, state, results, journal, lock, asking, owed, reader>>
Scored(p) ==
    /\ builder[p].at = "scoring" /\ Unscored = {}
    /\ build' = [build EXCEPT !.phase = "publishing"]
    /\ Put(p, [builder[p] EXCEPT !.at = "publishing"])
    /\ UNCHANGED <<inputs, crashes, claims, state, results, journal, lock, asking, owed, reader>>
\* The step's time or entities are used up, but never before it did some work.
Checkpoint(p) ==
    /\ builder[p].at \in {"fingerprint", "scoring"} /\ builder[p].worked
    /\ Stop(p, "queued")
IndexMissing(p) == builder[p].at = "scoring" /\ Unscored # {} /\ Stop(p, "waiting_for_index")
Fails(p) ==
    /\ crashes < MaxCrashes /\ crashes' = crashes + 1
    /\ builder[p].at \notin {"idle", "mark", "clean"}
    /\ state' = [state EXCEPT !.status = "failed", !.wait = TRUE] /\ Leave(p)
    /\ UNCHANGED <<inputs, claims, build, results, journal, asking, owed, reader>>

-----------------------------------------------------------------------------
(* Publication: the inputs' rows are locked and verified, the journal is the *)
(* difference to the published set, and everything commits together.         *)

Value(r, e) == IF e \in DOMAIN r THEN r[e] ELSE None
\* row_number() over the entities that differ.
Changed(new) == {e \in Entities : Value(new, e) # Value(results, e)}
RowNumber(new, e) == Cardinality({f \in Changed(new) : f <= e})
Delta(new) ==
    [i \in 1 .. Cardinality(Changed(new)) |->
       LET e == CHOOSE e \in Changed(new) : RowNumber(new, e) = i
       IN  [entity |-> e, value |-> Value(new, e)]]

Published(p) ==
    LET b == Seen(builder[p]) IN
    /\ journal' = journal \o Delta(build.made)
    /\ results' = build.made
    /\ state' = [state EXCEPT !.status = "complete", !.cat = b.id.cat, !.ana = b.ana, !.gen = @ + 1,
                              !.floor = Max({@, Len(journal') - Retain})]
    /\ build' = [build EXCEPT !.phase = "complete"]
    /\ Put(p, [b EXCEPT !.at = "mark"])
    /\ UNCHANGED <<inputs, crashes, claims, lock, asking, owed, reader>>
Publish(p) ==
    /\ builder[p].at = "publishing"
    /\ IF Verified(builder[p], TRUE) THEN Published(p) \/ Stop(p, "queued") ELSE Stop(p, "queued")

Mark(p) ==
    LET b == builder[p] IN
    /\ b.at = "mark"
    /\ state' = [state EXCEPT !.status = IF b.current THEN "complete" ELSE "queued",
                              !.ana = b.ana, !.wait = ~b.current]
    /\ Put(p, [b EXCEPT !.at = "clean"])
    /\ UNCHANGED <<inputs, crashes, claims, build, results, journal, lock, asking, owed, reader>>
Clean(p) ==
    /\ builder[p].at = "clean"
    /\ build' = [build EXCEPT !.made = << >>, !.scored = {}, !.staged = Nothing]
    /\ Leave(p)
    /\ UNCHANGED <<inputs, crashes, claims, state, results, journal, asking, owed, reader>>

BuilderStep(p) ==
    \/ Start(p) \/ Initialize(p) \/ NotReady(p) \/ Load(p) \/ Stage(p)
    \/ Fingerprint(p) \/ Fingerprinted(p) \/ Score(p) \/ Scored(p) \/ Checkpoint(p)
    \/ Publish(p) \/ Mark(p) \/ Clean(p)

\* The session dies with its worker, and its lock with it.
Crash(p) ==
    /\ builder[p].at # "idle" /\ crashes < MaxCrashes /\ crashes' = crashes + 1
    /\ Leave(p)
    /\ UNCHANGED <<inputs, claims, durable, asking, owed, reader>>

-----------------------------------------------------------------------------
(* A client pages through the published set between two reads of the state,  *)
(* and then follows the journal.                                             *)

Away == [at |-> "away"]
\* A publication marks every row with its generation; a reader asks for one.
After(gen, e) == {f \in DOMAIN results : gen = state.gen /\ f > e}
Page(gen, after) ==
    {e \in After(gen, after) : Cardinality(After(gen, after) \ After(gen, e)) <= PageLimit}

ReadStatus ==
    /\ reader.at = "away" /\ state.gen > 0
    /\ reader' = [at |-> "paging", gen |-> state.gen, head |-> Len(journal), after |-> 0, held |-> << >>]
ReadPage ==
    /\ reader.at = "paging"
    /\ LET got == Page(reader.gen, reader.after) IN
         reader' = [at |-> "checking", gen |-> reader.gen, head |-> reader.head,
                    more |-> After(reader.gen, reader.after) # got,
                    after |-> IF got = {} THEN reader.after ELSE Max(got),
                    held |-> [e \in DOMAIN reader.held \cup got |->
                                IF e \in got THEN results[e] ELSE reader.held[e]]]
SameGenerationAssumed == TRUE  \* mutant: the state is not read again
SameGeneration == state.gen = reader.gen /\ Len(journal) = reader.head
CheckPage ==
    /\ reader.at = "checking"
    /\ reader' = IF ~SameGeneration THEN Away
                 ELSE IF reader.more
                 THEN [at |-> "paging", gen |-> reader.gen, head |-> reader.head,
                       after |-> reader.after, held |-> reader.held]
                 ELSE [at |-> "following", cursor |-> reader.head, held |-> reader.held]
\* The last event about an entity says what there is of it.
About(events, e) == {i \in DOMAIN events : events[i].entity = e}
Applied(held, events) ==
    LET value(e) == IF About(events, e) = {} THEN Value(held, e) ELSE events[Max(About(events, e))].value
    IN  [e \in {f \in Entities : value(f) # None} |-> value(e)]
ReadChanges ==
    /\ reader.at = "following" /\ reader.cursor < Len(journal)
    /\ reader' =
         IF reader.cursor < state.floor THEN Away
         ELSE LET to == Min({Len(journal), reader.cursor + PageLimit})
              IN  [reader EXCEPT !.cursor = to, !.held = Applied(@, SubSeq(journal, reader.cursor + 1, to))]

ReaderStep ==
    /\ ReadStatus \/ ReadPage \/ CheckPage \/ ReadChanges
    /\ UNCHANGED <<inputs, crashes, claims, durable, lock, builder, asking, owed>>

-----------------------------------------------------------------------------

Init ==
    /\ live = [cat |-> 1, has |-> Entities, epoch |-> 1, ana |-> 1, digest |-> 1, ready |-> TRUE]
    /\ past = [has |-> <<Entities>>, digest |-> <<1>>]
    /\ changes = 0 /\ crashes = 0 /\ claims = 0
    /\ build = None /\ results = << >> /\ journal = << >>
    /\ state = [status |-> "queued", wait |-> FALSE, cat |-> 0, ana |-> 0, gen |-> 0, floor |-> 0]
    /\ lock = None /\ builder = [p \in Procs |-> NoRun]
    /\ asking = FALSE /\ owed = TRUE /\ reader = Away

Next ==
    \/ InputsMove \/ Ask \/ (\E force \in BOOLEAN : Claim(force)) \/ WaitEnds \/ ReaderStep
    \/ \E p \in Procs : BuilderStep(p) \/ IndexMissing(p) \/ Fails(p) \/ Crash(p)

Spec == Init /\ [][Next]_vars

-----------------------------------------------------------------------------
(* What is published is computed entirely from the inputs the state row      *)
(* records, however the inputs moved and whichever workers built it.         *)
PublishedFromInputs ==
    state.gen > 0 =>
      results = [e \in past.has[state.cat] |-> Content(state.cat, past.digest[state.ana])]

(* A client that reached the head holds the published set.                   *)
FollowersHoldResults ==
    reader.at = "following" /\ reader.cursor = Len(journal) => reader.held = results

(* "A queued build is never claimed again: the runner takes it when its wait *)
(* ends" (catalog_enrichment.py:2064): a granted claim is built before the   *)
(* source counts as complete.                                                *)
ClaimsAreBuilt == owed /\ state.status = "complete" => \E p \in Procs : builder[p].at = "mark"
=============================================================================
