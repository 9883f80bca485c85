-------------------------- MODULE SourceStreamsProofs --------------------------
(* The streams of one source, for any number of entities, builders, readers,  *)
(* jobs and crashes.  The relationship set that is published is computed from *)
(* the inputs its state row records; a session of the catalogue keeps its     *)
(* rows; no more lookups are sent than the day allows; and who follows a      *)
(* stream to its head holds what is published.                                *)
EXTENDS SourceWorkersProofs, FiniteSetTheorems, TLAPS

-----------------------------------------------------------------------------
(* The inductive invariant of a build.                                       *)

\* The history of the inputs: its last entries are what is live.
InputsInv ==
    /\ live \in [cat : Nat \ {0}, has : SUBSET Entities, epoch : Nat,
                 ana : Nat \ {0}, digest : Nat, ready : BOOLEAN]
    /\ past \in [has : Seq(SUBSET Entities), digest : Seq(Nat)] /\ changes \in Nat
    /\ Len(past.has) = live.cat /\ past.has[live.cat] = live.has
    /\ Len(past.digest) = live.ana /\ past.digest[live.ana] = live.digest

\* An analysis generation whose vectors have the digest a build was begun for.
Of(id, ana) == id.cat \in 1..live.cat /\ ana \in 1..live.ana /\ past.digest[ana] = id.digest

\* What the staging rows of a build must hold, and what it must publish.
Staging(id) == Content(id.cat, id.digest)
Right(id) == [e \in past.has[id.cat] |-> Staging(id)]

BuildIsRecord ==
    build = [id |-> build.id, ana |-> build.ana, phase |-> build.phase, ready |-> build.ready,
             staged |-> build.staged, made |-> build.made, scored |-> build.scored]

\* The rows of a build in each of its phases.
Built ==
    /\ BuildIsRecord /\ build.ready \in BOOLEAN /\ Of(build.id, build.ana)
    /\ build.phase \in {"fingerprints", "scoring", "publishing", "complete"}
    /\ build.phase = "fingerprints" /\ ~build.ready => build.made = [e \in {} |-> Staging(build.id)]
    /\ build.phase = "fingerprints" /\ build.ready =>
         /\ build.staged = Staging(build.id)
         /\ DOMAIN build.made \subseteq past.has[build.id.cat]
         /\ build.made = [e \in DOMAIN build.made |-> Staging(build.id)]
    /\ build.phase \in {"scoring", "publishing"} => build.made = Right(build.id)
    /\ build.phase = "complete" =>
         state.gen > 0 /\ state.cat = build.id.cat /\ results = Right(build.id)

IsRun(b) ==
    b = [at |-> b.at, id |-> b.id, ana |-> b.ana, current |-> b.current,
         rows |-> b.rows, worked |-> b.worked]

\* What a builder holds in memory agrees with the build it works on.  Rows it
\* read are those of its inputs, unless an input has moved since it began.
Working(b) ==
    /\ Built /\ IsRun(b) /\ b.id = build.id
    /\ Of(build.id, b.ana)
    /\ b.at \in {"load", "stage", "fingerprint", "scoring", "publishing", "mark", "clean"}
    /\ b.at \in {"load", "stage", "fingerprint"} => build.phase = "fingerprints"
    /\ b.at = "stage" =>
         ~build.ready /\ (b.rows = Staging(build.id) \/ live.cat # build.id.cat \/ live.ana # b.ana)
    /\ b.at = "fingerprint" => build.ready /\ b.rows = Staging(build.id)
    /\ b.at \in {"scoring", "publishing"} => build.phase = b.at
    /\ b.at \in {"mark", "clean"} => build.phase = "complete"

\* One builder at a time: it holds the lock.
BuilderInv(p) ==
    \/ builder[p] = NoRun
    \/ lock = p /\ (builder[p] = [at |-> "locked"] \/ Working(builder[p]))
BuildersInv ==
    /\ builder = [p \in Procs |-> builder[p]]
    /\ \A p \in Procs : BuilderInv(p)

StateInv ==
    /\ state = [status |-> state.status, wait |-> state.wait, cat |-> state.cat,
                ana |-> state.ana, gen |-> state.gen, floor |-> state.floor]
    /\ state.gen \in Nat
    /\ state.gen > 0 => state.cat \in 1..live.cat /\ state.ana \in 1..live.ana

BuildInv ==
    InputsInv /\ (build = None \/ Built) /\ BuildersInv /\ StateInv /\ PublishedFromInputs

-----------------------------------------------------------------------------
(* Steps of the inputs.                                                      *)

\* The history grows at its end.
Grown ==
    /\ live'.cat >= live.cat /\ live'.ana >= live.ana
    /\ \A g \in 1..live.cat : past'.has[g] = past.has[g]
    /\ \A a \in 1..live.ana : past'.digest[a] = past.digest[a]

(* Appending leaves the entries there were. *)
LEMMA Appended ==
    ASSUME NEW S, NEW s \in Seq(S), NEW x \in S
    PROVE  /\ Append(s, x) \in Seq(S) /\ Len(Append(s, x)) = Len(s) + 1
           /\ Append(s, x)[Len(s) + 1] = x
           /\ \A i \in 1..Len(s) : Append(s, x)[i] = s[i]
  OBVIOUS

(* Any move of the inputs only adds to the history. *)
LEMMA InputsStep ==
    ASSUME InputsInv, InputsMove
    PROVE  InputsInv' /\ Grown
  <1>1. changes' \in Nat
    BY DEF InputsInv, InputsMove
  <1>2. /\ live.cat \in Nat \ {0} /\ live.ana \in Nat \ {0} /\ live.epoch \in Nat
        /\ live.cat + 1 \in Nat \ {0} /\ live.ana + 1 \in Nat \ {0} /\ live.epoch + 1 \in Nat
        /\ live.has \in SUBSET Entities /\ live.digest \in Nat /\ live.ready \in BOOLEAN
        /\ past.has \in Seq(SUBSET Entities) /\ past.digest \in Seq(Nat)
        /\ Len(past.has) = live.cat /\ past.has[live.cat] = live.has
        /\ Len(past.digest) = live.ana /\ past.digest[live.ana] = live.digest
        /\ live = [cat |-> live.cat, has |-> live.has, epoch |-> live.epoch,
                   ana |-> live.ana, digest |-> live.digest, ready |-> live.ready]
        /\ past = [has |-> past.has, digest |-> past.digest]
    BY DEF InputsInv
  <1>3. CASE CatalogMoves
    <2>1. PICK s \in SUBSET Entities :
          /\ live' = [live EXCEPT !.cat = live.cat + 1, !.has = s]
          /\ past' = [past EXCEPT !.has = Append(past.has, s)]
      BY <1>3 DEF CatalogMoves
    <2>2. /\ Append(past.has, s) \in Seq(SUBSET Entities)
          /\ Len(Append(past.has, s)) = live.cat + 1 /\ Append(past.has, s)[live.cat + 1] = s
          /\ \A i \in 1..live.cat : Append(past.has, s)[i] = past.has[i]
      BY <1>2, Appended
    <2>3. /\ live'.cat = live.cat + 1 /\ live'.has = s /\ live'.ana = live.ana
          /\ live'.digest = live.digest
          /\ past'.has = Append(past.has, s) /\ past'.digest = past.digest
      BY <1>2, <2>1
    <2>4. live' \in [cat : Nat \ {0}, has : SUBSET Entities, epoch : Nat,
                     ana : Nat \ {0}, digest : Nat, ready : BOOLEAN]
      BY <1>2, <2>1
    <2>5. past' \in [has : Seq(SUBSET Entities), digest : Seq(Nat)]
      BY <2>1, <2>2 DEF InputsInv
    <2>6. Len(past'.has) = live'.cat /\ past'.has[live'.cat] = live'.has
      BY <1>2, <2>2, <2>3
    <2>7. Len(past'.digest) = live'.ana /\ past'.digest[live'.ana] = live'.digest
      BY <1>2, <2>3
    <2>8. Grown
      BY <1>2, <2>2, <2>3 DEF Grown
    <2> QED
      BY <1>1, <2>4, <2>5, <2>6, <2>7, <2>8 DEF InputsInv
  <1>4. CASE AnalysisMoves
    <2>1. PICK d \in {live.digest, changes + 2} :
          /\ live' = [live EXCEPT !.ana = live.ana + 1, !.digest = d]
          /\ past' = [past EXCEPT !.digest = Append(past.digest, d)]
      BY <1>4 DEF AnalysisMoves
    <2>2. d \in Nat
      BY <2>1 DEF InputsInv
    <2>3. /\ Append(past.digest, d) \in Seq(Nat)
          /\ Len(Append(past.digest, d)) = live.ana + 1 /\ Append(past.digest, d)[live.ana + 1] = d
          /\ \A i \in 1..live.ana : Append(past.digest, d)[i] = past.digest[i]
      BY <1>2, <2>2, Appended
    <2>4. /\ live'.cat = live.cat /\ live'.has = live.has /\ live'.ana = live.ana + 1
          /\ live'.digest = d
          /\ past'.has = past.has /\ past'.digest = Append(past.digest, d)
      BY <1>2, <2>1
    <2>5. live' \in [cat : Nat \ {0}, has : SUBSET Entities, epoch : Nat,
                     ana : Nat \ {0}, digest : Nat, ready : BOOLEAN]
      BY <1>2, <2>1, <2>2
    <2>6. past' \in [has : Seq(SUBSET Entities), digest : Seq(Nat)]
      BY <2>1, <2>3 DEF InputsInv
    <2>7. Len(past'.has) = live'.cat /\ past'.has[live'.cat] = live'.has
      BY <1>2, <2>4
    <2>8. Len(past'.digest) = live'.ana /\ past'.digest[live'.ana] = live'.digest
      BY <1>2, <2>3, <2>4
    <2>9. Grown
      BY <1>2, <2>3, <2>4 DEF Grown
    <2> QED
      BY <1>1, <2>5, <2>6, <2>7, <2>8, <2>9 DEF InputsInv
  <1>5. CASE Rebased
    <2>1. /\ live' = [live EXCEPT !.cat = live.cat + 1, !.epoch = live.epoch + 1]
          /\ past' = [past EXCEPT !.has = Append(past.has, live.has)]
      BY <1>5 DEF Rebased
    <2>2. /\ Append(past.has, live.has) \in Seq(SUBSET Entities)
          /\ Len(Append(past.has, live.has)) = live.cat + 1
          /\ Append(past.has, live.has)[live.cat + 1] = live.has
          /\ \A i \in 1..live.cat : Append(past.has, live.has)[i] = past.has[i]
      BY <1>2, Appended
    <2>3. /\ live'.cat = live.cat + 1 /\ live'.has = live.has /\ live'.ana = live.ana
          /\ live'.digest = live.digest
          /\ past'.has = Append(past.has, live.has) /\ past'.digest = past.digest
      BY <1>2, <2>1
    <2>4. live' \in [cat : Nat \ {0}, has : SUBSET Entities, epoch : Nat,
                     ana : Nat \ {0}, digest : Nat, ready : BOOLEAN]
      BY <1>2, <2>1
    <2>5. past' \in [has : Seq(SUBSET Entities), digest : Seq(Nat)]
      BY <2>1, <2>2 DEF InputsInv
    <2>6. Len(past'.has) = live'.cat /\ past'.has[live'.cat] = live'.has
      BY <1>2, <2>2, <2>3
    <2>7. Len(past'.digest) = live'.ana /\ past'.digest[live'.ana] = live'.digest
      BY <1>2, <2>3
    <2>8. Grown
      BY <1>2, <2>2, <2>3 DEF Grown
    <2> QED
      BY <1>1, <2>4, <2>5, <2>6, <2>7, <2>8 DEF InputsInv
  <1>6. CASE Pauses
    <2>1. live' = [live EXCEPT !.ready = ~live.ready] /\ past' = past
      BY <1>6 DEF Pauses
    <2>2. /\ live'.cat = live.cat /\ live'.has = live.has /\ live'.ana = live.ana
          /\ live'.digest = live.digest
      BY <1>2, <2>1
    <2>3. live' \in [cat : Nat \ {0}, has : SUBSET Entities, epoch : Nat,
                     ana : Nat \ {0}, digest : Nat, ready : BOOLEAN]
      BY <1>2, <2>1
    <2>4. Grown
      BY <1>2, <2>1, <2>2 DEF Grown
    <2> QED
      BY <1>1, <1>2, <2>1, <2>2, <2>3, <2>4 DEF InputsInv
  <1> QED
    BY <1>3, <1>4, <1>5, <1>6 DEF InputsMove

(* What is recorded of earlier inputs stays true when the history grows. *)
LEMMA RecordsStayTrue ==
    ASSUME InputsInv, InputsInv', Grown, NEW id, NEW ana, Of(id, ana)
    PROVE  /\ Of(id, ana)' /\ Staging(id)' = Staging(id) /\ Right(id)' = Right(id)
           /\ past'.has[id.cat] = past.has[id.cat]
           /\ live.cat # id.cat => live'.cat # id.cat
           /\ live.ana # ana => live'.ana # ana
  <1>1. /\ live.cat \in Nat /\ live.ana \in Nat /\ live'.cat \in Nat /\ live'.ana \in Nat
        /\ live'.cat >= live.cat /\ live'.ana >= live.ana
        /\ id.cat \in 1..live.cat /\ ana \in 1..live.ana
    BY DEF InputsInv, Grown, Of
  <1>2. id.cat \in 1..live'.cat /\ ana \in 1..live'.ana
    BY <1>1
  <1>3. past'.has[id.cat] = past.has[id.cat] /\ past'.digest[ana] = past.digest[ana]
    BY <1>1 DEF Grown
  <1>4. (live.cat # id.cat => live'.cat # id.cat) /\ (live.ana # ana => live'.ana # ana)
    BY <1>1
  <1> QED
    BY <1>2, <1>3, <1>4 DEF Of, Staging, Right, Content

(* The builds, the builders and what is published do not notice the inputs   *)
(* moving.                                                                   *)
LEMMA BuildInputsMove ==
    ASSUME BuildInv, InputsMove
    PROVE  BuildInv'
  <1>1. InputsInv /\ InputsInv' /\ Grown /\ UNCHANGED <<durable, lock, builder>>
    BY InputsStep DEF BuildInv, InputsMove
  <1>2. UNCHANGED <<build, state, results, lock, builder>>
    BY <1>1 DEF durable
  <1>3. Built => Built'
    BY <1>1, <1>2, RecordsStayTrue DEF Built, BuildIsRecord
  <1>4. ASSUME NEW b, Working(b)
        PROVE  Working(b)'
    <2>1. /\ Of(build.id, b.ana)' /\ Staging(build.id)' = Staging(build.id)
          /\ live.cat # build.id.cat => live'.cat # build.id.cat
          /\ live.ana # b.ana => live'.ana # b.ana
      BY <1>1, <1>2, <1>4, RecordsStayTrue DEF Working
    <2> QED
      BY <1>2, <1>3, <1>4, <2>1 DEF Working
  <1>5. BuildersInv'
    BY <1>2, <1>4 DEF BuildInv, BuildersInv, BuilderInv
  <1>6. StateInv' /\ PublishedFromInputs'
    <2>1. CASE state.gen > 0
      <3>1. /\ state.cat \in 1..live.cat /\ state.ana \in 1..live.ana
            /\ live.cat \in Nat /\ live.ana \in Nat /\ live'.cat \in Nat /\ live'.ana \in Nat
            /\ live'.cat >= live.cat /\ live'.ana >= live.ana
        BY <1>1, <2>1 DEF BuildInv, StateInv, InputsInv, Grown
      <3>2. state.cat \in 1..live'.cat /\ state.ana \in 1..live'.ana
        BY <3>1
      <3>3. past'.has[state.cat] = past.has[state.cat] /\ past'.digest[state.ana] = past.digest[state.ana]
        BY <1>1, <3>1 DEF Grown
      <3> QED
        BY <1>2, <3>2, <3>3 DEF BuildInv, StateInv, PublishedFromInputs, Content
    <2>2. CASE ~(state.gen > 0)
      BY <1>2, <2>2 DEF BuildInv, StateInv, PublishedFromInputs
    <2> QED
      BY <2>1, <2>2
  <1> QED
    BY <1>1, <1>2, <1>3, <1>5, <1>6 DEF BuildInv

-----------------------------------------------------------------------------
(* What the steps of builders have in common.                                *)

\* The state row still names the same published set.
SameSet ==
    /\ state' = [status |-> state'.status, wait |-> state'.wait, cat |-> state.cat,
                 ana |-> state.ana, gen |-> state.gen, floor |-> state'.floor]
    /\ UNCHANGED <<results, inputs>>

(* While one turn holds the lock, or none does, the others have no run. *)
LEMMA OthersIdle ==
    ASSUME BuildBounds, BuildInv, NEW p \in Procs, lock \in {p, None},
           NEW q \in Procs, q # p
    PROVE  builder[q] = NoRun
  BY DEF BuildInv, BuildersInv, BuilderInv, BuildBounds

(* A builder past its start holds the lock and knows its build. *)
LEMMA AtWork ==
    ASSUME BuildInv, NEW p \in Procs, builder[p].at \notin {"idle", "locked"}
    PROVE  lock = p /\ Working(builder[p])
  BY DEF BuildInv, BuildersInv, BuilderInv, NoRun

(* What is published stays right while the state row names the same set. *)
LEMMA SetKept ==
    ASSUME BuildInv, SameSet
    PROVE  InputsInv' /\ StateInv' /\ PublishedFromInputs'
  <1>1. UNCHANGED <<live, past, changes, results>>
    BY DEF SameSet, inputs
  <1>2. state'.cat = state.cat /\ state'.ana = state.ana /\ state'.gen = state.gen
    BY DEF SameSet
  <1>3. InputsInv'
    BY <1>1 DEF BuildInv, InputsInv
  <1>4. StateInv'
    BY <1>1, <1>2 DEF BuildInv, StateInv, SameSet
  <1> QED
    BY <1>1, <1>2, <1>3, <1>4 DEF BuildInv, PublishedFromInputs, Content

(* A build nobody touched is as it was. *)
LEMMA BuildKept ==
    ASSUME BuildInv, SameSet, UNCHANGED build
    PROVE  /\ (build = None \/ Built)'
           /\ \A b : Working(b) => Working(b)'
  <1>1. UNCHANGED <<live, past, changes, results>>
    BY DEF SameSet, inputs
  <1>2. state'.cat = state.cat /\ state'.gen = state.gen
    BY DEF SameSet
  <1>3. Built => Built'
    BY <1>1, <1>2 DEF Built, BuildIsRecord, Of, Staging, Right, Content
  <1> QED
    BY <1>1, <1>3 DEF BuildInv, Working, Of, Staging, Content

(* The holder of the lock goes on with a run that agrees with its build. *)
LEMMA BuildersPut ==
    ASSUME BuildBounds, BuildInv, NEW p \in Procs, lock \in {p, None}, lock' = p,
           builder' = [builder EXCEPT ![p] = builder'[p]],
           builder'[p] = [at |-> "locked"] \/ Working(builder[p])'
    PROVE  BuildersInv'
  <1>1. builder = [q \in Procs |-> builder[q]]
    BY DEF BuildInv, BuildersInv
  <1>2. builder' = [q \in Procs |-> builder'[q]]
    BY <1>1
  <1>3. ASSUME NEW q \in Procs, q # p
        PROVE  builder'[q] = NoRun
    BY <1>1, <1>3, OthersIdle
  <1> QED
    BY <1>2, <1>3 DEF BuildersInv, BuilderInv

(* The holder of the lock leaves, or dies. *)
LEMMA BuildersLeave ==
    ASSUME BuildBounds, BuildInv, NEW p \in Procs, lock = p, Leave(p)
    PROVE  BuildersInv'
  <1>1. builder = [q \in Procs |-> builder[q]]
    BY DEF BuildInv, BuildersInv
  <1>2. builder' = [q \in Procs |-> builder'[q]] /\ builder'[p] = NoRun
    BY <1>1 DEF Leave, Put
  <1>3. ASSUME NEW q \in Procs, q # p
        PROVE  builder'[q] = NoRun
    BY <1>1, <1>3, OthersIdle DEF Leave, Put
  <1> QED
    BY <1>2, <1>3 DEF BuildersInv, BuilderInv

(* A change of status and wait alone. *)
LEMMA StatusChange ==
    ASSUME BuildInv, UNCHANGED <<results, inputs>>, NEW st, NEW w,
           state' = [state EXCEPT !.status = st, !.wait = w]
    PROVE  SameSet
  <1>1. state = [status |-> state.status, wait |-> state.wait, cat |-> state.cat,
                 ana |-> state.ana, gen |-> state.gen, floor |-> state.floor]
    BY DEF BuildInv, StateInv
  <1> QED
    BY <1>1 DEF SameSet

(* A turn that ends with its build as it stands: in time, short of the index, *)
(* because an input moved, or with an error.                                  *)
LEMMA StopStep ==
    ASSUME BuildBounds, BuildInv, NEW p \in Procs, lock = p, Leave(p),
           SameSet, UNCHANGED build
    PROVE  BuildInv'
  BY SetKept, BuildKept, BuildersLeave DEF BuildInv

\* The steps of a run: to new rows, after a look at the live inputs, to work.
WithRows(c, b, x, r) == c = [b EXCEPT !.at = x, !.rows = r]
AfterSeen(c, b, x) == c = [Seen(b) EXCEPT !.at = x]

(* A run with new rows, and one that has seen the live inputs. *)
LEMMA RunWithRows ==
    ASSUME NEW b, IsRun(b), NEW x, NEW r, NEW c, WithRows(c, b, x, r)
    PROVE  /\ IsRun(c) /\ c.at = x /\ c.id = b.id /\ c.ana = b.ana /\ c.rows = r
  <1>1. PICK d : d = [b EXCEPT !.at = x]
    OBVIOUS
  <1>2. d = [at |-> x, id |-> b.id, ana |-> b.ana, current |-> b.current,
             rows |-> b.rows, worked |-> b.worked]
    BY <1>1 DEF IsRun
  <1>3. c = [d EXCEPT !.rows = r]
    BY <1>1 DEF WithRows
  <1>4. c = [at |-> x, id |-> b.id, ana |-> b.ana, current |-> b.current,
             rows |-> r, worked |-> b.worked]
    BY <1>2, <1>3
  <1> QED
    BY <1>4 DEF IsRun
LEMMA RunAfterSeen ==
    ASSUME NEW b, IsRun(b), NEW x, NEW c, AfterSeen(c, b, x)
    PROVE  /\ IsRun(c) /\ c.at = x /\ c.id = b.id /\ c.rows = b.rows
           /\ c.ana = (IF b.id = Identity THEN live.ana ELSE b.ana)
  <1>1. PICK y, z : y = (b.id = Identity) /\ z = (IF b.id = Identity THEN live.ana ELSE b.ana)
    OBVIOUS
  <1>2. PICK d : d = [b EXCEPT !.current = y]
    OBVIOUS
  <1>3. d = [at |-> b.at, id |-> b.id, ana |-> b.ana, current |-> y,
             rows |-> b.rows, worked |-> b.worked]
    BY <1>2 DEF IsRun
  <1>4. PICK e : e = [d EXCEPT !.ana = z]
    OBVIOUS
  <1>5. e = [at |-> b.at, id |-> b.id, ana |-> z, current |-> y,
             rows |-> b.rows, worked |-> b.worked]
    BY <1>3, <1>4
  <1>6. Seen(b) = e
    BY <1>1, <1>2, <1>3, <1>4 DEF Seen
  <1>7. c = [at |-> x, id |-> b.id, ana |-> z, current |-> y,
             rows |-> b.rows, worked |-> b.worked]
    BY <1>5, <1>6 DEF AfterSeen
  <1>8. IsRun(c) /\ c.at = x /\ c.id = b.id /\ c.rows = b.rows /\ c.ana = z
    BY <1>7 DEF IsRun
  <1> QED
    BY <1>1, <1>8

-----------------------------------------------------------------------------
(* The steps of a builder.                                                   *)

LEMMA StartStep ==
    ASSUME BuildBounds, BuildInv, NEW p \in Procs, Start(p)
    PROVE  BuildInv'
  <1>1. builder = [q \in Procs |-> builder[q]]
    BY DEF BuildInv, BuildersInv
  <1>2. /\ lock = None /\ lock' = p /\ builder'[p] = [at |-> "locked"]
        /\ builder' = [builder EXCEPT ![p] = builder'[p]]
    BY <1>1 DEF Start, LockFree, Put
  <1>3. SameSet /\ UNCHANGED build
    BY DEF Start, SameSet, durable, BuildInv, StateInv
  <1>4. BuildersInv'
    BY <1>2, BuildersPut
  <1> QED
    BY <1>3, <1>4, SetKept, BuildKept DEF BuildInv

(* A build begun, or taken up again, is of inputs the history records; one    *)
(* whose identity is the live one may be read under the live analysis.       *)
LEMMA InitializeStep ==
    ASSUME BuildBounds, BuildInv, NEW p \in Procs, Initialize(p)
    PROVE  BuildInv'
  <1>1. builder = [q \in Procs |-> builder[q]]
    BY DEF BuildInv, BuildersInv
  <1>2. lock = p /\ lock' = p
    BY DEF Initialize, BuildInv, BuildersInv, BuilderInv, NoRun, Working
  <1>3. build' = IF Finishes(build) THEN build ELSE Fresh
    BY DEF Initialize
  <1>4. /\ builder' = [builder EXCEPT ![p] = builder'[p]]
        /\ builder'[p] = [at |-> At(build'), id |-> build'.id,
                          ana |-> IF build'.id = Identity THEN live.ana ELSE build'.ana,
                          current |-> build'.id = Identity, rows |-> build'.staged, worked |-> FALSE]
    BY <1>1 DEF Initialize, Put
  <1>5. SameSet
    BY StatusChange DEF Initialize, Status, SameSet, BuildInv, StateInv
  <1>6. UNCHANGED <<live, past, results>> /\ state'.gen = state.gen /\ state'.cat = state.cat
    BY <1>5 DEF SameSet, inputs
  <1>7. Of(Identity, live.ana)
    BY DEF BuildInv, InputsInv, Of, Identity
  <1>8. Built'
    <2>1. CASE Finishes(build)
      <3>1. Built /\ build' = build
        BY <1>3, <2>1 DEF Finishes, BuildInv
      <3> QED
        BY <1>6, <3>1 DEF Built, BuildIsRecord, Of, Staging, Right, Content
    <2>2. CASE ~Finishes(build)
      <3>1. build' = Fresh
        BY <1>3, <2>2
      <3>2. build'.made = [e \in {} |-> Staging(build.id)']
        BY <3>1 DEF Fresh
      <3>3. /\ build'.id = Identity /\ build'.ana = live.ana /\ build'.phase = "fingerprints"
            /\ build'.ready = FALSE /\ BuildIsRecord'
        BY <3>1 DEF Fresh, BuildIsRecord
      <3>4. Of(build.id, build.ana)'
        BY <1>6, <1>7, <3>3 DEF Of
      <3> QED
        BY <3>2, <3>3, <3>4 DEF Built
    <2> QED
      BY <2>1, <2>2
  <1>9. Of(build.id, builder[p].ana)'
    <2>1. CASE build'.id = Identity
      BY <1>4, <1>6, <1>7, <2>1 DEF Of
    <2>2. CASE build'.id # Identity
      BY <1>4, <1>8, <2>2 DEF Built
    <2> QED
      BY <2>1, <2>2
  <1>10. Working(builder[p])'
    BY <1>4, <1>8, <1>9 DEF Working, IsRun, At, Built
  <1>11. BuildersInv'
    BY <1>2, <1>4, <1>10, BuildersPut
  <1> QED
    BY <1>5, <1>8, <1>11, SetKept DEF BuildInv

(* Rows are read while the inputs may move: the right ones, or none if an     *)
(* input has moved.                                                          *)
LEMMA LoadStep ==
    ASSUME BuildBounds, BuildInv, NEW p \in Procs, Load(p)
    PROVE  BuildInv'
  <1>1. builder = [q \in Procs |-> builder[q]]
    BY DEF BuildInv, BuildersInv
  <1>2. lock = p /\ Working(builder[p]) /\ builder[p].at = "load"
    BY AtWork DEF Load
  <1>3. lock' = p /\ SameSet /\ UNCHANGED build
    BY <1>2 DEF Load, SameSet, durable, BuildInv, StateInv
  <1>4. Built' /\ UNCHANGED <<live, past>>
    BY <1>2, <1>3, BuildKept DEF Working, SameSet, inputs
  <1>5. IsRun(builder[p]) /\ builder[p].id = build.id
    BY <1>2 DEF Working
  <1>6. builder' = [builder EXCEPT ![p] = builder'[p]] /\ Working(builder[p])'
    <2>1. CASE build.ready /\ Put(p, [builder[p] EXCEPT !.at = "fingerprint", !.rows = build.staged])
      <3>1. build.staged = Staging(build.id)
        BY <1>2, <2>1 DEF Working, Built
      <3>2a. WithRows(builder'[p], builder[p], "fingerprint", build.staged)
        BY <1>1, <2>1 DEF Put, WithRows
      <3>2. /\ IsRun(builder'[p]) /\ builder'[p].at = "fingerprint" /\ builder'[p].id = build.id
              /\ builder'[p].ana = builder[p].ana /\ builder'[p].rows = build.staged
        BY <1>5, <3>2a, RunWithRows
      <3>3. builder' = [builder EXCEPT ![p] = builder'[p]]
        BY <1>1, <2>1 DEF Put
      <3>4. Of(build.id, builder[p].ana)' /\ (build'.staged = Staging(build.id)')
        BY <1>2, <1>3, <1>4, <3>1, <3>2 DEF Working, Of, Staging, Content
      <3>5. Working(builder[p])'
        BY <1>2, <1>3, <1>4, <2>1, <3>2, <3>4 DEF Working, IsRun, Of, Staging, Content
      <3> QED
        BY <3>3, <3>5
    <2>2. CASE ~build.ready /\ \E r \in Readable(builder[p].id, builder[p].ana) :
                 Put(p, [builder[p] EXCEPT !.at = "stage", !.rows = r])
      <3>1. PICK r \in Readable(builder[p].id, builder[p].ana) :
                   Put(p, [builder[p] EXCEPT !.at = "stage", !.rows = r])
        BY <2>2
      <3>2. past.digest[builder[p].ana] = build.id.digest /\ builder[p].id = build.id
        BY <1>2 DEF Working, Of
      <3>3. r = Staging(build.id) \/ live.cat # build.id.cat \/ live.ana # builder[p].ana
        BY <3>2 DEF Readable, Staging
      <3>4a. WithRows(builder'[p], builder[p], "stage", r)
        BY <1>1, <3>1 DEF Put, WithRows
      <3>4. /\ IsRun(builder'[p]) /\ builder'[p].at = "stage" /\ builder'[p].id = build.id
              /\ builder'[p].ana = builder[p].ana /\ builder'[p].rows = r
        BY <1>5, <3>4a, RunWithRows
      <3>5. builder' = [builder EXCEPT ![p] = builder'[p]]
        BY <1>1, <3>1 DEF Put
      <3>6. Of(build.id, builder[p].ana)' /\ Staging(build.id)' = Staging(build.id)
        BY <1>2, <1>3, <1>4, <3>4 DEF Working, Of, Staging, Content
      <3>7. Working(builder[p])'
        BY <1>2, <1>3, <1>4, <2>2, <3>3, <3>4, <3>6 DEF Working, IsRun, Of, Staging, Content
      <3> QED
        BY <3>5, <3>7
    <2> QED
      BY <2>1, <2>2 DEF Load
  <1>7. BuildersInv'
    BY <1>2, <1>3, <1>6, BuildersPut
  <1> QED
    BY <1>3, <1>7, SetKept, BuildKept DEF BuildInv

(* A turn that stops where Stop lets it. *)
LEMMA StoppedStep ==
    ASSUME BuildBounds, BuildInv, NEW p \in Procs, builder[p].at # "idle", NEW st, Stop(p, st)
    PROVE  BuildInv'
  <1>1. lock = p
    BY DEF BuildInv, BuildersInv, BuilderInv, NoRun
  <1>2. UNCHANGED <<results, inputs>> /\ UNCHANGED build /\ Leave(p)
    BY DEF Stop
  <1>3. PICK w : w = (st = "failed" \/ (st = "waiting_for_index") \/ state.wait)
    OBVIOUS
  <1>4. state' = [state EXCEPT !.status = st, !.wait = w]
    BY <1>3 DEF Stop
  <1>5. SameSet
    BY <1>2, <1>4, StatusChange
  <1> QED
    BY <1>1, <1>2, <1>5, StopStep

(* Rows are staged only under the inputs they were read from. *)
LEMMA StageStep ==
    ASSUME BuildBounds, BuildInv, NEW p \in Procs, Stage(p)
    PROVE  BuildInv'
  <1>1. CASE ~Unchanged(builder[p])
    BY <1>1, StoppedStep DEF Stage
  <1>2. CASE Unchanged(builder[p])
    <2>1. lock = p /\ Working(builder[p]) /\ builder[p].at = "stage"
      BY AtWork DEF Stage
    <2>2. builder = [q \in Procs |-> builder[q]]
      BY DEF BuildInv, BuildersInv
    <2>3. /\ build' = [build EXCEPT !.staged = builder[p].rows, !.ready = TRUE]
          /\ Put(p, [Seen(builder[p]) EXCEPT !.at = "fingerprint"])
          /\ UNCHANGED <<inputs, state, results, lock>>
      BY <1>2 DEF Stage
    <2>4. SameSet /\ UNCHANGED <<live, past>>
      BY <2>3 DEF SameSet, BuildInv, StateInv, inputs
    <2>5. builder[p].id = Identity /\ builder[p].id = build.id /\ builder[p].ana = live.ana
      BY <1>2, <2>1 DEF Unchanged, Verified, Working
    <2>6. builder[p].rows = Staging(build.id)
      BY <2>1, <2>5 DEF Working, Identity
    <2>7. /\ BuildIsRecord' /\ build'.id = build.id /\ build'.ana = build.ana
          /\ build'.phase = build.phase /\ build'.ready = TRUE
          /\ build'.staged = builder[p].rows /\ build'.made = build.made
      BY <2>1, <2>3 DEF Working, Built, BuildIsRecord
    <2>8. build.phase = "fingerprints" /\ build.made = [e \in {} |-> Staging(build.id)]
          /\ Of(build.id, build.ana)
      BY <2>1 DEF Working, Built
    <2>9. Staging(build.id)' = Staging(build.id) /\ Of(build.id, build.ana)'
      BY <2>4, <2>7, <2>8 DEF Staging, Content, Of
    <2>10. Built'
      BY <2>6, <2>7, <2>8, <2>9 DEF Built
    <2>11. AfterSeen(builder'[p], builder[p], "fingerprint")
           /\ builder' = [builder EXCEPT ![p] = builder'[p]]
      BY <2>2, <2>3 DEF Put, AfterSeen
    <2>12. /\ IsRun(builder'[p]) /\ builder'[p].at = "fingerprint" /\ builder'[p].id = build.id
           /\ builder'[p].rows = builder[p].rows /\ builder'[p].ana = live.ana
      BY <2>1, <2>5, <2>11, RunAfterSeen DEF Working
    <2>13. Of(build.id, builder[p].ana)'
      BY <2>1, <2>4, <2>5, <2>7, <2>12 DEF Working, Of
    <2>14. Working(builder[p])'
      BY <2>6, <2>7, <2>8, <2>9, <2>10, <2>12, <2>13 DEF Working, IsRun
    <2>15. BuildersInv'
      BY <2>1, <2>3, <2>11, <2>14, BuildersPut
    <2> QED
      BY <2>4, <2>10, <2>15, SetKept DEF BuildInv
  <1> QED
    BY <1>1, <1>2

(* A page of entities is fingerprinted from the staged rows. *)
LEMMA FingerprintStep ==
    ASSUME BuildBounds, BuildInv, NEW p \in Procs, Fingerprint(p)
    PROVE  BuildInv'
  <1>1. lock = p /\ Working(builder[p]) /\ builder[p].at = "fingerprint"
    BY AtWork DEF Fingerprint
  <1>2. builder = [q \in Procs |-> builder[q]]
    BY DEF BuildInv, BuildersInv
  <1>3. PICK s \in SUBSET Unmade(builder[p]) :
          build' = [build EXCEPT !.made = [e \in DOMAIN build.made \cup s |->
                                             IF e \in s THEN builder[p].rows ELSE build.made[e]]]
    BY DEF Fingerprint
  <1>4. /\ builder'[p] = [builder[p] EXCEPT !.worked = TRUE]
        /\ builder' = [builder EXCEPT ![p] = builder'[p]]
    BY <1>2 DEF Fingerprint, Put
  <1>5. SameSet /\ UNCHANGED <<live, past, lock>>
    BY DEF Fingerprint, SameSet, BuildInv, StateInv, inputs
  <1>6. /\ build.phase = "fingerprints" /\ build.ready /\ Of(build.id, build.ana)
        /\ builder[p].rows = Staging(build.id) /\ build.staged = Staging(build.id)
        /\ DOMAIN build.made \subseteq past.has[build.id.cat]
        /\ build.made = [e \in DOMAIN build.made |-> Staging(build.id)]
    BY <1>1 DEF Working, Built
  <1>7. /\ BuildIsRecord' /\ build'.id = build.id /\ build'.ana = build.ana
        /\ build'.phase = build.phase /\ build'.ready = build.ready
        /\ build'.staged = build.staged
        /\ build'.made = [e \in DOMAIN build.made \cup s |->
                            IF e \in s THEN builder[p].rows ELSE build.made[e]]
    BY <1>1, <1>3 DEF Working, Built, BuildIsRecord
  <1>8. Staging(build.id)' = Staging(build.id) /\ Of(build.id, build.ana)'
    BY <1>5, <1>6, <1>7 DEF Staging, Content, Of
  <1>9. s \subseteq past.has[build.id.cat]
    BY <1>3, <1>6 DEF Unmade, Staging, Content
  <1>10. /\ DOMAIN build'.made \subseteq past'.has[build'.id.cat]
         /\ build'.made = [e \in DOMAIN build'.made |-> Staging(build.id)']
    BY <1>5, <1>6, <1>7, <1>8, <1>9
  <1>11. Built'
    BY <1>1, <1>6, <1>7, <1>8, <1>10 DEF Built, Working
  <1>12. IsRun(builder'[p]) /\ builder'[p].at = "fingerprint" /\ builder'[p].id = build.id
         /\ builder'[p].rows = builder[p].rows /\ builder'[p].ana = builder[p].ana
    BY <1>1, <1>4 DEF Working, IsRun
  <1>13. Of(build.id, builder[p].ana)'
    BY <1>1, <1>5, <1>7, <1>12 DEF Working, Of
  <1>14. Working(builder[p])'
    BY <1>6, <1>7, <1>8, <1>11, <1>12, <1>13 DEF Working, IsRun
  <1>15. BuildersInv'
    BY <1>1, <1>4, <1>5, <1>14, BuildersPut
  <1> QED
    BY <1>5, <1>11, <1>15, SetKept DEF BuildInv

(* When every entity of the staged rows is made, the set is complete. *)
LEMMA FingerprintedStep ==
    ASSUME BuildBounds, BuildInv, NEW p \in Procs, Fingerprinted(p)
    PROVE  BuildInv'
  <1>1. CASE ~Verified(builder[p], TRUE)
    BY <1>1, StoppedStep DEF Fingerprinted
  <1>2. CASE Verified(builder[p], TRUE)
    <2>1. lock = p /\ Working(builder[p]) /\ builder[p].at = "fingerprint"
      BY AtWork DEF Fingerprinted
    <2>2. builder = [q \in Procs |-> builder[q]]
      BY DEF BuildInv, BuildersInv
    <2>3. /\ build' = [build EXCEPT !.phase = "scoring"]
          /\ Put(p, [Seen(builder[p]) EXCEPT !.at = "scoring"])
          /\ UNCHANGED <<inputs, state, results, lock>>
      BY <1>2 DEF Fingerprinted
    <2>4. SameSet /\ UNCHANGED <<live, past>>
      BY <2>3 DEF SameSet, BuildInv, StateInv, inputs
    <2>5. /\ BuildIsRecord' /\ build'.id = build.id /\ build'.ana = build.ana
          /\ build'.phase = "scoring" /\ build'.ready = build.ready /\ build'.made = build.made
      BY <2>1, <2>3 DEF Working, Built, BuildIsRecord
    <2>6. /\ Of(build.id, build.ana) /\ build.ready = TRUE /\ builder[p].id = build.id
          /\ builder[p].rows = Staging(build.id)
          /\ DOMAIN build.made \subseteq past.has[build.id.cat]
          /\ build.made = [e \in DOMAIN build.made |-> Staging(build.id)]
      BY <2>1 DEF Working, Built
    <2>7. past.has[build.id.cat] \subseteq DOMAIN build.made
      BY <2>6 DEF Fingerprinted, Unmade, Staging, Content
    <2>8. build.made = Right(build.id)
      BY <2>6, <2>7 DEF Right
    <2>9. Right(build.id)' = Right(build.id) /\ Of(build.id, build.ana)'
      BY <2>4, <2>5, <2>6 DEF Right, Staging, Content, Of
    <2>10. Built'
      BY <2>5, <2>6, <2>8, <2>9 DEF Built
    <2>11. AfterSeen(builder'[p], builder[p], "scoring")
           /\ builder' = [builder EXCEPT ![p] = builder'[p]]
      BY <2>2, <2>3 DEF Put, AfterSeen
    <2>12. /\ IsRun(builder'[p]) /\ builder'[p].at = "scoring" /\ builder'[p].id = build.id
           /\ builder'[p].ana = IF build.id = Identity THEN live.ana ELSE builder[p].ana
      BY <2>1, <2>6, <2>11, RunAfterSeen DEF Working
    <2>13. Of(Identity, live.ana)
      BY DEF BuildInv, InputsInv, Of, Identity
    <2>14. Of(build.id, builder[p].ana)'
      BY <2>1, <2>4, <2>5, <2>12, <2>13 DEF Working, Of
    <2>15. Working(builder[p])'
      BY <2>5, <2>10, <2>12, <2>14 DEF Working, IsRun
    <2>16. BuildersInv'
      BY <2>1, <2>3, <2>11, <2>15, BuildersPut
    <2> QED
      BY <2>4, <2>10, <2>16, SetKept DEF BuildInv
  <1> QED
    BY <1>1, <1>2

(* Scoring touches no content. *)
LEMMA ScoreStep ==
    ASSUME BuildBounds, BuildInv, NEW p \in Procs, Score(p) \/ Scored(p)
    PROVE  BuildInv'
  <1>1. lock = p /\ Working(builder[p]) /\ builder[p].at = "scoring"
    BY AtWork DEF Score, Scored
  <1>2. builder = [q \in Procs |-> builder[q]]
    BY DEF BuildInv, BuildersInv
  <1>3. SameSet /\ UNCHANGED <<live, past, lock>>
    BY DEF Score, Scored, SameSet, BuildInv, StateInv, inputs
  <1>4. /\ build.phase = "scoring" /\ Of(build.id, build.ana) /\ build.made = Right(build.id)
        /\ Of(build.id, builder[p].ana) /\ build.ready \in BOOLEAN
    BY <1>1 DEF Working, Built
  <1>5. /\ BuildIsRecord' /\ build'.id = build.id /\ build'.ana = build.ana
        /\ build'.phase \in {"scoring", "publishing"} /\ build'.ready = build.ready
        /\ build'.made = build.made
        /\ IsRun(builder'[p]) /\ builder'[p].at = build'.phase
        /\ builder'[p].id = build.id /\ builder'[p].ana = builder[p].ana
        /\ builder' = [builder EXCEPT ![p] = builder'[p]]
    <2>1. CASE Score(p)
      <3>1. PICK e \in Unscored : build' = [build EXCEPT !.scored = build.scored \cup {e}]
        BY <2>1 DEF Score
      <3>2. builder'[p] = [builder[p] EXCEPT !.worked = TRUE]
            /\ builder' = [builder EXCEPT ![p] = builder'[p]]
        BY <1>2, <2>1 DEF Score, Put
      <3> QED
        BY <1>1, <1>4, <3>1, <3>2 DEF Working, Built, BuildIsRecord, IsRun
    <2>2. CASE Scored(p)
      <3>1. build' = [build EXCEPT !.phase = "publishing"]
        BY <2>2 DEF Scored
      <3>2. builder'[p] = [builder[p] EXCEPT !.at = "publishing"]
            /\ builder' = [builder EXCEPT ![p] = builder'[p]]
        BY <1>2, <2>2 DEF Scored, Put
      <3> QED
        BY <1>1, <1>4, <3>1, <3>2 DEF Working, Built, BuildIsRecord, IsRun
    <2> QED
      BY <2>1, <2>2
  <1>6. /\ Right(build.id)' = Right(build.id) /\ Of(build.id, build.ana)'
        /\ Of(build.id, builder[p].ana)'
    BY <1>3, <1>4, <1>5 DEF Right, Staging, Content, Of
  <1>7. Built'
    BY <1>4, <1>5, <1>6 DEF Built
  <1>8. Working(builder[p])'
    BY <1>5, <1>6, <1>7 DEF Working, IsRun
  <1>9. BuildersInv'
    BY <1>1, <1>3, <1>5, <1>8, BuildersPut
  <1> QED
    BY <1>3, <1>7, <1>9, SetKept DEF BuildInv

\* The state row of a publication.
Row(t, st, g, a, n, f) ==
    t = [status |-> st, wait |-> state.wait, cat |-> g, ana |-> a, gen |-> n, floor |-> f]

(* A state row with new values. *)
LEMMA NewRow ==
    ASSUME BuildInv, NEW st, NEW g, NEW a, NEW n, NEW f, NEW t,
           t = [state EXCEPT !.status = st, !.cat = g, !.ana = a, !.gen = n, !.floor = f]
    PROVE  Row(t, st, g, a, n, f)
  <1>1. PICK t1 : t1 = [state EXCEPT !.status = st]
    OBVIOUS
  <1>2. t1 = [status |-> st, wait |-> state.wait, cat |-> state.cat, ana |-> state.ana,
              gen |-> state.gen, floor |-> state.floor]
    BY <1>1 DEF BuildInv, StateInv
  <1>3. PICK t2 : t2 = [t1 EXCEPT !.cat = g]
    OBVIOUS
  <1>4. PICK t3 : t3 = [t2 EXCEPT !.ana = a]
    OBVIOUS
  <1>5. PICK t4 : t4 = [t3 EXCEPT !.gen = n]
    OBVIOUS
  <1>6. t = [t4 EXCEPT !.floor = f]
    BY <1>1, <1>3, <1>4, <1>5
  <1>7. t3 = [status |-> st, wait |-> state.wait, cat |-> g, ana |-> a,
              gen |-> state.gen, floor |-> state.floor]
    BY <1>2, <1>3, <1>4
  <1> QED
    BY <1>5, <1>6, <1>7 DEF Row

(* A publication: the state row names the inputs the set was built from. *)
LEMMA PublishedStep ==
    ASSUME BuildBounds, BuildInv, NEW p \in Procs, builder[p].at = "publishing", Published(p)
    PROVE  BuildInv'
  <1>1. lock = p /\ Working(builder[p])
    BY AtWork
  <1>2. builder = [q \in Procs |-> builder[q]]
    BY DEF BuildInv, BuildersInv
  <1>3. AfterSeen(builder'[p], builder[p], "mark") /\ builder' = [builder EXCEPT ![p] = builder'[p]]
    BY <1>2 DEF Published, Put, AfterSeen
  <1>4. UNCHANGED <<live, past, changes, lock>>
    BY DEF Published, inputs
  <1>5. /\ builder[p].id = build.id /\ IsRun(builder[p])
        /\ Of(build.id, builder[p].ana) /\ Of(build.id, build.ana)
        /\ build.made = Right(build.id) /\ build.ready \in BOOLEAN
    BY <1>1 DEF Working, Built
  <1>6. Of(Identity, live.ana)
    BY DEF BuildInv, InputsInv, Of, Identity
  <1>7. /\ IsRun(builder'[p]) /\ builder'[p].at = "mark" /\ builder'[p].id = build.id
        /\ builder'[p].ana = IF build.id = Identity THEN live.ana ELSE builder[p].ana
    BY <1>3, <1>5, RunAfterSeen
  <1>8. Of(build.id, builder'[p].ana)
    BY <1>5, <1>6, <1>7
  <1>9. PICK f : f = Max({state.floor, Len(journal') - Retain})
    OBVIOUS
  <1>10. PICK c, a : c = build.id.cat /\ a = builder'[p].ana
    OBVIOUS
  <1>11. Seen(builder[p]).id = build.id /\ Seen(builder[p]).ana = builder'[p].ana
    BY <1>3, <1>5, <1>7 DEF AfterSeen, Seen, IsRun
  <1>12. PICK n : n = state.gen + 1
    OBVIOUS
  <1>13. state' = [state EXCEPT !.status = "complete", !.cat = c, !.ana = a, !.gen = n, !.floor = f]
    BY <1>9, <1>10, <1>11, <1>12 DEF Published
  <1>14. Row(state', "complete", c, a, n, f)
    BY <1>13, NewRow
  <1>15. /\ state' = [status |-> state'.status, wait |-> state'.wait, cat |-> state'.cat,
                      ana |-> state'.ana, gen |-> state'.gen, floor |-> state'.floor]
         /\ state'.cat = build.id.cat /\ state'.ana = builder'[p].ana /\ state'.gen = state.gen + 1
    BY <1>10, <1>12, <1>14 DEF Row
  <1>16. state'.gen \in Nat /\ state'.gen > 0
    BY <1>15 DEF BuildInv, StateInv
  <1>17. StateInv'
    BY <1>4, <1>8, <1>15, <1>16 DEF StateInv, Of
  <1>18. InputsInv'
    BY <1>4 DEF BuildInv, InputsInv
  <1>19. /\ BuildIsRecord' /\ build'.id = build.id /\ build'.ana = build.ana
         /\ build'.phase = "complete" /\ build'.ready = build.ready /\ results' = Right(build.id)
    BY <1>1, <1>5 DEF Published, Working, Built, BuildIsRecord
  <1>20. Right(build.id)' = Right(build.id) /\ Of(build.id, build.ana)' /\ Of(build.id, builder[p].ana)'
    BY <1>4, <1>5, <1>8, <1>19 DEF Right, Staging, Content, Of
  <1>21. Built'
    BY <1>5, <1>15, <1>16, <1>19, <1>20 DEF Built
  <1>22. PublishedFromInputs'
    BY <1>4, <1>8, <1>15, <1>19 DEF PublishedFromInputs, Right, Staging, Content, Of
  <1>23. Working(builder[p])'
    BY <1>7, <1>19, <1>20, <1>21 DEF Working, IsRun
  <1>24. BuildersInv'
    BY <1>1, <1>3, <1>4, <1>23, BuildersPut
  <1> QED
    BY <1>17, <1>18, <1>21, <1>22, <1>24 DEF BuildInv

LEMMA PublishStep ==
    ASSUME BuildBounds, BuildInv, NEW p \in Procs, Publish(p)
    PROVE  BuildInv'
  <1>1. CASE Published(p)
    BY <1>1, PublishedStep DEF Publish
  <1>2. CASE Stop(p, "queued")
    BY <1>2, StoppedStep DEF Publish
  <1> QED
    BY <1>1, <1>2 DEF Publish

(* The last look: the state row may come to name another analysis generation  *)
(* that has the same vectors.                                                *)
LEMMA MarkStep ==
    ASSUME BuildBounds, BuildInv, NEW p \in Procs, Mark(p)
    PROVE  BuildInv'
  <1>1. lock = p /\ Working(builder[p]) /\ builder[p].at = "mark"
    BY AtWork DEF Mark
  <1>2. builder = [q \in Procs |-> builder[q]]
    BY DEF BuildInv, BuildersInv
  <1>3. builder'[p] = [builder[p] EXCEPT !.at = "clean"] /\ builder' = [builder EXCEPT ![p] = builder'[p]]
    BY <1>2 DEF Mark, Put
  <1>4. UNCHANGED <<live, past, changes, build, results, lock>>
    BY DEF Mark, inputs
  <1>5. PICK st, a, w : /\ st = (IF builder[p].current THEN "complete" ELSE "queued")
                        /\ a = builder[p].ana /\ w = ~builder[p].current
    OBVIOUS
  <1>6. state' = [state EXCEPT !.status = st, !.ana = a, !.wait = w]
    BY <1>5 DEF Mark
  <1>7. PICK t : t = [state EXCEPT !.status = st, !.ana = a]
    OBVIOUS
  <1>8. t = [status |-> st, wait |-> state.wait, cat |-> state.cat, ana |-> a,
             gen |-> state.gen, floor |-> state.floor]
    BY <1>7 DEF BuildInv, StateInv
  <1>9. state' = [t EXCEPT !.wait = w]
    BY <1>6, <1>7
  <1>10. /\ state' = [status |-> state'.status, wait |-> state'.wait, cat |-> state'.cat,
                      ana |-> state'.ana, gen |-> state'.gen, floor |-> state'.floor]
         /\ state'.cat = state.cat /\ state'.ana = builder[p].ana /\ state'.gen = state.gen
    BY <1>5, <1>8, <1>9
  <1>11. /\ Built /\ IsRun(builder[p]) /\ builder[p].id = build.id /\ Of(build.id, builder[p].ana)
         /\ build.phase = "complete" /\ Of(build.id, build.ana)
         /\ state.gen > 0 /\ state.cat = build.id.cat /\ results = Right(build.id)
    BY <1>1 DEF Working, Built
  <1>12. StateInv' /\ InputsInv'
    BY <1>4, <1>10, <1>11 DEF BuildInv, StateInv, InputsInv, Of
  <1>13. PublishedFromInputs'
    BY <1>4, <1>10, <1>11 DEF PublishedFromInputs, Right, Staging, Content, Of
  <1>14. Built'
    BY <1>4, <1>10, <1>11 DEF Built, BuildIsRecord, Right, Staging, Content, Of
  <1>15. IsRun(builder'[p]) /\ builder'[p].at = "clean" /\ builder'[p].id = build.id
         /\ builder'[p].ana = builder[p].ana
    BY <1>3, <1>11 DEF IsRun
  <1>16. Of(build.id, builder[p].ana)'
    BY <1>4, <1>11, <1>15 DEF Of
  <1>17. Working(builder[p])'
    BY <1>4, <1>11, <1>14, <1>15, <1>16 DEF Working, IsRun
  <1>18. BuildersInv'
    BY <1>1, <1>3, <1>4, <1>17, BuildersPut
  <1> QED
    BY <1>12, <1>13, <1>14, <1>18 DEF BuildInv

(* The staging rows of a complete build are deleted. *)
LEMMA CleanStep ==
    ASSUME BuildBounds, BuildInv, NEW p \in Procs, Clean(p)
    PROVE  BuildInv'
  <1>1. lock = p /\ Working(builder[p]) /\ builder[p].at = "clean"
    BY AtWork DEF Clean
  <1>2. SameSet /\ UNCHANGED <<live, past, results, state>> /\ Leave(p)
    BY DEF Clean, SameSet, BuildInv, StateInv, inputs
  <1>3. Built /\ build.phase = "complete" /\ Of(build.id, build.ana)
        /\ state.gen > 0 /\ state.cat = build.id.cat /\ results = Right(build.id)
    BY <1>1 DEF Working, Built
  <1>4. PICK b : b = [build EXCEPT !.made = << >>, !.scored = {}]
    OBVIOUS
  <1>5. b = [id |-> build.id, ana |-> build.ana, phase |-> build.phase, ready |-> build.ready,
             staged |-> build.staged, made |-> << >>, scored |-> {}]
    BY <1>3, <1>4 DEF Built, BuildIsRecord
  <1>6. build' = [b EXCEPT !.staged = Nothing]
    BY <1>4 DEF Clean
  <1>7. /\ BuildIsRecord' /\ build'.id = build.id /\ build'.ana = build.ana
        /\ build'.phase = "complete" /\ build'.ready = build.ready
    BY <1>3, <1>5, <1>6 DEF BuildIsRecord
  <1>8. Right(build.id)' = Right(build.id) /\ Of(build.id, build.ana)'
    BY <1>2, <1>3, <1>7 DEF Right, Staging, Content, Of
  <1>9. Built'
    BY <1>2, <1>3, <1>7, <1>8 DEF Built
  <1> QED
    BY <1>1, <1>2, <1>9, SetKept, BuildersLeave DEF BuildInv

(* A worker that dies, or whose turn fails, leaves the build to the next. *)
LEMMA BuilderLost ==
    ASSUME BuildBounds, BuildInv, NEW p \in Procs, Crash(p) \/ Fails(p)
    PROVE  BuildInv'
  <1>1. lock = p
    BY DEF Crash, Fails, BuildInv, BuildersInv, BuilderInv, NoRun
  <1>2. Leave(p) /\ UNCHANGED <<inputs, results>> /\ UNCHANGED build
    BY DEF Crash, Fails, durable
  <1>3. SameSet
    <2>1. CASE Crash(p)
      BY <1>2, <2>1 DEF Crash, durable, SameSet, BuildInv, StateInv
    <2>2. CASE Fails(p)
      BY <1>2, <2>2, StatusChange DEF Fails
    <2> QED
      BY <2>1, <2>2
  <1> QED
    BY <1>1, <1>2, <1>3, StopStep

(* Requests and readers leave the builds alone. *)
LEMMA RequestStep ==
    ASSUME BuildBounds, BuildInv,
           \/ Ask \/ (\E force \in BOOLEAN : Claim(force)) \/ WaitEnds \/ ReaderStep
    PROVE  BuildInv'
  <1>1. UNCHANGED <<inputs, build, results, lock, builder>>
    BY DEF Ask, Claim, WaitEnds, ReaderStep, durable
  <1>2. SameSet
    <2>1. state = [status |-> state.status, wait |-> state.wait, cat |-> state.cat,
                   ana |-> state.ana, gen |-> state.gen, floor |-> state.floor]
      BY DEF BuildInv, StateInv
    <2>2. CASE UNCHANGED state
      BY <1>1, <2>1, <2>2 DEF SameSet
    <2>3. CASE WaitEnds
      <3>1. state' = [state EXCEPT !.wait = FALSE]
        BY <2>3 DEF WaitEnds
      <3> QED
        BY <1>1, <2>1, <3>1 DEF SameSet
    <2>4. ASSUME NEW force \in BOOLEAN, Claim(force)
          PROVE  SameSet
      <3>1. PICK w : w = (~force /\ state.gen > 0)
        OBVIOUS
      <3>2. \/ state' = [state EXCEPT !.status = "queued", !.wait = w]
            \/ state' = [state EXCEPT !.wait = FALSE]
            \/ state' = state
        BY <2>4, <3>1 DEF Claim
      <3>3. CASE state' = [state EXCEPT !.status = "queued", !.wait = w]
        BY <1>1, <3>3, StatusChange
      <3> QED
        BY <1>1, <2>1, <2>2, <3>2, <3>3 DEF SameSet
    <2> QED
      BY <2>2, <2>3, <2>4 DEF Ask, ReaderStep, durable
  <1>3. BuildersInv'
    BY <1>1, <1>2, BuildKept DEF BuildInv, BuildersInv, BuilderInv
  <1> QED
    BY <1>1, <1>2, <1>3, SetKept, BuildKept DEF BuildInv

LEMMA BuildInit ==
    ASSUME Init
    PROVE  BuildInv
  <1>1. live.cat = 1 /\ live.has = Entities /\ live.ana = 1 /\ live.digest = 1
    BY DEF Init
  <1>2. past.has = <<Entities>> /\ past.digest = <<1>>
    BY DEF Init
  <1>3. live \in [cat : Nat \ {0}, has : SUBSET Entities, epoch : Nat,
                  ana : Nat \ {0}, digest : Nat, ready : BOOLEAN]
    BY DEF Init
  <1>4. past \in [has : Seq(SUBSET Entities), digest : Seq(Nat)]
    BY DEF Init
  <1>5. InputsInv
    BY <1>1, <1>2, <1>3, <1>4 DEF Init, InputsInv
  <1>6. BuildersInv
    BY DEF Init, BuildersInv, BuilderInv
  <1>7. StateInv /\ PublishedFromInputs
    BY DEF Init, StateInv, PublishedFromInputs
  <1> QED
    BY <1>5, <1>6, <1>7 DEF Init, BuildInv

LEMMA BuilderSteps ==
    ASSUME BuildBounds, BuildInv, NEW p \in Procs,
           BuilderStep(p) \/ IndexMissing(p) \/ Fails(p) \/ Crash(p)
    PROVE  BuildInv'
  <1>1. CASE NotReady(p)
    BY <1>1, StoppedStep DEF NotReady
  <1>2. CASE Checkpoint(p)
    BY <1>2, StoppedStep DEF Checkpoint
  <1>3. CASE IndexMissing(p)
    BY <1>3, StoppedStep DEF IndexMissing
  <1> QED
    BY <1>1, <1>2, <1>3, StartStep, InitializeStep, LoadStep, StageStep, FingerprintStep,
       FingerprintedStep, ScoreStep, PublishStep, MarkStep, CleanStep, BuilderLost
       DEF BuilderStep

LEMMA BuildStep ==
    ASSUME BuildBounds, BuildInv, Next
    PROVE  BuildInv'
  BY BuildInputsMove, RequestStep, BuilderSteps DEF Next

LEMMA BuildStutter ==
    ASSUME BuildBounds, BuildInv, UNCHANGED vars
    PROVE  BuildInv'
  <1>1. SameSet /\ UNCHANGED <<build, lock, builder>>
    BY DEF vars, durable, inputs, SameSet, BuildInv, StateInv
  <1>2. BuildersInv'
    BY <1>1, BuildKept DEF BuildInv, BuildersInv, BuilderInv
  <1> QED
    BY <1>1, <1>2, SetKept, BuildKept DEF BuildInv

(* What is published is computed entirely from the inputs its state row      *)
(* names, for any number of entities, builders, generations and crashes.     *)
THEOREM PublishedSetIsBuilt == Spec => []PublishedFromInputs
  <1>1. Init => BuildInv
    BY BuildInit
  <1>2. BuildInv /\ [Next]_vars => BuildInv'
    BY BuildBounds, BuildStep, BuildStutter
  <1>3. BuildInv => PublishedFromInputs
    BY DEF BuildInv
  <1> QED
    BY <1>1, <1>2, <1>3, PTL DEF Spec

(* The same of the suite, whichever component moves: the steps of the two     *)
(* foci on relationships are steps of the component.                         *)
THEOREM SuiteBuildsFromInputs == SuiteSpec => []BuildsFromInputs
  <1> DEFINE Inv == Relating => BuildInv
  <1>1. SuiteInit => Inv
    BY BuildInit DEF SuiteInit, Relating
  <1>2. Inv /\ [SuiteNext]_all => Inv'
    <2> SUFFICES ASSUME Inv, [SuiteNext]_all, Relating'
                 PROVE  BuildInv'
      OBVIOUS
    <2>1. UNCHANGED focus
      BY DEF SuiteNext, all
    <2>2. Relating /\ BuildInv
      BY <2>1 DEF Relating
    <2>3. Next \/ UNCHANGED vars
      <3>1. CASE UNCHANGED all
        BY <3>1 DEF all
      <3>2. CASE SuiteNext /\ focus = "building"
        <4>1. Building
          BY <3>2 DEF SuiteNext
        <4> QED
          BY <4>1 DEF Building, Next
      <3>3. CASE SuiteNext /\ focus = "reading"
        <4>1. Reading
          BY <3>3 DEF SuiteNext
        <4> QED
          BY <4>1, BuildersAssumption DEF Reading, Next
      <3> QED
        BY <2>2, <3>1, <3>2, <3>3 DEF Relating
    <2> QED
      BY <2>2, <2>3, BuildBounds, BuildStep, BuildStutter
  <1>3. Inv => BuildsFromInputs
    BY DEF BuildInv, BuildsFromInputs
  <1> QED
    BY <1>1, <1>2, <1>3, PTL DEF SuiteSpec

-----------------------------------------------------------------------------
(* Lookups: the component's lemmas, under the suite's variables.             *)

LookupProofs == INSTANCE MetadataJobsProofs WITH
    Jobs <- Lookups,
    job <- live, used <- past, worker <- builder, sent <- state, submits <- claims,
    days <- build, fails <- results

(* In the suite too no day of an account sees more requests than its          *)
(* allowance, however many processes share it (reserve).                     *)
THEOREM SuiteKeepsAllowance == SuiteSpec => []AllowanceKept
  <1> DEFINE Inv == focus = "lookups" => LookupProofs!AllowanceInv
  <1>1. LookupProofs!MetadataAssumption
    <2>1. Metadata!MetadataAssumption
      BY BoundsHold
    <2> QED
      BY <2>1 DEF Metadata!MetadataAssumption, LookupProofs!MetadataAssumption,
         Metadata!IsFiniteSet, LookupProofs!IsFiniteSet
  <1>2. SuiteInit => Inv
    <2> SUFFICES ASSUME SuiteInit, focus = "lookups"
                 PROVE  LookupProofs!AllowanceInv
      OBVIOUS
    <2>1. Metadata!Init
      BY DEF SuiteInit
    <2>2. LookupProofs!Init
      BY <2>1 DEF Metadata!Init, LookupProofs!Init, Metadata!Idle, LookupProofs!Idle
    <2> QED
      BY <1>1, <2>2, LookupProofs!AllowanceInit
  <1>3. Inv /\ [SuiteNext]_all => Inv'
    <2> SUFFICES ASSUME Inv, [SuiteNext]_all, focus' = "lookups"
                 PROVE  LookupProofs!AllowanceInv'
      OBVIOUS
    <2>1. UNCHANGED focus
      BY DEF SuiteNext, all
    <2>2. LookupProofs!AllowanceInv
      BY <2>1
    <2>3. [LookupProofs!Next]_(LookupProofs!vars)
      <3>1. CASE UNCHANGED all
        BY <3>1 DEF all, vars, durable, inputs, LookupProofs!vars, LookupProofs!budget
      <3>2. CASE SuiteNext
        <4>1. Metadata!Next
          BY <2>1, <3>2 DEF SuiteNext
        <4> QED
          BY <4>1 DEF Metadata!Cardinality, LookupProofs!Cardinality,
             Metadata!IsFiniteSet, LookupProofs!IsFiniteSet,
              Metadata!budget, Metadata!Idle, Metadata!Waiting, Metadata!Row,
              Metadata!Open, Metadata!Submit, Metadata!Cancel, Metadata!Drop,
              Metadata!LeaseOver, Metadata!Ready, Metadata!Claim, Metadata!Leased,
              Metadata!Ended, Metadata!Reserve, Metadata!Send, Metadata!Resolve,
              Metadata!LookupFails, Metadata!Finish, Metadata!WorkStep,
              Metadata!NewDay, Metadata!Worked, Metadata!LeaseExpires,
              Metadata!FallsDue, Metadata!Crash, Metadata!Next, LookupProofs!budget,
              LookupProofs!Idle, LookupProofs!Waiting, LookupProofs!Row,
              LookupProofs!Open, LookupProofs!Submit, LookupProofs!Cancel,
              LookupProofs!Drop, LookupProofs!LeaseOver, LookupProofs!Ready,
              LookupProofs!Claim, LookupProofs!Leased, LookupProofs!Ended,
              LookupProofs!Reserve, LookupProofs!Send, LookupProofs!Resolve,
              LookupProofs!LookupFails, LookupProofs!Finish, LookupProofs!WorkStep,
              LookupProofs!NewDay, LookupProofs!Worked, LookupProofs!LeaseExpires,
              LookupProofs!FallsDue, LookupProofs!Crash, LookupProofs!Next
      <3> QED
        BY <3>1, <3>2
    <2> QED
      BY <1>1, <2>2, <2>3, LookupProofs!AllowanceStep
  <1>4. Inv => AllowanceKept
    <2> SUFFICES ASSUME Inv, focus = "lookups"
                 PROVE  Metadata!AllowanceKept
      BY DEF AllowanceKept
    <2>1. LookupProofs!AllowanceInv
      OBVIOUS
    <2>2. LookupProofs!AllowanceKept
      BY <1>1, <2>1, LookupProofs!InvKeepsAllowance
    <2> QED
      BY <2>2 DEF Metadata!AllowanceKept, LookupProofs!AllowanceKept
  <1> QED
    BY <1>2, <1>3, <1>4, PTL DEF SuiteSpec

-----------------------------------------------------------------------------
(* Bootstrap sessions of the catalogue.  In the suite `state`, `results` and  *)
(* `builder` are the streams' state, generations and jobs.                    *)

CatalogState == state["catalog"]
CatalogRows == results["catalog"]

StateIsRecord(s) ==
    s = [gen |-> s.gen, epoch |-> s.epoch, head |-> s.head, floor |-> s.floor, schema |-> s.schema]

SessionIsRecord(c) ==
    c = [phase |-> c.phase, stream |-> c.stream, pin |-> c.pin, epoch |-> c.epoch, seq |-> c.seq,
         next |-> c.next, copy |-> c.copy, torn |-> c.torn]
FollowerIsRecord(c) ==
    c = [phase |-> c.phase, stream |-> c.stream, epoch |-> c.epoch, seq |-> c.seq,
         copy |-> c.copy, torn |-> c.torn]
ReaderIsRecord(c) ==
    /\ c.phase = "paging" => SessionIsRecord(c)
    /\ c.phase = "following" => FollowerIsRecord(c)

\* The published generation is stored, and what a refresh has yet to prune for is
\* not newer.
GenerationsInv ==
    /\ state = [s \in Streams!Streams |-> state[s]] /\ results = [s \in Streams!Streams |-> results[s]]
    /\ DOMAIN builder = Procs /\ DOMAIN reader = Clients
    /\ StateIsRecord(CatalogState) /\ CatalogState.gen \in Nat
    /\ CatalogState.gen > 0 => CatalogState.gen \in DOMAIN CatalogRows
    /\ \A p \in Procs : builder[p].kind = "finished" /\ "gen" \in DOMAIN builder[p] =>
                          builder[p].gen \in Nat /\ builder[p].gen <= CatalogState.gen
    /\ \A r \in Clients : ReaderIsRecord(reader[r])
LeasesInv == GenerationsInv /\ Streams!LeasesKeepCatalogue

LEMMA LeasesInit == ASSUME Streams!Init PROVE LeasesInv
<1>1. "catalog" \in Streams!Streams /\ "analysis" \in Streams!Streams
  BY DEF Streams!Streams
<1>2. CatalogState = [gen |-> 0, epoch |-> 0, head |-> 0, floor |-> 0, schema |-> "current"]
  BY <1>1 DEF Streams!Init, Streams!NoGenerations, CatalogState
<1>3. \A p \in Procs : builder[p].kind = "idle"
  BY DEF Streams!Init, Streams!Idle
<1>4. \A r \in Clients : reader[r].phase = "away"
  BY DEF Streams!Init, Streams!Away
<1>5. Streams!LeasesKeepCatalogue
  BY <1>4 DEF Streams!LeasesKeepCatalogue, Streams!LeasedRowsStay
<1>6. GenerationsInv
  BY <1>2, <1>3, <1>4 DEF GenerationsInv, Streams!Init, StateIsRecord, ReaderIsRecord
<1> QED
  BY <1>5, <1>6 DEF LeasesInv

\* A step of a refresh or a projection that stores and deletes nothing.
LEMMA JobsStep ==
  ASSUME LeasesInv, NEW p \in Procs, NEW b, builder' = [builder EXCEPT ![p] = b],
         b.kind = "finished" /\ "gen" \in DOMAIN b => b.gen \in Nat /\ b.gen <= CatalogState.gen,
         UNCHANGED <<state, results, reader>>
  PROVE  LeasesInv'
<1>1. builder'[p] = b /\ \A q \in Procs \ {p} : builder'[q] = builder[q]
  BY DEF LeasesInv, GenerationsInv
<1>2. GenerationsInv'
  BY <1>1 DEF LeasesInv, GenerationsInv, CatalogState, CatalogRows, StateIsRecord
<1>3. Streams!LeasesKeepCatalogue'
  BY DEF LeasesInv, Streams!LeasesKeepCatalogue, Streams!LeasedRowsStay
<1> QED
  BY <1>2, <1>3 DEF LeasesInv

\* A prune for a generation that is not newer than the published one.
LEMMA PruneKeeps ==
  ASSUME LeasesInv, NEW g \in Nat, g <= CatalogState.gen,
         CatalogRows' = Streams!Pruned("catalog", CatalogRows, g), UNCHANGED reader,
         results' = [s \in Streams!Streams |-> results'[s]]
  PROVE  /\ CatalogState.gen > 0 => CatalogState.gen \in DOMAIN CatalogRows'
         /\ Streams!LeasesKeepCatalogue'
<1>1. DOMAIN CatalogRows' = {k \in DOMAIN CatalogRows : k >= g \/ Streams!Pins("catalog", k)}
  BY DEF Streams!Pruned
<1>2. CatalogState.gen > 0 => CatalogState.gen \in DOMAIN CatalogRows'
  BY <1>1 DEF LeasesInv, GenerationsInv
<1>3. ASSUME NEW r \in Clients, reader[r].phase = "paging", reader[r].stream = "catalog"
      PROVE  reader[r].pin \in DOMAIN CatalogRows'
  <2>1. reader[r].pin \in DOMAIN CatalogRows
    BY <1>3 DEF LeasesInv, Streams!LeasesKeepCatalogue, Streams!LeasedRowsStay, CatalogRows
  <2>2. Streams!Pins("catalog", reader[r].pin)
    BY <1>3 DEF Streams!Pins
  <2> QED
    BY <1>1, <2>1, <2>2
<1> QED
  BY <1>2, <1>3 DEF Streams!LeasesKeepCatalogue, Streams!LeasedRowsStay, CatalogRows

LEMMA LeasesPublish ==
  ASSUME LeasesInv, NEW p \in Procs, Streams!Publish(p)
  PROVE  LeasesInv'
<1> DEFINE base == builder[p].base
           events == IF Streams!Rebased(base) THEN <<>> ELSE Streams!Diff(builder[p].old, builder[p].scan)
<1>1. PICK new : new = Streams!NewState(base, events)
  OBVIOUS
<1>2. PICK published : published = Streams!Compacted(new)
  OBVIOUS
<1>3. PICK started, scan : started = builder[p].started /\ scan = builder[p].scan
  OBVIOUS
<1>4. /\ state' = [state EXCEPT !["catalog"] = published]
      /\ results' = [results EXCEPT !["catalog"] = [g \in DOMAIN @ \cup {published.gen} |->
                        IF g = published.gen THEN builder[p].scan ELSE @[g]]]
      /\ \A r \in Clients : reader'[r] = reader[r] \/ reader'[r] = Streams!Away
      /\ DOMAIN reader' = Clients
      /\ builder' = [builder EXCEPT ![p] = [kind |-> "finished", started |-> started, ok |-> TRUE,
                                            gen |-> published.gen]]
      /\ ~Streams!Moved(p)
  BY <1>1, <1>2, <1>3 DEF Streams!Publish, Streams!Inserted
<1>5. base.gen = CatalogState.gen /\ CatalogState.gen \in Nat /\ StateIsRecord(CatalogState)
  BY <1>4 DEF Streams!Moved, CatalogState, LeasesInv, GenerationsInv
<1>6. new.gen = CatalogState.gen + 1 /\ StateIsRecord(new)
  BY <1>1, <1>5 DEF Streams!NewState, CatalogState, StateIsRecord
<1>7. published.gen = CatalogState.gen + 1 /\ StateIsRecord(published)
  BY <1>2, <1>6 DEF Streams!Compacted, StateIsRecord
<1>8. /\ CatalogState' = published
      /\ DOMAIN CatalogRows' = DOMAIN CatalogRows \cup {published.gen}
      /\ state' = [s \in Streams!Streams |-> state'[s]]
      /\ results' = [s \in Streams!Streams |-> results'[s]]
  BY <1>4 DEF LeasesInv, GenerationsInv, CatalogState, CatalogRows, Streams!Streams
<1>9. /\ DOMAIN builder' = Procs /\ \A q \in Procs \ {p} : builder'[q] = builder[q]
      /\ builder'[p].gen = published.gen
  BY <1>4 DEF LeasesInv, GenerationsInv
<1>10. \A q \in Procs : builder'[q].kind = "finished" /\ "gen" \in DOMAIN builder'[q] =>
                          builder'[q].gen \in Nat /\ builder'[q].gen <= published.gen
  BY <1>5, <1>7, <1>9 DEF LeasesInv, GenerationsInv
<1>11. GenerationsInv'
  <2>1. Streams!Away.phase = "away"
    BY DEF Streams!Away
  <2>2. \A r \in Clients : ReaderIsRecord(reader'[r])
    BY <1>4, <2>1 DEF LeasesInv, GenerationsInv, ReaderIsRecord
  <2> QED
    BY <1>4, <1>5, <1>7, <1>8, <1>9, <1>10, <2>2 DEF GenerationsInv
<1>12. Streams!LeasesKeepCatalogue'
  <2>1. \A r \in Clients : reader'[r].phase = "paging" => reader'[r] = reader[r]
    BY <1>4 DEF Streams!Away
  <2> QED
    BY <1>8, <2>1 DEF LeasesInv, Streams!LeasesKeepCatalogue, Streams!LeasedRowsStay, CatalogRows
<1> QED
  BY <1>11, <1>12 DEF LeasesInv

\* The schema of the catalogue changes, and a refresh may end.
LEMMA SchemaStep ==
  ASSUME LeasesInv, NEW schema, state' = [state EXCEPT !["catalog"].schema = schema],
         DOMAIN builder' = Procs,
         \A p \in Procs : builder'[p].kind = "finished" /\ "gen" \in DOMAIN builder'[p] =>
                             builder'[p] = builder[p],
         UNCHANGED <<results, reader>>
  PROVE  LeasesInv'
<1>1. PICK old : old = CatalogState
  OBVIOUS
<1>2. PICK new : new = [old EXCEPT !.schema = schema]
  OBVIOUS
<1>3. StateIsRecord(new) /\ new.gen = CatalogState.gen
  BY <1>1, <1>2 DEF LeasesInv, GenerationsInv, StateIsRecord
<1>4. CatalogState' = new /\ state' = [s \in Streams!Streams |-> state'[s]]
  BY <1>1, <1>2 DEF LeasesInv, GenerationsInv, CatalogState, Streams!Streams
<1>5. GenerationsInv'
  BY <1>3, <1>4 DEF LeasesInv, GenerationsInv, CatalogRows
<1>6. Streams!LeasesKeepCatalogue'
  BY DEF LeasesInv, Streams!LeasesKeepCatalogue, Streams!LeasedRowsStay
<1> QED
  BY <1>5, <1>6 DEF LeasesInv

LEMMA LeasesRefresh ==
  ASSUME LeasesInv, NEW p \in Procs, Streams!RefreshStep(p)
  PROVE  LeasesInv'
<1>1. ASSUME Streams!Start(p) PROVE LeasesInv'
  <2>1. PICK b : b = [kind |-> "refresh", step |-> "started", started |-> claims]
    OBVIOUS
  <2>2. b.kind # "finished"
    BY <2>1
  <2> QED
    BY <1>1, <2>1, <2>2, JobsStep DEF Streams!Start, Streams!tables
<1>2. ASSUME Streams!Fetch(p) PROVE LeasesInv'
  <2>1. PICK b : b = [kind |-> "refresh", step |-> "fetched", started |-> builder[p].started, scan |-> live]
    OBVIOUS
  <2>2. b.kind # "finished"
    BY <2>1
  <2> QED
    BY <1>2, <2>1, <2>2, JobsStep DEF Streams!Fetch, Streams!tables
<1>3. ASSUME Streams!Build(p) PROVE LeasesInv'
  <2>1. PICK b : b = [kind |-> "refresh", step |-> "built", started |-> builder[p].started,
                      scan |-> builder[p].scan, base |-> state["catalog"],
                      old |-> Streams!Published("catalog")]
    OBVIOUS
  <2>2. b.kind # "finished"
    BY <2>1
  <2> QED
    BY <1>3, <2>1, <2>2, JobsStep DEF Streams!Build, Streams!tables
<1>4. ASSUME Streams!ConfirmUnchanged(p) PROVE LeasesInv'
  <2>1. PICK b : b = [kind |-> "finished", started |-> builder[p].started, ok |-> TRUE]
    OBVIOUS
  <2>2. "gen" \notin DOMAIN b
    BY <2>1
  <2>3. /\ builder' = [builder EXCEPT ![p] = b] /\ state' = [state EXCEPT !["catalog"].schema = "current"]
        /\ UNCHANGED <<results, reader>>
    BY <1>4, <2>1 DEF Streams!ConfirmUnchanged
  <2>4. DOMAIN builder' = Procs /\ builder'[p] = b /\ \A q \in Procs \ {p} : builder'[q] = builder[q]
    BY <2>3 DEF LeasesInv, GenerationsInv
  <2> QED
    BY <2>2, <2>3, <2>4, SchemaStep
<1>5. ASSUME Streams!FailRefresh(p) PROVE LeasesInv'
  <2>1. PICK b : b = [kind |-> "finished", started |-> builder[p].started, ok |-> FALSE]
    OBVIOUS
  <2>2. "gen" \notin DOMAIN b
    BY <2>1
  <2> QED
    BY <1>5, <2>1, <2>2, JobsStep DEF Streams!FailRefresh, Streams!tables
<1>6. ASSUME Streams!AfterPublication(p) PROVE LeasesInv'
  <2>1. PICK b : b = [kind |-> "finished", started |-> builder[p].started, ok |-> TRUE]
    OBVIOUS
  <2>2. "gen" \notin DOMAIN b
    BY <2>1
  <2>3. /\ builder[p].gen \in Nat /\ builder[p].gen <= CatalogState.gen
        /\ results' = [results EXCEPT !["catalog"] = Streams!Pruned("catalog", @, builder[p].gen)]
        /\ builder' = [builder EXCEPT ![p] = b] /\ UNCHANGED <<state, reader>>
    BY <1>6, <2>1 DEF Streams!AfterPublication, LeasesInv, GenerationsInv
  <2>4. /\ CatalogRows' = Streams!Pruned("catalog", CatalogRows, builder[p].gen)
        /\ results' = [s \in Streams!Streams |-> results'[s]]
    BY <2>3 DEF LeasesInv, GenerationsInv, CatalogRows, Streams!Streams
  <2>5. /\ CatalogState.gen > 0 => CatalogState.gen \in DOMAIN CatalogRows'
        /\ Streams!LeasesKeepCatalogue'
    BY <2>3, <2>4, PruneKeeps
  <2>6. DOMAIN builder' = Procs /\ builder'[p] = b /\ \A q \in Procs \ {p} : builder'[q] = builder[q]
    BY <2>3 DEF LeasesInv, GenerationsInv
  <2>7. CatalogState' = CatalogState /\ state' = state /\ reader' = reader
    BY <2>3 DEF CatalogState
  <2>8. GenerationsInv'
    BY <2>2, <2>4, <2>5, <2>6, <2>7 DEF LeasesInv, GenerationsInv
  <2> QED
    BY <2>5, <2>8 DEF LeasesInv
<1>7. ASSUME Streams!Satisfy(p) PROVE LeasesInv'
  <2>1. Streams!Idle.kind # "finished"
    BY DEF Streams!Idle
  <2> QED
    BY <1>7, <2>1, JobsStep DEF Streams!Satisfy, Streams!tables
<1> QED
  BY <1>1, <1>2, <1>3, <1>4, <1>5, <1>6, <1>7, LeasesPublish DEF Streams!RefreshStep

LEMMA LeasesProject ==
  ASSUME LeasesInv, NEW p \in Procs, Streams!ProjectStep(p)
  PROVE  LeasesInv'
<1>0. Streams!Idle.kind # "finished"
  BY DEF Streams!Idle
<1>1. ASSUME NEW b, builder' = [builder EXCEPT ![p] = b], b.kind = "project" \/ b = Streams!Idle,
             UNCHANGED <<state, results, reader>>
      PROVE  LeasesInv'
  BY <1>0, <1>1, JobsStep
<1>2. ASSUME Streams!ChooseGeneration(p) PROVE LeasesInv'
  <2>1. PICK b : b = [kind |-> "project", step |-> "chosen", of |-> state["catalog"].gen]
    OBVIOUS
  <2>2. b.kind = "project"
    BY <2>1
  <2> QED
    BY <1>1, <1>2, <2>1, <2>2 DEF Streams!ChooseGeneration, Streams!tables
<1>3. ASSUME Streams!ReadTracks(p) PROVE LeasesInv'
  <2>1. PICK b : b = [kind |-> "project", step |-> "read",
                      links |-> Streams!Links(Streams!Stored("catalog", builder[p].of))]
    OBVIOUS
  <2>2. b.kind = "project"
    BY <2>1
  <2> QED
    BY <1>1, <1>3, <2>1, <2>2 DEF Streams!ReadTracks, Streams!tables
<1>4. ASSUME Streams!WriteProjection(p) PROVE LeasesInv'
  <2>1. PICK next, rows, log : builder' = [builder EXCEPT ![p] =
          IF state["analysis"].gen > 0 /\ Streams!Diff(Streams!Published("analysis"), builder[p].links) = <<>>
          THEN Streams!Idle
          ELSE [kind |-> "project", step |-> "written", state |-> next, rows |-> rows, journal |-> log]]
    BY <1>4 DEF Streams!WriteProjection
  <2>2. PICK written : written = [kind |-> "project", step |-> "written", state |-> next,
                                  rows |-> rows, journal |-> log]
    OBVIOUS
  <2>3. written.kind = "project"
    BY <2>2
  <2>4. PICK b : b = IF state["analysis"].gen > 0
                        /\ Streams!Diff(Streams!Published("analysis"), builder[p].links) = <<>>
                     THEN Streams!Idle ELSE written
    OBVIOUS
  <2>5. builder' = [builder EXCEPT ![p] = b]
    BY <2>1, <2>2, <2>4
  <2>6. UNCHANGED <<state, results, reader>>
    BY <1>4 DEF Streams!WriteProjection, Streams!tables
  <2>7. b.kind = "project" \/ b = Streams!Idle
    BY <2>3, <2>4
  <2> QED
    BY <1>1, <2>5, <2>6, <2>7
<1>5. ASSUME Streams!CommitProjection(p) PROVE LeasesInv'
  <2>1. /\ state' = [state EXCEPT !["analysis"] = builder[p].state]
        /\ results' = [results EXCEPT !["analysis"] = builder[p].rows]
        /\ builder' = [builder EXCEPT ![p] = Streams!Idle] /\ reader' = reader
    BY <1>5 DEF Streams!CommitProjection
  <2>2. /\ CatalogState' = CatalogState /\ CatalogRows' = CatalogRows
        /\ state' = [s \in Streams!Streams |-> state'[s]]
        /\ results' = [s \in Streams!Streams |-> results'[s]]
    BY <2>1 DEF LeasesInv, GenerationsInv, CatalogState, CatalogRows, Streams!Streams
  <2>3. /\ DOMAIN builder' = Procs /\ builder'[p] = Streams!Idle
        /\ \A q \in Procs \ {p} : builder'[q] = builder[q]
    BY <2>1 DEF LeasesInv, GenerationsInv
  <2>4. GenerationsInv'
    BY <1>0, <2>1, <2>2, <2>3 DEF LeasesInv, GenerationsInv
  <2>5. Streams!LeasesKeepCatalogue'
    BY <2>1, <2>2 DEF LeasesInv, Streams!LeasesKeepCatalogue, Streams!LeasedRowsStay, CatalogRows
  <2> QED
    BY <2>4, <2>5 DEF LeasesInv
<1>6. ASSUME Streams!AbandonProjection(p) PROVE LeasesInv'
  BY <1>1, <1>6 DEF Streams!AbandonProjection, Streams!tables
<1> QED
  BY <1>2, <1>3, <1>4, <1>5, <1>6 DEF Streams!ProjectStep

LEMMA LeasesMaintain ==
  ASSUME LeasesInv, Streams!PruneStorage \/ Streams!Upgrade
  PROVE  LeasesInv'
<1>1. ASSUME Streams!Upgrade PROVE LeasesInv'
  <2>1. state' = [state EXCEPT !["catalog"].schema = "old"] /\ UNCHANGED <<results, builder, reader>>
    BY <1>1 DEF Streams!Upgrade
  <2> QED
    BY <2>1, SchemaStep DEF LeasesInv, GenerationsInv
<1>2. ASSUME Streams!PruneStorage PROVE LeasesInv'
  <2>1. /\ results' = [s \in Streams!Streams |-> Streams!Pruned(s, results[s], state[s].gen)]
        /\ state' = [s \in Streams!Streams |-> Streams!Compacted(state[s])]
        /\ UNCHANGED <<builder, reader>>
    BY <1>2 DEF Streams!PruneStorage
  <2>2. /\ CatalogRows' = Streams!Pruned("catalog", CatalogRows, CatalogState.gen)
        /\ CatalogState' = Streams!Compacted(CatalogState)
        /\ state' = [s \in Streams!Streams |-> state'[s]]
        /\ results' = [s \in Streams!Streams |-> results'[s]]
    BY <2>1 DEF CatalogState, CatalogRows, Streams!Streams
  <2>3. PICK old : old = CatalogState
    OBVIOUS
  <2>4. StateIsRecord(old) /\ old.gen \in Nat
    BY <2>3 DEF LeasesInv, GenerationsInv
  <2>5. Streams!Compacted(old).gen = old.gen /\ StateIsRecord(Streams!Compacted(old))
    BY <2>4 DEF Streams!Compacted, StateIsRecord
  <2>6. CatalogState'.gen = CatalogState.gen /\ StateIsRecord(CatalogState')
    BY <2>2, <2>3, <2>5
  <2>7. /\ CatalogState.gen > 0 => CatalogState.gen \in DOMAIN CatalogRows'
        /\ Streams!LeasesKeepCatalogue'
    BY <2>1, <2>2, <2>3, <2>4, PruneKeeps
  <2>8. GenerationsInv'
    BY <2>1, <2>2, <2>3, <2>4, <2>6, <2>7 DEF LeasesInv, GenerationsInv
  <2> QED
    BY <2>7, <2>8 DEF LeasesInv
<1> QED
  BY <1>1, <1>2

LEMMA LeasesRead ==
  ASSUME LeasesInv, NEW r \in Clients, NEW s \in Streams!Streams, Streams!ReaderStep(r, s)
  PROVE  LeasesInv'
<1>1. UNCHANGED <<state, results, builder>>
  BY DEF Streams!ReaderStep, Streams!OpenSession, Streams!ReadPage, Streams!Leave,
     Streams!ReadChanges, Streams!tables
<1>2. ASSUME NEW c, reader' = [reader EXCEPT ![r] = c], ReaderIsRecord(c),
             c.phase = "paging" /\ c.stream = "catalog" => c.pin \in DOMAIN CatalogRows
      PROVE  LeasesInv'
  <2>1. DOMAIN reader' = Clients /\ reader'[r] = c /\ \A q \in Clients \ {r} : reader'[q] = reader[q]
    BY <1>2 DEF LeasesInv, GenerationsInv
  <2>2. Streams!LeasesKeepCatalogue'
    BY <1>1, <1>2, <2>1 DEF LeasesInv, Streams!LeasesKeepCatalogue, Streams!LeasedRowsStay, CatalogRows
  <2>3. GenerationsInv'
    BY <1>1, <1>2, <2>1 DEF LeasesInv, GenerationsInv, CatalogState, CatalogRows
  <2> QED
    BY <2>2, <2>3 DEF LeasesInv
<1>3. Streams!Away.phase = "away"
  BY DEF Streams!Away
<1>4. ASSUME Streams!OpenSession(r, s) PROVE LeasesInv'
  <2>1. PICK c : c = [phase |-> "paging", stream |-> s, pin |-> state[s].gen, epoch |-> state[s].epoch,
                      seq |-> state[s].head, next |-> 1, copy |-> Streams!Blank, torn |-> FALSE]
    OBVIOUS
  <2>2. reader' = [reader EXCEPT ![r] = c] /\ state[s].gen > 0
    BY <1>4, <2>1 DEF Streams!OpenSession
  <2>3. c.phase = "paging" /\ c.stream = s /\ c.pin = state[s].gen /\ SessionIsRecord(c)
    BY <2>1 DEF SessionIsRecord
  <2>4. c.stream = "catalog" => c.pin \in DOMAIN CatalogRows
    BY <2>2, <2>3 DEF LeasesInv, GenerationsInv, CatalogState
  <2> QED
    BY <1>2, <2>2, <2>3, <2>4 DEF ReaderIsRecord
<1>5. ASSUME Streams!ReadPage(r) PROVE LeasesInv'
  <2>1. PICK old : old = reader[r]
    OBVIOUS
  <2>2. /\ old.phase = "paging" /\ SessionIsRecord(old)
        /\ old.stream = "catalog" => old.pin \in DOMAIN CatalogRows
    BY <1>5, <2>1 DEF Streams!ReadPage, LeasesInv, GenerationsInv, ReaderIsRecord,
       Streams!LeasesKeepCatalogue, Streams!LeasedRowsStay, CatalogRows
  <2>3. PICK copy, torn :
          \/ reader' = [reader EXCEPT ![r] =
                          [old EXCEPT !.next = old.next + 1, !.copy = copy, !.torn = torn]]
          \/ reader' = [reader EXCEPT ![r] = [phase |-> "following", stream |-> old.stream,
                          epoch |-> old.epoch, seq |-> old.seq, copy |-> copy, torn |-> torn]]
    BY <1>5, <2>1 DEF Streams!ReadPage
  <2>4. CASE reader' = [reader EXCEPT ![r] =
                          [old EXCEPT !.next = old.next + 1, !.copy = copy, !.torn = torn]]
    <3>1. PICK c : c = [old EXCEPT !.next = old.next + 1, !.copy = copy, !.torn = torn]
      OBVIOUS
    <3>2. c.phase = "paging" /\ c.stream = old.stream /\ c.pin = old.pin /\ SessionIsRecord(c)
      BY <2>2, <3>1 DEF SessionIsRecord
    <3> QED
      BY <1>2, <2>2, <2>4, <3>1, <3>2 DEF ReaderIsRecord
  <2>5. CASE reader' = [reader EXCEPT ![r] = [phase |-> "following", stream |-> old.stream,
                          epoch |-> old.epoch, seq |-> old.seq, copy |-> copy, torn |-> torn]]
    <3>1. PICK c : c = [phase |-> "following", stream |-> old.stream, epoch |-> old.epoch,
                        seq |-> old.seq, copy |-> copy, torn |-> torn]
      OBVIOUS
    <3>2. c.phase = "following" /\ FollowerIsRecord(c)
      BY <3>1 DEF FollowerIsRecord
    <3> QED
      BY <1>2, <2>5, <3>1, <3>2 DEF ReaderIsRecord
  <2> QED
    BY <2>3, <2>4, <2>5
<1>6. ASSUME Streams!Leave(r) PROVE LeasesInv'
  BY <1>2, <1>3, <1>6 DEF Streams!Leave, ReaderIsRecord
<1>7. ASSUME Streams!ReadChanges(r) PROVE LeasesInv'
  <2>1. PICK old : old = reader[r]
    OBVIOUS
  <2>2. old.phase = "following" /\ FollowerIsRecord(old)
    BY <1>7, <2>1 DEF Streams!ReadChanges, LeasesInv, GenerationsInv, ReaderIsRecord
  <2>3. PICK c : c = IF Streams!Continues(old) THEN Streams!Followed(old) ELSE Streams!Away
    OBVIOUS
  <2>4. reader' = [reader EXCEPT ![r] = c]
    BY <1>7, <2>1, <2>3 DEF Streams!ReadChanges
  <2>5. ASSUME NEW seq, NEW epoch, NEW copy,
               c = [old EXCEPT !.seq = seq, !.epoch = epoch, !.copy = copy]
        PROVE  c.phase = "following" /\ FollowerIsRecord(c)
    BY <2>2, <2>5 DEF FollowerIsRecord
  <2>6. c = Streams!Away \/ (c.phase = "following" /\ FollowerIsRecord(c))
    BY <2>3, <2>5 DEF Streams!Followed
  <2> QED
    BY <1>2, <1>3, <2>4, <2>6 DEF ReaderIsRecord
<1> QED
  BY <1>4, <1>5, <1>6, <1>7 DEF Streams!ReaderStep

\* The steps of the suite, and of the component.
LEMMA LeasesStep ==
  ASSUME LeasesInv, Streams!Next \/ UNCHANGED <<state, results, builder, reader>>
  PROVE  LeasesInv'
<1>1. ASSUME UNCHANGED <<state, results, builder, reader>> PROVE LeasesInv'
  BY <1>1 DEF LeasesInv, GenerationsInv, CatalogState, CatalogRows, Streams!LeasesKeepCatalogue,
     Streams!LeasedRowsStay
<1>2. ASSUME Streams!Want \/ Streams!LibraryChanges \/ Streams!MappingChanges PROVE LeasesInv'
  BY <1>1, <1>2 DEF Streams!Want, Streams!LibraryChanges, Streams!MappingChanges, Streams!tables
<1> QED
  BY <1>1, <1>2, LeasesRefresh, LeasesProject, LeasesMaintain, LeasesRead DEF Streams!Next

(* While a session of the catalogue is open its generation is stored, however  *)
(* many refreshes publish, prune or fail meanwhile (catalog.py:                *)
(* prune_snapshot_generations, bootstrap leases).                              *)
THEOREM SessionsKeepTheirRows == SuiteSpec => []LeasesKeepCatalogue
<1> DEFINE Inv == InStreams => LeasesInv
<1>1. SuiteInit => Inv
  BY LeasesInit DEF SuiteInit, InStreams
<1>2. Inv /\ [SuiteNext]_all => Inv'
  <2> SUFFICES ASSUME Inv, [SuiteNext]_all, InStreams
               PROVE  InStreams' => LeasesInv'
    BY DEF SuiteNext, all, InStreams
  <2>1. "catalog" \in Streams!Streams /\ "analysis" \in Streams!Streams
    BY DEF Streams!Streams
  <2>2. CASE UNCHANGED all
    BY <2>2, LeasesStep DEF all, vars, durable, inputs
  <2>3. CASE SuiteNext
    <3>1. Catalogue \/ Analysis
      BY <2>3 DEF SuiteNext, InStreams
    <3>2. Streams!Next
      BY <2>1, <3>1, BuildersAssumption DEF Catalogue, Analysis, Streams!Next
    <3> QED
      BY <3>2, LeasesStep
  <2> QED
    BY <2>2, <2>3
<1>3. Inv => LeasesKeepCatalogue
  BY DEF LeasesInv, LeasesKeepCatalogue
<1> QED
  BY <1>1, <1>2, <1>3, PTL DEF SuiteSpec

-----------------------------------------------------------------------------
(* Events in the order of a key, one for each of a finite set: the i-th is    *)
(* about the element that i elements do not follow.                          *)

Rank(S, key, x) == Cardinality({y \in S : key[y] <= key[x]})

LEMMA Ranked ==
  ASSUME NEW S, IsFiniteSet(S), NEW key \in [S -> Nat],
         \A x, y \in S : key[x] = key[y] => x = y
  PROVE  /\ Cardinality(S) \in Nat
         /\ \A x \in S : Rank(S, key, x) \in 1..Cardinality(S)
         /\ \A x, y \in S : Rank(S, key, x) = Rank(S, key, y) => x = y
         /\ \A i \in 1..Cardinality(S) : \E x \in S : Rank(S, key, x) = i
<1> DEFINE upto(x) == {y \in S : key[y] <= key[x]}
           n == Cardinality(S)
           rank == [x \in S |-> Cardinality(upto(x))]
<1>1. n \in Nat
  BY FS_CardinalityType
<1>2. ASSUME NEW x \in S PROVE IsFiniteSet(upto(x)) /\ rank[x] \in 1..n
  <2>1. upto(x) \in SUBSET S /\ x \in upto(x)
    OBVIOUS
  <2>2. IsFiniteSet(upto(x)) /\ Cardinality(upto(x)) \in Nat /\ Cardinality(upto(x)) <= n
    BY <2>1, FS_Subset, FS_CardinalityType
  <2>3. Cardinality(upto(x)) # 0
    BY <2>1, <2>2, FS_EmptySet
  <2> HIDE DEF upto, n
  <2> QED
    BY <1>1, <2>2, <2>3
<1>3. ASSUME NEW x \in S, NEW y \in S, rank[x] = rank[y] PROVE x = y
  <2>1. ASSUME NEW u \in S, NEW v \in S, key[u] < key[v], rank[u] = rank[v] PROVE FALSE
    <3>1. upto(u) \in SUBSET upto(v)
      BY <2>1
    <3>2. v \in upto(v) /\ v \notin upto(u)
      BY <2>1
    <3> QED
      BY <1>2, <2>1, <3>1, <3>2, FS_Subset
  <2>2. key[x] \in Nat /\ key[y] \in Nat
    OBVIOUS
  <2> HIDE DEF rank
  <2>3. key[x] < key[y] \/ key[y] < key[x] \/ key[x] = key[y]
    BY <2>2
  <2> QED
    BY <1>3, <2>1, <2>3
<1>4. rank \in Injection(S, 1..n)
  <2>1. rank \in [S -> 1..n]
    BY <1>2
  <2> HIDE DEF rank
  <2> QED
    BY <1>3, <2>1 DEF Injection, IsInjective
<1>5. IsFiniteSet(1..n) /\ Cardinality(1..n) = n
  BY <1>1, FS_Interval
<1>6. rank \in Surjection(S, 1..n)
  BY <1>4, <1>5, FS_Injection
<1>7. \A i \in 1..n : \E x \in S : rank[x] = i
  <2> HIDE DEF rank
  <2> QED
    BY <1>6 DEF Surjection
<1>8. \A x \in S : rank[x] = Rank(S, key, x)
  BY DEF Rank
<1> HIDE DEF rank
<1> QED
  BY <1>1, <1>2, <1>3, <1>7, <1>8 DEF n

-----------------------------------------------------------------------------
(* The client of the relationships.                                          *)

Contents == [has : SUBSET Entities, digest : Nat]
Events == [entity : Entities, value : {None} \cup Contents]

\* What a client may hold, and what may be published.
Copy(held) ==
    /\ DOMAIN held \subseteq Entities /\ held = [e \in DOMAIN held |-> held[e]]
    /\ \A e \in DOMAIN held : held[e] \in Contents

\* No event after number n is about e.
Silent(n, e) == \A i \in n + 1..Len(journal) : journal[i].entity # e

\* The last event about an entity says what is published of it.
JournalTells ==
    \A i \in 1..Len(journal) :
      Silent(i, journal[i].entity) => journal[i].value = Value(results, journal[i].entity)

\* A copy made of the events up to number n: right where no event is missing.
FollowsFrom(held, n) == \A e \in Entities : Silent(n, e) => Value(held, e) = Value(results, e)

UpTo(after) == [e \in {f \in DOMAIN results : f <= after} |-> results[e]]

\* While the generation a client pages through stands, it holds a part of it.
PagesThrough ==
    /\ reader.gen \in Nat /\ reader.gen <= state.gen /\ reader.after \in Nat
    /\ reader.gen = state.gen => reader.head = Len(journal) /\ reader.held = UpTo(reader.after)
RelReaderOK ==
    \/ reader = Away
    \/ /\ reader.at = "paging" /\ PagesThrough
       /\ reader = [at |-> "paging", gen |-> reader.gen, head |-> reader.head,
                    after |-> reader.after, held |-> reader.held]
    \/ /\ reader.at = "checking" /\ PagesThrough /\ reader.more \in BOOLEAN
       /\ reader = [at |-> "checking", gen |-> reader.gen, head |-> reader.head, more |-> reader.more,
                    after |-> reader.after, held |-> reader.held]
       /\ reader.gen = state.gen /\ ~reader.more => reader.held = results
    \/ /\ reader.at = "following" /\ reader.cursor \in 0..Len(journal)
       /\ reader = [at |-> "following", cursor |-> reader.cursor, held |-> reader.held]
       /\ Copy(reader.held) /\ FollowsFrom(reader.held, reader.cursor)

RelInv == Copy(results) /\ journal \in Seq(Events) /\ JournalTells /\ RelReaderOK

LEMMA GreatestOf ==
  ASSUME NEW S \in SUBSET Nat, S # {}, NEW b \in Nat, \A x \in S : x <= b
  PROVE  Max(S) \in S /\ \A n \in S : n <= Max(S)
<1>1. PICK m \in S : \A n \in S : n <= m
  BY NaturalsHaveGreatest
<1>2. \E x \in S : \A y \in S : x >= y
  BY <1>1
<1> QED
  BY <1>2 DEF Max

LEMMA NoneIsNoContent == None \notin Contents
BY BuildBounds DEF Contents

LEMMA CopiesAgree ==
  ASSUME NEW g, NEW h, Copy(g), Copy(h), \A e \in Entities : Value(g, e) = Value(h, e)
  PROVE  g = h
<1>1. ASSUME NEW x, NEW y, Copy(x), Copy(y), \A e \in Entities : Value(x, e) = Value(y, e),
             NEW e \in DOMAIN x
      PROVE  e \in DOMAIN y /\ x[e] = y[e]
  <2>1. e \in Entities /\ Value(x, e) = x[e] /\ x[e] # None
    BY <1>1, NoneIsNoContent DEF Copy, Value
  <2> QED
    BY <1>1, <2>1 DEF Value
<1>2. DOMAIN g = DOMAIN h /\ \A e \in DOMAIN g : g[e] = h[e]
  BY <1>1
<1>3. g = [e \in DOMAIN g |-> g[e]] /\ h = [e \in DOMAIN h |-> h[e]]
  BY DEF Copy
<1> QED
  BY <1>2, <1>3

\* The last event about an entity, if there is one.
LEMMA LastAbout ==
  ASSUME NEW events \in Seq(Events), NEW e, About(events, e) # {}
  PROVE  /\ Max(About(events, e)) \in 1..Len(events)
         /\ events[Max(About(events, e))].entity = e
         /\ \A j \in Max(About(events, e)) + 1..Len(events) : events[j].entity # e
<1>1. Len(events) \in Nat /\ DOMAIN events = 1..Len(events)
  OBVIOUS
<1>2. About(events, e) \in SUBSET Nat /\ \A x \in About(events, e) : x <= Len(events)
  BY <1>1 DEF About
<1>3. PICK m : m = Max(About(events, e))
  OBVIOUS
<1>4. m \in About(events, e) /\ \A n \in About(events, e) : n <= m
  BY <1>1, <1>2, <1>3, GreatestOf
<1>5. m \in 1..Len(events) /\ events[m].entity = e
  BY <1>1, <1>4 DEF About
<1>6. ASSUME NEW j \in m + 1..Len(events), events[j].entity = e PROVE FALSE
  <2>1. j \in About(events, e)
    BY <1>1, <1>5, <1>6 DEF About
  <2> QED
    BY <1>4, <1>5, <2>1
<1> QED
  BY <1>3, <1>5, <1>6

\* A page of events is applied: the last of them about an entity decides.
LEMMA PageIsApplied ==
  ASSUME NEW held, Copy(held), NEW events \in Seq(Events)
  PROVE  LET new == Applied(held, events)
         IN  /\ Copy(new)
             /\ \A e \in Entities : About(events, e) = {} => Value(new, e) = Value(held, e)
             /\ \A e \in Entities : About(events, e) # {} =>
                  Value(new, e) = events[Max(About(events, e))].value
<1> DEFINE value(e) == IF About(events, e) = {} THEN Value(held, e) ELSE events[Max(About(events, e))].value
           new == [e \in {f \in Entities : value(f) # None} |-> value(e)]
<1>1. Applied(held, events) = new
  BY DEF Applied
<1>2. ASSUME NEW e \in Entities, value(e) # None PROVE value(e) \in Contents
  <2>1. CASE About(events, e) = {}
    BY <1>2, <2>1 DEF Copy, Value
  <2>2. CASE About(events, e) # {}
    <3>1. PICK m \in 1..Len(events) : m = Max(About(events, e))
      BY <2>2, LastAbout
    <3>2. events[m] \in Events
      OBVIOUS
    <3> QED
      BY <1>2, <2>2, <3>1, <3>2 DEF Events
  <2> QED
    BY <2>1, <2>2
<1> HIDE DEF value
<1>3. Copy(new)
  BY <1>2 DEF Copy
<1>4. \A e \in Entities : Value(new, e) = value(e)
  BY DEF Value
<1> QED
  BY <1>1, <1>3, <1>4 DEF value

\* What a publication adds to the journal: an event about each entity that differs.
LEMMA DeltaTells ==
  ASSUME NEW new, Copy(new)
  PROVE  /\ Delta(new) \in Seq(Events)
         /\ \A i \in 1..Len(Delta(new)) : Delta(new)[i].value = Value(new, Delta(new)[i].entity)
         /\ \A e \in Entities : Value(new, e) # Value(results, e) =>
              \E i \in 1..Len(Delta(new)) : Delta(new)[i].entity = e
<1> DEFINE S == Changed(new)
           key == [e \in S |-> e]
           n == Cardinality(S)
           at(i) == CHOOSE e \in S : RowNumber(new, e) = i
<1>1. S \in SUBSET Entities /\ IsFiniteSet(S)
  BY BuildBounds, FS_Subset DEF Changed
<1>2. key \in [S -> Nat] /\ \A x, y \in S : key[x] = key[y] => x = y
  BY <1>1, BuildBounds
<1>3. \A e \in S : RowNumber(new, e) = Rank(S, key, e)
  <2> SUFFICES ASSUME NEW e \in S PROVE RowNumber(new, e) = Rank(S, key, e)
    OBVIOUS
  <2>1. {f \in S : f <= e} = {f \in S : key[f] <= key[e]}
    OBVIOUS
  <2> QED
    BY <2>1 DEF RowNumber, Rank
<1> HIDE DEF S, key
<1>4. /\ n \in Nat /\ \A e \in S : RowNumber(new, e) \in 1..n
      /\ \A x, y \in S : RowNumber(new, x) = RowNumber(new, y) => x = y
      /\ \A i \in 1..n : \E e \in S : RowNumber(new, e) = i
  BY <1>1, <1>2, <1>3, Ranked
<1>5. Delta(new) = [i \in 1..n |-> [entity |-> at(i), value |-> Value(new, at(i))]]
  BY DEF Delta, S
<1>6. \A i \in 1..n : at(i) \in S /\ RowNumber(new, at(i)) = i
  BY <1>4
<1>7. \A e \in S : at(RowNumber(new, e)) = e
  BY <1>4, <1>6
<1> HIDE DEF at, n
<1>8. \A e \in Entities : Value(new, e) \in {None} \cup Contents
  BY DEF Copy, Value
<1>9. \A i \in 1..n : [entity |-> at(i), value |-> Value(new, at(i))] \in Events
  BY <1>1, <1>6, <1>8 DEF Events
<1>10. Delta(new) \in Seq(Events) /\ Len(Delta(new)) = n
  BY <1>4, <1>5, <1>9
<1>11. \A i \in 1..n : Delta(new)[i].entity = at(i) /\ Delta(new)[i].value = Value(new, at(i))
  BY <1>5
<1>12. ASSUME NEW e \in Entities, Value(new, e) # Value(results, e)
       PROVE  \E i \in 1..n : Delta(new)[i].entity = e
  <2>1. e \in S
    BY <1>12 DEF S, Changed
  <2> QED
    BY <1>4, <1>7, <1>11, <2>1
<1> QED
  BY <1>10, <1>11, <1>12

\* A publication and its journal, for those who follow it.
LEMMA PublicationTells ==
  ASSUME RelInv, NEW made, Copy(made), journal' = journal \o Delta(made), results' = made
  PROVE  /\ Copy(results)' /\ (journal \in Seq(Events))' /\ JournalTells'
         /\ Len(journal) <= Len(journal')
         /\ \A held : \A q \in 0..Len(journal) : FollowsFrom(held, q) => FollowsFrom(held, q)'
<1>1. PICK d : d = Delta(made)
  OBVIOUS
<1>2. /\ d \in Seq(Events) /\ \A i \in 1..Len(d) : d[i].value = Value(made, d[i].entity)
      /\ \A e \in Entities : Value(made, e) # Value(results, e) => \E i \in 1..Len(d) : d[i].entity = e
  BY <1>1, DeltaTells
<1>3. PICK n : n = Len(journal)
  OBVIOUS
<1>4. n \in Nat /\ Len(d) \in Nat /\ journal \in Seq(Events)
  BY <1>2, <1>3 DEF RelInv
<1>5. PICK J : J = journal'
  OBVIOUS
<1>6. /\ J \in Seq(Events) /\ Len(J) = n + Len(d)
      /\ \A i \in 1..n : J[i] = journal[i]
      /\ \A i \in n + 1..n + Len(d) : i - n \in 1..Len(d) /\ J[i] = d[i - n]
      /\ \A i \in 1..Len(d) : n + i \in n + 1..n + Len(d) /\ J[n + i] = d[i]
  BY <1>1, <1>2, <1>3, <1>4, <1>5
<1>7. ASSUME NEW q \in 0..n, NEW e \in Entities, \A i \in q + 1..n + Len(d) : J[i].entity # e
      PROVE  Silent(q, e) /\ Value(made, e) = Value(results, e)
  <2>1. \A i \in q + 1..n : i \in 1..n /\ i \in q + 1..n + Len(d)
    BY <1>4
  <2>2. \A i \in q + 1..n : journal[i].entity # e
    BY <1>6, <1>7, <2>1
  <2>3. \A i \in 1..Len(d) : n + i \in q + 1..n + Len(d)
    BY <1>4
  <2>4. \A i \in 1..Len(d) : d[i].entity # e
    BY <1>6, <1>7, <2>3
  <2> QED
    BY <1>2, <1>3, <2>2, <2>4 DEF Silent
<1>8. \A q, e : Silent(q, e)' <=> \A i \in q + 1..n + Len(d) : J[i].entity # e
  BY <1>5, <1>6 DEF Silent
<1>9. \A held : \A q \in 0..n : FollowsFrom(held, q) => FollowsFrom(held, q)'
  <2>1. ASSUME NEW held, NEW q \in 0..n, FollowsFrom(held, q), NEW e \in Entities,
               \A i \in q + 1..n + Len(d) : J[i].entity # e
        PROVE  Value(held, e) = Value(made, e)
    BY <1>7, <2>1 DEF FollowsFrom
  <2>2. ASSUME NEW held, NEW q \in 0..n, FollowsFrom(held, q) PROVE FollowsFrom(held, q)'
    <3>1. \A e \in Entities : Silent(q, e)' => Value(held, e) = Value(results', e)
      BY <1>8, <2>1, <2>2
    <3> QED
      BY <3>1 DEF FollowsFrom, Value
  <2> QED
    BY <2>2
<1>10. ASSUME NEW i \in 1..n + Len(d), \A j \in i + 1..n + Len(d) : J[j].entity # J[i].entity
       PROVE  J[i].value = Value(made, J[i].entity)
  <2>1. CASE i \in 1..n
    <3>1. PICK e : e = J[i].entity
      OBVIOUS
    <3>2. J[i] = journal[i] /\ e = journal[i].entity /\ e \in Entities
      <4>1. journal[i] \in Events /\ J[i] = journal[i]
        BY <1>3, <1>4, <1>6, <2>1
      <4> QED
        BY <3>1, <4>1 DEF Events
    <3>3. Silent(i, e) /\ Value(made, e) = Value(results, e)
      <4>1. i \in 0..n
        BY <2>1
      <4> QED
        BY <1>7, <1>10, <3>1, <3>2, <4>1
    <3>4. journal[i].value = Value(results, e)
      BY <1>3, <2>1, <3>2, <3>3 DEF RelInv, JournalTells
    <3> QED
      BY <3>1, <3>2, <3>3, <3>4
  <2>2. CASE i \in n + 1..n + Len(d)
    <3>1. i - n \in 1..Len(d) /\ J[i] = d[i - n]
      BY <1>6, <2>2
    <3> QED
      BY <1>2, <3>1
  <2>3. i \in 1..n \/ i \in n + 1..n + Len(d)
    BY <1>4
  <2> QED
    BY <2>1, <2>2, <2>3
<1>11. JournalTells'
  BY <1>5, <1>6, <1>10 DEF JournalTells, Silent
<1>12. Len(journal) <= Len(journal') /\ (journal \in Seq(Events))'
  BY <1>3, <1>4, <1>5, <1>6
<1> QED
  BY <1>3, <1>9, <1>11, <1>12 DEF Copy

\* What a publication does to a client: pages of an older generation end.
LEMMA ClientAfterPublication ==
  ASSUME BuildInv, RelInv, NEW made, Copy(made), journal' = journal \o Delta(made), results' = made,
         state'.gen = state.gen + 1, UNCHANGED reader
  PROVE  RelInv'
<1>1. /\ Copy(results)' /\ (journal \in Seq(Events))' /\ JournalTells' /\ Len(journal) <= Len(journal')
      /\ \A held : \A q \in 0..Len(journal) : FollowsFrom(held, q) => FollowsFrom(held, q)'
  BY PublicationTells
<1>2. state.gen \in Nat
  BY DEF BuildInv, StateInv
<1>3. CASE reader = Away
  BY <1>1, <1>3 DEF RelInv, RelReaderOK, Away
<1>4. CASE reader.at = "paging" /\ reader # Away
  <2>1. reader.gen \in Nat /\ reader.gen <= state.gen /\ reader.after \in Nat
    BY <1>4 DEF RelInv, RelReaderOK, PagesThrough
  <2>2. PagesThrough'
    BY <1>2, <2>1 DEF PagesThrough
  <2> QED
    BY <1>1, <1>4, <2>2 DEF RelInv, RelReaderOK, Away
<1>5. CASE reader.at = "checking" /\ reader # Away
  <2>1. reader.gen \in Nat /\ reader.gen <= state.gen /\ reader.after \in Nat
    BY <1>5 DEF RelInv, RelReaderOK, PagesThrough
  <2>2. PagesThrough' /\ ~(reader'.gen = state'.gen)
    BY <1>2, <2>1 DEF PagesThrough
  <2> QED
    BY <1>1, <1>5, <2>2 DEF RelInv, RelReaderOK, Away
<1>6. CASE reader.at = "following" /\ reader # Away
  <2>1. /\ reader.cursor \in 0..Len(journal) /\ Copy(reader.held) /\ FollowsFrom(reader.held, reader.cursor)
        /\ reader = [at |-> "following", cursor |-> reader.cursor, held |-> reader.held]
    BY <1>6 DEF RelInv, RelReaderOK
  <2>2. PICK held : held = reader.held
    OBVIOUS
  <2>3. PICK q \in 0..Len(journal) : q = reader.cursor
    BY <2>1
  <2>4. Copy(held) /\ FollowsFrom(held, q)'
    BY <1>1, <2>1, <2>2, <2>3
  <2>5. Copy(reader.held)' /\ FollowsFrom(reader.held, reader.cursor)'
    BY <2>2, <2>3, <2>4 DEF FollowsFrom, Copy
  <2>6. reader'.cursor \in 0..Len(journal')
    <3>1. Len(journal) \in Nat /\ Len(journal') \in Nat
      BY <1>1 DEF RelInv
    <3> QED
      BY <1>1, <2>1, <3>1
  <2> QED
    BY <1>1, <1>6, <2>1, <2>5, <2>6 DEF RelInv, RelReaderOK
<1> QED
  BY <1>3, <1>4, <1>5, <1>6 DEF RelInv, RelReaderOK

\* Steps that neither publish nor read.
LEMMA RelationsStay ==
  ASSUME RelInv, UNCHANGED <<results, journal, reader>>, state'.gen = state.gen
  PROVE  RelInv'
<1>1. Copy(results)' /\ (journal \in Seq(Events))'
  BY DEF RelInv, Copy
<1>2. JournalTells' /\ \A held, q : FollowsFrom(held, q)' <=> FollowsFrom(held, q)
  BY DEF RelInv, JournalTells, Silent, FollowsFrom
<1>3. PagesThrough' <=> PagesThrough
  BY DEF PagesThrough, UpTo
<1>4. RelReaderOK'
  BY <1>2, <1>3 DEF RelInv, RelReaderOK, Copy, FollowsFrom, Silent
<1> QED
  BY <1>1, <1>2, <1>4 DEF RelInv

LEMMA BuilderStaysQuiet ==
  ASSUME BuildInv, NEW p \in Procs, BuilderStep(p) \/ IndexMissing(p) \/ Fails(p) \/ Crash(p)
  PROVE  \/ builder[p].at = "publishing" /\ Published(p)
         \/ UNCHANGED <<results, journal, reader>> /\ state'.gen = state.gen
<1>1. state = [status |-> state.status, wait |-> state.wait, cat |-> state.cat,
               ana |-> state.ana, gen |-> state.gen, floor |-> state.floor]
  BY DEF BuildInv, StateInv
<1>2. \A st, w : [state EXCEPT !.status = st, !.wait = w].gen = state.gen
  BY <1>1
<1>3. \A st : [state EXCEPT !.status = st].gen = state.gen
  BY <1>1
<1>4. \A st, a, w : [state EXCEPT !.status = st, !.ana = a, !.wait = w].gen = state.gen
  BY <1>1
<1>5. ASSUME NEW st, Stop(p, st)
      PROVE  UNCHANGED <<results, journal, reader>> /\ state'.gen = state.gen
  BY <1>2, <1>5 DEF Stop
<1>6. CASE Start(p) \/ Load(p) \/ Crash(p)
  BY <1>6 DEF Start, Load, Crash, durable
<1>7. CASE Initialize(p)
  BY <1>3, <1>7 DEF Initialize, Status
<1>8. CASE NotReady(p) \/ Checkpoint(p) \/ IndexMissing(p)
  BY <1>5, <1>8 DEF NotReady, Checkpoint, IndexMissing
<1>9. CASE Stage(p) \/ Fingerprint(p) \/ Fingerprinted(p) \/ Score(p) \/ Scored(p)
  BY <1>5, <1>9 DEF Stage, Fingerprint, Fingerprinted, Score, Scored
<1>10. CASE Publish(p)
  BY <1>5, <1>10 DEF Publish
<1>11. CASE Mark(p)
  BY <1>4, <1>11 DEF Mark
<1>12. CASE Clean(p)
  BY <1>12 DEF Clean
<1>13. CASE Fails(p)
  BY <1>2, <1>13 DEF Fails
<1> QED
  BY <1>6, <1>7, <1>8, <1>9, <1>10, <1>11, <1>12, <1>13 DEF BuilderStep

LEMMA RelPublished ==
  ASSUME BuildInv, RelInv, NEW p \in Procs, builder[p].at = "publishing", Published(p)
  PROVE  RelInv'
<1>1. Working(builder[p])
  BY DEF BuildInv, BuildersInv, BuilderInv, NoRun
<1>2. build.made = Right(build.id) /\ Of(build.id, build.ana)
  BY <1>1 DEF Working, Built
<1>3. Copy(build.made)
  <2>1. build.id.cat \in 1..live.cat /\ build.ana \in 1..live.ana /\ past.digest[build.ana] = build.id.digest
    BY <1>2 DEF Of
  <2>2. past.has[build.id.cat] \in SUBSET Entities /\ past.digest[build.ana] \in Nat
    <3>1. /\ past.has \in Seq(SUBSET Entities) /\ past.digest \in Seq(Nat)
          /\ Len(past.has) = live.cat /\ Len(past.digest) = live.ana
      BY DEF BuildInv, InputsInv
    <3> QED
      BY <2>1, <3>1
  <2>3. Staging(build.id) \in Contents
    BY <2>1, <2>2 DEF Staging, Content, Contents
  <2> QED
    BY <1>2, <2>2, <2>3 DEF Copy, Right
<1>4. /\ journal' = journal \o Delta(build.made) /\ results' = build.made /\ UNCHANGED reader
  BY DEF Published
<1>5. state'.gen = state.gen + 1
  <2>1. \A st, c, a, f, g : [state EXCEPT !.status = st, !.cat = c, !.ana = a, !.gen = g, !.floor = f].gen = g
    BY DEF BuildInv, StateInv
  <2>2. state' = [state EXCEPT !.status = "complete", !.cat = Seen(builder[p]).id.cat, !.ana = Seen(builder[p]).ana,
                               !.gen = state.gen + 1, !.floor = Max({state.floor, Len(journal') - Retain})]
    BY DEF Published
  <2> QED
    BY <2>1, <2>2
<1> QED
  BY <1>3, <1>4, <1>5, ClientAfterPublication

LEMMA RelRequests ==
  ASSUME BuildInv, RelInv, InputsMove \/ Ask \/ (\E force \in BOOLEAN : Claim(force)) \/ WaitEnds
  PROVE  RelInv'
<1>1. UNCHANGED <<results, journal, reader>>
  BY DEF InputsMove, Ask, Claim, WaitEnds, durable
<1>2. state'.gen = state.gen
  <2>1. /\ \A st, w : [state EXCEPT !.status = st, !.wait = w].gen = state.gen
        /\ \A w : [state EXCEPT !.wait = w].gen = state.gen
    BY DEF BuildInv, StateInv
  <2>2. ASSUME NEW force, Claim(force) PROVE state'.gen = state.gen
    <3>1. CASE Claimable
      BY <2>1, <2>2, <3>1 DEF Claim
    <3>2. CASE ~Claimable
      BY <2>1, <2>2, <3>2 DEF Claim
    <3> QED
      BY <3>1, <3>2
  <2> QED
    BY <2>1, <2>2 DEF InputsMove, Ask, WaitEnds, durable
<1> QED
  BY <1>1, <1>2, RelationsStay

\* A page of the published set: what follows `after`, from the lowest up.
LEMMA PageGoesUp ==
  ASSUME RelInv, NEW after \in Nat
  PROVE  LET rows == After(state.gen, after)
             page == Page(state.gen, after)
         IN  /\ page \subseteq rows /\ rows \subseteq DOMAIN results /\ rows \in SUBSET Nat
             /\ \A e \in page, f \in rows : f < e => f \in page
             /\ rows # {} => page # {}
             /\ page # {} => Max(page) \in page /\ \A e \in page : e <= Max(page)
<1> DEFINE rows == After(state.gen, after)
           page == Page(state.gen, after)
           upto(e) == rows \ After(state.gen, e)
<1>1. rows = {f \in DOMAIN results : f > after} /\ rows \in SUBSET Entities /\ rows \in SUBSET Nat
  BY BuildBounds DEF After, RelInv, Copy
<1>2. IsFiniteSet(rows)
  BY <1>1, BuildBounds, FS_Subset
<1>3. \A e \in rows : upto(e) = {f \in rows : f <= e}
  BY <1>1 DEF After
<1>4. page = {e \in rows : Cardinality(upto(e)) <= PageLimit}
  BY DEF Page
<1>5. \A e \in rows : upto(e) \in SUBSET rows /\ IsFiniteSet(upto(e)) /\ Cardinality(upto(e)) \in Nat
  <2>1. \A e \in rows : upto(e) \in SUBSET rows
    OBVIOUS
  <2> QED
    BY <1>2, <2>1, FS_Subset, FS_CardinalityType
<1> HIDE DEF rows, upto
<1>6. ASSUME NEW e \in page, NEW f \in rows, f < e PROVE f \in page
  <2>1. e \in rows /\ e \in Nat /\ f \in Nat
    BY <1>1, <1>4
  <2>2. upto(f) \in SUBSET upto(e)
    <3>1. \A g \in rows : g <= f => g <= e
      BY <1>1, <1>6, <2>1
    <3> QED
      BY <1>3, <2>1, <3>1
  <2>3. Cardinality(upto(f)) <= Cardinality(upto(e))
    BY <1>5, <2>1, <2>2, FS_Subset
  <2> QED
    BY <1>4, <1>5, <2>1, <2>3, BuildBounds
<1>7. ASSUME rows # {} PROVE page # {}
  <2>1. PICK m \in rows : \A n \in rows : m <= n
    BY <1>1, <1>7, NaturalsHaveLeast
  <2>2. upto(m) = {m}
    BY <1>1, <1>3, <2>1
  <2>3. Cardinality(upto(m)) = 1
    BY <2>2, FS_Singleton
  <2> QED
    BY <1>4, <2>3, BuildBounds
<1>8. page \subseteq rows
  BY <1>4
<1> HIDE DEF page
<1>9. ASSUME page # {} PROVE Max(page) \in page /\ \A e \in page : e <= Max(page)
  <2>1. page \in SUBSET Nat /\ IsFiniteSet(page)
    BY <1>1, <1>2, <1>8, FS_Subset
  <2>2. PICK b \in Nat : \A x \in page : x <= b
    BY <1>9, <2>1, FiniteIsBounded
  <2> QED
    BY <1>9, <2>1, <2>2, GreatestOf
<1> QED
  BY <1>1, <1>6, <1>7, <1>8, <1>9 DEF rows, page

LEMMA RelReadsStatus ==
  ASSUME BuildInv, RelInv, ReadStatus, UNCHANGED <<results, journal, state>>
  PROVE  RelReaderOK'
<1>2. /\ reader' = [at |-> "paging", gen |-> state.gen, head |-> Len(journal), after |-> 0, held |-> << >>]
      /\ state.gen \in Nat
  BY DEF ReadStatus, BuildInv, StateInv
<1>3. UpTo(0) = << >>
  <2>1. {f \in DOMAIN results : f <= 0} = {}
    BY BuildBounds DEF RelInv, Copy
  <2> QED
    BY <2>1 DEF UpTo
<1>4. PagesThrough'
  BY <1>2, <1>3 DEF PagesThrough, UpTo
<1> QED
  BY <1>2, <1>4 DEF RelReaderOK

LEMMA RelReadsPage ==
  ASSUME BuildInv, RelInv, ReadPage, UNCHANGED <<results, journal, state>>
  PROVE  RelReaderOK'
<1>1. /\ reader.at = "paging" /\ PagesThrough
  BY DEF ReadPage, RelInv, RelReaderOK, Away
<1>2. PICK gen : gen = reader.gen
  OBVIOUS
<1>3. PICK after \in Nat : after = reader.after
  BY <1>1 DEF PagesThrough
<1>4. PICK rows : rows = After(gen, after)
  OBVIOUS
<1>5. PICK page : page = Page(gen, after)
  OBVIOUS
<1>6. PICK next : next = IF page = {} THEN after ELSE Max(page)
  OBVIOUS
<1>7. PICK held : held = [e \in DOMAIN reader.held \cup page |-> IF e \in page THEN results[e] ELSE reader.held[e]]
  OBVIOUS
<1>8. reader' = [at |-> "checking", gen |-> gen, head |-> reader.head, more |-> rows # page,
                 after |-> next, held |-> held]
  BY <1>2, <1>3, <1>4, <1>5, <1>6, <1>7 DEF ReadPage
<1>9. gen \in Nat /\ state.gen \in Nat /\ gen <= state.gen
  BY <1>1, <1>2 DEF PagesThrough, BuildInv, StateInv
<1>10. gen # state.gen => page = {}
  BY <1>5 DEF Page, After
<1>11. ASSUME gen = state.gen
       PROVE  /\ reader.head = Len(journal) /\ next \in Nat /\ held = UpTo(next)
              /\ rows = page => held = results
  <2>1. /\ page \subseteq rows /\ rows \subseteq DOMAIN results /\ rows \in SUBSET Nat
        /\ \A e \in page, f \in rows : f < e => f \in page
        /\ rows # {} => page # {}
        /\ page # {} => Max(page) \in page /\ \A e \in page : e <= Max(page)
    BY <1>4, <1>5, <1>11, PageGoesUp
  <2>2. rows = {f \in DOMAIN results : f > after}
    BY <1>4, <1>11 DEF After
  <2>3. DOMAIN results \in SUBSET Nat
    BY BuildBounds DEF RelInv, Copy
  <2>4. reader.held = UpTo(after) /\ reader.head = Len(journal)
    BY <1>1, <1>2, <1>3, <1>11 DEF PagesThrough
  <2>5. DOMAIN reader.held = {f \in DOMAIN results : f <= after}
    BY <2>4 DEF UpTo
  <2>6. next \in Nat /\ after <= next
    BY <1>3, <1>6, <2>1, <2>2
  <2>7. \A f \in DOMAIN results : f <= next <=> f <= after \/ f \in page
    <3> SUFFICES ASSUME NEW f \in DOMAIN results PROVE f <= next <=> f <= after \/ f \in page
      OBVIOUS
    <3>1. f \in Nat
      BY <2>3
    <3>2. CASE page = {}
      BY <1>6, <3>2
    <3>3. CASE page # {}
      <4>1. next \in page /\ \A e \in page : e <= next
        BY <1>6, <2>1, <3>3
      <4>2. f <= after => f <= next
        BY <1>3, <2>6, <3>1
      <4>3. f < next /\ ~(f <= after) => f \in page
        BY <2>1, <2>2, <3>1, <4>1
      <4> QED
        BY <2>6, <3>1, <4>1, <4>2, <4>3
    <3> QED
      BY <3>2, <3>3
  <2>8. DOMAIN reader.held \cup page = {f \in DOMAIN results : f <= next}
    BY <2>1, <2>5, <2>7
  <2>9. \A e \in DOMAIN reader.held : reader.held[e] = results[e]
    BY <2>4, <2>5 DEF UpTo
  <2>10. held = UpTo(next)
    BY <1>7, <2>8, <2>9 DEF UpTo
  <2>11. ASSUME rows = page PROVE held = results
    <3>1. \A f \in DOMAIN results : f <= next
      <4>1. \A f \in DOMAIN results : f \in Nat
        BY <2>3
      <4> QED
        BY <1>3, <2>2, <2>7, <2>11, <4>1
    <3>2. UpTo(next) = [e \in DOMAIN results |-> results[e]]
      BY <3>1 DEF UpTo
    <3> QED
      BY <2>10, <3>2 DEF RelInv, Copy
  <2> QED
    BY <2>4, <2>6, <2>10, <2>11
<1>12. next \in Nat
  BY <1>3, <1>6, <1>10, <1>11
<1>13. \A n : UpTo(n)' = UpTo(n)
  BY DEF UpTo
<1>14. PagesThrough'
  BY <1>8, <1>9, <1>11, <1>12 DEF PagesThrough, UpTo
<1> QED
  BY <1>8, <1>11, <1>14 DEF RelReaderOK

LEMMA RelChecksPage ==
  ASSUME BuildInv, RelInv, CheckPage, UNCHANGED <<results, journal, state>>
  PROVE  RelReaderOK'
<1>1. PagesThrough /\ (reader.gen = state.gen /\ ~reader.more => reader.held = results)
  BY DEF CheckPage, RelInv, RelReaderOK, Away
<1>2. CASE ~SameGeneration
  BY <1>2 DEF CheckPage, RelReaderOK, Away
<1>3. CASE SameGeneration /\ reader.more
  <2>1. reader' = [at |-> "paging", gen |-> reader.gen, head |-> reader.head,
                   after |-> reader.after, held |-> reader.held]
    BY <1>3 DEF CheckPage
  <2>2. PagesThrough'
    BY <1>1, <2>1 DEF PagesThrough, UpTo
  <2> QED
    BY <2>1, <2>2 DEF RelReaderOK
<1>4. CASE SameGeneration /\ ~reader.more
  <2>1. reader' = [at |-> "following", cursor |-> reader.head, held |-> reader.held]
    BY <1>4 DEF CheckPage
  <2>2. reader.head = Len(journal) /\ reader.held = results
    BY <1>1, <1>4 DEF SameGeneration
  <2>3. Len(journal) \in Nat /\ Copy(results)
    BY DEF RelInv
  <2>4. reader' = [at |-> "following", cursor |-> Len(journal), held |-> results]
    BY <2>1, <2>2
  <2>5. Copy(results)' /\ FollowsFrom(results, Len(journal))'
    BY <2>3 DEF Copy, FollowsFrom
  <2>6. Copy(reader.held)' /\ FollowsFrom(reader.held, reader.cursor)'
    BY <2>4, <2>5 DEF Copy, FollowsFrom, Silent
  <2> QED
    BY <2>3, <2>4, <2>6 DEF RelReaderOK
<1> QED
  BY <1>2, <1>3, <1>4

\* A stretch of a sequence, element by element.
LEMMA Stretch ==
  ASSUME NEW S, NEW s \in Seq(S), NEW q \in Nat, NEW to \in q + 1..Len(s)
  PROVE  LET part == SubSeq(s, q + 1, to)
         IN  /\ part \in Seq(S) /\ Len(part) = to - q
             /\ \A k \in 1..to - q : q + k \in q + 1..to /\ part[k] = s[q + k]
             /\ \A i \in q + 1..to : i - q \in 1..to - q /\ part[i - q] = s[i]
<1> DEFINE part == SubSeq(s, q + 1, to)
<1>1. to \in Nat /\ q + 1 <= to /\ to <= Len(s) /\ Len(s) \in Nat
  OBVIOUS
<1>2. part \in Seq(S)
  BY <1>1
<1>3. Len(part) = to - q
  BY <1>1
<1>4. \A k \in 1..to - q : q + k \in q + 1..to /\ part[k] = s[q + k]
  BY <1>1
<1>5. ASSUME NEW i \in q + 1..to PROVE i - q \in 1..to - q /\ part[i - q] = s[i]
  <2>1. i - q \in 1..to - q /\ q + (i - q) = i
    BY <1>1
  <2> QED
    BY <1>4, <2>1
<1> QED
  BY <1>2, <1>3, <1>4, <1>5

LEMMA RelReadsChanges ==
  ASSUME RelInv, ReadChanges, UNCHANGED <<results, journal, state>>
  PROVE  RelReaderOK'
<1>1. CASE reader' = Away
  BY <1>1 DEF RelReaderOK
<1>2. CASE reader' # Away
  <2>1. PICK held : held = reader.held
    OBVIOUS
  <2>2. /\ reader = [at |-> "following", cursor |-> reader.cursor, held |-> held]
        /\ reader.cursor \in 0..Len(journal) /\ reader.cursor < Len(journal)
        /\ Copy(held) /\ FollowsFrom(held, reader.cursor)
    BY <2>1 DEF ReadChanges, RelInv, RelReaderOK, Away
  <2>3. PICK q \in 0..Len(journal) : q = reader.cursor
    BY <2>2
  <2>4. PICK n \in Nat : n = Len(journal)
    BY DEF RelInv
  <2>5. PICK to : to = Min({n, q + PageLimit})
    OBVIOUS
  <2>6. to \in q + 1..n
    <3>1. q + PageLimit \in Nat /\ q < q + PageLimit /\ q < n /\ q \in Nat
      BY <2>2, <2>3, <2>4, BuildBounds
    <3>2. \E x \in {n, q + PageLimit} : \A y \in {n, q + PageLimit} : x <= y
      BY <2>4, <3>1
    <3>3. to \in {n, q + PageLimit} /\ to <= n
      BY <2>5, <3>2 DEF Min
    <3> QED
      BY <2>4, <3>1, <3>3
  <2>7. PICK events : events = SubSeq(journal, q + 1, to)
    OBVIOUS
  <2>8. /\ events \in Seq(Events) /\ Len(events) = to - q
        /\ \A k \in 1..to - q : q + k \in q + 1..to /\ events[k] = journal[q + k]
        /\ \A i \in q + 1..to : i - q \in 1..to - q /\ events[i - q] = journal[i]
    <3>1. journal \in Seq(Events) /\ q \in Nat /\ to \in q + 1..Len(journal)
      BY <2>3, <2>4, <2>6 DEF RelInv
    <3> QED
      BY <2>7, <3>1, Stretch
  <2>9. PICK new : new = Applied(held, events)
    OBVIOUS
  <2>10. /\ Copy(new)
         /\ \A e \in Entities : About(events, e) = {} => Value(new, e) = Value(held, e)
         /\ \A e \in Entities : About(events, e) # {} =>
              Value(new, e) = events[Max(About(events, e))].value
    BY <2>2, <2>8, <2>9, PageIsApplied
  <2>11. FollowsFrom(new, to)
    <3> SUFFICES ASSUME NEW e \in Entities, Silent(to, e) PROVE Value(new, e) = Value(results, e)
      BY DEF FollowsFrom
    <3>1. CASE About(events, e) = {}
      <4>1. \A i \in q + 1..to : journal[i].entity # e
        <5>1. \A k \in 1..to - q : events[k].entity # e
          BY <2>8, <3>1 DEF About
        <5> QED
          BY <2>8, <5>1
      <4>2. Silent(q, e)
        BY <2>4, <2>6, <4>1 DEF Silent
      <4> QED
        BY <2>2, <2>3, <2>10, <3>1, <4>2 DEF FollowsFrom
    <3>2. CASE About(events, e) # {}
      <4>1. PICK k : k = Max(About(events, e))
        OBVIOUS
      <4>2. /\ k \in 1..to - q /\ events[k].entity = e
            /\ \A j \in k + 1..to - q : events[j].entity # e
        BY <2>8, <3>2, <4>1, LastAbout
      <4>3. PICK i \in q + 1..to : i = q + k /\ events[k] = journal[i]
        BY <2>8, <4>2
      <4>4. ASSUME NEW j \in i + 1..n, journal[j].entity = e PROVE FALSE
        <5>1. ~(j \in to + 1..n)
          BY <2>4, <4>4 DEF Silent
        <5>2. j \in q + 1..to /\ j - q \in k + 1..to - q
          BY <2>3, <2>4, <2>6, <4>2, <4>3, <4>4, <5>1
        <5> QED
          BY <2>8, <4>2, <4>4, <5>2
      <4>5. Silent(i, e) /\ i \in 1..n
        BY <2>3, <2>4, <2>6, <4>4 DEF Silent
      <4>6. journal[i].value = Value(results, e)
        BY <2>4, <4>2, <4>3, <4>5 DEF RelInv, JournalTells
      <4> QED
        BY <2>10, <3>2, <4>1, <4>3, <4>6
    <3> QED
      BY <3>1, <3>2
  <2>12. reader' = [at |-> "following", cursor |-> to, held |-> new]
    <3>1. reader' = [reader EXCEPT !.cursor = to, !.held = new]
      BY <1>2, <2>1, <2>3, <2>4, <2>5, <2>7, <2>9 DEF ReadChanges
    <3>2. reader = [at |-> "following", cursor |-> q, held |-> held]
      BY <2>2, <2>3
    <3>3. PICK got : got = [reader EXCEPT !.cursor = to, !.held = new]
      OBVIOUS
    <3>4. /\ got.at = "following" /\ got.cursor = to /\ got.held = new
          /\ got = [at |-> got.at, cursor |-> got.cursor, held |-> got.held]
      BY <3>2, <3>3
    <3> QED
      BY <3>1, <3>3, <3>4
  <2>13. to \in 0..Len(journal)
    BY <2>3, <2>4, <2>6
  <2>14. Copy(reader.held)' /\ FollowsFrom(reader.held, reader.cursor)'
    BY <2>10, <2>11, <2>12 DEF Copy, FollowsFrom, Silent
  <2> QED
    BY <2>12, <2>13, <2>14 DEF RelReaderOK
<1> QED
  BY <1>1, <1>2

LEMMA RelReads == ASSUME BuildInv, RelInv, ReaderStep PROVE RelInv'
<1>1. UNCHANGED <<results, journal, state>>
  BY DEF ReaderStep, durable
<1>2. RelReaderOK'
  BY <1>1, RelReadsStatus, RelReadsPage, RelChecksPage, RelReadsChanges DEF ReaderStep
<1>3. Copy(results)' /\ (journal \in Seq(Events))' /\ JournalTells'
  BY <1>1 DEF RelInv, Copy, JournalTells, Silent
<1> QED
  BY <1>2, <1>3 DEF RelInv

LEMMA RelBegins == ASSUME Init PROVE RelInv
<1>1. results = << >> /\ journal = << >> /\ reader = Away
  BY DEF Init
<1>2. DOMAIN results = {} /\ results = [e \in DOMAIN results |-> results[e]]
  BY <1>1
<1> QED
  BY <1>1, <1>2 DEF RelInv, Copy, JournalTells, RelReaderOK

LEMMA RelStep == ASSUME BuildInv, RelInv, Next PROVE RelInv'
<1>1. ASSUME NEW p \in Procs, BuilderStep(p) \/ IndexMissing(p) \/ Fails(p) \/ Crash(p) PROVE RelInv'
  BY <1>1, BuilderStaysQuiet, RelPublished, RelationsStay
<1> QED
  BY <1>1, RelRequests, RelReads DEF Next

LEMMA RelHolds == ASSUME RelInv PROVE FollowersHoldResults
<1> SUFFICES ASSUME reader.at = "following", reader.cursor = Len(journal) PROVE reader.held = results
  BY DEF FollowersHoldResults
<1>1. Copy(reader.held) /\ FollowsFrom(reader.held, reader.cursor) /\ Copy(results)
  BY DEF RelInv, RelReaderOK, Away
<1>2. \A e : Silent(Len(journal), e)
  BY DEF RelInv, Silent
<1> QED
  BY <1>1, <1>2, CopiesAgree DEF FollowsFrom

LEMMA RelSame ==
  ASSUME BuildInv, RelInv, UNCHANGED vars
  PROVE  RelInv'
BY RelationsStay DEF vars, durable

-----------------------------------------------------------------------------
(* The readers of the catalogue and of the analysis projection.  A stream is  *)
(* a state st, its generations gens and the events log of its epoch.          *)

Tables == [Entities -> Nat]
Latest(st, gens) == IF st.gen \in DOMAIN gens THEN gens[st.gen] ELSE Streams!Blank

\* No event after number n is about track x.
Hushed(log, n, x) == \A m \in DOMAIN log : m > n => log[m].track # x

\* The last event about a track says what is published of it.
LogTells(log, new) ==
    \A m \in DOMAIN log : Hushed(log, m, log[m].track) => log[m].value = new[log[m].track]

\* A copy made of the events up to number n: right where no event is missing.
TableFollows(log, new, copy, n) == \A x \in Entities : Hushed(log, n, x) => copy[x] = new[x]

StreamOK(st, gens, log) ==
    /\ StateIsRecord(st) /\ st.gen \in Nat /\ st.epoch \in Nat /\ st.head \in Nat
    /\ st.floor \in 0..st.head
    /\ DOMAIN gens \subseteq 1..st.gen /\ (st.gen > 0 => st.gen \in DOMAIN gens)
    /\ \A g \in DOMAIN gens : gens[g] \in Tables
    /\ DOMAIN log = st.floor + 1..st.head
    /\ \A m \in DOMAIN log : log[m].track \in Entities /\ log[m].value \in Nat
    /\ LogTells(log, Latest(st, gens))

\* The events after the cursor of a reader, while they are kept, lead to what is published.
InFeed(st, c) == c.epoch = st.epoch /\ c.seq >= st.floor
ReaderOK(st, gens, log, c) ==
    /\ c.phase \in {"away", "paging", "following"}
    /\ c.phase # "away" =>
         /\ c.epoch \in Nat /\ c.epoch <= st.epoch /\ c.seq \in Nat /\ c.copy \in Tables
         /\ c.torn \in BOOLEAN /\ (c.epoch = st.epoch => c.seq <= st.head)
    /\ c.phase = "paging" =>
         /\ c.next \in Nat \ {0} /\ (c.next <= Len(Order) \/ Entities = {}) /\ c.pin \in 1..st.gen
         /\ ~c.torn /\ c.pin \in DOMAIN gens =>
              /\ \A i \in 1..c.next - 1 : c.copy[Order[i]] = gens[c.pin][Order[i]]
              /\ InFeed(st, c) => TableFollows(log, Latest(st, gens), gens[c.pin], c.seq)
    /\ c.phase = "following" /\ ~c.torn /\ InFeed(st, c) =>
         TableFollows(log, Latest(st, gens), c.copy, c.seq)

\* A publication: the next generation, and the events of its differences.
Grows(st, gens, log, st2, gens2, log2) ==
    /\ StateIsRecord(st2) /\ st2.gen = st.gen + 1 /\ st2.epoch = st.epoch
    /\ st2.head \in Nat /\ st2.head >= st.head /\ st2.floor \in Nat /\ st2.floor >= st.floor
    /\ st2.floor <= st2.head
    /\ st2.gen \in DOMAIN gens2 /\ DOMAIN gens2 \subseteq DOMAIN gens \cup {st2.gen}
    /\ gens2[st2.gen] \in Tables /\ \A g \in DOMAIN gens2 \ {st2.gen} : gens2[g] = gens[g]
    /\ DOMAIN log2 = st2.floor + 1..st2.head
    /\ \A m \in DOMAIN log2 : m <= st.head => log2[m] = log[m]
    /\ \A m \in DOMAIN log2 : m > st.head =>
         log2[m].track \in Entities /\ log2[m].value = gens2[st2.gen][log2[m].track]
    /\ st2.floor <= st.head =>
         \A x \in Entities : Latest(st, gens)[x] # gens2[st2.gen][x] =>
           \E m \in st.head + 1..st2.head : log2[m].track = x

\* A prune: superseded generations and events go, and the published one stays.
Shrinks(st, gens, log, st2, gens2, log2) ==
    /\ StateIsRecord(st2) /\ st2.gen = st.gen /\ st2.epoch = st.epoch /\ st2.head = st.head
    /\ st2.floor \in Nat /\ st2.floor >= st.floor /\ st2.floor <= st2.head
    /\ DOMAIN gens2 \subseteq DOMAIN gens /\ (st.gen > 0 => st.gen \in DOMAIN gens2)
    /\ \A g \in DOMAIN gens2 : gens2[g] = gens[g]
    /\ DOMAIN log2 = st2.floor + 1..st2.head
    /\ \A m \in DOMAIN log2 : log2[m] = log[m]

LEMMA GrowthFeeds ==
  ASSUME NEW st, NEW gens, NEW log, NEW st2, NEW gens2, NEW log2,
         StreamOK(st, gens, log), Grows(st, gens, log, st2, gens2, log2)
  PROVE  /\ StreamOK(st2, gens2, log2)
         /\ \A c : ReaderOK(st, gens, log, c) => ReaderOK(st2, gens2, log2, c)
<1>1. PICK old, new : old = Latest(st, gens) /\ new = gens2[st2.gen]
  OBVIOUS
<1>2. PICK floor, head, floor2, head2 :
        floor = st.floor /\ head = st.head /\ floor2 = st2.floor /\ head2 = st2.head
  OBVIOUS
<1>3. /\ floor \in Nat /\ head \in Nat /\ floor2 \in Nat /\ head2 \in Nat
      /\ floor <= head /\ floor2 <= head2 /\ head <= head2 /\ floor <= floor2
      /\ DOMAIN log = floor + 1..head /\ DOMAIN log2 = floor2 + 1..head2
      /\ st.gen \in Nat /\ st2.gen = st.gen + 1 /\ st2.epoch = st.epoch /\ st.epoch \in Nat
  BY <1>2 DEF StreamOK, Grows
<1>4. Latest(st2, gens2) = new /\ new \in Tables
  BY <1>1 DEF Latest, Grows
<1>5. ASSUME NEW x \in Entities, NEW n \in Nat, n >= floor2, n <= head, Hushed(log2, n, x)
      PROVE  Hushed(log, n, x) /\ old[x] = new[x]
  <2>1. \A m \in DOMAIN log : m > n => m \in DOMAIN log2 /\ m <= head /\ log2[m] = log[m]
    BY <1>2, <1>3, <1>5 DEF Grows
  <2>2. Hushed(log, n, x)
    BY <1>5, <2>1 DEF Hushed
  <2>3. \A m \in head + 1..head2 : m \in DOMAIN log2 /\ m > n
    BY <1>3, <1>5
  <2>4. floor2 <= head
    BY <1>3, <1>5
  <2>5. old[x] # new[x] => \E m \in head + 1..head2 : log2[m].track = x
    BY <1>1, <1>2, <2>4 DEF Grows
  <2> QED
    BY <1>5, <2>2, <2>3, <2>5 DEF Hushed
<1>6. \A m \in DOMAIN log2 : m <= head => m \in DOMAIN log /\ log2[m] = log[m]
  BY <1>2, <1>3 DEF Grows
<1>7. \A m \in DOMAIN log2 : m > head => log2[m].track \in Entities /\ log2[m].value = new[log2[m].track]
  BY <1>1, <1>2 DEF Grows
<1>8. \A m \in DOMAIN log2 : log2[m].track \in Entities /\ log2[m].value \in Nat
  BY <1>3, <1>4, <1>6, <1>7 DEF StreamOK, Tables
<1>9. LogTells(log2, new)
  <2> SUFFICES ASSUME NEW m \in DOMAIN log2, Hushed(log2, m, log2[m].track)
               PROVE  log2[m].value = new[log2[m].track]
    BY DEF LogTells
  <2>1. CASE m <= head
    <3>1. m \in Nat /\ m >= floor2 /\ m \in DOMAIN log /\ log2[m] = log[m] /\ log2[m].track \in Entities
      BY <1>3, <1>6, <1>8, <2>1
    <3>2. Hushed(log, m, log[m].track) /\ old[log[m].track] = new[log[m].track]
      BY <1>5, <2>1, <3>1
    <3> QED
      BY <1>1, <3>1, <3>2 DEF StreamOK, LogTells
  <2>2. CASE m > head
    BY <1>7, <2>2
  <2> QED
    BY <1>3, <2>1, <2>2
<1>10. \A g \in DOMAIN gens2 : gens2[g] \in Tables /\ g \in 1..st2.gen
  BY <1>1, <1>3, <1>4 DEF StreamOK, Grows
<1>11. StreamOK(st2, gens2, log2)
  BY <1>2, <1>3, <1>4, <1>8, <1>9, <1>10 DEF StreamOK, Grows
<1>12. ASSUME NEW c, ReaderOK(st, gens, log, c) PROVE ReaderOK(st2, gens2, log2, c)
  <2>1. c.phase # "away" =>
          /\ c.epoch \in Nat /\ c.epoch <= st2.epoch /\ c.seq \in Nat /\ c.copy \in Tables
          /\ c.torn \in BOOLEAN /\ (c.epoch = st2.epoch => c.seq <= head)
    BY <1>2, <1>3, <1>12 DEF ReaderOK
  <2>2. InFeed(st2, c) /\ c.phase # "away" => InFeed(st, c) /\ c.seq >= floor2 /\ c.seq <= head
    BY <1>2, <1>3, <2>1 DEF InFeed
  <2>3. ASSUME NEW copy, c.phase # "away", InFeed(st2, c), TableFollows(log, old, copy, c.seq)
        PROVE  TableFollows(log2, new, copy, c.seq)
    BY <1>5, <2>1, <2>2, <2>3 DEF TableFollows
  <2>4. CASE c.phase = "away"
    BY <2>4 DEF ReaderOK
  <2>5. CASE c.phase = "paging"
    <3>1. c.next \in Nat \ {0} /\ (c.next <= Len(Order) \/ Entities = {}) /\ c.pin \in 1..st.gen /\ c.pin \in 1..st2.gen /\ c.pin # st2.gen
      BY <1>3, <1>12, <2>5 DEF ReaderOK
    <3>2. c.pin \in DOMAIN gens2 => c.pin \in DOMAIN gens /\ gens2[c.pin] = gens[c.pin]
      BY <3>1 DEF Grows
    <3>3. ~c.torn /\ c.pin \in DOMAIN gens2 =>
            /\ \A i \in 1..c.next - 1 : c.copy[Order[i]] = gens2[c.pin][Order[i]]
            /\ InFeed(st2, c) => TableFollows(log2, new, gens2[c.pin], c.seq)
      BY <1>1, <1>12, <2>2, <2>3, <2>5, <3>2 DEF ReaderOK
    <3>4. c.epoch = st2.epoch => c.seq <= st2.head
      BY <1>2, <1>3, <2>1, <2>5
    <3> QED
      BY <1>4, <2>1, <2>5, <3>1, <3>3, <3>4 DEF ReaderOK
  <2>6. CASE c.phase = "following"
    <3>1. ~c.torn /\ InFeed(st2, c) => TableFollows(log2, new, c.copy, c.seq)
      BY <1>1, <1>12, <2>2, <2>3, <2>6 DEF ReaderOK
    <3>2. c.epoch = st2.epoch => c.seq <= st2.head
      BY <1>2, <1>3, <2>1, <2>6
    <3> QED
      BY <1>4, <2>1, <2>6, <3>1, <3>2 DEF ReaderOK
  <2> QED
    BY <1>12, <2>4, <2>5, <2>6 DEF ReaderOK
<1> QED
  BY <1>11, <1>12

LEMMA ShrinkFeeds ==
  ASSUME NEW st, NEW gens, NEW log, NEW st2, NEW gens2, NEW log2,
         StreamOK(st, gens, log), Shrinks(st, gens, log, st2, gens2, log2)
  PROVE  /\ StreamOK(st2, gens2, log2) /\ Latest(st2, gens2) = Latest(st, gens)
         /\ \A c : ReaderOK(st, gens, log, c) => ReaderOK(st2, gens2, log2, c)
<1>1. PICK new : new = Latest(st, gens)
  OBVIOUS
<1>2. PICK floor, head, floor2 : floor = st.floor /\ head = st.head /\ floor2 = st2.floor
  OBVIOUS
<1>3. /\ floor \in Nat /\ head \in Nat /\ floor2 \in Nat /\ floor2 <= head /\ floor <= floor2
      /\ st2.head = head
      /\ DOMAIN log = floor + 1..head /\ DOMAIN log2 = floor2 + 1..head
      /\ st.gen \in Nat /\ st2.gen = st.gen /\ st2.epoch = st.epoch /\ st.epoch \in Nat
  BY <1>2 DEF StreamOK, Shrinks
<1>4. Latest(st2, gens2) = new
  <2>1. st.gen \in DOMAIN gens2 <=> st.gen \in DOMAIN gens
    BY DEF StreamOK, Shrinks
  <2> QED
    BY <1>1, <1>3, <2>1 DEF Latest, Shrinks
<1>5. \A m \in DOMAIN log2 : m \in DOMAIN log /\ log2[m] = log[m]
  BY <1>3 DEF Shrinks
<1>6. ASSUME NEW x, NEW n \in Nat, n >= floor2, Hushed(log2, n, x) PROVE Hushed(log, n, x)
  <2>1. \A m \in DOMAIN log : m > n => m \in DOMAIN log2
    BY <1>3, <1>6
  <2> QED
    BY <1>5, <1>6, <2>1 DEF Hushed
<1>7. LogTells(log2, new)
  <2> SUFFICES ASSUME NEW m \in DOMAIN log2, Hushed(log2, m, log2[m].track)
               PROVE  log2[m].value = new[log2[m].track]
    BY DEF LogTells
  <2>1. m \in Nat /\ m >= floor2
    BY <1>3
  <2>2. Hushed(log, m, log[m].track)
    BY <1>5, <1>6, <2>1
  <2> QED
    BY <1>1, <1>5, <2>2 DEF StreamOK, LogTells
<1>8. /\ \A m \in DOMAIN log2 : log2[m].track \in Entities /\ log2[m].value \in Nat
      /\ \A g \in DOMAIN gens2 : gens2[g] \in Tables /\ g \in 1..st2.gen
  BY <1>3, <1>5 DEF StreamOK, Shrinks
<1>9. StreamOK(st2, gens2, log2)
  BY <1>2, <1>3, <1>4, <1>7, <1>8 DEF StreamOK, Shrinks
<1>10. ASSUME NEW c, ReaderOK(st, gens, log, c) PROVE ReaderOK(st2, gens2, log2, c)
  <2>1. c.phase # "away" =>
          /\ c.epoch \in Nat /\ c.epoch <= st2.epoch /\ c.seq \in Nat /\ c.copy \in Tables
          /\ c.torn \in BOOLEAN /\ (c.epoch = st2.epoch => c.seq <= st2.head)
    BY <1>2, <1>3, <1>10 DEF ReaderOK
  <2>2. InFeed(st2, c) /\ c.phase # "away" => InFeed(st, c) /\ c.seq >= floor2
    BY <1>2, <1>3, <2>1 DEF InFeed
  <2>3. ASSUME NEW copy, c.phase # "away", InFeed(st2, c), TableFollows(log, new, copy, c.seq)
        PROVE  TableFollows(log2, new, copy, c.seq)
    BY <1>6, <2>1, <2>2, <2>3 DEF TableFollows
  <2>4. CASE c.phase = "away"
    BY <2>4 DEF ReaderOK
  <2>5. CASE c.phase = "paging"
    <3>1. c.next \in Nat \ {0} /\ (c.next <= Len(Order) \/ Entities = {}) /\ c.pin \in 1..st2.gen
      BY <1>3, <1>10, <2>5 DEF ReaderOK
    <3>2. c.pin \in DOMAIN gens2 => c.pin \in DOMAIN gens /\ gens2[c.pin] = gens[c.pin]
      BY DEF Shrinks
    <3>3. ~c.torn /\ c.pin \in DOMAIN gens2 =>
            /\ \A i \in 1..c.next - 1 : c.copy[Order[i]] = gens2[c.pin][Order[i]]
            /\ InFeed(st2, c) => TableFollows(log2, new, gens2[c.pin], c.seq)
      BY <1>1, <1>10, <2>2, <2>3, <2>5, <3>2 DEF ReaderOK
    <3> QED
      BY <1>4, <2>1, <2>5, <3>1, <3>3 DEF ReaderOK
  <2>6. CASE c.phase = "following"
    <3>1. ~c.torn /\ InFeed(st2, c) => TableFollows(log2, new, c.copy, c.seq)
      BY <1>1, <1>10, <2>2, <2>3, <2>6 DEF ReaderOK
    <3> QED
      BY <1>4, <2>1, <2>6, <3>1 DEF ReaderOK
  <2> QED
    BY <1>10, <2>4, <2>5, <2>6 DEF ReaderOK
<1> QED
  BY <1>1, <1>4, <1>9, <1>10

-----------------------------------------------------------------------------
(* The differences of two generations.                                       *)

LEMMA StreamsCardinality == ASSUME NEW S PROVE Streams!Cardinality(S) = Cardinality(S)
BY DEF Streams!Cardinality, Cardinality

LEMMA OrderOK ==
  /\ Order \in Seq(Entities) /\ IsFiniteSet(Entities)
  /\ \A x \in Entities : \E i \in 1..Len(Order) : Order[i] = x
  /\ \A i, j \in 1..Len(Order) : Order[i] = Order[j] => i = j
BY BoundsHold, BuildBounds DEF Streams!StreamBounds, Streams!IsInjective, IsFiniteSet

LEMMA DiffTells ==
  ASSUME NEW old \in Tables, NEW new \in Tables, NEW D, D = Streams!Diff(old, new)
  PROVE  /\ Len(D) \in Nat /\ DOMAIN D = 1..Len(D)
         /\ \A i \in 1..Len(D) : D[i].track \in Entities /\ D[i].value = new[D[i].track]
         /\ \A x \in Entities : old[x] # new[x] => \E i \in 1..Len(D) : D[i].track = x
<1> DEFINE S == Streams!Differing(old, new)
           key == [x \in S |-> Streams!SortKey(new, x)]
           n == Cardinality(S)
           at(i) == CHOOSE x \in S : Streams!Sorted(old, new, x) = i
<1>1. S \in SUBSET Entities /\ IsFiniteSet(S)
  BY OrderOK, FS_Subset DEF Streams!Differing
<1>2. /\ \A x \in S : key[x] \in Nat
      /\ \A x, y \in S : key[x] = key[y] => x = y
  <2> DEFINE pos(x) == CHOOSE i \in DOMAIN Order : Order[i] = x
  <2>1. DOMAIN Order = 1..Len(Order) /\ Len(Order) \in Nat
    BY OrderOK
  <2>2. \A x \in S : pos(x) \in 1..Len(Order) /\ Order[pos(x)] = x
    BY <1>1, <2>1, OrderOK
  <2>3. \A x \in S : key[x] = IF new[x] = 0 THEN 2 * Len(Order) + 1 - pos(x) ELSE pos(x)
    BY DEF Streams!SortKey
  <2> HIDE DEF pos, key, S
  <2>4. \A x, y \in S : pos(x) = pos(y) => x = y
    BY <2>2
  <2>5. \A x \in S : key[x] \in Nat
    BY <2>1, <2>2, <2>3
  <2>6. ASSUME NEW x \in S, NEW y \in S, key[x] = key[y] PROVE pos(x) = pos(y)
    <3>1. PICK a, b, l : l = Len(Order) /\ a = pos(x) /\ b = pos(y)
      OBVIOUS
    <3>2. l \in Nat /\ a \in 1..l /\ b \in 1..l
      BY <2>1, <2>2, <3>1
    <3>3. (IF new[x] = 0 THEN 2 * l + 1 - a ELSE a) = (IF new[y] = 0 THEN 2 * l + 1 - b ELSE b)
      BY <2>3, <2>6, <3>1
    <3>4. ASSUME new[x] = 0, new[y] # 0 PROVE FALSE
      BY <3>1, <3>2, <3>3, <3>4
    <3>5. ASSUME new[x] # 0, new[y] = 0 PROVE FALSE
      BY <3>1, <3>2, <3>3, <3>5
    <3>6. a = b
      BY <3>1, <3>2, <3>3, <3>4, <3>5
    <3> QED
      BY <3>1, <3>6
  <2> QED
    BY <2>4, <2>5, <2>6
<1>3. \A x \in S : Streams!Sorted(old, new, x) = Rank(S, key, x)
  <2> SUFFICES ASSUME NEW x \in S PROVE Streams!Sorted(old, new, x) = Rank(S, key, x)
    OBVIOUS
  <2>1. {y \in S : Streams!SortKey(new, y) <= Streams!SortKey(new, x)} = {y \in S : key[y] <= key[x]}
    OBVIOUS
  <2> QED
    BY <2>1, StreamsCardinality DEF Streams!Sorted, Rank
<1>4. key \in [S -> Nat]
  BY <1>2
<1>5. Streams!Diff(old, new) = [i \in 1..n |-> [track |-> at(i), value |-> new[at(i)]]]
  BY StreamsCardinality DEF Streams!Diff
<1> HIDE DEF S, key
<1>6. /\ n \in Nat /\ \A x \in S : Streams!Sorted(old, new, x) \in 1..n
      /\ \A x, y \in S : Streams!Sorted(old, new, x) = Streams!Sorted(old, new, y) => x = y
      /\ \A i \in 1..n : \E x \in S : Streams!Sorted(old, new, x) = i
  BY <1>1, <1>2, <1>3, <1>4, Ranked
<1>7. \A i \in 1..n : at(i) \in S /\ Streams!Sorted(old, new, at(i)) = i
  BY <1>6
<1>8. \A x \in S : at(Streams!Sorted(old, new, x)) = x
  BY <1>6, <1>7
<1> HIDE DEF at, n
<1>9. Len(D) = n /\ DOMAIN D = 1..n /\ \A i \in 1..n : D[i] = [track |-> at(i), value |-> new[at(i)]]
  BY <1>5, <1>6
<1>10. ASSUME NEW x \in Entities, old[x] # new[x] PROVE \E i \in 1..n : D[i].track = x
  <2>1. x \in S
    BY <1>10 DEF S, Streams!Differing
  <2> QED
    BY <1>6, <1>8, <1>9, <2>1
<1> QED
  BY <1>1, <1>6, <1>7, <1>9, <1>10

LEMMA BlankIsTable == Streams!Blank \in Tables
BY DEF Streams!Blank, Tables

LEMMA LatestIsTable ==
  ASSUME NEW st, NEW gens, NEW log, StreamOK(st, gens, log)
  PROVE  Latest(st, gens) \in Tables
BY BlankIsTable DEF StreamOK, Latest

LEMMA CompactedState ==
  ASSUME NEW st, StateIsRecord(st), st.head \in Nat, st.floor \in 0..st.head,
         NEW st2, st2 = Streams!Compacted(st)
  PROVE  /\ StateIsRecord(st2) /\ st2.gen = st.gen /\ st2.epoch = st.epoch /\ st2.head = st.head
         /\ st2.floor \in Nat /\ st2.floor >= st.floor /\ st2.floor <= st2.head
<1>1. PICK f, h : f = st.floor /\ h = st.head
  OBVIOUS
<1>2. PICK floor : floor = Streams!MaxOf(f, Streams!TargetFloor(h))
  OBVIOUS
<1>3. h \in Nat /\ f \in 0..h /\ History \in Nat
  BY <1>1, BoundsHold DEF Streams!StreamBounds
<1>4. floor \in Nat /\ floor >= f /\ floor <= h
  BY <1>2, <1>3 DEF Streams!MaxOf, Streams!TargetFloor
<1>5. st2 = [st EXCEPT !.floor = floor]
  BY <1>1, <1>2 DEF Streams!Compacted
<1>6. /\ st2.gen = st.gen /\ st2.epoch = st.epoch /\ st2.head = st.head /\ st2.floor = floor
      /\ StateIsRecord(st2)
  BY <1>5 DEF StateIsRecord
<1> QED
  BY <1>1, <1>4, <1>6

\* The journal of a publication, with the events its floor leaves.
LEMMA PublicationGrows ==
  ASSUME NEW st, NEW gens, NEW log, StreamOK(st, gens, log), NEW new \in Tables,
         NEW D, D = Streams!Diff(Latest(st, gens), new),
         NEW st1, StateIsRecord(st1), st1.gen = st.gen + 1, st1.epoch = st.epoch,
         st1.head = st.head + Len(D), st1.floor = st.floor,
         NEW st2, st2 = Streams!Compacted(st1),
         NEW gens2, st2.gen \in DOMAIN gens2, DOMAIN gens2 \subseteq DOMAIN gens \cup {st2.gen},
         gens2[st2.gen] = new, \A g \in DOMAIN gens2 \ {st2.gen} : gens2[g] = gens[g],
         NEW log2, log2 = Streams!Trimmed(Streams!Appended(log, st.head, D), st2.floor)
  PROVE  Grows(st, gens, log, st2, gens2, log2)
<1>1. PICK floor, head, d, floor2 :
        floor = st.floor /\ head = st.head /\ d = Len(D) /\ floor2 = st2.floor
  OBVIOUS
<1>2. PICK old : old = Latest(st, gens)
  OBVIOUS
<1>3. old \in Tables
  BY <1>2, LatestIsTable
<1>4. /\ d \in Nat /\ DOMAIN D = 1..d
      /\ \A i \in 1..d : D[i].track \in Entities /\ D[i].value = new[D[i].track]
      /\ \A x \in Entities : old[x] # new[x] => \E i \in 1..d : D[i].track = x
  BY <1>1, <1>2, <1>3, DiffTells
<1>5. head \in Nat /\ floor \in 0..head /\ DOMAIN log = floor + 1..head
  BY <1>1 DEF StreamOK
<1>6. /\ StateIsRecord(st2) /\ st2.gen = st.gen + 1 /\ st2.epoch = st.epoch /\ st2.head = head + d
      /\ floor2 \in Nat /\ floor2 >= floor /\ floor2 <= head + d
  <2>1. st1.head \in Nat /\ st1.floor \in 0..st1.head
    BY <1>1, <1>4, <1>5
  <2> QED
    BY <1>1, <2>1, CompactedState
<1>7. PICK all2 : all2 = Streams!Appended(log, head, D)
  OBVIOUS
<1>8. /\ DOMAIN all2 = floor + 1..head + d
      /\ \A m \in floor + 1..head + d : all2[m] = IF m > head THEN D[m - head] ELSE log[m]
  <2>1. DOMAIN log \cup (head + 1)..(head + d) = floor + 1..head + d
    BY <1>4, <1>5
  <2>2. all2 = [n \in DOMAIN log \cup (head + 1)..(head + d) |-> IF n > head THEN D[n - head] ELSE log[n]]
    BY <1>1, <1>7 DEF Streams!Appended
  <2> QED
    BY <2>1, <2>2
<1>9. /\ DOMAIN log2 = floor2 + 1..head + d
      /\ \A m \in DOMAIN log2 : m \in floor + 1..head + d /\ log2[m] = all2[m]
  <2>1. log2 = [n \in {n \in DOMAIN all2 : n > floor2} |-> all2[n]]
    BY <1>1, <1>7 DEF Streams!Trimmed
  <2>2. {n \in DOMAIN all2 : n > floor2} = floor2 + 1..head + d
    BY <1>4, <1>5, <1>6, <1>8
  <2>3. floor2 + 1..head + d \subseteq floor + 1..head + d
    BY <1>4, <1>5, <1>6
  <2> QED
    BY <2>1, <2>2, <2>3
<1>10. \A m \in DOMAIN log2 : m <= head => log2[m] = log[m]
  BY <1>5, <1>8, <1>9
<1>11. \A m \in DOMAIN log2 : m > head => m - head \in 1..d /\ log2[m] = D[m - head]
  BY <1>4, <1>5, <1>8, <1>9
<1>12. \A m \in DOMAIN log2 : m > head => log2[m].track \in Entities /\ log2[m].value = new[log2[m].track]
  BY <1>4, <1>11
<1>13. ASSUME floor2 <= head, NEW x \in Entities, old[x] # new[x]
       PROVE  \E m \in head + 1..head + d : log2[m].track = x
  <2>1. PICK i \in 1..d : D[i].track = x
    BY <1>4, <1>13
  <2>2. /\ head + i \in head + 1..head + d /\ head + i \in DOMAIN log2 /\ head + i > head
        /\ (head + i) - head = i
    BY <1>4, <1>5, <1>6, <1>9, <1>13
  <2> QED
    BY <1>11, <2>1, <2>2
<1>14. head + d \in Nat /\ head + d >= head
  BY <1>4, <1>5
<1> QED
  BY <1>1, <1>2, <1>6, <1>9, <1>10, <1>12, <1>13, <1>14 DEF Grows

\* What is stored after a prune.
LEMMA PrunedGenerations ==
  ASSUME NEW s, NEW gens, NEW g, NEW gens2, gens2 = Streams!Pruned(s, gens, g)
  PROVE  /\ DOMAIN gens2 \subseteq DOMAIN gens /\ \A k \in DOMAIN gens2 : gens2[k] = gens[k]
         /\ \A k \in DOMAIN gens : k >= g => k \in DOMAIN gens2
BY DEF Streams!Pruned

LEMMA PruneShrinks ==
  ASSUME NEW st, NEW gens, NEW log, StreamOK(st, gens, log),
         NEW s, NEW g \in Nat, g <= st.gen, NEW gens2, gens2 = Streams!Pruned(s, gens, g),
         NEW st2, NEW log2,
         \/ st2 = st /\ log2 = log
         \/ st2 = Streams!Compacted(st) /\ log2 = Streams!Trimmed(log, Streams!Compacted(st).floor)
  PROVE  Shrinks(st, gens, log, st2, gens2, log2)
<1>1. /\ DOMAIN gens2 \subseteq DOMAIN gens /\ \A k \in DOMAIN gens2 : gens2[k] = gens[k]
      /\ st.gen > 0 => st.gen \in DOMAIN gens2
  BY PrunedGenerations DEF StreamOK
<1>2. CASE st2 = st /\ log2 = log
  BY <1>1, <1>2 DEF StreamOK, Shrinks
<1>3. CASE st2 = Streams!Compacted(st) /\ log2 = Streams!Trimmed(log, Streams!Compacted(st).floor)
  <2>1. /\ StateIsRecord(st2) /\ st2.gen = st.gen /\ st2.epoch = st.epoch /\ st2.head = st.head
        /\ st2.floor \in Nat /\ st2.floor >= st.floor /\ st2.floor <= st2.head
    BY <1>3, CompactedState DEF StreamOK
  <2>2. PICK floor, head, floor2 : floor = st.floor /\ head = st.head /\ floor2 = st2.floor
    OBVIOUS
  <2>3. log2 = [n \in {n \in DOMAIN log : n > floor2} |-> log[n]]
    BY <1>3, <2>2 DEF Streams!Trimmed
  <2>4. floor \in Nat /\ head \in Nat /\ DOMAIN log = floor + 1..head
    BY <2>2 DEF StreamOK
  <2>5. {n \in DOMAIN log : n > floor2} = floor2 + 1..head
    BY <2>1, <2>2, <2>4
  <2>6. DOMAIN log2 = floor2 + 1..head /\ \A m \in DOMAIN log2 : log2[m] = log[m]
    BY <2>3, <2>5
  <2> QED
    BY <1>1, <2>1, <2>2, <2>6 DEF Shrinks
<1> QED
  BY <1>2, <1>3

-----------------------------------------------------------------------------
(* The invariant, and the steps of the catalogue.                            *)

AnalysisState == state["analysis"]
AnalysisRows == results["analysis"]
CatalogLog == journal["catalog"]
AnalysisLog == journal["analysis"]

IsWritten(b) == b.kind = "project" /\ b.step = "written"

\* What a refresh or a projection in progress has read and written.
JobFits(b) ==
    /\ b.kind = "refresh" /\ b.step \in {"fetched", "built"} => b.scan \in Tables
    /\ b.kind = "refresh" /\ b.step = "built" =>
         /\ b.old \in Tables /\ b.base.gen \in Nat /\ b.base.gen <= CatalogState.gen
         /\ b.base.gen = CatalogState.gen => b.old = Latest(CatalogState, CatalogRows)
    /\ b.kind = "project" /\ b.step = "read" => b.links \in Tables
    /\ IsWritten(b) => Grows(AnalysisState, AnalysisRows, AnalysisLog, b.state, b.rows, b.journal)

ReaderFits(c) ==
    \/ c = Streams!Away
    \/ c.stream \in Streams!Streams /\ ReaderOK(state[c.stream], results[c.stream], journal[c.stream], c)

FeedsInv ==
    /\ DOMAIN journal = Streams!Streams /\ live \in Tables
    /\ \A s \in Streams!Streams : StreamOK(state[s], results[s], journal[s])
    /\ \A r \in Clients : ReaderFits(reader[r])
    /\ \A p \in Procs : JobFits(builder[p])
    /\ \A p, q \in Procs : IsWritten(builder[p]) /\ IsWritten(builder[q]) => p = q

LEMMA FeedsBegin == ASSUME Streams!Init PROVE FeedsInv
<1>1. PICK st : st = [gen |-> 0, epoch |-> 0, head |-> 0, floor |-> 0, schema |-> "current"]
  OBVIOUS
<1>2. /\ \A s \in Streams!Streams : state[s] = st /\ results[s] = << >> /\ journal[s] = << >>
      /\ DOMAIN journal = Streams!Streams /\ live \in Tables
      /\ \A p \in Procs : builder[p].kind = "idle"
      /\ \A r \in Clients : reader[r] = Streams!Away
  BY <1>1 DEF Streams!Init, Streams!NoGenerations, Streams!Idle, Tables
<1>3. StreamOK(st, << >>, << >>)
  BY <1>1 DEF StreamOK, StateIsRecord, LogTells
<1> QED
  BY <1>2, <1>3 DEF FeedsInv, ReaderFits, JobFits, IsWritten

LEMMA StreamsFollowed ==
  ASSUME LeasesInv, FeedsInv
  PROVE  Streams!ReadersHoldPublished
<1> SUFFICES ASSUME NEW r \in Clients, NEW c, c = reader[r], c.phase = "following", ~c.torn,
                    c.epoch = state[c.stream].epoch, c.seq = state[c.stream].head
             PROVE  c.copy = Streams!Published(c.stream)
  BY DEF Streams!ReadersHoldPublished
<1>1. PICK st, gens, log : st = state[c.stream] /\ gens = results[c.stream] /\ log = journal[c.stream]
  OBVIOUS
<1>2. c # Streams!Away
  BY DEF Streams!Away
<1>3. c.stream \in Streams!Streams /\ ReaderOK(st, gens, log, c) /\ StreamOK(st, gens, log)
  BY <1>1, <1>2 DEF FeedsInv, ReaderFits
<1>4. PICK new : new = Latest(st, gens)
  OBVIOUS
<1>5. st.head \in Nat /\ st.floor \in 0..st.head /\ DOMAIN log = st.floor + 1..st.head
  BY <1>3 DEF StreamOK
<1>6. InFeed(st, c)
  BY <1>1, <1>5 DEF InFeed
<1>7. TableFollows(log, new, c.copy, st.head) /\ c.copy \in Tables /\ new \in Tables
  BY <1>1, <1>3, <1>4, <1>6, LatestIsTable DEF ReaderOK
<1>8. \A x \in Entities : Hushed(log, st.head, x)
  BY <1>5 DEF Hushed
<1>9. c.copy = new
  BY <1>7, <1>8 DEF TableFollows, Tables
<1> QED
  BY <1>1, <1>4, <1>9 DEF Latest, Streams!Published, Streams!Stored

\* A step of a refresh or a projection that stores nothing.
LEMMA FeedsJob ==
  ASSUME LeasesInv, FeedsInv, NEW p \in Procs, NEW b, builder' = [builder EXCEPT ![p] = b],
         JobFits(b), IsWritten(b) => \A q \in Procs : ~IsWritten(builder[q]),
         UNCHANGED <<live, state, results, journal, reader>>
  PROVE  FeedsInv'
<1>1. builder'[p] = b /\ \A q \in Procs \ {p} : builder'[q] = builder[q]
  BY DEF LeasesInv, GenerationsInv
<1>2. /\ \A c : JobFits(c)' <=> JobFits(c)
      /\ \A c : ReaderFits(c)' <=> ReaderFits(c)
  BY DEF JobFits, ReaderFits, CatalogState, CatalogRows, AnalysisState, AnalysisRows, AnalysisLog
<1>3. \A q \in Procs : JobFits(builder[q])'
  BY <1>1, <1>2 DEF FeedsInv
<1> QED
  BY <1>1, <1>2, <1>3 DEF FeedsInv, IsWritten

\* A step that publishes or prunes.
LEMMA FeedsChange ==
  ASSUME LeasesInv, FeedsInv, UNCHANGED live, DOMAIN journal' = Streams!Streams,
         \A s \in Streams!Streams :
           /\ StreamOK(state'[s], results'[s], journal'[s])
           /\ \A r \in Clients : reader'[r] # Streams!Away
                /\ ReaderOK(state[s], results[s], journal[s], reader[r])
                => ReaderOK(state'[s], results'[s], journal'[s], reader[r]),
         \A r \in Clients : reader'[r] = Streams!Away \/ reader'[r] = reader[r],
         \A q \in Procs : builder'[q] = builder[q] \/ builder'[q].kind \notin {"refresh", "project"},
         CatalogState'.gen \in Nat,
         \/ CatalogState'.gen > CatalogState.gen
         \/ /\ CatalogState'.gen = CatalogState.gen
            /\ Latest(CatalogState', CatalogRows') = Latest(CatalogState, CatalogRows),
         \/ \A q \in Procs : ~IsWritten(builder'[q])
         \/ /\ AnalysisState' = AnalysisState /\ AnalysisRows' = AnalysisRows
            /\ AnalysisLog' = AnalysisLog
  PROVE  FeedsInv'
<1>1. ASSUME NEW r \in Clients PROVE ReaderFits(reader[r])'
  <2>1. CASE reader'[r] = Streams!Away
    BY <2>1 DEF ReaderFits
  <2>2. CASE reader'[r] # Streams!Away
    <3>1. PICK c : c = reader[r]
      OBVIOUS
    <3>2. reader'[r] = c /\ ReaderFits(c) /\ c # Streams!Away
      BY <2>2, <3>1 DEF FeedsInv
    <3>3. PICK s : s = c.stream
      OBVIOUS
    <3>4. s \in Streams!Streams /\ ReaderOK(state[s], results[s], journal[s], c)
      BY <3>2, <3>3 DEF ReaderFits
    <3>5. ReaderOK(state'[s], results'[s], journal'[s], c)
      BY <2>2, <3>1, <3>4
    <3> QED
      BY <3>2, <3>3, <3>4, <3>5 DEF ReaderFits
  <2> QED
    BY <2>1, <2>2
<1>2. ASSUME NEW q \in Procs PROVE JobFits(builder[q])'
  <2>1. CASE builder'[q].kind \notin {"refresh", "project"}
    BY <2>1 DEF JobFits, IsWritten
  <2>2. CASE builder'[q] = builder[q]
    <3>1. PICK b : b = builder[q]
      OBVIOUS
    <3>2. JobFits(b) /\ builder'[q] = b
      BY <2>2, <3>1 DEF FeedsInv
    <3>3. b.kind = "refresh" /\ b.step = "built" =>
            /\ b.old \in Tables /\ b.base.gen \in Nat /\ b.base.gen <= CatalogState'.gen
            /\ b.base.gen = CatalogState'.gen => b.old = Latest(CatalogState', CatalogRows')
      <4>1. CatalogState.gen \in Nat
        BY DEF LeasesInv, GenerationsInv
      <4> QED
        BY <3>2, <4>1 DEF JobFits
    <3>4. IsWritten(b) => Grows(AnalysisState', AnalysisRows', AnalysisLog', b.state, b.rows, b.journal)
      BY <3>2 DEF JobFits
    <3>5. /\ b.kind = "refresh" /\ b.step \in {"fetched", "built"} => b.scan \in Tables
          /\ b.kind = "project" /\ b.step = "read" => b.links \in Tables
      BY <3>2 DEF JobFits
    <3> QED
      BY <3>2, <3>3, <3>4, <3>5 DEF JobFits, IsWritten
  <2> QED
    BY <2>1, <2>2
<1>3. \A p, q \in Procs : IsWritten(builder'[p]) /\ IsWritten(builder'[q]) => p = q
  BY DEF FeedsInv, IsWritten
<1> QED
  BY <1>1, <1>2, <1>3 DEF FeedsInv, IsWritten

\* Only the catalogue changes, and it grows or shrinks.
LEMMA FeedsCatalog ==
  ASSUME LeasesInv, FeedsInv, UNCHANGED live, NEW st2, NEW gens2, NEW log2,
         CatalogState' = st2, CatalogRows' = gens2, CatalogLog' = log2,
         UNCHANGED <<AnalysisState, AnalysisRows, AnalysisLog>>, DOMAIN journal' = Streams!Streams,
         \/ Grows(CatalogState, CatalogRows, CatalogLog, st2, gens2, log2)
         \/ Shrinks(CatalogState, CatalogRows, CatalogLog, st2, gens2, log2),
         \A r \in Clients : reader'[r] = Streams!Away \/ reader'[r] = reader[r],
         \A q \in Procs : builder'[q] = builder[q] \/ builder'[q].kind \notin {"refresh", "project"}
  PROVE  FeedsInv'
<1>1. Streams!Streams = {"catalog", "analysis"}
  BY DEF Streams!Streams
<1>2. AnalysisState' = AnalysisState /\ AnalysisRows' = AnalysisRows /\ AnalysisLog' = AnalysisLog
  OBVIOUS
<1>3. StreamOK(CatalogState, CatalogRows, CatalogLog) /\ StreamOK(AnalysisState, AnalysisRows, AnalysisLog)
  BY <1>1 DEF FeedsInv, CatalogState, CatalogRows, CatalogLog, AnalysisState, AnalysisRows, AnalysisLog
<1>4. /\ StreamOK(st2, gens2, log2)
      /\ \A c : ReaderOK(CatalogState, CatalogRows, CatalogLog, c) => ReaderOK(st2, gens2, log2, c)
  BY <1>3, GrowthFeeds, ShrinkFeeds
<1>5. st2.gen \in Nat /\ CatalogState.gen \in Nat
  BY <1>3, <1>4 DEF StreamOK
<1>6. \/ st2.gen > CatalogState.gen
      \/ st2.gen = CatalogState.gen /\ Latest(st2, gens2) = Latest(CatalogState, CatalogRows)
  <2>1. CASE Grows(CatalogState, CatalogRows, CatalogLog, st2, gens2, log2)
    BY <1>5, <2>1 DEF Grows
  <2>2. CASE Shrinks(CatalogState, CatalogRows, CatalogLog, st2, gens2, log2)
    <3>1. Latest(st2, gens2) = Latest(CatalogState, CatalogRows)
      BY <1>3, <2>2, ShrinkFeeds
    <3>2. st2.gen = CatalogState.gen
      BY <2>2 DEF Shrinks
    <3> QED
      BY <3>1, <3>2
  <2> QED
    BY <2>1, <2>2
<1>7. \A s \in Streams!Streams :
        /\ StreamOK(state'[s], results'[s], journal'[s])
        /\ \A c : ReaderOK(state[s], results[s], journal[s], c)
                  => ReaderOK(state'[s], results'[s], journal'[s], c)
  BY <1>1, <1>2, <1>3, <1>4 DEF CatalogState, CatalogRows, CatalogLog, AnalysisState, AnalysisRows, AnalysisLog
<1> QED
  BY <1>2, <1>5, <1>6, <1>7, FeedsChange

LEMMA RebasedFeeds ==
  ASSUME NEW st, NEW gens, NEW log, StreamOK(st, gens, log), NEW st2, NEW gens2, NEW log2,
         StateIsRecord(st2), st2.gen = st.gen + 1, st2.epoch = st.epoch + 1, st2.head = 0, st2.floor = 0,
         st2.gen \in DOMAIN gens2, DOMAIN gens2 \subseteq DOMAIN gens \cup {st2.gen},
         \A g \in DOMAIN gens2 : gens2[g] \in Tables, DOMAIN log2 = {}
  PROVE  /\ StreamOK(st2, gens2, log2)
         /\ \A c : ReaderOK(st, gens, log, c) /\ c.phase # "paging" => ReaderOK(st2, gens2, log2, c)
<1>1. st.gen \in Nat /\ st.epoch \in Nat /\ DOMAIN gens2 \subseteq 1..st2.gen
  BY DEF StreamOK
<1>2. StreamOK(st2, gens2, log2)
  BY <1>1 DEF StreamOK, LogTells
<1> QED
  BY <1>1, <1>2 DEF ReaderOK, InFeed

\* A step writes the catalogue: its state, generations and journal.
LEMMA CatalogWritten ==
  ASSUME LeasesInv, FeedsInv, NEW st2, NEW gens2, NEW log2,
         state' = [state EXCEPT !["catalog"] = st2],
         results' = [results EXCEPT !["catalog"] = gens2] \/ (results' = results /\ gens2 = CatalogRows),
         journal' = [journal EXCEPT !["catalog"] = log2] \/ (journal' = journal /\ log2 = CatalogLog)
  PROVE  /\ CatalogState' = st2 /\ CatalogRows' = gens2 /\ CatalogLog' = log2
         /\ UNCHANGED <<AnalysisState, AnalysisRows, AnalysisLog>> /\ DOMAIN journal' = Streams!Streams
BY DEF Streams!Streams, LeasesInv, GenerationsInv, FeedsInv, CatalogState, CatalogRows, CatalogLog,
   AnalysisState, AnalysisRows, AnalysisLog

LEMMA CatalogIsOK ==
  ASSUME FeedsInv
  PROVE  /\ StreamOK(CatalogState, CatalogRows, CatalogLog)
         /\ StreamOK(AnalysisState, AnalysisRows, AnalysisLog)
BY DEF Streams!Streams, FeedsInv, CatalogState, CatalogRows, CatalogLog,
   AnalysisState, AnalysisRows, AnalysisLog

\* Another schema, and nothing else.
LEMMA SchemaShrinks ==
  ASSUME NEW st, NEW gens, NEW log, StreamOK(st, gens, log), NEW schema,
         NEW st2, st2 = [st EXCEPT !.schema = schema]
  PROVE  Shrinks(st, gens, log, st2, gens, log)
<1>1. StateIsRecord(st)
  BY DEF StreamOK
<1>2. /\ StateIsRecord(st2) /\ st2.gen = st.gen /\ st2.epoch = st.epoch /\ st2.head = st.head
      /\ st2.floor = st.floor
  BY <1>1 DEF StateIsRecord
<1> QED
  BY <1>2 DEF StreamOK, Shrinks

LEMMA FeedsPublish ==
  ASSUME LeasesInv, FeedsInv, NEW p \in Procs, Streams!Publish(p)
  PROVE  FeedsInv'
<1>1. PICK job : job = builder[p]
  OBVIOUS
<1>2. PICK base, old, scan : base = job.base /\ old = job.old /\ scan = job.scan
  OBVIOUS
<1>3. PICK D : D = IF Streams!Rebased(base) THEN <<>> ELSE Streams!Diff(old, scan)
  OBVIOUS
<1>4. PICK st1 : st1 = Streams!NewState(base, D)
  OBVIOUS
<1>5. PICK st2 : st2 = Streams!Compacted(st1)
  OBVIOUS
<1>6. PICK gens2 : gens2 = Streams!Inserted(CatalogRows, st2.gen, scan)
  OBVIOUS
<1>7. PICK log : log = IF Streams!Rebased(base) THEN <<>> ELSE CatalogLog
  OBVIOUS
<1>8. PICK log2 : log2 = Streams!Trimmed(Streams!Appended(log, st2.head - Len(D), D), st2.floor)
  OBVIOUS
<1>9. PICK b : b = [kind |-> "finished", started |-> job.started, ok |-> TRUE, gen |-> st2.gen]
  OBVIOUS
<1>10. /\ state' = [state EXCEPT !["catalog"] = st2]
       /\ results' = [results EXCEPT !["catalog"] = gens2]
       /\ journal' = [journal EXCEPT !["catalog"] = log2]
       /\ builder' = [builder EXCEPT ![p] = b] /\ live' = live
       /\ reader' = [r \in Clients |->
            IF Streams!Rebased(base) /\ reader[r].phase = "paging" THEN Streams!Away ELSE reader[r]]
  BY <1>1, <1>2, <1>3, <1>4, <1>5, <1>6, <1>7, <1>8, <1>9 DEF Streams!Publish, CatalogLog, CatalogRows,
     Streams!world
<1>11. /\ job.kind = "refresh" /\ job.step = "built" /\ JobFits(job)
       /\ base.gen = CatalogState.gen /\ base.epoch = CatalogState.epoch /\ base.head = CatalogState.head
  BY <1>1, <1>2 DEF Streams!Publish, Streams!Moved, CatalogState, FeedsInv
<1>12. scan \in Tables /\ old = Latest(CatalogState, CatalogRows)
  BY <1>2, <1>11 DEF JobFits
<1>13. StreamOK(CatalogState, CatalogRows, CatalogLog)
  BY CatalogIsOK
<1>14. /\ CatalogState' = st2 /\ CatalogRows' = gens2 /\ CatalogLog' = log2
       /\ UNCHANGED <<AnalysisState, AnalysisRows, AnalysisLog>> /\ DOMAIN journal' = Streams!Streams
  BY <1>10, CatalogWritten
<1>15. \A q \in Procs : builder'[q] = builder[q] \/ builder'[q].kind \notin {"refresh", "project"}
  BY <1>9, <1>10 DEF LeasesInv, GenerationsInv
<1>16. \A r \in Clients : reader'[r] = Streams!Away \/ reader'[r] = reader[r]
  BY <1>10
<1>17. CASE ~Streams!Rebased(base)
  <2>1. D = Streams!Diff(Latest(CatalogState, CatalogRows), scan) /\ log = CatalogLog
    BY <1>3, <1>7, <1>12, <1>17
  <2>2. PICK st : st = CatalogState
    OBVIOUS
  <2>3. st1 = [st EXCEPT !.gen = base.gen + 1, !.head = base.head + Len(D), !.schema = "current"]
    BY <1>4, <1>17, <2>2 DEF Streams!NewState, CatalogState
  <2>4. /\ StateIsRecord(st1) /\ st1.gen = st.gen + 1 /\ st1.epoch = st.epoch
        /\ st1.head = st.head + Len(D) /\ st1.floor = st.floor
    BY <1>11, <1>13, <2>2, <2>3 DEF StreamOK, StateIsRecord
  <2>5. Len(D) \in Nat
    BY <1>12, <1>13, <2>1, DiffTells, LatestIsTable
  <2>6. st1.head \in Nat /\ st1.floor \in 0..st1.head /\ st.head \in Nat
    BY <1>13, <2>2, <2>4, <2>5 DEF StreamOK
  <2>7. st2.gen = st1.gen /\ st2.head - Len(D) = st.head
    BY <1>5, <2>4, <2>5, <2>6, CompactedState
  <2>8. /\ st2.gen \in DOMAIN gens2 /\ DOMAIN gens2 \subseteq DOMAIN CatalogRows \cup {st2.gen}
        /\ gens2[st2.gen] = scan /\ \A g \in DOMAIN gens2 \ {st2.gen} : gens2[g] = CatalogRows[g]
    BY <1>6 DEF Streams!Inserted
  <2>9. log2 = Streams!Trimmed(Streams!Appended(CatalogLog, CatalogState.head, D), st2.floor)
    BY <1>8, <2>1, <2>2, <2>7
  <2>10. Grows(CatalogState, CatalogRows, CatalogLog, st2, gens2, log2)
    BY <1>5, <1>12, <1>13, <2>1, <2>2, <2>4, <2>8, <2>9, PublicationGrows
  <2> QED
    BY <1>10, <1>14, <1>15, <1>16, <2>10, FeedsCatalog
<1>18. CASE Streams!Rebased(base)
  <2>1. D = <<>> /\ log = <<>> /\ Len(D) = 0
    BY <1>3, <1>7, <1>18
  <2>2. st1 = [gen |-> base.gen + 1, epoch |-> base.epoch + 1, head |-> 0, floor |-> 0, schema |-> "current"]
    BY <1>4, <1>18 DEF Streams!NewState
  <2>3. StateIsRecord(st1) /\ st1.head = 0 /\ st1.floor = 0
    BY <2>2 DEF StateIsRecord
  <2>4. /\ StateIsRecord(st2) /\ st2.gen = CatalogState.gen + 1 /\ st2.epoch = CatalogState.epoch + 1
        /\ st2.head = 0 /\ st2.floor = 0
    <3>1. /\ StateIsRecord(st2) /\ st2.gen = st1.gen /\ st2.epoch = st1.epoch /\ st2.head = st1.head
          /\ st2.floor \in Nat /\ st2.floor <= st2.head
      BY <1>5, <2>3, CompactedState
    <3> QED
      BY <1>11, <2>2, <2>3, <3>1
  <2>5. DOMAIN log2 = {}
    BY <1>8, <2>1, <2>4 DEF Streams!Trimmed, Streams!Appended
  <2>6. /\ st2.gen \in DOMAIN gens2 /\ DOMAIN gens2 \subseteq DOMAIN CatalogRows \cup {st2.gen}
        /\ \A g \in DOMAIN gens2 : gens2[g] \in Tables
    BY <1>6, <1>12, <1>13 DEF StreamOK, Streams!Inserted
  <2>7. /\ StreamOK(st2, gens2, log2)
        /\ \A c : ReaderOK(CatalogState, CatalogRows, CatalogLog, c) /\ c.phase # "paging"
                  => ReaderOK(st2, gens2, log2, c)
    BY <1>13, <2>4, <2>5, <2>6, RebasedFeeds
  <2>8. \A r \in Clients : reader'[r] # Streams!Away => reader[r].phase # "paging"
    BY <1>10, <1>18
  <2>9. \A s \in Streams!Streams :
          /\ StreamOK(state'[s], results'[s], journal'[s])
          /\ \A r \in Clients : reader'[r] # Streams!Away
               /\ ReaderOK(state[s], results[s], journal[s], reader[r])
               => ReaderOK(state'[s], results'[s], journal'[s], reader[r])
    BY <1>14, <2>7, <2>8, CatalogIsOK DEF Streams!Streams, CatalogState, CatalogRows, CatalogLog,
       AnalysisState, AnalysisRows, AnalysisLog
  <2>10. CatalogState.gen \in Nat
    BY <1>13 DEF StreamOK
  <2>11. CatalogState'.gen \in Nat /\ CatalogState'.gen > CatalogState.gen
    BY <1>14, <2>4, <2>10
  <2> QED
    BY <1>10, <1>14, <1>15, <1>16, <2>9, <2>11, FeedsChange
<1> QED
  BY <1>17, <1>18

LEMMA FeedsRefresh ==
  ASSUME LeasesInv, FeedsInv, NEW p \in Procs, Streams!RefreshStep(p)
  PROVE  FeedsInv'
<1>1. CASE Streams!Start(p)
  <2>1. PICK b : b = [kind |-> "refresh", step |-> "started", started |-> claims]
    OBVIOUS
  <2>2. JobFits(b) /\ ~IsWritten(b)
    BY <2>1 DEF JobFits, IsWritten
  <2> QED
    BY <1>1, <2>1, <2>2, FeedsJob DEF Streams!Start, Streams!tables, Streams!world
<1>2. CASE Streams!Fetch(p)
  <2>1. PICK b : b = [kind |-> "refresh", step |-> "fetched", started |-> builder[p].started, scan |-> live]
    OBVIOUS
  <2>2. JobFits(b) /\ ~IsWritten(b)
    BY <2>1 DEF JobFits, IsWritten, FeedsInv
  <2> QED
    BY <1>2, <2>1, <2>2, FeedsJob DEF Streams!Fetch, Streams!tables, Streams!world
<1>3. CASE Streams!Build(p)
  <2>1. PICK job : job = builder[p]
    OBVIOUS
  <2>2. PICK b : b = [kind |-> "refresh", step |-> "built", started |-> job.started,
                      scan |-> job.scan, base |-> CatalogState,
                      old |-> Latest(CatalogState, CatalogRows)]
    OBVIOUS
  <2>3. JobFits(job) /\ job.kind = "refresh" /\ job.step = "fetched"
    BY <1>3, <2>1 DEF Streams!Build, FeedsInv
  <2>4. CatalogState.gen \in Nat /\ Latest(CatalogState, CatalogRows) \in Tables
    BY CatalogIsOK, LatestIsTable DEF StreamOK
  <2>5. /\ b.kind = "refresh" /\ b.step = "built" /\ b.scan \in Tables /\ b.base = CatalogState
        /\ b.old = Latest(CatalogState, CatalogRows)
    BY <2>2, <2>3 DEF JobFits
  <2>6. JobFits(b) /\ ~IsWritten(b)
    BY <2>4, <2>5 DEF JobFits, IsWritten
  <2>7. Streams!Published("catalog") = Latest(CatalogState, CatalogRows)
    BY DEF Streams!Published, Streams!Stored, Latest, CatalogState, CatalogRows
  <2>8. builder' = [builder EXCEPT ![p] = b] /\ UNCHANGED <<live, state, results, journal, reader>>
    BY <1>3, <2>1, <2>2, <2>7 DEF Streams!Build, Streams!tables, Streams!world, CatalogState
  <2> QED
    BY <2>6, <2>8, FeedsJob
<1>4. CASE Streams!ConfirmUnchanged(p)
  <2>1. PICK b : b = [kind |-> "finished", started |-> builder[p].started, ok |-> TRUE]
    OBVIOUS
  <2>2. PICK st, st2 : st = CatalogState /\ st2 = [st EXCEPT !.schema = "current"]
    OBVIOUS
  <2>3. /\ builder' = [builder EXCEPT ![p] = b] /\ state' = [state EXCEPT !["catalog"].schema = "current"]
        /\ UNCHANGED <<live, results, journal, reader>>
    BY <1>4, <2>1 DEF Streams!ConfirmUnchanged, Streams!world
  <2>4. state' = [state EXCEPT !["catalog"] = st2]
    BY <2>2, <2>3 DEF CatalogState
  <2>5. /\ CatalogState' = st2 /\ CatalogRows' = CatalogRows /\ CatalogLog' = CatalogLog
        /\ UNCHANGED <<AnalysisState, AnalysisRows, AnalysisLog>> /\ DOMAIN journal' = Streams!Streams
    BY <2>3, <2>4, CatalogWritten
  <2>6. Shrinks(CatalogState, CatalogRows, CatalogLog, st2, CatalogRows, CatalogLog)
    BY <2>2, CatalogIsOK, SchemaShrinks
  <2>7. \A q \in Procs : builder'[q] = builder[q] \/ builder'[q].kind \notin {"refresh", "project"}
    BY <2>1, <2>3 DEF LeasesInv, GenerationsInv
  <2> QED
    BY <2>3, <2>5, <2>6, <2>7, FeedsCatalog
<1>5. CASE Streams!Publish(p)
  BY <1>5, FeedsPublish
<1>6. CASE Streams!FailRefresh(p)
  <2>1. PICK b : b = [kind |-> "finished", started |-> builder[p].started, ok |-> FALSE]
    OBVIOUS
  <2>2. JobFits(b) /\ ~IsWritten(b)
    BY <2>1 DEF JobFits, IsWritten
  <2> QED
    BY <1>6, <2>1, <2>2, FeedsJob DEF Streams!FailRefresh, Streams!tables, Streams!world
<1>7. CASE Streams!AfterPublication(p)
  <2>1. PICK b : b = [kind |-> "finished", started |-> builder[p].started, ok |-> TRUE]
    OBVIOUS
  <2>2. PICK g, gens2 : g = builder[p].gen /\ gens2 = Streams!Pruned("catalog", CatalogRows, g)
    OBVIOUS
  <2>3. g \in Nat /\ g <= CatalogState.gen
    BY <1>7, <2>2 DEF Streams!AfterPublication, LeasesInv, GenerationsInv
  <2>4. /\ builder' = [builder EXCEPT ![p] = b] /\ results' = [results EXCEPT !["catalog"] = gens2]
        /\ UNCHANGED <<live, state, journal, reader>>
    BY <1>7, <2>1, <2>2 DEF Streams!AfterPublication, Streams!world, CatalogRows
  <2>5. state' = [state EXCEPT !["catalog"] = CatalogState]
    BY <2>4 DEF LeasesInv, GenerationsInv, CatalogState
  <2>6. /\ CatalogState' = CatalogState /\ CatalogRows' = gens2 /\ CatalogLog' = CatalogLog
        /\ UNCHANGED <<AnalysisState, AnalysisRows, AnalysisLog>> /\ DOMAIN journal' = Streams!Streams
    BY <2>4, <2>5, CatalogWritten
  <2>7. Shrinks(CatalogState, CatalogRows, CatalogLog, CatalogState, gens2, CatalogLog)
    BY <2>2, <2>3, CatalogIsOK, PruneShrinks
  <2>8. \A q \in Procs : builder'[q] = builder[q] \/ builder'[q].kind \notin {"refresh", "project"}
    BY <2>1, <2>4 DEF LeasesInv, GenerationsInv
  <2> QED
    BY <2>4, <2>6, <2>7, <2>8, FeedsCatalog
<1>8. CASE Streams!Satisfy(p)
  <2>1. JobFits(Streams!Idle) /\ ~IsWritten(Streams!Idle)
    BY DEF JobFits, IsWritten, Streams!Idle
  <2> QED
    BY <1>8, <2>1, FeedsJob DEF Streams!Satisfy, Streams!tables, Streams!world
<1> QED
  BY <1>1, <1>2, <1>3, <1>4, <1>5, <1>6, <1>7, <1>8 DEF Streams!RefreshStep

LEMMA FeedsMaintain ==
  ASSUME LeasesInv, FeedsInv, Streams!PruneStorage \/ Streams!Upgrade
  PROVE  FeedsInv'
<1>1. CASE Streams!Upgrade
  <2>1. PICK st, st2 : st = CatalogState /\ st2 = [st EXCEPT !.schema = "old"]
    OBVIOUS
  <2>2. /\ state' = [state EXCEPT !["catalog"].schema = "old"]
        /\ UNCHANGED <<live, results, journal, builder, reader>>
    BY <1>1 DEF Streams!Upgrade, Streams!world
  <2>3. state' = [state EXCEPT !["catalog"] = st2]
    BY <2>1, <2>2 DEF CatalogState
  <2>4. /\ CatalogState' = st2 /\ CatalogRows' = CatalogRows /\ CatalogLog' = CatalogLog
        /\ UNCHANGED <<AnalysisState, AnalysisRows, AnalysisLog>> /\ DOMAIN journal' = Streams!Streams
    BY <2>2, <2>3, CatalogWritten
  <2>5. Shrinks(CatalogState, CatalogRows, CatalogLog, st2, CatalogRows, CatalogLog)
    BY <2>1, CatalogIsOK, SchemaShrinks
  <2> QED
    BY <2>2, <2>4, <2>5, FeedsCatalog
<1>2. CASE Streams!PruneStorage
  <2>1. /\ results' = [s \in Streams!Streams |-> Streams!Pruned(s, results[s], state[s].gen)]
        /\ state' = [s \in Streams!Streams |-> Streams!Compacted(state[s])]
        /\ journal' = [s \in Streams!Streams |->
             Streams!Trimmed(journal[s], Streams!Compacted(state[s]).floor)]
        /\ UNCHANGED <<live, builder, reader>>
        /\ \A q \in Procs : ~IsWritten(builder[q])
    BY <1>2 DEF Streams!PruneStorage, Streams!world, Streams!ProjectionLocked, IsWritten
  <2>2. ASSUME NEW s \in Streams!Streams
        PROVE  /\ StreamOK(state'[s], results'[s], journal'[s])
               /\ Latest(state'[s], results'[s]) = Latest(state[s], results[s])
               /\ state'[s].gen = state[s].gen /\ state[s].gen \in Nat
               /\ \A c : ReaderOK(state[s], results[s], journal[s], c)
                         => ReaderOK(state'[s], results'[s], journal'[s], c)
    <3>1. PICK st, gens, log : st = state[s] /\ gens = results[s] /\ log = journal[s]
      OBVIOUS
    <3>2. PICK st2, gens2, log2 : st2 = state'[s] /\ gens2 = results'[s] /\ log2 = journal'[s]
      OBVIOUS
    <3>3. /\ st2 = Streams!Compacted(st) /\ gens2 = Streams!Pruned(s, gens, st.gen)
          /\ log2 = Streams!Trimmed(log, Streams!Compacted(st).floor)
      BY <2>1, <3>1, <3>2
    <3>4. StreamOK(st, gens, log) /\ st.gen \in Nat /\ st.gen <= st.gen
      BY <3>1 DEF FeedsInv, StreamOK
    <3>5. Shrinks(st, gens, log, st2, gens2, log2)
      BY <3>3, <3>4, PruneShrinks
    <3>6. st2.gen = st.gen
      BY <3>5 DEF Shrinks
    <3>7. /\ StreamOK(st2, gens2, log2) /\ Latest(st2, gens2) = Latest(st, gens)
          /\ \A c : ReaderOK(st, gens, log, c) => ReaderOK(st2, gens2, log2, c)
      BY <3>4, <3>5, ShrinkFeeds
    <3> QED
      BY <3>1, <3>2, <3>4, <3>6, <3>7
  <2>3. "catalog" \in Streams!Streams /\ DOMAIN journal' = Streams!Streams
    BY <2>1 DEF Streams!Streams
  <2>4. /\ CatalogState'.gen \in Nat /\ CatalogState'.gen = CatalogState.gen
        /\ Latest(CatalogState', CatalogRows') = Latest(CatalogState, CatalogRows)
    BY <2>2, <2>3 DEF CatalogState, CatalogRows
  <2> QED
    BY <2>1, <2>2, <2>3, <2>4, FeedsChange
<1> QED
  BY <1>1, <1>2

LEMMA FeedsProject ==
  ASSUME LeasesInv, FeedsInv, NEW p \in Procs, Streams!ProjectStep(p)
  PROVE  FeedsInv'
<1>0. JobFits(Streams!Idle) /\ ~IsWritten(Streams!Idle) /\ Streams!Idle.kind = "idle"
  BY DEF JobFits, IsWritten, Streams!Idle
<1>1. CASE Streams!ChooseGeneration(p)
  <2>1. PICK b : b = [kind |-> "project", step |-> "chosen", of |-> state["catalog"].gen]
    OBVIOUS
  <2>2. JobFits(b) /\ ~IsWritten(b)
    BY <2>1 DEF JobFits, IsWritten
  <2> QED
    BY <1>1, <2>1, <2>2, FeedsJob DEF Streams!ChooseGeneration, Streams!tables, Streams!world
<1>2. CASE Streams!ReadTracks(p)
  <2>1. PICK b, tracks : /\ tracks = Streams!Stored("catalog", builder[p].of)
                         /\ b = [kind |-> "project", step |-> "read", links |-> Streams!Links(tracks)]
    OBVIOUS
  <2>2. Streams!Links(tracks) \in Tables
    BY DEF Streams!Links, Tables
  <2>3. JobFits(b) /\ ~IsWritten(b)
    BY <2>1, <2>2 DEF JobFits, IsWritten
  <2> QED
    BY <1>2, <2>1, <2>3, FeedsJob DEF Streams!ReadTracks, Streams!tables, Streams!world
<1>3. CASE Streams!WriteProjection(p)
  <2>1. PICK st, gens, log, job : /\ st = AnalysisState /\ gens = AnalysisRows /\ log = AnalysisLog
                                  /\ job = builder[p]
    OBVIOUS
  <2>2. PICK links, D : links = job.links /\ D = Streams!Diff(Latest(st, gens), links)
    OBVIOUS
  <2>3. PICK st1 : st1 = [st EXCEPT !.gen = @ + 1, !.head = @ + Len(D)]
    OBVIOUS
  <2>4. PICK st2 : st2 = Streams!Compacted(st1)
    OBVIOUS
  <2>5. PICK gens2, log2 :
          /\ gens2 = Streams!Inserted(Streams!Pruned("analysis", gens, st2.gen), st2.gen, links)
          /\ log2 = Streams!Trimmed(Streams!Appended(log, st.head, D), st2.floor)
    OBVIOUS
  <2>6. PICK written : written = [kind |-> "project", step |-> "written", state |-> st2,
                                  rows |-> gens2, journal |-> log2]
    OBVIOUS
  <2>7. PICK b : b = IF st.gen > 0 /\ D = <<>> THEN Streams!Idle ELSE written
    OBVIOUS
  <2>8. Streams!Published("analysis") = Latest(st, gens)
    BY <2>1 DEF Streams!Published, Streams!Stored, Latest, AnalysisState, AnalysisRows
  <2>9. /\ builder' = [builder EXCEPT ![p] = b] /\ job.kind = "project" /\ job.step = "read"
        /\ \A q \in Procs : ~IsWritten(builder[q])
        /\ UNCHANGED <<live, state, results, journal, reader>>
    BY <1>3, <2>1, <2>2, <2>3, <2>4, <2>5, <2>6, <2>7, <2>8 DEF Streams!WriteProjection,
       Streams!ProjectionLocked, IsWritten, Streams!tables, Streams!world, AnalysisState, AnalysisRows,
       AnalysisLog
  <2>10. StreamOK(st, gens, log) /\ links \in Tables
    BY <2>1, <2>2, <2>9, CatalogIsOK DEF FeedsInv, JobFits
  <2>11. Len(D) \in Nat
    BY <2>2, <2>10, DiffTells, LatestIsTable
  <2>12. /\ StateIsRecord(st1) /\ st1.gen = st.gen + 1 /\ st1.epoch = st.epoch
         /\ st1.head = st.head + Len(D) /\ st1.floor = st.floor
    <3>1. PICK g, h : g = st.gen + 1 /\ h = st.head + Len(D)
      OBVIOUS
    <3>2. st1 = [st EXCEPT !.gen = g, !.head = h]
      BY <2>3, <3>1
    <3>3. StateIsRecord(st)
      BY <2>10 DEF StreamOK
    <3> QED
      BY <3>1, <3>2, <3>3 DEF StateIsRecord
  <2>13. st1.head \in Nat /\ st1.floor \in 0..st1.head /\ st.gen \in Nat /\ DOMAIN gens \subseteq 1..st.gen
    BY <2>10, <2>11, <2>12 DEF StreamOK
  <2>14. st2.gen = st.gen + 1
    BY <2>4, <2>12, <2>13, CompactedState
  <2>15. /\ st2.gen \in DOMAIN gens2 /\ DOMAIN gens2 \subseteq DOMAIN gens \cup {st2.gen}
         /\ gens2[st2.gen] = links /\ \A g \in DOMAIN gens2 \ {st2.gen} : gens2[g] = gens[g]
    <3>1. PICK kept : kept = Streams!Pruned("analysis", gens, st2.gen)
      OBVIOUS
    <3>2. DOMAIN kept \subseteq DOMAIN gens /\ \A k \in DOMAIN kept : kept[k] = gens[k]
      BY <3>1, PrunedGenerations
    <3>3. gens2 = [k \in DOMAIN kept \cup {st2.gen} |-> IF k = st2.gen THEN links ELSE kept[k]]
      BY <2>5, <3>1 DEF Streams!Inserted
    <3> QED
      BY <3>2, <3>3
  <2>16. Grows(st, gens, log, st2, gens2, log2)
    BY <2>2, <2>4, <2>5, <2>10, <2>12, <2>15, PublicationGrows
  <2>17. JobFits(written)
    BY <2>1, <2>6, <2>16 DEF JobFits, IsWritten
  <2>18. JobFits(b)
    BY <1>0, <2>7, <2>17
  <2> QED
    BY <2>9, <2>18, FeedsJob
<1>4. CASE Streams!CommitProjection(p)
  <2>1. PICK b : b = builder[p]
    OBVIOUS
  <2>2. IsWritten(b) /\ JobFits(b)
    BY <1>4, <2>1 DEF Streams!CommitProjection, IsWritten, FeedsInv
  <2>3. /\ state' = [state EXCEPT !["analysis"] = b.state]
        /\ results' = [results EXCEPT !["analysis"] = b.rows]
        /\ journal' = [journal EXCEPT !["analysis"] = b.journal]
        /\ builder' = [builder EXCEPT ![p] = Streams!Idle]
        /\ UNCHANGED <<live, reader>>
    BY <1>4, <2>1 DEF Streams!CommitProjection, Streams!world
  <2>4. /\ AnalysisState' = b.state /\ AnalysisRows' = b.rows /\ AnalysisLog' = b.journal
        /\ CatalogState' = CatalogState /\ CatalogRows' = CatalogRows /\ CatalogLog' = CatalogLog
        /\ DOMAIN journal' = Streams!Streams
    BY <2>3 DEF Streams!Streams, LeasesInv, GenerationsInv, FeedsInv, CatalogState, CatalogRows, CatalogLog,
       AnalysisState, AnalysisRows, AnalysisLog
  <2>5. /\ StreamOK(CatalogState, CatalogRows, CatalogLog)
        /\ StreamOK(AnalysisState, AnalysisRows, AnalysisLog)
        /\ Grows(AnalysisState, AnalysisRows, AnalysisLog, b.state, b.rows, b.journal)
    BY <2>2, CatalogIsOK DEF JobFits
  <2>6. /\ StreamOK(b.state, b.rows, b.journal)
        /\ \A c : ReaderOK(AnalysisState, AnalysisRows, AnalysisLog, c)
                  => ReaderOK(b.state, b.rows, b.journal, c)
    BY <2>5, GrowthFeeds
  <2>7. \A s \in Streams!Streams :
          /\ StreamOK(state'[s], results'[s], journal'[s])
          /\ \A c : ReaderOK(state[s], results[s], journal[s], c)
                    => ReaderOK(state'[s], results'[s], journal'[s], c)
    BY <2>4, <2>5, <2>6 DEF Streams!Streams, CatalogState, CatalogRows, CatalogLog,
       AnalysisState, AnalysisRows, AnalysisLog
  <2>8. builder'[p] = Streams!Idle /\ \A q \in Procs \ {p} : builder'[q] = builder[q]
    BY <2>3 DEF LeasesInv, GenerationsInv
  <2>9. \A q \in Procs : ~IsWritten(builder'[q])
    BY <1>0, <2>1, <2>2, <2>8 DEF FeedsInv
  <2>10. CatalogState'.gen \in Nat
    BY <2>4, <2>5 DEF StreamOK
  <2>11. \A q \in Procs : builder'[q] = builder[q] \/ builder'[q].kind \notin {"refresh", "project"}
    BY <1>0, <2>8
  <2> QED
    BY <2>3, <2>4, <2>7, <2>9, <2>10, <2>11, FeedsChange
<1>5. CASE Streams!AbandonProjection(p)
  BY <1>0, <1>5, FeedsJob DEF Streams!AbandonProjection, Streams!tables, Streams!world
<1> QED
  BY <1>1, <1>2, <1>3, <1>4, <1>5 DEF Streams!ProjectStep

LEMMA StreamsGreatest ==
  ASSUME NEW S \in SUBSET Nat, S # {}, NEW b \in Nat, \A x \in S : x <= b
  PROVE  Streams!Max(S) \in S /\ \A n \in S : n <= Streams!Max(S)
<1>1. PICK m \in S : \A n \in S : n <= m
  BY NaturalsHaveGreatest
<1>2. \E x \in S : \A y \in S : x >= y
  BY <1>1
<1> QED
  BY <1>2 DEF Streams!Max

\* A page of the journal, followed.
Paged(log, copy, seq, end) ==
    [x \in Entities |->
       IF {n \in seq + 1..end : log[n].track = x} = {} THEN copy[x]
       ELSE log[Streams!Max({n \in seq + 1..end : log[n].track = x})].value]

LEMMA PageFollowed ==
  ASSUME NEW log, NEW new, LogTells(log, new), NEW seq \in Nat, NEW end \in Nat, seq <= end,
         seq + 1..end \subseteq DOMAIN log, DOMAIN log \subseteq Nat,
         \A m \in DOMAIN log : log[m].value \in Nat,
         NEW copy \in Tables, NEW copy2, copy2 = Paged(log, copy, seq, end)
  PROVE  copy2 \in Tables /\ (TableFollows(log, new, copy, seq) => TableFollows(log, new, copy2, end))
<1> DEFINE about(x) == {n \in seq + 1..end : log[n].track = x}
<1>1. ASSUME NEW x \in Entities, about(x) # {}
      PROVE  \E m \in DOMAIN log : /\ copy2[x] = log[m].value /\ log[m].track = x
                                   /\ Hushed(log, end, x) => Hushed(log, m, x)
  <2>1. PICK m : m = Streams!Max(about(x))
    OBVIOUS
  <2>2. about(x) \in SUBSET Nat /\ \A n \in about(x) : n <= end
    OBVIOUS
  <2>3. m \in about(x) /\ \A n \in about(x) : n <= m
    <3> HIDE DEF about
    <3> QED
      BY <1>1, <2>1, <2>2, StreamsGreatest
  <2>4. m \in DOMAIN log /\ m \in seq + 1..end /\ log[m].track = x
    BY <2>3
  <2>5. copy2[x] = log[m].value
    BY <1>1, <2>1 DEF Paged
  <2>6. ASSUME Hushed(log, end, x), NEW k \in DOMAIN log, k > m PROVE log[k].track # x
    <3>1. k \in Nat /\ m \in Nat
      BY <2>4
    <3>2. CASE k <= end
      <4>1. k \in seq + 1..end
        BY <2>4, <2>6, <3>1, <3>2
      <4> QED
        BY <2>3, <2>6, <3>1, <4>1
    <3>3. CASE k > end
      BY <2>6, <3>3 DEF Hushed
    <3> QED
      BY <3>1, <3>2, <3>3
  <2> QED
    BY <2>4, <2>5, <2>6 DEF Hushed
<1>2. \A x \in Entities : about(x) = {} => copy2[x] = copy[x]
  BY DEF Paged
<1>3. copy2 \in Tables
  <2>1. \A x \in Entities : copy2[x] \in Nat
    BY <1>1, <1>2 DEF Tables
  <2> QED
    BY <2>1 DEF Tables, Paged
<1>4. ASSUME TableFollows(log, new, copy, seq), NEW x \in Entities, Hushed(log, end, x)
      PROVE  copy2[x] = new[x]
  <2>1. CASE about(x) = {}
    <3>1. \A m \in DOMAIN log : m > seq => m > end \/ m \in seq + 1..end
      OBVIOUS
    <3>2. Hushed(log, seq, x)
      BY <1>4, <2>1, <3>1 DEF Hushed
    <3> QED
      BY <1>2, <1>4, <2>1, <3>2 DEF TableFollows
  <2>2. CASE about(x) # {}
    BY <1>1, <1>4, <2>2 DEF LogTells
  <2> QED
    BY <2>1, <2>2
<1> QED
  BY <1>3, <1>4 DEF TableFollows

LEMMA FeedsReader ==
  ASSUME LeasesInv, FeedsInv, NEW r \in Clients, NEW c, reader' = [reader EXCEPT ![r] = c],
         ReaderFits(c), UNCHANGED <<live, state, results, journal, builder>>
  PROVE  FeedsInv'
<1>1. reader'[r] = c /\ \A q \in Clients \ {r} : reader'[q] = reader[q]
  BY DEF LeasesInv, GenerationsInv
<1>2. /\ \A x : JobFits(x)' <=> JobFits(x)
      /\ \A x : ReaderFits(x)' <=> ReaderFits(x)
  BY DEF JobFits, ReaderFits, CatalogState, CatalogRows, AnalysisState, AnalysisRows, AnalysisLog
<1>3. \A q \in Clients : ReaderFits(reader[q])'
  BY <1>1, <1>2 DEF FeedsInv
<1> QED
  BY <1>1, <1>2, <1>3 DEF FeedsInv, IsWritten

LEMMA FeedsRead ==
  ASSUME LeasesInv, FeedsInv, NEW r \in Clients, NEW s \in Streams!Streams, Streams!ReaderStep(r, s)
  PROVE  FeedsInv'
<1>1. UNCHANGED <<live, state, results, journal, builder>>
  BY DEF Streams!ReaderStep, Streams!OpenSession, Streams!ReadPage, Streams!Leave,
     Streams!ReadChanges, Streams!tables, Streams!world
<1>2. ReaderFits(Streams!Away)
  BY DEF ReaderFits
<1>3. CASE Streams!OpenSession(r, s)
  <2>1. PICK st, gens, log : st = state[s] /\ gens = results[s] /\ log = journal[s]
    OBVIOUS
  <2>2. PICK c : c = [phase |-> "paging", stream |-> s, pin |-> st.gen, epoch |-> st.epoch,
                      seq |-> st.head, next |-> 1, copy |-> Streams!Blank, torn |-> FALSE]
    OBVIOUS
  <2>3. reader' = [reader EXCEPT ![r] = c] /\ st.gen > 0
    BY <1>3, <2>1, <2>2 DEF Streams!OpenSession
  <2>4. StreamOK(st, gens, log)
    BY <2>1 DEF FeedsInv
  <2>5. 1 <= Len(Order) \/ Entities = {}
    BY OrderOK
  <2>6. TableFollows(log, Latest(st, gens), gens[st.gen], st.head)
    BY <2>3, <2>4 DEF StreamOK, Latest, TableFollows
  <2>7. /\ c.phase = "paging" /\ c.stream = s /\ c.pin = st.gen /\ c.epoch = st.epoch /\ c.seq = st.head
        /\ c.next = 1 /\ c.copy \in Tables /\ c.torn \in BOOLEAN
    BY <2>2, BlankIsTable
  <2>8. ReaderOK(st, gens, log, c)
    <3>1. st.gen \in 1..st.gen /\ st.epoch \in Nat /\ st.head \in Nat
      BY <2>3, <2>4 DEF StreamOK
    <3>2. \A i \in 1..c.next - 1 : FALSE
      BY <2>7
    <3> QED
      <4>1. /\ c.epoch \in Nat /\ c.epoch <= st.epoch /\ c.seq \in Nat /\ c.copy \in Tables
            /\ c.torn \in BOOLEAN /\ (c.epoch = st.epoch => c.seq <= st.head)
        <5>1. PICK e, h : e = st.epoch /\ h = st.head
          OBVIOUS
        <5>2. e \in Nat /\ h \in Nat /\ e <= e /\ h <= h /\ c.epoch = e /\ c.seq = h
          BY <2>7, <3>1, <5>1
        <5> QED
          BY <2>7, <5>1, <5>2
      <4>2. /\ c.next \in Nat \ {0} /\ (c.next <= Len(Order) \/ Entities = {}) /\ c.pin \in 1..st.gen
        BY <2>5, <2>7, <3>1
      <4>3. TableFollows(log, Latest(st, gens), gens[c.pin], c.seq)
        BY <2>6, <2>7
      <4> QED
        BY <2>7, <3>2, <4>1, <4>2, <4>3 DEF ReaderOK
  <2> QED
    BY <1>1, <2>1, <2>3, <2>7, <2>8, FeedsReader DEF ReaderFits
<1>4. CASE Streams!Leave(r)
  BY <1>1, <1>2, <1>4, FeedsReader DEF Streams!Leave
<1>5. CASE Streams!ReadPage(r)
  <2>1. PICK c : c = reader[r]
    OBVIOUS
  <2>2. PICK st, gens, log : st = state[c.stream] /\ gens = results[c.stream] /\ log = journal[c.stream]
    OBVIOUS
  <2>3. c.phase = "paging" /\ ReaderIsRecord(c) /\ ReaderFits(c)
    BY <1>5, <2>1 DEF Streams!ReadPage, LeasesInv, GenerationsInv, FeedsInv
  <2>4. SessionIsRecord(c) /\ c.stream \in Streams!Streams /\ ReaderOK(st, gens, log, c)
    BY <2>2, <2>3 DEF ReaderIsRecord, ReaderFits, Streams!Away
  <2>5. StreamOK(st, gens, log)
    BY <2>2, <2>4 DEF FeedsInv
  <2>6. PICK x, table : x = Order[c.next] /\ table = Streams!Stored(c.stream, c.pin)
    OBVIOUS
  <2>7. PICK copy, torn : copy = [c.copy EXCEPT ![x] = table[x]] /\ torn = (c.torn \/ c.pin \notin DOMAIN gens)
    OBVIOUS
  <2>8. PICK more, last : /\ more = [c EXCEPT !.next = c.next + 1, !.copy = copy, !.torn = torn]
                          /\ last = [phase |-> "following", stream |-> c.stream, epoch |-> c.epoch,
                                      seq |-> c.seq, copy |-> copy, torn |-> torn]
    OBVIOUS
  <2>9. PICK c2 : c2 = IF c.next < Len(Order) THEN more ELSE last
    OBVIOUS
  <2>10. reader' = [reader EXCEPT ![r] = c2]
    BY <1>5, <2>1, <2>2, <2>6, <2>7, <2>8, <2>9 DEF Streams!ReadPage
  <2>11. table \in Tables /\ (c.pin \in DOMAIN gens => table = gens[c.pin])
    BY <2>2, <2>5, <2>6, BlankIsTable DEF Streams!Stored, StreamOK
  <2>12. /\ c.epoch \in Nat /\ c.epoch <= st.epoch /\ c.seq \in Nat /\ c.copy \in Tables
         /\ c.torn \in BOOLEAN /\ (c.epoch = st.epoch => c.seq <= st.head)
         /\ c.next \in Nat \ {0} /\ (c.next <= Len(Order) \/ Entities = {}) /\ c.pin \in 1..st.gen
    BY <2>3, <2>4 DEF ReaderOK
  <2>13. copy \in Tables /\ torn \in BOOLEAN
    <3>1. \A y \in Entities : table[y] \in Nat
      BY <2>11 DEF Tables
    <3> QED
      BY <2>7, <2>12, <3>1 DEF Tables
  <2>14. ASSUME ~torn
         PROVE  /\ c.pin \in DOMAIN gens /\ ~c.torn
                /\ \A i \in 1..c.next - 1 : c.copy[Order[i]] = gens[c.pin][Order[i]]
                /\ InFeed(st, c) => TableFollows(log, Latest(st, gens), gens[c.pin], c.seq)
    BY <2>3, <2>4, <2>7, <2>14 DEF ReaderOK
  <2>15. ASSUME ~torn, NEW i \in 1..c.next, i <= Len(Order) PROVE copy[Order[i]] = gens[c.pin][Order[i]]
    <3>1. Order[i] \in Entities /\ x = Order[c.next]
      BY <2>6, <2>15, OrderOK
    <3>2. CASE Order[i] = x
      BY <2>7, <2>11, <2>12, <2>14, <2>15, <3>1, <3>2 DEF Tables
    <3>3. CASE Order[i] # x
      <4>1. i \in 1..c.next - 1
        BY <2>12, <3>1, <3>3
      <4>2. copy[Order[i]] = c.copy[Order[i]]
        BY <2>7, <2>12, <3>1, <3>3 DEF Tables
      <4> QED
        BY <2>14, <2>15, <4>1, <4>2
    <3> QED
      BY <3>2, <3>3
  <2>16. CASE c.next < Len(Order)
    <3>1. /\ c2.phase = "paging" /\ c2.stream = c.stream /\ c2.pin = c.pin /\ c2.epoch = c.epoch
          /\ c2.seq = c.seq /\ c2.next = c.next + 1 /\ c2.copy = copy /\ c2.torn = torn
      <4>1. PICK st0, pin, epoch, seq, n :
              st0 = c.stream /\ pin = c.pin /\ epoch = c.epoch /\ seq = c.seq /\ n = c.next + 1
        OBVIOUS
      <4>2. c2 = [c EXCEPT !.next = n, !.copy = copy, !.torn = torn]
        BY <2>8, <2>9, <2>16, <4>1
      <4>3. c2 = [phase |-> "paging", stream |-> st0, pin |-> pin, epoch |-> epoch, seq |-> seq,
                  next |-> n, copy |-> copy, torn |-> torn]
        BY <2>3, <2>4, <4>1, <4>2 DEF SessionIsRecord
      <4> QED
        BY <4>1, <4>3
    <3>2. Len(Order) \in Nat /\ c2.next \in Nat \ {0} /\ c2.next <= Len(Order)
      <4>1. PICK n, l : n = c.next /\ l = Len(Order)
        OBVIOUS
      <4>2. l \in Nat /\ n \in Nat \ {0} /\ n < l
        BY <2>12, <2>16, <4>1, OrderOK
      <4>3. n + 1 <= l /\ n + 1 \in Nat \ {0}
        BY <4>2
      <4> QED
        BY <3>1, <4>1, <4>2, <4>3
    <3>3. \A i \in 1..c2.next - 1 : i \in 1..c.next /\ i <= Len(Order)
      BY <2>12, <2>16, <3>1, <3>2
    <3>4. ReaderOK(st, gens, log, c2)
      <4>1. ~c2.torn /\ c2.pin \in DOMAIN gens =>
              /\ \A i \in 1..c2.next - 1 : c2.copy[Order[i]] = gens[c2.pin][Order[i]]
              /\ InFeed(st, c2) => TableFollows(log, Latest(st, gens), gens[c2.pin], c2.seq)
        BY <2>14, <2>15, <3>1, <3>3 DEF InFeed
      <4> QED
        BY <2>12, <2>13, <3>1, <3>2, <4>1 DEF ReaderOK
    <3>5. ReaderFits(c2)
      BY <2>2, <2>4, <3>1, <3>4 DEF ReaderFits
    <3> QED
      BY <1>1, <2>10, <3>5, FeedsReader
  <2>17. CASE ~(c.next < Len(Order))
    <3>1. /\ c2.phase = "following" /\ c2.stream = c.stream /\ c2.epoch = c.epoch
          /\ c2.seq = c.seq /\ c2.copy = copy /\ c2.torn = torn
      BY <2>8, <2>9, <2>17
    <3>2. ASSUME ~torn PROVE \A y \in Entities : copy[y] = gens[c.pin][y]
      <4> SUFFICES ASSUME NEW y \in Entities PROVE copy[y] = gens[c.pin][y]
        OBVIOUS
      <4>1. PICK i \in 1..Len(Order) : Order[i] = y
        BY OrderOK
      <4>2. Len(Order) \in Nat
        BY OrderOK
      <4>3. i \in 1..c.next /\ i <= Len(Order)
        BY <2>12, <2>17, <4>2
      <4> QED
        BY <2>15, <3>2, <4>1, <4>3
    <3>3. ~c2.torn /\ InFeed(st, c2) => TableFollows(log, Latest(st, gens), c2.copy, c2.seq)
      BY <2>14, <3>1, <3>2 DEF InFeed, TableFollows
    <3>4. ReaderOK(st, gens, log, c2)
      BY <2>12, <2>13, <3>1, <3>3 DEF ReaderOK
    <3>5. ReaderFits(c2)
      BY <2>2, <2>4, <3>1, <3>4 DEF ReaderFits
    <3> QED
      BY <1>1, <2>10, <3>5, FeedsReader
  <2> QED
    BY <2>16, <2>17
<1>6. CASE Streams!ReadChanges(r)
  <2>1. PICK c : c = reader[r]
    OBVIOUS
  <2>2. PICK st, gens, log : st = state[c.stream] /\ gens = results[c.stream] /\ log = journal[c.stream]
    OBVIOUS
  <2>3. c.phase = "following" /\ ReaderIsRecord(c) /\ ReaderFits(c)
    BY <1>6, <2>1 DEF Streams!ReadChanges, LeasesInv, GenerationsInv, FeedsInv
  <2>4. FollowerIsRecord(c) /\ c.stream \in Streams!Streams /\ ReaderOK(st, gens, log, c)
    BY <2>2, <2>3 DEF ReaderIsRecord, ReaderFits, Streams!Away
  <2>5. StreamOK(st, gens, log)
    BY <2>2, <2>4 DEF FeedsInv
  <2>6. CASE ~Streams!Continues(c)
    BY <1>1, <1>2, <1>6, <2>1, <2>6, FeedsReader DEF Streams!ReadChanges
  <2>7. CASE Streams!Continues(c)
    <3>1. PICK seq, end, copy : seq = c.seq /\ end = Streams!PageEnd(c.stream, c.seq) /\ copy = c.copy
      OBVIOUS
    <3>2. PICK copy2 : copy2 = Paged(log, copy, seq, end)
      OBVIOUS
    <3>3. PICK c2 : c2 = [c EXCEPT !.seq = end, !.epoch = st.epoch, !.copy = copy2]
      OBVIOUS
    <3>4. reader' = [reader EXCEPT ![r] = c2]
      <4>1. Streams!Followed(c) = c2
        BY <2>2, <3>1, <3>2, <3>3 DEF Streams!Followed, Paged
      <4> QED
        BY <1>6, <2>1, <2>7, <4>1 DEF Streams!ReadChanges
    <3>5. /\ c.epoch = st.epoch /\ seq >= st.floor /\ seq <= st.head /\ seq + 1..end \subseteq DOMAIN log
          /\ seq \in Nat /\ copy \in Tables /\ c.torn \in BOOLEAN /\ st.head \in Nat /\ st.floor \in Nat
          /\ st.epoch \in Nat
      BY <2>2, <2>3, <2>4, <2>5, <2>7, <3>1 DEF Streams!Continues, ReaderOK, StreamOK
    <3>6. end \in Nat /\ seq <= end /\ end <= st.head
      <4>1. end = Streams!MinOf(st.head, seq + PageLimit) /\ PageLimit \in Nat
        BY <2>2, <3>1, BoundsHold DEF Streams!PageEnd, Streams!StreamBounds
      <4> QED
        BY <3>5, <4>1 DEF Streams!MinOf
    <3>7. /\ c2.phase = "following" /\ c2.stream = c.stream /\ c2.epoch = st.epoch
          /\ c2.seq = end /\ c2.copy = copy2 /\ c2.torn = c.torn
      BY <2>3, <2>4, <3>3 DEF FollowerIsRecord
    <3>8. PICK new : new = Latest(st, gens)
      OBVIOUS
    <3>9. /\ LogTells(log, new) /\ DOMAIN log \subseteq Nat /\ \A m \in DOMAIN log : log[m].value \in Nat
      BY <2>5, <3>5, <3>8 DEF StreamOK
    <3>10. copy2 \in Tables /\ (TableFollows(log, new, copy, seq) => TableFollows(log, new, copy2, end))
      BY <3>2, <3>5, <3>6, <3>9, PageFollowed
    <3>11. ~c.torn => TableFollows(log, new, copy, seq)
      BY <2>3, <2>4, <3>1, <3>5, <3>8 DEF ReaderOK, InFeed
    <3>12. ReaderOK(st, gens, log, c2)
      BY <3>5, <3>6, <3>7, <3>8, <3>10, <3>11 DEF ReaderOK
    <3>13. ReaderFits(c2)
      BY <2>2, <2>4, <3>7, <3>12 DEF ReaderFits
    <3> QED
      BY <1>1, <3>4, <3>13, FeedsReader
  <2> QED
    BY <2>6, <2>7
<1> QED
  BY <1>3, <1>4, <1>5, <1>6 DEF Streams!ReaderStep

LEMMA FeedsStay ==
  ASSUME LeasesInv, FeedsInv, live' \in Tables, UNCHANGED <<state, results, journal, builder, reader>>
  PROVE  FeedsInv'
BY DEF FeedsInv, JobFits, ReaderFits, IsWritten, CatalogState, CatalogRows, AnalysisState, AnalysisRows,
   AnalysisLog

LEMMA FeedsStep ==
  ASSUME LeasesInv, FeedsInv, Streams!Next
  PROVE  FeedsInv'
<1>1. CASE Streams!Want \/ Streams!MappingChanges
  BY <1>1, FeedsStay DEF Streams!Want, Streams!MappingChanges, Streams!tables, Streams!world, FeedsInv
<1>2. CASE Streams!LibraryChanges
  <2>1. PICK x \in Entities, v \in 0..MaxVersion : live' = [live EXCEPT ![x] = v]
    BY <1>2 DEF Streams!LibraryChanges
  <2>2. live' \in Tables
    BY <2>1 DEF FeedsInv, Tables
  <2> QED
    BY <1>2, <2>2, FeedsStay DEF Streams!LibraryChanges, Streams!tables
<1> QED
  BY <1>1, <1>2, FeedsRefresh, FeedsProject, FeedsMaintain, FeedsRead DEF Streams!Next

-----------------------------------------------------------------------------
(* The four streams together, each with its invariant.                       *)

RelationsFollowed == Relating => BuildInv /\ RelInv
StreamsFeed == InStreams => LeasesInv /\ FeedsInv
LoudnessFollowed == InLoudness => LoudInv /\ LoudFeedInv
CreditsFollowed == focus = "credits" => CreditsInv

LEMMA AllBegin ==
  ASSUME SuiteInit
  PROVE  RelationsFollowed /\ StreamsFeed /\ LoudnessFollowed /\ CreditsFollowed
<1>1. RelationsFollowed
  BY BuildInit, RelBegins DEF SuiteInit, RelationsFollowed, Relating
<1>2. StreamsFeed
  BY LeasesInit, FeedsBegin DEF SuiteInit, StreamsFeed, InStreams
<1>3. LoudnessFollowed
  BY LoudBegins, LoudFeedBegins DEF SuiteInit, LoudnessFollowed, InLoudness
<1>4. CreditsFollowed
  BY CreditsBegin DEF SuiteInit, CreditsFollowed
<1> QED
  BY <1>1, <1>2, <1>3, <1>4

LEMMA FocusStays == ASSUME [SuiteNext]_all PROVE focus' = focus
BY DEF SuiteNext, all

LEMMA RelationsGo ==
  ASSUME RelationsFollowed, [SuiteNext]_all
  PROVE  RelationsFollowed'
<1> SUFFICES ASSUME Relating PROVE BuildInv' /\ RelInv'
  BY FocusStays DEF RelationsFollowed, Relating
<1>1. BuildInv /\ RelInv
  BY DEF RelationsFollowed
<1>2. CASE UNCHANGED all
  BY <1>1, <1>2, BuildBounds, BuildStutter, RelSame DEF all
<1>3. CASE SuiteNext
  <2>1. Building \/ Reading
    BY <1>3 DEF SuiteNext, Relating
  <2>2. Next
    BY <2>1, BuildersAssumption DEF Building, Reading, Next
  <2> QED
    BY <1>1, <2>2, BuildBounds, BuildStep, RelStep
<1> QED
  BY <1>2, <1>3

LEMMA StreamsGo ==
  ASSUME StreamsFeed, [SuiteNext]_all
  PROVE  StreamsFeed'
<1> SUFFICES ASSUME InStreams PROVE LeasesInv' /\ FeedsInv'
  BY FocusStays DEF StreamsFeed, InStreams
<1>1. LeasesInv /\ FeedsInv
  BY DEF StreamsFeed
<1>2. CASE UNCHANGED all
  <2>1. UNCHANGED <<live, state, results, journal, builder, reader>>
    BY <1>2 DEF all, vars, durable, inputs
  <2>2. live' \in Tables
    BY <1>1, <2>1 DEF FeedsInv
  <2> QED
    BY <1>1, <2>1, <2>2, LeasesStep, FeedsStay
<1>3. CASE SuiteNext
  <2>1. "catalog" \in Streams!Streams /\ "analysis" \in Streams!Streams
    BY DEF Streams!Streams
  <2>2. Catalogue \/ Analysis
    BY <1>3 DEF SuiteNext, InStreams
  <2>3. Streams!Next
    BY <2>1, <2>2, BuildersAssumption DEF Catalogue, Analysis, Streams!Next
  <2> QED
    BY <1>1, <2>3, LeasesStep, FeedsStep
<1> QED
  BY <1>2, <1>3

LEMMA LoudnessGoes ==
  ASSUME LoudnessFollowed, [SuiteNext]_all
  PROVE  LoudnessFollowed'
<1> SUFFICES ASSUME InLoudness PROVE LoudInv' /\ LoudFeedInv'
  BY FocusStays DEF LoudnessFollowed, InLoudness
<1>1. LoudInv /\ LoudFeedInv
  BY DEF LoudnessFollowed
<1>2. CASE UNCHANGED all
  <2>1. UNCHANGED <<live, results, state, build, lock, builder, claims, journal, reader>>
    BY <1>2 DEF all, vars, durable, inputs
  <2> QED
    BY <1>1, <2>1, LoudSame, LoudFeedStays
<1>3. CASE SuiteNext
  <2>1. Measuring \/ Following
    BY <1>3 DEF SuiteNext, InLoudness
  <2>2. Loudness!ReaderStep => UNCHANGED <<live, results, state, build, lock, builder>>
    BY DEF Loudness!ReaderStep, Loudness!world, Loudness!stored
  <2>3. LoudInv'
    BY <1>1, <2>1, <2>2, CatalogueMoves, LoudTurnStep, LoudEdgeStep, LoudSame DEF Measuring, Following
  <2> QED
    BY <1>1, <2>1, <2>3, LoudFeedStep
<1> QED
  BY <1>2, <1>3

LEMMA CreditsGo ==
  ASSUME CreditsFollowed, [SuiteNext]_all
  PROVE  CreditsFollowed'
<1> SUFFICES ASSUME focus = "credits" PROVE CreditsInv'
  BY FocusStays DEF CreditsFollowed
<1>1. CreditsInv
  BY DEF CreditsFollowed
<1>2. CASE UNCHANGED all
  <2>1. UNCHANGED <<build, state, journal, results, past, builder, reader>>
    BY <1>2 DEF all, vars, durable, inputs
  <2> QED
    BY <1>1, <2>1, CreditsSame
<1>3. CASE SuiteNext
  <2>1. Crediting
    BY <1>3 DEF SuiteNext
  <2> QED
    BY <1>1, <2>1, CreditsStep
<1> QED
  BY <1>2, <1>3

(* A client that has read a stream to its head holds exactly what is           *)
(* published: relationships, catalogue and analysis, loudness and credits, for *)
(* any number of clients, builders and generations, whatever is published,     *)
(* pruned, rebased or compacted between two of its pages (read_changes and     *)
(* bootstrap of catalog.py, catalog_enrichment.py, loudness_stream.py and      *)
(* credits_stream.py).                                                         *)
THEOREM FollowersHoldWhatIsPublished == SuiteSpec => []FollowersHoldStreams
<1> DEFINE Inv == RelationsFollowed /\ StreamsFeed /\ LoudnessFollowed /\ CreditsFollowed
<1>1. SuiteInit => Inv
  BY AllBegin
<1>2. Inv /\ [SuiteNext]_all => Inv'
  BY RelationsGo, StreamsGo, LoudnessGoes, CreditsGo
<1>3. ASSUME Inv PROVE FollowersHoldStreams
  <2>1. Relating => FollowersHoldResults
    BY <1>3, RelHolds DEF RelationsFollowed
  <2>2. InStreams => Streams!ReadersHoldPublished
    BY <1>3, StreamsFollowed DEF StreamsFeed
  <2>3. InLoudness => Loudness!FollowersHoldRecords
    BY <1>3, LoudFeedHolds DEF LoudnessFollowed
  <2>4. focus = "credits" => Credits!FollowerHoldsResults
    BY <1>3 DEF CreditsFollowed, CreditsInv, ClientOK
  <2> QED
    BY <2>1, <2>2, <2>3, <2>4 DEF FollowersHoldStreams
<1> QED
  BY <1>1, <1>2, <1>3, PTL DEF SuiteSpec

================================================================================
