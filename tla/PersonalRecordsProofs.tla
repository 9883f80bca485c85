------------------------- MODULE PersonalRecordsProofs -------------------------
(* The records of one person, for any number of records, requests, images and *)
(* processes and every bound: acknowledged writes are kept with what they      *)
(* name, no write replaces what must outlive it, an album is saved once, a     *)
(* key is applied once, and each feed tells of everything that was committed.  *)
EXTENDS MCPersonalRecords, FiniteSetTheorems, TLAPS

-----------------------------------------------------------------------------
(* The tables of PersonalRecords, as committed and as an open transaction     *)
(* will commit them.                                                          *)

RevisionIn(d, k) == IF d.records[k] = None THEN 0 ELSE d.records[k].rev
ValueIn(d, k) == IF d.records[k] = None THEN Gone ELSE d.records[k].value

StoreContents ==
    IF store = "journeys" THEN Sessions \cup {Gone}
    ELSE IF store = "shelves" THEN Periods
    ELSE Names \cup Images \cup {Gone}

TablesOK(d) ==
    /\ d \in [records : [Keys -> Records \cup {None}], receipts : [Requests -> Receipts \cup {None}],
              images : SUBSET Images]
    /\ \A k \in Ids : d.records[k] # None => d.records[k].value \in StoreContents

\* The records against the history of what was acknowledged, `a`, and of what a
\* mutation ID wrote since its receipt was purged, `n`.
Counts(d, a) == \A k \in Counted : RevisionIn(d, k) = a[k]
Once(d, n) == \A r \in Requests : n[r] \in 0..1 /\ (d.receipts[r] = None => n[r] = 0)
Photos(d) ==
    store = "covers" => \A k \in Ids : ValueIn(d, k) \in Images => ValueIn(d, k) \in d.images
Consistent(d, a, n) == TablesOK(d) /\ Counts(d, a) /\ Once(d, n) /\ Photos(d)

\* What the tables d may become: a journey stays as new as it was, a shelf period
\* comes back by a restore, and an album is live once more only when renamed.
Newer(old, new) ==
    old # Gone /\ new # Gone =>
      /\ old.credits \subseteq new.credits
      /\ \/ old.playedAt <= new.playedAt
         \/ old.place = "entry" /\ new.state = "dropped"
      /\ \/ old.state = new.state
         \/ "dropped" \in {old.state, new.state}
         \/ old.stateAt <= new.stateAt
JourneysFollow(d, e) ==
    store = "journeys" => \A k \in Ids : Newer(ValueIn(d, k), ValueIn(e, k))

MembersIn(d) == {i \in Ids : d.records[i] # None}
LiveIn(d, i) == d.records[i] # None /\ ~ValueIn(d, i).deleted
TwoLiveIn(d, name) ==
    \E i, j \in Ids : /\ LiveIn(d, i) /\ LiveIn(d, j) /\ i # j
                      /\ ValueIn(d, i).entity = name /\ ValueIn(d, j).entity = name
RestoresIn(d, e) ==
    \E r \in Requests : /\ e.receipts[r] # d.receipts[r] /\ e.receipts[r] # None
                        /\ e.receipts[r].op = "restore"
ShelvesFollow(d, e) ==
    store = "shelves" =>
      /\ \A i \in MembersIn(d) : ValueIn(d, i).deleted /\ ~ValueIn(e, i).deleted => RestoresIn(d, e)
      /\ \A name \in Names :
           TwoLiveIn(e, name) /\ ~TwoLiveIn(d, name) =>
             \E i \in MembersIn(d) : ValueIn(d, i).entity # ValueIn(e, i).entity
Follows(d, e) == JourneysFollow(d, e) /\ ShelvesFollow(d, e)

-----------------------------------------------------------------------------
(* The inductive invariant: one transaction is open at most, and it will      *)
(* leave tables as consistent as those it began with, which may follow them.  *)

AcksAfter(work) ==
    IF work.kind = "mutation" /\ work.key \in Counted THEN [acks EXCEPT ![work.key] = @ + 1] ELSE acks
AppliedAfter(work) ==
    CASE work.kind = "mutation" /\ work.key # None -> [applied EXCEPT ![work.id] = @ + 1]
      [] work.kind = "purge" -> [r \in Requests |-> IF r \in work.ids THEN 0 ELSE applied[r]]
      [] OTHER -> applied

HistoryOK ==
    /\ store \in Stores /\ sequence \in Nat
    /\ acks \in [Keys -> Nat] /\ applied \in [Requests -> Nat]
    /\ DOMAIN open = Procs
OneOpen == \A p, q \in Procs : open[p] # None /\ open[q] # None => p = q
OpenOK(t) ==
    /\ Consistent(t.db, AcksAfter(t.work), AppliedAfter(t.work))
    /\ AcksAfter(t.work) \in [Keys -> Nat] /\ AppliedAfter(t.work) \in [Requests -> Nat]
    /\ Follows(db, t.db)
AllOpenOK == \A p \in Procs : open[p] # None => OpenOK(open[p])

RecordsInv == HistoryOK /\ Consistent(db, acks, applied) /\ OneOpen /\ AllOpenOK

LEMMA RecordsInit == ASSUME Init PROVE RecordsInv
<1>1. \A k \in Keys : db.records[k] = None
  BY DEF Init, NoRecords
<1>2. \A r \in Requests : db.receipts[r] = None
  BY DEF Init
<1>3. /\ HistoryOK /\ \A p \in Procs : open[p] = None
  BY DEF Init, HistoryOK
<1>4. TablesOK(db)
  <2>1. db.records = NoRecords /\ db.receipts = [r \in Requests |-> None] /\ db.images = {}
        /\ db = [records |-> db.records, receipts |-> db.receipts, images |-> db.images]
    BY DEF Init
  <2>2. Ids \subseteq Keys
    BY DEF Keys
  <2> QED
    BY <1>1, <2>1, <2>2 DEF TablesOK, NoRecords
<1>5. Counted \subseteq Keys /\ Ids \subseteq Keys
  BY DEF Counted, Keys
<1>6. Counts(db, acks)
  BY <1>1, <1>5 DEF Counts, RevisionIn, Init
<1>7. Once(db, applied)
  BY DEF Once, Init
<1>8. Photos(db)
  BY <1>1, <1>5, ValuesAssumption DEF Photos, ValueIn
<1> QED
  BY <1>3, <1>4, <1>6, <1>7, <1>8 DEF RecordsInv, Consistent, OneOpen, AllOpenOK

\* The properties of the run are the invariant's.
LEMMA RecordsAreKept == ASSUME RecordsInv PROVE NoLostUpdate /\ PhotosStored
<1>1. Counts(db, acks) /\ Once(db, applied) /\ Photos(db)
  BY DEF RecordsInv, Consistent
<1> QED
  BY <1>1 DEF Counts, Once, Photos, NoLostUpdate, PhotosStored, RevisionIn, ValueIn, Revision, Value

-----------------------------------------------------------------------------
(* Beginning and ending.                                                      *)

\* A transaction that begins on unlocked tables.
LEMMA Begins ==
  ASSUME RecordsInv, Unlocked, NEW p \in Procs, NEW new, NEW work, Begin(p, new, work),
         sequence' \in Nat, UNCHANGED <<store, db, acks, applied>>,
         OpenOK([db |-> new, work |-> work])
  PROVE  RecordsInv'
<1> DEFINE t == [db |-> new, work |-> work]
<1>1. open' = [open EXCEPT ![p] = t] /\ \A q \in Procs : open[q] = None
  BY DEF Begin, Unlocked
<1>2. DOMAIN open = Procs
  BY DEF RecordsInv, HistoryOK
<1>3. open'[p] = t /\ \A q \in Procs \ {p} : open'[q] = None
  BY <1>1, <1>2
<1>4. HistoryOK' /\ OneOpen'
  BY <1>1, <1>2, <1>3 DEF RecordsInv, HistoryOK, OneOpen
<1>5. OpenOK(t)'
  BY DEF OpenOK, Consistent, AcksAfter, AppliedAfter, Follows, TablesOK, Counts, Once, Photos,
         JourneysFollow, ShelvesFollow, StoreContents, Counted
<1>6. AllOpenOK'
  BY <1>3, <1>5 DEF AllOpenOK
<1>7. Consistent(db, acks, applied)'
  BY DEF RecordsInv, Consistent, TablesOK, Counts, Once, Photos, StoreContents, Counted
<1> QED
  BY <1>4, <1>6, <1>7 DEF RecordsInv

LEMMA CommitEnds ==
  ASSUME RecordsInv, NEW p \in Procs, Commit(p)
  PROVE  RecordsInv' /\ Follows(db, db') /\ store' = store
<1> DEFINE t == open[p]
<1>1. /\ t # None /\ db' = t.db /\ open' = [open EXCEPT ![p] = None]
      /\ acks' = AcksAfter(t.work) /\ applied' = AppliedAfter(t.work)
      /\ UNCHANGED <<store, sequence>>
  BY DEF Commit, AcksAfter, AppliedAfter
<1>2. OpenOK(t)
  BY <1>1 DEF RecordsInv, AllOpenOK
<1>3. \A q \in Procs : open'[q] = None
  BY <1>1 DEF RecordsInv, HistoryOK, OneOpen
<1>4. HistoryOK'
  BY <1>1, <1>2 DEF RecordsInv, HistoryOK, OpenOK
<1>5. Consistent(db, acks, applied)'
  BY <1>1, <1>2 DEF OpenOK, Consistent, TablesOK, Counts, Once, Photos, StoreContents, Counted
<1> QED
  BY <1>1, <1>2, <1>3, <1>4, <1>5 DEF RecordsInv, OneOpen, AllOpenOK, OpenOK

LEMMA RollbackEnds ==
  ASSUME RecordsInv, NEW p \in Procs, Rollback(p)
  PROVE  RecordsInv'
<1>1. open' = [open EXCEPT ![p] = None] /\ UNCHANGED <<store, db, sequence, acks, applied>>
  BY DEF Rollback
<1>2. DOMAIN open = Procs
  BY DEF RecordsInv, HistoryOK
<1>3. \A q \in Procs : open'[q] = None \/ open'[q] = open[q]
  BY <1>1, <1>2
<1>4. HistoryOK' /\ OneOpen'
  BY <1>1, <1>2, <1>3 DEF RecordsInv, HistoryOK, OneOpen
<1>5. ASSUME NEW q \in Procs, open'[q] # None PROVE OpenOK(open[q])'
  <2>1. OpenOK(open[q]) /\ open'[q] = open[q]
    BY <1>3, <1>5 DEF RecordsInv, AllOpenOK
  <2> QED
    BY <1>1, <2>1 DEF OpenOK, Consistent, AcksAfter, AppliedAfter, Follows, TablesOK, Counts, Once,
       Photos, JourneysFollow, ShelvesFollow, StoreContents, Counted
<1>6. Consistent(db, acks, applied)'
  BY <1>1 DEF RecordsInv, Consistent, TablesOK, Counts, Once, Photos, StoreContents, Counted
<1> QED
  BY <1>4, <1>5, <1>6 DEF RecordsInv, AllOpenOK

-----------------------------------------------------------------------------
(* What a mutation writes.                                                    *)

\* A period is live after a write as it was, or the only live one of its album,
\* and only a restore brings it back.
ShelfPut(b, put) ==
    /\ put.key \in Members /\ Value(put.key).deleted /\ ~put.value.deleted => b.op = "restore"
    /\ ~put.value.deleted =>
         \/ put.key \in Live /\ Value(put.key).entity = put.value.entity
         \/ \A j \in Live \ {put.key} : Value(j).entity # put.value.entity

PutOK(b, put) ==
    /\ put \in [key : Keys, rev : Nat, value : Contents]
    /\ put.key \in Ids => put.value \in StoreContents
    /\ put.key \in Counted => put.rev = Revision(put.key) + 1
    /\ store = "covers" /\ put.value \in Images => put.value \in db.images
    /\ store = "journeys" => Newer(Value(put.key), put.value)
    /\ store = "shelves" /\ put.key \in Ids => ShelfPut(b, put)

LEMMA VibePuts ==
  ASSUME store = "vibes", NEW b \in VibeBodies, NEW put \in ApplyVibe(b)
  PROVE  PutOK(b, put)
<1>1. b.key \in Ids /\ b.base \in Nat /\ (b.op = "put" => b.value \in Names)
  BY BoundsAssumption DEF VibeBodies, Revisions, SeqBound
<1>2. /\ b.base = Revision(b.key)
      /\ put = [key |-> b.key, rev |-> b.base + 1, value |-> IF b.op = "put" THEN b.value ELSE Gone]
  BY DEF ApplyVibe, Put
<1> QED
  BY <1>1, <1>2 DEF PutOK, Keys, Counted, StoreContents, Contents

LEMMA CoverPuts ==
  ASSUME store = "covers", NEW b \in CoverBodies, NEW put \in ApplyCover(b)
  PROVE  PutOK(b, put)
<1>1. b.key \in Ids /\ b.base \in Nat /\ (b.op # "delete" => b.value \in Names \cup Images)
  BY BoundsAssumption DEF CoverBodies, Revisions, SeqBound
<1>2. /\ b.base = Revision(b.key)
      /\ \/ put = [key |-> b.key, rev |-> b.base + 1, value |-> Gone]
         \/ /\ b.op # "delete" /\ (b.value \in Images => b.value \in db.images)
            /\ put = [key |-> b.key, rev |-> b.base + 1, value |-> b.value]
  BY DEF ApplyCover, Put
<1> QED
  BY <1>1, <1>2, ValuesAssumption DEF PutOK, Keys, Counted, StoreContents, Contents

\* A merged journey is as new as what is stored, but for a place whose entry is gone.
LEMMA MergedJourneys ==
  ASSUME NEW stored \in Sessions, NEW incoming \in Sessions, NEW credits \in SUBSET Nat,
         stored.credits \subseteq credits
  PROVE  /\ [MergeJourney(stored, incoming) EXCEPT !.credits = credits] \in Sessions
         /\ Newer(stored, [MergeJourney(stored, incoming) EXCEPT !.credits = credits])
<1> DEFINE kept == /\ stored.state # "dropped" /\ incoming.state # "dropped"
                   /\ stored.state # incoming.state /\ stored.stateAt > incoming.stateAt
           placed == /\ stored.playedAt > incoming.playedAt
                     /\ stored.place = "none" \/ incoming.state # "dropped"
           state == IF kept THEN stored.state ELSE incoming.state
           stateAt == IF kept THEN stored.stateAt ELSE incoming.stateAt
           place == IF placed THEN stored.place ELSE incoming.place
           playedAt == IF placed THEN stored.playedAt ELSE incoming.playedAt
<1>1. MergeJourney(stored, incoming) =
        [[[[incoming EXCEPT !.state = state] EXCEPT !.stateAt = stateAt]
             EXCEPT !.place = place] EXCEPT !.playedAt = playedAt]
  BY DEF MergeJourney
<1>2. /\ state \in {"pending", "played", "dropped"} /\ stateAt \in Nat
      /\ place \in {"entry", "none"} /\ playedAt \in Nat
      /\ \/ stored.playedAt <= playedAt
         \/ stored.place = "entry" /\ state = "dropped"
      /\ \/ stored.state = state \/ "dropped" \in {stored.state, state}
         \/ stored.stateAt <= stateAt
  BY DEF Sessions
<1> HIDE DEF state, stateAt, place, playedAt, kept, placed
<1>3. PICK one : one = [incoming EXCEPT !.state = state]
  OBVIOUS
<1>4. one \in Sessions /\ one.state = state
  BY <1>2, <1>3 DEF Sessions
<1>5. PICK two : two = [one EXCEPT !.stateAt = stateAt]
  OBVIOUS
<1>6. two \in Sessions /\ two.state = state /\ two.stateAt = stateAt
  BY <1>2, <1>4, <1>5 DEF Sessions
<1>7. PICK three : three = [two EXCEPT !.place = place]
  OBVIOUS
<1>8. three \in Sessions /\ three.state = state /\ three.stateAt = stateAt
  BY <1>2, <1>6, <1>7 DEF Sessions
<1>9. PICK four : four = [three EXCEPT !.playedAt = playedAt]
  OBVIOUS
<1>10. four \in Sessions /\ four.state = state /\ four.stateAt = stateAt /\ four.playedAt = playedAt
  BY <1>2, <1>8, <1>9 DEF Sessions
<1>11. PICK merged : merged = [four EXCEPT !.credits = credits]
  OBVIOUS
<1>12. /\ merged \in Sessions /\ merged.state = state /\ merged.stateAt = stateAt
       /\ merged.playedAt = playedAt /\ merged.credits = credits
  BY <1>10, <1>11 DEF Sessions
<1>13. merged = [MergeJourney(stored, incoming) EXCEPT !.credits = credits]
  BY <1>1, <1>3, <1>5, <1>7, <1>9, <1>11
<1>14. Newer(stored, merged)
  BY <1>2, <1>12 DEF Newer
<1> QED
  BY <1>12, <1>13, <1>14

LEMMA JourneyPuts ==
  ASSUME TablesOK(db), store = "journeys", NEW b \in JourneyBodies, NEW put \in ApplyJourney(b)
  PROVE  PutOK(b, put)
<1>1. b.key \in Ids /\ b.base \in Nat /\ (b.op # "delete" => b.value \in Sessions)
  <2>1. \A song \in Names, state \in {"pending", "played", "dropped"}, t \in 1..2 :
          Session(song, state, t) \in Sessions
    BY DEF Session, Sessions
  <2>2. b.op # "delete" => b.value \in
          {Session(song, state, t) :
             song \in Names, state \in {"pending", "played", "dropped"}, t \in 1..2}
    BY SongsAssumption DEF JourneyBodies
  <2>3. b.key \in Ids /\ b.base \in Nat
    BY BoundsAssumption DEF JourneyBodies, Revisions, SeqBound
  <2> QED
    BY <2>1, <2>2, <2>3
<1> DEFINE stored == Value(b.key)
           merged == [MergeJourney(stored, b.value) EXCEPT
                        !.credits = MergeCredits(stored.credits, b.value.credits)]
<1>2. PICK value : /\ b.base = Revision(b.key) /\ put = [key |-> b.key, rev |-> b.base + 1, value |-> value]
                   /\ \/ value = Gone
                      \/ b.op # "delete" /\ stored = Gone /\ value = b.value
                      \/ b.op # "delete" /\ stored # Gone /\ value = merged
  BY DEF ApplyJourney, Put
<1>3. value \in Sessions \cup {Gone} /\ Newer(stored, value)
  <2>1. stored # Gone => stored \in Sessions
    BY <1>1 DEF TablesOK, Value, StoreContents
  <2>2. CASE b.op # "delete" /\ stored # Gone /\ value = merged
    <3>1. stored \in Sessions /\ b.value \in Sessions
      BY <1>1, <2>1, <2>2
    <3>2. /\ MergeCredits(stored.credits, b.value.credits) \in SUBSET Nat
          /\ stored.credits \subseteq MergeCredits(stored.credits, b.value.credits)
      BY <3>1 DEF MergeCredits, Sessions
    <3> QED
      BY <2>2, <3>1, <3>2, MergedJourneys
  <2> QED
    BY <1>1, <1>2, <2>2 DEF Newer
<1> QED
  BY <1>1, <1>2, <1>3 DEF PutOK, Keys, Counted, StoreContents, Contents

\* A put of a period that it keeps the entity of.
LEMMA ShelfPuts ==
  ASSUME TablesOK(db), store = "shelves", NEW b \in ShelfBodies, NEW put \in ApplyShelf(b), put # None
  PROVE  PutOK(b, put)
<1>1. /\ b.op \in {"add", "remove", "restore", "order", "evidence"}
      /\ b.op = "add" => b.key \in Ids /\ b.entity \in Names
      /\ b.op = "order" => b.base \in Nat
      /\ b.op = "evidence" => b.at \in Nat
  BY BoundsAssumption DEF ShelfBodies, Revisions, SeqBound
<1>2. \A i \in Members : i \in Ids /\ Value(i) \in Periods
  BY DEF Members, Value, TablesOK, StoreContents
<1>3. /\ Counted = {"order"} /\ {"order", "evidence"} \subseteq Keys /\ Ids \subseteq Keys
      /\ "order" \notin Ids /\ "evidence" \notin Ids /\ StoreContents = Periods
  BY ValuesAssumption DEF Counted, Keys, StoreContents
<1>4. ASSUME NEW i \in Ids, NEW value \in Periods, put = [key |-> i, rev |-> 0, value |-> value],
             ShelfPut(b, put)
      PROVE  PutOK(b, put)
  BY <1>3, <1>4 DEF PutOK, Contents
<1>5. Live \subseteq Members /\ \A k : Period(k) \subseteq Members
  BY DEF Live, Period
<1>6. CASE b.op = "add"
  <2>1. put \in AddMember(b)
    BY <1>6 DEF ApplyShelf
  <2>2. ASSUME NEW i \in Live, Value(i).entity = b.entity,
               put = [key |-> i, rev |-> 0, value |-> [Value(i) EXCEPT !.aliases = @ \cup {b.key}]]
        PROVE  PutOK(b, put)
    <3>1. PICK old \in Periods : old = Value(i)
      BY <1>2, <1>5
    <3>2. PICK new : new = [old EXCEPT !.aliases = @ \cup {b.key}]
      OBVIOUS
    <3>3. new \in Periods /\ new.entity = old.entity /\ new.deleted = old.deleted
      BY <1>1, <1>6, <3>2 DEF Periods
    <3>4. put = [key |-> i, rev |-> 0, value |-> new]
      BY <2>2, <3>1, <3>2
    <3>5. ShelfPut(b, put)
      BY <3>1, <3>3, <3>4 DEF ShelfPut, Live
    <3> QED
      BY <1>2, <1>4, <1>5, <3>3, <3>4, <3>5
  <2>3. CASE /\ {i \in Live : Value(i).entity = b.entity} = {} /\ Period(b.key) = {}
             /\ put = [key |-> b.key, rev |-> 0,
                       value |-> [entity |-> b.entity, aliases |-> {}, deleted |-> FALSE,
                                  position |-> NextPosition]]
    <3>1. IsFiniteSet(Members)
      BY ValuesAssumption, FS_Subset DEF Members
    <3>2. NextPosition \in Nat
      BY <3>1, FS_CardinalityType DEF NextPosition
    <3>3. PICK value : value = [entity |-> b.entity, aliases |-> {}, deleted |-> FALSE,
                                position |-> NextPosition]
      OBVIOUS
    <3>4. value \in Periods /\ value.entity = b.entity
      BY <1>1, <1>6, <3>2, <3>3 DEF Periods
    <3>5. b.key \notin Members
      BY <2>3 DEF Period
    <3>6. ShelfPut(b, put)
      BY <2>3, <3>3, <3>4, <3>5 DEF ShelfPut
    <3> QED
      BY <1>1, <1>4, <1>6, <2>3, <3>3, <3>4, <3>6
  <2> QED
    BY <2>1, <2>2, <2>3 DEF AddMember, Put
<1>7. CASE b.op = "remove"
  <2>1. PICK i \in Period(b.key) :
           put = [key |-> i, rev |-> 0, value |-> [Value(i) EXCEPT !.deleted = TRUE]]
    BY <1>7 DEF ApplyShelf, RemoveMember, Put
  <2>2. i \in Ids /\ [Value(i) EXCEPT !.deleted = TRUE] \in Periods
        /\ [Value(i) EXCEPT !.deleted = TRUE].deleted
    BY <1>2, <1>5 DEF Periods
  <2>3. ShelfPut(b, put)
    BY <2>1, <2>2 DEF ShelfPut
  <2> QED
    BY <1>4, <2>1, <2>2, <2>3
<1>8. CASE b.op = "restore"
  <2>1. PICK i \in Period(b.key) :
           put = [key |-> i, rev |-> 0,
                  value |-> IF \E j \in Live \ {i} : Value(j).entity = Value(i).entity
                            THEN Value(i) ELSE [Value(i) EXCEPT !.deleted = FALSE]]
    BY <1>8 DEF ApplyShelf, RestoreMember, Put
  <2>2. i \in Ids /\ i \in Members /\ Value(i) \in Periods
        /\ [Value(i) EXCEPT !.deleted = FALSE] \in Periods
        /\ [Value(i) EXCEPT !.deleted = FALSE].entity = Value(i).entity
    BY <1>2, <1>5 DEF Periods
  <2>3. CASE \E j \in Live \ {i} : Value(j).entity = Value(i).entity
    <3>1. put = [key |-> i, rev |-> 0, value |-> Value(i)]
      BY <2>1, <2>3
    <3>2. ShelfPut(b, put)
      BY <2>2, <3>1, <1>8 DEF ShelfPut, Live
    <3> QED
      BY <1>4, <2>2, <3>1, <3>2
  <2>4. CASE ~\E j \in Live \ {i} : Value(j).entity = Value(i).entity
    <3>1. put = [key |-> i, rev |-> 0, value |-> [Value(i) EXCEPT !.deleted = FALSE]]
      BY <2>1, <2>4
    <3>2. ShelfPut(b, put)
      BY <2>2, <2>4, <3>1, <1>8 DEF ShelfPut
    <3> QED
      BY <1>4, <2>2, <3>1, <3>2
  <2> QED
    BY <2>3, <2>4
<1>9. CASE b.op = "order"
  <2>1. b.base = Revision("order") /\ put = [key |-> "order", rev |-> b.base + 1, value |-> Arranged(b.first)]
    BY <1>9 DEF ApplyShelf, Put
  <2>2. Arranged(b.first) \in Places
    <3> DEFINE asked == Live \cap Period(b.first)
               Before(i, j) == \/ i \in asked /\ j \notin asked
                               \/ (i \in asked) = (j \in asked) /\ Value(i).position < Value(j).position
    <3>1. Live \in SUBSET Ids /\ IsFiniteSet(Live)
      BY <1>2, <1>5, ValuesAssumption, FS_Subset
    <3>2. \A i \in Live : Cardinality({j \in Live : Before(j, i)}) \in Nat
      <4> SUFFICES ASSUME NEW i \in Live PROVE Cardinality({j \in Live : Before(j, i)}) \in Nat
        OBVIOUS
      <4>1. {j \in Live : Before(j, i)} \subseteq Live
        OBVIOUS
      <4> QED
        BY <3>1, <4>1, FS_Subset, FS_CardinalityType
    <3>3. Arranged(b.first) = [i \in Live |-> Cardinality({j \in Live : Before(j, i)})]
      BY DEF Arranged
    <3> HIDE DEF Before
    <3>4. Arranged(b.first) \in [Live -> Nat]
      BY <3>2, <3>3
    <3> QED
      BY <3>1, <3>4 DEF Places
  <2> QED
    BY <1>1, <1>3, <1>9, <2>1, <2>2 DEF PutOK, Contents
<1>10. CASE b.op = "evidence"
  <2>1. put = [key |-> "evidence", rev |-> 0, value |-> b.at]
    BY <1>10 DEF ApplyShelf, Put
  <2> QED
    BY <1>1, <1>3, <1>10, <2>1 DEF PutOK, Contents
<1> QED
  BY <1>1, <1>6, <1>7, <1>8, <1>9, <1>10

LEMMA Puts ==
  ASSUME RecordsInv, NEW b \in Bodies, NEW put \in Apply(b), put # None
  PROVE  PutOK(b, put)
<1>1. TablesOK(db) /\ store \in {"vibes", "covers", "journeys", "shelves"}
  BY StoresAssumption DEF RecordsInv, Consistent, HistoryOK
<1> QED
  BY <1>1, VibePuts, CoverPuts, JourneyPuts, ShelfPuts DEF Apply, Bodies

-----------------------------------------------------------------------------
(* Transactions.                                                              *)

LEMMA NewerThanItself ==
  ASSUME store = "journeys", NEW d, TablesOK(d), NEW k \in Ids
  PROVE  Newer(ValueIn(d, k), ValueIn(d, k))
<1>1. ValueIn(d, k) \in Sessions \cup {Gone}
  BY DEF TablesOK, ValueIn, StoreContents
<1> QED
  BY <1>1 DEF Newer, Sessions

\* What leaves the records alone.
LEMMA SameRecords ==
  ASSUME RecordsInv, NEW e, e.records = db.records
  PROVE  Follows(db, e) /\ Counts(e, acks) /\ (e.images = db.images => Photos(e))
<1>1. TablesOK(db) /\ Counts(db, acks) /\ Photos(db)
  BY DEF RecordsInv, Consistent
<1>2. \A k : ValueIn(e, k) = ValueIn(db, k) /\ RevisionIn(e, k) = RevisionIn(db, k)
  BY DEF ValueIn, RevisionIn
<1>3. JourneysFollow(db, e)
  BY <1>1, <1>2, NewerThanItself DEF JourneysFollow
<1>4. ShelvesFollow(db, e)
  BY <1>2 DEF ShelvesFollow, TwoLiveIn, LiveIn
<1> QED
  BY <1>1, <1>2, <1>3, <1>4 DEF Follows, Counts, Photos

\* A mutation's write, as the tables it leaves.
LEMMA WriteFollows ==
  ASSUME RecordsInv, NEW b \in Bodies, NEW put \in Apply(b), put # None,
         NEW r \in Requests, NEW e, e.records = Written(put), e.images = db.images,
         e.receipts[r] # None, e.receipts[r].op = b.op, db.receipts[r] = None
  PROVE  /\ e.records \in [Keys -> Records \cup {None}]
         /\ \A k \in Ids : e.records[k] # None => e.records[k].value \in StoreContents
         /\ \A k \in Counted : RevisionIn(e, k) = IF k = put.key THEN acks[k] + 1 ELSE acks[k]
         /\ Photos(e) /\ Follows(db, e)
<1> DEFINE rec == [rev |-> put.rev, value |-> put.value, seq |-> sequence + 1]
<1>1. PutOK(b, put)
  BY Puts
<1>2. /\ TablesOK(db) /\ Counts(db, acks) /\ Photos(db) /\ sequence \in Nat
      /\ Counted \subseteq Keys /\ Ids \subseteq Keys
  BY DEF RecordsInv, Consistent, HistoryOK, Counted, Keys
<1>3. rec \in Records /\ rec # None /\ rec.rev = put.rev /\ rec.value = put.value /\ put.key \in Keys
  BY <1>1, <1>2, ValuesAssumption DEF PutOK, Records
<1>4. e.records = [db.records EXCEPT ![put.key] = rec] /\ db.records \in [Keys -> Records \cup {None}]
  BY <1>2 DEF Written, TablesOK
<1> HIDE DEF rec
<1>5. /\ e.records \in [Keys -> Records \cup {None}]
      /\ \A k \in Keys : e.records[k] = IF k = put.key THEN rec ELSE db.records[k]
  BY <1>3, <1>4
<1>6. \A k \in Ids : e.records[k] # None => e.records[k].value \in StoreContents
  BY <1>1, <1>2, <1>3, <1>5 DEF PutOK, TablesOK
<1>7. /\ \A k \in Keys : ValueIn(e, k) = IF k = put.key THEN put.value ELSE Value(k)
      /\ \A k \in Keys : RevisionIn(e, k) = IF k = put.key THEN put.rev ELSE Revision(k)
      /\ \A k : ValueIn(db, k) = Value(k) /\ RevisionIn(db, k) = Revision(k)
  BY <1>3, <1>5 DEF ValueIn, RevisionIn, Value, Revision
<1>8. \A k \in Counted : RevisionIn(e, k) = IF k = put.key THEN acks[k] + 1 ELSE acks[k]
  BY <1>1, <1>2, <1>7 DEF PutOK, Counts
<1>9. Photos(e)
  BY <1>1, <1>2, <1>7 DEF PutOK, Photos
<1>10. JourneysFollow(db, e)
  BY <1>1, <1>2, <1>7, NewerThanItself DEF PutOK, JourneysFollow
<1>11. ShelvesFollow(db, e)
  <2> SUFFICES ASSUME store = "shelves"
               PROVE  /\ \A i \in MembersIn(db) : ValueIn(db, i).deleted /\ ~ValueIn(e, i).deleted => RestoresIn(db, e)
                      /\ \A name \in Names :
                           TwoLiveIn(e, name) /\ ~TwoLiveIn(db, name) =>
                             \E i \in MembersIn(db) : ValueIn(db, i).entity # ValueIn(e, i).entity
    BY DEF ShelvesFollow
  <2>1. ASSUME NEW i \in MembersIn(db), ValueIn(db, i).deleted, ~ValueIn(e, i).deleted
        PROVE  RestoresIn(db, e)
    <3>1. i \in Ids /\ i \in Members /\ i = put.key
      BY <1>2, <1>7, <2>1 DEF MembersIn, Members
    <3>2. b.op = "restore"
      BY <1>1, <1>2, <1>7, <2>1, <3>1 DEF PutOK, ShelfPut
    <3> QED
      BY <3>2 DEF RestoresIn
  <2>2. ASSUME NEW name \in Names, TwoLiveIn(e, name), ~TwoLiveIn(db, name)
        PROVE  \E i \in MembersIn(db) : ValueIn(db, i).entity # ValueIn(e, i).entity
    <3>1. PICK i, j \in Ids : /\ LiveIn(e, i) /\ LiveIn(e, j) /\ i # j
                              /\ ValueIn(e, i).entity = name /\ ValueIn(e, j).entity = name
      BY <2>2 DEF TwoLiveIn
    <3>2. ASSUME NEW k \in Ids, LiveIn(e, k), k # put.key
          PROVE  k \in Live /\ LiveIn(db, k) /\ ValueIn(db, k) = ValueIn(e, k)
      BY <1>2, <1>5, <1>7, <3>2 DEF LiveIn, Live, Members
    <3>3. ASSUME NEW k \in Ids, k \in Live PROVE LiveIn(db, k)
      BY <1>7, <3>3 DEF LiveIn, Live, Members
    <3>4. ASSUME NEW k \in Ids, NEW l \in Ids, k = put.key, LiveIn(e, k), LiveIn(e, l), l # k,
                 ValueIn(e, k).entity = name, ValueIn(e, l).entity = name
          PROVE  FALSE
      <4>1. l \in Live /\ LiveIn(db, l) /\ ValueIn(db, l).entity = name /\ Value(l).entity = name
        BY <1>7, <3>2, <3>4
      <4>2. ~put.value.deleted /\ put.value.entity = name
        BY <1>2, <1>7, <3>4 DEF LiveIn
      <4>3. k \in Live /\ Value(k).entity = name
        BY <1>1, <3>4, <4>1, <4>2 DEF PutOK, ShelfPut
      <4>4. LiveIn(db, k) /\ ValueIn(db, k).entity = name
        BY <1>7, <3>3, <4>3
      <4> QED
        BY <2>2, <3>4, <4>1, <4>4 DEF TwoLiveIn
    <3>5. i = put.key \/ j = put.key
      BY <2>2, <3>1, <3>2 DEF TwoLiveIn
    <3> QED
      BY <3>1, <3>4, <3>5
  <2> QED
    BY <2>1, <2>2
<1> QED
  BY <1>5, <1>6, <1>8, <1>9, <1>10, <1>11 DEF Follows

LEMMA OpensMutation ==
  ASSUME RecordsInv, NEW p \in Procs, NEW r \in Requests, NEW b \in Bodies, Mutate(p, r, b)
  PROVE  RecordsInv'
<1>1. PICK put \in Apply(b) :
        LET written == put # None
            receipt == [op |-> b.op, name |-> IF written THEN Name(put.key, put.value) ELSE None]
        IN /\ sequence' = IF written THEN sequence + 1 ELSE sequence
           /\ Begin(p, [db EXCEPT !.receipts[r] = receipt,
                                  !.records = IF written THEN Written(put) ELSE @],
                    [kind |-> "mutation", id |-> r, key |-> IF written THEN put.key ELSE None])
  BY DEF Mutate
<1>2. Unlocked /\ db.receipts[r] = None /\ UNCHANGED <<store, db, acks, applied>>
  BY DEF Mutate
<1>3. PICK receipt : receipt = [op |-> b.op, name |-> IF put # None THEN Name(put.key, put.value) ELSE None]
  OBVIOUS
<1>4. PICK records_ : records_ = IF put # None THEN Written(put) ELSE db.records
  OBVIOUS
<1>5. PICK key : key = IF put # None THEN put.key ELSE None
  OBVIOUS
<1>6. PICK e : e = [db EXCEPT !.receipts[r] = receipt, !.records = records_]
  OBVIOUS
<1>7. PICK work : work = [kind |-> "mutation", id |-> r, key |-> key]
  OBVIOUS
<1>8. Begin(p, e, work) /\ sequence' \in {sequence, sequence + 1}
  BY <1>1, <1>3, <1>4, <1>5, <1>6, <1>7
<1>9. /\ TablesOK(db) /\ Counts(db, acks) /\ Once(db, applied) /\ sequence \in Nat
      /\ acks \in [Keys -> Nat] /\ applied \in [Requests -> Nat] /\ Counted \subseteq Keys
  BY DEF RecordsInv, Consistent, HistoryOK, Counted, Keys
<1>10. /\ e.records = records_ /\ e.receipts = [db.receipts EXCEPT ![r] = receipt] /\ e.images = db.images
       /\ e = [records |-> e.records, receipts |-> e.receipts, images |-> e.images]
  BY <1>6, <1>9 DEF TablesOK
<1>11. receipt \in Receipts /\ receipt # None /\ receipt.op = b.op
  <2>1. b.op \in {"put", "delete", "upsert", "add", "remove", "restore", "order", "evidence"}
    <3>1. store \in {"vibes", "covers", "journeys", "shelves"}
      BY StoresAssumption DEF RecordsInv, HistoryOK
    <3> QED
      BY <3>1 DEF Bodies, VibeBodies, CoverBodies, JourneyBodies, ShelfBodies
  <2>2. put # None => Name(put.key, put.value) \in Contents \cup {None}
    <3> SUFFICES ASSUME put # None PROVE Name(put.key, put.value) \in Contents \cup {None}
      OBVIOUS
    <3>1. PutOK(b, put)
      BY Puts
    <3> QED
      BY <3>1 DEF PutOK, Name, StoreContents, Contents, Sessions, Periods
  <2> QED
    BY <1>3, <2>1, <2>2, ValuesAssumption DEF Receipts
<1>12. /\ e.receipts \in [Requests -> Receipts \cup {None}] /\ e.receipts[r] = receipt
       /\ \A q \in Requests : q # r => e.receipts[q] = db.receipts[q]
  BY <1>9, <1>10, <1>11 DEF TablesOK
<1>13. /\ work.kind = "mutation" /\ work.key = key /\ work.id = r
  BY <1>7
<1>14. /\ AppliedAfter(work) = IF key # None THEN [applied EXCEPT ![r] = @ + 1] ELSE applied
       /\ AcksAfter(work) = IF key \in Counted THEN [acks EXCEPT ![key] = @ + 1] ELSE acks
  BY <1>13 DEF AppliedAfter, AcksAfter
<1>15. AppliedAfter(work) \in [Requests -> Nat] /\ Once(e, AppliedAfter(work))
  BY <1>2, <1>9, <1>11, <1>12, <1>14 DEF Once
<1>16. AcksAfter(work) \in [Keys -> Nat]
  BY <1>9, <1>14
<1> DEFINE t == [db |-> e, work |-> work]
<1>17. ASSUME put # None PROVE Consistent(e, AcksAfter(work), AppliedAfter(work)) /\ Follows(db, e)
  <2>1. e.records = Written(put) /\ key = put.key
    BY <1>4, <1>5, <1>10, <1>17
  <2>2. /\ e.records \in [Keys -> Records \cup {None}]
        /\ \A k \in Ids : e.records[k] # None => e.records[k].value \in StoreContents
        /\ \A k \in Counted : RevisionIn(e, k) = IF k = put.key THEN acks[k] + 1 ELSE acks[k]
        /\ Photos(e) /\ Follows(db, e)
    BY <1>2, <1>10, <1>11, <1>12, <1>17, <2>1, WriteFollows
  <2>3. Counts(e, AcksAfter(work))
    BY <1>9, <1>14, <2>1, <2>2 DEF Counts
  <2>4. TablesOK(e)
    BY <1>9, <1>10, <1>12, <2>2 DEF TablesOK
  <2> QED
    BY <1>15, <2>2, <2>3, <2>4 DEF Consistent
<1>18. ASSUME put = None PROVE Consistent(e, AcksAfter(work), AppliedAfter(work)) /\ Follows(db, e)
  <2>1. e.records = db.records /\ key = None /\ key \notin Counted
    BY <1>4, <1>5, <1>9, <1>10, <1>18, ValuesAssumption
  <2>2. Follows(db, e) /\ Counts(e, acks) /\ Photos(e)
    BY <1>10, <2>1, SameRecords
  <2>3. TablesOK(e)
    BY <1>9, <1>10, <1>12, <2>1 DEF TablesOK
  <2> QED
    BY <1>14, <1>15, <2>1, <2>2, <2>3 DEF Consistent
<1>19. t.db = e /\ t.work = work
  OBVIOUS
<1>20. OpenOK(t)
  <2> HIDE DEF t
  <2> QED
    BY <1>15, <1>16, <1>17, <1>18, <1>19 DEF OpenOK
<1> QED
  BY <1>2, <1>8, <1>9, <1>20, Begins

\* An upload, and the two purges, which leave the records alone.
LEMMA OpensUpload ==
  ASSUME RecordsInv, NEW p \in Procs, NEW i \in Images, StoreImage(p, i)
  PROVE  RecordsInv'
<1>1. PICK e : e = [db EXCEPT !.images = @ \cup {i}]
  OBVIOUS
<1>2. PICK work : work = [kind |-> "image"]
  OBVIOUS
<1>3. /\ Begin(p, e, work) /\ Unlocked /\ UNCHANGED <<store, db, sequence, acks, applied>>
  BY <1>1, <1>2 DEF StoreImage
<1>4. /\ TablesOK(db) /\ Once(db, applied) /\ sequence \in Nat /\ Photos(db)
      /\ acks \in [Keys -> Nat] /\ applied \in [Requests -> Nat]
  BY DEF RecordsInv, Consistent, HistoryOK
<1>5. /\ e.records = db.records /\ e.receipts = db.receipts /\ e.images = db.images \cup {i}
      /\ TablesOK(e)
  BY <1>1, <1>4 DEF TablesOK
<1>6. Follows(db, e) /\ Counts(e, acks) /\ Once(e, applied)
  BY <1>4, <1>5, SameRecords DEF Once
<1>7. Photos(e)
  BY <1>4, <1>5 DEF Photos, ValueIn
<1>8. AcksAfter(work) = acks /\ AppliedAfter(work) = applied
  BY <1>2 DEF AcksAfter, AppliedAfter
<1> DEFINE t == [db |-> e, work |-> work]
<1>9. t.db = e /\ t.work = work
  OBVIOUS
<1>10. OpenOK(t)
  <2> HIDE DEF t
  <2> QED
    BY <1>4, <1>5, <1>6, <1>7, <1>8, <1>9 DEF OpenOK, Consistent
<1> QED
  BY <1>3, <1>4, <1>10, Begins

LEMMA OpensReceiptPurge ==
  ASSUME RecordsInv, NEW p \in Procs, NEW batch \in SUBSET Requests, PurgeReceipts(p, batch)
  PROVE  RecordsInv'
<1>1. PICK kept : kept = [r \in Requests |-> IF r \in batch THEN None ELSE db.receipts[r]]
  OBVIOUS
<1>2. PICK e : e = [db EXCEPT !.receipts = kept]
  OBVIOUS
<1>3. PICK work : work = [kind |-> "purge", ids |-> batch]
  OBVIOUS
<1>4. /\ Begin(p, e, work) /\ Unlocked /\ UNCHANGED <<store, db, sequence, acks, applied>>
  BY <1>1, <1>2, <1>3 DEF PurgeReceipts
<1>5. /\ TablesOK(db) /\ Once(db, applied) /\ sequence \in Nat
      /\ acks \in [Keys -> Nat] /\ applied \in [Requests -> Nat]
  BY DEF RecordsInv, Consistent, HistoryOK
<1>6. kept \in [Requests -> Receipts \cup {None}]
  BY <1>1, <1>5 DEF TablesOK
<1>7. /\ e.records = db.records /\ e.receipts = kept /\ e.images = db.images
      /\ TablesOK(e)
  BY <1>2, <1>5, <1>6 DEF TablesOK
<1>8. Follows(db, e) /\ Counts(e, acks) /\ Photos(e)
  BY <1>7, SameRecords
<1>9. AcksAfter(work) = acks /\ AppliedAfter(work) = [r \in Requests |-> IF r \in batch THEN 0 ELSE applied[r]]
  BY <1>3 DEF AcksAfter, AppliedAfter
<1>10. AppliedAfter(work) \in [Requests -> Nat] /\ Once(e, AppliedAfter(work))
  BY <1>1, <1>5, <1>7, <1>9 DEF Once
<1> DEFINE t == [db |-> e, work |-> work]
<1>11. t.db = e /\ t.work = work
  OBVIOUS
<1>12. OpenOK(t)
  <2> HIDE DEF t
  <2> QED
    BY <1>5, <1>7, <1>8, <1>9, <1>10, <1>11 DEF OpenOK, Consistent
<1> QED
  BY <1>4, <1>5, <1>12, Begins

LEMMA OpensImagePurge ==
  ASSUME RecordsInv, NEW p \in Procs, PurgeImages(p)
  PROVE  RecordsInv'
<1>1. PICK kept : kept = db.images \ {i \in sweep : Unused(i)}
  OBVIOUS
<1>2. PICK e : e = [db EXCEPT !.images = kept]
  OBVIOUS
<1>3. PICK work : work = [kind |-> "images"]
  OBVIOUS
<1>4. /\ Begin(p, e, work) /\ Unlocked /\ UNCHANGED <<store, db, sequence, acks, applied>>
  BY <1>1, <1>2, <1>3 DEF PurgeImages
<1>5. /\ TablesOK(db) /\ Once(db, applied) /\ sequence \in Nat /\ Photos(db)
      /\ acks \in [Keys -> Nat] /\ applied \in [Requests -> Nat]
  BY DEF RecordsInv, Consistent, HistoryOK
<1>6. /\ e.records = db.records /\ e.receipts = db.receipts /\ e.images = kept
      /\ TablesOK(e)
  BY <1>1, <1>2, <1>5 DEF TablesOK
<1>7. Follows(db, e) /\ Counts(e, acks) /\ Once(e, applied)
  BY <1>5, <1>6, SameRecords DEF Once
<1>8. Photos(e)
  <2>1. \A k \in Ids : ValueIn(e, k) = Value(k) /\ ValueIn(db, k) = Value(k)
    BY <1>6 DEF ValueIn, Value
  <2>2. \A k \in Ids : ~Unused(Value(k))
    BY DEF Unused
  <2> QED
    BY <1>1, <1>5, <1>6, <2>1, <2>2 DEF Photos
<1>9. AcksAfter(work) = acks /\ AppliedAfter(work) = applied
  BY <1>3 DEF AcksAfter, AppliedAfter
<1> DEFINE t == [db |-> e, work |-> work]
<1>10. t.db = e /\ t.work = work
  OBVIOUS
<1>11. OpenOK(t)
  <2> HIDE DEF t
  <2> QED
    BY <1>5, <1>6, <1>7, <1>8, <1>9, <1>10 DEF OpenOK, Consistent
<1> QED
  BY <1>4, <1>5, <1>11, Begins

\* A renamed record, and a renamed answer.
LEMMA RenamedContents ==
  ASSUME store \in Stores, NEW k \in Ids, NEW value \in StoreContents, Name(k, value) = "old"
  PROVE  /\ Renamed(value) \in StoreContents /\ Renamed(value) \in Contents
         /\ store = "covers" => Renamed(value) \notin Images
         /\ store = "journeys" => Newer(value, Renamed(value))
         /\ store = "shelves" => Renamed(value).deleted = value.deleted
<1>1. value # Gone
  BY ValuesAssumption DEF Name, Names
<1>2. PICK new : new = Renamed(value)
  OBVIOUS
<1>3. CASE store = "journeys"
  <2>1. value \in Sessions /\ new = [value EXCEPT !.song = "new"]
    BY <1>1, <1>2, <1>3 DEF StoreContents, Renamed
  <2>2. /\ new \in Sessions /\ new.credits = value.credits /\ new.playedAt = value.playedAt
        /\ new.state = value.state /\ new.place = value.place
    BY <2>1 DEF Sessions, Names
  <2>3. Newer(value, new)
    BY <2>1, <2>2 DEF Newer, Sessions
  <2> QED
    BY <1>2, <1>3, <2>2, <2>3 DEF StoreContents, Contents
<1>4. CASE store = "shelves"
  <2>1. value \in Periods /\ new = [value EXCEPT !.entity = "new"]
    BY <1>2, <1>4 DEF StoreContents, Renamed
  <2>2. new \in Periods /\ new.deleted = value.deleted
    BY <2>1 DEF Periods, Names
  <2> QED
    BY <1>2, <1>4, <2>2 DEF StoreContents, Contents
<1>5. CASE store \notin {"journeys", "shelves"}
  <2>1. new = "new"
    BY <1>2, <1>5 DEF Renamed
  <2> QED
    BY <1>2, <1>5, <2>1, ValuesAssumption DEF StoreContents, Contents, Names
<1> QED
  BY <1>3, <1>4, <1>5

\* The records as a rekey leaves them.
RekeyedRecords(touched, number) ==
    [k \in Keys |-> IF k \in touched
                    THEN [db.records[k] EXCEPT !.value = Renamed(@), !.seq = number[k]]
                    ELSE db.records[k]]

LEMMA RekeyFollows ==
  ASSUME RecordsInv, NEW touched, touched = {k \in Keys : Name(k, Value(k)) = "old"},
         NEW number, \A k \in touched : number[k] \in Nat,
         NEW e, e.records = RekeyedRecords(touched, number), e.images = db.images
  PROVE  /\ e.records \in [Keys -> Records \cup {None}]
         /\ \A k \in Ids : e.records[k] # None => e.records[k].value \in StoreContents
         /\ Counts(e, acks) /\ Photos(e) /\ Follows(db, e)
<1>1. /\ TablesOK(db) /\ Counts(db, acks) /\ Photos(db) /\ store \in Stores
      /\ Counted \subseteq Keys /\ Ids \subseteq Keys /\ db.records \in [Keys -> Records \cup {None}]
  BY DEF RecordsInv, Consistent, HistoryOK, Counted, Keys, TablesOK
<1>2. ASSUME NEW k \in touched
      PROVE  /\ k \in Ids /\ db.records[k] \in Records /\ db.records[k] # None
             /\ db.records[k].value = Value(k) /\ Value(k) \in StoreContents /\ Name(k, Value(k)) = "old"
  <2>1. Name(k, Value(k)) = "old" /\ k \in Keys
    BY <1>2
  <2>2. k \in Ids /\ Value(k) # Gone
    BY <2>1, ValuesAssumption DEF Name, Names
  <2>3. db.records[k] # None
    BY <2>2 DEF Value
  <2> QED
    BY <1>1, <2>1, <2>2, <2>3 DEF Value, TablesOK
<1>3. ASSUME NEW k \in touched
      PROVE  /\ e.records[k] \in Records /\ e.records[k] # None
             /\ e.records[k].rev = db.records[k].rev /\ e.records[k].value = Renamed(Value(k))
  <2>1. PICK old \in Records : old = db.records[k]
    BY <1>2
  <2>2. PICK value \in Contents : value = Renamed(Value(k))
    BY <1>1, <1>2, RenamedContents
  <2>3. number[k] \in Nat
    OBVIOUS
  <2>4. PICK half : half = [old EXCEPT !.value = value]
    OBVIOUS
  <2>5. half \in Records /\ half.rev = old.rev /\ half.value = value
    BY <2>4 DEF Records
  <2>6. PICK new : new = [half EXCEPT !.seq = number[k]]
    OBVIOUS
  <2>7. new \in Records /\ new.rev = old.rev /\ new.value = value
    BY <2>3, <2>5, <2>6 DEF Records
  <2>8. e.records[k] = [db.records[k] EXCEPT !.value = Renamed(db.records[k].value), !.seq = number[k]]
    BY <1>1, <1>2 DEF RekeyedRecords
  <2>9. [db.records[k] EXCEPT !.value = Renamed(db.records[k].value), !.seq = number[k]] =
          [[db.records[k] EXCEPT !.value = Renamed(db.records[k].value)] EXCEPT !.seq = number[k]]
    OBVIOUS
  <2>10. e.records[k] = new
    BY <1>2, <2>1, <2>2, <2>4, <2>6, <2>8, <2>9
  <2> QED
    BY <2>1, <2>2, <2>7, <2>10, ValuesAssumption
<1>4. \A k \in Keys \ touched : e.records[k] = db.records[k]
  BY DEF RekeyedRecords
<1>5. e.records \in [Keys -> Records \cup {None}]
  <2>1. \A k \in Keys : e.records[k] \in Records \cup {None}
    BY <1>1, <1>3, <1>4
  <2> QED
    BY <2>1 DEF RekeyedRecords
<1>6. /\ \A k \in touched : ValueIn(e, k) = Renamed(Value(k))
      /\ \A k \in Keys \ touched : ValueIn(e, k) = Value(k)
      /\ \A k \in Keys : RevisionIn(e, k) = RevisionIn(db, k) /\ ValueIn(db, k) = Value(k)
  BY <1>2, <1>3, <1>4 DEF ValueIn, RevisionIn, Value
<1>7. \A k \in Ids : e.records[k] # None => e.records[k].value \in StoreContents
  <2> SUFFICES ASSUME NEW k \in Ids, e.records[k] # None PROVE e.records[k].value \in StoreContents
    OBVIOUS
  <2>1. CASE k \in touched
    BY <1>1, <1>2, <1>3, <2>1, RenamedContents
  <2>2. CASE k \notin touched
    BY <1>1, <1>4, <2>2 DEF TablesOK
  <2> QED
    BY <2>1, <2>2
<1>8. Counts(e, acks)
  BY <1>1, <1>6 DEF Counts
<1>9. Photos(e)
  <2> SUFFICES ASSUME store = "covers", NEW k \in Ids, ValueIn(e, k) \in Images PROVE ValueIn(e, k) \in e.images
    BY DEF Photos
  <2>1. k \notin touched
    BY <1>1, <1>2, <1>6, RenamedContents
  <2> QED
    BY <1>1, <1>6, <2>1 DEF Photos
<1>10. JourneysFollow(db, e)
  <2> SUFFICES ASSUME store = "journeys", NEW k \in Ids PROVE Newer(ValueIn(db, k), ValueIn(e, k))
    BY DEF JourneysFollow
  <2>1. CASE k \in touched
    BY <1>1, <1>2, <1>6, <2>1, RenamedContents
  <2>2. CASE k \notin touched
    BY <1>1, <1>6, <2>2, NewerThanItself
  <2> QED
    BY <2>1, <2>2
<1>11. ShelvesFollow(db, e)
  <2> SUFFICES ASSUME store = "shelves"
               PROVE  /\ \A i \in MembersIn(db) : ValueIn(db, i).deleted = ValueIn(e, i).deleted
                      /\ \A name \in Names :
                           TwoLiveIn(e, name) /\ ~TwoLiveIn(db, name) =>
                             \E i \in MembersIn(db) : ValueIn(db, i).entity # ValueIn(e, i).entity
    BY DEF ShelvesFollow
  <2>1. ASSUME NEW i \in Ids
        PROVE  /\ ValueIn(db, i).deleted = ValueIn(e, i).deleted
               /\ e.records[i] # None => i \in MembersIn(db)
    <3>1. CASE i \in touched
      BY <1>1, <1>2, <1>6, <3>1, RenamedContents DEF MembersIn
    <3>2. CASE i \notin touched
      BY <1>1, <1>4, <1>6, <3>2 DEF MembersIn
    <3> QED
      BY <3>1, <3>2
  <2>2. ASSUME NEW name \in Names, TwoLiveIn(e, name),
               \A i \in MembersIn(db) : ValueIn(db, i).entity = ValueIn(e, i).entity
        PROVE  TwoLiveIn(db, name)
    <3>1. PICK i, j \in Ids : /\ LiveIn(e, i) /\ LiveIn(e, j) /\ i # j
                              /\ ValueIn(e, i).entity = name /\ ValueIn(e, j).entity = name
      BY <2>2 DEF TwoLiveIn
    <3>2. LiveIn(db, i) /\ LiveIn(db, j) /\ i \in MembersIn(db) /\ j \in MembersIn(db)
      BY <2>1, <3>1 DEF LiveIn, MembersIn
    <3> QED
      BY <2>2, <3>1, <3>2 DEF TwoLiveIn
  <2> QED
    BY <2>1, <2>2 DEF MembersIn
<1> QED
  BY <1>5, <1>7, <1>8, <1>9, <1>10, <1>11 DEF Follows

LEMMA OpensRekey ==
  ASSUME RecordsInv, NEW p \in Procs, Rekey(p)
  PROVE  RecordsInv'
<1> DEFINE touched == {k \in Keys : Name(k, Value(k)) = "old"}
           answers == {r \in Requests : db.receipts[r] # None /\ db.receipts[r].name = "old"}
           top == sequence + Cardinality(touched)
<1>1. PICK number \in [touched -> sequence + 1 .. top] :
        Begin(p, [db EXCEPT
                  !.records = RekeyedRecords(touched, number),
                  !.receipts = [r \in Requests |-> IF r \in answers
                                 THEN [db.receipts[r] EXCEPT !.name = "new"] ELSE db.receipts[r]]],
              [kind |-> "rekey"])
  BY DEF Rekey, RekeyedRecords
<1>2. /\ Unlocked /\ sequence' = top /\ UNCHANGED <<store, db, acks, applied>>
  BY DEF Rekey
<1>3. /\ TablesOK(db) /\ Once(db, applied) /\ sequence \in Nat
      /\ acks \in [Keys -> Nat] /\ applied \in [Requests -> Nat]
  BY DEF RecordsInv, Consistent, HistoryOK
<1>4. top \in Nat /\ \A k \in touched : number[k] \in Nat
  <2>1. touched \in SUBSET Ids
    BY ValuesAssumption DEF Name, Names
  <2>2. IsFiniteSet(touched)
    BY <2>1, ValuesAssumption, FS_Subset
  <2>3. Cardinality(touched) \in Nat
    BY <2>2, FS_CardinalityType
  <2> HIDE DEF touched
  <2>4. top \in Nat
    BY <1>3, <2>3
  <2> HIDE DEF top
  <2>5. \A k \in touched : number[k] \in sequence + 1 .. top
    OBVIOUS
  <2> QED
    BY <1>3, <2>4, <2>5
<1>5. PICK records_ : records_ = RekeyedRecords(touched, number)
  OBVIOUS
<1>6. PICK receipts_ : receipts_ = [r \in Requests |-> IF r \in answers
                                     THEN [db.receipts[r] EXCEPT !.name = "new"] ELSE db.receipts[r]]
  OBVIOUS
<1>7. PICK e : e = [db EXCEPT !.records = records_, !.receipts = receipts_]
  OBVIOUS
<1>8. PICK work : work = [kind |-> "rekey"]
  OBVIOUS
<1>9. Begin(p, e, work)
  BY <1>1, <1>5, <1>6, <1>7, <1>8
<1>10. /\ e.records = records_ /\ e.receipts = receipts_ /\ e.images = db.images
       /\ e = [records |-> e.records, receipts |-> e.receipts, images |-> e.images]
  BY <1>3, <1>7 DEF TablesOK
<1>11. receipts_ \in [Requests -> Receipts \cup {None}]
       /\ \A r \in Requests : receipts_[r] = None => db.receipts[r] = None
  <2>1. ASSUME NEW r \in answers
        PROVE  [db.receipts[r] EXCEPT !.name = "new"] \in Receipts
    <3>1. PICK old \in Receipts : old = db.receipts[r]
      BY <1>3 DEF TablesOK
    <3>2. [old EXCEPT !.name = "new"] \in Receipts
      BY DEF Receipts, Contents, Names
    <3> QED
      BY <3>1, <3>2
  <2>2. \A r \in Requests : db.receipts[r] \in Receipts \cup {None}
    BY <1>3 DEF TablesOK
  <2> HIDE DEF answers
  <2>3. \A r \in Requests : receipts_[r] = IF r \in answers
          THEN [db.receipts[r] EXCEPT !.name = "new"] ELSE db.receipts[r]
    BY <1>6
  <2>4. \A r \in Requests : receipts_[r] \in Receipts \cup {None}
    BY <2>1, <2>2, <2>3
  <2>5. receipts_ \in [Requests -> Receipts \cup {None}]
    BY <1>6, <2>4
  <2> QED
    BY <2>1, <2>3, <2>5, ValuesAssumption
<1>12. /\ e.records \in [Keys -> Records \cup {None}]
       /\ \A k \in Ids : e.records[k] # None => e.records[k].value \in StoreContents
       /\ Counts(e, acks) /\ Photos(e) /\ Follows(db, e)
  <2>1. e.records = RekeyedRecords(touched, number)
    BY <1>5, <1>10
  <2> QED
    BY <1>4, <1>10, <2>1, RekeyFollows
<1>13. Once(e, applied)
  BY <1>3, <1>10, <1>11 DEF Once
<1>14. TablesOK(e)
  BY <1>3, <1>10, <1>11, <1>12 DEF TablesOK
<1>15. AcksAfter(work) = acks /\ AppliedAfter(work) = applied
  BY <1>8 DEF AcksAfter, AppliedAfter
<1> DEFINE t == [db |-> e, work |-> work]
<1>16. t.db = e /\ t.work = work
  OBVIOUS
<1>17. OpenOK(t)
  <2> HIDE DEF t
  <2> QED
    BY <1>3, <1>12, <1>13, <1>14, <1>15, <1>16 DEF OpenOK, Consistent
<1>18. sequence' \in Nat
  BY <1>2, <1>4
<1> HIDE DEF touched, answers, top
<1> QED
  BY <1>2, <1>9, <1>17, <1>18, Begins

-----------------------------------------------------------------------------
(* Every step, and the first two theorems.                                    *)

\* A step that touches only the sweep and the device.
LEMMA ReadsOnly ==
  ASSUME RecordsInv, UNCHANGED <<store, db, open, sequence, acks, applied>>
  PROVE  RecordsInv'
BY DEF RecordsInv, HistoryOK, OneOpen, AllOpenOK, OpenOK, Consistent, AcksAfter, AppliedAfter,
   Follows, TablesOK, Counts, Once, Photos, JourneysFollow, ShelvesFollow, StoreContents, Counted

\* Only a commit changes the tables, and then to tables that follow them.
LEMMA RecordsStep ==
  ASSUME RecordsInv, [Next]_vars
  PROVE  RecordsInv' /\ store' = store /\ (db' = db \/ Follows(db, db'))
<1>1. ASSUME NEW p \in Procs, NEW r \in Requests, NEW b \in Bodies, Mutate(p, r, b)
      PROVE  RecordsInv' /\ store' = store /\ db' = db
  BY <1>1, OpensMutation DEF Mutate
<1>2. ASSUME NEW p \in Procs, NEW i \in Images, StoreImage(p, i)
      PROVE  RecordsInv' /\ store' = store /\ db' = db
  BY <1>2, OpensUpload DEF StoreImage
<1>3. ASSUME NEW p \in Procs, Rekey(p)
      PROVE  RecordsInv' /\ store' = store /\ db' = db
  BY <1>3, OpensRekey DEF Rekey
<1>4. ASSUME NEW p \in Procs, NEW batch \in SUBSET Requests, PurgeReceipts(p, batch)
      PROVE  RecordsInv' /\ store' = store /\ db' = db
  BY <1>4, OpensReceiptPurge DEF PurgeReceipts
<1>5. ASSUME NEW p \in Procs, PurgeImages(p)
      PROVE  RecordsInv' /\ store' = store /\ db' = db
  BY <1>5, OpensImagePurge DEF PurgeImages
<1>6. ASSUME NEW p \in Procs, Commit(p)
      PROVE  RecordsInv' /\ store' = store /\ Follows(db, db')
  BY <1>6, CommitEnds
<1>7. ASSUME NEW p \in Procs, Rollback(p)
      PROVE  RecordsInv' /\ store' = store /\ db' = db
  BY <1>7, RollbackEnds DEF Rollback
<1>8. ASSUME SelectImages \/ ReadPage \/ UNCHANGED vars
      PROVE  RecordsInv' /\ store' = store /\ db' = db
  BY <1>8, ReadsOnly DEF SelectImages, ReadPage, vars
<1> QED
  BY <1>1, <1>2, <1>3, <1>4, <1>5, <1>6, <1>7, <1>8 DEF Next

\* Tables that follow the committed ones keep what must outlive a write.
LEMMA FollowingKeeps ==
  ASSUME RecordsInv, store' = store, db' = db \/ Follows(db, db')
  PROVE  KeepsNewest /\ KeepsPeriods
<1>1. Follows(db, db')
  BY SameRecords
<1>2. \A k : Value(k) = ValueIn(db, k) /\ Value(k)' = ValueIn(db', k)
  BY DEF Value, ValueIn
<1>3. KeepsNewest
  BY <1>1, <1>2 DEF Follows, JourneysFollow, Newer, KeepsNewest
<1>4. KeepsPeriods
  <2>1. Members = MembersIn(db) /\ Restoring = RestoresIn(db, db')
    BY DEF Members, MembersIn, Restoring, RestoresIn
  <2>2. \A i \in Ids : /\ i \in Live <=> LiveIn(db, i)
                       /\ i \in Live' <=> LiveIn(db', i)
    BY DEF Live, Members, LiveIn, Value, ValueIn
  <2>3. Live \subseteq Ids /\ Live' \subseteq Ids
    BY DEF Live, Members
  <2>4. \A e : TwoLivePeriods(e) = TwoLiveIn(db, e)
    BY <1>2, <2>2, <2>3 DEF TwoLivePeriods, TwoLiveIn
  <2>5. \A e : TwoLivePeriods(e)' = TwoLiveIn(db', e)
    BY <1>2, <2>2, <2>3 DEF TwoLivePeriods, TwoLiveIn
  <2> QED
    BY <1>1, <1>2, <2>1, <2>4, <2>5 DEF Follows, ShelvesFollow, KeepsPeriods
<1> QED
  BY <1>3, <1>4

\* The part of the three that moves is the records, or they stay as they are.
RecordsHold == focus # "collections" => RecordsInv

LEMMA RecordsHoldInit == ASSUME PersonalInit PROVE RecordsHold
BY RecordsInit DEF PersonalInit, RecordsHold

LEMMA RecordsHoldStep ==
  ASSUME RecordsHold, [PersonalNext]_<<vars, focus, discoveryVars>>
  PROVE  RecordsHold' /\ (focus # "collections" => KeepsNewest /\ KeepsPeriods)
<1>1. focus' = focus
  BY DEF PersonalNext
<1>2. ASSUME focus # "collections" PROVE [Next]_vars /\ RecordsInv
  BY <1>2 DEF PersonalNext, RecordsHold
<1>3. ASSUME focus # "collections" PROVE RecordsInv' /\ KeepsNewest /\ KeepsPeriods
  BY <1>2, <1>3, RecordsStep, FollowingKeeps
<1> QED
  BY <1>1, <1>3 DEF RecordsHold

(* Every acknowledged write is in its record's history and applied once, and  *)
(* no live cover names a photo that is not stored, whatever writers, rekeys,  *)
(* receipt and image purges, lost connections and rollbacks were in between   *)
(* (vibes.py, covers.py, journeys.py, shelves.py: row lock, receipt  *)
(* and data in one transaction).                                              *)
THEOREM AcknowledgedRecordsStay == PersonalSpec => []RecordsKept
<1>1. RecordsHold => RecordsKept
  BY RecordsAreKept DEF RecordsHold, RecordsKept
<1>2. RecordsHold /\ [PersonalNext]_<<vars, focus, discoveryVars>> => RecordsHold'
  BY RecordsHoldStep
<1> QED
  BY <1>1, <1>2, RecordsHoldInit, PTL DEF PersonalSpec

-----------------------------------------------------------------------------
(* The discovery records: a field that was never set has changed at no        *)
(* revision, and a want with an identity is the first of that identity.       *)

EntriesOK ==
    /\ records \in [Discovery!RecordIds -> Discovery!Entries \cup {None}]
    /\ \A i \in Wants : records[i] # None => records[i].fields["key"] \in Identities \cup {None}
    /\ aliases \in [Wants -> Wants \cup {None}]
    /\ canonicals \in [Identities -> Wants \cup {None}]
    /\ head \in Nat /\ DOMAIN receipts = Mutations
UnsetUnchanged ==
    \A i \in Discovery!RecordIds, f \in Discovery!Fields :
      records[i] # None /\ records[i].fields[f] = None => records[i].changed[f] = 0
FirstOfIdentity ==
    \A i \in Wants, k \in Identities :
      records[i] # None /\ records[i].fields["key"] = k /\ k # None => canonicals[k] = i
DiscoveryInv == EntriesOK /\ UnsetUnchanged /\ FirstOfIdentity

LEMMA DiscoveryBegins == ASSUME Discovery!Init PROVE DiscoveryInv
<1>1. Wants \subseteq Discovery!RecordIds
  BY DEF Discovery!RecordIds
<1> QED
  BY <1>1 DEF Discovery!Init, DiscoveryInv, EntriesOK, UnsetUnchanged, FirstOfIdentity

\* The request bodies, and the record a request is about.
LEMMA DiscoveryBodies ==
  ASSUME NEW b \in Discovery!Bodies
  PROVE  /\ b.id \in Discovery!RecordIds /\ b.base \in Nat
         /\ b["key"] \in Identities \cup {None} /\ b["note"] \in Notes \cup {None}
         /\ b.op # "upsert" => b["key"] = None /\ b["note"] = None
         /\ b.id \notin Wants => b["key"] = None
BY BoundsHold DEF Discovery!Bodies, Discovery!RecordIds, Discovery!HeadAssumption

LEMMA TargetIsRecord ==
  ASSUME DiscoveryInv, NEW b \in Discovery!Bodies
  PROVE  /\ Discovery!Target(b) \in Discovery!RecordIds
         /\ b.id \in Wants => Discovery!Target(b) \in Wants
         /\ Discovery!Stored(Discovery!Target(b)) \in Discovery!Entries
<1>1. Discovery!Named(b) \in Discovery!RecordIds /\ (b.id \in Wants => Discovery!Named(b) \in Wants)
  BY DiscoveryBodies DEF DiscoveryInv, EntriesOK, Discovery!Named, Discovery!RecordIds
<1>2. Discovery!IsDuplicate(b) => canonicals[b["key"]] \in Wants
  BY DiscoveryBodies DEF DiscoveryInv, EntriesOK, Discovery!IsDuplicate
<1>3. /\ Discovery!Target(b) \in Discovery!RecordIds
      /\ b.id \in Wants => Discovery!Target(b) \in Wants
  BY <1>1, <1>2 DEF Discovery!Target, Discovery!RecordIds
<1>4. Discovery!Blank \in Discovery!Entries
  BY DEF Discovery!Blank, Discovery!Entries
<1> QED
  BY <1>3, <1>4 DEF Discovery!Stored, DiscoveryInv, EntriesOK

\* The fields a write takes from its request: none of a duplicate save that the
\* first save has.
TakenFrom(b) ==
    {f \in Discovery!Sent(b) :
       ~(Discovery!IsDuplicate(b) /\ Discovery!Stored(Discovery!Target(b)).fields[f] # None)}

LEMMA UpdatedEntry ==
  ASSUME DiscoveryInv, NEW b \in Discovery!Bodies, NEW old, NEW new,
         old = Discovery!Stored(Discovery!Target(b)), new = Discovery!Updated(b)
  PROVE  /\ new \in Discovery!Entries
         /\ \A f \in Discovery!Fields :
              /\ new.fields[f] = IF f \in TakenFrom(b) THEN b[f] ELSE old.fields[f]
              /\ new.changed[f] = IF f \in TakenFrom(b) THEN old.rev + 1 ELSE old.changed[f]
<1> DEFINE takes == TakenFrom(b)
           fields == [f \in Discovery!Fields |-> IF f \in takes THEN b[f] ELSE old.fields[f]]
           changed == [f \in Discovery!Fields |-> IF f \in takes THEN old.rev + 1 ELSE old.changed[f]]
           deleted == IF b.op = "upsert" THEN old.deleted ELSE b.op = "delete"
<1>1. old \in Discovery!Entries
  BY TargetIsRecord
<1>2. /\ old.rev \in Nat /\ old.deleted \in BOOLEAN /\ head \in Nat
      /\ old.fields \in [Discovery!Fields -> Identities \cup Notes \cup {None}]
      /\ old.changed \in [Discovery!Fields -> Nat]
  BY <1>1 DEF Discovery!Entries, DiscoveryInv, EntriesOK
<1>3. new = [rev |-> old.rev + 1, seq |-> head + 1, deleted |-> deleted, fields |-> fields,
             changed |-> changed]
  BY DEF Discovery!Updated, TakenFrom
<1>4. \A f \in Discovery!Fields : b[f] \in Identities \cup Notes \cup {None}
  BY DiscoveryBodies DEF Discovery!Fields
<1>5. fields \in [Discovery!Fields -> Identities \cup Notes \cup {None}]
  BY <1>2, <1>4
<1>6. changed \in [Discovery!Fields -> Nat]
  BY <1>2
<1>7. deleted \in BOOLEAN
  BY <1>2
<1>8. /\ \A f \in Discovery!Fields :
           /\ fields[f] = IF f \in TakenFrom(b) THEN b[f] ELSE old.fields[f]
           /\ changed[f] = IF f \in TakenFrom(b) THEN old.rev + 1 ELSE old.changed[f]
  OBVIOUS
<1> HIDE DEF fields, changed, deleted
<1>9. old.rev + 1 \in Nat /\ head + 1 \in Nat
  BY <1>2
<1>10. new \in Discovery!Entries
  BY <1>3, <1>5, <1>6, <1>7, <1>9 DEF Discovery!Entries
<1>11. new.fields = fields /\ new.changed = changed
  BY <1>3
<1> QED
  BY <1>8, <1>10, <1>11

LEMMA WriteKeepsEntries ==
  ASSUME DiscoveryInv, NEW b \in Discovery!Bodies, Discovery!Write(b), DOMAIN receipts' = Mutations
  PROVE  DiscoveryInv'
<1> DEFINE target == Discovery!Target(b)
<1>1. PICK old : old = Discovery!Stored(target)
  OBVIOUS
<1>2. PICK new : new = Discovery!Updated(b)
  OBVIOUS
<1>3. /\ target \in Discovery!RecordIds /\ (b.id \in Wants => target \in Wants)
      /\ old \in Discovery!Entries
  BY <1>1, TargetIsRecord
<1>4. /\ new \in Discovery!Entries
      /\ \A f \in Discovery!Fields :
           /\ new.fields[f] = IF f \in TakenFrom(b) THEN b[f] ELSE old.fields[f]
           /\ new.changed[f] = IF f \in TakenFrom(b) THEN old.rev + 1 ELSE old.changed[f]
  BY <1>1, <1>2, UpdatedEntry
<1>5. /\ records' = [records EXCEPT ![target] = new] /\ head' = head + 1
      /\ canonicals' = IF b["key"] # None /\ canonicals[b["key"]] = None
                       THEN [canonicals EXCEPT ![b["key"]] = target] ELSE canonicals
      /\ aliases' = IF Discovery!IsDuplicate(b) /\ aliases[b.id] = None
                    THEN [aliases EXCEPT ![b.id] = target] ELSE aliases
  BY <1>2 DEF Discovery!Write
<1>6. /\ b["key"] \in Identities \cup {None} /\ b["note"] \in Notes \cup {None}
      /\ b.id \notin Wants => b["key"] = None
  BY DiscoveryBodies
<1>7. /\ records \in [Discovery!RecordIds -> Discovery!Entries \cup {None}]
      /\ aliases \in [Wants -> Wants \cup {None}] /\ canonicals \in [Identities -> Wants \cup {None}]
      /\ head \in Nat /\ Wants \subseteq Discovery!RecordIds
      /\ \A i \in Wants : records[i] # None => records[i].fields["key"] \in Identities \cup {None}
  BY DEF DiscoveryInv, EntriesOK, Discovery!RecordIds
<1>8. /\ "key" \in Discovery!Fields
      /\ \A f \in TakenFrom(b) : f \in Discovery!Fields /\ b[f] # None
      /\ b["key"] # None => ("key" \in TakenFrom(b) \/ Discovery!IsDuplicate(b))
  BY DEF Discovery!Fields, TakenFrom, Discovery!Sent
<1>9. None \notin Wants /\ None \notin Discovery!Entries /\ new # None
  BY <1>4, BoundsHold DEF Discovery!NilAssumption
<1>10. /\ records'[target] = new
       /\ \A i \in Discovery!RecordIds \ {target} : records'[i] = records[i]
       /\ records' \in [Discovery!RecordIds -> Discovery!Entries \cup {None}]
  BY <1>3, <1>4, <1>5, <1>7
<1>11. old = IF records[target] = None THEN Discovery!Blank ELSE records[target]
  BY <1>1 DEF Discovery!Stored
<1>12. /\ Discovery!Blank.fields["key"] = None
       /\ \A f \in Discovery!Fields : Discovery!Blank.fields[f] = None /\ Discovery!Blank.changed[f] = 0
  BY DEF Discovery!Blank, Discovery!Fields
<1> HIDE DEF target
<1>13. canonicals' \in [Identities -> Wants \cup {None}]
  BY <1>3, <1>5, <1>6, <1>7
<1>14. aliases' \in [Wants -> Wants \cup {None}]
  <2>1. Discovery!IsDuplicate(b) => b["key"] # None
    BY DEF Discovery!IsDuplicate
  <2> QED
    BY <1>3, <1>5, <1>6, <1>7, <2>1
<1>15. \A i \in Wants : records'[i] # None => records'[i].fields["key"] \in Identities \cup {None}
  BY <1>4, <1>6, <1>7, <1>8, <1>10, <1>11, <1>12
<1>16. EntriesOK'
  BY <1>5, <1>7, <1>10, <1>13, <1>14, <1>15 DEF EntriesOK, Discovery!RecordIds, Discovery!Entries,
     Discovery!Fields
<1>17. UnsetUnchanged'
  BY <1>4, <1>8, <1>10, <1>11, <1>12 DEF UnsetUnchanged, DiscoveryInv, Discovery!RecordIds, Discovery!Fields
<1>18. \A k \in Identities : canonicals[k] # None => canonicals'[k] = canonicals[k]
  BY <1>5, <1>6, <1>7
<1>19. ASSUME NEW i \in Wants, NEW k \in Identities,
              records'[i] # None, records'[i].fields["key"] = k, k # None
       PROVE  canonicals'[k] = i
  <2>1. ASSUME records[i] # None, records[i].fields["key"] = k PROVE canonicals'[k] = i
    BY <1>9, <1>18, <1>19, <2>1 DEF DiscoveryInv, FirstOfIdentity
  <2>2. ASSUME i = target, "key" \in TakenFrom(b) PROVE canonicals'[k] = i
    <3>1. k = b["key"]
      BY <1>4, <1>8, <1>10, <1>19, <2>2
    <3>2. canonicals[k] = target \/ canonicals[k] = None
      BY <1>19, <3>1 DEF target, Discovery!Target, Discovery!IsDuplicate
    <3> QED
      BY <1>5, <1>7, <1>9, <1>18, <1>19, <2>2, <3>1, <3>2
  <2>3. ASSUME i = target, "key" \notin TakenFrom(b)
        PROVE  records[i] # None /\ records[i].fields["key"] = k
    BY <1>4, <1>8, <1>10, <1>11, <1>12, <1>19, <2>3
  <2>4. ASSUME i # target PROVE records[i] # None /\ records[i].fields["key"] = k
    BY <1>7, <1>10, <1>19, <2>4
  <2> QED
    BY <2>1, <2>2, <2>3, <2>4
<1>20. FirstOfIdentity'
  BY <1>19 DEF FirstOfIdentity
<1> QED
  BY <1>16, <1>17, <1>20 DEF DiscoveryInv

\* A request that is not refused has seen each field it changes.
LEMMA WriteReplacesSeen ==
  ASSUME DiscoveryInv, NEW b \in Discovery!Bodies, Discovery!Write(b), ~Discovery!Refused(b),
         NEW i \in Discovery!RecordIds, NEW f \in Discovery!Fields,
         records[i] # None, records[i].fields[f] # records'[i].fields[f]
  PROVE  records[i].changed[f] <= b.base
<1> DEFINE target == Discovery!Target(b)
<1>1. PICK old : old = Discovery!Stored(target)
  OBVIOUS
<1>2. PICK new : new = Discovery!Updated(b)
  OBVIOUS
<1>3. records \in [Discovery!RecordIds -> Discovery!Entries \cup {None}]
  BY DEF DiscoveryInv, EntriesOK
<1>4. records' = [records EXCEPT ![target] = new]
  BY <1>2 DEF Discovery!Write
<1>5. i = target /\ records'[i] = new
  BY <1>3, <1>4
<1>6. old = records[i]
  BY <1>1, <1>5 DEF Discovery!Stored
<1>7. f \in TakenFrom(b) /\ old.fields[f] # b[f]
  <2>1. new.fields[f] = IF f \in TakenFrom(b) THEN b[f] ELSE old.fields[f]
    BY <1>1, <1>2, UpdatedEntry
  <2> QED
    BY <1>5, <1>6, <2>1
<1>8. /\ b.base \in Nat /\ old.changed[f] \in Nat
      /\ b.op # "upsert" => b["key"] = None /\ b["note"] = None
  BY <1>3, <1>6, DiscoveryBodies DEF Discovery!Entries
<1>9. CASE Discovery!IsDuplicate(b)
  <2>1. old.fields[f] = None
    BY <1>1, <1>7, <1>9 DEF TakenFrom
  <2> QED
    BY <1>6, <1>8, <2>1 DEF DiscoveryInv, UnsetUnchanged
<1>10. CASE ~Discovery!IsDuplicate(b)
  <2>1. f \in Discovery!Sent(b)
    BY <1>7 DEF TakenFrom
  <2>2. b.op = "upsert"
    BY <1>8, <2>1 DEF Discovery!Sent, Discovery!Fields
  <2>3. Discovery!Conflicts(b) = {}
    BY <1>10, <2>2 DEF Discovery!Refused
  <2>4. ~(old.changed[f] > b.base)
    BY <1>1, <1>7, <2>1, <2>3 DEF Discovery!Conflicts
  <2> QED
    BY <1>6, <1>8, <2>4
<1> QED
  BY <1>9, <1>10

LEMMA DiscoveryStep ==
  ASSUME DiscoveryInv, Discovery!Next \/ UNCHANGED discoveryVars
  PROVE  DiscoveryInv' /\ Discovery!ReplacesSeen
<1>1. ASSUME UNCHANGED <<records, aliases, canonicals, head, receipts>>
      PROVE  DiscoveryInv' /\ Discovery!ReplacesSeen
  BY <1>1 DEF DiscoveryInv, EntriesOK, UnsetUnchanged, FirstOfIdentity, Discovery!ReplacesSeen
<1>2. ASSUME NEW m \in Mutations, NEW b \in Discovery!Bodies, Discovery!Mutate(m, b)
      PROVE  DiscoveryInv' /\ Discovery!ReplacesSeen
  <2>1. DOMAIN receipts = Mutations /\ receipts' = [receipts EXCEPT ![m] = b.base]
    BY <1>2 DEF Discovery!Mutate, DiscoveryInv, EntriesOK
  <2>2. /\ DOMAIN receipts' = Mutations /\ receipts'[m] = b.base
        /\ \A n \in Mutations \ {m} : receipts'[n] = receipts[n]
    BY <2>1
  <2>3. ASSUME UNCHANGED <<records, aliases, canonicals, head>>
        PROVE  DiscoveryInv' /\ Discovery!ReplacesSeen
    BY <2>2, <2>3 DEF DiscoveryInv, EntriesOK, UnsetUnchanged, FirstOfIdentity, Discovery!ReplacesSeen
  <2>4. ASSUME ~Discovery!Refused(b), Discovery!Write(b)
        PROVE  DiscoveryInv' /\ Discovery!ReplacesSeen
    <3>1. DiscoveryInv'
      BY <2>2, <2>4, WriteKeepsEntries
    <3>2. \A i \in Discovery!RecordIds, f \in Discovery!Fields :
            records[i] # None /\ records[i].fields[f] # records'[i].fields[f] =>
              records[i].changed[f] <= b.base
      BY <2>4, WriteReplacesSeen
    <3> QED
      BY <2>2, <3>1, <3>2 DEF Discovery!ReplacesSeen
  <2> QED
    BY <1>2, <2>3, <2>4 DEF Discovery!Mutate
<1>3. ASSUME Discovery!Read
      PROVE  DiscoveryInv' /\ Discovery!ReplacesSeen
  BY <1>1, <1>3 DEF Discovery!Read
<1> QED
  BY <1>1, <1>2, <1>3 DEF Discovery!Next, discoveryVars

DiscoveryHolds == focus # "collections" => DiscoveryInv

LEMMA DiscoveryHoldsInit == ASSUME PersonalInit PROVE DiscoveryHolds
BY DiscoveryBegins DEF PersonalInit, DiscoveryHolds

LEMMA DiscoveryHoldsStep ==
  ASSUME DiscoveryHolds, [PersonalNext]_<<vars, focus, discoveryVars>>
  PROVE  DiscoveryHolds' /\ (focus # "collections" => Discovery!ReplacesSeen)
<1>1. focus' = focus
  BY DEF PersonalNext
<1>2. ASSUME focus # "collections" PROVE (Discovery!Next \/ UNCHANGED discoveryVars) /\ DiscoveryInv
  BY <1>2 DEF PersonalNext, DiscoveryHolds
<1>3. ASSUME focus # "collections" PROVE DiscoveryInv' /\ Discovery!ReplacesSeen
  BY <1>2, <1>3, DiscoveryStep
<1> QED
  BY <1>1, <1>3 DEF DiscoveryHolds

\* A want with an identity is the one its canonical row names.
LEMMA FirstIsOnly == ASSUME DiscoveryInv PROVE Discovery!OneWantPerIdentity
BY DEF DiscoveryInv, EntriesOK, FirstOfIdentity, Discovery!OneWantPerIdentity

(* However many devices save one album offline under IDs of their own, and    *)
(* whatever is deleted and restored on the way, no two live wants have its    *)
(* canonical key (personal_discovery.py: mutate, discovery_canonical).        *)
THEOREM AlbumsAreWantedOnce == PersonalSpec => []OneWantPerIdentity
<1>1. DiscoveryHolds => OneWantPerIdentity
  BY FirstIsOnly DEF DiscoveryHolds, OneWantPerIdentity
<1>2. DiscoveryHolds /\ [PersonalNext]_<<vars, focus, discoveryVars>> => DiscoveryHolds'
  BY DiscoveryHoldsStep
<1> QED
  BY <1>1, <1>2, DiscoveryHoldsInit, PTL DEF PersonalSpec

(* No write loses a listening credit of a journey or puts back an older state *)
(* of an entry it holds; an older place comes back only when the newer place's *)
(* entry is gone from the body.  None brings a removed shelf period back       *)
(* without a restore or makes an album live twice, and none replaces a field   *)
(* of a discovery record that its sender has not seen (journeys.py:            *)
(* merge_journey, shelves.py: apply_mutation, personal_discovery.py: mutate).  *)
THEOREM NewestIsKept == PersonalSpec => NewestStays
<1> DEFINE Keeps == /\ focus = "records" => KeepsNewest /\ KeepsPeriods
                    /\ focus = "discovery" => Discovery!ReplacesSeen
<1>1. RecordsHold /\ DiscoveryHolds /\ [PersonalNext]_<<vars, focus, discoveryVars>>
        => RecordsHold' /\ DiscoveryHolds' /\ [Keeps]_<<vars, discoveryVars>>
  BY RecordsHoldStep, DiscoveryHoldsStep
<1>2. NewestStays <=> [][Keeps]_<<vars, discoveryVars>>
  BY DEF NewestStays
<1> HIDE DEF Keeps
<1> QED
  BY <1>1, <1>2, RecordsHoldInit, DiscoveryHoldsInit, PTL DEF PersonalSpec

-----------------------------------------------------------------------------
(* The idempotency keys of the collections.  In the run `Identities` are the  *)
(* keys, `reader` is their progress and `applied` their effects.              *)

KeyRowsOK ==
    /\ applied \in [Identities -> Nat]
    /\ receipts \in [Identities -> {None, "mutation", "restore"}]
    /\ DOMAIN reader = Identities /\ DOMAIN open = Procs

\* The rows of a key are its receipt or its progress, and they count its effects.
RowsCount(k) ==
    /\ receipts[k] = "mutation" => applied[k] <= 1
    /\ receipts[k] # None => reader[k] = None /\ applied[k] <= 2
    /\ reader[k] # None => reader[k].done = 1 /\ applied[k] = 1
    /\ receipts[k] = None /\ reader[k] = None => applied[k] = 0

\* A keyed transaction is a mutation, the first chunk of a restore or its last;
\* the key has no receipt, and is locked by no other.
OpenKeyOK(t) ==
    /\ t.key \in Identities /\ receipts[t.key] = None
    /\ \/ t.receipt = "mutation" /\ t.progressed = None /\ reader[t.key] = None
       \/ /\ t.receipt = None /\ reader[t.key] = None /\ t.writes # Feed!NoWrites
          /\ t.progressed # None /\ t.progressed.done = 1
       \/ t.receipt = "restore" /\ t.progressed = None /\ reader[t.key] # None
OpenKeysOK == \A p \in Procs : open[p] # None /\ open[p].key # None => OpenKeyOK(open[p])
KeysApart ==
    \A p, q \in Procs :
      p # q /\ open[p] # None /\ open[q] # None /\ open[p].key # None => open[p].key # open[q].key
KeysInv == KeyRowsOK /\ (\A k \in Identities : RowsCount(k)) /\ OpenKeysOK /\ KeysApart

LEMMA KeysBegin == ASSUME Feed!Init PROVE KeysInv
BY DEF Feed!Init, KeysInv, KeyRowsOK, RowsCount, OpenKeysOK, KeysApart

LEMMA TwoChunks == Feed!Chunks = 2
<1>1. Cardinality({"new"}) = 1 /\ IsFiniteSet({"new"})
  BY FS_Singleton
<1>2. Cardinality({"new"} \cup {"old"}) = Cardinality({"new"}) + 1
  BY <1>1, FS_AddElement
<1>3. {"old", "new"} = {"new"} \cup {"old"}
  OBVIOUS
<1>4. Feed!Chunks = Cardinality(Feed!Media)
  BY DEF Feed!Chunks, Feed!Cardinality, Cardinality
<1> QED
  BY <1>1, <1>2, <1>3, <1>4 DEF Feed!Media

LEMMA KeysCount == ASSUME KeysInv PROVE Feed!KeyedOnce
BY TwoChunks DEF KeysInv, KeyRowsOK, RowsCount, Feed!KeyedOnce

\* A transaction that begins under a key nobody has locked.
LEMMA KeyOpens ==
  ASSUME KeysInv, NEW p \in Procs, NEW k, NEW cs, NEW writes, NEW progressed, NEW receipt,
         Feed!Begin(p, k, cs, writes, progressed, receipt),
         k # None => OpenKeyOK([key |-> k, locked |-> cs, writes |-> writes,
                                progressed |-> progressed, receipt |-> receipt])
  PROVE  KeysInv'
<1> DEFINE t == [key |-> k, locked |-> cs, writes |-> writes, progressed |-> progressed,
                 receipt |-> receipt]
<1>1. /\ open' = [open EXCEPT ![p] = t] /\ UNCHANGED <<receipts, reader, applied>>
      /\ k = None \/ \A q \in Procs : open[q] # None => open[q].key # k
  BY DEF Feed!Begin, Feed!KeyFree
<1>2. DOMAIN open = Procs
  BY DEF KeysInv, KeyRowsOK
<1>3. t.key = k
  OBVIOUS
<1>4. k # None => OpenKeyOK(t)'
  BY <1>1 DEF OpenKeyOK, Feed!NoWrites, Feed!Writes
<1> HIDE DEF t
<1>5. open'[p] = t /\ \A q \in Procs \ {p} : open'[q] = open[q]
  BY <1>1, <1>2
<1>6. ASSUME NEW q \in Procs \ {p}, open[q] # None, open[q].key # None
      PROVE  OpenKeyOK(open[q])'
  BY <1>1, <1>5, <1>6 DEF KeysInv, OpenKeysOK, OpenKeyOK, Feed!NoWrites, Feed!Writes
<1>7. OpenKeysOK'
  BY <1>3, <1>4, <1>5, <1>6 DEF OpenKeysOK
<1>8. KeysApart'
  BY <1>1, <1>3, <1>5 DEF KeysInv, KeysApart
<1>9. KeyRowsOK' /\ \A k_1 \in Identities : RowsCount(k_1)'
  BY <1>1, <1>2, <1>5 DEF KeysInv, KeyRowsOK, RowsCount
<1> QED
  BY <1>7, <1>8, <1>9 DEF KeysInv

LEMMA KeyedMutation ==
  ASSUME KeysInv, NEW p \in Procs, NEW k \in Identities \cup {None}, NEW q \in Feed!Bodies,
         Feed!Mutate(p, k, q)
  PROVE  KeysInv'
<1>1. PICK writes : Feed!Begin(p, k, {q.coll}, writes, None, IF k = None THEN None ELSE "mutation")
  BY DEF Feed!Mutate
<1>2. PICK receipt : receipt = IF k = None THEN None ELSE "mutation"
  OBVIOUS
<1> DEFINE t == [key |-> k, locked |-> {q.coll}, writes |-> writes, progressed |-> None,
                 receipt |-> receipt]
<1>3. k # None => receipts[k] = None /\ reader[k] = None
  BY DEF Feed!Mutate
<1>4. t.key = k /\ t.progressed = None /\ t.receipt = receipt
  OBVIOUS
<1> HIDE DEF t
<1>5. k # None => OpenKeyOK(t)
  BY <1>2, <1>3, <1>4 DEF OpenKeyOK
<1> USE DEF t
<1> QED
  BY <1>1, <1>2, <1>5, KeyOpens

LEMMA KeyedChunk ==
  ASSUME KeysInv, NEW p \in Procs, NEW k \in Identities, Feed!RestoreStep(p, k)
  PROVE  KeysInv'
<1>1. k # None /\ receipts[k] = None
  BY DEF Feed!RestoreStep
<1>2. ASSUME reader[k] = None, NEW c \in Collections, NEW i \in Items,
             Feed!Begin(p, k, {c}, Feed!Chunk(c, 0, i), [coll |-> c, done |-> 1], None)
      PROVE  KeysInv'
  <2>1. PICK writes : writes = Feed!Chunk(c, 0, i)
    OBVIOUS
  <2>2. writes # Feed!NoWrites
    <3>1. writes.colls = [x \in {c} |-> [rev |-> 2, deleted |-> FALSE]]
      BY <2>1 DEF Feed!Chunk, Feed!Writes, Feed!One
    <3>2. DOMAIN writes.colls = {c}
      BY <3>1
    <3>3. Feed!NoWrites.colls = <<>>
      BY DEF Feed!NoWrites, Feed!Writes
    <3>4. DOMAIN Feed!NoWrites.colls = {}
      BY <3>3
    <3> QED
      BY <3>2, <3>4
  <2>3. PICK progressed : progressed = [coll |-> c, done |-> 1]
    OBVIOUS
  <2>4. progressed # None /\ progressed.done = 1
    BY <2>3, BoundsHold DEF Feed!FeedBounds
  <2> DEFINE t == [key |-> k, locked |-> {c}, writes |-> writes, progressed |-> progressed,
                   receipt |-> None]
  <2>5. /\ t.key = k /\ t.progressed = progressed /\ t.receipt = None /\ t.writes = writes
    OBVIOUS
  <2> HIDE DEF t
  <2>6. OpenKeyOK(t)
    BY <1>1, <1>2, <2>2, <2>4, <2>5 DEF OpenKeyOK
  <2> USE DEF t
  <2> QED
    BY <1>2, <2>1, <2>3, <2>6, KeyOpens
<1>3. ASSUME reader[k] # None, NEW cs, NEW writes, Feed!Begin(p, k, cs, writes, None, "restore")
      PROVE  KeysInv'
  <2> DEFINE t == [key |-> k, locked |-> cs, writes |-> writes, progressed |-> None,
                   receipt |-> "restore"]
  <2>1. t.key = k /\ t.progressed = None /\ t.receipt = "restore"
    OBVIOUS
  <2> HIDE DEF t
  <2>2. OpenKeyOK(t)
    BY <1>1, <1>3, <2>1 DEF OpenKeyOK
  <2> USE DEF t
  <2> QED
    BY <1>3, <2>2, KeyOpens
<1> QED
  BY <1>2, <1>3 DEF Feed!RestoreStep

LEMMA KeyedCommit ==
  ASSUME KeysInv, NEW p \in Procs, Feed!Commit(p)
  PROVE  KeysInv'
<1>1. PICK t : t = open[p]
  OBVIOUS
<1>2. /\ t # None /\ open' = [open EXCEPT ![p] = None]
      /\ reader' = IF t.key = None THEN reader ELSE [reader EXCEPT ![t.key] = t.progressed]
      /\ receipts' = IF t.key = None THEN receipts ELSE [receipts EXCEPT ![t.key] = t.receipt]
      /\ applied' = IF t.key = None \/ t.writes = Feed!NoWrites THEN applied
                    ELSE [applied EXCEPT ![t.key] = @ + 1]
  BY <1>1 DEF Feed!Commit
<1>3. KeyRowsOK /\ \A k \in Identities : RowsCount(k)
  BY DEF KeysInv
<1>4. t.key # None => OpenKeyOK(t)
  BY <1>1, <1>2 DEF KeysInv, OpenKeysOK
<1>5. open'[p] = None /\ \A q \in Procs \ {p} : open'[q] = open[q]
  BY <1>2, <1>3 DEF KeyRowsOK
<1>6. KeysApart'
  BY <1>5 DEF KeysInv, KeysApart
<1>7. ASSUME NEW k \in Identities, k # t.key \/ t.key = None
      PROVE  receipts'[k] = receipts[k] /\ reader'[k] = reader[k] /\ applied'[k] = applied[k]
  BY <1>2, <1>3, <1>4, <1>7 DEF KeyRowsOK
<1>8. ASSUME NEW q \in Procs, open'[q] # None, open'[q].key # None
      PROVE  OpenKeyOK(open[q])'
  <2>1. q # p /\ open'[q] = open[q]
    BY <1>5, <1>8
  <2>2. OpenKeyOK(open[q])
    BY <1>8, <2>1 DEF KeysInv, OpenKeysOK
  <2>3. open[q].key # t.key
    BY <1>1, <1>2, <1>8, <2>1 DEF KeysInv, KeysApart
  <2> QED
    BY <1>7, <2>1, <2>2, <2>3 DEF OpenKeyOK, Feed!NoWrites, Feed!Writes
<1>9. KeyRowsOK'
  BY <1>2, <1>3, <1>4, <1>5 DEF KeyRowsOK, OpenKeyOK
<1>10. ASSUME NEW k \in Identities PROVE RowsCount(k)'
  <2>1. ASSUME k # t.key \/ t.key = None PROVE RowsCount(k)'
    BY <1>3, <1>7, <2>1 DEF RowsCount
  <2>2. ASSUME k = t.key, t.key # None PROVE RowsCount(k)'
    <3>1. /\ receipts'[k] = t.receipt /\ reader'[k] = t.progressed
          /\ applied[k] \in Nat
          /\ applied'[k] = IF t.writes = Feed!NoWrites THEN applied[k] ELSE applied[k] + 1
      BY <1>2, <1>3, <2>2 DEF KeyRowsOK
    <3>2. OpenKeyOK(t) /\ RowsCount(k)
      BY <1>3, <1>4, <2>2
    <3>3. None \notin {"mutation", "restore"}
      BY BoundsHold DEF Feed!FeedBounds
    <3> QED
      BY <2>2, <3>1, <3>2, <3>3 DEF OpenKeyOK, RowsCount
  <2> QED
    BY <2>1, <2>2
<1> QED
  BY <1>6, <1>8, <1>9, <1>10 DEF KeysInv, OpenKeysOK

\* A key that no transaction holds, and whose rows are purged.
LEMMA KeyPurged ==
  ASSUME KeysInv, NEW k \in Identities,
         \A p \in Procs : open[p] # None /\ open[p].key # None => open[p].key # k,
         UNCHANGED open,
         applied' = [applied EXCEPT ![k] = 0],
         \/ receipts[k] # None /\ receipts' = [receipts EXCEPT ![k] = None] /\ reader' = reader
         \/ reader[k] # None /\ reader' = [reader EXCEPT ![k] = None] /\ receipts' = receipts
  PROVE  KeysInv'
<1>1. KeyRowsOK /\ RowsCount(k)
  BY DEF KeysInv
<1>2. /\ receipts'[k] = None /\ reader'[k] = None /\ applied'[k] = 0
      /\ \A j \in Identities \ {k} :
           receipts'[j] = receipts[j] /\ reader'[j] = reader[j] /\ applied'[j] = applied[j]
  BY <1>1 DEF KeyRowsOK, RowsCount
<1>3. KeyRowsOK'
  BY <1>1 DEF KeyRowsOK
<1>4. None \notin {"mutation", "restore"}
  BY BoundsHold DEF Feed!FeedBounds
<1>5. \A j \in Identities : RowsCount(j)'
  BY <1>2, <1>4 DEF KeysInv, RowsCount
<1>6. ASSUME NEW p \in Procs, open[p] # None, open[p].key # None
      PROVE  OpenKeyOK(open[p])'
  <2>1. OpenKeyOK(open[p]) /\ open[p].key # k
    BY <1>6 DEF KeysInv, OpenKeysOK
  <2> QED
    BY <1>2, <2>1 DEF OpenKeyOK, Feed!NoWrites, Feed!Writes
<1>7. OpenKeysOK' /\ KeysApart'
  BY <1>6 DEF KeysInv, OpenKeysOK, KeysApart
<1> QED
  BY <1>3, <1>5, <1>7 DEF KeysInv

LEMMA KeysStep ==
  ASSUME KeysInv, Feed!Next \/ UNCHANGED <<receipts, reader, open, applied>>
  PROVE  KeysInv'
<1>1. ASSUME UNCHANGED <<receipts, reader, open, applied>>
      PROVE  KeysInv'
  BY <1>1 DEF KeysInv, KeyRowsOK, RowsCount, OpenKeysOK, OpenKeyOK, KeysApart, Feed!NoWrites, Feed!Writes
<1>2. ASSUME NEW p \in Procs, NEW k \in Identities \cup {None}, NEW q \in Feed!Bodies,
             Feed!Mutate(p, k, q)
      PROVE  KeysInv'
  BY <1>2, KeyedMutation
<1>3. ASSUME NEW p \in Procs, NEW k \in Identities, Feed!RestoreStep(p, k)
      PROVE  KeysInv'
  BY <1>3, KeyedChunk
<1>4. ASSUME NEW p \in Procs, Feed!Rekey(p)
      PROVE  KeysInv'
  BY <1>4, KeyOpens DEF Feed!Rekey
<1>5. ASSUME NEW p \in Procs, Feed!Commit(p)
      PROVE  KeysInv'
  BY <1>5, KeyedCommit
<1>6. ASSUME NEW p \in Procs, Feed!Rollback(p)
      PROVE  KeysInv'
  <2>1. open' = [open EXCEPT ![p] = None] /\ UNCHANGED <<receipts, reader, applied>>
    BY <1>6 DEF Feed!Rollback
  <2>2. DOMAIN open = Procs
    BY DEF KeysInv, KeyRowsOK
  <2>3. DOMAIN open' = Procs /\ \A q \in Procs : open'[q] = None \/ open'[q] = open[q]
    BY <2>1, <2>2
  <2>4. KeyRowsOK' /\ \A k \in Identities : RowsCount(k)'
    BY <2>1, <2>3 DEF KeysInv, KeyRowsOK, RowsCount
  <2>5. OpenKeysOK' /\ KeysApart'
    BY <2>1, <2>3 DEF KeysInv, OpenKeysOK, OpenKeyOK, KeysApart, Feed!NoWrites, Feed!Writes
  <2> QED
    BY <2>4, <2>5 DEF KeysInv
<1>7. ASSUME NEW k \in Identities, Feed!PurgeReceipt(k)
      PROVE  KeysInv'
  <2>1. \A p \in Procs : open[p] # None /\ open[p].key # None => open[p].key # k
    BY <1>7 DEF KeysInv, OpenKeysOK, OpenKeyOK, Feed!PurgeReceipt
  <2> QED
    BY <1>7, <2>1, KeyPurged DEF Feed!PurgeReceipt
<1>8. ASSUME NEW k \in Identities, Feed!PurgeProgress(k)
      PROVE  KeysInv'
  <2>1. \A p \in Procs : open[p] # None /\ open[p].key # None => open[p].key # k
    BY <1>8 DEF Feed!PurgeProgress, Feed!KeyFree
  <2> QED
    BY <1>8, <2>1, KeyPurged DEF Feed!PurgeProgress
<1> QED
  BY <1>1, <1>2, <1>3, <1>4, <1>5, <1>6, <1>7, <1>8 DEF Feed!Next

KeysHold == focus = "collections" => KeysInv

(* Whatever retries, lost connections, restore chunks and purges there are,   *)
(* what is sent under one key is applied once for as long as its receipt or   *)
(* progress is kept: a mutation as a whole, a restore chunk by chunk and to   *)
(* the end (collection_manager.py: the key's lock, collection_mutations and   *)
(* collection_restores, written in the transaction they answer for).          *)
THEOREM KeysAreAppliedOnce == PersonalSpec => []KeyedOnce
<1>1. PersonalInit => KeysHold
  BY KeysBegin DEF PersonalInit, KeysHold
<1>2. KeysHold /\ [PersonalNext]_<<vars, focus, discoveryVars>> => KeysHold'
  BY KeysStep DEF PersonalNext, KeysHold, vars, discoveryVars
<1>3. KeysHold => KeyedOnce
  BY KeysCount DEF KeysHold, KeyedOnce
<1> QED
  BY <1>1, <1>2, <1>3, PTL DEF PersonalSpec


-----------------------------------------------------------------------------
(* The feeds of records.  A device's cursor never passes a number that is     *)
(* still to be committed: what an open transaction wrote is above every       *)
(* committed record, and so above every cursor read from one.                 *)

\* A nonempty set of naturals has a least element, and with a bound a greatest.
LEMMA LeastExists ==
  ASSUME NEW S \in SUBSET Nat, S # {}
  PROVE  \E m \in S : \A n \in S : m <= n
<1> DEFINE Less == {ss \in Nat \X Nat : ss[1] < ss[2]}
<1>1. IsWellFoundedOn(Less, Nat)
  BY NatLessThanWellFounded DEF OpToRel
<1>2. PICK m \in S : \A n \in S : <<n, m>> \notin Less
  BY <1>1, WFMin
<1>3. \A n \in S : ~(n < m)
  BY <1>2
<1> QED
  BY <1>3

LEMMA GreatestExists ==
  ASSUME NEW S \in SUBSET Nat, S # {}, NEW top \in Nat, \A s \in S : s <= top
  PROVE  \E m \in S : \A n \in S : n <= m
<1> DEFINE left == {top - s : s \in S}
<1>1. left \in SUBSET Nat /\ left # {}
  <2>1. \A s \in S : top - s \in Nat
    OBVIOUS
  <2>2. PICK s \in S : TRUE
    OBVIOUS
  <2>3. top - s \in left
    BY <2>2
  <2> QED
    BY <2>1, <2>3
<1>2. PICK d \in left : \A e \in left : d <= e
  BY <1>1, LeastExists
<1>3. PICK m \in S : d = top - m
  BY <1>2
<1>4. ASSUME NEW n \in S PROVE n <= m
  <2>1. top - m <= top - n
    BY <1>2, <1>3
  <2> QED
    BY <2>1
<1> QED
  BY <1>4

Ahead(d) ==
    \A k \in Keys :
      \/ d.records[k] = db.records[k]
      \/ /\ d.records[k].seq \in device.cursor + 1..sequence
         /\ \A j \in Keys : db.records[j] # None => db.records[j].seq < d.records[k].seq
CursorInv ==
    /\ device.cursor \in Nat /\ device.cursor <= sequence
    /\ \A k \in Keys : db.records[k] # None => db.records[k].seq <= sequence
    /\ FeedComplete
    /\ \A p \in Procs : open[p] # None => Ahead(open[p].db)

LEMMA CursorBegins == ASSUME Init PROVE CursorInv
BY DEF Init, NoRecords, CursorInv, FeedComplete

\* The numbers of committed records.
LEMMA SeqTypes ==
  ASSUME RecordsInv
  PROVE  /\ sequence \in Nat /\ DOMAIN open = Procs /\ DOMAIN db.records = Keys
         /\ \A k \in Keys : db.records[k] # None => db.records[k].seq \in Nat
<1>1. TablesOK(db) /\ HistoryOK
  BY DEF RecordsInv, Consistent
<1>2. db.records \in [Keys -> Records \cup {None}]
  BY <1>1 DEF TablesOK
<1> QED
  BY <1>1, <1>2 DEF HistoryOK, Records

\* A transaction that writes its records under new numbers.
LEMMA BeginsAhead ==
  ASSUME RecordsInv, CursorInv, NEW p \in Procs, NEW new, NEW work, Begin(p, new, work),
         UNCHANGED <<db, device>>, sequence' \in Nat, sequence <= sequence',
         \A k \in Keys : \/ new.records[k] = db.records[k]
                         \/ /\ new.records[k].seq \in Nat
                            /\ sequence < new.records[k].seq /\ new.records[k].seq <= sequence'
  PROVE  CursorInv'
<1>1. /\ open' = [open EXCEPT ![p] = [db |-> new, work |-> work]]
      /\ sequence \in Nat /\ DOMAIN open = Procs
      /\ \A k \in Keys : db.records[k] # None => db.records[k].seq \in Nat
  BY SeqTypes DEF Begin
<1>2. /\ device.cursor \in Nat /\ device.cursor <= sequence
      /\ \A k \in Keys : db.records[k] # None => db.records[k].seq <= sequence
  BY DEF CursorInv
<1>3. Ahead(new)'
  BY <1>1, <1>2 DEF Ahead
<1>4. ASSUME NEW q \in Procs, open'[q] # None PROVE Ahead(open[q].db)'
  <2>1. q = p => open'[q].db = new
    BY <1>1
  <2>2. q # p => open'[q] = open[q]
    BY <1>1
  <2>3. CASE q = p
    BY <1>3, <2>1, <2>3 DEF Ahead
  <2>4. CASE q # p
    <3>1. PICK d : d = open[q].db
      OBVIOUS
    <3>2. Ahead(d) /\ open'[q].db = d
      BY <1>4, <2>2, <2>4, <3>1 DEF CursorInv
    <3>3. Ahead(d)'
      BY <1>1, <1>2, <3>2 DEF Ahead
    <3> QED
      BY <3>2, <3>3 DEF Ahead
  <2> QED
    BY <2>3, <2>4
<1>5. FeedComplete'
  BY DEF CursorInv, FeedComplete
<1> QED
  BY <1>1, <1>2, <1>4, <1>5 DEF CursorInv

LEMMA MutationAhead ==
  ASSUME RecordsInv, CursorInv, NEW p \in Procs, NEW r \in Requests, NEW b \in Bodies, Mutate(p, r, b)
  PROVE  CursorInv'
<1>1. PICK put \in Apply(b) :
        LET written == put # None
            receipt == [op |-> b.op, name |-> IF written THEN Name(put.key, put.value) ELSE None]
        IN /\ sequence' = IF written THEN sequence + 1 ELSE sequence
           /\ Begin(p, [db EXCEPT !.receipts[r] = receipt,
                                  !.records = IF written THEN Written(put) ELSE @],
                    [kind |-> "mutation", id |-> r, key |-> IF written THEN put.key ELSE None])
  BY DEF Mutate
<1>2. UNCHANGED <<db, device>>
  BY DEF Mutate
<1>3. sequence \in Nat /\ DOMAIN db.records = Keys /\ TablesOK(db)
  BY SeqTypes DEF RecordsInv, Consistent
<1>4. PICK receipt : receipt = [op |-> b.op, name |-> IF put # None THEN Name(put.key, put.value) ELSE None]
  OBVIOUS
<1>5. PICK written : written = IF put # None THEN Written(put) ELSE db.records
  OBVIOUS
<1>6. PICK work : work = [kind |-> "mutation", id |-> r, key |-> IF put # None THEN put.key ELSE None]
  OBVIOUS
<1>7. PICK new : new = [db EXCEPT !.receipts[r] = receipt, !.records = written]
  OBVIOUS
<1>8. Begin(p, new, work)
  BY <1>1, <1>4, <1>5, <1>6, <1>7
<1>9. new.records = written
  BY <1>3, <1>7 DEF TablesOK
<1>10. ASSUME NEW k \in Keys
       PROVE  new.records[k] = db.records[k] \/ (put # None /\ new.records[k].seq = sequence + 1)
  <2>1. CASE put # None
    <3>1. \/ Written(put)[k] = db.records[k]
          \/ Written(put)[k] = [rev |-> put.rev, value |-> put.value, seq |-> sequence + 1]
      BY <1>3 DEF Written
    <3>2. new.records[k] = Written(put)[k]
      BY <1>5, <1>9, <2>1
    <3> QED
      BY <2>1, <3>1, <3>2
  <2> QED
    BY <1>5, <1>9, <2>1
<1>11. sequence' \in Nat /\ sequence <= sequence' /\ (put # None => sequence' = sequence + 1)
  BY <1>1, <1>3
<1>12. \A k \in Keys : \/ new.records[k] = db.records[k]
                       \/ /\ new.records[k].seq \in Nat
                          /\ sequence < new.records[k].seq /\ new.records[k].seq <= sequence'
  BY <1>3, <1>10, <1>11
<1> QED
  BY <1>2, <1>8, <1>11, <1>12, BeginsAhead

LEMMA RekeyAhead ==
  ASSUME RecordsInv, CursorInv, NEW p \in Procs, Rekey(p)
  PROVE  CursorInv'
<1> DEFINE touched == {k \in Keys : Name(k, Value(k)) = "old"}
           top == sequence + Cardinality(touched)
<1>1. PICK number \in [touched -> sequence + 1 .. top] :
        Begin(p, [db EXCEPT
                  !.records = RekeyedRecords(touched, number),
                  !.receipts = [r \in Requests |->
                     IF r \in {s \in Requests : db.receipts[s] # None /\ db.receipts[s].name = "old"}
                     THEN [db.receipts[r] EXCEPT !.name = "new"] ELSE db.receipts[r]]],
              [kind |-> "rekey"])
  BY DEF Rekey, RekeyedRecords
<1>2. UNCHANGED <<db, device>> /\ sequence' = top
  BY DEF Rekey
<1>3. sequence \in Nat /\ TablesOK(db)
  BY SeqTypes DEF RecordsInv, Consistent
<1>4. touched \in SUBSET Ids /\ IsFiniteSet(touched) /\ Cardinality(touched) \in Nat
  <2>1. touched \in SUBSET Ids
    BY ValuesAssumption DEF Name, Names
  <2> HIDE DEF touched
  <2> QED
    BY <2>1, ValuesAssumption, FS_Subset, FS_CardinalityType
<1>5. PICK new : new = [db EXCEPT !.records = RekeyedRecords(touched, number),
                  !.receipts = [r \in Requests |->
                     IF r \in {s \in Requests : db.receipts[s] # None /\ db.receipts[s].name = "old"}
                     THEN [db.receipts[r] EXCEPT !.name = "new"] ELSE db.receipts[r]]]
  OBVIOUS
<1>6. new.records = RekeyedRecords(touched, number)
  BY <1>3, <1>5 DEF TablesOK
<1>7. ASSUME NEW k \in touched PROVE new.records[k].seq \in sequence + 1..top
  <2>1. db.records[k] # None
    <3>1. db.records[k] = None => Value(k) = Gone
      BY DEF Value
    <3>2. None # "old"
      BY ValuesAssumption DEF Names
    <3>3. Name(k, Value(k)) = "old"
      OBVIOUS
    <3> QED
      BY <3>1, <3>2, <3>3 DEF Name
  <2>2. k \in Keys /\ number[k] \in sequence + 1..top
    OBVIOUS
  <2>3. PICK old : old = db.records[k] /\ old \in Records
    BY <1>3, <2>1, <2>2 DEF TablesOK
  <2>4. PICK value : value = Renamed(old.value)
    OBVIOUS
  <2>5. new.records[k] = [old EXCEPT !.value = Renamed(@), !.seq = number[k]]
    BY <1>6, <2>2, <2>3 DEF RekeyedRecords
  <2>6. [old EXCEPT !.value = Renamed(@), !.seq = number[k]].seq = number[k]
    BY <2>3 DEF Records
  <2> QED
    BY <2>2, <2>5, <2>6
<1>8. ASSUME NEW k \in Keys
      PROVE  new.records[k] = db.records[k] \/ new.records[k].seq \in sequence + 1..top
  BY <1>6, <1>7 DEF RekeyedRecords
<1> HIDE DEF touched
<1>9. top \in Nat /\ sequence <= top
  BY <1>3, <1>4
<1> HIDE DEF top
<1>10. \A k \in Keys : \/ new.records[k] = db.records[k]
                      \/ /\ new.records[k].seq \in Nat
                         /\ sequence < new.records[k].seq /\ new.records[k].seq <= top
  BY <1>3, <1>8, <1>9
<1>11. Begin(p, new, [kind |-> "rekey"])
  BY <1>1, <1>5
<1> QED
  BY <1>2, <1>9, <1>10, <1>11, BeginsAhead

\* A transaction that leaves the records as they are.
LEMMA OthersAhead ==
  ASSUME RecordsInv, CursorInv, NEW p \in Procs,
         \/ \E i \in Images : StoreImage(p, i)
         \/ \E batch \in SUBSET Requests : PurgeReceipts(p, batch)
         \/ PurgeImages(p)
  PROVE  CursorInv'
<1>1. TablesOK(db) /\ sequence \in Nat
  BY SeqTypes DEF RecordsInv, Consistent
<1>2. /\ \A x : [db EXCEPT !.images = x].records = db.records
      /\ \A x : [db EXCEPT !.receipts = x].records = db.records
  BY <1>1 DEF TablesOK
<1>3. ASSUME NEW new, NEW work, Begin(p, new, work), new.records = db.records,
             UNCHANGED <<db, device, sequence>>
      PROVE  CursorInv'
  BY <1>1, <1>3, BeginsAhead
<1>4. ASSUME NEW i \in Images, StoreImage(p, i) PROVE CursorInv'
  <2>1. PICK new : new = [db EXCEPT !.images = @ \cup {i}]
    OBVIOUS
  <2>2. new.records = db.records
    BY <1>2, <2>1
  <2>3. Begin(p, new, [kind |-> "image"])
    BY <1>4, <2>1 DEF StoreImage
  <2> QED
    BY <1>3, <1>4, <2>2, <2>3 DEF StoreImage
<1>5. ASSUME NEW batch \in SUBSET Requests, PurgeReceipts(p, batch) PROVE CursorInv'
  <2>1. PICK new : new = [db EXCEPT !.receipts = [r \in Requests |-> IF r \in batch THEN None ELSE @[r]]]
    OBVIOUS
  <2>2. new.records = db.records
    BY <1>2, <2>1
  <2>3. Begin(p, new, [kind |-> "purge", ids |-> batch])
    BY <1>5, <2>1 DEF PurgeReceipts
  <2> QED
    BY <1>3, <1>5, <2>2, <2>3 DEF PurgeReceipts
<1>6. ASSUME PurgeImages(p) PROVE CursorInv'
  <2>1. PICK new : new = [db EXCEPT !.images = @ \ {i \in sweep : Unused(i)}]
    OBVIOUS
  <2>2. new.records = db.records
    BY <1>2, <2>1
  <2>3. Begin(p, new, [kind |-> "images"])
    BY <1>6, <2>1 DEF PurgeImages
  <2> QED
    BY <1>3, <1>6, <2>2, <2>3 DEF PurgeImages
<1> QED
  BY <1>4, <1>5, <1>6

LEMMA CommitAhead ==
  ASSUME RecordsInv, CursorInv, NEW p \in Procs, Commit(p)
  PROVE  CursorInv'
<1>1. /\ open[p] # None /\ db' = open[p].db /\ open' = [open EXCEPT ![p] = None]
      /\ UNCHANGED <<sequence, device>>
  BY DEF Commit
<1>2. DOMAIN open = Procs /\ sequence \in Nat
  BY SeqTypes
<1>3. \A q \in Procs : open'[q] = None
  BY <1>1, <1>2 DEF RecordsInv, OneOpen
<1>4. Ahead(open[p].db)
  BY <1>1 DEF CursorInv
<1>5. device.cursor \in Nat /\ device.cursor <= sequence
  BY DEF CursorInv
<1>6. ASSUME NEW k \in Keys, db'.records[k] # None
      PROVE  db'.records[k].seq <= sequence /\ (db'.records[k].seq <= device.cursor => device.copy[k] = db'.records[k])
  <2>1. CASE db'.records[k] = db.records[k]
    BY <1>6, <2>1 DEF CursorInv, FeedComplete
  <2>2. CASE db'.records[k].seq \in device.cursor + 1..sequence
    BY <1>2, <1>5, <2>2
  <2> QED
    BY <1>1, <1>4, <2>1, <2>2 DEF Ahead
<1> QED
  BY <1>1, <1>3, <1>5, <1>6 DEF CursorInv, FeedComplete

LEMMA ReadAhead ==
  ASSUME RecordsInv, CursorInv, ReadPage
  PROVE  CursorInv'
<1> DEFINE above == Above(device.cursor)
           Below(k) == {j \in above : db.records[j].seq < db.records[k].seq}
           page == {k \in above : Cardinality(Below(k)) < PageLimit}
           last == CHOOSE k \in page : \A j \in page : db.records[j].seq <= db.records[k].seq
<1>1. /\ page # {} /\ UNCHANGED <<db, open, sequence>>
      /\ device' = [cursor |-> db.records[last].seq,
                    copy |-> [k \in Keys |-> IF k \in page THEN db.records[k] ELSE device.copy[k]]]
  BY DEF ReadPage
<1>2. /\ sequence \in Nat
      /\ \A k \in Keys : db.records[k] # None => db.records[k].seq \in Nat
      /\ device.cursor \in Nat /\ device.cursor <= sequence
      /\ \A k \in Keys : db.records[k] # None => db.records[k].seq <= sequence
  BY SeqTypes DEF CursorInv
<1>3. \A k \in above : k \in Keys /\ db.records[k] # None /\ db.records[k].seq > device.cursor
  BY DEF Above
<1>4. IsFiniteSet(above)
  <2>1. IsFiniteSet(Ids \cup {"order"})
    BY ValuesAssumption, FS_AddElement
  <2>2. IsFiniteSet((Ids \cup {"order"}) \cup {"evidence"})
    BY <2>1, FS_AddElement
  <2>3. Keys = (Ids \cup {"order"}) \cup {"evidence"}
    BY DEF Keys
  <2>4. above \in SUBSET Keys
    BY <1>3
  <2> HIDE DEF above
  <2> QED
    BY <2>2, <2>3, <2>4, FS_Subset
<1>5. last \in page /\ \A j \in page : db.records[j].seq <= db.records[last].seq
  <2> DEFINE seqs == {db.records[j].seq : j \in page}
  <2>1. seqs \in SUBSET Nat /\ seqs # {} /\ \A s \in seqs : s <= sequence
    BY <1>1, <1>2, <1>3
  <2> HIDE DEF seqs
  <2>2. PICK m \in seqs : \A n \in seqs : n <= m
    BY <1>2, <2>1, GreatestExists
  <2> USE DEF seqs
  <2>3. \E k \in page : \A j \in page : db.records[j].seq <= db.records[k].seq
    BY <2>2
  <2> HIDE DEF page, seqs
  <2> QED
    BY <2>3
<1>6. ASSUME NEW k \in above, db.records[k].seq <= db.records[last].seq PROVE k \in page
  <2>1. last \in above /\ Cardinality(Below(last)) < PageLimit
    BY <1>5
  <2>2. Below(k) \subseteq Below(last)
    <3>1. db.records[k].seq \in Nat /\ db.records[last].seq \in Nat
      BY <1>2, <1>3, <2>1
    <3>2. ASSUME NEW j \in above, db.records[j].seq < db.records[k].seq
          PROVE  db.records[j].seq < db.records[last].seq
      <4>1. db.records[j].seq \in Nat
        BY <1>2, <1>3
      <4> QED
        BY <1>6, <3>1, <3>2, <4>1
    <3> HIDE DEF last, above
    <3> QED
      BY <3>2
  <2>3. IsFiniteSet(Below(last)) /\ IsFiniteSet(Below(k)) /\ Cardinality(Below(k)) <= Cardinality(Below(last))
    <3>1. Below(last) \in SUBSET above
      OBVIOUS
    <3> HIDE DEF above, Below
    <3> QED
      BY <1>4, <2>2, <3>1, FS_Subset
  <2>4. Cardinality(Below(k)) \in Nat /\ Cardinality(Below(last)) \in Nat
    <3> HIDE DEF Below
    <3> QED
      BY <2>3, FS_CardinalityType
  <2> HIDE DEF Below
  <2>5. Cardinality(Below(k)) < PageLimit
    BY <2>1, <2>3, <2>4, BoundsAssumption
  <2> QED
    BY <2>5
<1> HIDE DEF page
<1>7. last \in above
  BY <1>5 DEF page
<1>8. db.records[last].seq \in Nat /\ device.cursor < db.records[last].seq /\ db.records[last].seq <= sequence
  BY <1>2, <1>3, <1>7
<1> HIDE DEF last
<1>9. device'.cursor = db.records[last].seq
  BY <1>1
<1>10. ASSUME NEW k \in Keys, db.records[k] # None, db.records[k].seq <= db.records[last].seq
       PROVE  device'.copy[k] = db.records[k]
  <2>1. device'.copy[k] = IF k \in page THEN db.records[k] ELSE device.copy[k]
    BY <1>1
  <2>2. CASE db.records[k].seq <= device.cursor
    BY <1>10, <2>1, <2>2 DEF CursorInv, FeedComplete
  <2>3. CASE db.records[k].seq > device.cursor
    <3>1. k \in above
      BY <1>10, <2>3 DEF Above
    <3> QED
      BY <1>6, <1>10, <2>1, <3>1
  <2> QED
    BY <1>2, <1>10, <2>2, <2>3
<1>11. FeedComplete'
  BY <1>1, <1>9, <1>10 DEF FeedComplete
<1>12. ASSUME NEW p \in Procs, open[p] # None PROVE Ahead(open[p].db)'
  <2>1. PICK d : d = open[p].db
    OBVIOUS
  <2>2. Ahead(d)
    BY <1>12, <2>1 DEF CursorInv
  <2>3. \A k \in Keys :
          \/ d.records[k] = db.records[k]
          \/ /\ d.records[k].seq \in db.records[last].seq + 1..sequence
             /\ \A j \in Keys : db.records[j] # None => db.records[j].seq < d.records[k].seq
    BY <1>2, <1>3, <1>7, <1>8, <2>2 DEF Ahead
  <2> QED
    BY <1>1, <1>9, <2>1, <2>3 DEF Ahead
<1> QED
  BY <1>1, <1>2, <1>8, <1>9, <1>11, <1>12 DEF CursorInv

LEMMA CursorStep ==
  ASSUME RecordsInv, CursorInv, [Next]_vars
  PROVE  CursorInv'
<1>1. CASE UNCHANGED vars
  BY <1>1 DEF vars, CursorInv, FeedComplete, Ahead
<1>2. ASSUME NEW p \in Procs, Rollback(p) PROVE CursorInv'
  <2>1. open' = [open EXCEPT ![p] = None] /\ UNCHANGED <<db, device, sequence>>
    BY <1>2 DEF Rollback
  <2>2. \A q \in Procs : open'[q] = None \/ open'[q] = open[q]
    BY <2>1, SeqTypes
  <2> QED
    BY <2>1, <2>2 DEF CursorInv, FeedComplete, Ahead
<1>3. ASSUME SelectImages PROVE CursorInv'
  BY <1>3 DEF SelectImages, CursorInv, FeedComplete, Ahead
<1> QED
  BY <1>1, <1>2, <1>3, MutationAhead, RekeyAhead, OthersAhead, CommitAhead, ReadAhead DEF Next

-----------------------------------------------------------------------------
(* The reader of the discovery records: its pages take every record up to     *)
(* the number it goes on from, and a record that is written is beyond.        *)

NumbersOK ==
    \A i \in Discovery!RecordIds : records[i] # None => records[i].seq \in Nat /\ records[i].seq <= head
NumbersApart ==
    \A i, j \in Discovery!RecordIds :
      i # j /\ records[i] # None /\ records[j] # None => records[i].seq # records[j].seq
ReaderInv ==
    /\ head \in Nat /\ NumbersOK /\ NumbersApart
    /\ reader.cursor \in Nat /\ reader.ceiling \in Nat
    /\ reader.cursor <= head /\ reader.ceiling <= head
    /\ \A i \in Discovery!RecordIds :
         records[i] # None /\ records[i].seq <= reader.cursor => reader.copy[i] = records[i]

LEMMA ReaderBegins == ASSUME Discovery!Init PROVE ReaderInv
BY DEF Discovery!Init, ReaderInv, NumbersOK, NumbersApart

\* What a page leaves below its advanced cursor is what it read.
LEMMA PageReachesCursor ==
  ASSUME ReaderInv, NEW ceiling \in Nat, reader.cursor < Discovery!Advanced(reader.cursor, ceiling)
  PROVE  /\ Discovery!Advanced(reader.cursor, ceiling) \in Nat
         /\ Discovery!Advanced(reader.cursor, ceiling) <= ceiling
         /\ \A i \in Discovery!RecordIds :
              /\ records[i] # None
              /\ records[i].seq \in reader.cursor + 1 .. Discovery!Advanced(reader.cursor, ceiling)
              => i \in Discovery!Page(reader.cursor, ceiling)
<1> DEFINE above == Discovery!Above(reader.cursor, ceiling)
           page == Discovery!Page(reader.cursor, ceiling)
           next == Discovery!Advanced(reader.cursor, ceiling)
           Below(i) == {j \in above : records[j].seq < records[i].seq}
<1>1. \A i : i \in above <=> /\ i \in Discovery!RecordIds /\ records[i] # None
                             /\ records[i].seq > reader.cursor /\ records[i].seq <= ceiling
  BY DEF Discovery!Above
<1>2. reader.cursor \in Nat /\ \A i \in above : records[i].seq \in Nat
  BY <1>1 DEF ReaderInv, NumbersOK
<1>3. CASE page = above
  <2>1. next = ceiling
    BY <1>3 DEF Discovery!Advanced
  <2> QED
    BY <1>1, <1>2, <1>3, <2>1
<1>4. CASE page # above
  <2>1. page = {i \in above : Cardinality(Below(i)) < PageLimit}
    BY DEF Discovery!Page, Discovery!Cardinality, Cardinality
  <2>2. IsFiniteSet(above)
    <3> DEFINE number == [i \in above |-> records[i].seq]
    <3>1. number \in [above -> 1 .. ceiling]
      BY <1>1, <1>2
    <3>2. \A i, j \in above : number[i] = number[j] => i = j
      BY <1>1 DEF ReaderInv, NumbersApart
    <3> HIDE DEF above, number
    <3>3. number \in Injection(above, 1 .. ceiling)
      BY <3>1, <3>2 DEF Injection, IsInjective
    <3> QED
      BY <3>3, FS_Interval, FS_Injection
  <2>3. page \subseteq above /\ page # {}
    <3> DEFINE seqs == {records[i].seq : i \in above}
    <3>1. seqs \in SUBSET Nat /\ seqs # {}
      BY <1>2, <1>4, <2>1
    <3> HIDE DEF seqs
    <3>2. PICK m \in seqs : \A n \in seqs : m <= n
      BY <3>1, LeastExists
    <3> USE DEF seqs
    <3>3. PICK i \in above : \A j \in above : records[i].seq <= records[j].seq
      BY <3>2
    <3>4. Below(i) = {}
      <4> HIDE DEF above
      <4> QED
        BY <1>2, <3>3
    <3>5. Cardinality(Below(i)) = 0
      BY <3>4, FS_EmptySet
    <3> HIDE DEF Below, above, page
    <3> QED
      BY <2>1, <3>3, <3>5, BoundsAssumption
  <2>4. PICK k \in page : \A i \in page : records[i].seq <= records[k].seq
    <3> DEFINE seqs == {records[i].seq : i \in page}
    <3>1. seqs \in SUBSET Nat /\ seqs # {} /\ \A s \in seqs : s <= ceiling
      BY <1>1, <1>2, <2>3
    <3> HIDE DEF seqs
    <3>2. PICK m \in seqs : \A n \in seqs : n <= m
      BY <3>1, GreatestExists
    <3> USE DEF seqs
    <3> QED
      BY <3>2
  <2>5. k \in above /\ records[k].seq \in reader.cursor + 1 .. ceiling
    BY <1>1, <1>2, <2>3
  <2> HIDE DEF page
  <2>6. /\ next \in reader.cursor + 1 .. ceiling
        /\ \E i \in page : records[i].seq = next
        /\ \A i \in page : records[i].seq <= next
    <3>1. next = CHOOSE s \in reader.cursor + 1 .. ceiling :
                   (\E i \in page : records[i].seq = s) /\ \A i \in page : records[i].seq <= s
      BY <1>4 DEF Discovery!Advanced, page
    <3> HIDE DEF next
    <3> QED
      BY <2>4, <2>5, <3>1
  <2> HIDE DEF next
  <2>7. PICK last \in page : records[last].seq = next
    BY <2>6
  <2>8. ASSUME NEW i \in Discovery!RecordIds, records[i] # None, records[i].seq \in reader.cursor + 1 .. next
        PROVE  i \in page
    <3>1. i \in above
      BY <1>1, <1>2, <2>6, <2>8
    <3>2. last \in above /\ Cardinality(Below(last)) < PageLimit
      BY <2>1, <2>3, <2>7
    <3> HIDE DEF above
    <3>3. Below(i) \subseteq Below(last)
      BY <1>2, <2>6, <2>7, <2>8, <3>1
    <3>4. Below(last) \in SUBSET above
      OBVIOUS
    <3> HIDE DEF Below
    <3>5. IsFiniteSet(Below(last)) /\ IsFiniteSet(Below(i)) /\ Cardinality(Below(i)) <= Cardinality(Below(last))
      BY <2>2, <3>3, <3>4, FS_Subset
    <3>6. Cardinality(Below(i)) \in Nat /\ Cardinality(Below(last)) \in Nat
      BY <3>5, FS_CardinalityType
    <3>7. Cardinality(Below(i)) < PageLimit
      BY <3>2, <3>5, <3>6, BoundsAssumption
    <3> QED
      BY <2>1, <3>1, <3>7
  <2>9. next \in Nat /\ next <= ceiling
    BY <1>2, <2>6
  <2> QED
    BY <2>8, <2>9 DEF next, page
<1> QED
  BY <1>3, <1>4

LEMMA ReaderReads ==
  ASSUME ReaderInv, Discovery!Read
  PROVE  ReaderInv'
<1>1. PICK ceiling : ceiling = IF reader.phase = "bootstrap" /\ reader.cursor > 0 THEN reader.ceiling ELSE head
  OBVIOUS
<1>2. PICK cursor : cursor = Discovery!Advanced(reader.cursor, ceiling)
  OBVIOUS
<1>3. /\ cursor > reader.cursor /\ UNCHANGED <<records, head>>
      /\ reader' = [phase |-> IF cursor = ceiling THEN "following" ELSE reader.phase,
                    cursor |-> cursor, ceiling |-> ceiling,
                    copy |-> [i \in Discovery!RecordIds |-> IF i \in Discovery!Page(reader.cursor, ceiling)
                                                            THEN records[i] ELSE reader.copy[i]]]
  BY <1>1, <1>2 DEF Discovery!Read
<1>4. ceiling \in Nat /\ ceiling <= head /\ head \in Nat
  BY <1>1 DEF ReaderInv
<1>5. /\ cursor \in Nat /\ cursor <= ceiling
      /\ \A i \in Discovery!RecordIds :
           records[i] # None /\ records[i].seq \in reader.cursor + 1 .. cursor
           => i \in Discovery!Page(reader.cursor, ceiling)
  <2>1. reader.cursor < Discovery!Advanced(reader.cursor, ceiling)
    BY <1>2, <1>3 DEF ReaderInv
  <2> QED
    BY <1>2, <1>4, <2>1, PageReachesCursor
<1>6. reader'.cursor = cursor /\ reader'.ceiling = ceiling
  BY <1>3
<1>7. ASSUME NEW i \in Discovery!RecordIds, records[i] # None, records[i].seq <= cursor
      PROVE  reader'.copy[i] = records[i]
  <2>1. reader'.copy[i] = IF i \in Discovery!Page(reader.cursor, ceiling) THEN records[i] ELSE reader.copy[i]
    BY <1>3
  <2>2. records[i].seq \in Nat /\ reader.cursor \in Nat
    BY <1>7 DEF ReaderInv, NumbersOK
  <2>3. CASE records[i].seq <= reader.cursor
    BY <1>7, <2>1, <2>3 DEF ReaderInv
  <2>4. CASE records[i].seq > reader.cursor
    BY <1>5, <1>7, <2>1, <2>2, <2>4
  <2> QED
    BY <2>2, <2>3, <2>4
<1> QED
  BY <1>3, <1>4, <1>5, <1>6, <1>7 DEF ReaderInv, NumbersOK, NumbersApart

LEMMA ReaderStep ==
  ASSUME DiscoveryInv, ReaderInv, Discovery!Next \/ UNCHANGED discoveryVars
  PROVE  ReaderInv'
<1>1. CASE UNCHANGED discoveryVars
  BY <1>1 DEF discoveryVars, ReaderInv, NumbersOK, NumbersApart
<1>2. ASSUME NEW m \in Mutations, NEW b \in Discovery!Bodies, Discovery!Mutate(m, b)
      PROVE  ReaderInv'
  <2>1. CASE UNCHANGED <<records, head>>
    BY <1>2, <2>1 DEF Discovery!Mutate, ReaderInv, NumbersOK, NumbersApart
  <2>2. CASE Discovery!Write(b)
    <3>1. PICK target, entry : /\ target = Discovery!Target(b) /\ entry = Discovery!Updated(b)
                               /\ records' = [records EXCEPT ![target] = entry]
                               /\ head' = head + 1 /\ reader' = reader
      BY <1>2, <2>2 DEF Discovery!Write, Discovery!Mutate
    <3>2. entry.seq = head + 1
      BY <3>1 DEF Discovery!Updated
    <3>3. \A i \in Discovery!RecordIds :
            records'[i] = IF i = target THEN entry ELSE records[i]
      BY <3>1 DEF DiscoveryInv, EntriesOK
    <3>4. head \in Nat /\ reader.cursor <= head /\ reader.cursor \in Nat
      BY DEF ReaderInv
    <3>5. NumbersOK'
      BY <3>1, <3>2, <3>3, <3>4 DEF ReaderInv, NumbersOK
    <3>6. NumbersApart'
      BY <3>2, <3>3, <3>4 DEF ReaderInv, NumbersOK, NumbersApart
    <3>7. \A i \in Discovery!RecordIds :
            records'[i] # None /\ records'[i].seq <= reader.cursor => reader.copy[i] = records'[i]
      BY <3>2, <3>3, <3>4 DEF ReaderInv
    <3> QED
      BY <3>1, <3>4, <3>5, <3>6, <3>7 DEF ReaderInv
  <2> QED
    BY <1>2, <2>1, <2>2 DEF Discovery!Mutate
<1> QED
  BY <1>1, <1>2, ReaderReads DEF Discovery!Next

-----------------------------------------------------------------------------
(* The feed of the collections.  In the run `records` are the collections,    *)
(* `aliases` their items and `canonicals` the client.  What a transaction has *)
(* yet to commit is about rows that it has locked, so that the events it will *)
(* append say of any copy what its writes say of the tables.                  *)

CollectionRows == [rev : Nat, deleted : BOOLEAN]
ItemRows == [coll : Collections, medium : {"old", "new"}]

\* What a client holds that holds the tables.
Shown ==
    [revs |-> [c \in Collections |-> IF Feed!Live(c) THEN records[c].rev ELSE None],
     items |-> [i \in Items |-> IF aliases[i] # None /\ Feed!Live(aliases[i].coll)
                                THEN aliases[i] ELSE None]]

RowsOK ==
    /\ records \in [Collections -> CollectionRows \cup {None}]
    /\ aliases \in [Items -> ItemRows \cup {None}]
    /\ \A i \in Items : aliases[i] # None => records[aliases[i].coll] # None
    /\ \A i, j \in Items : i # j /\ aliases[i] # None => aliases[j] # aliases[i]

\* The effect on any copy of the events of writes w, which tell of the items in `told`.
CopyAfter(w, told, revs, rows) ==
    [revs |-> [c \in Collections |->
        IF c \in DOMAIN w.colls THEN IF w.colls[c].deleted THEN None ELSE w.colls[c].rev
        ELSE revs[c]],
     items |-> [i \in Items |->
        IF i \in told THEN w.items[i]
        ELSE IF rows[i] # None /\ rows[i].coll \in DOMAIN w.colls /\ w.colls[rows[i].coll].deleted
        THEN None ELSE rows[i]]]
Tells(w, told) ==
    \A revs \in [Collections -> Nat \cup {None}], rows \in [Items -> ItemRows \cup {None}] :
      Feed!Applied([revs |-> revs, items |-> rows], w.events) = CopyAfter(w, told, revs, rows)

WritesLocked(locked, w) ==
    /\ locked \subseteq Collections /\ DOMAIN w.colls \subseteq locked /\ DOMAIN w.items \subseteq Items
    /\ \A c \in DOMAIN w.colls : w.colls[c] \in CollectionRows /\ (records[c] = None \/ Feed!Live(c))
    /\ \A i \in DOMAIN w.items :
         /\ aliases[i] # None => aliases[i].coll \in locked
         /\ w.items[i] # None =>
              /\ w.items[i] \in ItemRows /\ w.items[i].coll \in locked
              /\ w.items[i].coll \in DOMAIN w.colls \/ records[w.items[i].coll] # None
WritesOnce(w) ==
    \A i \in DOMAIN w.items, j \in Items :
      i # j /\ w.items[i] # None => w.items[i] # IF j \in DOMAIN w.items THEN w.items[j] ELSE aliases[j]
\* An item it does not tell of stays with a deleted collection.
ToldRight(w, told) ==
    /\ told \subseteq DOMAIN w.items /\ Tells(w, told)
    /\ \A i \in told :
         w.items[i] # None => w.items[i].coll \in DOMAIN w.colls /\ ~w.colls[w.items[i].coll].deleted
    /\ \A i \in DOMAIN w.items \ told :
         /\ aliases[i] # None /\ ~Feed!Live(aliases[i].coll)
         /\ w.items[i] # None => w.items[i].coll = aliases[i].coll
WritesOK(locked, w) == WritesLocked(locked, w) /\ WritesOnce(w) /\ \E told : ToldRight(w, told)

RowsApart ==
    \A p, q \in Procs :
      p # q /\ open[p] # None /\ open[q] # None =>
        /\ open[p].locked \cap open[q].locked = {}
        /\ DOMAIN open[p].writes.items \cap DOMAIN open[q].writes.items = {}
ProgressOK(row) == row # None => row.coll \in Collections /\ row.done = 1
ClientInv ==
    /\ RowsOK /\ canonicals = Shown /\ DOMAIN open = Procs /\ DOMAIN reader = Identities /\ RowsApart
    /\ \A p \in Procs : open[p] # None => WritesOK(open[p].locked, open[p].writes) /\ ProgressOK(open[p].progressed)
    /\ \A k \in Identities : ProgressOK(reader[k])

LEMMA ClientBegins == ASSUME Feed!Init PROVE ClientInv
<1>1. /\ \A c \in Collections : records[c] = None
      /\ \A i \in Items : aliases[i] = None
      /\ \A p \in Procs : open[p] = None
      /\ \A k \in Identities : reader[k] = None
  BY DEF Feed!Init
<1>2. RowsOK
  BY <1>1 DEF Feed!Init, RowsOK
<1>3. canonicals = Shown
  BY <1>1 DEF Feed!Init, Shown, Feed!Live
<1> QED
  BY <1>1, <1>2, <1>3 DEF Feed!Init, ClientInv, RowsApart, ProgressOK

\* What the run checks.
LEMMA ClientHoldsTables == ASSUME ClientInv PROVE Feed!FeedIsTables /\ Feed!OneMembership
<1>1. Feed!FeedIsTables
  BY DEF ClientInv, Shown, Feed!FeedIsTables
<1>2. ASSUME NEW c \in Collections, NEW m \in Feed!Media
      PROVE  Feed!Cardinality(Feed!Holder(c, m)) <= 1
  <2>1. \A i, j \in Feed!Holder(c, m) : i = j
    <3>1. \A i \in Feed!Holder(c, m) : i \in Items /\ aliases[i] = [coll |-> c, medium |-> m]
      BY DEF Feed!Holder
    <3>2. [coll |-> c, medium |-> m] # None
      <4>1. [coll |-> c, medium |-> m] \in [coll : Collections, medium : {"old", "new"}]
        BY DEF Feed!Media
      <4> QED
        BY <4>1, BoundsHold DEF Feed!FeedBounds
    <3> QED
      BY <3>1, <3>2 DEF ClientInv, RowsOK
  <2>2. CASE Feed!Holder(c, m) = {}
    BY <2>2, FS_EmptySet DEF Feed!Cardinality, Cardinality
  <2>3. ASSUME NEW i \in Feed!Holder(c, m) PROVE Feed!Cardinality(Feed!Holder(c, m)) <= 1
    <3>1. Feed!Holder(c, m) = {i}
      BY <2>1
    <3>2. Cardinality({i}) = 1
      BY FS_Singleton
    <3> QED
      BY <3>1, <3>2 DEF Feed!Cardinality, Cardinality
  <2> QED
    BY <2>2, <2>3
<1> QED
  BY <1>1, <1>2 DEF Feed!OneMembership

-----------------------------------------------------------------------------
(* Applying a block of events.                                                *)

\* The copies along a block: the library's theorems on recursive definitions
\* take an operator, so this one has its existence shown here.
LEMMA CopiesAlong ==
  ASSUME NEW copy, NEW events, Len(events) \in Nat
  PROVE  \E after : /\ after[0] = copy
                    /\ \A n \in 1 .. Len(events) : after[n] = Feed!ClientApply(after[n - 1], events[n])
                    /\ Feed!Applied(copy, events) = after[Len(events)]
<1> DEFINE Runs(f, m) == f = [n \in 0 .. m |-> IF n = 0 THEN copy ELSE Feed!ClientApply(f[n - 1], events[n])]
           stuck == {m \in Nat : ~\E f : Runs(f, m)}
<1>1. stuck = {}
  <2>1. SUFFICES ASSUME stuck # {} PROVE FALSE
    OBVIOUS
  <2>2. PICK m \in stuck : \A n \in stuck : m <= n
    <3>1. stuck \in SUBSET Nat
      OBVIOUS
    <3> HIDE DEF stuck
    <3> QED
      BY <2>1, <3>1, LeastExists
  <2>3. m # 0
    <3>1. Runs([n \in 0 .. 0 |-> copy], 0)
      OBVIOUS
    <3> QED
      BY <2>2, <3>1
  <2>4. m - 1 \in Nat /\ m - 1 \notin stuck
    <3>1. m \in Nat /\ m - 1 \in Nat /\ ~(m <= m - 1)
      BY <2>2, <2>3
    <3> HIDE DEF stuck
    <3> QED
      BY <2>2, <3>1
  <2>5. PICK f : Runs(f, m - 1)
    BY <2>4
  <2> DEFINE g == [n \in 0 .. m |-> IF n = m THEN Feed!ClientApply(f[m - 1], events[m]) ELSE f[n]]
  <2>6. Runs(g, m)
    <3>1. \A n \in 0 .. m - 1 : f[n] = IF n = 0 THEN copy ELSE Feed!ClientApply(f[n - 1], events[n])
      BY <2>5
    <3>2. \A n \in 0 .. m : n = m \/ n \in 0 .. m - 1
      BY <2>4
    <3>3. \A n \in 0 .. m - 1 : g[n] = f[n]
      BY <2>4
    <3>4. ASSUME NEW n \in 0 .. m
          PROVE  g[n] = IF n = 0 THEN copy ELSE Feed!ClientApply(g[n - 1], events[n])
      <4>1. CASE n = m
        <5>1. m - 1 \in 0 .. m - 1 /\ m \in 0 .. m
          BY <2>4
        <5>2. g[m] = Feed!ClientApply(f[m - 1], events[m]) /\ g[m - 1] = f[m - 1]
          BY <3>3, <5>1
        <5> QED
          BY <2>3, <4>1, <5>2
      <4>2. CASE n \in 0 .. m - 1
        <5>1. g[n] = f[n] /\ (n # 0 => n - 1 \in 0 .. m - 1)
          BY <2>4, <3>3, <4>2
        <5>2. n # 0 => g[n - 1] = f[n - 1]
          BY <3>3, <5>1
        <5> QED
          BY <3>1, <4>2, <5>1, <5>2
      <4> QED
        BY <3>2, <4>1, <4>2
    <3>5. g = [n \in 0 .. m |-> g[n]]
      OBVIOUS
    <3> HIDE DEF g
    <3> QED
      BY <3>4, <3>5
  <2> QED
    BY <2>2, <2>6
<1>2. PICK f : Runs(f, Len(events))
  BY <1>1
<1> DEFINE after == CHOOSE g : Runs(g, Len(events))
<1>3. Runs(after, Len(events))
  BY <1>2
<1>4. Feed!Applied(copy, events) = after[Len(events)]
  BY DEF Feed!Applied
<1> HIDE DEF after
<1>5. after[0] = copy
  BY <1>3
<1>6. \A n \in 1 .. Len(events) : after[n] = Feed!ClientApply(after[n - 1], events[n])
  BY <1>3
<1> QED
  BY <1>4, <1>5, <1>6

LEMMA AppliesCollection ==
  ASSUME NEW revs \in [Collections -> Nat \cup {None}], NEW rows \in [Items -> ItemRows \cup {None}],
         NEW c, NEW op, NEW rev
  PROVE  Feed!ClientApply([revs |-> revs, items |-> rows], Feed!CollectionEvent(c, op, rev)) =
           [revs |-> [revs EXCEPT ![c] = IF op = "upsert" THEN rev ELSE None],
            items |-> [i \in Items |-> IF op = "delete" /\ rows[i] # None /\ rows[i].coll = c
                                       THEN None ELSE rows[i]]]
<1>1. PICK e : e = Feed!CollectionEvent(c, op, rev)
  OBVIOUS
<1>2. e.kind = "collection" /\ e.op = op /\ e.coll = c /\ e.rev = rev
  BY <1>1 DEF Feed!CollectionEvent
<1>3. PICK copy : copy = [revs |-> revs, items |-> rows]
  OBVIOUS
<1>4. copy.revs = revs /\ copy.items = rows
  BY <1>3
<1>5. Feed!ClientApply(copy, e) =
        [revs |-> [revs EXCEPT ![c] = IF op = "upsert" THEN rev ELSE None],
         items |-> [i \in Items |-> IF op = "delete" /\ rows[i] # None /\ rows[i].coll = c
                                    THEN None ELSE rows[i]]]
  BY <1>2, <1>4 DEF Feed!ClientApply
<1> QED
  BY <1>1, <1>3, <1>5

LEMMA AppliesItem ==
  ASSUME NEW revs \in [Collections -> Nat \cup {None}], NEW rows \in [Items -> ItemRows \cup {None}],
         NEW c, NEW i, NEW op, NEW medium, NEW rev
  PROVE  Feed!ClientApply([revs |-> revs, items |-> rows], Feed!ItemEvent(c, i, op, medium, rev)) =
           [revs |-> [revs EXCEPT ![c] = rev],
            items |-> [rows EXCEPT ![i] = IF op = "delete" THEN None ELSE [coll |-> c, medium |-> medium]]]
<1>1. PICK e : e = Feed!ItemEvent(c, i, op, medium, rev)
  OBVIOUS
<1>2. /\ e.kind = "item" /\ e.op = op /\ e.coll = c /\ e.item = i /\ e.medium = medium /\ e.rev = rev
  BY <1>1 DEF Feed!ItemEvent
<1>3. PICK copy : copy = [revs |-> revs, items |-> rows]
  OBVIOUS
<1>4. copy.revs = revs /\ copy.items = rows
  BY <1>3
<1>5. Feed!ClientApply(copy, e) =
        [revs |-> [revs EXCEPT ![c] = rev],
         items |-> [rows EXCEPT ![i] = IF op = "delete" THEN None ELSE [coll |-> c, medium |-> medium]]]
  BY <1>2, <1>4 DEF Feed!ClientApply
<1> QED
  BY <1>1, <1>3, <1>5

\* Blocks of no, one and two events.
LEMMA AppliedShort ==
  ASSUME NEW copy, NEW events
  PROVE  /\ Len(events) = 0 => Feed!Applied(copy, events) = copy
         /\ Len(events) = 1 => Feed!Applied(copy, events) = Feed!ClientApply(copy, events[1])
         /\ Len(events) = 2 =>
              Feed!Applied(copy, events) = Feed!ClientApply(Feed!ClientApply(copy, events[1]), events[2])
<1>1. CASE Len(events) = 0
  BY <1>1, CopiesAlong
<1>2. CASE Len(events) = 1
  <2>0. Len(events) \in Nat
    BY <1>2
  <2>1. PICK after : /\ after[0] = copy
                     /\ \A n \in 1 .. Len(events) : after[n] = Feed!ClientApply(after[n - 1], events[n])
                     /\ Feed!Applied(copy, events) = after[Len(events)]
    BY <2>0, CopiesAlong
  <2>2. after[1] = Feed!ClientApply(after[1 - 1], events[1])
    BY <1>2, <2>1
  <2>3. 1 - 1 = 0
    OBVIOUS
  <2> QED
    BY <1>2, <2>1, <2>2, <2>3
<1>3. CASE Len(events) = 2
  <2>0. Len(events) \in Nat
    BY <1>3
  <2>1. PICK after : /\ after[0] = copy
                     /\ \A n \in 1 .. Len(events) : after[n] = Feed!ClientApply(after[n - 1], events[n])
                     /\ Feed!Applied(copy, events) = after[Len(events)]
    BY <2>0, CopiesAlong
  <2>2. /\ after[1] = Feed!ClientApply(after[1 - 1], events[1])
        /\ after[2] = Feed!ClientApply(after[2 - 1], events[2])
    BY <1>3, <2>1
  <2>3. 1 - 1 = 0 /\ 2 - 1 = 1
    OBVIOUS
  <2> QED
    BY <1>3, <2>1, <2>2, <2>3
<1> QED
  BY <1>1, <1>2, <1>3

-----------------------------------------------------------------------------
(* What the events of each kind of writes tell.                               *)

LEMMA NothingTells == Tells(Feed!NoWrites, {})
<1>1. /\ Feed!NoWrites.colls = <<>> /\ Feed!NoWrites.events = <<>>
  BY DEF Feed!NoWrites, Feed!Writes
<1>2. DOMAIN Feed!NoWrites.colls = {}
  BY <1>1
<1>3. ASSUME NEW revs \in [Collections -> Nat \cup {None}], NEW rows \in [Items -> ItemRows \cup {None}]
      PROVE  CopyAfter(Feed!NoWrites, {}, revs, rows) = [revs |-> revs, items |-> rows]
  <2>1. [c \in Collections |->
           IF c \in DOMAIN Feed!NoWrites.colls
           THEN IF Feed!NoWrites.colls[c].deleted THEN None ELSE Feed!NoWrites.colls[c].rev
           ELSE revs[c]] = revs
    BY <1>2
  <2>2. [i \in Items |->
           IF i \in {} THEN Feed!NoWrites.items[i]
           ELSE IF /\ rows[i] # None /\ rows[i].coll \in DOMAIN Feed!NoWrites.colls
                   /\ Feed!NoWrites.colls[rows[i].coll].deleted
           THEN None ELSE rows[i]] = rows
    BY <1>2
  <2> QED
    BY <2>1, <2>2 DEF CopyAfter
<1>4. Len(Feed!NoWrites.events) = 0
  BY <1>1
<1> QED
  BY <1>3, <1>4, AppliedShort DEF Tells

\* A write of a collection.
LEMMA CollectionTells ==
  ASSUME NEW c \in Collections, NEW row \in CollectionRows, NEW w,
         DOMAIN w.colls = {c}, w.colls[c] = row, Len(w.events) = 1,
         w.events[1] = Feed!CollectionEvent(c, IF row.deleted THEN "delete" ELSE "upsert", row.rev)
  PROVE  Tells(w, {})
<1>1. PICK op : op = IF row.deleted THEN "delete" ELSE "upsert"
  OBVIOUS
<1>2. row.deleted \in BOOLEAN
  BY DEF CollectionRows
<1>3. ASSUME NEW revs \in [Collections -> Nat \cup {None}], NEW rows \in [Items -> ItemRows \cup {None}]
      PROVE  Feed!Applied([revs |-> revs, items |-> rows], w.events) = CopyAfter(w, {}, revs, rows)
  <2>1. Feed!Applied([revs |-> revs, items |-> rows], w.events) =
          [revs |-> [revs EXCEPT ![c] = IF op = "upsert" THEN row.rev ELSE None],
           items |-> [i \in Items |-> IF op = "delete" /\ rows[i] # None /\ rows[i].coll = c
                                      THEN None ELSE rows[i]]]
    <3>1. PICK e : e = Feed!CollectionEvent(c, op, row.rev)
      OBVIOUS
    <3>2. PICK copy : copy = [revs |-> revs, items |-> rows]
      OBVIOUS
    <3>3. Feed!Applied(copy, w.events) = Feed!ClientApply(copy, e)
      BY <1>1, <3>1, AppliedShort
    <3> QED
      BY <3>1, <3>2, <3>3, AppliesCollection
  <2>2. [revs EXCEPT ![c] = IF op = "upsert" THEN row.rev ELSE None] =
          [x \in Collections |->
             IF x \in DOMAIN w.colls THEN IF w.colls[x].deleted THEN None ELSE w.colls[x].rev
             ELSE revs[x]]
    BY <1>1, <1>2
  <2>3. [i \in Items |-> IF op = "delete" /\ rows[i] # None /\ rows[i].coll = c
                         THEN None ELSE rows[i]] =
          [i \in Items |->
             IF i \in {} THEN w.items[i]
             ELSE IF rows[i] # None /\ rows[i].coll \in DOMAIN w.colls /\ w.colls[rows[i].coll].deleted
             THEN None ELSE rows[i]]
    BY <1>1, <1>2
  <2> QED
    BY <2>1, <2>2, <2>3 DEF CopyAfter
<1> QED
  BY <1>3 DEF Tells

\* A block of item events that is consistent with the writes.
LEMMA ItemsTell ==
  ASSUME NEW w, NEW told, Len(w.events) \in Nat, DOMAIN w.colls \subseteq Collections,
         \A c \in DOMAIN w.colls : ~w.colls[c].deleted /\ w.colls[c].rev \in Nat,
         \A k \in 1 .. Len(w.events) :
           /\ w.events[k].kind = "item" /\ w.events[k].coll \in DOMAIN w.colls
           /\ w.events[k].rev = w.colls[w.events[k].coll].rev /\ w.events[k].item \in told
           /\ w.items[w.events[k].item] =
                IF w.events[k].op = "delete" THEN None
                ELSE [coll |-> w.events[k].coll, medium |-> w.events[k].medium],
         \A c \in DOMAIN w.colls : \E k \in 1 .. Len(w.events) : w.events[k].coll = c,
         \A i \in told : \E k \in 1 .. Len(w.events) : w.events[k].item = i
  PROVE  Tells(w, told)
<1> SUFFICES ASSUME NEW revs \in [Collections -> Nat \cup {None}], NEW rows \in [Items -> ItemRows \cup {None}]
             PROVE  Feed!Applied([revs |-> revs, items |-> rows], w.events) = CopyAfter(w, told, revs, rows)
  BY DEF Tells
<1>1. PICK events : events = w.events
  OBVIOUS
<1>2. PICK last : last = Len(events)
  OBVIOUS
<1>3. last \in Nat
  BY <1>1, <1>2
<1>4. PICK after : /\ after[0] = [revs |-> revs, items |-> rows]
                   /\ \A n \in 1 .. last : after[n] = Feed!ClientApply(after[n - 1], events[n])
                   /\ Feed!Applied([revs |-> revs, items |-> rows], events) = after[last]
  BY <1>2, <1>3, CopiesAlong
<1> DEFINE Revs(n) == [c \in Collections |-> IF \E k \in 1 .. n : events[k].coll = c THEN w.colls[c].rev ELSE revs[c]]
           Rows(n) == [i \in Items |-> IF \E k \in 1 .. n : events[k].item = i THEN w.items[i] ELSE rows[i]]
           stuck == {n \in 0 .. last : after[n] # [revs |-> Revs(n), items |-> Rows(n)]}
<1>5. stuck = {}
  <2>1. SUFFICES ASSUME stuck # {} PROVE FALSE
    OBVIOUS
  <2>2. PICK m \in stuck : \A n \in stuck : m <= n
    <3>1. stuck \in SUBSET Nat
      BY <1>3
    <3> HIDE DEF stuck
    <3> QED
      BY <2>1, <3>1, LeastExists
  <2>3. m \in 0 .. last /\ after[m] # [revs |-> Revs(m), items |-> Rows(m)]
    OBVIOUS
  <2>4. m # 0
    <3>1. Revs(0) = revs /\ Rows(0) = rows
      OBVIOUS
    <3> QED
      BY <1>4, <2>3, <3>1
  <2>5. m \in 1 .. last /\ m - 1 \in 0 .. last /\ m \in Nat /\ ~(m <= m - 1)
    BY <1>3, <2>3, <2>4
  <2>6. after[m - 1] = [revs |-> Revs(m - 1), items |-> Rows(m - 1)]
    <3> HIDE DEF stuck, Revs, Rows
    <3>1. m - 1 \notin stuck
      BY <2>2, <2>5
    <3> QED
      BY <2>5, <3>1 DEF stuck
  <2>7. PICK e : e = events[m]
    OBVIOUS
  <2>8. /\ e.kind = "item" /\ e.coll \in DOMAIN w.colls /\ e.coll \in Collections
        /\ e.rev = w.colls[e.coll].rev /\ e.item \in told
        /\ w.items[e.item] = IF e.op = "delete" THEN None ELSE [coll |-> e.coll, medium |-> e.medium]
    BY <1>1, <1>2, <2>5, <2>7
  <2>9. Feed!ClientApply(after[m - 1], e) =
          [revs |-> [Revs(m - 1) EXCEPT ![e.coll] = e.rev],
           items |-> [Rows(m - 1) EXCEPT ![e.item] = IF e.op = "delete" THEN None
                                                      ELSE [coll |-> e.coll, medium |-> e.medium]]]
    <3> HIDE DEF Revs, Rows
    <3> QED
      BY <2>6, <2>8 DEF Feed!ClientApply
  <2>10. \A k \in 1 .. m : k = m \/ k \in 1 .. m - 1
    BY <2>5
  <2>11. \A k \in 1 .. m - 1 : k \in 1 .. m
    BY <2>5
  <2>12. m \in 1 .. m
    BY <2>5
  <2>13. Revs(m) = [Revs(m - 1) EXCEPT ![e.coll] = e.rev]
    <3>1. ASSUME NEW c \in Collections
          PROVE  Revs(m)[c] = [Revs(m - 1) EXCEPT ![e.coll] = e.rev][c]
      <4>1. CASE c = e.coll
        BY <2>7, <2>8, <2>12, <4>1
      <4>2. CASE c # e.coll
        <5>1. (\E k \in 1 .. m : events[k].coll = c) <=> \E k \in 1 .. m - 1 : events[k].coll = c
          BY <2>7, <2>10, <2>11, <4>2
        <5> QED
          BY <4>2, <5>1
      <4> QED
        BY <4>1, <4>2
    <3> QED
      BY <3>1
  <2>14. Rows(m) = [Rows(m - 1) EXCEPT ![e.item] = IF e.op = "delete" THEN None
                                                    ELSE [coll |-> e.coll, medium |-> e.medium]]
    <3>1. ASSUME NEW i \in Items
          PROVE  Rows(m)[i] = [Rows(m - 1) EXCEPT ![e.item] = w.items[e.item]][i]
      <4>1. CASE i = e.item
        BY <2>7, <2>8, <2>12, <4>1
      <4>2. CASE i # e.item
        <5>1. (\E k \in 1 .. m : events[k].item = i) <=> \E k \in 1 .. m - 1 : events[k].item = i
          BY <2>7, <2>10, <2>11, <4>2
        <5> QED
          BY <4>2, <5>1
      <4> QED
        BY <4>1, <4>2
    <3>2. Rows(m) = [Rows(m - 1) EXCEPT ![e.item] = w.items[e.item]]
      BY <3>1
    <3> HIDE DEF Rows, Revs, stuck
    <3> QED
      BY <2>8, <3>2
  <2>15. after[m] = Feed!ClientApply(after[m - 1], e)
    BY <1>4, <2>5, <2>7
  <2> HIDE DEF Revs, Rows, stuck
  <2> QED
    BY <2>3, <2>9, <2>13, <2>14, <2>15
<1>6. after[last] = [revs |-> Revs(last), items |-> Rows(last)]
  <2>1. last \in 0 .. last
    BY <1>3
  <2> HIDE DEF Revs, Rows
  <2> QED
    BY <1>5, <2>1
<1>7. \A c : c \in DOMAIN w.colls <=> \E k \in 1 .. last : events[k].coll = c
  BY <1>1, <1>2
<1>8. \A i : i \in told <=> \E k \in 1 .. last : events[k].item = i
  BY <1>1, <1>2
<1>9. Revs(last) = CopyAfter(w, told, revs, rows).revs
  BY <1>7 DEF CopyAfter
<1>10. Rows(last) = CopyAfter(w, told, revs, rows).items
  BY <1>8 DEF CopyAfter
<1>11. CopyAfter(w, told, revs, rows) =
         [revs |-> CopyAfter(w, told, revs, rows).revs, items |-> CopyAfter(w, told, revs, rows).items]
  BY DEF CopyAfter
<1> HIDE DEF Revs, Rows
<1> QED
  BY <1>1, <1>4, <1>6, <1>9, <1>10, <1>11

\* A write of a collection and one of its items.
LEMMA ItemTells ==
  ASSUME NEW c \in Collections, NEW row \in CollectionRows, ~row.deleted, NEW i, NEW op, NEW medium, NEW w,
         DOMAIN w.colls = {c}, w.colls[c] = row,
         op = "delete" => w.items[i] = None,
         op # "delete" => w.items[i] = [coll |-> c, medium |-> medium],
         Len(w.events) = 1, w.events[1] = Feed!ItemEvent(c, i, op, medium, row.rev)
  PROVE  Tells(w, {i})
<1>1. PICK e : e = Feed!ItemEvent(c, i, op, medium, row.rev)
  OBVIOUS
<1>2. e.kind = "item" /\ e.op = op /\ e.coll = c /\ e.item = i /\ e.medium = medium /\ e.rev = row.rev
  BY <1>1 DEF Feed!ItemEvent
<1>3. w.events[1] = e /\ row.rev \in Nat
  BY <1>1 DEF CollectionRows
<1>4. /\ Len(w.events) \in Nat /\ DOMAIN w.colls \subseteq Collections
      /\ \A x \in DOMAIN w.colls : ~w.colls[x].deleted /\ w.colls[x].rev \in Nat
  BY <1>3
<1>5. \A k \in 1 .. 1 : k = 1
  OBVIOUS
<1>6. 1 \in 1 .. 1
  OBVIOUS
<1>7. ASSUME NEW k \in 1 .. Len(w.events)
      PROVE  /\ w.events[k].kind = "item" /\ w.events[k].coll \in DOMAIN w.colls
             /\ w.events[k].rev = w.colls[w.events[k].coll].rev /\ w.events[k].item \in {i}
             /\ w.items[w.events[k].item] =
                  IF w.events[k].op = "delete" THEN None
                  ELSE [coll |-> w.events[k].coll, medium |-> w.events[k].medium]
  <2>1. w.events[k] = e
    BY <1>3, <1>5
  <2> QED
    BY <1>2, <2>1
<1>8. /\ \A x \in DOMAIN w.colls : \E k \in 1 .. Len(w.events) : w.events[k].coll = x
      /\ \A x \in {i} : \E k \in 1 .. Len(w.events) : w.events[k].item = x
  BY <1>2, <1>3, <1>6
<1> QED
  BY <1>4, <1>7, <1>8, ItemsTell

\* A collection created with its first item.
LEMMA BothTell ==
  ASSUME NEW c \in Collections, NEW row \in CollectionRows, ~row.deleted, NEW i, NEW medium, NEW w,
         DOMAIN w.colls = {c}, w.colls[c] = row, w.items[i] = [coll |-> c, medium |-> medium],
         Len(w.events) = 2, w.events[1] = Feed!CollectionEvent(c, "upsert", row.rev),
         w.events[2] = Feed!ItemEvent(c, i, "upsert", medium, row.rev)
  PROVE  Tells(w, {i})
<1>1. PICK e : e = Feed!CollectionEvent(c, "upsert", row.rev)
  OBVIOUS
<1>2. PICK f : f = Feed!ItemEvent(c, i, "upsert", medium, row.rev)
  OBVIOUS
<1>3. PICK value : value = [coll |-> c, medium |-> medium]
  OBVIOUS
<1>4. row.rev \in Nat
  BY DEF CollectionRows
<1> SUFFICES ASSUME NEW revs \in [Collections -> Nat \cup {None}], NEW rows \in [Items -> ItemRows \cup {None}]
             PROVE  Feed!Applied([revs |-> revs, items |-> rows], w.events) = CopyAfter(w, {i}, revs, rows)
  BY DEF Tells
<1>6. PICK copy : copy = [revs |-> revs, items |-> rows]
  OBVIOUS
<1>7. PICK revs1 : revs1 = [revs EXCEPT ![c] = row.rev]
  OBVIOUS
<1>8. revs1 \in [Collections -> Nat \cup {None}]
  BY <1>4, <1>7
<1>9. Feed!ClientApply(copy, e) = [revs |-> revs1, items |-> rows]
  <2>1. Feed!ClientApply(copy, e) =
          [revs |-> [revs EXCEPT ![c] = IF "upsert" = "upsert" THEN row.rev ELSE None],
           items |-> [x \in Items |-> IF "upsert" = "delete" /\ rows[x] # None /\ rows[x].coll = c
                                      THEN None ELSE rows[x]]]
    BY <1>1, <1>6, AppliesCollection
  <2>2. [revs EXCEPT ![c] = IF "upsert" = "upsert" THEN row.rev ELSE None] = revs1
    BY <1>7
  <2>3. [x \in Items |-> IF "upsert" = "delete" /\ rows[x] # None /\ rows[x].coll = c
                         THEN None ELSE rows[x]] = rows
    OBVIOUS
  <2> QED
    BY <2>1, <2>2, <2>3
<1>10. Feed!ClientApply([revs |-> revs1, items |-> rows], f) =
         [revs |-> [revs1 EXCEPT ![c] = row.rev], items |-> [rows EXCEPT ![i] = value]]
  <2>1. Feed!ClientApply([revs |-> revs1, items |-> rows], f) =
          [revs |-> [revs1 EXCEPT ![c] = row.rev],
           items |-> [rows EXCEPT ![i] = IF "upsert" = "delete" THEN None ELSE [coll |-> c, medium |-> medium]]]
    BY <1>2, <1>8, AppliesItem
  <2>2. value = IF "upsert" = "delete" THEN None ELSE [coll |-> c, medium |-> medium]
    BY <1>3
  <2> QED
    BY <2>1, <2>2
<1>11. Feed!Applied(copy, w.events) = [revs |-> [revs1 EXCEPT ![c] = row.rev], items |-> [rows EXCEPT ![i] = value]]
  <2>1. Feed!Applied(copy, w.events) = Feed!ClientApply(Feed!ClientApply(copy, w.events[1]), w.events[2])
    BY AppliedShort
  <2> QED
    BY <1>1, <1>2, <1>9, <1>10, <2>1
<1>12. [revs1 EXCEPT ![c] = row.rev] = CopyAfter(w, {i}, revs, rows).revs
  BY <1>7 DEF CopyAfter
<1>13. [rows EXCEPT ![i] = value] = CopyAfter(w, {i}, revs, rows).items
  BY <1>3 DEF CopyAfter
<1>14. CopyAfter(w, {i}, revs, rows) =
         [revs |-> CopyAfter(w, {i}, revs, rows).revs, items |-> CopyAfter(w, {i}, revs, rows).items]
  BY DEF CopyAfter
<1> QED
  BY <1>6, <1>11, <1>12, <1>13, <1>14

-----------------------------------------------------------------------------
(* What is begun writes what it locked.                                       *)

LEMMA OneRow ==
  ASSUME NEW id, NEW value
  PROVE  DOMAIN Feed!One(id, value) = {id} /\ Feed!One(id, value)[id] = value
BY DEF Feed!One

LEMMA BumpedRow ==
  ASSUME RowsOK, NEW c \in Collections, Feed!Live(c)
  PROVE  /\ Feed!Bumped(c) \in CollectionRows /\ ~Feed!Bumped(c).deleted
         /\ [Feed!Bumped(c) EXCEPT !.deleted = TRUE] \in CollectionRows
         /\ [Feed!Bumped(c) EXCEPT !.deleted = TRUE].deleted
         /\ [Feed!Bumped(c) EXCEPT !.deleted = TRUE].rev = Feed!Bumped(c).rev
<1>1. PICK row : row = records[c]
  OBVIOUS
<1>2. row \in CollectionRows /\ ~row.deleted
  BY <1>1 DEF RowsOK, Feed!Live
<1>3. PICK bumped : bumped = [row EXCEPT !.rev = row.rev + 1]
  OBVIOUS
<1>4. Feed!Bumped(c) = bumped
  BY <1>1, <1>3 DEF Feed!Bumped
<1>5. bumped \in CollectionRows /\ bumped.deleted = row.deleted
  BY <1>2, <1>3 DEF CollectionRows
<1>6. /\ [bumped EXCEPT !.deleted = TRUE] \in CollectionRows /\ [bumped EXCEPT !.deleted = TRUE].deleted
      /\ [bumped EXCEPT !.deleted = TRUE].rev = bumped.rev
  BY <1>5 DEF CollectionRows
<1> QED
  BY <1>2, <1>4, <1>5, <1>6

\* A request that is answered with what is there.
LEMMA NothingOK == ASSUME NEW locked \in SUBSET Collections PROVE WritesOK(locked, Feed!NoWrites)
<1>1. /\ Feed!NoWrites.colls = <<>> /\ Feed!NoWrites.items = <<>>
  BY DEF Feed!NoWrites, Feed!Writes
<1>2. DOMAIN Feed!NoWrites.colls = {} /\ DOMAIN Feed!NoWrites.items = {}
  BY <1>1
<1>3. ToldRight(Feed!NoWrites, {})
  BY <1>2, NothingTells DEF ToldRight
<1>4. WritesLocked(locked, Feed!NoWrites) /\ WritesOnce(Feed!NoWrites)
  BY <1>2 DEF WritesLocked, WritesOnce
<1> QED
  BY <1>3, <1>4 DEF WritesOK

\* A collection that is created, changed or deleted.
LEMMA CollectionOK ==
  ASSUME RowsOK, NEW c \in Collections, NEW row \in CollectionRows,
         records[c] = None \/ Feed!Live(c), NEW op, NEW w,
         op = (IF row.deleted THEN "delete" ELSE "upsert"),
         w = Feed!Writes(Feed!One(c, row), <<>>, <<Feed!CollectionEvent(c, op, row.rev)>>)
  PROVE  WritesOK({c}, w)
<1>1. PICK e : e = Feed!CollectionEvent(c, op, row.rev)
  OBVIOUS
<1>2. w.colls = [x \in {c} |-> row] /\ w.items = <<>> /\ w.events = <<e>>
  BY <1>1 DEF Feed!Writes, Feed!One
<1>3. DOMAIN w.colls = {c} /\ w.colls[c] = row /\ DOMAIN w.items = {}
  <2>1. DOMAIN w.items = {}
    BY <1>2
  <2> QED
    BY <1>2, <2>1
<1>4. Len(w.events) = 1 /\ w.events[1] = e
  BY <1>2
<1>5. Tells(w, {})
  BY <1>1, <1>3, <1>4, CollectionTells
<1>6. ToldRight(w, {})
  BY <1>3, <1>5 DEF ToldRight
<1>7. WritesLocked({c}, w) /\ WritesOnce(w)
  BY <1>3 DEF WritesLocked, WritesOnce
<1> QED
  BY <1>6, <1>7 DEF WritesOK

\* An item that is put in a live collection, or taken out of it.
Placing(c, i, medium) ==
    Feed!Writes(Feed!One(c, Feed!Bumped(c)), Feed!One(i, [coll |-> c, medium |-> medium]),
                <<Feed!ItemEvent(c, i, "upsert", medium, Feed!Bumped(c).rev)>>)
Taking(c, i) ==
    Feed!Writes(Feed!One(c, Feed!Bumped(c)), Feed!One(i, None),
                <<Feed!ItemEvent(c, i, "delete", None, Feed!Bumped(c).rev)>>)

LEMMA TakingOK ==
  ASSUME RowsOK, NEW c \in Collections, Feed!Live(c), NEW i \in Items, aliases[i].coll = c
  PROVE  WritesOK({c}, Taking(c, i))
<1>1. PICK row : row = Feed!Bumped(c)
  OBVIOUS
<1>2. PICK e : e = Feed!ItemEvent(c, i, "delete", None, row.rev)
  OBVIOUS
<1>3. PICK w : w = Taking(c, i)
  OBVIOUS
<1>4. row \in CollectionRows /\ ~row.deleted
  BY <1>1, BumpedRow
<1>5. w.colls = [x \in {c} |-> row] /\ w.items = [x \in {i} |-> None] /\ w.events = <<e>>
  BY <1>1, <1>2, <1>3 DEF Taking, Feed!Writes, Feed!One
<1>6. DOMAIN w.colls = {c} /\ w.colls[c] = row /\ DOMAIN w.items = {i} /\ w.items[i] = None
  BY <1>5
<1>7. Len(w.events) = 1 /\ w.events[1] = e
  BY <1>5
<1>8. Tells(w, {i})
  BY <1>2, <1>4, <1>6, <1>7, ItemTells
<1>9. WritesLocked({c}, w)
  BY <1>4, <1>6 DEF WritesLocked
<1>10. WritesOnce(w) /\ ToldRight(w, {i})
  BY <1>6, <1>8 DEF WritesOnce, ToldRight
<1> QED
  BY <1>3, <1>9, <1>10 DEF WritesOK

\* A medium that is placed in a live collection has the ID of the item that holds it.
LEMMA PlacingOK ==
  ASSUME RowsOK, NEW c \in Collections, Feed!Live(c), NEW item \in Items, NEW medium \in {"old", "new"},
         NEW i, i = Feed!Placed(c, item, medium), aliases[i] = None \/ aliases[i].coll = c
  PROVE  WritesOK({c}, Placing(c, i, medium))
<1>1. PICK row : row = Feed!Bumped(c)
  OBVIOUS
<1>2. PICK op : op = "upsert"
  OBVIOUS
<1>3. PICK e : e = Feed!ItemEvent(c, i, op, medium, row.rev)
  OBVIOUS
<1>4. PICK value : value = [coll |-> c, medium |-> medium]
  OBVIOUS
<1>5. PICK w : w = Placing(c, i, medium)
  OBVIOUS
<1>6. row \in CollectionRows /\ ~row.deleted
  BY <1>1, BumpedRow
<1>7. w.colls = [x \in {c} |-> row] /\ w.items = [x \in {i} |-> value] /\ w.events = <<e>>
  BY <1>1, <1>2, <1>3, <1>4, <1>5 DEF Placing, Feed!Writes, Feed!One
<1>8. DOMAIN w.colls = {c} /\ w.colls[c] = row /\ DOMAIN w.items = {i} /\ w.items[i] = value
  BY <1>7
<1>9. Len(w.events) = 1 /\ w.events[1] = Feed!ItemEvent(c, i, op, medium, row.rev)
  BY <1>3, <1>7
<1>10. /\ op = "delete" => w.items[i] = None
       /\ op # "delete" => w.items[i] = [coll |-> c, medium |-> medium]
  BY <1>2, <1>4, <1>8
<1>11. Tells(w, {i})
  BY <1>6, <1>8, <1>9, <1>10, ItemTells
<1>12. value # None /\ value \in ItemRows /\ value.coll = c
  <2>1. value \in [coll : Collections, medium : {"old", "new"}]
    BY <1>4
  <2> QED
    BY <1>4, <2>1, BoundsHold DEF Feed!FeedBounds, ItemRows
<1>13. i \in Items /\ \A j \in Items \ {i} : aliases[j] # value
  <2>1. CASE Feed!Holder(c, medium) = {}
    BY <1>4, <2>1 DEF Feed!Placed, Feed!Holder
  <2>2. CASE Feed!Holder(c, medium) # {}
    <3>1. i \in Feed!Holder(c, medium)
      BY <2>2 DEF Feed!Placed
    <3>2. i \in Items /\ aliases[i] = value
      BY <1>4, <3>1 DEF Feed!Holder
    <3> QED
      BY <1>12, <3>2 DEF RowsOK
  <2> QED
    BY <2>1, <2>2
<1>14. WritesLocked({c}, w)
  BY <1>6, <1>8, <1>12, <1>13 DEF WritesLocked
<1>15. WritesOnce(w)
  BY <1>8, <1>13 DEF WritesOnce
<1>16. ToldRight(w, {i})
  BY <1>6, <1>8, <1>11, <1>12 DEF ToldRight
<1> QED
  BY <1>5, <1>14, <1>15, <1>16 DEF WritesOK

LEMMA RequestOK ==
  ASSUME RowsOK, NEW q \in Feed!Bodies, NEW w \in Feed!Answer(q)
  PROVE  WritesOK({q.coll}, w)
<1>1. q.coll \in Collections /\ q.op \in {"create", "update", "delete", "put", "remove"}
  BY DEF Feed!Bodies
<1>2. PICK c \in Collections : c = q.coll
  BY <1>1
<1>3. w = Feed!NoWrites => WritesOK({c}, w)
  BY NothingOK
<1>4. CASE q.op = "create" /\ w # Feed!NoWrites
  <2>1. w \in Feed!Create(q)
    BY <1>4 DEF Feed!Answer
  <2>2. PICK row : row = [rev |-> 1, deleted |-> FALSE]
    OBVIOUS
  <2>3. row \in CollectionRows /\ ~row.deleted /\ row.rev = 1
    BY <2>2 DEF CollectionRows
  <2>4. /\ records[c] = None
        /\ w = Feed!Writes(Feed!One(c, row), <<>>, <<Feed!CollectionEvent(c, "upsert", row.rev)>>)
    BY <1>2, <1>4, <2>1, <2>2, <2>3 DEF Feed!Create
  <2> QED
    BY <1>2, <2>3, <2>4, CollectionOK
<1>5. CASE q.op = "update" /\ w # Feed!NoWrites
  <2>1. w \in Feed!Update(q)
    BY <1>5 DEF Feed!Answer
  <2>2. /\ Feed!Live(c)
        /\ w = Feed!Writes(Feed!One(c, Feed!Bumped(c)), <<>>,
                 <<Feed!CollectionEvent(c, "upsert", Feed!Bumped(c).rev)>>)
    BY <1>2, <2>1 DEF Feed!Update
  <2>3. PICK row : row = Feed!Bumped(c)
    OBVIOUS
  <2>4. row \in CollectionRows /\ ~row.deleted
    BY <2>2, <2>3, BumpedRow
  <2> QED
    BY <1>2, <2>2, <2>3, <2>4, CollectionOK
<1>6. CASE q.op = "delete" /\ w # Feed!NoWrites
  <2>1. w \in Feed!Delete(q)
    BY <1>6 DEF Feed!Answer
  <2>2. /\ Feed!Live(c)
        /\ w = Feed!Writes(Feed!One(c, [Feed!Bumped(c) EXCEPT !.deleted = TRUE]), <<>>,
                 <<Feed!CollectionEvent(c, "delete", Feed!Bumped(c).rev)>>)
    BY <1>2, <1>6, <2>1 DEF Feed!Delete
  <2>3. PICK row : row = [Feed!Bumped(c) EXCEPT !.deleted = TRUE]
    OBVIOUS
  <2>4. row \in CollectionRows /\ row.deleted /\ row.rev = Feed!Bumped(c).rev
    BY <2>2, <2>3, BumpedRow
  <2> QED
    BY <1>2, <2>2, <2>3, <2>4, CollectionOK
<1>7. CASE q.op = "put" /\ w # Feed!NoWrites
  <2>1. w \in Feed!Put(q)
    BY <1>7 DEF Feed!Answer
  <2>2. q.item \in Items /\ q.medium \in {"old", "new"}
    BY <1>7 DEF Feed!Bodies, Feed!Media
  <2>3. PICK i : i = Feed!Placed(c, q.item, q.medium)
    OBVIOUS
  <2>4. Feed!Live(c) /\ ~Feed!Foreign(c, i) /\ w = Placing(c, i, q.medium)
    BY <1>2, <2>1, <2>3 DEF Feed!Put, Placing
  <2>5. aliases[i] = None \/ aliases[i].coll = c
    BY <2>4 DEF Feed!Foreign
  <2>6. WritesOK({c}, Placing(c, i, q.medium))
    BY <2>2, <2>3, <2>4, <2>5, PlacingOK
  <2> QED
    BY <1>2, <2>4, <2>6
<1>8. CASE q.op = "remove" /\ w # Feed!NoWrites
  <2>1. w \in Feed!Withdraw(q)
    BY <1>8 DEF Feed!Answer
  <2>2. PICK i \in Items : i = q.item
    BY <1>8 DEF Feed!Bodies
  <2>3. Feed!Live(c) /\ aliases[i] # None /\ ~Feed!Foreign(c, i) /\ w = Taking(c, i)
    BY <1>2, <1>8, <2>1, <2>2 DEF Feed!Withdraw, Taking
  <2>4. aliases[i].coll = c
    BY <2>3 DEF Feed!Foreign
  <2>5. WritesOK({c}, Taking(c, i))
    BY <2>3, <2>4, TakingOK
  <2> QED
    BY <1>2, <2>3, <2>5
<1> QED
  BY <1>1, <1>2, <1>3, <1>4, <1>5, <1>6, <1>7, <1>8

\* The first chunk of a restore, and the next.
LEMMA FirstChunkOK ==
  ASSUME RowsOK, NEW c \in Collections, records[c] = None, NEW i \in Items, aliases[i] = None
  PROVE  WritesOK({c}, Feed!Chunk(c, 0, i))
<1>1. PICK row : row = [rev |-> 2, deleted |-> FALSE]
  OBVIOUS
<1>2. row \in CollectionRows /\ ~row.deleted /\ row.rev = 2
  BY <1>1 DEF CollectionRows
<1>3. PICK value : value = [coll |-> c, medium |-> "old"]
  OBVIOUS
<1>4. PICK e : e = Feed!CollectionEvent(c, "upsert", row.rev)
  OBVIOUS
<1>5. PICK f : f = Feed!ItemEvent(c, i, "upsert", "old", row.rev)
  OBVIOUS
<1>6. PICK w : w = Feed!Chunk(c, 0, i)
  OBVIOUS
<1>7. w.colls = [x \in {c} |-> row] /\ w.items = [x \in {i} |-> value] /\ w.events = <<e, f>>
  BY <1>1, <1>2, <1>3, <1>4, <1>5, <1>6 DEF Feed!Chunk, Feed!Writes, Feed!One
<1>8. DOMAIN w.colls = {c} /\ w.colls[c] = row /\ DOMAIN w.items = {i} /\ w.items[i] = value
  BY <1>7
<1>9. Len(w.events) = 2 /\ w.events[1] = e /\ w.events[2] = f
  BY <1>7
<1>10. Tells(w, {i})
  BY <1>2, <1>3, <1>4, <1>5, <1>8, <1>9, BothTell
<1>11. value # None /\ value \in ItemRows /\ value.coll = c
  <2>1. value \in [coll : Collections, medium : {"old", "new"}]
    BY <1>3
  <2> QED
    BY <1>3, <2>1, BoundsHold DEF Feed!FeedBounds, ItemRows
<1>12. \A j \in Items : aliases[j] # value
  BY <1>11 DEF RowsOK
<1>13. WritesLocked({c}, w)
  BY <1>2, <1>8, <1>11 DEF WritesLocked
<1>14. WritesOnce(w)
  BY <1>8, <1>12 DEF WritesOnce
<1>15. ToldRight(w, {i})
  BY <1>2, <1>8, <1>10, <1>11 DEF ToldRight
<1> QED
  BY <1>6, <1>13, <1>14, <1>15 DEF WritesOK

LEMMA NextChunkOK ==
  ASSUME RowsOK, NEW c \in Collections, NEW i \in Items, aliases[i] = None
  PROVE  WritesOK({c}, Feed!Chunk(c, 1, i))
<1>1. CASE ~Feed!Live(c)
  BY <1>1, NothingOK DEF Feed!Chunk
<1>2. CASE Feed!Live(c)
  <2>1. PICK placed : placed = Feed!Placed(c, i, "new")
    OBVIOUS
  <2>2. Feed!Chunk(c, 1, i) = Placing(c, placed, "new")
    BY <1>2, <2>1 DEF Feed!Chunk, Placing
  <2>3. aliases[placed] = None \/ aliases[placed].coll = c
    <3>1. CASE Feed!Holder(c, "new") = {}
      BY <2>1, <3>1 DEF Feed!Placed
    <3>2. CASE Feed!Holder(c, "new") # {}
      <4>1. placed \in Feed!Holder(c, "new")
        BY <2>1, <3>2 DEF Feed!Placed
      <4>2. aliases[placed] = [coll |-> c, medium |-> "new"]
        BY <4>1 DEF Feed!Holder
      <4> QED
        BY <4>2
    <3> QED
      BY <3>1, <3>2
  <2>4. WritesOK({c}, Placing(c, placed, "new"))
    BY <1>2, <2>1, <2>3, PlacingOK
  <2> QED
    BY <2>2, <2>4
<1> QED
  BY <1>1, <1>2

\* A sequence of a finite set lists all of it.
LEMMA AllListed ==
  ASSUME NEW S, IsFiniteSet(S), NEW listed, listed = Feed!SetToSeq(S)
  PROVE  /\ Len(listed) \in Nat /\ \A k \in 1 .. Len(listed) : listed[k] \in S
         /\ \A x \in S : \E k \in 1 .. Len(listed) : listed[k] = x
<1>1. PICK n \in Nat : n = Cardinality(S)
  BY FS_CardinalityType
<1>2. listed \in [1 .. n -> S] /\ Feed!IsInjective(listed)
  <2>1. \E f : f \in [1 .. n -> S] /\ Feed!IsInjective(f)
    <3>1. PICK f : f \in Bijection(1 .. n, S)
      BY <1>1, FS_CardinalityType DEF ExistsBijection
    <3> QED
      BY <3>1 DEF Bijection, Injection, IsInjective, Feed!IsInjective
  <2>2. listed = CHOOSE f \in [1 .. n -> S] : Feed!IsInjective(f)
    BY <1>1 DEF Feed!SetToSeq, Feed!Cardinality, Cardinality
  <2> QED
    BY <2>1, <2>2
<1>3. listed \in Injection(1 .. n, S)
  BY <1>2 DEF Injection, IsInjective, Feed!IsInjective
<1>4. Cardinality(1 .. n) = n
  BY FS_Interval
<1>5. listed \in Surjection(1 .. n, S)
  BY <1>1, <1>3, <1>4, FS_Injection
<1>6. Len(listed) = n
  BY <1>2
<1> QED
  BY <1>2, <1>5, <1>6 DEF Surjection

LEMMA MovedRow ==
  ASSUME RowsOK, NEW c \in Feed!Affected
  PROVE  /\ c \in Collections /\ records[c] # None
         /\ Feed!Mover(c) \in Items /\ aliases[Feed!Mover(c)] # None
         /\ aliases[Feed!Mover(c)].coll = c
         /\ [aliases[Feed!Mover(c)] EXCEPT !.medium = "new"] = [coll |-> c, medium |-> "new"]
<1>1. c \in Collections /\ Feed!Holder(c, "old") # {}
  BY DEF Feed!Affected
<1>2. PICK i : i = Feed!Mover(c)
  OBVIOUS
<1>3. i \in Items /\ i \in Feed!Holder(c, "old")
  <2>1. \E j \in Items : j \in Feed!Holder(c, "old")
    BY <1>1 DEF Feed!Holder
  <2> QED
    BY <1>2, <2>1 DEF Feed!Mover
<1>4. aliases[i] = [coll |-> c, medium |-> "old"]
  BY <1>3 DEF Feed!Holder
<1>5. aliases[i] # None
  <2>1. aliases[i] \in [coll : Collections, medium : {"old", "new"}]
    BY <1>1, <1>4
  <2> QED
    BY <2>1, BoundsHold DEF Feed!FeedBounds
<1>6. aliases[i].coll = c /\ records[c] # None
  BY <1>3, <1>4, <1>5 DEF RowsOK
<1>7. [aliases[i] EXCEPT !.medium = "new"] = [coll |-> c, medium |-> "new"]
  BY <1>4
<1> QED
  BY <1>1, <1>2, <1>3, <1>5, <1>6, <1>7

\* A rekey moves the items of live and of deleted collections, and tells of the
\* live ones in any order.
LEMMA RekeyOK == ASSUME RowsOK PROVE WritesOK(Feed!Affected, Feed!RekeyWrites)
<1>1. PICK living : living = {c \in Feed!Affected : Feed!Live(c)}
  OBVIOUS
<1>2. PICK told : told = {Feed!Mover(c) : c \in living}
  OBVIOUS
<1>3. PICK w : w = Feed!RekeyWrites
  OBVIOUS
<1>4. PICK listed : listed = {Feed!RekeyEvent(c) : c \in living}
  OBVIOUS
<1>5. \A c \in Feed!Affected :
        /\ c \in Collections /\ records[c] # None
        /\ Feed!Mover(c) \in Items /\ aliases[Feed!Mover(c)] # None /\ aliases[Feed!Mover(c)].coll = c
        /\ [aliases[Feed!Mover(c)] EXCEPT !.medium = "new"] = [coll |-> c, medium |-> "new"]
  BY MovedRow
<1>6. /\ w.colls = [c \in living |-> Feed!Bumped(c)]
      /\ w.items = [i \in {Feed!Mover(c) : c \in Feed!Affected} |->
                      IF Feed!Merges(aliases[i].coll) THEN None ELSE [aliases[i] EXCEPT !.medium = "new"]]
      /\ w.events = Feed!SetToSeq(listed)
  BY <1>1, <1>3, <1>4 DEF Feed!RekeyWrites, Feed!Writes
<1>7. DOMAIN w.colls = living /\ \A c \in living : w.colls[c] = Feed!Bumped(c)
  BY <1>6
<1>8. \A c \in living : c \in Feed!Affected /\ Feed!Live(c) /\ c \in Collections
  BY <1>1, <1>5
<1>9. \A c \in living : Feed!Bumped(c) \in CollectionRows /\ ~Feed!Bumped(c).deleted /\ Feed!Bumped(c).rev \in Nat
  BY <1>8, BumpedRow DEF CollectionRows
<1>10. DOMAIN w.items = {Feed!Mover(c) : c \in Feed!Affected}
  BY <1>6
<1>11. ASSUME NEW c \in Feed!Affected
       PROVE  /\ Feed!Merges(c) => w.items[Feed!Mover(c)] = None
              /\ ~Feed!Merges(c) => w.items[Feed!Mover(c)] = [coll |-> c, medium |-> "new"]
  <2>1. PICK i : i = Feed!Mover(c)
    OBVIOUS
  <2>2. i \in {Feed!Mover(d) : d \in Feed!Affected}
    BY <2>1
  <2>3. w.items[i] = IF Feed!Merges(aliases[i].coll) THEN None ELSE [aliases[i] EXCEPT !.medium = "new"]
    BY <1>6, <2>2
  <2> QED
    BY <1>5, <2>1, <2>3
<1>12. Tells(w, told)
  <2>1. IsFiniteSet(listed)
    <3> DEFINE told_of == [c \in living |-> Feed!RekeyEvent(c)]
    <3>1. IsFiniteSet(Collections) /\ living \in SUBSET Collections
      BY <1>8, BoundsHold DEF Feed!FeedBounds, Feed!IsFiniteSet, IsFiniteSet
    <3>2. IsFiniteSet(living)
      BY <3>1, FS_Subset
    <3>3. told_of \in Surjection(living, listed)
      BY <1>4 DEF Surjection
    <3> HIDE DEF told_of
    <3> QED
      BY <3>2, <3>3, FS_Surjection
  <2>2. PICK events : events = w.events
    OBVIOUS
  <2>3. /\ Len(events) \in Nat /\ \A k \in 1 .. Len(events) : events[k] \in listed
        /\ \A e \in listed : \E k \in 1 .. Len(events) : events[k] = e
    BY <1>6, <2>1, <2>2, AllListed
  <2>4. ASSUME NEW c \in living, NEW e, e = Feed!RekeyEvent(c)
        PROVE  /\ e.kind = "item" /\ e.coll = c /\ e.item = Feed!Mover(c) /\ e.rev = Feed!Bumped(c).rev
               /\ w.items[Feed!Mover(c)] = IF e.op = "delete" THEN None
                                           ELSE [coll |-> e.coll, medium |-> e.medium]
    <3>1. CASE Feed!Merges(c)
      <4>1. /\ e.kind = "item" /\ e.coll = c /\ e.item = Feed!Mover(c)
            /\ e.rev = Feed!Bumped(c).rev /\ e.op = "delete"
        BY <2>4, <3>1 DEF Feed!RekeyEvent, Feed!ItemEvent
      <4> QED
        BY <1>8, <1>11, <3>1, <4>1
    <3>2. CASE ~Feed!Merges(c)
      <4>1. /\ e.kind = "item" /\ e.coll = c /\ e.item = Feed!Mover(c)
            /\ e.rev = Feed!Bumped(c).rev /\ e.op = "upsert" /\ e.medium = "new"
        BY <2>4, <3>2 DEF Feed!RekeyEvent, Feed!ItemEvent
      <4> QED
        BY <1>8, <1>11, <3>2, <4>1
    <3> QED
      BY <3>1, <3>2
  <2>5. ASSUME NEW k \in 1 .. Len(events)
        PROVE  /\ events[k].kind = "item" /\ events[k].coll \in DOMAIN w.colls
               /\ events[k].rev = w.colls[events[k].coll].rev /\ events[k].item \in told
               /\ w.items[events[k].item] =
                    IF events[k].op = "delete" THEN None
                    ELSE [coll |-> events[k].coll, medium |-> events[k].medium]
    <3>1. PICK e : e = events[k]
      OBVIOUS
    <3>2. PICK c \in living : e = Feed!RekeyEvent(c)
      BY <1>4, <2>3, <3>1
    <3>3. /\ e.kind = "item" /\ e.coll = c /\ e.item = Feed!Mover(c) /\ e.rev = Feed!Bumped(c).rev
          /\ w.items[Feed!Mover(c)] = IF e.op = "delete" THEN None
                                      ELSE [coll |-> e.coll, medium |-> e.medium]
      BY <2>4, <3>2
    <3>4. e.coll \in DOMAIN w.colls /\ e.rev = w.colls[e.coll].rev /\ e.item \in told
      BY <1>2, <1>7, <3>3
    <3> QED
      BY <3>1, <3>3, <3>4
  <2>6. ASSUME NEW c \in living
        PROVE  \E k \in 1 .. Len(events) : events[k].coll = c /\ events[k].item = Feed!Mover(c)
    <3>1. PICK e : e = Feed!RekeyEvent(c)
      OBVIOUS
    <3>2. PICK k \in 1 .. Len(events) : events[k] = e
      BY <1>4, <2>3, <3>1
    <3>3. e.coll = c /\ e.item = Feed!Mover(c)
      BY <2>4, <3>1
    <3> QED
      BY <3>2, <3>3
  <2>7. /\ \A c \in DOMAIN w.colls : \E k \in 1 .. Len(events) : events[k].coll = c
        /\ \A i \in told : \E k \in 1 .. Len(events) : events[k].item = i
    BY <1>2, <1>7, <2>6
  <2>8. /\ DOMAIN w.colls \subseteq Collections
        /\ \A c \in DOMAIN w.colls : ~w.colls[c].deleted /\ w.colls[c].rev \in Nat
    BY <1>7, <1>8, <1>9
  <2> QED
    BY <2>2, <2>3, <2>5, <2>7, <2>8, ItemsTell
<1>13. ASSUME NEW i \in DOMAIN w.items
       PROVE  /\ aliases[i] # None /\ aliases[i].coll \in Feed!Affected /\ i = Feed!Mover(aliases[i].coll)
              /\ w.items[i] # None =>
                   /\ w.items[i] \in ItemRows /\ w.items[i].coll = aliases[i].coll
                   /\ w.items[i] = [coll |-> aliases[i].coll, medium |-> "new"]
                   /\ ~Feed!Merges(aliases[i].coll)
  <2>1. PICK c \in Feed!Affected : i = Feed!Mover(c)
    BY <1>10
  <2>2. PICK value : value = [coll |-> c, medium |-> "new"]
    OBVIOUS
  <2>3. value \in ItemRows /\ value.coll = c
    BY <1>5, <2>2 DEF ItemRows
  <2>4. aliases[i] # None /\ aliases[i].coll = c
    BY <1>5, <2>1
  <2> QED
    BY <1>11, <2>1, <2>2, <2>3, <2>4
<1>14. WritesLocked(Feed!Affected, w)
  <2>1. Feed!Affected \subseteq Collections /\ DOMAIN w.colls \subseteq Feed!Affected
    BY <1>5, <1>7, <1>8
  <2>2. DOMAIN w.items \subseteq Items
    <3>1. ASSUME NEW i \in DOMAIN w.items PROVE i \in Items
      <4>1. PICK c \in Feed!Affected : i = Feed!Mover(c)
        BY <1>10
      <4> QED
        BY <1>5, <4>1
    <3> QED
      BY <3>1
  <2>3. \A c \in DOMAIN w.colls : w.colls[c] \in CollectionRows /\ (records[c] = None \/ Feed!Live(c))
    BY <1>7, <1>8, <1>9
  <2>4. \A i \in DOMAIN w.items :
          /\ aliases[i] # None => aliases[i].coll \in Feed!Affected
          /\ w.items[i] # None =>
               /\ w.items[i] \in ItemRows /\ w.items[i].coll \in Feed!Affected
               /\ w.items[i].coll \in DOMAIN w.colls \/ records[w.items[i].coll] # None
    BY <1>5, <1>13
  <2> QED
    BY <2>1, <2>2, <2>3, <2>4 DEF WritesLocked
<1>15. WritesOnce(w)
  <2>1. ASSUME NEW i \in DOMAIN w.items, NEW j \in Items, i # j, w.items[i] # None
        PROVE  w.items[i] # IF j \in DOMAIN w.items THEN w.items[j] ELSE aliases[j]
    <3>1. CASE j \in DOMAIN w.items
      BY <1>13, <2>1, <3>1
    <3>2. CASE j \notin DOMAIN w.items
      <4>1. Feed!Holder(aliases[i].coll, "new") = {}
        BY <1>13, <2>1 DEF Feed!Merges
      <4> QED
        BY <1>13, <2>1, <3>2, <4>1 DEF Feed!Holder
    <3> QED
      BY <3>1, <3>2
  <2> QED
    BY <2>1 DEF WritesOnce
<1>16. ToldRight(w, told)
  <2>1. told \subseteq DOMAIN w.items
    BY <1>2, <1>8, <1>10
  <2>2. \A i \in told :
          w.items[i] # None => w.items[i].coll \in DOMAIN w.colls /\ ~w.colls[w.items[i].coll].deleted
    <3>1. ASSUME NEW c \in living, w.items[Feed!Mover(c)] # None
          PROVE  w.items[Feed!Mover(c)].coll = c
      BY <1>5, <1>8, <1>10, <1>13, <3>1
    <3> QED
      BY <1>2, <1>7, <1>9, <3>1
  <2>3. ASSUME NEW i \in DOMAIN w.items \ told
        PROVE  /\ aliases[i] # None /\ ~Feed!Live(aliases[i].coll)
               /\ w.items[i] # None => w.items[i].coll = aliases[i].coll
    BY <1>1, <1>2, <1>13
  <2> QED
    BY <1>12, <2>1, <2>2, <2>3 DEF ToldRight
<1> QED
  BY <1>3, <1>14, <1>15, <1>16 DEF WritesOK

-----------------------------------------------------------------------------
(* The steps.                                                                 *)

\* Transactions of which one holds the rows it writes, and no other.
LEMMA ClientOpens ==
  ASSUME ClientInv, NEW p \in Procs, NEW k, NEW cs, NEW writes, NEW progressed, NEW receipt,
         Feed!Begin(p, k, cs, writes, progressed, receipt),
         WritesOK(cs, writes), ProgressOK(progressed)
  PROVE  ClientInv'
<1>1. PICK t : t = [key |-> k, locked |-> cs, writes |-> writes, progressed |-> progressed,
                    receipt |-> receipt]
  OBVIOUS
<1>2. t.locked = cs /\ t.writes = writes /\ t.progressed = progressed
  BY <1>1
<1>3. /\ open' = [open EXCEPT ![p] = t] /\ UNCHANGED <<records, aliases, canonicals, reader>>
      /\ \A q \in Procs : open[q] # None =>
           open[q].locked \cap cs = {} /\ DOMAIN open[q].writes.items \cap DOMAIN writes.items = {}
  BY <1>1 DEF Feed!Begin, Feed!RowsFree
<1>4. DOMAIN open' = Procs /\ open'[p] = t /\ \A q \in Procs \ {p} : open'[q] = open[q]
  BY <1>3 DEF ClientInv
<1>5. RowsOK' /\ canonicals' = Shown'
  BY <1>3 DEF ClientInv, RowsOK, Shown, Feed!Live
<1>6. RowsApart'
  <2>1. ASSUME NEW q \in Procs \ {p}, open'[q] # None
        PROVE  /\ open'[q].locked \cap t.locked = {}
               /\ DOMAIN open'[q].writes.items \cap DOMAIN t.writes.items = {}
    BY <1>2, <1>3, <1>4, <2>1
  <2>2. ASSUME NEW q \in Procs, NEW r \in Procs, q # r, open'[q] # None, open'[r] # None
        PROVE  /\ open'[q].locked \cap open'[r].locked = {}
               /\ DOMAIN open'[q].writes.items \cap DOMAIN open'[r].writes.items = {}
    <3>1. CASE q # p /\ r # p
      BY <1>4, <2>2, <3>1 DEF ClientInv, RowsApart
    <3>2. CASE q = p
      BY <1>4, <2>1, <2>2, <3>2
    <3>3. CASE r = p
      BY <1>4, <2>1, <2>2, <3>3
    <3> QED
      BY <3>1, <3>2, <3>3
  <2> QED
    BY <2>2 DEF RowsApart
<1>7. ASSUME NEW locked, NEW w, WritesOK(locked, w) PROVE WritesOK(locked, w)'
  BY <1>3, <1>7 DEF WritesOK, WritesLocked, WritesOnce, ToldRight, Feed!Live
<1>8. ASSUME NEW q \in Procs, open'[q] # None
      PROVE  WritesOK(open[q].locked, open[q].writes)' /\ ProgressOK(open[q].progressed)'
  <2>1. PICK u : u = open'[q]
    OBVIOUS
  <2>2. WritesOK(u.locked, u.writes) /\ ProgressOK(u.progressed)
    BY <1>2, <1>4, <1>8, <2>1 DEF ClientInv
  <2>3. WritesOK(u.locked, u.writes)'
    BY <1>7, <2>2
  <2> QED
    BY <2>1, <2>2, <2>3 DEF ProgressOK
<1> QED
  BY <1>3, <1>4, <1>5, <1>6, <1>8 DEF ClientInv, ProgressOK

\* The tables and the client once a transaction has committed.
LEMMA CommittedRows ==
  ASSUME RowsOK, NEW locked, NEW w, WritesOK(locked, w),
         records' = [c \in Collections |-> IF c \in DOMAIN w.colls THEN w.colls[c] ELSE records[c]],
         aliases' = [i \in Items |-> IF i \in DOMAIN w.items THEN w.items[i] ELSE aliases[i]]
  PROVE  RowsOK'
<1>1. WritesLocked(locked, w) /\ WritesOnce(w)
  BY DEF WritesOK
<1>2. None \notin CollectionRows
  BY BoundsHold DEF Feed!FeedBounds, CollectionRows
<1>3. records' \in [Collections -> CollectionRows \cup {None}]
  BY <1>1 DEF RowsOK, WritesLocked
<1>4. aliases' \in [Items -> ItemRows \cup {None}]
  BY <1>1 DEF RowsOK, WritesLocked
<1>5. ASSUME NEW i \in Items, aliases'[i] # None
      PROVE  records'[aliases'[i].coll] # None
  <2>1. aliases'[i].coll \in Collections
    BY <1>4, <1>5 DEF ItemRows
  <2>2. aliases'[i].coll \in DOMAIN w.colls \/ records[aliases'[i].coll] # None
    BY <1>1, <1>5 DEF RowsOK, WritesLocked
  <2> QED
    BY <1>1, <1>2, <2>1, <2>2 DEF WritesLocked
<1>6. ASSUME NEW i \in Items, NEW j \in Items, i # j, aliases'[i] # None
      PROVE  aliases'[j] # aliases'[i]
  <2>1. CASE i \in DOMAIN w.items
    BY <1>1, <1>6, <2>1 DEF WritesOnce
  <2>2. CASE i \notin DOMAIN w.items /\ j \in DOMAIN w.items
    BY <1>1, <1>6, <2>2 DEF WritesOnce
  <2>3. CASE i \notin DOMAIN w.items /\ j \notin DOMAIN w.items
    BY <1>6, <2>3 DEF RowsOK
  <2> QED
    BY <2>1, <2>2, <2>3
<1> QED
  BY <1>3, <1>4, <1>5, <1>6 DEF RowsOK

LEMMA CommittedFeed ==
  ASSUME RowsOK, NEW locked, NEW w, WritesOK(locked, w),
         records' = [c \in Collections |-> IF c \in DOMAIN w.colls THEN w.colls[c] ELSE records[c]],
         aliases' = [i \in Items |-> IF i \in DOMAIN w.items THEN w.items[i] ELSE aliases[i]]
  PROVE  Feed!Applied(Shown, w.events) = Shown'
<1>1. PICK told : ToldRight(w, told)
  BY DEF WritesOK
<1>2. WritesLocked(locked, w)
  BY DEF WritesOK
<1>3. PICK revs : revs = [c \in Collections |-> IF Feed!Live(c) THEN records[c].rev ELSE None]
  OBVIOUS
<1>4. PICK rows : rows = [i \in Items |-> IF aliases[i] # None /\ Feed!Live(aliases[i].coll)
                                          THEN aliases[i] ELSE None]
  OBVIOUS
<1>5. Shown = [revs |-> revs, items |-> rows]
  BY <1>3, <1>4 DEF Shown
<1>6. revs \in [Collections -> Nat \cup {None}]
  BY <1>3 DEF RowsOK, Feed!Live, CollectionRows
<1>7. rows \in [Items -> ItemRows \cup {None}]
  BY <1>4 DEF RowsOK
<1>8. Feed!Applied(Shown, w.events) = CopyAfter(w, told, revs, rows)
  BY <1>1, <1>5, <1>6, <1>7 DEF ToldRight, Tells
<1>9. None \notin CollectionRows
  BY BoundsHold DEF Feed!FeedBounds, CollectionRows
<1> DEFINE Lives(c) == records'[c] # None /\ ~records'[c].deleted
<1>10. \A c \in Collections :
         /\ c \in DOMAIN w.colls => records'[c] = w.colls[c] /\ records'[c] \in CollectionRows
         /\ c \notin DOMAIN w.colls => records'[c] = records[c]
         /\ Lives(c) <=> IF c \in DOMAIN w.colls THEN ~w.colls[c].deleted ELSE Feed!Live(c)
  BY <1>2, <1>9 DEF WritesLocked, Feed!Live
<1>11. CopyAfter(w, told, revs, rows).revs = Shown'.revs
  <2>1. ASSUME NEW c \in Collections
        PROVE  CopyAfter(w, told, revs, rows).revs[c] = Shown'.revs[c]
    BY <1>3, <1>10 DEF CopyAfter, Shown, Feed!Live
  <2> QED
    BY <2>1 DEF CopyAfter, Shown
<1>12. ASSUME NEW i \in Items
       PROVE  CopyAfter(w, told, revs, rows).items[i] = Shown'.items[i]
  <2>1. /\ Shown'.items[i] = IF aliases'[i] # None /\ Lives(aliases'[i].coll) THEN aliases'[i] ELSE None
        /\ CopyAfter(w, told, revs, rows).items[i] =
             IF i \in told THEN w.items[i]
             ELSE IF rows[i] # None /\ rows[i].coll \in DOMAIN w.colls /\ w.colls[rows[i].coll].deleted
             THEN None ELSE rows[i]
    BY DEF Shown, CopyAfter, Feed!Live
  <2>2. /\ aliases[i] # None => aliases[i].coll \in Collections /\ records[aliases[i].coll] # None
        /\ aliases'[i] = IF i \in DOMAIN w.items THEN w.items[i] ELSE aliases[i]
        /\ rows[i] = IF aliases[i] # None /\ Feed!Live(aliases[i].coll) THEN aliases[i] ELSE None
    BY <1>4 DEF RowsOK, ItemRows
  <2> HIDE DEF Lives
  <2>3. CASE i \in told
    <3>1. i \in DOMAIN w.items
      BY <1>1, <2>3 DEF ToldRight
    <3>2. w.items[i] # None =>
            /\ w.items[i].coll \in Collections /\ w.items[i].coll \in DOMAIN w.colls
            /\ ~w.colls[w.items[i].coll].deleted
      BY <1>1, <1>2, <2>3, <3>1 DEF ToldRight, WritesLocked
    <3> QED
      BY <1>10, <2>1, <2>2, <2>3, <3>1, <3>2
  <2>4. CASE i \in DOMAIN w.items \ told
    <3>1. /\ aliases[i] # None /\ ~Feed!Live(aliases[i].coll)
          /\ w.items[i] # None => w.items[i].coll = aliases[i].coll
      BY <1>1, <2>4 DEF ToldRight
    <3>2. aliases[i].coll \notin DOMAIN w.colls
      BY <1>2, <2>2, <3>1 DEF WritesLocked
    <3>3. ~Lives(aliases[i].coll)
      BY <1>10, <2>2, <3>1, <3>2
    <3> QED
      BY <2>1, <2>2, <2>4, <3>1, <3>3
  <2>5. CASE i \notin DOMAIN w.items /\ i \notin told
    <3>1. aliases'[i] = aliases[i]
      BY <2>2, <2>5
    <3>2. CASE aliases[i] = None
      BY <2>1, <2>2, <2>5, <3>1, <3>2
    <3>3. CASE aliases[i] # None /\ aliases[i].coll \in DOMAIN w.colls
      <4>1. Feed!Live(aliases[i].coll)
        BY <1>2, <2>2, <3>3 DEF WritesLocked
      <4>2. rows[i] = aliases[i]
        BY <2>2, <3>3, <4>1
      <4>3. Lives(aliases[i].coll) <=> ~w.colls[aliases[i].coll].deleted
        BY <1>10, <2>2, <3>3
      <4> QED
        BY <2>1, <2>5, <3>1, <3>3, <4>2, <4>3
    <3>4. CASE aliases[i] # None /\ aliases[i].coll \notin DOMAIN w.colls
      <4>1. Lives(aliases[i].coll) <=> Feed!Live(aliases[i].coll)
        BY <1>10, <2>2, <3>4
      <4> QED
        BY <2>1, <2>2, <2>5, <3>1, <3>4, <4>1
    <3> QED
      BY <3>2, <3>3, <3>4
  <2>6. i \in told => i \in DOMAIN w.items
    BY <1>1 DEF ToldRight
  <2> QED
    BY <2>3, <2>4, <2>5, <2>6
<1>13. CopyAfter(w, told, revs, rows).items = Shown'.items
  <2>1. /\ CopyAfter(w, told, revs, rows).items = [i \in Items |-> CopyAfter(w, told, revs, rows).items[i]]
        /\ Shown'.items = [i \in Items |-> Shown'.items[i]]
    BY DEF CopyAfter, Shown
  <2> QED
    BY <1>12, <2>1
<1>14. /\ CopyAfter(w, told, revs, rows) =
            [revs |-> CopyAfter(w, told, revs, rows).revs, items |-> CopyAfter(w, told, revs, rows).items]
       /\ Shown' = [revs |-> Shown'.revs, items |-> Shown'.items]
  BY DEF CopyAfter, Shown
<1> QED
  BY <1>8, <1>11, <1>13, <1>14

\* A transaction whose rows are apart from those another commits.
LEMMA OthersStayOK ==
  ASSUME RowsOK, NEW locked, NEW w, WritesOK(locked, w), NEW mine, NEW u, WritesOK(mine, u),
         mine \cap locked = {}, DOMAIN u.items \cap DOMAIN w.items = {},
         records' = [c \in Collections |-> IF c \in DOMAIN w.colls THEN w.colls[c] ELSE records[c]],
         aliases' = [i \in Items |-> IF i \in DOMAIN w.items THEN w.items[i] ELSE aliases[i]]
  PROVE  WritesOK(mine, u)'
<1>1. WritesLocked(locked, w) /\ WritesLocked(mine, u) /\ WritesOnce(u)
  BY DEF WritesOK
<1>2. \A c \in mine : records'[c] = records[c] /\ (Feed!Live(c)' <=> Feed!Live(c))
  BY <1>1 DEF WritesLocked, Feed!Live
<1>3. \A i \in DOMAIN u.items : aliases'[i] = aliases[i]
  BY <1>1 DEF WritesLocked
<1>4. WritesLocked(mine, u)'
  BY <1>1, <1>2, <1>3 DEF WritesLocked
<1>5. WritesOnce(u)'
  <2>1. ASSUME NEW i \in DOMAIN u.items, NEW j \in Items, i # j, u.items[i] # None
        PROVE  u.items[i] # IF j \in DOMAIN u.items THEN u.items[j] ELSE aliases'[j]
    <3>1. u.items[i] # IF j \in DOMAIN u.items THEN u.items[j] ELSE aliases[j]
      BY <1>1, <2>1 DEF WritesOnce
    <3>2. CASE j \in DOMAIN w.items
      <4>1. aliases'[j] = w.items[j] /\ j \notin DOMAIN u.items
        BY <3>2
      <4>2. w.items[j] # None => w.items[j].coll \in locked
        BY <1>1, <3>2 DEF WritesLocked
      <4>3. u.items[i].coll \in mine
        BY <1>1, <2>1 DEF WritesLocked
      <4> QED
        BY <2>1, <4>1, <4>2, <4>3
    <3>3. CASE j \notin DOMAIN w.items
      BY <3>1, <3>3
    <3> QED
      BY <3>2, <3>3
  <2> QED
    BY <2>1 DEF WritesOnce
<1>6. PICK told : ToldRight(u, told)
  BY DEF WritesOK
<1>7. ToldRight(u, told)'
  <2>1. \A i \in DOMAIN u.items : aliases[i] # None => aliases[i].coll \in mine
    BY <1>1 DEF WritesLocked
  <2> QED
    BY <1>2, <1>3, <1>6, <2>1 DEF ToldRight, Tells
<1> QED
  BY <1>4, <1>5, <1>7 DEF WritesOK

LEMMA ClientCommits ==
  ASSUME ClientInv, NEW p \in Procs, Feed!Commit(p)
  PROVE  ClientInv'
<1>1. PICK t : t = open[p]
  OBVIOUS
<1>2. PICK w : w = t.writes
  OBVIOUS
<1>3. /\ t # None /\ open' = [open EXCEPT ![p] = None]
      /\ canonicals' = Feed!Applied(canonicals, w.events)
      /\ records' = [c \in Collections |-> IF c \in DOMAIN w.colls THEN w.colls[c] ELSE records[c]]
      /\ aliases' = [i \in Items |-> IF i \in DOMAIN w.items THEN w.items[i] ELSE aliases[i]]
      /\ reader' = IF t.key = None THEN reader ELSE [reader EXCEPT ![t.key] = t.progressed]
  BY <1>1, <1>2 DEF Feed!Commit
<1>4. /\ RowsOK /\ canonicals = Shown /\ DOMAIN open = Procs /\ DOMAIN reader = Identities
      /\ WritesOK(t.locked, w) /\ ProgressOK(t.progressed)
  BY <1>1, <1>2, <1>3 DEF ClientInv
<1>5. RowsOK'
  BY <1>3, <1>4, CommittedRows
<1>6. canonicals' = Shown'
  BY <1>3, <1>4, CommittedFeed
<1>7. open'[p] = None /\ DOMAIN open' = Procs /\ \A q \in Procs \ {p} : open'[q] = open[q]
  BY <1>3, <1>4
<1>8. RowsApart'
  BY <1>7 DEF ClientInv, RowsApart
<1>9. ASSUME NEW q \in Procs, open'[q] # None
      PROVE  WritesOK(open[q].locked, open[q].writes)' /\ ProgressOK(open[q].progressed)'
  <2>1. PICK u : u = open'[q]
    OBVIOUS
  <2>2. q # p /\ u = open[q] /\ u # None
    BY <1>7, <1>9, <2>1
  <2>3. /\ u.locked \cap t.locked = {} /\ DOMAIN u.writes.items \cap DOMAIN w.items = {}
    BY <1>1, <1>2, <1>3, <2>2 DEF ClientInv, RowsApart
  <2>4. WritesOK(u.locked, u.writes) /\ ProgressOK(u.progressed)
    BY <2>2 DEF ClientInv
  <2>5. WritesOK(u.locked, u.writes)'
    BY <1>3, <1>4, <2>3, <2>4, OthersStayOK
  <2> QED
    BY <2>1, <2>4, <2>5 DEF ProgressOK
<1>10. DOMAIN reader' = Identities /\ \A k \in Identities : ProgressOK(reader[k])'
  <2>1. \A k \in Identities : reader'[k] = reader[k] \/ reader'[k] = t.progressed
    BY <1>3, <1>4
  <2> QED
    BY <1>3, <1>4, <2>1 DEF ClientInv, ProgressOK
<1> QED
  BY <1>5, <1>6, <1>7, <1>8, <1>9, <1>10 DEF ClientInv

\* Steps that change no table: a transaction is rolled back, rows are purged.
LEMMA ClientKeeps ==
  ASSUME ClientInv, UNCHANGED <<records, aliases, canonicals>>, DOMAIN open' = Procs,
         \A p \in Procs : open'[p] = None \/ open'[p] = open[p],
         DOMAIN reader' = Identities, \A k \in Identities : reader'[k] = None \/ reader'[k] = reader[k]
  PROVE  ClientInv'
<1>1. RowsOK' /\ canonicals' = Shown'
  BY DEF ClientInv, RowsOK, Shown, Feed!Live
<1>2. RowsApart'
  BY DEF ClientInv, RowsApart
<1>3. ASSUME NEW locked, NEW w, WritesOK(locked, w) PROVE WritesOK(locked, w)'
  BY <1>3 DEF WritesOK, WritesLocked, WritesOnce, ToldRight, Feed!Live
<1>4. ASSUME NEW q \in Procs, open'[q] # None
      PROVE  WritesOK(open[q].locked, open[q].writes)' /\ ProgressOK(open[q].progressed)'
  <2>1. PICK u : u = open'[q]
    OBVIOUS
  <2>2. WritesOK(u.locked, u.writes) /\ ProgressOK(u.progressed)
    BY <1>4, <2>1 DEF ClientInv
  <2>3. WritesOK(u.locked, u.writes)'
    BY <1>3, <2>2
  <2> QED
    BY <2>1, <2>2, <2>3 DEF ProgressOK
<1> QED
  BY <1>1, <1>2, <1>4 DEF ClientInv, ProgressOK

LEMMA ClientStep ==
  ASSUME ClientInv, Feed!Next \/ UNCHANGED <<records, aliases, canonicals, reader, open>>
  PROVE  ClientInv'
<1>1. RowsOK /\ DOMAIN open = Procs /\ DOMAIN reader = Identities
  BY DEF ClientInv
<1>2. CASE UNCHANGED <<records, aliases, canonicals, reader, open>>
  BY <1>1, <1>2, ClientKeeps
<1>3. ASSUME NEW p \in Procs, NEW k \in Identities \cup {None}, NEW q \in Feed!Bodies,
             Feed!Mutate(p, k, q)
      PROVE  ClientInv'
  <2>1. PICK w \in Feed!Answer(q) :
          Feed!Begin(p, k, {q.coll}, w, None, IF k = None THEN None ELSE "mutation")
    BY <1>3 DEF Feed!Mutate
  <2>2. WritesOK({q.coll}, w) /\ ProgressOK(None)
    BY <1>1, RequestOK DEF ProgressOK
  <2> QED
    BY <2>1, <2>2, ClientOpens
<1>4. ASSUME NEW p \in Procs, NEW k \in Identities, Feed!RestoreStep(p, k)
      PROVE  ClientInv'
  <2>1. ASSUME NEW c \in Collections, NEW i \in Items, records[c] = None, aliases[i] = None,
               Feed!Begin(p, k, {c}, Feed!Chunk(c, 0, i), [coll |-> c, done |-> 1], None)
        PROVE  ClientInv'
    <3>1. WritesOK({c}, Feed!Chunk(c, 0, i))
      BY <1>1, <2>1, FirstChunkOK
    <3>2. ProgressOK([coll |-> c, done |-> 1])
      BY DEF ProgressOK
    <3> QED
      BY <2>1, <3>1, <3>2, ClientOpens
  <2>2. ASSUME NEW i \in Items, reader[k] # None, aliases[i] = None,
               Feed!Begin(p, k, {reader[k].coll}, Feed!Chunk(reader[k].coll, reader[k].done, i), None, "restore")
        PROVE  ClientInv'
    <3>1. reader[k].coll \in Collections /\ reader[k].done = 1
      BY <2>2 DEF ClientInv, ProgressOK
    <3>2. WritesOK({reader[k].coll}, Feed!Chunk(reader[k].coll, reader[k].done, i))
      BY <1>1, <2>2, <3>1, NextChunkOK
    <3>3. ProgressOK(None)
      BY DEF ProgressOK
    <3> QED
      BY <2>2, <3>2, <3>3, ClientOpens
  <2> QED
    BY <1>4, <2>1, <2>2 DEF Feed!RestoreStep
<1>5. ASSUME NEW p \in Procs, Feed!Rekey(p)
      PROVE  ClientInv'
  <2>1. Feed!Begin(p, None, Feed!Affected, Feed!RekeyWrites, None, None)
    BY <1>5 DEF Feed!Rekey
  <2>2. WritesOK(Feed!Affected, Feed!RekeyWrites) /\ ProgressOK(None)
    BY <1>1, RekeyOK DEF ProgressOK
  <2> QED
    BY <2>1, <2>2, ClientOpens
<1>6. ASSUME NEW p \in Procs, Feed!Commit(p)
      PROVE  ClientInv'
  BY <1>6, ClientCommits
<1>7. ASSUME NEW p \in Procs, Feed!Rollback(p)
      PROVE  ClientInv'
  <2>1. open' = [open EXCEPT ![p] = None] /\ UNCHANGED <<records, aliases, canonicals, reader>>
    BY <1>7 DEF Feed!Rollback
  <2> QED
    BY <1>1, <2>1, ClientKeeps
<1>8. ASSUME NEW k \in Identities, Feed!PurgeReceipt(k)
      PROVE  ClientInv'
  <2>1. UNCHANGED <<records, aliases, canonicals, reader, open>>
    BY <1>8 DEF Feed!PurgeReceipt
  <2> QED
    BY <1>1, <2>1, ClientKeeps
<1>9. ASSUME NEW k \in Identities, Feed!PurgeProgress(k)
      PROVE  ClientInv'
  <2>1. UNCHANGED <<records, aliases, canonicals, open>> /\ reader' = [reader EXCEPT ![k] = None]
    BY <1>9 DEF Feed!PurgeProgress
  <2> QED
    BY <1>1, <2>1, ClientKeeps
<1> QED
  BY <1>2, <1>3, <1>4, <1>5, <1>6, <1>7, <1>8, <1>9 DEF Feed!Next

FeedsHold ==
    /\ focus # "collections" => RecordsInv /\ CursorInv /\ DiscoveryInv /\ ReaderInv
    /\ focus = "collections" => ClientInv

(* Each feed tells of everything that was committed and of nothing else.  A   *)
(* device that pages the Vibes, covers, journeys or shelves has every          *)
(* committed record up to its cursor: a number is allocated under the scope's  *)
(* lock, so that a lower one is never committed after a higher one was read    *)
(* (vibes.py, covers.py, journeys.py, shelves.py).  A device that bootstraps   *)
(* the discovery records and then follows their changes has every record up    *)
(* to its cursor (personal_discovery.py).  A client that applied the events of *)
(* the collections holds the live ones with their items, and no medium twice,  *)
(* however puts, deletions, restore chunks and rekeys interleave               *)
(* (collection_manager.py: rows are locked before they are read, and the       *)
(* events of one transaction are one block at the feed's head).                *)
THEOREM FeedsAreComplete == PersonalSpec => []FeedsComplete
<1>1. PersonalInit => FeedsHold
  <2>1. ASSUME PersonalInit PROVE FeedsHold
    <3>1. RecordsHold /\ DiscoveryHolds
      BY <2>1, RecordsHoldInit, DiscoveryHoldsInit
    <3>2. focus # "collections" => Init /\ Discovery!Init
      BY <2>1 DEF PersonalInit
    <3>3. focus = "collections" => Feed!Init
      BY <2>1 DEF PersonalInit
    <3> QED
      BY <3>1, <3>2, <3>3, CursorBegins, ReaderBegins, ClientBegins DEF RecordsHold, DiscoveryHolds, FeedsHold
  <2> QED
    BY <2>1
<1>2. FeedsHold /\ [PersonalNext]_<<vars, focus, discoveryVars>> => FeedsHold'
  <2>1. ASSUME FeedsHold, [PersonalNext]_<<vars, focus, discoveryVars>> PROVE FeedsHold'
    <3>1. CASE focus = "records" /\ Next /\ UNCHANGED <<focus, discoveryVars>>
      <4>1. RecordsInv /\ CursorInv /\ DiscoveryInv /\ ReaderInv
        BY <2>1, <3>1 DEF FeedsHold
      <4>2. RecordsHold' /\ DiscoveryHolds'
        BY <2>1, <4>1, RecordsHoldStep, DiscoveryHoldsStep DEF RecordsHold, DiscoveryHolds
      <4>3. CursorInv'
        BY <3>1, <4>1, CursorStep
      <4>4. ReaderInv'
        BY <3>1, <4>1, ReaderStep
      <4>5. focus' = "records"
        BY <3>1
      <4> QED
        BY <4>2, <4>3, <4>4, <4>5 DEF FeedsHold, RecordsHold, DiscoveryHolds
    <3>2. CASE focus = "discovery" /\ Discovery!Next /\ UNCHANGED <<focus, vars>>
      <4>1. RecordsInv /\ CursorInv /\ DiscoveryInv /\ ReaderInv
        BY <2>1, <3>2 DEF FeedsHold
      <4>2. RecordsHold' /\ DiscoveryHolds'
        BY <2>1, <4>1, RecordsHoldStep, DiscoveryHoldsStep DEF RecordsHold, DiscoveryHolds
      <4>3. CursorInv'
        BY <3>2, <4>1, CursorStep
      <4>4. ReaderInv'
        BY <3>2, <4>1, ReaderStep
      <4>5. focus' = "discovery"
        BY <3>2
      <4> QED
        BY <4>2, <4>3, <4>4, <4>5 DEF FeedsHold, RecordsHold, DiscoveryHolds
    <3>3. CASE focus = "collections" /\ Feed!Next /\ UNCHANGED <<focus, store, db, sweep, device, acks>>
      <4>1. ClientInv' /\ focus' = "collections"
        BY <2>1, <3>3, ClientStep DEF FeedsHold
      <4> QED
        BY <4>1 DEF FeedsHold
    <3>4. CASE UNCHANGED <<vars, focus, discoveryVars>>
      <4>1. focus' = focus /\ UNCHANGED vars /\ UNCHANGED discoveryVars
        BY <3>4
      <4>2. CASE focus # "collections"
        <5>1. RecordsInv /\ CursorInv /\ DiscoveryInv /\ ReaderInv
          BY <2>1, <4>2 DEF FeedsHold
        <5>2. RecordsHold' /\ DiscoveryHolds'
          BY <2>1, <5>1, RecordsHoldStep, DiscoveryHoldsStep DEF RecordsHold, DiscoveryHolds
        <5>3. CursorInv' /\ ReaderInv'
          BY <4>1, <5>1, CursorStep, ReaderStep
        <5> QED
          BY <4>1, <4>2, <5>2, <5>3 DEF FeedsHold, RecordsHold, DiscoveryHolds
      <4>3. CASE focus = "collections"
        <5>1. UNCHANGED <<records, aliases, canonicals, reader, open>>
          BY <4>1 DEF vars, discoveryVars
        <5>2. ClientInv'
          BY <2>1, <4>3, <5>1, ClientStep DEF FeedsHold
        <5> QED
          BY <4>1, <4>3, <5>2 DEF FeedsHold
      <4> QED
        BY <4>2, <4>3
    <3> QED
      BY <2>1, <3>1, <3>2, <3>3, <3>4 DEF PersonalNext
  <2> QED
    BY <2>1
<1>3. FeedsHold => FeedsComplete
  BY ClientHoldsTables DEF FeedsHold, FeedsComplete, CursorInv, ReaderInv, Discovery!DiscoveryFeedComplete
<1> QED
  BY <1>1, <1>2, <1>3, PTL DEF PersonalSpec
===============================================================================
