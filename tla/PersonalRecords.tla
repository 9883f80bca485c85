--------------------------- MODULE PersonalRecords ---------------------------
(* The personal records of one person on one catalogue: Vibes, covers,      *)
(* journeys and shelves.  Each store has its own tables but the same         *)
(* protocol: a mutation takes the scope's row lock, looks its receipt up,    *)
(* applies itself, allocates a sequence number for what it writes and        *)
(* commits data and receipt together; a device pages through the records     *)
(* above its cursor without a lock.  A behaviour is about one store, chosen  *)
(* in Init.  A provider rekey rewrites the IDs the records name.  Receipts   *)
(* are purged 30 days, unused cover images 2 days after they were written:   *)
(* any time may pass between two steps, so a purge may take any of them.     *)
EXTENDS Naturals, Sequences, FiniteSets

CONSTANTS
    Stores,        \* the stores explored
    Ids,           \* record IDs: Vibes, covers, journeys, shelf periods
    Songs,         \* the provider IDs devices send journeys with
    Requests,      \* mutation IDs
    Images,        \* cover images, named by their content
    Procs,         \* server processes
    None, Gone,    \* no value; the value of a tombstone
    MaxSeq,        \* bound: sequence numbers allocated (one more for shelves)
    MaxImages,     \* images per scope (MAX_IMAGES_PER_SCOPE)
    PageLimit      \* records per page of changes

ASSUME StoresAssumption == Stores \subseteq {"vibes", "covers", "journeys", "shelves"}
ASSUME BoundsAssumption == MaxSeq \in Nat /\ MaxImages \in Nat /\ PageLimit \in Nat \ {0}

VARIABLES
    store,     \* the store this behaviour is about
    db,        \* its committed tables: records, receipts and images
    open,      \* per process: its open transaction, with what it will commit
    sequence,  \* the last number the store's sequence gave out, rolled back or not
    sweep,     \* images the retention task selected before it took the lock
    device,    \* a reading device: its cursor and its copy of the records
    acks,      \* history: mutations that committed, per record with revisions
    applied    \* history: times a mutation ID wrote since its receipt was last purged

vars == <<store, db, open, sequence, sweep, device, acks, applied>>

\* Provider IDs before and after a rekey.
Names == {"old", "new"}
ASSUME SongsAssumption == Songs \subseteq Names
Keys == Ids \cup {"order", "evidence"}
\* Removing, adding again and restoring a period takes four writes.
SeqBound == IF store = "shelves" THEN MaxSeq + 1 ELSE MaxSeq
Revisions == 0..SeqBound - 1
\* Records written on a base revision.
Counted == IF store = "shelves" THEN {"order"} ELSE Ids

\* The contents of a journey, of a shelf period and of the shelf's arrangement.  A
\* journey's entry is "dropped" when the body does not hold it; its place names the
\* entry or none.
Sessions ==
    [song : Names, state : {"pending", "played", "dropped"}, stateAt : Nat,
     place : {"entry", "none"}, playedAt : Nat, credits : SUBSET Nat]
Periods == [entity : Names, aliases : SUBSET Ids, deleted : BOOLEAN, position : Nat]
Places == UNION {[members -> Nat] : members \in SUBSET Ids}

\* A record, a receipt and an open transaction are there or they are None, and a
\* tombstone, an ID and an image are told apart.
Contents == Names \cup Images \cup {Gone} \cup Sessions \cup Periods \cup Places \cup Nat
Records == [rev : Nat, value : Contents, seq : Nat]
Receipts ==
    [op : {"put", "delete", "upsert", "add", "remove", "restore", "order", "evidence"},
     name : Contents \cup {None}]
ASSUME ValuesAssumption ==
    /\ IsFiniteSet(Ids) /\ Ids \cap {"order", "evidence"} = {}
    /\ Names \cap Images = {} /\ Gone \notin Images
    /\ None \notin Names \cup Keys \cup Records \cup Receipts

-----------------------------------------------------------------------------
(* Request bodies the validators accept, with times from 1..2.              *)

VibeBodies ==
    [op : {"put"}, key : Ids, base : Revisions, value : Names]
      \cup [op : {"delete"}, key : Ids, base : Revisions]

CoverBodies ==
    [op : {"put"}, key : Ids, base : Revisions, value : Names \cup Images]
      \cup [op : {"delete"}, key : Ids, base : Revisions]

\* A journey as a device sends it that played its entry, put it back or dropped it
\* at time t: the place is known by its time, a credit by when it was heard.
Session(song, state, t) ==
    [song |-> song, state |-> state, stateAt |-> t,
     place |-> IF state = "dropped" THEN "none" ELSE "entry", playedAt |-> t,
     credits |-> IF state = "played" THEN {t} ELSE {}]

JourneyBodies ==
    [op : {"upsert"}, key : Ids, base : Revisions,
     value : {Session(song, state, t) :
                song \in Songs, state \in {"pending", "played", "dropped"}, t \in 1..2}]
      \cup [op : {"delete"}, key : Ids, base : Revisions]

ShelfBodies ==
    [op : {"add"}, key : Ids, entity : Names]
      \cup [op : {"remove", "restore"}, key : Ids]
      \cup [op : {"order"}, base : Revisions, first : Ids]
      \cup [op : {"evidence"}, at : 1..2]

Bodies ==
    CASE store = "vibes"    -> VibeBodies
      [] store = "covers"   -> CoverBodies
      [] store = "journeys" -> JourneyBodies
      [] store = "shelves"  -> ShelfBodies

-----------------------------------------------------------------------------
(* What a mutation does to the records: the set of its one answer with       *)
(* status 200, [key, rev, value] written or None, or {} when it is refused.  *)

Revision(key) == IF db.records[key] = None THEN 0 ELSE db.records[key].rev
Value(key) == IF db.records[key] = None THEN Gone ELSE db.records[key].value
Put(key, rev, value) == {[key |-> key, rev |-> rev, value |-> value]}

\* Mutant: the base revision is not compared.
ApplyVibeUnseen(b) ==
    Put(b.key, b.base + 1, IF b.op = "put" THEN b.value ELSE Gone)

ApplyVibe(b) ==
    IF b.base # Revision(b.key) THEN {}
    ELSE Put(b.key, b.base + 1, IF b.op = "put" THEN b.value ELSE Gone)

ApplyCover(b) ==
    IF b.base # Revision(b.key) THEN {}
    ELSE IF b.op = "delete" THEN Put(b.key, b.base + 1, Gone)
    ELSE IF b.value \in Images /\ b.value \notin db.images THEN {}
    ELSE Put(b.key, b.base + 1, b.value)

\* The incoming body, with the stored copy's newer entry state, and its newer place
\* unless that names an entry the body no longer holds.
MergeJourney(stored, incoming) ==
    LET kept == /\ stored.state # "dropped" /\ incoming.state # "dropped"
                /\ stored.state # incoming.state /\ stored.stateAt > incoming.stateAt
        placed == /\ stored.playedAt > incoming.playedAt
                  /\ stored.place = "none" \/ incoming.state # "dropped"
    IN [incoming EXCEPT
          !.state    = IF kept THEN stored.state ELSE @,
          !.stateAt  = IF kept THEN stored.stateAt ELSE @,
          !.place    = IF placed THEN stored.place ELSE @,
          !.playedAt = IF placed THEN stored.playedAt ELSE @]

\* Mutant: the incoming credits replace the stored ones.
ReplaceCredits(stored, incoming) == incoming

MergeCredits(stored, incoming) == stored \cup incoming

\* Over a deleted journey an upsert starts afresh.
ApplyJourney(b) ==
    IF b.base # Revision(b.key) THEN {}
    ELSE IF b.op = "delete" THEN Put(b.key, b.base + 1, Gone)
    ELSE IF Value(b.key) = Gone THEN Put(b.key, b.base + 1, b.value)
    ELSE Put(b.key, b.base + 1,
             [MergeJourney(Value(b.key), b.value) EXCEPT
                !.credits = MergeCredits(Value(b.key).credits, b.value.credits)])

Members == {i \in Ids : db.records[i] # None}
Live == {i \in Members : ~Value(i).deleted}
Period(id) == {i \in Members : i = id \/ id \in Value(i).aliases}
NextPosition == Cardinality(Members)

AddMember(b) ==
    LET same == {i \in Live : Value(i).entity = b.entity}
    IN IF Period(b.key) # {} THEN {None}
       ELSE IF same # {}
            THEN UNION {Put(i, 0, [Value(i) EXCEPT !.aliases = @ \cup {b.key}]) : i \in same}
       ELSE Put(b.key, 0, [entity |-> b.entity, aliases |-> {}, deleted |-> FALSE,
                           position |-> NextPosition])

RemoveMember(b) ==
    UNION {Put(i, 0, [Value(i) EXCEPT !.deleted = TRUE]) : i \in Period(b.key)}

\* Mutant: a restore does not look for a live period.
RestoreAlways(b) ==
    UNION {Put(i, 0, [Value(i) EXCEPT !.deleted = FALSE]) : i \in Period(b.key)}

RestoreMember(b) ==
    UNION {Put(i, 0, IF \E j \in Live \ {i} : Value(j).entity = Value(i).entity
                     THEN Value(i) ELSE [Value(i) EXCEPT !.deleted = FALSE])
             : i \in Period(b.key)}

\* The place of each live member: the requested period (known by its alias too, and
\* skipped when not live) comes first, then the others by position.
Arranged(first) ==
    LET asked == Live \cap Period(first)
        Before(i, j) == \/ i \in asked /\ j \notin asked
                        \/ (i \in asked) = (j \in asked) /\ Value(i).position < Value(j).position
    IN [i \in Live |-> Cardinality({j \in Live : Before(j, i)})]

ApplyShelf(b) ==
    CASE b.op = "add" -> AddMember(b)
      [] b.op = "remove" -> RemoveMember(b)
      [] b.op = "restore" -> RestoreMember(b)
      [] b.op = "order" ->
           IF b.base # Revision("order") THEN {}
           ELSE Put("order", b.base + 1, Arranged(b.first))
      [] b.op = "evidence" ->
           IF db.records["evidence"] = None \/ b.at > Value("evidence")
           THEN Put("evidence", 0, b.at) ELSE {None}

Apply(b) ==
    CASE store = "vibes"    -> ApplyVibe(b)
      [] store = "covers"   -> ApplyCover(b)
      [] store = "journeys" -> ApplyJourney(b)
      [] store = "shelves"  -> ApplyShelf(b)

-----------------------------------------------------------------------------
(* Transactions.  Every writer takes the scope's lock before it reads what   *)
(* it decides on, and holds it until it commits or its connection is lost.   *)

\* Mutant: writers do not wait for each other.
LockNotTaken == TRUE

Unlocked == \A p \in Procs : open[p] = None

\* p has done its work under the lock and is about to commit new.
Begin(p, new, work) ==
    /\ open[p] = None
    /\ open' = [open EXCEPT ![p] = [db |-> new, work |-> work]]

Written(put) ==
    [db.records EXCEPT ![put.key] = [rev |-> put.rev, value |-> put.value, seq |-> sequence + 1]]

\* The provider ID that record k names with this value: the song, the album.  The
\* arrangement names periods, and the evidence here no ID.
Name(k, value) ==
    IF k \notin Ids \/ value = Gone THEN None
    ELSE CASE store = "journeys" -> value.song
           [] store = "shelves"  -> value.entity
           [] OTHER              -> value

Renamed(value) ==
    CASE store = "journeys" -> [value EXCEPT !.song = "new"]
      [] store = "shelves"  -> [value EXCEPT !.entity = "new"]
      [] OTHER              -> "new"

\* A mutation without a receipt that is not refused; its receipt is written with
\* it.  One with a receipt is answered from it, or refused when its body is
\* another, and changes nothing.
Mutate(p, r, b) ==
    /\ Unlocked /\ db.receipts[r] = None
    /\ \E put \in Apply(b) :
         LET written == put # None
             receipt == [op |-> b.op, name |-> IF written THEN Name(put.key, put.value) ELSE None]
         IN /\ written => sequence < SeqBound
            /\ sequence' = IF written THEN sequence + 1 ELSE sequence
            /\ Begin(p, [db EXCEPT !.receipts[r] = receipt,
                                   !.records = IF written THEN Written(put) ELSE @],
                     [kind |-> "mutation", id |-> r, key |-> IF written THEN put.key ELSE None])
    /\ UNCHANGED <<store, db, sweep, device, acks, applied>>

\* An upload of new bytes; the same bytes again only restart their grace period.
StoreImage(p, i) ==
    /\ store = "covers" /\ Unlocked
    /\ i \notin db.images /\ Cardinality(db.images) < MaxImages
    /\ Begin(p, [db EXCEPT !.images = @ \cup {i}], [kind |-> "image"])
    /\ UNCHANGED <<store, db, sequence, sweep, device, acks, applied>>

\* A provider rekey rewrites each record that names an old ID under a new
\* sequence number and its old revision, and the answers the receipts keep.
Rekey(p) ==
    LET touched == {k \in Keys : Name(k, Value(k)) = "old"}
        answers == {r \in Requests : db.receipts[r] # None /\ db.receipts[r].name = "old"}
    IN /\ Unlocked /\ touched \cup answers # {}
       /\ sequence + Cardinality(touched) <= SeqBound
       /\ \E number \in [touched -> sequence + 1..sequence + Cardinality(touched)] :
            /\ \A j, k \in touched : j # k => number[j] # number[k]
            /\ Begin(p, [db EXCEPT
                  !.records = [k \in Keys |-> IF k \in touched
                                 THEN [db.records[k] EXCEPT !.value = Renamed(@), !.seq = number[k]]
                                 ELSE db.records[k]],
                  !.receipts = [r \in Requests |-> IF r \in answers
                                 THEN [db.receipts[r] EXCEPT !.name = "new"] ELSE db.receipts[r]]],
                     [kind |-> "rekey"])
       /\ sequence' = sequence + Cardinality(touched)
       /\ UNCHANGED <<store, db, sweep, device, acks, applied>>

\* A batch of the receipts past their retention, oldest first.
PurgeReceipts(p, batch) ==
    /\ Unlocked /\ batch # {}
    /\ \A r \in batch : db.receipts[r] # None
    /\ Begin(p, [db EXCEPT !.receipts = [r \in Requests |-> IF r \in batch THEN None ELSE @[r]]],
             [kind |-> "purge", ids |-> batch])
    /\ UNCHANGED <<store, db, sequence, sweep, device, acks, applied>>

\* Stored, and not the photo of a live cover.
Unused(i) == i \in db.images /\ \A k \in Ids : Value(k) # i

SelectImages ==
    /\ store = "covers" /\ sweep = {}
    /\ sweep' = {i \in Images : Unused(i)}
    /\ UNCHANGED <<store, db, open, sequence, device, acks, applied>>

\* Mutant: the candidates are not checked again.
PurgeSelected(p) ==
    /\ sweep # {} /\ Unlocked
    /\ Begin(p, [db EXCEPT !.images = @ \ sweep], [kind |-> "images"])
    /\ sweep' = {}
    /\ UNCHANGED <<store, db, sequence, device, acks, applied>>

\* The candidates are checked again under the lock a cover write takes.
PurgeImages(p) ==
    /\ sweep # {} /\ Unlocked
    /\ Begin(p, [db EXCEPT !.images = @ \ {i \in sweep : Unused(i)}],
             [kind |-> "images"])
    /\ sweep' = {}
    /\ UNCHANGED <<store, db, sequence, device, acks, applied>>

Commit(p) ==
    /\ open[p] # None
    /\ LET work == open[p].work
       IN /\ acks' = IF work.kind = "mutation" /\ work.key \in Counted
                     THEN [acks EXCEPT ![work.key] = @ + 1] ELSE acks
          /\ applied' = CASE work.kind = "mutation" /\ work.key # None -> [applied EXCEPT ![work.id] = @ + 1]
                          [] work.kind = "purge" -> [r \in Requests |-> IF r \in work.ids THEN 0 ELSE applied[r]]
                          [] OTHER -> applied
    /\ db' = open[p].db
    /\ open' = [open EXCEPT ![p] = None]
    /\ UNCHANGED <<store, sequence, sweep, device>>

\* An error or a lost connection: nothing is kept, but sequence numbers are spent.
Rollback(p) ==
    /\ open[p] # None
    /\ open' = [open EXCEPT ![p] = None]
    /\ UNCHANGED <<store, db, sequence, sweep, device, acks, applied>>

-----------------------------------------------------------------------------
(* The reading device.                                                     *)

Above(cursor) == {k \in Keys : db.records[k] # None /\ db.records[k].seq > cursor}

\* The first PageLimit committed records above the cursor, in sequence order.
ReadPage ==
    LET page == {k \in Above(device.cursor) :
                   Cardinality({j \in Above(device.cursor) :
                                  db.records[j].seq < db.records[k].seq}) < PageLimit}
    IN /\ page # {}
       /\ device' = [cursor |-> db.records[CHOOSE k \in page :
                                  \A j \in page : db.records[j].seq <= db.records[k].seq].seq,
                     copy |-> [k \in Keys |-> IF k \in page THEN db.records[k] ELSE device.copy[k]]]
       /\ UNCHANGED <<store, db, open, sequence, sweep, acks, applied>>

-----------------------------------------------------------------------------

NoRecords == [k \in Keys |-> None]

Init ==
    /\ store \in Stores
    /\ db = [records |-> NoRecords, receipts |-> [r \in Requests |-> None],
             images |-> {}]
    /\ open = [p \in Procs |-> None]
    /\ sequence = 0 /\ sweep = {}
    /\ device = [cursor |-> 0, copy |-> NoRecords]
    /\ acks = [k \in Keys |-> 0] /\ applied = [r \in Requests |-> 0]

Next ==
    \/ \E p \in Procs :
         \/ Unlocked /\ \E r \in Requests, b \in Bodies : Mutate(p, r, b)
         \/ \E i \in Images : StoreImage(p, i)
         \/ Rekey(p)
         \/ \E batch \in SUBSET Requests : PurgeReceipts(p, batch)
         \/ PurgeImages(p)
         \/ Commit(p)
         \/ Rollback(p)
    \/ SelectImages
    \/ ReadPage

Spec == Init /\ [][Next]_vars

-----------------------------------------------------------------------------
(* Properties.                                                             *)

\* A device that pages forward by its cursor misses no record: whatever was
\* committed with a number up to its cursor is in its copy, although numbers are
\* given out before they commit, spent by rollbacks and given anew by a rekey.
FeedComplete ==
    \A k \in Keys :
      db.records[k] # None /\ db.records[k].seq <= device.cursor
      => device.copy[k] = db.records[k]

\* Each write that was acknowledged is in its record's history: of two devices
\* that write on one revision at the same time only one is acknowledged, and a
\* repeated mutation is applied once for as long as its receipt is kept.
NoLostUpdate ==
    /\ \A k \in Counted : Revision(k) = acks[k]
    /\ \A r \in Requests : applied[r] <= 1

\* A cover never names a photo that is not stored, whatever the retention task
\* selected before the cover was written.
PhotosStored == store = "covers" => \A k \in Ids : Value(k) \in Images => Value(k) \in db.images

\* While a journey lives, no write loses a listening credit, none from a device
\* that was away puts back an older state of an entry it still holds, and an older
\* place comes back only when the newer one names an entry that is no longer there.
KeepsNewest ==
    store = "journeys" =>
      \A k \in Ids :
        Value(k) # Gone /\ Value(k)' # Gone =>
          /\ Value(k).credits \subseteq Value(k)'.credits
          /\ \/ Value(k).playedAt <= Value(k)'.playedAt
             \/ Value(k).place = "entry" /\ Value(k)'.state = "dropped"
          /\ \/ Value(k).state = Value(k)'.state
             \/ "dropped" \in {Value(k).state, Value(k)'.state}
             \/ Value(k).stateAt <= Value(k)'.stateAt
JourneysKeepNewest == [][KeepsNewest]_vars

Restoring == \E r \in Requests :
               /\ db'.receipts[r] # db.receipts[r] /\ db'.receipts[r] # None
               /\ db'.receipts[r].op = "restore"

TwoLivePeriods(e) == \E i, j \in Live : i # j /\ Value(i).entity = e /\ Value(j).entity = e

\* A removed shelf period comes back only by a restore, never by a repeated or
\* delayed add, and an album or artist has one live period unless a rekey maps
\* two onto one ID.
KeepsPeriods ==
    store = "shelves" =>
      /\ \A i \in Members : Value(i).deleted /\ ~Value(i)'.deleted => Restoring
      /\ \A e \in Names :
           TwoLivePeriods(e)' /\ ~TwoLivePeriods(e)
           => \E i \in Members : Value(i).entity # Value(i)'.entity
ShelfPeriods == [][KeepsPeriods]_vars

=============================================================================
