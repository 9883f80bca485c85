---------------------------- MODULE CollectionFeed ----------------------------
(* The collections of one person, their items and their feed.  A mutation    *)
(* locks its idempotency key and the collections it writes, then writes, and *)
(* as its last act appends its events as one block at the feed's head, whose *)
(* row it holds to the commit.  A restore commits chunk by chunk and resumes *)
(* from its progress row; a provider rekey rewrites items of several         *)
(* collections at once.  The journal is kept as its effect: what a client    *)
(* holds that applied every event.                                           *)
EXTENDS Naturals, Sequences, FiniteSets, SequencesExt

CONSTANTS
    Collections,  \* collection IDs
    Items,        \* item IDs
    Keys,         \* idempotency keys
    Procs,        \* requests in progress
    None,
    MaxHead,      \* bound: events in the feed
    MaxRestores   \* bound: restores begun

\* The bounds are numbers, there are finitely many IDs (UUIDs), and the absence
\* of a row is not a row.
FeedBounds ==
    /\ MaxHead \in Nat /\ MaxRestores \in Nat /\ IsFiniteSet(Collections)
    /\ None \notin {"mutation", "restore"} \cup [coll : Collections, done : {1}]
                  \cup [rev : Nat, deleted : BOOLEAN] \cup [coll : Collections, medium : {"old", "new"}]

VARIABLES
    collections,  \* None or revision and tombstone
    items,        \* None or the collection and the medium of an item
    head,         \* head_seq
    client,       \* the applied feed: revisions and items of live collections
    receipts,     \* collection_mutations: what each key was answered for
    progress,     \* collection_restores: collection and chunks done, per key
    open,         \* open transactions
    restores,     \* restores begun
    effects       \* history: transactions committed under a key since its rows were purged

vars == <<collections, items, head, client, receipts, progress, open, restores, effects>>

\* A medium's provider ID before and after a rekey.
Media == {"old", "new"}
\* A restore of one collection with one item per chunk.
Chunks == Cardinality(Media)

-----------------------------------------------------------------------------
(* Requests.                                                               *)

Bodies ==
    [op : {"create", "update", "delete"}, coll : Collections, base : 0..MaxHead]
      \cup [op : {"put"}, coll : Collections, base : 0..MaxHead, item : Items, medium : Media]
      \cup [op : {"remove"}, coll : Collections, base : 0..MaxHead, item : Items]

Live(c) == collections[c] # None /\ ~collections[c].deleted
\* Base 0 stands for a request without If-Match.
Expected(q) == q.base \in {0, collections[q.coll].rev}
Bumped(c) == [collections[c] EXCEPT !.rev = @ + 1]
Holder(c, medium) == {i \in Items : items[i] = [coll |-> c, medium |-> medium]}

CollectionEvent(c, op, rev) == [kind |-> "collection", op |-> op, coll |-> c, rev |-> rev]
ItemEvent(c, i, op, medium, rev) ==
    [kind |-> "item", op |-> op, coll |-> c, item |-> i, medium |-> medium, rev |-> rev]

\* A transaction's writes: collections and items by ID, and its events in order.
Writes(cs, is, events) == [colls |-> cs, items |-> is, events |-> events]
NoWrites == Writes(<<>>, <<>>, <<>>)
One(id, value) == [x \in {id} |-> value]

\* Contract 1: a taken ID is answered with what is there, and writes nothing.
Create(q) ==
    IF collections[q.coll] # None THEN {NoWrites}
    ELSE {Writes(One(q.coll, [rev |-> 1, deleted |-> FALSE]), <<>>,
                 <<CollectionEvent(q.coll, "upsert", 1)>>)}

Update(q) ==
    IF ~Live(q.coll) \/ ~Expected(q) THEN {}
    ELSE {Writes(One(q.coll, Bumped(q.coll)), <<>>,
                 <<CollectionEvent(q.coll, "upsert", Bumped(q.coll).rev)>>)}

Delete(q) ==
    IF collections[q.coll] = None THEN {NoWrites}
    ELSE IF ~Expected(q) THEN {}
    ELSE IF ~Live(q.coll) THEN {NoWrites}
    ELSE {Writes(One(q.coll, [Bumped(q.coll) EXCEPT !.deleted = TRUE]), <<>>,
                 <<CollectionEvent(q.coll, "delete", Bumped(q.coll).rev)>>)}

\* Contract 1: an item whose medium the collection already has takes the ID of
\* the item that holds it; an ID of another collection is refused.
Placed(c, item, medium) ==
    IF Holder(c, medium) = {} THEN item ELSE CHOOSE i \in Holder(c, medium) : TRUE
Foreign(c, item) == items[item] # None /\ items[item].coll # c

Put(q) ==
    LET i == Placed(q.coll, q.item, q.medium)
    IN IF ~Live(q.coll) \/ ~Expected(q) \/ Foreign(q.coll, i) THEN {}
       ELSE {Writes(One(q.coll, Bumped(q.coll)), One(i, [coll |-> q.coll, medium |-> q.medium]),
                    <<ItemEvent(q.coll, i, "upsert", q.medium, Bumped(q.coll).rev)>>)}

Withdraw(q) ==
    IF ~Live(q.coll) \/ ~Expected(q) THEN {}
    ELSE IF items[q.item] = None \/ Foreign(q.coll, q.item) THEN {NoWrites}
    ELSE {Writes(One(q.coll, Bumped(q.coll)), One(q.item, None),
                 <<ItemEvent(q.coll, q.item, "delete", None, Bumped(q.coll).rev)>>)}

Answer(q) ==
    CASE q.op = "create" -> Create(q)
      [] q.op = "update" -> Update(q)
      [] q.op = "delete" -> Delete(q)
      [] q.op = "put"    -> Put(q)
      [] q.op = "remove" -> Withdraw(q)

\* One restore chunk: the first creates the collection, each adds the item of one
\* medium; a collection deleted meanwhile keeps its tombstone.
Chunk(c, done, i) ==
    LET medium == IF done = 0 THEN "old" ELSE "new"
        placed == Placed(c, i, medium)
    IN IF done = 0
       THEN Writes(One(c, [rev |-> 2, deleted |-> FALSE]), One(i, [coll |-> c, medium |-> medium]),
                   <<CollectionEvent(c, "upsert", 2), ItemEvent(c, i, "upsert", medium, 2)>>)
       ELSE IF ~Live(c) THEN NoWrites
       ELSE Writes(One(c, Bumped(c)), One(placed, [coll |-> c, medium |-> medium]),
                   <<ItemEvent(c, placed, "upsert", medium, Bumped(c).rev)>>)

-----------------------------------------------------------------------------
(* The rekey of all collections that hold the old ID.  An item whose new ID  *)
(* the collection already has is the duplicate and is deleted.               *)

Affected == {c \in Collections : Holder(c, "old") # {}}
Mover(c) == CHOOSE i \in Items : i \in Holder(c, "old")
Merges(c) == Holder(c, "new") # {}

RekeyEvent(c) ==
    IF Merges(c) THEN ItemEvent(c, Mover(c), "delete", None, Bumped(c).rev)
    ELSE ItemEvent(c, Mover(c), "upsert", "new", Bumped(c).rev)

RekeyWrites ==
    LET living == {c \in Affected : Live(c)}
    IN Writes([c \in living |-> Bumped(c)],
              [i \in {Mover(c) : c \in Affected} |->
                 IF Merges(items[i].coll) THEN None ELSE [items[i] EXCEPT !.medium = "new"]],
              SetToSeq({RekeyEvent(c) : c \in living}))

-----------------------------------------------------------------------------
(* Transactions.                                                           *)

KeyNeverLocked(k) == TRUE
KeyFree(k) == k = None \/ \A p \in Procs : open[p] # None => open[p].key # k
RowsFree(cs, is) ==
    \A p \in Procs : open[p] # None =>
      open[p].locked \cap cs = {} /\ DOMAIN open[p].writes.items \cap is = {}

Begin(p, k, cs, writes, progressed, receipt) ==
    /\ open[p] = None /\ KeyFree(k) /\ RowsFree(cs, DOMAIN writes.items)
    /\ open' = [open EXCEPT ![p] = [key |-> k, locked |-> cs, writes |-> writes,
                                    progressed |-> progressed, receipt |-> receipt]]
    /\ UNCHANGED <<collections, items, head, client, receipts, progress, effects>>

\* A request whose key has no receipt and no unfinished restore.
Mutate(p, k, q) ==
    /\ open[p] = None
    /\ k # None => receipts[k] = None /\ progress[k] = None
    /\ \E writes \in Answer(q) : Begin(p, k, {q.coll}, writes, None, IF k = None THEN None ELSE "mutation")
    /\ UNCHANGED restores

\* The next chunk of a keyed restore, by the request that began it or by a retry.
RestoreStep(p, k) ==
    /\ k # None /\ receipts[k] = None
    /\ \/ /\ progress[k] = None /\ restores < MaxRestores
          /\ \E c \in Collections, i \in Items :
               /\ collections[c] = None /\ items[i] = None
               /\ Begin(p, k, {c}, Chunk(c, 0, i), [coll |-> c, done |-> 1], None)
          /\ restores' = restores + 1
       \/ /\ progress[k] # None
          /\ \E i \in Items :
               /\ items[i] = None
               /\ Begin(p, k, {progress[k].coll}, Chunk(progress[k].coll, progress[k].done, i),
                        None, "restore")
          /\ UNCHANGED restores

Rekey(p) ==
    /\ Affected # {}
    /\ Begin(p, None, Affected, RekeyWrites, None, None)
    /\ UNCHANGED restores

\* What a client does with one event.
ClientApply(copy, e) ==
    IF e.kind = "collection"
    THEN [revs |-> [copy.revs EXCEPT ![e.coll] = IF e.op = "upsert" THEN e.rev ELSE None],
          items |-> [i \in Items |->
             IF e.op = "delete" /\ copy.items[i] # None /\ copy.items[i].coll = e.coll
             THEN None ELSE copy.items[i]]]
    ELSE [revs |-> [copy.revs EXCEPT ![e.coll] = e.rev],
          items |-> [copy.items EXCEPT ![e.item] =
             IF e.op = "delete" THEN None ELSE [coll |-> e.coll, medium |-> e.medium]]]

\* What a client that held copy holds once it has applied a block of events.
Applied(copy, events) ==
    LET after[n \in 0..Len(events)] ==
          IF n = 0 THEN copy ELSE ClientApply(after[n - 1], events[n])
    IN after[Len(events)]

\* The block of events at the head, then the commit; progress, receipt and
\* events are all in the one transaction.
Commit(p) ==
    /\ open[p] # None
    /\ LET t == open[p]
           events == t.writes.events
       IN /\ head + Len(events) <= MaxHead
          /\ head' = head + Len(events)
          /\ client' = Applied(client, events)
          /\ collections' = [c \in Collections |->
               IF c \in DOMAIN t.writes.colls THEN t.writes.colls[c] ELSE collections[c]]
          /\ items' = [i \in Items |->
               IF i \in DOMAIN t.writes.items THEN t.writes.items[i] ELSE items[i]]
          /\ progress' = IF t.key = None THEN progress ELSE [progress EXCEPT ![t.key] = t.progressed]
          /\ receipts' = IF t.key = None THEN receipts ELSE [receipts EXCEPT ![t.key] = t.receipt]
          /\ effects' = IF t.key = None \/ t.writes = NoWrites THEN effects
                        ELSE [effects EXCEPT ![t.key] = @ + 1]
    /\ open' = [open EXCEPT ![p] = None]
    /\ UNCHANGED restores

\* A lock timeout, an error or a lost connection.
Rollback(p) ==
    /\ open[p] # None
    /\ open' = [open EXCEPT ![p] = None]
    /\ UNCHANGED <<collections, items, head, client, receipts, progress, restores, effects>>

\* Receipts are purged after 30 days without the key's lock: they are never
\* updated, and a repetition that comes later applies again.
PurgeReceipt(k) ==
    /\ receipts[k] # None
    /\ receipts' = [receipts EXCEPT ![k] = None]
    /\ effects' = [effects EXCEPT ![k] = 0]
    /\ UNCHANGED <<collections, items, head, client, progress, open, restores>>

\* Progress that has not moved for 7 days, under the key's lock.
PurgeProgress(k) ==
    /\ progress[k] # None /\ KeyFree(k)
    /\ progress' = [progress EXCEPT ![k] = None]
    /\ effects' = [effects EXCEPT ![k] = 0]
    /\ UNCHANGED <<collections, items, head, client, receipts, open, restores>>

Init ==
    /\ collections = [c \in Collections |-> None] /\ items = [i \in Items |-> None]
    /\ head = 0
    /\ client = [revs |-> [c \in Collections |-> None], items |-> [i \in Items |-> None]]
    /\ receipts = [k \in Keys |-> None] /\ progress = [k \in Keys |-> None]
    /\ open = [p \in Procs |-> None]
    /\ restores = 0 /\ effects = [k \in Keys |-> 0]

Next ==
    \/ \E p \in Procs :
         \/ \E k \in Keys \cup {None}, q \in Bodies : Mutate(p, k, q)
         \/ \E k \in Keys : RestoreStep(p, k)
         \/ Rekey(p)
         \/ Commit(p)
         \/ Rollback(p)
    \/ \E k \in Keys : PurgeReceipt(k) \/ PurgeProgress(k)

Spec == Init /\ [][Next]_vars

-----------------------------------------------------------------------------
(* Properties.                                                             *)

\* A client that applied the whole feed holds exactly the live collections, at
\* their revisions, with their items: no chunk, merge, remapped item or write to
\* a deleted collection changes a row that the feed does not tell.
FeedIsTables ==
    /\ \A c \in Collections : client.revs[c] = IF Live(c) THEN collections[c].rev ELSE None
    /\ \A i \in Items :
         client.items[i] = IF items[i] # None /\ Live(items[i].coll) THEN items[i] ELSE None

\* No collection holds one medium twice, whatever puts, restore chunks and rekeys
\* were under way at once: the unique index never has to refuse one of them.
OneMembership == \A c \in Collections, m \in Media : Cardinality(Holder(c, m)) <= 1

\* While a key's receipt or progress is kept, whatever is sent under it is
\* applied once: a mutation as a whole, a restore chunk by chunk and to the end.
KeyedOnce ==
    \A k \in Keys :
      /\ effects[k] <= Chunks
      /\ receipts[k] = "mutation" => effects[k] <= 1
      /\ progress[k] # None => effects[k] = progress[k].done /\ receipts[k] = None

=============================================================================
