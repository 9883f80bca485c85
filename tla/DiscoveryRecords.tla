--------------------------- MODULE DiscoveryRecords ---------------------------
(* The discovery records of one person: saved albums ("wants") that devices  *)
(* create offline under IDs of their own and that a canonical identity       *)
(* unites, and introductions, whose provenance never changes.  Mutations and *)
(* pages all take the scope's row lock, which also holds the feed's head, so *)
(* each is one step.  Unlike the stores of PersonalRecords a write names the *)
(* fields it changes: it is refused only for a field changed after its base. *)
EXTENDS Naturals, FiniteSets

CONSTANTS
    Wants,       \* IDs devices give to their wants
    Intros,      \* IDs of introductions
    Identities,  \* canonical keys of albums
    Notes,       \* values of the other fields
    Mutations,   \* mutation IDs
    Nil,         \* no value
    MaxHead,     \* bound: numbers of the feed
    FeedLimit    \* records per page

\* What the constants must satisfy.
HeadAssumption == MaxHead \in Nat /\ FeedLimit \in Nat \ {0}

VARIABLES
    records,   \* discovery_records: revision, deleted, fields, fieldRevisions, seq
    aliases,   \* discovery_aliases: the want a duplicate ID stands for
    canonicals,\* discovery_canonical: the first want with an identity
    receipts,  \* discovery_receipts: the base of the mutation an ID was answered for
    head,      \* the scope's head
    reader     \* a device: bootstrapping or following, its cursor, ceiling and copy

vars == <<records, aliases, canonicals, receipts, head, reader>>

RecordIds == Wants \cup Intros
Fields == {"key", "note"}

\* An upsert sends the fields it changes; a want's key may come with them.
Bodies ==
    [op : {"upsert"}, id : Wants, base : 0..MaxHead, key : Identities \cup {Nil}, note : Notes \cup {Nil}]
      \cup [op : {"upsert"}, id : Intros, base : 0..MaxHead, key : {Nil}, note : Notes]
      \cup [op : {"delete", "restore"}, id : Wants, base : 0..MaxHead, key : {Nil}, note : {Nil}]

\* A record is there or it is Nil.
Entries ==
    [rev : Nat, seq : Nat, deleted : BOOLEAN, fields : [Fields -> Identities \cup Notes \cup {Nil}],
     changed : [Fields -> Nat]]
NilAssumption == Nil \notin Wants \cup Entries

Blank == [rev |-> 0, deleted |-> FALSE, seq |-> 0,
          fields |-> [f \in Fields |-> Nil], changed |-> [f \in Fields |-> 0]]
Stored(id) == IF records[id] = Nil THEN Blank ELSE records[id]
Sent(b) == {f \in Fields : b[f] # Nil}

-----------------------------------------------------------------------------

\* The want a mutation is about: through its alias, then through its identity.
Named(b) == IF b.id \in Wants /\ aliases[b.id] # Nil THEN aliases[b.id] ELSE b.id
\* Mutant: only a new want is compared with the first of its identity.
IsDuplicateWhenNew(b) ==
    b.key # Nil /\ canonicals[b.key] \notin {Nil, Named(b)} /\ records[Named(b)] = Nil

IsDuplicate(b) == b.key # Nil /\ canonicals[b.key] \notin {Nil, Named(b)}
Target(b) == IF IsDuplicate(b) THEN canonicals[b.key] ELSE Named(b)

\* Mutant: conflicts are looked up under the ID that was sent.
ConflictsOfSent(b) ==
    {f \in Sent(b) : Stored(b.id).changed[f] > b.base /\ Stored(b.id).fields[f] # b[f]}

Conflicts(b) ==
    {f \in Sent(b) : Stored(Target(b)).changed[f] > b.base /\ Stored(Target(b)).fields[f] # b[f]}

\* Two live wants of one album: the device has to resolve that itself.
DuplicateSave(b) == IsDuplicate(b) /\ records[Named(b)] # Nil /\ ~Stored(Named(b)).deleted

\* Another identity for a want that has one, or another origin of an introduction.
IdentityConflict(b) ==
    LET old == Stored(Target(b)).fields
    IN \/ b.id \in Intros /\ \E f \in Sent(b) : old[f] \notin {Nil, b[f]}
       \/ b.key # Nil /\ old.key \notin {Nil, b.key}

RevisionConflict(b) ==
    LET rev == Stored(Target(b)).rev
    IN b.base > rev \/ (b.op = "restore" /\ b.base # rev)

Refused(b) ==
    \/ DuplicateSave(b)
    \/ IdentityConflict(b)
    \/ RevisionConflict(b)
    \/ b.op = "upsert" /\ Stored(Target(b)).deleted
    \/ b.op = "upsert" /\ Conflicts(b) # {} /\ ~IsDuplicate(b)

\* A duplicate save adds only the fields the first save has not.
Updated(b) ==
    LET old == Stored(Target(b))
        takes == {f \in Sent(b) : ~(IsDuplicate(b) /\ old.fields[f] # Nil)}
    IN [rev |-> old.rev + 1, seq |-> head + 1,
        deleted |-> IF b.op = "upsert" THEN old.deleted ELSE b.op = "delete",
        fields |-> [f \in Fields |-> IF f \in takes THEN b[f] ELSE old.fields[f]],
        changed |-> [f \in Fields |-> IF f \in takes THEN old.rev + 1 ELSE old.changed[f]]]

Write(b) ==
    /\ head < MaxHead /\ head' = head + 1
    /\ records' = [records EXCEPT ![Target(b)] = Updated(b)]
    /\ canonicals' = IF b.key # Nil /\ canonicals[b.key] = Nil
                     THEN [canonicals EXCEPT ![b.key] = Target(b)] ELSE canonicals
    /\ aliases' = IF IsDuplicate(b) /\ aliases[b.id] = Nil
                  THEN [aliases EXCEPT ![b.id] = Target(b)] ELSE aliases

\* A mutation ID is answered once; a repetition gets the same answer, refusals
\* included, and changes nothing.
Mutate(m, b) ==
    /\ receipts[m] = Nil
    /\ receipts' = [receipts EXCEPT ![m] = b.base]
    /\ \/ Refused(b) /\ UNCHANGED <<records, aliases, canonicals, head>>
       \/ ~Refused(b) /\ Write(b)
    /\ UNCHANGED reader

-----------------------------------------------------------------------------

Above(cursor, ceiling) ==
    {i \in RecordIds : records[i] # Nil /\ records[i].seq > cursor /\ records[i].seq <= ceiling}

Page(cursor, ceiling) ==
    {i \in Above(cursor, ceiling) :
       Cardinality({j \in Above(cursor, ceiling) : records[j].seq < records[i].seq}) < FeedLimit}

\* Mutant: the next page starts at the ceiling.
AdvancedToCeiling(cursor, ceiling) == ceiling

\* The page's last number when there is more, the ceiling when there is not.
Advanced(cursor, ceiling) ==
    IF Page(cursor, ceiling) = Above(cursor, ceiling) THEN ceiling
    ELSE CHOOSE s \in cursor + 1..ceiling :
           /\ \E i \in Page(cursor, ceiling) : records[i].seq = s
           /\ \A i \in Page(cursor, ceiling) : records[i].seq <= s

\* The first page of a bootstrap fixes the ceiling at the head; the device
\* follows the changes from there once it has read all of it.
Read ==
    LET ceiling == IF reader.phase = "bootstrap" /\ reader.cursor > 0 THEN reader.ceiling ELSE head
        cursor == Advanced(reader.cursor, ceiling)
    IN /\ cursor > reader.cursor
       /\ reader' = [phase |-> IF cursor = ceiling THEN "following" ELSE reader.phase,
                     cursor |-> cursor, ceiling |-> ceiling,
                     copy |-> [i \in RecordIds |-> IF i \in Page(reader.cursor, ceiling)
                                                   THEN records[i] ELSE reader.copy[i]]]
       /\ UNCHANGED <<records, aliases, canonicals, receipts, head>>

Init ==
    /\ records = [i \in RecordIds |-> Nil]
    /\ aliases = [i \in Wants |-> Nil]
    /\ canonicals = [k \in Identities |-> Nil]
    /\ receipts = [m \in Mutations |-> Nil]
    /\ head = 0
    /\ reader = [phase |-> "bootstrap", cursor |-> 0, ceiling |-> 0, copy |-> [i \in RecordIds |-> Nil]]

Next ==
    \/ \E m \in Mutations, b \in Bodies : Mutate(m, b)
    \/ Read

Spec == Init /\ [][Next]_vars

-----------------------------------------------------------------------------
(* Properties.                                                             *)

\* One live want per album and one album per want: whatever IDs two devices gave
\* it offline, and whatever was deleted and restored on the way, no two live
\* wants have the same canonical key.
OneWantPerIdentity ==
    \A i, j \in Wants :
      i # j /\ records[i] # Nil /\ records[j] # Nil /\ ~records[i].deleted /\ ~records[j].deleted
      => records[i].fields.key = Nil \/ records[i].fields.key # records[j].fields.key

\* A device never replaces a field it has not seen: a value that changes was set
\* at or below the base of the mutation that changes it.
ReplacesSeen ==
    \A i \in RecordIds, f \in Fields, m \in Mutations :
      /\ receipts[m] = Nil /\ receipts'[m] # Nil
      /\ records[i] # Nil /\ records[i].fields[f] # records'[i].fields[f]
      => records[i].changed[f] <= receipts'[m]
NothingUnseenReplaced == [][ReplacesSeen]_vars

\* A device that bootstraps while others write and follows the changes from the
\* bootstrap's ceiling has every record up to its cursor.
DiscoveryFeedComplete ==
    reader.phase = "following" =>
      \A i \in RecordIds :
        records[i] # Nil /\ records[i].seq <= reader.cursor => reader.copy[i] = records[i]

=============================================================================
