-------------------------- MODULE MCPersonalRecords --------------------------
(* The record stores, the discovery records and the collections of one        *)
(* person, which share no table: one run explores them one at a time.         *)
(* `focus`, chosen at the start, names the one that moves; the collections    *)
(* use variables of the other two.                                            *)
EXTENDS PersonalRecords, TLC

CONSTANTS Wants, Intros, Identities, Notes, Mutations, MaxHead, Collections, Items
VARIABLES focus, records, aliases, canonicals, receipts, head, reader

discoveryVars == <<records, aliases, canonicals, receipts, head, reader>>
collectionVars == <<records, aliases, head, canonicals, receipts, reader, open, sequence, applied>>

Discovery == INSTANCE DiscoveryRecords WITH Nil <- None, FeedLimit <- PageLimit
Feed == INSTANCE CollectionFeed WITH
    Keys <- Identities, MaxRestores <- 1,
    collections <- records, items <- aliases, client <- canonicals, progress <- reader,
    restores <- sequence, effects <- applied

ASSUME BoundsHold == Discovery!HeadAssumption /\ Discovery!NilAssumption /\ Feed!FeedBounds

PersonalInit ==
    \/ focus = "records" /\ Init /\ Discovery!Init
    \/ focus = "discovery" /\ Init /\ Discovery!Init /\ store = "vibes"
    \/ /\ focus = "collections" /\ Feed!Init
       /\ store = None /\ db = None /\ sweep = None /\ device = None /\ acks = None

PersonalNext ==
    \/ focus = "records" /\ Next /\ UNCHANGED <<focus, discoveryVars>>
    \/ focus = "discovery" /\ Discovery!Next /\ UNCHANGED <<focus, vars>>
    \/ focus = "collections" /\ Feed!Next /\ UNCHANGED <<focus, store, db, sweep, device, acks>>

PersonalSpec == PersonalInit /\ [][PersonalNext]_<<vars, focus, discoveryVars>>

-----------------------------------------------------------------------------
(* The properties of the three (see there).                                  *)

\* A client that pages a feed has, up to its cursor, exactly what was committed.
FeedsComplete ==
    /\ focus # "collections" => FeedComplete /\ Discovery!DiscoveryFeedComplete
    /\ focus = "collections" => Feed!FeedIsTables /\ Feed!OneMembership

\* Every acknowledged write is kept, with what it names.
RecordsKept == focus # "collections" => NoLostUpdate /\ PhotosStored
OneWantPerIdentity == focus # "collections" => Discovery!OneWantPerIdentity
KeyedOnce == focus = "collections" => Feed!KeyedOnce

\* No write replaces what its sender has not seen, or what must outlive it.
NewestStays ==
    [][/\ focus = "records" => KeepsNewest /\ KeepsPeriods
       /\ focus = "discovery" => Discovery!ReplacesSeen]_<<vars, discoveryVars>>

Interchangeable == Permutations(Ids) \cup Permutations(Requests) \cup Permutations(Procs)
=============================================================================
