--------------------------- MODULE PublicProfiles ---------------------------
(***************************************************************************)
(* What the profile journal promises a client of one catalogue source,     *)
(* without attempts, tokens, workers or retries: of each track it learns   *)
(* one profile at a time, of the media the catalogue has; a profile goes   *)
(* only when its track goes or its media is known to be replaced, and in   *)
(* the same step as the catalogue says so; a later profile of the same     *)
(* media is of the same or a newer analyzer and keeps the edge; and media  *)
(* never changes under a client without a delete in between.               *)
(***************************************************************************)
EXTENDS Naturals

CONSTANTS Tracks, Medias, None, Gone, ScanMedia, MaxVersion

VARIABLES
    catalog,    \* the media of each track in the published generation
    served      \* what a client that applied the journal has of each track

pubVars == <<catalog, served>>

Replaced(stored, current) ==
    stored \in Medias /\ current \in Medias /\ stored # current

\* A client may keep what it has of t.
Current(t, media) == media[t] # Gone /\ ~Replaced(served[t].media, media[t])

Init == catalog = [t \in Tracks |-> Gone] /\ served = [t \in Tracks |-> None]

Refresh(new) ==
    /\ catalog' = new
    /\ served' = [t \in Tracks |->
                    IF served[t] # None /\ ~Current(t, new) THEN None ELSE served[t]]

Serve(t, ver) ==
    /\ catalog[t] \in Medias
    /\ served[t] # None => served[t].media = catalog[t] /\ served[t].ver <= ver
    /\ served' = [served EXCEPT ![t] =
                    [media |-> catalog[t], ver |-> ver,
                     edge |-> served[t] # None /\ served[t].edge]]
    /\ UNCHANGED catalog

AttachEdge(t) ==
    /\ served[t] # None /\ served[t].media = catalog[t]
    /\ served' = [served EXCEPT ![t] = [media |-> served[t].media, ver |-> served[t].ver,
                                        edge |-> TRUE]]
    /\ UNCHANGED catalog

Next ==
    \/ \E new \in [Tracks -> ScanMedia] : Refresh(new)
    \/ \E t \in Tracks : \E ver \in 0..MaxVersion : Serve(t, ver)
    \/ \E t \in Tracks : AttachEdge(t)

Spec == Init /\ [][Next]_pubVars
=============================================================================
