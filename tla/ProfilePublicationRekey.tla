----------------------- MODULE ProfilePublicationRekey -----------------------
(***************************************************************************)
(* The profile publication with provider identity rekeys: a provider that  *)
(* renames its track IDs (a Navidrome upgrade, v1) or moves its files      *)
(* (Jellyfin, v2) publishes a generation in which tracks keep their        *)
(* profiles under new IDs (provider_identity_rekey.py, jellyfin_continuity *)
(* .py).  That publication does not go through PublishGeneration: it takes *)
(* the same row lock, moves the rows and commits.                          *)
(***************************************************************************)
EXTENDS ProfilePublication

\* build_provider_identity_rekey_plan: one-to-one pairs of an ID the previous
\* generation has and the target lacks and an ID new with the target.  The rest
\* of the target may differ from the previous generation too.
Mapping(new, moved, to) ==
    /\ moved # {}
    /\ \A t \in moved : catalog[t] # Gone /\ new[t] = Gone
    /\ \A t \in moved : catalog[to[t]] = Gone /\ new[to[t]] # Gone
    /\ \A t, u \in moved : to[t] = to[u] => t = u

\* A plausible bug: the claim goes and the row stays pending.
FencedPending(row) == [row EXCEPT !.token = None]

\* The claims of moved rows are abandoned.
Fenced(row) == IF row.token # None THEN Staled(row) ELSE row

\* What f maps each track to after the moves: `none` under the old IDs, and under
\* a new ID what the old one had, or if it had nothing (v1) what it has.
Moved(f, moved, to, none) ==
    [t \in Tracks |->
       IF t \in moved THEN none
       ELSE IF \E old \in moved : to[old] = t /\ f[old] # none
            THEN f[CHOOSE old \in moved : to[old] = t]
            ELSE f[t]]

\* A plausible bug: rows of the old or the new ID are left.
PurgedNot(f, targets, none) == f

\* v2's _purge_stale_targets: what a new ID may still hold from an earlier life.
Purged(f, targets, none) == [t \in Tracks |-> IF t \in targets THEN none ELSE f[t]]

\* v1 moves the rows by UPDATE: a new ID that has a row of its own is a unique
\* violation, and the whole publication is rolled back.
Collides(f, moved, to, none) == \E t \in moved : f[t] # none /\ f[to[t]] # none

Rekey(new, moved, to, purge) ==
    LET targets == {to[t] : t \in moved}
        Clean(f, none) == IF purge THEN Purged(f, targets, none) ELSE f
        oldRows == Clean(rows, NoRow)
        oldPublished == Clean(published, None)
        movedPublic == {to[t] : t \in {u \in moved : oldPublished[u] # None}}
        newRows == Moved(oldRows, moved, to, NoRow)
    IN /\ generation > 0 /\ generation < MaxGeneration
       /\ Mapping(new, moved, to)
       /\ ~Collides(oldRows, moved, to, NoRow)
       /\ ~Collides(oldPublished, moved, to, None)
       /\ catalog' = new
       /\ generation' = generation + 1
       /\ rows' = [t \in Tracks |-> IF t \in targets THEN Fenced(newRows[t]) ELSE newRows[t]]
       /\ losses' = [t \in Tracks |-> IF t \in moved \cup targets THEN 0 ELSE losses[t]]
       /\ published' = Moved(oldPublished, moved, to, None)
       \* The edge payload names the old ID and is not carried.
       /\ edges' = Purged(Clean(edges, None), moved, None)
       /\ edge_jobs' = Purged(Clean(edge_jobs, None), moved, None)
       /\ feed' = [t \in Tracks |->
                     IF t \in movedPublic
                     THEN [media |-> published'[t].media, ver |-> published'[t].ver,
                           edge |-> FALSE]
                     ELSE IF published[t] # None /\ published'[t] = None THEN None
                     ELSE feed[t]]
       /\ UNCHANGED <<epoch, version, jobs, batch, interruptions>>

RekeyNext ==
    \/ Next
    \/ \E new \in [Tracks -> ScanMedia], moved \in SUBSET Tracks, purge \in BOOLEAN :
         \E to \in [moved -> Tracks \ moved] : Rekey(new, moved, to, purge)

RekeySpec == Init /\ [][RekeyNext]_vars

-----------------------------------------------------------------------------
\* A rekey keeps what a publication keeps: the journal's effect is the published
\* profiles, and only a claimed row is pending (_rekey_plugin_owned_state
\* and rekey_published_profiles).
ServiceSurvivesRekey == FeedMatchesPublication /\ PendingIffClaimed
=============================================================================
