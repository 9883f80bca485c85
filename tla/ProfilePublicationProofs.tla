---------------------- MODULE ProfilePublicationProofs ----------------------
(***************************************************************************)
(* Theorems about ProfilePublication for every set of tracks, media and    *)
(* tokens and every value of the bounds.  The type invariant comes first;  *)
(* the safety invariants are inductive relative to it.  Then what the      *)
(* journal promises its clients: it implements the abstract service        *)
(* PublicProfiles.  Last, what of all this survives a provider identity    *)
(* rekey (ProfilePublicationRekey).                                        *)
(***************************************************************************)
EXTENDS ProfilePublication, ProfilePublicationRekey, TLAPS

(* Rows keep their type under what the actions do to them.                 *)

LEMMA NoRowType == NoRow \in Row
BY ConstantsAssumption DEF NoRow, Row, Statuses, Media, Versions, Counts, Categories, Cooldowns

LEMMA StaledType == ASSUME NEW row \in Row PROVE Staled(row) \in Row
BY DEF Staled, Row, Statuses, Categories

LEMMA BumpType == ASSUME NEW n \in Counts PROVE Bump(n) \in Counts
BY ConstantsAssumption DEF Bump, Counts

LEMMA CooldownType == ASSUME NEW n \in Counts PROVE Cooldown(n) \in Cooldowns
BY DEF Cooldown, Cooldowns

LEMMA ReleasedType ==
  ASSUME NEW row \in Row, NEW used \in {0, 1} PROVE Released(row, used) \in Row
<1> DEFINE count == IF used = 1 THEN Bump(row.count) ELSE row.count
           after == RetryAfter(count, used)
<1>1. row.count \in Counts /\ row.attempt_media \in Media /\ row.attempt_ver \in Versions
  BY DEF Row
<1>2. count \in Counts
  BY <1>1, BumpType
<1>3. after \in Cooldowns
  BY DEF Cooldowns, RetryAfter
<1>4. Released(row, used) =
        [row EXCEPT !.status = "stale", !.token = None, !.category = "queue_unavailable",
                    !.count = count, !.after = after,
                    !.retry_media = row.attempt_media, !.retry_ver = row.attempt_ver]
  BY DEF Released
<1> HIDE DEF count, after
<1> QED
  BY <1>1, <1>2, <1>3, <1>4 DEF Row, Statuses, Categories

LEMMA RevisionType ==
  ASSUME TypeOK, NEW t \in Tracks PROVE Revision(t) \in Media
BY DEF TypeOK, Revision, Media

LEMMA ClaimedType ==
  ASSUME TypeOK, NEW t \in Tracks, NEW token \in Tokens, NEW status \in Pending
  PROVE  Claimed(t, token, status) \in Row
<1> DEFINE row == rows[t]
           other == row.retry_media # Revision(t)
           media == IF row.status = "none" THEN Revision(t) ELSE row.media
           ver == IF row.status = "none" THEN version ELSE row.ver
           count == IF other \/ row.retry_ver # version THEN 0 ELSE row.count
           category == IF other THEN "none" ELSE row.category
<1>1. row \in Row /\ version \in Versions /\ epoch \in Nat /\ Revision(t) \in Media
  BY RevisionType DEF TypeOK
<1>2. media \in Media /\ ver \in Versions /\ category \in Categories
  BY <1>1 DEF Row, Categories
<1>3. count \in Counts
  BY <1>1, ConstantsAssumption DEF Row, Counts
<1> DEFINE attempt == [row EXCEPT !.status = status, !.token = token,
                                  !.attempt_media = Revision(t), !.attempt_epoch = epoch,
                                  !.attempt_ver = version]
<1>4. Claimed(t, token, status) =
        [attempt EXCEPT !.media = media, !.ver = ver,
                        !.count = count, !.category = category, !.after = "none"]
  BY DEF Claimed
<1>5. status \in Statuses /\ "none" \in Cooldowns
  BY DEF Pending, Statuses, Cooldowns
<1> HIDE DEF row, other, media, ver, count, category
<1>6. attempt \in Row
  BY <1>1, <1>5 DEF Row
<1> HIDE DEF attempt
<1> QED
  BY <1>2, <1>3, <1>4, <1>5, <1>6 DEF Row

LEMMA DeferredType ==
  ASSUME TypeOK, NEW t \in Tracks PROVE Deferred(t) \in Row
<1>1. rows[t] \in Row /\ version \in Versions
  BY DEF TypeOK
<1>2. 0 \in Versions
  BY ConstantsAssumption DEF Versions
<1> QED
  BY <1>1, <1>2 DEF Deferred, Row, Statuses, Media

(* Steps that write several variables.                                     *)

LEMMA UnpublishType ==
  ASSUME TypeOK, NEW W, Unpublish(W)
  PROVE  /\ published' \in [Tracks -> Profile \cup {None}]
         /\ feed' \in [Tracks -> Event \cup {None}]
BY DEF TypeOK, Unpublish

LEMMA DropEdgesType ==
  ASSUME TypeOK, NEW W, DropEdges(W) PROVE edges' \in [Tracks -> Media]
BY DEF TypeOK, DropEdges, Media

LEMMA PublishType ==
  ASSUME TypeOK, NEW t \in Tracks, NEW profile \in Profile, Publish(t, profile)
  PROVE  /\ published' \in [Tracks -> Profile \cup {None}]
         /\ feed' \in [Tracks -> Event \cup {None}]
         /\ edges' \in [Tracks -> Media]
         /\ edge_jobs' \in [Tracks -> EdgeJob \cup {None}]
<1> DEFINE fresh == Fresh(t, profile)
<1>1. profile.media \in Medias /\ profile.ver \in Versions
  BY DEF Profile
<1>2. [media |-> profile.media, ver |-> profile.ver, edge |-> ~fresh /\ Reachable(t)] \in Event
  BY <1>1, Zenon DEF Event, Reachable
<1> QED
  BY <1>1, <1>2 DEF TypeOK, Publish, Media

LEMMA LoseType ==
  ASSUME TypeOK, NEW S, Lose(S) PROVE losses' \in [Tracks -> 0..RetryLimit + 1]
<1>1. \A t \in Tracks : losses[t] \in 0..RetryLimit + 1 /\ RetryLimit \in Nat
  BY ConstantsAssumption DEF TypeOK
<1> QED
  BY <1>1 DEF TypeOK, Lose

-----------------------------------------------------------------------------
(* Type correctness.                                                       *)

LEMMA AdmitType ==
  ASSUME TypeOK, NEW S \in SUBSET Tracks, NEW status \in Pending, Admit(S, status),
         batch' \in SUBSET Tracks, interruptions' \in 0..MaxInterruptions
  PROVE  TypeOK'
<1> DEFINE known == {t \in S : Revision(t) # None}
           replaced == {t \in known : KnownDifferent(PublishedMedia(t), Revision(t))}
<1>1. PICK token \in [known -> FreshTokens] :
         /\ rows' = [t \in Tracks |->
                       IF t \in known THEN Claimed(t, token[t], status)
                       ELSE IF t \in S /\ Available(t) THEN Deferred(t)
                       ELSE rows[t]]
         /\ losses' = [t \in Tracks |->
                         IF t \in known
                            /\ \/ rows[t].attempt_media # Revision(t)
                               \/ rows[t].attempt_ver # version
                         THEN 0 ELSE losses[t]]
         /\ Unpublish(replaced)
         /\ DropEdges(replaced)
         /\ UNCHANGED <<catalogVars, version, edge_jobs, jobs>>
  BY Zenon DEF Admit
<1>2. rows' \in [Tracks -> Row]
  <2>1. ASSUME NEW t \in Tracks, t \in known PROVE Claimed(t, token[t], status) \in Row
    BY <2>1, ClaimedType DEF FreshTokens
  <2>2. ASSUME NEW t \in Tracks PROVE Deferred(t) \in Row /\ rows[t] \in Row
    BY DeferredType DEF TypeOK
  <2> QED
    BY <1>1, <2>1, <2>2
<1>3. losses' \in [Tracks -> 0..RetryLimit + 1]
  BY <1>1, ConstantsAssumption DEF TypeOK
<1>4. /\ published' \in [Tracks -> Profile \cup {None}]
      /\ feed' \in [Tracks -> Event \cup {None}]
      /\ edges' \in [Tracks -> Media]
  BY <1>1, UnpublishType, DropEdgesType
<1> QED
  BY <1>1, <1>2, <1>3, <1>4 DEF TypeOK, catalogVars

LEMMA CompleteType ==
  ASSUME TypeOK, NEW j \in jobs, Complete(j) PROVE TypeOK'
<1>1. j \in Job /\ j.track \in Tracks /\ j.media \in Media /\ j.ver \in Versions
  BY DEF TypeOK, Job
<1>2. rows[j.track] \in Row
  BY <1>1 DEF TypeOK
<1>3. UNCHANGED <<catalog, generation, epoch, version, batch, interruptions>>
      /\ jobs' \subseteq Job
  BY DEF Complete, catalogVars, TypeOK
<1>4. CASE CompleteSuperseded(j) \/ CompleteMismatched(j)
  BY <1>3, <1>4 DEF CompleteSuperseded, CompleteMismatched, TypeOK, publicVars, edgeVars
<1>5. CASE CompleteChanged(j)
  <2>1. PICK W : Unpublish(W) /\ DropEdges(W)
    BY <1>5 DEF CompleteChanged
  <2>2. rows' \in [Tracks -> Row]
    BY <1>1, <1>2, <1>5, StaledType DEF CompleteChanged, TypeOK
  <2> QED
    BY <1>3, <1>5, <2>1, <2>2, UnpublishType, DropEdgesType DEF CompleteChanged, TypeOK
<1>6. CASE CompleteReady(j)
  <2>1. j.media \in Medias
    BY <1>1, <1>6 DEF CompleteReady, Revision
  <2>2. [media |-> j.media, ver |-> j.ver] \in Profile
    BY <1>1, <2>1 DEF Profile
  <2>3. rows' \in [Tracks -> Row]
    <3>1. [rows[j.track] EXCEPT !.status = "ready", !.token = None,
             !.media = j.media, !.ver = j.ver, !.category = "none", !.count = 0,
             !.after = "none", !.retry_media = None, !.retry_ver = 0] \in Row
      <4>1. 0 \in Counts /\ 0 \in Versions /\ None \in Media
        BY ConstantsAssumption DEF Counts, Versions, Media
      <4> QED
        BY <1>1, <1>2, <4>1 DEF Row, Statuses, Categories, Cooldowns
    <3> QED
      BY <1>1, <1>6, <3>1 DEF CompleteReady, TypeOK
  <2>4. losses' \in [Tracks -> 0..RetryLimit + 1]
    BY <1>1, <1>6, ConstantsAssumption DEF CompleteReady, TypeOK
  <2>5. Publish(j.track, [media |-> j.media, ver |-> j.ver])
    BY <1>6 DEF CompleteReady
  <2>6. /\ published' \in [Tracks -> Profile \cup {None}]
        /\ feed' \in [Tracks -> Event \cup {None}]
        /\ edges' \in [Tracks -> Media]
        /\ edge_jobs' \in [Tracks -> EdgeJob \cup {None}]
    BY <1>1, <2>2, <2>5, PublishType
  <2> QED
    BY <1>3, <2>3, <2>4, <2>6 DEF TypeOK
<1>7. CASE \E category \in {"transient", "revision"} : CompleteFailed(j, category)
  <2>1. PICK category \in {"transient", "revision"} : CompleteFailed(j, category)
    BY <1>7
  <2> DEFINE count == Bump(rows[j.track].count)
             after == IF category = "transient" THEN Cooldown(count) ELSE "none"
  <2>2. count \in Counts /\ after \in Cooldowns
    BY <1>2, BumpType, CooldownType DEF Row, Cooldowns
  <2>3. [rows[j.track] EXCEPT !.status = "failed", !.token = None,
           !.media = j.media, !.ver = j.ver, !.category = category, !.count = count,
           !.after = after, !.retry_media = rows[j.track].attempt_media,
           !.retry_ver = j.ver] \in Row
    <3> HIDE DEF count, after
    <3> QED
      BY <1>1, <1>2, <2>2 DEF Row, Statuses, Categories
  <2>4. rows' \in [Tracks -> Row]
    BY <1>1, <2>1, <2>3 DEF CompleteFailed, TypeOK
  <2>5. losses' \in [Tracks -> 0..RetryLimit + 1]
    BY <2>1, LoseType DEF CompleteFailed
  <2>6. UNCHANGED <<published, feed, edges, edge_jobs>>
    BY <2>1 DEF CompleteFailed, publicVars, edgeVars
  <2> QED
    BY <1>3, <2>4, <2>5, <2>6 DEF TypeOK
<1> QED
  BY <1>4, <1>5, <1>6, <1>7 DEF Complete

LEMMA InitType == Init => TypeOK
<1> SUFFICES ASSUME Init PROVE TypeOK
  OBVIOUS
<1>1. rows \in [Tracks -> Row]
  BY NoRowType DEF Init
<1> QED
  BY <1>1, ConstantsAssumption DEF Init, TypeOK, Versions, Media

LEMMA ExhaustedIs ==
  ASSUME NEW row \in Row, NEW category \in {"transient", "revision"}
  PROVE  /\ row.ver = 1 => Exhausted(row, category) \in Row
         /\ Exhausted(row, category).token = row.token
         /\ Exhausted(row, category).attempt_media = row.attempt_media
         /\ Exhausted(row, category).status = row.status
         /\ Exhausted(row, category).ver = row.ver
         /\ Exhausted(row, category).count = RetryLimit
         /\ Exhausted(row, category).retry_ver = 1
<1>1. RetryLimit \in Counts
  BY ConstantsAssumption DEF Counts
<1> QED
  BY <1>1 DEF Exhausted, Row, Categories

\* What a row of OldRows is.
LEMMA OldRowsAre ==
  ASSUME NEW row \in OldRows
  PROVE  /\ row \in Row /\ row.token = None /\ row.attempt_media = None
         /\ row.status \notin {"deferred"} /\ row.count \in {0, RetryLimit}
         /\ row.status # "none" => row.ver = 1
         /\ row.status = "ready" => row.media \in Medias
         /\ row.retry_media # None => row.retry_ver = 1
<1>1. 1 \in Versions /\ RetryLimit \in Counts /\ NoRow \in Row /\ None \notin Medias
  BY NoRowType, ConstantsAssumption DEF Versions, Counts
<1>2. ASSUME row = NoRow
      PROVE  /\ row \in Row /\ row.token = None /\ row.attempt_media = None
             /\ row.status = "none" /\ row.count = 0 /\ row.retry_media = None
  BY <1>1, <1>2 DEF NoRow
<1>3. ASSUME NEW status \in Pending \cup {"ready", "failed", "stale"}, NEW m \in Medias
      PROVE  LET r == OldRow(status, m) IN
             /\ r \in Row /\ r.token = None /\ r.attempt_media = None
             /\ r.status = status /\ r.count = 0 /\ r.ver = 1 /\ r.media = m
             /\ r.retry_media = None
  BY <1>1 DEF OldRow, NoRow, Row, Statuses, Pending, Media
<1>4. ASSUME NEW status \in {"failed", "stale"}, NEW m \in Medias,
             NEW category \in {"transient", "revision"}
      PROVE  LET r == Exhausted(OldRow(status, m), category) IN
             /\ r \in Row /\ r.token = None /\ r.attempt_media = None
             /\ r.status = status /\ r.count = RetryLimit /\ r.ver = 1 /\ r.retry_ver = 1
  <2>1. status \in Pending \cup {"ready", "failed", "stale"}
    OBVIOUS
  <2>2. /\ OldRow(status, m) \in Row /\ OldRow(status, m).token = None
        /\ OldRow(status, m).attempt_media = None
        /\ OldRow(status, m).status = status /\ OldRow(status, m).ver = 1
    BY <1>3, <2>1
  <2> QED
    BY <2>2, ExhaustedIs
<1>5. "deferred" \notin Pending \cup {"ready", "failed", "stale"}
  BY DEF Pending
<1>6. CASE row = NoRow
  BY <1>2, <1>6
<1>7. CASE \E x \in (Pending \cup {"ready", "failed", "stale"}) \X Medias :
             row = OldRow(x[1], x[2])
  BY <1>3, <1>5, <1>7
<1>8. CASE \E x \in {"failed", "stale"} \X Medias \X {"transient", "revision"} :
             row = Exhausted(OldRow(x[1], x[2]), x[3])
  BY <1>4, <1>8
<1> QED
  BY <1>6, <1>7, <1>8 DEF OldRows

LEMMA UpgradeInitType == UpgradeInit => TypeOK
<1> SUFFICES ASSUME UpgradeInit PROVE TypeOK
  OBVIOUS
<1>1. 1 \in Versions
  BY ConstantsAssumption DEF Versions
<1>2. OldRows \subseteq Row
  BY OldRowsAre
<1>3. rows \in [Tracks -> Row]
  BY <1>2 DEF UpgradeInit
<1>4. PICK copied \in [Tracks -> BOOLEAN] :
         published = [t \in Tracks |->
                        IF rows[t].status = "ready" /\ (copied[t] \/ rows[t].media = catalog[t])
                        THEN [media |-> rows[t].media, ver |-> 1] ELSE None]
  BY Zenon DEF UpgradeInit
<1>5. ASSUME NEW t \in Tracks, rows[t].status = "ready" PROVE rows[t].media \in Medias
  <2>1. rows[t] \in OldRows
    BY DEF UpgradeInit
  <2> QED
    BY <1>5, <2>1, OldRowsAre
<1>6. published \in [Tracks -> Profile \cup {None}]
  BY <1>1, <1>4, <1>5 DEF Profile
<1>7. feed \in [Tracks -> Event \cup {None}]
  <2>1. ASSUME NEW t \in Tracks PROVE OldEvent(rows[t], edges[t]) \in Event \cup {None}
    <3>1. (edges[t] # None) \in BOOLEAN
      BY Zenon
    <3> QED
      BY <1>1, <1>5, <3>1 DEF OldEvent, Event
  <2> QED
    BY <2>1 DEF UpgradeInit
<1> QED
  BY <1>1, <1>3, <1>6, <1>7, ConstantsAssumption DEF UpgradeInit, TypeOK

LEMMA AttemptsType == ASSUME TypeOK, Attempts PROVE TypeOK'
<1>1. CASE SelectBatch
  BY <1>1 DEF SelectBatch, TypeOK, catalogVars, publicVars, edgeVars
<1>2. CASE AdmitBatch
  BY <1>2, AdmitType DEF AdmitBatch, Pending, TypeOK
<1>3. CASE \E t \in Tracks : AdmitInteractive(t)
  <2>1. PICK t \in Tracks : AdmitInteractive(t)
    BY <1>3
  <2>2. batch' \in SUBSET Tracks /\ interruptions' \in 0..MaxInterruptions
    BY <2>1, ConstantsAssumption DEF AdmitInteractive, TypeOK
  <2> QED
    BY <2>1, <2>2, AdmitType DEF AdmitInteractive, Pending
<1>4. CASE \E S \in SUBSET Tracks : ReleaseUncounted(S)
  <2>1. PICK S \in SUBSET Tracks : ReleaseUncounted(S)
    BY <1>4
  <2>2. rows' \in [Tracks -> Row]
    BY <2>1, ReleasedType DEF ReleaseUncounted, TypeOK
  <2>3. interruptions' \in 0..MaxInterruptions
    BY <2>1, ConstantsAssumption DEF ReleaseUncounted, TypeOK
  <2> QED
    BY <2>1, <2>2, <2>3 DEF ReleaseUncounted, TypeOK, catalogVars, publicVars, edgeVars
<1>5. CASE \E S \in SUBSET Tracks : ReleaseCounted(S)
  <2>1. PICK S \in SUBSET Tracks : ReleaseCounted(S)
    BY <1>5
  <2>2. rows' \in [Tracks -> Row]
    BY <2>1, ReleasedType DEF ReleaseCounted, TypeOK
  <2>3. losses' \in [Tracks -> 0..RetryLimit + 1]
    BY <2>1, LoseType DEF ReleaseCounted
  <2> QED
    BY <2>1, <2>2, <2>3 DEF ReleaseCounted, TypeOK, catalogVars, publicVars, edgeVars
<1>6. CASE \E t \in Tracks : CooldownEnds(t)
  <2>1. PICK t \in Tracks : CooldownEnds(t)
    BY <1>6
  <2>2. [rows[t] EXCEPT !.after = "due"] \in Row
    BY DEF TypeOK, Row, Cooldowns
  <2>3. rows' = [rows EXCEPT ![t] = [rows[t] EXCEPT !.after = "due"]]
    BY <2>1 DEF CooldownEnds
  <2>4. rows' \in [Tracks -> Row]
    BY <2>2, <2>3 DEF TypeOK
  <2> QED
    BY <2>1, <2>4 DEF CooldownEnds, TypeOK, catalogVars, publicVars, edgeVars
<1>7. CASE \E t \in Tracks : StartAnalysis(t)
  <2>1. PICK t \in Tracks : StartAnalysis(t)
    BY <1>7
  <2>2. PICK ver \in {rows[t].attempt_ver, version} :
           jobs' = jobs \cup {[track |-> t, token |-> rows[t].token,
                               media |-> Revision(t), ver |-> ver]}
    BY <2>1 DEF StartAnalysis
  <2>3. rows[t].token \in Tokens \cup {None} /\ ver \in Versions
    BY <2>2 DEF TypeOK, Row
  <2>4. rows[t].token \in Tokens
    BY <2>1, <2>3 DEF StartAnalysis
  <2>5. jobs' \subseteq Job
    BY <2>2, <2>3, <2>4, RevisionType DEF TypeOK, Job
  <2> QED
    BY <2>1, <2>5 DEF StartAnalysis, TypeOK, catalogVars, publicVars, edgeVars
<1>8. CASE WorkerCrash
  BY <1>8 DEF WorkerCrash, TypeOK, catalogVars, publicVars, edgeVars
<1>9. CASE \E j \in jobs : Complete(j)
  BY <1>9, CompleteType
<1> QED
  BY <1>1, <1>2, <1>3, <1>4, <1>5, <1>6, <1>7, <1>8, <1>9 DEF Attempts

LEMMA EdgesType == ASSUME TypeOK, Edges PROVE TypeOK'
<1>1. CASE \E t \in Tracks : ClaimEdge(t)
  <2>1. PICK t \in Tracks : ClaimEdge(t)
    BY <1>1
  <2>2. PublishedMedia(t) \in Medias
    BY <2>1 DEF ClaimEdge, PublishedMedia, TypeOK, Profile
  <2>3. edge_jobs' \in [Tracks -> EdgeJob \cup {None}]
    BY <2>1, <2>2 DEF ClaimEdge, TypeOK, EdgeJob
  <2> QED
    BY <2>1, <2>3 DEF ClaimEdge, TypeOK, catalogVars, publicVars
<1>2. CASE \E t \in Tracks : FailEdge(t)
  <2>1. PICK t \in Tracks, status \in {"failed", "unsupported"} :
           /\ FailEdge(t) /\ edge_jobs' = [edge_jobs EXCEPT ![t].status = status]
    BY <1>2 DEF FailEdge
  <2>2. edge_jobs[t] \in EdgeJob
    BY <2>1 DEF FailEdge, TypeOK
  <2>3. [edge_jobs[t] EXCEPT !.status = status] \in EdgeJob
    BY <2>2 DEF EdgeJob
  <2>4. edge_jobs' \in [Tracks -> EdgeJob \cup {None}]
    BY <2>1, <2>3 DEF TypeOK
  <2> QED
    BY <2>1, <2>4 DEF FailEdge, TypeOK, catalogVars, publicVars
<1>3. CASE \E t \in Tracks : PublishEdge(t)
  <2>1. PICK t \in Tracks : PublishEdge(t)
    BY <1>3
  <2>2. edge_jobs[t] \in EdgeJob
    BY <2>1 DEF PublishEdge, TypeOK
  <2>3. edge_jobs[t].media \in Medias /\ [edge_jobs[t] EXCEPT !.status = "ready"] \in EdgeJob
    BY <2>2 DEF EdgeJob
  <2>4. published[t] \in Profile
    BY <2>1, <2>3, ConstantsAssumption DEF PublishEdge, PublishedMedia, TypeOK
  <2>5. [media |-> published[t].media, ver |-> published[t].ver, edge |-> TRUE] \in Event
    BY <2>4 DEF Profile, Event
  <2>6. edges' \in [Tracks -> Media]
    BY <2>1, <2>3 DEF PublishEdge, TypeOK, Media
  <2>7. edge_jobs' \in [Tracks -> EdgeJob \cup {None}]
    BY <2>1, <2>3 DEF PublishEdge, TypeOK
  <2>8. feed' \in [Tracks -> Event \cup {None}]
    BY <2>1, <2>5 DEF PublishEdge, TypeOK
  <2> QED
    BY <2>1, <2>6, <2>7, <2>8 DEF PublishEdge, TypeOK, catalogVars
<1>4. CASE PurgeEdges
  <2>1. edges' \in [Tracks -> Media]
    BY <1>4 DEF PurgeEdges, TypeOK, Media
  <2> QED
    BY <1>4, <2>1 DEF PurgeEdges, TypeOK, catalogVars, publicVars
<1> QED
  BY <1>1, <1>2, <1>3, <1>4 DEF Edges

LEMMA PublicationsType == ASSUME TypeOK, Publications PROVE TypeOK'
<1>1. CASE \E new \in [Tracks -> ScanMedia], rebase \in BOOLEAN :
              PublishGeneration(new, rebase)
  <2>1. PICK new \in [Tracks -> ScanMedia], rebase \in BOOLEAN :
           PublishGeneration(new, rebase)
    BY <1>1
  <2>2. catalog' \in [Tracks -> Medias \cup {None, Gone}]
    BY <2>1, ConstantsAssumption DEF PublishGeneration
  <2>3. generation' \in 0..MaxGeneration + 1 /\ epoch' \in Nat
    BY <2>1, ConstantsAssumption DEF PublishGeneration, TypeOK
  <2>4. rows' \in [Tracks -> Row]
    BY <2>1, StaledType DEF PublishGeneration, TypeOK
  <2>5. losses' \in [Tracks -> 0..RetryLimit + 1]
    BY <2>1, ConstantsAssumption DEF PublishGeneration, TypeOK
  <2>6. PICK W : Unpublish(W)
    BY <2>1 DEF PublishGeneration
  <2>7. UNCHANGED <<version, edges, edge_jobs, jobs, batch, interruptions>>
    BY <2>1 DEF PublishGeneration, edgeVars
  <2> QED
    BY <2>2, <2>3, <2>4, <2>5, <2>6, <2>7, UnpublishType DEF TypeOK
<1>2. CASE \E S \in SUBSET Tracks : WithdrawOrphans(S)
  <2>1. PICK S \in SUBSET Tracks : WithdrawOrphans(S)
    BY <1>2
  <2>2. rows' \in [Tracks -> Row]
    BY <2>1, StaledType DEF WithdrawOrphans, TypeOK
  <2> QED
    BY <2>1, <2>2, UnpublishType DEF WithdrawOrphans, TypeOK, catalogVars, edgeVars
<1>3. CASE \E t \in Tracks : RepublishReady(t)
  <2>1. PICK t \in Tracks : RepublishReady(t)
    BY <1>3
  <2>2. [media |-> rows[t].media, ver |-> rows[t].ver] \in Profile
    BY <2>1 DEF RepublishReady, ReadyUnpublished, Revision, TypeOK, Row, Profile
  <2> QED
    BY <2>1, <2>2, PublishType DEF RepublishReady, TypeOK, catalogVars
<1>4. CASE UpgradeAnalyzer
  BY <1>4, ConstantsAssumption
  DEF UpgradeAnalyzer, TypeOK, Versions, catalogVars, publicVars, edgeVars
<1> QED
  BY <1>1, <1>2, <1>3, <1>4 DEF Publications

LEMMA NextType == ASSUME TypeOK, [Next]_vars PROVE TypeOK'
<1>1. CASE UNCHANGED vars
  BY <1>1 DEF vars, TypeOK
<1> QED
  BY <1>1, AttemptsType, EdgesType, PublicationsType DEF Next

\* Every variable keeps its type, from a fresh install and from an upgrade.
THEOREM TypeCorrect == (Spec => []TypeOK) /\ (UpgradeSpec => []TypeOK)
<1>1. TypeOK /\ [Next]_vars => TypeOK'
  BY NextType
<1>2. Spec => []TypeOK
  BY <1>1, InitType, PTL DEF Spec
<1>3. UpgradeSpec => []TypeOK
  BY <1>1, UpgradeInitType, PTL DEF UpgradeSpec
<1> QED
  BY <1>2, <1>3

-----------------------------------------------------------------------------
(* Claims.  The only new tokens are fresh, and whoever ends one ends the     *)
(* pending status with it.  Claims of 1.2.5 have no token: after an upgrade  *)
(* a claimed row is pending, and only of the tracks in W, which have no such *)
(* row, is the converse known.                                              *)

ClaimsIn(W) ==
    /\ \A t \in Tracks : rows[t].token # None => rows[t].status \in Pending
    /\ \A t \in W : rows[t].status \in Pending => rows[t].token # None
    /\ \A t, u \in Tracks :
         rows[t].token # None /\ rows[t].token = rows[u].token => t = u

LEMMA ClaimsInAll == PendingIffClaimed <=> ClaimsIn(Tracks)
BY DEF PendingIffClaimed, ClaimsIn

LEMMA AdmitClaims ==
  ASSUME NEW W \in SUBSET Tracks, TypeOK, ClaimsIn(W), NEW S \in SUBSET Tracks, NEW status \in Pending,
         Admit(S, status)
  PROVE  ClaimsIn(W)'
<1> DEFINE known == {t \in S : Revision(t) # None}
<1>1. PICK token \in [known -> FreshTokens] :
         /\ \A t, u \in known : token[t] = token[u] => t = u
         /\ rows' = [t \in Tracks |->
                       IF t \in known THEN Claimed(t, token[t], status)
                       ELSE IF t \in S /\ Available(t) THEN Deferred(t)
                       ELSE rows[t]]
  BY Zenon DEF Admit
<1>2. ASSUME NEW t \in Tracks, t \in known
      PROVE  rows'[t].status = status /\ rows'[t].token = token[t]
             /\ token[t] \in FreshTokens
  <2>1. rows[t] \in Row
    BY DEF TypeOK
  <2>2. rows'[t] = Claimed(t, token[t], status)
    BY <1>1, <1>2
  <2> QED
    BY <1>1, <1>2, <2>1, <2>2 DEF Claimed, Row
<1>3. ASSUME NEW t \in Tracks, t \notin known
      PROVE  \/ rows'[t] = rows[t]
             \/ rows'[t].status = "deferred" /\ rows'[t].token = None
  <2>1. rows[t] \in Row
    BY DEF TypeOK
  <2>2. rows'[t] \in {Deferred(t), rows[t]}
    BY <1>1, <1>3
  <2> QED
    BY <2>1, <2>2 DEF Deferred, Row
<1>4. \A t \in Tracks : token \in [known -> FreshTokens] /\ rows[t].token \notin FreshTokens
  BY <1>1 DEF FreshTokens
<1>5. None \notin FreshTokens
  BY ConstantsAssumption DEF FreshTokens
<1>6. ASSUME NEW t \in Tracks
      PROVE  /\ rows'[t].token # None => rows'[t].status \in Pending
             /\ t \in W /\ rows'[t].status \in Pending => rows'[t].token # None
  BY <1>2, <1>3, <1>5 DEF ClaimsIn, Pending
<1>7. ASSUME NEW t \in Tracks, NEW u \in Tracks,
             rows'[t].token # None, rows'[t].token = rows'[u].token
      PROVE  t = u
  <2>1. CASE t \in known /\ u \in known
    BY <1>1, <1>2, <1>7, <2>1
  <2>2. CASE t \in known /\ u \notin known
    BY <1>2, <1>3, <1>4, <1>5, <1>7, <2>2
  <2>3. CASE t \notin known /\ u \in known
    BY <1>2, <1>3, <1>4, <1>5, <1>7, <2>3
  <2>4. CASE t \notin known /\ u \notin known
    BY <1>3, <1>7, <2>4 DEF ClaimsIn
  <2> QED
    BY <2>1, <2>2, <2>3, <2>4
<1> QED
  BY <1>6, <1>7 DEF ClaimsIn

\* A step that leaves every row alone, or as it was but for the retry columns, or
\* without a claim and not pending, keeps the claims.
Unclaims ==
    \A t \in Tracks :
      \/ rows'[t].status = rows[t].status /\ rows'[t].token = rows[t].token
      \/ rows'[t].status \notin Pending /\ rows'[t].token = None

LEMMA UnclaimsKeepsClaims ==
  ASSUME NEW W \in SUBSET Tracks, ClaimsIn(W), Unclaims PROVE ClaimsIn(W)'
<1>1. ASSUME NEW t \in Tracks
      PROVE  /\ rows'[t].token # None => rows'[t].status \in Pending
             /\ t \in W /\ rows'[t].status \in Pending => rows'[t].token # None
  BY DEF ClaimsIn, Unclaims
<1>2. ASSUME NEW t \in Tracks, NEW u \in Tracks,
             rows'[t].token # None, rows'[t].token = rows'[u].token
      PROVE  t = u
  BY <1>2 DEF ClaimsIn, Unclaims
<1> QED
  BY <1>1, <1>2 DEF ClaimsIn

LEMMA StaledUnclaims ==
  ASSUME NEW row \in Row PROVE Staled(row).status \notin Pending /\ Staled(row).token = None
BY DEF Staled, Row, Pending

LEMMA ReleasedUnclaims ==
  ASSUME NEW row \in Row, NEW used \in {0, 1}
  PROVE  Released(row, used).status = "stale" /\ Released(row, used).token = None
BY DEF Released, Row

LEMMA CompleteUnclaims ==
  ASSUME TypeOK, NEW j \in jobs, Complete(j) PROVE Unclaims
<1>1. j.track \in Tracks /\ rows[j.track] \in Row
  BY DEF TypeOK, Job
<1>2. CASE UNCHANGED rows
  BY <1>2 DEF Unclaims
<1>3. CASE CompleteChanged(j)
  BY <1>1, <1>3, StaledUnclaims DEF CompleteChanged, Unclaims, TypeOK
<1>4. CASE CompleteReady(j)
  BY <1>1, <1>4 DEF CompleteReady, Unclaims, TypeOK, Row, Pending
<1>5. CASE \E category \in {"transient", "revision"} : CompleteFailed(j, category)
  BY <1>1, <1>5 DEF CompleteFailed, Unclaims, TypeOK, Row, Pending
<1> QED
  BY <1>2, <1>3, <1>4, <1>5 DEF Complete, CompleteSuperseded, CompleteMismatched

LEMMA NextClaimsIn ==
  ASSUME NEW W \in SUBSET Tracks, TypeOK, ClaimsIn(W), [Next]_vars PROVE ClaimsIn(W)'
<1>1. CASE AdmitBatch
  BY <1>1, AdmitClaims DEF AdmitBatch, TypeOK, Pending
<1>2. CASE \E t \in Tracks : AdmitInteractive(t)
  BY <1>2, AdmitClaims DEF AdmitInteractive, Pending
<1>3. CASE UNCHANGED rows
  BY <1>3 DEF ClaimsIn
<1>4. CASE \E S \in SUBSET Tracks : ReleaseUncounted(S) \/ ReleaseCounted(S)
  <2>1. Unclaims
    BY <1>4, ReleasedUnclaims DEF ReleaseUncounted, ReleaseCounted, Unclaims, TypeOK, Pending
  <2> QED
    BY <2>1, UnclaimsKeepsClaims
<1>5. CASE \E t \in Tracks : CooldownEnds(t)
  <2>1. Unclaims
    BY <1>5 DEF CooldownEnds, Unclaims, TypeOK, Row
  <2> QED
    BY <2>1, UnclaimsKeepsClaims
<1>6. CASE \E j \in jobs : Complete(j)
  BY <1>6, CompleteUnclaims, UnclaimsKeepsClaims
<1>7. CASE \E new \in [Tracks -> ScanMedia], rebase \in BOOLEAN : PublishGeneration(new, rebase)
  <2>1. Unclaims
    BY <1>7, StaledUnclaims DEF PublishGeneration, Unclaims, TypeOK
  <2> QED
    BY <2>1, UnclaimsKeepsClaims
<1>8. CASE \E S \in SUBSET Tracks : WithdrawOrphans(S)
  <2>1. Unclaims
    BY <1>8, StaledUnclaims DEF WithdrawOrphans, Unclaims, TypeOK
  <2> QED
    BY <2>1, UnclaimsKeepsClaims
<1>9. CASE SelectBatch \/ (\E t \in Tracks : StartAnalysis(t)) \/ WorkerCrash \/ Edges
           \/ (\E t \in Tracks : RepublishReady(t)) \/ UpgradeAnalyzer \/ UNCHANGED vars
  <2>1. UNCHANGED rows
    BY <1>9 DEF SelectBatch, StartAnalysis, WorkerCrash, Edges, ClaimEdge, FailEdge,
                PublishEdge, PurgeEdges, RepublishReady, UpgradeAnalyzer, vars
  <2> QED
    BY <1>3, <2>1
<1> QED
  BY <1>1, <1>2, <1>4, <1>5, <1>6, <1>7, <1>8, <1>9 DEF Next, Attempts, Publications

LEMMA NextClaims == ASSUME TypeOK, PendingIffClaimed, [Next]_vars PROVE PendingIffClaimed'
<1>1. ClaimsIn(Tracks)'
  BY NextClaimsIn, ClaimsInAll
<1> QED
  BY <1>1 DEF PendingIffClaimed, ClaimsIn

\* A row is pending exactly while it holds a claim no other row holds.
THEOREM ClaimsAreExclusive == Spec => []PendingIffClaimed
<1>1. Init => PendingIffClaimed
  BY DEF Init, PendingIffClaimed, NoRow, Pending
<1>2. TypeOK /\ PendingIffClaimed /\ [Next]_vars => PendingIffClaimed'
  BY NextClaims
<1> QED
  BY <1>1, <1>2, TypeCorrect, PTL DEF Spec

\* After an upgrade, too, a claim is a pending row's and no other row's; the rows
\* 1.2.5 left pending have none.
Exclusive == ClaimsIn({})

LEMMA ClaimsStayExclusive == (Spec => []Exclusive) /\ (UpgradeSpec => []Exclusive)
<1>1. Init => Exclusive
  BY DEF Init, Exclusive, ClaimsIn, NoRow
<1>2. UpgradeInit => Exclusive
  <2>1. UpgradeInit => \A t \in Tracks : rows[t].token = None
    BY OldRowsAre DEF UpgradeInit
  <2> QED
    BY <2>1 DEF Exclusive, ClaimsIn
<1>3. TypeOK /\ Exclusive /\ [Next]_vars => Exclusive'
  BY NextClaimsIn DEF Exclusive
<1>4. Spec => []Exclusive
  BY <1>1, <1>3, TypeCorrect, PTL DEF Spec
<1>5. UpgradeSpec => []Exclusive
  BY <1>2, <1>3, TypeCorrect, PTL DEF UpgradeSpec
<1> QED
  BY <1>4, <1>5

-----------------------------------------------------------------------------
(* What a step does to the public rows.                                     *)

LEMMA PublishedAfterUnpublish ==
  ASSUME NEW W, Unpublish(W), NEW t \in Tracks
  PROVE  /\ published'[t] = IF t \in W THEN None ELSE published[t]
         /\ feed'[t] = IF t \in W THEN None ELSE feed[t]
BY DEF Unpublish

LEMMA PublishedAfterPublish ==
  ASSUME TypeOK, NEW t \in Tracks, NEW profile, Publish(t, profile), NEW u \in Tracks
  PROVE  published'[u] = IF u = t THEN profile ELSE published[u]
BY DEF Publish, TypeOK

\* Every step takes a published row only in one of these ways.
Publishes(t) ==
    /\ rows[t].status = "ready" \/ rows'[t].status = "ready"
    /\ Revision(t) # None
    /\ UNCHANGED catalog
    /\ published'[t] \in Profile /\ published'[t].media = Revision(t)

Withdraws(t) ==
    /\ published'[t] = None
    /\ catalog'[t] = Gone \/ KnownDifferent(published[t].media, catalog'[t])

PublicStep(t) ==
    \/ published'[t] = published[t]
    \/ Publishes(t)
    \/ Withdraws(t)

LEMMA RevisionIsCatalog ==
  ASSUME NEW t, Revision(t) # None PROVE Revision(t) = catalog[t] /\ catalog[t] \in Medias
BY DEF Revision

LEMMA KnownDifferentPublished ==
  ASSUME TypeOK, NEW t \in Tracks, NEW m, KnownDifferent(PublishedMedia(t), m)
  PROVE  published[t] # None /\ KnownDifferent(published[t].media, m)
BY ConstantsAssumption DEF KnownDifferent, PublishedMedia

LEMMA AdmitPublic ==
  ASSUME TypeOK, NEW S \in SUBSET Tracks, NEW status, Admit(S, status), NEW t \in Tracks
  PROVE  PublicStep(t) /\ UNCHANGED catalog
<1> DEFINE known == {u \in S : Revision(u) # None}
           replaced == {u \in known : KnownDifferent(PublishedMedia(u), Revision(u))}
<1>1. Unpublish(replaced) /\ UNCHANGED catalog
  BY Zenon DEF Admit, catalogVars
<1>2. CASE t \in replaced
  <2>1. published'[t] = None
    BY <1>1, <1>2, PublishedAfterUnpublish
  <2>2. KnownDifferent(published[t].media, catalog'[t])
    BY <1>1, <1>2, KnownDifferentPublished, RevisionIsCatalog
  <2> QED
    BY <1>1, <2>1, <2>2 DEF PublicStep, Withdraws
<1>3. CASE t \notin replaced
  BY <1>1, <1>3, PublishedAfterUnpublish DEF PublicStep
<1> QED
  BY <1>1, <1>2, <1>3

LEMMA CompletePublic ==
  ASSUME TypeOK, NEW j \in jobs, Complete(j), NEW t \in Tracks
  PROVE  PublicStep(t) /\ UNCHANGED catalog
<1>1. j.track \in Tracks /\ UNCHANGED catalog
  BY DEF TypeOK, Job, Complete, catalogVars
<1>2. CASE UNCHANGED published
  BY <1>1, <1>2 DEF PublicStep
<1>3. CASE CompleteChanged(j)
  <2> DEFINE gone == ~Available(j.track) /\ published[j.track] # None
             replaced == KnownDifferent(PublishedMedia(j.track), Revision(j.track))
             W == IF gone \/ replaced THEN {j.track} ELSE {}
  <2>1. Unpublish(W)
    BY <1>3 DEF CompleteChanged
  <2>2. CASE t \in W
    <3>1. t = j.track /\ published'[t] = None
      BY <2>1, <2>2, PublishedAfterUnpublish
    <3>2. CASE gone
      BY <1>1, <3>1, <3>2 DEF Available, PublicStep, Withdraws
    <3>3. CASE replaced
      <4>1. KnownDifferent(published[t].media, Revision(t))
        BY <1>1, <3>1, <3>3, KnownDifferentPublished
      <4>2. Revision(t) # None
        BY <4>1, ConstantsAssumption DEF KnownDifferent
      <4> QED
        BY <1>1, <3>1, <4>1, <4>2, RevisionIsCatalog DEF PublicStep, Withdraws
    <3> QED
      BY <2>2, <3>2, <3>3
  <2>3. CASE t \notin W
    BY <1>1, <2>1, <2>3, PublishedAfterUnpublish DEF PublicStep
  <2> QED
    BY <1>1, <2>2, <2>3
<1>4. CASE CompleteReady(j)
  <2> DEFINE profile == [media |-> j.media, ver |-> j.ver]
  <2>1. Publish(j.track, profile) /\ Revision(j.track) # None
        /\ j.media = Revision(j.track) /\ rows'[j.track].status = "ready"
    BY <1>1, <1>4 DEF CompleteReady, TypeOK, Row
  <2>2. profile \in Profile
    BY <2>1, RevisionIsCatalog DEF Profile, TypeOK, Job
  <2> QED
    BY <1>1, <2>1, <2>2, PublishedAfterPublish DEF PublicStep, Publishes
<1>5. CASE \E category \in {"transient", "revision"} : CompleteFailed(j, category)
  BY <1>2, <1>5 DEF CompleteFailed, publicVars
<1> QED
  BY <1>2, <1>3, <1>4, <1>5 DEF Complete, CompleteSuperseded, CompleteMismatched, publicVars

LEMMA RepublishPublic ==
  ASSUME TypeOK, NEW u \in Tracks, RepublishReady(u), NEW t \in Tracks
  PROVE  PublicStep(t) /\ UNCHANGED catalog
<1> DEFINE profile == [media |-> rows[u].media, ver |-> rows[u].ver]
<1>1. /\ Publish(u, profile) /\ UNCHANGED catalog
      /\ Revision(u) # None /\ rows[u].media = Revision(u) /\ rows[u].status = "ready"
  BY DEF RepublishReady, ReadyUnpublished, catalogVars
<1>2. profile \in Profile
  BY <1>1, RevisionIsCatalog DEF Profile, TypeOK, Row
<1> QED
  BY <1>1, <1>2, PublishedAfterPublish DEF PublicStep, Publishes

LEMMA GenerationPublic ==
  ASSUME TypeOK, NEW new \in [Tracks -> ScanMedia], NEW rebase \in BOOLEAN,
         PublishGeneration(new, rebase), NEW t \in Tracks
  PROVE  /\ published'[t] = published[t] \/ Withdraws(t)
         /\ StalePublication(t)' => catalog'[t] = catalog[t] /\ published'[t] = published[t]
<1> DEFINE changed == IF rebase THEN {u \in Tracks : published[u] # None}
                      ELSE {u \in Tracks : new[u] # catalog[u]}
           stale(u) == u \in changed
                       /\ (new[u] = Gone \/ KnownDifferent(PublishedMedia(u), new[u]))
           W == {u \in Tracks : published[u] # None /\ stale(u)}
<1>1. Unpublish(W) /\ catalog' = new
  BY DEF PublishGeneration
<1>2. published'[t] = IF t \in W THEN None ELSE published[t]
  BY <1>1, PublishedAfterUnpublish
<1>3. CASE t \in W
  BY <1>1, <1>2, <1>3 DEF Withdraws, StalePublication, PublishedMedia
<1>4. CASE t \notin W
  <2>1. published'[t] = published[t]
    BY <1>2, <1>4
  <2>2. ASSUME StalePublication(t)' PROVE t \notin changed
    BY <1>1, <1>4, <2>1, <2>2 DEF StalePublication, Available, PublishedMedia
  <2>3. ASSUME StalePublication(t)' PROVE catalog'[t] = catalog[t]
    BY <1>1, <2>1, <2>2, <2>3 DEF StalePublication
  <2> QED
    BY <2>1, <2>3
<1> QED
  BY <1>3, <1>4

LEMMA OrphansPublic ==
  ASSUME TypeOK, NEW S \in SUBSET Tracks, WithdrawOrphans(S), NEW t \in Tracks
  PROVE  PublicStep(t) /\ UNCHANGED catalog
<1>1. Unpublish(S) /\ UNCHANGED catalog
  BY DEF WithdrawOrphans, catalogVars
<1>2. CASE t \in S
  BY <1>1, <1>2, PublishedAfterUnpublish
  DEF WithdrawOrphans, Orphan, Available, PublicStep, Withdraws
<1>3. CASE t \notin S
  BY <1>1, <1>3, PublishedAfterUnpublish DEF PublicStep
<1> QED
  BY <1>2, <1>3, <1>1

\* Every step but a catalogue publication leaves the catalogue and takes each
\* published row in a way PublicStep allows.
LEMMA NextPublic ==
  ASSUME TypeOK, [Next]_vars, NEW t \in Tracks
  PROVE  \/ PublicStep(t) /\ UNCHANGED catalog
         \/ /\ published'[t] = published[t] \/ Withdraws(t)
            /\ StalePublication(t)' => catalog'[t] = catalog[t] /\ published'[t] = published[t]
<1>1. CASE AdmitBatch
  BY <1>1, AdmitPublic DEF AdmitBatch, TypeOK
<1>2. CASE \E u \in Tracks : AdmitInteractive(u)
  BY <1>2, AdmitPublic DEF AdmitInteractive
<1>3. CASE \E j \in jobs : Complete(j)
  BY <1>3, CompletePublic
<1>4. CASE \E new \in [Tracks -> ScanMedia], rebase \in BOOLEAN : PublishGeneration(new, rebase)
  BY <1>4, GenerationPublic
<1>5. CASE \E S \in SUBSET Tracks : WithdrawOrphans(S)
  BY <1>5, OrphansPublic
<1>6. CASE \E u \in Tracks : RepublishReady(u)
  BY <1>6, RepublishPublic
<1>7. CASE UNCHANGED <<published, catalog>>
  BY <1>7 DEF PublicStep
<1>8. CASE SelectBatch \/ (\E S \in SUBSET Tracks : ReleaseUncounted(S) \/ ReleaseCounted(S))
           \/ (\E u \in Tracks : CooldownEnds(u) \/ StartAnalysis(u)) \/ WorkerCrash
           \/ Edges \/ UpgradeAnalyzer \/ UNCHANGED vars
  <2>1. UNCHANGED <<published, catalog>>
    BY <1>8 DEF SelectBatch, ReleaseUncounted, ReleaseCounted, CooldownEnds, StartAnalysis,
                WorkerCrash, Edges, ClaimEdge, FailEdge, PublishEdge, PurgeEdges,
                UpgradeAnalyzer, vars, catalogVars, publicVars
  <2> QED
    BY <1>7, <2>1
<1> QED
  BY <1>1, <1>2, <1>3, <1>4, <1>5, <1>6, <1>8 DEF Next, Attempts, Publications

-----------------------------------------------------------------------------
(* The public rows are current, and withdrawn only on proof.                *)

LEMMA NoNewStaleStep ==
  ASSUME TypeOK, [Next]_vars, NEW t \in Tracks, StalePublication(t)'
  PROVE  StalePublication(t)
<1>1. CASE catalog'[t] = catalog[t] /\ published'[t] = published[t]
  BY <1>1 DEF StalePublication, Available, KnownDifferent
<1>2. CASE UNCHANGED catalog /\ Publishes(t)
  <2>1. published'[t].media = catalog'[t] /\ catalog'[t] \in Medias
    BY <1>2, RevisionIsCatalog DEF Publishes
  <2> QED
    BY <2>1, ConstantsAssumption DEF StalePublication, Available, KnownDifferent
<1>3. CASE Withdraws(t)
  BY <1>3 DEF Withdraws, StalePublication
<1> QED
  BY <1>1, <1>2, <1>3, NextPublic DEF PublicStep

\* No step, of any worker, scheduler or publisher, makes a published row stale,
\* also from upgraded rows.
THEOREM NoNewStale == (Spec => NoNewStalePublication) /\ (UpgradeSpec => NoNewStalePublication)
<1>1. TypeOK /\ [Next]_vars
      => [\A t \in Tracks : StalePublication(t)' => StalePublication(t)]_vars
  BY NoNewStaleStep
<1>2. Spec => NoNewStalePublication
  BY <1>1, TypeCorrect, PTL DEF Spec, NoNewStalePublication
<1>3. UpgradeSpec => NoNewStalePublication
  BY <1>1, TypeCorrect, PTL DEF UpgradeSpec, NoNewStalePublication
<1> QED
  BY <1>2, <1>3

\* On a fresh install no published row is of a removed track or replaced media.
THEOREM PublicationIsCurrent == Spec => []PublishedIsCurrent
<1>1. Init => PublishedIsCurrent
  BY DEF Init, PublishedIsCurrent, StalePublication
<1>2. TypeOK /\ PublishedIsCurrent /\ [Next]_vars => PublishedIsCurrent'
  <2> SUFFICES ASSUME TypeOK, PublishedIsCurrent, [Next]_vars, NEW t \in Tracks,
                      StalePublication(t)'
               PROVE  FALSE
    BY DEF PublishedIsCurrent
  <2> QED
    BY NoNewStaleStep DEF PublishedIsCurrent
<1> QED
  BY <1>1, <1>2, TypeCorrect, PTL DEF Spec

\* A published row is withdrawn only on proof, whatever fails or is lost.
THEOREM WithdrawalNeedsProof ==
  (Spec => WithdrawnOnlyOnProof) /\ (UpgradeSpec => WithdrawnOnlyOnProof)
<1> DEFINE Proven ==
      \A t \in Tracks :
        published[t] # None /\ published'[t] = None
        => catalog'[t] = Gone \/ KnownDifferent(published[t].media, catalog'[t])
<1>1. TypeOK /\ [Next]_vars => [Proven]_vars
  <2> SUFFICES ASSUME TypeOK, [Next]_vars, NEW t \in Tracks,
                      published[t] # None, published'[t] = None
               PROVE  catalog'[t] = Gone \/ KnownDifferent(published[t].media, catalog'[t])
    OBVIOUS
  <2>1. ~Publishes(t)
    BY NoneAssumption DEF Publishes
  <2> QED
    BY <2>1, NextPublic DEF PublicStep, Withdraws
<1>2. Spec => WithdrawnOnlyOnProof
  BY <1>1, TypeCorrect, PTL DEF Spec, WithdrawnOnlyOnProof
<1>3. UpgradeSpec => WithdrawnOnlyOnProof
  BY <1>1, TypeCorrect, PTL DEF UpgradeSpec, WithdrawnOnlyOnProof
<1> QED
  BY <1>2, <1>3

-----------------------------------------------------------------------------
(* The journal.  Applied to the end it is what the public tables serve: each *)
(* step that changes a published row or the edge it reaches journals it.    *)

LEMMA FeedUnpublish ==
  ASSUME TypeOK, FeedMatchesPublication, NEW W, Unpublish(W), edges' = edges \/ DropEdges(W)
  PROVE  FeedMatchesPublication'
<1> SUFFICES ASSUME NEW t \in Tracks
             PROVE  feed'[t] = IF published'[t] = None THEN None
                               ELSE [media |-> published'[t].media, ver |-> published'[t].ver,
                                     edge |-> Reachable(t)']
  BY Zenon DEF FeedMatchesPublication
<1>1. CASE t \in W
  BY <1>1, PublishedAfterUnpublish
<1>2. CASE t \notin W
  <2>1. published'[t] = published[t] /\ feed'[t] = feed[t]
    BY <1>2, PublishedAfterUnpublish
  <2>2. edges'[t] = edges[t]
    BY <1>2 DEF DropEdges
  <2>3. Reachable(t)' = Reachable(t)
    BY <2>1, <2>2 DEF Reachable
  <2> QED
    BY <2>1, <2>3 DEF FeedMatchesPublication
<1> QED
  BY <1>1, <1>2

LEMMA FeedPublish ==
  ASSUME TypeOK, FeedMatchesPublication,
         NEW t \in Tracks, NEW profile \in Profile, Publish(t, profile)
  PROVE  FeedMatchesPublication'
<1> DEFINE fresh == Fresh(t, profile)
<1> SUFFICES ASSUME NEW u \in Tracks
             PROVE  feed'[u] = IF published'[u] = None THEN None
                               ELSE [media |-> published'[u].media, ver |-> published'[u].ver,
                                     edge |-> Reachable(u)']
  BY Zenon DEF FeedMatchesPublication
<1>1. CASE u # t
  <2>1. published'[u] = published[u] /\ feed'[u] = feed[u] /\ edges'[u] = edges[u]
    BY <1>1 DEF Publish, TypeOK
  <2>2. Reachable(u)' = Reachable(u)
    BY <2>1 DEF Reachable
  <2> QED
    BY <2>1, <2>2 DEF FeedMatchesPublication
<1>2. CASE u = t
  <2>1. published'[t] = profile /\ profile # None
    BY NoneAssumption DEF Publish, TypeOK
  <2>2. Reachable(t)' = (~fresh /\ Reachable(t))
    <3>1. CASE fresh
      <4>1. edges'[t] = None
        BY <3>1 DEF Publish, TypeOK
      <4> QED
        BY <3>1, <4>1 DEF Reachable
    <3>2. CASE ~fresh
      <4>1. edges' = edges /\ published[t] # None /\ published[t].media = profile.media
        BY <3>2 DEF Publish, Fresh, PublishedMedia
      <4> QED
        BY <2>1, <3>2, <4>1 DEF Reachable
    <3> QED
      BY <3>1, <3>2
  <2>3. CASE feed' = [feed EXCEPT ![t] = [media |-> profile.media, ver |-> profile.ver,
                                          edge |-> ~fresh /\ Reachable(t)]]
    BY <1>2, <2>1, <2>2, <2>3 DEF TypeOK
  <2>4. CASE published[t] = profile /\ feed' = feed
    <3>1. ~fresh
      BY <2>1, <2>4 DEF Fresh, PublishedMedia
    <3>2. feed[t] = [media |-> profile.media, ver |-> profile.ver, edge |-> Reachable(t)]
      BY <2>1, <2>4 DEF FeedMatchesPublication
    <3>3. Reachable(t)' = Reachable(t)
      BY <2>2, <3>1 DEF Reachable
    <3> QED
      BY <1>2, <2>1, <2>4, <3>2, <3>3
  <2> QED
    BY <2>3, <2>4 DEF Publish
<1> QED
  BY <1>1, <1>2

LEMMA FeedComplete ==
  ASSUME TypeOK, FeedMatchesPublication, NEW j \in jobs, Complete(j)
  PROVE  FeedMatchesPublication'
<1>1. CASE UNCHANGED <<published, feed, edges>>
  BY <1>1 DEF FeedMatchesPublication, Reachable
<1>2. CASE CompleteChanged(j)
  <2>1. PICK W : Unpublish(W) /\ DropEdges(W)
    BY <1>2 DEF CompleteChanged
  <2> QED
    BY <2>1, FeedUnpublish
<1>3. CASE CompleteReady(j)
  <2>1. j.track \in Tracks /\ j.media \in Medias /\ j.ver \in Versions
    BY <1>3, RevisionIsCatalog DEF CompleteReady, TypeOK, Job
  <2>2. [media |-> j.media, ver |-> j.ver] \in Profile
    BY <2>1 DEF Profile
  <2> QED
    BY <1>3, <2>1, <2>2, FeedPublish DEF CompleteReady
<1> QED
  BY <1>1, <1>2, <1>3
  DEF Complete, CompleteSuperseded, CompleteMismatched, CompleteFailed, publicVars, edgeVars

LEMMA FeedEdges ==
  ASSUME TypeOK, FeedMatchesPublication, Edges PROVE FeedMatchesPublication'
<1>1. CASE \E t \in Tracks : PublishEdge(t)
  <2>1. PICK t \in Tracks : PublishEdge(t)
    BY <1>1
  <2>2. edge_jobs[t].media \in Medias
    BY <2>1 DEF PublishEdge, TypeOK, EdgeJob
  <2>3. /\ published' = published /\ published[t] # None
        /\ edges' = [edges EXCEPT ![t] = published[t].media]
        /\ feed' = [feed EXCEPT ![t] = [media |-> published[t].media,
                                        ver |-> published[t].ver, edge |-> TRUE]]
    BY <2>1, <2>2, ConstantsAssumption DEF PublishEdge, PublishedMedia
  <2>4. published[t].media # None
    BY <2>3, ConstantsAssumption DEF TypeOK, Profile
  <2> SUFFICES ASSUME NEW u \in Tracks
               PROVE  feed'[u] = IF published'[u] = None THEN None
                                 ELSE [media |-> published'[u].media, ver |-> published'[u].ver,
                                       edge |-> Reachable(u)']
    BY Zenon DEF FeedMatchesPublication
  <2>5. CASE u = t
    <3>1. Reachable(t)' = TRUE
      BY <2>3, <2>4 DEF Reachable, TypeOK
    <3> QED
      BY <2>3, <2>5, <3>1 DEF TypeOK
  <2>6. CASE u # t
    <3>1. Reachable(u)' = Reachable(u)
      BY <2>3, <2>6 DEF Reachable, TypeOK
    <3> QED
      BY <2>3, <2>6, <3>1 DEF TypeOK, FeedMatchesPublication
  <2> QED
    BY <2>5, <2>6
<1>2. CASE PurgeEdges
  <2>1. published' = published /\ feed' = feed
    BY <1>2 DEF PurgeEdges, publicVars
  <2>2. \A t \in Tracks : Reachable(t)' = Reachable(t)
    BY <1>2, <2>1 DEF PurgeEdges, Reachable
  <2> QED
    BY <2>1, <2>2 DEF FeedMatchesPublication
<1>3. CASE UNCHANGED <<published, feed, edges>>
  BY <1>3 DEF FeedMatchesPublication, Reachable
<1> QED
  BY <1>1, <1>2, <1>3 DEF Edges, ClaimEdge, FailEdge, publicVars

LEMMA NextFeed ==
  ASSUME TypeOK, FeedMatchesPublication, [Next]_vars PROVE FeedMatchesPublication'
<1>1. CASE \E S \in SUBSET Tracks, status \in Pending : Admit(S, status)
  BY <1>1, FeedUnpublish, Zenon DEF Admit
<1>2. CASE \E j \in jobs : Complete(j)
  BY <1>2, FeedComplete
<1>3. CASE Edges
  BY <1>3, FeedEdges
<1>4. CASE \E new \in [Tracks -> ScanMedia], rebase \in BOOLEAN : PublishGeneration(new, rebase)
  <2>1. PICK W : Unpublish(W) /\ edges' = edges
    BY <1>4 DEF PublishGeneration, edgeVars
  <2> QED
    BY <2>1, FeedUnpublish
<1>5. CASE \E S \in SUBSET Tracks : WithdrawOrphans(S)
  BY <1>5, FeedUnpublish DEF WithdrawOrphans, edgeVars
<1>6. CASE \E t \in Tracks : RepublishReady(t)
  <2>1. PICK t \in Tracks : RepublishReady(t)
    BY <1>6
  <2>2. [media |-> rows[t].media, ver |-> rows[t].ver] \in Profile
    BY <2>1 DEF RepublishReady, ReadyUnpublished, Revision, TypeOK, Row, Profile
  <2> QED
    BY <2>1, <2>2, FeedPublish DEF RepublishReady
<1>7. CASE UNCHANGED <<published, feed, edges>>
  BY <1>7 DEF FeedMatchesPublication, Reachable
<1>8. CASE AdmitBatch \/ \E t \in Tracks : AdmitInteractive(t)
  <2>1. \E S \in SUBSET Tracks, status \in Pending : Admit(S, status)
    BY <1>8 DEF AdmitBatch, AdmitInteractive, TypeOK, Pending
  <2> QED
    BY <1>1, <2>1
<1>9. CASE SelectBatch \/ (\E S \in SUBSET Tracks : ReleaseUncounted(S) \/ ReleaseCounted(S))
           \/ (\E t \in Tracks : CooldownEnds(t) \/ StartAnalysis(t)) \/ WorkerCrash
           \/ UpgradeAnalyzer \/ UNCHANGED vars
  BY <1>7, <1>9
  DEF SelectBatch, ReleaseUncounted, ReleaseCounted, CooldownEnds, StartAnalysis,
      WorkerCrash, UpgradeAnalyzer, vars, publicVars, edgeVars
<1> QED
  BY <1>2, <1>3, <1>4, <1>5, <1>6, <1>8, <1>9 DEF Next, Attempts, Publications

\* A client that applied the whole journal holds what the public tables serve.
THEOREM JournalIsComplete == Spec => []FeedMatchesPublication
<1>1. Init => FeedMatchesPublication
  BY DEF Init, FeedMatchesPublication
<1>2. TypeOK /\ FeedMatchesPublication /\ [Next]_vars => FeedMatchesPublication'
  BY NextFeed
<1> QED
  BY <1>1, <1>2, TypeCorrect, PTL DEF Spec

-----------------------------------------------------------------------------
(* Edges.  A withdrawn edge never becomes reachable: a first or new profile *)
(* drops it, and an edge published over it is of the published media.       *)

LEMMA PublishEdges ==
  ASSUME TypeOK, NEW t \in Tracks, NEW profile, Publish(t, profile),
         NEW u \in Tracks, edges[u] # None, ~Reachable(u), edges'[u] = edges[u]
  PROVE  ~Reachable(u)'
<1>1. CASE u = t
  <2>1. published[t] # None /\ published[t].media = profile.media
    BY <1>1 DEF Publish, Fresh, TypeOK, PublishedMedia
  <2> QED
    BY <1>1, <2>1 DEF Publish, TypeOK, Reachable
<1>2. CASE u # t
  BY <1>2 DEF Publish, TypeOK, Reachable
<1> QED
  BY <1>1, <1>2

LEMMA NextKeepsEdgesApart ==
  ASSUME TypeOK, [Next]_vars, NEW t \in Tracks,
         edges[t] # None, ~Reachable(t), edges'[t] = edges[t]
  PROVE  ~Reachable(t)'
<1>1. CASE published'[t] = published[t] \/ published'[t] = None
  BY <1>1 DEF Reachable
<1>2. CASE \E j \in jobs : CompleteReady(j)
  BY <1>2, PublishEdges DEF CompleteReady, TypeOK, Job
<1>3. CASE \E u \in Tracks : RepublishReady(u)
  BY <1>3, PublishEdges DEF RepublishReady
<1>4. CASE \E W : Unpublish(W)
  BY <1>1, <1>4, PublishedAfterUnpublish
<1>5. CASE UNCHANGED published
  BY <1>1, <1>5
<1>6. CASE \E j \in jobs : Complete(j)
  BY <1>2, <1>4, <1>5, <1>6
  DEF Complete, CompleteSuperseded, CompleteMismatched, CompleteChanged, CompleteFailed,
      publicVars
<1>7. CASE AdmitBatch \/ \E u \in Tracks : AdmitInteractive(u)
  <2>1. ASSUME NEW S, NEW status, Admit(S, status) PROVE \E W : Unpublish(W)
    BY <2>1, Zenon DEF Admit
  <2> QED
    BY <1>4, <1>7, <2>1 DEF AdmitBatch, AdmitInteractive
<1>8. CASE \E new \in [Tracks -> ScanMedia], rebase \in BOOLEAN : PublishGeneration(new, rebase)
  BY <1>4, <1>8 DEF PublishGeneration
<1>9. CASE \E S \in SUBSET Tracks : WithdrawOrphans(S)
  BY <1>4, <1>9 DEF WithdrawOrphans
<1>10. CASE SelectBatch \/ (\E S \in SUBSET Tracks : ReleaseUncounted(S) \/ ReleaseCounted(S))
           \/ (\E u \in Tracks : CooldownEnds(u) \/ StartAnalysis(u)) \/ WorkerCrash
           \/ Edges \/ UpgradeAnalyzer \/ UNCHANGED vars
  BY <1>5, <1>10
  DEF SelectBatch, ReleaseUncounted, ReleaseCounted, CooldownEnds, StartAnalysis, WorkerCrash,
      Edges, ClaimEdge, FailEdge, PublishEdge, PurgeEdges, UpgradeAnalyzer, vars, publicVars
<1>11. CASE Attempts
  BY <1>6, <1>7, <1>10, <1>11 DEF Attempts
<1>12. CASE Publications
  BY <1>3, <1>10, <1>12, <1>8, <1>9 DEF Publications
<1> QED
  BY <1>10, <1>11, <1>12 DEF Next

\* An edge no published row reaches never becomes reachable again, also one that
\* an upgrade finds.
THEOREM WithdrawnEdgesStayUnreachable ==
  (Spec => NoEdgeResurrection) /\ (UpgradeSpec => NoEdgeResurrection)
<1> DEFINE Stays ==
      \A t \in Tracks : edges[t] # None /\ ~Reachable(t) /\ edges'[t] = edges[t]
                       => ~Reachable(t)'
<1>1. TypeOK /\ [Next]_vars => [Stays]_vars
  BY NextKeepsEdgesApart
<1>2. Spec => NoEdgeResurrection
  BY <1>1, TypeCorrect, PTL DEF Spec, NoEdgeResurrection
<1>3. UpgradeSpec => NoEdgeResurrection
  BY <1>1, TypeCorrect, PTL DEF UpgradeSpec, NoEdgeResurrection
<1> QED
  BY <1>2, <1>3

-----------------------------------------------------------------------------
(* Ready rows.  ReadyIsServed is not inductive: it says nothing of a ready   *)
(* row while the catalogue shows no fingerprint or another one.  The         *)
(* strengthening is that a ready row always has its published row; what can  *)
(* withdraw that one proves the row's own revision replaced and stales it.   *)

ReadyIsPublished ==
    \A t \in Tracks :
      rows[t].status = "ready" =>
        /\ rows[t].media \in Medias /\ rows[t].attempt_media \in {None, rows[t].media}
        /\ published[t] = [media |-> rows[t].media, ver |-> rows[t].ver]

LEMMA ReadyUnchanged ==
  ASSUME ReadyIsPublished, NEW t \in Tracks, rows'[t] = rows[t], published'[t] = published[t],
         rows'[t].status = "ready"
  PROVE  /\ rows'[t].media \in Medias /\ rows'[t].attempt_media \in {None, rows'[t].media}
         /\ published'[t] = [media |-> rows'[t].media, ver |-> rows'[t].ver]
BY DEF ReadyIsPublished

LEMMA AdmitReady ==
  ASSUME TypeOK, ReadyIsPublished, NEW S \in SUBSET Tracks, NEW status \in Pending,
         Admit(S, status)
  PROVE  ReadyIsPublished'
<1> DEFINE known == {t \in S : Revision(t) # None}
           replaced == {t \in known : KnownDifferent(PublishedMedia(t), Revision(t))}
<1>1. PICK token \in [known -> FreshTokens] :
         /\ rows' = [t \in Tracks |->
                       IF t \in known THEN Claimed(t, token[t], status)
                       ELSE IF t \in S /\ Available(t) THEN Deferred(t)
                       ELSE rows[t]]
         /\ Unpublish(replaced)
  BY Zenon DEF Admit
<1>2. ASSUME NEW t \in Tracks, rows'[t].status = "ready"
      PROVE  rows'[t] = rows[t] /\ published'[t] = published[t]
  <2>1. rows[t] \in Row
    BY DEF TypeOK
  <2>2. t \notin known
    BY <1>1, <1>2, <2>1 DEF Claimed, Row, Pending
  <2>3. rows'[t] = rows[t]
    BY <1>1, <1>2, <2>1, <2>2 DEF Deferred, Row
  <2>4. published'[t] = published[t]
    BY <1>1, <2>2, PublishedAfterUnpublish
  <2> QED
    BY <2>3, <2>4
<1> QED
  BY <1>2, ReadyUnchanged DEF ReadyIsPublished

LEMMA CompleteReadyRows ==
  ASSUME TypeOK, ReadyIsPublished, NEW j \in jobs, Complete(j) PROVE ReadyIsPublished'
<1>1. j.track \in Tracks /\ rows[j.track] \in Row
  BY DEF TypeOK, Job
<1> SUFFICES ASSUME NEW t \in Tracks, rows'[t].status = "ready"
             PROVE  /\ rows'[t].media \in Medias
                    /\ rows'[t].attempt_media \in {None, rows'[t].media}
                    /\ published'[t] = [media |-> rows'[t].media, ver |-> rows'[t].ver]
  BY DEF ReadyIsPublished
<1>2. CASE UNCHANGED <<rows, published>>
  BY <1>2, ReadyUnchanged
<1>3. CASE CompleteChanged(j)
  <2>1. t # j.track
    BY <1>1, <1>3 DEF CompleteChanged, Staled, TypeOK, Row
  <2>2. rows'[t] = rows[t]
    BY <1>3, <2>1 DEF CompleteChanged, TypeOK
  <2>3. published'[t] = published[t]
    BY <1>3, <2>1, PublishedAfterUnpublish DEF CompleteChanged
  <2> QED
    BY <2>2, <2>3, ReadyUnchanged
<1>4. CASE CompleteReady(j)
  <2>1. Publish(j.track, [media |-> j.media, ver |-> j.ver])
    BY <1>4 DEF CompleteReady
  <2>2. CASE t = j.track
    <3>1. /\ rows'[t].media = j.media /\ rows'[t].ver = j.ver
          /\ rows'[t].attempt_media = rows[t].attempt_media
          /\ j.media = rows[t].attempt_media /\ j.media \in Medias
      BY <1>1, <1>4, <2>2, RevisionIsCatalog DEF CompleteReady, TypeOK, Row
    <3> QED
      BY <2>1, <2>2, <3>1, PublishedAfterPublish
  <2>3. CASE t # j.track
    <3>1. rows'[t] = rows[t]
      BY <1>4, <2>3 DEF CompleteReady, TypeOK
    <3>2. published'[t] = published[t]
      BY <1>1, <2>1, <2>3, PublishedAfterPublish
    <3> QED
      BY <3>1, <3>2, ReadyUnchanged
  <2> QED
    BY <2>2, <2>3
<1>5. CASE \E category \in {"transient", "revision"} : CompleteFailed(j, category)
  <2>1. t # j.track
    BY <1>1, <1>5 DEF CompleteFailed, TypeOK, Row
  <2>2. rows'[t] = rows[t] /\ published' = published
    BY <1>5, <2>1 DEF CompleteFailed, TypeOK, publicVars
  <2> QED
    BY <2>2, ReadyUnchanged
<1> QED
  BY <1>2, <1>3, <1>4, <1>5 DEF Complete, CompleteSuperseded, CompleteMismatched, publicVars

LEMMA GenerationReady ==
  ASSUME TypeOK, ReadyIsPublished, NEW new \in [Tracks -> ScanMedia], NEW rebase \in BOOLEAN,
         PublishGeneration(new, rebase)
  PROVE  ReadyIsPublished'
<1> DEFINE changed == IF rebase THEN {t \in Tracks : published[t] # None}
                      ELSE {t \in Tracks : new[t] # catalog[t]}
           signature(t) == IF rows[t].attempt_media # None THEN rows[t].attempt_media
                           ELSE rows[t].media
           stale(t, stored) == t \in changed
                               /\ (new[t] = Gone \/ KnownDifferent(stored, new[t]))
           abandoned(t) == \/ rebase /\ rows[t].token # None
                           \/ rows[t].status # "none" /\ stale(t, signature(t))
           W == {t \in Tracks : published[t] # None /\ stale(t, PublishedMedia(t))}
<1>1. /\ rows' = [t \in Tracks |-> IF abandoned(t) THEN Staled(rows[t]) ELSE rows[t]]
      /\ Unpublish(W)
  BY DEF PublishGeneration
<1>2. ASSUME NEW t \in Tracks, rows'[t].status = "ready"
      PROVE  rows'[t] = rows[t] /\ published'[t] = published[t]
  <2>1. rows[t] \in Row
    BY DEF TypeOK
  <2>2. ~abandoned(t) /\ rows'[t] = rows[t]
    <3> HIDE DEF abandoned
    <3> QED
      BY <1>1, <1>2, <2>1 DEF Staled, Row
  <2>3. signature(t) = rows[t].media /\ PublishedMedia(t) = rows[t].media
    <3>1. rows[t].media \in Medias /\ rows[t].attempt_media \in {None, rows[t].media}
      BY <1>2, <2>2 DEF ReadyIsPublished
    <3>2. published[t] = [media |-> rows[t].media, ver |-> rows[t].ver]
      BY <1>2, <2>2 DEF ReadyIsPublished
    <3>3. published[t] # None
      BY <2>1, <3>1, <3>2, NoneAssumption DEF Profile, Row
    <3> QED
      BY <3>1, <3>2, <3>3 DEF PublishedMedia
  <2>4. t \notin W
    BY <1>2, <2>2, <2>3
  <2> QED
    BY <1>1, <2>2, <2>4, PublishedAfterUnpublish
<1> QED
  BY <1>2, ReadyUnchanged DEF ReadyIsPublished

LEMMA NextReady == ASSUME TypeOK, ReadyIsPublished, [Next]_vars PROVE ReadyIsPublished'
<1>1. CASE AdmitBatch \/ \E t \in Tracks : AdmitInteractive(t)
  BY <1>1, AdmitReady DEF AdmitBatch, AdmitInteractive, TypeOK, Pending
<1>2. CASE \E j \in jobs : Complete(j)
  BY <1>2, CompleteReadyRows
<1>3. CASE \E new \in [Tracks -> ScanMedia], rebase \in BOOLEAN : PublishGeneration(new, rebase)
  BY <1>3, GenerationReady
<1>4. CASE \E S \in SUBSET Tracks : ReleaseUncounted(S) \/ ReleaseCounted(S)
  <2>1. ASSUME NEW t \in Tracks, rows'[t].status = "ready" PROVE rows'[t] = rows[t]
    BY <1>4, <2>1, ReleasedUnclaims DEF ReleaseUncounted, ReleaseCounted, TypeOK
  <2>2. UNCHANGED published
    BY <1>4 DEF ReleaseUncounted, ReleaseCounted, publicVars
  <2> QED
    BY <2>1, <2>2 DEF ReadyIsPublished
<1>5. CASE \E t \in Tracks : CooldownEnds(t)
  BY <1>5 DEF CooldownEnds, ReadyIsPublished, TypeOK, Row, publicVars
<1>6. CASE \E S \in SUBSET Tracks : WithdrawOrphans(S)
  <2>1. PICK S \in SUBSET Tracks : WithdrawOrphans(S)
    BY <1>6
  <2>2. ASSUME NEW t \in Tracks, rows'[t].status = "ready"
        PROVE  rows'[t] = rows[t] /\ published'[t] = published[t]
    <3>1. t \notin S
      BY <2>1, <2>2 DEF WithdrawOrphans, Staled, TypeOK, Row
    <3> QED
      BY <2>1, <3>1, PublishedAfterUnpublish DEF WithdrawOrphans
  <2> QED
    BY <2>2, ReadyUnchanged DEF ReadyIsPublished
<1>7. CASE \E t \in Tracks : RepublishReady(t)
  BY <1>7, NoneAssumption DEF RepublishReady, ReadyUnpublished, ReadyIsPublished, TypeOK, Row, Profile
<1>8. CASE UNCHANGED <<rows, published>>
  BY <1>8 DEF ReadyIsPublished
<1>9. CASE SelectBatch \/ (\E t \in Tracks : StartAnalysis(t)) \/ WorkerCrash \/ Edges
           \/ UpgradeAnalyzer \/ UNCHANGED vars
  BY <1>8, <1>9 DEF SelectBatch, StartAnalysis, WorkerCrash, Edges, ClaimEdge, FailEdge,
                    PublishEdge, PurgeEdges, UpgradeAnalyzer, vars, publicVars
<1> QED
  BY <1>1, <1>2, <1>3, <1>4, <1>5, <1>6, <1>7, <1>9 DEF Next, Attempts, Publications

\* A row the scheduler takes as done is served: on a fresh install a 'ready' row of
\* the current media always has its published row.
THEOREM ReadyRowsAreServed == Spec => []ReadyIsServed
<1>1. Init => ReadyIsPublished
  BY DEF Init, ReadyIsPublished, NoRow
<1>2. TypeOK /\ ReadyIsPublished /\ [Next]_vars => ReadyIsPublished'
  BY NextReady
<1>3. ReadyIsPublished => ReadyIsServed
  BY DEF ReadyIsPublished, ReadyIsServed
<1> QED
  BY <1>1, <1>2, <1>3, TypeCorrect, PTL DEF Spec

-----------------------------------------------------------------------------
(* The retry budget, while no newer analyzer is installed.  The history is    *)
(* bounded by the counter that shares its losses, which restarts only where   *)
(* the history is empty; a claim of the backfill is made with room for one    *)
(* more loss, and a batch that was read keeps that room until it is admitted. *)

WithinBudget(t) ==
    LET row == rows[t] IN
    /\ row.status \in {"none", "ready"} => losses[t] = 0
    /\ row.status # "none" => row.ver = 1
    /\ row.status = "deferred" => row.attempt_media = None
    /\ row.token # None => /\ row.attempt_media \in Medias /\ row.attempt_ver = 1
                           /\ catalog[t] \in {row.attempt_media, None}
    /\ row.status \in Pending /\ row.token = None => row.attempt_media = None /\ losses[t] = 0
    /\ row.retry_media # None => row.retry_ver = 1
    /\ catalog[t] \in Medias /\ row.retry_media # catalog[t] => losses[t] = 0
    /\ losses[t] <= row.count
    /\ row.status = "pending" => losses[t] < RetryLimit
    /\ t \in batch => /\ row.status # "pending"
                      /\ losses[t] < RetryLimit \/ row.attempt_media = None

BudgetInv == \A t \in Tracks : WithinBudget(t)

LEMMA RowNumbers ==
  ASSUME TypeOK, NEW t \in Tracks
  PROVE  /\ rows[t] \in Row /\ rows[t].count \in Nat /\ rows[t].count <= RetryLimit
         /\ losses[t] \in Nat /\ RetryLimit \in Nat /\ RetryLimit > 0
BY ConstantsAssumption DEF TypeOK, Row, Counts

\* Nothing of what the budget says of t changes but, perhaps, that it leaves a batch
\* and that its history is forgotten.
LEMMA BudgetUnchanged ==
  ASSUME TypeOK, NEW t \in Tracks, WithinBudget(t), rows'[t] = rows[t],
         catalog'[t] = catalog[t], losses'[t] \in {0, losses[t]}, t \in batch' => t \in batch
  PROVE  WithinBudget(t)'
BY RowNumbers DEF WithinBudget

LEMMA AdmitBudget ==
  ASSUME TypeOK, BudgetInv, version = 1, NEW S \in SUBSET Tracks, NEW status \in Pending,
         Admit(S, status), batch' \subseteq batch,
         status = "pending" => S = batch /\ batch' = {}
  PROVE  BudgetInv'
<1> DEFINE known == {t \in S : Revision(t) # None}
<1>1. PICK token \in [known -> FreshTokens] :
         /\ rows' = [t \in Tracks |->
                       IF t \in known THEN Claimed(t, token[t], status)
                       ELSE IF t \in S /\ Available(t) THEN Deferred(t)
                       ELSE rows[t]]
         /\ losses' = [t \in Tracks |->
                         IF t \in known
                            /\ \/ rows[t].attempt_media # Revision(t)
                               \/ rows[t].attempt_ver # version
                         THEN 0 ELSE losses[t]]
  BY Zenon DEF Admit
<1>2. catalog' = catalog
  BY DEF Admit, catalogVars
<1> SUFFICES ASSUME NEW t \in Tracks PROVE WithinBudget(t)'
  BY DEF BudgetInv
<1>3. WithinBudget(t) /\ rows[t] \in Row
  BY DEF BudgetInv, TypeOK
<1>4. CASE t \in known
  <2> DEFINE row == rows[t]
  <2>1. Revision(t) = catalog[t] /\ catalog[t] \in Medias
    BY <1>4, RevisionIsCatalog
  <2>2. /\ rows'[t].status = status /\ rows'[t].token = token[t]
        /\ rows'[t].attempt_media = Revision(t) /\ rows'[t].attempt_ver = 1
        /\ rows'[t].ver = IF row.status = "none" THEN 1 ELSE row.ver
        /\ rows'[t].retry_media = row.retry_media /\ rows'[t].retry_ver = row.retry_ver
        /\ rows'[t].count = IF row.retry_media # Revision(t) \/ row.retry_ver # 1
                            THEN 0 ELSE row.count
    BY <1>1, <1>3, <1>4 DEF Claimed, Row
  <2>3. losses'[t] = IF row.attempt_media # Revision(t) \/ row.attempt_ver # 1
                     THEN 0 ELSE losses[t]
    BY <1>1, <1>4
  <2>4. losses'[t] <= rows'[t].count
    BY <1>3, <2>1, <2>2, <2>3, RowNumbers, ConstantsAssumption DEF WithinBudget
  <2>5. status = "pending" => losses'[t] < RetryLimit
    BY <1>3, <1>4, <2>1, <2>3, RowNumbers, ConstantsAssumption DEF WithinBudget
  <2>6. t \in batch' => status # "pending"
                        /\ (losses'[t] < RetryLimit \/ rows'[t].attempt_media = None)
    BY <1>3, <2>1, <2>2, <2>3, RowNumbers, ConstantsAssumption DEF WithinBudget
  <2>7. catalog'[t] \in Medias /\ rows'[t].retry_media # catalog'[t] => losses'[t] = 0
    BY <1>2, <1>3, <2>2, <2>3 DEF WithinBudget
  <2>8. status \notin {"none", "ready", "deferred"}
    BY DEF Pending
  <2>9. token[t] # None
    BY <1>1, <1>4, ConstantsAssumption DEF FreshTokens
  <2> QED
    BY <2>9, <1>2, <1>3, <2>1, <2>2, <2>4, <2>5, <2>6, <2>7, <2>8 DEF WithinBudget
<1>5. CASE t \notin known /\ rows'[t] = Deferred(t)
  <2>1. /\ rows'[t].status = "deferred" /\ rows'[t].token = None
        /\ rows'[t].attempt_media = None
        /\ rows'[t].ver = IF rows[t].status = "none" THEN 1 ELSE rows[t].ver
        /\ rows'[t].retry_media = rows[t].retry_media /\ rows'[t].retry_ver = rows[t].retry_ver
        /\ rows'[t].count = rows[t].count
    BY <1>3, <1>5 DEF Deferred, Row
  <2>2. losses'[t] = losses[t]
    BY <1>1, <1>5
  <2> QED
    BY <1>2, <1>3, <2>1, <2>2 DEF WithinBudget, Pending
<1>6. CASE t \notin known /\ rows'[t] = rows[t]
  BY <1>1, <1>2, <1>3, <1>6, BudgetUnchanged
<1> QED
  BY <1>1, <1>4, <1>5, <1>6

\* A row that is given up, counted (in the history only for the backfill) or not.
LEMMA LostBudget ==
  ASSUME TypeOK, NEW t \in Tracks, WithinBudget(t),
         rows[t].token # None \/ rows[t].status \in Pending,
         catalog'[t] = catalog[t], t \in batch' => t \in batch,
         rows'[t].status \in {"stale", "failed"}, rows'[t].token = None,
         rows'[t].retry_media = rows[t].attempt_media,
         rows'[t].retry_ver = rows[t].attempt_ver, rows'[t].ver = 1,
         rows'[t].attempt_media = rows[t].attempt_media,
         \/ rows'[t].count = rows[t].count /\ losses'[t] = losses[t]
         \/ /\ rows'[t].count = Bump(rows[t].count)
            /\ losses'[t] = IF /\ rows[t].status = "pending" /\ rows[t].attempt_media # None
                               /\ losses[t] <= RetryLimit
                            THEN losses[t] + 1 ELSE losses[t]
  PROVE  WithinBudget(t)'
<1>1. losses'[t] <= rows'[t].count
  BY RowNumbers DEF WithinBudget, Bump
<1>2. t \in batch' => losses'[t] < RetryLimit \/ rows'[t].attempt_media = None
  BY DEF WithinBudget
<1>3. losses'[t] = 0 \/ ~(catalog'[t] \in Medias /\ rows'[t].retry_media # catalog'[t])
  BY ConstantsAssumption DEF WithinBudget
<1> QED
  BY <1>1, <1>2, <1>3 DEF WithinBudget, Pending

\* A row whose stale transition drops its claim.
LEMMA StaledBudget ==
  ASSUME TypeOK, NEW t \in Tracks, WithinBudget(t), rows[t].status # "none",
         rows'[t] = Staled(rows[t]), losses'[t] \in {0, losses[t]},
         catalog'[t] \in Medias /\ rows[t].retry_media # catalog'[t] => losses'[t] = 0,
         t \in batch' => t \in batch
  PROVE  WithinBudget(t)'
<1>1. /\ rows'[t].status = "stale" /\ rows'[t].token = None
      /\ rows'[t].attempt_media = rows[t].attempt_media
      /\ rows'[t].ver = rows[t].ver /\ rows'[t].count = rows[t].count
      /\ rows'[t].retry_media = rows[t].retry_media /\ rows'[t].retry_ver = rows[t].retry_ver
  BY RowNumbers DEF Staled, Row
<1> QED
  BY <1>1, RowNumbers DEF WithinBudget, Pending

LEMMA ReleaseBudget ==
  ASSUME TypeOK, Exclusive, BudgetInv, NEW S \in SUBSET Tracks,
         ReleaseUncounted(S) \/ ReleaseCounted(S)
  PROVE  BudgetInv'
<1> SUFFICES ASSUME NEW t \in Tracks PROVE WithinBudget(t)'
  BY DEF BudgetInv
<1>1. WithinBudget(t) /\ catalog' = catalog /\ batch' = batch
  BY DEF BudgetInv, ReleaseUncounted, ReleaseCounted, catalogVars
<1>2. CASE t \notin S
  <2>1. rows'[t] = rows[t] /\ losses'[t] = losses[t]
    BY <1>2 DEF ReleaseUncounted, ReleaseCounted, Lose
  <2> QED
    BY <1>1, <2>1, BudgetUnchanged
<1>3. ASSUME t \in S, NEW used \in {0, 1}, rows'[t] = Released(rows[t], used),
             losses'[t] = IF /\ used = 1 /\ rows[t].status = "pending"
                             /\ rows[t].attempt_media # None /\ losses[t] <= RetryLimit
                          THEN losses[t] + 1 ELSE losses[t]
      PROVE  WithinBudget(t)'
  <2>1. rows[t].status \in Pending
    BY <1>3 DEF ReleaseUncounted, ReleaseCounted, IsClaimed
  <2>2. /\ rows'[t].status = "stale" /\ rows'[t].token = None
        /\ rows'[t].retry_media = rows[t].attempt_media
        /\ rows'[t].retry_ver = rows[t].attempt_ver
        /\ rows'[t].attempt_media = rows[t].attempt_media
        /\ rows'[t].ver = rows[t].ver
        /\ rows'[t].count = IF used = 1 THEN Bump(rows[t].count) ELSE rows[t].count
    BY <1>3, RowNumbers DEF Released, Row
  <2>3. rows[t].ver = 1
    BY <1>1, <2>1 DEF WithinBudget, Pending
  <2> QED
    BY <1>1, <1>3, <2>1, <2>2, <2>3, LostBudget
<1>4. CASE t \in S /\ ReleaseUncounted(S)
  BY <1>3, <1>4 DEF ReleaseUncounted
<1>5. CASE t \in S /\ ReleaseCounted(S)
  BY <1>3, <1>5 DEF ReleaseCounted, Lose
<1> QED
  BY <1>2, <1>4, <1>5

LEMMA CompleteBudget ==
  ASSUME TypeOK, Exclusive, BudgetInv, NEW j \in jobs, Complete(j)
  PROVE  BudgetInv'
<1>1. j.track \in Tracks /\ j.token # None /\ rows[j.track] \in Row
  BY ConstantsAssumption DEF TypeOK, Job
<1>2. catalog' = catalog /\ batch' = batch
  BY DEF Complete, catalogVars
<1> SUFFICES ASSUME NEW t \in Tracks PROVE WithinBudget(t)'
  BY DEF BudgetInv
<1>3. WithinBudget(t)
  BY DEF BudgetInv
<1>4. CASE rows'[t] = rows[t] /\ losses'[t] = losses[t]
  BY <1>2, <1>3, <1>4, BudgetUnchanged
<1>5. CASE CompleteChanged(j) /\ t = j.track
  <2>1. rows'[t] = Staled(rows[t]) /\ losses' = losses
    BY <1>1, <1>5 DEF CompleteChanged, TypeOK
  <2>2. rows[t].status # "none"
    BY <1>1, <1>5 DEF CompleteChanged, Holds, Exclusive, ClaimsIn, Pending
  <2> QED
    BY <1>2, <1>3, <2>1, <2>2, StaledBudget DEF WithinBudget
<1>6. CASE CompleteReady(j) /\ t = j.track
  <2>1. /\ rows'[t].status = "ready" /\ rows'[t].token = None
        /\ rows'[t].ver = j.ver /\ rows'[t].count = 0 /\ rows'[t].retry_media = None
        /\ losses'[t] = 0
    BY <1>1, <1>6, RowNumbers DEF CompleteReady, TypeOK, Row
  <2>2. j.ver = 1
    BY <1>1, <1>3, <1>6 DEF CompleteReady, Holds, WithinBudget
  <2> QED
    BY <1>3, <2>1, <2>2, RowNumbers DEF WithinBudget, Pending
<1>7. ASSUME NEW category \in {"transient", "revision"}, CompleteFailed(j, category), t = j.track
      PROVE  WithinBudget(t)'
  <2>1. /\ rows'[t].status = "failed" /\ rows'[t].token = None
        /\ rows'[t].ver = j.ver /\ rows'[t].count = Bump(rows[t].count)
        /\ rows'[t].retry_media = rows[t].attempt_media /\ rows'[t].retry_ver = j.ver
        /\ rows'[t].attempt_media = rows[t].attempt_media
    BY <1>1, <1>7 DEF CompleteFailed, TypeOK, Row
  <2>2. losses'[t] = IF /\ rows[t].status = "pending" /\ rows[t].attempt_media # None
                        /\ losses[t] <= RetryLimit
                     THEN losses[t] + 1 ELSE losses[t]
    BY <1>7 DEF CompleteFailed, Lose
  <2>3. rows[t].token # None /\ j.ver = rows[t].attempt_ver /\ rows[t].attempt_ver = 1
    BY <1>1, <1>3, <1>7 DEF CompleteFailed, Holds, WithinBudget
  <2> QED
    BY <1>2, <1>3, <2>1, <2>2, <2>3, LostBudget
<1>8. CASE t # j.track
  <2>1. rows'[t] = rows[t]
    BY <1>8 DEF Complete, CompleteSuperseded, CompleteChanged, CompleteMismatched,
                CompleteReady, CompleteFailed, TypeOK
  <2>2. losses'[t] = losses[t]
    BY <1>8 DEF Complete, CompleteSuperseded, CompleteChanged, CompleteMismatched,
                CompleteReady, CompleteFailed, Lose, TypeOK
  <2> QED
    BY <1>4, <2>1, <2>2
<1> QED
  BY <1>4, <1>5, <1>6, <1>7, <1>8 DEF Complete, CompleteSuperseded, CompleteMismatched

LEMMA GenerationBudget ==
  ASSUME TypeOK, Exclusive, BudgetInv, NEW new \in [Tracks -> ScanMedia],
         NEW rebase \in BOOLEAN, PublishGeneration(new, rebase)
  PROVE  BudgetInv'
<1> DEFINE changed == IF rebase THEN {t \in Tracks : published[t] # None}
                      ELSE {t \in Tracks : new[t] # catalog[t]}
           signature(t) == IF rows[t].attempt_media # None THEN rows[t].attempt_media
                           ELSE rows[t].media
           stale(t, stored) == t \in changed
                               /\ (new[t] = Gone \/ KnownDifferent(stored, new[t]))
           abandoned(t) == \/ rebase /\ rows[t].token # None
                           \/ rows[t].status # "none" /\ stale(t, signature(t))
<1>1. /\ rows' = [t \in Tracks |-> IF abandoned(t) THEN Staled(rows[t]) ELSE rows[t]]
      /\ catalog' = new /\ batch' = batch
      /\ losses' = [t \in Tracks |->
                      IF new[t] \in Medias /\ new[t] # rows[t].retry_media
                      THEN 0 ELSE losses[t]]
  BY DEF PublishGeneration
<1> SUFFICES ASSUME NEW t \in Tracks PROVE WithinBudget(t)'
  BY DEF BudgetInv
<1>2. WithinBudget(t)
  BY DEF BudgetInv
<1>3. /\ losses'[t] \in {0, losses[t]}
      /\ catalog'[t] \in Medias /\ rows[t].retry_media # catalog'[t] => losses'[t] = 0
  BY <1>1
<1>4. CASE abandoned(t)
  <2>1. rows[t].status # "none"
    BY <1>4 DEF Exclusive, ClaimsIn, Pending
  <2>2. rows'[t] = Staled(rows[t])
    <3> HIDE DEF abandoned
    <3> QED
      BY <1>1, <1>4
  <2> QED
    BY <1>1, <1>2, <1>3, <2>1, <2>2, StaledBudget
<1>5. CASE ~abandoned(t)
  <2>1. rows'[t] = rows[t]
    <3> HIDE DEF abandoned
    <3> QED
      BY <1>1, <1>5
  <2>2. rows[t].token # None => catalog'[t] \in {rows[t].attempt_media, None}
    <3> SUFFICES ASSUME rows[t].token # None
                 PROVE  new[t] \in {rows[t].attempt_media, None}
      BY <1>1
    <3>1. ~rebase /\ rows[t].status # "none" /\ rows[t].attempt_media \in Medias
          /\ catalog[t] \in {rows[t].attempt_media, None}
      BY <1>2, <1>5 DEF Exclusive, ClaimsIn, Pending, WithinBudget
    <3>2. new[t] = catalog[t] \/ (new[t] # Gone /\ ~KnownDifferent(rows[t].attempt_media, new[t]))
      BY <1>5, <3>1, ConstantsAssumption
    <3>3. new[t] \in Medias \cup {None, Gone}
      BY ConstantsAssumption
    <3> QED
      BY <3>1, <3>2, <3>3 DEF KnownDifferent
  <2> QED
    BY <1>1, <1>2, <1>3, <2>1, <2>2, RowNumbers DEF WithinBudget
<1> QED
  BY <1>4, <1>5

\* What the backfill reads as due has room for one more loss, or its history starts
\* again when it is admitted.
LEMMA DueWithinBudget ==
  ASSUME TypeOK, version = 1, NEW t \in Tracks, WithinBudget(t), Due(t)
  PROVE  /\ rows[t].status # "pending"
         /\ losses[t] < RetryLimit \/ rows[t].attempt_media = None
<1>1. CASE rows[t].status \in {"none", "ready", "deferred"}
  BY <1>1, RowNumbers DEF WithinBudget
<1>2. CASE rows[t].status \in {"stale", "failed"}
  <2>1. rows[t].ver = 1
    BY <1>2 DEF WithinBudget
  <2>2. StaleDue(t) \/ FailureDue(t)
    BY <1>2, <2>1 DEF Due
  <2>3. CASE RevisionChanged(t)
    BY <1>2, <2>3, RowNumbers DEF RevisionChanged, WithinBudget
  <2>4. CASE rows[t].count < RetryLimit
    BY <1>2, <2>4, RowNumbers DEF WithinBudget
  <2>5. ~(rows[t].retry_ver # 0 /\ rows[t].retry_ver < version)
    BY DEF TypeOK, Row, Versions
  <2> QED
    BY <2>2, <2>3, <2>4, <2>5, RowNumbers DEF StaleDue, FailureDue
<1> QED
  BY <1>1, <1>2 DEF Due

LEMMA NextBudget ==
  ASSUME TypeOK, Exclusive, BudgetInv, version = 1, [Next]_vars
  PROVE  BudgetInv'
<1>1. CASE AdmitBatch
  BY <1>1, AdmitBudget DEF AdmitBatch, TypeOK, Pending
<1>2. CASE \E t \in Tracks : AdmitInteractive(t)
  BY <1>2, AdmitBudget DEF AdmitInteractive, Pending
<1>3. CASE SelectBatch
  <2>1. PICK S \in SUBSET {t \in Tracks : Due(t)} : batch' = S
    BY <1>3 DEF SelectBatch
  <2>2. UNCHANGED <<catalog, rows, losses>>
    BY <1>3 DEF SelectBatch, catalogVars
  <2> QED
    BY <2>1, <2>2, DueWithinBudget DEF BudgetInv, WithinBudget
<1>4. CASE \E S \in SUBSET Tracks : ReleaseUncounted(S) \/ ReleaseCounted(S)
  BY <1>4, ReleaseBudget
<1>5. CASE \E t \in Tracks : CooldownEnds(t)
  <2> SUFFICES ASSUME NEW t \in Tracks PROVE WithinBudget(t)'
    BY DEF BudgetInv
  <2>1. UNCHANGED <<catalog, batch, losses>> /\ WithinBudget(t) /\ rows[t] \in Row
    BY <1>5 DEF CooldownEnds, catalogVars, BudgetInv, TypeOK
  <2>2. \/ rows'[t] = rows[t]
        \/ rows'[t] = [rows[t] EXCEPT !.after = "due"]
    BY <1>5 DEF CooldownEnds, TypeOK
  <2> QED
    BY <2>1, <2>2 DEF WithinBudget, Row
<1>6. CASE \E j \in jobs : Complete(j)
  BY <1>6, CompleteBudget
<1>7. CASE \E new \in [Tracks -> ScanMedia], rebase \in BOOLEAN : PublishGeneration(new, rebase)
  BY <1>7, GenerationBudget
<1>8. CASE \E S \in SUBSET Tracks : WithdrawOrphans(S)
  <2> SUFFICES ASSUME NEW t \in Tracks PROVE WithinBudget(t)'
    BY DEF BudgetInv
  <2>1. UNCHANGED <<catalog, batch, losses>> /\ WithinBudget(t)
    BY <1>8 DEF WithdrawOrphans, catalogVars, BudgetInv
  <2>2. \/ rows'[t] = rows[t]
        \/ rows'[t] = Staled(rows[t]) /\ rows[t].status # "none"
    BY <1>8 DEF WithdrawOrphans
  <2>3. catalog'[t] \in Medias /\ rows[t].retry_media # catalog'[t] => losses'[t] = 0
    BY <2>1 DEF WithinBudget
  <2>4. CASE rows'[t] = rows[t]
    BY <2>1, <2>4, BudgetUnchanged
  <2>5. CASE rows'[t] = Staled(rows[t]) /\ rows[t].status # "none"
    BY <2>1, <2>3, <2>5, StaledBudget
  <2> QED
    BY <2>2, <2>4, <2>5
<1>9. CASE UNCHANGED <<catalog, rows, losses, batch>>
  BY <1>9 DEF BudgetInv, WithinBudget
<1>10. CASE (\E t \in Tracks : StartAnalysis(t)) \/ WorkerCrash \/ Edges
            \/ (\E t \in Tracks : RepublishReady(t)) \/ UpgradeAnalyzer \/ UNCHANGED vars
  BY <1>9, <1>10 DEF StartAnalysis, WorkerCrash, Edges, ClaimEdge, FailEdge, PublishEdge,
                     PurgeEdges, RepublishReady, UpgradeAnalyzer, vars, catalogVars
<1> QED
  BY <1>1, <1>2, <1>3, <1>4, <1>5, <1>6, <1>7, <1>8, <1>10 DEF Next, Attempts, Publications

\* As long as no newer analyzer is installed, the backfill loses at most RetryLimit
\* attempts in a row on one media revision, whichever of them failed, were never
\* queued or were recovered, and whatever was published, asked for or withdrawn in
\* between; also where an upgrade from 1.2.5 left its rows.
THEOREM BackfillWithinBudget ==
  /\ Spec /\ [](version = 1) => []RetryBudget
  /\ UpgradeSpec /\ [](version = 1) => []RetryBudget
<1>1. Init => BudgetInv
  BY ConstantsAssumption DEF Init, BudgetInv, WithinBudget, NoRow
<1>2. UpgradeInit => BudgetInv
  <2> SUFFICES ASSUME UpgradeInit, NEW t \in Tracks PROVE WithinBudget(t)
    BY DEF BudgetInv
  <2>1. rows[t] \in OldRows
    BY DEF UpgradeInit
  <2>2. /\ rows[t].token = None /\ rows[t].attempt_media = None
        /\ rows[t].status # "deferred" /\ rows[t].count \in {0, RetryLimit}
        /\ rows[t].status # "none" => rows[t].ver = 1
        /\ rows[t].retry_media # None => rows[t].retry_ver = 1
    BY <2>1, OldRowsAre
  <2>3. losses[t] = 0 /\ t \notin batch
    BY DEF UpgradeInit
  <2> QED
    BY <2>2, <2>3, ConstantsAssumption DEF WithinBudget
<1>3. TypeOK /\ Exclusive /\ BudgetInv /\ version = 1 /\ [Next]_vars => BudgetInv'
  BY NextBudget
<1>4. TypeOK /\ BudgetInv => RetryBudget
  <2> SUFFICES ASSUME TypeOK, BudgetInv, NEW t \in Tracks PROVE losses[t] <= RetryLimit
    BY DEF RetryBudget
  <2> QED
    BY RowNumbers DEF BudgetInv, WithinBudget
<1>5. Spec /\ [](version = 1) => []RetryBudget
  BY <1>1, <1>3, <1>4, TypeCorrect, ClaimsStayExclusive, PTL DEF Spec
<1>6. UpgradeSpec /\ [](version = 1) => []RetryBudget
  BY <1>2, <1>3, <1>4, TypeCorrect, ClaimsStayExclusive, PTL DEF UpgradeSpec
<1> QED
  BY <1>5, <1>6

-----------------------------------------------------------------------------
(* The journal's service.  The refinement needs, besides the invariants      *)
(* above, that no claim is of an older analyzer than the profile it may      *)
(* replace (VersionsGrow).                                                   *)

\* Nothing published or claimed is of a later analyzer than the installed one, and
\* a claim's analyzer is at least that of the track's published profile.
VersionsGrow ==
    \A t \in Tracks :
      /\ published[t] # None => published[t].ver <= version
      /\ rows[t].token # None
         => /\ rows[t].attempt_ver <= version
            /\ published[t] # None => published[t].ver <= rows[t].attempt_ver

\* The step ends t's claim or keeps it, withdraws t or leaves it.
KeepsVersions(t) ==
    /\ published'[t] \in {published[t], None}
    /\ \/ rows'[t].token = None
       \/ /\ rows'[t].token = rows[t].token
          /\ rows'[t].attempt_ver = rows[t].attempt_ver

LEMMA KeepsVersionsGrow ==
  ASSUME TypeOK, VersionsGrow, \A t \in Tracks : KeepsVersions(t),
         version' \in Nat, version <= version'
  PROVE  VersionsGrow'
<1> SUFFICES ASSUME NEW t \in Tracks
             PROVE  /\ published'[t] # None => published'[t].ver <= version'
                    /\ rows'[t].token # None
                       => /\ rows'[t].attempt_ver <= version'
                          /\ published'[t] # None => published'[t].ver <= rows'[t].attempt_ver
  BY Zenon DEF VersionsGrow
<1>1. version \in Nat /\ rows[t].attempt_ver \in Nat
      /\ (published[t] # None => published[t].ver \in Nat)
  BY ConstantsAssumption DEF TypeOK, Versions, Row, Profile
<1> QED
  BY <1>1 DEF KeepsVersions, VersionsGrow

LEMMA AdmitVersions ==
  ASSUME TypeOK, VersionsGrow, NEW S \in SUBSET Tracks, NEW status, Admit(S, status)
  PROVE  VersionsGrow'
<1> DEFINE known == {t \in S : Revision(t) # None}
           replaced == {t \in known : KnownDifferent(PublishedMedia(t), Revision(t))}
<1>1. PICK token \in [known -> FreshTokens] :
         rows' = [t \in Tracks |->
                    IF t \in known THEN Claimed(t, token[t], status)
                    ELSE IF t \in S /\ Available(t) THEN Deferred(t)
                    ELSE rows[t]]
  BY Zenon DEF Admit
<1>2. Unpublish(replaced) /\ version' = version
  BY Zenon DEF Admit
<1> SUFFICES ASSUME NEW t \in Tracks
             PROVE  /\ published'[t] # None => published'[t].ver <= version'
                    /\ rows'[t].token # None
                       => /\ rows'[t].attempt_ver <= version'
                          /\ published'[t] # None => published'[t].ver <= rows'[t].attempt_ver
  BY Zenon DEF VersionsGrow
<1>3. rows[t] \in Row /\ version \in Nat
  BY ConstantsAssumption DEF TypeOK, Versions
<1>4. published'[t] \in {published[t], None}
  BY <1>2, PublishedAfterUnpublish
<1>5. CASE t \in known
  <2>1. rows'[t].attempt_ver = version
    BY <1>1, <1>3, <1>5 DEF Claimed, Row
  <2> QED
    BY <1>2, <1>3, <1>4, <2>1 DEF VersionsGrow
<1>6. CASE t \notin known
  <2>1. rows'[t].token = None \/ rows'[t] = rows[t]
    BY <1>1, <1>3, <1>6 DEF Deferred, Row
  <2> QED
    BY <1>2, <1>4, <2>1 DEF VersionsGrow
<1> QED
  BY <1>5, <1>6

LEMMA CompleteVersions ==
  ASSUME TypeOK, VersionsGrow, NEW j \in jobs, Complete(j) PROVE VersionsGrow'
<1>1. j.track \in Tracks /\ rows[j.track] \in Row /\ version' = version /\ version \in Nat
  BY ConstantsAssumption DEF TypeOK, Job, Complete, Versions
<1>2. CASE CompleteSuperseded(j) \/ CompleteMismatched(j)
  BY <1>1, <1>2, KeepsVersionsGrow
  DEF CompleteSuperseded, CompleteMismatched, KeepsVersions, publicVars
<1>3. CASE CompleteChanged(j)
  <2>1. PICK W : Unpublish(W)
    BY <1>3 DEF CompleteChanged
  <2>2. \A t \in Tracks : KeepsVersions(t)
    BY <1>1, <1>3, <2>1, StaledUnclaims, PublishedAfterUnpublish
    DEF CompleteChanged, KeepsVersions, TypeOK
  <2> QED
    BY <1>1, <2>2, KeepsVersionsGrow
<1>4. CASE CompleteReady(j)
  <2>1. /\ rows'[j.track].token = None
        /\ \A t \in Tracks : t # j.track => rows'[t] = rows[t]
    BY <1>1, <1>4 DEF CompleteReady, TypeOK, Row
  <2>2. /\ published'[j.track].ver = j.ver
        /\ \A t \in Tracks : t # j.track => published'[t] = published[t]
    BY <1>1, <1>4, PublishedAfterPublish DEF CompleteReady
  <2>3. j.ver = rows[j.track].attempt_ver /\ rows[j.track].token # None
    BY <1>4, ConstantsAssumption DEF CompleteReady, Holds, TypeOK, Job
  <2> QED
    BY <1>1, <2>1, <2>2, <2>3 DEF VersionsGrow
<1>5. CASE \E category \in {"transient", "revision"} : CompleteFailed(j, category)
  <2>1. \A t \in Tracks : KeepsVersions(t)
    BY <1>1, <1>5 DEF CompleteFailed, KeepsVersions, TypeOK, Row, publicVars
  <2> QED
    BY <1>1, <2>1, KeepsVersionsGrow
<1> QED
  BY <1>2, <1>3, <1>4, <1>5 DEF Complete

LEMMA NextVersions ==
  ASSUME TypeOK, PendingIffClaimed, VersionsGrow, [Next]_vars PROVE VersionsGrow'
<1>1. CASE AdmitBatch
  BY <1>1, AdmitVersions DEF AdmitBatch, TypeOK
<1>2. CASE \E t \in Tracks : AdmitInteractive(t)
  BY <1>2, AdmitVersions DEF AdmitInteractive
<1>3. CASE \E j \in jobs : Complete(j)
  BY <1>3, CompleteVersions
<1>4. CASE \E t \in Tracks : RepublishReady(t)
  <2>1. PICK t \in Tracks : RepublishReady(t)
    BY <1>4
  <2>2. rows[t].token = None /\ rows[t].ver = version
    BY <2>1 DEF RepublishReady, ReadyUnpublished, PendingIffClaimed, Pending
  <2>3. published'[t].ver = version /\ \A u \in Tracks : u # t => published'[u] = published[u]
    BY <2>1, <2>2, PublishedAfterPublish DEF RepublishReady
  <2>4. rows' = rows /\ version' = version /\ version \in Nat
    BY <2>1, ConstantsAssumption DEF RepublishReady, TypeOK, Versions
  <2> QED
    BY <2>2, <2>3, <2>4 DEF VersionsGrow
<1>5. ASSUME \A t \in Tracks : KeepsVersions(t), version' = version \/ version' = version + 1
      PROVE  VersionsGrow'
  <2>1. version \in Nat
    BY ConstantsAssumption DEF TypeOK, Versions
  <2> QED
    BY <1>5, <2>1, KeepsVersionsGrow
<1>6. CASE \E new \in [Tracks -> ScanMedia], rebase \in BOOLEAN : PublishGeneration(new, rebase)
  <2>1. PICK new \in [Tracks -> ScanMedia], rebase \in BOOLEAN : PublishGeneration(new, rebase)
    BY <1>6
  <2>2. PICK W : Unpublish(W)
    BY <2>1 DEF PublishGeneration
  <2>3. \A t \in Tracks : rows'[t] \in {Staled(rows[t]), rows[t]}
    BY <2>1 DEF PublishGeneration
  <2> QED
    BY <1>5, <2>1, <2>2, <2>3, StaledUnclaims, PublishedAfterUnpublish
    DEF PublishGeneration, KeepsVersions, TypeOK
<1>7. CASE \E S \in SUBSET Tracks : WithdrawOrphans(S)
  <2>1. PICK S \in SUBSET Tracks : WithdrawOrphans(S)
    BY <1>7
  <2>2. \A t \in Tracks : rows'[t] \in {Staled(rows[t]), rows[t]}
    BY <2>1 DEF WithdrawOrphans
  <2> QED
    BY <1>5, <2>1, <2>2, StaledUnclaims, PublishedAfterUnpublish
    DEF WithdrawOrphans, KeepsVersions, TypeOK
<1>8. CASE \E S \in SUBSET Tracks : ReleaseUncounted(S) \/ ReleaseCounted(S)
  <2>1. \A t \in Tracks : KeepsVersions(t)
    BY <1>8, ReleasedUnclaims
    DEF ReleaseUncounted, ReleaseCounted, KeepsVersions, TypeOK, publicVars
  <2> QED
    BY <1>5, <1>8, <2>1 DEF ReleaseUncounted, ReleaseCounted
<1>9. CASE \E t \in Tracks : CooldownEnds(t)
  <2>1. \A t \in Tracks : KeepsVersions(t)
    BY <1>9 DEF CooldownEnds, KeepsVersions, TypeOK, Row, publicVars
  <2> QED
    BY <1>5, <1>9, <2>1 DEF CooldownEnds
<1>10. CASE SelectBatch \/ (\E t \in Tracks : StartAnalysis(t)) \/ WorkerCrash \/ Edges
            \/ UpgradeAnalyzer \/ UNCHANGED vars
  <2>1. UNCHANGED <<rows, published>> /\ (version' = version \/ version' = version + 1)
    BY <1>10 DEF SelectBatch, StartAnalysis, WorkerCrash, Edges, ClaimEdge, FailEdge,
                 PublishEdge, PurgeEdges, UpgradeAnalyzer, vars, publicVars
  <2> QED
    BY <1>5, <2>1 DEF KeepsVersions
<1> QED
  BY <1>1, <1>2, <1>3, <1>4, <1>6, <1>7, <1>8, <1>9, <1>10 DEF Next, Attempts, Publications

-----------------------------------------------------------------------------
(* Every step is a step of the service or a stutter.                        *)

ServiceInv ==
    /\ TypeOK /\ PendingIffClaimed /\ PublishedIsCurrent /\ FeedMatchesPublication
    /\ VersionsGrow

\* What the invariants say of what the client has.
LEMMA FeedFacts ==
  ASSUME ServiceInv, NEW t \in Tracks
  PROVE  /\ feed[t] = None <=> published[t] = None
         /\ feed[t] # None => /\ feed[t].media = published[t].media
                              /\ feed[t].ver = published[t].ver
                              /\ feed[t].edge = Reachable(t)
                              /\ feed[t].media \in Medias
                              /\ catalog[t] # Gone
                              /\ catalog[t] \in Medias => feed[t].media = catalog[t]
<1>1. feed[t] \in Event \cup {None} /\ published[t] \in Profile \cup {None}
  BY DEF ServiceInv, TypeOK
<1>2. feed[t] = IF published[t] = None THEN None
                ELSE [media |-> published[t].media, ver |-> published[t].ver,
                      edge |-> Reachable(t)]
  BY DEF ServiceInv, FeedMatchesPublication
<1>3. published[t] # None => published[t].media \in Medias
  BY <1>1 DEF Profile
<1>4. published[t] # None => /\ catalog[t] # Gone
                             /\ catalog[t] \in Medias => published[t].media = catalog[t]
  BY <1>3 DEF ServiceInv, PublishedIsCurrent, StalePublication, Available, KnownDifferent
<1>5. published[t] # None => feed[t] # None
  <2> DEFINE edge == Reachable(t)
  <2>1. edge \in BOOLEAN
    BY DEF Reachable
  <2> HIDE DEF edge
  <2>2. published[t] # None
        => [media |-> published[t].media, ver |-> published[t].ver, edge |-> edge] \in Event
    BY <1>1, <2>1 DEF Event, Profile
  <2> QED
    BY <1>2, <2>2, NoneAssumption DEF edge
<1> QED
  BY <1>2, <1>3, <1>4, <1>5

\* Nothing is withdrawn outside a catalogue publication.
LEMMA NoWithdrawal ==
  ASSUME ServiceInv, NEW W, Unpublish(W),
         \A t \in Tracks : t \in W => published[t] = None
  PROVE  feed' = feed
<1>1. \A t \in Tracks : t \in W => feed[t] = None
  BY FeedFacts
<1>2. feed = [t \in Tracks |-> feed[t]]
  BY DEF ServiceInv, TypeOK
<1>3. \A t \in Tracks : (IF t \in W THEN None ELSE feed[t]) = feed[t]
  BY <1>1
<1> QED
  BY <1>2, <1>3 DEF Unpublish

LEMMA ReplacedIsStale ==
  ASSUME ServiceInv, NEW t \in Tracks
  PROVE  ~KnownDifferent(PublishedMedia(t), Revision(t))
<1> SUFFICES ASSUME KnownDifferent(PublishedMedia(t), Revision(t)) PROVE FALSE
  OBVIOUS
<1>1. published[t] # None /\ KnownDifferent(published[t].media, Revision(t))
  BY KnownDifferentPublished DEF ServiceInv
<1>2. Revision(t) = catalog[t]
  BY <1>1, ConstantsAssumption DEF KnownDifferent, Revision
<1> QED
  BY <1>1, <1>2 DEF ServiceInv, PublishedIsCurrent, StalePublication

LEMMA AdmitServes ==
  ASSUME ServiceInv, NEW S \in SUBSET Tracks, NEW status, Admit(S, status)
  PROVE  UNCHANGED <<catalog, feed>>
<1> DEFINE known == {t \in S : Revision(t) # None}
           replaced == {t \in known : KnownDifferent(PublishedMedia(t), Revision(t))}
<1>1. Unpublish(replaced) /\ UNCHANGED catalog
  BY Zenon DEF Admit, catalogVars
<1>2. \A t \in Tracks : t \notin replaced
  BY ReplacedIsStale
<1> QED
  BY <1>1, <1>2, NoWithdrawal

\* A published profile of the catalogue's media is a Serve, or journals nothing.
LEMMA PublishServes ==
  ASSUME ServiceInv, NEW t \in Tracks, NEW profile \in Profile, Publish(t, profile),
         profile.media = catalog[t], catalog[t] \in Medias, UNCHANGED catalog,
         published[t] # None => published[t].ver <= profile.ver
  PROVE  Public!Serve(t, profile.ver) \/ feed' = feed
<1>1. Fresh(t, profile) <=> feed[t] = None
  BY FeedFacts DEF Fresh, PublishedMedia
<1>2. (~Fresh(t, profile) /\ Reachable(t)) = (feed[t] # None /\ feed[t].edge)
  BY <1>1, FeedFacts
<1>3. feed[t] # None => feed[t].media = catalog[t] /\ feed[t].ver <= profile.ver
  BY FeedFacts
<1>4. CASE feed' = [feed EXCEPT ![t] = [media |-> profile.media, ver |-> profile.ver,
                                        edge |-> ~Fresh(t, profile) /\ Reachable(t)]]
  BY <1>2, <1>3, <1>4 DEF Public!Serve
<1> QED
  BY <1>4 DEF Publish

LEMMA CompleteServes ==
  ASSUME ServiceInv, NEW j \in jobs, Complete(j)
  PROVE  Public!Next \/ UNCHANGED <<catalog, feed>>
<1>1. j.track \in Tracks /\ UNCHANGED catalog
  BY DEF ServiceInv, TypeOK, Job, Complete, catalogVars
<1>2. CASE CompleteChanged(j)
  <2> DEFINE gone == ~Available(j.track) /\ published[j.track] # None
             replaced == KnownDifferent(PublishedMedia(j.track), Revision(j.track))
             W == IF gone \/ replaced THEN {j.track} ELSE {}
  <2>1. Unpublish(W)
    BY <1>2 DEF CompleteChanged
  <2>2. ~gone
    BY <1>1 DEF ServiceInv, PublishedIsCurrent, StalePublication
  <2>3. ~replaced
    BY <1>1, ReplacedIsStale
  <2>4. \A t \in Tracks : t \notin W
    BY <2>2, <2>3
  <2> HIDE DEF W
  <2> QED
    BY <1>1, <2>1, <2>4, NoWithdrawal
<1>3. CASE CompleteReady(j)
  <2> DEFINE profile == [media |-> j.media, ver |-> j.ver]
  <2>1. /\ Publish(j.track, profile) /\ j.media = catalog[j.track]
        /\ catalog[j.track] \in Medias /\ j.ver = rows[j.track].attempt_ver
        /\ rows[j.track].token = j.token
    BY <1>3, RevisionIsCatalog DEF CompleteReady, Holds
  <2>2. profile \in Profile /\ j.ver \in Versions /\ j.token # None
    BY <2>1, ConstantsAssumption DEF Profile, ServiceInv, TypeOK, Job
  <2>3. published[j.track] # None => published[j.track].ver <= profile.ver
    BY <1>1, <2>1, <2>2 DEF ServiceInv, VersionsGrow
  <2>4. Public!Serve(j.track, profile.ver) \/ feed' = feed
    <3> HIDE DEF profile
    <3>1. profile.media = catalog[j.track]
      BY <2>1 DEF profile
    <3> QED
      BY <1>1, <2>1, <2>2, <2>3, <3>1, PublishServes
  <2> QED
    BY <1>1, <2>2, <2>4 DEF Public!Next, Versions
<1>4. CASE CompleteSuperseded(j) \/ CompleteMismatched(j)
           \/ \E category \in {"transient", "revision"} : CompleteFailed(j, category)
  BY <1>1, <1>4 DEF CompleteSuperseded, CompleteMismatched, CompleteFailed, publicVars
<1> QED
  BY <1>2, <1>3, <1>4 DEF Complete

LEMMA RepublishServes ==
  ASSUME ServiceInv, NEW t \in Tracks, RepublishReady(t)
  PROVE  Public!Next \/ UNCHANGED <<catalog, feed>>
<1> DEFINE profile == [media |-> rows[t].media, ver |-> rows[t].ver]
<1>1. /\ Publish(t, profile) /\ UNCHANGED catalog /\ published[t] = None
      /\ rows[t].media = catalog[t] /\ catalog[t] \in Medias /\ rows[t].ver = version
  BY RevisionIsCatalog DEF RepublishReady, ReadyUnpublished, catalogVars
<1>2. profile \in Profile /\ rows[t].ver \in Versions
  BY <1>1 DEF Profile, ServiceInv, TypeOK
<1>3. profile.media = catalog[t] /\ profile.ver = rows[t].ver
  BY <1>1
<1> HIDE DEF profile
<1>4. Public!Serve(t, profile.ver) \/ feed' = feed
  BY <1>1, <1>2, <1>3, PublishServes
<1> QED
  BY <1>1, <1>2, <1>3, <1>4 DEF Public!Next, Versions

LEMMA EdgesServe ==
  ASSUME ServiceInv, Edges PROVE Public!Next \/ UNCHANGED <<catalog, feed>>
<1>1. CASE \E t \in Tracks : PublishEdge(t)
  <2>1. PICK t \in Tracks : PublishEdge(t)
    BY <1>1
  <2>2. edge_jobs[t].media \in Medias
    BY <2>1 DEF PublishEdge, ServiceInv, TypeOK, EdgeJob
  <2>3. published[t] # None /\ published[t].media = catalog[t]
    BY <2>1, <2>2, ConstantsAssumption DEF PublishEdge, PublishedMedia
  <2>4. feed[t] # None /\ feed[t].media = published[t].media /\ feed[t].ver = published[t].ver
    BY <2>3, FeedFacts
  <2>5. Public!AttachEdge(t)
    BY <2>1, <2>3, <2>4 DEF PublishEdge, Public!AttachEdge, catalogVars
  <2> QED
    BY <2>5 DEF Public!Next
<1>2. CASE (\E t \in Tracks : ClaimEdge(t) \/ FailEdge(t)) \/ PurgeEdges
  BY <1>2 DEF ClaimEdge, FailEdge, PurgeEdges, publicVars, catalogVars
<1> QED
  BY <1>1, <1>2 DEF Edges

\* A catalogue publication withdraws in its own step exactly what it proves stale,
\* with or without a rebase.
LEMMA GenerationServes ==
  ASSUME ServiceInv, NEW new \in [Tracks -> ScanMedia], NEW rebase \in BOOLEAN,
         PublishGeneration(new, rebase)
  PROVE  Public!Refresh(new)
<1> DEFINE changed == IF rebase THEN {u \in Tracks : published[u] # None}
                      ELSE {u \in Tracks : new[u] # catalog[u]}
           stale(u) == u \in changed
                       /\ (new[u] = Gone \/ KnownDifferent(PublishedMedia(u), new[u]))
           W == {u \in Tracks : published[u] # None /\ stale(u)}
<1>1. Unpublish(W) /\ catalog' = new
  BY DEF PublishGeneration
<1>2. ASSUME NEW t \in Tracks
      PROVE  t \in W <=> feed[t] # None /\ ~Public!Current(t, new)
  <2>1. CASE feed[t] = None
    BY <2>1, FeedFacts
  <2>2. CASE feed[t] # None
    <3>1. published[t] # None /\ PublishedMedia(t) = feed[t].media /\ feed[t].media \in Medias
      BY <2>2, FeedFacts DEF PublishedMedia
    <3>2. new[t] = catalog[t] => Public!Current(t, new)
      BY <2>2, <3>1, FeedFacts DEF Public!Current, Public!Replaced
    <3>3. Public!Current(t, new)
          <=> ~(new[t] = Gone \/ KnownDifferent(PublishedMedia(t), new[t]))
      BY <3>1 DEF Public!Current, Public!Replaced, KnownDifferent
    <3> QED
      BY <2>2, <3>1, <3>2, <3>3
  <2> QED
    BY <2>1, <2>2
<1>3. feed' = [t \in Tracks |-> IF t \in W THEN None ELSE feed[t]]
  BY <1>1 DEF Unpublish
<1> HIDE DEF W
<1> QED
  BY <1>1, <1>2, <1>3 DEF Public!Refresh

LEMMA NextServes ==
  ASSUME ServiceInv, [Next]_vars PROVE Public!Next \/ UNCHANGED <<catalog, feed>>
<1>1. CASE AdmitBatch
  BY <1>1, AdmitServes DEF AdmitBatch, ServiceInv, TypeOK
<1>2. CASE \E t \in Tracks : AdmitInteractive(t)
  BY <1>2, AdmitServes DEF AdmitInteractive
<1>3. CASE \E j \in jobs : Complete(j)
  BY <1>3, CompleteServes
<1>4. CASE Edges
  BY <1>4, EdgesServe
<1>5. CASE \E new \in [Tracks -> ScanMedia], rebase \in BOOLEAN : PublishGeneration(new, rebase)
  BY <1>5, GenerationServes DEF Public!Next
<1>6. CASE \E S \in SUBSET Tracks : WithdrawOrphans(S)
  BY <1>6 DEF WithdrawOrphans, Orphan, ServiceInv, PublishedIsCurrent, StalePublication
<1>7. CASE \E t \in Tracks : RepublishReady(t)
  BY <1>7, RepublishServes
<1>8. CASE SelectBatch \/ (\E S \in SUBSET Tracks : ReleaseUncounted(S) \/ ReleaseCounted(S))
           \/ (\E t \in Tracks : CooldownEnds(t) \/ StartAnalysis(t)) \/ WorkerCrash
           \/ UpgradeAnalyzer \/ UNCHANGED vars
  BY <1>8 DEF SelectBatch, ReleaseUncounted, ReleaseCounted, CooldownEnds, StartAnalysis,
              WorkerCrash, UpgradeAnalyzer, vars, publicVars, catalogVars
<1> QED
  BY <1>1, <1>2, <1>3, <1>4, <1>5, <1>6, <1>7, <1>8 DEF Next, Attempts, Publications

\* The journal tells a client the abstract service: media never change without a
\* delete in between, an older worker never undoes a newer analyzer's profile, and
\* nothing is withdrawn but by the catalogue publication that proves it stale.
THEOREM JournalImplementsService == Spec => ImplementsPublicProfiles
<1>1. Init => Public!Init /\ VersionsGrow
  BY DEF Init, Public!Init, VersionsGrow, NoRow
<1>2. TypeOK /\ PendingIffClaimed /\ VersionsGrow /\ [Next]_vars => VersionsGrow'
  BY NextVersions
<1>3. Spec => []VersionsGrow
  BY <1>1, <1>2, TypeCorrect, ClaimsAreExclusive, PTL DEF Spec
<1>4. Spec => []ServiceInv
  BY <1>3, TypeCorrect, ClaimsAreExclusive, PublicationIsCurrent, JournalIsComplete, PTL
  DEF ServiceInv
<1>5. ServiceInv /\ [Next]_vars => [Public!Next]_(Public!pubVars)
  BY NextServes DEF Public!pubVars
<1> QED
  BY <1>1, <1>4, <1>5, PTL DEF Spec, ImplementsPublicProfiles, Public!Spec

-----------------------------------------------------------------------------
(* The rekey.  It keeps types, exclusive claims, the journal's effect and   *)
(* the withdrawn edges.  A rekey of v1 may leave an edge payload under an   *)
(* ID its song has left; that no profile moved there reaches it follows     *)
(* from the attempt row it leaves there too, with which the row moved there *)
(* would collide (RowsKept).                                                *)

\* A track that has a published row or an edge payload has an attempt row.
RowsKept ==
    \A t \in Tracks : published[t] # None \/ edges[t] # None => rows[t].status # "none"

-----------------------------------------------------------------------------
(* Steps of ProfilePublication.                                            *)

\* Nothing is published of a track without a row, and no row is dropped.
KeepsRow(t) ==
    /\ rows'[t].status = "none" => rows[t].status = "none"
    /\ published'[t] # None => published[t] # None \/ rows'[t].status # "none"
    /\ edges'[t] # None => edges[t] # None \/ published[t] # None \/ rows'[t].status # "none"

LEMMA KeptRows ==
  ASSUME RowsKept, \A t \in Tracks : KeepsRow(t) PROVE RowsKept'
BY DEF RowsKept, KeepsRow

LEMMA AdmitKeepsRow ==
  ASSUME TypeOK, NEW S \in SUBSET Tracks, NEW status \in Pending, Admit(S, status),
         NEW t \in Tracks
  PROVE  KeepsRow(t)
<1> DEFINE known == {u \in S : Revision(u) # None}
           replaced == {u \in known : KnownDifferent(PublishedMedia(u), Revision(u))}
<1>1. PICK token \in [known -> FreshTokens] :
         /\ rows' = [u \in Tracks |->
                       IF u \in known THEN Claimed(u, token[u], status)
                       ELSE IF u \in S /\ Available(u) THEN Deferred(u)
                       ELSE rows[u]]
         /\ Unpublish(replaced)
         /\ DropEdges(replaced)
  BY Zenon DEF Admit
<1>2. published'[t] \in {None, published[t]} /\ edges'[t] \in {None, edges[t]}
  BY <1>1 DEF Unpublish, DropEdges
<1>3. rows[t] \in Row
  BY DEF TypeOK
<1>4. CASE t \in known
  <2>1. rows'[t].status = status
    BY <1>1, <1>3, <1>4 DEF Claimed, Row
  <2> QED
    BY <1>2, <2>1 DEF KeepsRow, Pending
<1>5. CASE t \notin known
  <2>1. rows'[t] = rows[t] \/ rows'[t].status = "deferred"
    BY <1>1, <1>3, <1>5 DEF Deferred, Row
  <2> QED
    BY <1>2, <2>1 DEF KeepsRow
<1> QED
  BY <1>4, <1>5

LEMMA CompleteKeepsRow ==
  ASSUME TypeOK, NEW j \in jobs, Complete(j), NEW t \in Tracks
  PROVE  KeepsRow(t)
<1>1. j.track \in Tracks /\ rows[j.track] \in Row
  BY DEF TypeOK, Job
<1>2. CASE UNCHANGED <<rows, published, edges>>
  BY <1>2 DEF KeepsRow
<1>3. CASE CompleteChanged(j)
  <2>1. published'[t] \in {None, published[t]} /\ edges'[t] \in {None, edges[t]}
    BY <1>3 DEF CompleteChanged, Unpublish, DropEdges
  <2>2. rows'[t] = rows[t] \/ rows'[t].status = "stale"
    BY <1>1, <1>3 DEF CompleteChanged, Staled, TypeOK, Row
  <2> QED
    BY <2>1, <2>2 DEF KeepsRow
<1>4. CASE CompleteReady(j)
  <2>1. t = j.track => rows'[t].status = "ready"
    BY <1>1, <1>4 DEF CompleteReady, TypeOK, Row
  <2>2. t # j.track => rows'[t] = rows[t]
    BY <1>4 DEF CompleteReady, TypeOK
  <2>3. t # j.track => published'[t] = published[t] /\ edges'[t] = edges[t]
    BY <1>4 DEF CompleteReady, Publish, TypeOK
  <2> QED
    BY <2>1, <2>2, <2>3 DEF KeepsRow
<1>5. CASE \E category \in {"transient", "revision"} : CompleteFailed(j, category)
  <2>1. rows'[t] = rows[t] \/ rows'[t].status = "failed"
    BY <1>1, <1>5 DEF CompleteFailed, TypeOK, Row
  <2>2. UNCHANGED <<published, edges>>
    BY <1>5 DEF CompleteFailed, publicVars, edgeVars
  <2> QED
    BY <2>1, <2>2 DEF KeepsRow
<1> QED
  BY <1>2, <1>3, <1>4, <1>5
  DEF Complete, CompleteSuperseded, CompleteMismatched, publicVars, edgeVars

LEMMA NextKeepsRow ==
  ASSUME TypeOK, [Next]_vars, NEW t \in Tracks PROVE KeepsRow(t)
<1>1. CASE AdmitBatch \/ \E u \in Tracks : AdmitInteractive(u)
  BY <1>1, AdmitKeepsRow DEF AdmitBatch, AdmitInteractive, TypeOK, Pending
<1>2. CASE \E j \in jobs : Complete(j)
  BY <1>2, CompleteKeepsRow
<1>3. CASE \E S \in SUBSET Tracks : ReleaseUncounted(S) \/ ReleaseCounted(S)
  BY <1>3, ReleasedUnclaims
  DEF ReleaseUncounted, ReleaseCounted, KeepsRow, TypeOK, publicVars, edgeVars
<1>4. CASE \E u \in Tracks : CooldownEnds(u)
  <2>1. rows[t] \in Row /\ UNCHANGED <<published, edges>>
    BY <1>4 DEF CooldownEnds, TypeOK, publicVars, edgeVars
  <2>2. rows'[t] = rows[t] \/ rows'[t] = [rows[t] EXCEPT !.after = "due"]
    BY <1>4 DEF CooldownEnds, TypeOK
  <2> QED
    BY <2>1, <2>2 DEF KeepsRow, Row
<1>5. CASE \E u \in Tracks : PublishEdge(u)
  <2>1. PICK u \in Tracks : PublishEdge(u)
    BY <1>5
  <2>2. published[u] # None
    BY <2>1, ConstantsAssumption DEF PublishEdge, PublishedMedia, TypeOK, EdgeJob
  <2>3. rows' = rows /\ published' = published /\ (edges'[t] # edges[t] => t = u)
    BY <2>1 DEF PublishEdge, TypeOK
  <2> QED
    BY <2>2, <2>3 DEF KeepsRow
<1>6. CASE \E new \in [Tracks -> ScanMedia], rebase \in BOOLEAN : PublishGeneration(new, rebase)
  <2>1. rows'[t] = rows[t] \/ rows'[t] = Staled(rows[t])
    BY <1>6 DEF PublishGeneration
  <2>2. published'[t] \in {None, published[t]} /\ edges' = edges
    BY <1>6 DEF PublishGeneration, Unpublish, edgeVars
  <2> QED
    BY <2>1, <2>2 DEF KeepsRow, Staled, TypeOK, Row
<1>7. CASE \E S \in SUBSET Tracks : WithdrawOrphans(S)
  <2>1. rows'[t] = rows[t] \/ rows'[t] = Staled(rows[t])
    BY <1>7 DEF WithdrawOrphans
  <2>2. published'[t] \in {None, published[t]} /\ edges' = edges
    BY <1>7 DEF WithdrawOrphans, Unpublish, edgeVars
  <2> QED
    BY <2>1, <2>2 DEF KeepsRow, Staled, TypeOK, Row
<1>8. CASE \E u \in Tracks : RepublishReady(u)
  BY <1>8 DEF RepublishReady, ReadyUnpublished, Publish, KeepsRow, TypeOK
<1>9. CASE SelectBatch \/ (\E u \in Tracks : StartAnalysis(u) \/ ClaimEdge(u) \/ FailEdge(u))
           \/ WorkerCrash \/ PurgeEdges \/ UpgradeAnalyzer \/ UNCHANGED vars
  BY <1>9 DEF SelectBatch, StartAnalysis, ClaimEdge, FailEdge, WorkerCrash, PurgeEdges,
              UpgradeAnalyzer, vars, publicVars, edgeVars, KeepsRow
<1> QED
  BY <1>1, <1>2, <1>3, <1>4, <1>5, <1>6, <1>7, <1>8, <1>9
  DEF Next, Attempts, Edges, Publications

-----------------------------------------------------------------------------
(* What the moves leave of each track.                                     *)

\* The old and the new IDs of a rekey, one to one and apart from each other.
OneToOne(moved, to) ==
    /\ moved \subseteq Tracks /\ to \in [moved -> Tracks \ moved]
    /\ \A t, u \in moved : to[t] = to[u] => t = u

Targets(moved, to) == {to[t] : t \in moved}

\* What the moves start from: v2 first purges the new IDs.
Cleaned(f, none, moved, to, purge) ==
    IF purge THEN Purged(f, Targets(moved, to), none) ELSE f

NewRows(moved, to, purge) == Moved(Cleaned(rows, NoRow, moved, to, purge), moved, to, NoRow)

\* The new IDs that a published row moves to.
PublicTargets(moved, to, purge) ==
    {to[t] : t \in {u \in moved : Cleaned(published, None, moved, to, purge)[u] # None}}

LEMMA MovedAway ==
  ASSUME NEW f, NEW none, NEW moved, NEW to, NEW t \in Tracks, t \in moved
  PROVE  Moved(f, moved, to, none)[t] = none
BY DEF Moved

LEMMA MovedIn ==
  ASSUME NEW f, NEW none, NEW moved, NEW to, OneToOne(moved, to),
         NEW old \in moved, f[old] # none
  PROVE  Moved(f, moved, to, none)[to[old]] = f[old]
<1>1. to[old] \in Tracks /\ to[old] \notin moved
  BY DEF OneToOne
<1>2. \E u \in moved : to[u] = to[old] /\ f[u] # none
  OBVIOUS
<1>3. (CHOOSE u \in moved : to[u] = to[old]) = old
  BY DEF OneToOne
<1> QED
  BY <1>1, <1>2, <1>3 DEF Moved

LEMMA MovedStays ==
  ASSUME NEW f, NEW none, NEW moved, NEW to, NEW t \in Tracks, t \notin moved,
         \A old \in moved : to[old] = t => f[old] = none
  PROVE  Moved(f, moved, to, none)[t] = f[t]
BY DEF Moved

\* Each track is an old ID, or a new one of one old ID, or neither.
LEMMA OldOrNew ==
  ASSUME NEW moved, NEW to, OneToOne(moved, to), NEW t \in Tracks
  PROVE  \/ t \in moved /\ t \notin Targets(moved, to)
         \/ /\ t \notin moved /\ t \in Targets(moved, to)
            /\ \E old \in moved : to[old] = t
         \/ t \notin moved /\ t \notin Targets(moved, to)
BY DEF OneToOne, Targets

\* A rekey, step by step for each variable.
LEMMA RekeySteps ==
  ASSUME NEW new \in [Tracks -> ScanMedia], NEW moved \in SUBSET Tracks,
         NEW to \in [moved -> Tracks \ moved], NEW purge \in BOOLEAN,
         Rekey(new, moved, to, purge)
  PROVE  /\ OneToOne(moved, to)
         /\ \A t \in moved : \/ Cleaned(rows, NoRow, moved, to, purge)[t] = NoRow
                             \/ Cleaned(rows, NoRow, moved, to, purge)[to[t]] = NoRow
         /\ rows' = [t \in Tracks |-> IF t \in Targets(moved, to)
                                      THEN Fenced(NewRows(moved, to, purge)[t])
                                      ELSE NewRows(moved, to, purge)[t]]
         /\ published' = Moved(Cleaned(published, None, moved, to, purge), moved, to, None)
         /\ edges' = Purged(Cleaned(edges, None, moved, to, purge), moved, None)
         /\ edge_jobs' = Purged(Cleaned(edge_jobs, None, moved, to, purge), moved, None)
         /\ feed' = [t \in Tracks |->
                       IF t \in PublicTargets(moved, to, purge)
                       THEN [media |-> published'[t].media, ver |-> published'[t].ver,
                             edge |-> FALSE]
                       ELSE IF published[t] # None /\ published'[t] = None THEN None
                       ELSE feed[t]]
<1>1. OneToOne(moved, to)
  BY DEF Rekey, Mapping, OneToOne
<1> QED
  BY <1>1 DEF Rekey, Targets, Collides, Cleaned, NewRows, PublicTargets

LEMMA RekeyType ==
  ASSUME TypeOK, NEW new \in [Tracks -> ScanMedia], NEW moved \in SUBSET Tracks,
         NEW to \in [moved -> Tracks \ moved], NEW purge \in BOOLEAN,
         Rekey(new, moved, to, purge)
  PROVE  TypeOK'
<1>1. ASSUME NEW T, NEW none \in T, NEW f \in [Tracks -> T]
      PROVE  /\ Cleaned(f, none, moved, to, purge) \in [Tracks -> T]
             /\ Purged(f, moved, none) \in [Tracks -> T]
             /\ Moved(f, moved, to, none) \in [Tracks -> T]
  <2>1. /\ Cleaned(f, none, moved, to, purge) \in [Tracks -> T]
        /\ Purged(f, moved, none) \in [Tracks -> T]
    BY <1>1 DEF Purged, Cleaned
  <2>2. ASSUME NEW t \in Tracks PROVE Moved(f, moved, to, none)[t] \in T
    <3>1. CASE t \in moved
      BY <1>1, <3>1, MovedAway
    <3>2. CASE \E old \in moved : to[old] = t /\ f[old] # none
      <4>1. PICK old \in moved : to[old] = t /\ f[old] # none
        BY <3>2
      <4>2. OneToOne(moved, to)
        BY RekeySteps
      <4>3. Moved(f, moved, to, none)[t] = f[old]
        BY <4>1, <4>2, MovedIn
      <4> QED
        BY <1>1, <4>3
    <3>3. CASE t \notin moved /\ ~\E old \in moved : to[old] = t /\ f[old] # none
      BY <1>1, <3>3, MovedStays
    <3> QED
      BY <3>1, <3>2, <3>3
  <2>3. Moved(f, moved, to, none) = [t \in Tracks |-> Moved(f, moved, to, none)[t]]
    BY DEF Moved
  <2> QED
    BY <2>1, <2>2, <2>3
<1>2. /\ rows \in [Tracks -> Row] /\ published \in [Tracks -> Profile \cup {None}]
      /\ edges \in [Tracks -> Media] /\ edge_jobs \in [Tracks -> EdgeJob \cup {None}]
      /\ feed \in [Tracks -> Event \cup {None}] /\ None \in Media
  BY DEF TypeOK, Media
<1>3. rows' \in [Tracks -> Row]
  <2>1. NewRows(moved, to, purge) \in [Tracks -> Row]
    BY <1>1, <1>2, NoRowType DEF NewRows
  <2>2. rows' = [t \in Tracks |-> IF t \in Targets(moved, to)
                                  THEN Fenced(NewRows(moved, to, purge)[t])
                                  ELSE NewRows(moved, to, purge)[t]]
    BY RekeySteps
  <2> QED
    BY <2>1, <2>2, StaledType DEF Fenced
<1>4. published' \in [Tracks -> Profile \cup {None}]
  <2>1. Cleaned(published, None, moved, to, purge) \in [Tracks -> Profile \cup {None}]
    BY <1>1, <1>2
  <2>2. published' = Moved(Cleaned(published, None, moved, to, purge), moved, to, None)
    BY RekeySteps
  <2> QED
    BY <1>1, <2>1, <2>2
<1>5. edges' \in [Tracks -> Media]
  <2>1. Cleaned(edges, None, moved, to, purge) \in [Tracks -> Media]
    BY <1>1, <1>2
  <2>2. edges' = Purged(Cleaned(edges, None, moved, to, purge), moved, None)
    BY RekeySteps
  <2> QED
    BY <1>1, <1>2, <2>1, <2>2
<1>6. edge_jobs' \in [Tracks -> EdgeJob \cup {None}]
  <2>1. Cleaned(edge_jobs, None, moved, to, purge) \in [Tracks -> EdgeJob \cup {None}]
    BY <1>1, <1>2
  <2>2. edge_jobs' = Purged(Cleaned(edge_jobs, None, moved, to, purge), moved, None)
    BY RekeySteps
  <2> QED
    BY <1>1, <1>2, <2>1, <2>2
<1>7. feed' \in [Tracks -> Event \cup {None}]
  <2>1. feed' = [t \in Tracks |->
                   IF t \in PublicTargets(moved, to, purge)
                   THEN [media |-> published'[t].media, ver |-> published'[t].ver,
                         edge |-> FALSE]
                   ELSE IF published[t] # None /\ published'[t] = None THEN None
                   ELSE feed[t]]
    BY RekeySteps
  <2>2. ASSUME NEW t \in PublicTargets(moved, to, purge)
        PROVE  [media |-> published'[t].media, ver |-> published'[t].ver, edge |-> FALSE] \in Event
    <3> DEFINE old == Cleaned(published, None, moved, to, purge)
    <3>1. PICK u \in moved : t = to[u] /\ old[u] # None
      BY DEF PublicTargets
    <3>2. OneToOne(moved, to)
      BY RekeySteps
    <3>3. published' = Moved(old, moved, to, None)
      BY RekeySteps
    <3>4. old \in [Tracks -> Profile \cup {None}]
      BY <1>1, <1>2
    <3> HIDE DEF old
    <3>5. published'[t] = old[u]
      BY <3>1, <3>2, <3>3, MovedIn
    <3> QED
      BY <3>1, <3>4, <3>5 DEF Profile, Event
  <2> QED
    BY <1>2, <2>1, <2>2
<1>8. /\ catalog' \in [Tracks -> Medias \cup {None, Gone}]
      /\ generation' \in 0..MaxGeneration + 1
      /\ UNCHANGED <<epoch, version, jobs, batch, interruptions>>
  BY ConstantsAssumption DEF Rekey, TypeOK
<1>9. losses' \in [Tracks -> 0..RetryLimit + 1]
  BY ConstantsAssumption DEF Rekey, TypeOK
<1> QED
  BY <1>3, <1>4, <1>5, <1>6, <1>7, <1>8, <1>9 DEF TypeOK

-----------------------------------------------------------------------------
(* What a rekey leaves of an old ID, of a new one, and of any other track.  *)

LEMMA CleanedValue ==
  ASSUME NEW f, NEW none, NEW moved, NEW to, NEW purge \in BOOLEAN, NEW t \in Tracks
  PROVE  Cleaned(f, none, moved, to, purge)[t] =
           IF purge /\ t \in Targets(moved, to) THEN none ELSE f[t]
BY DEF Cleaned, Purged

LEMMA RekeyedRows ==
  ASSUME NEW new \in [Tracks -> ScanMedia], NEW moved \in SUBSET Tracks,
         NEW to \in [moved -> Tracks \ moved], NEW purge \in BOOLEAN,
         Rekey(new, moved, to, purge)
  PROVE  rows' = [t \in Tracks |-> IF t \in Targets(moved, to)
                                  THEN Fenced(NewRows(moved, to, purge)[t])
                                  ELSE NewRows(moved, to, purge)[t]]
BY RekeySteps

LEMMA RekeyOldID ==
  ASSUME NEW new \in [Tracks -> ScanMedia], NEW moved \in SUBSET Tracks,
         NEW to \in [moved -> Tracks \ moved], NEW purge \in BOOLEAN,
         Rekey(new, moved, to, purge), NEW t \in moved
  PROVE  rows'[t] = NoRow /\ published'[t] = None /\ edges'[t] = None
<1>1. OneToOne(moved, to) /\ t \notin Targets(moved, to)
  BY RekeySteps, OldOrNew
<1>2. rows'[t] = NewRows(moved, to, purge)[t]
  <2>1. rows' = [u \in Tracks |-> IF u \in Targets(moved, to)
                                  THEN Fenced(NewRows(moved, to, purge)[u])
                                  ELSE NewRows(moved, to, purge)[u]]
    BY RekeyedRows
  <2> QED
    BY <1>1, <2>1
<1>3. rows'[t] = NoRow
  BY <1>2, MovedAway DEF NewRows
<1>4. published'[t] = None
  BY RekeySteps, MovedAway
<1>5. edges'[t] = None
  <2>1. edges' = Purged(Cleaned(edges, None, moved, to, purge), moved, None)
    BY RekeySteps
  <2> QED
    BY <2>1 DEF Purged
<1> QED
  BY <1>3, <1>4, <1>5

LEMMA RekeyOther ==
  ASSUME NEW new \in [Tracks -> ScanMedia], NEW moved \in SUBSET Tracks,
         NEW to \in [moved -> Tracks \ moved], NEW purge \in BOOLEAN,
         Rekey(new, moved, to, purge), NEW t \in Tracks, t \notin moved,
         t \notin Targets(moved, to)
  PROVE  rows'[t] = rows[t] /\ published'[t] = published[t] /\ edges'[t] = edges[t]
<1>1. \A u \in moved : to[u] # t
  BY DEF Targets
<1>2. ASSUME NEW f, NEW none
      PROVE  Moved(Cleaned(f, none, moved, to, purge), moved, to, none)[t] = f[t]
  BY <1>1, MovedStays, CleanedValue
<1>3. rows'[t] = NewRows(moved, to, purge)[t]
  <2>1. rows' = [u \in Tracks |-> IF u \in Targets(moved, to)
                                  THEN Fenced(NewRows(moved, to, purge)[u])
                                  ELSE NewRows(moved, to, purge)[u]]
    BY RekeyedRows
  <2> QED
    BY <2>1
<1>4. rows'[t] = rows[t]
  BY <1>2, <1>3 DEF NewRows
<1>5. published' = Moved(Cleaned(published, None, moved, to, purge), moved, to, None)
  BY RekeySteps
<1>6. edges' = Purged(Cleaned(edges, None, moved, to, purge), moved, None)
  BY RekeySteps
<1>7. edges'[t] = edges[t]
  BY <1>6, CleanedValue DEF Purged
<1> QED
  BY <1>2, <1>4, <1>5, <1>7

LEMMA RekeyNewID ==
  ASSUME NEW new \in [Tracks -> ScanMedia], NEW moved \in SUBSET Tracks,
         NEW to \in [moved -> Tracks \ moved], NEW purge \in BOOLEAN,
         Rekey(new, moved, to, purge), NEW old \in moved, NEW t, t = to[old]
  PROVE  /\ t \in Tracks /\ t \notin moved
         /\ rows'[t] = Fenced(IF rows[old] # NoRow THEN rows[old]
                              ELSE IF purge THEN NoRow ELSE rows[t])
         /\ published'[t] = IF published[old] # None THEN published[old]
                            ELSE IF purge THEN None ELSE published[t]
         /\ edges'[t] = IF purge THEN None ELSE edges[t]
         /\ rows[old] # NoRow /\ ~purge => rows[t] = NoRow
<1>1. OneToOne(moved, to) /\ t \in Tracks /\ t \notin moved /\ t \in Targets(moved, to)
      /\ old \in Tracks /\ old \notin Targets(moved, to)
  <2>1. OneToOne(moved, to)
    BY RekeySteps
  <2> QED
    BY <2>1, OldOrNew DEF OneToOne, Targets
<1>2. ASSUME NEW f, NEW none
      PROVE  Moved(Cleaned(f, none, moved, to, purge), moved, to, none)[t] =
               IF f[old] # none THEN f[old] ELSE IF purge THEN none ELSE f[t]
  <2> DEFINE g == Cleaned(f, none, moved, to, purge)
  <2>1. g[old] = f[old] /\ g[t] = (IF purge THEN none ELSE f[t])
    BY <1>1, CleanedValue
  <2> HIDE DEF g
  <2>2. CASE f[old] # none
    <3>1. Moved(g, moved, to, none)[t] = g[old]
      BY <1>1, <2>1, <2>2, MovedIn
    <3> QED
      BY <2>1, <2>2, <3>1 DEF g
  <2>3. CASE f[old] = none
    <3>1. \A u \in moved : to[u] = t => u = old
      BY <1>1 DEF OneToOne
    <3>2. Moved(g, moved, to, none)[t] = g[t]
      BY <1>1, <2>1, <2>3, <3>1, MovedStays
    <3> QED
      BY <2>1, <2>3, <3>2 DEF g
  <2> QED
    BY <2>2, <2>3
<1>3. rows'[t] = Fenced(NewRows(moved, to, purge)[t])
  <2>1. rows' = [u \in Tracks |-> IF u \in Targets(moved, to)
                                  THEN Fenced(NewRows(moved, to, purge)[u])
                                  ELSE NewRows(moved, to, purge)[u]]
    BY RekeyedRows
  <2> QED
    BY <1>1, <2>1
<1>4. rows'[t] = Fenced(IF rows[old] # NoRow THEN rows[old]
                        ELSE IF purge THEN NoRow ELSE rows[t])
  BY <1>2, <1>3 DEF NewRows
<1>5. published' = Moved(Cleaned(published, None, moved, to, purge), moved, to, None)
  BY RekeySteps
<1>6. edges' = Purged(Cleaned(edges, None, moved, to, purge), moved, None)
  BY RekeySteps
<1>7. edges'[t] = IF purge THEN None ELSE edges[t]
  BY <1>1, <1>6, CleanedValue DEF Purged
<1>8. \/ Cleaned(rows, NoRow, moved, to, purge)[old] = NoRow
      \/ Cleaned(rows, NoRow, moved, to, purge)[to[old]] = NoRow
  BY RekeySteps
<1>9. rows[old] # NoRow /\ ~purge => rows[t] = NoRow
  BY <1>1, <1>8, CleanedValue
<1> QED
  BY <1>1, <1>2, <1>4, <1>5, <1>7, <1>9

LEMMA RekeyClaims ==
  ASSUME TypeOK, PendingIffClaimed, NEW new \in [Tracks -> ScanMedia],
         NEW moved \in SUBSET Tracks, NEW to \in [moved -> Tracks \ moved],
         NEW purge \in BOOLEAN, Rekey(new, moved, to, purge)
  PROVE  PendingIffClaimed'
<1>1. ASSUME NEW row \in Row, row.status \in Pending <=> row.token # None
      PROVE  Fenced(row).status \notin Pending /\ Fenced(row).token = None
  BY <1>1, StaledUnclaims DEF Fenced
<1>2. NoRow.status \notin Pending /\ NoRow.token = None
  BY DEF NoRow, Pending
<1>3. ASSUME NEW t \in Tracks, NEW row, row \in {rows[t], NoRow}
      PROVE  row \in Row /\ (row.status \in Pending <=> row.token # None)
  BY <1>2, <1>3, NoRowType DEF TypeOK, PendingIffClaimed
<1>4. ASSUME NEW t \in Tracks
      PROVE  \/ rows'[t] = rows[t]
             \/ rows'[t].status \notin Pending /\ rows'[t].token = None
  <2>1. CASE t \in moved
    BY <1>2, <2>1, RekeyOldID
  <2>2. CASE t \notin moved /\ t \notin Targets(moved, to)
    BY <2>2, RekeyOther
  <2>3. CASE t \in Targets(moved, to)
    <3>1. PICK old \in moved : t = to[old]
      BY <2>3 DEF Targets
    <3>2. \E row \in {rows[old], rows[t], NoRow} : rows'[t] = Fenced(row)
      BY <3>1, RekeyNewID
    <3> QED
      BY <1>1, <1>3, <3>2
  <2> QED
    BY <2>1, <2>2, <2>3
<1>5. ClaimsIn(Tracks)'
  BY <1>4, UnclaimsKeepsClaims, ClaimsInAll DEF Unclaims
<1> QED
  BY <1>5 DEF PendingIffClaimed, ClaimsIn

LEMMA RekeyRows ==
  ASSUME TypeOK, RowsKept, NEW new \in [Tracks -> ScanMedia],
         NEW moved \in SUBSET Tracks, NEW to \in [moved -> Tracks \ moved],
         NEW purge \in BOOLEAN, Rekey(new, moved, to, purge)
  PROVE  RowsKept'
<1> SUFFICES ASSUME NEW t \in Tracks, published'[t] # None \/ edges'[t] # None
             PROVE  rows'[t].status # "none"
  BY DEF RowsKept
<1>1. \A row \in Row : row.status # "none" => Fenced(row).status # "none"
  BY DEF Fenced, Staled, Row
<1>2. \A u \in Tracks : rows[u].status # "none" => rows[u] # NoRow
  BY DEF NoRow
<1>3. CASE t \in moved
  BY <1>3, RekeyOldID
<1>4. CASE t \notin moved /\ t \notin Targets(moved, to)
  BY <1>4, RekeyOther DEF RowsKept
<1>5. CASE t \in Targets(moved, to)
  <2>1. PICK old \in moved : t = to[old]
    BY <1>5 DEF Targets
  <2>2. /\ rows'[t] = Fenced(IF rows[old] # NoRow THEN rows[old]
                             ELSE IF purge THEN NoRow ELSE rows[t])
        /\ published'[t] = IF published[old] # None THEN published[old]
                           ELSE IF purge THEN None ELSE published[t]
        /\ edges'[t] = IF purge THEN None ELSE edges[t]
        /\ rows[old] # NoRow /\ ~purge => rows[t] = NoRow
    BY <2>1, RekeyNewID
  <2>3. CASE published[old] # None
    <3>1. rows[old].status # "none" /\ rows[old] # NoRow /\ rows[old] \in Row
      BY <1>2, <2>3 DEF RowsKept, TypeOK
    <3> QED
      BY <1>1, <2>2, <3>1
  <2>4. CASE published[old] = None
    <3>1. ~purge /\ (published[t] # None \/ edges[t] # None)
      BY <2>2, <2>4
    <3>2. rows[t].status # "none" /\ rows[t] # NoRow /\ rows[t] \in Row
      BY <1>2, <3>1 DEF RowsKept, TypeOK
    <3>3. rows[old] = NoRow
      BY <2>2, <3>1, <3>2
    <3> QED
      BY <1>1, <2>2, <3>1, <3>2, <3>3
  <2> QED
    BY <2>3, <2>4
<1> QED
  BY <1>3, <1>4, <1>5

\* No moved profile reaches an edge payload that was under its new ID.
LEMMA MovedWithoutEdge ==
  ASSUME TypeOK, RowsKept, NEW new \in [Tracks -> ScanMedia],
         NEW moved \in SUBSET Tracks, NEW to \in [moved -> Tracks \ moved],
         NEW purge \in BOOLEAN, Rekey(new, moved, to, purge),
         NEW old \in moved, published[old] # None
  PROVE  edges'[to[old]] = None
<1> DEFINE t == to[old]
<1>1. rows[old] # NoRow
  BY DEF RowsKept, NoRow
<1>2. /\ edges'[t] = IF purge THEN None ELSE edges[t]
      /\ rows[old] # NoRow /\ ~purge => rows[t] = NoRow
      /\ t \in Tracks
  BY RekeyNewID
<1>3. rows[t] = NoRow => edges[t] = None
  BY <1>2 DEF RowsKept, NoRow
<1> QED
  BY <1>1, <1>2, <1>3

LEMMA RekeyFeed ==
  ASSUME TypeOK, FeedMatchesPublication, RowsKept, NEW new \in [Tracks -> ScanMedia],
         NEW moved \in SUBSET Tracks, NEW to \in [moved -> Tracks \ moved],
         NEW purge \in BOOLEAN, Rekey(new, moved, to, purge)
  PROVE  FeedMatchesPublication'
<1> SUFFICES ASSUME NEW t \in Tracks
             PROVE  feed'[t] = IF published'[t] = None THEN None
                               ELSE [media |-> published'[t].media, ver |-> published'[t].ver,
                                     edge |-> Reachable(t)']
  BY DEF FeedMatchesPublication
<1>1. feed' = [u \in Tracks |->
                 IF u \in PublicTargets(moved, to, purge)
                 THEN [media |-> published'[u].media, ver |-> published'[u].ver, edge |-> FALSE]
                 ELSE IF published[u] # None /\ published'[u] = None THEN None
                 ELSE feed[u]]
  BY RekeySteps
<1>2. OneToOne(moved, to)
  BY RekeySteps
<1>3. ASSUME NEW u \in moved PROVE Cleaned(published, None, moved, to, purge)[u] = published[u]
  BY <1>2, CleanedValue, OldOrNew
<1>4. CASE t \in PublicTargets(moved, to, purge)
  <2>1. PICK old \in moved : t = to[old] /\ published[old] # None
    BY <1>3, <1>4 DEF PublicTargets
  <2>2. published'[t] # None /\ edges'[t] = None
    BY <2>1, RekeyNewID, MovedWithoutEdge
  <2>3. Reachable(t)' = FALSE
    BY <2>2 DEF Reachable
  <2>4. feed'[t] = [media |-> published'[t].media, ver |-> published'[t].ver, edge |-> FALSE]
    BY <1>1, <1>4
  <2> QED
    BY <2>2, <2>3, <2>4
<1>5. CASE t \notin PublicTargets(moved, to, purge)
  <2>1. published'[t] \in {None, published[t]}
        /\ (published'[t] # None => edges'[t] = edges[t])
    <3>1. CASE t \in moved
      BY <3>1, RekeyOldID
    <3>2. CASE t \notin moved /\ t \notin Targets(moved, to)
      BY <3>2, RekeyOther
    <3>3. CASE t \in Targets(moved, to)
      <4>1. PICK old \in moved : t = to[old]
        BY <3>3 DEF Targets
      <4>2. published[old] = None
        BY <1>3, <1>5, <4>1 DEF PublicTargets
      <4>3. /\ published'[t] = IF published[old] # None THEN published[old]
                               ELSE IF purge THEN None ELSE published[t]
            /\ edges'[t] = IF purge THEN None ELSE edges[t]
        BY <4>1, RekeyNewID
      <4> QED
        BY <4>2, <4>3
    <3> QED
      BY <3>1, <3>2, <3>3
  <2>2. CASE published'[t] = None
    BY <1>1, <1>5, <2>2 DEF FeedMatchesPublication
  <2>3. CASE published'[t] # None
    <3>1. published'[t] = published[t] /\ edges'[t] = edges[t]
      BY <2>1, <2>3
    <3>2. Reachable(t)' = Reachable(t)
      BY <3>1 DEF Reachable
    <3>3. feed'[t] = feed[t]
      BY <1>1, <1>5, <2>3
    <3> QED
      BY <2>3, <3>1, <3>2, <3>3 DEF FeedMatchesPublication
  <2> QED
    BY <2>2, <2>3
<1> QED
  BY <1>4, <1>5

LEMMA RekeyEdges ==
  ASSUME TypeOK, RowsKept, NEW new \in [Tracks -> ScanMedia],
         NEW moved \in SUBSET Tracks, NEW to \in [moved -> Tracks \ moved],
         NEW purge \in BOOLEAN, Rekey(new, moved, to, purge),
         NEW t \in Tracks, edges[t] # None, ~Reachable(t), edges'[t] = edges[t]
  PROVE  ~Reachable(t)'
<1>1. CASE t \in moved
  BY <1>1, RekeyOldID
<1>2. CASE t \notin moved /\ t \notin Targets(moved, to)
  BY <1>2, RekeyOther DEF Reachable
<1>3. CASE t \in Targets(moved, to)
  <2>1. PICK old \in moved : t = to[old]
    BY <1>3 DEF Targets
  <2>2. published[old] = None
    BY <2>1, MovedWithoutEdge
  <2>3. published'[t] \in {None, published[t]}
    BY <2>1, <2>2, RekeyNewID
  <2> QED
    BY <2>3 DEF Reachable
<1> QED
  BY <1>1, <1>2, <1>3

-----------------------------------------------------------------------------
(* Theorems.                                                               *)

RekeyInv == TypeOK /\ ServiceSurvivesRekey /\ RowsKept

LEMMA NextRekey ==
  ASSUME RekeyInv, [RekeyNext]_vars PROVE RekeyInv'
<1>1. CASE [Next]_vars
  BY <1>1, NextType, NextClaims, NextFeed, NextKeepsRow, KeptRows
  DEF RekeyInv, ServiceSurvivesRekey
<1>2. CASE \E new \in [Tracks -> ScanMedia], moved \in SUBSET Tracks, purge \in BOOLEAN :
             \E to \in [moved -> Tracks \ moved] : Rekey(new, moved, to, purge)
  BY <1>2, RekeyType, RekeyClaims, RekeyRows, RekeyFeed DEF RekeyInv, ServiceSurvivesRekey
<1> QED
  BY <1>1, <1>2 DEF RekeyNext

LEMMA RekeyInvariant == RekeySpec => []RekeyInv
<1>1. Init => RekeyInv
  <2> SUFFICES ASSUME Init PROVE RekeyInv
    OBVIOUS
  <2>1. PendingIffClaimed
    BY DEF Init, PendingIffClaimed, NoRow, Pending
  <2>2. FeedMatchesPublication /\ RowsKept
    BY DEF Init, FeedMatchesPublication, RowsKept
  <2> QED
    BY <2>1, <2>2, InitType DEF RekeyInv, ServiceSurvivesRekey
<1> QED
  BY <1>1, NextRekey, PTL DEF RekeySpec

\* A rekey of any number of tracks, colliding or chained with other moves, keeps the
\* journal's effect equal to what is published, and no moved row keeps its claim.
THEOREM ServiceIsRekeyed == RekeySpec => []ServiceSurvivesRekey
<1>1. RekeyInv => ServiceSurvivesRekey
  BY DEF RekeyInv
<1> QED
  BY <1>1, RekeyInvariant, PTL

\* A profile moved to an ID that still has a withdrawn edge payload does not bring
\* that edge back: the rekey is rolled back, or purges it first.
THEOREM RekeyBringsNoEdgeBack == RekeySpec => NoEdgeResurrection
<1> DEFINE Stays ==
      \A t \in Tracks : edges[t] # None /\ ~Reachable(t) /\ edges'[t] = edges[t]
                       => ~Reachable(t)'
<1>1. RekeyInv /\ [RekeyNext]_vars => [Stays]_vars
  <2>1. CASE RekeyInv /\ [Next]_vars
    BY <2>1, NextKeepsEdgesApart DEF RekeyInv
  <2>2. CASE RekeyInv /\ \E new \in [Tracks -> ScanMedia], moved \in SUBSET Tracks,
                            purge \in BOOLEAN :
                            \E to \in [moved -> Tracks \ moved] : Rekey(new, moved, to, purge)
    BY <2>2, RekeyEdges DEF RekeyInv
  <2> QED
    BY <2>1, <2>2 DEF RekeyNext
<1> QED
  BY <1>1, RekeyInvariant, PTL DEF RekeySpec, NoEdgeResurrection
=============================================================================
