------------------------- MODULE ProfileStreamProofs -------------------------
(* The journal of ProfileStream and the sessions that hold it: for every set *)
(* of clients and of retention limits.                                       *)
EXTENDS ProfileStream, FiniteSetTheorems, SequenceTheorems, WellFoundedInduction, TLAPS

-----------------------------------------------------------------------------
(* The inductive invariant.                                                *)

\* The journal has outgrown what it may hold for a session that starts at seq s.
Outgrown(s) == \E limit \in Limits : head - s > limit * Multiplier

Kept(s) == floor <= s \/ Outgrown(s)

\* A session that holds the floor now and will until it has copied its events or
\* is dead.
Counted(c) ==
    /\ Exists(c)
    /\ sessions[c].head = None
    /\ ~sessions[c].over /\ ~sessions[c].abandoned

JournalInv ==
    /\ head \in Nat /\ floor \in 0..head /\ retention \in Limits
    /\ JournalDense

Fields == {"state", "seq", "head", "over", "abandoned", "claimed",
           "snapshot", "catchup"}

SessionOK(c) ==
    /\ DOMAIN sessions[c] = Fields
    /\ sessions[c].seq \in 0..head
    /\ sessions[c].state \in {"none", "capturing", "ready"}
    /\ sessions[c].state = "capturing" => sessions[c].head = None

SessionInv ==
    /\ sessions = [c \in Clients |-> sessions[c]]
    /\ \A c \in Clients : SessionOK(c)

AdmissionInv ==
    admission # None => /\ DOMAIN admission = {"client", "seq", "over"}
                        /\ admission.client \in Clients
                        /\ admission.seq \in 0..head
                        /\ replays[admission.client] = None

\* The hold of the admission covers the capture: what it has read is kept.
CaptureOK(c) ==
    captures[c] # None =>
      /\ sessions[c].state = "capturing" /\ sessions[c].head = None
      /\ captures[c].seq \in 0..head
      /\ sessions[c].seq <= captures[c].seq
      /\ Counted(c) => Kept(captures[c].seq)

CaptureInv ==
    /\ captures = [c \in Clients |-> captures[c]]
    /\ \A c \in Clients : CaptureOK(c)

ReplayOK(c) ==
    replays[c] # None =>
      /\ DOMAIN replays[c] = {"head", "at", "most", "events"}
      /\ replays[c].head \in Nat
      /\ sessions[c].state = "ready"

ReplayInv ==
    /\ replays = [c \in Clients |-> replays[c]]
    /\ \A c \in Clients : ReplayOK(c)

\* So is what a snapshot that has no catch-up yet still needs.
ReadyOK(c) == Counted(c) /\ sessions[c].state = "ready" => Kept(sessions[c].seq)

ReadyInv == \A c \in Clients : ReadyOK(c)

StreamInv ==
    JournalInv /\ SessionInv /\ AdmissionInv /\ CaptureInv /\ ReplayInv /\ ReadyInv

-----------------------------------------------------------------------------
(* Compaction.                                                             *)

\* A nonempty set of naturals has a least element.
LEMMA LeastExists ==
    ASSUME NEW S \in SUBSET Nat, S # {}
    PROVE  \E m \in S : \A n \in S : m <= n
<1> DEFINE Less == {ss \in Nat \X Nat : ss[1] < ss[2]}
<1>1. IsWellFoundedOn(Less, Nat)
  BY NatLessThanWellFounded DEF OpToRel
<1>2. PICK m \in S : \A n \in S : <<n, m>> \notin Less
  BY <1>1, WFMin
<1>3. \A n \in S : ~(n < m)
  BY <1>2
<1> QED
  BY <1>3

\* Without sessions the floor goes to the limit; with them to the oldest one's
\* seq, or as far as the held limit demands.
LEMMA TargetBounds ==
    ASSUME SessionInv, head \in Nat, NEW h \in Nat, NEW limit \in Nat,
           Multiplier \in Nat
    PROVE  /\ TargetFloor(h, limit) \in 0..h
           /\ \A c \in Holders : TargetFloor(h, limit) <= sessions[c].seq
                                   \/ TargetFloor(h, limit) + limit * Multiplier <= h
<1> DEFINE seqs == {sessions[c].seq : c \in Holders}
           hold == CHOOSE s \in seqs : \A c \in Holders : s <= sessions[c].seq
           held == limit * Multiplier
           plain == Minus(h, limit)
           hard == Minus(h, held)
<1>1. held \in Nat
  OBVIOUS
<1>2. plain \in 0..h /\ hard \in 0..h
  BY <1>1 DEF Minus
<1>3. TargetFloor(h, limit) = IF Holders = {} THEN plain
                              ELSE Larger(hard, Smaller(plain, hold))
  BY Zenon DEF TargetFloor
<1>4. CASE Holders = {}
  BY <1>2, <1>3, <1>4
<1>5. CASE Holders # {}
  <2>1. \A c \in Holders : sessions[c].seq \in Nat
    BY DEF Holders, Live, Exists, SessionInv, SessionOK
  <2>2. seqs \in SUBSET Nat /\ seqs # {}
    BY <1>5, <2>1
  <2>3. PICK m \in seqs : \A n \in seqs : m <= n
    BY <2>2, LeastExists
  <2>4. \A c \in Holders : m <= sessions[c].seq
    BY <2>3
  <2>5. hold \in seqs /\ \A c \in Holders : hold <= sessions[c].seq
    BY <2>3, <2>4
  <2> HIDE DEF hold, seqs, plain
  <2>6. hold \in Nat
    BY <2>2, <2>5
  <2>7. TargetFloor(h, limit) = Larger(hard, Smaller(plain, hold))
    BY <1>3, <1>5
  <2>8. TargetFloor(h, limit) \in 0..h
    BY <1>2, <2>6, <2>7 DEF Larger, Smaller
  <2>9. ASSUME NEW c \in Holders, sessions[c].seq < TargetFloor(h, limit)
        PROVE  TargetFloor(h, limit) + held <= h
    <3>1. sessions[c].seq \in Nat /\ hold <= sessions[c].seq
      BY <2>1, <2>5, <2>9
    <3>2. TargetFloor(h, limit) = hard /\ hard # 0
      <4> HIDE DEF hard
      <4> QED
        BY <1>2, <2>6, <2>7, <2>9, <3>1 DEF Larger, Smaller
    <3>3. hard + held <= h
      <4> HIDE DEF held
      <4> QED
        BY <1>1, <3>2 DEF Minus
    <3> QED
      BY <3>2, <3>3
  <2> QED
    BY <2>1, <2>8, <2>9
<1> QED
  BY <1>4, <1>5

\* What a compaction for head h under any of the limits leaves.
LEMMA Compaction ==
    ASSUME StreamInv, ConstantsAssumption,
           NEW h \in Nat, head <= h, NEW limit \in Limits,
           NEW f \in Nat, floor <= f, f <= floor \/ f <= TargetFloor(h, limit),
           head' = h, floor' = f, UNCHANGED sessions
    PROVE  /\ f \in 0..h
           /\ \A c \in Holders, s \in 0..head :
                sessions[c].seq <= s /\ Kept(s) => Kept(s)'
<1>1. head \in Nat /\ floor \in 0..head /\ SessionInv
  BY DEF StreamInv, JournalInv
<1>2. limit \in Nat /\ Multiplier \in Nat /\ Limits \subseteq Nat
  BY DEF ConstantsAssumption
<1>3. f \in 0..h
  BY <1>1, <1>2, TargetBounds
<1>4. ASSUME NEW c \in Holders, NEW s \in 0..head, sessions[c].seq <= s, Kept(s)
      PROVE  Kept(s)'
  <2>1. sessions[c].seq \in Nat
    BY <1>1 DEF Holders, Live, Exists, SessionInv, SessionOK
  <2>2. CASE f <= s
    BY <2>2 DEF Kept
  <2>3. CASE f > s /\ floor > s
    <3>1. PICK l \in Limits : head - s > l * Multiplier
      BY <1>1, <1>4, <2>3 DEF Kept, Outgrown
    <3> DEFINE held == l * Multiplier
    <3>2. held \in Nat /\ head - s > held
      BY <1>2, <3>1
    <3> HIDE DEF held
    <3>3. h - s > held
      BY <1>1, <3>2
    <3> QED
      BY <3>3 DEF Kept, Outgrown, held
  <2>4. CASE f > s /\ floor <= s
    <3> DEFINE held == limit * Multiplier
    <3>1. f <= TargetFloor(h, limit) /\ TargetFloor(h, limit) \in 0..h
      BY <1>1, <1>2, <2>4, TargetBounds
    <3>2. sessions[c].seq < TargetFloor(h, limit)
      BY <1>1, <1>4, <2>1, <2>4, <3>1
    <3>3. TargetFloor(h, limit) <= sessions[c].seq \/ TargetFloor(h, limit) + held <= h
      BY <1>1, <1>2, TargetBounds
    <3>4. held \in Nat
      BY <1>2
    <3> HIDE DEF held
    <3>5. h - s > held
      BY <1>1, <2>1, <2>4, <3>1, <3>2, <3>3, <3>4
    <3> QED
      BY <3>5 DEF Kept, Outgrown, held
  <2> QED
    BY <1>1, <2>2, <2>3, <2>4
<1> QED
  BY <1>3, <1>4

\* The events after appending `new` and trimming to floor f have no gap.
LEMMA JournalStaysDense ==
    ASSUME JournalInv, NEW h \in Nat, head <= h, NEW f \in floor..h,
           NEW stored, DOMAIN stored = DOMAIN events \cup (head + 1)..h,
           head' = h, Trim(stored, f)
    PROVE  JournalDense' /\ floor' \in 0..head'
<1>1. DOMAIN stored = (floor + 1)..h
  BY DEF JournalInv, JournalDense
<1>2. DOMAIN events' = {s \in DOMAIN stored : s > f} /\ floor' = f
  BY DEF Trim
<1>3. {s \in (floor + 1)..h : s > f} = (f + 1)..h
  BY DEF JournalInv
<1> QED
  BY <1>1, <1>2, <1>3 DEF JournalDense, JournalInv

\* Whatever only appends and compacts keeps the invariant.
LEMMA JournalStep ==
    ASSUME StreamInv, ConstantsAssumption,
           NEW h \in Nat, head <= h, NEW limit \in Limits,
           NEW f \in Nat, floor <= f, f <= floor \/ f <= TargetFloor(h, limit),
           head' = h, floor' = f, retention' \in Limits, JournalDense',
           UNCHANGED sessionVars
    PROVE  StreamInv'
<1> USE DEF sessionVars
<1>1. /\ f \in 0..h
      /\ \A c \in Holders, s \in 0..head :
           sessions[c].seq <= s /\ Kept(s) => Kept(s)'
  BY Compaction
<1>2. \A c \in Clients : Counted(c) => c \in Holders
  BY DEF StreamInv, SessionInv, SessionOK, Counted, Exists, Holders, Live
<1>3. head \in Nat /\ 0..head \subseteq 0..head'
  BY DEF StreamInv, JournalInv
<1>4. JournalInv'
  BY <1>1, <1>3 DEF JournalInv
<1>5. SessionInv' /\ AdmissionInv' /\ ReplayInv'
  BY <1>3 DEF StreamInv, SessionInv, SessionOK, AdmissionInv, ReplayInv, ReplayOK
<1>6. CaptureInv'
  BY <1>1, <1>2, <1>3 DEF StreamInv, CaptureInv, CaptureOK, Counted, Exists
<1>7. ReadyInv'
  BY <1>1, <1>2, <1>3 DEF StreamInv, ReadyInv, ReadyOK, SessionInv, SessionOK, Counted,
       Exists
<1> QED
  BY <1>4, <1>5, <1>6, <1>7 DEF StreamInv

\* record_profile_change and record_profile_deletions.
LEMMA JournalKeepsInv ==
    ASSUME StreamInv, ConstantsAssumption, NEW new, Len(new) \in Nat, Journal(new),
           UNCHANGED sessionVars
    PROVE  StreamInv'
<1> DEFINE h == head + Len(new)
           share == MaxAdvance * Len(new)
           target == TargetFloor(h, retention)
           f == Larger(floor, Smaller(target, floor + share))
           stored == [s \in DOMAIN events \cup (head + 1)..h |->
                        IF s > head THEN new[s - head] ELSE events[s]]
<1>1. /\ head' = h /\ retention' = retention /\ Trim(stored, f)
  BY Zenon DEF Journal
<1>2. /\ JournalInv /\ SessionInv
      /\ head \in Nat /\ floor \in 0..head /\ h \in Nat /\ head <= h
      /\ retention \in Limits /\ retention \in Nat /\ Multiplier \in Nat
  BY DEF StreamInv, JournalInv, ConstantsAssumption
<1>3. share \in Nat
  BY DEF ConstantsAssumption
<1>4. target \in 0..h
  BY <1>2, TargetBounds
<1>5. floor' = f
  BY <1>1 DEF Trim
<1>6. DOMAIN stored = DOMAIN events \cup (head + 1)..h
  OBVIOUS
<1> HIDE DEF h, share, target, stored
<1>7. f \in floor..h /\ (f <= floor \/ f <= target)
  BY <1>2, <1>3, <1>4 DEF Larger, Smaller
<1>8. JournalDense'
  BY <1>1, <1>2, <1>6, <1>7, JournalStaysDense
<1> HIDE DEF f
<1>9. f \in Nat /\ floor <= f /\ (f <= floor \/ f <= TargetFloor(h, retention))
  BY <1>2, <1>7 DEF target
<1> QED
  BY <1>1, <1>2, <1>5, <1>8, <1>9, JournalStep

\* A step that leaves journal and sessions alone, whatever a client does.
LEMMA ClientStep ==
    ASSUME StreamInv, UNCHANGED <<journalVars, sessionVars>>
    PROVE  StreamInv'
BY DEF StreamInv, JournalInv, JournalDense, SessionInv, SessionOK, AdmissionInv,
       CaptureInv, CaptureOK, ReplayInv, ReplayOK,
       ReadyInv, ReadyOK, Counted, Exists, Kept, Outgrown, journalVars, sessionVars

\* As many deletes as tracks.
LEMMA DeletesLength ==
    ASSUME NEW n \in Nat, NEW e, e = [i \in 1..n |-> e[i]]
    PROVE  Len(e) = n
<1> DEFINE S == {e[i] : i \in 1..n}
<1>1. e \in [1..n -> S]
  OBVIOUS
<1>2. e \in Seq(S)
  BY <1>1, SeqDef
<1>3. DOMAIN e = 1..n /\ DOMAIN e = 1..Len(e) /\ Len(e) \in Nat
  BY <1>1, <1>2, LenProperties
<1> QED
  BY <1>3

-----------------------------------------------------------------------------
(* Every step keeps the invariant.                                         *)

LEMMA PublishKeepsInv ==
    ASSUME StreamInv, ConstantsAssumption, Publish
    PROVE  StreamInv'
<1>1. ASSUME NEW t \in Tracks, NEW p \in Profile, PublishProfile(t, p)
      PROVE  StreamInv'
  <2> DEFINE event == IF Fresh(t, p) \/ PublicEdge(t) = None
                      THEN Upsert(t, p, None, FALSE)
                      ELSE Upsert(t, p, PublicEdge(t), TRUE)
  <2>1. Journal(<<event>>) /\ UNCHANGED sessionVars
    BY <1>1 DEF PublishProfile
  <2> HIDE DEF event
  <2>2. Len(<<event>>) \in Nat
    OBVIOUS
  <2> QED
    BY <2>1, <2>2, JournalKeepsInv
<1>2. ASSUME NEW t \in Tracks, NEW d \in Digests, PublishEdge(t, d)
      PROVE  StreamInv'
  <2> DEFINE event == Upsert(t, profiles[t], d, FALSE)
  <2>1. Journal(<<event>>) /\ UNCHANGED sessionVars
    BY <1>2 DEF PublishEdge
  <2> HIDE DEF event
  <2>2. Len(<<event>>) \in Nat
    OBVIOUS
  <2> QED
    BY <2>1, <2>2, JournalKeepsInv
<1>3. ASSUME NEW W \in SUBSET Tracks, NEW purge \in BOOLEAN, Withdraw(W, purge)
      PROVE  StreamInv'
  <2> DEFINE order(i) == CHOOSE t \in W : Cardinality({u \in W : u <= t}) = i
             deletes == [i \in 1..Cardinality(W) |-> Delete(order(i))]
  <2>1. Journal(deletes) /\ UNCHANGED sessionVars
    BY <1>3 DEF Withdraw
  <2>2. TrackCount \in Nat
    BY DEF ConstantsAssumption
  <2>3. Cardinality(W) \in Nat
    <3>1. IsFiniteSet(1..TrackCount)
      BY <2>2, FS_Interval
    <3>2. IsFiniteSet(W)
      BY <3>1, FS_Subset DEF Tracks
    <3> QED
      BY <3>2, FS_CardinalityType
  <2>4. deletes = [i \in 1..Cardinality(W) |-> deletes[i]]
    OBVIOUS
  <2> HIDE DEF deletes
  <2>5. Len(deletes) \in Nat
    BY <2>3, <2>4, DeletesLength
  <2> QED
    BY <2>1, <2>5, JournalKeepsInv
<1>4. ASSUME PurgeEdges
      PROVE  StreamInv'
  BY <1>4, ClientStep DEF PurgeEdges
<1>5. ASSUME NEW limit \in Limits, Maintain(limit)
      PROVE  StreamInv'
  <2> DEFINE f == Larger(floor, TargetFloor(head, limit))
  <2>1. /\ retention' = limit /\ Trim(events, f) /\ head' = head
        /\ UNCHANGED sessionVars
    BY <1>5 DEF Maintain
  <2>2. /\ JournalInv /\ SessionInv
        /\ head \in Nat /\ floor \in 0..head /\ limit \in Nat /\ Multiplier \in Nat
    BY DEF StreamInv, JournalInv, ConstantsAssumption
  <2>3. TargetFloor(head, limit) \in 0..head
    BY <2>2, TargetBounds
  <2>4. f \in floor..head /\ (f <= floor \/ f <= TargetFloor(head, limit))
    BY <2>2, <2>3 DEF Larger
  <2>5. DOMAIN events = DOMAIN events \cup (head + 1)..head
    <3>1. (head + 1)..head = {}
      BY <2>2
    <3> QED
      BY <3>1
  <2>6. floor' = f
    BY <2>1 DEF Trim
  <2> HIDE DEF f
  <2>7. JournalDense'
    BY <2>1, <2>2, <2>4, <2>5, JournalStaysDense
  <2>8. f \in Nat /\ floor <= f
    BY <2>2, <2>4
  <2> QED
    BY <2>1, <2>2, <2>4, <2>6, <2>7, <2>8, JournalStep
<1>6. ASSUME NEW limit \in Limits, RefreshRetention(limit)
      PROVE  StreamInv'
  BY <1>6 DEF RefreshRetention, StreamInv, JournalInv, JournalDense, SessionInv, SessionOK,
       AdmissionInv, CaptureInv, CaptureOK, ReplayInv, ReplayOK, ReadyInv, ReadyOK, Counted,
       Exists, Kept, Outgrown, sessionVars
<1>7. ASSUME ChangeIdentity
      PROVE  StreamInv'
  <2> USE <1>7 DEF ChangeIdentity, journalVars
  <2>1. \A c \in Clients : sessions'[c] = [sessions[c] EXCEPT !.over = @ \/ Exists(c)]
    OBVIOUS
  <2>2. \A c \in Clients :
             /\ DOMAIN sessions'[c] = Fields
             /\ sessions'[c].seq = sessions[c].seq
             /\ sessions'[c].state = sessions[c].state
             /\ sessions'[c].head = sessions[c].head
             /\ Exists(c) => sessions'[c].over
    BY <2>1 DEF StreamInv, SessionInv, SessionOK, Fields
  <2>3. JournalInv' /\ SessionInv'
    BY <2>1, <2>2 DEF StreamInv, JournalInv, JournalDense, SessionInv, SessionOK
  <2>4. AdmissionInv'
    BY DEF StreamInv, AdmissionInv
  <2>5. CaptureInv' /\ ReplayInv' /\ ReadyInv'
    BY <2>1, <2>2 DEF StreamInv, CaptureInv, CaptureOK, ReplayInv, ReplayOK, ReadyInv,
         ReadyOK, Counted, Exists
  <2> QED
    BY <2>3, <2>4, <2>5 DEF StreamInv
<1> QED
  BY <1>1, <1>2, <1>3, <1>4, <1>5, <1>6, <1>7 DEF Publish

\* A step of one client's session that leaves the journal alone.
LEMMA SessionStep ==
    ASSUME StreamInv, UNCHANGED journalVars, NEW c \in Clients,
           sessions' = [d \in Clients |-> sessions'[d]],
           captures' = [d \in Clients |-> captures'[d]],
           replays' = [d \in Clients |-> replays'[d]],
           \A d \in Clients \ {c} : /\ sessions'[d] = sessions[d]
                                    /\ captures'[d] = captures[d]
                                    /\ replays'[d] = replays[d],
           AdmissionInv', SessionOK(c)', CaptureOK(c)', ReplayOK(c)', ReadyOK(c)'
    PROVE  StreamInv'
<1> USE DEF journalVars
<1>1. JournalInv'
  BY DEF StreamInv, JournalInv, JournalDense
<1>2. ASSUME NEW d \in Clients \ {c}
      PROVE  SessionOK(d)' /\ CaptureOK(d)' /\ ReplayOK(d)' /\ ReadyOK(d)'
  BY DEF StreamInv, SessionInv, SessionOK, CaptureInv, CaptureOK, ReplayInv, ReplayOK,
       ReadyInv, ReadyOK, Counted, Exists, Kept, Outgrown
<1> QED
  BY <1>1, <1>2 DEF StreamInv, SessionInv, CaptureInv, ReplayInv, ReadyInv

\* The parts of the invariant that are about client c.
LEMMA AboutClient ==
    ASSUME StreamInv, NEW c \in Clients
    PROVE  /\ head \in Nat /\ floor \in 0..head
           /\ SessionOK(c) /\ CaptureOK(c) /\ ReplayOK(c) /\ ReadyOK(c)
           /\ sessions = [d \in Clients |-> sessions[d]]
           /\ captures = [d \in Clients |-> captures[d]]
           /\ replays = [d \in Clients |-> replays[d]]
           /\ AdmissionInv
BY DEF StreamInv, JournalInv, SessionInv, CaptureInv, ReplayInv, ReadyInv

LEMMA CreateKeepsInv ==
    ASSUME StreamInv, ConstantsAssumption, Create
    PROVE  StreamInv'
<1> USE DEF journalVars
<1>1. ASSUME NEW c \in Clients, AdmitRead(c)
      PROVE  StreamInv'
  <2>1. AdmissionInv'
    BY <1>1, AboutClient DEF AdmitRead, Locked, AdmissionInv
  <2> QED
    BY <1>1, <2>1 DEF AdmitRead, StreamInv, JournalInv, JournalDense, SessionInv, SessionOK,
         CaptureInv, CaptureOK, ReplayInv, ReplayOK, ReadyInv, ReadyOK, Counted, Exists,
         Kept, Outgrown
<1>2. ASSUME AdmitCommit
      PROVE  StreamInv'
  <2> DEFINE new == [NoSession EXCEPT !.state = "capturing", !.seq = admission.seq,
                                      !.over = admission.over]
  <2>1. /\ AdmissionInv /\ admission # None /\ admission' = None
        /\ sessions' = [sessions EXCEPT ![admission.client] = new]
        /\ captures' = [captures EXCEPT ![admission.client] = None]
        /\ UNCHANGED <<journalVars, replays>>
    BY <1>2 DEF AdmitCommit, StreamInv
  <2>2. PICK c \in Clients : c = admission.client
    BY <2>1 DEF AdmissionInv
  <2>3. admission.seq \in 0..head /\ replays[c] = None
    BY <2>1, <2>2 DEF AdmissionInv
  <2>4. /\ new.state = "capturing" /\ new.seq = admission.seq /\ new.head = None
        /\ DOMAIN new = Fields
    BY DEF NoSession, Fields
  <2> HIDE DEF new
  <2>5. sessions'[c] = new /\ captures'[c] = None /\ replays'[c] = None
    BY <2>1, <2>2, <2>3, AboutClient
  <2>6. SessionOK(c)' /\ CaptureOK(c)' /\ ReplayOK(c)' /\ ReadyOK(c)' /\ AdmissionInv'
    BY <2>1, <2>3, <2>5, <2>4 DEF SessionOK, CaptureOK, ReplayOK, ReadyOK, AdmissionInv,
         Counted
  <2>7. /\ sessions' = [d \in Clients |-> sessions'[d]]
        /\ captures' = [d \in Clients |-> captures'[d]]
        /\ replays' = [d \in Clients |-> replays'[d]]
        /\ \A d \in Clients \ {c} : /\ sessions'[d] = sessions[d]
                                     /\ captures'[d] = captures[d]
                                     /\ replays'[d] = replays[d]
    BY <2>1, <2>2, AboutClient
  <2> QED
    BY <2>1, <2>2, <2>6, <2>7, SessionStep
<1>3. ASSUME NEW c \in Clients, Drop(c)
      PROVE  StreamInv'
  <2>1. /\ sessions' = [sessions EXCEPT ![c] = NoSession]
        /\ captures' = [captures EXCEPT ![c] = None]
        /\ replays[c] = None /\ UNCHANGED <<journalVars, admission, replays>>
    BY <1>3 DEF Drop, Locked
  <2>2. /\ DOMAIN NoSession = Fields /\ NoSession.state = "none" /\ NoSession.seq = 0
    BY DEF NoSession, Fields
  <2>3. sessions'[c] = NoSession /\ captures'[c] = None /\ replays'[c] = None
    BY <2>1, AboutClient
  <2>4. SessionOK(c)' /\ CaptureOK(c)' /\ ReplayOK(c)' /\ ReadyOK(c)' /\ AdmissionInv'
    BY <2>1, <2>2, <2>3, AboutClient DEF SessionOK, CaptureOK, ReplayOK, ReadyOK,
         AdmissionInv
  <2>5. /\ sessions' = [d \in Clients |-> sessions'[d]]
        /\ captures' = [d \in Clients |-> captures'[d]]
        /\ replays' = [d \in Clients |-> replays'[d]]
        /\ \A d \in Clients \ {c} : /\ sessions'[d] = sessions[d]
                                     /\ captures'[d] = captures[d]
                                     /\ replays'[d] = replays[d]
    BY <2>1, AboutClient
  <2> QED
    BY <2>1, <2>4, <2>5, SessionStep
<1>4. ASSUME NEW c \in Clients, Expire(c) \/ Overrun(c)
      PROVE  StreamInv'
  <2>1. /\ \/ sessions' = [sessions EXCEPT ![c].over = TRUE]
           \/ sessions' = [sessions EXCEPT ![c].abandoned = TRUE]
        /\ UNCHANGED <<journalVars, admission, captures, replays>>
    BY <1>4 DEF Expire, Overrun
  <2>2. /\ DOMAIN sessions'[c] = Fields
        /\ sessions'[c].seq = sessions[c].seq /\ sessions'[c].state = sessions[c].state
        /\ sessions'[c].head = sessions[c].head
        /\ ~Counted(c)'
    BY <2>1, AboutClient DEF SessionOK, Fields, Counted
  <2>3. SessionOK(c)' /\ CaptureOK(c)' /\ ReplayOK(c)' /\ ReadyOK(c)' /\ AdmissionInv'
    BY <2>1, <2>2, AboutClient DEF SessionOK, CaptureOK, ReplayOK, ReadyOK,
         AdmissionInv
  <2>4. /\ sessions' = [d \in Clients |-> sessions'[d]]
        /\ \A d \in Clients \ {c} : sessions'[d] = sessions[d]
    BY <2>1, AboutClient
  <2> QED
    BY <2>1, <2>3, <2>4, SessionStep, AboutClient
<1>5. ASSUME NEW c \in Clients, CaptureBegin(c)
      PROVE  StreamInv'
  <2>1. /\ captures' = [captures EXCEPT ![c] = [seq |-> head, rows |-> Rows]]
        /\ sessions[c].state = "capturing"
        /\ UNCHANGED <<journalVars, admission, sessions, replays>>
    BY <1>5 DEF CaptureBegin
  <2>2. captures'[c].seq = head
    BY <2>1, AboutClient
  <2>3. SessionOK(c)' /\ CaptureOK(c)' /\ ReplayOK(c)' /\ ReadyOK(c)' /\ AdmissionInv'
    BY <2>1, <2>2, AboutClient DEF SessionOK, CaptureOK, ReplayOK, ReadyOK, AdmissionInv,
         Counted, Exists, Kept, Outgrown
  <2>4. /\ captures' = [d \in Clients |-> captures'[d]]
        /\ \A d \in Clients \ {c} : captures'[d] = captures[d]
    BY <2>1, AboutClient
  <2> QED
    BY <2>1, <2>3, <2>4, SessionStep, AboutClient
<1>6. ASSUME NEW c \in Clients, NEW answered \in BOOLEAN, CaptureCommit(c, answered)
      PROVE  StreamInv'
  <2>1. /\ captures[c] # None /\ ~Locked(c)
        /\ sessions' = [sessions EXCEPT ![c].state = "ready", ![c].seq = captures[c].seq,
                                        ![c].snapshot = captures[c].rows]
        /\ captures' = [captures EXCEPT ![c] = None]
        /\ UNCHANGED <<journalVars, admission, replays>>
    BY <1>6 DEF CaptureCommit, CapturedSeq
  <2>2. /\ DOMAIN sessions'[c] = Fields /\ sessions'[c].state = "ready"
        /\ sessions'[c].seq = captures[c].seq
        /\ Counted(c)' => Counted(c)
        /\ captures'[c] = None
    BY <2>1, AboutClient DEF SessionOK, CaptureOK, Fields, Counted, Exists
  <2>3. SessionOK(c)' /\ CaptureOK(c)' /\ ReplayOK(c)' /\ ReadyOK(c)' /\ AdmissionInv'
    BY <2>1, <2>2, AboutClient DEF SessionOK, CaptureOK, ReplayOK, ReadyOK, AdmissionInv,
         Kept, Outgrown
  <2>4. /\ sessions' = [d \in Clients |-> sessions'[d]]
        /\ captures' = [d \in Clients |-> captures'[d]]
        /\ \A d \in Clients \ {c} : sessions'[d] = sessions[d] /\ captures'[d] = captures[d]
    BY <2>1, AboutClient
  <2> QED
    BY <2>1, <2>3, <2>4, SessionStep, AboutClient
<1>7. ASSUME NEW c \in Clients, Adopt(c)
      PROVE  StreamInv'
  BY <1>7, ClientStep DEF Adopt
<1> QED
  BY <1>1, <1>2, <1>3, <1>4, <1>5, <1>6, <1>7 DEF Create, PurgeSession, EndSession

LEMMA ReadKeepsInv ==
    ASSUME StreamInv, ConstantsAssumption, Read
    PROVE  StreamInv'
<1> USE DEF journalVars
<1>1. ASSUME NEW c \in Clients, SnapshotPage(c) \/ CatchupPage(c)
      PROVE  StreamInv'
  <2>1. PICK rest :
          /\ \/ sessions' = [sessions EXCEPT ![c].claimed = TRUE, ![c].snapshot = rest]
             \/ sessions' = [sessions EXCEPT ![c].catchup = rest]
          /\ UNCHANGED <<journalVars, admission, captures, replays>>
    BY <1>1 DEF SnapshotPage, CatchupPage
  <2>2. /\ DOMAIN sessions'[c] = Fields
        /\ sessions'[c].seq = sessions[c].seq /\ sessions'[c].state = sessions[c].state
        /\ sessions'[c].head = sessions[c].head
        /\ Counted(c)' = Counted(c)
    BY <2>1, AboutClient DEF SessionOK, Fields, Counted, Exists
  <2>3. SessionOK(c)' /\ CaptureOK(c)' /\ ReplayOK(c)' /\ ReadyOK(c)' /\ AdmissionInv'
    BY <2>1, <2>2, AboutClient DEF SessionOK, CaptureOK, ReplayOK, ReadyOK, AdmissionInv,
         Kept, Outgrown
  <2>4. /\ sessions' = [d \in Clients |-> sessions'[d]]
        /\ \A d \in Clients \ {c} : sessions'[d] = sessions[d]
    BY <2>1, AboutClient
  <2> QED
    BY <2>1, <2>3, <2>4, SessionStep, AboutClient
<1>2. ASSUME NEW c \in Clients, CatchupBegin(c) \/ CatchupBatch(c)
      PROVE  StreamInv'
  <2>1. /\ replays' = [d \in Clients |-> replays'[d]]
        /\ \A d \in Clients \ {c} : replays'[d] = replays[d]
        /\ UNCHANGED <<journalVars, admission, sessions, captures>>
    BY <1>2, AboutClient DEF CatchupBegin, CatchupBatch
  <2>2. AdmissionInv' /\ ReplayOK(c)'
    BY <1>2, AboutClient DEF CatchupBegin, CatchupBatch, Locked, Valid, AdmissionInv,
         ReplayOK
  <2>3. SessionOK(c)' /\ CaptureOK(c)' /\ ReadyOK(c)'
    BY <2>1, AboutClient DEF SessionOK, CaptureOK, ReadyOK, Counted, Exists, Kept, Outgrown
  <2> QED
    BY <2>1, <2>2, <2>3, SessionStep, AboutClient
<1>3. ASSUME NEW c \in Clients, CatchupCommit(c)
      PROVE  StreamInv'
  <2>1. /\ replays[c] # None
        /\ sessions' = [sessions EXCEPT ![c].head = replays[c].head,
                                        ![c].catchup = replays[c].events,
                                        ![c].claimed = TRUE]
        /\ replays' = [replays EXCEPT ![c] = None]
        /\ UNCHANGED <<journalVars, admission, captures>>
    BY <1>3 DEF CatchupCommit
  <2>2. /\ DOMAIN sessions'[c] = Fields
        /\ sessions'[c].seq = sessions[c].seq /\ sessions'[c].state = "ready"
        /\ sessions'[c].head \in Nat /\ replays'[c] = None
        /\ captures[c] = None
    BY <2>1, AboutClient DEF SessionOK, ReplayOK, CaptureOK, Fields
  <2>3. ~Counted(c)'
    BY <2>2 DEF Counted, ConstantsAssumption
  <2>4. SessionOK(c)' /\ CaptureOK(c)' /\ ReplayOK(c)' /\ ReadyOK(c)' /\ AdmissionInv'
    BY <2>1, <2>2, <2>3, AboutClient DEF SessionOK, CaptureOK, ReplayOK, ReadyOK,
         AdmissionInv
  <2>5. /\ sessions' = [d \in Clients |-> sessions'[d]]
        /\ replays' = [d \in Clients |-> replays'[d]]
        /\ \A d \in Clients \ {c} : sessions'[d] = sessions[d] /\ replays'[d] = replays[d]
    BY <2>1, AboutClient
  <2> QED
    BY <2>1, <2>4, <2>5, SessionStep, AboutClient
<1>4. ASSUME NEW c \in Clients,
             \/ PageRefused(c) \/ LegacyBegin(c) \/ LegacyPage(c) \/ ChangesPage(c)
             \/ \E t \in Tracks : Fetch(c, t)
      PROVE  StreamInv'
  BY <1>4, ClientStep DEF PageRefused, LegacyBegin, LegacyPage, ChangesPage, Fetch
<1> QED
  BY <1>1, <1>2, <1>3, <1>4 DEF Read

LEMMA InitHasInv == ConstantsAssumption /\ Init => StreamInv
<1> SUFFICES ASSUME ConstantsAssumption, Init
             PROVE  StreamInv
  OBVIOUS
<1>1. JournalInv
  <2>1. DOMAIN events = {} /\ 1..0 = {}
    BY DEF Init
  <2> QED
    BY <2>1 DEF Init, JournalInv, JournalDense
<1>2. SessionInv /\ ReadyInv
  BY DEF Init, SessionInv, SessionOK, ReadyInv, ReadyOK, Counted, Exists, NoSession, Fields
<1>3. AdmissionInv /\ CaptureInv /\ ReplayInv
  BY DEF Init, AdmissionInv, CaptureInv, CaptureOK, ReplayInv, ReplayOK
<1> QED
  BY <1>1, <1>2, <1>3 DEF StreamInv

\* Every reachable state satisfies the inductive invariant.
THEOREM StreamInvariant == Spec => []StreamInv
<1>1. ConstantsAssumption
  BY ConstantsAssumption
<1>2. Init => StreamInv
  BY <1>1, InitHasInv
<1>3. StreamInv /\ [Next]_vars => StreamInv'
  <2>1. StreamInv /\ Next => StreamInv'
    BY <1>1, PublishKeepsInv, CreateKeepsInv, ReadKeepsInv DEF Next
  <2>2. StreamInv /\ UNCHANGED vars => StreamInv'
    BY ClientStep DEF vars, journalVars, sessionVars
  <2> QED
    BY <2>1, <2>2
<1> QED
  BY <1>2, <1>3, PTL DEF Spec

\* Whoever publishes, compacts, captures or reads: no stored event is missing
\* between the floor that pages are refused below and the head that they go up to.
THEOREM JournalIsDense == Spec => []JournalDense
<1>1. StreamInv => JournalDense
  BY DEF StreamInv, JournalInv
<1> QED
  BY <1>1, StreamInvariant, PTL

\* The hold reaches from the head an admission read to the end of the catch-up,
\* through a capture that starts from a later head: a session that is ready,
\* alive and was never given up for dead finds its events, unless the journal has
\* outgrown the held limit.
THEOREM HeldSessionsCanCatchUp == Spec => []HeldSessionsReadable
<1>1. StreamInv => HeldSessionsReadable
  BY DEF StreamInv, ReadyInv, ReadyOK, Counted, Kept, Outgrown, HeldSessionsReadable, Live
<1> QED
  BY <1>1, StreamInvariant, PTL

-----------------------------------------------------------------------------
(* What the clients have when they have read everything: for every library, *)
(* media, digest and set of clients.                                        *)

(* Rows in the order of their tracks.                                      *)

Rank(W, t) == Cardinality({u \in W : u <= t})
Ordinal(W, i) == CHOOSE t \in W : Cardinality({u \in W : u <= t}) = i

\* The i-th of a set of tracks for each i up to its size: all of them, once each.
LEMMA Ordinals ==
    ASSUME TrackCount \in Nat, NEW W \in SUBSET Tracks
    PROVE  /\ Cardinality(W) \in Nat
           /\ \A i \in 1..Cardinality(W) : Ordinal(W, i) \in W /\ Rank(W, Ordinal(W, i)) = i
           /\ \A t \in W : \E i \in 1..Cardinality(W) : Ordinal(W, i) = t
<1> DEFINE below(t) == {u \in W : u <= t}
           n == Cardinality(W)
           rank == [t \in W |-> Rank(W, t)]
<1>1. IsFiniteSet(W) /\ n \in Nat
  <2>1. IsFiniteSet(Tracks)
    BY FS_Interval DEF Tracks
  <2>2. IsFiniteSet(W)
    BY <2>1, FS_Subset
  <2> QED
    BY <2>2, FS_CardinalityType
<1>2. \A t \in W : /\ IsFiniteSet(below(t)) /\ Cardinality(below(t)) \in Nat
                   /\ Cardinality(below(t)) <= n
  BY <1>1, FS_Subset, FS_CardinalityType
<1>3. \A t \in W : Cardinality(below(t)) # 0
  <2> SUFFICES ASSUME NEW t \in W
               PROVE  Cardinality(below(t)) # 0
    OBVIOUS
  <2>1. t \in below(t)
    BY DEF Tracks
  <2>2. IsFiniteSet(below(t))
    BY <1>2
  <2> HIDE DEF below
  <2>3. Cardinality(below(t)) = 0 <=> below(t) = {}
    BY <2>2, FS_EmptySet
  <2> QED
    BY <2>1, <2>3
<1>4. \A t \in W : Rank(W, t) \in 1..n
  BY <1>1, <1>2, <1>3 DEF Rank
<1>5. ASSUME NEW t \in W, NEW u \in W, t < u
      PROVE  Rank(W, t) # Rank(W, u)
  <2> USE <1>5 DEF Tracks
  <2>1. below(t) \in SUBSET below(u)
    <3>1. t \in Nat /\ u \in Nat /\ W \subseteq Nat
      OBVIOUS
    <3>2. \A v \in W : v <= t => v <= u
      BY <3>1
    <3> QED
      BY <3>2
  <2>2. u \in below(u) /\ u \notin below(t)
    OBVIOUS
  <2>3. IsFiniteSet(below(u))
    BY <1>2
  <2> HIDE DEF below
  <2>4. Cardinality(below(u)) # Cardinality(below(t))
    BY <2>1, <2>2, <2>3, FS_Subset
  <2> QED
    BY <2>4 DEF Rank, below
<1>6. \A t, u \in W : Rank(W, t) = Rank(W, u) => t = u
  <2> SUFFICES ASSUME NEW t \in W, NEW u \in W, t # u
               PROVE  Rank(W, t) # Rank(W, u)
    OBVIOUS
  <2>1. t < u \/ u < t
    BY DEF Tracks
  <2> QED
    BY <1>5, <2>1
<1>7. rank \in Injection(W, 1..n)
  BY <1>4, <1>6 DEF Injection, IsInjective
<1>8. IsFiniteSet(1..n) /\ Cardinality(1..n) = n
  BY <1>1, FS_Interval
<1>9. rank \in Surjection(W, 1..n)
  <2> HIDE DEF rank
  <2> QED
    BY <1>7, <1>8, FS_Injection
<1>10. \A i \in 1..n : \E t \in W : Rank(W, t) = i
  BY <1>9 DEF Surjection
<1>11. \A i \in 1..n : Ordinal(W, i) \in W /\ Rank(W, Ordinal(W, i)) = i
  BY <1>10, Zenon DEF Ordinal, Rank
<1>12. \A t \in W : \E i \in 1..n : Ordinal(W, i) = t
  BY <1>4, <1>6, <1>11
<1> QED
  BY <1>1, <1>11, <1>12

\* A snapshot lists each published track with its row.
LEMMA RowsAreThePublished ==
    ASSUME TrackCount \in Nat, profiles \in [Tracks -> Profile \cup {None}],
           edges \in [Tracks -> Edge \cup {None}]
    PROVE  /\ Rows \in Seq(SnapshotRow)
           /\ \A i \in DOMAIN Rows : /\ Rows[i].profile = profiles[Rows[i].track]
                                     /\ Rows[i].ref = PublicEdge(Rows[i].track)
           /\ \A t \in Tracks : profiles[t] # None => \E i \in DOMAIN Rows : Rows[i].track = t
<1> DEFINE W == {t \in Tracks : profiles[t] # None}
           n == Cardinality(W)
           row(i) == [track |-> Ordinal(W, i), profile |-> profiles[Ordinal(W, i)],
                      ref |-> PublicEdge(Ordinal(W, i))]
<1>1. Rows = [i \in 1..n |-> row(i)]
  BY DEF Rows, Ordinal
<1>2. W \in SUBSET Tracks
  OBVIOUS
<1>3. n \in Nat /\ \A i \in 1..n : Ordinal(W, i) \in W
  BY <1>2, Ordinals
<1>4. \A t \in W : \E i \in 1..n : Ordinal(W, i) = t
  BY <1>2, Ordinals
<1>5. \A t \in Tracks : PublicEdge(t) \in Digests \cup {None}
  BY DEF PublicEdge, Edge
<1>6. \A i \in 1..n : row(i) \in SnapshotRow
  <2> SUFFICES ASSUME NEW i \in 1..n
               PROVE  row(i) \in SnapshotRow
    OBVIOUS
  <2> DEFINE t == Ordinal(W, i)
  <2>1. t \in Tracks /\ profiles[t] # None
    BY <1>3
  <2> HIDE DEF t, W
  <2> QED
    BY <1>5, <2>1 DEF SnapshotRow, t
<1> HIDE DEF W
<1>7. Rows \in Seq(SnapshotRow) /\ DOMAIN Rows = 1..n
  <2>1. Rows \in [1..n -> SnapshotRow]
    BY <1>1, <1>6
  <2> QED
    BY <1>3, <2>1, SeqDef
<1>8. \A i \in DOMAIN Rows : Rows[i] = row(i)
  BY <1>1, <1>7
<1>9. \A t \in Tracks : profiles[t] # None => \E i \in DOMAIN Rows : Rows[i].track = t
  <2> SUFFICES ASSUME NEW t \in Tracks, profiles[t] # None
               PROVE  \E i \in DOMAIN Rows : Rows[i].track = t
    OBVIOUS
  <2>1. t \in W
    BY DEF W
  <2>2. PICK i \in 1..n : Ordinal(W, i) = t
    BY <1>4, <2>1
  <2>3. Rows[i].track = t
    BY <1>7, <1>8, <2>2
  <2> QED
    BY <1>7, <2>3
<1> QED
  BY <1>7, <1>8, <1>9

-----------------------------------------------------------------------------
(* The types, which the convergence of the clients rests on.                *)

PublicOK ==
    /\ profiles \in [Tracks -> Profile \cup {None}]
    /\ edges \in [Tracks -> Edge \cup {None}]

EventsOK == head <= MaxSeq /\ \A s \in DOMAIN events : events[s] \in Event

AdmissionOK == admission = None \/ admission \in [client : Clients, seq : Nat, over : BOOLEAN]

\* An edge is queued for a fetch only for a profile the client has, and none during
\* the legacy bootstrap.
Held(client) ==
    /\ \A t \in client.misses : client.has[t] # None
    /\ client.phase = "legacy" => client.misses = {} /\ client.at <= TrackCount

OneOK(c) ==
    /\ sessions[c] \in Session
    /\ captures[c] # None => captures[c].rows \in Seq(SnapshotRow)
    /\ replays[c] # None => replays[c].events \in Seq(Event) /\ replays[c].at \in Nat
    /\ clients[c] \in Client /\ Held(clients[c])

ClientsOK == clients = [c \in Clients |-> clients[c]] /\ \A c \in Clients : OneOK(c)

TypeInv == PublicOK /\ EventsOK /\ AdmissionOK /\ ClientsOK

LEMMA EdgeTypes ==
    ASSUME PublicOK, NEW t \in Tracks, NEW media, NEW ref \in Digests \cup {None}
    PROVE  /\ PublicEdge(t) \in Digests \cup {None}
           /\ CurrentEdge(t, media, ref) \in Digests \cup {None}
           /\ ReferencedEdge(t, media, ref) \in Digests \cup {None}
BY DEF PublicOK, PublicEdge, CurrentEdge, ReferencedEdge, Edge

LEMMA StartType ==
    ASSUME NEW client \in Client, NEW phase \in {"idle", "snapshot", "catchup", "legacy", "delta"},
           NEW cursor \in Nat
    PROVE  Start(client, phase, cursor) \in Client /\ Held(Start(client, phase, cursor))
<1> DEFINE start == Start(client, phase, cursor)
<1>1. start \in Client
  BY DEF Start, Client
<1>2. /\ start.phase = phase /\ start.cursor = cursor /\ start.at = 0
      /\ start.misses = {} /\ \A t \in Tracks : start.has[t] = None
  BY DEF Start, Client
<1>3. 0 <= TrackCount
  BY ConstantsAssumption DEF ConstantsAssumption
<1> HIDE DEF start
<1>4. Held(start)
  BY <1>2, <1>3 DEF Held
<1> QED
  BY <1>1, <1>4 DEF start

LEMMA PhaseType ==
    ASSUME NEW client \in Client, Held(client), NEW phase \in {"catchup", "delta"}
    PROVE  /\ [client EXCEPT !.phase = phase] \in Client
           /\ Held([client EXCEPT !.phase = phase])
BY DEF Client, Held

LEMMA CursorType ==
    ASSUME NEW client \in Client, Held(client), NEW cursor \in Nat
    PROVE  /\ [client EXCEPT !.cursor = cursor] \in Client
           /\ Held([client EXCEPT !.cursor = cursor])
           /\ [client EXCEPT !.phase = "delta", !.cursor = cursor] \in Client
           /\ Held([client EXCEPT !.phase = "delta", !.cursor = cursor])
BY DEF Client, Held

\* A client whose entry of one track has changed, and nothing else.
Becomes(after, client, t, entry, misses) ==
    /\ after \in Client /\ Held(after)
    /\ after.phase = client.phase /\ after.cursor = client.cursor /\ after.at = client.at
    /\ after.has[t] = entry
    /\ \A u \in Tracks \ {t} : after.has[u] = client.has[u]
    /\ after.misses = misses

LEMMA EntryType ==
    ASSUME NEW client \in Client, Held(client), client.phase # "legacy", NEW t \in Tracks,
           NEW entry \in Copy \cup {None}, NEW misses \in SUBSET Tracks,
           t \in misses => entry # None, misses \ {t} = client.misses \ {t},
           NEW after, after = [client EXCEPT !.has[t] = entry, !.misses = misses]
    PROVE  Becomes(after, client, t, entry, misses)
<1>1. client.has \in [Tracks -> Copy \cup {None}]
  BY DEF Client
<1>2. /\ after.has = [client.has EXCEPT ![t] = entry]
      /\ after.misses = misses /\ after.phase = client.phase
      /\ after.cursor = client.cursor /\ after.at = client.at
  BY DEF Client
<1>3. after.has \in [Tracks -> Copy \cup {None}]
  BY <1>1, <1>2
<1>4. after \in Client
  BY <1>2, <1>3 DEF Client
<1>5. after.has[t] = entry /\ \A u \in Tracks \ {t} : after.has[u] = client.has[u]
  BY <1>1, <1>2
<1>6. Held(after)
  BY <1>2, <1>5 DEF Held
<1> QED
  BY <1>2, <1>4, <1>5, <1>6 DEF Becomes

LEMMA StoredEntry ==
    ASSUME NEW client \in Client, Held(client), client.phase # "legacy", NEW t \in Tracks, NEW profile \in Profile,
           NEW edge \in Digests \cup {None}
    PROVE  Becomes(Stored(client, t, profile, edge), client, t,
                   [profile |-> profile, edge |-> edge], client.misses \ {t})
<1> DEFINE entry == [profile |-> profile, edge |-> edge]
           misses == client.misses \ {t}
           after == Stored(client, t, profile, edge)
<1>1. /\ entry \in Copy \cup {None} /\ misses \in SUBSET Tracks /\ t \notin misses
      /\ misses \ {t} = client.misses \ {t}
  BY DEF Client, Copy
<1>2. after = [client EXCEPT !.has[t] = entry, !.misses = misses]
  BY DEF Stored, Client
<1> HIDE DEF entry, misses, after
<1>3. Becomes(after, client, t, entry, misses)
  BY <1>1, <1>2, EntryType
<1> QED
  BY <1>3 DEF entry, misses, after

\* A reference is a hit or a miss.
LEMMA ReferencedEntry ==
    ASSUME NEW client \in Client, Held(client), client.phase # "legacy", NEW t \in Tracks, NEW profile \in Profile,
           NEW ref \in Digests \cup {None}
    PROVE  \/ Becomes(Referenced(client, t, profile, ref), client, t,
                      [profile |-> profile, edge |-> ref], client.misses \ {t})
           \/ Becomes(Referenced(client, t, profile, ref), client, t,
                      [profile |-> profile, edge |-> None], client.misses \cup {t})
<1> DEFINE mine == /\ client.has[t] # None /\ client.has[t].edge = ref
                   /\ client.has[t].profile.media = profile.media
           entry == [profile |-> profile, edge |-> IF mine THEN ref ELSE None]
           misses == IF mine THEN client.misses \ {t} ELSE client.misses \cup {t}
           after == Referenced(client, t, profile, ref)
<1>1. /\ entry \in Copy /\ entry # None /\ misses \in SUBSET Tracks
      /\ misses \ {t} = client.misses \ {t}
  <2> HIDE DEF mine
  <2> QED
    BY NoneAssumption DEF Client, Copy
<1>2. after = [client EXCEPT !.has[t] = entry, !.misses = misses]
  BY DEF Referenced
<1>3. \/ misses = client.misses \ {t} /\ entry = [profile |-> profile, edge |-> ref]
      \/ misses = client.misses \cup {t} /\ entry = [profile |-> profile, edge |-> None]
  <2> HIDE DEF mine
  <2> QED
    OBVIOUS
<1> HIDE DEF entry, misses, after
<1>4. entry \in Copy \cup {None}
  BY <1>1
<1>5. Becomes(after, client, t, entry, misses)
  BY <1>1, <1>2, <1>4, EntryType
<1> QED
  BY <1>3, <1>5 DEF after

LEMMA RemovedEntry ==
    ASSUME NEW client \in Client, Held(client), client.phase # "legacy", NEW t \in Tracks
    PROVE  Becomes([client EXCEPT !.has[t] = None, !.misses = @ \ {t}], client, t, None,
                   client.misses \ {t})
<1> DEFINE misses == client.misses \ {t}
           after == [client EXCEPT !.has[t] = None, !.misses = misses]
<1>1. /\ None \in Copy \cup {None} /\ misses \in SUBSET Tracks /\ t \notin misses
      /\ misses \ {t} = client.misses \ {t}
  BY DEF Client
<1>2. after = [client EXCEPT !.has[t] = None, !.misses = misses]
  OBVIOUS
<1>3. after = [client EXCEPT !.has[t] = None, !.misses = @ \ {t}]
  BY DEF Client
<1> HIDE DEF misses, after
<1>4. Becomes(after, client, t, None, misses)
  BY <1>1, <1>2, EntryType
<1> QED
  BY <1>3, <1>4 DEF misses

\* What an event does to a client.
LEMMA AppliedEntry ==
    ASSUME NEW client \in Client, Held(client), client.phase # "legacy", NEW event \in Event,
           NEW edge \in Digests \cup {None}
    PROVE  LET t == event.track
               after == Applied(client, event, edge)
           IN \/ /\ event.profile = None
                 /\ Becomes(after, client, t, None, client.misses \ {t})
              \/ /\ event.profile \in Profile
                 /\ Becomes(after, client, t, [profile |-> event.profile, edge |-> edge],
                            client.misses \ {t})
              \/ /\ event.profile \in Profile
                 /\ Becomes(after, client, t, [profile |-> event.profile, edge |-> event.ref],
                            client.misses \ {t})
              \/ /\ event.profile \in Profile
                 /\ Becomes(after, client, t, [profile |-> event.profile, edge |-> None],
                            client.misses \cup {t})
<1> DEFINE t == event.track
           after == Applied(client, event, edge)
<1>1. t \in Tracks /\ event.ref \in Digests \cup {None}
      /\ (event.profile # None => event.profile \in Profile)
  BY DEF Event
<1>2. CASE event.profile = None
  BY <1>1, <1>2, RemovedEntry DEF Applied
<1>3. CASE event.profile # None /\ client.refs /\ event.kept
  <2>1. after = Referenced(client, t, event.profile, event.ref)
    BY <1>3 DEF Applied
  <2> QED
    BY <1>1, <1>3, <2>1, ReferencedEntry
<1>4. CASE event.profile # None /\ ~(client.refs /\ event.kept)
  <2>1. after = Stored(client, t, event.profile, edge)
    BY <1>4 DEF Applied
  <2> QED
    BY <1>1, <1>4, <2>1, StoredEntry
<1> QED
  BY <1>2, <1>3, <1>4

-----------------------------------------------------------------------------
(* Every step keeps the types.                                             *)

\* What a change of the published state appends is stored, unless compaction has
\* dropped it; what was stored is left or dropped.
LEMMA JournalAppends ==
    ASSUME StreamInv, ConstantsAssumption, NEW new, Len(new) \in Nat, Journal(new)
    PROVE  /\ head' = head + Len(new) /\ head' <= MaxSeq
           /\ floor' \in Nat /\ floor <= floor'
           /\ \A s \in DOMAIN events' :
                /\ s \in 1..head' /\ s > floor'
                /\ s <= head => s \in DOMAIN events /\ events'[s] = events[s]
                /\ s > head => s - head \in 1..Len(new) /\ events'[s] = new[s - head]
           /\ DOMAIN events' = (floor' + 1)..head'
<1> DEFINE h == head + Len(new)
           share == MaxAdvance * Len(new)
           target == TargetFloor(h, retention)
           f == Larger(floor, Smaller(target, floor + share))
           stored == [s \in DOMAIN events \cup (head + 1)..h |->
                        IF s > head THEN new[s - head] ELSE events[s]]
<1>1. /\ head' = h /\ h <= MaxSeq /\ Trim(stored, f)
  BY Zenon DEF Journal
<1>2. /\ JournalInv /\ SessionInv
      /\ head \in Nat /\ floor \in 0..head /\ h \in Nat /\ head <= h
      /\ retention \in Nat /\ Multiplier \in Nat
  BY DEF StreamInv, JournalInv, ConstantsAssumption
<1>3. share \in Nat
  BY DEF ConstantsAssumption
<1>4. target \in 0..h
  BY <1>2, TargetBounds
<1> HIDE DEF share, target
<1>5. f \in floor..h
  BY <1>2, <1>3, <1>4 DEF Larger, Smaller
<1> HIDE DEF f
<1>6. floor' = f /\ events' = [s \in {s \in DOMAIN stored : s > f} |-> stored[s]]
  BY <1>1 DEF Trim
<1>7. DOMAIN stored = (floor + 1)..h
  BY <1>2 DEF JournalInv, JournalDense
<1>8. DOMAIN events = (floor + 1)..head
  BY <1>2 DEF JournalInv, JournalDense
<1>9. ASSUME NEW s \in DOMAIN events'
      PROVE  /\ s \in 1..head' /\ s > floor'
             /\ s <= head => s \in DOMAIN events /\ events'[s] = events[s]
             /\ s > head => s - head \in 1..Len(new) /\ events'[s] = new[s - head]
  <2>1. s \in (floor + 1)..h /\ s > f /\ events'[s] = stored[s]
    BY <1>6, <1>7
  <2>2. s \in Nat /\ s \in DOMAIN stored
    BY <1>2, <1>7, <2>1
  <2>3. stored[s] = IF s > head THEN new[s - head] ELSE events[s]
    BY <2>2
  <2> HIDE DEF stored
  <2> QED
    BY <1>1, <1>2, <1>6, <1>8, <2>1, <2>2, <2>3
<1>10. DOMAIN events' = (f + 1)..h
  <2>1. DOMAIN events' = {s \in DOMAIN stored : s > f}
    BY <1>6
  <2>2. {s \in (floor + 1)..h : s > f} = (f + 1)..h
    BY <1>2, <1>5
  <2> QED
    BY <1>7, <2>1, <2>2
<1> QED
  BY <1>1, <1>2, <1>5, <1>6, <1>9, <1>10

\* A step of the published state alone, and of its journal.
LEMMA PublicStepTypes ==
    ASSUME TypeInv, PublicOK', EventsOK',
           UNCHANGED <<sessionVars, clients>>
    PROVE  TypeInv'
BY DEF TypeInv, AdmissionOK, ClientsOK, OneOK, sessionVars

LEMMA JournalTypes ==
    ASSUME StreamInv, ConstantsAssumption, TypeInv, PublicOK',
           NEW new, Len(new) \in Nat, \A i \in 1..Len(new) : new[i] \in Event, Journal(new),
           UNCHANGED <<sessionVars, clients>>
    PROVE  TypeInv'
<1>1. EventsOK'
  <2>1. head' <= MaxSeq
    BY JournalAppends
  <2>2. \A s \in DOMAIN events' :
          /\ s \in 1..head' /\ s > floor'
          /\ s <= head => s \in DOMAIN events /\ events'[s] = events[s]
          /\ s > head => s - head \in 1..Len(new) /\ events'[s] = new[s - head]
    BY JournalAppends
  <2>3. head \in Nat
    BY DEF StreamInv, JournalInv
  <2>4. \A s \in DOMAIN events' : events'[s] \in Event
    BY <2>2, <2>3 DEF TypeInv, EventsOK
  <2> QED
    BY <2>1, <2>4 DEF EventsOK
<1> QED
  BY <1>1, PublicStepTypes

LEMMA TrackNumbers == ASSUME ConstantsAssumption PROVE TrackCount \in Nat
BY DEF ConstantsAssumption

\* The events of a withdrawal: a delete for each track, once.
LEMMA Deletes ==
    ASSUME ConstantsAssumption, NEW W \in SUBSET Tracks, NEW deletes,
           deletes = [i \in 1..Cardinality(W) |-> Delete(Ordinal(W, i))]
    PROVE  /\ Len(deletes) = Cardinality(W) /\ Len(deletes) \in Nat
           /\ \A i \in 1..Len(deletes) : deletes[i] \in Event
           /\ \A i \in 1..Len(deletes) :
                deletes[i].track \in W /\ deletes[i] = Delete(deletes[i].track)
           /\ \A t \in W : \E i \in 1..Len(deletes) : deletes[i].track = t
<1>1. TrackCount \in Nat
  BY TrackNumbers
<1>2. /\ Cardinality(W) \in Nat
      /\ \A i \in 1..Cardinality(W) : Ordinal(W, i) \in W
      /\ \A t \in W : \E i \in 1..Cardinality(W) : Ordinal(W, i) = t
  BY <1>1, Ordinals
<1>3. deletes = [i \in 1..Cardinality(W) |-> deletes[i]]
  OBVIOUS
<1>4. Len(deletes) = Cardinality(W)
  BY <1>2, <1>3, DeletesLength
<1>5. \A i \in 1..Cardinality(W) :
        deletes[i] = Delete(Ordinal(W, i)) /\ deletes[i].track = Ordinal(W, i)
  BY DEF Delete
<1>6. \A t \in Tracks : Delete(t) \in Event
  BY DEF Delete, Event
<1> QED
  BY <1>2, <1>4, <1>5, <1>6

LEMMA PublishTypes ==
    ASSUME StreamInv, ConstantsAssumption, TypeInv, Publish
    PROVE  TypeInv'
<1> USE DEF journalVars, publicVars
<1>p. PublicOK
  BY DEF TypeInv
<1>1. ASSUME NEW t \in Tracks, NEW p \in Profile, PublishProfile(t, p)
      PROVE  TypeInv'
  <2> DEFINE event == IF Fresh(t, p) \/ PublicEdge(t) = None
                      THEN Upsert(t, p, None, FALSE)
                      ELSE Upsert(t, p, PublicEdge(t), TRUE)
  <2>1. Journal(<<event>>) /\ UNCHANGED <<sessionVars, clients>>
    BY <1>1 DEF PublishProfile
  <2>2. event \in Event
    BY <1>p, EdgeTypes DEF Upsert, Event
  <2>3. PublicOK'
    BY <1>1 DEF PublishProfile, TypeInv, PublicOK
  <2> HIDE DEF event
  <2>4. Len(<<event>>) \in Nat /\ \A i \in 1..Len(<<event>>) : <<event>>[i] \in Event
    BY <2>2
  <2> QED
    BY <2>1, <2>3, <2>4, JournalTypes
<1>2. ASSUME NEW t \in Tracks, NEW d \in Digests, PublishEdge(t, d)
      PROVE  TypeInv'
  <2> DEFINE event == Upsert(t, profiles[t], d, FALSE)
  <2>1. Journal(<<event>>) /\ UNCHANGED <<sessionVars, clients>>
    BY <1>2 DEF PublishEdge
  <2>2. event \in Event
    BY <1>p DEF Upsert, Event, PublicOK
  <2>3. PublicOK'
    BY <1>2 DEF PublishEdge, TypeInv, PublicOK, Edge, Profile
  <2> HIDE DEF event
  <2>4. Len(<<event>>) \in Nat /\ \A i \in 1..Len(<<event>>) : <<event>>[i] \in Event
    BY <2>2
  <2> QED
    BY <2>1, <2>3, <2>4, JournalTypes
<1>3. ASSUME NEW W \in SUBSET Tracks, NEW purge \in BOOLEAN, Withdraw(W, purge)
      PROVE  TypeInv'
  <2> DEFINE deletes == [i \in 1..Cardinality(W) |-> Delete(Ordinal(W, i))]
  <2>1. Journal(deletes) /\ UNCHANGED <<sessionVars, clients>>
    BY <1>3 DEF Withdraw, Ordinal
  <2>2. PublicOK'
    BY <1>3 DEF Withdraw, TypeInv, PublicOK
  <2>3. deletes = [i \in 1..Cardinality(W) |-> Delete(Ordinal(W, i))]
    OBVIOUS
  <2> HIDE DEF deletes
  <2>4. Len(deletes) \in Nat
    BY <2>3, Deletes
  <2>5. \A i \in 1..Len(deletes) : deletes[i] \in Event
    BY <2>3, Deletes
  <2> QED
    BY <2>1, <2>2, <2>4, <2>5, JournalTypes
<1>4. ASSUME PurgeEdges \/ \E limit \in Limits : Maintain(limit)
      PROVE  TypeInv'
  <2>1. edges' = Reached /\ profiles' = profiles /\ head' = head
        /\ UNCHANGED <<sessionVars, clients>>
    BY <1>4 DEF PurgeEdges, Maintain
  <2>2. PublicOK'
    BY <2>1 DEF Reached, TypeInv, PublicOK
  <2>3. EventsOK'
    <3>1. CASE PurgeEdges
      BY <2>1, <3>1 DEF PurgeEdges, TypeInv, EventsOK
    <3>2. ASSUME NEW limit \in Limits, Maintain(limit)
          PROVE  EventsOK'
      <4> DEFINE f == Larger(floor, TargetFloor(head, limit))
      <4>1. events' = [s \in {s \in DOMAIN events : s > f} |-> events[s]]
        BY <3>2 DEF Maintain, Trim
      <4> HIDE DEF f
      <4> QED
        BY <2>1, <4>1 DEF TypeInv, EventsOK
    <3> QED
      BY <1>4, <3>1, <3>2
  <2> QED
    BY <2>1, <2>2, <2>3, PublicStepTypes
<1>5. ASSUME NEW limit \in Limits, RefreshRetention(limit)
      PROVE  TypeInv'
  BY <1>5, PublicStepTypes DEF RefreshRetention, TypeInv, PublicOK, EventsOK
<1>6. ASSUME ChangeIdentity
      PROVE  TypeInv'
  <2>1. /\ sessions' = [c \in Clients |-> [sessions[c] EXCEPT !.over = @ \/ Exists(c)]]
        /\ admission' = IF admission = None THEN None ELSE [admission EXCEPT !.over = TRUE]
        /\ UNCHANGED <<publicVars, journalVars, captures, replays, clients>>
    BY <1>6 DEF ChangeIdentity
  <2>2. PublicOK' /\ EventsOK'
    BY <2>1 DEF TypeInv, PublicOK, EventsOK
  <2>3. AdmissionOK'
    BY <2>1 DEF TypeInv, AdmissionOK
  <2>4. ASSUME NEW c \in Clients
        PROVE  sessions'[c] \in Session
    <3> DEFINE over == sessions[c].over \/ Exists(c)
    <3>1. sessions[c] \in Session
      BY DEF TypeInv, ClientsOK, OneOK
    <3>2. sessions'[c] = [sessions[c] EXCEPT !.over = over]
      BY <2>1
    <3>3. over \in BOOLEAN
      BY <3>1 DEF Session, Exists
    <3> HIDE DEF over
    <3> QED
      BY <3>1, <3>2, <3>3 DEF Session
  <2>5. ClientsOK'
    BY <2>1, <2>4 DEF TypeInv, ClientsOK, OneOK
  <2> QED
    BY <2>2, <2>3, <2>5 DEF TypeInv
<1> QED
  BY <1>1, <1>2, <1>3, <1>4, <1>5, <1>6 DEF Publish

\* A step about client c: the rest is as it was.
Alone(c) ==
    /\ UNCHANGED <<publicVars, journalVars>>
    /\ clients' = [d \in Clients |-> clients'[d]]
    /\ \A d \in Clients \ {c} : /\ sessions'[d] = sessions[d]
                                /\ captures'[d] = captures[d]
                                /\ replays'[d] = replays[d]
                                /\ clients'[d] = clients[d]

LEMMA OneStepTypes ==
    ASSUME TypeInv, NEW c \in Clients, Alone(c), AdmissionOK', OneOK(c)'
    PROVE  TypeInv'
<1>1. PublicOK' /\ EventsOK'
  BY DEF TypeInv, PublicOK, EventsOK, Alone, publicVars, journalVars
<1>2. \A d \in Clients \ {c} : OneOK(d)'
  BY DEF TypeInv, ClientsOK, OneOK, Alone
<1>3. ClientsOK'
  BY <1>2 DEF ClientsOK, Alone
<1> QED
  BY <1>1, <1>3 DEF TypeInv

\* What the types say of one client.
LEMMA TypesOf ==
    ASSUME TypeInv, NEW c \in Clients
    PROVE  /\ PublicOK /\ EventsOK /\ AdmissionOK
           /\ sessions[c] \in Session
           /\ captures[c] # None => captures[c].rows \in Seq(SnapshotRow)
           /\ replays[c] # None => replays[c].events \in Seq(Event) /\ replays[c].at \in Nat
           /\ clients[c] \in Client /\ Held(clients[c])
           /\ clients = [d \in Clients |-> clients[d]]
BY DEF TypeInv, ClientsOK, OneOK

LEMMA NoSessionType == NoSession \in Session
<1>1. <<>> \in Seq(SnapshotRow) /\ <<>> \in Seq(Event)
  BY EmptySeq
<1> QED
  BY <1>1 DEF NoSession, Session

LEMMA CreateTypes ==
    ASSUME StreamInv, ConstantsAssumption, TypeInv, Create
    PROVE  TypeInv'
<1> USE DEF Alone, publicVars, journalVars
<1>1. ASSUME NEW c \in Clients, AdmitRead(c)
      PROVE  TypeInv'
  <2>1. AdmissionOK'
    BY <1>1 DEF AdmitRead, AdmissionOK, StreamInv, JournalInv
  <2>2. Alone(c) /\ OneOK(c)'
    BY <1>1, TypesOf DEF AdmitRead, OneOK
  <2> QED
    BY <2>1, <2>2, OneStepTypes
<1>2. ASSUME AdmitCommit
      PROVE  TypeInv'
  <2> DEFINE new == [NoSession EXCEPT !.state = "capturing", !.seq = admission.seq,
                                      !.over = admission.over]
  <2>1. /\ admission # None /\ admission' = None
        /\ sessions' = [sessions EXCEPT ![admission.client] = new]
        /\ captures' = [captures EXCEPT ![admission.client] = None]
        /\ UNCHANGED <<publicVars, journalVars, replays, clients>>
    BY <1>2 DEF AdmitCommit
  <2>2. PICK c \in Clients : c = admission.client
    BY <2>1 DEF TypeInv, AdmissionOK
  <2>3. new \in Session
    BY <2>1, NoSessionType DEF TypeInv, AdmissionOK, Session
  <2> HIDE DEF new
  <2>4. sessions'[c] = new /\ captures'[c] = None
    BY <2>1, <2>2, AboutClient
  <2>5. \A d \in Clients \ {c} : sessions'[d] = sessions[d] /\ captures'[d] = captures[d]
    BY <2>1, <2>2, AboutClient
  <2>6. AdmissionOK' /\ OneOK(c)'
    BY <2>1, <2>3, <2>4, TypesOf DEF AdmissionOK, OneOK
  <2>7. Alone(c)
    BY <2>1, <2>5, TypesOf
  <2> QED
    BY <2>6, <2>7, OneStepTypes
<1>3. ASSUME NEW c \in Clients, Drop(c)
      PROVE  TypeInv'
  <2>1. /\ sessions'[c] = NoSession /\ captures'[c] = None
        /\ \A d \in Clients \ {c} : sessions'[d] = sessions[d] /\ captures'[d] = captures[d]
        /\ UNCHANGED <<publicVars, journalVars, admission, replays, clients>>
    BY <1>3, AboutClient DEF Drop
  <2>2. AdmissionOK' /\ OneOK(c)'
    BY <2>1, TypesOf, NoSessionType DEF AdmissionOK, OneOK
  <2>3. Alone(c)
    BY <2>1, TypesOf
  <2> QED
    BY <2>2, <2>3, OneStepTypes
<1>4. ASSUME NEW c \in Clients, Expire(c) \/ Overrun(c)
      PROVE  TypeInv'
  <2>1. /\ \/ sessions'[c] = [sessions[c] EXCEPT !.over = TRUE]
           \/ sessions'[c] = [sessions[c] EXCEPT !.abandoned = TRUE]
        /\ \A d \in Clients \ {c} : sessions'[d] = sessions[d]
        /\ UNCHANGED <<publicVars, journalVars, admission, captures, replays, clients>>
    BY <1>4, AboutClient DEF Expire, Overrun
  <2>2. sessions'[c] \in Session
    <3>1. sessions[c] \in Session
      BY TypesOf
    <3> QED
      BY <2>1, <3>1 DEF Session
  <2>3. AdmissionOK' /\ OneOK(c)'
    BY <2>1, <2>2, TypesOf DEF AdmissionOK, OneOK
  <2>4. Alone(c)
    BY <2>1, TypesOf
  <2> QED
    BY <2>3, <2>4, OneStepTypes
<1>5. ASSUME NEW c \in Clients, CaptureBegin(c)
      PROVE  TypeInv'
  <2>1. /\ captures'[c] = [seq |-> head, rows |-> Rows]
        /\ \A d \in Clients \ {c} : captures'[d] = captures[d]
        /\ UNCHANGED <<publicVars, journalVars, admission, sessions, replays, clients>>
    BY <1>5, AboutClient DEF CaptureBegin
  <2>2. Rows \in Seq(SnapshotRow)
    BY RowsAreThePublished, TrackNumbers DEF TypeInv, PublicOK
  <2>3. AdmissionOK' /\ OneOK(c)'
    BY <2>1, <2>2, TypesOf DEF AdmissionOK, OneOK
  <2>4. Alone(c)
    BY <2>1, TypesOf
  <2> QED
    BY <2>3, <2>4, OneStepTypes
<1>6. ASSUME NEW c \in Clients, NEW answered \in BOOLEAN, CaptureCommit(c, answered)
      PROVE  TypeInv'
  <2> DEFINE seq == captures[c].seq
             rows == captures[c].rows
  <2>1. /\ captures[c] # None /\ captures'[c] = None
        /\ sessions'[c] = [sessions[c] EXCEPT !.state = "ready", !.seq = seq, !.snapshot = rows]
        /\ \A d \in Clients \ {c} : sessions'[d] = sessions[d] /\ captures'[d] = captures[d]
        /\ UNCHANGED <<publicVars, journalVars, admission, replays>>
    BY <1>6, AboutClient DEF CaptureCommit, CapturedSeq
  <2>2. /\ clients'[c] = clients[c] \/ clients'[c] = Start(clients[c], "snapshot", seq)
        /\ clients' = [d \in Clients |-> clients'[d]]
        /\ \A d \in Clients \ {c} : clients'[d] = clients[d]
    BY <1>6, TypesOf DEF CaptureCommit, CapturedSeq
  <2>3. seq \in Nat /\ rows \in Seq(SnapshotRow)
    BY <2>1, AboutClient, TypesOf DEF CaptureOK
  <2>4. sessions[c] \in Session /\ clients[c] \in Client /\ Held(clients[c])
    BY TypesOf
  <2> HIDE DEF seq, rows
  <2>5. sessions'[c] \in Session
    BY <2>1, <2>3, <2>4 DEF Session
  <2>6. Start(clients[c], "snapshot", seq) \in Client /\ Held(Start(clients[c], "snapshot", seq))
    BY <2>3, <2>4, StartType
  <2>7. clients'[c] \in Client /\ Held(clients'[c])
    BY <2>2, <2>4, <2>6
  <2>8. AdmissionOK' /\ OneOK(c)'
    BY <2>1, <2>5, <2>7, TypesOf DEF AdmissionOK, OneOK
  <2>9. Alone(c)
    BY <2>1, <2>2
  <2> QED
    BY <2>8, <2>9, OneStepTypes
<1>7. ASSUME NEW c \in Clients, Adopt(c)
      PROVE  TypeInv'
  <2>1. /\ clients'[c] = Start(clients[c], "snapshot", sessions[c].seq)
        /\ clients' = [d \in Clients |-> clients'[d]]
        /\ \A d \in Clients \ {c} : clients'[d] = clients[d]
        /\ UNCHANGED <<publicVars, journalVars, sessionVars>>
    BY <1>7, TypesOf DEF Adopt
  <2> DEFINE seq == sessions[c].seq
  <2>2. seq \in Nat /\ clients[c] \in Client
    BY TypesOf DEF Session
  <2>3. clients'[c] \in Client /\ Held(clients'[c])
    <3> HIDE DEF seq
    <3>1. /\ Start(clients[c], "snapshot", seq) \in Client
          /\ Held(Start(clients[c], "snapshot", seq))
      BY <2>2, StartType
    <3> QED
      BY <2>1, <3>1 DEF seq
  <2>4. AdmissionOK' /\ OneOK(c)'
    BY <2>1, <2>3, TypesOf DEF AdmissionOK, OneOK, sessionVars
  <2>5. Alone(c)
    BY <2>1 DEF sessionVars
  <2> QED
    BY <2>4, <2>5, OneStepTypes
<1> QED
  BY <1>1, <1>2, <1>3, <1>4, <1>5, <1>6, <1>7 DEF Create, PurgeSession, EndSession

LEMMA ReadTypes ==
    ASSUME StreamInv, ConstantsAssumption, TypeInv, Read
    PROVE  TypeInv'
<1> USE DEF Alone, publicVars, journalVars
<1>r. ASSUME NEW c \in Clients, Restart(c)
      PROVE  /\ clients' = [d \in Clients |-> clients'[d]]
             /\ \A d \in Clients \ {c} : clients'[d] = clients[d]
             /\ clients'[c] \in Client /\ Held(clients'[c])
  <2>1. clients'[c] = Start(clients[c], "idle", 0)
        /\ clients' = [d \in Clients |-> clients'[d]]
        /\ \A d \in Clients \ {c} : clients'[d] = clients[d]
    BY <1>r, TypesOf DEF Restart
  <2>2. Start(clients[c], "idle", 0) \in Client /\ Held(Start(clients[c], "idle", 0))
    BY TypesOf, StartType
  <2> QED
    BY <2>1, <2>2
\* A step of the client alone.
<1>s. ASSUME NEW c \in Clients, UNCHANGED <<publicVars, journalVars, sessionVars>>,
             clients' = [d \in Clients |-> clients'[d]],
             \A d \in Clients \ {c} : clients'[d] = clients[d],
             clients'[c] \in Client, Held(clients'[c])
      PROVE  TypeInv'
  <2>1. AdmissionOK' /\ OneOK(c)'
    BY <1>s, TypesOf DEF AdmissionOK, OneOK, sessionVars
  <2>2. Alone(c)
    BY <1>s DEF sessionVars
  <2> QED
    BY <2>1, <2>2, OneStepTypes
<1>1. ASSUME NEW c \in Clients, SnapshotPage(c)
      PROVE  TypeInv'
  <2> DEFINE client == clients[c]
             rows == sessions[c].snapshot
             row == Head(rows)
             left == IF rows = <<>> THEN rows ELSE Tail(rows)
             edge == ReferencedEdge(row.track, row.profile.media, row.ref)
  <2>1. /\ sessions'[c] = [sessions[c] EXCEPT !.claimed = TRUE, !.snapshot = left]
        /\ \A d \in Clients \ {c} : sessions'[d] = sessions[d]
        /\ UNCHANGED <<publicVars, journalVars, admission, captures, replays>>
    BY <1>1, AboutClient DEF SnapshotPage
  <2>2. /\ clients'[c] = IF rows = <<>> THEN [client EXCEPT !.phase = "catchup"]
                         ELSE Stored(client, row.track, row.profile, edge)
        /\ clients' = [d \in Clients |-> clients'[d]]
        /\ \A d \in Clients \ {c} : clients'[d] = clients[d]
    BY <1>1, TypesOf DEF SnapshotPage
  <2>3. sessions[c] \in Session /\ rows \in Seq(SnapshotRow) /\ client \in Client /\ Held(client)
    BY TypesOf DEF Session
  <2>4. left \in Seq(SnapshotRow)
    <3> HIDE DEF rows
    <3> QED
      BY <2>3, HeadTailProperties
  <2>5. sessions'[c] \in Session
    <3> HIDE DEF left
    <3> QED
      BY <2>1, <2>3, <2>4 DEF Session
  <2>6. ASSUME rows = <<>>
        PROVE  clients'[c] \in Client /\ Held(clients'[c])
    <3>1. clients'[c] = [client EXCEPT !.phase = "catchup"]
      BY <2>2, <2>6
    <3> QED
      BY <2>3, <3>1, PhaseType
  <2>7. ASSUME rows # <<>>
        PROVE  clients'[c] \in Client /\ Held(clients'[c])
    <3>1. row \in SnapshotRow
      <4> HIDE DEF rows
      <4> QED
        BY <2>3, <2>7, HeadTailProperties
    <3> HIDE DEF rows, row
    <3>2. row.track \in Tracks /\ row.profile \in Profile /\ row.ref \in Digests \cup {None}
      BY <3>1 DEF SnapshotRow
    <3>3. edge \in Digests \cup {None}
      BY <3>2, TypesOf, EdgeTypes
    <3> HIDE DEF edge, client
    <3>p. client.phase # "legacy"
      BY <1>1 DEF SnapshotPage, client
    <3>4. Becomes(Stored(client, row.track, row.profile, edge), client, row.track,
                  [profile |-> row.profile, edge |-> edge], client.misses \ {row.track})
      BY <2>3, <3>2, <3>3, <3>p, StoredEntry
    <3>5. /\ Stored(client, row.track, row.profile, edge) \in Client
          /\ Held(Stored(client, row.track, row.profile, edge))
      BY <3>4 DEF Becomes
    <3> QED
      BY <2>2, <2>7, <3>5 DEF rows, row, edge, client
  <2>8. AdmissionOK' /\ OneOK(c)'
    <3>1. clients'[c] \in Client /\ Held(clients'[c])
      BY <2>6, <2>7
    <3> QED
      BY <2>1, <2>5, <3>1, TypesOf DEF AdmissionOK, OneOK
  <2>9. Alone(c)
    BY <2>1, <2>2
  <2> QED
    BY <2>8, <2>9, OneStepTypes
<1>2. ASSUME NEW c \in Clients, CatchupBegin(c)
      PROVE  TypeInv'
  <2>1. /\ replays'[c] = [head |-> head, at |-> sessions[c].seq,
                          most |-> retention * Multiplier, events |-> <<>>]
        /\ \A d \in Clients \ {c} : replays'[d] = replays[d]
        /\ UNCHANGED <<publicVars, journalVars, admission, sessions, captures, clients>>
    BY <1>2, AboutClient DEF CatchupBegin
  <2>2. sessions[c].seq \in Nat /\ <<>> \in Seq(Event)
    BY TypesOf, EmptySeq DEF Session
  <2>3. replays'[c].events \in Seq(Event) /\ replays'[c].at \in Nat
    BY <2>1, <2>2
  <2>4. AdmissionOK' /\ OneOK(c)'
    BY <2>1, <2>3, TypesOf DEF AdmissionOK, OneOK
  <2>5. Alone(c)
    BY <2>1, TypesOf
  <2> QED
    BY <2>4, <2>5, OneStepTypes
<1>3. ASSUME NEW c \in Clients, CatchupBatch(c)
      PROVE  TypeInv'
  <2> DEFINE r == replays[c]
  <2>1. r # None /\ r.events \in Seq(Event) /\ r.at \in Nat
        /\ DOMAIN r = {"head", "at", "most", "events"}
    BY <1>3, TypesOf, AboutClient DEF CatchupBatch, ReplayOK
  <2>2. CASE Restart(c) /\ replays' = [replays EXCEPT ![c] = None]
    <3>1. /\ replays'[c] = None /\ \A d \in Clients \ {c} : replays'[d] = replays[d]
          /\ UNCHANGED <<publicVars, journalVars, admission, sessions, captures>>
      BY <1>3, <2>2, AboutClient DEF CatchupBatch
    <3>2. AdmissionOK' /\ OneOK(c)'
      BY <1>r, <2>2, <3>1, TypesOf DEF AdmissionOK, OneOK
    <3>3. Alone(c)
      BY <1>r, <2>2, <3>1
    <3> QED
      BY <3>2, <3>3, OneStepTypes
  <2>3. CASE /\ r.at + 1 \in DOMAIN events
             /\ replays' = [replays EXCEPT ![c].at = @ + 1,
                                           ![c].events = Append(@, events[r.at + 1])]
             /\ UNCHANGED clients
    <3>1. /\ replays'[c] = [r EXCEPT !.at = @ + 1, !.events = Append(@, events[r.at + 1])]
          /\ \A d \in Clients \ {c} : replays'[d] = replays[d]
          /\ UNCHANGED <<publicVars, journalVars, admission, sessions, captures, clients>>
      BY <1>3, <2>3, AboutClient DEF CatchupBatch
    <3>2. events[r.at + 1] \in Event
      BY <2>3, TypesOf DEF EventsOK
    <3>3. replays'[c].events \in Seq(Event) /\ replays'[c].at \in Nat
      <4> HIDE DEF r
      <4>1. /\ replays'[c].events = Append(r.events, events[r.at + 1])
            /\ replays'[c].at = r.at + 1
        BY <2>1, <3>1
      <4> QED
        BY <2>1, <3>2, <4>1, AppendProperties
    <3>4. AdmissionOK' /\ OneOK(c)'
      BY <3>1, <3>3, TypesOf DEF AdmissionOK, OneOK
    <3>5. Alone(c)
      BY <3>1, TypesOf
    <3> QED
      BY <3>4, <3>5, OneStepTypes
  <2> QED
    BY <1>3, <2>2, <2>3 DEF CatchupBatch
<1>4. ASSUME NEW c \in Clients, CatchupCommit(c)
      PROVE  TypeInv'
  <2> DEFINE h == replays[c].head
             list == replays[c].events
  <2>1. /\ replays[c] # None /\ replays'[c] = None
        /\ sessions'[c] = [sessions[c] EXCEPT !.head = h, !.catchup = list, !.claimed = TRUE]
        /\ \A d \in Clients \ {c} : sessions'[d] = sessions[d] /\ replays'[d] = replays[d]
        /\ UNCHANGED <<publicVars, journalVars, admission, captures, clients>>
    BY <1>4, AboutClient DEF CatchupCommit
  <2>2. sessions[c] \in Session /\ list \in Seq(Event) /\ h \in Nat
    BY <2>1, TypesOf, AboutClient DEF ReplayOK
  <2>3. sessions'[c] \in Session
    <3> HIDE DEF h, list
    <3> QED
      BY <2>1, <2>2 DEF Session
  <2>4. AdmissionOK' /\ OneOK(c)'
    BY <2>1, <2>3, TypesOf DEF AdmissionOK, OneOK
  <2>5. Alone(c)
    BY <2>1, TypesOf
  <2> QED
    BY <2>4, <2>5, OneStepTypes
<1>5. ASSUME NEW c \in Clients, CatchupPage(c)
      PROVE  TypeInv'
  <2> DEFINE client == clients[c]
             rest == sessions[c].catchup
             event == Head(rest)
             left == IF rest = <<>> THEN rest ELSE Tail(rest)
             edge == IF event.profile = None THEN None
                     ELSE ReferencedEdge(event.track, event.profile.media, event.ref)
  <2>1. /\ sessions'[c] = [sessions[c] EXCEPT !.catchup = left]
        /\ \A d \in Clients \ {c} : sessions'[d] = sessions[d]
        /\ UNCHANGED <<publicVars, journalVars, admission, captures, replays>>
        /\ sessions[c].head # None
    BY <1>5, AboutClient DEF CatchupPage
  <2>2. /\ clients'[c] = IF rest = <<>>
                         THEN [client EXCEPT !.phase = "delta", !.cursor = sessions[c].head]
                         ELSE Applied(client, event, edge)
        /\ clients' = [d \in Clients |-> clients'[d]]
        /\ \A d \in Clients \ {c} : clients'[d] = clients[d]
    BY <1>5, TypesOf DEF CatchupPage
  <2>3. /\ sessions[c] \in Session /\ rest \in Seq(Event) /\ client \in Client /\ Held(client)
        /\ sessions[c].head \in Nat
    BY <2>1, TypesOf DEF Session
  <2>4. left \in Seq(Event)
    <3> HIDE DEF rest
    <3> QED
      BY <2>3, HeadTailProperties
  <2>5. sessions'[c] \in Session
    <3> HIDE DEF left
    <3> QED
      BY <2>1, <2>3, <2>4 DEF Session
  <2>6. ASSUME rest = <<>>
        PROVE  clients'[c] \in Client /\ Held(clients'[c])
    <3>1. clients'[c] = [client EXCEPT !.phase = "delta", !.cursor = sessions[c].head]
      BY <2>2, <2>6
    <3> QED
      BY <2>3, <3>1, CursorType
  <2>7. ASSUME rest # <<>>
        PROVE  clients'[c] \in Client /\ Held(clients'[c])
    <3>1. event \in Event
      <4> HIDE DEF rest
      <4> QED
        BY <2>3, <2>7, HeadTailProperties
    <3> HIDE DEF rest, event
    <3>2. edge \in Digests \cup {None}
      BY <3>1, TypesOf, EdgeTypes DEF Event
    <3> HIDE DEF edge, client
    <3>3. Applied(client, event, edge) \in Client /\ Held(Applied(client, event, edge))
      <4>1. client.phase # "legacy"
        BY <1>5 DEF CatchupPage, client
      <4> QED
        BY <2>3, <3>1, <3>2, <4>1, AppliedEntry DEF Becomes
    <3> QED
      BY <2>2, <2>7, <3>3 DEF rest, event, edge, client
  <2>8. AdmissionOK' /\ OneOK(c)'
    <3>1. clients'[c] \in Client /\ Held(clients'[c])
      BY <2>6, <2>7
    <3> QED
      BY <2>1, <2>5, <3>1, TypesOf DEF AdmissionOK, OneOK
  <2>9. Alone(c)
    BY <2>1, <2>2
  <2> QED
    BY <2>8, <2>9, OneStepTypes
<1>6. ASSUME NEW c \in Clients, PageRefused(c)
      PROVE  TypeInv'
  BY <1>6, <1>r, <1>s DEF PageRefused
<1>7. ASSUME NEW c \in Clients, LegacyBegin(c)
      PROVE  TypeInv'
  <2>1. /\ clients'[c] = Start(clients[c], "legacy", head)
        /\ clients' = [d \in Clients |-> clients'[d]]
        /\ \A d \in Clients \ {c} : clients'[d] = clients[d]
    BY <1>7, TypesOf DEF LegacyBegin
  <2>2. head \in Nat /\ clients[c] \in Client
    BY AboutClient, TypesOf
  <2>3. Start(clients[c], "legacy", head) \in Client /\ Held(Start(clients[c], "legacy", head))
    BY <2>2, StartType
  <2> QED
    BY <1>7, <1>s, <2>1, <2>3 DEF LegacyBegin
<1>8. ASSUME NEW c \in Clients, LegacyPage(c)
      PROVE  TypeInv'
  <2> DEFINE client == clients[c]
             t == client.at + 1
  <2>1. /\ clients' = [d \in Clients |-> clients'[d]]
        /\ \A d \in Clients \ {c} : clients'[d] = clients[d]
        /\ clients'[c] = IF client.at = TrackCount THEN [client EXCEPT !.phase = "delta"]
                         ELSE [client EXCEPT !.at = t, !.has[t] = Public(t)]
    BY <1>8, TypesOf DEF LegacyPage
  <2>2. client \in Client /\ Held(client) /\ PublicOK
    BY TypesOf
  <2>3. ASSUME client.at = TrackCount
        PROVE  clients'[c] \in Client /\ Held(clients'[c])
    BY <2>1, <2>2, <2>3, PhaseType
  <2>4. ASSUME client.at # TrackCount
        PROVE  clients'[c] \in Client /\ Held(clients'[c])
    <3>1. /\ clients'[c] = [client EXCEPT !.at = t, !.has[t] = Public(t)]
          /\ client.phase = "legacy" /\ client.misses = {}
      BY <1>8, <2>1, <2>2, <2>4 DEF LegacyPage, Held
    <3> HIDE DEF client, t
    <3>2. t \in 1..TrackCount
      <4>1. client.at \in Nat /\ client.at <= TrackCount /\ client.at # TrackCount
        BY <2>2, <2>4, <3>1 DEF Held, Client, client
      <4>2. TrackCount \in Nat
        BY TrackNumbers
      <4> QED
        BY <4>1, <4>2 DEF t
    <3>3. Public(t) \in Copy \cup {None}
      <4>1. PublicEdge(t) \in Digests \cup {None} /\ profiles[t] \in Profile \cup {None}
        BY <2>2, <3>2, EdgeTypes DEF Tracks, PublicOK
      <4> QED
        BY <4>1 DEF Public, Copy
    <3> DEFINE entry == Public(t)
               after == [client EXCEPT !.at = t, !.has[t] = entry]
    <3> HIDE DEF entry
    <3>4. after.has \in [Tracks -> Copy \cup {None}] /\ t \in Nat
      <4>1. client.has \in [Tracks -> Copy \cup {None}]
        BY <2>2 DEF Client
      <4>2. after.has = [client.has EXCEPT ![t] = entry]
        BY <2>2 DEF Client
      <4>3. entry \in Copy \cup {None}
        BY <3>3 DEF entry
      <4> HIDE DEF after, t
      <4>4. after.has \in [Tracks -> Copy \cup {None}]
        BY <4>1, <4>2, <4>3
      <4> QED
        BY <3>2, <4>4
    <3>5. after \in Client
      BY <2>2, <3>4 DEF Client
    <3>6. after.phase = client.phase /\ after.misses = {} /\ after.at = t
      BY <2>2, <3>1 DEF Client
    <3>7. clients'[c] = after
      BY <3>1 DEF entry
    <3> HIDE DEF after
    <3>8. Held(after)
      BY <3>2, <3>6 DEF Held
    <3> QED
      BY <3>5, <3>7, <3>8
  <2> QED
    BY <1>8, <1>s, <2>1, <2>3, <2>4 DEF LegacyPage
<1>9. ASSUME NEW c \in Clients, ChangesPage(c)
      PROVE  TypeInv'
  <2> DEFINE client == clients[c]
             event == events[client.cursor + 1]
             edge == IF event.profile = None THEN None
                     ELSE CurrentEdge(event.track, event.profile.media, event.ref)
             after == Applied(client, event, edge)
  <2>1. client \in Client /\ Held(client) /\ client.phase = "delta"
    BY <1>9, TypesOf DEF ChangesPage
  <2>2. ASSUME Restart(c)
        PROVE  TypeInv'
    BY <1>9, <1>r, <1>s, <2>2 DEF ChangesPage
  <2>3. ASSUME Readable(client.cursor),
               clients' = [clients EXCEPT ![c] = [after EXCEPT !.cursor = @ + 1]]
        PROVE  TypeInv'
    <3>1. event \in Event
      BY <2>3, TypesOf DEF Readable, EventsOK
    <3>2. edge \in Digests \cup {None}
      <4> HIDE DEF event
      <4> QED
        BY <3>1, TypesOf, EdgeTypes DEF Event
    <3>3. after \in Client /\ Held(after)
      <4> HIDE DEF event, edge, client
      <4>1. client.phase # "legacy"
        BY <2>1
      <4> QED
        BY <2>1, <3>1, <3>2, <4>1, AppliedEntry DEF Becomes
    <3> HIDE DEF after
    <3>4. after.cursor + 1 \in Nat
      BY <3>3 DEF Client
    <3>5. [after EXCEPT !.cursor = @ + 1] = [after EXCEPT !.cursor = after.cursor + 1]
      BY <3>3 DEF Client
    <3>6. /\ [after EXCEPT !.cursor = @ + 1] \in Client
          /\ Held([after EXCEPT !.cursor = @ + 1])
      BY <3>3, <3>4, <3>5, CursorType
    <3>7. /\ clients'[c] = [after EXCEPT !.cursor = @ + 1]
          /\ clients' = [d \in Clients |-> clients'[d]]
          /\ \A d \in Clients \ {c} : clients'[d] = clients[d]
      BY <2>3, TypesOf
    <3> QED
      BY <1>9, <1>s, <3>6, <3>7 DEF ChangesPage
  <2> QED
    BY <1>9, <2>2, <2>3 DEF ChangesPage
<1>10. ASSUME NEW c \in Clients, NEW t \in Tracks, Fetch(c, t)
       PROVE  TypeInv'
  <2> DEFINE client == clients[c]
             edge == IF PublicEdge(t) # None /\ profiles[t].media = client.has[t].profile.media
                     THEN PublicEdge(t) ELSE None
             entry == [client.has[t] EXCEPT !.edge = edge]
             misses == client.misses \ {t}
             after == [client EXCEPT !.has[t] = entry, !.misses = misses]
  <2>1. /\ client \in Client /\ Held(client) /\ t \in client.misses
        /\ clients'[c] = [client EXCEPT !.has[t].edge = edge, !.misses = @ \ {t}]
        /\ clients' = [d \in Clients |-> clients'[d]]
        /\ \A d \in Clients \ {c} : clients'[d] = clients[d]
    BY <1>10, TypesOf DEF Fetch
  <2>2. clients'[c] = after
    BY <2>1 DEF Client
  <2>3. edge \in Digests \cup {None}
    BY TypesOf, EdgeTypes
  <2>4. client.has[t] \in Copy
    BY <2>1 DEF Client, Held
  <2> HIDE DEF edge, client
  <2>5. entry \in Copy \cup {None} /\ misses \in SUBSET Tracks /\ t \notin misses
        /\ misses \ {t} = client.misses \ {t} /\ client.phase # "legacy"
    BY <2>1, <2>3, <2>4 DEF Copy, Client, Held
  <2>6. after = [client EXCEPT !.has[t] = entry, !.misses = misses]
    OBVIOUS
  <2> HIDE DEF entry, misses, after
  <2>7. Becomes(after, client, t, entry, misses)
    BY <2>1, <2>5, <2>6, EntryType
  <2> QED
    BY <1>10, <1>s, <2>1, <2>2, <2>7 DEF Fetch, Becomes
<1> QED
  BY <1>1, <1>2, <1>3, <1>4, <1>5, <1>6, <1>7, <1>8, <1>9, <1>10 DEF Read

LEMMA InitHasTypes == ConstantsAssumption /\ Init => TypeInv
<1> SUFFICES ASSUME ConstantsAssumption, Init
             PROVE  TypeInv
  OBVIOUS
<1>1. PublicOK /\ EventsOK /\ AdmissionOK
  BY DEF Init, PublicOK, EventsOK, AdmissionOK, ConstantsAssumption
<1>2. ASSUME NEW c \in Clients
      PROVE  OneOK(c)
  <2>1. sessions[c] = NoSession /\ captures[c] = None /\ replays[c] = None
    BY DEF Init
  <2>2. PICK refs \in BOOLEAN :
          clients[c] = [phase |-> "idle", refs |-> refs, at |-> 0, cursor |-> 0,
                        has |-> [t \in Tracks |-> None], misses |-> {}]
    BY DEF Init
  <2>3. clients[c] \in Client /\ Held(clients[c])
    BY <2>2 DEF Client, Held
  <2> QED
    BY <2>1, <2>3, NoSessionType DEF OneOK
<1>3. clients = [c \in Clients |-> clients[c]]
  BY DEF Init
<1> QED
  BY <1>1, <1>2, <1>3 DEF TypeInv, ClientsOK

LEMMA TypesStep == StreamInv /\ TypeInv /\ [Next]_vars => TypeInv'
<1>1. StreamInv /\ TypeInv /\ Next => TypeInv'
  BY ConstantsAssumption, PublishTypes, CreateTypes, ReadTypes DEF Next
<1>2. TypeInv /\ UNCHANGED vars => TypeInv'
  BY DEF vars, TypeInv, PublicOK, EventsOK, AdmissionOK, ClientsOK, OneOK
<1> QED
  BY <1>1, <1>2

\* The stream's tables, its transactions and its clients have their types in every
\* reachable state.
THEOREM StreamTypes == Spec => []TypeOK
<1>1. Init => TypeInv
  BY ConstantsAssumption, InitHasTypes
<1>2. StreamInv /\ TypeInv /\ [Next]_vars => TypeInv'
  BY TypesStep
<1>3. StreamInv /\ TypeInv => TypeOK
  <2> SUFFICES ASSUME StreamInv, TypeInv
               PROVE  TypeOK
    OBVIOUS
  <2>1. head \in 0..MaxSeq /\ floor \in 0..MaxSeq
    BY ConstantsAssumption DEF StreamInv, JournalInv, TypeInv, EventsOK, ConstantsAssumption
  <2>2. DOMAIN events \subseteq 1..MaxSeq
    BY <2>1, ConstantsAssumption DEF StreamInv, JournalInv, JournalDense, ConstantsAssumption
  <2> QED
    BY <2>1, <2>2 DEF TypeOK, TypeInv, PublicOK, EventsOK, AdmissionOK, ClientsOK, OneOK,
         StreamInv, JournalInv
<1> QED
  BY <1>1, <1>2, <1>3, StreamInvariant, PTL DEF Spec

-----------------------------------------------------------------------------
(* What a reader has, short of what it has yet to read.                     *)

\* No event past s is about track t.
Silent(t, s) == \A i \in (s + 1)..head : events[i].track # t

\* The client has what is published for t, but for an edge it is to fetch.
Agrees(client, t) ==
    IF t \in client.misses
    THEN client.has[t] = [profile |-> profiles[t], edge |-> None]
    ELSE client.has[t] = Public(t)

\* A row or an event says what is published for t.
Says(row, t) == row.profile = profiles[t] /\ row.ref = PublicEdge(t)

\* The last that q says of t.
LastSays(q, t) ==
    \A i \in DOMAIN q :
      q[i].track = t /\ (\A j \in DOMAIN q : j > i => q[j].track # t) => Says(q[i], t)

Mentions(q, t) == \E i \in DOMAIN q : q[i].track = t

\* The client, with what q has for it, will be right about every track that no event
\* past s is about: unless compaction has already dropped an event past s.
Follows(client, q, s) ==
    /\ s \in 0..head
    /\ floor <= s =>
         \A t \in Tracks : Silent(t, s) =>
           LastSays(q, t) /\ (Mentions(q, t) \/ Agrees(client, t))

\* The last event of a track says what is published, edge included.
JournalSays ==
    \A s \in DOMAIN events : Silent(events[s].track, s) => Says(events[s], events[s].track)

\* A client that has nothing.
Nothing == [has |-> [t \in Tracks |-> None], misses |-> {}]

\* A client that knows more follows as well.
LEMMA FollowsMore ==
    ASSUME NEW client, NEW after, NEW q, NEW s, Follows(client, q, s),
           \A t \in Tracks : Agrees(client, t) => Agrees(after, t)
    PROVE  Follows(after, q, s)
BY DEF Follows

\* While neither tables nor journal change.
LEMMA FollowsStays ==
    ASSUME NEW client, NEW q, NEW s, Follows(client, q, s),
           UNCHANGED <<publicVars, journalVars>>
    PROVE  Follows(client, q, s)'
BY DEF Follows, Silent, LastSays, Mentions, Agrees, Says, Public, PublicEdge, publicVars,
       journalVars

\* The client has taken over a row or an event: it is right about its track if the
\* row is, and about the others as before.
Told(after, client, row) ==
    /\ \A u \in Tracks \ {row.track} : Agrees(client, u) => Agrees(after, u)
    /\ Says(row, row.track) => Agrees(after, row.track)
    /\ after.phase = client.phase /\ after.cursor = client.cursor

\* The client reads the first of q.
LEMMA FollowsTail ==
    ASSUME NEW client, NEW after, NEW S, NEW q \in Seq(S), NEW s, q # <<>>,
           Follows(client, q, s), Told(after, client, Head(q))
    PROVE  Follows(after, Tail(q), s)
<1>0. /\ \A u \in Tracks \ {Head(q).track} : Agrees(client, u) => Agrees(after, u)
      /\ Says(Head(q), Head(q).track) => Agrees(after, Head(q).track)
  BY DEF Told
<1> DEFINE rest == Tail(q)
           track == Head(q).track
<1>1. /\ Len(q) \in Nat /\ DOMAIN q = 1..Len(q) /\ Len(q) # 0
      /\ DOMAIN rest = 1..(Len(q) - 1)
      /\ \A i \in 1..(Len(q) - 1) : rest[i] = q[i + 1]
      /\ Head(q) = q[1]
  BY HeadTailProperties, LenProperties, EmptySeq
<1> HIDE DEF rest
<1>2. SUFFICES ASSUME floor <= s, NEW t \in Tracks, Silent(t, s)
               PROVE  LastSays(rest, t) /\ (Mentions(rest, t) \/ Agrees(after, t))
  BY DEF Follows, rest
<1>3. LastSays(q, t) /\ (Mentions(q, t) \/ Agrees(client, t))
  BY <1>2 DEF Follows
<1>4. LastSays(rest, t)
  <2> SUFFICES ASSUME NEW i \in DOMAIN rest, rest[i].track = t,
                      \A j \in DOMAIN rest : j > i => rest[j].track # t
               PROVE  Says(rest[i], t)
    BY DEF LastSays
  <2>1. i + 1 \in DOMAIN q /\ q[i + 1] = rest[i]
    BY <1>1
  <2>2. ASSUME NEW j \in DOMAIN q, j > i + 1
        PROVE  q[j].track # t
    <3>1. j - 1 \in DOMAIN rest /\ j - 1 > i /\ rest[j - 1] = q[j]
      BY <1>1, <2>2
    <3> QED
      BY <3>1
  <2> QED
    BY <1>3, <2>1, <2>2 DEF LastSays
<1>5. CASE t # track
  <2>1. ASSUME Mentions(q, t)
        PROVE  Mentions(rest, t)
    <3>1. PICK i \in DOMAIN q : q[i].track = t
      BY <2>1 DEF Mentions
    <3>2. i - 1 \in DOMAIN rest /\ rest[i - 1] = q[i]
      BY <1>1, <1>5, <3>1
    <3> QED
      BY <3>1, <3>2 DEF Mentions
  <2> QED
    BY <1>0, <1>3, <1>4, <1>5, <2>1
<1>6. CASE t = track /\ ~Mentions(rest, t)
  <2>1. ASSUME NEW j \in DOMAIN q, j > 1
        PROVE  q[j].track # t
    <3>1. j - 1 \in DOMAIN rest /\ rest[j - 1] = q[j]
      BY <1>1, <2>1
    <3> QED
      BY <1>6, <3>1 DEF Mentions
  <2>2. 1 \in DOMAIN q /\ q[1].track = t
    BY <1>1, <1>6
  <2>3. Says(Head(q), t)
    BY <1>1, <1>3, <2>1, <2>2 DEF LastSays
  <2> QED
    BY <1>0, <1>4, <1>6, <2>3
<1> QED
  BY <1>4, <1>5, <1>6

\* The next event joins what the client has yet to read.
LEMMA FollowsNext ==
    ASSUME NEW client, NEW q \in Seq(Event), NEW s, Follows(client, q, s),
           JournalInv, JournalSays, \A i \in DOMAIN events : events[i] \in Event,
           s + 1 \in DOMAIN events
    PROVE  Follows(client, Append(q, events[s + 1]), s + 1)
<1> DEFINE event == events[s + 1]
           more == Append(q, event)
<1>1. head \in Nat /\ floor \in 0..head /\ s \in 0..head /\ DOMAIN events = (floor + 1)..head
  BY DEF JournalInv, JournalDense, Follows
<1>2. floor <= s /\ s + 1 \in 0..head
  BY <1>1
<1>3. /\ Len(q) \in Nat /\ DOMAIN q = 1..Len(q) /\ DOMAIN more = 1..(Len(q) + 1)
      /\ \A i \in 1..Len(q) : more[i] = q[i]
      /\ more[Len(q) + 1] = event
  <2>1. event \in Event
    OBVIOUS
  <2> HIDE DEF event
  <2> QED
    BY <2>1, AppendProperties, LenProperties
<1> HIDE DEF event, more
<1>4. SUFFICES ASSUME NEW t \in Tracks, Silent(t, s + 1)
               PROVE  LastSays(more, t) /\ (Mentions(more, t) \/ Agrees(client, t))
  BY <1>2 DEF Follows, more, event
<1>5. CASE event.track = t
  <2>1. Says(event, t)
    BY <1>4, <1>5 DEF JournalSays, event
  <2>2. Mentions(more, t)
    BY <1>3, <1>5 DEF Mentions
  <2>3. LastSays(more, t)
    <3> SUFFICES ASSUME NEW i \in DOMAIN more, more[i].track = t,
                        \A j \in DOMAIN more : j > i => more[j].track # t
                 PROVE  Says(more[i], t)
      BY DEF LastSays
    <3>1. i = Len(q) + 1
      BY <1>3, <1>5
    <3> QED
      BY <1>3, <2>1, <3>1
  <2> QED
    BY <2>2, <2>3
<1>6. CASE event.track # t
  <2>1. Silent(t, s)
    <3> SUFFICES ASSUME NEW i \in (s + 1)..head
                 PROVE  events[i].track # t
      BY DEF Silent
    <3>1. i = s + 1 \/ i \in (s + 1 + 1)..head
      BY <1>1
    <3> QED
      BY <1>4, <1>6, <3>1 DEF Silent, event
  <2>2. LastSays(q, t) /\ (Mentions(q, t) \/ Agrees(client, t))
    BY <1>2, <2>1 DEF Follows
  <2>3. Mentions(q, t) => Mentions(more, t)
    BY <1>3 DEF Mentions
  <2>4. LastSays(more, t)
    <3> SUFFICES ASSUME NEW i \in DOMAIN more, more[i].track = t,
                        \A j \in DOMAIN more : j > i => more[j].track # t
                 PROVE  Says(more[i], t)
      BY DEF LastSays
    <3>1. i \in DOMAIN q /\ more[i] = q[i]
      BY <1>3, <1>6
    <3>2. \A j \in DOMAIN q : j \in DOMAIN more /\ more[j] = q[j]
      BY <1>3
    <3> QED
      BY <2>2, <3>1, <3>2 DEF LastSays
  <2> QED
    BY <2>2, <2>3, <2>4
<1> QED
  BY <1>5, <1>6

-----------------------------------------------------------------------------
(* What a page does to a client that it is right about.                    *)

\* Both ways a page resolves a reference give the published edge.
LEMMA ResolvedEdge ==
    ASSUME PublicOK, NEW t \in Tracks, NEW row, Says(row, t), row.profile \in Profile
    PROVE  /\ ReferencedEdge(t, row.profile.media, row.ref) = PublicEdge(t)
           /\ CurrentEdge(t, row.profile.media, row.ref) = PublicEdge(t)
           /\ Public(t) = [profile |-> row.profile, edge |-> PublicEdge(t)]
<1>1. row.profile = profiles[t] /\ row.ref = PublicEdge(t) /\ profiles[t] # None
  BY NoneAssumption DEF Says
<1>2. CASE PublicEdge(t) = None
  BY <1>1, <1>2 DEF ReferencedEdge, CurrentEdge, Public
<1>3. CASE PublicEdge(t) # None
  <2>1. /\ edges[t] # None /\ edges[t].media = profiles[t].media
        /\ PublicEdge(t) = edges[t].digest
    BY <1>3 DEF PublicEdge
  <2>2. edges[t] \in Edge
    BY <2>1 DEF PublicOK
  <2>3. edges[t] = [media |-> profiles[t].media, digest |-> PublicEdge(t)]
    BY <2>1, <2>2 DEF Edge
  <2> QED
    BY <1>1, <1>3, <2>1, <2>3 DEF ReferencedEdge, CurrentEdge, Public
<1> QED
  BY <1>2, <1>3

LEMMA OthersAgree ==
    ASSUME NEW client, NEW after, NEW t, NEW entry, NEW misses,
           Becomes(after, client, t, entry, misses), misses \ {t} = client.misses \ {t}
    PROVE  \A u \in Tracks \ {t} : Agrees(client, u) => Agrees(after, u)
BY DEF Becomes, Agrees

LEMMA EntryAgrees ==
    ASSUME NEW client, NEW after, NEW t, NEW entry, NEW misses,
           Becomes(after, client, t, entry, misses),
           \/ t \notin misses /\ entry = Public(t)
           \/ t \in misses /\ entry = [profile |-> profiles[t], edge |-> None]
    PROVE  Agrees(after, t)
BY DEF Becomes, Agrees

\* A row of the snapshot.
LEMMA StoredAgrees ==
    ASSUME PublicOK, NEW client \in Client, Held(client), client.phase # "legacy",
           NEW row \in SnapshotRow
    PROVE  Told(Stored(client, row.track, row.profile,
                       ReferencedEdge(row.track, row.profile.media, row.ref)), client, row)
<1> DEFINE t == row.track
           edge == ReferencedEdge(t, row.profile.media, row.ref)
           entry == [profile |-> row.profile, edge |-> edge]
           misses == client.misses \ {t}
           after == Stored(client, t, row.profile, edge)
<1>1. t \in Tracks /\ row.profile \in Profile /\ row.ref \in Digests \cup {None}
  BY DEF SnapshotRow
<1>2. edge \in Digests \cup {None}
  BY <1>1, EdgeTypes
<1>3. Becomes(after, client, t, entry, misses)
  <2> HIDE DEF t, edge
  <2> QED
    BY <1>1, <1>2, StoredEntry
<1>4. Says(row, t) => entry = Public(t)
  BY <1>1, ResolvedEdge
<1>5. misses \ {t} = client.misses \ {t} /\ t \notin misses
  OBVIOUS
<1> HIDE DEF entry, misses, after
<1>6. \A u \in Tracks \ {t} : Agrees(client, u) => Agrees(after, u)
  BY <1>3, <1>5, OthersAgree
<1>7. Says(row, t) => Agrees(after, t)
  BY <1>3, <1>4, <1>5, EntryAgrees
<1>8. after.phase = client.phase /\ after.cursor = client.cursor
  BY <1>3 DEF Becomes
<1> QED
  BY <1>6, <1>7, <1>8 DEF after, Told

\* An event, whichever way its page resolves its reference, and whether or not the
\* client has asked for references.
LEMMA AppliedAgrees ==
    ASSUME PublicOK, NEW client \in Client, Held(client), client.phase # "legacy",
           NEW event \in Event, NEW edge \in Digests \cup {None},
           event.profile # None =>
             \/ edge = ReferencedEdge(event.track, event.profile.media, event.ref)
             \/ edge = CurrentEdge(event.track, event.profile.media, event.ref)
    PROVE  Told(Applied(client, event, edge), client, event)
<1> DEFINE t == event.track
           after == Applied(client, event, edge)
           Good(entry, misses) ==
             /\ misses \ {t} = client.misses \ {t}
             /\ Says(event, t) => \/ t \notin misses /\ entry = Public(t)
                                  \/ t \in misses /\ entry = [profile |-> profiles[t], edge |-> None]
<1>1. t \in Tracks
  BY DEF Event
<1>2. \E entry, misses : Becomes(after, client, t, entry, misses) /\ Good(entry, misses)
  <2>1. CASE /\ event.profile = None
             /\ Becomes(after, client, t, None, client.misses \ {t})
    <3>1. Good(None, client.misses \ {t})
      BY <2>1 DEF Says, Public
    <3> QED
      BY <2>1, <3>1
  <2>2. CASE /\ event.profile \in Profile
             /\ Becomes(after, client, t, [profile |-> event.profile, edge |-> edge],
                        client.misses \ {t})
    <3>1. event.profile # None
      BY <2>2, NoneAssumption
    <3>2. Says(event, t) => Public(t) = [profile |-> event.profile, edge |-> edge]
      BY <1>1, <2>2, <3>1, ResolvedEdge
    <3>3. Good([profile |-> event.profile, edge |-> edge], client.misses \ {t})
      BY <3>2
    <3> QED
      BY <2>2, <3>3
  <2>3. CASE /\ event.profile \in Profile
             /\ Becomes(after, client, t, [profile |-> event.profile, edge |-> event.ref],
                        client.misses \ {t})
    <3>1. Says(event, t) => Public(t) = [profile |-> event.profile, edge |-> PublicEdge(t)]
      BY <1>1, <2>3, ResolvedEdge
    <3>2. Good([profile |-> event.profile, edge |-> event.ref], client.misses \ {t})
      BY <3>1 DEF Says
    <3> QED
      BY <2>3, <3>2
  <2>4. CASE /\ event.profile \in Profile
             /\ Becomes(after, client, t, [profile |-> event.profile, edge |-> None],
                        client.misses \cup {t})
    <3>1. Good([profile |-> event.profile, edge |-> None], client.misses \cup {t})
      BY DEF Says
    <3> QED
      BY <2>4, <3>1
  <2> QED
    BY <2>1, <2>2, <2>3, <2>4, AppliedEntry
<1> HIDE DEF after
<1>3. PICK entry, misses : Becomes(after, client, t, entry, misses) /\ Good(entry, misses)
  BY <1>2
<1>4. \A u \in Tracks \ {t} : Agrees(client, u) => Agrees(after, u)
  BY <1>3, OthersAgree
<1>5. Says(event, t) => Agrees(after, t)
  BY <1>3, EntryAgrees
<1>6. after.phase = client.phase /\ after.cursor = client.cursor
  BY <1>3 DEF Becomes
<1> QED
  BY <1>4, <1>5, <1>6 DEF after, Told

-----------------------------------------------------------------------------
(* Changes of the published state.                                         *)

\* The journal goes on: it may drop its oldest events, and what changes for a track
\* is told, by events past the old head.
GoesOn ==
    /\ head <= head' /\ floor <= floor'
    /\ \A i \in DOMAIN events' : i <= head => i \in DOMAIN events /\ events'[i] = events[i]
    /\ \A i \in DOMAIN events' : i > head => Says(events[i], events[i].track)'
    /\ floor' <= head =>
         \A t \in Tracks :
           \/ profiles'[t] = profiles[t] /\ PublicEdge(t)' = PublicEdge(t)
           \/ \E i \in (head + 1)..head' : events'[i].track = t

LEMMA Between ==
    ASSUME NEW f \in Nat, NEW s \in Nat, f <= s, NEW h \in Nat, NEW k \in Nat, h <= k,
           NEW i \in (s + 1)..h
    PROVE  i \in (f + 1)..k /\ i \in (s + 1)..k
OBVIOUS

\* A track that is still silent has not changed.
LEMMA SilentBefore ==
    ASSUME JournalInv, JournalInv', GoesOn, NEW s \in 0..head, floor' <= s,
           NEW t \in Tracks, Silent(t, s)'
    PROVE  /\ Silent(t, s) /\ floor <= s
           /\ profiles'[t] = profiles[t] /\ PublicEdge(t)' = PublicEdge(t)
<1>1. head \in Nat /\ head' \in Nat /\ floor' \in Nat /\ floor \in Nat
      /\ head <= head' /\ floor <= floor'
  BY DEF JournalInv, GoesOn
<1>d. DOMAIN events' = (floor' + 1)..head'
  BY DEF JournalInv, JournalDense
<1>2. Silent(t, s)
  <2> SUFFICES ASSUME NEW i \in (s + 1)..head
               PROVE  events[i].track # t
    BY DEF Silent
  <2>1. i \in DOMAIN events' /\ i <= head /\ i \in (s + 1)..head'
    <3>1. s \in Nat /\ i <= head
      BY <1>1
    <3>2. i \in (floor' + 1)..head' /\ i \in (s + 1)..head'
      BY <1>1, <3>1, Between
    <3> QED
      BY <1>d, <3>1, <3>2
  <2>2. events'[i] = events[i]
    BY <2>1 DEF GoesOn
  <2> QED
    BY <2>1, <2>2 DEF Silent
<1>3. \A i \in (head + 1)..head' : events'[i].track # t
  <2>1. \A i \in (s + 1)..head' : events'[i].track # t
    BY DEF Silent
  <2>2. \A i \in (head + 1)..head' : i \in (s + 1)..head'
    BY <1>1
  <2> QED
    BY <2>1, <2>2
<1>4. floor' <= head
  BY <1>1
<1>5. floor <= s
  BY <1>1
<1> QED
  BY <1>2, <1>3, <1>4, <1>5 DEF GoesOn

LEMMA FollowsOn ==
    ASSUME JournalInv, JournalInv', GoesOn, NEW client, NEW q, NEW s, Follows(client, q, s)
    PROVE  Follows(client, q, s)'
<1>1. s \in 0..head /\ s \in 0..head'
  BY DEF Follows, JournalInv, GoesOn
<1>2. SUFFICES ASSUME floor' <= s, NEW t \in Tracks, Silent(t, s)'
               PROVE  LastSays(q, t)' /\ (Mentions(q, t)' \/ Agrees(client, t)')
  BY <1>1 DEF Follows
<1>3. /\ Silent(t, s) /\ floor <= s
      /\ profiles'[t] = profiles[t] /\ PublicEdge(t)' = PublicEdge(t)
  BY <1>1, <1>2, SilentBefore
<1>4. LastSays(q, t) /\ (Mentions(q, t) \/ Agrees(client, t))
  BY <1>3 DEF Follows
<1>5. LastSays(q, t)'
  BY <1>3, <1>4 DEF LastSays, Says
<1>6. Mentions(q, t)' <=> Mentions(q, t)
  BY DEF Mentions
<1>7. Agrees(client, t) => Agrees(client, t)'
  BY <1>3 DEF Agrees, Public
<1> QED
  BY <1>4, <1>5, <1>6, <1>7

LEMMA JournalSaysOn ==
    ASSUME JournalInv, JournalInv', GoesOn, JournalSays,
           \A i \in DOMAIN events : events[i].track \in Tracks
    PROVE  JournalSays'
<1> SUFFICES ASSUME NEW s \in DOMAIN events', Silent(events[s].track, s)'
             PROVE  Says(events[s], events[s].track)'
  BY DEF JournalSays
<1>1. head \in Nat /\ head' \in Nat /\ floor' \in Nat /\ DOMAIN events' = (floor' + 1)..head'
  BY DEF JournalInv, JournalDense
<1>2. PICK event : event = events'[s]
  OBVIOUS
<1>3. PICK t : t = event.track
  OBVIOUS
<1>4. CASE s > head
  BY <1>4 DEF GoesOn
<1>5. CASE s <= head
  <2>1. s \in DOMAIN events /\ events[s] = event
    BY <1>2, <1>5 DEF GoesOn
  <2>2. t \in Tracks /\ s \in 0..head /\ floor' <= s
    BY <1>1, <1>3, <1>5, <2>1
  <2>3. Silent(t, s)'
    BY <1>2, <1>3
  <2>4. /\ Silent(t, s)
        /\ profiles'[t] = profiles[t] /\ PublicEdge(t)' = PublicEdge(t)
    BY <2>2, <2>3, SilentBefore
  <2>5. Says(event, t)
    BY <1>3, <2>1, <2>4 DEF JournalSays
  <2>6. Says(event, t)'
    BY <2>4, <2>5 DEF Says
  <2> QED
    BY <1>2, <1>3, <2>6
<1> QED
  BY <1>1, <1>4, <1>5

-----------------------------------------------------------------------------
(* The inductive invariant.                                                *)

Ready(c) == sessions[c].state = "ready"

\* A client that reads its session's pages has one, and no create replaces it.
Placed(c) ==
    clients[c].phase \in {"snapshot", "catchup"} =>
      /\ sessions[c].state # "capturing"
      /\ admission # None => admission.client # c

\* A captured snapshot is right for a client that starts from nothing ...
CaptureFollows(c) ==
    captures[c] # None => Follows(Nothing, captures[c].rows, captures[c].seq)

\* ... also once it is stored, until its first page.
UnreadFollows(c) ==
    Ready(c) /\ ~sessions[c].claimed =>
      /\ sessions[c].head = None
      /\ Follows(Nothing, sessions[c].snapshot, sessions[c].seq)

SnapshotFollows(c) ==
    clients[c].phase = "snapshot" /\ Ready(c) =>
      /\ sessions[c].head = None
      /\ Follows(clients[c], sessions[c].snapshot, sessions[c].seq)

CatchupFollows(c) ==
    clients[c].phase = "catchup" /\ Ready(c) =>
      /\ sessions[c].head = None => Follows(clients[c], <<>>, sessions[c].seq)
      /\ sessions[c].head # None => Follows(clients[c], sessions[c].catchup, sessions[c].head)

\* While a catch-up is copied.
ReplayFollows(c) ==
    replays[c] # None =>
      /\ clients[c].phase = "catchup" /\ Ready(c) /\ sessions[c].head = None
      /\ Follows(clients[c], replays[c].events, replays[c].at)

\* The legacy bootstrap, for the tracks it has read.
LegacyFollows(c) ==
    clients[c].phase = "legacy" =>
      /\ clients[c].cursor \in 0..head
      /\ floor <= clients[c].cursor =>
           \A t \in 1..clients[c].at : Silent(t, clients[c].cursor) => Agrees(clients[c], t)

DeltaFollows(c) ==
    clients[c].phase = "delta" => Follows(clients[c], <<>>, clients[c].cursor)

Follower(c) ==
    /\ Placed(c)
    /\ CaptureFollows(c) /\ UnreadFollows(c)
    /\ SnapshotFollows(c) /\ CatchupFollows(c) /\ ReplayFollows(c)
    /\ LegacyFollows(c) /\ DeltaFollows(c)

ConvergeInv == JournalSays /\ \A c \in Clients : Follower(c)

\* A client that is idle, and no session of which is being captured or unread.
LEMMA IdleFollows ==
    ASSUME NEW c, clients[c].phase = "idle", captures[c] = None, replays[c] = None,
           UnreadFollows(c)
    PROVE  Follower(c)
BY DEF Follower, Placed, CaptureFollows, SnapshotFollows, CatchupFollows, ReplayFollows,
       LegacyFollows, DeltaFollows

LEMMA SaysStays ==
    ASSUME JournalSays, UNCHANGED <<publicVars, journalVars>>
    PROVE  JournalSays'
BY DEF JournalSays, Says, Silent, PublicEdge, publicVars, journalVars

LEMMA AgreesStays ==
    ASSUME NEW client, NEW t, UNCHANGED <<publicVars, journalVars>>
    PROVE  /\ Agrees(client, t)' <=> Agrees(client, t)
           /\ \A s : Silent(t, s)' <=> Silent(t, s)
BY DEF Agrees, Public, PublicEdge, Silent, publicVars, journalVars

\* The clauses that are about its session, while nothing touches it.
LEMMA SessionFollows ==
    ASSUME NEW c, Follower(c), UNCHANGED <<publicVars, journalVars>>,
           sessions'[c].state = sessions[c].state, sessions'[c].seq = sessions[c].seq,
           sessions'[c].head = sessions[c].head, sessions'[c].claimed = sessions[c].claimed,
           sessions'[c].snapshot = sessions[c].snapshot,
           sessions'[c].catchup = sessions[c].catchup,
           captures'[c] = captures[c], clients'[c] = clients[c], Placed(c)',
           replays'[c] = replays[c] \/ ReplayFollows(c)'
    PROVE  Follower(c)'
<1>1. CaptureFollows(c)'
  BY FollowsStays DEF Follower, CaptureFollows
<1>2. UnreadFollows(c)'
  BY FollowsStays DEF Follower, UnreadFollows, Ready
<1>3. SnapshotFollows(c)'
  BY FollowsStays DEF Follower, SnapshotFollows, Ready
<1>4. CatchupFollows(c)'
  BY FollowsStays DEF Follower, CatchupFollows, Ready
<1>5. ReplayFollows(c)'
  BY FollowsStays DEF Follower, ReplayFollows, Ready
<1>6. LegacyFollows(c)'
  BY AgreesStays DEF Follower, LegacyFollows, journalVars
<1>7. DeltaFollows(c)'
  BY FollowsStays DEF Follower, DeltaFollows
<1> QED
  BY <1>1, <1>2, <1>3, <1>4, <1>5, <1>6, <1>7 DEF Follower

\* A step of client c leaves what the others have right.
LEMMA OthersFollow ==
    ASSUME ConvergeInv, NEW c \in Clients, Alone(c),
           admission' = None \/ admission' = admission \/ admission'.client = c,
           Follower(c)'
    PROVE  ConvergeInv'
<1>1. JournalSays'
  BY SaysStays DEF ConvergeInv, Alone
<1>2. ASSUME NEW d \in Clients \ {c}
      PROVE  Follower(d)'
  <2>1. Placed(d)'
    BY DEF ConvergeInv, Follower, Placed, Alone
  <2> QED
    BY <2>1, SessionFollows DEF ConvergeInv, Alone
<1> QED
  BY <1>1, <1>2 DEF ConvergeInv

\* So does whatever goes on with the journal, of all of them.
LEMMA PublicFollows ==
    ASSUME JournalInv, JournalInv', TypeInv, GoesOn, ConvergeInv,
           UNCHANGED <<sessionVars, clients>>
    PROVE  ConvergeInv'
<1> USE DEF sessionVars
<1>1. JournalSays'
  <2>1. \A i \in DOMAIN events : events[i].track \in Tracks
    BY DEF TypeInv, EventsOK, Event
  <2> QED
    BY <2>1, JournalSaysOn DEF ConvergeInv
<1>2. ASSUME NEW c \in Clients
      PROVE  Follower(c)'
  <2>0. Follower(c)
    BY DEF ConvergeInv
  <2>1. Placed(c)'
    BY <2>0 DEF Follower, Placed
  <2>2. CaptureFollows(c)'
    BY <2>0, FollowsOn DEF Follower, CaptureFollows
  <2>3. UnreadFollows(c)'
    BY <2>0, FollowsOn DEF Follower, UnreadFollows, Ready
  <2>4. SnapshotFollows(c)'
    BY <2>0, FollowsOn DEF Follower, SnapshotFollows, Ready
  <2>5. CatchupFollows(c)'
    BY <2>0, FollowsOn DEF Follower, CatchupFollows, Ready
  <2>6. ReplayFollows(c)'
    BY <2>0, FollowsOn DEF Follower, ReplayFollows, Ready
  <2>7. DeltaFollows(c)'
    BY <2>0, FollowsOn DEF Follower, DeltaFollows
  <2>8. LegacyFollows(c)'
    <3> SUFFICES ASSUME clients[c].phase = "legacy"
                 PROVE  LegacyFollows(c)'
      BY DEF LegacyFollows
    <3>1. PICK client : client = clients[c]
      OBVIOUS
    <3>2. /\ client.cursor \in 0..head /\ client.at \in Nat /\ client.at <= TrackCount
          /\ floor <= client.cursor =>
               \A t \in 1..client.at : Silent(t, client.cursor) => Agrees(client, t)
      BY <2>0, <3>1, TypesOf DEF Follower, LegacyFollows, Held, Client
    <3>3. client.cursor \in 0..head'
      BY <3>2 DEF GoesOn, JournalInv
    <3>4. ASSUME floor' <= client.cursor, NEW t \in 1..client.at, Silent(t, client.cursor)'
          PROVE  Agrees(client, t)'
      <4>1. t \in Tracks
        BY <3>2, TrackNumbers, ConstantsAssumption DEF Tracks
      <4>2. /\ Silent(t, client.cursor) /\ floor <= client.cursor
            /\ profiles'[t] = profiles[t] /\ PublicEdge(t)' = PublicEdge(t)
        BY <3>2, <3>4, <4>1, SilentBefore
      <4>3. Agrees(client, t)
        BY <3>2, <4>2
      <4> QED
        BY <4>2, <4>3 DEF Agrees, Public
    <3>5. clients'[c] = client
      BY <3>1
    <3> QED
      BY <3>3, <3>4, <3>5 DEF LegacyFollows
  <2> QED
    BY <2>1, <2>2, <2>3, <2>4, <2>5, <2>6, <2>7, <2>8 DEF Follower
<1> QED
  BY <1>1, <1>2 DEF ConvergeInv

\* The journal goes on with events that say what is published from now on.
LEMMA NewEventsTell ==
    ASSUME StreamInv, ConstantsAssumption, NEW new, Len(new) \in Nat, Journal(new),
           \A i \in 1..Len(new) : Says(new[i], new[i].track)',
           \A t \in Tracks : \/ profiles'[t] = profiles[t] /\ PublicEdge(t)' = PublicEdge(t)
                             \/ \E i \in 1..Len(new) : new[i].track = t
    PROVE  GoesOn
<1>1. head \in Nat
  BY DEF StreamInv, JournalInv
<1>2. head' = head + Len(new) /\ floor' \in Nat /\ floor <= floor'
  BY JournalAppends
<1>3. DOMAIN events' = (floor' + 1)..head'
  BY JournalAppends
<1>4. \A s \in DOMAIN events' :
        /\ s \in 1..head' /\ s > floor'
        /\ s <= head => s \in DOMAIN events /\ events'[s] = events[s]
        /\ s > head => s - head \in 1..Len(new) /\ events'[s] = new[s - head]
  BY JournalAppends
<1>5. ASSUME NEW s \in DOMAIN events', s > head
      PROVE  Says(events[s], events[s].track)'
  <2>1. PICK i \in 1..Len(new) : events'[s] = new[i]
    BY <1>4, <1>5
  <2>2. Says(new[i], new[i].track)'
    OBVIOUS
  <2> QED
    BY <2>1, <2>2
<1>6. ASSUME floor' <= head, NEW i \in 1..Len(new)
      PROVE  \E s \in (head + 1)..head' : events'[s].track = new[i].track
  <2>1. head + i \in (head + 1)..head' /\ head + i > head /\ (head + i) - head = i
    BY <1>1, <1>2
  <2>2. head + i \in DOMAIN events'
    <3>1. head + i \in (floor' + 1)..head'
      <4>1. \A f, h, k, n \in Nat : f <= h /\ n \in 1..k => h + n \in (f + 1)..(h + k)
        OBVIOUS
      <4>2. floor' \in Nat /\ head \in Nat /\ i \in Nat /\ head' = head + Len(new)
        BY <1>1, <1>2
      <4> QED
        BY <1>6, <4>1, <4>2
    <3> QED
      BY <1>3, <3>1
  <2>3. events'[head + i] = new[i]
    BY <1>4, <2>1, <2>2
  <2> QED
    BY <2>1, <2>3
<1>7. head <= head'
  BY <1>1, <1>2
<1> QED
  BY <1>2, <1>4, <1>5, <1>6, <1>7 DEF GoesOn

\* Compaction alone: nothing is told, and nothing changes.
LEMMA TrimTells ==
    ASSUME JournalInv, UNCHANGED <<profiles, head>>, floor' \in Nat, floor <= floor',
           \A i \in DOMAIN events' : i \in DOMAIN events /\ events'[i] = events[i],
           \A t \in Tracks : PublicEdge(t)' = PublicEdge(t)
    PROVE  GoesOn
<1>1. head \in Nat /\ \A i \in DOMAIN events : i \in Nat /\ i <= head
  BY DEF JournalInv, JournalDense
<1>2. \A i \in DOMAIN events' : ~(i > head)
  BY <1>1
<1>3. head <= head'
  BY <1>1
<1> QED
  BY <1>2, <1>3 DEF GoesOn

LEMMA PublishConverges ==
    ASSUME StreamInv, StreamInv', ConstantsAssumption, TypeInv, ConvergeInv, Publish
    PROVE  ConvergeInv'
<1> USE DEF journalVars, publicVars
<1>p. PublicOK /\ JournalInv /\ JournalInv'
  BY DEF TypeInv, StreamInv
<1>1. ASSUME NEW t \in Tracks, NEW p \in Profile, PublishProfile(t, p)
      PROVE  ConvergeInv'
  <2>1. PICK event : event = IF Fresh(t, p) \/ PublicEdge(t) = None
                             THEN Upsert(t, p, None, FALSE)
                             ELSE Upsert(t, p, PublicEdge(t), TRUE)
    OBVIOUS
  <2>2. Journal(<<event>>) /\ UNCHANGED <<sessionVars, clients>>
    BY <1>1, <2>1 DEF PublishProfile
  <2>3. /\ profiles' = [profiles EXCEPT ![t] = p]
        /\ edges' = IF Fresh(t, p) THEN [edges EXCEPT ![t] = None] ELSE edges
    BY <1>1 DEF PublishProfile
  <2>4. p # None /\ event.track = t /\ event.profile = p
    BY <2>1, NoneAssumption DEF Upsert
  <2>5. profiles'[t] = p
    BY <1>p, <2>3 DEF PublicOK
  <2>6. PublicEdge(t)' = event.ref
    <3>1. CASE Fresh(t, p)
      <4>1. edges'[t] = None /\ event.ref = None
        BY <1>p, <2>1, <2>3, <3>1 DEF PublicOK, Upsert
      <4> QED
        BY <4>1 DEF PublicEdge
    <3>2. CASE ~Fresh(t, p)
      <4>1. edges' = edges /\ event.ref = PublicEdge(t)
        BY <2>1, <2>3, <3>2 DEF Upsert
      <4>2. profiles[t] # None /\ profiles[t].media = p.media
        BY <3>2 DEF Fresh
      <4> QED
        BY <2>4, <2>5, <4>1, <4>2 DEF PublicEdge
    <3> QED
      BY <3>1, <3>2
  <2>7. Says(event, t)'
    BY <2>4, <2>5, <2>6 DEF Says
  <2>8. ASSUME NEW u \in Tracks, u # t
        PROVE  profiles'[u] = profiles[u] /\ PublicEdge(u)' = PublicEdge(u)
    <3>1. profiles'[u] = profiles[u] /\ edges'[u] = edges[u]
      BY <1>p, <2>3, <2>8 DEF PublicOK
    <3> QED
      BY <3>1 DEF PublicEdge
  <2>9. PICK new : new = <<event>>
    OBVIOUS
  <2>10. Len(new) = 1 /\ new[1] = event /\ 1 \in 1..Len(new)
         /\ \A i \in 1..Len(new) : new[i] = event
    BY <2>9
  <2>11. \A i \in 1..Len(new) : Says(new[i], new[i].track)'
    BY <2>4, <2>7, <2>10
  <2>12. \A u \in Tracks : \/ profiles'[u] = profiles[u] /\ PublicEdge(u)' = PublicEdge(u)
                           \/ \E i \in 1..Len(new) : new[i].track = u
    BY <2>4, <2>8, <2>10
  <2>13. GoesOn
    BY <2>2, <2>9, <2>10, <2>11, <2>12, NewEventsTell
  <2> QED
    BY <1>p, <2>2, <2>13, PublicFollows
<1>2. ASSUME NEW t \in Tracks, NEW d \in Digests, PublishEdge(t, d)
      PROVE  ConvergeInv'
  <2>1. PICK event : event = Upsert(t, profiles[t], d, FALSE)
    OBVIOUS
  <2>2. /\ Journal(<<event>>) /\ UNCHANGED <<sessionVars, clients>>
        /\ profiles[t] # None /\ profiles' = profiles
        /\ edges' = [edges EXCEPT ![t] = [media |-> profiles[t].media, digest |-> d]]
    BY <1>2, <2>1 DEF PublishEdge
  <2>3. event.track = t /\ event.profile = profiles[t] /\ event.ref = d
    BY <2>1 DEF Upsert
  <2>4. PublicEdge(t)' = d
    <3>1. edges'[t] = [media |-> profiles[t].media, digest |-> d]
      BY <1>p, <2>2 DEF PublicOK
    <3>2. [media |-> profiles[t].media, digest |-> d] \in Edge
      BY <1>p, <2>2 DEF PublicOK, Edge, Profile
    <3>3. edges'[t] # None
      BY <3>1, <3>2, NoneAssumption
    <3> QED
      BY <2>2, <3>1, <3>3 DEF PublicEdge
  <2>5. Says(event, t)'
    BY <2>2, <2>3, <2>4 DEF Says
  <2>6. ASSUME NEW u \in Tracks, u # t
        PROVE  profiles'[u] = profiles[u] /\ PublicEdge(u)' = PublicEdge(u)
    <3>1. profiles'[u] = profiles[u] /\ edges'[u] = edges[u]
      BY <1>p, <2>2, <2>6 DEF PublicOK
    <3> QED
      BY <3>1 DEF PublicEdge
  <2>7. PICK new : new = <<event>>
    OBVIOUS
  <2>8. Len(new) = 1 /\ new[1] = event /\ 1 \in 1..Len(new)
        /\ \A i \in 1..Len(new) : new[i] = event
    BY <2>7
  <2>9. \A i \in 1..Len(new) : Says(new[i], new[i].track)'
    BY <2>3, <2>5, <2>8
  <2>10. \A u \in Tracks : \/ profiles'[u] = profiles[u] /\ PublicEdge(u)' = PublicEdge(u)
                           \/ \E i \in 1..Len(new) : new[i].track = u
    BY <2>3, <2>6, <2>8
  <2>11. GoesOn
    BY <2>2, <2>7, <2>8, <2>9, <2>10, NewEventsTell
  <2> QED
    BY <1>p, <2>2, <2>11, PublicFollows
<1>3. ASSUME NEW W \in SUBSET Tracks, NEW purge \in BOOLEAN, Withdraw(W, purge)
      PROVE  ConvergeInv'
  <2>1. PICK new : new = [i \in 1..Cardinality(W) |-> Delete(Ordinal(W, i))]
    OBVIOUS
  <2>2. /\ Journal(new) /\ UNCHANGED <<sessionVars, clients>>
        /\ profiles' = [t \in Tracks |-> IF t \in W THEN None ELSE profiles[t]]
        /\ edges' = [t \in Tracks |-> IF t \in W /\ purge THEN None ELSE edges[t]]
    BY <1>3, <2>1 DEF Withdraw, Ordinal
  <2>3. Len(new) \in Nat
    BY <2>1, Deletes
  <2>4. \A i \in 1..Len(new) : new[i].track \in W /\ new[i] = Delete(new[i].track)
    BY <2>1, Deletes
  <2>5. \A t \in W : \E i \in 1..Len(new) : new[i].track = t
    BY <2>1, Deletes
  <2>6. ASSUME NEW i \in 1..Len(new)
        PROVE  Says(new[i], new[i].track)'
    <3>1. PICK t : t = new[i].track
      OBVIOUS
    <3>d. t \in W /\ new[i] = Delete(t)
      BY <2>4, <3>1
    <3>2. t \in W /\ new[i].profile = None /\ new[i].ref = None
      BY <3>d DEF Delete
    <3>3. profiles'[t] = None
      BY <2>2, <3>2
    <3>4. PublicEdge(t)' = None
      BY <3>3 DEF PublicEdge
    <3>5. Says(new[i], t)'
      BY <3>2, <3>3, <3>4 DEF Says
    <3> QED
      BY <3>1, <3>5
  <2>7. ASSUME NEW u \in Tracks, u \notin W
        PROVE  profiles'[u] = profiles[u] /\ PublicEdge(u)' = PublicEdge(u)
    <3>1. profiles'[u] = profiles[u] /\ edges'[u] = edges[u]
      BY <2>2, <2>7
    <3> QED
      BY <3>1 DEF PublicEdge
  <2>8. \A u \in Tracks : \/ profiles'[u] = profiles[u] /\ PublicEdge(u)' = PublicEdge(u)
                          \/ \E i \in 1..Len(new) : new[i].track = u
    BY <2>5, <2>7
  <2>9. GoesOn
    BY <2>2, <2>3, <2>6, <2>8, NewEventsTell
  <2> QED
    BY <1>p, <2>2, <2>9, PublicFollows
<1>4. ASSUME PurgeEdges \/ \E limit \in Limits : Maintain(limit)
      PROVE  ConvergeInv'
  <2>1. edges' = Reached /\ profiles' = profiles /\ head' = head
        /\ UNCHANGED <<sessionVars, clients>>
    BY <1>4 DEF PurgeEdges, Maintain
  <2>2. ASSUME NEW t \in Tracks
        PROVE  PublicEdge(t)' = PublicEdge(t)
    <3>1. edges'[t] = IF PublicEdge(t) = None THEN None ELSE edges[t]
      BY <2>1 DEF Reached
    <3> QED
      BY <2>1, <3>1 DEF PublicEdge
  <2>3. /\ floor' \in Nat /\ floor <= floor'
        /\ \A i \in DOMAIN events' : i \in DOMAIN events /\ events'[i] = events[i]
    <3>1. CASE PurgeEdges
      BY <1>p, <3>1 DEF PurgeEdges, JournalInv
    <3>2. ASSUME NEW limit \in Limits, Maintain(limit)
          PROVE  /\ floor' \in Nat /\ floor <= floor'
                 /\ \A i \in DOMAIN events' : i \in DOMAIN events /\ events'[i] = events[i]
      <4> DEFINE target == TargetFloor(head, limit)
                 f == Larger(floor, target)
      <4>1. floor' = f /\ events' = [s \in {s \in DOMAIN events : s > f} |-> events[s]]
        BY <3>2 DEF Maintain, Trim
      <4>2. SessionInv /\ head \in Nat /\ limit \in Nat /\ Multiplier \in Nat /\ floor \in Nat
        BY DEF StreamInv, JournalInv, ConstantsAssumption
      <4>3. target \in 0..head
        BY <4>2, TargetBounds
      <4> HIDE DEF target
      <4>4. f \in Nat /\ floor <= f
        BY <4>2, <4>3 DEF Larger
      <4> HIDE DEF f
      <4> QED
        BY <4>1, <4>4
    <3> QED
      BY <1>4, <3>1, <3>2
  <2>4. GoesOn
    BY <1>p, <2>1, <2>2, <2>3, TrimTells
  <2> QED
    BY <1>p, <2>1, <2>4, PublicFollows
<1>5. ASSUME NEW limit \in Limits, RefreshRetention(limit)
      PROVE  ConvergeInv'
  <2>1. UNCHANGED <<profiles, edges, events, head, floor, sessionVars, clients>>
    BY <1>5 DEF RefreshRetention
  <2>2. \A t \in Tracks : PublicEdge(t)' = PublicEdge(t)
    BY <2>1 DEF PublicEdge
  <2>3. floor' \in Nat /\ floor <= floor'
    BY <1>p, <2>1 DEF JournalInv
  <2>4. GoesOn
    BY <1>p, <2>1, <2>2, <2>3, TrimTells
  <2> QED
    BY <1>p, <2>1, <2>4, PublicFollows
<1>6. ASSUME ChangeIdentity
      PROVE  ConvergeInv'
  <2>1. /\ sessions' = [c \in Clients |-> [sessions[c] EXCEPT !.over = @ \/ Exists(c)]]
        /\ admission' = IF admission = None THEN None ELSE [admission EXCEPT !.over = TRUE]
        /\ UNCHANGED <<publicVars, journalVars, captures, replays, clients>>
    BY <1>6 DEF ChangeIdentity
  <2>2. JournalSays'
    BY <2>1, SaysStays DEF ConvergeInv
  <2>3. ASSUME NEW c \in Clients
        PROVE  Follower(c)'
    <3>1. sessions[c] \in Session
      BY TypesOf
    <3>2. /\ sessions'[c].state = sessions[c].state /\ sessions'[c].seq = sessions[c].seq
          /\ sessions'[c].head = sessions[c].head /\ sessions'[c].claimed = sessions[c].claimed
          /\ sessions'[c].snapshot = sessions[c].snapshot
          /\ sessions'[c].catchup = sessions[c].catchup
      BY <2>1, <3>1 DEF Session
    <3>3. admission' # None => admission # None /\ admission'.client = admission.client
      BY <2>1 DEF TypeInv, AdmissionOK
    <3>4. Placed(c)'
      BY <2>1, <3>2, <3>3 DEF ConvergeInv, Follower, Placed
    <3> QED
      BY <2>1, <3>2, <3>4, SessionFollows DEF ConvergeInv
  <2> QED
    BY <2>2, <2>3 DEF ConvergeInv
<1> QED
  BY <1>1, <1>2, <1>3, <1>4, <1>5, <1>6 DEF Publish

-----------------------------------------------------------------------------
(* Sessions come and go.                                                   *)

\* The rows of a snapshot are right for a client that has nothing.
LEMMA SnapshotFollowsNow ==
    ASSUME JournalInv, ConstantsAssumption, TypeInv
    PROVE  Follows(Nothing, Rows, head)
<1>1. TrackCount \in Nat /\ PublicOK
  BY TrackNumbers DEF TypeInv
<1>2. \A i \in DOMAIN Rows : /\ Rows[i].profile = profiles[Rows[i].track]
                             /\ Rows[i].ref = PublicEdge(Rows[i].track)
  BY <1>1, RowsAreThePublished DEF PublicOK
<1>3. \A t \in Tracks : profiles[t] # None => \E i \in DOMAIN Rows : Rows[i].track = t
  BY <1>1, RowsAreThePublished DEF PublicOK
<1>4. \A t \in Tracks : LastSays(Rows, t)
  BY <1>2 DEF LastSays, Says
<1>5. ASSUME NEW t \in Tracks
      PROVE  Mentions(Rows, t) \/ Agrees(Nothing, t)
  <2>1. CASE profiles[t] = None
    BY <2>1 DEF Agrees, Nothing, Public
  <2>2. CASE profiles[t] # None
    BY <1>3, <2>2 DEF Mentions
  <2> QED
    BY <2>1, <2>2
<1>6. head \in 0..head
  BY DEF JournalInv
<1> QED
  BY <1>4, <1>5, <1>6 DEF Follows

\* A client that starts from nothing.
LEMMA StartFollows ==
    ASSUME NEW client \in Client, NEW phase \in {"idle", "snapshot", "catchup", "legacy", "delta"},
           NEW cursor \in Nat, NEW q, NEW s, Follows(Nothing, q, s)
    PROVE  Follows(Start(client, phase, cursor), q, s)
<1> DEFINE start == Start(client, phase, cursor)
<1>1. start.misses = {} /\ \A t \in Tracks : start.has[t] = None
  BY DEF Start, Client
<1> HIDE DEF start
<1>2. \A t \in Tracks : Agrees(Nothing, t) => Agrees(start, t)
  BY <1>1 DEF Agrees, Nothing
<1>3. Follows(start, q, s)
  BY <1>2, FollowsMore
<1> QED
  BY <1>3 DEF start

\* The session changes under a client that does not read its pages.
LEMMA UnreadSession ==
    ASSUME NEW c, Follower(c), UNCHANGED <<publicVars, journalVars>>,
           clients'[c] = clients[c], replays'[c] = None,
           Placed(c)', CaptureFollows(c)', UnreadFollows(c)',
           clients[c].phase \notin {"snapshot", "catchup"} \/ ~Ready(c)'
    PROVE  Follower(c)'
<1>1. SnapshotFollows(c)' /\ CatchupFollows(c)' /\ ReplayFollows(c)'
  BY DEF SnapshotFollows, CatchupFollows, ReplayFollows
<1>2. LegacyFollows(c)'
  BY AgreesStays DEF Follower, LegacyFollows, journalVars
<1>3. DeltaFollows(c)'
  BY FollowsStays DEF Follower, DeltaFollows
<1> QED
  BY <1>1, <1>2, <1>3 DEF Follower

LEMMA CreateConverges ==
    ASSUME StreamInv, ConstantsAssumption, TypeInv, ConvergeInv, Create
    PROVE  ConvergeInv'
<1> USE DEF Alone, publicVars, journalVars
<1>f. ASSUME NEW c \in Clients
      PROVE  Follower(c) /\ Placed(c) /\ UnreadFollows(c) /\ CaptureFollows(c) /\ ReplayFollows(c)
  BY DEF ConvergeInv, Follower
<1>1. ASSUME NEW c \in Clients, AdmitRead(c)
      PROVE  ConvergeInv'
  <2>1. Alone(c) /\ admission'.client = c
    BY <1>1, TypesOf DEF AdmitRead
  <2>2. Placed(c)'
    BY <1>1 DEF AdmitRead, Placed
  <2>3. Follower(c)'
    BY <1>1, <1>f, <2>2, SessionFollows DEF AdmitRead
  <2> QED
    BY <2>1, <2>3, OthersFollow
<1>2. ASSUME AdmitCommit
      PROVE  ConvergeInv'
  <2> DEFINE new == [NoSession EXCEPT !.state = "capturing", !.seq = admission.seq,
                                      !.over = admission.over]
  <2>1. /\ admission # None /\ admission' = None
        /\ sessions' = [sessions EXCEPT ![admission.client] = new]
        /\ captures' = [captures EXCEPT ![admission.client] = None]
        /\ UNCHANGED <<publicVars, journalVars, replays, clients>>
    BY <1>2 DEF AdmitCommit
  <2>2. PICK c \in Clients : c = admission.client
    BY <2>1 DEF TypeInv, AdmissionOK
  <2>3. new.state = "capturing"
    BY DEF NoSession
  <2> HIDE DEF new
  <2>4. sessions'[c] = new /\ captures'[c] = None
    BY <2>1, <2>2, AboutClient
  <2>5. \A d \in Clients \ {c} : sessions'[d] = sessions[d] /\ captures'[d] = captures[d]
    BY <2>1, <2>2, AboutClient
  <2>6. Alone(c)
    BY <2>1, <2>5, TypesOf
  <2>7. clients[c].phase \notin {"snapshot", "catchup"}
    BY <1>f, <2>1, <2>2 DEF Placed
  <2>8. replays'[c] = None
    BY <2>1, <2>2, AboutClient DEF AdmissionInv
  <2>9. Placed(c)' /\ CaptureFollows(c)' /\ UnreadFollows(c)'
    BY <2>1, <2>3, <2>4, <2>7 DEF Placed, CaptureFollows, UnreadFollows, Ready
  <2>10. Follower(c)'
    BY <1>f, <2>1, <2>7, <2>8, <2>9, UnreadSession
  <2> QED
    BY <2>1, <2>6, <2>10, OthersFollow
<1>3. ASSUME NEW c \in Clients, Drop(c)
      PROVE  ConvergeInv'
  <2>1. /\ sessions'[c] = NoSession /\ captures'[c] = None /\ ~Locked(c)
        /\ \A d \in Clients \ {c} : sessions'[d] = sessions[d] /\ captures'[d] = captures[d]
        /\ UNCHANGED <<publicVars, journalVars, admission, replays, clients>>
    BY <1>3, AboutClient DEF Drop
  <2>2. Alone(c)
    BY <2>1, TypesOf
  <2>3. sessions'[c].state = "none" /\ replays'[c] = None
    BY <2>1 DEF NoSession, Locked
  <2>4. Placed(c)' /\ CaptureFollows(c)' /\ UnreadFollows(c)' /\ ~Ready(c)'
    BY <2>1, <2>3 DEF Placed, CaptureFollows, UnreadFollows, Ready, Locked
  <2>5. Follower(c)'
    BY <1>f, <2>1, <2>3, <2>4, UnreadSession
  <2> QED
    BY <2>1, <2>2, <2>5, OthersFollow
<1>4. ASSUME NEW c \in Clients, Expire(c) \/ Overrun(c)
      PROVE  ConvergeInv'
  <2>1. /\ \/ sessions'[c] = [sessions[c] EXCEPT !.over = TRUE]
           \/ sessions'[c] = [sessions[c] EXCEPT !.abandoned = TRUE]
        /\ \A d \in Clients \ {c} : sessions'[d] = sessions[d]
        /\ UNCHANGED <<publicVars, journalVars, admission, captures, replays, clients>>
    BY <1>4, AboutClient DEF Expire, Overrun
  <2>2. sessions[c] \in Session
    BY TypesOf
  <2>3. /\ sessions'[c].state = sessions[c].state /\ sessions'[c].seq = sessions[c].seq
        /\ sessions'[c].head = sessions[c].head /\ sessions'[c].claimed = sessions[c].claimed
        /\ sessions'[c].snapshot = sessions[c].snapshot
        /\ sessions'[c].catchup = sessions[c].catchup
    BY <2>1, <2>2 DEF Session
  <2>4. Placed(c)'
    BY <1>f, <2>1, <2>3 DEF Placed
  <2>5. Follower(c)'
    BY <1>f, <2>1, <2>3, <2>4, SessionFollows
  <2>6. Alone(c)
    BY <2>1, TypesOf
  <2> QED
    BY <2>1, <2>5, <2>6, OthersFollow
<1>5. ASSUME NEW c \in Clients, CaptureBegin(c)
      PROVE  ConvergeInv'
  <2>1. PICK rows : rows = Rows
    OBVIOUS
  <2>2. PICK h : h = head
    OBVIOUS
  <2>3. /\ captures'[c] = [seq |-> h, rows |-> rows] /\ sessions[c].state = "capturing"
        /\ \A d \in Clients \ {c} : captures'[d] = captures[d]
        /\ UNCHANGED <<publicVars, journalVars, admission, sessions, replays, clients>>
    BY <1>5, <2>1, <2>2, AboutClient DEF CaptureBegin
  <2>4. Follows(Nothing, rows, h)
    BY <2>1, <2>2, SnapshotFollowsNow DEF StreamInv
  <2>5. Follows(Nothing, rows, h)'
    BY <2>3, <2>4, FollowsStays
  <2>6. CaptureFollows(c)'
    BY <2>3, <2>5 DEF CaptureFollows
  <2>7. clients[c].phase \notin {"snapshot", "catchup"} /\ replays[c] = None
    BY <1>f, <2>3 DEF Placed, ReplayFollows, Ready
  <2>8. Placed(c)' /\ UnreadFollows(c)'
    BY <2>3, <2>7 DEF Placed, UnreadFollows, Ready
  <2>9. Follower(c)'
    BY <1>f, <2>3, <2>6, <2>7, <2>8, UnreadSession
  <2>10. Alone(c)
    BY <2>3, TypesOf
  <2> QED
    BY <2>3, <2>9, <2>10, OthersFollow
<1>6. ASSUME NEW c \in Clients, NEW answered \in BOOLEAN, CaptureCommit(c, answered)
      PROVE  ConvergeInv'
  <2>1. PICK rows, seq : rows = captures[c].rows /\ seq = captures[c].seq
    OBVIOUS
  <2>2. /\ captures[c] # None /\ captures'[c] = None /\ ~Locked(c)
        /\ sessions'[c] = [sessions[c] EXCEPT !.state = "ready", !.seq = seq, !.snapshot = rows]
        /\ \A d \in Clients \ {c} : sessions'[d] = sessions[d] /\ captures'[d] = captures[d]
        /\ UNCHANGED <<publicVars, journalVars, admission, replays>>
    BY <1>6, <2>1, AboutClient DEF CaptureCommit, CapturedSeq
  <2>3. /\ clients'[c] = clients[c] \/ clients'[c] = Start(clients[c], "snapshot", seq)
        /\ clients' = [d \in Clients |-> clients'[d]]
        /\ \A d \in Clients \ {c} : clients'[d] = clients[d]
    BY <1>6, <2>1, TypesOf DEF CaptureCommit, CapturedSeq
  <2>4. sessions[c] \in Session /\ clients[c] \in Client
    BY TypesOf
  <2>5. /\ sessions[c].state = "capturing" /\ sessions[c].head = None /\ seq \in Nat
        /\ replays[c] = None
    BY <2>1, <2>2, AboutClient DEF CaptureOK, Locked
  <2>6. /\ sessions'[c].state = "ready" /\ sessions'[c].head = None
        /\ sessions'[c].seq = seq /\ sessions'[c].snapshot = rows
    BY <2>2, <2>4, <2>5 DEF Session
  <2>7. Follows(Nothing, rows, seq)
    BY <1>f, <2>1, <2>2 DEF CaptureFollows
  <2>8. Follows(Nothing, rows, seq)'
    BY <2>2, <2>7, FollowsStays
  <2>9. Placed(c)' /\ CaptureFollows(c)' /\ UnreadFollows(c)'
    BY <2>2, <2>6, <2>8 DEF Placed, CaptureFollows, UnreadFollows, Locked
  <2>10. CASE clients'[c] = clients[c]
    <3>1. clients[c].phase \notin {"snapshot", "catchup"}
      BY <1>f, <2>5 DEF Placed
    <3> QED
      <4>1. Follower(c)'
        BY <1>f, <2>2, <2>5, <2>9, <2>10, <3>1, UnreadSession
      <4>2. Alone(c)
        BY <2>2, <2>3
      <4> QED
        BY <2>2, <4>1, <4>2, OthersFollow
  <2>11. CASE clients'[c] = Start(clients[c], "snapshot", seq)
    <3>1. PICK start : start = Start(clients[c], "snapshot", seq)
      OBVIOUS
    <3>2. start.phase = "snapshot"
      BY <2>4, <3>1 DEF Start, Client
    <3>3. Follows(start, rows, seq)
      BY <2>4, <2>5, <2>7, <3>1, StartFollows
    <3>4. Follows(start, rows, seq)'
      BY <2>2, <3>3, FollowsStays
    <3>5. SnapshotFollows(c)'
      BY <2>6, <2>11, <3>1, <3>4 DEF SnapshotFollows
    <3>6. CatchupFollows(c)' /\ ReplayFollows(c)' /\ LegacyFollows(c)' /\ DeltaFollows(c)'
      BY <2>2, <2>5, <2>11, <3>1, <3>2 DEF CatchupFollows, ReplayFollows, LegacyFollows,
           DeltaFollows
    <3>7. Follower(c)'
      BY <2>9, <3>5, <3>6 DEF Follower
    <3>8. Alone(c)
      BY <2>2, <2>3
    <3> QED
      BY <2>2, <3>7, <3>8, OthersFollow
  <2> QED
    BY <2>3, <2>10, <2>11
<1>7. ASSUME NEW c \in Clients, Adopt(c)
      PROVE  ConvergeInv'
  <2>1. PICK rows, seq : rows = sessions[c].snapshot /\ seq = sessions[c].seq
    OBVIOUS
  <2>2. PICK start : start = Start(clients[c], "snapshot", seq)
    OBVIOUS
  <2>3. /\ clients'[c] = start /\ clients' = [d \in Clients |-> clients'[d]]
        /\ \A d \in Clients \ {c} : clients'[d] = clients[d]
        /\ UNCHANGED <<publicVars, journalVars, sessionVars>>
        /\ sessions[c].state = "ready" /\ ~sessions[c].claimed /\ ~Locked(c)
    BY <1>7, <2>1, <2>2, TypesOf DEF Adopt, Valid, Claimed
  <2>4. seq \in Nat /\ clients[c] \in Client
    BY <2>1, TypesOf DEF Session
  <2>5. sessions[c].head = None /\ Follows(Nothing, rows, seq)
    BY <1>f, <2>1, <2>3 DEF UnreadFollows, Ready
  <2>6. Follows(start, rows, seq)
    BY <2>2, <2>4, <2>5, StartFollows
  <2>s. start.phase = "snapshot"
    BY <2>2, <2>4 DEF Start, Client
  <2>7. Follows(start, rows, seq)' /\ Follows(Nothing, rows, seq)'
    BY <2>3, <2>5, <2>6, FollowsStays
  <2>8. captures[c] = None /\ replays[c] = None /\ (admission # None => admission.client # c)
    BY <2>3, AboutClient DEF CaptureOK, Locked
  <2>9. Follower(c)'
    BY <2>1, <2>3, <2>5, <2>s, <2>7, <2>8 DEF Follower, Placed, CaptureFollows, UnreadFollows,
         SnapshotFollows, CatchupFollows, ReplayFollows, LegacyFollows, DeltaFollows, Ready,
         sessionVars
  <2>10. Alone(c)
    BY <2>3 DEF sessionVars
  <2> QED
    BY <2>3, <2>9, <2>10, OthersFollow DEF sessionVars
<1> QED
  BY <1>1, <1>2, <1>3, <1>4, <1>5, <1>6, <1>7 DEF Create, PurgeSession, EndSession

-----------------------------------------------------------------------------
(* Pages are read.                                                          *)

\* A client that has to start again; its session is as it was.
LEMMA RestartFollows ==
    ASSUME TypeInv, NEW c \in Clients, Follower(c), UNCHANGED <<publicVars, journalVars>>,
           sessions'[c] = sessions[c], captures'[c] = captures[c], replays'[c] = None,
           Restart(c)
    PROVE  Follower(c)'
<1>1. clients'[c].phase = "idle"
  <2>1. clients[c] \in Client /\ clients'[c] = Start(clients[c], "idle", 0)
    BY TypesOf DEF Restart
  <2> QED
    BY <2>1 DEF Start, Client
<1>2. CaptureFollows(c)'
  BY FollowsStays DEF Follower, CaptureFollows
<1>3. UnreadFollows(c)'
  BY FollowsStays DEF Follower, UnreadFollows, Ready
<1> QED
  BY <1>1, <1>2, <1>3 DEF Follower, Placed, SnapshotFollows, CatchupFollows, ReplayFollows,
     LegacyFollows, DeltaFollows

\* A client that reads no page of a session, with what it has from its session left.
LEMMA JournalReader ==
    ASSUME NEW c \in Clients, Follower(c), UNCHANGED <<publicVars, journalVars, sessionVars>>,
           clients[c].phase \notin {"snapshot", "catchup"},
           clients'[c].phase \notin {"snapshot", "catchup"},
           LegacyFollows(c)', DeltaFollows(c)'
    PROVE  Follower(c)'
<1> USE DEF sessionVars
<1>1. CaptureFollows(c)'
  BY FollowsStays DEF Follower, CaptureFollows
<1>2. UnreadFollows(c)'
  BY FollowsStays DEF Follower, UnreadFollows, Ready
<1>3. replays[c] = None
  BY DEF Follower, ReplayFollows
<1> QED
  BY <1>1, <1>2, <1>3 DEF Follower, Placed, SnapshotFollows, CatchupFollows, ReplayFollows

\* A page of the snapshot.
LEMMA SnapshotPageConverges ==
    ASSUME StreamInv, ConstantsAssumption, TypeInv, ConvergeInv,
           NEW c \in Clients, SnapshotPage(c)
    PROVE  ConvergeInv'
<1> USE DEF publicVars, journalVars
<1>0. Placed(c) /\ SnapshotFollows(c)
  BY DEF ConvergeInv, Follower
<1>1. PICK client, rows, seq : client = clients[c] /\ rows = sessions[c].snapshot
                               /\ seq = sessions[c].seq
  OBVIOUS
<1> DEFINE row == Head(rows)
           left == IF rows = <<>> THEN rows ELSE Tail(rows)
<1>2. /\ sessions'[c] = [sessions[c] EXCEPT !.claimed = TRUE, !.snapshot = left]
      /\ \A d \in Clients \ {c} : sessions'[d] = sessions[d]
      /\ client.phase = "snapshot" /\ sessions[c].state = "ready" /\ ~Locked(c)
      /\ UNCHANGED <<publicVars, journalVars, admission, captures, replays>>
  BY <1>1, AboutClient DEF SnapshotPage, Valid
<1>3. /\ clients'[c] = IF rows = <<>> THEN [client EXCEPT !.phase = "catchup"]
                       ELSE Stored(client, row.track, row.profile,
                                   ReferencedEdge(row.track, row.profile.media, row.ref))
      /\ clients' = [d \in Clients |-> clients'[d]]
      /\ \A d \in Clients \ {c} : clients'[d] = clients[d]
  BY <1>1, TypesOf DEF SnapshotPage
<1>4. /\ sessions[c] \in Session /\ rows \in Seq(SnapshotRow) /\ client \in Client
      /\ Held(client) /\ PublicOK
  BY <1>1, TypesOf DEF Session
<1>5. sessions[c].head = None /\ Follows(client, rows, seq)
  BY <1>0, <1>1, <1>2 DEF SnapshotFollows, Ready
<1>6. /\ sessions'[c].state = "ready" /\ sessions'[c].claimed /\ sessions'[c].head = None
      /\ sessions'[c].seq = seq /\ sessions'[c].snapshot = left
  <2> HIDE DEF left
  <2> QED
    BY <1>1, <1>2, <1>4, <1>5 DEF Session
<1>7. captures'[c] = None /\ replays'[c] = None
  BY <1>2, AboutClient DEF CaptureOK, Locked
<1>8. Placed(c)' /\ CaptureFollows(c)' /\ UnreadFollows(c)' /\ ReplayFollows(c)'
  BY <1>2, <1>6, <1>7 DEF Placed, CaptureFollows, UnreadFollows, ReplayFollows, Locked
<1>9. Alone(c)
  BY <1>2, <1>3 DEF Alone
<1>10. ASSUME rows = <<>>
       PROVE  Follower(c)'
  <2>1. PICK after : after = [client EXCEPT !.phase = "catchup"]
    OBVIOUS
  <2>2. after.phase = "catchup" /\ after.has = client.has /\ after.misses = client.misses
    BY <1>4, <2>1 DEF Client
  <2>3. \A t \in Tracks : Agrees(client, t) => Agrees(after, t)
    BY <2>2 DEF Agrees
  <2>4. Follows(after, <<>>, seq)
    BY <1>5, <1>10, <2>3, FollowsMore
  <2>5. Follows(after, <<>>, seq)'
    BY <1>2, <2>4, FollowsStays
  <2>6. clients'[c] = after
    BY <1>3, <1>10, <2>1
  <2> QED
    BY <1>6, <1>8, <2>2, <2>5, <2>6 DEF Follower, SnapshotFollows, CatchupFollows,
       LegacyFollows, DeltaFollows
<1>11. ASSUME rows # <<>>
       PROVE  Follower(c)'
  <2>1. row \in SnapshotRow
    BY <1>4, <1>11, HeadTailProperties
  <2>2. PICK after : after = Stored(client, row.track, row.profile,
                                    ReferencedEdge(row.track, row.profile.media, row.ref))
    OBVIOUS
  <2>3. Told(after, client, row)
    <3> HIDE DEF row
    <3>1. client.phase # "legacy"
      BY <1>2
    <3> QED
      BY <1>4, <2>1, <2>2, <3>1, StoredAgrees
  <2>4. Follows(after, Tail(rows), seq)
    BY <1>4, <1>5, <1>11, <2>3, FollowsTail
  <2>5. Follows(after, left, seq)'
    BY <1>2, <1>11, <2>4, FollowsStays
  <2>6. clients'[c] = after /\ after.phase = "snapshot"
    BY <1>2, <1>3, <1>11, <2>2, <2>3 DEF Told
  <2> HIDE DEF left
  <2> QED
    BY <1>6, <1>8, <2>5, <2>6 DEF Follower, SnapshotFollows, CatchupFollows,
       LegacyFollows, DeltaFollows
<1> QED
  BY <1>2, <1>9, <1>10, <1>11, OthersFollow

\* The events are copied, while the journal moves on and compaction runs.
LEMMA ReplayConverges ==
    ASSUME StreamInv, ConstantsAssumption, TypeInv, ConvergeInv,
           NEW c \in Clients, CatchupBegin(c) \/ CatchupBatch(c) \/ CatchupCommit(c)
    PROVE  ConvergeInv'
<1> USE DEF publicVars, journalVars
<1>0. Follower(c) /\ Placed(c) /\ CatchupFollows(c) /\ ReplayFollows(c) /\ UnreadFollows(c)
  BY DEF ConvergeInv, Follower
<1>1. PICK client : client = clients[c]
  OBVIOUS
<1>2. CASE CatchupBegin(c)
  <2>1. PICK seq : seq = sessions[c].seq
    OBVIOUS
  <2>2. /\ replays'[c].events = <<>> /\ replays'[c].at = seq
        /\ \A d \in Clients \ {c} : replays'[d] = replays[d]
        /\ client.phase = "catchup" /\ Ready(c) /\ sessions[c].head = None
        /\ UNCHANGED <<publicVars, journalVars, admission, sessions, captures, clients>>
    BY <1>1, <1>2, <2>1, AboutClient DEF CatchupBegin, Valid, Ready
  <2>3. Follows(client, <<>>, seq)
    BY <1>0, <1>1, <2>1, <2>2 DEF CatchupFollows
  <2>4. Follows(client, <<>>, seq)'
    BY <2>2, <2>3, FollowsStays
  <2>5. ReplayFollows(c)'
    BY <1>1, <2>2, <2>4 DEF ReplayFollows, Ready
  <2>6. Placed(c)'
    BY <1>0, <2>2 DEF Placed
  <2>7. Follower(c)'
    BY <1>0, <2>2, <2>5, <2>6, SessionFollows
  <2>8. Alone(c)
    BY <2>2, TypesOf DEF Alone
  <2> QED
    BY <2>2, <2>7, <2>8, OthersFollow
<1>3. CASE CatchupBatch(c)
  <2>1. PICK list, at : list = replays[c].events /\ at = replays[c].at
    OBVIOUS
  <2>2. /\ replays[c] # None /\ list \in Seq(Event) /\ at \in Nat
        /\ DOMAIN replays[c] = {"head", "at", "most", "events"}
    BY <1>3, <2>1, TypesOf, AboutClient DEF CatchupBatch, ReplayOK
  <2>3. CASE Restart(c) /\ replays' = [replays EXCEPT ![c] = None]
    <3>1. /\ replays'[c] = None /\ \A d \in Clients \ {c} : replays'[d] = replays[d]
          /\ UNCHANGED <<publicVars, journalVars, admission, sessions, captures>>
      BY <1>3, <2>3, AboutClient DEF CatchupBatch
    <3>2. Follower(c)'
      BY <1>0, <2>3, <3>1, RestartFollows
    <3>3. Alone(c)
      BY <2>3, <3>1, TypesOf DEF Restart, Alone
    <3> QED
      BY <3>1, <3>2, <3>3, OthersFollow
  <2>4. CASE /\ at + 1 \in DOMAIN events
             /\ replays' = [replays EXCEPT ![c].at = @ + 1,
                                           ![c].events = Append(@, events[at + 1])]
             /\ UNCHANGED clients
    <3>1. PICK event : event = events[at + 1]
      OBVIOUS
    <3>2. /\ \A d \in Clients \ {c} : replays'[d] = replays[d]
          /\ replays'[c] = [replays[c] EXCEPT !.at = @ + 1, !.events = Append(@, event)]
          /\ UNCHANGED <<publicVars, journalVars, admission, sessions, captures, clients>>
      BY <1>3, <2>4, <3>1, AboutClient DEF CatchupBatch
    <3>3. replays'[c].at = at + 1 /\ replays'[c].events = Append(list, event)
      BY <2>1, <2>2, <3>2
    <3>4. /\ client.phase = "catchup" /\ Ready(c) /\ sessions[c].head = None
          /\ Follows(client, list, at)
      BY <1>0, <1>1, <2>1, <2>2 DEF ReplayFollows
    <3>5. Follows(client, Append(list, event), at + 1)
      <4>1. JournalInv /\ JournalSays /\ \A i \in DOMAIN events : events[i] \in Event
        BY DEF StreamInv, ConvergeInv, TypeInv, EventsOK
      <4> QED
        BY <2>2, <2>4, <3>1, <3>4, <4>1, FollowsNext
    <3>6. Follows(client, Append(list, event), at + 1)'
      BY <3>2, <3>5, FollowsStays
    <3>7. ReplayFollows(c)'
      BY <1>1, <3>2, <3>3, <3>4, <3>6 DEF ReplayFollows, Ready
    <3>8. Placed(c)'
      BY <1>0, <3>2 DEF Placed
    <3>9. Follower(c)'
      BY <1>0, <3>2, <3>7, <3>8, SessionFollows
    <3>10. Alone(c)
      BY <3>2, TypesOf DEF Alone
    <3> QED
      BY <3>2, <3>9, <3>10, OthersFollow
  <2> QED
    BY <1>3, <2>1, <2>3, <2>4 DEF CatchupBatch
<1>4. CASE CatchupCommit(c)
  <2>1. PICK list, h : list = replays[c].events /\ h = replays[c].head
    OBVIOUS
  <2>2. /\ replays[c] # None /\ replays'[c] = None /\ replays[c].at = h
        /\ sessions'[c] = [sessions[c] EXCEPT !.head = h, !.catchup = list, !.claimed = TRUE]
        /\ \A d \in Clients \ {c} : sessions'[d] = sessions[d] /\ replays'[d] = replays[d]
        /\ UNCHANGED <<publicVars, journalVars, admission, captures, clients>>
    BY <1>4, <2>1, AboutClient DEF CatchupCommit
  <2>3. sessions[c] \in Session /\ h \in Nat
    BY <2>1, <2>2, TypesOf, AboutClient DEF ReplayOK
  <2>4. client.phase = "catchup" /\ sessions[c].state = "ready" /\ Follows(client, list, h)
    BY <1>0, <1>1, <2>1, <2>2 DEF ReplayFollows, Ready
  <2>5. Follows(client, list, h)'
    BY <2>2, <2>4, FollowsStays
  <2>6. /\ sessions'[c].state = "ready" /\ sessions'[c].claimed
        /\ sessions'[c].head = h /\ sessions'[c].catchup = list
    BY <2>2, <2>3, <2>4 DEF Session
  <2>7. h # None
    BY <2>3 DEF ConstantsAssumption
  <2>8. captures'[c] = None
    BY <2>2, <2>4, AboutClient DEF CaptureOK
  <2>9. Placed(c)'
    BY <1>0, <1>1, <2>2, <2>4, <2>6 DEF Placed
  <2>10. Follower(c)'
    BY <1>1, <2>2, <2>4, <2>5, <2>6, <2>7, <2>8, <2>9 DEF Follower, CaptureFollows,
       UnreadFollows, SnapshotFollows, CatchupFollows, ReplayFollows, LegacyFollows, DeltaFollows
  <2>11. Alone(c)
    BY <2>2, TypesOf DEF Alone
  <2> QED
    BY <2>2, <2>10, <2>11, OthersFollow
<1> QED
  BY <1>2, <1>3, <1>4

\* A page of the copied events; after the last the client has what it needs to follow
\* the journal from the copied head.
LEMMA CatchupPageConverges ==
    ASSUME StreamInv, ConstantsAssumption, TypeInv, ConvergeInv,
           NEW c \in Clients, CatchupPage(c)
    PROVE  ConvergeInv'
<1> USE DEF publicVars, journalVars
<1>0. Placed(c) /\ CatchupFollows(c) /\ ReplayFollows(c) /\ UnreadFollows(c)
  BY DEF ConvergeInv, Follower
<1>1. PICK client, rest, h : client = clients[c] /\ rest = sessions[c].catchup
                             /\ h = sessions[c].head
  OBVIOUS
<1> DEFINE event == Head(rest)
           left == IF rest = <<>> THEN rest ELSE Tail(rest)
           edge == IF event.profile = None THEN None
                   ELSE ReferencedEdge(event.track, event.profile.media, event.ref)
<1>2. /\ sessions'[c] = [sessions[c] EXCEPT !.catchup = left]
      /\ \A d \in Clients \ {c} : sessions'[d] = sessions[d]
      /\ client.phase = "catchup" /\ sessions[c].state = "ready" /\ h # None
      /\ UNCHANGED <<publicVars, journalVars, admission, captures, replays>>
  BY <1>1, AboutClient DEF CatchupPage, Valid
<1>3. /\ clients'[c] = IF rest = <<>>
                       THEN [client EXCEPT !.phase = "delta", !.cursor = h]
                       ELSE Applied(client, event, edge)
      /\ clients' = [d \in Clients |-> clients'[d]]
      /\ \A d \in Clients \ {c} : clients'[d] = clients[d]
  BY <1>1, TypesOf DEF CatchupPage
<1>4. /\ sessions[c] \in Session /\ rest \in Seq(Event) /\ client \in Client
      /\ Held(client) /\ PublicOK
  BY <1>1, TypesOf DEF Session
<1>5. Follows(client, rest, h) /\ sessions[c].claimed /\ replays[c] = None
  BY <1>0, <1>1, <1>2, <1>4 DEF CatchupFollows, UnreadFollows, ReplayFollows, Ready, Session
<1>6. /\ sessions'[c].state = "ready" /\ sessions'[c].claimed /\ sessions'[c].head = h
      /\ sessions'[c].catchup = left
  <2> HIDE DEF left
  <2> QED
    BY <1>1, <1>2, <1>4, <1>5 DEF Session
<1>7. captures'[c] = None /\ replays'[c] = None
  BY <1>2, <1>5, AboutClient DEF CaptureOK
<1>8. Placed(c)' /\ CaptureFollows(c)' /\ UnreadFollows(c)' /\ ReplayFollows(c)'
  BY <1>0, <1>1, <1>2, <1>6, <1>7 DEF Placed, CaptureFollows, UnreadFollows, ReplayFollows
<1>9. Alone(c)
  BY <1>2, <1>3 DEF Alone
<1>10. ASSUME rest = <<>>
       PROVE  Follower(c)'
  <2>1. PICK after : after = [client EXCEPT !.phase = "delta", !.cursor = h]
    OBVIOUS
  <2>2. /\ after.phase = "delta" /\ after.cursor = h /\ after.has = client.has
        /\ after.misses = client.misses
    BY <1>4, <2>1 DEF Client
  <2>3. \A t \in Tracks : Agrees(client, t) => Agrees(after, t)
    BY <2>2 DEF Agrees
  <2>4. Follows(after, <<>>, h)
    BY <1>5, <1>10, <2>3, FollowsMore
  <2>5. Follows(after, <<>>, h)'
    BY <1>2, <2>4, FollowsStays
  <2>6. clients'[c] = after
    BY <1>3, <1>10, <2>1
  <2> QED
    BY <1>8, <2>2, <2>5, <2>6 DEF Follower, SnapshotFollows, CatchupFollows, LegacyFollows,
       DeltaFollows
<1>11. ASSUME rest # <<>>
       PROVE  Follower(c)'
  <2>1. event \in Event
    BY <1>4, <1>11, HeadTailProperties
  <2>2. PICK after : after = Applied(client, event, edge)
    OBVIOUS
  <2>3. edge \in Digests \cup {None}
    <3> HIDE DEF event
    <3> QED
      BY <1>4, <2>1, EdgeTypes DEF Event
  <2>4. event.profile # None => edge = ReferencedEdge(event.track, event.profile.media, event.ref)
    OBVIOUS
  <2>5. Told(after, client, event)
    <3> HIDE DEF event, edge
    <3>1. client.phase # "legacy"
      BY <1>2
    <3> QED
      BY <1>4, <2>1, <2>2, <2>3, <2>4, <3>1, AppliedAgrees
  <2>6. Follows(after, Tail(rest), h)
    BY <1>4, <1>5, <1>11, <2>5, FollowsTail
  <2>7. Follows(after, left, h)'
    BY <1>2, <1>11, <2>6, FollowsStays
  <2>8. clients'[c] = after /\ after.phase = "catchup"
    BY <1>2, <1>3, <1>11, <2>2, <2>5 DEF Told
  <2> HIDE DEF left
  <2> QED
    BY <1>2, <1>6, <1>8, <2>7, <2>8 DEF Follower, SnapshotFollows, CatchupFollows, LegacyFollows,
       DeltaFollows
<1> QED
  BY <1>2, <1>9, <1>10, <1>11, OthersFollow

\* The legacy bootstrap starts at a head it reads first; each page then has what is
\* published at its time.
LEMMA LegacyConverges ==
    ASSUME StreamInv, ConstantsAssumption, TypeInv, ConvergeInv,
           NEW c \in Clients, LegacyBegin(c) \/ LegacyPage(c)
    PROVE  ConvergeInv'
<1> USE DEF publicVars, journalVars
<1>0. Follower(c) /\ LegacyFollows(c)
  BY DEF ConvergeInv, Follower
<1>1. PICK client, cursor, at : client = clients[c] /\ cursor = client.cursor /\ at = client.at
  OBVIOUS
<1>2. /\ UNCHANGED <<publicVars, journalVars, sessionVars>>
      /\ \A d \in Clients \ {c} : clients'[d] = clients[d]
      /\ clients' = [d \in Clients |-> clients'[d]]
      /\ client.phase \in {"idle", "legacy"}
  BY <1>1, TypesOf DEF LegacyBegin, LegacyPage
<1>3. Alone(c) /\ admission' = admission
  BY <1>2 DEF Alone, sessionVars
<1>4. client \in Client /\ Held(client) /\ head \in Nat /\ TrackCount \in Nat
  BY <1>1, TypesOf, AboutClient, TrackNumbers
<1>5. CASE LegacyBegin(c)
  <2>1. PICK start : start = Start(client, "legacy", head)
    OBVIOUS
  <2>2. start.phase = "legacy" /\ start.cursor = head /\ start.at = 0
    BY <1>4, <2>1 DEF Start, Client
  <2>3. clients'[c] = start
    BY <1>1, <1>5, <2>1, TypesOf DEF LegacyBegin
  <2>4. LegacyFollows(c)' /\ DeltaFollows(c)'
    BY <1>2, <1>4, <2>2, <2>3 DEF LegacyFollows, DeltaFollows
  <2>5. Follower(c)'
    BY <1>0, <1>1, <1>2, <2>2, <2>3, <2>4, JournalReader
  <2> QED
    BY <1>3, <2>5, OthersFollow
<1>6. CASE LegacyPage(c) /\ at = TrackCount
  <2>1. PICK after : after = [client EXCEPT !.phase = "delta"]
    OBVIOUS
  <2>2. /\ after.phase = "delta" /\ after.cursor = cursor /\ after.has = client.has
        /\ after.misses = client.misses
    BY <1>1, <1>4, <2>1 DEF Client
  <2>3. clients'[c] = after
    BY <1>1, <1>6, <2>1, TypesOf DEF LegacyPage
  <2>4. client.phase = "legacy" /\ cursor \in 0..head
        /\ (floor <= cursor => \A t \in 1..at : Silent(t, cursor) => Agrees(client, t))
    BY <1>0, <1>1, <1>6 DEF LegacyPage, LegacyFollows
  <2>5. \A t \in Tracks : Agrees(client, t) => Agrees(after, t)
    BY <2>2 DEF Agrees
  <2>6. \A t : LastSays(<<>>, t)
    BY DEF LastSays
  <2>7. Follows(after, <<>>, cursor)
    BY <1>6, <2>4, <2>5, <2>6 DEF Follows, Tracks
  <2>8. Follows(after, <<>>, cursor)'
    BY <1>2, <2>7, FollowsStays
  <2>9. LegacyFollows(c)' /\ DeltaFollows(c)'
    BY <2>2, <2>3, <2>8 DEF LegacyFollows, DeltaFollows
  <2>10. Follower(c)'
    BY <1>0, <1>1, <1>2, <2>2, <2>3, <2>9, JournalReader
  <2> QED
    BY <1>3, <2>10, OthersFollow
<1>7. CASE LegacyPage(c) /\ at # TrackCount
  <2>1. PICK entry, next : entry = Public(at + 1) /\ next = at + 1
    OBVIOUS
  <2>2. PICK after : after = [client EXCEPT !.at = next, !.has[next] = entry]
    OBVIOUS
  <2>3. clients'[c] = after
    BY <1>1, <1>7, <2>1, <2>2, TypesOf DEF LegacyPage
  <2>4. client.phase = "legacy" /\ cursor \in 0..head
        /\ (floor <= cursor => \A t \in 1..at : Silent(t, cursor) => Agrees(client, t))
    BY <1>0, <1>1, <1>7 DEF LegacyPage, LegacyFollows
  <2>5. client.misses = {} /\ next \in Tracks /\ at \in Nat
    BY <1>1, <1>4, <1>7, <2>1, <2>4 DEF Held, Client, Tracks
  <2>6. /\ after.phase = "legacy" /\ after.cursor = cursor /\ after.at = next
        /\ after.misses = {} /\ after.has = [client.has EXCEPT ![next] = entry]
    BY <1>1, <1>4, <2>2, <2>4, <2>5 DEF Client
  <2>7. client.has \in [Tracks -> Copy \cup {None}]
    BY <1>4 DEF Client
  <2>8. after.has[next] = entry /\ \A t \in Tracks \ {next} : after.has[t] = client.has[t]
    BY <2>5, <2>6, <2>7
  <2>9. Agrees(after, next)
    BY <2>1, <2>6, <2>8 DEF Agrees
  <2>10. \A t \in Tracks \ {next} : Agrees(client, t) => Agrees(after, t)
    BY <2>5, <2>6, <2>8 DEF Agrees
  <2>11. \A t \in 1..next : t = next \/ (t \in Tracks \ {next} /\ t \in 1..at)
    BY <2>1, <2>5, <1>4 DEF Tracks
  <2>12. floor <= cursor => \A t \in 1..next : Silent(t, cursor) => Agrees(after, t)
    BY <2>4, <2>9, <2>10, <2>11
  <2>13. (floor <= cursor => \A t \in 1..next : Silent(t, cursor) => Agrees(after, t))'
    BY <1>2, <2>12, AgreesStays
  <2>14. LegacyFollows(c)' /\ DeltaFollows(c)'
    BY <1>2, <2>3, <2>4, <2>6, <2>13 DEF LegacyFollows, DeltaFollows
  <2>15. Follower(c)'
    BY <1>0, <1>1, <1>2, <2>3, <2>6, <2>14, JournalReader
  <2> QED
    BY <1>3, <2>15, OthersFollow
<1> QED
  BY <1>5, <1>6, <1>7

\* A page of the journal: the next event, or a restart below the floor.
LEMMA ChangesPageConverges ==
    ASSUME StreamInv, ConstantsAssumption, TypeInv, ConvergeInv,
           NEW c \in Clients, ChangesPage(c)
    PROVE  ConvergeInv'
<1> USE DEF publicVars, journalVars
<1>0. Follower(c) /\ DeltaFollows(c) /\ ReplayFollows(c)
  BY DEF ConvergeInv, Follower
<1>1. PICK client, cursor : client = clients[c] /\ cursor = client.cursor
  OBVIOUS
<1>2. /\ UNCHANGED <<publicVars, journalVars, sessionVars>> /\ client.phase = "delta"
      /\ \A d \in Clients \ {c} : clients'[d] = clients[d]
      /\ clients' = [d \in Clients |-> clients'[d]]
  BY <1>1, TypesOf DEF ChangesPage, Restart
<1>3. Alone(c) /\ admission' = admission
  BY <1>2 DEF Alone, sessionVars
<1>4. client \in Client /\ Held(client) /\ PublicOK /\ EventsOK
  BY <1>1, TypesOf
<1>5. CASE Restart(c)
  <2>1. replays'[c] = None
    BY <1>0, <1>1, <1>2 DEF ReplayFollows, sessionVars
  <2>2. Follower(c)'
    BY <1>0, <1>2, <1>5, <2>1, RestartFollows DEF sessionVars
  <2> QED
    BY <1>3, <2>2, OthersFollow
<1>6. CASE Readable(cursor) /\ ~Restart(c)
  <2>1. PICK event : event = events[cursor + 1]
    OBVIOUS
  <2>2. PICK edge : edge = IF event.profile = None THEN None
                           ELSE CurrentEdge(event.track, event.profile.media, event.ref)
    OBVIOUS
  <2>3. PICK read : read = Applied(client, event, edge)
    OBVIOUS
  <2>4. PICK after : after = [read EXCEPT !.cursor = @ + 1]
    OBVIOUS
  <2>5. clients'[c] = after
    BY <1>1, <1>6, <2>1, <2>2, <2>3, <2>4, TypesOf DEF ChangesPage
  <2>6. cursor + 1 \in DOMAIN events /\ event \in Event
    BY <1>4, <1>6, <2>1 DEF Readable, EventsOK
  <2>7. edge \in Digests \cup {None}
    BY <1>4, <2>2, <2>6, EdgeTypes DEF Event
  <2>8. Told(read, client, event)
    <3>1. client.phase # "legacy"
      BY <1>2
    <3>2. event.profile # None => edge = CurrentEdge(event.track, event.profile.media, event.ref)
      BY <2>2
    <3> QED
      BY <1>4, <2>3, <2>6, <2>7, <3>1, <3>2, AppliedAgrees
  <2>9. read \in Client
    <3>1. client.phase # "legacy"
      BY <1>2
    <3> QED
      BY <1>4, <2>3, <2>6, <2>7, <3>1, AppliedEntry DEF Becomes
  <2>10. /\ after.phase = "delta" /\ after.cursor = cursor + 1
         /\ after.has = read.has /\ after.misses = read.misses
    BY <1>1, <1>2, <2>4, <2>8, <2>9 DEF Told, Client
  <2>11. <<>> \in Seq(Event) /\ Follows(client, <<>>, cursor)
    BY <1>0, <1>1, <1>2, EmptySeq DEF DeltaFollows
  <2>12. Follows(client, Append(<<>>, event), cursor + 1)
    <3>1. JournalInv /\ JournalSays /\ \A i \in DOMAIN events : events[i] \in Event
      BY <1>4 DEF StreamInv, ConvergeInv, EventsOK
    <3> QED
      BY <2>1, <2>6, <2>11, <3>1, FollowsNext
  <2>13. PICK q : q = Append(<<>>, event)
    OBVIOUS
  <2>14. q \in Seq(Event) /\ q # <<>> /\ Head(q) = event /\ Tail(q) = <<>>
    BY <2>6, <2>13
  <2>15. Follows(read, <<>>, cursor + 1)
    <3>1. Follows(read, Tail(q), cursor + 1)
      BY <2>8, <2>12, <2>13, <2>14, FollowsTail
    <3> QED
      BY <2>14, <3>1
  <2>16. \A t \in Tracks : Agrees(read, t) => Agrees(after, t)
    BY <2>10 DEF Agrees
  <2>17. Follows(after, <<>>, cursor + 1)
    BY <2>15, <2>16, FollowsMore
  <2>18. Follows(after, <<>>, cursor + 1)'
    BY <1>2, <2>17, FollowsStays
  <2>19. LegacyFollows(c)' /\ DeltaFollows(c)'
    BY <2>5, <2>10, <2>18 DEF LegacyFollows, DeltaFollows
  <2>20. Follower(c)'
    BY <1>0, <1>1, <1>2, <2>5, <2>10, <2>19, JournalReader
  <2> QED
    BY <1>3, <2>20, OthersFollow
<1> QED
  BY <1>1, <1>5, <1>6 DEF ChangesPage

\* An edge the client missed, as it is published now.
LEMMA FetchConverges ==
    ASSUME StreamInv, ConstantsAssumption, TypeInv, ConvergeInv,
           NEW c \in Clients, NEW t \in Tracks, Fetch(c, t)
    PROVE  ConvergeInv'
<1> USE DEF publicVars, journalVars
<1>0. Follower(c)
  BY DEF ConvergeInv
<1>1. PICK client : client = clients[c]
  OBVIOUS
<1>2. PICK edge : edge = IF PublicEdge(t) # None
                            /\ profiles[t].media = client.has[t].profile.media
                         THEN PublicEdge(t) ELSE None
  OBVIOUS
<1>3. PICK after : after = [client EXCEPT !.has[t].edge = edge, !.misses = @ \ {t}]
  OBVIOUS
<1>4. /\ UNCHANGED <<publicVars, journalVars, sessionVars>>
      /\ \A d \in Clients \ {c} : clients'[d] = clients[d]
      /\ clients' = [d \in Clients |-> clients'[d]]
      /\ clients'[c] = after /\ t \in client.misses
  BY <1>1, <1>2, <1>3, TypesOf DEF Fetch
<1>5. client \in Client /\ Held(client)
  BY <1>1, TypesOf
<1>6. client.has[t] \in Copy /\ client.has \in [Tracks -> Copy \cup {None}]
  BY <1>4, <1>5 DEF Held, Client
<1>7. /\ after.has = [client.has EXCEPT ![t].edge = edge]
      /\ after.misses = client.misses \ {t}
      /\ after.phase = client.phase /\ after.cursor = client.cursor /\ after.phase # "legacy"
  BY <1>3, <1>4, <1>5 DEF Client, Held
<1>8. /\ after.has[t] = [client.has[t] EXCEPT !.edge = edge]
      /\ \A u \in Tracks \ {t} : after.has[u] = client.has[u]
  BY <1>6, <1>7
<1>9. Agrees(client, t) => Agrees(after, t)
  <2> SUFFICES ASSUME Agrees(client, t)
               PROVE  Agrees(after, t)
    OBVIOUS
  <2>1. client.has[t] = [profile |-> profiles[t], edge |-> None]
    BY <1>4 DEF Agrees
  <2>2. profiles[t] # None
    BY <1>6, <2>1, NoneAssumption DEF Copy
  <2>3. edge = PublicEdge(t)
    BY <1>2, <2>1
  <2>4. after.has[t] = [profile |-> profiles[t], edge |-> PublicEdge(t)]
    BY <1>8, <2>1, <2>3
  <2> QED
    BY <1>7, <2>2, <2>4 DEF Agrees, Public
<1>10. \A u \in Tracks : Agrees(client, u) => Agrees(after, u)
  <2>1. \A u \in Tracks \ {t} : Agrees(client, u) => Agrees(after, u)
    BY <1>7, <1>8 DEF Agrees
  <2> QED
    BY <1>9, <2>1
<1>11. \A q, s : Follows(client, q, s) => Follows(after, q, s)'
  <2> SUFFICES ASSUME NEW q, NEW s, Follows(client, q, s)
               PROVE  Follows(after, q, s)'
    OBVIOUS
  <2>1. Follows(after, q, s)
    BY <1>10, FollowsMore
  <2> QED
    BY <1>4, <2>1, FollowsStays
<1>12. CaptureFollows(c)'
  BY <1>0, <1>4, FollowsStays DEF Follower, CaptureFollows, sessionVars
<1>13. UnreadFollows(c)'
  BY <1>0, <1>4, FollowsStays DEF Follower, UnreadFollows, Ready, sessionVars
<1>14. SnapshotFollows(c)'
  BY <1>0, <1>1, <1>4, <1>7, <1>11 DEF Follower, SnapshotFollows, Ready, sessionVars
<1>15. CatchupFollows(c)'
  BY <1>0, <1>1, <1>4, <1>7, <1>11 DEF Follower, CatchupFollows, Ready, sessionVars
<1>16. ReplayFollows(c)'
  BY <1>0, <1>1, <1>4, <1>7, <1>11 DEF Follower, ReplayFollows, Ready, sessionVars
<1>17. DeltaFollows(c)'
  BY <1>0, <1>1, <1>4, <1>7, <1>11 DEF Follower, DeltaFollows
<1>18. Placed(c)' /\ LegacyFollows(c)'
  BY <1>0, <1>1, <1>4, <1>7 DEF Follower, Placed, LegacyFollows, sessionVars
<1>19. Follower(c)'
  BY <1>12, <1>13, <1>14, <1>15, <1>16, <1>17, <1>18 DEF Follower
<1>20. Alone(c) /\ admission' = admission
  BY <1>4 DEF Alone, sessionVars
<1> QED
  BY <1>19, <1>20, OthersFollow

LEMMA ReadConverges ==
    ASSUME StreamInv, ConstantsAssumption, TypeInv, ConvergeInv, Read
    PROVE  ConvergeInv'
<1>1. ASSUME NEW c \in Clients, PageRefused(c)
      PROVE  ConvergeInv'
  <2>1. /\ UNCHANGED <<publicVars, journalVars, sessionVars>> /\ Restart(c)
        /\ replays[c] = None
    BY <1>1 DEF PageRefused
  <2>2. Follower(c)'
    BY <2>1, RestartFollows DEF ConvergeInv, sessionVars
  <2>3. Alone(c)
    BY <2>1, TypesOf DEF Restart, Alone, sessionVars
  <2> QED
    BY <2>1, <2>2, <2>3, OthersFollow DEF sessionVars
<1> QED
  BY <1>1, SnapshotPageConverges, ReplayConverges, CatchupPageConverges, LegacyConverges,
     ChangesPageConverges, FetchConverges DEF Read

-----------------------------------------------------------------------------
(* Whoever has read everything has what is published.                       *)

LEMMA InitConverges ==
    ASSUME Init
    PROVE  ConvergeInv
<1>1. JournalSays
  BY DEF Init, JournalSays
<1>2. ASSUME NEW c \in Clients
      PROVE  Follower(c)
  <2>1. /\ sessions[c] = NoSession /\ captures[c] = None /\ replays[c] = None
        /\ clients[c].phase = "idle"
    BY DEF Init
  <2>2. UnreadFollows(c)
    BY <2>1 DEF UnreadFollows, Ready, NoSession
  <2> QED
    BY <2>1, <2>2, IdleFollows
<1> QED
  BY <1>1, <1>2 DEF ConvergeInv

LEMMA ConvergeStep ==
    StreamInv /\ StreamInv' /\ TypeInv /\ ConvergeInv /\ [Next]_vars => ConvergeInv'
<1>1. StreamInv /\ StreamInv' /\ TypeInv /\ ConvergeInv /\ Next => ConvergeInv'
  BY ConstantsAssumption, PublishConverges, CreateConverges, ReadConverges DEF Next
<1>2. ASSUME ConvergeInv, UNCHANGED vars
      PROVE  ConvergeInv'
  <2>1. UNCHANGED <<publicVars, journalVars, sessionVars, clients>>
    BY <1>2 DEF vars, publicVars, journalVars, sessionVars
  <2>2. JournalSays'
    BY <1>2, <2>1, SaysStays DEF ConvergeInv
  <2>3. ASSUME NEW c \in Clients
        PROVE  Follower(c)'
    <3>1. Placed(c)'
      BY <1>2, <2>1 DEF ConvergeInv, Follower, Placed, sessionVars
    <3> QED
      BY <1>2, <2>1, <3>1, SessionFollows DEF ConvergeInv, sessionVars
  <2> QED
    BY <2>2, <2>3 DEF ConvergeInv
<1> QED
  BY <1>1, <1>2

\* Who has read up to the head is right about every track.
LEMMA AtTheHead ==
    ASSUME StreamInv, ConvergeInv
    PROVE  ReadersConverge
<1> SUFFICES ASSUME NEW c \in Clients, clients[c].phase = "delta", clients[c].cursor = head,
                    NEW t \in Tracks
             PROVE  Agrees(clients[c], t)
  BY DEF ReadersConverge, Agrees
<1>1. head \in Nat /\ floor <= head
  BY DEF StreamInv, JournalInv
<1>2. Silent(t, head)
  BY <1>1 DEF Silent
<1>3. Follows(clients[c], <<>>, head)
  BY DEF ConvergeInv, Follower, DeltaFollows
<1>4. ~Mentions(<<>>, t)
  BY DEF Mentions
<1> QED
  BY <1>1, <1>2, <1>3, <1>4 DEF Follows

\* A client that has read a snapshot and its catch-up, or the legacy bootstrap, and
\* the journal to its head has what is published, edges included, but for the edges
\* it is to fetch: for every library, retention, set of clients, and order in which
\* publications, compactions, expiries and pages come (snapshot_page, catchup_page,
\* profile_bootstrap_page, read_change_page, record_profile_change).
THEOREM ReadersHaveWhatIsPublished == Spec => []ReadersConverge
<1>1. Init => TypeInv /\ ConvergeInv
  BY ConstantsAssumption, InitHasTypes, InitConverges
<1>2. StreamInv /\ StreamInv' /\ TypeInv /\ ConvergeInv /\ [Next]_vars => TypeInv' /\ ConvergeInv'
  BY TypesStep, ConvergeStep
<1>3. StreamInv /\ ConvergeInv => ReadersConverge
  BY AtTheHead
<1> QED
  BY <1>1, <1>2, <1>3, StreamInvariant, PTL DEF Spec
=============================================================================
