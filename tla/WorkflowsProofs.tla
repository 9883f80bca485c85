---------------------------- MODULE WorkflowsProofs ----------------------------
(* The workflow rows of a source, the child of an action and the identities   *)
(* of a provider, for any number of tracks, runs, leaders, failures, songs     *)
(* and files: a backfill that says complete is done with what it was woken     *)
(* for, a complete run is projected, no action is at work twice, and a song    *)
(* keeps its profile whatever becomes of its id.                               *)
EXTENDS MCWorkflows, FiniteSetTheorems, TLAPS

-----------------------------------------------------------------------------
(* The child of an action.                                                    *)

LeaderPlaces == {"later", "idle", "sending", "starting", "waiting", "reaping", "acting", "dead"}
ChildPlaces == {"none", "born", "asked", "bound", "ready", "working", "gone"}

LeaderRecord == [at : LeaderPlaces, runs : Nat, next : {"none", "idle", "acting"}]
ChildRecord == [at : ChildPlaces, said : {"nothing", "ready", "unavailable", "result", "raised"}]

ChildTypeOK ==
    /\ light \in [Child!Leaders -> LeaderRecord]
    /\ heavy \in [Child!Leaders -> ChildRecord]

\* The role is led by one process after another.
OneLeads == \A m, n \in Child!Leaders : m < n /\ light[n].at # "later" => light[m].at = "dead"

\* A child that is bound to its leader works only while the leader waits for it.
Minded(l, c) ==
    /\ c.at \in {"bound", "ready", "working"} => l.at \in {"starting", "waiting", "reaping"}
    /\ l.at \in {"later", "idle", "acting"} => c.at \in {"none", "gone"}
    /\ l.at = "sending" => c.at \in {"born", "gone"}
    /\ l.at = "reaping" => l.next \in {"idle", "acting"}
ChildIsMinded == \A n \in Child!Leaders : Minded(light[n], heavy[n])

ChildInv == ChildTypeOK /\ OneLeads /\ ChildIsMinded

LEMMA ChildInit == ASSUME Child!Init PROVE ChildInv
  BY DEF Child!Init, Child!NoChild, Child!Leaders, ChildInv, ChildTypeOK, OneLeads, ChildIsMinded,
         Minded, LeaderPlaces, ChildPlaces, LeaderRecord, ChildRecord

\* A leader and its child become l and c, the others are left alone.
LEMMA OneLeaderSteps ==
  ASSUME ChildInv, NEW n \in Child!Leaders, NEW l \in LeaderRecord, NEW c \in ChildRecord,
         light' = [light EXCEPT ![n] = l], heavy' = [heavy EXCEPT ![n] = c], Minded(l, c),
         l.at = "later" => light[n].at = "later", light[n].at = "dead" => l.at = "dead",
         light[n].at = "later" /\ l.at # "later" =>
           \A m \in Child!Leaders : m < n => light[m].at = "dead"
  PROVE  ChildInv'
<1> USE DEF ChildInv
<1>1. ChildTypeOK'
  BY DEF ChildTypeOK
<1>2. OneLeads'
  BY DEF OneLeads, ChildTypeOK, Child!Leaders
<1>3. ChildIsMinded'
  BY DEF ChildIsMinded, ChildTypeOK
<1> QED
  BY <1>1, <1>2, <1>3

\* The thread of n and its child after a step.
Thread(n, place, count, next) ==
    light' = [light EXCEPT ![n] = [at |-> place, runs |-> count, next |-> next]]
Process(n, place, said) == heavy' = [heavy EXCEPT ![n] = [at |-> place, said |-> said]]

LEMMA Threads ==
  ASSUME ChildTypeOK, NEW n \in Child!Leaders, NEW place, NEW next
  PROVE  /\ light' = [light EXCEPT ![n].at = place] =>
              Thread(n, place, light[n].runs, light[n].next)
         /\ light' = [light EXCEPT ![n].at = place, ![n].runs = @ + 1] =>
              Thread(n, place, light[n].runs + 1, light[n].next)
         /\ light' = [light EXCEPT ![n].at = place, ![n].next = next] =>
              Thread(n, place, light[n].runs, next)
<1>1. light \in [Child!Leaders -> LeaderRecord]
  BY DEF ChildTypeOK
<1>2. PICK r \in LeaderRecord : r = light[n]
  BY <1>1
<1>3. PICK q : q = [at |-> place, runs |-> r.runs, next |-> r.next]
  OBVIOUS
<1>4. [r EXCEPT !.at = place] = q
  BY <1>3 DEF LeaderRecord
<1>5. ASSUME light' = [light EXCEPT ![n].at = place]
      PROVE  Thread(n, place, light[n].runs, light[n].next)
  <2>1. [light EXCEPT ![n].at = place] = [light EXCEPT ![n] = [light[n] EXCEPT !.at = place]]
    OBVIOUS
  <2> QED
    BY <1>2, <1>3, <1>4, <1>5, <2>1 DEF Thread
<1>6. ASSUME light' = [light EXCEPT ![n].at = place, ![n].runs = @ + 1]
      PROVE  Thread(n, place, light[n].runs + 1, light[n].next)
  <2>1. [light EXCEPT ![n].at = place, ![n].runs = @ + 1] =
          [light EXCEPT ![n] = [light[n] EXCEPT !.at = place, !.runs = light[n].runs + 1]]
    OBVIOUS
  <2>2. [r EXCEPT !.at = place, !.runs = r.runs + 1] =
          [[r EXCEPT !.at = place] EXCEPT !.runs = r.runs + 1]
    OBVIOUS
  <2>3. [q EXCEPT !.runs = r.runs + 1] = [at |-> place, runs |-> r.runs + 1, next |-> r.next]
    BY <1>3
  <2> QED
    BY <1>2, <1>4, <1>6, <2>1, <2>2, <2>3 DEF Thread
<1>7. ASSUME light' = [light EXCEPT ![n].at = place, ![n].next = next]
      PROVE  Thread(n, place, light[n].runs, next)
  <2>1. [light EXCEPT ![n].at = place, ![n].next = next] =
          [light EXCEPT ![n] = [light[n] EXCEPT !.at = place, !.next = next]]
    OBVIOUS
  <2>2. [r EXCEPT !.at = place, !.next = next] = [[r EXCEPT !.at = place] EXCEPT !.next = next]
    OBVIOUS
  <2>3. [q EXCEPT !.next = next] = [at |-> place, runs |-> r.runs, next |-> next]
    BY <1>3
  <2> QED
    BY <1>2, <1>4, <1>7, <2>1, <2>2, <2>3 DEF Thread
<1> QED
  BY <1>5, <1>6, <1>7

LEMMA Processes ==
  ASSUME ChildTypeOK, NEW n \in Child!Leaders, NEW place
  PROVE  /\ heavy' = [heavy EXCEPT ![n].at = place] => Process(n, place, heavy[n].said)
         /\ heavy' = heavy => Process(n, heavy[n].at, heavy[n].said)
<1>1. heavy \in [Child!Leaders -> ChildRecord]
  BY DEF ChildTypeOK
<1>2. PICK r \in ChildRecord : r = heavy[n]
  BY <1>1
<1>3. [r EXCEPT !.at = place] = [at |-> place, said |-> r.said]
  BY DEF ChildRecord
<1>4. ASSUME heavy' = [heavy EXCEPT ![n].at = place]
      PROVE  Process(n, place, heavy[n].said)
  <2>1. [heavy EXCEPT ![n].at = place] = [heavy EXCEPT ![n] = [heavy[n] EXCEPT !.at = place]]
    OBVIOUS
  <2> QED
    BY <1>2, <1>3, <1>4, <2>1 DEF Process
<1>5. heavy[n] = [at |-> heavy[n].at, said |-> heavy[n].said]
  BY <1>1 DEF ChildRecord
<1>6. heavy' = heavy => Process(n, heavy[n].at, heavy[n].said)
  BY <1>1, <1>5 DEF Process
<1> QED
  BY <1>4, <1>6

Said == {"nothing", "ready", "unavailable", "result", "raised"}

\* A leader's thread and its child go on, the others are left alone.
LEMMA Steps ==
  ASSUME ChildInv, NEW n \in Child!Leaders, NEW place \in LeaderPlaces, NEW count \in Nat,
         NEW next \in {"none", "idle", "acting"}, NEW at \in ChildPlaces, NEW said \in Said,
         Thread(n, place, count, next), Process(n, at, said),
         at \in {"bound", "ready", "working"} => place \in {"starting", "waiting", "reaping"},
         place \in {"later", "idle", "acting"} => at \in {"none", "gone"},
         place = "sending" => at \in {"born", "gone"},
         place = "reaping" => next \in {"idle", "acting"},
         place = "later" => light[n].at = "later", light[n].at = "dead" => place = "dead",
         light[n].at = "later" /\ place # "later" =>
           \A m \in Child!Leaders : m < n => light[m].at = "dead"
  PROVE  ChildInv'
<1> DEFINE l == [at |-> place, runs |-> count, next |-> next]
           c == [at |-> at, said |-> said]
<1>1. l \in LeaderRecord /\ l.at = place /\ c \in ChildRecord /\ Minded(l, c)
  BY DEF LeaderRecord, ChildRecord, Minded, Said
<1>2. light' = [light EXCEPT ![n] = l] /\ heavy' = [heavy EXCEPT ![n] = c]
  BY DEF Thread, Process
<1> HIDE DEF l, c
<1> QED
  BY <1>1, <1>2, OneLeaderSteps

\* What is known of one leader before a step.
PartsOf(n) ==
    /\ light[n].at \in LeaderPlaces /\ light[n].runs \in Nat /\ light[n].runs + 1 \in Nat
    /\ light[n].next \in {"none", "idle", "acting"}
    /\ heavy[n].at \in ChildPlaces /\ heavy[n].said \in Said
    /\ heavy[n].at \in {"bound", "ready", "working"} =>
         light[n].at \in {"starting", "waiting", "reaping"}
    /\ light[n].at \in {"later", "idle", "acting"} => heavy[n].at \in {"none", "gone"}
    /\ light[n].at = "sending" => heavy[n].at \in {"born", "gone"}
    /\ light[n].at = "reaping" => light[n].next \in {"idle", "acting"}

LEMMA Parts ==
  ASSUME ChildInv, NEW n \in Child!Leaders
  PROVE  ChildTypeOK /\ PartsOf(n)
<1>1. light[n] \in LeaderRecord /\ heavy[n] \in ChildRecord /\ Minded(light[n], heavy[n])
  BY DEF ChildInv, ChildTypeOK, ChildIsMinded
<1> QED
  BY <1>1 DEF ChildInv, PartsOf, LeaderRecord, ChildRecord, Minded, Said

LEMMA LeaderSteps ==
  ASSUME ChildInv, NEW n \in Child!Leaders, Child!LeaderStep(n)
  PROVE  ChildInv'
<1>0. ChildTypeOK /\ PartsOf(n)
  BY Parts
<1> USE <1>0 DEF PartsOf
<1>1. UNCHANGED heavy => Process(n, heavy[n].at, heavy[n].said)
  BY Processes
<1>2. ASSUME NEW next \in {"idle", "acting"}, Child!Leaves(n, next), UNCHANGED heavy,
             light[n].at \notin {"later", "dead"}
      PROVE  ChildInv'
  <2>1. Thread(n, "reaping", light[n].runs, next)
    BY <1>2, Threads DEF Child!Leaves
  <2> QED
    BY <1>1, <1>2, <2>1, Steps, SMTT(30) DEF LeaderPlaces
<1>3. CASE Child!Start(n)
  <2>1. light[n].at = "idle"
    BY <1>3 DEF Child!Start, Child!At
  <2>2. CASE /\ light' = [light EXCEPT ![n].at = "sending", ![n].runs = @ + 1]
             /\ heavy' = [heavy EXCEPT ![n] = [Child!NoChild EXCEPT !.at = "born"]]
    <3>1. Thread(n, "sending", light[n].runs + 1, light[n].next)
      BY <2>2, Threads
    <3>2. [Child!NoChild EXCEPT !.at = "born"] = [at |-> "born", said |-> "nothing"]
      BY DEF Child!NoChild
    <3>3. Process(n, "born", "nothing")
      BY <2>2, <3>2 DEF Process
    <3>4. /\ light[n].runs + 1 \in Nat /\ light[n].next \in {"none", "idle", "acting"}
          /\ "sending" \in LeaderPlaces /\ "born" \in ChildPlaces /\ "nothing" \in Said
      BY DEF LeaderPlaces, ChildPlaces, Said
    <3> QED
      BY <2>1, <3>1, <3>3, <3>4, Steps, SMTT(30)
  <2>3. CASE light' = [light EXCEPT ![n].at = "acting", ![n].runs = @ + 1] /\ UNCHANGED heavy
    <3>1. Thread(n, "acting", light[n].runs + 1, light[n].next)
      BY <2>3, Threads
    <3> QED
      BY <1>1, <2>1, <2>3, <3>1, Steps, SMTT(30) DEF LeaderPlaces
  <2> QED
    BY <1>3, <2>2, <2>3 DEF Child!Start
<1>4. CASE Child!Send(n)
  <2>1. light[n].at = "sending"
    BY <1>4 DEF Child!Send, Child!At
  <2>2. CASE /\ light' = [light EXCEPT ![n].at = "starting"]
             /\ heavy' = [heavy EXCEPT ![n].at = "asked"]
    <3>1. Thread(n, "starting", light[n].runs, light[n].next)
      BY <2>2, Threads
    <3>2. Process(n, "asked", heavy[n].said)
      BY <2>2, Processes
    <3> QED
      BY <2>1, <3>1, <3>2, Steps, SMTT(30) DEF LeaderPlaces, ChildPlaces
  <2> QED
    BY <1>2, <1>4, <2>1, <2>2 DEF Child!Send
<1>5. CASE Child!HearReady(n)
  <2>1. light[n].at = "starting" /\ UNCHANGED heavy
    BY <1>5 DEF Child!HearReady, Child!At
  <2>2. CASE light' = [light EXCEPT ![n].at = "waiting"]
    <3>1. Thread(n, "waiting", light[n].runs, light[n].next)
      BY <2>2, Threads
    <3> QED
      BY <1>1, <2>1, <3>1, Steps, SMTT(30) DEF LeaderPlaces
  <2> QED
    BY <1>2, <1>5, <2>1, <2>2 DEF Child!HearReady
<1>6. CASE \/ Child!NotReadyInTime(n) \/ Child!GoneStarting(n) \/ Child!GoneWorking(n)
           \/ Child!HearAnswer(n) \/ Child!HardLimit(n)
  <2>1. /\ light[n].at \in {"starting", "waiting"} /\ UNCHANGED heavy
        /\ Child!Leaves(n, "idle") \/ Child!Leaves(n, "acting")
    BY <1>6 DEF Child!NotReadyInTime, Child!GoneStarting, Child!GoneWorking,
                Child!HearAnswer, Child!HardLimit, Child!Overdue, Child!At
  <2> QED
    BY <1>2, <2>1
<1>7. CASE Child!Reap(n)
  <2>1. /\ light[n].at = "reaping"
        /\ light' = [light EXCEPT ![n].at = light[n].next, ![n].next = "none"]
        /\ heavy' = [heavy EXCEPT ![n] = Child!Reaped]
    BY <1>7 DEF Child!Reap, Child!At
  <2>2. Thread(n, light[n].next, light[n].runs, "none")
    BY <2>1, Threads
  <2>3. Child!Reaped = [at |-> "none", said |-> "nothing"]
    BY DEF Child!Reaped, Child!NoChild
  <2>4. Process(n, "none", "nothing")
    BY <2>1, <2>3 DEF Process
  <2>5. PICK place \in {"idle", "acting"} : place = light[n].next
    BY <2>1
  <2>6. /\ place \in LeaderPlaces /\ "none" \in ChildPlaces /\ "nothing" \in Said
        /\ Thread(n, place, light[n].runs, "none")
    BY <2>2, <2>5 DEF LeaderPlaces, ChildPlaces, Said
  <2>7. light[n].runs \in Nat /\ light[n].at = "reaping"
    BY <2>1
  <2> QED
    BY <2>4, <2>5, <2>6, <2>7, Steps, SMTT(30)
<1>8. CASE Child!ActsItself(n)
  <2>1. light[n].at = "acting" /\ UNCHANGED heavy /\ light' = [light EXCEPT ![n].at = "idle"]
    BY <1>8 DEF Child!ActsItself, Child!At
  <2>2. Thread(n, "idle", light[n].runs, light[n].next)
    BY <2>1, Threads
  <2> QED
    BY <1>1, <2>1, <2>2, Steps, SMTT(30) DEF LeaderPlaces
<1> QED
  BY <1>3, <1>4, <1>5, <1>6, <1>7, <1>8 DEF Child!LeaderStep

LEMMA ChildSteps ==
  ASSUME ChildInv, NEW n \in Child!Leaders,
         Child!Lead(n) \/ Child!LeaderDies(n) \/ Child!ChildStep(n) \/ Child!Lost(n)
  PROVE  ChildInv'
<1>0. ChildTypeOK /\ PartsOf(n)
  BY Parts
<1> USE <1>0 DEF PartsOf
<1>1. ASSUME NEW at \in ChildPlaces, NEW said \in Said, Process(n, at, said), UNCHANGED light,
             at \in {"bound", "ready", "working"} =>
               light[n].at \in {"starting", "waiting", "reaping"},
             light[n].at \in {"later", "idle", "acting"} => at \in {"none", "gone"},
             light[n].at = "sending" => at \in {"born", "gone"}
      PROVE  ChildInv'
  <2>1. light' = [light EXCEPT ![n].at = light[n].at]
    BY <1>1 DEF ChildTypeOK, LeaderRecord
  <2>2. Thread(n, light[n].at, light[n].runs, light[n].next)
    BY <2>1, Threads
  <2> QED
    BY <1>1, <2>2, Steps, SMTT(30)
<1>2. CASE Child!Lead(n)
  <2>1. /\ light[n].at = "later" /\ UNCHANGED heavy /\ n > 1 /\ light[n - 1].at = "dead"
        /\ light' = [light EXCEPT ![n].at = "idle"]
    BY <1>2 DEF Child!Lead, Child!At
  <2>2. n \in Nat /\ n - 1 \in Child!Leaders
    BY <2>1, BoundsHold DEF Child!Leaders, Child!ChildAssumption
  <2>3. \A m \in Child!Leaders : m < n => light[m].at = "dead"
    BY <2>1, <2>2 DEF ChildInv, OneLeads, Child!Leaders
  <2>4. Thread(n, "idle", light[n].runs, light[n].next) /\ Process(n, heavy[n].at, heavy[n].said)
    BY <2>1, Threads, Processes
  <2> QED
    BY <2>1, <2>3, <2>4, Steps, SMTT(30) DEF LeaderPlaces
<1>3. CASE Child!LeaderDies(n)
  <2>1. /\ light[n].at \notin {"later", "dead"}
        /\ light' = [light EXCEPT ![n].at = "dead", ![n].next = "none"]
        /\ heavy' = IF Child!Bound(n) THEN [heavy EXCEPT ![n].at = "gone"] ELSE heavy
    BY <1>3 DEF Child!LeaderDies, Child!Alive
  <2>2. Thread(n, "dead", light[n].runs, "none")
    BY <2>1, Threads
  <2>3. CASE Child!Bound(n)
    <3>1. Process(n, "gone", heavy[n].said)
      BY <2>1, <2>3, Processes
    <3> QED
      BY <2>1, <2>2, <3>1, Steps, SMTT(30) DEF LeaderPlaces, ChildPlaces
  <2>4. CASE ~Child!Bound(n)
    <3>1. Process(n, heavy[n].at, heavy[n].said)
      BY <2>1, <2>4, Processes
    <3> QED
      BY <2>1, <2>2, <2>4, <3>1, Steps, SMTT(30) DEF LeaderPlaces, Child!Bound
  <2> QED
    BY <2>3, <2>4
<1>4. ASSUME NEW place \in ChildPlaces, Child!ChildGoes(n, place)
      PROVE  UNCHANGED light /\ Process(n, place, heavy[n].said)
  BY <1>4, Processes DEF Child!ChildGoes
<1>5. ASSUME NEW place, NEW what, Child!ChildSays(n, place, what)
      PROVE  UNCHANGED light /\ Process(n, place, what)
  BY <1>5 DEF Child!ChildSays, Process
<1>6. CASE Child!NothingAsked(n) \/ Child!Bind(n)
  <2>1. \/ Child!ChildGoes(n, "gone")
        \/ /\ Child!ChildGoes(n, "bound") /\ heavy[n].at = "asked"
           /\ light[n].at \notin {"later", "dead"}
    BY <1>6 DEF Child!NothingAsked, Child!Bind, Child!Orphan, Child!Alive
  <2>2. CASE Child!ChildGoes(n, "gone")
    BY <1>1, <1>4, <2>2 DEF ChildPlaces
  <2>3. CASE Child!ChildGoes(n, "bound") /\ heavy[n].at = "asked"
               /\ light[n].at \notin {"later", "dead"}
    BY <1>1, <1>4, <2>3 DEF ChildPlaces, LeaderPlaces
  <2> QED
    BY <2>1, <2>2, <2>3
<1>7. CASE Child!Load(n)
  <2>1. heavy[n].at = "bound" /\ (Child!ChildSays(n, "ready", "ready") \/ Child!ChildSays(n, "gone", "unavailable"))
    BY <1>7 DEF Child!Load
  <2> QED
    BY <1>1, <1>5, <2>1 DEF ChildPlaces, Said
<1>8. CASE Child!Work(n)
  <2>1. heavy[n].at = "ready" /\ Child!ChildGoes(n, "working")
    BY <1>8 DEF Child!Work
  <2> QED
    BY <1>1, <1>4, <2>1 DEF ChildPlaces
<1>9. CASE Child!Answer(n)
  <2>1. PICK what \in {"result", "raised"} : Child!ChildSays(n, "gone", what)
    BY <1>9 DEF Child!Answer
  <2> QED
    BY <1>1, <1>5, <2>1 DEF ChildPlaces, Said
<1>10. CASE Child!Lost(n)
  <2>1. UNCHANGED light /\ Process(n, "gone", heavy[n].said)
    BY <1>10, Processes DEF Child!Lost
  <2> QED
    BY <1>1, <2>1 DEF ChildPlaces
<1> QED
  BY <1>2, <1>3, <1>6, <1>7, <1>8, <1>9, <1>10 DEF Child!ChildStep

\* Nobody is at work beside the one that leads.
LEMMA OneWorks ==
  ASSUME ChildInv PROVE Child!AloneAtWork
<1> DEFINE W == Child!Working
<1>1. \A m, n \in Child!Leaders :
        light[m].at \notin {"later", "dead"} /\ light[n].at \notin {"later", "dead"} => m = n
  BY DEF ChildInv, OneLeads, Child!Leaders
<1>2. \A v, w \in W : v = w
  <2> SUFFICES ASSUME NEW v \in W, NEW w \in W PROVE v = w
    OBVIOUS
  <2>1. \A x \in W : \E n \in Child!Leaders :
           /\ light[n].at \notin {"later", "dead"}
           /\ \/ x = <<"thread", n>> /\ light[n].at = "acting"
              \/ x = <<"child", n>> /\ heavy[n].at = "working"
    BY DEF Child!Working, Child!At, ChildInv, ChildIsMinded, Minded
  <2>2. \A n \in Child!Leaders : ~(light[n].at = "acting" /\ heavy[n].at = "working")
    BY DEF ChildInv, ChildIsMinded, Minded
  <2> HIDE DEF W
  <2>3. PICK m \in Child!Leaders :
           /\ light[m].at \notin {"later", "dead"}
           /\ \/ v = <<"thread", m>> /\ light[m].at = "acting"
              \/ v = <<"child", m>> /\ heavy[m].at = "working"
    BY <2>1
  <2>4. PICK n \in Child!Leaders :
           /\ light[n].at \notin {"later", "dead"}
           /\ \/ w = <<"thread", n>> /\ light[n].at = "acting"
              \/ w = <<"child", n>> /\ heavy[n].at = "working"
    BY <2>1
  <2> QED
    BY <1>1, <2>2, <2>3, <2>4
<1>3. CASE W = {}
  BY <1>3, FS_EmptySet DEF Child!AloneAtWork, Child!Cardinality, Cardinality
<1>4. CASE W # {}
  <2> HIDE DEF W
  <2>1. PICK w \in W : TRUE
    BY <1>4
  <2>2. W = {w}
    BY <1>2, <2>1
  <2>3. Cardinality(W) = 1
    BY <2>2, FS_Singleton
  <2> QED
    BY <2>3 DEF Child!AloneAtWork, W, Child!Cardinality, Cardinality
<1> QED
  BY <1>3, <1>4

-----------------------------------------------------------------------------
(* The workflow rows.                                                         *)

Awake == {"due", "pending", "expired", "later", "done"}
BackfillRow ==
    [status : {"none", "queued", "running", "failed", "complete"}, retry : BOOLEAN,
     stale : BOOLEAN, wake : BOOLEAN]

\* The tracks: what is published is in the library and has profile work, what the
\* backfill was woken for is published, the track of a batch is claimed.
TracksInv ==
    /\ published \subseteq library /\ library \subseteq Tracks
    /\ profile \in [Tracks -> Awake \cup {"absent"}]
    /\ \A t \in library : profile[t] # "absent"
    /\ woken \subseteq published
    /\ \A t \in Tracks : Held(t) => t \in library /\ profile[t] = "pending"

\* The backfill: a lane that works on the row holds it, running and fresh.  Once
\* the lane has found nothing more to do, what the backfill was woken for is done
\* unless a wake came meanwhile, which the row then keeps.
BackfillInv ==
    /\ backfill \in BackfillRow
    /\ ~At(heavy, "idle") => backfill.status = "running" /\ ~backfill.stale
    /\ At(heavy, "finish") /\ ~heavy.retry /\ ~backfill.wake =>
         \A t \in woken : profile[t] = "done"
    /\ WokenIsDone

WorkInv == TracksInv /\ BackfillInv

LEMMA WorkInit == ASSUME Init PROVE WorkInv
  BY DEF Init, WorkInv, TracksInv, BackfillInv, Backfill, BackfillRow, Idle, At, Held, WokenIsDone

\* What touches neither the tracks nor the backfill.
LEMMA WorkUnchanged ==
  ASSUME WorkInv, UNCHANGED <<library, published, profile, woken, backfill, heavy>>
  PROVE  WorkInv'
  BY DEF WorkInv, TracksInv, BackfillInv, At, Held, WokenIsDone

\* A row of the backfill, and one with some of its fields set.
LEMMA Rows ==
  ASSUME NEW status \in {"none", "queued", "running", "failed", "complete"},
         NEW wake \in BOOLEAN, NEW retry \in BOOLEAN
  PROVE  /\ Backfill(status, wake, retry) \in BackfillRow
         /\ Backfill(status, wake, retry).status = status
         /\ Backfill(status, wake, retry).stale = FALSE
         /\ Backfill(status, wake, retry).wake = wake
  BY DEF Backfill, BackfillRow

\* What is due is published, and not done.
LEMMA DueIsPublished ==
  ASSUME TracksInv
  PROVE  /\ DueTracks \subseteq published
         /\ DueTracks = {} /\ ~RetryKept => \A t \in woken : profile[t] = "done"
  BY DEF TracksInv, DueTracks, RetryKept, Awake

\* An admission leaves a row that waits, and one that is refused leaves the row.
LEMMA Started ==
  ASSUME WorkInv, StartBackfill, UNCHANGED <<library, published, profile, heavy>>
  PROVE  WorkInv'
<1>1. CASE Admittable(backfill)
  <2>1. At(heavy, "idle")
    BY <1>1 DEF WorkInv, BackfillInv, Admittable
  <2>2. /\ backfill' = Backfill("queued", backfill.wake, FALSE)
        /\ woken' = woken \cup DueTracks
    BY <1>1 DEF StartBackfill
  <2>3. backfill.wake \in BOOLEAN
    BY DEF WorkInv, BackfillInv, BackfillRow
  <2>4. backfill' \in BackfillRow /\ backfill'.status = "queued"
    BY <2>2, <2>3, Rows
  <2>5. TracksInv'
    BY <2>2, DueIsPublished DEF WorkInv, TracksInv, Held
  <2>6. BackfillInv'
    BY <2>1, <2>4 DEF BackfillInv, At, WokenIsDone
  <2> QED
    BY <2>5, <2>6 DEF WorkInv
<1>2. CASE ~Admittable(backfill)
  BY <1>2, WorkUnchanged DEF StartBackfill
<1> QED
  BY <1>1, <1>2

\* A wake is kept by the row, or admits it.
LEMMA Woken ==
  ASSUME WorkInv, NEW changed, WakeBackfill(changed),
         UNCHANGED <<library, published, profile, heavy>>
  PROVE  WorkInv'
<1>1. CASE backfill.status \in {"queued", "running"}
  <2>1. /\ backfill' = [backfill EXCEPT !.wake = @ \/ changed, !.stale = FALSE,
                                        !.retry = @ /\ ~(changed /\ backfill.status = "queued")]
        /\ woken' = IF changed THEN woken \union DueTracks ELSE woken
    BY <1>1 DEF WakeBackfill, KeepWake
  <2>2. PICK row \in BackfillRow : row = backfill
    BY DEF WorkInv, BackfillInv
  <2>3. /\ backfill' \in BackfillRow /\ backfill'.status = row.status
        /\ backfill'.stale = FALSE /\ backfill'.wake = (row.wake \/ changed)
    BY <2>1, <2>2 DEF BackfillRow
  <2>4. TracksInv'
    BY <2>1, DueIsPublished DEF WorkInv, TracksInv, Held
  <2>5. BackfillInv'
    BY <1>1, <2>1, <2>2, <2>3 DEF WorkInv, BackfillInv, At, WokenIsDone
  <2> QED
    BY <2>4, <2>5 DEF WorkInv
<1>2. CASE backfill.status \notin {"queued", "running"}
  BY <1>2, Started DEF WakeBackfill
<1> QED
  BY <1>1, <1>2

\* The light lane and the world.
LEMMA LightWork ==
  ASSUME WorkInv,
         \/ \E t \in Tracks : GainTrack(t)
         \/ \E r \in Runs : ParentMoves(r) \/ \E t \in Tracks : RecordSong(r, t)
         \/ AskPreparation \/ LightStep \/ LightFails
  PROVE  WorkInv'
<1> USE DEF rows, world, catalogue, history, budget
<1>1. ASSUME NEW t \in Tracks, GainTrack(t) PROVE WorkInv'
  <2>1. /\ t \notin library /\ library' = library \cup {t}
        /\ profile' = [profile EXCEPT ![t] = "due"]
        /\ UNCHANGED <<published, woken, backfill, heavy>>
    BY <1>1 DEF GainTrack
  <2>2. t \notin published /\ t \notin woken
    BY <2>1 DEF WorkInv, TracksInv
  <2>3. TracksInv'
    BY <2>1, <2>2 DEF WorkInv, TracksInv, Awake, Held
  <2> QED
    BY <2>1, <2>2, <2>3 DEF WorkInv, TracksInv, BackfillInv, At, WokenIsDone
<1>2. CASE \/ \E r \in Runs : ParentMoves(r) \/ \E t \in Tracks : RecordSong(r, t)
           \/ AskPreparation \/ LightFails \/ LightTakes \/ Projects \/ PreparationReady
           \/ RunCompletes
  BY <1>2, WorkUnchanged DEF ParentMoves, RecordSong, AskPreparation, LightFails, LightTakes,
                             Projects, PreparationReady, RunCompletes
<1>3. CASE RefreshPublishes
  BY <1>3 DEF RefreshPublishes, WorkInv, TracksInv, BackfillInv, At, Held, WokenIsDone
<1>4. CASE RefreshWakes
  <2>1. UNCHANGED <<library, published, profile, heavy>>
    BY <1>4 DEF RefreshWakes
  <2>2. CASE WakeBackfill(light.changed)
    BY <2>1, <2>2, Woken
  <2>3. CASE UNCHANGED <<backfill, woken>>
    BY <2>1, <2>3, WorkUnchanged
  <2> QED
    BY <1>4, <2>2, <2>3 DEF RefreshWakes
<1>5. CASE AdmitsBackfill
  BY <1>5, Started DEF AdmitsBackfill
<1> QED
  BY <1>1, <1>2, <1>3, <1>4, <1>5 DEF LightStep

\* The heavy lane.
LEMMA HeavyWork ==
  ASSUME WorkInv, HeavyStep \/ HeavyFails
  PROVE  WorkInv'
<1> USE DEF rows, world, catalogue, history, budget
<1>1. backfill.wake \in BOOLEAN /\ backfill \in BackfillRow
  BY DEF WorkInv, BackfillInv, BackfillRow
<1>2. CASE HeavyTakes
  <2>1. /\ backfill' = Backfill("running", backfill.wake, FALSE) /\ heavy' = [pc |-> "select"]
        /\ UNCHANGED <<library, published, profile, woken>>
    BY <1>2 DEF HeavyTakes
  <2>2. backfill' \in BackfillRow /\ backfill'.status = "running" /\ ~backfill'.stale
    BY <1>1, <2>1, Rows
  <2>3. heavy'.pc = "select"
    BY <2>1
  <2> QED
    BY <2>1, <2>2, <2>3 DEF WorkInv, TracksInv, BackfillInv, At, Held, WokenIsDone
<1>3. CASE Selects
  <2>1. /\ At(heavy, "select") /\ UNCHANGED <<library, published, woken>>
        /\ backfill.status = "running" /\ ~backfill.stale
    BY <1>3 DEF Selects, WorkInv, BackfillInv, At
  <2>2. CASE DueTracks = {}
    <3>1. /\ heavy' = [pc |-> "finish", retry |-> RetryKept] /\ profile' = Recovered
          /\ UNCHANGED backfill
      BY <1>3, <2>2 DEF Selects
    <3>2. heavy'.pc = "finish" /\ heavy'.retry = RetryKept
      BY <3>1
    <3>3. TracksInv'
      BY <2>1, <3>1, <3>2 DEF WorkInv, TracksInv, Recovered, Awake, Held
    <3>4. ~RetryKept => \A t \in woken : profile[t] = "done" /\ profile'[t] = "done"
      BY <2>2, <3>1, DueIsPublished DEF Recovered, WorkInv, TracksInv
    <3> QED
      BY <2>1, <3>1, <3>2, <3>3, <3>4 DEF WorkInv, BackfillInv, At, WokenIsDone
  <2>3. ASSUME NEW t \in DueTracks, heavy' = [pc |-> "batch", track |-> t],
               profile' = [Recovered EXCEPT ![t] = "pending"],
               backfill' = Backfill("running", TRUE, FALSE)
        PROVE  WorkInv'
    <3>1. heavy'.pc = "batch" /\ heavy'.track = t /\ t \in library /\ t \in Tracks
      BY <2>3 DEF DueTracks, WorkInv, TracksInv
    <3>2. backfill' \in BackfillRow /\ backfill'.status = "running" /\ ~backfill'.stale
      BY <2>3, Rows
    <3>3. /\ profile' \in [Tracks -> Awake \cup {"absent"}] /\ profile'[t] = "pending"
          /\ \A u \in library : profile'[u] # "absent"
      BY <2>3, <3>1 DEF WorkInv, TracksInv, Recovered, Awake
    <3>4. TracksInv'
      BY <2>1, <3>1, <3>3 DEF WorkInv, TracksInv, Held
    <3>5. BackfillInv'
      BY <3>1, <3>2 DEF BackfillInv, At, WokenIsDone
    <3> QED
      BY <3>4, <3>5 DEF WorkInv
  <2> QED
    BY <1>3, <2>2, <2>3 DEF Selects
<1>4. CASE Analyses
  <2>1. PICK outcome \in {"done", "later", "due"} : profile' = [profile EXCEPT ![heavy.track] = outcome]
    BY <1>4 DEF Analyses
  <2>2. /\ heavy.pc = "batch" /\ heavy'.pc = "finalise"
        /\ UNCHANGED <<library, published, woken, backfill>>
    BY <1>4 DEF Analyses, At
  <2>3. TracksInv'
    BY <2>1, <2>2 DEF WorkInv, TracksInv, Awake, Held
  <2> QED
    BY <2>2, <2>3 DEF WorkInv, BackfillInv, At, WokenIsDone
<1>5. CASE FinalisesPreparation
  <2>1. /\ heavy.pc = "finalise" /\ heavy'.pc = "next"
        /\ UNCHANGED <<library, published, profile, woken, backfill>>
    BY <1>5 DEF FinalisesPreparation, At
  <2> QED
    BY <2>1 DEF WorkInv, TracksInv, BackfillInv, At, Held, WokenIsDone
<1>6. ASSUME NEW status \in {"queued", "complete"}, NEW retry \in BOOLEAN,
             backfill' = Finished(status, retry), heavy' = Idle,
             UNCHANGED <<library, published, profile, woken>>,
             status = "complete" /\ ~backfill.wake => \A t \in woken : profile[t] = "done"
      PROVE  WorkInv'
  <2>1. PICK kept \in {"queued", "complete"}, due \in BOOLEAN :
           /\ backfill' = Backfill(kept, FALSE, due)
           /\ kept = "complete" => status = "complete" /\ ~backfill.wake
    BY <1>6 DEF Finished
  <2>2. backfill' \in BackfillRow /\ backfill'.status = kept
    BY <2>1 DEF Backfill, BackfillRow
  <2>3. heavy'.pc = "idle"
    BY <1>6 DEF Idle
  <2> QED
    BY <1>6, <2>1, <2>2, <2>3 DEF WorkInv, TracksInv, BackfillInv, At, Held, WokenIsDone
<1>7. CASE LooksForMore
  <2>1. /\ heavy.pc = "next" /\ UNCHANGED <<library, published, profile, woken>>
    BY <1>7 DEF LooksForMore, At
  <2>2. CASE DueTracks = {}
    <3>1. heavy' = [pc |-> "finish", retry |-> RetryKept] /\ UNCHANGED backfill
      BY <1>7, <2>2 DEF LooksForMore
    <3>2. heavy'.pc = "finish" /\ heavy'.retry = RetryKept
      BY <3>1
    <3>3. ~RetryKept => \A t \in woken : profile[t] = "done"
      BY <2>2, DueIsPublished DEF WorkInv
    <3> QED
      BY <2>1, <3>1, <3>2, <3>3 DEF WorkInv, TracksInv, BackfillInv, At, Held, WokenIsDone
  <2>3. CASE DueTracks # {}
    BY <1>6, <1>7, <2>1, <2>3 DEF LooksForMore
  <2> QED
    BY <2>2, <2>3
<1>8. CASE BatchFinishes
  <2>1. /\ heavy.pc = "finish" /\ heavy' = Idle /\ UNCHANGED <<library, published, profile, woken>>
        /\ backfill' = Finished(IF heavy.retry THEN "queued" ELSE "complete", heavy.retry)
    BY <1>8 DEF BatchFinishes, At
  <2>2. PICK retry \in BOOLEAN : retry <=> heavy.retry
    OBVIOUS
  <2>3. Finished(IF heavy.retry THEN "queued" ELSE "complete", heavy.retry) =
          Finished(IF retry THEN "queued" ELSE "complete", retry)
    BY <2>2 DEF Finished
  <2>4. ~heavy.retry /\ ~backfill.wake => \A t \in woken : profile[t] = "done"
    BY <2>1 DEF WorkInv, BackfillInv, At
  <2> QED
    BY <1>6, <2>1, <2>2, <2>3, <2>4
<1>9. CASE HeavyFails
  <2>1. /\ backfill' = Backfill("failed", FALSE, TRUE) /\ heavy' = Idle
        /\ profile' = [t \in Tracks |-> IF Held(t) THEN "due" ELSE profile[t]]
        /\ UNCHANGED <<library, published, woken>>
    BY <1>9 DEF HeavyFails
  <2>2. backfill' \in BackfillRow /\ backfill'.status = "failed"
    BY <2>1, Rows
  <2>3. heavy'.pc = "idle"
    BY <2>1 DEF Idle
  <2>4. TracksInv'
    BY <2>1, <2>3 DEF WorkInv, TracksInv, Awake, Held
  <2> QED
    BY <2>2, <2>3, <2>4 DEF WorkInv, BackfillInv, At, WokenIsDone
<1> QED
  BY <1>2, <1>3, <1>4, <1>5, <1>7, <1>8, <1>9 DEF HeavyStep

\* Time and deaths.
LEMMA TimeWork ==
  ASSUME WorkInv, Crash \/ Passes
  PROVE  WorkInv'
<1> USE DEF rows, world, catalogue, history, budget
<1>1. CASE Crash
  <2>1. UNCHANGED <<library, published, profile, woken, backfill>> /\ (heavy' = Idle \/ UNCHANGED heavy)
    BY <1>1 DEF Crash
  <2>2. heavy' = Idle => heavy'.pc = "idle"
    BY DEF Idle
  <2> QED
    BY <2>1, <2>2 DEF WorkInv, TracksInv, BackfillInv, At, Held, WokenIsDone
<1>2. CASE BackfillAges
  <2>1. PICK row \in BackfillRow : row = backfill
    BY DEF WorkInv, BackfillInv
  <2>2. /\ UNCHANGED <<library, published, profile, woken, heavy>>
        /\ backfill' = Ages(row, ~At(heavy, "idle"))
    BY <1>2, <2>1 DEF BackfillAges
  <2>3. /\ backfill' \in BackfillRow /\ backfill'.status = row.status
        /\ backfill'.wake = row.wake /\ (~At(heavy, "idle") => backfill'.stale = row.stale)
    BY <2>2 DEF Ages, BackfillRow
  <2> QED
    BY <2>1, <2>2, <2>3 DEF WorkInv, TracksInv, BackfillInv, At, Held, WokenIsDone
<1>3. CASE PreparationAges \/ \E r \in Runs : RunAges(r)
  BY <1>3, WorkUnchanged DEF PreparationAges, RunAges
<1>4. ASSUME NEW t \in Tracks, ClaimExpires(t) \/ TrackRetryDue(t) PROVE WorkInv'
  <2>1. PICK next \in {"expired", "due"} :
           /\ profile[t] \in {"pending", "later"} /\ profile' = [profile EXCEPT ![t] = next]
           /\ UNCHANGED <<library, published, woken, backfill, heavy>>
           /\ ~Held(t) \/ profile[t] = "later"
    BY <1>4 DEF ClaimExpires, TrackRetryDue
  <2>2. TracksInv'
    BY <2>1 DEF WorkInv, TracksInv, Awake, Held
  <2>3. \A u \in woken : profile[u] = "done" => profile'[u] = "done"
    BY <2>1 DEF WorkInv, TracksInv
  <2> QED
    BY <2>1, <2>2, <2>3 DEF WorkInv, BackfillInv, At, WokenIsDone
<1> QED
  BY <1>1, <1>2, <1>3, <1>4 DEF Passes

-----------------------------------------------------------------------------
(* The analysis runs.                                                         *)

RunRow == [status : {"none", "pending", "running", "failed", "complete"},
           retry : BOOLEAN, stale : BOOLEAN]

\* What the hooks of a run recorded is in the library and analysed.
SongsInv ==
    /\ songs \in [Runs -> SUBSET (library \cap analysed)]
    /\ runs \in [Runs -> RunRow]
    /\ parent \in [Runs -> {"none", "live", "ended"}]

\* An ended run records no more songs, so what was published and projected for it
\* stays all there is once its row says complete.
RunsCovered ==
    \A r \in Runs : runs[r].status = "complete" =>
        parent[r] = "ended" /\ songs[r] \subseteq published \cap projected

\* The lane that finalises a run has its parent's end behind it, and the songs
\* published, and then projected, before the step that says so.
OnRun(lane) == lane \in [pc : {"refresh", "project", "admit", "complete"}, work : {"run"}, run : Runs]
OnOther(lane) == lane \in [pc : {"refresh", "project", "ready", "admit"}, work : {"refresh", "preparation"}]
RunAhead(lane) ==
    /\ parent[lane.run] = "ended"
    /\ lane.pc # "refresh" => songs[lane.run] \subseteq published
    /\ lane.pc \in {"admit", "complete"} => songs[lane.run] \subseteq projected
LaneInv ==
    \/ light.pc \in {"idle", "wake"} \/ OnOther(light)
    \/ OnRun(light) /\ RunAhead(light)

RunInv == SongsInv /\ RunsCovered /\ LaneInv

LEMMA RunInit == ASSUME Init PROVE RunInv
<1>1. light.pc = "idle"
  BY DEF Init, Idle
<1>2. SongsInv /\ RunsCovered
  BY DEF Init, SongsInv, RunsCovered, RunRow, Row
<1> QED
  BY <1>1, <1>2 DEF RunInv, LaneInv

LEMMA RunUnchanged ==
  ASSUME RunInv, UNCHANGED <<library, analysed, published, projected, parent, songs, runs, light>>
  PROVE  RunInv'
  BY DEF RunInv, SongsInv, RunsCovered, LaneInv, OnOther, OnRun, RunAhead

\* A lane's record at the next of its steps.
LEMMA NextPc ==
  ASSUME NEW pc \in {"project", "ready", "admit", "complete"}
  PROVE  /\ OnRun(light) => /\ [light EXCEPT !.pc = pc].pc = pc
                            /\ [light EXCEPT !.pc = pc].run = light.run
                            /\ pc # "ready" => OnRun([light EXCEPT !.pc = pc])
         /\ OnOther(light) => /\ [light EXCEPT !.pc = pc].pc = pc
                              /\ pc # "complete" => OnOther([light EXCEPT !.pc = pc])
  BY DEF OnRun, OnOther

\* The world and the hooks.
LEMMA WorldRuns ==
  ASSUME WorkInv, RunInv,
         \/ \E t \in Tracks : GainTrack(t)
         \/ \E r \in Runs : ParentMoves(r) \/ \E t \in Tracks : RecordSong(r, t)
  PROVE  RunInv'
<1> USE DEF rows, world, catalogue, history, budget
<1>1. ASSUME NEW t \in Tracks, GainTrack(t) PROVE RunInv'
  <2>1. /\ library' = library \cup {t}
        /\ UNCHANGED <<analysed, published, projected, parent, songs, runs, light>>
    BY <1>1 DEF GainTrack
  <2> QED
    BY <2>1 DEF RunInv, SongsInv, RunsCovered, LaneInv, OnOther, OnRun, RunAhead
<1>2. ASSUME NEW r \in Runs, ParentMoves(r) PROVE RunInv'
  <2>1. PICK next \in {"live", "ended"} : parent[r] # "ended" /\ parent' = [parent EXCEPT ![r] = next]
    BY <1>2 DEF ParentMoves
  <2>2. UNCHANGED <<library, analysed, published, projected, songs, runs, light>>
    BY <1>2 DEF ParentMoves
  <2>3. SongsInv' /\ RunsCovered'
    BY <2>1, <2>2 DEF RunInv, SongsInv, RunsCovered
  <2>4. LaneInv'
    BY <2>1, <2>2 DEF RunInv, SongsInv, LaneInv, OnOther, OnRun, RunAhead
  <2> QED
    BY <2>3, <2>4 DEF RunInv
<1>3. ASSUME NEW r \in Runs, NEW t \in Tracks, RecordSong(r, t) PROVE RunInv'
  <2>1. /\ parent[r] = "live" /\ t \in library
        /\ analysed' = analysed \cup {t} /\ songs' = [songs EXCEPT ![r] = @ \cup {t}]
        /\ UNCHANGED <<library, published, projected, parent, light>>
    BY <1>3 DEF RecordSong
  <2>2. Row("pending") \in RunRow /\ Row("pending").status # "complete"
    BY DEF Row, RunRow
  <2>3. runs' = runs \/ runs' = [runs EXCEPT ![r] = Row("pending")]
    BY <1>3 DEF RecordSong
  <2>4. SongsInv'
    BY <2>1, <2>2, <2>3 DEF RunInv, SongsInv
  <2>5. RunsCovered'
    <3> SUFFICES ASSUME NEW s \in Runs, runs'[s].status = "complete"
                 PROVE  parent'[s] = "ended" /\ songs'[s] \subseteq published' \cap projected'
      BY DEF RunsCovered
    <3>1. runs[s].status = "complete"
      BY <2>2, <2>3 DEF RunInv, SongsInv
    <3>2. parent[s] = "ended" /\ songs[s] \subseteq published \cap projected
      BY <3>1 DEF RunInv, RunsCovered
    <3>3. s # r /\ songs'[s] = songs[s]
      BY <2>1, <3>2 DEF RunInv, SongsInv
    <3> QED
      BY <2>1, <3>2, <3>3
  <2>6. LaneInv'
    <3>1. CASE light.pc \in {"idle", "wake"} \/ OnOther(light)
      BY <2>1, <3>1 DEF LaneInv, OnOther
    <3>2. CASE OnRun(light) /\ RunAhead(light)
      <4>1. light.run # r /\ songs'[light.run] = songs[light.run]
        BY <2>1, <3>2 DEF RunInv, SongsInv, OnRun, RunAhead
      <4> QED
        BY <2>1, <3>2, <4>1 DEF LaneInv, OnRun, RunAhead
    <3> QED
      BY <3>1, <3>2 DEF RunInv, LaneInv
  <2> QED
    BY <2>4, <2>5, <2>6 DEF RunInv
<1> QED
  BY <1>1, <1>2, <1>3

\* The light lane.
LEMMA LightRuns ==
  ASSUME WorkInv, RunInv, LightStep \/ LightFails
  PROVE  RunInv'
<1> USE DEF rows, world, catalogue, history, budget
<1>0. Idle.pc = "idle"
  BY DEF Idle
<1>1. CASE LightTakes
  <2>1. UNCHANGED <<library, analysed, published, projected, parent, songs>>
    BY <1>1 DEF LightTakes
  <2>2. ASSUME NEW r \in Runs, TakeRun(r) PROVE RunInv'
    <3>1. /\ parent[r] = "ended" /\ runs' = [runs EXCEPT ![r] = Row("running")]
          /\ light' = [pc |-> "refresh", work |-> "run", run |-> r]
      BY <2>2 DEF TakeRun, RunTakeable
    <3>2. Row("running") \in RunRow /\ Row("running").status # "complete"
      BY DEF Row, RunRow
    <3>3. OnRun(light') /\ light'.run = r /\ light'.pc = "refresh"
      BY <3>1 DEF OnRun
    <3>4. SongsInv' /\ RunsCovered'
      BY <2>1, <3>1, <3>2 DEF RunInv, SongsInv, RunsCovered
    <3>5. LaneInv'
      BY <2>1, <3>1, <3>3 DEF LaneInv, OnRun, RunAhead
    <3> QED
      BY <3>4, <3>5 DEF RunInv
  <2>3. CASE TakePreparation \/ TakeRefresh
    <3>1. UNCHANGED runs /\ OnOther(light')
      BY <2>3 DEF TakePreparation, TakeRefresh, OnOther
    <3> QED
      BY <2>1, <3>1 DEF RunInv, SongsInv, RunsCovered, LaneInv, OnOther
  <2> QED
    BY <1>1, <2>2, <2>3 DEF LightTakes
<1>2. CASE RefreshPublishes
  <2>1. /\ At(light, "refresh") /\ published' = library
        /\ UNCHANGED <<library, analysed, projected, parent, songs, runs>>
        /\ light' = IF light.work = "refresh"
                    THEN [pc |-> "wake", work |-> "refresh", changed |-> library # published]
                    ELSE [light EXCEPT !.pc = "project"]
    BY <1>2 DEF RefreshPublishes
  <2>2. SongsInv' /\ RunsCovered'
    BY <2>1 DEF RunInv, SongsInv, RunsCovered
  <2>3. CASE light.work = "refresh"
    <3>1. light'.pc = "wake"
      BY <2>1, <2>3
    <3> QED
      BY <2>2, <3>1 DEF RunInv, LaneInv
  <2>4. CASE light.work # "refresh" /\ OnOther(light)
    <3>1. OnOther(light')
      BY <2>1, <2>4, NextPc
    <3> QED
      BY <2>2, <3>1 DEF RunInv, LaneInv, OnOther
  <2>5. CASE OnRun(light) /\ RunAhead(light)
    <3>1. OnRun(light') /\ light'.pc = "project" /\ light'.run = light.run
      BY <2>1, <2>5, NextPc DEF OnRun
    <3>2. parent'[light'.run] = "ended" /\ songs'[light'.run] \subseteq published'
      BY <2>1, <2>5, <3>1 DEF RunAhead, OnRun, RunInv, SongsInv
    <3> QED
      BY <2>2, <3>1, <3>2 DEF RunInv, LaneInv, OnRun, RunAhead
  <2>6. light.pc \notin {"idle", "wake"}
    BY <2>1 DEF At
  <2> QED
    BY <2>3, <2>4, <2>5, <2>6 DEF RunInv, LaneInv
<1>3. CASE RefreshWakes
  <2>1. /\ UNCHANGED <<library, analysed, published, projected, parent, songs, runs>>
        /\ light' = [pc |-> "project", work |-> "refresh"] \/ light' = Idle
    BY <1>3 DEF RefreshWakes
  <2>2. light'.pc = "idle" \/ OnOther(light')
    BY <1>0, <2>1 DEF OnOther
  <2> QED
    BY <2>1, <2>2 DEF RunInv, SongsInv, RunsCovered, LaneInv, OnOther
<1>4. CASE Projects
  <2>1. /\ At(light, "project") /\ projected' = published \cap analysed
        /\ UNCHANGED <<library, analysed, published, parent, songs, runs>>
    BY <1>4 DEF Projects
  <2>2. SongsInv' /\ RunsCovered'
    BY <2>1 DEF RunInv, SongsInv, RunsCovered
  <2>3. CASE OnOther(light)
    <3>1. light' = Idle \/ light' = [light EXCEPT !.pc = "ready"]
      BY <1>4, <2>3 DEF Projects, OnOther
    <3>2. light'.pc = "idle" \/ OnOther(light')
      BY <1>0, <2>3, <3>1, NextPc
    <3> QED
      BY <2>2, <3>2 DEF RunInv, LaneInv, OnOther
  <2>4. CASE OnRun(light) /\ RunAhead(light)
    <3>1. light' = [light EXCEPT !.pc = "admit"]
      BY <1>4, <2>4 DEF Projects, OnRun
    <3>2. OnRun(light') /\ light'.pc = "admit" /\ light'.run = light.run
      BY <2>4, <3>1, NextPc DEF OnRun
    <3>3. songs[light.run] \subseteq published \cap analysed /\ parent[light.run] = "ended"
      BY <2>1, <2>4 DEF RunAhead, OnRun, RunInv, SongsInv, At
    <3> QED
      BY <2>1, <2>2, <3>2, <3>3 DEF RunInv, LaneInv, OnRun, RunAhead
  <2> QED
    BY <2>1, <2>3, <2>4 DEF RunInv, LaneInv, At
<1>5. CASE PreparationReady
  <2>1. /\ light.pc = "ready" /\ light' = [light EXCEPT !.pc = "admit"]
        /\ UNCHANGED <<library, analysed, published, projected, parent, songs, runs>>
    BY <1>5 DEF PreparationReady, At
  <2>2. OnOther(light)
    BY <2>1 DEF RunInv, LaneInv, OnRun
  <2>3. OnOther(light')
    BY <2>1, <2>2, NextPc
  <2> QED
    BY <2>1, <2>3 DEF RunInv, SongsInv, RunsCovered, LaneInv, OnOther
<1>6. CASE AdmitsBackfill
  <2>1. /\ light.pc = "admit"
        /\ UNCHANGED <<library, analysed, published, projected, parent, songs, runs>>
        /\ light' = IF light.work = "run" THEN [light EXCEPT !.pc = "complete"] ELSE Idle
    BY <1>6 DEF AdmitsBackfill, At
  <2>2. CASE light.work # "run"
    BY <1>0, <2>1, <2>2 DEF RunInv, SongsInv, RunsCovered, LaneInv
  <2>3. CASE light.work = "run"
    <3>1. OnRun(light) /\ RunAhead(light)
      BY <2>1, <2>3 DEF RunInv, LaneInv, OnOther
    <3>2. OnRun(light') /\ light'.pc = "complete" /\ light'.run = light.run
      BY <2>1, <2>3, <3>1, NextPc DEF OnRun
    <3> QED
      BY <2>1, <3>1, <3>2 DEF RunInv, SongsInv, RunsCovered, LaneInv, OnRun, RunAhead
  <2> QED
    BY <2>2, <2>3
<1>7. CASE RunCompletes
  <2>1. /\ light.pc = "complete" /\ light' = Idle /\ runs' = [runs EXCEPT ![light.run] = Row("complete")]
        /\ UNCHANGED <<library, analysed, published, projected, parent, songs>>
    BY <1>7 DEF RunCompletes, At
  <2>2. OnRun(light) /\ RunAhead(light)
    BY <2>1 DEF RunInv, LaneInv, OnOther
  <2>3. Row("complete") \in RunRow
    BY DEF Row, RunRow
  <2>4. parent[light.run] = "ended" /\ songs[light.run] \subseteq published \cap projected
    BY <2>1, <2>2 DEF RunAhead
  <2>5. SongsInv' /\ RunsCovered'
    BY <2>1, <2>3, <2>4 DEF RunInv, SongsInv, RunsCovered
  <2> QED
    BY <1>0, <2>1, <2>5 DEF RunInv, LaneInv
<1>8. CASE LightFails
  <2>1. /\ light' = Idle /\ UNCHANGED <<library, analysed, published, projected, parent, songs>>
        /\ runs' = runs \/ runs' = [runs EXCEPT ![light.run] = [Row("failed") EXCEPT !.retry = TRUE]]
    BY <1>8 DEF LightFails
  <2>2. /\ [Row("failed") EXCEPT !.retry = TRUE] \in RunRow
        /\ [Row("failed") EXCEPT !.retry = TRUE].status # "complete"
    BY DEF Row, RunRow
  <2>3. SongsInv' /\ RunsCovered'
    BY <2>1, <2>2 DEF RunInv, SongsInv, RunsCovered
  <2> QED
    BY <1>0, <2>1, <2>3 DEF RunInv, LaneInv
<1> QED
  BY <1>1, <1>2, <1>3, <1>4, <1>5, <1>6, <1>7, <1>8 DEF LightStep

\* What the other lane, time and deaths leave of the runs.
LEMMA OtherRuns ==
  ASSUME RunInv, AskPreparation \/ HeavyStep \/ HeavyFails \/ Crash \/ Passes
  PROVE  RunInv'
<1> USE DEF rows, world, catalogue, history, budget
<1>1. CASE \/ AskPreparation \/ HeavyStep \/ HeavyFails \/ BackfillAges \/ PreparationAges
           \/ \E t \in Tracks : ClaimExpires(t) \/ TrackRetryDue(t)
  BY <1>1, RunUnchanged DEF AskPreparation, HeavyStep, HeavyTakes, Selects, Analyses,
     FinalisesPreparation, LooksForMore, BatchFinishes, HeavyFails, BackfillAges,
     PreparationAges, ClaimExpires, TrackRetryDue
<1>2. CASE Crash
  <2>1. /\ UNCHANGED <<library, analysed, published, projected, parent, songs, runs>>
        /\ light' = Idle \/ UNCHANGED light
    BY <1>2 DEF Crash
  <2>2. CASE light' = Idle
    BY <2>1, <2>2 DEF RunInv, SongsInv, RunsCovered, LaneInv, Idle
  <2> QED
    BY <2>1, <2>2, RunUnchanged
<1>3. ASSUME NEW r \in Runs, RunAges(r) PROVE RunInv'
  <2>1. PICK worked \in BOOLEAN : runs' = [runs EXCEPT ![r] = Ages(runs[r], worked)]
    <3> DEFINE w == ~At(light, "idle") /\ light.work = "run" /\ light.run = r
    <3>1. w \in BOOLEAN /\ runs' = [runs EXCEPT ![r] = Ages(runs[r], w)]
      BY <1>3 DEF RunAges
    <3> HIDE DEF w
    <3> QED
      BY <3>1
  <2>2. UNCHANGED <<library, analysed, published, projected, parent, songs, light>>
    BY <1>3 DEF RunAges
  <2>3. PICK row \in RunRow : row = runs[r]
    BY DEF RunInv, SongsInv
  <2>4. Ages(row, worked) \in RunRow /\ Ages(row, worked).status = row.status
    BY DEF Ages, RunRow
  <2>5. SongsInv' /\ RunsCovered'
    BY <2>1, <2>2, <2>3, <2>4 DEF RunInv, SongsInv, RunsCovered
  <2>6. LaneInv'
    BY <2>2 DEF RunInv, LaneInv, OnOther, OnRun, RunAhead
  <2> QED
    BY <2>5, <2>6 DEF RunInv
<1> QED
  BY <1>1, <1>2, <1>3 DEF Passes

-----------------------------------------------------------------------------
(* The suite: a step of another component leaves the child's variables to it. *)

\* An action is never at work twice: not in a child and in the thread that gave up
\* on it, and not in the child of a process that died and in the process that took
\* its role over, however many processes lead, however their children start, hang,
\* answer late or are lost.
THEOREM ActionsAreAloneAtWork == SuiteSpec => []AloneAtWork
<1> DEFINE Inv == focus = "child" => ChildInv
<1>1. SuiteInit => Inv
  BY ChildInit DEF SuiteInit
<1>2. Inv /\ [SuiteNext]_all => Inv'
  <2> SUFFICES ASSUME Inv, [SuiteNext]_all, focus' = "child" PROVE ChildInv'
    OBVIOUS
  <2>1. focus = "child" /\ ChildInv
    BY DEF SuiteNext, all
  <2>2. CASE Child!Next
    BY <2>1, <2>2, LeaderSteps, ChildSteps DEF Child!Next
  <2>3. CASE UNCHANGED all
    BY <2>1, <2>3 DEF all, vars, ChildInv, ChildTypeOK, OneLeads, ChildIsMinded
  <2> QED
    BY <2>1, <2>2, <2>3 DEF SuiteNext
<1>3. Inv => AloneAtWork
  BY OneWorks DEF AloneAtWork
<1> QED
  BY <1>1, <1>2, <1>3, PTL DEF SuiteSpec

\* A backfill that says complete has profiled every track a changed catalogue woke
\* it for, and a finalised run has every song its hooks recorded published and
\* projected, for every library and any number of runs, failures and deaths.
THEOREM CompletedWorkIsDone == SuiteSpec => []WorkIsDone
<1> DEFINE Inv == focus = "workflows" => WorkInv /\ RunInv
<1>1. SuiteInit => Inv
  BY WorkInit, RunInit DEF SuiteInit
<1>2. Inv /\ [SuiteNext]_all => Inv'
  <2> SUFFICES ASSUME Inv, [SuiteNext]_all, focus' = "workflows" PROVE (WorkInv /\ RunInv)'
    OBVIOUS
  <2>1. focus = "workflows" /\ WorkInv /\ RunInv
    BY DEF SuiteNext, all
  <2>2. CASE Next
    <3>1. WorkInv'
      BY <2>1, <2>2, LightWork, HeavyWork, TimeWork DEF Next
    <3>2. RunInv'
      BY <2>1, <2>2, WorldRuns, LightRuns, OtherRuns DEF Next
    <3> QED
      BY <3>1, <3>2
  <2>3. CASE UNCHANGED all
    BY <2>1, <2>3, WorkUnchanged, RunUnchanged DEF all, vars, world, catalogue, rows, history, budget
  <2> QED
    BY <2>1, <2>2, <2>3 DEF SuiteNext
<1>3. Inv => WorkIsDone
  BY DEF WorkIsDone, WorkInv, BackfillInv, RunInv, RunsCovered, CompleteRunsProjected
<1> QED
  BY <1>1, <1>2, <1>3, PTL DEF SuiteSpec

-----------------------------------------------------------------------------
(* The identities of a Navidrome source: `library` is the provider, which     *)
(* changes while refreshes and projections run,                               *)
(* `published` the generation, `backfill` the transition, `light` the         *)
(* refreshes.                                                                 *)

\* The catalogue's ids are of the provider's scheme.
Settled == published.ids \subseteq Songs!Named(Titles, library.scheme)
ProviderOK ==
    /\ library = [version |-> library.version, scheme |-> library.scheme, songs |-> library.songs]
    /\ library.version \in {"before", "after"} /\ library.scheme \in {"old", "new"}
    /\ library.songs \subseteq Titles
    /\ library.version = "before" => library.scheme = "old"
\* All ids of the catalogue are of one scheme, which the provider has or had.
OfOneScheme(ids) ==
    \/ ids \subseteq Songs!Named(Titles, "old")
    \/ ids \subseteq Songs!Named(Titles, "new") /\ library.scheme = "new"
OneScheme ==
    /\ published.generation \in Nat \ {0}
    /\ OfOneScheme(published.ids)
TransIsRecord(r) ==
    r = [state |-> r.state, named |-> r.named, version |-> r.version, checked |-> r.checked,
         base |-> r.base, target |-> r.target, scans |-> r.scans, health |-> r.health]
\* A version whose ids were checked, and a rekey applied, leave a settled catalogue,
\* until a refresh that the release overtook publishes a stray.
Sound == Settled \/ published.stray
TransOK ==
    /\ TransIsRecord(backfill)
    /\ backfill.version = "after" => library.version = "after"
    /\ backfill.checked = "after" => library.version = "after" /\ Sound
    /\ backfill.state = "applied" => library.version = "after" /\ Sound
\* A refresh that was let through, and that nothing overtook, finds a sound catalogue.
Trusted(r) == r.state \notin {"transition_pending", "blocked"}
UpToDate(r) == r.began = library.version
RefreshOK(r) ==
    /\ r.phase \in {"idle", "observed", "fetched"}
    /\ r.phase # "idle" =>
         /\ r.began = "after" => library.version = "after"
         /\ r.version = "after" => library.version = "after"
         /\ Trusted(r) /\ UpToDate(r) => Sound
    /\ r.phase = "fetched" =>
         /\ OfOneScheme(r.ids)
         /\ UpToDate(r) => r.ids \subseteq Songs!Named(Titles, library.scheme)
RefreshesOK ==
    /\ light = [p \in Refreshers |-> light[p]]
    /\ \A p \in Refreshers : RefreshOK(light[p])

ReleaseInv == ProviderOK /\ OneScheme /\ TransOK /\ RefreshesOK

LEMMA ReleaseBegins == ASSUME Songs!Init PROVE ReleaseInv
<1>1. /\ library = [version |-> "before", scheme |-> "old", songs |-> Titles]
      /\ published = [generation |-> 1, ids |-> Songs!Named(Titles, "old"), stray |-> FALSE]
      /\ light = [p \in Refreshers |-> [phase |-> "idle"]]
      /\ backfill = [state |-> "normal", named |-> FALSE, version |-> "none", checked |-> "none",
                     base |-> <<0, 0>>, target |-> {}, scans |-> 0, health |-> "unknown"]
  BY DEF Songs!Init, Songs!Unchecked, Songs!Idle
<1>2. ProviderOK
  BY <1>1 DEF ProviderOK
<1>3. OneScheme
  BY <1>1 DEF OneScheme, OfOneScheme
<1>4. TransOK
  BY <1>1 DEF TransOK, TransIsRecord
<1>5. RefreshesOK
  BY <1>1 DEF RefreshesOK, RefreshOK
<1> QED
  BY <1>2, <1>3, <1>4, <1>5 DEF ReleaseInv

\* What the provider cannot make untrue while it stays as it is.
LEMMA ReleaseStays ==
  ASSUME ReleaseInv, UNCHANGED <<library, published>>, TransIsRecord(backfill'),
         backfill'.version \in {backfill.version, library.version},
         backfill'.checked = backfill.checked,
         backfill'.state = "applied" => Sound /\ library.version = "after", RefreshesOK'
  PROVE  ReleaseInv'
BY DEF ReleaseInv, ProviderOK, OneScheme, OfOneScheme, TransOK, Sound, Settled

\* One refresh goes on.
LEMMA RefreshGoes ==
  ASSUME RefreshesOK, NEW p \in Refreshers, NEW r, light' = [light EXCEPT ![p] = r], RefreshOK(r)',
         UNCHANGED library, Sound => Sound'
  PROVE  RefreshesOK'
<1>1. light' = [q \in Refreshers |-> light'[q]] /\ \A q \in Refreshers : light'[q] = IF q = p THEN r ELSE light[q]
  BY DEF RefreshesOK
<1>2. ASSUME NEW q \in Refreshers, NEW x, x = light[q] PROVE RefreshOK(x)'
  BY <1>2 DEF RefreshesOK, RefreshOK, Trusted, UpToDate, OfOneScheme
<1>3. ASSUME NEW q \in Refreshers PROVE RefreshOK(light[q])'
  <2>1. CASE q = p
    BY <1>1, <2>1
  <2>2. CASE q # p
    <3>1. PICK x : x = light[q]
      OBVIOUS
    <3>2. light'[q] = x /\ RefreshOK(x)'
      BY <1>1, <1>2, <2>2, <3>1
    <3> QED
      BY <3>2
  <2> QED
    BY <2>1, <2>2
<1> QED
  BY <1>1, <1>3 DEF RefreshesOK

\* A ping that is answered or not lets a refresh through only where the catalogue is sound.
LEMMA PingGives ==
  ASSUME ReleaseInv, NEW state \in {"normal", "transition_pending", "applied", "blocked"},
         Songs!Observe(state)
  PROVE  /\ state \notin {"transition_pending", "blocked"} => Sound
         /\ TransIsRecord(backfill')
         /\ backfill'.version \in {backfill.version, library.version}
         /\ backfill'.checked = backfill.checked
         /\ backfill'.state = "applied" => Sound /\ library.version = "after"
<1>1. PICK b : b = backfill
  OBVIOUS
<1>2. TransIsRecord(b)
  BY <1>1 DEF ReleaseInv, TransOK
<1>3. library.version = "before" => Sound
  <2>1. ASSUME library.version = "before" PROVE library.scheme = "old"
    BY <2>1 DEF ReleaseInv, ProviderOK
  <2> QED
    BY <2>1 DEF ReleaseInv, OneScheme, OfOneScheme, Sound, Settled
<1>4. CASE state = Songs!Verdict /\ backfill' = Songs!Observed(Songs!Verdict)
  <2>1. PICK x, v : x = backfill' /\ v = Songs!Verdict
    OBVIOUS
  <2>2. PICK n, bs, sc, h : n = x.named /\ bs = x.base /\ sc = x.scans /\ h = x.health
    OBVIOUS
  <2>3. x = [state |-> v, named |-> n, version |-> library.version, checked |-> b.checked,
             base |-> bs, target |-> b.target, scans |-> sc, health |-> h]
    BY <1>1, <1>2, <1>4, <2>1, <2>2 DEF Songs!Observed, TransIsRecord
  <2>4. x.state = v /\ x.version = library.version /\ x.checked = b.checked /\ TransIsRecord(x)
    BY <2>3 DEF TransIsRecord
  <2>5. v \notin {"transition_pending", "blocked"} => Sound
    BY <1>3, <2>1 DEF Songs!Verdict, ReleaseInv, OneScheme, TransOK, ProviderOK
  <2>6. v = "applied" => Sound /\ library.version = "after"
    BY <2>1 DEF Songs!Verdict, ReleaseInv, TransOK
  <2> QED
    BY <1>1, <1>4, <2>1, <2>4, <2>5, <2>6
<1>5. CASE /\ state = Songs!Gate
           /\ backfill' = [backfill EXCEPT !.base = IF backfill.state = "normal" THEN Songs!Now ELSE @]
  <2>1. PICK x : x = backfill'
    OBVIOUS
  <2>2. PICK bs : bs = x.base
    OBVIOUS
  <2>3. x = [state |-> b.state, named |-> b.named, version |-> b.version, checked |-> b.checked,
             base |-> bs, target |-> b.target, scans |-> b.scans, health |-> b.health]
    BY <1>1, <1>2, <1>5, <2>1, <2>2 DEF TransIsRecord
  <2>4. x.state = b.state /\ x.version = b.version /\ x.checked = b.checked /\ TransIsRecord(x)
    BY <2>3 DEF TransIsRecord
  <2>5. state \notin {"transition_pending", "blocked"} => Sound
    BY <1>5 DEF Songs!Gate, ReleaseInv, OneScheme, TransOK
  <2> QED
    BY <1>1, <2>1, <2>4, <2>5 DEF ReleaseInv, TransOK
<1> QED
  BY <1>4, <1>5 DEF Songs!Observe

LEMMA PingKeeps ==
  ASSUME ReleaseInv, NEW state \in {"normal", "transition_pending", "applied", "blocked"},
         Songs!Observe(state), UNCHANGED <<library, published>>, RefreshesOK'
  PROVE  ReleaseInv'
BY PingGives, ReleaseStays

\* What a refresh that ends leaves when it publishes its scan or nothing.
LEMMA RefreshEnds ==
  ASSUME ReleaseInv, NEW p \in Refreshers, light' = [light EXCEPT ![p] = Songs!Idle],
         UNCHANGED library, TransIsRecord(backfill'),
         backfill'.version = "after" => library.version = "after",
         backfill'.checked = "after" => library.version = "after" /\ Sound',
         published'.generation \in {published.generation, published.generation + 1},
         published'.ids = published.ids \/ OfOneScheme(published'.ids),
         Sound => Sound', backfill'.state = "applied" => library.version = "after" /\ Sound'
  PROVE  ReleaseInv'
<1>1. ProviderOK'
  BY DEF ReleaseInv, ProviderOK
<1>2. OneScheme'
  BY DEF ReleaseInv, OneScheme, OfOneScheme, ProviderOK
<1>4. TransOK'
  BY DEF ReleaseInv, TransOK
<1>5. PICK r : r = Songs!Idle
  OBVIOUS
<1>6. RefreshOK(r)'
  BY <1>5 DEF RefreshOK, Songs!Idle, Trusted
<1>7. RefreshesOK'
  BY <1>5, <1>6, RefreshGoes DEF ReleaseInv
<1> QED
  BY <1>1, <1>2, <1>4, <1>7 DEF ReleaseInv

LEMMA ReleaseQuiet ==
  ASSUME ReleaseInv, UNCHANGED <<library, published, backfill, light>>
  PROVE  ReleaseInv'
BY DEF ReleaseInv, ProviderOK, OneScheme, OfOneScheme, TransOK, RefreshesOK, RefreshOK, Trusted,
   UpToDate, Sound, Settled, TransIsRecord

LEMMA ProviderMoves ==
  ASSUME ReleaseInv, \/ \E scheme \in {"old", "new"} : Songs!Upgrade(scheme)
                     \/ \E S \in SUBSET Titles : Songs!SongsMove(S)
  PROVE  ReleaseInv'
<1>1. UNCHANGED <<published, backfill, light>>
  BY DEF Songs!Upgrade, Songs!SongsMove, Songs!plugin
<1>2. PICK x : x = library
  OBVIOUS
<1>3. x = [version |-> x.version, scheme |-> x.scheme, songs |-> x.songs]
  BY <1>2 DEF ReleaseInv, ProviderOK
<1>5. ASSUME NEW scheme \in {"old", "new"}, Songs!Upgrade(scheme) PROVE ReleaseInv'
  <2>1. library' = [version |-> "after", scheme |-> scheme, songs |-> x.songs]
    BY <1>2, <1>3, <1>5 DEF Songs!Upgrade
  <2>2. x.version = "before" /\ x.scheme = "old"
    BY <1>2, <1>5 DEF Songs!Upgrade, ReleaseInv, ProviderOK
  <2>3. ProviderOK'
    BY <1>2, <2>1 DEF ReleaseInv, ProviderOK
  <2>4. OneScheme'
    BY <1>1, <1>2, <2>2 DEF ReleaseInv, OneScheme, OfOneScheme
  <2>5. TransOK'
    BY <1>1, <1>2, <2>2 DEF ReleaseInv, TransOK, TransIsRecord
  <2>6. ASSUME NEW q \in Refreshers, NEW r, r = light[q] PROVE RefreshOK(r)'
    <3>1. RefreshOK(r) /\ x.version = "before" /\ x.scheme = "old" /\ library'.version = "after"
      BY <2>1, <2>2, <2>6 DEF ReleaseInv, RefreshesOK
    <3>2. r.phase # "idle" => ~UpToDate(r)'
      BY <1>2, <3>1 DEF RefreshOK, UpToDate
    <3>3. r.phase = "fetched" => OfOneScheme(r.ids)'
      BY <1>2, <3>1 DEF RefreshOK, OfOneScheme
    <3> QED
      BY <3>1, <3>2, <3>3 DEF RefreshOK
  <2>7. RefreshesOK'
    BY <1>1, <2>6 DEF ReleaseInv, RefreshesOK
  <2> QED
    BY <2>3, <2>4, <2>5, <2>7 DEF ReleaseInv
<1>6. ASSUME NEW S \in SUBSET Titles, Songs!SongsMove(S) PROVE ReleaseInv'
  <2>1. library' = [version |-> x.version, scheme |-> x.scheme, songs |-> S]
    BY <1>2, <1>3, <1>6 DEF Songs!SongsMove
  <2>2. library'.version = x.version /\ library'.scheme = x.scheme /\ library'.songs = S
    BY <2>1
  <2>3. ProviderOK'
    BY <1>2, <2>1, <2>2 DEF ReleaseInv, ProviderOK
  <2>4. OneScheme' /\ TransOK'
    BY <1>1, <1>2, <2>2 DEF ReleaseInv, OneScheme, OfOneScheme, TransOK, TransIsRecord, Sound, Settled
  <2>5. RefreshesOK'
    BY <1>1, <1>2, <2>2 DEF ReleaseInv, RefreshesOK, RefreshOK, OfOneScheme, Trusted, UpToDate, Sound, Settled
  <2> QED
    BY <2>3, <2>4, <2>5 DEF ReleaseInv
<1> QED
  BY <1>5, <1>6

LEMMA RefreshStarts ==
  ASSUME ReleaseInv, NEW p \in Refreshers, Songs!StartRefresh(p)
  PROVE  ReleaseInv'
<1>1. PICK state \in {"normal", "transition_pending", "applied", "blocked"} :
        /\ Songs!Observe(state)
        /\ light' = [light EXCEPT ![p] = [phase |-> "observed", state |-> state,
                                          version |-> backfill'.version, began |-> library.version]]
  BY DEF Songs!StartRefresh, Songs!States
<1>2. UNCHANGED <<library, published>>
  BY DEF Songs!StartRefresh
<1>3. /\ state \notin {"transition_pending", "blocked"} => Sound
      /\ backfill'.version = "after" => library.version = "after"
  BY <1>1, PingGives DEF ReleaseInv, TransOK
<1>4. PICK r : r = [phase |-> "observed", state |-> state,
                    version |-> backfill'.version, began |-> library.version]
  OBVIOUS
<1>5. RefreshOK(r)'
  BY <1>2, <1>3, <1>4 DEF RefreshOK, Trusted, Sound, Settled
<1>6. RefreshesOK'
  BY <1>1, <1>2, <1>4, <1>5, RefreshGoes DEF ReleaseInv, Sound, Settled
<1> QED
  BY <1>1, <1>2, <1>6, PingKeeps

LEMMA RefreshFetches ==
  ASSUME ReleaseInv, NEW p \in Refreshers, Songs!Fetch(p) \/ Songs!FetchFails(p)
  PROVE  ReleaseInv'
<1>1. UNCHANGED <<library, published, backfill>> /\ light[p].phase = "observed"
  BY DEF Songs!Fetch, Songs!FetchFails, Songs!plugin
<1>2. PICK r : light' = [light EXCEPT ![p] = r] /\
               \/ r = Songs!Idle
               \/ r = [phase |-> "fetched", state |-> light[p].state, version |-> light[p].version,
                       began |-> light[p].began, ids |-> Songs!Named(library.songs, library.scheme)]
  BY DEF Songs!Fetch, Songs!FetchFails
<1>3. RefreshOK(r)'
  <2>1. RefreshOK(light[p])
    BY DEF ReleaseInv, RefreshesOK
  <2>2. Songs!Named(library.songs, library.scheme) \subseteq Songs!Named(Titles, library.scheme)
    BY DEF ReleaseInv, ProviderOK, Songs!Named
  <2> QED
    <3>1. OfOneScheme(Songs!Named(library.songs, library.scheme))
      BY <2>2 DEF OfOneScheme, ReleaseInv, ProviderOK
    <3>2. CASE r = Songs!Idle
      BY <3>2 DEF RefreshOK, Songs!Idle
    <3>3. CASE r = [phase |-> "fetched", state |-> light[p].state, version |-> light[p].version,
                    began |-> light[p].began, ids |-> Songs!Named(library.songs, library.scheme)]
      BY <1>1, <2>1, <2>2, <3>1, <3>3 DEF RefreshOK, Trusted, UpToDate, Sound, Settled, OfOneScheme
    <3> QED
      BY <1>2, <3>2, <3>3
<1>4. RefreshesOK'
  BY <1>1, <1>2, <1>3, RefreshGoes DEF ReleaseInv, Sound, Settled
<1>5. TransIsRecord(backfill') /\ (backfill.state = "applied" => Sound /\ library.version = "after")
  BY <1>1 DEF ReleaseInv, TransOK
<1> QED
  BY <1>1, <1>4, <1>5, ReleaseStays

\* A scan whose inspection finds nothing changed shows a settled catalogue.
LEMMA UnchangedIsSettled ==
  ASSUME ReleaseInv, NEW target, target \subseteq Songs!Named(Titles, library.scheme),
         Songs!Moved(target) = {}, Songs!Missing(target) = {}
  PROVE  Settled
<1>1. CASE library.scheme = "old"
  BY <1>1 DEF ReleaseInv, OneScheme, OfOneScheme, Settled
<1>2. CASE library.scheme = "new"
  <2>1. CASE published.ids \subseteq Songs!Named(Titles, "new")
    BY <1>2, <2>1 DEF Settled
  <2>2. CASE published.ids \subseteq Songs!Named(Titles, "old")
    <3>1. ASSUME NEW s \in Titles, Songs!Old(s) \in published.ids PROVE FALSE
      <4>1. Songs!Old(s) \notin target
        BY <1>2 DEF Songs!Old, Songs!Named
      <4> QED
        BY <3>1, <4>1 DEF Songs!Moved, Songs!Missing
    <3>2. published.ids = {}
      BY <2>2, <3>1 DEF Songs!Named, Songs!Old
    <3> QED
      BY <3>2 DEF Settled
  <2> QED
    BY <2>1, <2>2 DEF ReleaseInv, OneScheme, OfOneScheme
<1> QED
  BY <1>1, <1>2 DEF ReleaseInv, ProviderOK

\* In a settled catalogue a song has one id, and its profile stays under it.
LEMMA DiffKeeps ==
  ASSUME ReleaseInv, Settled, NEW target, target \subseteq Songs!Named(Titles, library.scheme),
         published'.ids = target, profile' = profile \cap target
  PROVE  Songs!KeepsProfiles
<1> SUFFICES ASSUME NEW s \in Titles, Songs!Listed(s)', Songs!Has(profile, s)
             PROVE  Songs!Has(profile, s)'
  BY DEF Songs!KeepsProfiles
<1>1. PICK i \in profile \cap published.ids : i[1] = s
  BY DEF Songs!Has
<1>2. PICK j \in target : j[1] = s
  BY DEF Songs!Listed
<1>3. i = <<s, library.scheme>> /\ j = <<s, library.scheme>>
  BY <1>1, <1>2 DEF Settled, Songs!Named
<1> QED
  BY <1>1, <1>2, <1>3 DEF Songs!Has

LEMMA NothingLost ==
  ASSUME published'.ids = published.ids, profile \subseteq profile'
  PROVE  Songs!KeepsProfiles
BY DEF Songs!KeepsProfiles, Songs!Has

LEMMA ScanPublishes ==
  ASSUME ReleaseInv, NEW p \in Refreshers, Songs!PublishTrusted(p) \/ Songs!PublishChecked(p)
  PROVE  ReleaseInv' /\ Songs!KeepsProfiles
<1>1. PICK target : target = light[p].ids
  OBVIOUS
<1>2. /\ light[p].phase = "fetched" /\ OfOneScheme(target)
      /\ UpToDate(light[p]) => target \subseteq Songs!Named(Titles, library.scheme)
      /\ Trusted(light[p]) /\ UpToDate(light[p]) => Sound
      /\ light[p].version = "after" => library.version = "after"
  BY <1>1 DEF Songs!PublishTrusted, Songs!PublishChecked, ReleaseInv, RefreshesOK, RefreshOK
<1>3. UpToDate(light[p]) => Sound
  <2>1. CASE Trusted(light[p])
    BY <1>2, <2>1
  <2>2. CASE ~Trusted(light[p])
    <3>1. Songs!Moved(target) = {} /\ Songs!Missing(target) = {}
      BY <1>1, <2>2 DEF Songs!PublishTrusted, Songs!PublishChecked, Songs!Inspection, Trusted
    <3> QED
      BY <1>2, <3>1, UnchangedIsSettled DEF Sound
  <2> QED
    BY <2>1, <2>2
<1>4. /\ published' = [generation |-> published.generation + IF target = published.ids THEN 0 ELSE 1,
                       ids |-> target, stray |-> ~UpToDate(light[p])]
      /\ profile' = profile \cap target /\ library' = library
      /\ light' = [light EXCEPT ![p] = Songs!Idle]
  BY <1>1 DEF Songs!PublishTrusted, Songs!PublishChecked, Songs!Diff, Songs!Leave, Songs!Overtaken, UpToDate
<1>5. /\ published'.ids = target /\ published'.stray = ~UpToDate(light[p])
      /\ published'.generation \in {published.generation, published.generation + 1}
  BY <1>4 DEF ReleaseInv, OneScheme
<1>6. Sound'
  BY <1>2, <1>4, <1>5 DEF Sound, Settled
<1>7. PICK b : b = backfill
  OBVIOUS
<1>8. TransIsRecord(b) /\ (b.state = "applied" => library.version = "after")
      /\ (b.version = "after" => library.version = "after")
      /\ (b.checked = "after" => library.version = "after")
  BY <1>7 DEF ReleaseInv, TransOK
<1>9. PICK x : x = backfill'
  OBVIOUS
<1>20. PICK heard : heard = Songs!Heard(p)
  OBVIOUS
<1>21. heard = "after" => library.version = "after"
  BY <1>2, <1>7, <1>8, <1>20 DEF Songs!Heard
<1>10. /\ TransIsRecord(x) /\ x.version \in {b.version, heard} /\ x.checked \in {b.checked, heard}
       /\ x.state \in {b.state, "normal"}
  <2>1. CASE Songs!PublishTrusted(p)
    BY <1>7, <1>8, <1>9, <2>1 DEF Songs!PublishTrusted
  <2>2. CASE Songs!PublishChecked(p)
    <3>1. \/ x = [b EXCEPT !.version = heard, !.checked = heard, !.base = Songs!Now]
          \/ x = [b EXCEPT !.state = "normal", !.named = FALSE, !.base = Songs!Now,
                           !.version = heard, !.checked = heard, !.target = {}, !.scans = 0]
      BY <1>7, <1>9, <1>20, <2>2 DEF Songs!PublishChecked
    <3>2. PICK st, n, bs, t, sc : st = x.state /\ n = x.named /\ bs = x.base /\ t = x.target /\ sc = x.scans
      OBVIOUS
    <3>3. x = [state |-> st, named |-> n, version |-> heard, checked |-> heard,
               base |-> bs, target |-> t, scans |-> sc, health |-> b.health]
      BY <1>8, <3>1, <3>2 DEF TransIsRecord
    <3>4. TransIsRecord(x) /\ x.version = heard /\ x.checked = heard
      BY <3>3 DEF TransIsRecord
    <3>5. x.state \in {b.state, "normal"}
      BY <1>8, <3>1 DEF TransIsRecord
    <3> QED
      BY <3>4, <3>5
  <2> QED
    BY <2>1, <2>2
<1>11. ReleaseInv'
  BY <1>2, <1>4, <1>5, <1>6, <1>7, <1>8, <1>9, <1>10, <1>21, RefreshEnds
<1>12. CASE UpToDate(light[p]) /\ Settled
  BY <1>2, <1>4, <1>5, <1>11, <1>12, DiffKeeps
<1>13. CASE ~UpToDate(light[p]) \/ published.stray
  BY <1>5, <1>11, <1>13 DEF Songs!KeepsProfiles, Songs!Stray
<1> QED
  BY <1>3, <1>12, <1>13 DEF Sound

LEMMA ScanCounts ==
  ASSUME ReleaseInv, NEW p \in Refreshers, Songs!Count(p) \/ Songs!Block(p)
  PROVE  ReleaseInv' /\ Songs!KeepsProfiles
<1>1. PICK b, x, t, n, heard : /\ b = backfill /\ x = backfill' /\ t = light[p].ids
                               /\ n = Songs!Scans(t) /\ heard = Songs!Heard(p)
  OBVIOUS
<1>2. PICK st \in {"transition_pending", "blocked"} :
        x = [b EXCEPT !.state = st, !.named = TRUE, !.version = heard, !.target = t, !.scans = n]
  BY <1>1 DEF Songs!Count, Songs!Block
<1>20. heard = "after" => library.version = "after"
  BY <1>1 DEF Songs!Heard, Songs!Count, Songs!Block, ReleaseInv, RefreshesOK, RefreshOK, TransOK
<1>3. TransIsRecord(x) /\ x.state = st /\ x.version = heard /\ x.checked = b.checked
  <2>1. TransIsRecord(b)
    BY <1>1 DEF ReleaseInv, TransOK
  <2> QED
    <3>1. x = [state |-> st, named |-> TRUE, version |-> heard, checked |-> b.checked,
               base |-> b.base, target |-> t, scans |-> n, health |-> b.health]
      BY <1>2, <2>1 DEF TransIsRecord
    <3> QED
      BY <3>1 DEF TransIsRecord
<1>4. UNCHANGED <<published, profile, library>> /\ light' = [light EXCEPT ![p] = Songs!Idle]
  BY DEF Songs!Count, Songs!Block, Songs!Leave
<1>5. ReleaseInv'
  BY <1>1, <1>2, <1>3, <1>4, <1>20, RefreshEnds DEF ReleaseInv, OneScheme, TransOK, Sound, Settled
<1> QED
  BY <1>4, <1>5, NothingLost

LEMMA RekeyKeeps ==
  ASSUME ReleaseInv, NEW p \in Refreshers, Songs!Rekey(p)
  PROVE  ReleaseInv' /\ Songs!KeepsProfiles
<1>1. PICK b, x, target, n, heard : /\ b = backfill /\ x = backfill' /\ target = light[p].ids
                                    /\ n = Songs!Scans(target) /\ heard = Songs!Heard(p)
  OBVIOUS
<1>2. library' = library /\ light' = [light EXCEPT ![p] = Songs!Idle]
  BY DEF Songs!Rekey, Songs!Leave
<1>3. /\ OfOneScheme(target)
      /\ heard = "after" => library.version = "after"
  BY <1>1 DEF Songs!Rekey, Songs!Heard, ReleaseInv, RefreshesOK, RefreshOK, TransOK
<1>4. CASE UNCHANGED Songs!plugin
  <2>1. UNCHANGED <<published, profile, backfill>>
    BY <1>4 DEF Songs!plugin
  <2>2. ReleaseInv'
    BY <1>2, <2>1, RefreshEnds DEF ReleaseInv, OneScheme, TransOK, Sound, Settled
  <2> QED
    BY <2>1, <2>2, NothingLost
<1>5. CASE Songs!Carried(p)
  <2>1. /\ published' = [generation |-> published.generation + 1, ids |-> target,
                         stray |-> Songs!Overtaken(light[p])]
        /\ profile' = Songs!MovedRows(profile, target) \cap target
    BY <1>1, <1>5 DEF Songs!Carried
  <2>2. PICK s \in Titles : Songs!Old(s) \in published.ids /\ Songs!New(s) \in target
    BY <1>1 DEF Songs!Rekey, Songs!Inspection, Songs!Moved
  <2>3. /\ library.scheme = "new" /\ library.version = "after"
        /\ published.ids \subseteq Songs!Named(Titles, "old")
        /\ target \subseteq Songs!Named(Titles, "new")
    BY <1>3, <2>2 DEF ReleaseInv, ProviderOK, OneScheme, OfOneScheme, Songs!Named, Songs!Old, Songs!New
  <2>4. published'.ids = target /\ published'.generation = published.generation + 1 /\ Sound'
    BY <1>2, <2>1, <2>3 DEF Sound, Settled
  <2>5. PICK h : h = Songs!Health(projected'.links)
    OBVIOUS
  <2>6. x = [b EXCEPT !.state = "applied", !.version = heard, !.checked = heard, !.target = target,
                      !.scans = n, !.health = h]
    BY <1>1, <1>5, <2>5 DEF Songs!Carried
  <2>7. TransIsRecord(x) /\ x.state = "applied" /\ x.version = heard /\ x.checked = heard
    <3>1. TransIsRecord(b)
      BY <1>1 DEF ReleaseInv, TransOK
    <3> QED
      <4>1. x = [state |-> "applied", named |-> b.named, version |-> heard,
                 checked |-> heard, base |-> b.base, target |-> target, scans |-> n,
                 health |-> h]
        BY <2>6, <3>1 DEF TransIsRecord
      <4> QED
        BY <4>1 DEF TransIsRecord
  <2>8. ReleaseInv'
    BY <1>1, <1>2, <1>3, <2>3, <2>4, <2>7, RefreshEnds DEF ReleaseInv, TransOK
  <2>9. ASSUME NEW u \in Titles, Songs!Listed(u)', Songs!Has(profile, u)
        PROVE  Songs!Has(profile, u)'
    <3>1. PICK i \in profile \cap published.ids : i[1] = u
      BY <2>9 DEF Songs!Has
    <3>2. i = <<u, "old">>
      BY <2>3, <3>1 DEF Songs!Named
    <3>3. <<u, "new">> \in target
      BY <2>3, <2>4, <2>9 DEF Songs!Listed, Songs!Named
    <3>4. <<u, "old">> \notin target
      BY <2>3 DEF Songs!Named
    <3>5. u \in Songs!Moved(target)
      BY <3>1, <3>2, <3>3, <3>4 DEF Songs!Moved, Songs!Old, Songs!New
    <3>6. u \in {r[1] : r \in profile}
      BY <3>1
    <3>7. <<u, "new">> \in Songs!Named(Songs!Moved(target) \cap {r[1] : r \in profile}, "new")
      BY <3>5, <3>6 DEF Songs!Named
    <3>8. <<u, "new">> \in profile'
      BY <2>1, <3>3, <3>7 DEF Songs!MovedRows
    <3> QED
      BY <2>4, <3>3, <3>8 DEF Songs!Has
  <2> QED
    BY <2>8, <2>9 DEF Songs!KeepsProfiles
<1> QED
  BY <1>4, <1>5 DEF Songs!Rekey

LEMMA ProjectionsKeep ==
  ASSUME ReleaseInv, \/ Songs!Pings \/ Songs!Projects \/ Songs!RecheckHealth \/ Songs!MappingMoves
                     \/ \E i \in published.ids : Songs!PublishProfile(i)
  PROVE  ReleaseInv' /\ Songs!KeepsProfiles
<1>1. /\ UNCHANGED <<library, published, light>> /\ profile \subseteq profile'
  BY DEF Songs!Pings, Songs!Projects, Songs!StartProjection, Songs!LockAnalysis, Songs!PublishProjection,
     Songs!RecheckHealth, Songs!MappingMoves, Songs!PublishProfile, Songs!plugin
<1>2. RefreshesOK'
  BY <1>1 DEF ReleaseInv, RefreshesOK, RefreshOK, OfOneScheme, Trusted, UpToDate, Sound, Settled
<1>3. CASE Songs!StartProjection \/ Songs!Pings
  <2>1. PICK state \in {"normal", "transition_pending", "applied", "blocked"} : Songs!Observe(state)
    BY <1>3 DEF Songs!StartProjection, Songs!Pings, Songs!States
  <2> QED
    BY <1>1, <1>2, <2>1, PingKeeps, NothingLost
<1>4. CASE Songs!RecheckHealth
  <2>1. PICK b, x, h : b = backfill /\ x = backfill' /\ h = x.health
    OBVIOUS
  <2>2. TransIsRecord(b) /\ x = [b EXCEPT !.health = Songs!Health(projected.links)]
    BY <1>4, <2>1 DEF Songs!RecheckHealth, ReleaseInv, TransOK
  <2>3. x = [state |-> b.state, named |-> b.named, version |-> b.version, checked |-> b.checked,
             base |-> b.base, target |-> b.target, scans |-> b.scans, health |-> h]
    BY <2>1, <2>2 DEF TransIsRecord
  <2>4. TransIsRecord(x) /\ x.state = b.state /\ x.version = b.version /\ x.checked = b.checked
    BY <2>3 DEF TransIsRecord
  <2> QED
    BY <1>1, <1>2, <2>1, <2>4, ReleaseStays, NothingLost DEF ReleaseInv, TransOK
<1>5. CASE \/ Songs!LockAnalysis \/ Songs!PublishProjection \/ Songs!MappingMoves
           \/ \E i \in published.ids : Songs!PublishProfile(i)
  <2>1. UNCHANGED backfill
    BY <1>5 DEF Songs!LockAnalysis, Songs!PublishProjection, Songs!MappingMoves,
       Songs!PublishProfile, Songs!plugin
  <2> QED
    BY <1>1, <2>1, ReleaseQuiet, NothingLost
<1> QED
  BY <1>3, <1>4, <1>5 DEF Songs!Projects

LEMMA ReleaseStep ==
  ASSUME ReleaseInv, Songs!Next
  PROVE  ReleaseInv' /\ Songs!KeepsProfiles
<1>1. CASE \/ \E scheme \in {"old", "new"} : Songs!Upgrade(scheme)
           \/ \E S \in SUBSET Titles : Songs!SongsMove(S)
  <2>1. UNCHANGED <<published, profile>>
    BY <1>1 DEF Songs!Upgrade, Songs!SongsMove, Songs!plugin
  <2> QED
    BY <1>1, <2>1, ProviderMoves, NothingLost
<1>2. ASSUME NEW p \in Refreshers, Songs!Refreshes(p) PROVE ReleaseInv' /\ Songs!KeepsProfiles
  <2>1. CASE Songs!StartRefresh(p) \/ Songs!Fetch(p) \/ Songs!FetchFails(p)
    <3>1. UNCHANGED <<published, profile>>
      BY <2>1 DEF Songs!StartRefresh, Songs!Fetch, Songs!FetchFails, Songs!plugin
    <3> QED
      BY <2>1, <3>1, RefreshStarts, RefreshFetches, NothingLost
  <2> QED
    BY <1>2, <2>1, ScanPublishes, ScanCounts, RekeyKeeps DEF Songs!Refreshes
<1> QED
  BY <1>1, <1>2, ProjectionsKeep DEF Songs!Next

-----------------------------------------------------------------------------
(* The moves of a Jellyfin source: `published` is the generation, `light`     *)
(* what each refresh fetched, `songs` the held tracks.                        *)

ScansOK == light = [p \in Refreshers |-> light[p]]

LEMMA MovesKept ==
  ASSUME ScansOK, NEW p \in Refreshers, Paths!Publish(p) \/ Paths!Rekey(p)
  PROVE  Paths!FollowsMoves
<1>1. PICK r : r = light[p]
  OBVIOUS
<1>2. published'.ids = Paths!Target(r)
  BY <1>1 DEF Paths!Publish, Paths!Rekey
<1>3. \A q \in Refreshers : light'[q] # light[q] => q = p
  BY DEF ScansOK, Paths!Publish, Paths!Rekey, Paths!Leave
<1> SUFFICES ASSUME NEW i \in published.ids, i \notin Paths!Target(r), Paths!Read(i),
                    ~(Paths!Age(i) >= Grace)
             PROVE  Paths!Followed(i)
  BY <1>2 DEF Paths!FollowsMoves
<1>4. FolderOf[i] \in r.read
  BY <1>1, <1>3 DEF Paths!Read
<1>5. i \notin Paths!HeldBack(r)
  BY DEF Paths!HeldBack, Paths!Likely, Paths!News, Paths!Paired, Paths!Fresh
<1>6. i \in Paths!Missing(r)
  BY <1>4, <1>5 DEF Paths!Target, Paths!Missing
<1>7. i \in Paths!Olds(Paths!PairsNow(r))
  <2>1. CASE i \in Paths!Kept(r)
    BY <2>1 DEF Paths!Target
  <2>2. CASE i \notin Paths!Kept(r)
    <3>1. i \in Paths!Olds(Paths!Paired(r))
      BY <1>6, <2>2 DEF Paths!Kept, Paths!Expired
    <3> QED
      BY <1>6, <2>2, <3>1 DEF Paths!Kept, Paths!Expired
  <2> QED
    BY <2>1, <2>2
<1>8. Paths!PairsNow(r) = Paths!Paired(r) /\ Paths!Likely(r) = {} /\ Paths!HeldBack(r) = {}
  BY <1>7 DEF Paths!PairsNow, Paths!Olds, Paths!HeldBack
<1>9. PICK m \in Paths!PairsNow(r) : m[1] = i
  BY <1>7 DEF Paths!Olds
<1>10. /\ m[2] \in Paths!Fresh(r)
       /\ m[2] \in Paths!Live(r, SongAt[i])
  BY <1>8, <1>9 DEF Paths!Paired
<1>11. m[2] \in Paths!Target(r) /\ m[2] \notin published.ids /\ SongAt[m[2]] = SongAt[i]
  BY <1>8, <1>10 DEF Paths!Fresh, Paths!Target, Paths!Live
<1>12. profile' = Paths!Moved(profile, Paths!PairsNow(r)) \cap Paths!Target(r)
  BY <1>1, <1>7 DEF Paths!Publish, Paths!Rekey, Paths!Olds
<1>13. i \in profile => m[2] \in profile'
  BY <1>9, <1>11, <1>12 DEF Paths!Moved
<1> QED
  BY <1>2, <1>11, <1>13 DEF Paths!Followed

LEMMA PathStep ==
  ASSUME ScansOK, Paths!Next
  PROVE  ScansOK' /\ Paths!FollowsMoves
<1>1. ScansOK'
  BY DEF Paths!Next, Paths!FilesMove, Paths!Select, Paths!AnotherServer, Paths!ServerReturns,
     Paths!JobStarts, Paths!JobEnds, Paths!DayPasses, Paths!Refreshes, Paths!Fetch, Paths!Refuse,
     Paths!Publish, Paths!Prove, Paths!Rekey, Paths!RekeyFails, Paths!Project, Paths!Leave, ScansOK
<1>2. \/ published' = published
      \/ \E p \in Refreshers : Paths!Publish(p) \/ Paths!Rekey(p)
  BY DEF Paths!Next, Paths!FilesMove, Paths!Select, Paths!AnotherServer, Paths!ServerReturns,
     Paths!JobStarts, Paths!JobEnds, Paths!DayPasses, Paths!Refreshes, Paths!Fetch, Paths!Refuse,
     Paths!Prove, Paths!RekeyFails, Paths!Project, Paths!Leave, Paths!plugin
<1>3. published' = published => Paths!FollowsMoves
  BY DEF Paths!FollowsMoves
<1> QED
  BY <1>1, <1>2, <1>3, MovesKept

\* A song keeps its profile whatever becomes of its id: under a Navidrome release that
\* renames every song, whenever it comes and however any number of refreshes, proofs and
\* projections interleave with it, a song that stays listed keeps it, but for the
\* publication of a refresh that the release overtook and the one that replaces it; under Jellyfin a published id that goes away was moved with
\* its profile, had its grace time, or is of a library no longer read
\* (provider_identity_guard.py, provider_identity_rekey.py, jellyfin_continuity.py).
THEOREM ProfilesFollowTheirSongs == SuiteSpec => RekeysKeepRows
<1> DEFINE Inv == (focus = "songs" => ReleaseInv) /\ (focus = "paths" => ScansOK)
           Kept == (focus = "songs" => Songs!KeepsProfiles) /\ (focus = "paths" => Paths!FollowsMoves)
<1>1. SuiteInit => Inv
  BY ReleaseBegins DEF SuiteInit, Paths!Init, ScansOK
<1>2. Inv /\ [SuiteNext]_all => Inv' /\ [Kept]_all
  <2> SUFFICES ASSUME Inv, [SuiteNext]_all PROVE Inv' /\ [Kept]_all
    OBVIOUS
  <2>1. CASE SuiteNext
    <3>1. focus' = focus
      BY <2>1 DEF SuiteNext
    <3>2. CASE focus = "songs"
      BY <2>1, <3>1, <3>2, ReleaseStep DEF SuiteNext
    <3>3. CASE focus = "paths"
      BY <2>1, <3>1, <3>3, PathStep DEF SuiteNext
    <3> QED
      BY <3>1, <3>2, <3>3
  <2>2. CASE UNCHANGED all
    <3>1. UNCHANGED <<library, published, backfill, light, focus>>
      BY <2>2 DEF all, vars, world, catalogue, rows
    <3> QED
      BY <2>2, <3>1, ReleaseQuiet DEF ScansOK
  <2> QED
    BY <2>1, <2>2
<1> QED
  BY <1>1, <1>2, PTL DEF SuiteSpec, RekeysKeepRows
=============================================================================
