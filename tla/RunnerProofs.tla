----------------------------- MODULE RunnerProofs -----------------------------
(* A leader never sleeps through recorded work, and nobody takes the on-demand *)
(* work of a leader that serves it: for any number of processes, rows, faults  *)
(* and AudioMuse jobs.                                                         *)
EXTENDS Runner, TLAPS

-----------------------------------------------------------------------------
(* The type invariant.  What a process keeps depends on its phase.           *)

Actions == {"demand", "light", "heavy"}
Busy == {"looking", "draining", "closing"}

Record ==
    [phase : {"down", "standby"}]
      \cup [phase : {"top"}, new : BOOLEAN]
      \cup [phase : Busy, new : BOOLEAN, lane : SUBSET Actions, settled : SUBSET Actions,
            worked : BOOLEAN]
      \cup [phase : {"acting"}, new : BOOLEAN, lane : SUBSET Actions, settled : SUBSET Actions,
            worked : BOOLEAN, on : SUBSET (Demands \cup Jobs)]
      \cup [phase : {"asleep"}, new : BOOLEAN, due : {"soon", "sweep"}, lane : SUBSET Actions]

States == {"idle", "queued", "more", "running", "abandoned", "cooling", "retry"}

RunnerTypeOK ==
    /\ lock \in [Roles -> Procs \cup {None}]
    /\ proc \in [Procs -> Record]
    /\ notified \in [Procs -> BOOLEAN]
    /\ online \in BOOLEAN
    /\ demand \in [Demands -> {"unasked", "waiting", "ended"} \cup Roles]
    /\ job \in [Jobs -> [state : States, failures : Nat]]
    /\ host \in {"idle", "analysis", "rewrite", "paused"}

(* A leader that closes its turn without work, or sleeps to its sweep, and that *)
(* no notification waits for.                                                   *)
Calm(p) ==
    /\ \/ proc[p].phase = "closing"
       \/ proc[p].phase = "asleep" /\ proc[p].due = "sweep"
    /\ Connected(p) /\ ~notified[p]

(* The actions it looked for to the end.                                        *)
Seen(p) ==
    IF proc[p].phase = "closing" THEN proc[p].lane \ proc[p].settled ELSE proc[p].lane

(* From the look on that found nothing: the strengthening of                    *)
(* SleepersMissNothing that is inductive.                                       *)
CalmMissNothing ==
    \A p \in Procs : Calm(p) => \A action \in Seen(p) : ~Recorded(action)

RunnerInv == RunnerTypeOK /\ CalmMissNothing
-----------------------------------------------------------------------------
(* Types.                                                                    *)

LEMMA RolesOfProcs == ASSUME NEW p \in Procs PROVE RoleOf(p) \in Roles
  BY DEF RoleOf, Roles

LEMMA KindsOfJobs == ASSUME NEW j \in Jobs PROVE KindOf(j) \in Actions
  BY DEF KindOf, Actions

LEMMA LaneType == ASSUME NEW r \in Roles PROVE Allowed(r) \in SUBSET Actions
  BY DEF Allowed, Lane, Actions

(* What AfterReleases, Freed and Notified leave. *)
LEMMA ReleasedType ==
    ASSUME RunnerTypeOK, NEW p \in Procs, NEW keeps \in BOOLEAN
    PROVE  AfterReleases(p, keeps) \in [Demands -> {"unasked", "waiting", "ended"} \cup Roles]
  BY DEF RunnerTypeOK, AfterReleases, Released

LEMMA FreedType ==
    ASSUME RunnerTypeOK, NEW p \in Procs PROVE Freed(p) \in [Roles -> Procs \cup {None}]
  BY DEF RunnerTypeOK, Freed

LEMMA NotifiedType ==
    ASSUME RunnerTypeOK PROVE Notified \in [Procs -> BOOLEAN]
  BY DEF RunnerTypeOK, Notified, Connected

LEMMA InitTyped == ASSUME Init PROVE RunnerTypeOK
  <1>1. Down \in Record
    BY DEF Down, Record
  <1>2. job \in [Jobs -> [state : States, failures : Nat]]
    BY DEF Init, States
  <1> QED
    BY <1>1, <1>2 DEF Init, RunnerTypeOK

(* The record of a process that acts, and what it leaves when it ends. *)
LEMMA TakeType ==
    ASSUME RunnerTypeOK, NEW p \in Procs, NEW work \in SUBSET (Demands \cup Jobs),
           proc[p].phase = "looking", NEW ds, NEW js, Take(p, work, ds, js)
    PROVE  proc' \in [Procs -> Record]
  BY DEF RunnerTypeOK, Take, Record, Busy

LEMMA EndedType ==
    ASSUME RunnerTypeOK, NEW p \in Procs, NEW moved \in BOOLEAN, NEW settled \in SUBSET Actions,
           proc[p].phase = "acting", Ended(p, moved, settled)
    PROVE  proc' \in [Procs -> Record]
  BY DEF RunnerTypeOK, Ended, Record, Busy

(* What is recorded, and who notices. *)
LEMMA RecordingType ==
    ASSUME RunnerTypeOK,
           \/ \E d \in Demands : Request(d) \/ Expires(d)
           \/ \E j \in Jobs : Admit(j) \/ RetryComesDue(j) \/ GoesStale(j)
           \/ HeartbeatAges \/ Heartbeat \/ HostChanges
    PROVE  RunnerTypeOK'
  <1>1. ASSUME NEW d \in Demands, Request(d) PROVE RunnerTypeOK'
    BY <1>1, NotifiedType DEF RunnerTypeOK, Request, world
  <1>2. ASSUME NEW d \in Demands, Expires(d) PROVE RunnerTypeOK'
    BY <1>2 DEF RunnerTypeOK, Expires, world
  <1>3. ASSUME NEW j \in Jobs, Admit(j) PROVE RunnerTypeOK'
    BY <1>3, NotifiedType DEF RunnerTypeOK, Admit, world, States
  <1>4. ASSUME NEW j \in Jobs, RetryComesDue(j) PROVE RunnerTypeOK'
    BY <1>4 DEF RunnerTypeOK, RetryComesDue, world, States
  <1>5. ASSUME NEW j \in Jobs, GoesStale(j) PROVE RunnerTypeOK'
    BY <1>5 DEF RunnerTypeOK, GoesStale, world, States
  <1>6. CASE HeartbeatAges
    BY <1>6 DEF RunnerTypeOK, HeartbeatAges
  <1>7. CASE Heartbeat
    BY <1>7 DEF RunnerTypeOK, Heartbeat, world
  <1>8. CASE HostChanges
    BY <1>8, NotifiedType DEF RunnerTypeOK, HostChanges
  <1> QED
    BY <1>1, <1>2, <1>3, <1>4, <1>5, <1>6, <1>7, <1>8

(* Leadership. *)
LEMMA LeadershipType ==
    ASSUME RunnerTypeOK, NEW p \in Procs,
           Restart(p) \/ Acquire(p) \/ NoticeLoss(p) \/ Crash(p) \/ LoseConnection(p)
             \/ Wake(p) \/ TimesOut(p)
    PROVE  RunnerTypeOK'
  <1>1. CASE Restart(p)
    BY <1>1 DEF RunnerTypeOK, Restart, world, Standby, Record
  <1>2. CASE Acquire(p)
    BY <1>2, RolesOfProcs DEF RunnerTypeOK, Acquire, world, Record
  <1>3. CASE NoticeLoss(p)
    BY <1>3, FreedType DEF RunnerTypeOK, NoticeLoss, Leave, Standby, Record
  <1>4. CASE Crash(p)
    BY <1>4, FreedType DEF RunnerTypeOK, Crash, Leave, Down, Record
  <1>5. CASE LoseConnection(p)
    BY <1>5, FreedType DEF RunnerTypeOK, LoseConnection
  <1>6. CASE Wake(p)
    BY <1>6 DEF RunnerTypeOK, Wake, world, Record
  <1>7. CASE TimesOut(p)
    BY <1>7 DEF RunnerTypeOK, TimesOut, world, Record
  <1> QED
    BY <1>1, <1>2, <1>3, <1>4, <1>5, <1>6, <1>7

(* A turn. *)
LEMMA TurnType ==
    ASSUME RunnerTypeOK, NEW p \in Procs, TurnStep(p) \/ ServingFails(p)
    PROVE  RunnerTypeOK'
  <1>1. CASE StartTurn(p)
    <2>1. demand' \in [Demands -> {"unasked", "waiting", "ended"} \cup Roles]
      BY <1>1, ReleasedType DEF StartTurn, Blocked
    <2>2. notified' \in [Procs -> BOOLEAN]
      BY <1>1, NotifiedType DEF StartTurn, RunnerTypeOK
    <2>3. proc[p].new \in BOOLEAN
      BY <1>1 DEF StartTurn, RunnerTypeOK, Record, Busy
    <2>4. proc' \in [Procs -> Record]
      BY <1>1, <2>3, LaneType, RolesOfProcs DEF StartTurn, RunnerTypeOK, Record, Asleep, Busy
    <2> QED
      BY <1>1, <2>1, <2>2, <2>4 DEF RunnerTypeOK, StartTurn, world
  <1>2. CASE TakeDemands(p)
    <2>1. proc' \in [Procs -> Record]
      BY <1>2, TakeType DEF TakeDemands, Waiting
    <2> QED
      BY <1>2, <2>1, RolesOfProcs DEF RunnerTypeOK, TakeDemands, Take, world
  <1>3. ASSUME NEW j \in Jobs, TakeJob(p, j) PROVE RunnerTypeOK'
    <2>1. proc' \in [Procs -> Record]
      BY <1>3, TakeType DEF TakeJob
    <2> QED
      BY <1>3, <2>1 DEF RunnerTypeOK, TakeJob, Take, world, States
  <1>4. CASE Served(p)
    <2>1. proc' \in [Procs -> Record]
      BY <1>4, EndedType DEF Served
    <2> QED
      BY <1>4, <2>1 DEF RunnerTypeOK, Served, world
  <1>5. CASE ServingFails(p)
    <2>1. proc' \in [Procs -> Record]
      BY <1>5, EndedType DEF ServingFails, Actions
    <2> QED
      BY <1>5, <2>1 DEF RunnerTypeOK, ServingFails
  <1>6. ASSUME NEW j \in Jobs, JobSucceeds(p, j) PROVE RunnerTypeOK'
    <2>1. proc' \in [Procs -> Record]
      BY <1>6, EndedType, KindsOfJobs DEF JobSucceeds, Acting
    <2> QED
      BY <1>6, <2>1 DEF RunnerTypeOK, JobSucceeds, world, States, Outcomes
  <1>7. ASSUME NEW j \in Jobs, JobFails(p, j) PROVE RunnerTypeOK'
    <2>1. proc' \in [Procs -> Record]
      BY <1>7, EndedType, KindsOfJobs DEF JobFails, Acting
    <2> QED
      BY <1>7, <2>1 DEF RunnerTypeOK, JobFails, Retried, world, States
  <1>8. CASE EndTurn(p)
    BY <1>8 DEF RunnerTypeOK, EndTurn, world, Record, Busy
  <1>9. CASE Sleep(p)
    BY <1>9 DEF RunnerTypeOK, Sleep, world, Record, Busy
  <1>10. CASE Drain(p)
    BY <1>10 DEF RunnerTypeOK, Drain, world, Record
  <1> QED
    BY <1>1, <1>2, <1>3, <1>4, <1>5, <1>6, <1>7, <1>8, <1>9, <1>10 DEF TurnStep

LEMMA NextType == ASSUME RunnerTypeOK, [Next]_vars PROVE RunnerTypeOK'
  <1>1. CASE UNCHANGED vars
    BY <1>1 DEF RunnerTypeOK, vars
  <1>2. CASE Next
    BY <1>2, RecordingType, LeadershipType, TurnType DEF Next, ProcStep
  <1> QED
    BY <1>1, <1>2
-----------------------------------------------------------------------------
(* Sleepers.                                                                 *)

(* A process that stays as it was in a step that records nothing new and drops *)
(* no notification keeps what it missed.                                       *)
LEMMA StaysCalm ==
    ASSUME NEW p \in Procs,
           Calm(p) => \A action \in Seen(p) : ~Recorded(action),
           Calm(p)' => proc'[p] = proc[p] /\ Calm(p),
           \A d \in Demands : demand'[d] = "waiting" => demand[d] = "waiting" \/ ~Calm(p)',
           \A j \in Jobs : job'[j].state = "queued" => job[j].state = "queued" \/ ~Calm(p)'
    PROVE  (Calm(p) => \A action \in Seen(p) : ~Recorded(action))'
  BY DEF Calm, Seen, Recorded, Waiting

(* A committed change that records work reaches every connected leader. *)
LEMMA NotifiedAreNotCalm ==
    ASSUME RunnerTypeOK, NEW p \in Procs, notified' = Notified,
           proc'[p] = proc[p], lock' = lock
    PROVE  ~Calm(p)'
  BY DEF Calm, Notified, Connected, RunnerTypeOK

(* A process that leaves frees its lock and nobody takes it in that step. *)
LEMMA LeavesOthersCalm ==
    ASSUME RunnerTypeOK, NEW p \in Procs, NEW q \in Procs \ {p},
           lock' = Freed(p), notified' = [notified EXCEPT ![p] = FALSE],
           proc'[q] = proc[q], Calm(q)'
    PROVE  Calm(q)
  BY RunnerAssumption, RolesOfProcs DEF Calm, Freed, Connected, RunnerTypeOK
(* Steps that record work, or change it without any process. *)
LEMMA RecordingCalm ==
    ASSUME RunnerInv, NEW q \in Procs,
           \/ \E d \in Demands : Request(d) \/ Expires(d)
           \/ \E j \in Jobs : Admit(j) \/ RetryComesDue(j) \/ GoesStale(j)
           \/ HeartbeatAges \/ Heartbeat \/ HostChanges
    PROVE  (Calm(q) => \A action \in Seen(q) : ~Recorded(action))'
  <1> USE DEF RunnerInv
  <1>0. Calm(q) => \A action \in Seen(q) : ~Recorded(action)
    BY DEF CalmMissNothing
  <1>1. CASE \E d \in Demands : Request(d)
    BY <1>1, NotifiedAreNotCalm DEF Request
  <1>2. CASE \E j \in Jobs : Admit(j)
    BY <1>2, NotifiedAreNotCalm DEF Admit
  <1>3. CASE \E d \in Demands : Expires(d)
    BY <1>0, <1>3, StaysCalm DEF Expires, Calm, Connected, RunnerTypeOK
  <1>4. CASE \E j \in Jobs : RetryComesDue(j) \/ GoesStale(j)
    BY <1>0, <1>4, StaysCalm DEF RetryComesDue, GoesStale, Calm, Connected, RunnerTypeOK
  <1>5. CASE HeartbeatAges \/ Heartbeat
    BY <1>0, <1>5, StaysCalm DEF HeartbeatAges, Heartbeat, world, Calm, Connected
  <1>6. CASE HostChanges
    <2>1. notified' = notified \/ notified' = Notified
      BY <1>6 DEF HostChanges
    <2>2. CASE notified' = Notified
      BY <1>6, <2>2, NotifiedAreNotCalm DEF HostChanges
    <2>3. CASE notified' = notified
      BY <1>0, <1>6, <2>3, StaysCalm DEF HostChanges, Calm, Connected
    <2> QED
      BY <2>1, <2>2, <2>3
  <1> QED
    BY <1>1, <1>2, <1>3, <1>4, <1>5, <1>6

(* A process that starts, leaves, takes its role or wakes is not calm after it. *)
LEMMA LeadershipCalm ==
    ASSUME RunnerInv, NEW q \in Procs, NEW p \in Procs,
           Restart(p) \/ Acquire(p) \/ NoticeLoss(p) \/ Crash(p) \/ LoseConnection(p)
             \/ Wake(p) \/ TimesOut(p)
    PROVE  (Calm(q) => \A action \in Seen(q) : ~Recorded(action))'
  <1> USE DEF RunnerInv
  <1>0. Calm(q) => \A action \in Seen(q) : ~Recorded(action)
    BY DEF CalmMissNothing
  <1>1. demand' = demand /\ job' = job
    BY DEF Restart, Acquire, NoticeLoss, Crash, LoseConnection, Wake, TimesOut, Leave
  <1>2. CASE p = q /\ ~LoseConnection(p)
    BY <1>2 DEF Restart, Acquire, NoticeLoss, Crash, Wake, TimesOut, Leave, Down, Standby,
                Calm, RunnerTypeOK
  <1>3. CASE p = q /\ LoseConnection(p)
    <2>1. ~Connected(q)'
      BY <1>3, RunnerAssumption, RolesOfProcs
         DEF LoseConnection, Freed, Connected, RunnerTypeOK
    <2> QED
      BY <2>1 DEF Calm
  <1>4. CASE p # q
    <2>1. proc'[q] = proc[q]
      BY <1>4 DEF Restart, Acquire, NoticeLoss, Crash, LoseConnection, Wake, TimesOut, Leave,
                  RunnerTypeOK
    <2>2. CASE NoticeLoss(p) \/ Crash(p) \/ LoseConnection(p)
      BY <1>0, <1>1, <1>4, <2>1, <2>2, StaysCalm, LeavesOthersCalm
         DEF NoticeLoss, Crash, LoseConnection, Leave
    <2>3. CASE Acquire(p)
      BY <1>0, <1>1, <1>4, <2>1, <2>3, StaysCalm, RolesOfProcs
         DEF Acquire, Calm, Connected, RunnerTypeOK
    <2>4. CASE Restart(p) \/ Wake(p) \/ TimesOut(p)
      BY <1>0, <1>1, <1>4, <2>1, <2>4, StaysCalm
         DEF Restart, Wake, TimesOut, Calm, Connected, RunnerTypeOK
    <2> QED
      BY <2>2, <2>3, <2>4
  <1> QED
    BY <1>2, <1>3, <1>4

(* A turn neither queues a row nor leaves a demand waiting unnoticed. *)
LEMMA TurnRecordsNothing ==
    ASSUME RunnerTypeOK, NEW p \in Procs, TurnStep(p) \/ ServingFails(p), ~StartTurn(p)
    PROVE  /\ \A d \in Demands : demand'[d] = "waiting" => demand[d] = "waiting"
           /\ \A j \in Jobs : job'[j].state = "queued" => job[j].state = "queued"
           /\ lock' = lock
           /\ \A q \in Procs \ {p} : notified'[q] = notified[q] /\ proc'[q] = proc[q]
  <1> USE RolesOfProcs DEF RunnerTypeOK, Roles, world
  <1>1. CASE TakeDemands(p)
    BY <1>1 DEF TakeDemands, Take, Waiting
  <1>2. CASE \E j \in Jobs : TakeJob(p, j)
    BY <1>2 DEF TakeJob, Take
  <1>3. CASE Served(p) \/ ServingFails(p)
    BY <1>3 DEF Served, ServingFails, Ended
  <1>4. CASE \E j \in Jobs : JobSucceeds(p, j) \/ JobFails(p, j)
    BY <1>4 DEF JobSucceeds, JobFails, Ended, Outcomes, Retried
  <1>5. CASE EndTurn(p) \/ Sleep(p) \/ Drain(p)
    BY <1>5 DEF EndTurn, Sleep, Drain
  <1> QED
    BY <1>1, <1>2, <1>3, <1>4, <1>5 DEF TurnStep

LEMMA TurnCalm ==
    ASSUME RunnerInv, NEW q \in Procs, NEW p \in Procs, TurnStep(p) \/ ServingFails(p)
    PROVE  (Calm(q) => \A action \in Seen(q) : ~Recorded(action))'
  <1> USE DEF RunnerInv
  <1>0. Calm(q) => \A action \in Seen(q) : ~Recorded(action)
    BY DEF CalmMissNothing
  <1>1. CASE StartTurn(p)
    <2>1. CASE p # q
      <3>1. proc'[q] = proc[q] /\ lock' = lock /\ job' = job
        BY <1>1, <2>1 DEF StartTurn, RunnerTypeOK
      <3>2. CASE notified' = Notified
        BY <3>1, <3>2, NotifiedAreNotCalm
      <3>3. CASE notified' # Notified
        BY <1>0, <1>1, <3>1, <3>3, StaysCalm DEF StartTurn, Calm, Connected
      <3> QED
        BY <3>2, <3>3
    <2>2. CASE p = q
      <3>1. proc'[q].phase = "closing" => FALSE
        BY <1>1, <2>2 DEF StartTurn, Asleep, RunnerTypeOK
      <3>2. proc'[q].phase = "asleep" /\ proc'[q].due = "sweep" => proc'[q].lane = {}
        BY <1>1, <2>2 DEF StartTurn, Asleep, RunnerTypeOK, Allowed
      <3> QED
        BY <3>1, <3>2 DEF Calm, Seen
    <2> QED
      BY <2>1, <2>2
  <1>2. CASE ~StartTurn(p) /\ p # q
    BY <1>0, <1>2, TurnRecordsNothing, StaysCalm DEF Calm, Connected
  <1>3. CASE p = q /\ EndTurn(p)
    <2>1. proc'[q].phase \in {"closing", "draining"} /\ proc'[q].lane = proc[q].lane
            /\ proc'[q].settled = proc[q].settled
      BY <1>3 DEF EndTurn, RunnerTypeOK, Record, Busy
    <2>2. SUFFICES ASSUME proc'[q].phase = "closing",
                          NEW action \in proc[q].lane \ proc[q].settled
                   PROVE  ~Recorded(action)'
      BY <2>1 DEF Calm, Seen
    <2>3. \A a \in {"demand", "light", "heavy"} : Work(q, a) = {}
      BY <1>3, <2>2 DEF EndTurn, RunnerTypeOK
    <2>4. CASE action = "demand"
      BY <1>3, <2>2, <2>3, <2>4 DEF Work, Recorded, EndTurn, Waiting
    <2>5. CASE action # "demand"
      <3> SUFFICES ASSUME NEW j \in Jobs, KindOf(j) = action, job[j].state = "queued"
                   PROVE  FALSE
        BY <1>3, <2>5 DEF Recorded, EndTurn
      <3>1. action \in {"light", "heavy"}
        BY DEF KindOf
      <3>2. j \in Work(q, action)
        BY <2>2, <2>5 DEF Work, Startable
      <3> QED
        BY <2>3, <3>1, <3>2
    <2> QED
      BY <2>4, <2>5
  <1>4. CASE p = q /\ Sleep(p)
    <2>1. proc[q].phase = "closing" /\ proc'[q].lane = Seen(q) /\ proc'[q].phase = "asleep"
            /\ demand' = demand /\ job' = job
      BY <1>4 DEF Sleep, Seen, RunnerTypeOK
    <2>2. Calm(q)' => Calm(q)
      BY <1>4, <2>1 DEF Calm, Connected, Sleep
    <2> QED
      BY <1>0, <2>1, <2>2 DEF Seen, Recorded, Waiting
  <1>5. CASE p = q /\ ~StartTurn(p) /\ ~EndTurn(p) /\ ~Sleep(p)
    <2>1. proc'[q].phase \in {"acting", "looking", "draining", "top"}
      BY <1>5 DEF TurnStep, TakeDemands, TakeJob, Take, Served, ServingFails, JobSucceeds,
                  JobFails, Ended, Drain, RunnerTypeOK
    <2> QED
      BY <2>1 DEF Calm
  <1> QED
    BY <1>1, <1>2, <1>3, <1>4, <1>5

LEMMA NextInv == ASSUME RunnerInv, [Next]_vars PROVE RunnerInv'
  <1>1. RunnerTypeOK'
    BY NextType DEF RunnerInv
  <1>2. ASSUME NEW q \in Procs
        PROVE  (Calm(q) => \A action \in Seen(q) : ~Recorded(action))'
    <2>1. CASE UNCHANGED vars
      BY <2>1, StaysCalm DEF vars, RunnerInv, CalmMissNothing, Calm, Connected
    <2>2. CASE Next
      BY <2>2, RecordingCalm, LeadershipCalm, TurnCalm DEF Next, ProcStep
    <2> QED
      BY <2>1, <2>2
  <1> QED
    BY <1>1, <1>2 DEF RunnerInv, CalmMissNothing

(* Types and what closed or sleeping leaders have seen, in every reachable state. *)
THEOREM RunnerInvariant == Spec => []RunnerInv
  <1>1. ASSUME Init PROVE RunnerInv
    <2>1. \A p \in Procs : proc[p].phase = "down"
      BY <1>1 DEF Init, Down
    <2>2. CalmMissNothing
      BY <2>1 DEF CalmMissNothing, Calm
    <2> QED
      BY <1>1, <2>2, InitTyped DEF RunnerInv
  <1>2. RunnerInv /\ [Next]_vars => RunnerInv'
    BY NextInv
  <1> QED
    BY <1>1, <1>2, PTL DEF Spec

(* A leader that sleeps to its sweep missed no recorded work of an action that *)
(* did not fail in its last turn: between its last look and its sleep no        *)
(* commit slips through without the notification that ends the sleep.          *)
THEOREM SleepersMissNoWork == Spec => []SleepersMissNothing
  <1>1. RunnerInv => SleepersMissNothing
    BY DEF RunnerInv, CalmMissNothing, Calm, Seen, SleepersMissNothing
  <1> QED
    BY <1>1, RunnerInvariant, PTL

-----------------------------------------------------------------------------
(* Claims.                                                                   *)

(* What a step leaves of on-demand work: waiting work is claimed or ends, a   *)
(* claim ends, or a turn that starts releases it.                             *)
LEMMA DemandStep ==
    ASSUME RunnerTypeOK, [Next]_vars, NEW d \in Demands, demand[d] \in Roles
    PROVE  \/ demand'[d] \in {demand[d], "ended"}
           \/ \E p \in Procs : StartTurn(p)
  <1> USE DEF RunnerTypeOK, Roles
  <1>1. CASE \E e \in Demands : Request(e) \/ Expires(e)
    BY <1>1 DEF Request, Expires
  <1>2. CASE \E p \in Procs : TakeDemands(p)
    BY <1>2 DEF TakeDemands, Take, Waiting
  <1>3. CASE \E p \in Procs : Served(p) \/ ServingFails(p)
    BY <1>3 DEF Served, ServingFails
  <1>4. CASE \E p \in Procs, j \in Jobs : TakeJob(p, j) \/ JobSucceeds(p, j) \/ JobFails(p, j)
    BY <1>4 DEF TakeJob, Take, JobSucceeds, JobFails
  <1>5. CASE \E p \in Procs : EndTurn(p) \/ Sleep(p) \/ Drain(p) \/ Restart(p) \/ Acquire(p)
                               \/ NoticeLoss(p) \/ Crash(p) \/ LoseConnection(p) \/ Wake(p)
                               \/ TimesOut(p)
    BY <1>5 DEF EndTurn, Sleep, Drain, Restart, Acquire, NoticeLoss, Crash, LoseConnection, Wake,
                TimesOut, Leave
  <1>6. CASE \/ \E j \in Jobs : Admit(j) \/ RetryComesDue(j) \/ GoesStale(j)
             \/ HeartbeatAges \/ Heartbeat \/ HostChanges \/ UNCHANGED vars
    BY <1>6 DEF Admit, RetryComesDue, GoesStale, HeartbeatAges, Heartbeat, HostChanges, vars
  <1> QED
    BY <1>1, <1>2, <1>3, <1>4, <1>5, <1>6 DEF Next, ProcStep, TurnStep

(* On-demand work stays with a leader that serves it, holds its lock and is    *)
(* seen online, or ends: whichever role starts, restarts or does its            *)
(* bookkeeping, unless a process of its role goes on with a lock it lost.       *)
THEOREM ClaimsOfServingLeadersStay == Spec => HeldClaimsStay
  <1>1. ASSUME RunnerTypeOK, [Next]_vars, NEW p \in Procs, NEW d \in Demands,
               Acting(p, d), demand[d] = RoleOf(p), p \in ServerProcs \/ online,
               \A q \in Procs \ {p} : RoleOf(q) = RoleOf(p) => ~Leads(q)
        PROVE  demand'[d] \in {RoleOf(p), "ended"}
    <2>1. ASSUME NEW q \in Procs, StartTurn(q) PROVE demand'[d] = demand[d]
      <3>1. RoleOf(q) # RoleOf(p)
        BY <1>1, <2>1 DEF StartTurn, Acting, Leads
      <3>2. ~(RoleOf(q) = "server" /\ ~online /\ RoleOf(p) = "worker")
        BY <1>1 DEF RoleOf
      <3>3. \A keeps : AfterReleases(q, keeps)[d] = demand[d]
        BY <1>1, <3>1, <3>2, RolesOfProcs DEF AfterReleases, Released, RoleOf
      <3> QED
        BY <2>1, <3>3 DEF StartTurn
    <2> QED
      BY <1>1, <2>1, DemandStep, RolesOfProcs
  <1>2. RunnerInv /\ [Next]_vars =>
          [\A p \in Procs, d \in Demands :
             Acting(p, d) /\ Connected(p) /\ demand[d] = RoleOf(p)
               /\ (p \in ServerProcs \/ online)
               /\ (\A q \in Procs \ {p} : RoleOf(q) = RoleOf(p) => ~Leads(q))
             => demand'[d] \in {RoleOf(p), "ended"}]_vars
    BY <1>1 DEF RunnerInv
  <1> QED
    BY <1>2, RunnerInvariant, PTL DEF Spec, HeldClaimsStay

=============================================================================
