-------------------------------- MODULE Runner --------------------------------
(* The background runners.  Each role has one leader, the process that holds *)
(* the role's advisory lock; it takes turns of the actions of its lane and   *)
(* sleeps until a notification, the soonest retry or a sweep.  On-demand     *)
(* work is claimed with the role's marker, and comes back when the role's    *)
(* leader went away; rows of recurring work carry a retry ladder.            *)
EXTENDS Naturals, FiniteSets

CONSTANTS
    ServerProcs,   \* web processes
    WorkerProcs,   \* queue workers
    Demands,       \* on-demand tracks
    Light, Heavy,  \* rows of recurring work: of a catalogue, of its tracks
    None,
    MaxCrashes,    \* bound: crashes, lost connections and missed heartbeats
    MaxFailures,   \* bound: failures of one row and of serving a track
    MaxHostJobs    \* bound: AudioMuse jobs and maintenance pauses

Procs == ServerProcs \cup WorkerProcs
Jobs == Light \cup Heavy

ASSUME RunnerAssumption ==
    /\ ServerProcs \cap WorkerProcs = {} /\ None \notin Procs
    /\ Light \cap Heavy = {} /\ Demands \cap Jobs = {}
    /\ {MaxCrashes, MaxFailures, MaxHostJobs} \subseteq Nat

Roles == {"server", "worker"}
RoleOf(p) == IF p \in ServerProcs THEN "server" ELSE "worker"
KindOf(j) == IF j \in Light THEN "light" ELSE "heavy"

VARIABLES
    setting,   \* heavy_work
    lock,      \* the process that holds each role's lock
    proc,      \* each process's phase, and what its turn keeps
    notified,  \* a NOTIFY or a local wake that the leader has not looked at
    online,    \* whether the worker runner's heartbeat is recent
    demand,    \* on-demand work: unasked, waiting, claimed by a role, ended
    job,       \* rows of recurring work, and their failures
    host,      \* the AudioMuse job that runs, or a maintenance pause
    faults, changes

vars == <<setting, lock, proc, notified, online, demand, job, host, faults, changes>>
world == <<setting, host, faults, changes>>

Down == [phase |-> "down"]
Standby == [phase |-> "standby"]
Leads(p) == proc[p].phase \notin {"down", "standby"}
Connected(p) == lock[RoleOf(p)] = p
Acting(p, w) == proc[p].phase = "acting" /\ w \in proc[p].on

\* Delivered to every connected leader when the transaction commits.
Notified == [p \in Procs |-> notified[p] \/ Connected(p)]

-----------------------------------------------------------------------------
(* Work as it is recorded.                                                 *)

Request(d) ==
    /\ demand[d] = "unasked"
    /\ demand' = [demand EXCEPT ![d] = "waiting"] /\ notified' = Notified
    /\ UNCHANGED <<world, lock, proc, online, job>>

\* A row is admitted again when it is neither queued nor running.
Admit(j) ==
    /\ job[j].state \in {"idle", "cooling", "retry"}
    /\ job' = [job EXCEPT ![j].state = "queued"] /\ notified' = Notified
    /\ UNCHANGED <<world, lock, proc, online, demand>>

RetryComesDue(j) ==
    /\ job[j].state = "cooling" /\ job' = [job EXCEPT ![j].state = "retry"]
    /\ UNCHANGED <<world, lock, proc, notified, online, demand>>

\* A running row that nobody updates any more may be taken over.
GoesStale(j) ==
    /\ job[j].state = "running" /\ ~\E p \in Procs : Acting(p, j)
    /\ job' = [job EXCEPT ![j].state = "abandoned"]
    /\ UNCHANGED <<world, lock, proc, notified, online, demand>>

\* The stale rules end a claim that nobody serves after an hour.
Expires(d) ==
    /\ demand[d] \in Roles /\ ~\E p \in Procs : Acting(p, d)
    /\ demand' = [demand EXCEPT ![d] = "ended"]
    /\ UNCHANGED <<world, lock, proc, notified, online, job>>

StartableUnlessAbandoned(j) == job[j].state \in {"queued", "more", "retry"}
Startable(j) == job[j].state \in {"queued", "more", "retry", "abandoned"}

-----------------------------------------------------------------------------
(* Leadership.                                                             *)

AcquireAsIfOld(p) ==
    /\ proc[p].phase = "standby" /\ lock[RoleOf(p)] = None
    /\ lock' = [lock EXCEPT ![RoleOf(p)] = p]
    /\ proc' = [proc EXCEPT ![p] = [phase |-> "top", new |-> FALSE]]
    /\ notified' = [notified EXCEPT ![p] = FALSE]
    /\ online' = (online \/ p \in WorkerProcs)
    /\ UNCHANGED <<world, demand, job>>
Acquire(p) ==
    /\ proc[p].phase = "standby" /\ lock[RoleOf(p)] = None
    /\ lock' = [lock EXCEPT ![RoleOf(p)] = p]
    /\ proc' = [proc EXCEPT ![p] = [phase |-> "top", new |-> TRUE]]
    /\ notified' = [notified EXCEPT ![p] = FALSE]
    /\ online' = (online \/ p \in WorkerProcs)
    /\ UNCHANGED <<world, demand, job>>

Freed(p) == [r \in Roles |-> IF lock[r] = p THEN None ELSE lock[r]]
Leave(p, next) ==
    /\ proc' = [proc EXCEPT ![p] = next] /\ lock' = Freed(p)
    /\ notified' = [notified EXCEPT ![p] = FALSE]
    /\ UNCHANGED <<setting, online, demand, job, host, changes>>

\* A restart, a kill, or an upgrade that the runner sees before a turn.  The
\* child process of an isolated action dies with it.
Crash(p) ==
    /\ proc[p] # Down /\ faults < MaxCrashes /\ faults' = faults + 1
    /\ Leave(p, Down)

\* The lock dies with the connection; the turn goes on until it touches it.
LoseConnection(p) ==
    /\ Leads(p) /\ Connected(p) /\ faults < MaxCrashes /\ faults' = faults + 1
    /\ lock' = Freed(p) /\ notified' = [notified EXCEPT ![p] = FALSE]
    /\ UNCHANGED <<setting, proc, online, demand, job, host, changes>>

NoticeLoss(p) ==
    /\ proc[p].phase \in {"closing", "draining", "asleep"} /\ ~Connected(p)
    /\ Leave(p, Standby) /\ UNCHANGED faults

Restart(p) ==
    /\ proc[p] = Down /\ proc' = [proc EXCEPT ![p] = Standby]
    /\ UNCHANGED <<world, lock, notified, online, demand, job>>

\* Ninety seconds without a heartbeat: the worker is gone, or its thread is slow.
HeartbeatAges ==
    /\ online
    /\ \/ lock["worker"] = None /\ UNCHANGED faults
       \/ faults < MaxCrashes /\ faults' = faults + 1
    /\ online' = FALSE
    /\ UNCHANGED <<setting, lock, proc, notified, demand, job, host, changes>>

Heartbeat ==
    /\ lock["worker"] # None /\ ~online /\ online' = TRUE
    /\ UNCHANGED <<world, lock, proc, notified, demand, job>>

-----------------------------------------------------------------------------
(* A turn.                                                                 *)

\* The worker steps aside for every AudioMuse job, the server for those that
\* rewrite track IDs.
Blocked(r) == host = "rewrite" \/ (r = "worker" /\ host = "analysis")

Lane(r) ==
    IF r = "worker" THEN IF setting = "server" THEN {} ELSE {"demand", "heavy"}
    ELSE CASE setting = "server" -> {"light", "demand", "heavy"}
           [] setting = "worker" -> {"light"}
           [] OTHER -> IF online THEN {"light"} ELSE {"light", "demand"}
\* Passes over the tracks wait while AudioMuse analyses.
Allowed(r) == Lane(r) \ (IF host = "analysis" THEN {"heavy"} ELSE {})

\* The claims of a role wait again.
ReleasedAnyRole(r, ds) == [d \in Demands |-> IF ds[d] \in Roles THEN "waiting" ELSE ds[d]]
Released(r, ds) == [d \in Demands |-> IF ds[d] = r THEN "waiting" ELSE ds[d]]
\* A new leader returns its role's claims before anything else; the server's
\* bookkeeping returns those of a worker that is not online.
AfterReleases(p, keeps) ==
    LET own == IF proc[p].new THEN Released(RoleOf(p), demand) ELSE demand
    IN IF keeps /\ RoleOf(p) = "server" /\ ~online THEN Released("worker", own) ELSE own

Asleep(p, due) == [phase |-> "asleep", new |-> FALSE, due |-> due, lane |-> Allowed(RoleOf(p))]

StartTurn(p) ==
    /\ proc[p].phase = "top"
    /\ LET r == RoleOf(p)
           stops == host = "paused" \/ Blocked(r)
       IN /\ demand' = AfterReleases(p, ~stops)
          /\ proc' = [proc EXCEPT ![p] =
               IF host = "paused" THEN [Asleep(p, "sweep") EXCEPT !.lane = {}]
               ELSE IF Blocked(r) THEN Asleep(p, "soon")
               ELSE IF Lane(r) = {} THEN Asleep(p, "sweep")
               ELSE [phase |-> "looking", new |-> proc[p].new, lane |-> Allowed(r),
                     settled |-> {}, worked |-> FALSE]]
    /\ notified' = IF demand' = demand THEN notified ELSE Notified
    /\ UNCHANGED <<world, lock, online, job>>

Waiting == {d \in Demands : demand[d] = "waiting"}
\* What the turn finds for an action it may still run.
Work(p, action) ==
    IF action \notin proc[p].lane \ proc[p].settled THEN {}
    ELSE IF action = "demand" THEN Waiting
    ELSE {j \in Jobs : KindOf(j) = action /\ Startable(j)}

Take(p, work, ds, js) ==
    /\ proc' = [proc EXCEPT ![p] = [phase |-> "acting", new |-> @.new, lane |-> @.lane,
                                    settled |-> @.settled, worked |-> @.worked, on |-> work]]
    /\ demand' = ds /\ job' = js
    /\ UNCHANGED <<world, lock, notified, online>>

\* On-demand work first, then the light lane, then the heavy one, a row at a time.
TakeDemands(p) ==
    /\ proc[p].phase = "looking" /\ Work(p, "demand") # {}
    /\ Take(p, Waiting, [d \in Demands |-> IF d \in Waiting THEN RoleOf(p) ELSE demand[d]], job)

TakeJob(p, j) ==
    /\ proc[p].phase = "looking" /\ Work(p, "demand") = {}
    /\ j \in (IF Work(p, "light") # {} THEN Work(p, "light") ELSE Work(p, "heavy"))
    /\ Take(p, {j}, demand, [job EXCEPT ![j].state = "running"])

\* An action's end: whether it moved on, and whether the turn is done with it.
Ended(p, moved, settled) ==
    proc' = [proc EXCEPT ![p] =
      [phase |-> IF Blocked(RoleOf(p)) THEN "draining" ELSE "looking", new |-> @.new,
       lane |-> @.lane, settled |-> @.settled \cup settled, worked |-> @.worked \/ moved]]

Served(p) ==
    /\ proc[p].phase = "acting" /\ proc[p].on \subseteq Demands
    /\ demand' = [d \in Demands |-> IF d \in proc[p].on THEN "ended" ELSE demand[d]]
    /\ Ended(p, TRUE, {}) /\ UNCHANGED <<world, lock, notified, online, job>>

\* What was claimed stays claimed, by a leader that goes on.
ServingFails(p) ==
    /\ proc[p].phase = "acting" /\ proc[p].on \subseteq Demands
    /\ faults < MaxCrashes /\ faults' = faults + 1
    /\ Ended(p, FALSE, {"demand"})
    /\ UNCHANGED <<setting, lock, notified, online, demand, job, host, changes>>

\* Complete, or queued again for the next slice.
Outcomes == {"idle", "more"}
JobSucceeds(p, j) ==
    /\ Acting(p, j)
    /\ \E next \in Outcomes : job' = [job EXCEPT ![j] = [state |-> next, failures |-> 0]]
    /\ Ended(p, TRUE, IF job'[j].state = "idle" THEN {KindOf(j)} ELSE {})
    /\ UNCHANGED <<world, lock, notified, online, demand>>

\* The next step of the ladder.
Retried(row) == [state |-> "cooling", failures |-> row.failures + 1]
\* An exception, or a child that died or ran too long.
JobFails(p, j) ==
    /\ Acting(p, j) /\ job[j].failures < MaxFailures
    /\ job' = [job EXCEPT ![j] = Retried(@)]
    /\ Ended(p, FALSE, {KindOf(j)})
    /\ UNCHANGED <<world, lock, notified, online, demand>>

\* Nothing is left, or the turn has lasted long enough.
EndTurn(p) ==
    /\ proc[p].phase = "looking"
    /\ \/ \A action \in {"demand", "light", "heavy"} : Work(p, action) = {}
       \/ proc[p].worked
    /\ proc' = [proc EXCEPT ![p].phase = IF proc[p].worked THEN "draining" ELSE "closing"]
    /\ UNCHANGED <<world, lock, notified, online, demand, job>>

SleepDroppingWakes(p) ==
    /\ proc[p].phase = "closing" /\ Connected(p)
    /\ notified' = [notified EXCEPT ![p] = FALSE]
    /\ proc' = [proc EXCEPT ![p] = [phase |-> "asleep", new |-> FALSE,
                                    lane |-> @.lane \ @.settled, due |-> "sweep"]]
    /\ UNCHANGED <<world, lock, online, demand, job>>
\* A later read of the work tables: retries and held claims bound the sleep.  The
\* actions that failed in the turn were not looked for again: they are left out of
\* the lane that a sleeper keeps.
Sleep(p) ==
    /\ proc[p].phase = "closing" /\ Connected(p)
    /\ LET soon == \/ \E j \in Jobs : job[j].state = "cooling"
                   \/ \E d \in Demands : demand[d] \in Roles
       IN proc' = [proc EXCEPT ![p] = [phase |-> "asleep", new |-> FALSE,
                                       lane |-> @.lane \ @.settled,
                                       due |-> IF soon THEN "soon" ELSE "sweep"]]
    /\ UNCHANGED <<world, lock, notified, online, demand, job>>

\* After a turn that worked: what came meanwhile is in the next turn's reads.
Drain(p) ==
    /\ proc[p].phase = "draining" /\ Connected(p)
    /\ notified' = [notified EXCEPT ![p] = FALSE]
    /\ proc' = [proc EXCEPT ![p] = [phase |-> "top", new |-> FALSE]]
    /\ UNCHANGED <<world, lock, online, demand, job>>

Wake(p) ==
    /\ proc[p].phase = "asleep" /\ Connected(p) /\ notified[p]
    /\ notified' = [notified EXCEPT ![p] = FALSE]
    /\ proc' = [proc EXCEPT ![p] = [phase |-> "top", new |-> FALSE]]
    /\ UNCHANGED <<world, lock, online, demand, job>>

TimesOut(p) ==
    /\ proc[p].phase = "asleep"
    /\ proc' = [proc EXCEPT ![p] = [phase |-> "top", new |-> FALSE]]
    /\ UNCHANGED <<world, lock, notified, online, demand, job>>

\* AudioMuse's jobs and the pause; the end of a pause wakes the runners.
HostChanges ==
    /\ \/ /\ host = "idle" /\ changes < MaxHostJobs /\ changes' = changes + 1
          /\ host' \in {"analysis", "rewrite", "paused"} /\ notified' = notified
       \/ /\ host # "idle" /\ host' = "idle" /\ UNCHANGED changes
          /\ notified' = IF host = "paused" THEN Notified ELSE notified
    /\ UNCHANGED <<setting, lock, proc, online, demand, job, faults>>

-----------------------------------------------------------------------------

Init ==
    /\ setting \in {"auto", "server", "worker"}
    /\ lock = [r \in Roles |-> None] /\ proc = [p \in Procs |-> Down]
    /\ notified = [p \in Procs |-> FALSE] /\ online = FALSE
    /\ demand = [d \in Demands |-> "unasked"]
    /\ job = [j \in Jobs |-> [state |-> "idle", failures |-> 0]]
    /\ host = "idle" /\ faults = 0 /\ changes = 0

TurnStep(p) ==
    \/ StartTurn(p) \/ TakeDemands(p) \/ Served(p) \/ EndTurn(p) \/ Sleep(p) \/ Drain(p)
    \/ \E j \in Jobs : TakeJob(p, j) \/ JobSucceeds(p, j) \/ JobFails(p, j)
ProcStep(p) == Restart(p) \/ Acquire(p) \/ NoticeLoss(p) \/ Wake(p) \/ TimesOut(p) \/ TurnStep(p)

Next ==
    \/ \E p \in Procs : ProcStep(p) \/ Crash(p) \/ LoseConnection(p) \/ ServingFails(p)
    \/ \E d \in Demands : Request(d) \/ Expires(d)
    \/ \E j \in Jobs : Admit(j) \/ RetryComesDue(j) \/ GoesStale(j)
    \/ HeartbeatAges \/ Heartbeat \/ HostChanges

Fairness ==
    /\ \A p \in Procs : WF_vars(Restart(p)) /\ WF_vars(Acquire(p)) /\ WF_vars(NoticeLoss(p))
                       /\ WF_vars(TimesOut(p)) /\ WF_vars(TurnStep(p))
    /\ \A j \in Jobs : WF_vars(RetryComesDue(j)) /\ WF_vars(GoesStale(j))
                      /\ SF_vars(\E p \in Procs : JobSucceeds(p, j) /\ job'[j].state = "idle")
    /\ WF_vars(HeartbeatAges /\ lock["worker"] = None) /\ WF_vars(Heartbeat)
    /\ WF_vars(host # "idle" /\ HostChanges)

Spec == Init /\ [][Next]_vars /\ Fairness

-----------------------------------------------------------------------------
(* Properties.                                                             *)

\* A leader that sleeps to its sweep with no notification at hand has missed no
\* recorded work of an action of its lane that did not fail in its last turn:
\* whatever was committed after its last look woke it.  (The other rows of an
\* action that failed wait for its retry.)
Recorded(action) ==
    IF action = "demand" THEN Waiting # {} ELSE \E j \in Jobs : KindOf(j) = action /\ job[j].state = "queued"
SleepersMissNothing ==
    \A p \in Procs :
      proc[p].phase = "asleep" /\ proc[p].due = "sweep" /\ Connected(p) /\ ~notified[p]
      => \A action \in proc[p].lane : ~Recorded(action)

\* With something ready in its lane no leader sleeps to its sweep.
NothingReadySleeps ==
    \A p \in Procs :
      proc[p].phase = "asleep" /\ proc[p].due = "sweep" /\ Connected(p) /\ ~notified[p]
      => \A j \in Jobs : KindOf(j) \in proc[p].lane => job[j].state # "retry"

\* Nobody takes on-demand work from a leader that serves it, holds its lock and
\* is seen online, whichever role starts, restarts or does its bookkeeping, unless
\* a process of its role goes on with a lock it has lost.
HeldClaimsStay ==
    [][\A p \in Procs, d \in Demands :
         Acting(p, d) /\ Connected(p) /\ demand[d] = RoleOf(p)
           /\ (p \in ServerProcs \/ online)
           /\ (\A q \in Procs \ {p} : RoleOf(q) = RoleOf(p) => ~Leads(q))
         => demand'[d] \in {RoleOf(p), "ended"}]_vars

\* On-demand work is taken up in the end.
DemandsAreTaken == \A d \in Demands : demand[d] = "waiting" ~> demand[d] # "waiting"

\* What a role had claimed waits again, or ends, once its leader has gone.
ClaimsComeBack ==
    \A d \in Demands, r \in Roles : demand[d] = r /\ lock[r] = None ~> demand[d] # r

\* Recorded work is done in the end, whatever fails or crashes; passes over the
\* tracks may stand behind catalogue work that keeps coming.
RowsAreDone ==
    \A j \in Jobs : job[j].state \in {"queued", "abandoned"}
      ~> job[j].state = "idle" \/ (j \in Heavy /\ \E l \in Light : job[l].state # "idle")

\* The two together: what was claimed comes back, and what was recorded is done.
WorkComesBack == ClaimsComeBack /\ RowsAreDone
=============================================================================
