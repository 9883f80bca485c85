---------------------------- MODULE MetadataJobs ---------------------------
(* One account's MusicBrainz lookups (music_metadata.py): jobs submitted by  *)
(* its apps, each claimed under a lease by some process, which makes up to    *)
(* four requests for it (two here, a bound), reserving each against the      *)
(* account's daily allowance before it is sent; a job may be cancelled or    *)
(* its worker die at any point.                                              *)
EXTENDS FiniteSets, Naturals

CONSTANTS Jobs, Procs, None, PendingLimit, Allowance, MaxSubmits, MaxDays, MaxFails, MaxCrashes
\* What the constants must satisfy.
MetadataAssumption ==
    /\ IsFiniteSet(Jobs) /\ IsFiniteSet(Procs) /\ None \notin Procs
    /\ {PendingLimit, Allowance, MaxSubmits, MaxDays, MaxFails, MaxCrashes} \subseteq Nat

VARIABLES
    job,     \* each job id's row, or None
    used,    \* the allowance used on the account's day
    worker,  \* where each process is
    sent,    \* history: the requests reserved this day and sent
    submits, days, fails, crashes

budget == <<submits, days, fails, crashes>>
vars == <<job, used, worker, sent, budget>>

Idle == [pc |-> "idle"]
Waiting == {"pending", "running", "deferred"}
Row(status) == [status |-> status, due |-> TRUE, lease |-> None, live |-> FALSE]
Open == {j \in Jobs : job[j] # None /\ job[j].status \in Waiting}

TypeOK ==
    /\ \A j \in Jobs : job[j] = None \/ job[j].status \in
            Waiting \union {"verified", "failed", "cancelled"}
    /\ used \in 0..Allowance /\ sent \in Nat
    /\ worker \in [Procs -> {Idle} \union [pc : {"lookup", "send"}, id : Jobs, left : 0..2, day : 0..MaxDays]
                         \union [pc : {"finish"}, id : Jobs, status : {"verified", "failed", "deferred"}]]

Init ==
    /\ job = [j \in Jobs |-> None]
    /\ used = 0 /\ sent = 0
    /\ worker = [p \in Procs |-> Idle]
    /\ submits = 0 /\ days = 0 /\ fails = 0 /\ crashes = 0
----------------------------------------------------------------------------
(* A known id is answered as queued and left as it is. *)
Submit(j) ==
    /\ job[j] = None /\ Cardinality(Open) < PendingLimit
    /\ submits < MaxSubmits /\ submits' = submits + 1
    /\ job' = [job EXCEPT ![j] = Row("pending")]
    /\ UNCHANGED <<used, worker, sent, days, fails, crashes>>

Cancel(j) ==
    /\ job[j] # None /\ job[j].status # "cancelled"
    /\ job' = [job EXCEPT ![j] = Row("cancelled")]
    /\ UNCHANGED <<used, worker, sent, budget>>

(* A finished job is dropped a week later, by the next submission. *)
Drop(j) ==
    /\ job[j] # None /\ job[j].status \notin Waiting
    /\ job' = [job EXCEPT ![j] = None]
    /\ UNCHANGED <<used, worker, sent, budget>>

NotTakenOver(j) == FALSE
LeaseOver(j) == job[j].status = "running" /\ ~job[j].live
Ready(j) ==
    /\ job[j] # None /\ job[j].due
    /\ job[j].status \in {"pending", "deferred"} \/ LeaseOver(j)

Claim(p, j) ==
    /\ worker[p] = Idle /\ Ready(j)
    /\ job' = [job EXCEPT ![j] = [status |-> "running", due |-> TRUE, lease |-> p, live |-> TRUE]]
    /\ worker' = [worker EXCEPT ![p] = [pc |-> "lookup", id |-> j, left |-> 2, day |-> days]]
    /\ UNCHANGED <<used, sent, budget>>

LeasedToSomeone(p) == job[worker[p].id] # None
Leased(p) ==
    LET row == job[worker[p].id] IN
    row # None /\ row.status = "running" /\ row.lease = p /\ row.live

Ended(p, status) ==
    worker' = [worker EXCEPT ![p] = [pc |-> "finish", id |-> @.id, status |-> status]]

ReserveUnlessSpent(p) ==
    /\ worker[p].pc = "lookup" /\ worker[p].left > 0
    /\ IF Leased(p) /\ used < Allowance
       THEN worker' = [worker EXCEPT ![p].pc = "send", ![p].day = days]
       ELSE Ended(p, "deferred")
    /\ UNCHANGED <<used, job, sent, budget>>

(* reserve commits before its request is sent; a spent allowance defers. *)
Reserve(p) ==
    /\ worker[p].pc = "lookup" /\ worker[p].left > 0
    /\ IF Leased(p) /\ used < Allowance
       THEN /\ used' = used + 1
            /\ worker' = [worker EXCEPT ![p].pc = "send", ![p].day = days]
       ELSE Ended(p, "deferred") /\ UNCHANGED used
    /\ UNCHANGED <<job, sent, budget>>

Send(p) ==
    /\ worker[p].pc = "send"
    /\ sent' = IF worker[p].day = days THEN sent + 1 ELSE sent
    /\ worker' = [worker EXCEPT ![p].pc = "lookup", ![p].left = @ - 1]
    /\ UNCHANGED <<job, used, budget>>

Resolve(p) ==
    /\ worker[p].pc = "lookup" /\ worker[p].left < 2
    /\ Ended(p, "verified")
    /\ UNCHANGED <<job, used, sent, budget>>

LookupFails(p) ==
    /\ worker[p].pc \in {"lookup", "send"} /\ fails < MaxFails
    /\ fails' = fails + 1
    /\ \E status \in {"failed", "deferred"} : Ended(p, status)
    /\ UNCHANGED <<job, used, sent, submits, days, crashes>>

Finish(p) ==
    /\ worker[p].pc = "finish"
    /\ job' = IF Leased(p)
              THEN [job EXCEPT ![worker[p].id] =
                        [Row(worker[p].status) EXCEPT !.due = worker[p].status # "deferred"]]
              ELSE job
    /\ worker' = [worker EXCEPT ![p] = Idle]
    /\ UNCHANGED <<used, sent, budget>>

WorkStep(p) == Reserve(p) \/ Send(p) \/ Resolve(p) \/ Finish(p)
----------------------------------------------------------------------------
NewDay ==
    /\ days < MaxDays /\ days' = days + 1
    /\ used' = 0 /\ sent' = 0
    /\ UNCHANGED <<job, worker, submits, fails, crashes>>

Worked(j) == \E p \in Procs : worker[p] # Idle /\ worker[p].id = j /\ job[j].lease = p

(* A lease runs out, of a slow lookup too; a deferred job falls due. *)
LeaseExpires(j) ==
    /\ job[j] # None /\ job[j].status = "running" /\ job[j].live
    /\ Worked(j) => fails < MaxFails
    /\ fails' = IF Worked(j) THEN fails + 1 ELSE fails
    /\ job' = [job EXCEPT ![j].live = FALSE]
    /\ UNCHANGED <<used, worker, sent, submits, days, crashes>>

FallsDue(j) ==
    /\ job[j] # None /\ ~job[j].due
    /\ job' = [job EXCEPT ![j].due = TRUE]
    /\ UNCHANGED <<used, worker, sent, budget>>

Crash(p) ==
    /\ worker[p] # Idle /\ crashes < MaxCrashes
    /\ crashes' = crashes + 1
    /\ worker' = [worker EXCEPT ![p] = Idle]
    /\ UNCHANGED <<job, used, sent, submits, days, fails>>

Next ==
    \/ \E j \in Jobs : \/ Submit(j) \/ Cancel(j) \/ Drop(j) \/ LeaseExpires(j) \/ FallsDue(j)
                       \/ \E p \in Procs : Claim(p, j)
    \/ \E p \in Procs : WorkStep(p) \/ LookupFails(p) \/ Crash(p)
    \/ NewDay

Spec == Init /\ [][Next]_vars
----------------------------------------------------------------------------
(* The requests reserved on one day and sent never exceed its allowance,     *)
(* whichever workers share it and die or are superseded between a            *)
(* reservation and its request (reserve).                                    *)
AllowanceKept == sent <= Allowance

(* A cancelled lookup stays cancelled: no late answer turns it into a result, *)
(* and nothing runs it again (run_one's conditional update).                  *)
CancelledStays ==
    [][\A j \in Jobs : job[j] # None /\ job[j].status = "cancelled" /\ job'[j] # None
            => job'[j].status = "cancelled"]_vars
=============================================================================
