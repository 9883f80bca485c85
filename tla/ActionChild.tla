----------------------------- MODULE ActionChild -----------------------------
(***************************************************************************)
(* A catalogue action in a child process of the runner's process           *)
(* (action_isolation.py, _call_action).  The runner's thread starts the    *)
(* child, waits for it to be ready and then for its one answer; a child    *)
(* that never got ready leaves the action to the thread itself, one that   *)
(* was lost later fails it.  The process may die at any moment and another *)
(* one become the leader: what the first left behind must not go on        *)
(* working beside it.                                                      *)
(***************************************************************************)
EXTENDS Naturals, FiniteSets

CONSTANTS MaxLeaders,   \* bound: processes that lead the role, one after another
          MaxRuns,      \* bound: actions a leader runs
          MaxLost       \* bound: children the kernel takes

\* What the constants must satisfy.
ChildAssumption == {MaxLeaders, MaxRuns, MaxLost} \subseteq Nat

Leaders == 1 .. MaxLeaders

VARIABLES leader,   \* each leader's thread in `run`
          child,    \* its child process: where it is, what it last said
          lost
vars == <<leader, child, lost>>

NoChild == [at |-> "none", said |-> "nothing"]

Init == /\ leader = [n \in Leaders |-> [at |-> IF n = 1 THEN "idle" ELSE "later", runs |-> 0,
                                        next |-> "none"]]
        /\ child = [n \in Leaders |-> NoChild]
        /\ lost = 0

At(n, place) == leader[n].at = place
Alive(n) == leader[n].at \notin {"later", "dead"}
Running(n) == child[n].at \notin {"none", "gone"}

\* The thread leaves `run` for `next` only through child.kill: see Reap.
Leaves(n, next) == leader' = [leader EXCEPT ![n].at = "reaping", ![n].next = next]

-----------------------------------------------------------------------------
\* A leader gets the role when no other process leads it.
Lead(n) ==
  /\ At(n, "later") /\ n > 1 /\ At(n - 1, "dead")
  /\ leader' = [leader EXCEPT ![n].at = "idle"]
  /\ UNCHANGED <<child, lost>>

Start(n) ==
  /\ At(n, "idle") /\ leader[n].runs < MaxRuns
  /\ \/ /\ leader' = [leader EXCEPT ![n].at = "sending", ![n].runs = @ + 1]
        /\ child' = [child EXCEPT ![n] = [NoChild EXCEPT !.at = "born"]]
     \/ \* Popen fails: ChildUnavailable
        /\ leader' = [leader EXCEPT ![n].at = "acting", ![n].runs = @ + 1]
        /\ UNCHANGED child
  /\ UNCHANGED lost

Send(n) ==
  /\ At(n, "sending")
  /\ IF Running(n)
     THEN /\ leader' = [leader EXCEPT ![n].at = "starting"]
          /\ child' = [child EXCEPT ![n].at = "asked"]
     ELSE Leaves(n, "acting") /\ UNCHANGED child
  /\ UNCHANGED lost

HearReady(n) ==
  /\ At(n, "starting") /\ child[n].said # "nothing"
  /\ IF child[n].said = "unavailable" THEN Leaves(n, "acting")
     ELSE leader' = [leader EXCEPT ![n].at = "waiting"]
  /\ UNCHANGED <<child, lost>>

\* No ready line within STARTUP_TIMEOUT_SECONDS.
NotReadyInTime(n) ==
  /\ At(n, "starting") /\ child[n].said = "nothing" /\ Running(n)
  /\ Leaves(n, "acting")
  /\ UNCHANGED <<child, lost>>

\* _ChildGone: the pipe closed with nothing more to read.
GoneStarting(n) ==
  /\ At(n, "starting") /\ child[n].said = "nothing" /\ ~Running(n)
  /\ Leaves(n, "acting")
  /\ UNCHANGED <<child, lost>>

GoneWorking(n) ==
  /\ At(n, "waiting") /\ child[n].said = "ready" /\ ~Running(n)
  /\ Leaves(n, "idle")
  /\ UNCHANGED <<child, lost>>

HearAnswer(n) ==
  /\ At(n, "waiting") /\ child[n].said \in {"result", "raised"}
  /\ Leaves(n, "idle")
  /\ UNCHANGED <<child, lost>>

\* HARD_LIMIT_SECONDS: the action fails and is retried with its back-off.
NeverOverdue(n) == FALSE
Overdue(n) == At(n, "waiting") /\ child[n].said = "ready" /\ Running(n)

HardLimit(n) ==
  /\ Overdue(n)
  /\ Leaves(n, "idle")
  /\ UNCHANGED <<child, lost>>

\* `finally: child.kill(wait=...)`: it may go on for the grace period, then it
\* is terminated; only then does the thread go on.
Reaped == [NoChild EXCEPT !.at = "none"]

Reap(n) ==
  /\ At(n, "reaping")
  /\ child' = [child EXCEPT ![n] = Reaped]
  /\ leader' = [leader EXCEPT ![n].at = leader[n].next, ![n].next = "none"]
  /\ UNCHANGED lost

ActsItself(n) ==
  /\ At(n, "acting")
  /\ leader' = [leader EXCEPT ![n].at = "idle"]
  /\ UNCHANGED <<child, lost>>

\* The process dies.  A bound child dies with it (PR_SET_PDEATHSIG).
Bound(n) == child[n].at \in {"bound", "ready", "working"}

LeaderDies(n) ==
  /\ Alive(n)
  /\ leader' = [leader EXCEPT ![n].at = "dead", ![n].next = "none"]
  /\ child' = IF Bound(n) THEN [child EXCEPT ![n].at = "gone"] ELSE child
  /\ UNCHANGED lost

-----------------------------------------------------------------------------
(* The child: _child_main.                                                 *)

ChildGoes(n, place) == child' = [child EXCEPT ![n].at = place] /\ UNCHANGED <<leader, lost>>
ChildSays(n, place, what) ==
  child' = [child EXCEPT ![n] = [at |-> place, said |-> what]] /\ UNCHANGED <<leader, lost>>

\* The parent died before it asked: an empty request loads nothing.
NothingAsked(n) == child[n].at = "born" /\ ~Alive(n) /\ ChildGoes(n, "gone")

\* prctl, and then: is the parent still the one that asked?
ParentNotAsked(n) == FALSE
Orphan(n) == ~Alive(n)

Bind(n) ==
  /\ child[n].at = "asked"
  /\ ChildGoes(n, IF Orphan(n) THEN "gone" ELSE "bound")

Load(n) ==
  /\ child[n].at = "bound"
  /\ ChildSays(n, "ready", "ready") \/ ChildSays(n, "gone", "unavailable")

Work(n) == child[n].at = "ready" /\ ChildGoes(n, "working")

Answer(n) ==
  /\ child[n].at = "working"
  /\ \E what \in {"result", "raised"} : ChildSays(n, "gone", what)

Lost(n) ==
  /\ Running(n) /\ lost < MaxLost
  /\ lost' = lost + 1
  /\ child' = [child EXCEPT ![n].at = "gone"]
  /\ UNCHANGED leader

LeaderStep(n) ==
  \/ Start(n) \/ Send(n) \/ HearReady(n) \/ NotReadyInTime(n) \/ GoneStarting(n)
  \/ GoneWorking(n) \/ HearAnswer(n) \/ HardLimit(n) \/ Reap(n) \/ ActsItself(n)

ChildStep(n) == NothingAsked(n) \/ Bind(n) \/ Load(n) \/ Work(n) \/ Answer(n)

Next == \E n \in Leaders : Lead(n) \/ LeaderStep(n) \/ LeaderDies(n) \/ ChildStep(n) \/ Lost(n)

-----------------------------------------------------------------------------
\* An action is never at work twice at a time: not in a child and in the thread
\* that gave up on it, and not in the child of a process that died and in the
\* process that took its role over.  (Linux: the kernel ends a bound child with
\* its parent; elsewhere a thread looks once a second.)
Working == {<<"thread", n>> : n \in {m \in Leaders : At(m, "acting")}} \union
           {<<"child", n>> : n \in {m \in Leaders : child[m].at = "working"}}

AloneAtWork == Cardinality(Working) <= 1

\* A run comes back to the runner's turn, or its process dies: whatever becomes
\* of the child, the thread does not wait for ever.
Waits(n) == leader[n].at \notin {"later", "idle", "dead"}
RunsEnd == \A n \in Leaders : Waits(n) ~> ~Waits(n)

\* The thread goes on and its waits have limits; nothing makes a child answer.
Fairness == \A n \in Leaders : WF_vars(LeaderStep(n))

Spec == Init /\ [][Next]_vars /\ Fairness
=============================================================================
