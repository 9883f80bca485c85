---------------------------- MODULE AnalysisPool ----------------------------
(***************************************************************************)
(* One walk over a catalogue's due tracks on a runner turn's K analysis    *)
(* threads (parallel_analysis.py), each with a decode worker of its own    *)
(* (analysis_isolation.py).                                                *)
(*                                                                         *)
(* The turn's thread takes the tracks in order, prepares each, hands it to *)
(* a thread as a job and finishes it when the thread hands it back.  A     *)
(* pass that raises cancels its jobs, kills the workers that decode them   *)
(* and, after a while, gives up on threads that did not answer: those stay *)
(* busy into the next pass, and their late answers must settle nothing.    *)
(*                                                                         *)
(* The action modelled is one statement or one lock's critical section.    *)
(* A pid is not reused between the reaping of a worker and a signal sent   *)
(* to it.                                                                  *)
(***************************************************************************)
EXTENDS Naturals, Sequences, FiniteSets

CONSTANTS Threads,     \* the turn's K analysis threads
          Units,       \* how many tracks are due, in cursor order
          None,        \* no job, no thread
          MaxPasses,   \* bound: passes of the walk in this turn
          MaxJobs,     \* bound: files handed to a thread
          MaxDeaths,   \* bound: workers that die by themselves
          MaxRaises    \* bound: passes that raise

\* What the constants must satisfy.
PoolAssumption == /\ Units \in Nat \ {0}
                         /\ {MaxPasses, MaxJobs, MaxDeaths, MaxRaises} \subseteq Nat
                         /\ None \notin Threads \union (1 .. MaxJobs)

Jobs == 1 .. MaxJobs

VARIABLES turn,     \* the turn's thread: `run` and the walk's state row
          job,      \* _Job: unit, slot, cancelled, outcome, finishes
          queue,    \* Pool._jobs
          handed,   \* Pool._done
          thread,   \* each thread's place in _loop and _run_exec
          slot,     \* each thread's DedicatedWorker: _file, _cancelled
          worker,   \* each thread's worker process
          faults    \* what the bounds count

vars == <<turn, job, queue, handed, thread, slot, worker, faults>>

Fresh == [unit |-> 0, slot |-> None, cancelled |-> FALSE, outcome |-> "none",
          finishes |-> 0, died |-> FALSE]
IdleThread == [at |-> "idle", job |-> None, attempt |-> 0, healthy |-> FALSE]
NoWorker == [state |-> "none", alive |-> FALSE]
IdleWorker == [state |-> "idle", alive |-> TRUE]

Init ==
  /\ turn = [at |-> "between", pass |-> 0, cursor |-> 0, taken |-> 0, jobs |-> 0,
             inFlight |-> {}, done |-> {}, stopped |-> FALSE,
             todo |-> {}, now |-> None, target |-> None]
  /\ job = [j \in Jobs |-> Fresh]
  /\ queue = <<>> /\ handed = <<>>
  /\ thread = [t \in Threads |-> IdleThread]
  /\ slot = [t \in Threads |-> [file |-> None, cancelled |-> FALSE]]
  /\ worker = [t \in Threads |-> NoWorker]
  /\ faults = [deaths |-> 0, raises |-> 0]

-----------------------------------------------------------------------------
(* The turn's thread.                                                      *)

\* A pass starts at the row's cursor (edge_backfill_task, _paged).
StartPass ==
  /\ turn.at = "between" /\ turn.pass < MaxPasses /\ turn.cursor < Units
  /\ turn' = [turn EXCEPT !.at = "run", !.pass = @ + 1, !.taken = turn.cursor,
                          !.done = {}, !.stopped = FALSE]
  /\ UNCHANGED <<job, queue, handed, thread, slot, worker, faults>>

Room == Cardinality(turn.inFlight) < Cardinality(Threads)
CanTake == turn.at = "run" /\ ~turn.stopped /\ Room /\ turn.taken < Units

\* prepare() handled the unit itself: nothing due on it any more.
TakeInline ==
  /\ CanTake
  /\ turn' = [turn EXCEPT !.taken = @ + 1, !.done = @ \union {turn.taken + 1}]
  /\ UNCHANGED <<job, queue, handed, thread, slot, worker, faults>>

Take ==
  /\ CanTake /\ turn.jobs < MaxJobs
  /\ LET j == turn.jobs + 1
     IN /\ turn' = [turn EXCEPT !.taken = @ + 1, !.jobs = j, !.inFlight = @ \union {j}]
        /\ job' = [job EXCEPT ![j] = [Fresh EXCEPT !.unit = turn.taken + 1]]
        /\ queue' = Append(queue, j)
  /\ UNCHANGED <<handed, thread, slot, worker, faults>>

\* The deadline is near, or between() says to stop: no unit is taken after.
Stop ==
  /\ CanTake
  /\ turn' = [turn EXCEPT !.stopped = TRUE]
  /\ UNCHANGED <<job, queue, handed, thread, slot, worker, faults>>

\* `settle`: only a job this pass has in flight; an abandoned one is dropped.
SettlesAnyAnswer(j) == TRUE
Known(j) == j \in turn.inFlight

Settled(j) ==
  turn' = [turn EXCEPT !.inFlight = @ \ {j},
                       !.done = IF job[j].outcome = "cancelled" THEN @
                                ELSE @ \union {job[j].unit}]

\* What is left of a job that was collected: how often it was finished.
Collected(j, times) == job' = [job EXCEPT ![j] = [Fresh EXCEPT !.finishes = times]]

Collect ==
  /\ turn.at \in {"run", "joining"} /\ handed # <<>>
  /\ handed' = Tail(handed)
  /\ LET j == Head(handed)
     IN IF Known(j) THEN Settled(j) /\ Collected(j, job[j].finishes + 1)
        ELSE Collected(j, job[j].finishes) /\ UNCHANGED turn
  /\ UNCHANGED <<queue, thread, slot, worker, faults>>

\* prepare, between or finish raises: every job in flight is to be cancelled.
Raise ==
  /\ turn.at = "run" /\ faults.raises < MaxRaises
  /\ faults' = [faults EXCEPT !.raises = @ + 1]
  /\ turn' = [turn EXCEPT !.at = "cancelling", !.todo = turn.inFlight]
  /\ UNCHANGED <<job, queue, handed, thread, slot, worker>>

\* Pool.cancel marks the job, then looks for the thread that has it.
CancelMark ==
  /\ turn.at = "cancelling" /\ turn.now = None /\ turn.todo # {}
  /\ LET j == CHOOSE k \in turn.todo : \A i \in turn.todo : k <= i
     IN /\ job' = [job EXCEPT ![j].cancelled = TRUE]
        /\ turn' = [turn EXCEPT !.todo = @ \ {j},
                                !.now = IF job[j].slot = None THEN None ELSE j]
  /\ UNCHANGED <<queue, handed, thread, slot, worker, faults>>

\* DedicatedWorker.cancel, under the slot's lock: only the slot's current file.
IsCurrent(t, j) == slot[t].file = j

CancelSlot ==
  /\ turn.at = "cancelling" /\ turn.now # None /\ turn.target = None
  /\ LET t == job[turn.now].slot
     IN IF IsCurrent(t, turn.now)
        THEN /\ slot' = [slot EXCEPT ![t].cancelled = TRUE]
             /\ turn' = IF worker[t].state = "none" THEN [turn EXCEPT !.now = None]
                        ELSE [turn EXCEPT !.target = t]
        ELSE turn' = [turn EXCEPT !.now = None] /\ UNCHANGED slot
  /\ UNCHANGED <<job, queue, handed, thread, worker, faults>>

Killed(t) == [worker EXCEPT ![t].alive = FALSE]

\* ... and, the lock released, kills the worker it saw there.
CancelKill ==
  /\ turn.at = "cancelling" /\ turn.target # None
  /\ worker' = Killed(turn.target)
  /\ turn' = [turn EXCEPT !.now = None, !.target = None]
  /\ UNCHANGED <<job, queue, handed, thread, slot, faults>>

AllCancelled ==
  /\ turn.at = "cancelling" /\ turn.now = None /\ turn.todo = {}
  /\ turn' = [turn EXCEPT !.at = "joining"]
  /\ UNCHANGED <<job, queue, handed, thread, slot, worker, faults>>

\* CANCEL_JOIN_SECONDS passed: the rest is finished as cancelled.
GiveUp ==
  /\ turn.at = "joining" /\ turn.inFlight # {}
  /\ job' = [j \in Jobs |-> IF j \in turn.inFlight
                            THEN [job[j] EXCEPT !.finishes = @ + 1] ELSE job[j]]
  /\ turn' = [turn EXCEPT !.inFlight = {}]
  /\ UNCHANGED <<queue, handed, thread, slot, worker, faults>>

\* The raise leaves the row's cursor where it was.
Failed ==
  /\ turn.at = "joining" /\ turn.inFlight = {}
  /\ turn' = [turn EXCEPT !.at = "between"]
  /\ UNCHANGED <<job, queue, handed, thread, slot, worker, faults>>

\* Report.reached: the end of the unbroken run of finished units.
Reached ==
  LET unbroken == {u \in turn.cursor .. turn.taken : (turn.cursor + 1) .. u \subseteq turn.done}
  IN CHOOSE u \in unbroken : \A v \in unbroken : v <= u

EndPass ==
  /\ turn.at = "run" /\ turn.inFlight = {}
  /\ turn.stopped \/ turn.taken = Units
  /\ turn' = [turn EXCEPT !.at = "between", !.cursor = Reached]
  /\ UNCHANGED <<job, queue, handed, thread, slot, worker, faults>>

\* The turn ends: Pool.close.
Close ==
  /\ turn.at = "between"
  /\ turn' = [turn EXCEPT !.at = "closed"]
  /\ UNCHANGED <<job, queue, handed, thread, slot, worker, faults>>

Turn == \/ StartPass \/ TakeInline \/ Take \/ Stop \/ Collect \/ Raise
        \/ CancelMark \/ CancelSlot \/ CancelKill \/ AllCancelled \/ GiveUp
        \/ Failed \/ EndPass \/ Close

-----------------------------------------------------------------------------
(* An analysis thread: Pool._loop around run_isolated.                     *)

At(t, place) == thread[t].at = place
Goes(t, place) == thread' = [thread EXCEPT ![t].at = place]
Ends(t, outcome) ==
  /\ thread' = [thread EXCEPT ![t].at = "ending"]
  /\ job' = [job EXCEPT ![thread[t].job].outcome = outcome]

GetJob(t) ==
  /\ At(t, "idle") /\ queue # <<>>
  /\ queue' = Tail(queue)
  /\ thread' = [thread EXCEPT ![t] = [IdleThread EXCEPT !.at = "got", !.job = Head(queue)]]
  /\ job' = [job EXCEPT ![Head(queue)].slot = t]
  /\ UNCHANGED <<turn, handed, slot, worker, faults>>

\* slot.begin, then the job's own mark.
Begin(t) ==
  /\ At(t, "got")
  /\ slot' = [slot EXCEPT ![t] = [file |-> thread[t].job, cancelled |-> FALSE]]
  /\ IF job[thread[t].job].cancelled THEN Ends(t, "cancelled")
     ELSE Goes(t, "attempt") /\ UNCHANGED job
  /\ UNCHANGED <<turn, queue, handed, worker, faults>>

\* fetch_track_file: the deferred download may fail, which is the file's error.
DownloadFails(t) ==
  /\ At(t, "attempt") /\ thread[t].attempt = 0
  /\ Ends(t, "failed")
  /\ UNCHANGED <<turn, queue, handed, slot, worker, faults>>

\* _run_exec's loop: at most two attempts, none for a cancelled file.
Attempt(t) ==
  /\ At(t, "attempt")
  /\ IF slot[t].cancelled THEN Ends(t, "cancelled")
     ELSE /\ thread' = [thread EXCEPT ![t].at = "checkout", ![t].attempt = @ + 1]
          /\ UNCHANGED job
  /\ UNCHANGED <<turn, queue, handed, slot, worker, faults>>

Untargeted(t) == IF turn.target = t THEN [turn EXCEPT !.target = None, !.now = None] ELSE turn

\* The worker is there (a new one took about a second to start).  Cancelled
\* meanwhile, when cancel() found none to kill: the file is not sent.
SentAnyway(t) == FALSE
CancelledSince(t) == slot[t].cancelled

\* _checkout: the thread's worker, replaced when it is gone; the file is sent.
Checkout(t) ==
  /\ At(t, "checkout")
  /\ turn' = IF worker[t].alive THEN turn ELSE Untargeted(t)
  /\ IF CancelledSince(t)
     THEN Ends(t, "cancelled") /\ worker' = [worker EXCEPT ![t] = IdleWorker]
     ELSE /\ Goes(t, "await") /\ UNCHANGED job
          /\ worker' = [worker EXCEPT ![t] = [IdleWorker EXCEPT !.state = "sent"]]
  /\ UNCHANGED <<queue, handed, slot, faults>>

\* No worker starts here: the file is analysed in this process, which nothing
\* stops, unless it was cancelled meanwhile.
CannotStart(t) ==
  /\ At(t, "checkout") /\ ~worker[t].alive
  /\ IF slot[t].cancelled THEN Ends(t, "cancelled") ELSE Goes(t, "here") /\ UNCHANGED job
  /\ worker' = [worker EXCEPT ![t] = NoWorker]
  /\ turn' = Untargeted(t)
  /\ UNCHANGED <<queue, handed, slot, faults>>

AnalysedHere(t) ==
  /\ At(t, "here")
  /\ Ends(t, "ready")
  /\ UNCHANGED <<turn, queue, handed, slot, worker, faults>>

\* The answer comes: a result, or an error the file itself caused.
Answer(t) ==
  /\ At(t, "await") /\ worker[t].state = "answered"
  /\ \E outcome \in {"ready", "failed"} :
        \/ outcome = "failed" /\ slot[t].cancelled /\ Ends(t, "cancelled")
        \/ ~(outcome = "failed" /\ slot[t].cancelled)
           /\ job' = [job EXCEPT ![thread[t].job].outcome = outcome]
           /\ thread' = [thread EXCEPT ![t].at = "ending", ![t].healthy = TRUE]
  /\ worker' = [worker EXCEPT ![t].state = "idle"]
  /\ UNCHANGED <<turn, queue, handed, slot, faults>>

\* The hard limit: the worker is killed at check-in.
Limit(t) ==
  /\ At(t, "await") /\ worker[t].alive /\ worker[t].state # "answered"
  /\ Ends(t, IF slot[t].cancelled THEN "cancelled" ELSE "failed")
  /\ UNCHANGED <<turn, queue, handed, slot, worker, faults>>

\* The worker is gone.  Before it accepted the file this counts for nothing,
\* once: the file is sent to a new one.
Gone(t) ==
  /\ At(t, "await") /\ ~worker[t].alive /\ worker[t].state # "answered"
  /\ IF worker[t].state = "sent" /\ thread[t].attempt = 1
     THEN Goes(t, "attempt") /\ UNCHANGED job
     ELSE Ends(t, IF slot[t].cancelled THEN "cancelled" ELSE "crash")
  /\ worker' = [worker EXCEPT ![t] = NoWorker]
  /\ turn' = Untargeted(t)
  /\ UNCHANGED <<queue, handed, slot, faults>>

\* _checkin kills a worker that did not answer; _loop hands the job back.
\* An error of a job cancelled meanwhile is no error of its file.
Excused(t) == /\ job[thread[t].job].cancelled
              /\ job[thread[t].job].outcome \in {"crash", "failed"}

HandBack(t) ==
  /\ At(t, "ending")
  /\ IF thread[t].healthy THEN UNCHANGED <<worker, turn>>
     ELSE worker' = [worker EXCEPT ![t] = NoWorker] /\ turn' = Untargeted(t)
  /\ job' = IF Excused(t) THEN [job EXCEPT ![thread[t].job].outcome = "cancelled"] ELSE job
  /\ slot' = [slot EXCEPT ![t] = [file |-> None, cancelled |-> FALSE]]
  /\ handed' = Append(handed, thread[t].job)
  /\ thread' = [thread EXCEPT ![t] = IdleThread]
  /\ UNCHANGED <<queue, faults>>

\* The pool is closed: the thread leaves and its worker with it.
Leave(t) ==
  /\ turn.at = "closed" /\ At(t, "idle") /\ queue = <<>>
  /\ Goes(t, "left")
  /\ worker' = [worker EXCEPT ![t] = NoWorker]
  /\ UNCHANGED <<turn, job, queue, handed, slot, faults>>

ThreadStep(t) == \/ GetJob(t) \/ Begin(t) \/ DownloadFails(t) \/ Attempt(t) \/ Checkout(t)
                 \/ CannotStart(t) \/ AnalysedHere(t) \/ Answer(t) \/ Limit(t)
                 \/ Gone(t) \/ HandBack(t) \/ Leave(t)

-----------------------------------------------------------------------------
(* The worker process: _child_main.                                        *)

Accept(t) ==
  /\ worker[t].alive /\ worker[t].state = "sent"
  /\ worker' = [worker EXCEPT ![t].state = "accepted"]
  /\ UNCHANGED <<turn, job, queue, handed, thread, slot, faults>>

Reply(t) ==
  /\ worker[t].alive /\ worker[t].state = "accepted"
  /\ worker' = [worker EXCEPT ![t].state = "answered"]
  /\ UNCHANGED <<turn, job, queue, handed, thread, slot, faults>>

\* The decoder crashes or the OOM killer takes the process.
Die(t) ==
  /\ worker[t].alive /\ worker[t].state # "answered" /\ faults.deaths < MaxDeaths
  /\ worker' = Killed(t)
  /\ job' = IF thread[t].job = None THEN job ELSE [job EXCEPT ![thread[t].job].died = TRUE]
  /\ faults' = [faults EXCEPT !.deaths = @ + 1]
  /\ UNCHANGED <<turn, queue, handed, thread, slot>>

WorkerStep(t) == Accept(t) \/ Reply(t)

Next == Turn \/ \E t \in Threads : ThreadStep(t) \/ WorkerStep(t) \/ Die(t)

Spec == Init /\ [][Next]_vars

-----------------------------------------------------------------------------
\* Each file a pass took is finished exactly once: the answer of a thread an
\* earlier pass gave up on settles nothing (settle's "a file abandoned by an
\* earlier pass"), and no file is left without an outcome when a pass is over.
FinishedOnce ==
  /\ \A j \in Jobs : job[j].finishes <= 1
  /\ turn.at \in {"between", "closed"} => \A j \in 1 .. turn.jobs : job[j].finishes = 1

\* Once a pass has cancelled its files no worker decodes one of them: a cancel
\* that found the worker idle, starting or just replaced still stops the file.
CancelSticks ==
  turn.at = "joining" =>
    \A t \in Threads :
      ~ /\ worker[t].alive /\ worker[t].state \in {"sent", "accepted"}
        /\ job[thread[t].job].cancelled

\* "cancel(token) cancels just that file": a file ends as the crash of its
\* worker only when a worker died of itself while it had the file.
CrashesAreOwn ==
  \A i \in DOMAIN handed : Known(handed[i]) /\ job[handed[i]].outcome = "crash" => job[handed[i]].died
=============================================================================
