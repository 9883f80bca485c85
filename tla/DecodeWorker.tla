---------------------------- MODULE DecodeWorker ----------------------------
(***************************************************************************)
(* One file's analysis in a child process, on a thread without a worker of *)
(* its own (analysis_isolation.run_isolated): a fork of a process that has *)
(* only its main thread, the process's pooled worker, or a one-off worker  *)
(* while the pooled one is busy.                                           *)
(*                                                                         *)
(* A worker is bound to the death of the thread that started it, answers   *)
(* over one pipe and serves file after file: what it still owes, and who   *)
(* started it, decide whether the next file may use it.                    *)
(***************************************************************************)
EXTENDS Naturals, Sequences, FiniteSets

CONSTANTS Main, Others,   \* the main thread and the threads beside it
          None,           \* no thread
          Workers,        \* the processes that may be started
          MaxFiles,       \* bound: files analysed
          MaxDeaths       \* bound: workers that die by themselves

\* What the constants must satisfy.
WorkerAssumption == /\ Main \notin Others /\ None \notin Others \union {Main}
                           /\ Workers \subseteq Nat \ {0}
                           /\ {MaxFiles, MaxDeaths} \subseteq Nat

AllThreads == Others \union {Main}

VARIABLES thread,   \* each thread's call of run_isolated
          lock,     \* _pool_lock's holder
          pooled,   \* _pooled
          worker,   \* each child process
          files, deaths
vars == <<thread, lock, pooled, worker, files, deaths>>

Free == [at |-> "free", file |-> 0, via |-> "none", on |-> 0, attempt |-> 0]
Absent == [Free EXCEPT !.at = "absent"]
NotStarted == [state |-> "none", creator |-> None, file |-> 0, owes |-> <<>>, end |-> "none"]

Init == /\ thread = [t \in AllThreads |-> IF t = Main THEN Free ELSE Absent]
        /\ lock = None /\ pooled = 0
        /\ worker = [w \in Workers |-> NotStarted]
        /\ files = 0 /\ deaths = 0

Alive(w) == w # 0 /\ worker[w].state \notin {"none", "gone"}
Gone(w) == worker[w].state = "gone"
Unstarted == {w \in Workers : worker[w].state = "none"}
New == CHOOSE w \in Unstarted : \A v \in Unstarted : w <= v

\* A process started by t that was sent the file; the pooled one t replaces
\* is killed and reaped.
Sent(w, t, file, state) ==
  [worker EXCEPT ![w] = [@ EXCEPT !.state = state, !.file = file,
                                  !.creator = IF worker[w].creator = None THEN t
                                             ELSE worker[w].creator]]
Killed(workers, w) == [workers EXCEPT ![w] = [NotStarted EXCEPT !.state = "gone", !.end = "killed"]]

-----------------------------------------------------------------------------
ThreadStarts(t) ==
  /\ thread[t].at = "absent"
  /\ thread' = [thread EXCEPT ![t] = Free]
  /\ UNCHANGED <<lock, pooled, worker, files, deaths>>

\* A thread ends, and with it every worker it started (PR_SET_PDEATHSIG).
ThreadEnds(t) ==
  /\ t # Main /\ thread[t].at = "free"
  /\ thread' = [thread EXCEPT ![t] = Absent]
  /\ worker' = [w \in Workers |-> IF worker[w].creator = t /\ Alive(w)
                                  THEN [worker[w] EXCEPT !.state = "gone", !.end = "thread"]
                                  ELSE worker[w]]
  /\ UNCHANGED <<lock, pooled, files, deaths>>

\* _use_fork: one Python thread, and it is the main one.
MayFork(t) == t = Main /\ \A o \in Others : thread[o].at = "absent"

Call(t) ==
  /\ thread[t].at = "free" /\ files < MaxFiles
  /\ files' = files + 1
  /\ thread' = [thread EXCEPT ![t] = [Free EXCEPT !.at = "checkout", !.file = files + 1, !.attempt = 1]]
  /\ UNCHANGED <<lock, pooled, worker, deaths>>

Fork(t) ==
  /\ thread[t].at = "checkout" /\ thread[t].attempt = 1 /\ MayFork(t) /\ Unstarted # {}
  /\ worker' = Sent(New, t, thread[t].file, "accepted")
  /\ thread' = [thread EXCEPT ![t].at = "await", ![t].via = "fork", ![t].on = New]
  /\ UNCHANGED <<lock, pooled, files, deaths>>

\* _checkout: the pooled worker is for the thread that started it.
ReusableByAnyThread(t) == Alive(pooled)
Reusable(t) == Alive(pooled) /\ worker[pooled].creator = t

Uses(t, w, via) == thread' = [thread EXCEPT ![t].at = "await", ![t].via = via, ![t].on = w]

CheckoutPooled(t) ==
  /\ thread[t].at = "checkout" /\ ~MayFork(t) /\ lock = None
  /\ lock' = t
  /\ \/ /\ Reusable(t)
        /\ worker' = Sent(pooled, t, thread[t].file, "sent")
        /\ Uses(t, pooled, "pooled") /\ UNCHANGED pooled
     \/ /\ ~Reusable(t) /\ Unstarted # {}
        /\ pooled' = New
        /\ worker' = IF Alive(pooled) THEN Killed(Sent(New, t, thread[t].file, "sent"), pooled)
                     ELSE Sent(New, t, thread[t].file, "sent")
        /\ Uses(t, New, "pooled")
  /\ UNCHANGED <<files, deaths>>

\* Another thread is using it: a worker for this file alone.
CheckoutOneOff(t) ==
  /\ thread[t].at = "checkout" /\ ~MayFork(t) /\ lock \notin {None, t} /\ Unstarted # {}
  /\ worker' = Sent(New, t, thread[t].file, "sent")
  /\ Uses(t, New, "own")
  /\ UNCHANGED <<lock, pooled, files, deaths>>

\* A worker that cannot start: the file is analysed in this process.
CannotStart(t) ==
  /\ thread[t].at = "checkout" /\ ~MayFork(t) /\ ~Reusable(t)
  /\ IF lock = None /\ Alive(pooled)
     THEN worker' = Killed(worker, pooled) /\ pooled' = 0
     ELSE UNCHANGED <<worker, pooled>>
  /\ thread' = [thread EXCEPT ![t] = Free]
  /\ UNCHANGED <<lock, files, deaths>>

-----------------------------------------------------------------------------
(* The child's side: _child_main, _fork_child_main.                        *)

Accept(w) ==
  /\ worker[w].state = "sent"
  /\ worker' = [worker EXCEPT ![w].state = "accepted"]
  /\ UNCHANGED <<thread, lock, pooled, files, deaths>>

Answer(w) ==
  /\ worker[w].state = "accepted"
  /\ worker' = [worker EXCEPT ![w].state = "idle", ![w].owes = Append(@, worker[w].file)]
  /\ UNCHANGED <<thread, lock, pooled, files, deaths>>

Dies(w) ==
  /\ Alive(w) /\ deaths < MaxDeaths
  /\ deaths' = deaths + 1
  /\ worker' = [worker EXCEPT ![w].state = "gone", ![w].end = IF worker[w].state = "sent"
                                                             THEN "unaccepted" ELSE "crash"]
  /\ UNCHANGED <<thread, lock, pooled, files>>

-----------------------------------------------------------------------------
(* _await_answer and _checkin.                                             *)

\* A healthy worker stays for the next file, a one-off and a fork are closed;
\* a worker that did not answer is killed and reaped, never used again.
StaysUnanswered(t, healthy) == thread[t].via = "pooled"
Stays(t, healthy) == healthy /\ thread[t].via = "pooled"

CheckedIn(t, healthy) ==
  /\ pooled' = IF ~Stays(t, healthy) /\ pooled = thread[t].on THEN 0 ELSE pooled
  /\ lock' = IF lock = t THEN None ELSE lock

Returned(t, healthy, workers) ==
  IF Stays(t, healthy) THEN workers ELSE Killed(workers, thread[t].on)

Read(t) ==
  /\ thread[t].at = "await" /\ worker[thread[t].on].owes # <<>>
  /\ worker' = Returned(t, TRUE, [worker EXCEPT ![thread[t].on].owes = Tail(@)])
  /\ thread' = [thread EXCEPT ![t] = Free]
  /\ CheckedIn(t, TRUE)
  /\ UNCHANGED <<files, deaths>>

\* The hard limit.
Limit(t) ==
  /\ thread[t].at = "await" /\ Alive(thread[t].on) /\ worker[thread[t].on].owes = <<>>
  /\ worker' = Returned(t, FALSE, worker)
  /\ thread' = [thread EXCEPT ![t] = Free]
  /\ CheckedIn(t, FALSE)
  /\ UNCHANGED <<files, deaths>>

\* Gone before it accepted the file: replaced once, uncounted.
Resent(t) == worker[thread[t].on].end = "unaccepted" /\ thread[t].attempt = 1

ReadGone(t) ==
  /\ thread[t].at = "await" /\ Gone(thread[t].on) /\ worker[thread[t].on].owes = <<>>
  /\ worker' = Returned(t, FALSE, worker)
  /\ thread' = [thread EXCEPT ![t] = IF Resent(t)
                                     THEN [Free EXCEPT !.at = "checkout", !.file = thread[t].file,
                                                       !.attempt = 2]
                                     ELSE Free]
  /\ CheckedIn(t, FALSE)
  /\ UNCHANGED <<files, deaths>>

Next == \/ \E t \in AllThreads : \/ ThreadStarts(t) \/ ThreadEnds(t) \/ Call(t) \/ Fork(t)
                              \/ CheckoutPooled(t) \/ CheckoutOneOff(t) \/ CannotStart(t)
                              \/ Read(t) \/ Limit(t) \/ ReadGone(t)
        \/ \E w \in Workers : Accept(w) \/ Answer(w) \/ Dies(w)

Spec == Init /\ [][Next]_vars

-----------------------------------------------------------------------------
\* Every answer a thread reads is about its own file: nothing a worker owed for
\* a file that was given up reaches the next one, and no two threads share one.
OwnAnswers ==
  \A t \in AllThreads : thread[t].at = "await" =>
    \A i \in DOMAIN worker[thread[t].on].owes : worker[thread[t].on].owes[i] = thread[t].file

\* No decode ends because a thread that has nothing to do with it did: a worker
\* in use was started by the thread that uses it.
DecodesOutliveThreads ==
  \A t \in AllThreads : thread[t].at = "await" => worker[thread[t].on].end # "thread"
=============================================================================
