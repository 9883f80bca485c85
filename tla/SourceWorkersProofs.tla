-------------------------- MODULE SourceWorkersProofs --------------------------
(* The workers of one source, for any number of them and of crashes, as       *)
(* components of the suite MCSourceStreams.  A batch finishes each of its     *)
(* files once, in the pool and on the single-file path of threads that have   *)
(* no worker of their own; a friend's copy is what its present credential     *)
(* fetched; the albums' loudness follows the catalogue; and the clients of    *)
(* the credits and of the loudness hold what the workers published.           *)
EXTENDS MCSourceStreams, FiniteSetTheorems, TLAPS

LEMMA NaturalsHaveLeast ==
  ASSUME NEW S \in SUBSET Nat, S # {}
  PROVE  \E m \in S : \A n \in S : m <= n
<1> DEFINE Less == {ss \in Nat \X Nat : ss[1] < ss[2]}
<1>1. IsWellFoundedOn(Less, Nat)
  BY NatLessThanWellFounded DEF OpToRel
<1>2. PICK m \in S : \A n \in S : <<n, m>> \notin Less
  BY <1>1, WFMin
<1>3. \A n \in S : ~(n < m)
  BY <1>2
<1> QED
  BY <1>3

\* A bounded set of naturals that is not empty has a greatest element.
LEMMA NaturalsHaveGreatest ==
  ASSUME NEW S \in SUBSET Nat, S # {}, NEW b \in Nat, \A x \in S : x <= b
  PROVE  \E m \in S : \A n \in S : n <= m
<1> DEFINE T == {k \in Nat : \E x \in S : k = b - x}
<1>1. PICK x \in S : TRUE
  OBVIOUS
<1>2. b - x \in T
  BY <1>1
<1>3. PICK k \in T : \A j \in T : k <= j
  BY <1>2, NaturalsHaveLeast
<1>4. PICK m \in S : k = b - m
  BY <1>3
<1>5. \A n \in S : b - n \in T
  OBVIOUS
<1>6. \A n \in S : b - m <= b - n
  BY <1>3, <1>4, <1>5
<1> QED
  BY <1>4, <1>6


\* A finite set of naturals is bounded.
LEMMA FiniteIsBounded ==
  ASSUME NEW S \in SUBSET Nat, S # {}, IsFiniteSet(S)
  PROVE  \E b \in Nat : \A x \in S : x <= b
<1> DEFINE above(x) == {y \in S : y > x}
           T == {c \in Nat : \E x \in S : c = Cardinality(above(x))}
<1>1. \A x \in S : IsFiniteSet(above(x)) /\ Cardinality(above(x)) \in Nat
  BY FS_Subset, FS_CardinalityType
<1>2. T # {}
  BY <1>1
<1>3. PICK m \in T : \A c \in T : m <= c
  BY <1>2, NaturalsHaveLeast
<1>4. PICK b \in S : m = Cardinality(above(b))
  BY <1>3
<1>5. ASSUME NEW y \in S, y > b PROVE FALSE
  <2>0. y \in Nat /\ b \in Nat /\ \A z \in S : z \in Nat
    OBVIOUS
  <2>1. above(y) \in SUBSET above(b) /\ y \in above(b) /\ y \notin above(y)
    <3>1. \A z \in S : z > y => z > b
      BY <1>5, <2>0
    <3>2. ~(y > y)
      BY <2>0
    <3>3. above(y) \subseteq above(b)
      BY <3>1
    <3>4. y \in above(b)
      BY <1>5
    <3>5. y \notin above(y)
      BY <3>2
    <3> QED
      BY <3>3, <3>4, <3>5
  <2>2. Cardinality(above(y)) <= m /\ Cardinality(above(y)) # m
    BY <1>1, <1>4, <2>1, FS_Subset
  <2>3. Cardinality(above(y)) \in T
    BY <1>1
  <2> QED
    BY <1>1, <1>3, <1>4, <2>2, <2>3
<1> QED
  BY <1>5

-----------------------------------------------------------------------------
(* The files of a batch, for any number of threads, files and passes.  In the *)
(* suite `live` is the turn's thread, `past` the jobs, `results` the queue,   *)
(* `journal` what was handed back, `builder` the threads, `lock` their slots  *)
(* and `state` their worker processes.                                        *)

Elements(s) == {s[i] : i \in DOMAIN s}
Distinct(s) == \A i, k \in DOMAIN s : s[i] = s[k] => i = k

LEMMA ElementsBelong ==
  ASSUME NEW S, NEW s \in Seq(S)
  PROVE  Elements(s) \subseteq S
BY DEF Elements

LEMMA LongerRange ==
  ASSUME NEW S, NEW R, S \subseteq R, NEW s \in Seq(S)
  PROVE  s \in Seq(R)
OBVIOUS

LEMMA AppendBelongs ==
  ASSUME NEW S, NEW s \in Seq(S), NEW x \in S
  PROVE  Append(s, x) \in Seq(S)
OBVIOUS

LEMMA Appending ==
  ASSUME NEW S, NEW s \in Seq(S), NEW x
  PROVE  /\ Elements(Append(s, x)) = Elements(s) \cup {x}
         /\ Distinct(s) /\ x \notin Elements(s) => Distinct(Append(s, x))
<1>1. /\ DOMAIN s = 1..Len(s) /\ Len(s) \in Nat
      /\ DOMAIN Append(s, x) = 1..(Len(s) + 1)
      /\ Append(s, x)[Len(s) + 1] = x
      /\ \A i \in 1..Len(s) : Append(s, x)[i] = s[i]
  OBVIOUS
<1>2. \A i \in 1..(Len(s) + 1) : i \in 1..Len(s) \/ i = Len(s) + 1
  BY <1>1
<1>3. Elements(Append(s, x)) = Elements(s) \cup {x}
  <2>1. ASSUME NEW y \in Elements(Append(s, x)) PROVE y \in Elements(s) \cup {x}
    BY <1>1, <1>2 DEF Elements
  <2>2. ASSUME NEW y \in Elements(s) PROVE y \in Elements(Append(s, x))
    <3>1. PICK i \in 1..Len(s) : y = s[i]
      BY <1>1 DEF Elements
    <3>2. i \in 1..(Len(s) + 1) /\ Append(s, x)[i] = y
      BY <1>1, <3>1
    <3> QED
      BY <1>1, <3>2 DEF Elements
  <2>3. x \in Elements(Append(s, x))
    <3>1. Len(s) + 1 \in 1..(Len(s) + 1)
      BY <1>1
    <3> QED
      BY <1>1, <3>1 DEF Elements
  <2> QED
    BY <2>1, <2>2, <2>3
<1>4. ASSUME Distinct(s), x \notin Elements(s) PROVE Distinct(Append(s, x))
  <2>1. \A i \in 1..Len(s) : s[i] # x
    BY <1>1, <1>4 DEF Elements
  <2> QED
    BY <1>1, <1>2, <1>4, <2>1 DEF Distinct
<1> QED
  BY <1>3, <1>4

LEMMA TakingHead ==
  ASSUME NEW S, NEW s \in Seq(S), s # << >>
  PROVE  /\ Head(s) \in Elements(s) /\ Elements(Tail(s)) \subseteq Elements(s)
         /\ Tail(s) \in Seq(S)
         /\ Distinct(s) => Distinct(Tail(s)) /\ Head(s) \notin Elements(Tail(s))
<1>1. /\ DOMAIN s = 1..Len(s) /\ Len(s) \in Nat \ {0} /\ Head(s) = s[1]
      /\ DOMAIN Tail(s) = 1..(Len(s) - 1) /\ Tail(s) \in Seq(S)
      /\ \A i \in 1..(Len(s) - 1) : Tail(s)[i] = s[i + 1]
  OBVIOUS
<1>2. /\ 1 \in 1..Len(s)
      /\ \A i \in 1..(Len(s) - 1) : i + 1 \in 1..Len(s) /\ i + 1 # 1
  BY <1>1
<1>3. Head(s) \in Elements(s) /\ Elements(Tail(s)) \subseteq Elements(s)
  BY <1>1, <1>2 DEF Elements
<1>4. ASSUME Distinct(s) PROVE Distinct(Tail(s)) /\ Head(s) \notin Elements(Tail(s))
  <2>1. ASSUME NEW i \in 1..(Len(s) - 1), NEW k \in 1..(Len(s) - 1), Tail(s)[i] = Tail(s)[k]
        PROVE  i = k
    <3>1. i + 1 = k + 1
      BY <1>1, <1>2, <1>4, <2>1 DEF Distinct
    <3> QED
      BY <1>1, <3>1
  <2>2. \A i \in 1..(Len(s) - 1) : Tail(s)[i] # s[1]
    BY <1>1, <1>2, <1>4 DEF Distinct
  <2> QED
    BY <1>1, <2>1, <2>2 DEF Distinct, Elements
<1> QED
  BY <1>1, <1>3, <1>4

TurnIsRecord(r) ==
    r = [at |-> r.at, pass |-> r.pass, cursor |-> r.cursor, taken |-> r.taken, jobs |-> r.jobs,
         inFlight |-> r.inFlight, done |-> r.done, stopped |-> r.stopped, todo |-> r.todo,
         now |-> r.now, target |-> r.target]
JobIsRecord(r) ==
    r = [unit |-> r.unit, slot |-> r.slot, cancelled |-> r.cancelled, outcome |-> r.outcome,
         finishes |-> r.finishes, died |-> r.died]
ThreadIsRecord(r) == r = [at |-> r.at, job |-> r.job, attempt |-> r.attempt, healthy |-> r.healthy]
SlotIsRecord(r) == r = [file |-> r.file, cancelled |-> r.cancelled]
WorkerIsRecord(r) == r = [state |-> r.state, alive |-> r.alive]

\* A job has been finished once when it was taken and is in flight no more.
TurnOK ==
    /\ TurnIsRecord(live) /\ live.jobs \in 0..MaxJobs /\ live.inFlight \subseteq 1..live.jobs
    /\ live.at \in {"between", "closed"} => live.inFlight = {}
    /\ live.target # None => live.now # None
    /\ live.now # None => live.at = "cancelling"
TimesFinished(j) == IF j \in (1..live.jobs) \ live.inFlight THEN 1 ELSE 0
JobsOK ==
    /\ DOMAIN past = 1..MaxJobs
    /\ \A j \in 1..MaxJobs : JobIsRecord(past[j]) /\ past[j].finishes = TimesFinished(j)

\* A job that was taken is queued, with one thread, or handed back.
Busy(t) == builder[t].at \notin {"idle", "left"}
QueueOK ==
    /\ results \in Seq(1..live.jobs) /\ journal \in Seq(1..live.jobs) /\ Distinct(results)
    /\ Elements(results) \cap Elements(journal) = {}
HeldOK(t) ==
    Busy(t) => /\ builder[t].job \in 1..live.jobs /\ past[builder[t].job].slot = t
               /\ builder[t].job \notin Elements(results) \cup Elements(journal)

\* A worker decodes only for the file its thread waits for or ends.
BegunWith(r) == r.at \in {"attempt", "checkout", "await", "here", "ending"}
Sent(w) == w.state \in {"sent", "accepted"}
ThreadOK(t) ==
    /\ ThreadIsRecord(builder[t]) /\ SlotIsRecord(lock[t]) /\ WorkerIsRecord(state[t])
    /\ builder[t].at # "ending" => ~builder[t].healthy
    /\ Sent(state[t]) => builder[t].at \in {"await", "ending"} /\ ~builder[t].healthy
    /\ BegunWith(builder[t]) => lock[t].file = builder[t].job

\* The cancel of a job reaches the thread that has begun it: the slot knows, or is
\* about to be told; and a worker that a cancelled slot has is about to be killed.
Telling(j) == live.at = "cancelling" /\ live.now = j /\ live.target = None
CancelOK(t) ==
    /\ lock[t].cancelled /\ state[t].alive /\ Sent(state[t]) =>
         live.at = "cancelling" /\ live.target = t
    /\ BegunWith(builder[t]) /\ past[builder[t].job].cancelled =>
         \/ lock[t].cancelled
         \/ Telling(builder[t].job)
         \/ builder[t].at = "ending" /\ ~Sent(state[t])

PoolRows ==
    /\ builder = [t \in Threads |-> builder[t]] /\ lock = [t \in Threads |-> lock[t]]
    /\ state = [t \in Threads |-> state[t]]
PoolInv ==
    /\ PoolRows /\ TurnOK /\ JobsOK /\ QueueOK
    /\ \A t \in Threads : HeldOK(t) /\ ThreadOK(t) /\ CancelOK(t)

LEMMA PoolBounds ==
  MaxJobs \in Nat /\ None \notin Threads /\ None \notin 1..MaxJobs /\ Pool!Jobs = 1..MaxJobs
BY BoundsHold DEF Pool!PoolAssumption, Pool!Jobs

LEMMA PoolBegins == ASSUME Pool!Init PROVE PoolInv
<1>1. /\ live = [at |-> "between", pass |-> 0, cursor |-> 0, taken |-> 0, jobs |-> 0,
                 inFlight |-> {}, done |-> {}, stopped |-> FALSE,
                 todo |-> {}, now |-> None, target |-> None]
      /\ past = [j \in 1..MaxJobs |-> Pool!Fresh] /\ results = << >> /\ journal = << >>
      /\ builder = [t \in Threads |-> Pool!IdleThread]
      /\ lock = [t \in Threads |-> [file |-> None, cancelled |-> FALSE]]
      /\ state = [t \in Threads |-> Pool!NoWorker]
  BY PoolBounds DEF Pool!Init
<1>2. TurnOK
  BY <1>1, PoolBounds DEF TurnOK, TurnIsRecord
<1>3. JobsOK
  <2>1. \A j \in 1..MaxJobs :
          past[j] = [unit |-> 0, slot |-> None, cancelled |-> FALSE, outcome |-> "none",
                     finishes |-> 0, died |-> FALSE]
    BY <1>1 DEF Pool!Fresh
  <2>2. \A j : TimesFinished(j) = 0
    BY <1>1 DEF TimesFinished
  <2> QED
    BY <1>1, <2>1, <2>2 DEF JobsOK, JobIsRecord
<1>4. QueueOK
  BY <1>1 DEF QueueOK, Distinct, Elements
<1>5. ASSUME NEW t \in Threads PROVE HeldOK(t) /\ ThreadOK(t) /\ CancelOK(t)
  <2>1. /\ builder[t] = [at |-> "idle", job |-> None, attempt |-> 0, healthy |-> FALSE]
        /\ lock[t] = [file |-> None, cancelled |-> FALSE]
        /\ state[t] = [state |-> "none", alive |-> FALSE]
    BY <1>1 DEF Pool!IdleThread, Pool!NoWorker
  <2> QED
    BY <2>1 DEF HeldOK, Busy, ThreadOK, ThreadIsRecord, SlotIsRecord, WorkerIsRecord, Sent,
       BegunWith, CancelOK
<1>6. PoolRows
  BY <1>1 DEF PoolRows
<1> QED
  BY <1>2, <1>3, <1>4, <1>5, <1>6 DEF PoolInv

\* What the invariant says is what the run checks.
LEMMA PoolFinishesOnce == ASSUME PoolInv PROVE Pool!FinishedOnce /\ Pool!CancelSticks
<1>1. \A j \in 1..MaxJobs : past[j].finishes = TimesFinished(j)
  BY DEF PoolInv, JobsOK
<1>2. \A j \in 1..MaxJobs : past[j].finishes <= 1
  BY <1>1 DEF TimesFinished
<1>3. ASSUME live.at \in {"between", "closed"}, NEW j \in 1..live.jobs PROVE past[j].finishes = 1
  BY <1>1, <1>3, PoolBounds DEF PoolInv, TurnOK, TimesFinished
<1>4. ASSUME live.at = "joining", NEW t \in Threads
      PROVE  ~(state[t].alive /\ state[t].state \in {"sent", "accepted"} /\ past[builder[t].job].cancelled)
  <2>1. ThreadOK(t) /\ CancelOK(t)
    BY DEF PoolInv
  <2>2. Sent(state[t]) => BegunWith(builder[t])
    BY <2>1 DEF ThreadOK, BegunWith
  <2> QED
    BY <1>4, <2>1, <2>2 DEF CancelOK, Telling, Sent
<1> QED
  BY <1>2, <1>3, <1>4, PoolBounds DEF Pool!FinishedOnce, Pool!CancelSticks

\* The turn stays, but for a target whose worker is gone.
TargetDropped(t) ==
    live' = live \/ (live.target = t /\ live' = [live EXCEPT !.target = None, !.now = None])

LEMMA TurnStays ==
  ASSUME PoolInv, NEW t \in Threads, TargetDropped(t)
  PROVE  /\ TurnOK' /\ live'.jobs = live.jobs /\ live'.inFlight = live.inFlight /\ live'.at = live.at
         /\ live.target = None => live' = live
         /\ \A u \in Threads \ {t} : live.target = u => live' = live
<1>1. CASE live' = live
  BY <1>1 DEF PoolInv, TurnOK, TurnIsRecord
<1>2. CASE live.target = t /\ live' = [live EXCEPT !.target = None, !.now = None]
  <2>1. live' = [at |-> live.at, pass |-> live.pass, cursor |-> live.cursor, taken |-> live.taken,
                 jobs |-> live.jobs, inFlight |-> live.inFlight, done |-> live.done,
                 stopped |-> live.stopped, todo |-> live.todo, now |-> None, target |-> None]
    BY <1>2 DEF PoolInv, TurnOK, TurnIsRecord
  <2> QED
    BY <1>2, <2>1, PoolBounds DEF PoolInv, TurnOK, TurnIsRecord
<1> QED
  BY <1>1, <1>2 DEF TargetDropped

\* Jobs are cancelled and finished by the turn only.
JobsLike(p) ==
    /\ DOMAIN p = 1..MaxJobs
    /\ \A j \in 1..MaxJobs : /\ JobIsRecord(p[j]) /\ p[j].finishes = past[j].finishes
                             /\ p[j].cancelled = past[j].cancelled

LEMMA OthersStay ==
  ASSUME PoolInv, NEW t \in Threads, TargetDropped(t), JobsLike(past'), NEW u \in Threads \ {t},
         builder'[u] = builder[u], lock'[u] = lock[u], state'[u] = state[u]
  PROVE  ThreadOK(u)' /\ CancelOK(u)'
<1>1. ThreadOK(u) /\ CancelOK(u) /\ HeldOK(u)
  BY DEF PoolInv
<1>2. ThreadOK(u)'
  BY <1>1 DEF ThreadOK
<1>3. \A j \in 1..live.jobs : j \in 1..MaxJobs
  BY PoolBounds DEF PoolInv, TurnOK
<1>4. BegunWith(builder[u]) => past'[builder[u].job].cancelled = past[builder[u].job].cancelled
  BY <1>1, <1>3 DEF HeldOK, Busy, BegunWith, JobsLike
<1>5. live'.at = live.at /\ (live.target = u => live'.target = u) /\ \A j : Telling(j) => Telling(j)'
  BY TurnStays DEF Telling
<1> QED
  BY <1>1, <1>2, <1>4, <1>5 DEF CancelOK

\* A step of one thread or of its worker: what it owes is what it keeps of its own.
LEMMA ThreadMoves ==
  ASSUME PoolInv, NEW t \in Threads, PoolRows', UNCHANGED <<results, journal>>,
         TargetDropped(t), JobsLike(past'), \A j \in 1..MaxJobs : past'[j].slot = past[j].slot,
         \A u \in Threads \ {t} : /\ builder'[u] = builder[u] /\ lock'[u] = lock[u]
                                  /\ state'[u] = state[u],
         builder'[t].job = builder[t].job, Busy(t)' => Busy(t),
         ThreadOK(t)', CancelOK(t)'
  PROVE  PoolInv'
<1>1. TurnOK' /\ live'.jobs = live.jobs /\ live'.inFlight = live.inFlight /\ live'.at = live.at
  BY TurnStays
<1>2. JobsOK'
  BY <1>1 DEF PoolInv, JobsOK, JobsLike, TimesFinished
<1>3. QueueOK'
  BY <1>1 DEF PoolInv, QueueOK
<1>4. \A j \in 1..live.jobs : j \in 1..MaxJobs
  BY PoolBounds DEF PoolInv, TurnOK
<1>5. ASSUME NEW u \in Threads PROVE HeldOK(u)'
  <2>1. HeldOK(u) /\ builder'[u].job = builder[u].job /\ (Busy(u)' => Busy(u))
    BY DEF PoolInv, Busy
  <2> QED
    BY <1>1, <1>4, <2>1 DEF HeldOK
<1>6. \A u \in Threads \ {t} : ThreadOK(u)' /\ CancelOK(u)'
  BY OthersStay
<1> QED
  BY <1>1, <1>2, <1>3, <1>5, <1>6 DEF PoolInv

SlotsLike(p) == JobsLike(p) /\ \A j \in 1..MaxJobs : p[j].slot = past[j].slot

\* The thread of a job ends with an outcome, and nothing of the jobs changes else.
LEMMA OutcomesOnly ==
  ASSUME PoolInv, NEW k, NEW v, past' = [past EXCEPT ![k].outcome = v]
  PROVE  SlotsLike(past')
<1>1. DOMAIN past' = 1..MaxJobs
  BY DEF PoolInv, JobsOK
<1>2. ASSUME NEW j \in 1..MaxJobs
      PROVE  /\ JobIsRecord(past[j])' /\ past'[j].finishes = past[j].finishes
             /\ past'[j].slot = past[j].slot /\ past'[j].cancelled = past[j].cancelled
  <2>1. past[j] = [unit |-> past[j].unit, slot |-> past[j].slot, cancelled |-> past[j].cancelled,
                   outcome |-> past[j].outcome, finishes |-> past[j].finishes, died |-> past[j].died]
    BY DEF PoolInv, JobsOK, JobIsRecord
  <2>2. CASE j = k
    <3>1. past'[j] = [past[j] EXCEPT !.outcome = v]
      BY <2>2 DEF PoolInv, JobsOK
    <3>2. past'[j] = [unit |-> past[j].unit, slot |-> past[j].slot, cancelled |-> past[j].cancelled,
                      outcome |-> v, finishes |-> past[j].finishes, died |-> past[j].died]
      BY <2>1, <3>1
    <3> QED
      BY <3>2 DEF JobIsRecord
  <2>3. CASE j # k
    <3>1. past'[j] = past[j]
      BY <2>3 DEF PoolInv, JobsOK
    <3> QED
      BY <2>1, <3>1 DEF JobIsRecord
  <2> QED
    BY <2>2, <2>3
<1> QED
  BY <1>1, <1>2 DEF SlotsLike, JobsLike, JobIsRecord

LEMMA JobsStay ==
  ASSUME PoolInv, UNCHANGED past
  PROVE  SlotsLike(past')
BY DEF PoolInv, JobsOK, JobIsRecord, SlotsLike, JobsLike

\* What a thread and its worker look like after a step that the lemmas below cover.
Becomes(t, at, attempt, healthy) ==
    builder' = [builder EXCEPT ![t] = [at |-> at, job |-> builder[t].job, attempt |-> attempt,
                                       healthy |-> healthy]]

LEMMA ThreadGoes ==
  ASSUME PoolInv, NEW t \in Threads, NEW place, builder' = [builder EXCEPT ![t].at = place]
  PROVE  Becomes(t, place, builder[t].attempt, builder[t].healthy)
<1>1. builder[t] = [at |-> builder[t].at, job |-> builder[t].job, attempt |-> builder[t].attempt,
                    healthy |-> builder[t].healthy]
  BY DEF PoolInv, ThreadOK, ThreadIsRecord
<1>2. [builder[t] EXCEPT !.at = place] =
        [at |-> place, job |-> builder[t].job, attempt |-> builder[t].attempt,
         healthy |-> builder[t].healthy]
  BY <1>1
<1> QED
  BY <1>2 DEF Becomes

\* A thread at work moves to another place of its work, with the slot it has; what
\* its worker does then is sent to it only when the slot is not cancelled.
LEMMA ThreadWorks ==
  ASSUME PoolInv, NEW t \in Threads, NEW at, NEW attempt, NEW healthy \in BOOLEAN,
         Becomes(t, at, attempt, healthy), NEW w, WorkerIsRecord(w),
         state' = [state EXCEPT ![t] = w],
         BegunWith(builder[t]), at \in {"attempt", "checkout", "await", "here", "ending"},
         at # "ending" => ~healthy, builder[t].at # "ending",
         Sent(w) => at \in {"await", "ending"} /\ ~healthy,
         Sent(w) /\ w.alive /\ lock[t].cancelled =>
           Sent(state[t]) /\ state[t].alive /\ live' = live,
         TargetDropped(t),
         UNCHANGED <<results, journal, lock>>,
         SlotsLike(past')
  PROVE  PoolInv'
<1>1. PoolRows' /\ \A u \in Threads \ {t} : builder'[u] = builder[u] /\ state'[u] = state[u]
  BY DEF PoolInv, PoolRows, Becomes
<1>2. /\ builder'[t] = [at |-> at, job |-> builder[t].job, attempt |-> attempt, healthy |-> healthy]
      /\ state'[t] = w
  BY DEF PoolInv, PoolRows, Becomes
<1>3. /\ builder'[t].at = at /\ builder'[t].job = builder[t].job /\ builder'[t].healthy = healthy
      /\ ThreadIsRecord(builder[t])'
  BY <1>2 DEF ThreadIsRecord
<1>4. ThreadOK(t) /\ CancelOK(t) /\ HeldOK(t) /\ Busy(t)
  BY DEF PoolInv, BegunWith, Busy
<1>5. ThreadOK(t)'
  BY <1>2, <1>3, <1>4 DEF ThreadOK, BegunWith
<1>6. live'.at = live.at /\ (live.target = None => live' = live)
  BY TurnStays
<1>7. builder[t].job \in 1..MaxJobs
  BY <1>4, PoolBounds DEF HeldOK, PoolInv, TurnOK
<1>8. past[builder[t].job].cancelled => lock[t].cancelled \/ Telling(builder[t].job)
  BY <1>4 DEF CancelOK
<1>9. Telling(builder[t].job) => Telling(builder[t].job)'
  BY <1>3, <1>6 DEF Telling
<1>10. CancelOK(t)'
  BY <1>2, <1>3, <1>4, <1>7, <1>8, <1>9 DEF CancelOK, SlotsLike, JobsLike
<1> QED
  BY <1>1, <1>3, <1>4, <1>5, <1>10, ThreadMoves DEF SlotsLike

LEMMA ChildWorks ==
  ASSUME PoolInv, NEW t \in Threads, NEW w, WorkerIsRecord(w), state' = [state EXCEPT ![t] = w],
         Sent(w) => Sent(state[t]), w.alive => state[t].alive,
         UNCHANGED <<live, results, journal, lock, builder>>,
         SlotsLike(past')
  PROVE  PoolInv'
<1>1. /\ PoolRows' /\ state'[t] = w
      /\ \A u \in Threads \ {t} : builder'[u] = builder[u] /\ state'[u] = state[u]
  BY DEF PoolInv, PoolRows
<1>2. ThreadOK(t) /\ CancelOK(t) /\ HeldOK(t)
  BY DEF PoolInv
<1>3. ThreadOK(t)'
  BY <1>1, <1>2 DEF ThreadOK
<1>4. BegunWith(builder[t]) => builder[t].job \in 1..MaxJobs
  BY <1>2, PoolBounds DEF HeldOK, Busy, BegunWith, PoolInv, TurnOK
<1>5. CancelOK(t)'
  BY <1>1, <1>2, <1>4 DEF CancelOK, Telling, SlotsLike, JobsLike
<1> QED
  BY <1>1, <1>3, <1>5, ThreadMoves DEF Busy, SlotsLike, TargetDropped

LEMMA ChildSteps ==
  ASSUME PoolInv, NEW t \in Threads, Pool!Accept(t) \/ Pool!Reply(t) \/ Pool!Die(t)
  PROVE  PoolInv'
<1>1. WorkerIsRecord(state[t])
  BY DEF PoolInv, ThreadOK
<1>2. ASSUME NEW place \in {"accepted", "answered"}, state' = [state EXCEPT ![t].state = place],
             Sent(state[t]), UNCHANGED <<live, past, results, journal, lock, builder>>
      PROVE  PoolInv'
  <2>1. PICK w : w = [state[t] EXCEPT !.state = place]
    OBVIOUS
  <2>2. w = [state |-> place, alive |-> state[t].alive]
    BY <1>1, <2>1 DEF WorkerIsRecord
  <2>3. WorkerIsRecord(w) /\ (w.alive => state[t].alive)
    BY <2>2 DEF WorkerIsRecord
  <2>4. state' = [state EXCEPT ![t] = w]
    BY <1>2, <2>1
  <2> QED
    BY <1>2, <2>3, <2>4, JobsStay, ChildWorks
<1>3. ASSUME Pool!Accept(t) PROVE PoolInv'
  BY <1>2, <1>3 DEF Pool!Accept, Sent
<1>4. ASSUME Pool!Reply(t) PROVE PoolInv'
  BY <1>2, <1>4 DEF Pool!Reply, Sent
<1>5. ASSUME Pool!Die(t) PROVE PoolInv'
  <2>1. PICK w : w = [state[t] EXCEPT !.alive = FALSE]
    OBVIOUS
  <2>2. w = [state |-> state[t].state, alive |-> FALSE]
    BY <1>1, <2>1 DEF WorkerIsRecord
  <2>3. WorkerIsRecord(w) /\ ~w.alive /\ (Sent(w) => Sent(state[t]))
    BY <2>2 DEF WorkerIsRecord, Sent
  <2>4. state' = [state EXCEPT ![t] = w] /\ UNCHANGED <<live, results, journal, lock, builder>>
    BY <1>5, <2>1 DEF Pool!Die, Pool!Killed
  <2>5. SlotsLike(past')
    <3>1. CASE past' = past
      BY <3>1, JobsStay
    <3>2. CASE past' = [past EXCEPT ![builder[t].job].died = TRUE]
      <4>1. DOMAIN past' = 1..MaxJobs
        BY <3>2 DEF PoolInv, JobsOK
      <4>2. ASSUME NEW j \in 1..MaxJobs
            PROVE  /\ JobIsRecord(past[j])' /\ past'[j].finishes = past[j].finishes
                   /\ past'[j].slot = past[j].slot /\ past'[j].cancelled = past[j].cancelled
        <5>1. past[j] = [unit |-> past[j].unit, slot |-> past[j].slot, cancelled |-> past[j].cancelled,
                         outcome |-> past[j].outcome, finishes |-> past[j].finishes, died |-> past[j].died]
          BY DEF PoolInv, JobsOK, JobIsRecord
        <5>2. past'[j] = past[j] \/ past'[j] = [past[j] EXCEPT !.died = TRUE]
          BY <3>2 DEF PoolInv, JobsOK
        <5>3. CASE past'[j] = past[j]
          BY <5>1, <5>3 DEF JobIsRecord
        <5>4. CASE past'[j] = [past[j] EXCEPT !.died = TRUE]
          <6>1. past'[j] = [unit |-> past[j].unit, slot |-> past[j].slot,
                            cancelled |-> past[j].cancelled, outcome |-> past[j].outcome,
                            finishes |-> past[j].finishes, died |-> TRUE]
            BY <5>1, <5>4
          <6> QED
            BY <6>1 DEF JobIsRecord
        <5> QED
          BY <5>2, <5>3, <5>4
      <4> QED
        BY <4>1, <4>2 DEF SlotsLike, JobsLike, JobIsRecord
    <3> QED
      BY <1>5, <3>1, <3>2 DEF Pool!Die
  <2> QED
    BY <2>3, <2>4, <2>5, ChildWorks
<1> QED
  BY <1>3, <1>4, <1>5

\* An end of a thread's work, with an outcome.
LEMMA EndsWith ==
  ASSUME PoolInv, NEW t \in Threads, NEW v, Pool!Ends(t, v)
  PROVE  /\ Becomes(t, "ending", builder[t].attempt, builder[t].healthy)
         /\ SlotsLike(past')
BY ThreadGoes, OutcomesOnly DEF Pool!Ends

LEMMA GoesTo ==
  ASSUME PoolInv, NEW t \in Threads, NEW place, Pool!Goes(t, place), UNCHANGED past
  PROVE  /\ Becomes(t, place, builder[t].attempt, builder[t].healthy)
         /\ SlotsLike(past')
BY ThreadGoes, JobsStay DEF Pool!Goes

\* What a thread at work has when it has not ended.
LEMMA AtPlace ==
  ASSUME PoolInv, NEW t \in Threads, builder[t].at \in {"attempt", "checkout", "await", "here"}
  PROVE  /\ BegunWith(builder[t]) /\ builder[t].at # "ending" /\ builder[t].healthy = FALSE
         /\ WorkerIsRecord(state[t]) /\ state = [state EXCEPT ![t] = state[t]]
         /\ builder[t].at # "await" => ~Sent(state[t])
<1>1. ThreadOK(t) /\ PoolRows
  BY DEF PoolInv
<1>2. builder[t].healthy = FALSE
  BY <1>1 DEF ThreadOK
<1> QED
  BY <1>1, <1>2 DEF ThreadOK, BegunWith, PoolRows

LEMMA PoolAttempts ==
  ASSUME PoolInv, NEW t \in Threads, Pool!DownloadFails(t) \/ Pool!Attempt(t)
  PROVE  PoolInv'
<1>1. builder[t].at = "attempt" /\ UNCHANGED <<live, results, journal, lock, state>>
  BY DEF Pool!DownloadFails, Pool!Attempt, Pool!At
<1>2. /\ BegunWith(builder[t]) /\ builder[t].at # "ending" /\ builder[t].healthy = FALSE
      /\ WorkerIsRecord(state[t]) /\ state' = [state EXCEPT ![t] = state[t]] /\ ~Sent(state[t])
  BY <1>1, AtPlace
<1>3. ASSUME NEW v, Pool!Ends(t, v) PROVE PoolInv'
  BY <1>1, <1>2, <1>3, EndsWith, ThreadWorks DEF TargetDropped
<1>4. ASSUME Pool!Attempt(t), ~lock[t].cancelled PROVE PoolInv'
  <2>1. /\ builder' = [builder EXCEPT ![t].at = "checkout", ![t].attempt = @ + 1]
        /\ UNCHANGED past
    BY <1>4 DEF Pool!Attempt
  <2>2. PICK b : b = builder[t]
    OBVIOUS
  <2>6. ThreadIsRecord(b)
    BY <2>2 DEF PoolInv, ThreadOK
  <2>5. PICK x : x = [b EXCEPT !.at = "checkout", !.attempt = @ + 1]
    OBVIOUS
  <2>3. x = [at |-> "checkout", job |-> b.job, attempt |-> b.attempt + 1, healthy |-> b.healthy]
    BY <2>5, <2>6 DEF ThreadIsRecord
  <2>4. Becomes(t, "checkout", builder[t].attempt + 1, FALSE)
    BY <1>2, <2>1, <2>2, <2>3, <2>5 DEF Becomes
  <2> QED
    BY <1>1, <1>2, <2>1, <2>4, JobsStay, ThreadWorks DEF TargetDropped
<1> QED
  BY <1>3, <1>4 DEF Pool!DownloadFails, Pool!Attempt

LEMMA PoolAwaits ==
  ASSUME PoolInv, NEW t \in Threads, Pool!Answer(t) \/ Pool!Limit(t)
  PROVE  PoolInv'
<1>1. builder[t].at = "await" /\ UNCHANGED <<live, results, journal, lock>>
  BY DEF Pool!Answer, Pool!Limit, Pool!At
<1>2. /\ BegunWith(builder[t]) /\ builder[t].at # "ending" /\ builder[t].healthy = FALSE
      /\ WorkerIsRecord(state[t]) /\ state = [state EXCEPT ![t] = state[t]]
  BY <1>1, AtPlace
<1>3. ASSUME Pool!Limit(t) PROVE PoolInv'
  <2>1. PICK v : Pool!Ends(t, v)
    BY <1>3 DEF Pool!Limit
  <2>2. state' = [state EXCEPT ![t] = state[t]]
    BY <1>2, <1>3 DEF Pool!Limit
  <2> QED
    BY <1>1, <1>2, <2>1, <2>2, EndsWith, ThreadWorks DEF TargetDropped
<1>4. ASSUME Pool!Answer(t) PROVE PoolInv'
  <2>1. PICK w : w = [state[t] EXCEPT !.state = "idle"]
    OBVIOUS
  <2>2. w = [state |-> "idle", alive |-> state[t].alive]
    BY <1>2, <2>1 DEF WorkerIsRecord
  <2>3. WorkerIsRecord(w) /\ ~Sent(w)
    BY <2>2 DEF WorkerIsRecord, Sent
  <2>4. state' = [state EXCEPT ![t] = w]
    BY <1>4, <2>1 DEF Pool!Answer
  <2>5. ASSUME NEW v, Pool!Ends(t, v) PROVE PoolInv'
    BY <1>1, <1>2, <2>3, <2>4, <2>5, EndsWith, ThreadWorks DEF TargetDropped
  <2>6. ASSUME NEW v, past' = [past EXCEPT ![builder[t].job].outcome = v],
               builder' = [builder EXCEPT ![t].at = "ending", ![t].healthy = TRUE]
        PROVE  PoolInv'
    <3>1. PICK b : b = builder[t]
      OBVIOUS
    <3>4. ThreadIsRecord(b)
      BY <3>1 DEF PoolInv, ThreadOK
    <3>5. PICK x : x = [b EXCEPT !.at = "ending", !.healthy = TRUE]
      OBVIOUS
    <3>2. x = [at |-> "ending", job |-> b.job, attempt |-> b.attempt, healthy |-> TRUE]
      BY <3>4, <3>5 DEF ThreadIsRecord
    <3>3. Becomes(t, "ending", builder[t].attempt, TRUE)
      BY <2>6, <3>1, <3>2, <3>5 DEF Becomes
    <3> QED
      BY <1>1, <1>2, <2>3, <2>4, <2>6, <3>3, OutcomesOnly, ThreadWorks DEF TargetDropped
  <2> QED
    BY <1>4, <2>5, <2>6 DEF Pool!Answer
<1> QED
  BY <1>3, <1>4

LEMMA NoWorkerLeft ==
  /\ WorkerIsRecord(Pool!NoWorker) /\ ~Sent(Pool!NoWorker) /\ ~Pool!NoWorker.alive
  /\ WorkerIsRecord(Pool!IdleWorker) /\ ~Sent(Pool!IdleWorker)
BY DEF WorkerIsRecord, Sent, Pool!NoWorker, Pool!IdleWorker

LEMMA TargetLost ==
  ASSUME NEW t \in Threads, live' = Pool!Untargeted(t)
  PROVE  TargetDropped(t)
BY DEF Pool!Untargeted, TargetDropped

LEMMA PoolChecksOut ==
  ASSUME PoolInv, NEW t \in Threads,
         Pool!Checkout(t) \/ Pool!CannotStart(t) \/ Pool!AnalysedHere(t) \/ Pool!Gone(t)
  PROVE  PoolInv'
<1>1. UNCHANGED <<results, journal, lock>> /\ builder[t].at \in {"checkout", "await", "here"}
  BY DEF Pool!Checkout, Pool!CannotStart, Pool!AnalysedHere, Pool!Gone, Pool!At
<1>2. /\ BegunWith(builder[t]) /\ builder[t].at # "ending" /\ builder[t].healthy = FALSE
      /\ WorkerIsRecord(state[t]) /\ state = [state EXCEPT ![t] = state[t]]
      /\ builder[t].at # "await" => ~Sent(state[t])
  BY <1>1, AtPlace
<1>3. ASSUME NEW w, WorkerIsRecord(w), ~Sent(w), state' = [state EXCEPT ![t] = w],
             TargetDropped(t),
             (\E v : Pool!Ends(t, v)) \/ (\E at \in {"attempt", "here"} : Pool!Goes(t, at) /\ UNCHANGED past)
      PROVE  PoolInv'
  <2>1. ASSUME NEW v, Pool!Ends(t, v) PROVE PoolInv'
    <3>1. Becomes(t, "ending", builder[t].attempt, FALSE)
      BY <1>2, <2>1, EndsWith
    <3>2. SlotsLike(past')
      BY <2>1, EndsWith
    <3> QED
      BY <1>1, <1>2, <1>3, <3>1, <3>2, ThreadWorks
  <2>2. ASSUME NEW at \in {"attempt", "here"}, Pool!Goes(t, at), UNCHANGED past PROVE PoolInv'
    <3>1. /\ Becomes(t, at, builder[t].attempt, FALSE)
          /\ at \in {"attempt", "checkout", "await", "here", "ending"}
      BY <1>2, <2>2, GoesTo
    <3> QED
      BY <1>1, <1>2, <1>3, <2>2, <3>1, JobsStay, ThreadWorks
  <2> QED
    BY <1>3, <2>1, <2>2
<1>4. ASSUME Pool!AnalysedHere(t) PROVE PoolInv'
  <2>1. /\ state' = [state EXCEPT ![t] = state[t]] /\ ~Sent(state[t]) /\ live' = live
        /\ Pool!Ends(t, "ready")
    BY <1>2, <1>4 DEF Pool!AnalysedHere, Pool!At
  <2> QED
    BY <1>2, <1>3, <2>1 DEF TargetDropped
<1>5. ASSUME Pool!CannotStart(t) PROVE PoolInv'
  <2>1. /\ state' = [state EXCEPT ![t] = Pool!NoWorker] /\ live' = Pool!Untargeted(t)
        /\ Pool!Ends(t, "cancelled") \/ (Pool!Goes(t, "here") /\ UNCHANGED past)
    BY <1>5 DEF Pool!CannotStart
  <2> QED
    BY <1>3, <2>1, NoWorkerLeft, TargetLost
<1>6. ASSUME Pool!Gone(t) PROVE PoolInv'
  <2>1. /\ state' = [state EXCEPT ![t] = Pool!NoWorker] /\ live' = Pool!Untargeted(t)
        /\ (\E v : Pool!Ends(t, v)) \/ (Pool!Goes(t, "attempt") /\ UNCHANGED past)
    BY <1>6 DEF Pool!Gone
  <2> QED
    BY <1>3, <2>1, NoWorkerLeft, TargetLost
<1>7. ASSUME Pool!Checkout(t) PROVE PoolInv'
  <2>1. TargetDropped(t)
    BY <1>7, TargetLost DEF Pool!Checkout, TargetDropped
  <2>2. CASE lock[t].cancelled
    <3>1. state' = [state EXCEPT ![t] = Pool!IdleWorker] /\ Pool!Ends(t, "cancelled")
      BY <1>7, <2>2 DEF Pool!Checkout, Pool!CancelledSince
    <3> QED
      BY <1>3, <2>1, <3>1, NoWorkerLeft
  <2>3. CASE ~lock[t].cancelled
    <3>1. PICK w : w = [Pool!IdleWorker EXCEPT !.state = "sent"]
      OBVIOUS
    <3>2. w = [state |-> "sent", alive |-> TRUE]
      BY <3>1 DEF Pool!IdleWorker
    <3>3. WorkerIsRecord(w)
      BY <3>2 DEF WorkerIsRecord
    <3>4. /\ state' = [state EXCEPT ![t] = w] /\ Pool!Goes(t, "await") /\ UNCHANGED past
      BY <1>7, <2>3, <3>1 DEF Pool!Checkout, Pool!CancelledSince
    <3>5. Becomes(t, "await", builder[t].attempt, FALSE)
      BY <1>2, <3>4, GoesTo
    <3> QED
      BY <1>1, <1>2, <2>1, <2>3, <3>3, <3>4, <3>5, JobsStay, ThreadWorks
  <2> QED
    BY <2>2, <2>3
<1> QED
  BY <1>4, <1>5, <1>6, <1>7

LEMMA PoolBeginsFile ==
  ASSUME PoolInv, NEW t \in Threads, Pool!Begin(t)
  PROVE  PoolInv'
<1>1. /\ builder[t].at = "got" /\ UNCHANGED <<live, results, journal, state>>
      /\ lock' = [lock EXCEPT ![t] = [file |-> builder[t].job, cancelled |-> FALSE]]
  BY DEF Pool!Begin, Pool!At
<1>2. ThreadOK(t) /\ HeldOK(t) /\ Busy(t) /\ PoolRows
  BY <1>1 DEF PoolInv, Busy
<1>3. PICK at \in {"attempt", "ending"} :
        /\ Becomes(t, at, builder[t].attempt, builder[t].healthy) /\ SlotsLike(past')
        /\ past[builder[t].job].cancelled => at = "ending"
  <2>1. CASE past[builder[t].job].cancelled
    <3>1. Pool!Ends(t, "cancelled")
      BY <2>1 DEF Pool!Begin
    <3> QED
      BY <3>1, EndsWith
  <2>2. CASE ~past[builder[t].job].cancelled
    <3>1. Pool!Goes(t, "attempt") /\ UNCHANGED past
      BY <2>2 DEF Pool!Begin
    <3> QED
      BY <2>2, <3>1, GoesTo
  <2> QED
    BY <2>1, <2>2
<1>4. /\ builder'[t] = [at |-> at, job |-> builder[t].job, attempt |-> builder[t].attempt,
                        healthy |-> builder[t].healthy]
      /\ lock'[t] = [file |-> builder[t].job, cancelled |-> FALSE] /\ state'[t] = state[t]
      /\ \A u \in Threads \ {t} : builder'[u] = builder[u] /\ lock'[u] = lock[u] /\ state'[u] = state[u]
      /\ PoolRows'
  BY <1>1, <1>2, <1>3 DEF PoolRows, Becomes
<1>5. ~Sent(state[t]) /\ ~builder[t].healthy /\ builder[t].job \in 1..MaxJobs
  BY <1>1, <1>2, PoolBounds DEF ThreadOK, HeldOK, PoolInv, TurnOK
<1>6. ThreadOK(t)' /\ builder'[t].job = builder[t].job
  BY <1>2, <1>4, <1>5 DEF ThreadOK, ThreadIsRecord, SlotIsRecord
<1>7. CancelOK(t)'
  BY <1>3, <1>4, <1>5 DEF CancelOK, SlotsLike, JobsLike
<1> QED
  BY <1>1, <1>2, <1>3, <1>4, <1>6, <1>7, ThreadMoves DEF SlotsLike, TargetDropped

LEMMA PoolLeaves ==
  ASSUME PoolInv, NEW t \in Threads, Pool!Leave(t)
  PROVE  PoolInv'
<1>1. /\ builder[t].at = "idle" /\ UNCHANGED <<live, past, results, journal, lock>>
      /\ Pool!Goes(t, "left") /\ state' = [state EXCEPT ![t] = Pool!NoWorker]
  BY DEF Pool!Leave, Pool!At
<1>2. ThreadOK(t) /\ PoolRows
  BY DEF PoolInv
<1>3. Becomes(t, "left", builder[t].attempt, builder[t].healthy) /\ SlotsLike(past')
  BY <1>1, GoesTo
<1>4. /\ builder'[t] = [at |-> "left", job |-> builder[t].job, attempt |-> builder[t].attempt,
                        healthy |-> builder[t].healthy]
      /\ lock'[t] = lock[t] /\ state'[t] = Pool!NoWorker
      /\ \A u \in Threads \ {t} : builder'[u] = builder[u] /\ lock'[u] = lock[u] /\ state'[u] = state[u]
      /\ PoolRows'
  BY <1>1, <1>2, <1>3 DEF PoolRows, Becomes
<1>5. ~builder[t].healthy
  BY <1>1, <1>2 DEF ThreadOK
<1>6. ThreadOK(t)' /\ ~Busy(t)' /\ builder'[t].job = builder[t].job
  BY <1>2, <1>4, <1>5, NoWorkerLeft DEF ThreadOK, ThreadIsRecord, SlotIsRecord, BegunWith, Busy
<1>7. CancelOK(t)'
  BY <1>4, NoWorkerLeft DEF CancelOK, BegunWith
<1> QED
  BY <1>1, <1>3, <1>4, <1>6, <1>7, ThreadMoves DEF SlotsLike, TargetDropped

LEMMA PoolGetsJob ==
  ASSUME PoolInv, NEW t \in Threads, Pool!GetJob(t)
  PROVE  PoolInv'
<1>1. /\ builder[t].at = "idle" /\ results # << >> /\ results' = Tail(results)
      /\ past' = [past EXCEPT ![Head(results)].slot = t]
      /\ UNCHANGED <<live, journal, lock, state>>
  BY DEF Pool!GetJob, Pool!At
<1>2. PICK j : j = Head(results)
  OBVIOUS
<1>3. /\ j \in Elements(results) /\ Elements(results') \subseteq Elements(results)
      /\ j \notin Elements(results') /\ results' \in Seq(1..live.jobs) /\ Distinct(results')
  BY <1>1, <1>2, TakingHead DEF PoolInv, QueueOK
<1>4. j \in 1..live.jobs /\ j \in 1..MaxJobs /\ j \notin Elements(journal)
  <2>1. results \in Seq(1..live.jobs)
    BY DEF PoolInv, QueueOK
  <2>2. Elements(results) \subseteq 1..live.jobs
    BY <2>1, ElementsBelong
  <2> QED
    BY <1>3, <2>2, PoolBounds DEF PoolInv, QueueOK, TurnOK
<1>5. /\ builder'[t] = [at |-> "got", job |-> j, attempt |-> 0, healthy |-> FALSE]
      /\ \A u \in Threads \ {t} : builder'[u] = builder[u]
      /\ PoolRows'
  <2>1. PICK b : b = Pool!IdleThread
    OBVIOUS
  <2>2. b = [at |-> "idle", job |-> None, attempt |-> 0, healthy |-> FALSE]
    BY <2>1 DEF Pool!IdleThread
  <2>3. PICK x : x = [b EXCEPT !.at = "got", !.job = j]
    OBVIOUS
  <2>4. x = [at |-> "got", job |-> j, attempt |-> 0, healthy |-> FALSE]
    BY <2>2, <2>3
  <2>5. builder' = [builder EXCEPT ![t] = x]
    BY <1>2, <2>1, <2>3 DEF Pool!GetJob
  <2> QED
    BY <1>1, <2>4, <2>5 DEF PoolInv, PoolRows
<1>6. JobsLike(past') /\ past'[j].slot = t /\ \A k \in 1..MaxJobs \ {j} : past'[k] = past[k]
  <2>1. PICK b : b = past[j]
    OBVIOUS
  <2>2. JobIsRecord(b) /\ DOMAIN past = 1..MaxJobs
    BY <1>4, <2>1 DEF PoolInv, JobsOK
  <2>3. PICK x : x = [b EXCEPT !.slot = t]
    OBVIOUS
  <2>4. x = [unit |-> b.unit, slot |-> t, cancelled |-> b.cancelled, outcome |-> b.outcome,
             finishes |-> b.finishes, died |-> b.died]
    BY <2>2, <2>3 DEF JobIsRecord
  <2>5. /\ DOMAIN past' = 1..MaxJobs /\ past'[j] = x
        /\ \A k \in 1..MaxJobs \ {j} : past'[k] = past[k]
    BY <1>1, <1>2, <1>4, <2>1, <2>2, <2>3
  <2>6. /\ JobIsRecord(past'[j]) /\ past'[j].finishes = past[j].finishes
        /\ past'[j].cancelled = past[j].cancelled /\ past'[j].slot = t
    BY <2>1, <2>4, <2>5 DEF JobIsRecord
  <2>7. \A k \in 1..MaxJobs \ {j} : JobIsRecord(past'[k])
    BY <2>5 DEF PoolInv, JobsOK
  <2>8. \A k \in 1..MaxJobs : k = j \/ k \in 1..MaxJobs \ {j}
    OBVIOUS
  <2> QED
    BY <2>5, <2>6, <2>7, <2>8 DEF JobsLike
<1>7. TurnOK' /\ TargetDropped(t)
  BY <1>1 DEF PoolInv, TurnOK, TurnIsRecord, TargetDropped
<1>8. JobsOK'
  BY <1>1, <1>6 DEF PoolInv, JobsOK, JobsLike, TimesFinished
<1>9. QueueOK'
  BY <1>1, <1>3 DEF PoolInv, QueueOK
<1>10. HeldOK(t)'
  BY <1>1, <1>3, <1>4, <1>5, <1>6 DEF HeldOK
<1>11. ThreadOK(t)' /\ CancelOK(t)'
  <2>1. ThreadOK(t) /\ CancelOK(t) /\ ~Sent(state[t])
    BY <1>1 DEF PoolInv, ThreadOK
  <2> QED
    BY <1>1, <1>5, <2>1 DEF ThreadOK, ThreadIsRecord, CancelOK, BegunWith
<1>12. ASSUME NEW u \in Threads \ {t} PROVE HeldOK(u)' /\ ThreadOK(u)' /\ CancelOK(u)'
  <2>1. HeldOK(u) /\ builder'[u] = builder[u]
    BY <1>5 DEF PoolInv
  <2>2. \A k \in 1..live.jobs : k \in 1..MaxJobs
    BY PoolBounds DEF PoolInv, TurnOK
  <2>3. HeldOK(u)'
    BY <1>1, <1>3, <1>6, <2>1, <2>2 DEF HeldOK, Busy
  <2> QED
    BY <1>1, <1>5, <1>6, <1>7, <2>3, OthersStay
<1> QED
  BY <1>5, <1>7, <1>8, <1>9, <1>10, <1>11, <1>12 DEF PoolInv

LEMMA PoolHandsBack ==
  ASSUME PoolInv, NEW t \in Threads, Pool!HandBack(t)
  PROVE  PoolInv'
<1>1. /\ builder[t].at = "ending" /\ journal' = Append(journal, builder[t].job)
      /\ builder' = [builder EXCEPT ![t] = Pool!IdleThread]
      /\ lock' = [lock EXCEPT ![t] = [file |-> None, cancelled |-> FALSE]]
      /\ UNCHANGED results
  BY DEF Pool!HandBack, Pool!At
<1>2. ThreadOK(t) /\ HeldOK(t) /\ Busy(t) /\ PoolRows
  BY <1>1 DEF PoolInv, Busy
<1>3. TargetDropped(t) /\ \E w : /\ state' = [state EXCEPT ![t] = w]
                                 /\ WorkerIsRecord(w) /\ ~Sent(w)
  <2>1. CASE builder[t].healthy
    <3>1. live' = live /\ state' = state /\ ~Sent(state[t])
      BY <1>2, <2>1 DEF Pool!HandBack, ThreadOK
    <3>2. state' = [state EXCEPT ![t] = state[t]] /\ WorkerIsRecord(state[t])
      BY <1>2, <3>1 DEF PoolRows, ThreadOK
    <3> QED
      BY <3>1, <3>2 DEF TargetDropped
  <2>2. CASE ~builder[t].healthy
    <3>1. live' = Pool!Untargeted(t) /\ state' = [state EXCEPT ![t] = Pool!NoWorker]
      BY <2>2 DEF Pool!HandBack
    <3> QED
      BY <3>1, TargetLost, NoWorkerLeft
  <2> QED
    BY <2>1, <2>2
<1>4. SlotsLike(past')
  <2>1. past' = [past EXCEPT ![builder[t].job].outcome = "cancelled"] \/ past' = past
    BY DEF Pool!HandBack
  <2> QED
    BY <2>1, OutcomesOnly, JobsStay
<1>5. /\ builder'[t] = [at |-> "idle", job |-> None, attempt |-> 0, healthy |-> FALSE]
      /\ lock'[t] = [file |-> None, cancelled |-> FALSE]
      /\ WorkerIsRecord(state[t])' /\ ~Sent(state[t])'
      /\ \A u \in Threads \ {t} : builder'[u] = builder[u] /\ lock'[u] = lock[u] /\ state'[u] = state[u]
      /\ PoolRows'
  BY <1>1, <1>2, <1>3 DEF PoolRows, Pool!IdleThread
<1>6. /\ TurnOK' /\ live'.jobs = live.jobs /\ live'.inFlight = live.inFlight
  BY <1>3, TurnStays
<1>7. JobsOK'
  BY <1>4, <1>6 DEF PoolInv, JobsOK, SlotsLike, JobsLike, TimesFinished
<1>8. /\ journal' \in Seq(1..live.jobs) /\ Elements(journal') = Elements(journal) \cup {builder[t].job}
      /\ builder[t].job \notin Elements(results) /\ builder[t].job \in 1..live.jobs
  <2>1. builder[t].job \in 1..live.jobs /\ builder[t].job \notin Elements(results)
    BY <1>2 DEF HeldOK
  <2>2. journal \in Seq(1..live.jobs)
    BY DEF PoolInv, QueueOK
  <2> QED
    BY <1>1, <2>1, <2>2, Appending
<1>9. QueueOK'
  BY <1>1, <1>6, <1>8 DEF PoolInv, QueueOK
<1>10. HeldOK(t)' /\ ThreadOK(t)' /\ CancelOK(t)'
  BY <1>5 DEF HeldOK, Busy, ThreadOK, ThreadIsRecord, SlotIsRecord, CancelOK, BegunWith
<1>11. ASSUME NEW u \in Threads \ {t} PROVE HeldOK(u)' /\ ThreadOK(u)' /\ CancelOK(u)'
  <2>1. HeldOK(u) /\ builder'[u] = builder[u]
    BY <1>5 DEF PoolInv
  <2>2. \A k \in 1..live.jobs : k \in 1..MaxJobs
    BY PoolBounds DEF PoolInv, TurnOK
  <2>3. Busy(u) => builder[u].job # builder[t].job
    BY <1>2, <2>1 DEF HeldOK
  <2>4. HeldOK(u)'
    BY <1>1, <1>4, <1>6, <1>8, <2>1, <2>2, <2>3 DEF HeldOK, Busy, SlotsLike
  <2> QED
    BY <1>3, <1>4, <1>5, <2>4, OthersStay DEF SlotsLike
<1> QED
  BY <1>5, <1>6, <1>7, <1>9, <1>10, <1>11 DEF PoolInv

LEMMA ThreadStepsKept ==
  ASSUME PoolInv, NEW t \in Threads, Pool!ThreadStep(t)
  PROVE  PoolInv'
BY PoolGetsJob, PoolBeginsFile, PoolAttempts, PoolChecksOut, PoolAwaits, PoolHandsBack, PoolLeaves
   DEF Pool!ThreadStep

\* The turn's own steps.  Unless it tells a thread of a cancel, what a thread and its
\* worker owe does not depend on the turn.
LEMMA QuietThreads ==
  ASSUME PoolInv, live.now = None, UNCHANGED <<builder, lock, state>>, NEW t \in Threads,
         Busy(t) => past'[builder[t].job].cancelled = past[builder[t].job].cancelled
  PROVE  ThreadOK(t)' /\ CancelOK(t)'
<1>1. ThreadOK(t) /\ CancelOK(t) /\ HeldOK(t) /\ live.target = None
  BY DEF PoolInv, TurnOK
<1>2. ~(lock[t].cancelled /\ state[t].alive /\ Sent(state[t]))
  BY <1>1, PoolBounds DEF CancelOK
<1>3. ASSUME BegunWith(builder[t]), past[builder[t].job].cancelled
      PROVE  lock[t].cancelled \/ (builder[t].at = "ending" /\ ~Sent(state[t]))
  <2>1. builder[t].job # None
    BY <1>1, <1>3, PoolBounds DEF HeldOK, Busy, BegunWith, PoolInv, TurnOK
  <2> QED
    BY <1>1, <1>3, <2>1 DEF CancelOK, Telling
<1>4. BegunWith(builder[t]) => Busy(t)
  BY DEF BegunWith, Busy
<1> QED
  BY <1>1, <1>2, <1>3, <1>4 DEF ThreadOK, CancelOK

LEMMA QuietTurn ==
  ASSUME PoolInv, live.now = None, UNCHANGED <<past, results, journal, builder, lock, state>>,
         TurnOK', live'.jobs = live.jobs, live'.inFlight = live.inFlight
  PROVE  PoolInv'
<1>1. JobsOK' /\ QueueOK' /\ PoolRows'
  BY DEF PoolInv, JobsOK, JobIsRecord, TimesFinished, QueueOK, PoolRows
<1>2. ASSUME NEW t \in Threads PROVE HeldOK(t)' /\ ThreadOK(t)' /\ CancelOK(t)'
  <2>1. HeldOK(t)'
    BY DEF PoolInv, HeldOK, Busy
  <2> QED
    BY <2>1, QuietThreads
<1> QED
  BY <1>1, <1>2 DEF PoolInv

\* A record of the turn, field by field.
LEMMA TurnBegins ==
  ASSUME PoolInv, Pool!StartPass \/ Pool!TakeInline \/ Pool!Stop \/ Pool!Raise \/ Pool!AllCancelled
  PROVE  PoolInv'
<1>1. TurnIsRecord(live) /\ live.jobs \in 0..MaxJobs /\ live.inFlight \subseteq 1..live.jobs
      /\ (live.at # "cancelling" => live.now = None) /\ (live.now = None => live.target = None)
  BY DEF PoolInv, TurnOK
<1>2. /\ live.now = None /\ live.target = None /\ UNCHANGED <<past, results, journal, builder, lock, state>>
  BY <1>1 DEF Pool!StartPass, Pool!TakeInline, Pool!Stop, Pool!Raise, Pool!AllCancelled, Pool!CanTake
<1>3. PICK r : r = live
  OBVIOUS
<1>4. /\ live'.jobs = live.jobs /\ live'.inFlight = live.inFlight /\ live'.now = None
      /\ live'.target = None /\ TurnIsRecord(live)'
      /\ live'.at \in {"run", "cancelling", "joining"}
  <2>1. CASE Pool!StartPass
    <3>1. live' = [r EXCEPT !.at = "run", !.pass = @ + 1, !.taken = live.cursor,
                            !.done = {}, !.stopped = FALSE]
      BY <1>3, <2>1 DEF Pool!StartPass
    <3>2. live' = [at |-> "run", pass |-> r.pass + 1, cursor |-> r.cursor, taken |-> live.cursor,
                   jobs |-> r.jobs, inFlight |-> r.inFlight, done |-> {}, stopped |-> FALSE,
                   todo |-> r.todo, now |-> r.now, target |-> r.target]
      BY <1>1, <1>3, <3>1 DEF TurnIsRecord
    <3> QED
      BY <1>2, <1>3, <3>2 DEF TurnIsRecord
  <2>2. CASE Pool!TakeInline
    <3>1. live' = [r EXCEPT !.taken = @ + 1, !.done = @ \cup {live.taken + 1}] /\ r.at = "run"
      BY <1>3, <2>2 DEF Pool!TakeInline, Pool!CanTake
    <3>2. live' = [at |-> "run", pass |-> r.pass, cursor |-> r.cursor, taken |-> r.taken + 1,
                   jobs |-> r.jobs, inFlight |-> r.inFlight, done |-> r.done \cup {live.taken + 1},
                   stopped |-> r.stopped, todo |-> r.todo, now |-> r.now, target |-> r.target]
      BY <1>1, <1>3, <3>1 DEF TurnIsRecord
    <3> QED
      BY <1>2, <1>3, <3>2 DEF TurnIsRecord
  <2>3. CASE Pool!Stop
    <3>1. live' = [r EXCEPT !.stopped = TRUE] /\ r.at = "run"
      BY <1>3, <2>3 DEF Pool!Stop, Pool!CanTake
    <3>2. live' = [at |-> "run", pass |-> r.pass, cursor |-> r.cursor, taken |-> r.taken,
                   jobs |-> r.jobs, inFlight |-> r.inFlight, done |-> r.done,
                   stopped |-> TRUE, todo |-> r.todo, now |-> r.now, target |-> r.target]
      BY <1>1, <1>3, <3>1 DEF TurnIsRecord
    <3> QED
      BY <1>2, <1>3, <3>2 DEF TurnIsRecord
  <2>4. CASE Pool!Raise
    <3>1. live' = [r EXCEPT !.at = "cancelling", !.todo = live.inFlight]
      BY <1>3, <2>4 DEF Pool!Raise
    <3>2. live' = [at |-> "cancelling", pass |-> r.pass, cursor |-> r.cursor, taken |-> r.taken,
                   jobs |-> r.jobs, inFlight |-> r.inFlight, done |-> r.done,
                   stopped |-> r.stopped, todo |-> live.inFlight, now |-> r.now, target |-> r.target]
      BY <1>1, <1>3, <3>1 DEF TurnIsRecord
    <3> QED
      BY <1>2, <1>3, <3>2 DEF TurnIsRecord
  <2>5. CASE Pool!AllCancelled
    <3>1. live' = [r EXCEPT !.at = "joining"]
      BY <1>3, <2>5 DEF Pool!AllCancelled
    <3>2. live' = [at |-> "joining", pass |-> r.pass, cursor |-> r.cursor, taken |-> r.taken,
                   jobs |-> r.jobs, inFlight |-> r.inFlight, done |-> r.done,
                   stopped |-> r.stopped, todo |-> r.todo, now |-> r.now, target |-> r.target]
      BY <1>1, <1>3, <3>1 DEF TurnIsRecord
    <3> QED
      BY <1>2, <1>3, <3>2 DEF TurnIsRecord
  <2> QED
    BY <2>1, <2>2, <2>3, <2>4, <2>5
<1>5. TurnOK'
  BY <1>1, <1>4 DEF TurnOK
<1> QED
  BY <1>2, <1>4, <1>5, QuietTurn

LEMMA TurnEnds ==
  ASSUME PoolInv, Pool!Failed \/ Pool!EndPass \/ Pool!Close
  PROVE  PoolInv'
<1>1. /\ TurnIsRecord(live) /\ live.jobs \in 0..MaxJobs /\ live.inFlight = {}
      /\ live.now = None /\ live.target = None
      /\ UNCHANGED <<past, results, journal, builder, lock, state>>
  BY DEF PoolInv, TurnOK, Pool!Failed, Pool!EndPass, Pool!Close
<1>2. PICK r : r = live
  OBVIOUS
<1>3. ASSUME NEW place \in {"between", "closed"}, NEW reached,
             live' = [at |-> place, pass |-> r.pass, cursor |-> reached, taken |-> r.taken,
                      jobs |-> r.jobs, inFlight |-> r.inFlight, done |-> r.done,
                      stopped |-> r.stopped, todo |-> r.todo, now |-> r.now, target |-> r.target]
      PROVE  PoolInv'
  <2>1. TurnOK' /\ live'.jobs = live.jobs /\ live'.inFlight = live.inFlight
    BY <1>1, <1>2, <1>3 DEF TurnOK, TurnIsRecord
  <2> QED
    BY <1>1, <2>1, QuietTurn
<1>4. CASE Pool!EndPass
  <2>1. live' = [live EXCEPT !.at = "between", !.cursor = Pool!Reached]
    BY <1>4 DEF Pool!EndPass
  <2>2. PICK reached : reached = Pool!Reached
    OBVIOUS
  <2>3. live' = [at |-> "between", pass |-> r.pass, cursor |-> reached, taken |-> r.taken,
                 jobs |-> r.jobs, inFlight |-> r.inFlight, done |-> r.done,
                 stopped |-> r.stopped, todo |-> r.todo, now |-> r.now, target |-> r.target]
    BY <1>1, <1>2, <2>1, <2>2 DEF TurnIsRecord
  <2> QED
    BY <1>3, <2>3
<1>5. ASSUME NEW place \in {"between", "closed"}, live' = [live EXCEPT !.at = place] PROVE PoolInv'
  <2>1. live' = [at |-> place, pass |-> r.pass, cursor |-> r.cursor, taken |-> r.taken,
                 jobs |-> r.jobs, inFlight |-> r.inFlight, done |-> r.done,
                 stopped |-> r.stopped, todo |-> r.todo, now |-> r.now, target |-> r.target]
    BY <1>1, <1>2, <1>5 DEF TurnIsRecord
  <2> QED
    BY <1>3, <2>1
<1> QED
  BY <1>4, <1>5 DEF Pool!Failed, Pool!Close

LEMMA TurnTakes == ASSUME PoolInv, Pool!Take PROVE PoolInv'
<1>1. PICK r, j : r = live /\ j = live.jobs + 1
  OBVIOUS
<1>2. /\ TurnIsRecord(r) /\ r.jobs \in 0..MaxJobs /\ r.inFlight \subseteq 1..r.jobs
      /\ r.at = "run" /\ r.now = None /\ r.target = None /\ r.jobs < MaxJobs
      /\ UNCHANGED <<journal, builder, lock, state>>
  BY <1>1 DEF PoolInv, TurnOK, Pool!Take, Pool!CanTake
<1>3. /\ j \in 1..MaxJobs /\ j \notin 1..r.jobs /\ 1..j = 1..r.jobs \cup {j} /\ j = r.jobs + 1
  BY <1>1, <1>2, PoolBounds
<1>4. /\ live' = [r EXCEPT !.taken = @ + 1, !.jobs = j, !.inFlight = @ \cup {j}]
      /\ results' = Append(results, j)
  BY <1>1 DEF Pool!Take
<1>5. live' = [at |-> "run", pass |-> r.pass, cursor |-> r.cursor, taken |-> r.taken + 1,
               jobs |-> j, inFlight |-> r.inFlight \cup {j}, done |-> r.done,
               stopped |-> r.stopped, todo |-> r.todo, now |-> None, target |-> None]
  BY <1>2, <1>4 DEF TurnIsRecord
<1>6. PICK x : /\ x = [unit |-> live.taken + 1, slot |-> None, cancelled |-> FALSE,
                       outcome |-> "none", finishes |-> 0, died |-> FALSE]
               /\ past' = [past EXCEPT ![j] = x]
  <2>1. PICK b : b = Pool!Fresh
    OBVIOUS
  <2>2. b = [unit |-> 0, slot |-> None, cancelled |-> FALSE, outcome |-> "none",
             finishes |-> 0, died |-> FALSE]
    BY <2>1 DEF Pool!Fresh
  <2>3. PICK x : x = [b EXCEPT !.unit = live.taken + 1]
    OBVIOUS
  <2>4. x = [unit |-> live.taken + 1, slot |-> None, cancelled |-> FALSE,
             outcome |-> "none", finishes |-> 0, died |-> FALSE]
    BY <2>2, <2>3
  <2>5. past' = [past EXCEPT ![j] = x]
    BY <1>1, <2>1, <2>3 DEF Pool!Take
  <2> QED
    BY <2>4, <2>5
<1>7. /\ DOMAIN past' = 1..MaxJobs /\ past'[j] = x
      /\ \A k \in 1..MaxJobs \ {j} : past'[k] = past[k]
  BY <1>3, <1>6 DEF PoolInv, JobsOK
<1>8. TurnOK'
  BY <1>2, <1>3, <1>5, PoolBounds DEF TurnOK, TurnIsRecord
<1>9. JobsOK'
  <2>1. JobIsRecord(x) /\ x.finishes = 0
    BY <1>6 DEF JobIsRecord
  <2>2. live'.jobs = j /\ live'.inFlight = r.inFlight \cup {j}
    BY <1>5
  <2>3. \A k \in 1..MaxJobs \ {j} : TimesFinished(k)' = TimesFinished(k)
    BY <1>1, <1>3, <2>2 DEF TimesFinished
  <2>4. TimesFinished(j)' = 0
    BY <2>2 DEF TimesFinished
  <2>5. \A k \in 1..MaxJobs \ {j} : JobIsRecord(past'[k]) /\ past'[k].finishes = TimesFinished(k)'
    BY <1>7, <2>3 DEF PoolInv, JobsOK
  <2>6. \A k \in 1..MaxJobs : k = j \/ k \in 1..MaxJobs \ {j}
    OBVIOUS
  <2>7. JobIsRecord(past'[j]) /\ past'[j].finishes = TimesFinished(j)'
    BY <1>7, <2>1, <2>4
  <2> QED
    BY <1>7, <2>5, <2>6, <2>7 DEF JobsOK
<1>10. /\ Elements(results) \subseteq 1..r.jobs /\ Elements(journal) \subseteq 1..r.jobs
       /\ results \in Seq(1..j) /\ journal \in Seq(1..j) /\ live'.jobs = j
  <2>1. results \in Seq(1..r.jobs) /\ journal \in Seq(1..r.jobs)
    BY <1>1 DEF PoolInv, QueueOK
  <2>2. 1..r.jobs \subseteq 1..j
    BY <1>3
  <2> QED
    BY <1>5, <2>1, <2>2, ElementsBelong, LongerRange
<1>11. QueueOK'
  <2>1. /\ Elements(results') = Elements(results) \cup {j} /\ Distinct(results')
    BY <1>3, <1>4, <1>10, Appending DEF PoolInv, QueueOK
  <2>2. results' \in Seq(1..j)
    <3>1. j \in 1..j
      BY <1>3
    <3> QED
      BY <1>4, <1>10, <3>1, AppendBelongs
  <2> QED
    BY <1>2, <1>3, <1>10, <2>1, <2>2 DEF PoolInv, QueueOK
<1>12. ASSUME NEW t \in Threads PROVE HeldOK(t)' /\ ThreadOK(t)' /\ CancelOK(t)'
  <2>1. HeldOK(t) /\ (Busy(t) => builder[t].job # j /\ builder[t].job \in 1..MaxJobs)
    BY <1>1, <1>2, <1>3, PoolBounds DEF PoolInv, HeldOK
  <2>2. Busy(t) => past'[builder[t].job] = past[builder[t].job]
    BY <1>7, <2>1
  <2>3. Elements(results') = Elements(results) \cup {j}
    BY <1>4, <1>10, Appending
  <2>4. HeldOK(t)'
    BY <1>1, <1>2, <1>3, <1>10, <2>1, <2>2, <2>3 DEF HeldOK, Busy
  <2> QED
    BY <1>1, <1>2, <2>2, <2>4, QuietThreads
<1>13. PoolRows'
  BY <1>2 DEF PoolInv, PoolRows
<1> QED
  BY <1>8, <1>9, <1>11, <1>12, <1>13 DEF PoolInv

LEMMA TurnCollects == ASSUME PoolInv, Pool!Collect PROVE PoolInv'
<1>1. PICK r, j : r = live /\ j = Head(journal)
  OBVIOUS
<1>2. /\ TurnIsRecord(r) /\ r.jobs \in 0..MaxJobs /\ r.inFlight \subseteq 1..r.jobs
      /\ r.at \in {"run", "joining"} /\ r.now = None /\ r.target = None
      /\ journal # << >> /\ journal' = Tail(journal) /\ UNCHANGED <<results, builder, lock, state>>
  BY <1>1 DEF PoolInv, TurnOK, Pool!Collect
<1>3. /\ j \in Elements(journal) /\ Elements(journal') \subseteq Elements(journal)
      /\ journal' \in Seq(1..r.jobs) /\ Elements(journal) \subseteq 1..r.jobs
  BY <1>1, <1>2, TakingHead, ElementsBelong DEF PoolInv, QueueOK
<1>4. j \in 1..MaxJobs /\ j \in 1..r.jobs
  BY <1>2, <1>3, PoolBounds
<1>5. PICK times : /\ past' = [past EXCEPT ![j] = [Pool!Fresh EXCEPT !.finishes = times]]
                   /\ \/ /\ j \in r.inFlight /\ times = past[j].finishes + 1
                         /\ \E d : live' = [r EXCEPT !.inFlight = r.inFlight \ {j}, !.done = d]
                      \/ j \notin r.inFlight /\ times = past[j].finishes /\ live' = r
  BY <1>1 DEF Pool!Collect, Pool!Settled, Pool!Collected, Pool!Known
<1>6. times = 1 /\ live'.jobs = r.jobs /\ live'.at = r.at /\ live'.now = None /\ live'.target = None
      /\ TurnIsRecord(live)' /\ live'.inFlight = r.inFlight \ {j}
  <2>1. past[j].finishes = IF j \in r.inFlight THEN 0 ELSE 1
    BY <1>1, <1>4 DEF PoolInv, JobsOK, TimesFinished
  <2>2. ASSUME NEW d, live' = [r EXCEPT !.inFlight = r.inFlight \ {j}, !.done = d]
        PROVE  live' = [at |-> r.at, pass |-> r.pass, cursor |-> r.cursor, taken |-> r.taken,
                        jobs |-> r.jobs, inFlight |-> r.inFlight \ {j}, done |-> d,
                        stopped |-> r.stopped, todo |-> r.todo, now |-> None, target |-> None]
    BY <1>2, <2>2 DEF TurnIsRecord
  <2>3. CASE j \in r.inFlight
    <3>1. PICK d : live' = [r EXCEPT !.inFlight = r.inFlight \ {j}, !.done = d]
      BY <1>5, <2>3
    <3>2. live' = [at |-> r.at, pass |-> r.pass, cursor |-> r.cursor, taken |-> r.taken,
                   jobs |-> r.jobs, inFlight |-> r.inFlight \ {j}, done |-> d,
                   stopped |-> r.stopped, todo |-> r.todo, now |-> None, target |-> None]
      BY <2>2, <3>1
    <3>4. times = past[j].finishes + 1
      BY <1>5, <2>3
    <3>5. past[j].finishes = 0
      BY <2>1, <2>3
    <3>3. times = 1
      BY <3>4, <3>5
    <3> QED
      BY <3>2, <3>3 DEF TurnIsRecord
  <2>4. CASE j \notin r.inFlight
    BY <1>2, <1>5, <2>1, <2>4 DEF TurnIsRecord
  <2> QED
    BY <2>3, <2>4
<1>7. PICK x : /\ x = [unit |-> 0, slot |-> None, cancelled |-> FALSE,
                       outcome |-> "none", finishes |-> 1, died |-> FALSE]
               /\ past' = [past EXCEPT ![j] = x]
  <2>1. PICK b : b = Pool!Fresh
    OBVIOUS
  <2>2. b = [unit |-> 0, slot |-> None, cancelled |-> FALSE, outcome |-> "none",
             finishes |-> 0, died |-> FALSE]
    BY <2>1 DEF Pool!Fresh
  <2>3. PICK x : x = [b EXCEPT !.finishes = times]
    OBVIOUS
  <2>4. x = [unit |-> 0, slot |-> None, cancelled |-> FALSE,
             outcome |-> "none", finishes |-> 1, died |-> FALSE]
    BY <1>6, <2>2, <2>3
  <2>5. past' = [past EXCEPT ![j] = x]
    BY <1>5, <2>1, <2>3
  <2> QED
    BY <2>4, <2>5
<1>8. /\ DOMAIN past' = 1..MaxJobs /\ past'[j] = x
      /\ \A k \in 1..MaxJobs \ {j} : past'[k] = past[k]
  BY <1>4, <1>7 DEF PoolInv, JobsOK
<1>9. TurnOK'
  BY <1>2, <1>6 DEF TurnOK
<1>10. JobsOK'
  <2>1. JobIsRecord(x) /\ x.finishes = 1
    BY <1>7 DEF JobIsRecord
  <2>2. \A k \in 1..MaxJobs \ {j} : TimesFinished(k)' = TimesFinished(k)
    BY <1>1, <1>6 DEF TimesFinished
  <2>3. TimesFinished(j)' = 1
    BY <1>4, <1>6 DEF TimesFinished
  <2>4. \A k \in 1..MaxJobs \ {j} : JobIsRecord(past'[k]) /\ past'[k].finishes = TimesFinished(k)'
    BY <1>8, <2>2 DEF PoolInv, JobsOK
  <2>5. \A k \in 1..MaxJobs : k = j \/ k \in 1..MaxJobs \ {j}
    OBVIOUS
  <2>6. JobIsRecord(past'[j]) /\ past'[j].finishes = TimesFinished(j)'
    BY <1>8, <2>1, <2>3
  <2> QED
    BY <1>8, <2>4, <2>5, <2>6 DEF JobsOK
<1>11. QueueOK'
  BY <1>1, <1>2, <1>3, <1>6 DEF PoolInv, QueueOK
<1>12. ASSUME NEW t \in Threads PROVE HeldOK(t)' /\ ThreadOK(t)' /\ CancelOK(t)'
  <2>1. HeldOK(t) /\ (Busy(t) => builder[t].job # j /\ builder[t].job \in 1..MaxJobs)
    BY <1>1, <1>2, <1>3, PoolBounds DEF PoolInv, HeldOK
  <2>2. Busy(t) => past'[builder[t].job] = past[builder[t].job]
    BY <1>8, <2>1
  <2>3. HeldOK(t)'
    BY <1>1, <1>2, <1>3, <1>6, <2>1, <2>2 DEF HeldOK, Busy
  <2> QED
    BY <1>1, <1>2, <2>2, <2>3, QuietThreads
<1>13. PoolRows'
  BY <1>2 DEF PoolInv, PoolRows
<1> QED
  BY <1>9, <1>10, <1>11, <1>12, <1>13 DEF PoolInv

LEMMA TurnMarks == ASSUME PoolInv, Pool!CancelMark PROVE PoolInv'
<1>1. PICK r, j : /\ r = live
                  /\ j = CHOOSE k \in live.todo : \A i \in live.todo : k <= i
  OBVIOUS
<1>2. /\ TurnIsRecord(r) /\ r.at = "cancelling" /\ r.now = None /\ r.target = None
      /\ r.jobs \in 0..MaxJobs /\ r.inFlight \subseteq 1..r.jobs
      /\ UNCHANGED <<results, journal, builder, lock, state>>
  BY <1>1 DEF PoolInv, TurnOK, Pool!CancelMark
<1>3. PICK now : /\ live' = [r EXCEPT !.todo = @ \ {j}, !.now = now]
                 /\ now = IF past[j].slot = None THEN None ELSE j
  <2>1. live' = [live EXCEPT !.todo = @ \ {j},
                             !.now = IF past[j].slot = None THEN None ELSE j]
    BY <1>1 DEF Pool!CancelMark
  <2>2. PICK now : now = IF past[j].slot = None THEN None ELSE j
    OBVIOUS
  <2>3. live' = [r EXCEPT !.todo = @ \ {j}, !.now = now]
    BY <1>1, <2>1, <2>2
  <2> QED
    BY <2>2, <2>3
<1>4. past' = [past EXCEPT ![j].cancelled = TRUE]
  BY <1>1 DEF Pool!CancelMark
<1>5. live' = [at |-> "cancelling", pass |-> r.pass, cursor |-> r.cursor, taken |-> r.taken,
               jobs |-> r.jobs, inFlight |-> r.inFlight, done |-> r.done,
               stopped |-> r.stopped, todo |-> r.todo \ {j}, now |-> now, target |-> None]
  BY <1>2, <1>3 DEF TurnIsRecord
<1>6. TurnOK' /\ live'.jobs = live.jobs /\ live'.inFlight = live.inFlight
  BY <1>1, <1>2, <1>5 DEF TurnOK, TurnIsRecord
<1>7. /\ DOMAIN past' = 1..MaxJobs
      /\ \A k \in 1..MaxJobs : /\ JobIsRecord(past'[k]) /\ past'[k].finishes = past[k].finishes
                               /\ past'[k].slot = past[k].slot
                               /\ k # j => past'[k].cancelled = past[k].cancelled
  <2>1. DOMAIN past' = 1..MaxJobs
    BY <1>4 DEF PoolInv, JobsOK
  <2>2. ASSUME NEW k \in 1..MaxJobs
        PROVE  /\ JobIsRecord(past'[k]) /\ past'[k].finishes = past[k].finishes
               /\ past'[k].slot = past[k].slot
               /\ k # j => past'[k].cancelled = past[k].cancelled
    <3>1. PICK b : b = past[k]
      OBVIOUS
    <3>2. JobIsRecord(b) /\ DOMAIN past = 1..MaxJobs
      BY <3>1 DEF PoolInv, JobsOK
    <3>3. CASE k = j
      <4>1. PICK x : x = [b EXCEPT !.cancelled = TRUE]
        OBVIOUS
      <4>2. x = [unit |-> b.unit, slot |-> b.slot, cancelled |-> TRUE, outcome |-> b.outcome,
                 finishes |-> b.finishes, died |-> b.died]
        BY <3>2, <4>1 DEF JobIsRecord
      <4>3. past'[k] = x
        BY <1>4, <3>1, <3>2, <3>3, <4>1
      <4> QED
        BY <3>1, <3>3, <4>2, <4>3 DEF JobIsRecord
    <3>4. CASE k # j
      <4>1. past'[k] = past[k]
        BY <1>4, <3>2, <3>4
      <4> QED
        BY <3>1, <3>2, <4>1
    <3> QED
      BY <3>3, <3>4
  <2> QED
    BY <2>1, <2>2
<1>8. JobsOK' /\ QueueOK' /\ PoolRows'
  BY <1>2, <1>6, <1>7 DEF PoolInv, JobsOK, TimesFinished, QueueOK, PoolRows
<1>9. ASSUME NEW t \in Threads PROVE HeldOK(t)' /\ ThreadOK(t)' /\ CancelOK(t)'
  <2>1. HeldOK(t) /\ ThreadOK(t) /\ CancelOK(t) /\ (Busy(t) => builder[t].job \in 1..MaxJobs)
    BY <1>1, <1>2, PoolBounds DEF PoolInv, HeldOK
  <2>2. HeldOK(t)'
    BY <1>2, <1>6, <1>7, <2>1 DEF HeldOK, Busy
  <2>3. CASE Busy(t) /\ builder[t].job = j
    <3>1. now = j /\ j # None
      BY <1>3, <2>1, <2>3, PoolBounds DEF HeldOK
    <3>2. Telling(j)'
      BY <1>5, <3>1 DEF Telling
    <3>3. ~(lock[t].cancelled /\ state[t].alive /\ Sent(state[t]))
      BY <1>1, <1>2, <2>1, PoolBounds DEF CancelOK
    <3>4. CancelOK(t)'
      BY <1>2, <2>3, <3>2, <3>3 DEF CancelOK
    <3>5. ThreadOK(t)'
      BY <1>2, <2>1 DEF ThreadOK
    <3> QED
      BY <2>2, <3>4, <3>5
  <2>4. CASE Busy(t) => builder[t].job # j
    <3>1. Busy(t) => past'[builder[t].job].cancelled = past[builder[t].job].cancelled
      BY <1>7, <2>1, <2>4
    <3> QED
      BY <1>1, <1>2, <2>2, <3>1, QuietThreads
  <2> QED
    BY <2>3, <2>4
<1> QED
  BY <1>6, <1>8, <1>9 DEF PoolInv

LEMMA TurnTells == ASSUME PoolInv, Pool!CancelSlot PROVE PoolInv'
<1>1. PICK r, s : r = live /\ s = past[live.now].slot
  OBVIOUS
<1>2. /\ TurnIsRecord(r) /\ r.at = "cancelling" /\ r.now # None /\ r.target = None
      /\ r.jobs \in 0..MaxJobs /\ r.inFlight \subseteq 1..r.jobs
      /\ UNCHANGED <<past, results, journal, builder, state>>
  BY <1>1 DEF PoolInv, TurnOK, Pool!CancelSlot
<1>3. PICK now, target :
        /\ live' = [r EXCEPT !.now = now, !.target = target]
        /\ \/ /\ lock[s].file = r.now /\ lock' = [lock EXCEPT ![s].cancelled = TRUE]
              /\ state[s].state = "none" /\ now = None /\ target = None
           \/ /\ lock[s].file = r.now /\ lock' = [lock EXCEPT ![s].cancelled = TRUE]
              /\ state[s].state # "none" /\ now = r.now /\ target = s
           \/ lock[s].file # r.now /\ lock' = lock /\ now = None /\ target = None
  <2>1. CASE lock[s].file = r.now /\ state[s].state = "none"
    <3>1. live' = [r EXCEPT !.now = None] /\ lock' = [lock EXCEPT ![s].cancelled = TRUE]
      BY <1>1, <2>1 DEF Pool!CancelSlot, Pool!IsCurrent
    <3>2. live' = [r EXCEPT !.now = None, !.target = None]
      <4>1. PICK x : x = [r EXCEPT !.now = None, !.target = None]
        OBVIOUS
      <4>2. /\ x = [at |-> r.at, pass |-> r.pass, cursor |-> r.cursor, taken |-> r.taken,
                    jobs |-> r.jobs, inFlight |-> r.inFlight, done |-> r.done,
                    stopped |-> r.stopped, todo |-> r.todo, now |-> None, target |-> None]
            /\ live' = x
        BY <1>2, <3>1, <4>1 DEF TurnIsRecord
      <4> QED
        BY <4>1, <4>2
    <3> QED
      BY <2>1, <3>1, <3>2
  <2>2. CASE lock[s].file = r.now /\ state[s].state # "none"
    <3>1. live' = [r EXCEPT !.target = s] /\ lock' = [lock EXCEPT ![s].cancelled = TRUE]
      BY <1>1, <2>2 DEF Pool!CancelSlot, Pool!IsCurrent
    <3>2. live' = [r EXCEPT !.now = r.now, !.target = s]
      <4>1. PICK x : x = [r EXCEPT !.now = r.now, !.target = s]
        OBVIOUS
      <4>2. /\ x = [at |-> r.at, pass |-> r.pass, cursor |-> r.cursor, taken |-> r.taken,
                    jobs |-> r.jobs, inFlight |-> r.inFlight, done |-> r.done,
                    stopped |-> r.stopped, todo |-> r.todo, now |-> r.now, target |-> s]
            /\ live' = x
        BY <1>2, <3>1, <4>1 DEF TurnIsRecord
      <4> QED
        BY <4>1, <4>2
    <3> QED
      BY <2>2, <3>1, <3>2
  <2>3. CASE lock[s].file # r.now
    <3>1. live' = [r EXCEPT !.now = None] /\ lock' = lock
      BY <1>1, <2>3 DEF Pool!CancelSlot, Pool!IsCurrent
    <3>2. live' = [r EXCEPT !.now = None, !.target = None]
      <4>1. PICK x : x = [r EXCEPT !.now = None, !.target = None]
        OBVIOUS
      <4>2. /\ x = [at |-> r.at, pass |-> r.pass, cursor |-> r.cursor, taken |-> r.taken,
                    jobs |-> r.jobs, inFlight |-> r.inFlight, done |-> r.done,
                    stopped |-> r.stopped, todo |-> r.todo, now |-> None, target |-> None]
            /\ live' = x
        BY <1>2, <3>1, <4>1 DEF TurnIsRecord
      <4> QED
        BY <4>1, <4>2
    <3> QED
      BY <2>3, <3>1, <3>2
  <2> QED
    BY <2>1, <2>2, <2>3
<1>4. live' = [at |-> "cancelling", pass |-> r.pass, cursor |-> r.cursor, taken |-> r.taken,
               jobs |-> r.jobs, inFlight |-> r.inFlight, done |-> r.done,
               stopped |-> r.stopped, todo |-> r.todo, now |-> now, target |-> target]
  BY <1>2, <1>3 DEF TurnIsRecord
<1>5. TurnOK' /\ live'.jobs = live.jobs /\ live'.inFlight = live.inFlight
  <2>1. target # None => now # None
    BY <1>2, <1>3
  <2> QED
    BY <1>1, <1>2, <1>4, <2>1 DEF TurnOK, TurnIsRecord
<1>6. JobsOK' /\ QueueOK' /\ \A t \in Threads : HeldOK(t)'
  BY <1>2, <1>5 DEF PoolInv, JobsOK, JobIsRecord, TimesFinished, QueueOK, HeldOK, Busy
<1>7. PoolRows'
  BY <1>2, <1>3 DEF PoolInv, PoolRows
<1>8. ASSUME NEW t \in Threads PROVE ThreadOK(t)' /\ CancelOK(t)'
  <2>1. ThreadOK(t) /\ CancelOK(t) /\ HeldOK(t)
    BY DEF PoolInv
  <2>2. ~(lock[t].cancelled /\ state[t].alive /\ Sent(state[t]))
    BY <1>1, <1>2, <2>1, PoolBounds DEF CancelOK
  <2>3. BegunWith(builder[t]) /\ builder[t].job = r.now => s = t /\ lock[s].file = r.now
    BY <1>1, <2>1 DEF HeldOK, ThreadOK, Busy, BegunWith
  <2>4. CASE t = s /\ lock[s].file = r.now
    <3>1. PICK b : b = lock[t]
      OBVIOUS
    <3>2. PICK x : x = [b EXCEPT !.cancelled = TRUE]
      OBVIOUS
    <3>3. SlotIsRecord(b)
      BY <2>1, <3>1 DEF ThreadOK
    <3>4. x = [file |-> b.file, cancelled |-> TRUE]
      BY <3>2, <3>3 DEF SlotIsRecord
    <3>5. lock'[t] = x
      BY <1>3, <2>4, <3>1, <3>2 DEF PoolInv, PoolRows
    <3>6. lock'[t].file = lock[t].file /\ lock'[t].cancelled /\ SlotIsRecord(lock[t])'
      BY <3>1, <3>4, <3>5 DEF SlotIsRecord
    <3>7. ThreadOK(t)'
      BY <1>2, <2>1, <3>6 DEF ThreadOK
    <3>8. Sent(state[t]) => target = t
      BY <1>3, <2>4 DEF Sent
    <3> QED
      BY <1>2, <1>4, <3>6, <3>7, <3>8 DEF CancelOK
  <2>5. CASE ~(t = s /\ lock[s].file = r.now)
    <3>1. lock'[t] = lock[t]
      BY <1>3, <2>5 DEF PoolInv, PoolRows
    <3>2. ThreadOK(t)'
      BY <1>2, <2>1, <3>1 DEF ThreadOK
    <3>3. BegunWith(builder[t]) => ~Telling(builder[t].job)
      BY <1>1, <2>3, <2>5 DEF Telling
    <3> QED
      BY <1>2, <2>1, <2>2, <3>1, <3>2, <3>3 DEF CancelOK
  <2> QED
    BY <2>4, <2>5
<1> QED
  BY <1>5, <1>6, <1>7, <1>8 DEF PoolInv

LEMMA TurnKills == ASSUME PoolInv, Pool!CancelKill PROVE PoolInv'
<1>1. PICK r, s : r = live /\ s = live.target
  OBVIOUS
<1>2. /\ TurnIsRecord(r) /\ r.at = "cancelling" /\ s # None /\ r.target = s
      /\ r.jobs \in 0..MaxJobs /\ r.inFlight \subseteq 1..r.jobs
      /\ UNCHANGED <<past, results, journal, builder, lock>>
      /\ live' = [r EXCEPT !.now = None, !.target = None]
      /\ state' = [state EXCEPT ![s].alive = FALSE]
  BY <1>1 DEF PoolInv, TurnOK, Pool!CancelKill, Pool!Killed
<1>3. live' = [at |-> "cancelling", pass |-> r.pass, cursor |-> r.cursor, taken |-> r.taken,
               jobs |-> r.jobs, inFlight |-> r.inFlight, done |-> r.done,
               stopped |-> r.stopped, todo |-> r.todo, now |-> None, target |-> None]
  BY <1>2 DEF TurnIsRecord
<1>4. TurnOK' /\ live'.jobs = live.jobs /\ live'.inFlight = live.inFlight
  BY <1>1, <1>2, <1>3 DEF TurnOK, TurnIsRecord
<1>5. JobsOK' /\ QueueOK' /\ \A t \in Threads : HeldOK(t)'
  BY <1>2, <1>4 DEF PoolInv, JobsOK, JobIsRecord, TimesFinished, QueueOK, HeldOK, Busy
<1>6. PoolRows'
  BY <1>2 DEF PoolInv, PoolRows
<1>7. ASSUME NEW t \in Threads PROVE ThreadOK(t)' /\ CancelOK(t)'
  <2>1. ThreadOK(t) /\ CancelOK(t) /\ HeldOK(t)
    BY DEF PoolInv
  <2>2. ~Telling(builder[t].job)
    BY <1>1, <1>2 DEF Telling
  <2>3. /\ WorkerIsRecord(state[t])' /\ state'[t].state = state[t].state
        /\ t = s => ~state'[t].alive
        /\ t # s => state'[t] = state[t]
    <3>1. CASE t = s
      <4>1. PICK b : b = state[t]
        OBVIOUS
      <4>2. PICK x : x = [b EXCEPT !.alive = FALSE]
        OBVIOUS
      <4>3. WorkerIsRecord(b)
        BY <2>1, <4>1 DEF ThreadOK
      <4>4. x = [state |-> b.state, alive |-> FALSE]
        BY <4>2, <4>3 DEF WorkerIsRecord
      <4>5. state'[t] = x
        BY <1>2, <3>1, <4>1, <4>2 DEF PoolInv, PoolRows
      <4> QED
        BY <3>1, <4>1, <4>4, <4>5 DEF WorkerIsRecord
    <3>2. CASE t # s
      <4>1. state'[t] = state[t]
        BY <1>2, <3>2 DEF PoolInv, PoolRows
      <4> QED
        BY <2>1, <3>2, <4>1 DEF ThreadOK
    <3> QED
      BY <3>1, <3>2
  <2>4. ThreadOK(t)'
    BY <1>2, <2>1, <2>3 DEF ThreadOK, Sent
  <2>5. ~(lock[t].cancelled /\ state'[t].alive /\ Sent(state'[t]))
    BY <1>1, <1>2, <2>1, <2>3 DEF CancelOK, Sent
  <2> QED
    BY <1>2, <2>1, <2>2, <2>3, <2>4, <2>5 DEF CancelOK, Sent
<1> QED
  BY <1>4, <1>5, <1>6, <1>7 DEF PoolInv

LEMMA TurnGivesUp == ASSUME PoolInv, Pool!GiveUp PROVE PoolInv'
<1>1. PICK r : r = live
  OBVIOUS
<1>2. /\ TurnIsRecord(r) /\ r.at = "joining" /\ r.now = None /\ r.target = None
      /\ r.jobs \in 0..MaxJobs /\ r.inFlight \subseteq 1..r.jobs
      /\ UNCHANGED <<results, journal, builder, lock, state>>
      /\ live' = [r EXCEPT !.inFlight = {}]
  BY <1>1 DEF PoolInv, TurnOK, Pool!GiveUp
<1>3. live' = [at |-> "joining", pass |-> r.pass, cursor |-> r.cursor, taken |-> r.taken,
               jobs |-> r.jobs, inFlight |-> {}, done |-> r.done,
               stopped |-> r.stopped, todo |-> r.todo, now |-> None, target |-> None]
  BY <1>2 DEF TurnIsRecord
<1>4. TurnOK'
  BY <1>2, <1>3 DEF TurnOK, TurnIsRecord
<1>5. /\ DOMAIN past' = 1..MaxJobs
      /\ \A k \in 1..MaxJobs :
           past'[k] = IF k \in r.inFlight THEN [past[k] EXCEPT !.finishes = @ + 1] ELSE past[k]
  BY <1>1, PoolBounds DEF Pool!GiveUp
<1>6. ASSUME NEW k \in 1..MaxJobs
      PROVE  /\ JobIsRecord(past'[k]) /\ past'[k].slot = past[k].slot
             /\ past'[k].cancelled = past[k].cancelled /\ past'[k].finishes = TimesFinished(k)'
  <2>1. PICK b : b = past[k]
    OBVIOUS
  <2>2. JobIsRecord(b) /\ b.finishes = TimesFinished(k)
    BY <2>1 DEF PoolInv, JobsOK
  <2>3. CASE k \in r.inFlight
    <3>1. PICK x : x = [b EXCEPT !.finishes = @ + 1]
      OBVIOUS
    <3>2. x = [unit |-> b.unit, slot |-> b.slot, cancelled |-> b.cancelled, outcome |-> b.outcome,
               finishes |-> b.finishes + 1, died |-> b.died]
      BY <2>2, <3>1 DEF JobIsRecord
    <3>3. past'[k] = x
      BY <1>5, <2>1, <2>3, <3>1
    <3>4. b.finishes = 0 /\ TimesFinished(k)' = 1
      BY <1>1, <1>2, <1>3, <2>2, <2>3 DEF TimesFinished
    <3>5. b.finishes + 1 = 1
      BY <3>4
    <3> QED
      BY <2>1, <3>2, <3>3, <3>4, <3>5 DEF JobIsRecord
  <2>4. CASE k \notin r.inFlight
    <3>1. past'[k] = b
      BY <1>5, <2>1, <2>4
    <3>2. TimesFinished(k)' = TimesFinished(k)
      BY <1>1, <1>3, <2>4 DEF TimesFinished
    <3> QED
      BY <2>1, <2>2, <3>1, <3>2
  <2> QED
    BY <2>3, <2>4
<1>7. JobsOK'
  BY <1>5, <1>6 DEF JobsOK
<1>8. QueueOK' /\ PoolRows'
  BY <1>1, <1>2, <1>3 DEF PoolInv, QueueOK, PoolRows
<1>9. ASSUME NEW t \in Threads PROVE HeldOK(t)' /\ ThreadOK(t)' /\ CancelOK(t)'
  <2>1. HeldOK(t) /\ (Busy(t) => builder[t].job \in 1..MaxJobs)
    BY <1>1, <1>2, PoolBounds DEF PoolInv, HeldOK
  <2>2. HeldOK(t)'
    BY <1>1, <1>2, <1>3, <1>6, <2>1 DEF HeldOK, Busy
  <2>3. Busy(t) => past'[builder[t].job].cancelled = past[builder[t].job].cancelled
    BY <1>6, <2>1
  <2> QED
    BY <1>1, <1>2, <2>2, <2>3, QuietThreads
<1> QED
  BY <1>4, <1>7, <1>8, <1>9 DEF PoolInv

LEMMA PoolIsKept ==
  ASSUME PoolInv, Pool!Next
  PROVE  PoolInv'
<1>1. CASE Pool!Turn
  BY <1>1, TurnBegins, TurnEnds, TurnTakes, TurnCollects, TurnMarks, TurnTells, TurnKills,
     TurnGivesUp DEF Pool!Turn
<1>2. ASSUME NEW t \in Threads, Pool!ThreadStep(t) \/ Pool!WorkerStep(t) \/ Pool!Die(t)
      PROVE  PoolInv'
  BY <1>2, ThreadStepsKept, ChildSteps DEF Pool!WorkerStep
<1> QED
  BY <1>1, <1>2 DEF Pool!Next

LEMMA PoolStays ==
  ASSUME PoolInv, UNCHANGED all
  PROVE  PoolInv'
<1>1. UNCHANGED <<live, past, results, journal, builder, lock, state>>
  BY DEF all, vars, durable, inputs
<1> QED
  BY <1>1 DEF PoolInv, PoolRows, TurnOK, TurnIsRecord, JobsOK, JobIsRecord, TimesFinished, QueueOK,
     HeldOK, Busy, ThreadOK, ThreadIsRecord, SlotIsRecord, WorkerIsRecord, Sent, BegunWith, CancelOK,
     Telling

-----------------------------------------------------------------------------
(* The child processes of threads without a worker of their own, for any      *)
(* number of threads, processes and files.  Here `builder` is the threads'     *)
(* calls, `past` the pooled worker, `lock` its holder and `state` the workers. *)

CallIsRecord(r) == r = [at |-> r.at, file |-> r.file, via |-> r.via, on |-> r.on, attempt |-> r.attempt]
ProcIsRecord(r) == r = [state |-> r.state, creator |-> r.creator, file |-> r.file, owes |-> r.owes,
                        end |-> r.end]
Process(place, t, file) ==
    [state |-> place, creator |-> t, file |-> file, owes |-> << >>, end |-> "none"]
KilledProcess == [state |-> "gone", creator |-> None, file |-> 0, owes |-> << >>, end |-> "killed"]
IsUp(r) == r.state \notin {"none", "gone"}

\* A worker that is there owes nothing while it has a file, and has no end.
ProcOK(w) ==
    /\ ProcIsRecord(state[w])
    /\ state[w].state = "none" => state[w] = Process("none", None, 0)
    /\ state[w].state \in {"sent", "accepted"} => state[w].owes = << >>
    /\ IsUp(state[w]) => state[w].end = "none" /\ state[w].state \in {"sent", "accepted", "idle"}

\* The worker a thread waits for is one it started, has the thread's file and owes
\* nothing else; when it is the pooled one, the thread holds the lock.
AwaitsOwn(t) ==
    LET r == builder[t]
    IN /\ r.on \in Decoders /\ state[r.on].state # "none" /\ state[r.on].creator = t
       /\ state[r.on].file = r.file /\ state[r.on].owes \in {<< >>, <<r.file>>}
       /\ state[r.on].end # "thread"
       /\ r.on = past => lock = t
CallOK(t) == CallIsRecord(builder[t]) /\ (builder[t].at = "await" => AwaitsOwn(t))

\* The pooled worker waits for a file while nobody holds the lock.
PooledOK ==
    /\ past \in Decoders \cup {0} /\ (past # 0 => state[past].state # "none")
    /\ lock = None /\ past # 0 /\ IsUp(state[past]) =>
         state[past].state = "idle" /\ state[past].owes = << >>
    /\ lock # None =>
         lock \in Decoding!AllThreads /\ builder[lock].at = "await" /\ builder[lock].on = past

DecodeRows ==
    /\ builder = [t \in Decoding!AllThreads |-> builder[t]]
    /\ state = [w \in Decoders |-> state[w]]
DecodeInv ==
    /\ DecodeRows /\ PooledOK
    /\ \A t \in Decoding!AllThreads : CallOK(t)
    /\ \A w \in Decoders : ProcOK(w)

LEMMA DecodeBounds == Decoders \subseteq Nat \ {0} /\ None \notin Decoding!AllThreads
BY BoundsHold DEF Decoding!WorkerAssumption, Decoding!AllThreads

LEMMA ProcessKinds ==
  /\ Decoding!NotStarted = Process("none", None, 0)
  /\ \A ws, w : Decoding!Killed(ws, w) = [ws EXCEPT ![w] = KilledProcess]
  /\ ProcIsRecord(KilledProcess)
  /\ \A place, t, file : ProcIsRecord(Process(place, t, file))
<1>1. Decoding!NotStarted = Process("none", None, 0)
  BY DEF Decoding!NotStarted, Process
<1>2. PICK b : b = Decoding!NotStarted
  OBVIOUS
<1>3. PICK x : x = [b EXCEPT !.state = "gone", !.end = "killed"]
  OBVIOUS
<1>4. x = KilledProcess
  BY <1>1, <1>2, <1>3 DEF Process, KilledProcess
<1> QED
  BY <1>1, <1>2, <1>3, <1>4 DEF Decoding!Killed, ProcIsRecord, Process, KilledProcess

LEMMA DecodeBegins == ASSUME Decoding!Init PROVE DecodeInv
<1>1. PICK free, absent : /\ free = [at |-> "free", file |-> 0, via |-> "none", on |-> 0, attempt |-> 0]
                          /\ absent = [at |-> "absent", file |-> 0, via |-> "none", on |-> 0, attempt |-> 0]
  OBVIOUS
<1>2. Decoding!Free = free /\ Decoding!Absent = absent
  <2>1. Decoding!Free = free
    BY <1>1 DEF Decoding!Free
  <2>2. Decoding!Absent = [free EXCEPT !.at = "absent"]
    BY <2>1 DEF Decoding!Absent
  <2> QED
    BY <1>1, <2>1, <2>2
<1>3. /\ builder = [t \in Decoding!AllThreads |-> IF t = Main THEN free ELSE absent]
      /\ lock = None /\ past = 0 /\ state = [w \in Decoders |-> Process("none", None, 0)]
  BY <1>2, ProcessKinds DEF Decoding!Init
<1>4. DecodeRows /\ PooledOK
  BY <1>3 DEF DecodeRows, PooledOK
<1>5. \A t \in Decoding!AllThreads : CallOK(t)
  BY <1>1, <1>3 DEF CallOK, CallIsRecord
<1>6. \A w \in Decoders : ProcOK(w)
  BY <1>3, ProcessKinds DEF ProcOK, Process, IsUp
<1> QED
  BY <1>4, <1>5, <1>6 DEF DecodeInv

\* What the invariant says is what the run checks.
LEMMA DecodesAreOwn == ASSUME DecodeInv PROVE Decoding!OwnAnswers /\ Decoding!DecodesOutliveThreads
<1>1. ASSUME NEW t \in Decoding!AllThreads, builder[t].at = "await" PROVE AwaitsOwn(t)
  BY <1>1 DEF DecodeInv, CallOK
<1>2. ASSUME NEW f, NEW i \in DOMAIN <<f>> PROVE <<f>>[i] = f
  OBVIOUS
<1>3. ASSUME NEW t \in Decoding!AllThreads, builder[t].at = "await",
             NEW i \in DOMAIN state[builder[t].on].owes
      PROVE  state[builder[t].on].owes[i] = builder[t].file
  <2>1. PICK o, f : o = state[builder[t].on].owes /\ f = builder[t].file
    OBVIOUS
  <2>2. o \in {<< >>, <<f>>} /\ i \in DOMAIN o
    BY <1>1, <1>3, <2>1 DEF AwaitsOwn
  <2>3. o # << >>
    BY <2>2
  <2> QED
    BY <1>2, <2>1, <2>2, <2>3
<1> QED
  BY <1>1, <1>3 DEF AwaitsOwn, Decoding!OwnAnswers, Decoding!DecodesOutliveThreads

\* A thread whose worker is left alone keeps what it waits for.
LEMMA OthersAwait ==
  ASSUME DecodeInv, NEW t \in Decoding!AllThreads, builder'[t] = builder[t],
         builder[t].at = "await" =>
           state'[builder[t].on] = state[builder[t].on] /\ (builder[t].on = past' => lock' = t)
  PROVE  CallOK(t)'
BY DEF DecodeInv, CallOK, AwaitsOwn

\* Two threads wait for two workers.
LEMMA AwaitedApart ==
  ASSUME DecodeInv, NEW t \in Decoding!AllThreads, NEW u \in Decoding!AllThreads,
         builder[t].at = "await", builder[u].at = "await", builder[t].on = builder[u].on
  PROVE  t = u
BY DEF DecodeInv, CallOK, AwaitsOwn

LEMMA NewIsUnstarted ==
  ASSUME DecodeInv, Decoding!Unstarted # {}
  PROVE  Decoding!New \in Decoders /\ state[Decoding!New] = Process("none", None, 0)
<1>1. Decoding!Unstarted \in SUBSET Nat
  BY DecodeBounds DEF Decoding!Unstarted
<1>2. PICK m \in Decoding!Unstarted : \A v \in Decoding!Unstarted : m <= v
  BY <1>1, NaturalsHaveLeast
<1>3. Decoding!New \in Decoding!Unstarted
  BY <1>2 DEF Decoding!New
<1> QED
  BY <1>3 DEF Decoding!Unstarted, DecodeInv, ProcOK

\* A file is sent to a worker that is new or that waits for its thread's next one.
LEMMA SentIs ==
  ASSUME DecodeInv, NEW w \in Decoders, NEW t \in Decoding!AllThreads, NEW file, NEW place,
         \/ state[w] = Process("none", None, 0)
         \/ IsUp(state[w]) /\ state[w].creator = t /\ state[w].owes = << >>
  PROVE  Decoding!Sent(w, t, file, place) = [state EXCEPT ![w] = Process(place, t, file)]
<1>1. PICK b : b = state[w]
  OBVIOUS
<1>2. PICK by : by = IF state[w].creator = None THEN t ELSE state[w].creator
  OBVIOUS
<1>3. PICK x : x = [b EXCEPT !.state = place, !.file = file, !.creator = by]
  OBVIOUS
<1>4. ProcIsRecord(b) /\ b.owes = << >> /\ b.end = "none" /\ by = t
  BY <1>1, <1>2 DEF DecodeInv, ProcOK, Process
<1>5. x = [state |-> place, creator |-> by, file |-> file, owes |-> b.owes, end |-> b.end]
  BY <1>3, <1>4 DEF ProcIsRecord
<1>6. x = Process(place, t, file)
  BY <1>4, <1>5 DEF Process
<1>7. Decoding!Sent(w, t, file, place) = [state EXCEPT ![w] = x]
  BY <1>1, <1>2, <1>3 DEF Decoding!Sent
<1> QED
  BY <1>6, <1>7

LEMMA ProcessesUp ==
  ASSUME NEW place \in {"sent", "accepted"}, NEW t, NEW file
  PROVE  /\ Process(place, t, file).state = place /\ Process(place, t, file).owes = << >>
         /\ Process(place, t, file).end = "none" /\ Process(place, t, file).creator = t
         /\ Process(place, t, file).file = file /\ IsUp(Process(place, t, file))
         /\ Process("none", t, file).state = "none"
         /\ KilledProcess.state = "gone" /\ ~IsUp(KilledProcess)
BY DEF Process, KilledProcess, IsUp

\* A file goes to the worker w of thread t: a new one, or the pooled one t has.
LEMMA SendingKept ==
  ASSUME DecodeInv, NEW t \in Decoding!AllThreads, NEW w \in Decoders, builder[t].at = "checkout",
         NEW place \in {"sent", "accepted"}, NEW via, NEW sent,
         builder' = [builder EXCEPT ![t].at = "await", ![t].via = via, ![t].on = w],
         sent = [state EXCEPT ![w] = Process(place, t, builder[t].file)],
         \/ /\ state[w] = Process("none", None, 0) /\ state' = sent /\ UNCHANGED <<lock, past>>
         \/ /\ lock = None /\ lock' = t /\ past' = w
            /\ \/ w = past /\ state' = sent
               \/ state[w] = Process("none", None, 0) /\ state' = sent
               \/ /\ state[w] = Process("none", None, 0)
                  /\ past \in Decoders /\ state' = [sent EXCEPT ![past] = KilledProcess]
  PROVE  DecodeInv'
<1>1. PICK b, q : b = builder[t] /\ q = Process(place, t, builder[t].file)
  OBVIOUS
<1>2. CallIsRecord(b) /\ DecodeRows /\ PooledOK /\ t # None /\ b.at = "checkout"
  BY <1>1, DecodeBounds DEF DecodeInv, CallOK
<1>3. PICK x : x = [b EXCEPT !.at = "await", !.via = via, !.on = w]
  OBVIOUS
<1>4. x = [at |-> "await", file |-> b.file, via |-> via, on |-> w, attempt |-> b.attempt]
  BY <1>2, <1>3 DEF CallIsRecord
<1>5. /\ builder'[t] = x /\ \A u \in Decoding!AllThreads \ {t} : builder'[u] = builder[u]
      /\ builder' = [u \in Decoding!AllThreads |-> builder'[u]]
  <2>1. builder' = [builder EXCEPT ![t] = x]
    BY <1>1, <1>3
  <2> QED
    BY <1>2, <2>1 DEF DecodeRows
<1>6. past \in Decoders => state[past] # Process("none", None, 0)
  BY <1>2, DecodeBounds, ProcessesUp DEF PooledOK
<1>7. /\ state'[w] = q /\ state' = [v \in Decoders |-> state'[v]]
      /\ \A v \in Decoders \ {w} : state'[v] = state[v] \/ (v = past /\ state'[v] = KilledProcess)
      /\ \A v \in Decoders \ {w} : v = past /\ lock' = lock => state'[v] = state[v]
  BY <1>1, <1>2, <1>6 DEF DecodeRows
<1>8. q.state = place /\ q.owes = << >> /\ q.end = "none" /\ q.creator = t /\ q.file = b.file
      /\ IsUp(q) /\ ProcIsRecord(q)
  BY <1>1 DEF Process, IsUp, ProcIsRecord
<1>9. \/ lock' = lock /\ past' = past /\ w # past
      \/ lock = None /\ lock' = t /\ past' = w
  BY <1>6, DecodeBounds
<1>10. CallOK(t)'
  <2>2. builder'[t].on = w /\ builder'[t].file = b.file
    <3>1. x.on = w /\ x.file = b.file
      BY <1>4
    <3>2. builder'[t] = x
      BY <1>5
    <3> QED
      BY <3>1, <3>2
  <2>3. state'[w] = q /\ q.state # "none" /\ q.end # "thread" /\ q.owes \in {<< >>, <<b.file>>}
    BY <1>7, <1>8
  <2>4. w = past' => lock' = t
    BY <1>9
  <2>1. AwaitsOwn(t)'
    BY <1>8, <2>2, <2>3, <2>4 DEF AwaitsOwn
  <2> QED
    BY <1>4, <1>5, <2>1 DEF CallOK, CallIsRecord
<1>11. ASSUME NEW u \in Decoding!AllThreads \ {t} PROVE CallOK(u)'
  <2>1. ASSUME builder[u].at = "await"
        PROVE  state'[builder[u].on] = state[builder[u].on] /\ (builder[u].on = past' => lock' = u)
    <3>1. AwaitsOwn(u)
      BY <2>1 DEF DecodeInv, CallOK
    <3>2. lock = None => builder[u].on # past
      BY <3>1, DecodeBounds DEF AwaitsOwn
    <3>3. builder[u].on # w
      BY <3>1, <3>2, ProcessesUp DEF AwaitsOwn
    <3> QED
      BY <1>2, <1>7, <1>9, <3>1, <3>2, <3>3 DEF AwaitsOwn
  <2> QED
    BY <1>5, <2>1, OthersAwait
<1>12. ASSUME NEW v \in Decoders PROVE ProcOK(v)'
  <2>1. CASE v = w
    BY <1>7, <1>8, <2>1 DEF ProcOK, IsUp
  <2>2. CASE v # w /\ state'[v] = state[v]
    BY <2>2 DEF DecodeInv, ProcOK
  <2>3. CASE state'[v] = KilledProcess
    BY <2>3, ProcessKinds, ProcessesUp DEF ProcOK, IsUp
  <2> QED
    BY <1>7, <2>1, <2>2, <2>3
<1>13. PooledOK'
  <2>1. CASE lock' = lock /\ past' = past /\ w # past
    <3>1. past \in Decoders => state'[past] = state[past]
      BY <1>7, <2>1
    <3>2. lock # None => lock \in Decoding!AllThreads \ {t}
      BY <1>1, <1>2 DEF PooledOK
    <3> QED
      BY <1>2, <1>5, <2>1, <3>1, <3>2 DEF PooledOK
  <2>2. CASE lock = None /\ lock' = t /\ past' = w
    BY <1>2, <1>4, <1>5, <1>7, <1>8, <2>2 DEF PooledOK
  <2> QED
    BY <1>9, <2>1, <2>2
<1> QED
  BY <1>5, <1>7, <1>10, <1>11, <1>12, <1>13 DEF DecodeInv, DecodeRows

LEMMA DecodeSends ==
  ASSUME DecodeInv, NEW t \in Decoding!AllThreads,
         Decoding!Fork(t) \/ Decoding!CheckoutPooled(t) \/ Decoding!CheckoutOneOff(t)
  PROVE  DecodeInv'
<1>1. builder[t].at = "checkout"
  BY DEF Decoding!Fork, Decoding!CheckoutPooled, Decoding!CheckoutOneOff
<1>2. PICK n : n = Decoding!New
  OBVIOUS
<1>3. ASSUME Decoding!Unstarted # {}, NEW place
      PROVE  /\ n \in Decoders /\ state[n] = Process("none", None, 0)
             /\ Decoding!Sent(n, t, builder[t].file, place) =
                  [state EXCEPT ![n] = Process(place, t, builder[t].file)]
  BY <1>2, <1>3, NewIsUnstarted, SentIs
<1>4. CASE Decoding!Fork(t)
  <2>1. /\ builder' = [builder EXCEPT ![t].at = "await", ![t].via = "fork", ![t].on = n]
        /\ state' = Decoding!Sent(n, t, builder[t].file, "accepted")
        /\ Decoding!Unstarted # {} /\ UNCHANGED <<lock, past>>
    BY <1>2, <1>4 DEF Decoding!Fork
  <2> QED
    BY <1>1, <1>3, <2>1, SendingKept
<1>5. CASE Decoding!CheckoutOneOff(t)
  <2>1. /\ builder' = [builder EXCEPT ![t].at = "await", ![t].via = "own", ![t].on = n]
        /\ state' = Decoding!Sent(n, t, builder[t].file, "sent")
        /\ Decoding!Unstarted # {} /\ UNCHANGED <<lock, past>>
    BY <1>2, <1>5 DEF Decoding!CheckoutOneOff, Decoding!Uses
  <2> QED
    BY <1>1, <1>3, <2>1, SendingKept
<1>6. CASE Decoding!CheckoutPooled(t)
  <2>1. lock = None /\ lock' = t
    BY <1>6 DEF Decoding!CheckoutPooled
  <2>2. CASE Decoding!Reusable(t)
    <3>1. past \in Decoders /\ IsUp(state[past]) /\ state[past].creator = t /\ state[past].owes = << >>
      BY <2>1, <2>2 DEF Decoding!Reusable, Decoding!Alive, IsUp, DecodeInv, PooledOK
    <3>2. /\ builder' = [builder EXCEPT ![t].at = "await", ![t].via = "pooled", ![t].on = past]
          /\ state' = Decoding!Sent(past, t, builder[t].file, "sent") /\ past' = past
      BY <1>6, <2>2 DEF Decoding!CheckoutPooled, Decoding!Uses
    <3>3. state' = [state EXCEPT ![past] = Process("sent", t, builder[t].file)]
      BY <3>1, <3>2, SentIs
    <3> QED
      BY <1>1, <2>1, <3>1, <3>2, <3>3, SendingKept
  <2>3. CASE ~Decoding!Reusable(t)
    <3>1. /\ builder' = [builder EXCEPT ![t].at = "await", ![t].via = "pooled", ![t].on = n]
          /\ Decoding!Unstarted # {} /\ past' = n
          /\ state' = IF Decoding!Alive(past)
                      THEN Decoding!Killed(Decoding!Sent(n, t, builder[t].file, "sent"), past)
                      ELSE Decoding!Sent(n, t, builder[t].file, "sent")
      BY <1>2, <1>6, <2>3 DEF Decoding!CheckoutPooled, Decoding!Uses
    <3>2. PICK sent : sent = [state EXCEPT ![n] = Process("sent", t, builder[t].file)]
      OBVIOUS
    <3>3. n \in Decoders /\ state[n] = Process("none", None, 0)
          /\ Decoding!Sent(n, t, builder[t].file, "sent") = sent
      BY <1>3, <3>1, <3>2
    <3>4. CASE Decoding!Alive(past)
      <4>1. past \in Decoders
        BY <3>4 DEF Decoding!Alive, DecodeInv, PooledOK
      <4>2. state' = [sent EXCEPT ![past] = KilledProcess]
        BY <3>1, <3>3, <3>4, ProcessKinds
      <4> QED
        BY <1>1, <2>1, <3>1, <3>2, <3>3, <4>1, <4>2, SendingKept
    <3>5. CASE ~Decoding!Alive(past)
      BY <1>1, <2>1, <3>1, <3>2, <3>3, <3>5, SendingKept
    <3> QED
      BY <3>4, <3>5
  <2> QED
    BY <2>2, <2>3
<1> QED
  BY <1>4, <1>5, <1>6

LEMMA FreeCall ==
  /\ CallIsRecord(Decoding!Free) /\ Decoding!Free.at # "await"
  /\ CallIsRecord(Decoding!Absent) /\ Decoding!Absent.at # "await"
  /\ \A file, attempt :
       LET r == [Decoding!Free EXCEPT !.at = "checkout", !.file = file, !.attempt = attempt]
       IN CallIsRecord(r) /\ r.at # "await"
<1>1. PICK b : b = Decoding!Free
  OBVIOUS
<1>2. b = [at |-> "free", file |-> 0, via |-> "none", on |-> 0, attempt |-> 0]
  BY <1>1 DEF Decoding!Free
<1>3. PICK a : a = [b EXCEPT !.at = "absent"]
  OBVIOUS
<1>4. a = [at |-> "absent", file |-> 0, via |-> "none", on |-> 0, attempt |-> 0]
  BY <1>2, <1>3
<1>5. a = Decoding!Absent
  BY <1>1, <1>3 DEF Decoding!Absent
<1>6. CallIsRecord(b) /\ b.at # "await" /\ CallIsRecord(a) /\ a.at # "await"
  BY <1>2, <1>4 DEF CallIsRecord
<1>7. ASSUME NEW file, NEW attempt
      PROVE  LET r == [b EXCEPT !.at = "checkout", !.file = file, !.attempt = attempt]
             IN CallIsRecord(r) /\ r.at # "await"
  <2>1. PICK r : r = [b EXCEPT !.at = "checkout", !.file = file, !.attempt = attempt]
    OBVIOUS
  <2>2. r = [at |-> "checkout", file |-> file, via |-> "none", on |-> 0, attempt |-> attempt]
    BY <1>2, <2>1
  <2>3. CallIsRecord(r) /\ r.at # "await"
    BY <2>2 DEF CallIsRecord
  <2> QED
    BY <2>1, <2>3
<1> QED
  BY <1>1, <1>5, <1>6, <1>7

\* A thread that waits for no worker goes on; workers of no other call may go.
LEMMA CallTurns ==
  ASSUME DecodeInv, NEW t \in Decoding!AllThreads, NEW r, CallIsRecord(r), r.at # "await",
         builder' = [builder EXCEPT ![t] = r], builder[t].at # "await", UNCHANGED lock,
         state' = [w \in Decoders |-> state'[w]], \A w \in Decoders : ProcOK(w)',
         \A u \in Decoding!AllThreads \ {t} :
           builder[u].at = "await" => state'[builder[u].on] = state[builder[u].on],
         \/ /\ past' = past
            /\ past \in Decoders => state'[past] = state[past] \/ state'[past].state = "gone"
         \/ past' = 0 /\ lock = None
  PROVE  DecodeInv'
<1>1. DecodeRows /\ PooledOK /\ \A u \in Decoding!AllThreads : CallOK(u)
  BY DEF DecodeInv
<1>2. /\ builder'[t] = r /\ \A u \in Decoding!AllThreads \ {t} : builder'[u] = builder[u]
      /\ builder' = [u \in Decoding!AllThreads |-> builder'[u]]
  BY <1>1 DEF DecodeRows
<1>3. CallOK(t)'
  BY <1>2 DEF CallOK, CallIsRecord
<1>4. ASSUME NEW u \in Decoding!AllThreads \ {t} PROVE CallOK(u)'
  <2>1. builder[u].at = "await" => builder[u].on \in Decoders /\ (builder[u].on = past => lock = u)
    BY <1>1 DEF CallOK, AwaitsOwn
  <2>2. builder[u].at = "await" => (builder[u].on = past' => lock' = u)
    BY <2>1, DecodeBounds
  <2> QED
    BY <1>2, <2>2, OthersAwait
<1>5. PooledOK'
  <2>1. lock # None => lock \in Decoding!AllThreads \ {t}
    BY <1>1 DEF PooledOK
  <2>2. CASE past' = 0 /\ lock = None
    BY <2>2 DEF PooledOK
  <2>3. CASE past' = past /\ (past \in Decoders => state'[past] = state[past] \/ state'[past].state = "gone")
    BY <1>1, <1>2, <2>1, <2>3, DecodeBounds DEF PooledOK, IsUp
  <2> QED
    BY <2>2, <2>3
<1> QED
  BY <1>2, <1>3, <1>4, <1>5 DEF DecodeInv, DecodeRows

LEMMA KilledOK ==
  ASSUME DecodeInv, NEW w \in Decoders, state' = [state EXCEPT ![w] = KilledProcess]
  PROVE  /\ state' = [v \in Decoders |-> state'[v]] /\ \A v \in Decoders : ProcOK(v)'
         /\ \A v \in Decoders \ {w} : state'[v] = state[v]
         /\ state'[w] = KilledProcess
<1>1. /\ state' = [v \in Decoders |-> state'[v]] /\ state'[w] = KilledProcess
      /\ \A v \in Decoders \ {w} : state'[v] = state[v]
  BY DEF DecodeInv, DecodeRows
<1>2. ASSUME NEW v \in Decoders PROVE ProcOK(v)'
  <2>1. CASE v = w
    BY <1>1, <2>1, ProcessKinds, ProcessesUp DEF ProcOK, IsUp
  <2>2. CASE v # w
    BY <1>1, <2>2 DEF DecodeInv, ProcOK
  <2> QED
    BY <2>1, <2>2
<1> QED
  BY <1>1, <1>2

LEMMA DecodeTurns ==
  ASSUME DecodeInv, NEW t \in Decoding!AllThreads,
         Decoding!ThreadStarts(t) \/ Decoding!Call(t) \/ Decoding!CannotStart(t)
  PROVE  DecodeInv'
<1>1. UNCHANGED state => state' = [w \in Decoders |-> state'[w]] /\ \A w \in Decoders : ProcOK(w)'
  BY DEF DecodeInv, DecodeRows, ProcOK
<1>2. CASE Decoding!ThreadStarts(t)
  BY <1>1, <1>2, CallTurns, FreeCall DEF Decoding!ThreadStarts
<1>3. CASE Decoding!Call(t)
  <2>1. /\ builder' = [builder EXCEPT ![t] = [Decoding!Free EXCEPT !.at = "checkout",
                                               !.file = live + 1, !.attempt = 1]]
        /\ builder[t].at = "free" /\ UNCHANGED <<lock, past, state>>
    BY <1>3 DEF Decoding!Call
  <2>2. PICK r : r = [Decoding!Free EXCEPT !.at = "checkout", !.file = live + 1, !.attempt = 1]
    OBVIOUS
  <2>3. CallIsRecord(r) /\ r.at # "await"
    BY <2>2, FreeCall
  <2>4. builder' = [builder EXCEPT ![t] = r]
    BY <2>1, <2>2
  <2> QED
    BY <1>1, <2>1, <2>3, <2>4, CallTurns
<1>4. CASE Decoding!CannotStart(t)
  <2>1. /\ builder' = [builder EXCEPT ![t] = Decoding!Free] /\ builder[t].at = "checkout"
        /\ UNCHANGED lock
    BY <1>4 DEF Decoding!CannotStart
  <2>2. CASE lock = None /\ Decoding!Alive(past)
    <3>1. past \in Decoders
      BY <2>2 DEF Decoding!Alive, DecodeInv, PooledOK
    <3>2. past' = 0 /\ state' = [state EXCEPT ![past] = KilledProcess]
      BY <1>4, <2>2, ProcessKinds DEF Decoding!CannotStart
    <3>3. ASSUME NEW u \in Decoding!AllThreads \ {t}, builder[u].at = "await"
          PROVE  state'[builder[u].on] = state[builder[u].on]
      <4>1. AwaitsOwn(u)
        BY <3>3 DEF DecodeInv, CallOK
      <4>2. builder[u].on \in Decoders \ {past}
        BY <2>2, <4>1, DecodeBounds DEF AwaitsOwn
      <4> QED
        BY <3>1, <3>2, <4>2, KilledOK
    <3> QED
      BY <2>1, <2>2, <3>1, <3>2, <3>3, KilledOK, CallTurns, FreeCall
  <2>3. CASE ~(lock = None /\ Decoding!Alive(past))
    <3>1. UNCHANGED <<past, state>>
      BY <1>4, <2>3 DEF Decoding!CannotStart
    <3> QED
      BY <1>1, <2>1, <3>1, CallTurns, FreeCall
  <2> QED
    BY <2>2, <2>3
<1> QED
  BY <1>2, <1>3, <1>4

\* The workers a thread started go with it; the other threads wait for none of them.
LEMMA DecodeThreadEnds ==
  ASSUME DecodeInv, NEW t \in Decoding!AllThreads, Decoding!ThreadEnds(t)
  PROVE  DecodeInv'
<1>1. /\ builder' = [builder EXCEPT ![t] = Decoding!Absent] /\ builder[t].at = "free"
      /\ UNCHANGED <<lock, past>>
      /\ state' = [w \in Decoders |-> IF state[w].creator = t /\ Decoding!Alive(w)
                                      THEN [state[w] EXCEPT !.state = "gone", !.end = "thread"]
                                      ELSE state[w]]
  BY DEF Decoding!ThreadEnds
<1>2. ASSUME NEW w \in Decoders
      PROVE  /\ ProcOK(w)' /\ (state'[w] = state[w] \/ state'[w].state = "gone")
             /\ state[w].creator # t => state'[w] = state[w]
  <2>1. CASE state[w].creator = t /\ Decoding!Alive(w)
    <3>1. PICK b : b = state[w]
      OBVIOUS
    <3>2. PICK x : x = [b EXCEPT !.state = "gone", !.end = "thread"]
      OBVIOUS
    <3>3. ProcIsRecord(b)
      BY <3>1 DEF DecodeInv, ProcOK
    <3>4. x = [state |-> "gone", creator |-> b.creator, file |-> b.file, owes |-> b.owes,
               end |-> "thread"]
      BY <3>2, <3>3 DEF ProcIsRecord
    <3>5. state'[w] = x
      BY <1>1, <2>1, <3>1, <3>2
    <3>6. ProcIsRecord(x) /\ x.state = "gone"
      BY <3>4 DEF ProcIsRecord
    <3> QED
      BY <2>1, <3>5, <3>6 DEF ProcOK, IsUp
  <2>2. CASE ~(state[w].creator = t /\ Decoding!Alive(w))
    <3>1. state'[w] = state[w]
      BY <1>1, <2>2
    <3> QED
      BY <3>1 DEF DecodeInv, ProcOK
  <2> QED
    BY <2>1, <2>2
<1>3. ASSUME NEW u \in Decoding!AllThreads \ {t}, builder[u].at = "await"
      PROVE  state'[builder[u].on] = state[builder[u].on]
  <2>1. AwaitsOwn(u)
    BY <1>3 DEF DecodeInv, CallOK
  <2> QED
    BY <1>2, <2>1 DEF AwaitsOwn
<1>4. state' = [w \in Decoders |-> state'[w]]
  BY <1>1
<1> QED
  BY <1>1, <1>2, <1>3, <1>4, CallTurns, FreeCall

\* A call is over: its worker is killed, or stays with nothing owed for the next file.
LEMMA CallEnds ==
  ASSUME DecodeInv, NEW t \in Decoding!AllThreads, builder[t].at = "await", NEW r, CallIsRecord(r),
         r.at # "await", builder' = [builder EXCEPT ![t] = r],
         lock' = IF lock = t THEN None ELSE lock,
         \/ /\ state' = [state EXCEPT ![builder[t].on] = KilledProcess]
            /\ past' = IF past = builder[t].on THEN 0 ELSE past
         \/ /\ state[builder[t].on].owes # << >> /\ past' = past
            /\ state' = [state EXCEPT ![builder[t].on].owes = Tail(@)]
  PROVE  DecodeInv'
<1>1. DecodeRows /\ PooledOK /\ CallOK(t) /\ \A u \in Decoding!AllThreads : CallOK(u)
  BY DEF DecodeInv
<1>2. PICK w : w = builder[t].on
  OBVIOUS
<1>3. w \in Decoders /\ AwaitsOwn(t) /\ t # None /\ (w = past => lock = t) /\ state[w].state # "none"
  BY <1>1, <1>2, DecodeBounds DEF CallOK, AwaitsOwn
<1>4. /\ builder'[t] = r /\ \A u \in Decoding!AllThreads \ {t} : builder'[u] = builder[u]
      /\ builder' = [u \in Decoding!AllThreads |-> builder'[u]]
  BY <1>1 DEF DecodeRows
<1>5. /\ state' = [v \in Decoders |-> state'[v]] /\ \A v \in Decoders \ {w} : state'[v] = state[v]
      /\ \A v \in Decoders : ProcOK(v)'
      /\ \/ past' = IF past = w THEN 0 ELSE past
         \/ past' = past /\ state'[w].owes = << >> /\ (IsUp(state'[w]) => state'[w].state = "idle")
            /\ state'[w].state # "none"
  <2>1. CASE /\ state' = [state EXCEPT ![w] = KilledProcess]
             /\ past' = IF past = w THEN 0 ELSE past
    BY <1>3, <2>1, KilledOK
  <2>2. CASE /\ state[w].owes # << >> /\ past' = past
             /\ state' = [state EXCEPT ![w].owes = Tail(@)]
    <3>1. PICK b, f : b = state[w] /\ f = builder[t].file
      OBVIOUS
    <3>2. ProcIsRecord(b) /\ ProcOK(w)
      BY <1>3, <3>1 DEF DecodeInv, ProcOK
    <3>3. b.owes = <<f>>
      BY <1>2, <1>3, <2>2, <3>1 DEF AwaitsOwn
    <3>4. Tail(b.owes) = << >>
      BY <3>3
    <3>5. PICK x : x = [b EXCEPT !.owes = Tail(b.owes)]
      OBVIOUS
    <3>6. x = [state |-> b.state, creator |-> b.creator, file |-> b.file, owes |-> << >>, end |-> b.end]
      BY <3>2, <3>4, <3>5 DEF ProcIsRecord
    <3>7. state' = [state EXCEPT ![w] = x]
      BY <2>2, <3>1, <3>5
    <3>8. /\ state' = [v \in Decoders |-> state'[v]] /\ state'[w] = x
          /\ \A v \in Decoders \ {w} : state'[v] = state[v]
      BY <1>1, <1>3, <3>7 DEF DecodeRows
    <3>9. /\ ProcIsRecord(x) /\ x.state = b.state /\ x.owes = << >> /\ x.end = b.end
      BY <3>6 DEF ProcIsRecord
    <3>10. IsUp(b) => b.state = "idle"
      BY <3>1, <3>2, <3>3 DEF ProcOK
    <3>11. ProcOK(w)'
      BY <1>3, <3>1, <3>2, <3>8, <3>9 DEF ProcOK, IsUp
    <3>12. \A v \in Decoders \ {w} : ProcOK(v)'
      BY <3>8 DEF DecodeInv, ProcOK
    <3> QED
      BY <1>3, <2>2, <3>1, <3>8, <3>9, <3>10, <3>11, <3>12 DEF IsUp
  <2> QED
    BY <1>2, <2>1, <2>2
<1>6. CallOK(t)'
  BY <1>4 DEF CallOK, CallIsRecord
<1>7. ASSUME NEW u \in Decoding!AllThreads \ {t} PROVE CallOK(u)'
  <2>1. ASSUME builder[u].at = "await"
        PROVE  state'[builder[u].on] = state[builder[u].on] /\ (builder[u].on = past' => lock' = u)
    <3>1. AwaitsOwn(u) /\ builder[u].on # w
      BY <1>1, <1>2, <2>1, AwaitedApart DEF CallOK
    <3>2. builder[u].on \in Decoders \ {w} /\ builder[u].on # 0
      BY <3>1, DecodeBounds DEF AwaitsOwn
    <3> QED
      BY <1>5, <3>1, <3>2 DEF AwaitsOwn
  <2> QED
    BY <1>4, <2>1, OthersAwait
<1>8. PooledOK'
  <2>1. lock' # None => lock' = lock /\ lock \in Decoding!AllThreads \ {t} /\ w # past
    BY <1>1, <1>3 DEF PooledOK
  <2>2. lock = t => past = w
    BY <1>1, <1>2, <1>3 DEF PooledOK
  <2>3. CASE w = past
    BY <1>3, <1>5, <2>1, <2>3 DEF PooledOK
  <2>4. CASE w # past
    <3>1. lock' = lock /\ past' = past /\ (past \in Decoders => state'[past] = state[past])
      BY <1>5, <2>2, <2>4
    <3> QED
      BY <1>1, <1>4, <2>1, <3>1 DEF PooledOK
  <2> QED
    BY <2>3, <2>4
<1> QED
  BY <1>4, <1>5, <1>6, <1>7, <1>8 DEF DecodeInv, DecodeRows

LEMMA KilledAnyway ==
  ASSUME DecodeInv, NEW w \in Decoders, NEW x
  PROVE  [[state EXCEPT ![w] = x] EXCEPT ![w] = KilledProcess] = [state EXCEPT ![w] = KilledProcess]
<1>1. state = [v \in Decoders |-> state[v]]
  BY DEF DecodeInv, DecodeRows
<1> QED
  BY <1>1

LEMMA DecodeEnds ==
  ASSUME DecodeInv, NEW t \in Decoding!AllThreads,
         Decoding!Read(t) \/ Decoding!Limit(t) \/ Decoding!ReadGone(t)
  PROVE  DecodeInv'
<1>1. PICK w : w = builder[t].on
  OBVIOUS
<1>2. builder[t].at = "await" /\ w \in Decoders
  BY <1>1 DEF Decoding!Read, Decoding!Limit, Decoding!ReadGone, DecodeInv, CallOK, AwaitsOwn
<1>3. ASSUME NEW healthy \in BOOLEAN, Decoding!CheckedIn(t, healthy)
      PROVE  /\ lock' = IF lock = t THEN None ELSE lock
             /\ past' = IF ~Decoding!Stays(t, healthy) /\ past = w THEN 0 ELSE past
  BY <1>1, <1>3 DEF Decoding!CheckedIn
<1>4. ~Decoding!Stays(t, FALSE)
  BY DEF Decoding!Stays
<1>5. ASSUME NEW r, CallIsRecord(r), r.at # "await", builder' = [builder EXCEPT ![t] = r],
             state' = Decoding!Returned(t, FALSE, state), Decoding!CheckedIn(t, FALSE)
      PROVE  DecodeInv'
  <2>1. state' = [state EXCEPT ![w] = KilledProcess]
    BY <1>1, <1>4, <1>5, ProcessKinds DEF Decoding!Returned
  <2>2. lock' = (IF lock = t THEN None ELSE lock) /\ past' = IF past = w THEN 0 ELSE past
    BY <1>3, <1>4, <1>5
  <2> QED
    BY <1>1, <1>2, <1>5, <2>1, <2>2, CallEnds
<1>6. CASE Decoding!Limit(t)
  BY <1>5, <1>6, FreeCall DEF Decoding!Limit
<1>7. CASE Decoding!ReadGone(t)
  <2>1. PICK r : r = IF Decoding!Resent(t)
                     THEN [Decoding!Free EXCEPT !.at = "checkout", !.file = builder[t].file,
                                                !.attempt = 2]
                     ELSE Decoding!Free
    OBVIOUS
  <2>2. CallIsRecord(r) /\ r.at # "await"
    BY <2>1, FreeCall
  <2>3. /\ builder' = [builder EXCEPT ![t] = r]
        /\ state' = Decoding!Returned(t, FALSE, state) /\ Decoding!CheckedIn(t, FALSE)
    BY <1>7, <2>1 DEF Decoding!ReadGone
  <2> QED
    BY <1>5, <2>2, <2>3
<1>8. CASE Decoding!Read(t)
  <2>1. PICK x : x = [state[w] EXCEPT !.owes = Tail(@)]
    OBVIOUS
  <2>2. PICK left : left = [state EXCEPT ![w].owes = Tail(@)]
    OBVIOUS
  <2>3. left = [state EXCEPT ![w] = x]
    BY <2>1, <2>2
  <2>4. /\ state' = Decoding!Returned(t, TRUE, left) /\ Decoding!CheckedIn(t, TRUE)
        /\ builder' = [builder EXCEPT ![t] = Decoding!Free] /\ state[w].owes # << >>
    BY <1>1, <1>8, <2>2 DEF Decoding!Read
  <2>5. /\ lock' = IF lock = t THEN None ELSE lock
        /\ past' = IF ~Decoding!Stays(t, TRUE) /\ past = w THEN 0 ELSE past
    BY <1>3, <2>4
  <2>6. CASE Decoding!Stays(t, TRUE)
    <3>1. state' = left /\ past' = past
      BY <2>4, <2>5, <2>6 DEF Decoding!Returned
    <3> QED
      BY <1>1, <1>2, <2>2, <2>4, <2>5, <3>1, FreeCall, CallEnds
  <2>7. CASE ~Decoding!Stays(t, TRUE)
    <3>1. state' = [left EXCEPT ![w] = KilledProcess]
      BY <1>1, <2>4, <2>7, ProcessKinds DEF Decoding!Returned
    <3>2. state' = [state EXCEPT ![w] = KilledProcess]
      BY <1>2, <2>3, <3>1, KilledAnyway
    <3> QED
      BY <1>1, <1>2, <2>4, <2>5, <2>7, <3>2, FreeCall, CallEnds
  <2> QED
    BY <2>6, <2>7
<1> QED
  BY <1>6, <1>7, <1>8

\* A worker's own step: it keeps its creator and its file.
LEMMA WorkerGoes ==
  ASSUME DecodeInv, NEW w \in Decoders, NEW x, state' = [state EXCEPT ![w] = x],
         UNCHANGED <<builder, lock, past>>, ProcIsRecord(x), IsUp(state[w]),
         x.creator = state[w].creator, x.file = state[w].file,
         \/ x.state = "gone" /\ x.owes = state[w].owes /\ x.end # "thread"
         \/ x.state = "accepted" /\ x.owes = << >> /\ x.end = "none" /\ state[w].state = "sent"
         \/ x.state = "idle" /\ x.owes = <<x.file>> /\ x.end = "none" /\ state[w].state = "accepted"
  PROVE  DecodeInv'
<1>1. DecodeRows /\ PooledOK /\ \A u \in Decoding!AllThreads : CallOK(u)
  BY DEF DecodeInv
<1>2. /\ state' = [v \in Decoders |-> state'[v]] /\ state'[w] = x
      /\ \A v \in Decoders \ {w} : state'[v] = state[v]
  BY <1>1 DEF DecodeRows
<1>3. ASSUME NEW v \in Decoders PROVE ProcOK(v)'
  <2>1. CASE v = w
    BY <1>2, <2>1 DEF ProcOK, IsUp
  <2>2. CASE v # w
    BY <1>2, <2>2 DEF DecodeInv, ProcOK
  <2> QED
    BY <2>1, <2>2
<1>4. ASSUME NEW t \in Decoding!AllThreads PROVE CallOK(t)'
  <2>1. CASE builder[t].at = "await" /\ builder[t].on = w
    <3>1. AwaitsOwn(t)
      BY <1>1, <2>1 DEF CallOK
    <3>3. x.file = builder[t].file /\ x.creator = t /\ state[w].end # "thread"
      BY <2>1, <3>1 DEF AwaitsOwn
    <3>4. x.owes \in {<< >>, <<builder[t].file>>} /\ x.state # "none" /\ x.end # "thread"
      <4>1. <<x.file>> = <<builder[t].file>>
        BY <3>3
      <4>2. state[w].owes \in {<< >>, <<builder[t].file>>}
        BY <2>1, <3>1 DEF AwaitsOwn
      <4> QED
        BY <4>1, <4>2
    <3>2. AwaitsOwn(t)'
      BY <1>2, <2>1, <3>1, <3>3, <3>4 DEF AwaitsOwn
    <3> QED
      BY <1>1, <3>2 DEF CallOK
  <2>2. CASE ~(builder[t].at = "await" /\ builder[t].on = w)
    <3>1. builder[t].at = "await" => builder[t].on \in Decoders \ {w} /\ (builder[t].on = past => lock = t)
      BY <1>1, <2>2 DEF CallOK, AwaitsOwn
    <3> QED
      BY <1>2, <3>1, OthersAwait
  <2> QED
    BY <2>1, <2>2
<1>5. PooledOK'
  <2>1. CASE past = w
    BY <1>1, <1>2, <2>1, DecodeBounds DEF PooledOK, IsUp
  <2>2. CASE past # w
    <3>1. past \in Decoders => state'[past] = state[past]
      BY <1>2, <2>2
    <3> QED
      BY <1>1, <3>1 DEF PooledOK
  <2> QED
    BY <2>1, <2>2
<1> QED
  BY <1>1, <1>2, <1>3, <1>4, <1>5 DEF DecodeInv, DecodeRows

LEMMA DecodeWorkers ==
  ASSUME DecodeInv, NEW w \in Decoders,
         Decoding!Accept(w) \/ Decoding!Answer(w) \/ Decoding!Dies(w)
  PROVE  DecodeInv'
<1>1. PICK b : b = state[w]
  OBVIOUS
<1>2. ProcIsRecord(b) /\ ProcOK(w) /\ UNCHANGED <<builder, lock, past>>
  BY <1>1 DEF DecodeInv, ProcOK, Decoding!Accept, Decoding!Answer, Decoding!Dies
<1>3. CASE Decoding!Accept(w)
  <2>1. PICK x : x = [b EXCEPT !.state = "accepted"]
    OBVIOUS
  <2>2. b.state = "sent" /\ state' = [state EXCEPT ![w] = x]
    BY <1>1, <1>3, <2>1 DEF Decoding!Accept
  <2>3. b.owes = << >> /\ b.end = "none" /\ IsUp(state[w])
    BY <1>1, <1>2, <2>2 DEF ProcOK, IsUp
  <2>4. x = [state |-> "accepted", creator |-> b.creator, file |-> b.file, owes |-> << >>,
             end |-> "none"]
    BY <1>2, <2>1, <2>3 DEF ProcIsRecord
  <2>5. /\ ProcIsRecord(x) /\ x.state = "accepted" /\ x.creator = b.creator /\ x.file = b.file
        /\ x.owes = << >> /\ x.end = "none"
    BY <2>4 DEF ProcIsRecord
  <2> QED
    BY <1>1, <1>2, <2>2, <2>3, <2>5, WorkerGoes
<1>4. CASE Decoding!Answer(w)
  <2>1. PICK x : x = [b EXCEPT !.state = "idle", !.owes = Append(b.owes, b.file)]
    OBVIOUS
  <2>2. b.state = "accepted" /\ state' = [state EXCEPT ![w] = x]
    BY <1>1, <1>4, <2>1 DEF Decoding!Answer
  <2>3. b.owes = << >> /\ b.end = "none" /\ IsUp(state[w])
    BY <1>1, <1>2, <2>2 DEF ProcOK, IsUp
  <2>4. Append(b.owes, b.file) = <<b.file>>
    BY <2>3
  <2>5. x = [state |-> "idle", creator |-> b.creator, file |-> b.file, owes |-> <<b.file>>,
             end |-> "none"]
    BY <1>2, <2>1, <2>3, <2>4 DEF ProcIsRecord
  <2>6. /\ ProcIsRecord(x) /\ x.state = "idle" /\ x.creator = b.creator /\ x.file = b.file
        /\ x.owes = <<x.file>> /\ x.end = "none"
    BY <2>5 DEF ProcIsRecord
  <2> QED
    BY <1>1, <1>2, <2>2, <2>3, <2>6, WorkerGoes
<1>5. CASE Decoding!Dies(w)
  <2>1. PICK why : why = IF state[w].state = "sent" THEN "unaccepted" ELSE "crash"
    OBVIOUS
  <2>2. PICK x : x = [b EXCEPT !.state = "gone", !.end = why]
    OBVIOUS
  <2>3. state' = [state EXCEPT ![w] = x] /\ IsUp(state[w]) /\ why # "thread"
    BY <1>1, <1>5, <2>1, <2>2 DEF Decoding!Dies, Decoding!Alive, IsUp
  <2>4. x = [state |-> "gone", creator |-> b.creator, file |-> b.file, owes |-> b.owes,
             end |-> why]
    BY <1>2, <2>2 DEF ProcIsRecord
  <2>5. /\ ProcIsRecord(x) /\ x.state = "gone" /\ x.creator = b.creator /\ x.file = b.file
        /\ x.owes = b.owes /\ x.end # "thread"
    BY <2>3, <2>4 DEF ProcIsRecord
  <2> QED
    BY <1>1, <1>2, <2>3, <2>5, WorkerGoes
<1> QED
  BY <1>3, <1>4, <1>5

LEMMA DecodingIsKept ==
  ASSUME DecodeInv, Decoding!Next
  PROVE  DecodeInv'
BY DecodeTurns, DecodeThreadEnds, DecodeSends, DecodeEnds, DecodeWorkers DEF Decoding!Next

LEMMA DecodingStays ==
  ASSUME DecodeInv, UNCHANGED all
  PROVE  DecodeInv'
<1>1. UNCHANGED <<builder, lock, past, state>>
  BY DEF all, vars, durable, inputs
<1> QED
  BY <1>1 DEF DecodeInv, DecodeRows, PooledOK, CallOK, CallIsRecord, AwaitsOwn, ProcOK, ProcIsRecord,
     IsUp

FilesInv == (focus = "files" => PoolInv) /\ (focus = "decoding" => DecodeInv)

LEMMA FilesStep ==
  ASSUME FilesInv, [SuiteNext]_all
  PROVE  FilesInv'
<1>1. focus' = focus
  BY DEF SuiteNext, all
<1>2. CASE UNCHANGED all
  <2>1. ASSUME focus = "files" PROVE PoolInv'
    BY <1>2, <2>1, PoolStays DEF FilesInv
  <2>2. ASSUME focus = "decoding" PROVE DecodeInv'
    BY <1>2, <2>2, DecodingStays DEF FilesInv
  <2> QED
    BY <1>1, <2>1, <2>2 DEF FilesInv
<1>3. CASE SuiteNext
  <2>1. ASSUME focus = "files" PROVE PoolInv'
    BY <1>3, <2>1, PoolIsKept DEF FilesInv, SuiteNext
  <2>2. ASSUME focus = "decoding" PROVE DecodeInv'
    BY <1>3, <2>2, DecodingIsKept DEF FilesInv, SuiteNext
  <2> QED
    BY <1>1, <2>1, <2>2 DEF FilesInv
<1> QED
  BY <1>2, <1>3

\* FilesFinishedOnce: each file of a batch is finished exactly once, a cancelled file is
\* decoded no more once the cancel is through, and every answer a thread reads is about
\* its own file from a worker it started, however many threads, workers and files there
\* are and however often workers die and passes raise (parallel_analysis.py,
\* analysis_isolation.py).
THEOREM FilesAreFinishedOnce == SuiteSpec => []FilesFinishedOnce
<1>1. SuiteInit => FilesInv
  BY PoolBegins, DecodeBegins DEF SuiteInit, FilesInv
<1>2. FilesInv /\ [SuiteNext]_all => FilesInv'
  BY FilesStep
<1>3. FilesInv => FilesFinishedOnce
  BY PoolFinishesOnce, DecodesAreOwn DEF FilesInv, FilesFinishedOnce
<1> QED
  BY <1>1, <1>2, <1>3, PTL DEF SuiteSpec

-----------------------------------------------------------------------------
(* The copies of friends' albums, for any number of connections and workers.  *)
(* In the suite `state` is the friend's table, `build` the connections,       *)
(* `builder` the workers and `results` the copies.                            *)

LEMMA FriendCardinality == ASSUME NEW S PROVE Friend!Cardinality(S) = Cardinality(S)
BY DEF Friend!Cardinality, Cardinality

LEMMA FriendFinite == ASSUME NEW S PROVE Friend!IsFiniteSet(S) <=> IsFiniteSet(S)
BY DEF Friend!IsFiniteSet, IsFiniteSet

LEMMA FriendBounds ==
  /\ Entities \subseteq Nat \ {0} /\ IsFiniteSet(Entities) /\ IsFiniteSet(Peers) /\ IsFiniteSet(Syncers)
  /\ PageLimit \in Nat \ {0}
BY BoundsHold, FriendFinite DEF Friend!FriendAssumption

\* The first albums of a friend after a cursor, when there are others, are those
\* up to the last of them.
LEMMA PageIsPrefix ==
  ASSUME NEW S \in SUBSET Nat, IsFiniteSet(S), NEW n \in Nat \ {0}, Friend!Lowest(S, n) # S
  PROVE  /\ Friend!Max(Friend!Lowest(S, n)) \in S
         /\ \A k \in S : k \in Friend!Lowest(S, n) <=> k <= Friend!Max(Friend!Lowest(S, n))
<1> DEFINE upto(k) == {j \in S : j <= k}
           page == Friend!Lowest(S, n)
<1>0. \A j \in S : j \in Nat
  OBVIOUS
<1>1. page = {k \in S : Cardinality(upto(k)) <= n}
  BY FriendCardinality DEF Friend!Lowest
<1>2. \A k \in S : IsFiniteSet(upto(k)) /\ Cardinality(upto(k)) \in Nat
  BY FS_Subset, FS_CardinalityType
<1>3. ASSUME NEW j \in S, NEW k \in S, j < k
      PROVE  Cardinality(upto(j)) < Cardinality(upto(k))
  <2>0. j \in Nat /\ k \in Nat
    BY <1>0
  <2>3. \A i \in S : i <= j => i <= k
    BY <1>0, <1>3, <2>0
  <2>4. k \in upto(k) /\ k \notin upto(j)
    BY <1>3, <2>0
  <2>1. upto(j) \in SUBSET upto(k) /\ upto(j) # upto(k)
    BY <2>3, <2>4
  <2>2. Cardinality(upto(j)) <= Cardinality(upto(k)) /\ Cardinality(upto(j)) # Cardinality(upto(k))
    <3> HIDE DEF upto
    <3> QED
      BY <1>2, <2>1, FS_Subset
  <2> HIDE DEF upto
  <2> QED
    BY <1>2, <2>2
<1>4. page # {}
  <2>1. S # {}
    BY <1>1
  <2>2. PICK m \in S : \A j \in S : m <= j
    BY <2>1, NaturalsHaveLeast
  <2>5. \A j \in S : j <= m <=> j = m
    BY <1>0, <2>2
  <2>3. upto(m) = {m}
    BY <2>5
  <2>4. Cardinality(upto(m)) = 1
    BY <2>3, FS_Singleton
  <2> HIDE DEF upto
  <2> QED
    BY <1>1, <2>4
<1>5. PICK k \in page : \A j \in page : Cardinality(upto(j)) <= Cardinality(upto(k))
  <2> DEFINE T == {x \in Nat : \E j \in page : x = n - Cardinality(upto(j))}
  <2> HIDE DEF upto
  <2>0. \A j \in page : Cardinality(upto(j)) \in Nat /\ Cardinality(upto(j)) <= n
    BY <1>1, <1>2
  <2> HIDE DEF page
  <2>1. \A j \in page : n - Cardinality(upto(j)) \in T
    BY <2>0
  <2>2. PICK m \in T : \A x \in T : m <= x
    BY <1>4, <2>1, NaturalsHaveLeast
  <2>3. PICK k \in page : m = n - Cardinality(upto(k))
    BY <2>2
  <2>4. \A j \in page : n - Cardinality(upto(k)) <= n - Cardinality(upto(j))
    BY <2>1, <2>2, <2>3
  <2>5. \A j \in page : Cardinality(upto(j)) <= Cardinality(upto(k))
    BY <2>0, <2>3, <2>4
  <2> QED
    BY <2>3, <2>5
<1>6. k \in S /\ \A j \in page : j \in S /\ k >= j
  <2> HIDE DEF upto
  <2>1. \A j \in page : j \in S /\ j \in Nat /\ Cardinality(upto(j)) \in Nat
    BY <1>0, <1>1, <1>2
  <2> HIDE DEF page
  <2>2. ASSUME NEW j \in page, k < j PROVE FALSE
    <3>1. Cardinality(upto(k)) < Cardinality(upto(j))
      BY <1>3, <1>5, <2>1, <2>2
    <3> QED
      BY <1>5, <2>1, <3>1
  <2>3. \A j \in page : ~(k < j)
    BY <2>2
  <2> QED
    BY <2>1, <2>3
<1>7. PICK m : m = Friend!Max(page)
  OBVIOUS
<1>8. m = CHOOSE x \in page : \A y \in page : x >= y
  BY <1>7 DEF Friend!Max
<1>9. m \in page /\ \A y \in page : m >= y
  BY <1>5, <1>6, <1>8
<1>10. m \in S /\ Cardinality(upto(m)) <= n
  BY <1>1, <1>9
<1>11. ASSUME NEW j \in S, j <= m PROVE j \in page
  <2> HIDE DEF upto
  <2>1. j = m \/ Cardinality(upto(j)) < Cardinality(upto(m))
    BY <1>3, <1>10, <1>11
  <2> QED
    BY <1>1, <1>2, <1>10, <2>1
<1> HIDE DEF page
<1> QED
  BY <1>7, <1>9, <1>10, <1>11 DEF page

ConnectionOK(c) ==
    /\ c = [status |-> c.status, token |-> c.token, attempts |-> c.attempts, credential |-> c.credential]
    /\ c.token \in Nat
CopyIsRecord(r) == r = [rows |-> r.rows, credential |-> r.credential, as_of |-> r.as_of]

\* The friend's table up to a cursor, and all of it.
TableUpTo(cursor) == {<<k, state[k]>> : k \in {k \in Entities : state[k] # 0 /\ k <= cursor}}
Table == {<<k, state[k]>> : k \in {k \in Entities : state[k] # 0}}

\* While its row has the token it took it with, a worker fetches with the row's
\* credential, and what it has fetched of a table that stays is that table.
SyncOK(w) ==
    /\ w = [of |-> w.of, token |-> w.token, credential |-> w.credential, cursor |-> w.cursor,
            rows |-> w.rows, phase |-> w.phase, as_of |-> w.as_of]
    /\ w.token \in Nat /\ w.cursor \in Nat /\ w.as_of \in BOOLEAN
    /\ w.phase # "idle" => w.of \in Peers /\ w.token # 0
    /\ w.phase = "taken" => w.rows = {} /\ w.cursor = 0
    /\ w.phase = "fetching" /\ w.as_of => w.rows = TableUpTo(w.cursor)
    /\ w.phase = "fetched" /\ w.as_of => w.rows = Table
    /\ w.phase \in {"fetching", "fetched"} /\ build[w.of].token = w.token =>
         w.credential = build[w.of].credential

CopyOK(c) ==
    /\ CopyIsRecord(results[c]) /\ results[c].as_of \in BOOLEAN
    /\ build[c].status = "complete" => results[c].credential = build[c].credential
    /\ build[c].status = "complete" /\ results[c].as_of => results[c].rows = Table
    /\ build[c].status \in {"absent", "deleted"} => results[c] = Friend!Unfetched

FriendRows == DOMAIN build = Peers /\ DOMAIN builder = Syncers /\ DOMAIN results = Peers
FriendInv ==
    /\ FriendRows /\ \A c \in Peers : ConnectionOK(build[c]) /\ CopyOK(c)
    /\ \A p \in Syncers : SyncOK(builder[p])

LEMMA FriendBegins == ASSUME Friend!Init PROVE FriendInv
<1>1. /\ build = [c \in Peers |-> Friend!Absent] /\ results = [c \in Peers |-> Friend!Unfetched]
      /\ builder = [p \in Syncers |-> Friend!Free]
  BY DEF Friend!Init
<1>2. ConnectionOK(Friend!Absent) /\ Friend!Absent.status = "absent"
  BY DEF ConnectionOK, Friend!Absent
<1>3. CopyIsRecord(Friend!Unfetched) /\ Friend!Unfetched.as_of = FALSE
  BY DEF CopyIsRecord, Friend!Unfetched
<1>4. SyncOK(Friend!Free)
  BY DEF SyncOK, Friend!Free
<1> QED
  BY <1>1, <1>2, <1>3, <1>4 DEF FriendInv, FriendRows, CopyOK

\* What the invariant says is what the run checks.
LEMMA FriendKeepsCopies == ASSUME FriendInv PROVE Friend!CopiesAreTheirs
<1>1. Friend!Absent.status = "absent"
  BY DEF Friend!Absent
<1>2. Friend!Deleted.status = "deleted"
  BY DEF Friend!Deleted, Friend!Absent
<1> QED
  BY <1>1, <1>2 DEF FriendInv, CopyOK, Friend!CopiesAreTheirs, Table

\* A new token is one that no row and no worker has.
LEMMA TokenIsNew ==
  ASSUME FriendInv
  PROVE  /\ Friend!NewToken \in Nat \ {0}
         /\ \A c \in Peers : build[c].token # Friend!NewToken
         /\ \A p \in Syncers : builder[p].token # Friend!NewToken
<1> DEFINE ofRows == {build[c].token : c \in Peers}
           ofWorkers == {builder[p].token : p \in Syncers}
           top == Cardinality(Peers) + Cardinality(Syncers) + 1
           free == (1..top) \ (ofRows \cup ofWorkers)
<1>1. /\ IsFiniteSet(Peers) /\ Cardinality(Peers) \in Nat
      /\ IsFiniteSet(Syncers) /\ Cardinality(Syncers) \in Nat
  BY FriendBounds, FS_CardinalityType
<1>2. IsFiniteSet(ofRows) /\ Cardinality(ofRows) <= Cardinality(Peers)
  <2>1. [c \in Peers |-> build[c].token] \in Surjection(Peers, ofRows)
    BY DEF Surjection
  <2> QED
    BY <1>1, <2>1, FS_Surjection
<1>3. IsFiniteSet(ofWorkers) /\ Cardinality(ofWorkers) <= Cardinality(Syncers)
  <2>1. [p \in Syncers |-> builder[p].token] \in Surjection(Syncers, ofWorkers)
    BY DEF Surjection
  <2> QED
    BY <1>1, <2>1, FS_Surjection
<1> HIDE DEF ofRows, ofWorkers
<1>4. IsFiniteSet(ofRows \cup ofWorkers) /\ Cardinality(ofRows \cup ofWorkers) < top
  <2>1. IsFiniteSet(ofRows \cap ofWorkers)
    BY <1>2, FS_Subset
  <2>2. /\ Cardinality(ofRows) \in Nat /\ Cardinality(ofWorkers) \in Nat
        /\ Cardinality(ofRows \cap ofWorkers) \in Nat
    BY <1>2, <1>3, <2>1, FS_CardinalityType
  <2>3. /\ IsFiniteSet(ofRows \cup ofWorkers)
        /\ Cardinality(ofRows \cup ofWorkers) =
             Cardinality(ofRows) + Cardinality(ofWorkers) - Cardinality(ofRows \cap ofWorkers)
    BY <1>2, <1>3, FS_Union
  <2> QED
    BY <1>1, <1>2, <1>3, <2>2, <2>3
<1>5. top \in Nat
  BY <1>1
<1> HIDE DEF top
<1>6. IsFiniteSet(1..top) /\ Cardinality(1..top) = top
  BY <1>5, FS_Interval
<1>7. free # {}
  <2> SUFFICES ASSUME free = {} PROVE FALSE
    OBVIOUS
  <2>1. (1..top) \in SUBSET (ofRows \cup ofWorkers)
    OBVIOUS
  <2>2. Cardinality(1..top) <= Cardinality(ofRows \cup ofWorkers)
    BY <1>4, <2>1, FS_Subset
  <2>3. Cardinality(ofRows \cup ofWorkers) \in Nat
    BY <1>4, FS_CardinalityType
  <2> QED
    BY <1>4, <1>5, <1>6, <2>2, <2>3
<1>8. free \in SUBSET Nat
  BY <1>5
<1>9. PICK m \in free : \A n \in free : m <= n
  BY <1>7, <1>8, NaturalsHaveLeast
<1>10. Friend!NewToken = Friend!Min(free)
  BY FriendCardinality DEF Friend!NewToken, free, top, ofRows, ofWorkers
<1>11. Friend!NewToken = CHOOSE x \in free : \A y \in free : x =< y
  BY <1>10 DEF Friend!Min
<1>12. Friend!NewToken \in free
  BY <1>9, <1>11
<1>13. Friend!NewToken \in 1..top /\ Friend!NewToken \notin ofRows /\ Friend!NewToken \notin ofWorkers
  BY <1>12
<1> QED
  BY <1>5, <1>13 DEF ofRows, ofWorkers


-----------------------------------------------------------------------------
\* The steps of the friend that change no table.
LEMMA FriendIsElsewhere ==
  ASSUME FriendInv, UNCHANGED <<state, build, builder, results>>
  PROVE  FriendInv'
BY DEF FriendInv, FriendRows, ConnectionOK, CopyOK, CopyIsRecord, SyncOK, TableUpTo, Table

\* A write that changes the friend's table ends what was as of it.
LEMMA WritesAreSeen ==
  ASSUME FriendInv, NEW u, Friend!Write(u)
  PROVE  FriendInv'
<1>1. /\ results' = [c \in Peers |-> [results[c] EXCEPT !.as_of = @ /\ state' = state]]
      /\ builder' = [p \in Syncers |-> [builder[p] EXCEPT !.as_of = @ /\ state' = state]]
      /\ build' = build
  BY DEF Friend!Write
<1>2. FriendRows'
  BY <1>1 DEF FriendInv, FriendRows
<1>3. ASSUME NEW c \in Peers PROVE (ConnectionOK(build[c]) /\ CopyOK(c))'
  <2>1. ConnectionOK(build[c]) /\ CopyOK(c)
    BY DEF FriendInv
  <2>2. results[c] = [rows |-> results[c].rows, credential |-> results[c].credential,
                      as_of |-> results[c].as_of]
    BY <2>1 DEF CopyOK, CopyIsRecord
  <2>3. results'[c] = [results[c] EXCEPT !.as_of = results[c].as_of /\ state' = state]
    BY <1>1
  <2>4. PICK b \in BOOLEAN : b = (results[c].as_of /\ state' = state)
    OBVIOUS
  <2>5. results'[c] = [rows |-> results[c].rows, credential |-> results[c].credential, as_of |-> b]
    BY <2>2, <2>3, <2>4
  <2>6. b => state' = state /\ results[c].as_of
    BY <2>4
  <2>7. b => Table' = Table
    BY <2>6 DEF Table
  <2>8. results[c] = Friend!Unfetched => results'[c] = Friend!Unfetched
    <3>1. results[c] = Friend!Unfetched => results[c].as_of = FALSE
      BY DEF Friend!Unfetched
    <3>2. results[c].as_of = FALSE => b = FALSE
      BY <2>4
    <3> QED
      BY <2>2, <2>5, <3>1, <3>2
  <2>9. /\ results'[c].rows = results[c].rows /\ results'[c].credential = results[c].credential
        /\ results'[c].as_of = b
    BY <2>5
  <2>10. CopyIsRecord(results'[c])
    BY <2>5 DEF CopyIsRecord
  <2>11. build'[c] = build[c]
    BY <1>1
  <2> QED
    BY <2>1, <2>6, <2>7, <2>8, <2>9, <2>10, <2>11 DEF CopyOK, ConnectionOK
<1>4. ASSUME NEW p \in Syncers PROVE SyncOK(builder[p])'
  <2>1. SyncOK(builder[p])
    BY DEF FriendInv
  <2>2. PICK b \in BOOLEAN : b = (builder[p].as_of /\ state' = state)
    OBVIOUS
  <2>3. builder'[p] = [builder[p] EXCEPT !.as_of = b]
    BY <1>1, <2>2
  <2> DEFINE w == builder[p]
  <2>4. builder'[p] = [of |-> w.of, token |-> w.token, credential |-> w.credential,
                       cursor |-> w.cursor, rows |-> w.rows, phase |-> w.phase, as_of |-> b]
    BY <2>1, <2>3 DEF SyncOK
  <2>5. b => state' = state /\ w.as_of
    BY <2>2
  <2>6. b => Table' = Table
    BY <2>5 DEF Table, TableUpTo
  <2> QED
    BY <1>1, <2>1, <2>4, <2>5 DEF SyncOK, Table, TableUpTo
<1> QED
  BY <1>2, <1>3, <1>4 DEF FriendInv

\* The row of a connection is written: it does not become complete, its copy is
\* gone when it is, and a worker that still has its token has its credential.
LEMMA ConnectionIsWritten ==
  ASSUME FriendInv, NEW c \in Peers, NEW r, ConnectionOK(r), r.status # "complete",
         r.status \in {"absent", "deleted"} => results'[c] = Friend!Unfetched,
         \A p \in Syncers : builder[p].phase # "idle" /\ builder[p].token = r.token =>
           r.token = build[c].token /\ r.credential = build[c].credential,
         build' = [build EXCEPT ![c] = r],
         results' = results \/ results' = [results EXCEPT ![c] = Friend!Unfetched],
         UNCHANGED state,
         DOMAIN builder' = Syncers,
         \A p \in Syncers : builder'[p] = builder[p] \/ SyncOK(builder[p])'
  PROVE  FriendInv'
<1>1. FriendRows'
  BY DEF FriendInv, FriendRows
<1>2. \A d \in Peers : build'[d] = IF d = c THEN r ELSE build[d]
  BY DEF FriendInv, FriendRows
<1>3. Table' = Table /\ \A x : TableUpTo(x)' = TableUpTo(x)
  BY DEF Table, TableUpTo
<1>4. CopyIsRecord(Friend!Unfetched) /\ Friend!Unfetched.as_of = FALSE
  BY DEF CopyIsRecord, Friend!Unfetched
<1>5. ASSUME NEW d \in Peers PROVE (ConnectionOK(build[d]) /\ CopyOK(d))'
  <2>1. ConnectionOK(build[d]) /\ CopyOK(d)
    BY DEF FriendInv
  <2>2. CASE d = c
    <3>1. build'[d] = r
      BY <1>2, <2>2
    <3>2. results'[d] = results[d] \/ results'[d] = Friend!Unfetched
      BY <2>2 DEF FriendInv, FriendRows
    <3>3. CopyIsRecord(results'[d]) /\ results'[d].as_of \in BOOLEAN
      BY <1>4, <2>1, <3>2 DEF CopyOK
    <3> QED
      BY <2>2, <3>1, <3>3 DEF CopyOK, CopyIsRecord, ConnectionOK
  <2>3. CASE d # c
    <3>1. build'[d] = build[d] /\ results'[d] = results[d]
      BY <1>2, <2>3 DEF FriendInv, FriendRows
    <3> QED
      BY <1>3, <2>1, <3>1 DEF CopyOK, CopyIsRecord, ConnectionOK
  <2> QED
    BY <2>2, <2>3
<1>6. ASSUME NEW p \in Syncers PROVE SyncOK(builder[p])'
  <2>1. SyncOK(builder[p])
    BY DEF FriendInv
  <2>2. CASE SyncOK(builder[p])'
    BY <2>2
  <2>3. CASE builder'[p] = builder[p]
    <3>1. builder[p].phase # "idle" => builder[p].of \in Peers
      BY <2>1 DEF SyncOK
    <3>2. builder[p].phase # "idle" /\ build'[builder[p].of].token = builder[p].token =>
            /\ build[builder[p].of].token = builder[p].token
            /\ build[builder[p].of].credential = build'[builder[p].of].credential
      BY <1>2, <3>1
    <3> HIDE DEF FriendInv
    <3>3. /\ builder[p].phase \in {"fetching", "fetched"} => builder[p].phase # "idle"
      OBVIOUS
    <3> QED
      BY <1>3, <2>1, <2>3, <3>2, <3>3 DEF SyncOK
  <2> QED
    BY <2>2, <2>3
<1> QED
  BY <1>1, <1>5, <1>6 DEF FriendInv

\* A worker moves on, and nothing else does.
LEMMA WorkerMoves ==
  ASSUME FriendInv, NEW p \in Syncers, NEW x, SyncOK(x),
         builder' = [builder EXCEPT ![p] = x], UNCHANGED <<state, build, results>>
  PROVE  FriendInv'
<1>1. FriendRows'
  BY DEF FriendInv, FriendRows
<1>2. Table' = Table /\ \A n : TableUpTo(n)' = TableUpTo(n)
  BY DEF Table, TableUpTo
<1>3. \A c \in Peers : (ConnectionOK(build[c]) /\ CopyOK(c))'
  BY <1>2 DEF FriendInv, ConnectionOK, CopyOK, CopyIsRecord
<1>4. ASSUME NEW q \in Syncers PROVE (SyncOK(builder[q]))'
  <2>1. PICK w : w = builder'[q]
    OBVIOUS
  <2>2. w = builder[q] \/ w = x
    BY <2>1 DEF FriendInv, FriendRows
  <2>3. SyncOK(w)
    BY <2>2 DEF FriendInv
  <2> HIDE DEF FriendInv
  <2> QED
    BY <1>2, <2>1, <2>3 DEF SyncOK
<1> QED
  BY <1>1, <1>3, <1>4 DEF FriendInv

LEMMA FreeIsOK == SyncOK(Friend!Free) /\ (SyncOK(Friend!Free))'
BY DEF SyncOK, Friend!Free

LEMMA FriendSaves ==
  ASSUME FriendInv, NEW c \in Peers, Friend!Save(c)
  PROVE  FriendInv'
<1>1. build' = [build EXCEPT ![c] = [@ EXCEPT !.status = "idle", !.token = 0, !.credential = claims']]
  BY DEF Friend!Save
<1>2. PICK r : r = [build[c] EXCEPT !.status = "idle", !.token = 0, !.credential = claims']
  OBVIOUS
<1>3. UNCHANGED <<state, builder, results>>
  BY DEF Friend!Save, Friend!sharing
<1>4. ConnectionOK(build[c])
  BY DEF FriendInv
<1>5. r = [status |-> "idle", token |-> 0, attempts |-> build[c].attempts, credential |-> claims']
  BY <1>2, <1>4 DEF ConnectionOK
<1>6. ConnectionOK(r) /\ r.status = "idle" /\ r.token = 0
  BY <1>5 DEF ConnectionOK
<1>7. \A p \in Syncers : builder[p].phase # "idle" => builder[p].token # r.token
  BY <1>6 DEF FriendInv, SyncOK
<1>8. build' = [build EXCEPT ![c] = r] /\ DOMAIN builder' = Syncers
  BY <1>1, <1>2, <1>3 DEF FriendInv, FriendRows
<1> QED
  BY <1>3, <1>6, <1>7, <1>8, ConnectionIsWritten

LEMMA FriendRequests ==
  ASSUME FriendInv, NEW c \in Peers, Friend!Request(c)
  PROVE  FriendInv'
<1>1. build' = [build EXCEPT ![c] = [build[c] EXCEPT !.status = "pending",
                                       !.token = Friend!NewToken, !.attempts = 0]]
  BY DEF Friend!Request
<1>2. PICK r : r = [build[c] EXCEPT !.status = "pending", !.token = Friend!NewToken, !.attempts = 0]
  OBVIOUS
<1>3. UNCHANGED <<state, builder, results>>
  BY DEF Friend!Request, Friend!sharing
<1>4. ConnectionOK(build[c])
  BY DEF FriendInv
<1>5. r = [status |-> "pending", token |-> Friend!NewToken, attempts |-> 0,
           credential |-> build[c].credential]
  BY <1>2, <1>4 DEF ConnectionOK
<1>6. ConnectionOK(r) /\ r.status = "pending" /\ r.token = Friend!NewToken
  BY <1>5, TokenIsNew DEF ConnectionOK
<1>7. r.token # build[c].token /\ \A p \in Syncers : builder[p].token # r.token
  BY <1>6, TokenIsNew
<1>8. build' = [build EXCEPT ![c] = r] /\ DOMAIN builder' = Syncers
  BY <1>1, <1>2, <1>3 DEF FriendInv, FriendRows
<1> QED
  BY <1>3, <1>6, <1>7, <1>8, ConnectionIsWritten

LEMMA FriendDeletes ==
  ASSUME FriendInv, NEW c \in Peers, Friend!Delete(c)
  PROVE  FriendInv'
<1>1. /\ build' = [build EXCEPT ![c] = Friend!Deleted]
      /\ results' = [results EXCEPT ![c] = Friend!Unfetched]
      /\ UNCHANGED <<state, builder>>
  BY DEF Friend!Delete, Friend!sharing
<1>2. Friend!Deleted = [status |-> "deleted", token |-> 0, attempts |-> 0, credential |-> 0]
  BY DEF Friend!Deleted, Friend!Absent
<1>3. PICK r : r = Friend!Deleted
  OBVIOUS
<1>4. ConnectionOK(r) /\ r.status = "deleted" /\ r.token = 0
  BY <1>2, <1>3 DEF ConnectionOK
<1>5. \A p \in Syncers : builder[p].phase # "idle" => builder[p].token # r.token
  BY <1>4 DEF FriendInv, SyncOK
<1>6. results'[c] = Friend!Unfetched
  BY <1>1 DEF FriendInv, FriendRows
<1>7. build' = [build EXCEPT ![c] = r] /\ DOMAIN builder' = Syncers
  BY <1>1, <1>3 DEF FriendInv, FriendRows
<1> QED
  BY <1>1, <1>4, <1>5, <1>6, <1>7, ConnectionIsWritten

LEMMA RetriesComeDue ==
  ASSUME FriendInv, NEW c \in Peers, Friend!RetryComesDue(c)
  PROVE  FriendInv'
<1>1. build' = [build EXCEPT ![c] = [build[c] EXCEPT !.status = "due"]]
  BY DEF Friend!RetryComesDue
<1>2. PICK r : r = [build[c] EXCEPT !.status = "due"]
  OBVIOUS
<1>3. UNCHANGED <<state, builder, results>>
  BY DEF Friend!RetryComesDue, Friend!sharing
<1>4. ConnectionOK(build[c])
  BY DEF FriendInv
<1>5. r = [status |-> "due", token |-> build[c].token, attempts |-> build[c].attempts,
           credential |-> build[c].credential]
  BY <1>2, <1>4 DEF ConnectionOK
<1>6. /\ ConnectionOK(r) /\ r.status = "due"
      /\ r.token = build[c].token /\ r.credential = build[c].credential
  BY <1>4, <1>5 DEF ConnectionOK
<1>7. build' = [build EXCEPT ![c] = r] /\ DOMAIN builder' = Syncers
  BY <1>1, <1>2, <1>3 DEF FriendInv, FriendRows
<1> QED
  BY <1>3, <1>6, <1>7, ConnectionIsWritten

LEMMA SyncBegins ==
  ASSUME FriendInv, NEW p \in Syncers, Friend!Begin(p)
  PROVE  FriendInv'
<1>1. /\ builder[p].phase = "taken" /\ Friend!Owned(p)
      /\ UNCHANGED <<state, build, results>>
  BY DEF Friend!Begin, Friend!sharing
<1>2. PICK x : x = [builder[p] EXCEPT !.phase = "fetching", !.as_of = TRUE,
                                     !.credential = build[builder[p].of].credential]
  OBVIOUS
<1>3. builder' = [builder EXCEPT ![p] = x]
  BY <1>2 DEF Friend!Begin
<1>4. PICK w : w = builder[p]
  OBVIOUS
<1>5. SyncOK(w) /\ w.phase = "taken"
  BY <1>1, <1>4 DEF FriendInv
<1>6. x = [of |-> w.of, token |-> w.token, credential |-> build[w.of].credential,
           cursor |-> w.cursor, rows |-> w.rows, phase |-> "fetching", as_of |-> TRUE]
  BY <1>2, <1>4, <1>5 DEF SyncOK
<1>7. TableUpTo(0) = {}
  BY FriendBounds DEF TableUpTo
<1>8. SyncOK(x)
  <2>1. /\ w.of \in Peers /\ w.token \in Nat /\ w.token # 0 /\ w.rows = {} /\ w.cursor = 0
    BY <1>5 DEF SyncOK
  <2>2. /\ x.of = w.of /\ x.token = w.token /\ x.credential = build[w.of].credential
        /\ x.cursor = 0 /\ x.rows = {} /\ x.phase = "fetching" /\ x.as_of = TRUE
    BY <1>6, <2>1
  <2>3. x = [of |-> x.of, token |-> x.token, credential |-> x.credential, cursor |-> x.cursor,
             rows |-> x.rows, phase |-> x.phase, as_of |-> x.as_of]
    BY <1>6
  <2>4. x.rows = TableUpTo(x.cursor)
    BY <1>7, <2>2
  <2>5. x.credential = build[x.of].credential /\ x.of \in Peers /\ x.token # 0 /\ x.token \in Nat
    BY <2>1, <2>2
  <2>6. x.phase # "taken" /\ x.phase # "fetched" /\ x.cursor \in Nat
    BY <2>2
  <2>7. x.as_of \in BOOLEAN
    BY <2>2, Zenon
  <2> QED
    BY <2>3, <2>4, <2>5, <2>6, <2>7 DEF SyncOK
<1> QED
  BY <1>1, <1>3, <1>8, WorkerMoves

LEMMA PageIsFetched ==
  ASSUME FriendInv, NEW p \in Syncers, Friend!FetchPage(p)
  PROVE  FriendInv'
<1>1. PICK w : w = builder[p]
  OBVIOUS
<1>2. PICK rest : rest = Friend!After(w.cursor)
  OBVIOUS
<1>3. PICK page : page = Friend!Lowest(rest, PageLimit)
  OBVIOUS
<1>4. PICK x : x = [w EXCEPT
         !.rows = w.rows \cup {<<k, state[k]>> : k \in page},
         !.phase = IF page = rest THEN "fetched" ELSE "fetching",
         !.cursor = IF page = rest THEN 0 ELSE Friend!Max(page)]
  OBVIOUS
<1>5. /\ w.phase = "fetching" /\ UNCHANGED <<state, build, results>>
      /\ builder' = [builder EXCEPT ![p] = x]
  BY <1>1, <1>2, <1>3, <1>4 DEF Friend!FetchPage, Friend!sharing, Friend!NextCursor
<1>6. SyncOK(w)
  BY <1>1 DEF FriendInv
<1>7. rest = {k \in Entities : state[k] # 0 /\ k > w.cursor}
  BY <1>2 DEF Friend!After
<1>8. rest \in SUBSET Nat /\ IsFiniteSet(rest) /\ page \subseteq rest
  <2>1. rest \in SUBSET Entities
    BY <1>7
  <2> QED
    BY <1>3, <2>1, FriendBounds, FS_Subset DEF Friend!Lowest
<1>9. /\ w.cursor \in Nat /\ w.as_of \in BOOLEAN /\ w.token \in Nat /\ w.of \in Peers /\ w.token # 0
      /\ w.as_of => w.rows = TableUpTo(w.cursor)
      /\ build[w.of].token = w.token => w.credential = build[w.of].credential
  BY <1>5, <1>6 DEF SyncOK
<1>10. w.cursor \in Nat /\ \A k \in Entities : k \in Nat
  BY <1>9, FriendBounds
<1>11. CASE page = rest
  <2>1. x = [of |-> w.of, token |-> w.token, credential |-> w.credential, cursor |-> 0,
             rows |-> w.rows \cup {<<k, state[k]>> : k \in rest}, phase |-> "fetched",
             as_of |-> w.as_of]
    BY <1>4, <1>6, <1>11 DEF SyncOK
  <2>2. w.as_of => x.rows = Table
    <3>1. \A k \in Entities : k <= w.cursor \/ k > w.cursor
      BY <1>10
    <3>2. TableUpTo(w.cursor) \cup {<<k, state[k]>> : k \in rest} = Table
      BY <1>7, <3>1 DEF TableUpTo, Table
    <3> QED
      BY <1>9, <2>1, <3>2
  <2>3. SyncOK(x)
    BY <1>9, <2>1, <2>2 DEF SyncOK
  <2> QED
    BY <1>5, <2>3, WorkerMoves
<1>12. CASE page # rest
  <2>1. PICK top : top = Friend!Max(page)
    OBVIOUS
  <2>2. top \in rest /\ \A k \in rest : k \in page <=> k <= top
    BY <1>3, <1>8, <1>12, <2>1, FriendBounds, PageIsPrefix
  <2>3. x = [of |-> w.of, token |-> w.token, credential |-> w.credential, cursor |-> top,
             rows |-> w.rows \cup {<<k, state[k]>> : k \in page}, phase |-> "fetching",
             as_of |-> w.as_of]
    BY <1>4, <1>6, <1>12, <2>1 DEF SyncOK
  <2>4. w.as_of => x.rows = TableUpTo(top)
    <3>1. top \in Nat /\ top > w.cursor
      BY <1>7, <1>8, <2>2
    <3>2. \A k \in Entities : k <= top <=> k <= w.cursor \/ (k > w.cursor /\ k <= top)
      BY <1>10, <3>1
    <3>3. \A k : k \in page <=> k \in Entities /\ state[k] # 0 /\ k > w.cursor /\ k <= top
      BY <1>7, <1>8, <2>2
    <3>4. TableUpTo(w.cursor) \cup {<<k, state[k]>> : k \in page} = TableUpTo(top)
      <4>1. \A k : (k \in Entities /\ state[k] # 0 /\ k <= w.cursor) \/ k \in page
                     <=> k \in Entities /\ state[k] # 0 /\ k <= top
        <5> TAKE k
        <5>1. CASE k \in Entities
          BY <3>2, <3>3, <5>1
        <5>2. CASE k \notin Entities
          BY <3>3, <5>2
        <5> QED
          BY <5>1, <5>2
      <4>2. {k \in Entities : state[k] # 0 /\ k <= w.cursor} \cup page
              = {k \in Entities : state[k] # 0 /\ k <= top}
        BY <4>1
      <4> QED
        BY <4>2 DEF TableUpTo
    <3> QED
      BY <1>9, <2>3, <3>4
  <2>5. SyncOK(x)
    <3>1. top \in Nat
      BY <1>8, <2>2
    <3> QED
      BY <1>9, <2>3, <2>4, <3>1 DEF SyncOK
  <2> QED
    BY <1>5, <2>5, WorkerMoves
<1> QED
  BY <1>11, <1>12

LEMMA RowIsTaken ==
  ASSUME FriendInv, NEW p \in Syncers, NEW c \in Peers, Friend!Take(p, c)
  PROVE  FriendInv'
<1>1. PICK t : t = Friend!NewToken
  OBVIOUS
<1>2. PICK r : r = [build[c] EXCEPT !.status = "running", !.token = t,
                                   !.attempts = build[c].attempts + 1]
  OBVIOUS
<1>3. PICK x : x = [Friend!Free EXCEPT !.of = c, !.token = t, !.phase = "taken"]
  OBVIOUS
<1>4. /\ build' = [build EXCEPT ![c] = r] /\ builder' = [builder EXCEPT ![p] = x]
      /\ UNCHANGED <<state, results>>
  <2>1. build' = [build EXCEPT ![c] = [build[c] EXCEPT !.status = "running",
                    !.token = Friend!NewToken, !.attempts = build[c].attempts + 1]]
    BY DEF Friend!Take
  <2>2. builder' = [builder EXCEPT ![p] = [Friend!Free EXCEPT !.of = c,
                      !.token = Friend!NewToken, !.phase = "taken"]]
    BY DEF Friend!Take
  <2>3. UNCHANGED <<state, results>>
    BY DEF Friend!Take, Friend!sharing
  <2> QED
    BY <1>1, <1>2, <1>3, <2>1, <2>2, <2>3
<1>5. ConnectionOK(build[c])
  BY DEF FriendInv
<1>6. r = [status |-> "running", token |-> t, attempts |-> build[c].attempts + 1,
           credential |-> build[c].credential]
  BY <1>2, <1>5 DEF ConnectionOK
<1>7. /\ t \in Nat \ {0} /\ build[c].token # t
      /\ \A q \in Syncers : builder[q].token # t
  BY <1>1, TokenIsNew
<1>8. ConnectionOK(r) /\ r.status = "running" /\ r.token = t
  BY <1>6, <1>7 DEF ConnectionOK
<1>9. x = [of |-> c, token |-> t, credential |-> 0, cursor |-> 0, rows |-> {},
           phase |-> "taken", as_of |-> FALSE]
  BY <1>3 DEF Friend!Free
<1>10. SyncOK(x)'
  BY <1>7, <1>9 DEF SyncOK
<1>11. DOMAIN builder' = Syncers /\ \A q \in Syncers : builder'[q] = builder[q] \/ builder'[q] = x
  BY <1>4 DEF FriendInv, FriendRows
<1>12. ASSUME NEW q \in Syncers PROVE builder'[q] = builder[q] \/ SyncOK(builder[q])'
  <2>1. CASE builder'[q] = x
    BY <1>7, <1>9, <2>1 DEF SyncOK
  <2> QED
    BY <1>11, <2>1
<1> QED
  BY <1>4, <1>7, <1>8, <1>11, <1>12, ConnectionIsWritten

\* A worker gives up: a row that has its token is put off.
LEMMA SyncFails ==
  ASSUME FriendInv, NEW p \in Syncers, Friend!Fail(p)
  PROVE  FriendInv'
<1>1. PICK w : w = builder[p]
  OBVIOUS
<1>2. /\ w.phase # "idle" /\ UNCHANGED <<state, results>>
      /\ builder' = [builder EXCEPT ![p] = Friend!Free]
      /\ build' = IF build[w.of].token = w.token
                  THEN [build EXCEPT ![w.of].status = "failed"] ELSE build
  BY <1>1 DEF Friend!Fail, Friend!sharing
<1>3. w.of \in Peers
  BY <1>1, <1>2 DEF FriendInv, SyncOK
<1>4. CASE build[w.of].token = w.token
  <2>1. PICK r : r = [build[w.of] EXCEPT !.status = "failed"]
    OBVIOUS
  <2>2. ConnectionOK(build[w.of])
    BY <1>3 DEF FriendInv
  <2>3. r = [status |-> "failed", token |-> build[w.of].token, attempts |-> build[w.of].attempts,
             credential |-> build[w.of].credential]
    BY <2>1, <2>2 DEF ConnectionOK
  <2>4. /\ ConnectionOK(r) /\ r.status = "failed"
        /\ r.token = build[w.of].token /\ r.credential = build[w.of].credential
    BY <2>2, <2>3 DEF ConnectionOK
  <2>5. build' = [build EXCEPT ![w.of] = r]
    BY <1>2, <1>4, <2>1
  <2>6. DOMAIN builder' = Syncers
    BY <1>2 DEF FriendInv, FriendRows
  <2>7. ASSUME NEW q \in Syncers PROVE builder'[q] = builder[q] \/ SyncOK(builder[q])'
    <3>1. builder'[q] = builder[q] \/ builder'[q] = Friend!Free
      BY <1>2 DEF FriendInv, FriendRows
    <3>2. CASE builder'[q] = Friend!Free
      BY <3>2 DEF SyncOK, Friend!Free
    <3> QED
      BY <3>1, <3>2
  <2> QED
    BY <1>2, <1>3, <2>4, <2>5, <2>6, <2>7, ConnectionIsWritten
<1>5. CASE build[w.of].token # w.token
  <2>1. build' = build
    BY <1>2, <1>5
  <2> QED
    BY <1>2, <2>1, FreeIsOK, WorkerMoves
<1> QED
  BY <1>4, <1>5

LEMMA SyncCrashes ==
  ASSUME FriendInv, NEW p \in Syncers, Friend!Crash(p)
  PROVE  FriendInv'
<1>1. builder' = [builder EXCEPT ![p] = Friend!Free] /\ UNCHANGED <<state, build, results>>
  BY DEF Friend!Crash, Friend!sharing
<1> QED
  BY <1>1, FreeIsOK, WorkerMoves

\* The copy is replaced by a worker whose row is its own, so with the row's credential.
LEMMA CopyIsPublished ==
  ASSUME FriendInv, NEW p \in Syncers, Friend!Publish(p)
  PROVE  FriendInv'
<1>1. PICK w : w = builder[p]
  OBVIOUS
<1>2. PICK c : c = w.of
  OBVIOUS
<1>3. PICK r : r = [build[c] EXCEPT !.status = "complete"]
  OBVIOUS
<1>4. PICK z : z = [rows |-> w.rows, credential |-> w.credential, as_of |-> w.as_of]
  OBVIOUS
<1>5. /\ w.phase = "fetched" /\ build[c].token = w.token /\ UNCHANGED state
      /\ builder' = [builder EXCEPT ![p] = Friend!Free]
      /\ build' = [build EXCEPT ![c] = r] /\ results' = [results EXCEPT ![c] = z]
  BY <1>1, <1>2, <1>3, <1>4 DEF Friend!Publish, Friend!Owned, Friend!sharing
<1>6. SyncOK(w)
  BY <1>1 DEF FriendInv
<1>7. /\ c \in Peers /\ w.as_of \in BOOLEAN /\ (w.as_of => w.rows = Table)
      /\ w.credential = build[c].credential
  BY <1>2, <1>5, <1>6 DEF SyncOK
<1>8. ConnectionOK(build[c])
  BY <1>7 DEF FriendInv
<1>9. r = [status |-> "complete", token |-> build[c].token, attempts |-> build[c].attempts,
           credential |-> build[c].credential]
  BY <1>3, <1>8 DEF ConnectionOK
<1>10. Table' = Table /\ \A n : TableUpTo(n)' = TableUpTo(n)
  BY <1>5 DEF Table, TableUpTo
<1>11. FriendRows'
  BY <1>5 DEF FriendInv, FriendRows
<1>12. ASSUME NEW d \in Peers PROVE (ConnectionOK(build[d]) /\ CopyOK(d))'
  <2>1. CASE d = c
    <3>1. build'[d] = r /\ results'[d] = z
      BY <1>5, <2>1 DEF FriendInv, FriendRows
    <3>2. ConnectionOK(r) /\ r.status = "complete" /\ r.credential = build[c].credential
      BY <1>8, <1>9 DEF ConnectionOK
    <3>3. CopyIsRecord(z) /\ z.rows = w.rows /\ z.credential = w.credential /\ z.as_of = w.as_of
      BY <1>4 DEF CopyIsRecord
    <3>4. z.as_of \in BOOLEAN
      BY <1>7, <3>3
    <3>5. z.as_of => z.rows = Table'
      BY <1>7, <1>10, <3>3
    <3>6. z.credential = r.credential
      BY <1>7, <3>2, <3>3
    <3> QED
      BY <3>1, <3>2, <3>3, <3>4, <3>5, <3>6 DEF CopyOK, CopyIsRecord, ConnectionOK
  <2>2. CASE d # c
    <3>1. build'[d] = build[d] /\ results'[d] = results[d]
      BY <1>5, <2>2 DEF FriendInv, FriendRows
    <3>2. ConnectionOK(build[d]) /\ CopyOK(d)
      BY DEF FriendInv
    <3> QED
      BY <1>10, <3>1, <3>2 DEF CopyOK, CopyIsRecord, ConnectionOK
  <2> QED
    BY <2>1, <2>2
<1>13. ASSUME NEW q \in Syncers PROVE (SyncOK(builder[q]))'
  <2>1. builder'[q] = builder[q] \/ builder'[q] = Friend!Free
    BY <1>5 DEF FriendInv, FriendRows
  <2>2. CASE builder'[q] = Friend!Free
    BY <2>2 DEF SyncOK, Friend!Free
  <2>3. CASE builder'[q] = builder[q]
    <3>1. SyncOK(builder[q])
      BY DEF FriendInv
    <3>2. r.token = build[c].token /\ r.credential = build[c].credential
      BY <1>9
    <3>3. \A d \in Peers : build'[d].token = build[d].token /\ build'[d].credential = build[d].credential
      BY <1>5, <3>2 DEF FriendInv, FriendRows
    <3>4. builder[q].phase # "idle" => builder[q].of \in Peers
      BY <3>1 DEF SyncOK
    <3> QED
      BY <1>10, <2>3, <3>1, <3>3, <3>4 DEF SyncOK
  <2> QED
    BY <2>1, <2>2, <2>3
<1> QED
  BY <1>11, <1>12, <1>13 DEF FriendInv

LEMMA FriendIsKept ==
  ASSUME FriendInv, Friend!Next
  PROVE  FriendInv'
<1>1. ASSUME Friend!Sharing PROVE FriendInv'
  <2>1. ASSUME NEW k \in Entities, Friend!LibraryChanges(k) \/ Friend!HookReads(k) PROVE FriendInv'
    <3>1. UNCHANGED <<state, build, builder, results>>
      BY <2>1 DEF Friend!LibraryChanges, Friend!HookReads
    <3> QED
      BY <3>1, FriendIsElsewhere
  <2>2. ASSUME Friend!RebuildReads PROVE FriendInv'
    BY <2>2, FriendIsElsewhere DEF Friend!RebuildReads
  <2>3. ASSUME NEW u \in journal, Friend!Write(u) PROVE FriendInv'
    BY <2>3, WritesAreSeen
  <2>4. ASSUME NEW t \in 1..MaxAsks, Friend!Revoke(t) PROVE FriendInv'
    BY <2>4, FriendIsElsewhere DEF Friend!Revoke
  <2> QED
    BY <1>1, <2>1, <2>2, <2>3, <2>4 DEF Friend!Sharing
<1>2. ASSUME NEW c \in Peers,
             Friend!Save(c) \/ Friend!Request(c) \/ Friend!Delete(c) \/ Friend!RetryComesDue(c)
      PROVE  FriendInv'
  BY <1>2, FriendSaves, FriendRequests, FriendDeletes, RetriesComeDue
<1>3. ASSUME NEW p \in Syncers, Friend!Works(p) \/ Friend!Crash(p)
      PROVE  FriendInv'
  BY <1>3, RowIsTaken, SyncBegins, PageIsFetched, CopyIsPublished, SyncFails, SyncCrashes
  DEF Friend!Works
<1> QED
  BY <1>1, <1>2, <1>3 DEF Friend!Next

\* A connection that reports "complete" shows what its present credential fetched,
\* and one that is gone shows nothing, for any number of friends, albums and workers:
\* a worker whose row was asked for again, saved again or deleted has lost its token
\* for good (sync_connection), and pages that follow one another skip no album.
THEOREM CopiesStayTheirs == SuiteSpec => []CopiesAreTheirs
<1> DEFINE Inv == focus = "friend" => FriendInv
<1>1. SuiteInit => Inv
  <2>1. SuiteInit /\ focus = "friend" => Friend!Init
    BY DEF SuiteInit
  <2> QED
    BY <2>1, FriendBegins
<1>2. Inv /\ [SuiteNext]_all => Inv'
  <2> SUFFICES ASSUME Inv, [SuiteNext]_all, focus' = "friend" PROVE FriendInv'
    OBVIOUS
  <2>1. CASE SuiteNext
    <3>1. focus = "friend"
      BY <2>1 DEF SuiteNext
    <3>2. Friend!Next
      BY <2>1, <3>1 DEF SuiteNext
    <3> QED
      BY <3>1, <3>2, FriendIsKept
  <2>2. CASE UNCHANGED all
    BY <2>2, FriendIsElsewhere DEF all, vars, durable, inputs
  <2> QED
    BY <2>1, <2>2
<1>3. Inv => CopiesAreTheirs
  BY FriendKeepsCopies DEF CopiesAreTheirs
<1> QED
  BY <1>1, <1>2, <1>3, PTL DEF SuiteSpec

-----------------------------------------------------------------------------
(* The credits and their client.  In the suite `build` is the head, `state`   *)
(* the floor, `journal` the versions and `builder` the workers.               *)

\* v is the last version of its album up to number n.
LastUpTo(v, n) ==
    /\ v \in journal /\ v.seq <= n
    /\ \A w \in journal : w.album = v.album /\ w.seq <= n => w.seq <= v.seq

\* The versions that are left say what the results were, from the floor on.
VersionsTell ==
    \A n \in state..build, a \in Entities :
      /\ \A v \in journal : v.album = a /\ LastUpTo(v, n) => past[n][a] = v.value
      /\ (\A v \in journal : v.album = a => v.seq > n) => past[n][a] = None

ResultsOK ==
    /\ build \in Nat /\ state \in Nat /\ state <= build
    /\ DOMAIN past = 0..build /\ past[build] = results
    /\ \A n \in 0..build : past[n] = [a \in Entities |-> past[n][a]]
VersionsOK ==
    /\ IsFiniteSet(journal)
    /\ \A v \in journal : v.seq \in 1..build /\ v.album \in Entities
    /\ \A v, w \in journal : v.seq = w.seq => v = w
WorkerOK(w) ==
    /\ w.pc \in {"request", "tombstone", "claimed", "resolve"} => w.album \in Entities
    /\ w.pc = "claimed" => w = [pc |-> "claimed", album |-> w.album, fp |-> w.fp]
WorkersOK == DOMAIN builder = {p1} /\ WorkerOK(builder[p1])

\* A copy that is complete up to an album.
HoldsUpTo(copy, at, after) ==
    copy = [a \in Entities |-> IF a <= after THEN past[at][a] ELSE None]
ClientOK ==
    /\ reader = [mode |-> reader.mode, at |-> reader.at, after |-> reader.after, copy |-> reader.copy]
    /\ reader.mode \in {"bootstrap", "follow"} /\ reader.at \in 0..build /\ reader.after \in Nat
    /\ reader.mode = "bootstrap" => HoldsUpTo(reader.copy, reader.at, reader.after)
    /\ Credits!FollowerHoldsResults

CreditsInv == ResultsOK /\ VersionsOK /\ VersionsTell /\ WorkersOK /\ ClientOK

LEMMA CreditsBounds ==
  /\ Entities \subseteq Nat \ {0} /\ IsFiniteSet(Entities)
  /\ Retain \in Nat \ {0} /\ PageLimit \in Nat \ {0}
BY BoundsHold, BuildBounds DEF Credits!CreditsAssumption

LEMMA CreditsCardinality == ASSUME NEW S PROVE Credits!Cardinality(S) = Cardinality(S)
BY DEF Credits!Cardinality, Cardinality

LEMMA CreditsBegin == ASSUME Credits!Init PROVE CreditsInv
<1>1. /\ build = 0 /\ state = 0 /\ journal = {} /\ past = [n \in {0} |-> [a \in Entities |-> None]]
      /\ results = [a \in Entities |-> None]
      /\ builder = [p \in {p1} |-> [pc |-> "idle"]]
      /\ reader = [mode |-> "bootstrap", at |-> 0, after |-> 0, copy |-> [a \in Entities |-> None]]
  BY DEF Credits!Init, Credits!Empty, Credits!Idle, Credits!Bootstrap
<1>2. 0..build = {0} /\ state..build = {0}
  BY <1>1
<1>3. ResultsOK
  BY <1>1, <1>2 DEF ResultsOK
<1>4. VersionsOK /\ VersionsTell
  BY <1>1, <1>2, FS_EmptySet DEF VersionsOK, VersionsTell
<1>5. WorkersOK
  BY <1>1 DEF WorkersOK, WorkerOK
<1>6. \A a \in Entities : ~(a <= 0)
  BY CreditsBounds
<1>7. ClientOK
  BY <1>1, <1>2, <1>6 DEF ClientOK, HoldsUpTo, Credits!FollowerHoldsResults
<1> QED
  BY <1>3, <1>4, <1>5, <1>7 DEF CreditsInv

LEMMA CreditsMax ==
  ASSUME NEW S \in SUBSET Nat, S # {}, NEW b \in Nat, \A x \in S : x <= b
  PROVE  Credits!Max(S) \in S /\ \A n \in S : n <= Credits!Max(S)
<1>1. PICK m \in S : \A n \in S : n <= m
  BY NaturalsHaveGreatest
<1>2. \E x \in S : \A y \in S : x >= y
  BY <1>1
<1> QED
  BY <1>2 DEF Credits!Max

\* An album with a version up to n has a last one.
LEMMA LastExists ==
  ASSUME VersionsOK, build \in Nat, NEW n \in Nat, NEW v \in journal, v.seq <= n
  PROVE  \E w \in journal : w.album = v.album /\ LastUpTo(w, n)
<1> DEFINE S == {s \in Nat : \E w \in journal : w.album = v.album /\ w.seq = s /\ s <= n}
<1>1. v.seq \in S
  BY DEF VersionsOK
<1>2. PICK m \in S : \A s \in S : s <= m
  BY <1>1, NaturalsHaveGreatest
<1>3. PICK w \in journal : w.album = v.album /\ w.seq = m /\ m <= n
  BY <1>2
<1>4. \A u \in journal : u.album = v.album /\ u.seq <= n => u.seq \in S
  BY DEF VersionsOK
<1> QED
  BY <1>2, <1>3, <1>4 DEF LastUpTo

\* Nothing of the stream changes.
LEMMA StreamStays ==
  ASSUME CreditsInv, UNCHANGED <<build, state, journal, results, past>>
  PROVE  ResultsOK' /\ VersionsOK' /\ VersionsTell'
BY DEF CreditsInv, ResultsOK, VersionsOK, VersionsTell, LastUpTo

LEMMA ClientStays ==
  ASSUME CreditsInv, UNCHANGED reader, build' \in Nat, build <= build',
         \A n \in 0..build : past'[n] = past[n]
  PROVE  ClientOK'
BY DEF CreditsInv, ResultsOK, ClientOK, HoldsUpTo, Credits!FollowerHoldsResults

\* A result is published, or its tombstone.
LEMMA CreditsPublish ==
  ASSUME CreditsInv, NEW a \in Entities, NEW value, Credits!Publish(a, value), UNCHANGED reader
  PROVE  ResultsOK' /\ VersionsOK' /\ VersionsTell' /\ ClientOK'
<1>1. PICK new : new = [seq |-> build + 1, album |-> a, value |-> value]
  OBVIOUS
<1>2. /\ build' = build + 1 /\ state' = state /\ journal' = journal \cup {new}
      /\ results' = [results EXCEPT ![a] = value]
      /\ past' = [n \in 0..build + 1 |-> IF n = build + 1 THEN results' ELSE past[n]]
  BY <1>1 DEF Credits!Publish
<1>3. build \in Nat /\ state \in 0..build /\ results = past[build]
  BY DEF CreditsInv, ResultsOK
<1>4. results' = [b \in Entities |-> IF b = a THEN value ELSE results[b]]
  <2>1. results = [b \in Entities |-> results[b]]
    BY <1>3 DEF CreditsInv, ResultsOK
  <2> QED
    BY <1>2, <2>1
<1>5. \A n \in 0..build : past'[n] = past[n]
  BY <1>2, <1>3
<1>6. past'[build + 1] = results'
  BY <1>2, <1>3
<1>7. ResultsOK'
  <2>1. \A n \in 0..build' : n \in 0..build \/ n = build + 1
    BY <1>2, <1>3
  <2>2. \A n \in 0..build : past[n] = [b \in Entities |-> past[n][b]]
    BY DEF CreditsInv, ResultsOK
  <2>3. \A n \in 0..build : past'[n] = [b \in Entities |-> past'[n][b]]
    BY <1>5, <2>2
  <2>4. past'[build + 1] = [b \in Entities |-> past'[build + 1][b]]
    BY <1>4, <1>6
  <2>5. DOMAIN past' = 0..build' /\ past'[build'] = results'
    BY <1>2, <1>6
  <2>6. \A n \in 0..build' : past'[n] = [b \in Entities |-> past'[n][b]]
    BY <2>1, <2>3, <2>4
  <2>7. build' \in Nat /\ state' \in Nat /\ state' <= build'
    BY <1>2, <1>3
  <2> QED
    BY <2>5, <2>6, <2>7 DEF ResultsOK
<1>8. VersionsOK'
  BY <1>1, <1>2, <1>3, FS_AddElement DEF CreditsInv, VersionsOK
<1>9. ASSUME NEW n \in state..build
      PROVE  /\ \A v \in journal' : LastUpTo(v, n)' => v \in journal /\ LastUpTo(v, n)
             /\ \A v \in journal : v \in journal'
  BY <1>1, <1>2, <1>3, <1>9 DEF LastUpTo
<1>10. ASSUME NEW n \in state..build, NEW b \in Entities
       PROVE  /\ \A v \in journal' : v.album = b /\ LastUpTo(v, n)' => past'[n][b] = v.value
              /\ (\A v \in journal' : v.album = b => v.seq > n) => past'[n][b] = None
  <2>1. past'[n] = past[n]
    BY <1>3, <1>5
  <2> QED
    BY <1>9, <2>1 DEF CreditsInv, VersionsTell
<1>0. PICK h \in Nat : h = build + 1
  BY <1>3
<1>11. ASSUME NEW b \in Entities
       PROVE  /\ \A v \in journal' : v.album = b /\ LastUpTo(v, h)' => past'[h][b] = v.value
              /\ (\A v \in journal' : v.album = b => v.seq > h) => past'[h][b] = None
  <2>1. new.seq = h /\ new.album = a /\ new.value = value /\ new \in journal'
    BY <1>0, <1>1, <1>2
  <2>2. \A v \in journal : v.seq \in 1..build
    BY DEF CreditsInv, VersionsOK
  <2>3. CASE b = a
    <3>1. ASSUME NEW v \in journal', v.album = b, LastUpTo(v, h)' PROVE v = new
      <4>1. new.seq <= v.seq
        <5>1. \A w \in journal' : w.album = v.album /\ w.seq <= h => w.seq <= v.seq
          BY <3>1 DEF LastUpTo
        <5> QED
          BY <1>0, <1>3, <2>1, <2>3, <3>1, <5>1
      <4> QED
        BY <1>0, <1>2, <1>3, <2>1, <2>2, <4>1
    <3>2. past'[h][b] = value
      BY <1>0, <1>4, <1>6, <2>3
    <3> QED
      BY <1>0, <1>3, <2>1, <2>3, <3>1, <3>2
  <2>4. CASE b # a
    <3>1. past'[h][b] = past[build][b]
      BY <1>0, <1>3, <1>4, <1>6, <2>4
    <3>2. build \in state..build
      BY <1>0, <1>3
    <3>3. ASSUME NEW v \in journal', v.album = b, LastUpTo(v, h)' PROVE v \in journal /\ LastUpTo(v, build)
      <4>1. v \in journal
        BY <1>0, <1>2, <2>1, <2>4, <3>3
      <4> QED
        BY <1>0, <1>2, <1>3, <2>2, <3>3, <4>1 DEF LastUpTo
    <3>4. ASSUME \A v \in journal' : v.album = b => v.seq > h
          PROVE  \A v \in journal : v.album = b => v.seq > build
      BY <1>0, <1>2, <1>3, <2>2, <3>4
    <3> QED
      BY <3>1, <3>2, <3>3, <3>4 DEF CreditsInv, VersionsTell
  <2> QED
    BY <2>3, <2>4
<1>12. VersionsTell'
  <2>1. \A n \in state'..build' : n \in state..build \/ n = h
    BY <1>0, <1>2, <1>3
  <2> SUFFICES ASSUME NEW n \in state'..build', NEW b \in Entities
               PROVE  /\ \A v \in journal' : v.album = b /\ LastUpTo(v, n)' => past'[n][b] = v.value
                      /\ (\A v \in journal' : v.album = b => v.seq > n) => past'[n][b] = None
    BY DEF VersionsTell
  <2> QED
    BY <1>0, <1>10, <1>11, <2>1
<1>13. ClientOK'
  BY <1>2, <1>3, <1>5, ClientStays
<1> QED
  BY <1>7, <1>8, <1>12, <1>13

\* What a compaction leaves tells as much from its floor on.
LEMMA CreditsCompact ==
  ASSUME CreditsInv, Credits!Compact(p1)
  PROVE  ResultsOK' /\ VersionsOK' /\ VersionsTell' /\ ClientOK'
<1>1. PICK f : f = Credits!Max({state, build - Credits!Min({build, Retain})})
  OBVIOUS
<1>2. state' = f /\ journal' = Credits!Kept(f) /\ UNCHANGED <<build, results, past, reader>>
  BY <1>1 DEF Credits!Compact
<1>3. build \in Nat /\ state \in 0..build
  BY DEF CreditsInv, ResultsOK
<1>4. f \in state..build
  <2>1. PICK m : m = Credits!Min({build, Retain})
    OBVIOUS
  <2>2. m \in 0..build
    <3>1. \E x \in {build, Retain} : \A y \in {build, Retain} : x <= y
      BY <1>3, CreditsBounds
    <3>2. m \in {build, Retain} /\ m <= build
      BY <2>1, <3>1 DEF Credits!Min
    <3> QED
      BY <1>3, <3>2, CreditsBounds
  <2>3. {state, build - m} \in SUBSET Nat /\ \A x \in {state, build - m} : x <= build
    BY <1>3, <2>2
  <2>4. f \in {state, build - m} /\ state <= f
    BY <1>1, <1>3, <2>1, <2>3, CreditsMax
  <2> QED
    BY <1>3, <2>3, <2>4
<1> DEFINE below(a) == {v.seq : v \in {u \in journal : u.album = a /\ u.seq <= f}}
           baseline(a) == Credits!Max({0} \union below(a))
<1>5. \A v \in journal : v.seq \in 1..build
  BY DEF CreditsInv, VersionsOK
<1>6. journal' = {v \in journal : v.seq >= f \/ (v.value # None /\ v.seq = baseline(v.album))}
  BY <1>2 DEF Credits!Kept
<1>7. ASSUME NEW a
      PROVE  /\ baseline(a) \in Nat /\ baseline(a) \in {0} \union below(a)
             /\ \A u \in journal : u.album = a /\ u.seq <= f => u.seq <= baseline(a)
  <2> DEFINE S == {0} \union below(a)
  <2>1. S \in SUBSET Nat /\ S # {} /\ \A x \in S : x <= f
    BY <1>3, <1>4, <1>5
  <2>2. f \in Nat
    BY <1>3, <1>4
  <2>3. Credits!Max(S) \in S /\ \A n \in S : n <= Credits!Max(S)
    <3> HIDE DEF S
    <3> QED
      BY <2>1, <2>2, CreditsMax
  <2> QED
    BY <2>1, <2>3
<1> HIDE DEF baseline, below
<1>8. ResultsOK'
  BY <1>2, <1>3, <1>4 DEF CreditsInv, ResultsOK
<1>9. VersionsOK'
  BY <1>2, <1>6, FS_Subset DEF CreditsInv, VersionsOK
<1>10. ASSUME NEW n \in f..build, NEW v \in journal', LastUpTo(v, n)' PROVE LastUpTo(v, n)
  <2>1. /\ v \in journal /\ v.seq <= n
        /\ \A w \in journal' : w.album = v.album /\ w.seq <= n => w.seq <= v.seq
    BY <1>6, <1>10 DEF LastUpTo
  <2>2. ASSUME NEW w \in journal, w.album = v.album, w.seq <= n PROVE w.seq <= v.seq
    <3>1. CASE w \in journal'
      BY <2>1, <2>2, <3>1
    <3>2. CASE w \notin journal'
      <4>1. w.seq < f
        BY <1>3, <1>4, <1>5, <1>6, <3>2
      <4>2. CASE v.seq >= f
        BY <1>3, <1>4, <1>5, <2>1, <4>1, <4>2
      <4>3. CASE ~(v.seq >= f)
        <5>1. v.seq = baseline(v.album)
          BY <1>6, <4>3
        <5>2. w.seq <= f
          BY <1>3, <1>4, <1>5, <4>1
        <5> QED
          BY <1>7, <2>2, <5>1, <5>2
      <4> QED
        BY <4>2, <4>3
    <3> QED
      BY <3>1, <3>2
  <2> QED
    BY <2>1, <2>2 DEF LastUpTo
<1>11. ASSUME NEW n \in f..build, NEW a \in Entities, \A v \in journal' : v.album = a => v.seq > n
       PROVE  past[n][a] = None
  <2>1. n \in state..build /\ n \in Nat
    BY <1>3, <1>4
  <2>2. CASE \A v \in journal : v.album = a => v.seq > n
    BY <2>1, <2>2 DEF CreditsInv, VersionsTell
  <2>3. CASE \E v \in journal : v.album = a /\ ~(v.seq > n)
    <3>1. PICK u \in journal : u.album = a /\ u.seq <= n
      BY <1>3, <1>5, <2>1, <2>3
    <3>2. PICK v \in journal : v.album = a /\ LastUpTo(v, n)
      BY <1>3, <2>1, <3>1, LastExists DEF CreditsInv
    <3>3. v.seq <= n /\ v.seq \in Nat
      BY <1>5, <3>2 DEF LastUpTo
    <3>4. v \notin journal'
      BY <1>3, <1>4, <1>11, <2>1, <3>2, <3>3
    <3>5. v.seq < f
      BY <1>3, <1>4, <1>6, <3>3, <3>4
    <3>6. v.seq = baseline(a)
      <4>1. v.seq <= baseline(a)
        BY <1>3, <1>4, <1>7, <3>2, <3>3, <3>5
      <4>2. CASE baseline(a) = 0
        BY <1>5, <4>1, <4>2
      <4>3. CASE baseline(a) # 0
        <5>1. PICK w \in journal : w.album = a /\ w.seq <= f /\ w.seq = baseline(a)
          BY <1>7, <4>3 DEF below
        <5>2. w.seq <= n
          BY <1>3, <1>4, <1>5, <5>1
        <5>3. w.seq <= v.seq
          BY <3>2, <5>1, <5>2 DEF LastUpTo
        <5> QED
          BY <1>7, <3>3, <4>1, <5>1, <5>3
      <4> QED
        BY <4>2, <4>3
    <3>7. v.value = None
      BY <1>6, <3>2, <3>4, <3>6
    <3> QED
      BY <2>1, <3>2, <3>7 DEF CreditsInv, VersionsTell
  <2> QED
    BY <2>2, <2>3
<1>12. VersionsTell'
  <2> SUFFICES ASSUME NEW n \in state'..build', NEW b \in Entities
               PROVE  /\ \A v \in journal' : v.album = b /\ LastUpTo(v, n)' => past'[n][b] = v.value
                      /\ (\A v \in journal' : v.album = b => v.seq > n) => past'[n][b] = None
    BY DEF VersionsTell
  <2>1. n \in f..build /\ n \in state..build
    BY <1>2, <1>3, <1>4
  <2>2. \A v \in journal' : v.album = b /\ LastUpTo(v, n)' => v \in journal /\ LastUpTo(v, n)
    BY <1>6, <1>10, <2>1
  <2> QED
    BY <1>2, <1>11, <2>1, <2>2 DEF CreditsInv, VersionsTell
<1>13. ClientOK'
  BY <1>2, <1>3, ClientStays
<1> QED
  BY <1>8, <1>9, <1>12, <1>13

\* A step of the worker, with what it does to the stream.
LEMMA CreditsWorkerGoes ==
  ASSUME CreditsInv, NEW w, builder' = [builder EXCEPT ![p1] = w], WorkerOK(w), UNCHANGED reader,
         \/ UNCHANGED <<build, state, journal, results, past>>
         \/ \E a \in Entities : \E value : Credits!Publish(a, value)
         \/ ResultsOK' /\ VersionsOK' /\ VersionsTell' /\ ClientOK'
  PROVE  CreditsInv'
<1>1. WorkersOK'
  BY DEF CreditsInv, WorkersOK, WorkerOK
<1>2. ASSUME UNCHANGED <<build, state, journal, results, past>> PROVE CreditsInv'
  <2>1. ClientOK'
    BY <1>2, ClientStays DEF CreditsInv, ResultsOK
  <2> QED
    BY <1>1, <1>2, <2>1, StreamStays DEF CreditsInv
<1>3. ASSUME NEW a \in Entities, NEW value, Credits!Publish(a, value)
      PROVE  CreditsInv'
  BY <1>1, <1>3, CreditsPublish DEF CreditsInv
<1> QED
  BY <1>1, <1>2, <1>3 DEF CreditsInv

LEMMA CreditsWork ==
  ASSUME CreditsInv, Credits!WorkStep(p1)
  PROVE  CreditsInv'
<1> DEFINE a == builder[p1].album
<1>1. WorkerOK(builder[p1])
  BY DEF CreditsInv, WorkersOK
<1>2. WorkerOK(Credits!Idle)
  BY DEF WorkerOK, Credits!Idle
<1>3. ASSUME Credits!RequestGone(p1) PROVE CreditsInv'
  <2>1. a \in Entities
    BY <1>1, <1>3 DEF Credits!RequestGone, WorkerOK
  <2>2. /\ builder' = [builder EXCEPT ![p1] = Credits!Idle] /\ UNCHANGED reader
        /\ Credits!Publish(a, None) \/ UNCHANGED <<build, state, journal, results, past>>
    BY <1>3 DEF Credits!RequestGone, Credits!stream
  <2> QED
    BY <1>2, <2>1, <2>2, CreditsWorkerGoes
<1>4. ASSUME Credits!RequestAlbum(p1) PROVE CreditsInv'
  <2>1. a \in Entities
    BY <1>1, <1>4 DEF Credits!RequestAlbum, WorkerOK
  <2>2. /\ builder' = [builder EXCEPT ![p1] = Credits!Idle] /\ UNCHANGED reader
        /\ Credits!Publish(a, None) \/ UNCHANGED <<build, state, journal, results, past>>
    BY <1>4 DEF Credits!RequestAlbum, Credits!stream
  <2> QED
    BY <1>2, <2>1, <2>2, CreditsWorkerGoes
<1>5. ASSUME Credits!LoadAlbum(p1) PROVE CreditsInv'
  <2>1. PICK old : old = builder[p1]
    OBVIOUS
  <2>2. old.album \in Entities /\ old = [pc |-> "claimed", album |-> old.album, fp |-> old.fp]
    BY <1>1, <1>5, <2>1 DEF Credits!LoadAlbum, WorkerOK
  <2>3. PICK w : w = IF live[a] = old.fp THEN [old EXCEPT !.pc = "resolve"]
                     ELSE [pc |-> "request", album |-> a, seen |-> live[a]]
    OBVIOUS
  <2>4. w.album \in Entities /\ w.pc # "claimed"
    BY <2>1, <2>2, <2>3
  <2>5. /\ builder' = [builder EXCEPT ![p1] = w]
        /\ UNCHANGED <<build, state, journal, results, past, reader>>
    BY <1>5, <2>1, <2>3 DEF Credits!LoadAlbum, Credits!stream
  <2> QED
    BY <2>4, <2>5, CreditsWorkerGoes DEF WorkerOK
<1>6. ASSUME Credits!Finish(p1) PROVE CreditsInv'
  <2>1. PICK w : w = [pc |-> "compact"]
    OBVIOUS
  <2>2. WorkerOK(w)
    BY <2>1 DEF WorkerOK
  <2>3. /\ builder' = [builder EXCEPT ![p1] = w] /\ UNCHANGED reader
        /\ \/ Credits!Publish(a, builder[p1].fp)
           \/ UNCHANGED <<build, state, journal, results, past>>
    BY <1>6, <2>1 DEF Credits!Finish, Credits!stream
  <2>4. a \in Entities
    BY <1>1, <1>6 DEF Credits!Finish, WorkerOK
  <2> QED
    BY <2>2, <2>3, <2>4, CreditsWorkerGoes
<1>7. ASSUME Credits!Compact(p1) PROVE CreditsInv'
  <2>1. builder' = [builder EXCEPT ![p1] = Credits!Idle] /\ UNCHANGED reader
    BY <1>7 DEF Credits!Compact
  <2> QED
    BY <1>2, <1>7, <2>1, CreditsCompact, CreditsWorkerGoes
<1> QED
  BY <1>3, <1>4, <1>5, <1>6, <1>7 DEF Credits!WorkStep

\* The catalogue changes; a worker visits an album or claims a job.
LEMMA CreditsVisits ==
  ASSUME CreditsInv, NEW a \in Entities,
         \/ \E input \in Inputs \cup {None} : Credits!AlbumChanges(a, input)
         \/ Credits!Visit(p1, a) \/ Credits!SeesGone(p1, a) \/ Credits!Claim(p1, a)
  PROVE  CreditsInv'
<1>1. UNCHANGED <<build, state, journal, results, past, reader>>
  BY DEF Credits!AlbumChanges, Credits!Visit, Credits!SeesGone, Credits!Claim, Credits!stream
<1>2. ASSUME NEW input, Credits!AlbumChanges(a, input) PROVE CreditsInv'
  <2>1. WorkersOK'
    BY <1>2 DEF Credits!AlbumChanges, CreditsInv, WorkersOK, WorkerOK
  <2>2. ClientOK'
    BY <1>1, ClientStays DEF CreditsInv, ResultsOK
  <2> QED
    BY <1>1, <2>1, <2>2, StreamStays DEF CreditsInv
<1>3. ASSUME Credits!Visit(p1, a) PROVE CreditsInv'
  <2>1. PICK w : w = [pc |-> "request", album |-> a, seen |-> live[a]]
    OBVIOUS
  <2>2. WorkerOK(w) /\ builder' = [builder EXCEPT ![p1] = w]
    BY <1>3, <2>1 DEF Credits!Visit, WorkerOK
  <2> QED
    BY <1>1, <2>2, CreditsWorkerGoes
<1>4. ASSUME Credits!SeesGone(p1, a) PROVE CreditsInv'
  <2>1. PICK w : w = [pc |-> "tombstone", album |-> a]
    OBVIOUS
  <2>2. WorkerOK(w) /\ builder' = [builder EXCEPT ![p1] = w]
    BY <1>4, <2>1 DEF Credits!SeesGone, WorkerOK
  <2> QED
    BY <1>1, <2>2, CreditsWorkerGoes
<1>5. ASSUME Credits!Claim(p1, a) PROVE CreditsInv'
  <2>1. PICK w : w = [pc |-> "claimed", album |-> a, fp |-> lock[a].fp]
    OBVIOUS
  <2>2. WorkerOK(w) /\ builder' = [builder EXCEPT ![p1] = w]
    BY <1>5, <2>1 DEF Credits!Claim, WorkerOK
  <2> QED
    BY <1>1, <2>2, CreditsWorkerGoes
<1> QED
  BY <1>2, <1>3, <1>4, <1>5

\* The first rows of a page, by their places: none before a row of the page is left out.
LEMMA FirstRows ==
  ASSUME NEW rows, IsFiniteSet(rows), NEW place \in [rows -> Nat]
  PROVE  LET page == Credits!First(rows, place)
         IN  /\ page \subseteq rows
             /\ \A r \in page, q \in rows : place[q] < place[r] => q \in page
             /\ rows # {} => page # {}
<1> DEFINE page == Credits!First(rows, place)
           before(r) == {q \in rows : place[q] < place[r]}
<1>1. page = {r \in rows : Cardinality(before(r)) < PageLimit}
  BY CreditsCardinality DEF Credits!First
<1>2. \A r \in rows : IsFiniteSet(before(r)) /\ Cardinality(before(r)) \in Nat
  BY FS_Subset, FS_CardinalityType
<1>3. ASSUME NEW r \in page, NEW q \in rows, place[q] < place[r] PROVE q \in page
  <2>1. before(q) \in SUBSET before(r)
    BY <1>1, <1>3
  <2>2. Cardinality(before(q)) <= Cardinality(before(r))
    BY <1>1, <1>2, <2>1, FS_Subset
  <2>3. Cardinality(before(r)) < PageLimit
    BY <1>1
  <2> QED
    <3>1. Cardinality(before(q)) < PageLimit
      <4>1. Cardinality(before(q)) \in Nat /\ Cardinality(before(r)) \in Nat
        BY <1>1, <1>2
      <4> HIDE DEF before
      <4> QED
        BY <2>2, <2>3, <4>1, CreditsBounds
    <3> QED
      BY <1>1, <3>1
<1>4. ASSUME rows # {} PROVE page # {}
  <2> DEFINE S == {place[r] : r \in rows}
  <2>1. PICK m \in S : \A n \in S : m <= n
    <3>1. S \in SUBSET Nat /\ S # {}
      BY <1>4
    <3> HIDE DEF S
    <3> QED
      BY <3>1, NaturalsHaveLeast
  <2>2. PICK r \in rows : place[r] = m
    BY <2>1
  <2>3. before(r) = {}
    BY <2>1, <2>2
  <2> QED
    BY <1>1, <2>3, FS_EmptySet, CreditsBounds
<1> HIDE DEF page
<1>5. page \subseteq rows
  BY <1>1
<1> QED
  BY <1>3, <1>4, <1>5 DEF page

\* What a client holds after a page: of each album the page's last version of it.
LEMMA HoldsPage ==
  ASSUME VersionsOK, build \in Nat, NEW page \in SUBSET journal, NEW copy
  PROVE  LET new == Credits!Holding(copy, page)
         IN  /\ DOMAIN new = Entities /\ new = [a \in Entities |-> new[a]]
             /\ \A a \in Entities : (\A r \in page : r.album # a) => new[a] = copy[a]
             /\ \A r \in page : (\A q \in page : q.album = r.album => q.seq <= r.seq)
                                => new[r.album] = r.value
<1> DEFINE new == Credits!Holding(copy, page)
           latest(a, r) == r.album = a /\ \A q \in page : q.album = a => q.seq <= r.seq
<1>1. new = [a \in Entities |-> IF \E r \in page : r.album = a
                                THEN (CHOOSE r \in page : latest(a, r)).value ELSE copy[a]]
  BY DEF Credits!Holding
<1>2. ASSUME NEW r \in page, latest(r.album, r) PROVE new[r.album] = r.value
  <2>1. r.album \in Entities
    BY DEF VersionsOK
  <2>2. PICK c : c = CHOOSE q \in page : latest(r.album, q)
    OBVIOUS
  <2>3. c \in page /\ latest(r.album, c)
    BY <1>2, <2>2
  <2>4. c.seq = r.seq
    BY <1>2, <2>3 DEF VersionsOK
  <2>5. c = r
    BY <2>3, <2>4 DEF VersionsOK
  <2>6. new[r.album] = c.value
    BY <1>1, <2>1, <2>2
  <2> QED
    BY <2>5, <2>6
<1>3. \A a \in Entities : (\A r \in page : r.album # a) => new[a] = copy[a]
  BY <1>1
<1>4. DOMAIN new = Entities /\ new = [a \in Entities |-> new[a]]
  BY <1>1
<1> HIDE DEF new
<1> QED
  BY <1>2, <1>3, <1>4 DEF new

\* A client's bootstrap goes on from the results at its number, though it started
\* over or its number is no longer kept.
LEMMA RestartHolds ==
  ASSUME CreditsInv, Credits!Restart
  PROVE  ClientOK'
<1>1. reader' = [mode |-> "bootstrap", at |-> build, after |-> 0, copy |-> [a \in Entities |-> None]]
  BY DEF Credits!Restart, Credits!Bootstrap, Credits!Empty
<1>2. UNCHANGED <<build, past>> /\ build \in Nat
  BY DEF Credits!Restart, Credits!stream, CreditsInv, ResultsOK
<1>3. \A a \in Entities : ~(a <= 0)
  BY CreditsBounds
<1>4. HoldsUpTo([a \in Entities |-> None], build, 0)
  BY <1>3 DEF HoldsUpTo
<1> QED
  BY <1>1, <1>2, <1>4 DEF ClientOK, HoldsUpTo, Credits!FollowerHoldsResults

LEMMA StandingRows ==
  ASSUME ResultsOK, VersionsOK, VersionsTell, NEW at \in state..build
  PROVE  /\ Credits!Standing(at) \subseteq journal
         /\ \A v \in Credits!Standing(at) : LastUpTo(v, at) /\ past[at][v.album] = v.value
         /\ \A v, w \in Credits!Standing(at) : v.album = w.album => v = w
         /\ \A a \in Entities : past[at][a] # None => \E v \in Credits!Standing(at) : v.album = a
<1> DEFINE upto(a) == {v.seq : v \in {u \in journal : u.album = a /\ u.seq <= at}}
<1>1. at \in Nat /\ build \in Nat /\ \A v \in journal : v.seq \in 1..build /\ v.album \in Entities
  BY DEF ResultsOK, VersionsOK
<1>2. ASSUME NEW a
      PROVE  /\ Credits!Latest(a, at) \in {0} \union upto(a) /\ Credits!Latest(a, at) \in Nat
             /\ \A n \in upto(a) : n <= Credits!Latest(a, at)
  <2> DEFINE S == {0} \union upto(a)
  <2>1. S \in SUBSET Nat /\ S # {} /\ \A x \in S : x <= at
    BY <1>1
  <2>2. Credits!Max(S) \in S /\ \A n \in S : n <= Credits!Max(S)
    <3> HIDE DEF S
    <3> QED
      BY <1>1, <2>1, CreditsMax
  <2> QED
    BY <2>1, <2>2 DEF Credits!Latest
<1>3. ASSUME NEW v \in journal PROVE v.seq = Credits!Latest(v.album, at) <=> LastUpTo(v, at)
  <2>1. ASSUME v.seq = Credits!Latest(v.album, at) PROVE LastUpTo(v, at)
    <3>1. v.seq \in upto(v.album)
      BY <1>1, <1>2, <2>1
    <3>2. v.seq <= at
      BY <3>1
    <3> QED
      BY <1>2, <2>1, <3>2 DEF LastUpTo
  <2>2. ASSUME LastUpTo(v, at) PROVE v.seq = Credits!Latest(v.album, at)
    <3>1. v.seq \in upto(v.album) /\ \A n \in upto(v.album) : n <= v.seq
      BY <2>2 DEF LastUpTo
    <3>2. v.seq <= Credits!Latest(v.album, at)
      BY <1>2, <3>1
    <3> QED
      BY <1>1, <1>2, <3>1, <3>2
  <2> QED
    BY <2>1, <2>2
<1>4. \A v : v \in Credits!Standing(at) <=> v \in journal /\ LastUpTo(v, at) /\ v.value # None
  BY <1>3 DEF Credits!Standing
<1>5. \A v \in journal : LastUpTo(v, at) => past[at][v.album] = v.value
  BY <1>1 DEF VersionsTell
<1>6. ASSUME NEW v \in journal, NEW w \in journal, LastUpTo(v, at), LastUpTo(w, at), v.album = w.album
      PROVE  v = w
  <2>1. v.seq <= w.seq /\ w.seq <= v.seq
    BY <1>6 DEF LastUpTo
  <2> QED
    BY <1>1, <2>1 DEF VersionsOK
<1>7. ASSUME NEW a \in Entities, past[at][a] # None PROVE \E v \in Credits!Standing(at) : v.album = a
  <2>1. PICK u \in journal : u.album = a /\ ~(u.seq > at)
    BY <1>7 DEF VersionsTell
  <2>2. u.seq <= at
    BY <1>1, <2>1
  <2>3. PICK v \in journal : v.album = a /\ LastUpTo(v, at)
    BY <1>1, <2>1, <2>2, LastExists
  <2> QED
    BY <1>4, <1>5, <1>7, <2>3
<1> QED
  BY <1>4, <1>5, <1>6, <1>7

LEMMA BootstrapHolds ==
  ASSUME CreditsInv, Credits!BootstrapPage
  PROVE  ClientOK'
<1> DEFINE at == reader.at
           after == reader.after
<1>1. PICK rows : rows = {v \in Credits!Standing(at) : v.album > after}
  OBVIOUS
<1>2. PICK place : place = [v \in rows |-> v.album]
  OBVIOUS
<1>3. PICK page : page = Credits!First(rows, place)
  OBVIOUS
<1>4. PICK copy : copy = Credits!Holding(reader.copy, page)
  OBVIOUS
<1>5. /\ reader.mode = "bootstrap" /\ at >= state
      /\ reader' = [mode |-> IF page = rows THEN "follow" ELSE "bootstrap", at |-> at,
                    after |-> IF page = rows THEN 0 ELSE Credits!Max({v.album : v \in page}),
                    copy |-> copy]
      /\ UNCHANGED <<build, past>>
  BY <1>1, <1>2, <1>3, <1>4 DEF Credits!BootstrapPage, Credits!stream
<1>6. /\ at \in state..build /\ at \in 0..build /\ build \in Nat /\ after \in Nat /\ state \in Nat
      /\ HoldsUpTo(reader.copy, at, after)
  BY <1>5 DEF CreditsInv, ResultsOK, ClientOK
<1>7. /\ Credits!Standing(at) \subseteq journal
      /\ \A v \in Credits!Standing(at) : past[at][v.album] = v.value
      /\ \A v, w \in Credits!Standing(at) : v.album = w.album => v = w
      /\ \A a \in Entities : past[at][a] # None => \E v \in Credits!Standing(at) : v.album = a
  BY <1>6, StandingRows DEF CreditsInv
<1>8. \A v \in rows : v \in journal /\ v.album \in Entities /\ v.album \in Nat
  BY <1>1, <1>7, CreditsBounds DEF CreditsInv, VersionsOK
<1>9. IsFiniteSet(rows) /\ place \in [rows -> Nat]
  <2>1. rows \in SUBSET journal
    BY <1>8
  <2> QED
    BY <1>2, <1>8, <2>1, FS_Subset DEF CreditsInv, VersionsOK
<1>10. /\ page \subseteq rows
       /\ \A r \in page, q \in rows : q.album < r.album => q \in page
       /\ rows # {} => page # {}
  BY <1>2, <1>3, <1>9, FirstRows
<1>11. /\ DOMAIN copy = Entities /\ copy = [a \in Entities |-> copy[a]]
       /\ \A a \in Entities : (\A r \in page : r.album # a) => copy[a] = reader.copy[a]
       /\ \A r \in page : copy[r.album] = past[at][r.album]
  <2>1. page \in SUBSET journal
    BY <1>8, <1>10
  <2>2. \A r, q \in page : q.album = r.album => q.seq <= r.seq
    <3>1. \A r, q \in page : q.album = r.album => q = r
      BY <1>1, <1>7, <1>10
    <3>2. \A r \in page : r.seq \in Nat
      BY <2>1 DEF CreditsInv, VersionsOK
    <3> QED
      BY <3>1, <3>2
  <2>3. /\ DOMAIN copy = Entities /\ copy = [a \in Entities |-> copy[a]]
        /\ \A a \in Entities : (\A r \in page : r.album # a) => copy[a] = reader.copy[a]
        /\ \A r \in page : (\A q \in page : q.album = r.album => q.seq <= r.seq) => copy[r.album] = r.value
    BY <1>4, <1>6, <2>1, HoldsPage DEF CreditsInv
  <2> QED
    BY <1>1, <1>7, <1>10, <2>2, <2>3
<1>12. ASSUME NEW a \in Entities
       PROVE  reader.copy[a] = IF a <= after THEN past[at][a] ELSE None
  BY <1>6 DEF HoldsUpTo
<1>13. ASSUME NEW a \in Entities, \A r \in rows : r.album # a
       PROVE  copy[a] = past[at][a]
  <2>1. a \in Nat
    BY CreditsBounds
  <2>2. copy[a] = reader.copy[a]
    BY <1>10, <1>11, <1>13
  <2>3. a > after => past[at][a] = None
    BY <1>1, <1>7, <1>13
  <2> QED
    BY <1>6, <1>12, <2>1, <2>2, <2>3
<1>14. CASE page = rows
  <2>1. \A a \in Entities : copy[a] = past[at][a]
    BY <1>11, <1>13, <1>14
  <2>2. past[at] = [a \in Entities |-> past[at][a]]
    BY <1>6 DEF CreditsInv, ResultsOK
  <2>3. copy = past[at]
    BY <1>11, <2>1, <2>2
  <2>4. reader' = [mode |-> "follow", at |-> at, after |-> 0, copy |-> copy]
    BY <1>5, <1>14
  <2> QED
    BY <1>5, <1>6, <2>3, <2>4 DEF ClientOK, Credits!FollowerHoldsResults
<1>15. CASE page # rows
  <2> DEFINE S == {v.album : v \in page}
  <2>1. PICK max : max = Credits!Max(S)
    OBVIOUS
  <2>2. S # {} /\ S \in SUBSET Nat /\ S \in SUBSET Entities
    BY <1>8, <1>10, <1>15
  <2>3. \E b \in Nat : \A x \in S : x <= b
    <3>1. IsFiniteSet(S)
      BY <2>2, FS_Subset, CreditsBounds
    <3> HIDE DEF S
    <3> QED
      BY <2>2, <3>1, FiniteIsBounded
  <2>4. max \in S /\ \A x \in S : x <= max
    <3> HIDE DEF S
    <3> QED
      BY <2>1, <2>2, <2>3, CreditsMax
  <2>5. max \in Nat /\ max > after
    BY <1>1, <1>8, <1>10, <2>2, <2>4
  <2>6. PICK top \in page : top.album = max
    BY <2>4
  <2>7. ASSUME NEW a \in Entities PROVE copy[a] = IF a <= max THEN past[at][a] ELSE None
    <3>1. a \in Nat
      BY CreditsBounds
    <3>2. CASE a <= max
      <4>1. CASE \E r \in page : r.album = a
        BY <1>11, <3>2, <4>1
      <4>2. CASE \A r \in page : r.album # a
        <5>1. \A r \in rows : r.album # a
          <6> SUFFICES ASSUME NEW r \in rows, r.album = a PROVE FALSE
            OBVIOUS
          <6>1. a < max
            BY <2>5, <2>6, <3>1, <3>2, <4>2
          <6> QED
            BY <1>10, <2>6, <4>2, <6>1
        <5> QED
          BY <1>13, <3>2, <5>1
      <4> QED
        BY <4>1, <4>2
    <3>3. CASE ~(a <= max)
      <4>1. \A r \in page : r.album # a
        BY <2>4, <3>3
      <4>2. ~(a <= after)
        BY <1>6, <2>5, <3>1, <3>3
      <4> QED
        BY <1>11, <1>12, <3>3, <4>1, <4>2
    <3> QED
      BY <3>2, <3>3
  <2>8. HoldsUpTo(copy, at, max)
    BY <1>11, <2>7 DEF HoldsUpTo
  <2>9. reader' = [mode |-> "bootstrap", at |-> at, after |-> max, copy |-> copy]
    BY <1>5, <1>15, <2>1
  <2>10. /\ reader'.mode = "bootstrap" /\ reader'.at = at /\ reader'.after = max /\ reader'.copy = copy
         /\ reader' = [mode |-> reader'.mode, at |-> reader'.at, after |-> reader'.after, copy |-> reader'.copy]
    BY <2>9
  <2>11. HoldsUpTo(reader.copy, reader.at, reader.after)'
    BY <1>5, <2>8, <2>10 DEF HoldsUpTo
  <2> HIDE DEF at, S
  <2> QED
    BY <1>5, <1>6, <2>5, <2>10, <2>11 DEF ClientOK, Credits!FollowerHoldsResults
<1> QED
  BY <1>14, <1>15

LEMMA ChangesHold ==
  ASSUME CreditsInv, Credits!ChangesPage
  PROVE  ClientOK'
<1> DEFINE at == reader.at
<1>1. PICK rows : rows = {v \in journal : v.seq > at}
  OBVIOUS
<1>2. PICK place : place = [v \in rows |-> v.seq]
  OBVIOUS
<1>3. PICK page : page = Credits!First(rows, place)
  OBVIOUS
<1>4. PICK copy : copy = Credits!Holding(reader.copy, page)
  OBVIOUS
<1>5. PICK to : to = Credits!Max({v.seq : v \in page})
  OBVIOUS
<1>6. /\ reader.mode = "follow" /\ at >= state /\ rows # {}
      /\ reader' = [reader EXCEPT !.at = to, !.copy = copy]
      /\ UNCHANGED <<build, past>>
  BY <1>1, <1>2, <1>3, <1>4, <1>5 DEF Credits!ChangesPage, Credits!stream
<1>7. /\ at \in state..build /\ at \in 0..build /\ build \in Nat /\ state \in Nat
      /\ reader.copy = past[at]
  BY <1>6 DEF CreditsInv, ResultsOK, ClientOK, Credits!FollowerHoldsResults
<1>8. \A v \in journal : v.seq \in 1..build /\ v.album \in Entities /\ v.seq \in Nat
  BY DEF CreditsInv, VersionsOK
<1>9. IsFiniteSet(rows) /\ place \in [rows -> Nat]
  <2>1. rows \in SUBSET journal
    BY <1>1
  <2> QED
    BY <1>2, <1>8, <2>1, FS_Subset DEF CreditsInv, VersionsOK
<1>10. /\ page \in SUBSET rows /\ page # {}
       /\ \A r \in page, q \in rows : q.seq < r.seq => q \in page
  BY <1>2, <1>3, <1>6, <1>9, FirstRows
<1>11. to \in at + 1..build /\ (\A v \in page : v.seq <= to) /\ \E v \in page : v.seq = to
  <2> DEFINE S == {v.seq : v \in page}
  <2>1. S \in SUBSET Nat /\ S # {} /\ \A x \in S : x <= build /\ x > at
    BY <1>1, <1>7, <1>8, <1>10
  <2>5. to = Credits!Max(S)
    BY <1>5
  <2>2. to \in S /\ \A x \in S : x <= to
    <3> HIDE DEF S
    <3> QED
      BY <1>7, <2>1, <2>5, CreditsMax
  <2>3. PICK v \in page : v.seq = to
    BY <2>2
  <2>4. \A u \in page : u.seq \in S
    OBVIOUS
  <2>6. to \in Nat /\ to <= build /\ to > at
    BY <2>1, <2>2
  <2>7. to \in at + 1..build
    BY <1>7, <2>6
  <2>8. \A u \in page : u.seq <= to
    BY <2>2, <2>4
  <2> QED
    BY <2>3, <2>7, <2>8
<1>12. /\ DOMAIN copy = Entities /\ copy = [a \in Entities |-> copy[a]]
       /\ \A a \in Entities : (\A r \in page : r.album # a) => copy[a] = past[at][a]
       /\ \A r \in page : (\A q \in page : q.album = r.album => q.seq <= r.seq)
                          => copy[r.album] = r.value
  <2>1. page \in SUBSET journal
    BY <1>1, <1>10
  <2>2. /\ DOMAIN copy = Entities /\ copy = [a \in Entities |-> copy[a]]
        /\ \A a \in Entities : (\A r \in page : r.album # a) => copy[a] = reader.copy[a]
        /\ \A r \in page : (\A q \in page : q.album = r.album => q.seq <= r.seq)
                           => copy[r.album] = r.value
    BY <1>4, <1>7, <2>1, HoldsPage DEF CreditsInv
  <2> QED
    BY <1>7, <2>2
\* The page is what was published after the cursor and up to the new one.
<1>13. \A v \in journal : v \in page <=> v.seq > at /\ v.seq <= to
  <2>1. PICK top \in page : top.seq = to
    BY <1>11
  <2>2. ASSUME NEW v \in journal, v.seq > at, v.seq <= to PROVE v \in page
    <3>1. v \in rows
      BY <1>1, <2>2
    <3>2. CASE v.seq = to
      BY <1>1, <1>10, <2>1, <3>2 DEF CreditsInv, VersionsOK
    <3>3. CASE v.seq # to
      <4>1. v.seq < top.seq
        BY <1>8, <1>11, <2>1, <2>2, <3>3
      <4> QED
        BY <1>10, <3>1, <4>1
    <3> QED
      BY <3>2, <3>3
  <2> QED
    BY <1>1, <1>10, <1>11, <2>2
<1>14. to \in state..build /\ to \in 0..build /\ to \in Nat /\ at \in Nat /\ at < to
  BY <1>7, <1>11
<1>15. ASSUME NEW a \in Entities PROVE copy[a] = past[to][a]
  <2>1. CASE \E u \in page : u.album = a
    <3>1. PICK u \in page : u.album = a
      BY <2>1
    <3>2. u \in journal /\ u.seq <= to
      BY <1>1, <1>10, <1>11
    <3>3. PICK v \in journal : v.album = a /\ LastUpTo(v, to)
      BY <1>7, <1>14, <3>1, <3>2, LastExists DEF CreditsInv
    <3>4. u.seq <= v.seq /\ v.seq <= to
      BY <3>1, <3>2, <3>3 DEF LastUpTo
    <3>5. v \in page
      BY <1>8, <1>13, <1>14, <3>1, <3>2, <3>3, <3>4
    <3>6. \A q \in page : q.album = v.album => q.seq <= v.seq
      BY <1>1, <1>10, <1>11, <3>3 DEF LastUpTo
    <3>7. copy[a] = v.value
      BY <1>12, <3>3, <3>5, <3>6
    <3> QED
      BY <1>14, <3>3, <3>7 DEF CreditsInv, VersionsTell
  <2>2. CASE \A u \in page : u.album # a
    <3>1. copy[a] = past[at][a]
      BY <1>12, <2>2
    <3>2. \A v \in journal : v.album = a => (v.seq <= to <=> v.seq <= at)
      BY <1>8, <1>13, <1>14, <2>2
    <3>3. CASE \A v \in journal : v.album = a => v.seq > to
      <4>1. \A v \in journal : v.album = a => v.seq > at
        BY <1>8, <1>14, <3>3
      <4> QED
        BY <1>7, <1>14, <3>1, <3>3, <4>1 DEF CreditsInv, VersionsTell
    <3>4. CASE \E v \in journal : v.album = a /\ ~(v.seq > to)
      <4>1. PICK u \in journal : u.album = a /\ u.seq <= to
        BY <1>8, <1>14, <3>4
      <4>2. PICK v \in journal : v.album = a /\ LastUpTo(v, to)
        BY <1>7, <1>14, <4>1, LastExists DEF CreditsInv
      <4>3. LastUpTo(v, at)
        BY <1>8, <3>2, <4>2 DEF LastUpTo
      <4> QED
        BY <1>7, <1>14, <3>1, <4>2, <4>3 DEF CreditsInv, VersionsTell
    <3> QED
      BY <3>3, <3>4
  <2> QED
    BY <2>1, <2>2
<1>16. copy = past[to]
  <2>1. past[to] = [a \in Entities |-> past[to][a]]
    BY <1>14 DEF CreditsInv, ResultsOK
  <2> QED
    BY <1>12, <1>15, <2>1
<1>17. /\ reader'.mode = "follow" /\ reader'.at = to /\ reader'.after \in Nat /\ reader'.copy = copy
       /\ reader' = [mode |-> reader'.mode, at |-> reader'.at, after |-> reader'.after, copy |-> reader'.copy]
  <2>1. PICK old : old = reader
    OBVIOUS
  <2>2. /\ old = [mode |-> old.mode, at |-> old.at, after |-> old.after, copy |-> old.copy]
        /\ old.mode = "follow" /\ old.after \in Nat
    BY <1>6, <2>1 DEF CreditsInv, ClientOK
  <2>3. PICK new : new = [old EXCEPT !.at = to, !.copy = copy]
    OBVIOUS
  <2>4. /\ new.mode = "follow" /\ new.at = to /\ new.after \in Nat /\ new.copy = copy
        /\ new = [mode |-> new.mode, at |-> new.at, after |-> new.after, copy |-> new.copy]
    BY <2>2, <2>3
  <2>5. reader' = new
    BY <1>6, <2>1, <2>3
  <2> QED
    BY <2>4, <2>5
<1> HIDE DEF at
<1> QED
  BY <1>6, <1>14, <1>16, <1>17 DEF ClientOK, Credits!FollowerHoldsResults

LEMMA CreditsRead ==
  ASSUME CreditsInv, Credits!ReaderStep
  PROVE  CreditsInv'
<1>1. UNCHANGED <<build, state, journal, results, past, builder>>
  BY DEF Credits!ReaderStep, Credits!Restart, Credits!BootstrapPage, Credits!ChangesPage, Credits!stream
<1>2. WorkersOK'
  BY <1>1 DEF CreditsInv, WorkersOK, WorkerOK
<1>3. ClientOK'
  BY RestartHolds, BootstrapHolds, ChangesHold DEF Credits!ReaderStep
<1> QED
  BY <1>1, <1>2, <1>3, StreamStays DEF CreditsInv

LEMMA CreditsStep ==
  ASSUME CreditsInv, Crediting
  PROVE  CreditsInv'
BY CreditsWork, CreditsVisits, CreditsRead DEF Crediting

LEMMA CreditsSame ==
  ASSUME CreditsInv, UNCHANGED <<build, state, journal, results, past, builder, reader>>
  PROVE  CreditsInv'
<1>1. WorkersOK'
  BY DEF CreditsInv, WorkersOK, WorkerOK
<1>2. ClientOK'
  BY ClientStays DEF CreditsInv, ResultsOK
<1> QED
  BY <1>1, <1>2, StreamStays DEF CreditsInv

-----------------------------------------------------------------------------
(* Loudness, for any catalogue and any number of its publications.  Here       *)
(* `live` is the catalogue, `results` the track records, `state` the album     *)
(* records, `build` the pass, `builder` the turn and `lock` the publication.   *)

PassIsRecord(r) == r = [status |-> r.status, cursor |-> r.cursor, wait |-> r.wait,
                        reconciled |-> r.reconciled]
LoudTurnIsRecord(r) == r = [at |-> r.at, gen |-> r.gen, due |-> r.due, track |-> r.track,
                            media |-> r.media, cursor |-> r.cursor]

\* What a turn follows is a generation there was.
FollowedOK ==
    /\ live.gen \in Nat /\ PassIsRecord(build)
    /\ build.reconciled \in Nat /\ build.reconciled <= live.gen
LoudTurnOK ==
    /\ builder.at # "idle" => LoudTurnIsRecord(builder) /\ builder.gen \in Nat /\ builder.gen <= live.gen
    /\ builder.at = "publishing" => lock.by = "backfill"
LoudRows == results = [t \in Entities |-> results[t]] /\ state = [a \in Groups |-> state[a]]

\* While the catalogue is the one last followed, a publication that is open knows
\* the album its track has now, and every album's record stands or is not due.
TrackAlbums(t) == {live.track[u].album : u \in {x \in {t} : Loudness!Present(x)}}
KnowsAlbums == lock.by \in {"edge", "backfill"} => lock.albums = TrackAlbums(lock.track)
AlbumFollows(a) ==
    /\ Loudness!Pool(a, results) # None => Loudness!Stands(a)
    /\ state[a] = None \/ Loudness!Stands(a)
AlbumsFollow == build.reconciled = live.gen => KnowsAlbums /\ \A a \in Groups : AlbumFollows(a)

LoudInv == FollowedOK /\ LoudTurnOK /\ LoudRows /\ AlbumsFollow

LEMMA LoudBegins == ASSUME Loudness!Init PROVE LoudInv
<1>1. /\ live.gen = 1 /\ lock = [by |-> "nobody"] /\ builder = [at |-> "idle"]
      /\ build = [status |-> "queued", cursor |-> 0, wait |-> FALSE, reconciled |-> 0]
      /\ results = [t \in Entities |-> None] /\ state = [a \in Groups |-> None]
  BY DEF Loudness!Init, Loudness!Unlocked, Loudness!Idle
<1> QED
  BY <1>1 DEF LoudInv, FollowedOK, PassIsRecord, LoudTurnOK, LoudRows, AlbumsFollow

LEMMA LoudFollows == ASSUME LoudInv PROVE Loudness!AlbumsFollowCatalogue
BY DEF LoudInv, AlbumsFollow, AlbumFollows, Loudness!Stands, Loudness!AlbumsFollowCatalogue

\* The albums follow while the catalogue and the records stay.
LEMMA LoudQuiet ==
  ASSUME LoudInv, UNCHANGED <<live, results, state>>, PassIsRecord(build'),
         build'.reconciled = build.reconciled, LoudTurnOK',
         \/ lock' = lock
         \/ lock'.by \notin {"edge", "backfill"}
         \/ lock'.albums = TrackAlbums(lock'.track)
  PROVE  LoudInv'
<1>1. FollowedOK' /\ LoudRows'
  BY DEF LoudInv, FollowedOK, LoudRows
<1>2. \A t : TrackAlbums(t)' = TrackAlbums(t)
  BY DEF TrackAlbums, Loudness!Present
<1>3. ASSUME build'.reconciled = live'.gen, NEW a \in Groups PROVE AlbumFollows(a)'
  <2>1. AlbumFollows(a)
    BY <1>3 DEF LoudInv, AlbumsFollow
  <2> QED
    BY <2>1 DEF AlbumFollows, Loudness!Pool, Loudness!Stands, Loudness!Members, Loudness!Present,
       Loudness!Media
<1>4. ASSUME build'.reconciled = live'.gen PROVE KnowsAlbums'
  <2>1. KnowsAlbums
    BY <1>4 DEF LoudInv, AlbumsFollow
  <2>2. CASE lock' = lock
    BY <2>1, <2>2 DEF KnowsAlbums, TrackAlbums, Loudness!Present
  <2>3. CASE lock'.by \notin {"edge", "backfill"}
    BY <2>3 DEF KnowsAlbums
  <2>4. CASE lock'.albums = TrackAlbums(lock'.track)
    BY <1>2, <2>4 DEF KnowsAlbums, TrackAlbums, Loudness!Present
  <2> QED
    BY <2>2, <2>3, <2>4
<1> QED
  BY <1>1, <1>3, <1>4 DEF LoudInv, AlbumsFollow

\* Nothing follows a catalogue that has moved.
LEMMA LoudMoves ==
  ASSUME LoudInv, live'.gen = live.gen + 1, PassIsRecord(build'),
         build'.reconciled = build.reconciled, UNCHANGED <<builder, lock>>, LoudRows'
  PROVE  LoudInv'
<1>1. FollowedOK' /\ build'.reconciled # live'.gen
  BY DEF LoudInv, FollowedOK
<1>2. LoudTurnOK'
  BY DEF LoudInv, FollowedOK, LoudTurnOK, LoudTurnIsRecord
<1> QED
  BY <1>1, <1>2 DEF LoudInv, AlbumsFollow

LEMMA CatalogueMoves ==
  ASSUME LoudInv, \/ \E t \in Entities : Loudness!CatalogMoves(t)
                  \/ \E o, n \in Entities : Loudness!Rekey(o, n)
  PROVE  LoudInv'
<1>1. PICK b : b = build
  OBVIOUS
<1>2. PassIsRecord(b)
  BY <1>1 DEF LoudInv, FollowedOK
<1>3. ASSUME NEW statuses
      PROVE  PassIsRecord(Loudness!Armed(statuses)) /\ Loudness!Armed(statuses).reconciled = b.reconciled
  <2>1. CASE b.status \in statuses
    <3>1. PICK x : x = Loudness!Armed(statuses)
      OBVIOUS
    <3>2. PICK c : c = IF b.status = "complete" THEN 0 ELSE b.cursor
      OBVIOUS
    <3>3. x = [status |-> "queued", cursor |-> c, wait |-> FALSE, reconciled |-> b.reconciled]
      BY <1>1, <1>2, <2>1, <3>1, <3>2 DEF PassIsRecord, Loudness!Armed
    <3>4. PassIsRecord(x) /\ x.reconciled = b.reconciled
      BY <3>3 DEF PassIsRecord
    <3> QED
      BY <3>1, <3>4
  <2>2. CASE b.status \notin statuses
    BY <1>1, <1>2, <2>2 DEF Loudness!Armed
  <2> QED
    BY <2>1, <2>2
<1>4. ASSUME NEW t \in Entities, Loudness!CatalogMoves(t) PROVE LoudInv'
  <2>1. live'.gen = live.gen + 1
    BY <1>4 DEF Loudness!CatalogMoves
  <2>2. /\ build' = build \/ build' = Loudness!Armed({"complete", "waiting_runtime"})
        /\ UNCHANGED <<builder, lock, results, state>>
    BY <1>4 DEF Loudness!CatalogMoves, Loudness!stored
  <2>3. PassIsRecord(build') /\ build'.reconciled = build.reconciled
    BY <1>1, <1>2, <1>3, <2>2
  <2>4. LoudRows'
    BY <2>2 DEF LoudInv, LoudRows
  <2> QED
    BY <2>1, <2>2, <2>3, <2>4, LoudMoves
<1>5. ASSUME NEW o \in Entities, NEW n \in Entities, Loudness!Rekey(o, n) PROVE LoudInv'
  <2>1. live'.gen = live.gen + 1 /\ UNCHANGED <<build, builder, lock>>
    BY <1>5 DEF Loudness!Rekey
  <2>2. PassIsRecord(build') /\ build'.reconciled = build.reconciled
    BY <1>1, <1>2, <2>1
  <2>3. results' = [[results EXCEPT ![n] = results[o]] EXCEPT ![o] = None]
        \/ results' = [results EXCEPT ![n] = results[o], ![o] = None]
        \/ results' = [t \in Entities |-> None]
    BY <1>5 DEF Loudness!Rekey, Loudness!Moved
  <2>4. LoudRows'
    <3>1. results' = [t \in Entities |-> results'[t]]
      BY <2>3 DEF LoudInv, LoudRows
    <3>2. state' = [a \in Groups |-> None]
      BY <1>5 DEF Loudness!Rekey
    <3> QED
      BY <3>1, <3>2 DEF LoudRows
  <2> QED
    BY <2>1, <2>2, <2>4, LoudMoves
<1> QED
  BY <1>4, <1>5

\* A reconcile leaves every album's record standing, or none.
LEMMA ReconcileFollows ==
  ASSUME LoudInv, Loudness!Reconcile, UNCHANGED live
  PROVE  LoudRows' /\ lock'.by = "nobody" /\ \A a \in Groups : AlbumFollows(a)'
<1>1. PICK recs : recs = [t \in Entities |-> IF t \in lock.gone THEN None ELSE results[t]]
  OBVIOUS
<1>2. /\ results' = recs /\ lock' = Loudness!Unlocked
      /\ state' = [a \in Groups |-> IF Loudness!Stands(a) THEN state[a] ELSE Loudness!Pool(a, recs)]
  BY <1>1 DEF Loudness!Reconcile, Loudness!Commit
<1>3. lock'.by = "nobody" /\ LoudRows'
  BY <1>1, <1>2 DEF Loudness!Unlocked, LoudRows
<1>4. ASSUME NEW a \in Groups PROVE AlbumFollows(a)'
  <2>1. PICK ms : ms = Loudness!Members(a)
    OBVIOUS
  <2>2. Loudness!Members(a)' = ms /\ Loudness!Pool(a, results)' = Loudness!Pool(a, recs)
    BY <1>2, <2>1 DEF Loudness!Members, Loudness!Present, Loudness!Media, Loudness!Pool
  <2>3. CASE Loudness!Stands(a)
    BY <1>2, <2>1, <2>2, <2>3 DEF AlbumFollows, Loudness!Stands
  <2>4. CASE ~Loudness!Stands(a)
    <3>1. state'[a] = Loudness!Pool(a, recs)
      BY <1>2, <2>4
    <3>2. \/ Loudness!Pool(a, recs) = None
          \/ Loudness!Pool(a, recs).hash = ms /\ \A m \in ms : m.media # Loudness!NoMedia
      BY <2>1 DEF Loudness!Pool
    <3> QED
      BY <2>2, <3>1, <3>2 DEF AlbumFollows, Loudness!Stands
  <2> QED
    BY <2>3, <2>4
<1> QED
  BY <1>3, <1>4

\* A publication changes the record of one track, and the record of its album.
LEMMA PublishFollows ==
  ASSUME LoudInv, Loudness!Publish, UNCHANGED <<live, build>>, lock.by \in {"edge", "backfill"},
         LoudTurnOK'
  PROVE  LoudInv'
<1>1. PICK t, recs : t = lock.track /\ recs = [results EXCEPT ![t] = lock.record]
  OBVIOUS
<1>2. /\ results' = recs /\ lock' = Loudness!Unlocked
      /\ state' = [a \in Groups |-> IF a \in lock.albums /\ Loudness!Members(a) # {}
                                    THEN Loudness!Pool(a, recs) ELSE state[a]]
  BY <1>1 DEF Loudness!Publish, Loudness!Commit
<1>3. lock'.by = "nobody" /\ LoudRows'
  <2>1. recs = [u \in Entities |-> recs[u]]
    BY <1>1 DEF LoudInv, LoudRows
  <2> QED
    BY <1>2, <2>1 DEF Loudness!Unlocked, LoudRows
<1>4. FollowedOK'
  BY DEF LoudInv, FollowedOK
<1>5. ASSUME build.reconciled = live.gen, NEW a \in Groups PROVE AlbumFollows(a)'
  <2>1. PICK ms : ms = Loudness!Members(a)
    OBVIOUS
  <2>2. Loudness!Members(a)' = ms /\ Loudness!Pool(a, results)' = Loudness!Pool(a, recs)
    BY <1>2, <2>1 DEF Loudness!Members, Loudness!Present, Loudness!Media, Loudness!Pool
  <2>3. AlbumFollows(a) /\ lock.albums = TrackAlbums(t)
    BY <1>1, <1>5 DEF LoudInv, AlbumsFollow, KnowsAlbums
  <2>4. CASE a \in lock.albums /\ ms # {}
    <3>1. state'[a] = Loudness!Pool(a, recs)
      BY <1>2, <2>1, <2>4
    <3>2. \/ Loudness!Pool(a, recs) = None
          \/ Loudness!Pool(a, recs).hash = ms /\ \A m \in ms : m.media # Loudness!NoMedia
      BY <2>1 DEF Loudness!Pool
    <3> QED
      BY <2>2, <3>1, <3>2 DEF AlbumFollows, Loudness!Stands
  <2>5. CASE ~(a \in lock.albums /\ ms # {})
    <3>1. state'[a] = state[a]
      BY <1>2, <2>1, <2>5
    <3>2. Loudness!Pool(a, recs) = Loudness!Pool(a, results)
      <4>1. CASE ms = {}
        BY <2>1, <4>1 DEF Loudness!Pool
      <4>2. CASE a \notin lock.albums
        <5>1. ASSUME NEW m \in ms PROVE m.track \in Entities \ {t}
          <6>1. PICK u \in Entities : /\ Loudness!Present(u) /\ live.track[u].album = a
                                      /\ m = [track |-> u, media |-> Loudness!Media(u)]
            BY <2>1, <5>1 DEF Loudness!Members
          <6>2. u # t
            BY <2>3, <4>2, <6>1 DEF TrackAlbums
          <6> QED
            BY <6>1, <6>2
        <5>2. \A m \in ms : recs[m.track] = results[m.track]
          BY <1>1, <5>1 DEF LoudInv, LoudRows
        <5>3. \A u \in {m.track : m \in ms} : recs[u] = results[u]
          BY <5>2
        <5>4. [u \in {m.track : m \in ms} |-> recs[u]] = [u \in {m.track : m \in ms} |-> results[u]]
          BY <5>3
        <5> QED
          BY <2>1, <5>2, <5>4 DEF Loudness!Pool
      <4> QED
        BY <2>5, <4>1, <4>2
    <3> QED
      BY <2>1, <2>2, <2>3, <3>1, <3>2 DEF AlbumFollows, Loudness!Stands
  <2> QED
    BY <2>4, <2>5
<1> QED
  BY <1>3, <1>4, <1>5 DEF LoudInv, AlbumsFollow, KnowsAlbums

\* The turn's steps that change no record, and what the turn is after them.
LEMMA LoudTurnGoes ==
  ASSUME LoudInv, builder.at # "idle", NEW at \in {"page", "following", "publish"}, NEW cursor,
         builder' = [builder EXCEPT !.at = at, !.cursor = cursor]
  PROVE  builder'.at = at /\ LoudTurnIsRecord(builder') /\ builder'.gen = builder.gen
<1>1. PICK b : b = builder
  OBVIOUS
<1>2. LoudTurnIsRecord(b)
  BY <1>1 DEF LoudInv, LoudTurnOK
<1>3. builder' = [at |-> at, gen |-> b.gen, due |-> b.due, track |-> b.track, media |-> b.media,
                  cursor |-> cursor]
  BY <1>1, <1>2 DEF LoudTurnIsRecord
<1> QED
  BY <1>1, <1>3 DEF LoudTurnIsRecord

LEMMA LoudTurnAt ==
  ASSUME LoudInv, builder.at # "idle", NEW at \in {"page", "following", "publish", "publishing"},
         builder' = [builder EXCEPT !.at = at]
  PROVE  builder'.at = at /\ LoudTurnIsRecord(builder') /\ builder'.gen = builder.gen
<1>1. PICK b : b = builder
  OBVIOUS
<1>2. LoudTurnIsRecord(b)
  BY <1>1 DEF LoudInv, LoudTurnOK
<1>3. builder' = [at |-> at, gen |-> b.gen, due |-> b.due, track |-> b.track, media |-> b.media,
                  cursor |-> b.cursor]
  BY <1>1, <1>2 DEF LoudTurnIsRecord
<1> QED
  BY <1>1, <1>3 DEF LoudTurnIsRecord

LEMMA PassKept ==
  ASSUME LoudInv, NEW status, NEW cursor, NEW wait,
         \/ build' = [build EXCEPT !.status = status, !.cursor = cursor, !.wait = wait]
         \/ build' = [build EXCEPT !.status = status, !.wait = wait]
  PROVE  PassIsRecord(build') /\ build'.reconciled = build.reconciled
<1>1. PICK b : b = build
  OBVIOUS
<1>2. PassIsRecord(b)
  BY <1>1 DEF LoudInv, FollowedOK
<1>3. PICK c : c = build'.cursor
  OBVIOUS
<1>4. build' = [status |-> status, cursor |-> c, wait |-> wait, reconciled |-> b.reconciled]
  BY <1>1, <1>2, <1>3 DEF PassIsRecord
<1> QED
  BY <1>1, <1>4 DEF PassIsRecord

LEMMA OpensKnowing ==
  ASSUME NEW by, NEW t, NEW record, Loudness!BeginPublish(by, t, record)
  PROVE  lock = Loudness!Unlocked /\ lock'.by = by /\ lock'.albums = TrackAlbums(lock'.track)
BY DEF Loudness!BeginPublish, TrackAlbums

\* The turn is as it should be after a step that keeps the catalogue.
LEMMA LoudTurnStays ==
  ASSUME LoudInv, UNCHANGED live,
         \/ builder'.at = "idle"
         \/ /\ builder.at # "idle" /\ LoudTurnIsRecord(builder') /\ builder'.gen = builder.gen
            /\ builder'.at = "publishing" => lock'.by = "backfill"
         \/ builder' = builder /\ (lock' = lock \/ lock.by # "backfill")
  PROVE  LoudTurnOK'
BY DEF LoudInv, LoudTurnOK

LEMMA LoudTurnStep == ASSUME LoudInv, Loudness!TurnStep PROVE LoudInv'
<1>1. CASE Loudness!StartTurn
  <2>1. UNCHANGED <<live, results, state, build, lock>>
    BY <1>1 DEF Loudness!StartTurn, Loudness!world, Loudness!stored
  <2>2. PICK b : b = builder'
    OBVIOUS
  <2>3. \E at \in {"follow", "page"} : \E due, cursor :
          b = [at |-> at, gen |-> live.gen, due |-> due, track |-> 0, media |-> 0, cursor |-> cursor]
    BY <1>1, <2>2 DEF Loudness!StartTurn, Loudness!Put
  <2>4. b.at \in {"follow", "page"} /\ LoudTurnIsRecord(b) /\ b.gen = live.gen
    BY <2>3 DEF LoudTurnIsRecord
  <2>5. LoudTurnOK'
    BY <2>1, <2>2, <2>4 DEF LoudTurnOK, LoudInv, FollowedOK
  <2>6. PassIsRecord(build') /\ build'.reconciled = build.reconciled
    BY <2>1 DEF LoudInv, FollowedOK
  <2> QED
    BY <2>1, <2>5, <2>6, LoudQuiet
<1>2. CASE Loudness!Follow
  <2>1. /\ UNCHANGED <<live, results, state, build>> /\ builder.at = "follow"
        /\ builder' = [builder EXCEPT !.at = "following"] /\ lock'.by = "reconcile"
    BY <1>2 DEF Loudness!Follow, Loudness!BeginReconcile, Loudness!world, Loudness!stored, Loudness!Put
  <2>2. builder'.at = "following" /\ LoudTurnIsRecord(builder') /\ builder'.gen = builder.gen
    BY <2>1, LoudTurnAt
  <2>3. LoudTurnOK'
    BY <2>1, <2>2, LoudTurnStays
  <2>4. PassIsRecord(build') /\ build'.reconciled = build.reconciled
    BY <2>1 DEF LoudInv, FollowedOK
  <2> QED
    BY <2>1, <2>3, <2>4, LoudQuiet
<1>3. CASE Loudness!Followed
  <2>1. /\ UNCHANGED live /\ builder.at = "following" /\ Loudness!Reconcile
        /\ build' = [build EXCEPT !.reconciled = builder.gen]
        /\ \/ builder' = [builder EXCEPT !.at = "page"]
           \/ builder' = [at |-> "idle"]
    BY <1>3 DEF Loudness!Followed, Loudness!world, Loudness!Put, Loudness!Idle
  <2>2. LoudRows' /\ lock'.by = "nobody" /\ \A a \in Groups : AlbumFollows(a)'
    BY <2>1, ReconcileFollows
  <2>3. LoudTurnOK'
    <3>1. CASE builder' = [at |-> "idle"]
      BY <2>1, <3>1, LoudTurnStays
    <3>2. CASE builder' = [builder EXCEPT !.at = "page"]
      <4>1. builder'.at = "page" /\ LoudTurnIsRecord(builder') /\ builder'.gen = builder.gen
        BY <2>1, <3>2, LoudTurnAt
      <4> QED
        BY <2>1, <4>1, LoudTurnStays
    <3> QED
      BY <2>1, <3>1, <3>2
  <2>4. FollowedOK'
    <3>1. PICK b, g : b = build /\ g = builder.gen
      OBVIOUS
    <3>2. PassIsRecord(b) /\ g \in Nat /\ g <= live.gen /\ live.gen \in Nat
      BY <2>1, <3>1 DEF LoudInv, FollowedOK, LoudTurnOK
    <3>3. build' = [status |-> b.status, cursor |-> b.cursor, wait |-> b.wait, reconciled |-> g]
      BY <2>1, <3>1, <3>2 DEF PassIsRecord
    <3>4. PassIsRecord(build') /\ build'.reconciled = g
      BY <3>3 DEF PassIsRecord
    <3> QED
      BY <2>1, <3>2, <3>4 DEF FollowedOK
  <2> QED
    BY <2>2, <2>3, <2>4 DEF LoudInv, AlbumsFollow, KnowsAlbums
<1>4. CASE Loudness!NotDue
  <2>1. UNCHANGED <<live, results, state, build, lock>> /\ builder' = [at |-> "idle"]
    BY <1>4 DEF Loudness!NotDue, Loudness!world, Loudness!stored, Loudness!Put, Loudness!Idle
  <2>2. LoudTurnOK'
    BY <2>1, LoudTurnStays
  <2>3. PassIsRecord(build') /\ build'.reconciled = build.reconciled
    BY <2>1 DEF LoudInv, FollowedOK
  <2> QED
    BY <2>1, <2>2, <2>3, LoudQuiet
<1>5. CASE Loudness!NextTrack
  <2>1. UNCHANGED <<live, results, state, lock>> /\ builder.at = "page"
    BY <1>5 DEF Loudness!NextTrack, Loudness!world, Loudness!stored
  <2>2. CASE /\ build' = [build EXCEPT !.status = "complete", !.cursor = 0, !.wait = TRUE]
             /\ builder' = [at |-> "idle"]
    <3>1. PassIsRecord(build') /\ build'.reconciled = build.reconciled
      BY <2>2, PassKept
    <3>2. LoudTurnOK'
      BY <2>1, <2>2, LoudTurnStays
    <3> QED
      BY <2>1, <3>1, <3>2, LoudQuiet
  <2>3. ASSUME NEW t, NEW m, build' = [build EXCEPT !.status = "running", !.wait = FALSE],
               builder' = [builder EXCEPT !.at = "measure", !.track = t, !.media = m]
        PROVE  LoudInv'
    <3>1. PassIsRecord(build') /\ build'.reconciled = build.reconciled
      BY <2>3, PassKept
    <3>2. PICK b : b = builder
      OBVIOUS
    <3>3. LoudTurnIsRecord(b)
      BY <2>1, <3>2 DEF LoudInv, LoudTurnOK
    <3>4. builder' = [at |-> "measure", gen |-> b.gen, due |-> b.due, track |-> t, media |-> m,
                      cursor |-> b.cursor]
      BY <2>3, <3>2, <3>3 DEF LoudTurnIsRecord
    <3>5. builder'.at = "measure" /\ LoudTurnIsRecord(builder') /\ builder'.gen = builder.gen
      BY <3>2, <3>4 DEF LoudTurnIsRecord
    <3>6. LoudTurnOK'
      BY <2>1, <3>5, LoudTurnStays
    <3> QED
      BY <2>1, <3>1, <3>6, LoudQuiet
  <2>4. CASE Loudness!Candidates(builder.cursor) = {}
    BY <1>5, <2>2, <2>4 DEF Loudness!NextTrack, Loudness!Finish, Loudness!Put, Loudness!Idle
  <2>5. CASE Loudness!Candidates(builder.cursor) # {}
    <3>1. PICK t : /\ build' = [build EXCEPT !.status = "running", !.wait = FALSE]
                   /\ builder' = [builder EXCEPT !.at = "measure", !.track = t, !.media = Loudness!Media(t)]
      BY <1>5, <2>5 DEF Loudness!NextTrack, Loudness!Put
    <3> QED
      BY <2>3, <3>1
  <2> QED
    BY <2>4, <2>5
<1>6. CASE Loudness!Measure
  <2>1. UNCHANGED <<live, results, state, build, lock>> /\ builder.at = "measure"
        /\ builder' = [builder EXCEPT !.at = "publish"]
    BY <1>6 DEF Loudness!Measure, Loudness!world, Loudness!stored, Loudness!Put
  <2>2. builder'.at = "publish" /\ LoudTurnIsRecord(builder') /\ builder'.gen = builder.gen
    BY <2>1, LoudTurnAt
  <2>3. LoudTurnOK'
    BY <2>1, <2>2, LoudTurnStays
  <2>4. PassIsRecord(build') /\ build'.reconciled = build.reconciled
    BY <2>1 DEF LoudInv, FollowedOK
  <2> QED
    BY <2>1, <2>3, <2>4, LoudQuiet
<1>7. CASE Loudness!PublishMeasured
  <2>1. PICK record : Loudness!BeginPublish("backfill", builder.track, record)
    BY <1>7 DEF Loudness!PublishMeasured
  <2>2. /\ UNCHANGED <<live, results, state, build>> /\ builder.at = "publish"
        /\ builder' = [builder EXCEPT !.at = "publishing"]
    BY <1>7 DEF Loudness!PublishMeasured, Loudness!world, Loudness!stored, Loudness!Put
  <2>3. lock'.by = "backfill" /\ lock'.albums = TrackAlbums(lock'.track)
    BY <2>1, OpensKnowing
  <2>4. builder'.at = "publishing" /\ LoudTurnIsRecord(builder') /\ builder'.gen = builder.gen
    BY <2>2, LoudTurnAt
  <2>5. LoudTurnOK'
    BY <2>2, <2>3, <2>4, LoudTurnStays
  <2>6. PassIsRecord(build') /\ build'.reconciled = build.reconciled
    BY <2>2 DEF LoudInv, FollowedOK
  <2> QED
    BY <2>2, <2>3, <2>5, <2>6, LoudQuiet
<1>8. CASE Loudness!PublishedMeasured
  <2>1. /\ UNCHANGED <<live, build>> /\ builder.at = "publishing" /\ Loudness!Publish
        /\ builder' = [builder EXCEPT !.at = "page", !.cursor = builder.track]
    BY <1>8 DEF Loudness!PublishedMeasured, Loudness!world, Loudness!Put, Loudness!Reached
  <2>2. builder'.at = "page" /\ LoudTurnIsRecord(builder') /\ builder'.gen = builder.gen
    BY <2>1, LoudTurnGoes
  <2>3. LoudTurnOK' /\ lock.by = "backfill"
    BY <2>1, <2>2, LoudTurnStays DEF LoudInv, LoudTurnOK
  <2> QED
    BY <2>1, <2>3, PublishFollows
<1> QED
  BY <1>1, <1>2, <1>3, <1>4, <1>5, <1>6, <1>7, <1>8 DEF Loudness!TurnStep

LEMMA LoudEdgeStep ==
  ASSUME LoudInv, Loudness!EdgeStep \/ Loudness!EdgeLosesIt
  PROVE  LoudInv'
<1>1. CASE \E t \in Entities : Loudness!EdgeDecodes(t) \/ Loudness!EdgeFails(t)
  <2>1. UNCHANGED <<live, results, state, build, lock, builder>>
    BY <1>1 DEF Loudness!EdgeDecodes, Loudness!EdgeFails, Loudness!stored
  <2>2. LoudTurnOK' /\ PassIsRecord(build') /\ build'.reconciled = build.reconciled
    BY <2>1, LoudTurnStays DEF LoudInv, FollowedOK
  <2> QED
    BY <2>1, <2>2, LoudQuiet
<1>2. CASE Loudness!EdgePublishes
  <2>1. PICK t, record : Loudness!BeginPublish("edge", t, record)
    BY <1>2 DEF Loudness!EdgePublishes
  <2>2. UNCHANGED <<live, results, state, build, builder>>
    BY <1>2 DEF Loudness!EdgePublishes, Loudness!world, Loudness!stored
  <2>3. lock.by = "nobody" /\ lock'.albums = TrackAlbums(lock'.track)
    BY <2>1, OpensKnowing DEF Loudness!Unlocked
  <2>4. LoudTurnOK' /\ PassIsRecord(build') /\ build'.reconciled = build.reconciled
    BY <2>2, <2>3, LoudTurnStays DEF LoudInv, FollowedOK
  <2> QED
    BY <2>2, <2>3, <2>4, LoudQuiet
<1>3. CASE Loudness!EdgePublished
  <2>1. UNCHANGED <<live, build, builder>> /\ lock.by = "edge" /\ Loudness!Publish
    BY <1>3 DEF Loudness!EdgePublished, Loudness!world
  <2>2. LoudTurnOK'
    BY <2>1, LoudTurnStays
  <2> QED
    BY <2>1, <2>2, PublishFollows
<1>4. CASE Loudness!EdgeLosesIt
  <2>1. /\ UNCHANGED <<live, results, state, build, builder>> /\ lock.by = "edge"
        /\ lock'.by = "nobody"
    BY <1>4 DEF Loudness!EdgeLosesIt, Loudness!world, Loudness!stored, Loudness!Unlocked
  <2>2. LoudTurnOK' /\ PassIsRecord(build') /\ build'.reconciled = build.reconciled
    BY <2>1, LoudTurnStays DEF LoudInv, FollowedOK
  <2> QED
    BY <2>1, <2>2, LoudQuiet
<1> QED
  BY <1>1, <1>2, <1>3, <1>4 DEF Loudness!EdgeStep

LEMMA LoudSame ==
  ASSUME LoudInv, UNCHANGED <<live, results, state, build, lock, builder>>
  PROVE  LoudInv'
<1>1. LoudTurnOK' /\ PassIsRecord(build') /\ build'.reconciled = build.reconciled
  BY LoudTurnStays DEF LoudInv, FollowedOK
<1> QED
  BY <1>1, LoudQuiet

(* Once the turn has followed a generation of the catalogue, the record of an  *)
(* album is of exactly the members and media it has now, and an album whose    *)
(* members are all measured and not all silent has one, although the edge      *)
(* pass, the turn and the catalogue move between a publication's statements    *)
(* (_refresh_albums and reconcile of loudness_stream.py).                      *)
THEOREM AlbumsStayFollowed == SuiteSpec => []AlbumsFollowCatalogue
<1> DEFINE Inv == focus \in {"measuring", "loudness"} => LoudInv
<1>1. ASSUME SuiteInit PROVE Inv
  BY <1>1, LoudBegins DEF SuiteInit
<1>2. ASSUME Inv, [SuiteNext]_all PROVE Inv'
  <2>1. CASE SuiteNext
    <3>1. focus' = focus
      BY <2>1 DEF SuiteNext
    <3>2. CASE focus = "measuring"
      <4>1. LoudInv /\ Measuring
        BY <1>2, <2>1, <3>2 DEF SuiteNext
      <4> QED
        BY <4>1, CatalogueMoves, LoudTurnStep, LoudEdgeStep DEF Measuring
    <3>3. CASE focus = "loudness"
      <4>1. LoudInv /\ Following
        BY <1>2, <2>1, <3>3 DEF SuiteNext
      <4>2. Loudness!ReaderStep => UNCHANGED <<live, results, state, build, lock, builder>>
        BY DEF Loudness!ReaderStep, Loudness!world, Loudness!stored
      <4> QED
        BY <4>1, <4>2, CatalogueMoves, LoudTurnStep, LoudSame DEF Following
    <3> QED
      BY <3>1, <3>2, <3>3
  <2>2. CASE UNCHANGED all
    <3>1. UNCHANGED <<live, results, state, build, lock, builder>> /\ focus' = focus
      BY <2>2 DEF all, vars, durable, inputs
    <3> QED
      BY <1>2, <3>1, LoudSame
  <2> QED
    BY <1>2, <2>1, <2>2
<1>3. Inv => AlbumsFollowCatalogue
  BY LoudFollows DEF AlbumsFollowCatalogue, InLoudness
<1> QED
  BY <1>1, <1>2, <1>3, PTL DEF SuiteSpec

-----------------------------------------------------------------------------
(* The client of the loudness records.  A journal J of events of several      *)
(* kinds, by their numbers, for the rows R that are published of kind k, by    *)
(* their ids.                                                                 *)

\* No event after number n is about row i.
Silence(J, k, n, i) == \A m \in DOMAIN J : m > n => ~(J[m].kind = k /\ J[m].id = i)

\* The last event about a row says what it is.
Tells(J, k, R, ids) ==
    \A m \in DOMAIN J :
      J[m].kind = k /\ J[m].id \in ids /\ Silence(J, k, m, J[m].id) => J[m].value = R[J[m].id]

\* Rows read up to number n: those seen are right where no event is missing, the
\* others are still to come.
Reads(J, k, R, ids, held, n, seen) ==
    /\ held = [i \in ids |-> held[i]]
    /\ \A i \in ids : IF i \in seen THEN Silence(J, k, n, i) => held[i] = R[i] ELSE held[i] = None

\* A journal on f+1..h becomes one on g+1..h+d: events come, and old ones go.
Lengthens(J, K, D, f, g, h, d) ==
    /\ f \in Nat /\ g \in Nat /\ h \in Nat /\ d \in Nat /\ f <= g
    /\ DOMAIN J = f + 1..h
    /\ K = [n \in g + 1..h + d |-> IF n <= h THEN J[n] ELSE D[n - h]]

\* The new events of kind k are those of the rows that change.
Changes(D, d, k, R, new, ids) ==
    /\ \A m \in 1..d : D[m].kind = k /\ D[m].id \in ids => D[m].value = new[D[m].id]
    /\ \A i \in ids : R[i] # new[i] => \E m \in 1..d : D[m].kind = k /\ D[m].id = i

LEMMA AppendTells ==
  ASSUME NEW f, NEW g, NEW h, NEW d, NEW J, NEW D, NEW K, Lengthens(J, K, D, f, g, h, d),
         NEW k, NEW R, NEW new, NEW ids, Tells(J, k, R, ids), Changes(D, d, k, R, new, ids)
  PROVE  /\ Tells(K, k, new, ids)
         /\ \A held, seen : \A n \in Nat : n >= g /\ n <= h =>
              (Reads(J, k, R, ids, held, n, seen) => Reads(K, k, new, ids, held, n, seen))
<1>0. /\ f \in Nat /\ g \in Nat /\ h \in Nat /\ d \in Nat /\ f <= g
      /\ DOMAIN J = f + 1..h
      /\ K = [n \in g + 1..h + d |-> IF n <= h THEN J[n] ELSE D[n - h]]
  BY DEF Lengthens
<1>1. /\ DOMAIN K = g + 1..h + d
      /\ \A m \in g + 1..h : m \in DOMAIN K /\ m \in DOMAIN J /\ K[m] = J[m]
      /\ \A m \in 1..d : h + m > g => h + m \in DOMAIN K /\ K[h + m] = D[m]
      /\ \A m \in DOMAIN K : m > h => m - h \in 1..d /\ K[m] = D[m - h]
  <2>1. ASSUME NEW m \in 1..d, h + m > g PROVE h + m \in g + 1..h + d /\ ~(h + m <= h) /\ (h + m) - h = m
    BY <1>0, <2>1
  <2>2. DOMAIN K = g + 1..h + d
    BY <1>0
  <2>3. \A m \in g + 1..h : m \in g + 1..h + d /\ m \in f + 1..h /\ m <= h
    BY <1>0
  <2>4. ASSUME NEW m \in g + 1..h + d, m > h PROVE m - h \in 1..d /\ ~(m <= h)
    BY <1>0, <2>4
  <2>5. ASSUME NEW m \in 1..d, h + m > g PROVE h + m \in DOMAIN K /\ K[h + m] = D[m]
    BY <1>0, <2>1, <2>2, <2>5
  <2> QED
    BY <1>0, <2>2, <2>3, <2>4, <2>5
<1>2. ASSUME NEW q \in Nat, q >= g, q <= h, NEW i \in ids, Silence(K, k, q, i)
      PROVE  Silence(J, k, q, i) /\ new[i] = R[i]
  <2>1. \A m \in DOMAIN J : m > q => m \in g + 1..h
    BY <1>0, <1>2
  <2>2. Silence(J, k, q, i)
    BY <1>1, <1>2, <2>1 DEF Silence
  <2>3. \A m \in 1..d : h + m > q /\ h + m > g
    BY <1>0, <1>2
  <2>4. ASSUME NEW m \in 1..d PROVE ~(D[m].kind = k /\ D[m].id = i)
    <3>1. PICK e : e = h + m
      OBVIOUS
    <3>2. e \in DOMAIN K /\ K[e] = D[m] /\ e > q
      BY <1>1, <2>3, <3>1
    <3> QED
      BY <1>2, <3>2 DEF Silence
  <2> QED
    BY <2>2, <2>4 DEF Changes
<1>3. ASSUME NEW m \in DOMAIN K, K[m].kind = k, K[m].id \in ids, Silence(K, k, m, K[m].id)
      PROVE  K[m].value = new[K[m].id]
  <2>1. CASE m <= h
    <3>1. m \in g + 1..h /\ m \in Nat /\ m >= g
      BY <1>0, <1>1, <2>1
    <3>2. K[m] = J[m] /\ m \in DOMAIN J
      BY <1>1, <3>1
    <3>3. Silence(J, k, m, J[m].id) /\ new[J[m].id] = R[J[m].id]
      BY <1>2, <1>3, <2>1, <3>1, <3>2
    <3> QED
      BY <1>3, <3>2, <3>3 DEF Tells
  <2>2. CASE m > h
    BY <1>1, <1>3, <2>2 DEF Changes
  <2>3. m <= h \/ m > h
    BY <1>0, <1>1
  <2> QED
    BY <2>1, <2>2, <2>3
<1>4. Tells(K, k, new, ids)
  BY <1>3 DEF Tells
<1>5. ASSUME NEW held, NEW seen, NEW q \in Nat, q >= g, q <= h, Reads(J, k, R, ids, held, q, seen)
      PROVE  Reads(K, k, new, ids, held, q, seen)
  BY <1>2, <1>5 DEF Reads
<1> QED
  BY <1>4, <1>5

LEMMA LoudGreatest ==
  ASSUME NEW S \in SUBSET Nat, S # {}, NEW b \in Nat, \A x \in S : x <= b
  PROVE  Loudness!Max(S) \in S /\ \A n \in S : n <= Loudness!Max(S)
<1>1. PICK m \in S : \A n \in S : n <= m
  BY NaturalsHaveGreatest
<1>2. \E x \in S : \A y \in S : x >= y
  BY <1>1
<1> QED
  BY <1>2 DEF Loudness!Max

LEMMA LeastOfTwo ==
  ASSUME NEW a \in Nat, NEW b \in Nat
  PROVE  Loudness!Min({a, b}) = IF a <= b THEN a ELSE b
<1>1. CASE a <= b
  <2>1. \A x \in {a, b} : (\A y \in {a, b} : x <= y) <=> x = a
    BY <1>1
  <2> QED
    BY <1>1, <2>1 DEF Loudness!Min
<1>2. CASE ~(a <= b)
  <2>1. \A x \in {a, b} : (\A y \in {a, b} : x <= y) <=> x = b
    BY <1>2
  <2> QED
    BY <1>2, <2>1 DEF Loudness!Min
<1> QED
  BY <1>1, <1>2

\* Events applied up to number l leave the rows read up to number l.
NewsApplied(J, k, held, n, l) ==
    LET news(i) == {m \in n + 1..l : J[m].kind = k /\ J[m].id = i}
    IN  [i \in DOMAIN held |-> IF news(i) = {} THEN held[i] ELSE J[Loudness!Max(news(i))].value]

LEMMA AppliedRows ==
  ASSUME NEW f \in Nat, NEW h \in Nat, NEW J, DOMAIN J = f + 1..h,
         NEW k, NEW R, NEW ids, Tells(J, k, R, ids), NEW held,
         NEW n \in Nat, NEW l \in Nat, f <= n, n <= l, l <= h, Reads(J, k, R, ids, held, n, ids)
  PROVE  Reads(J, k, R, ids, NewsApplied(J, k, held, n, l), l, ids)
<1> DEFINE news(i) == {m \in n + 1..l : J[m].kind = k /\ J[m].id = i}
           value(i) == IF news(i) = {} THEN held[i] ELSE J[Loudness!Max(news(i))].value
           new == [i \in DOMAIN held |-> value(i)]
<1>1. \A m \in n + 1..l : m \in DOMAIN J /\ m \in Nat /\ m > n /\ m <= l
  OBVIOUS
<1>2. ASSUME NEW i \in ids, Silence(J, k, l, i) PROVE value(i) = R[i]
  <2>1. CASE news(i) = {}
    <3>1. \A m \in DOMAIN J : m > n => m \in n + 1..l \/ m > l
      OBVIOUS
    <3>2. Silence(J, k, n, i)
      BY <1>2, <2>1, <3>1 DEF Silence
    <3> QED
      BY <2>1, <3>2 DEF Reads
  <2>2. CASE news(i) # {}
    <3>1. PICK m : m = Loudness!Max(news(i))
      OBVIOUS
    <3>2. m \in news(i) /\ \A j \in news(i) : j <= m
      <4>1. news(i) \in SUBSET Nat /\ \A j \in news(i) : j <= l
        BY <1>1
      <4> HIDE DEF news
      <4> QED
        BY <2>2, <3>1, <4>1, LoudGreatest
    <3>3. m \in n + 1..l /\ m \in DOMAIN J /\ J[m].kind = k /\ J[m].id = i
      BY <1>1, <3>2
    <3>4. ASSUME NEW j \in DOMAIN J, j > m, J[j].kind = k, J[j].id = i PROVE FALSE
      <4>1. j \in n + 1..l \/ j > l
        BY <3>3, <3>4
      <4>2. ~(j > l)
        BY <1>2, <3>4 DEF Silence
      <4>3. j \in news(i) /\ ~(j <= m)
        BY <3>3, <3>4, <4>1, <4>2
      <4> QED
        BY <3>2, <4>3
    <3>5. Silence(J, k, m, i)
      BY <3>4 DEF Silence
    <3>6. J[m].value = R[i]
      BY <3>3, <3>5 DEF Tells
    <3> QED
      BY <2>2, <3>1, <3>6
  <2> QED
    BY <2>1, <2>2
<1>3. DOMAIN held = ids
  BY DEF Reads
<1> HIDE DEF value
<1>4. new = [i \in ids |-> new[i]] /\ \A i \in ids : Silence(J, k, l, i) => new[i] = R[i]
  BY <1>2, <1>3
<1>5. Reads(J, k, R, ids, new, l, ids)
  BY <1>4 DEF Reads
<1> QED
  BY <1>5 DEF value, NewsApplied

LEMMA LoudCardinality == ASSUME NEW S PROVE Loudness!Cardinality(S) = Cardinality(S)
BY DEF Loudness!Cardinality, Cardinality

\* A page is the first of the rows, as many as there is room for.
Before(rows, i) == {j \in rows : j < i}
FirstOf(rows, room) == {i \in rows : Cardinality(Before(rows, i)) < room}

LEMMA PageIsFirst ==
  ASSUME NEW rows \in SUBSET Nat, IsFiniteSet(rows), NEW room \in Nat \ {0},
         NEW page, page = FirstOf(rows, room)
  PROVE  /\ IsFiniteSet(page) /\ Cardinality(page) \in Nat /\ Cardinality(page) <= room
         /\ page # rows => /\ Loudness!Max(page) \in page
                           /\ \A i \in rows : i <= Loudness!Max(page) => i \in page
<1>1. \A i : /\ Before(rows, i) \subseteq rows /\ IsFiniteSet(Before(rows, i))
            /\ Cardinality(Before(rows, i)) \in Nat
  BY FS_Subset, FS_CardinalityType DEF Before
<1>2. page \subseteq rows /\ \A i \in rows : i \in page <=> Cardinality(Before(rows, i)) < room
  BY DEF FirstOf
<1>3. IsFiniteSet(page) /\ Cardinality(page) \in Nat
  BY <1>2, FS_Subset, FS_CardinalityType
<1>4. ASSUME page # {}
      PROVE  Loudness!Max(page) \in page /\ \A i \in page : i <= Loudness!Max(page)
  <2>1. PICK b \in Nat : \A x \in page : x <= b
    BY <1>2, <1>3, <1>4, FiniteIsBounded
  <2> QED
    BY <1>2, <1>4, <2>1, LoudGreatest
<1>5. ASSUME page # {} PROVE Cardinality(page) <= room
  <2>1. PICK p \in page : \A i \in page : i <= p
    BY <1>4, <1>5
  <2>2. p \in Nat /\ p \notin Before(rows, p)
    BY <1>2 DEF Before
  <2>3. page \subseteq Before(rows, p) \cup {p}
    <3>1. ASSUME NEW i \in page, i # p PROVE i < p
      BY <1>2, <2>1, <3>1
    <3> QED
      BY <1>2, <3>1 DEF Before
  <2>4. Cardinality(Before(rows, p)) < room
    BY <1>2
  <2>5. IsFiniteSet(Before(rows, p) \cup {p}) /\ Cardinality(Before(rows, p) \cup {p}) = Cardinality(Before(rows, p)) + 1
    BY <1>1, <2>2, FS_AddElement
  <2>6. Cardinality(page) <= Cardinality(Before(rows, p) \cup {p})
    BY <2>3, <2>5, FS_Subset
  <2> QED
    BY <1>1, <1>3, <2>4, <2>5, <2>6
<1>6. ASSUME page = {} PROVE Cardinality(page) <= room
  BY <1>6, FS_EmptySet
<1>7. ASSUME page # rows PROVE page # {}
  <2>1. CASE rows = {}
    BY <1>2, <1>7, <2>1
  <2>2. CASE rows # {}
    <3>1. PICK l \in rows : \A j \in rows : l <= j
      BY <2>2, NaturalsHaveLeast
    <3>2. \A j \in rows : ~(j < l)
      BY <3>1
    <3>3. Before(rows, l) = {}
      BY <3>2 DEF Before
    <3>4. Cardinality(Before(rows, l)) = 0
      BY <3>3, FS_EmptySet
    <3> QED
      BY <1>2, <3>1, <3>4
  <2> QED
    BY <2>1, <2>2
<1>8. ASSUME NEW p \in page, NEW i \in rows, i <= p PROVE i \in page
  <2>1. Before(rows, i) \subseteq Before(rows, p)
    <3>1. p \in Nat /\ i \in Nat /\ \A j \in rows : j \in Nat
      BY <1>2
    <3>2. \A j \in rows : j < i => j < p
      BY <1>8, <3>1
    <3> QED
      BY <3>2 DEF Before
  <2>2. Cardinality(Before(rows, i)) <= Cardinality(Before(rows, p)) /\ Cardinality(Before(rows, p)) < room
    BY <1>1, <1>2, <2>1, FS_Subset
  <2> QED
    BY <1>1, <1>2, <2>2
<1> QED
  BY <1>3, <1>4, <1>5, <1>6, <1>7, <1>8

\* After a page the rows up to its last are read, or all of them when it has the rest.
NotBeyond(ids, x) == {i \in ids : i <= x}
RowsAfter(R, ids, x) == {i \in ids : i > x /\ R[i] # None}
TakenFrom(page, R, copy, ids) == [i \in ids |-> IF i \in page THEN R[i] ELSE copy[i]]

LEMMA PageRead ==
  ASSUME NEW ids \in SUBSET Nat, IsFiniteSet(ids), NEW J, NEW k, NEW R, NEW copy, NEW n,
         NEW after \in Nat, NEW room \in Nat \ {0},
         Reads(J, k, R, ids, copy, n, NotBeyond(ids, after)),
         NEW rows, rows = RowsAfter(R, ids, after), NEW page, page = FirstOf(rows, room)
  PROVE  Reads(J, k, R, ids, TakenFrom(page, R, copy, ids), n,
               IF page # rows THEN NotBeyond(ids, Loudness!Max(page)) ELSE ids)
<1> DEFINE seen == IF page # rows THEN {i \in ids : i <= Loudness!Max(page)} ELSE ids
           new == TakenFrom(page, R, copy, ids)
<1>0. /\ rows = {i \in ids : i > after /\ R[i] # None}
      /\ new = [i \in ids |-> IF i \in page THEN R[i] ELSE copy[i]]
      /\ Reads(J, k, R, ids, copy, n, {i \in ids : i <= after})
  BY DEF RowsAfter, TakenFrom, NotBeyond
<1>1. rows \in SUBSET Nat /\ IsFiniteSet(rows)
  <2>1. rows \subseteq ids
    BY <1>0
  <2> QED
    BY <2>1, FS_Subset
<1>2. page \subseteq rows
  BY DEF FirstOf
<1>3. page # rows => /\ Loudness!Max(page) \in page
                     /\ \A i \in rows : i <= Loudness!Max(page) => i \in page
  BY <1>1, PageIsFirst
<1>4. ASSUME NEW i \in ids, i \in seen, Silence(J, k, n, i) PROVE new[i] = R[i]
  <2>1. CASE i \in page
    BY <1>0, <2>1
  <2>2. CASE i \notin page /\ i <= after
    BY <1>0, <1>4, <2>2 DEF Reads
  <2>3. CASE i \notin page /\ i > after
    <3>1. i \notin rows
      BY <1>3, <1>4, <2>3
    <3>2. R[i] = None /\ copy[i] = None
      BY <1>0, <2>3, <3>1 DEF Reads
    <3> QED
      BY <1>0, <2>3, <3>2
  <2> QED
    BY <2>1, <2>2, <2>3
<1>5. ASSUME NEW i \in ids, i \notin seen PROVE new[i] = None
  <2>1. page # rows /\ ~(i <= Loudness!Max(page)) /\ Loudness!Max(page) \in rows
    BY <1>2, <1>3, <1>5
  <2>2. Loudness!Max(page) > after /\ Loudness!Max(page) \in Nat
    BY <1>0, <2>1
  <2>3. i > after
    BY <2>1, <2>2
  <2>4. i \notin page
    <3>1. PICK b \in Nat : \A x \in rows : x <= b
      BY <1>1, <2>1, FiniteIsBounded
    <3>2. \A x \in page : x <= Loudness!Max(page)
      BY <1>1, <1>2, <1>3, <2>1, <3>1, LoudGreatest
    <3> QED
      BY <2>1, <3>2
  <2> QED
    BY <1>0, <2>3, <2>4 DEF Reads
<1>6. new = [i \in ids |-> new[i]]
  BY <1>0
<1> HIDE DEF seen
<1>7. Reads(J, k, R, ids, new, n, seen)
  BY <1>0, <1>4, <1>5, <1>6 DEF Reads
<1> QED
  BY <1>7 DEF seen, NotBeyond

\* A finite set as a sequence: all its elements, and no other.
LEMMA SetAsSequence ==
  ASSUME NEW S, IsFiniteSet(S)
  PROVE  /\ Loudness!SetToSeq(S) \in Seq(S)
         /\ \A x \in S : \E m \in 1..Len(Loudness!SetToSeq(S)) : Loudness!SetToSeq(S)[m] = x
<1>1. PICK n : n = Cardinality(S)
  OBVIOUS
<1>2. n \in Nat /\ Bijection(1..n, S) # {}
  BY <1>1, FS_CardinalityType DEF ExistsBijection
<1>3. \E f \in [1..n -> S] : \A a, b \in DOMAIN f : f[a] = f[b] => a = b
  BY <1>2 DEF Bijection, Injection, IsInjective
<1>4. PICK f : f = CHOOSE g \in [1..n -> S] : \A a, b \in DOMAIN g : g[a] = g[b] => a = b
  OBVIOUS
<1>5. f \in [1..n -> S] /\ \A a, b \in DOMAIN f : f[a] = f[b] => a = b
  BY <1>3, <1>4
<1>6. Loudness!SetToSeq(S) = f
  BY <1>1, <1>4, LoudCardinality DEF Loudness!SetToSeq, Loudness!IsInjective
<1>7. f \in Injection(1..n, S)
  BY <1>5 DEF Injection, IsInjective
<1>8. Cardinality(1..n) = n
  BY <1>2, FS_Interval
<1>9. f \in Surjection(1..n, S)
  BY <1>1, <1>7, <1>8, FS_Injection
<1>10. f \in Seq(S) /\ Len(f) = n
  BY <1>2, <1>5
<1> QED
  BY <1>6, <1>9, <1>10 DEF Surjection

\* The events of a publication for one kind of rows.
LEMMA DifferencesTell ==
  ASSUME NEW kind, NEW ids, IsFiniteSet(ids), NEW old, NEW new,
         NEW D, D = Loudness!Differences(kind, ids, old, new)
  PROVE  /\ \E S : D \in Seq(S)
         /\ Len(D) \in Nat
         /\ \A m \in 1..Len(D) : D[m].kind = kind /\ D[m].id \in ids /\ D[m].value = new[D[m].id]
         /\ \A i \in ids : old[i] # new[i] => \E m \in 1..Len(D) : D[m].kind = kind /\ D[m].id = i
<1> DEFINE differ == {j \in ids : old[j] # new[j]}
           event(i) == [kind |-> kind, id |-> i, value |-> new[i]]
           S == {event(i) : i \in differ}
           f == [i \in differ |-> event(i)]
<1>2. IsFiniteSet(differ)
  BY FS_Subset
<1>3. f \in Surjection(differ, S)
  BY DEF Surjection
<1>4. IsFiniteSet(S)
  <2> HIDE DEF f, S, differ
  <2> QED
    BY <1>2, <1>3, FS_Surjection
<1>5. D = Loudness!SetToSeq(S)
  BY DEF Loudness!Differences, Loudness!Event
<1>6. D \in Seq(S) /\ \A x \in S : \E m \in 1..Len(D) : D[m] = x
  <2> HIDE DEF S
  <2> QED
    BY <1>4, <1>5, SetAsSequence
<1>7. \A m \in 1..Len(D) : D[m] \in S
  <2> HIDE DEF S
  <2> QED
    BY <1>6
<1>8. \A x \in S : x.kind = kind /\ x.id \in ids /\ x.value = new[x.id]
  OBVIOUS
<1>9. \A i \in differ : event(i) \in S /\ event(i).kind = kind /\ event(i).id = i
  OBVIOUS
<1> HIDE DEF S, event
<1>10. ASSUME NEW i \in ids, old[i] # new[i] PROVE \E m \in 1..Len(D) : D[m].kind = kind /\ D[m].id = i
  <2>1. event(i) \in S /\ event(i).kind = kind /\ event(i).id = i
    BY <1>9, <1>10
  <2>2. PICK m \in 1..Len(D) : D[m] = event(i)
    BY <1>6, <2>1
  <2> QED
    BY <2>1, <2>2
<1>11. Len(D) \in Nat
  BY <1>6
<1> QED
  BY <1>6, <1>7, <1>8, <1>10, <1>11

\* The journal tells of both kinds of rows; `claims` is the stream's state row.
LoudFeed ==
    /\ claims.epoch \in Nat /\ claims.head \in Nat /\ claims.floor \in Nat
    /\ claims.floor <= claims.head
    /\ DOMAIN journal = claims.floor + 1..claims.head
    /\ Tells(journal, "track", results, Entities) /\ Tells(journal, "album", state, Groups)

\* What a client has read: the rows up to the last of its last page, first of the
\* tracks and then of the albums.
TracksSeen(r) == {i \in Entities : r.at \in {"tracks", "tracksLeft"} => i <= r.after}
AlbumsSeen(r) == {i \in Groups : /\ r.at \notin {"tracks", "tracksLeft"}
                                 /\ r.at \in {"albums", "albumsLeft"} => i <= r.after}
TracksRead(r) == Reads(journal, "track", results, Entities, r.track, r.cursor, TracksSeen(r))
AlbumsRead(r) == Reads(journal, "album", state, Groups, r.album, r.cursor, AlbumsSeen(r))
HasFields(r) == /\ "at" \in DOMAIN r /\ "epoch" \in DOMAIN r /\ "cursor" \in DOMAIN r
                /\ "after" \in DOMAIN r /\ "room" \in DOMAIN r
                /\ "track" \in DOMAIN r /\ "album" \in DOMAIN r
LoudCopyOK(r) ==
    /\ HasFields(r) /\ r.at \in {"tracks", "tracksLeft", "albums", "albumsLeft", "following"}
    /\ DOMAIN r.track = Entities /\ DOMAIN r.album = Groups
    /\ r.epoch \in Nat /\ r.cursor \in Nat /\ r.after \in Nat /\ r.room \in Nat
    /\ r.at = "tracks" => r.room = PageLimit
    /\ r.at = "albums" => r.room # 0
    /\ r.epoch <= claims.epoch
    /\ r.epoch = claims.epoch => r.cursor <= claims.head

\* What a client may still get below its cursor is only what the journal still has.
LoudReaderOK(r) ==
    \/ r = Loudness!Away
    \/ /\ LoudCopyOK(r)
       /\ r.epoch = claims.epoch /\ r.cursor >= claims.floor => TracksRead(r) /\ AlbumsRead(r)

LoudFeedInv == LoudFeed /\ LoudReaderOK(reader)

LEMMA LoudConstants ==
  /\ IsFiniteSet(Entities) /\ IsFiniteSet(Groups)
  /\ Entities \in SUBSET Nat /\ Groups \in SUBSET Nat
  /\ \A i \in Entities \cup Groups : ~(i <= 0)
  /\ Retain \in Nat /\ Retain >= 1 /\ PageLimit \in Nat /\ PageLimit >= 1
<1>1. Loudness!LoudnessBounds
  BY BoundsHold
<1>2. /\ IsFiniteSet(Entities) /\ IsFiniteSet(Groups)
      /\ Entities \subseteq Nat \ {0} /\ Groups \subseteq Nat \ {0}
      /\ Retain \in Nat \ {0} /\ PageLimit \in Nat \ {0}
  BY <1>1 DEF Loudness!LoudnessBounds, IsFiniteSet, Loudness!IsFiniteSet
<1>3. \A i \in Nat \ {0} : ~(i <= 0) /\ i >= 1
  OBVIOUS
<1>4. Entities \in SUBSET Nat /\ Groups \in SUBSET Nat
  BY <1>2
<1> QED
  BY <1>2, <1>3, <1>4

LEMMA LoudFinite == IsFiniteSet(Entities) /\ IsFiniteSet(Groups)
BY LoudConstants

LEMMA LoudFeedBegins == ASSUME Loudness!Init PROVE LoudFeedInv
<1>1. claims = [epoch |-> 1, head |-> 0, floor |-> 0] /\ DOMAIN journal = {} /\ reader = Loudness!Away
  BY DEF Loudness!Init, Loudness!NoEvents
<1>2. claims.epoch = 1 /\ claims.head = 0 /\ claims.floor = 0
  BY <1>1
<1> QED
  BY <1>1, <1>2 DEF LoudFeedInv, LoudFeed, LoudReaderOK, Tells

LEMMA LoudFeedHolds == ASSUME LoudInv, LoudFeedInv PROVE Loudness!FollowersHoldRecords
<1> SUFFICES ASSUME reader.at = "following", reader.epoch = claims.epoch, reader.cursor = claims.head
             PROVE  reader.track = results /\ reader.album = state
  BY DEF Loudness!FollowersHoldRecords, Loudness!SameEpoch
<1>1. claims.head \in Nat /\ claims.floor \in Nat /\ claims.floor <= claims.head
      /\ DOMAIN journal = claims.floor + 1..claims.head
  BY DEF LoudFeedInv, LoudFeed
<1>2. TracksRead(reader) /\ AlbumsRead(reader)
  BY <1>1 DEF LoudFeedInv, LoudReaderOK, Loudness!Away
<1>3. \A k, i : Silence(journal, k, claims.head, i)
  BY <1>1 DEF Silence
<1>4. TracksSeen(reader) = Entities /\ AlbumsSeen(reader) = Groups
  BY DEF TracksSeen, AlbumsSeen
<1>5. reader.track = [t \in Entities |-> results[t]] /\ reader.album = [a \in Groups |-> state[a]]
  BY <1>2, <1>3, <1>4 DEF TracksRead, AlbumsRead, Reads
<1> QED
  BY <1>5 DEF LoudInv, LoudRows

\* A publication leaves the journal telling, and the clients right.
LEMMA CommitTells ==
  ASSUME LoudFeedInv, NEW recs, NEW albs, Loudness!Commit(recs, albs), UNCHANGED reader
  PROVE  LoudFeedInv'
<1>1. PICK D : D = Loudness!Differences("track", Entities, results, recs)
  OBVIOUS
<1>2. PICK E : E = Loudness!Differences("album", Groups, state, albs)
  OBVIOUS
<1>3. PICK C : C = D \o E
  OBVIOUS
<1>4. PICK f, h, g, d : f = claims.floor /\ h = claims.head /\ g = claims'.floor /\ d = Len(C)
  OBVIOUS
<1>5. /\ \E S : D \in Seq(S)
      /\ \A m \in 1..Len(D) : D[m].kind = "track" /\ D[m].id \in Entities /\ D[m].value = recs[D[m].id]
      /\ \A i \in Entities : results[i] # recs[i] =>
           \E m \in 1..Len(D) : D[m].kind = "track" /\ D[m].id = i
  BY <1>1, DifferencesTell, LoudFinite
<1>6. /\ \E S : E \in Seq(S)
      /\ \A m \in 1..Len(E) : E[m].kind = "album" /\ E[m].id \in Groups /\ E[m].value = albs[E[m].id]
      /\ \A i \in Groups : state[i] # albs[i] =>
           \E m \in 1..Len(E) : E[m].kind = "album" /\ E[m].id = i
  BY <1>2, DifferencesTell, LoudFinite
\* First the tracks' events, then the albums'.
<1>7. PICK nd, ne : nd = Len(D) /\ ne = Len(E)
  OBVIOUS
<1>8. /\ nd \in Nat /\ ne \in Nat /\ d = nd + ne
      /\ \A m \in 1..nd : m \in 1..d /\ C[m] = D[m]
      /\ \A m \in 1..ne : nd + m \in 1..d /\ C[nd + m] = E[m]
      /\ \A m \in 1..d : m \in 1..nd \/ (m - nd \in 1..ne /\ C[m] = E[m - nd])
  <2>1. PICK A : D \in Seq(A)
    BY <1>5
  <2>2. PICK B : E \in Seq(B)
    BY <1>6
  <2>3. D \in Seq(A \cup B) /\ E \in Seq(A \cup B)
    BY <2>1, <2>2
  <2>4. nd \in Nat /\ ne \in Nat /\ d = nd + ne
    BY <1>3, <1>4, <1>7, <2>3
  <2>5. \A m \in 1..nd : m \in 1..d /\ C[m] = D[m]
    BY <1>3, <1>7, <2>3, <2>4
  <2>6. \A m \in 1..d : m \in 1..nd \/ (m - nd \in 1..ne /\ C[m] = E[m - nd])
    BY <1>3, <1>7, <2>3, <2>4
  <2>7. \A m \in 1..ne : nd + m \in 1..d /\ ~(nd + m \in 1..nd) /\ (nd + m) - nd = m
    BY <2>4
  <2> QED
    BY <2>4, <2>5, <2>6, <2>7
<1>9. Changes(C, d, "track", results, recs, Entities)
  <2>1. ASSUME NEW m \in 1..d, C[m].kind = "track" PROVE C[m].value = recs[C[m].id]
    <3>1. m \in 1..nd
      BY <1>6, <1>7, <1>8, <2>1
    <3> QED
      BY <1>5, <1>7, <1>8, <3>1
  <2>2. ASSUME NEW i \in Entities, results[i] # recs[i]
        PROVE  \E m \in 1..d : C[m].kind = "track" /\ C[m].id = i
    <3>1. PICK m \in 1..nd : D[m].kind = "track" /\ D[m].id = i
      BY <1>5, <1>7, <2>2
    <3> QED
      BY <1>8, <3>1
  <2> QED
    BY <2>1, <2>2 DEF Changes
<1>10. Changes(C, d, "album", state, albs, Groups)
  <2>1. ASSUME NEW m \in 1..d, C[m].kind = "album" PROVE C[m].value = albs[C[m].id]
    <3>1. m - nd \in 1..ne /\ C[m] = E[m - nd]
      BY <1>5, <1>7, <1>8, <2>1
    <3> QED
      BY <1>6, <1>7, <3>1
  <2>2. ASSUME NEW i \in Groups, state[i] # albs[i]
        PROVE  \E m \in 1..d : C[m].kind = "album" /\ C[m].id = i
    <3>1. PICK m \in 1..ne : E[m].kind = "album" /\ E[m].id = i
      BY <1>6, <1>7, <2>2
    <3> QED
      BY <1>8, <3>1
  <2> QED
    BY <2>1, <2>2 DEF Changes
<1>11. /\ f \in Nat /\ h \in Nat /\ f <= h /\ DOMAIN journal = f + 1..h /\ claims.epoch \in Nat
       /\ Tells(journal, "track", results, Entities) /\ Tells(journal, "album", state, Groups)
  BY <1>4 DEF LoudFeedInv, LoudFeed
<1>12. /\ results' = recs /\ state' = albs
       /\ claims' = [epoch |-> claims.epoch, head |-> h + d,
                     floor |-> IF C = << >> \/ h + d <= f + Retain THEN f
                               ELSE Loudness!Min({(h + d) - Retain, f + 1})]
       /\ journal' = [n \in claims'.floor + 1..h + d |-> IF n <= h THEN journal[n] ELSE C[n - h]]
  BY <1>1, <1>2, <1>3, <1>4 DEF Loudness!Commit
<1>13. claims'.epoch = claims.epoch /\ claims'.head = h + d
  BY <1>12
<1>14. g \in Nat /\ f <= g /\ g <= h + d
  <2>1. CASE C = << >> \/ h + d <= f + Retain
    BY <1>4, <1>8, <1>11, <1>12, <2>1
  <2>2. CASE ~(C = << >> \/ h + d <= f + Retain)
    <3>1. PICK x : x = (h + d) - Retain
      OBVIOUS
    <3>2. d \in Nat
      BY <1>8
    <3>3. x \in Nat /\ f + 1 <= x /\ x <= h + d /\ f + 1 \in Nat
      BY <1>11, <2>2, <3>1, <3>2, LoudConstants
    <3>4. g = Loudness!Min({x, f + 1})
      BY <1>4, <1>12, <2>2, <3>1
    <3> QED
      BY <1>11, <3>2, <3>3, <3>4, LeastOfTwo
  <2> QED
    BY <2>1, <2>2
<1>15. PICK K : K = journal'
  OBVIOUS
<1>16. d \in Nat /\ K = [n \in g + 1..h + d |-> IF n <= h THEN journal[n] ELSE C[n - h]]
  BY <1>4, <1>8, <1>12, <1>15
<1>17. Lengthens(journal, K, C, f, g, h, d)
  BY <1>11, <1>14, <1>16 DEF Lengthens
<1>18. /\ Tells(K, "track", recs, Entities)
       /\ \A held, seen : \A n \in Nat : n >= g /\ n <= h =>
            (Reads(journal, "track", results, Entities, held, n, seen)
               => Reads(K, "track", recs, Entities, held, n, seen))
  BY <1>9, <1>11, <1>17, AppendTells
<1>19. /\ Tells(K, "album", albs, Groups)
       /\ \A held, seen : \A n \in Nat : n >= g /\ n <= h =>
            (Reads(journal, "album", state, Groups, held, n, seen)
               => Reads(K, "album", albs, Groups, held, n, seen))
  BY <1>10, <1>11, <1>17, AppendTells
<1>20. LoudFeed'
  <2>1. DOMAIN K = g + 1..h + d /\ h + d \in Nat
    BY <1>11, <1>16
  <2> QED
    BY <1>4, <1>11, <1>12, <1>13, <1>14, <1>15, <1>18, <1>19, <2>1 DEF LoudFeed
<1>21. LoudReaderOK(reader)'
  <2>1. CASE reader = Loudness!Away
    BY <2>1 DEF LoudReaderOK, Loudness!Away
  <2>2. CASE reader # Loudness!Away
    <3>1. PICK r : r = reader
      OBVIOUS
    <3>2. LoudCopyOK(r) /\ (r.epoch = claims.epoch /\ r.cursor >= f => TracksRead(r) /\ AlbumsRead(r))
      BY <1>4, <2>2, <3>1 DEF LoudFeedInv, LoudReaderOK
    <3>3. r.cursor \in Nat /\ (r.epoch = claims.epoch => r.cursor <= h)
      BY <1>4, <3>2 DEF LoudCopyOK
    <3>4. LoudCopyOK(r)'
      <4>1. r.epoch = claims.epoch => r.cursor <= h + d
        BY <1>8, <1>11, <3>3
      <4> QED
        BY <1>13, <3>2, <4>1 DEF LoudCopyOK, HasFields
    <3>5. ASSUME r.epoch = claims.epoch, r.cursor >= g PROVE (TracksRead(r) /\ AlbumsRead(r))'
      <4>1. r.cursor >= f /\ r.cursor <= h
        BY <1>11, <1>14, <3>3, <3>5
      <4>2. TracksRead(r) /\ AlbumsRead(r)
        BY <3>2, <3>5, <4>1
      <4>3. /\ Reads(K, "track", recs, Entities, r.track, r.cursor, TracksSeen(r))
            /\ Reads(K, "album", albs, Groups, r.album, r.cursor, AlbumsSeen(r))
        BY <1>18, <1>19, <3>3, <3>5, <4>1, <4>2 DEF TracksRead, AlbumsRead
      <4> QED
        BY <1>12, <1>15, <4>3 DEF TracksRead, AlbumsRead, TracksSeen, AlbumsSeen
    <3>6. LoudReaderOK(r)'
      BY <1>4, <1>13, <3>4, <3>5 DEF LoudReaderOK
    <3> QED
      BY <3>1, <3>6 DEF LoudReaderOK, LoudCopyOK, HasFields, TracksRead, AlbumsRead, TracksSeen, AlbumsSeen
  <2> QED
    BY <2>1, <2>2
<1> QED
  BY <1>20, <1>21 DEF LoudFeedInv

\* Steps that neither publish nor read.
LEMMA LoudFeedStays ==
  ASSUME LoudFeedInv, UNCHANGED <<results, state, claims, journal, reader>>
  PROVE  LoudFeedInv'
BY DEF LoudFeedInv, LoudFeed, LoudReaderOK, LoudCopyOK, HasFields, TracksRead, AlbumsRead, TracksSeen, AlbumsSeen

\* A rekey begins an epoch: whoever followed the last one will read again.
LEMMA NewEpochTells ==
  ASSUME LoudFeedInv, Loudness!NewEpoch, UNCHANGED reader
  PROVE  LoudFeedInv'
<1>1. claims' = [epoch |-> claims.epoch + 1, head |-> 0, floor |-> 0] /\ DOMAIN journal' = {}
  BY DEF Loudness!NewEpoch, Loudness!NoEvents
<1>2. claims'.epoch = claims.epoch + 1 /\ claims'.head = 0 /\ claims'.floor = 0 /\ claims.epoch \in Nat
  BY <1>1 DEF LoudFeedInv, LoudFeed
<1>3. LoudFeed'
  BY <1>1, <1>2 DEF LoudFeed, Tells
<1>4. CASE reader = Loudness!Away
  BY <1>3, <1>4 DEF LoudFeedInv, LoudReaderOK, Loudness!Away
<1>5. CASE reader # Loudness!Away
  <2>1. PICK r : r = reader
    OBVIOUS
  <2>2. LoudCopyOK(r)
    BY <1>5, <2>1 DEF LoudFeedInv, LoudReaderOK
  <2>3. r.epoch # claims'.epoch /\ r.epoch <= claims'.epoch
    BY <1>2, <2>2 DEF LoudCopyOK
  <2>4. LoudCopyOK(r)'
    BY <2>2, <2>3 DEF LoudCopyOK, HasFields
  <2>5. LoudReaderOK(r)'
    BY <2>3, <2>4 DEF LoudReaderOK
  <2>6. LoudReaderOK(reader)'
    BY <2>1, <2>5 DEF LoudReaderOK, LoudCopyOK, HasFields, TracksRead, AlbumsRead, TracksSeen, AlbumsSeen
  <2> QED
    BY <1>3, <2>6 DEF LoudFeedInv
<1> QED
  BY <1>4, <1>5

\* The page a request takes of the rows it finds, and the copy with it.
LEMMA ReaderTakes ==
  ASSUME LoudCopyOK(reader), NEW ids \in SUBSET Nat, IsFiniteSet(ids), NEW held, DOMAIN held = ids,
         NEW copy, DOMAIN copy = ids, reader.room # 0,
         NEW rows, rows = Loudness!Rows(held), NEW page, page = Loudness!Page(rows),
         NEW new, new = Loudness!Taken(copy, held)
  PROVE  /\ Loudness!More(held) <=> page # rows
         /\ DOMAIN new = ids
         /\ Loudness!Cardinality(page) \in Nat /\ Loudness!Cardinality(page) <= reader.room
         /\ page # rows => Loudness!Max(page) \in Nat
         /\ \A J, k, n :
              Reads(J, k, held, ids, copy, n, NotBeyond(ids, reader.after)) =>
                Reads(J, k, held, ids, new, n, IF page # rows THEN NotBeyond(ids, Loudness!Max(page)) ELSE ids)
<1>1. PICK after, room : after = reader.after /\ room = reader.room
  OBVIOUS
<1>2. after \in Nat /\ room \in Nat \ {0}
  BY <1>1 DEF LoudCopyOK
<1>3. rows = RowsAfter(held, ids, after)
  BY <1>1 DEF Loudness!Rows, RowsAfter
<1>4. page = FirstOf(rows, room)
  <2>1. \A i : i \in page <=> i \in rows /\ Loudness!Cardinality(Before(rows, i)) < room
    BY <1>1 DEF Loudness!Page, Before
  <2>2. \A i : i \in page <=> i \in rows /\ Cardinality(Before(rows, i)) < room
    BY <2>1, LoudCardinality
  <2> QED
    BY <2>2 DEF FirstOf
<1>5. rows \in SUBSET Nat /\ IsFiniteSet(rows)
  <2>1. rows \subseteq ids
    BY <1>3 DEF RowsAfter
  <2> QED
    BY <2>1, FS_Subset
<1>6. /\ Cardinality(page) \in Nat /\ Cardinality(page) <= room
      /\ page # rows => Loudness!Max(page) \in page
  BY <1>2, <1>4, <1>5, PageIsFirst
<1>7. page \subseteq rows
  BY <1>4 DEF FirstOf
<1>8. new = TakenFrom(page, held, copy, ids)
  BY DEF Loudness!Taken, TakenFrom
<1>9. Loudness!More(held) <=> page # rows
  BY DEF Loudness!More
<1>10. ASSUME NEW J, NEW k, NEW n, Reads(J, k, held, ids, copy, n, NotBeyond(ids, reader.after))
       PROVE  Reads(J, k, held, ids, new, n, IF page # rows THEN NotBeyond(ids, Loudness!Max(page)) ELSE ids)
  <2>1. Reads(J, k, held, ids, copy, n, NotBeyond(ids, after))
    BY <1>1, <1>10
  <2>2. Reads(J, k, held, ids, TakenFrom(page, held, copy, ids), n,
              IF page # rows THEN NotBeyond(ids, Loudness!Max(page)) ELSE ids)
    BY <1>2, <1>3, <1>4, <2>1, PageRead
  <2> QED
    BY <1>8, <2>2
<1>11. page # rows => Loudness!Max(page) \in Nat
  BY <1>5, <1>6, <1>7
<1>12. Loudness!Cardinality(page) = Cardinality(page)
  BY LoudCardinality
<1> QED
  BY <1>1, <1>6, <1>8, <1>9, <1>10, <1>11, <1>12 DEF TakenFrom

\* What a client has after each of its steps.
LEMMA LoudFeedReads ==
  ASSUME LoudInv, LoudFeedInv, Loudness!ReaderStep
  PROVE  LoudFeedInv'
<1>1. UNCHANGED <<results, state, claims, journal>>
  BY DEF Loudness!ReaderStep, Loudness!stored
<1>2. LoudFeed'
  BY <1>1 DEF LoudFeedInv, LoudFeed
<1>3. \A r : LoudReaderOK(r) => LoudReaderOK(r)'
  BY <1>1 DEF LoudReaderOK, LoudCopyOK, HasFields, TracksRead, AlbumsRead, TracksSeen, AlbumsSeen
<1>4. ASSUME NEW r, reader' = r, LoudReaderOK(r) PROVE LoudFeedInv'
  <2>1. LoudReaderOK(r)'
    BY <1>3, <1>4
  <2>2. LoudReaderOK(reader)'
    BY <1>4, <2>1 DEF LoudReaderOK, LoudCopyOK, HasFields, TracksRead, AlbumsRead, TracksSeen, AlbumsSeen
  <2> QED
    BY <1>2, <2>2 DEF LoudFeedInv
<1>5. /\ claims.epoch \in Nat /\ claims.head \in Nat /\ claims.floor \in Nat /\ claims.floor <= claims.head
      /\ DOMAIN journal = claims.floor + 1..claims.head
      /\ Tells(journal, "track", results, Entities) /\ Tells(journal, "album", state, Groups)
  BY DEF LoudFeedInv, LoudFeed
<1>6. DOMAIN results = Entities /\ DOMAIN state = Groups
  BY DEF LoudInv, LoudRows
<1>7. PICK old : old = reader
  OBVIOUS
<1>8. ASSUME reader.at # "away"
      PROVE  LoudCopyOK(old) /\ (old.epoch = claims.epoch /\ old.cursor >= claims.floor => TracksRead(old) /\ AlbumsRead(old))
  BY <1>7, <1>8 DEF LoudFeedInv, LoudReaderOK, Loudness!Away
<1>9. PICK e, c, after, room, track, album :
        /\ e = old.epoch /\ c = old.cursor /\ after = old.after /\ room = old.room
        /\ track = old.track /\ album = old.album
  OBVIOUS
<1>10. ASSUME NEW at \in {"tracks", "tracksLeft", "albums", "albumsLeft", "following"},
              NEW ce \in Nat, NEW cc \in Nat, NEW ca \in Nat, NEW cr \in Nat, NEW ct, NEW cl,
              DOMAIN ct = Entities, DOMAIN cl = Groups, ce <= claims.epoch,
              ce = claims.epoch => cc <= claims.head,
              at = "tracks" => cr = PageLimit, at = "albums" => cr # 0,
              HasFields(reader'), reader'.at = at, reader'.epoch = ce, reader'.cursor = cc,
              reader'.after = ca, reader'.room = cr, reader'.track = ct, reader'.album = cl,
              ce = claims.epoch /\ cc >= claims.floor =>
                 /\ Reads(journal, "track", results, Entities, ct, cc,
                          {i \in Entities : at \in {"tracks", "tracksLeft"} => i <= ca})
                 /\ Reads(journal, "album", state, Groups, cl, cc,
                          {i \in Groups : /\ at \notin {"tracks", "tracksLeft"}
                                          /\ at \in {"albums", "albumsLeft"} => i <= ca})
       PROVE  LoudFeedInv'
  <2>1. PICK r : r = reader'
    OBVIOUS
  <2>2. /\ r.at = at /\ r.epoch = ce /\ r.cursor = cc /\ r.after = ca /\ r.room = cr
        /\ r.track = ct /\ r.album = cl
    BY <1>10, <2>1
  <2>3. LoudCopyOK(r)
    BY <1>10, <2>1, <2>2 DEF LoudCopyOK, HasFields
  <2>4. TracksSeen(r) = {i \in Entities : at \in {"tracks", "tracksLeft"} => i <= ca}
    BY <2>2 DEF TracksSeen
  <2>5. AlbumsSeen(r) = {i \in Groups : /\ at \notin {"tracks", "tracksLeft"}
                                        /\ at \in {"albums", "albumsLeft"} => i <= ca}
    BY <2>2 DEF AlbumsSeen
  <2>6. r.epoch = claims.epoch /\ r.cursor >= claims.floor => TracksRead(r) /\ AlbumsRead(r)
    BY <1>10, <2>2, <2>4, <2>5 DEF TracksRead, AlbumsRead
  <2>7. LoudReaderOK(r)
    BY <2>3, <2>6 DEF LoudReaderOK
  <2> QED
    BY <1>4, <2>1, <2>7
<1>11. CASE reader' = Loudness!Away
  BY <1>4, <1>11 DEF LoudReaderOK
<1>12. CASE Loudness!ReadHead
  <2>1. PICK ct, cl : ct = [t \in Entities |-> None] /\ cl = [a \in Groups |-> None]
    OBVIOUS
  <2>2. /\ HasFields(reader') /\ reader'.at = "tracks" /\ reader'.epoch = claims.epoch
        /\ reader'.cursor = claims.head /\ reader'.after = 0 /\ reader'.room = PageLimit
        /\ reader'.track = ct /\ reader'.album = cl
    <3>1. reader' = [at |-> "tracks", epoch |-> claims.epoch, cursor |-> claims.head, after |-> 0,
                     room |-> PageLimit, track |-> ct, album |-> cl]
      BY <1>12, <2>1 DEF Loudness!ReadHead
    <3> QED
      BY <3>1 DEF HasFields
  <2>3. {i \in Entities : "tracks" \in {"tracks", "tracksLeft"} => i <= 0} = {}
    BY LoudConstants
  <2>4. Reads(journal, "track", results, Entities, ct, claims.head,
              {i \in Entities : "tracks" \in {"tracks", "tracksLeft"} => i <= 0})
    BY <2>1, <2>3 DEF Reads
  <2>5. Reads(journal, "album", state, Groups, cl, claims.head,
              {i \in Groups : /\ "tracks" \notin {"tracks", "tracksLeft"}
                              /\ "tracks" \in {"albums", "albumsLeft"} => i <= 0})
    BY <2>1 DEF Reads
  <2>6. DOMAIN ct = Entities /\ DOMAIN cl = Groups /\ claims.epoch <= claims.epoch
        /\ claims.head <= claims.head
    BY <1>5, <2>1
  <2> QED
    BY <1>5, <1>10, <2>2, <2>4, <2>5, <2>6, LoudConstants
<1>13. CASE Loudness!ReadToken /\ reader' # Loudness!Away
  <2>1. PICK at : at = IF old.at = "tracksLeft" THEN "tracks" ELSE "albums"
    OBVIOUS
  <2>2. reader.at \in {"tracksLeft", "albumsLeft"} /\ reader' = [old EXCEPT !.at = at, !.room = PageLimit]
    BY <1>7, <1>13, <2>1 DEF Loudness!ReadToken
  <2>3. LoudCopyOK(old) /\ (e = claims.epoch /\ c >= claims.floor => TracksRead(old) /\ AlbumsRead(old))
    BY <1>8, <1>9, <2>2
  <2>4. /\ HasFields(reader') /\ reader'.at = at /\ reader'.epoch = e /\ reader'.cursor = c
        /\ reader'.after = after /\ reader'.room = PageLimit /\ reader'.track = track /\ reader'.album = album
    <3>1. HasFields(old) /\ reader.at = old.at
      BY <1>7, <2>3 DEF LoudCopyOK
    <3> QED
      BY <1>9, <2>2, <3>1 DEF HasFields
  <2>5. /\ e \in Nat /\ c \in Nat /\ after \in Nat /\ DOMAIN track = Entities /\ DOMAIN album = Groups
        /\ e <= claims.epoch /\ (e = claims.epoch => c <= claims.head)
    BY <1>9, <2>3 DEF LoudCopyOK
  <2>6. /\ TracksSeen(old) = {i \in Entities : at \in {"tracks", "tracksLeft"} => i <= after}
        /\ AlbumsSeen(old) = {i \in Groups : /\ at \notin {"tracks", "tracksLeft"}
                                             /\ at \in {"albums", "albumsLeft"} => i <= after}
    BY <1>7, <1>9, <2>1, <2>2 DEF TracksSeen, AlbumsSeen
  <2>7. e = claims.epoch /\ c >= claims.floor =>
          /\ Reads(journal, "track", results, Entities, track, c,
                   {i \in Entities : at \in {"tracks", "tracksLeft"} => i <= after})
          /\ Reads(journal, "album", state, Groups, album, c,
                   {i \in Groups : /\ at \notin {"tracks", "tracksLeft"}
                                   /\ at \in {"albums", "albumsLeft"} => i <= after})
    BY <1>9, <2>3, <2>6 DEF TracksRead, AlbumsRead
  <2>8. at \in {"tracks", "albums"} /\ PageLimit \in Nat /\ PageLimit # 0
    <3>1. at \in {"tracks", "albums"}
      BY <2>1
    <3> QED
      BY <3>1, LoudConstants
  <2> QED
    BY <1>10, <2>4, <2>5, <2>7, <2>8
<1>14. CASE Loudness!ReadTracks
  <2>1. PICK rows, page, new : /\ rows = Loudness!Rows(results) /\ page = Loudness!Page(rows)
                               /\ new = Loudness!Taken(track, results)
    OBVIOUS
  <2>2. PICK left : left = PageLimit - Loudness!Cardinality(page)
    OBVIOUS
  <2>3. PICK at, ca : /\ at = IF page # rows THEN "tracksLeft" ELSE IF left = 0 THEN "albumsLeft" ELSE "albums"
                      /\ ca = IF page # rows THEN Loudness!Max(page) ELSE 0
    OBVIOUS
  <2>4. reader.at = "tracks" /\ LoudCopyOK(old)
        /\ (e = claims.epoch /\ c >= claims.floor => TracksRead(old) /\ AlbumsRead(old))
    BY <1>8, <1>9, <1>14 DEF Loudness!ReadTracks
  <2>5. reader.room = PageLimit /\ PageLimit \in Nat /\ PageLimit # 0 /\ DOMAIN track = Entities
    BY <1>7, <1>9, <2>4, LoudConstants DEF LoudCopyOK
  <2>6. /\ Loudness!More(results) <=> page # rows
        /\ DOMAIN new = Entities
        /\ Loudness!Cardinality(page) \in Nat /\ Loudness!Cardinality(page) <= reader.room
        /\ page # rows => Loudness!Max(page) \in Nat
        /\ \A J, k, n :
             Reads(J, k, results, Entities, track, n, NotBeyond(Entities, reader.after)) =>
               Reads(J, k, results, Entities, new, n,
                     IF page # rows THEN NotBeyond(Entities, Loudness!Max(page)) ELSE Entities)
    <3>1. LoudCopyOK(reader) /\ reader.room # 0
      BY <1>7, <2>4, <2>5
    <3>2. Entities \in SUBSET Nat /\ IsFiniteSet(Entities)
      BY LoudConstants
    <3> QED
      BY <1>6, <2>1, <2>5, <3>1, <3>2, ReaderTakes
  <2>7. left \in Nat
    BY <2>2, <2>5, <2>6
  <2>8. reader' = [old EXCEPT !.at = at, !.after = ca, !.room = left, !.track = new]
    BY <1>7, <1>9, <1>14, <2>1, <2>2, <2>3, <2>6 DEF Loudness!ReadTracks
  <2>9. /\ HasFields(reader') /\ reader'.at = at /\ reader'.epoch = e /\ reader'.cursor = c
        /\ reader'.after = ca /\ reader'.room = left /\ reader'.track = new /\ reader'.album = album
    <3>1. HasFields(old) /\ reader.at = old.at
      BY <1>7, <2>4 DEF LoudCopyOK
    <3> QED
      BY <1>9, <2>8, <3>1 DEF HasFields
  <2>10. /\ e \in Nat /\ c \in Nat /\ DOMAIN album = Groups
         /\ e <= claims.epoch /\ (e = claims.epoch => c <= claims.head)
    BY <1>9, <2>4 DEF LoudCopyOK
  <2>11. ASSUME e = claims.epoch, c >= claims.floor
         PROVE  /\ Reads(journal, "track", results, Entities, new, c,
                         {i \in Entities : at \in {"tracks", "tracksLeft"} => i <= ca})
                /\ Reads(journal, "album", state, Groups, album, c,
                         {i \in Groups : /\ at \notin {"tracks", "tracksLeft"}
                                         /\ at \in {"albums", "albumsLeft"} => i <= ca})
    <3>1. TracksSeen(old) = NotBeyond(Entities, reader.after) /\ AlbumsSeen(old) = {}
      BY <1>7, <2>4 DEF TracksSeen, AlbumsSeen, NotBeyond
    <3>2. /\ Reads(journal, "track", results, Entities, track, c, NotBeyond(Entities, reader.after))
          /\ Reads(journal, "album", state, Groups, album, c, {})
      BY <1>9, <2>4, <2>11, <3>1 DEF TracksRead, AlbumsRead
    <3>3. Reads(journal, "track", results, Entities, new, c,
                IF page # rows THEN NotBeyond(Entities, Loudness!Max(page)) ELSE Entities)
      BY <2>6, <3>2
    <3>4. {i \in Entities : at \in {"tracks", "tracksLeft"} => i <= ca}
            = IF page # rows THEN NotBeyond(Entities, Loudness!Max(page)) ELSE Entities
      BY <2>3 DEF NotBeyond
    <3>5. {i \in Groups : /\ at \notin {"tracks", "tracksLeft"}
                          /\ at \in {"albums", "albumsLeft"} => i <= ca} = {}
      BY <2>3, LoudConstants
    <3> QED
      BY <3>2, <3>3, <3>4, <3>5
  <2>12. at \in {"tracksLeft", "albums", "albumsLeft"} /\ (at = "albums" => left # 0) /\ ca \in Nat
         /\ DOMAIN new = Entities
    BY <2>3, <2>6
  <2> QED
    BY <1>10, <2>7, <2>9, <2>10, <2>11, <2>12
<1>15. CASE Loudness!ReadAlbums
  <2>1. PICK rows, page, new : /\ rows = Loudness!Rows(state) /\ page = Loudness!Page(rows)
                               /\ new = Loudness!Taken(album, state)
    OBVIOUS
  <2>2. PICK at, ca : /\ at = IF page # rows THEN "albumsLeft" ELSE "following"
                      /\ ca = IF page # rows THEN Loudness!Max(page) ELSE 0
    OBVIOUS
  <2>3. reader.at = "albums" /\ LoudCopyOK(old)
        /\ (e = claims.epoch /\ c >= claims.floor => TracksRead(old) /\ AlbumsRead(old))
    BY <1>8, <1>9, <1>15 DEF Loudness!ReadAlbums
  <2>4. reader.room # 0 /\ DOMAIN album = Groups
    BY <1>7, <1>9, <2>3 DEF LoudCopyOK
  <2>5. /\ Loudness!More(state) <=> page # rows
        /\ DOMAIN new = Groups
        /\ page # rows => Loudness!Max(page) \in Nat
        /\ \A J, k, n :
             Reads(J, k, state, Groups, album, n, NotBeyond(Groups, reader.after)) =>
               Reads(J, k, state, Groups, new, n,
                     IF page # rows THEN NotBeyond(Groups, Loudness!Max(page)) ELSE Groups)
    <3>1. LoudCopyOK(reader)
      BY <1>7, <2>3
    <3>2. Groups \in SUBSET Nat /\ IsFiniteSet(Groups)
      BY LoudConstants
    <3> QED
      BY <1>6, <2>1, <2>4, <3>1, <3>2, ReaderTakes
  <2>6. reader' = [old EXCEPT !.at = at, !.after = ca, !.room = 0, !.album = new]
    BY <1>7, <1>9, <1>15, <2>1, <2>2, <2>5 DEF Loudness!ReadAlbums
  <2>7. /\ HasFields(reader') /\ reader'.at = at /\ reader'.epoch = e /\ reader'.cursor = c
        /\ reader'.after = ca /\ reader'.room = 0 /\ reader'.track = track /\ reader'.album = new
    <3>1. HasFields(old) /\ reader.at = old.at
      BY <1>7, <2>3 DEF LoudCopyOK
    <3> QED
      BY <1>9, <2>6, <3>1 DEF HasFields
  <2>8. /\ e \in Nat /\ c \in Nat /\ DOMAIN track = Entities
        /\ e <= claims.epoch /\ (e = claims.epoch => c <= claims.head)
    BY <1>9, <2>3 DEF LoudCopyOK
  <2>9. ASSUME e = claims.epoch, c >= claims.floor
        PROVE  /\ Reads(journal, "track", results, Entities, track, c,
                        {i \in Entities : at \in {"tracks", "tracksLeft"} => i <= ca})
               /\ Reads(journal, "album", state, Groups, new, c,
                        {i \in Groups : /\ at \notin {"tracks", "tracksLeft"}
                                        /\ at \in {"albums", "albumsLeft"} => i <= ca})
    <3>1. TracksSeen(old) = Entities /\ AlbumsSeen(old) = NotBeyond(Groups, reader.after)
      BY <1>7, <2>3 DEF TracksSeen, AlbumsSeen, NotBeyond
    <3>2. /\ Reads(journal, "track", results, Entities, track, c, Entities)
          /\ Reads(journal, "album", state, Groups, album, c, NotBeyond(Groups, reader.after))
      BY <1>9, <2>3, <2>9, <3>1 DEF TracksRead, AlbumsRead
    <3>3. Reads(journal, "album", state, Groups, new, c,
                IF page # rows THEN NotBeyond(Groups, Loudness!Max(page)) ELSE Groups)
      BY <2>5, <3>2
    <3>4. {i \in Groups : /\ at \notin {"tracks", "tracksLeft"}
                          /\ at \in {"albums", "albumsLeft"} => i <= ca}
            = IF page # rows THEN NotBeyond(Groups, Loudness!Max(page)) ELSE Groups
      BY <2>2 DEF NotBeyond
    <3>5. {i \in Entities : at \in {"tracks", "tracksLeft"} => i <= ca} = Entities
      BY <2>2
    <3> QED
      BY <3>2, <3>3, <3>4, <3>5
  <2>10. at \in {"albumsLeft", "following"} /\ ca \in Nat /\ 0 \in Nat /\ DOMAIN new = Groups
    BY <2>2, <2>5
  <2> QED
    BY <1>10, <2>7, <2>8, <2>9, <2>10
<1>16. CASE Loudness!ReadChanges /\ reader' # Loudness!Away
  <2>1. PICK last : last = Loudness!Min({old.cursor + PageLimit, claims.head})
    OBVIOUS
  <2>2. PICK tracks, albums : /\ tracks = Loudness!Apply(old.track, "track", last)
                              /\ albums = Loudness!Apply(old.album, "album", last)
    OBVIOUS
  <2>3. /\ reader.at = "following" /\ e = claims.epoch /\ c >= claims.floor
        /\ reader' = [old EXCEPT !.cursor = last, !.track = tracks, !.album = albums]
    BY <1>7, <1>9, <1>16, <2>1, <2>2 DEF Loudness!ReadChanges, Loudness!SameEpoch
  <2>4. LoudCopyOK(old) /\ TracksRead(old) /\ AlbumsRead(old)
    BY <1>8, <1>9, <2>3
  <2>5. e \in Nat /\ c \in Nat /\ after \in Nat /\ room \in Nat /\ c <= claims.head
    BY <1>9, <2>3, <2>4 DEF LoudCopyOK
  <2>6. last \in Nat /\ c <= last /\ last <= claims.head
    <3>1. c + PageLimit \in Nat /\ c <= c + PageLimit
      BY <2>5, LoudConstants
    <3> QED
      BY <1>5, <1>9, <2>1, <2>5, <3>1, LeastOfTwo
  <2>7. TracksSeen(old) = Entities /\ AlbumsSeen(old) = Groups
    BY <1>7, <2>3 DEF TracksSeen, AlbumsSeen
  <2>8. /\ Reads(journal, "track", results, Entities, track, c, Entities)
        /\ Reads(journal, "album", state, Groups, album, c, Groups)
    BY <1>9, <2>4, <2>7 DEF TracksRead, AlbumsRead
  <2>9. Reads(journal, "track", results, Entities, tracks, last, Entities)
    <3>1. tracks = NewsApplied(journal, "track", track, c, last)
      BY <1>7, <1>9, <2>2 DEF Loudness!Apply, NewsApplied
    <3>2. PICK f, h : f = claims.floor /\ h = claims.head
      OBVIOUS
    <3>3. f \in Nat /\ h \in Nat /\ DOMAIN journal = f + 1..h /\ f <= c /\ last <= h
      BY <1>5, <2>3, <2>5, <2>6, <3>2
    <3>4. Reads(journal, "track", results, Entities, NewsApplied(journal, "track", track, c, last), last, Entities)
      BY <1>5, <2>5, <2>6, <2>8, <3>3, AppliedRows
    <3> QED
      BY <3>1, <3>4
  <2>10. Reads(journal, "album", state, Groups, albums, last, Groups)
    <3>1. albums = NewsApplied(journal, "album", album, c, last)
      BY <1>7, <1>9, <2>2 DEF Loudness!Apply, NewsApplied
    <3>2. PICK f, h : f = claims.floor /\ h = claims.head
      OBVIOUS
    <3>3. f \in Nat /\ h \in Nat /\ DOMAIN journal = f + 1..h /\ f <= c /\ last <= h
      BY <1>5, <2>3, <2>5, <2>6, <3>2
    <3>4. Reads(journal, "album", state, Groups, NewsApplied(journal, "album", album, c, last), last, Groups)
      BY <1>5, <2>5, <2>6, <2>8, <3>3, AppliedRows
    <3> QED
      BY <3>1, <3>4
  <2>11. /\ HasFields(reader') /\ reader'.at = "following" /\ reader'.epoch = e /\ reader'.cursor = last
        /\ reader'.after = after /\ reader'.room = room /\ reader'.track = tracks /\ reader'.album = albums
    <3>1. HasFields(old) /\ reader.at = old.at
      BY <1>7, <2>4 DEF LoudCopyOK
    <3> QED
      BY <1>9, <2>3, <2>3, <3>1 DEF HasFields
  <2>12. /\ {i \in Entities : "following" \in {"tracks", "tracksLeft"} => i <= after} = Entities
         /\ {i \in Groups : /\ "following" \notin {"tracks", "tracksLeft"}
                            /\ "following" \in {"albums", "albumsLeft"} => i <= after} = Groups
    OBVIOUS
  <2>13. DOMAIN tracks = Entities /\ DOMAIN albums = Groups /\ e <= claims.epoch
    BY <1>5, <2>3, <2>9, <2>10 DEF Reads
  <2> QED
    BY <1>10, <2>5, <2>6, <2>9, <2>10, <2>11, <2>12, <2>13
<1> QED
  BY <1>11, <1>12, <1>13, <1>14, <1>15, <1>16 DEF Loudness!ReaderStep

LEMMA LoudFeedStep ==
  ASSUME LoudInv, LoudFeedInv, Measuring \/ Following
  PROVE  LoudFeedInv'
<1>1. CASE \E t \in Entities : Loudness!CatalogMoves(t)
  BY <1>1, LoudFeedStays DEF Loudness!CatalogMoves, Loudness!stored
<1>2. CASE \E o, n \in Entities : Loudness!Rekey(o, n)
  BY <1>2, NewEpochTells DEF Loudness!Rekey
<1>3. CASE Loudness!Followed
  BY <1>3, CommitTells DEF Loudness!Followed, Loudness!Reconcile
<1>4. CASE Loudness!PublishedMeasured
  BY <1>4, CommitTells DEF Loudness!PublishedMeasured, Loudness!Publish
<1>5. CASE Loudness!EdgePublished
  BY <1>5, CommitTells DEF Loudness!EdgePublished, Loudness!Publish
<1>6. CASE Loudness!StartTurn \/ Loudness!Follow \/ Loudness!NotDue \/ Loudness!NextTrack
           \/ Loudness!Measure \/ Loudness!PublishMeasured
  BY <1>6, LoudFeedStays DEF Loudness!StartTurn, Loudness!Follow, Loudness!NotDue, Loudness!NextTrack,
     Loudness!Measure, Loudness!PublishMeasured, Loudness!stored
<1>7. CASE (\E t \in Entities : Loudness!EdgeDecodes(t) \/ Loudness!EdgeFails(t)) \/ Loudness!EdgePublishes
           \/ Loudness!EdgeLosesIt
  BY <1>7, LoudFeedStays DEF Loudness!EdgeDecodes, Loudness!EdgeFails, Loudness!EdgePublishes,
     Loudness!EdgeLosesIt, Loudness!stored
<1>8. CASE Loudness!ReaderStep
  BY <1>8, LoudFeedReads
<1> QED
  BY <1>1, <1>2, <1>3, <1>4, <1>5, <1>6, <1>7, <1>8
     DEF Measuring, Following, Loudness!TurnStep, Loudness!EdgeStep

================================================================================
