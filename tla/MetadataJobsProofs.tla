-------------------------- MODULE MetadataJobsProofs -------------------------
(* The daily allowance of MetadataJobs, for any number of processes, jobs,   *)
(* days, failures and crashes.                                               *)
EXTENDS MetadataJobs, FiniteSetTheorems, TLAPS

-----------------------------------------------------------------------------
(* The inductive invariant.                                                *)

Looking == [pc : {"lookup", "send"}, id : Jobs, left : Int, day : Nat]
Finishing == [pc : {"finish"}, id : Jobs, status : {"verified", "failed", "deferred"}]

TypeInv ==
    /\ used \in 0..Allowance /\ sent \in Nat /\ days \in Nat
    /\ worker \in [Procs -> {Idle} \union Looking \union Finishing]

\* The processes that have reserved a request of the current day and not sent it.
Sending == {p \in Procs : worker[p].pc = "send" /\ worker[p].day = days}

NoFutureDay == \A p \in Procs : worker[p].pc = "send" => worker[p].day <= days

\* A reserved request is counted once: while it waits to be sent, or once sent.
AllowanceInv == TypeInv /\ NoFutureDay /\ sent + Cardinality(Sending) <= used

-----------------------------------------------------------------------------
(* The set of processes about to send is finite. *)
LEMMA SendingFinite ==
    ASSUME MetadataAssumption
    PROVE  IsFiniteSet(Sending) /\ Cardinality(Sending) \in Nat
  <1>1. IsFiniteSet(Procs)
    BY DEF MetadataAssumption
  <1>2. Sending \subseteq Procs
    BY DEF Sending
  <1>3. IsFiniteSet(Sending)
    BY <1>1, <1>2, FS_Subset
  <1> QED
    BY <1>3, FS_CardinalityType

(* Initially nothing is reserved and nothing sent. *)
LEMMA AllowanceInit ==
    ASSUME MetadataAssumption, Init
    PROVE  AllowanceInv
  <1>1. TypeInv
    BY DEF Init, TypeInv, MetadataAssumption
  <1>2. NoFutureDay
    BY DEF Init, NoFutureDay, Idle
  <1>3. Sending = {}
    BY DEF Init, Sending, Idle
  <1>4. Cardinality(Sending) = 0
    BY <1>3, FS_EmptySet
  <1> QED
    BY <1>1, <1>2, <1>4 DEF Init, AllowanceInv

(* A step after which no process newly waits to send, on the same day and    *)
(* with the same counts, keeps the invariant: abandoned reservations stay    *)
(* used up.                                                                  *)
LEMMA NothingReserved ==
    ASSUME MetadataAssumption, AllowanceInv, TypeInv',
           UNCHANGED <<used, sent, days>>,
           \A p \in Procs : worker'[p].pc = "send" => worker'[p] = worker[p]
    PROVE  AllowanceInv'
  <1>1. NoFutureDay'
    BY DEF AllowanceInv, TypeInv, NoFutureDay
  <1>2. Sending' \subseteq Sending
    BY DEF Sending
  <1>3. Cardinality(Sending') <= Cardinality(Sending)
    BY <1>2, SendingFinite, FS_Subset
  <1>4. Cardinality(Sending') \in Nat
    BY <1>2, SendingFinite, FS_Subset, FS_CardinalityType
  <1> QED
    BY <1>1, <1>3, <1>4, SendingFinite DEF AllowanceInv, TypeInv, MetadataAssumption

(* A reservation takes one from the allowance for one more process that will  *)
(* send.                                                                     *)
LEMMA ReserveStep ==
    ASSUME MetadataAssumption, AllowanceInv, NEW p \in Procs, Reserve(p)
    PROVE  AllowanceInv'
  <1>1. worker[p] \in Looking
    BY DEF AllowanceInv, TypeInv, Reserve, Idle, Looking, Finishing
  <1>2. CASE Leased(p) /\ used < Allowance
    <2>1. /\ used' = used + 1
          /\ worker' = [worker EXCEPT ![p] = [worker[p] EXCEPT !.pc = "send", !.day = days]]
          /\ UNCHANGED <<sent, days>>
      BY <1>2, <1>1 DEF Reserve, budget, AllowanceInv, TypeInv
    <2>2. worker'[p] \in Looking /\ worker'[p].pc = "send" /\ worker'[p].day = days
      BY <2>1, <1>1 DEF Looking, AllowanceInv, TypeInv
    <2>3. TypeInv'
      BY <1>2, <2>1, <2>2 DEF AllowanceInv, TypeInv, MetadataAssumption
    <2>4. NoFutureDay'
      BY <2>1, <2>2 DEF NoFutureDay, AllowanceInv, TypeInv
    <2>5. worker[p].pc = "lookup"
      BY DEF Reserve
    <2>6. p \notin Sending
      BY <2>5 DEF Sending
    <2>7. Sending' = Sending \union {p}
      BY <2>1, <2>2, <2>5 DEF Sending, AllowanceInv, TypeInv
    <2>8. Cardinality(Sending') = Cardinality(Sending) + 1
      BY <2>6, <2>7, SendingFinite, FS_AddElement
    <2> QED
      BY <2>1, <2>3, <2>4, <2>8, SendingFinite DEF AllowanceInv, TypeInv, MetadataAssumption
  <1>3. CASE ~(Leased(p) /\ used < Allowance)
    <2>1. worker' = [worker EXCEPT ![p] = [pc |-> "finish", id |-> worker[p].id,
                                           status |-> "deferred"]]
      BY <1>3 DEF Reserve, Ended
    <2>2. UNCHANGED <<used, sent, days>>
      BY <1>3 DEF Reserve, budget
    <2>3. worker'[p] \in Finishing /\ worker'[p].pc = "finish"
      BY <2>1, <1>1 DEF Looking, Finishing, AllowanceInv, TypeInv
    <2>4. TypeInv'
      BY <2>1, <2>2, <2>3 DEF AllowanceInv, TypeInv
    <2> QED
      BY <2>1, <2>2, <2>3, <2>4, NothingReserved DEF AllowanceInv, TypeInv
  <1> QED
    BY <1>2, <1>3

(* A request that is sent on its day moves from the reserved to the sent;     *)
(* one of an earlier day counts against neither.                             *)
LEMMA SendStep ==
    ASSUME MetadataAssumption, AllowanceInv, NEW p \in Procs, Send(p)
    PROVE  AllowanceInv'
  <1>1. worker[p] \in Looking
    BY DEF AllowanceInv, TypeInv, Send, Idle, Looking, Finishing
  <1>2. /\ worker' = [worker EXCEPT ![p] = [worker[p] EXCEPT !.pc = "lookup",
                                                       !.left = worker[p].left - 1]]
        /\ UNCHANGED <<used, days>>
    BY <1>1 DEF Send, budget, AllowanceInv, TypeInv
  <1>3. worker'[p] \in Looking /\ worker'[p].pc = "lookup"
    <2> DEFINE w == [worker[p] EXCEPT !.pc = "lookup", !.left = worker[p].left - 1]
    <2>1. worker[p].left - 1 \in Int
      BY <1>1 DEF Looking
    <2>2. w \in Looking /\ w.pc = "lookup"
      BY <1>1, <2>1 DEF Looking
    <2>3. worker'[p] = w
      BY <1>2 DEF AllowanceInv, TypeInv
    <2> QED
      BY <2>2, <2>3
  <1>4. sent' \in Nat
    BY DEF Send, AllowanceInv, TypeInv
  <1>5. TypeInv'
    BY <1>2, <1>3, <1>4 DEF AllowanceInv, TypeInv
  <1>6. CASE worker[p].day = days
    <2>1. sent' = sent + 1
      BY <1>6 DEF Send
    <2>2. p \in Sending
      BY <1>6 DEF Sending, Send
    <2>3. Sending' = Sending \ {p}
      BY <1>2, <1>3 DEF Sending, AllowanceInv, TypeInv
    <2>4. Cardinality(Sending') = Cardinality(Sending) - 1
      BY <2>2, <2>3, SendingFinite, FS_RemoveElement
    <2>5. NoFutureDay'
      BY <1>2, <1>3 DEF NoFutureDay, AllowanceInv, TypeInv
    <2> QED
      BY <1>2, <1>5, <2>1, <2>4, <2>5, SendingFinite DEF AllowanceInv, TypeInv
  <1>7. CASE worker[p].day # days
    <2>1. sent' = sent
      BY <1>7 DEF Send
    <2> QED
      BY <1>2, <1>3, <1>5, <2>1, NothingReserved DEF AllowanceInv, TypeInv
  <1> QED
    BY <1>6, <1>7

(* At the turn of a day the count starts again and no process waits to send   *)
(* a request of the new day.                                                 *)
LEMMA NewDayStep ==
    ASSUME MetadataAssumption, AllowanceInv, NewDay
    PROVE  AllowanceInv'
  <1>1. TypeInv'
    BY DEF NewDay, AllowanceInv, TypeInv, MetadataAssumption
  <1>2. NoFutureDay'
    <2> SUFFICES ASSUME NEW p \in Procs, worker[p].pc = "send"
                 PROVE  worker[p].day <= days + 1
      BY DEF NewDay, NoFutureDay
    <2>1. worker[p] \in Looking
      BY DEF AllowanceInv, TypeInv, Idle, Looking, Finishing
    <2> QED
      BY <2>1 DEF AllowanceInv, TypeInv, NoFutureDay, Looking
  <1>3. Sending' = {}
    <2> SUFFICES ASSUME NEW p \in Procs, worker[p].pc = "send", worker[p].day = days + 1
                 PROVE  FALSE
      BY DEF NewDay, Sending
    <2> QED
      BY DEF AllowanceInv, TypeInv, NoFutureDay
  <1>4. Cardinality(Sending') = 0
    BY <1>3, FS_EmptySet
  <1> QED
    BY <1>1, <1>2, <1>4 DEF NewDay, AllowanceInv, MetadataAssumption

(* A worker that takes up a job, ends one or dies sends nothing by that.      *)
LEMMA WorkerStep ==
    ASSUME MetadataAssumption, AllowanceInv, NEW p \in Procs,
           UNCHANGED <<used, sent, days>>,
           NEW w, worker' = [worker EXCEPT ![p] = w], w.pc # "send",
           w \in {Idle} \union Looking \union Finishing
    PROVE  AllowanceInv'
  <1>1. TypeInv'
    BY DEF AllowanceInv, TypeInv
  <1>2. \A q \in Procs : worker'[q].pc = "send" => worker'[q] = worker[q]
    BY DEF AllowanceInv, TypeInv
  <1> QED
    BY <1>1, <1>2, NothingReserved

(* Each step keeps the invariant.                                            *)
LEMMA AllowanceStep ==
    ASSUME MetadataAssumption, AllowanceInv, [Next]_vars
    PROVE  AllowanceInv'
  <1> DEFINE Same == UNCHANGED <<used, sent, days, worker>>
  <1>1. CASE Same
    BY <1>1, NothingReserved DEF AllowanceInv, TypeInv
  <1>2. ASSUME NEW j \in Jobs, Submit(j) \/ Cancel(j) \/ Drop(j) \/ LeaseExpires(j) \/ FallsDue(j)
        PROVE  AllowanceInv'
    BY <1>1, <1>2 DEF Submit, Cancel, Drop, LeaseExpires, FallsDue, budget
  <1>3. ASSUME NEW j \in Jobs, NEW p \in Procs, Claim(p, j)
        PROVE  AllowanceInv'
    <2> DEFINE w == [pc |-> "lookup", id |-> j, left |-> 2, day |-> days]
    <2>1. worker' = [worker EXCEPT ![p] = w] /\ UNCHANGED <<used, sent, days>>
      BY <1>3 DEF Claim, budget
    <2>2. w \in Looking /\ w.pc # "send"
      BY DEF Looking, AllowanceInv, TypeInv
    <2> QED
      BY <2>1, <2>2, WorkerStep
  <1>4. ASSUME NEW p \in Procs, NEW status \in {"verified", "failed", "deferred"},
               worker[p].pc \in {"lookup", "send"}, Ended(p, status),
               UNCHANGED <<used, sent, days>>
        PROVE  AllowanceInv'
    <2> DEFINE w == [pc |-> "finish", id |-> worker[p].id, status |-> status]
    <2>1. worker[p] \in Looking
      BY <1>4 DEF AllowanceInv, TypeInv, Idle, Looking, Finishing
    <2>2. worker' = [worker EXCEPT ![p] = w]
      BY <1>4 DEF Ended
    <2>3. w \in Finishing /\ w.pc # "send"
      BY <2>1 DEF Looking, Finishing
    <2> QED
      BY <1>4, <2>2, <2>3, WorkerStep
  <1>5. ASSUME NEW p \in Procs, Resolve(p) \/ LookupFails(p)
        PROVE  AllowanceInv'
    BY <1>4, <1>5 DEF Resolve, LookupFails, budget
  <1>6. ASSUME NEW p \in Procs, Finish(p) \/ Crash(p)
        PROVE  AllowanceInv'
    <2>1. worker' = [worker EXCEPT ![p] = Idle] /\ UNCHANGED <<used, sent, days>>
      BY <1>6 DEF Finish, Crash, budget
    <2>2. Idle.pc # "send"
      BY DEF Idle
    <2> QED
      BY <2>1, <2>2, WorkerStep
  <1> QED
    BY <1>1, <1>2, <1>3, <1>5, <1>6, ReserveStep, SendStep, NewDayStep
    DEF Next, WorkStep, vars, budget

(* What is reserved is within the allowance, so what is sent is. *)
LEMMA InvKeepsAllowance ==
    ASSUME MetadataAssumption, AllowanceInv
    PROVE  AllowanceKept
  BY SendingFinite DEF AllowanceInv, TypeInv, AllowanceKept, MetadataAssumption

(* However many processes share an account's allowance, and whichever of     *)
(* them die, fail or lose their lease between a reservation and its request, *)
(* no day sees more requests than allowed (reserve).                         *)
THEOREM AllowanceIsKept ==
    ASSUME MetadataAssumption
    PROVE  Spec => []AllowanceKept
  <1>1. Init => AllowanceInv
    BY AllowanceInit
  <1>2. AllowanceInv /\ [Next]_vars => AllowanceInv'
    BY AllowanceStep
  <1>3. AllowanceInv => AllowanceKept
    BY InvKeepsAllowance
  <1> QED
    BY <1>1, <1>2, <1>3, PTL DEF Spec
=============================================================================
