------------------------------- MODULE MCRunner -------------------------------
(* Three groupings of the runners, chosen at the start: two workers that hand *)
(* their role over, a server and a worker that share on-demand work, and a    *)
(* server alone with both lanes and AudioMuse's jobs.                         *)
EXTENDS Runner

CONSTANTS s1, w1, w2, l1, h1
VARIABLE focus

Active == CASE focus = "handover" -> {w1, w2} [] focus = "shared" -> {s1, w1} [] OTHER -> {s1}
Rows == CASE focus = "handover" -> {} [] focus = "shared" -> {h1} [] OTHER -> {l1, h1}
Asked == IF focus = "alone" THEN {} ELSE Demands

MCInit ==
    /\ Init /\ focus \in {"handover", "shared", "alone"}
    /\ setting = (CASE focus = "handover" -> "worker" [] focus = "shared" -> "auto" [] OTHER -> "server")

MCNext ==
    /\ \/ \E p \in Active : ProcStep(p) \/ Crash(p) \/ LoseConnection(p) \/ ServingFails(p)
       \/ \E d \in Asked : Request(d) \/ Expires(d)
       \/ \E j \in Rows : Admit(j) \/ RetryComesDue(j) \/ GoesStale(j)
       \/ HeartbeatAges \/ Heartbeat \/ (focus = "alone" /\ HostChanges)
    /\ UNCHANGED focus

all == <<vars, focus>>
Here(A) == A /\ UNCHANGED focus
MCFairness ==
    /\ \A p \in Procs : WF_all(Here(p \in Active /\ Restart(p))) /\ WF_all(Here(p \in Active /\ Acquire(p)))
                       /\ WF_all(Here(NoticeLoss(p))) /\ WF_all(Here(TimesOut(p))) /\ WF_all(Here(TurnStep(p)))
    /\ \A j \in Jobs :
         /\ WF_all(Here(RetryComesDue(j))) /\ WF_all(Here(GoesStale(j)))
         /\ SF_all(Here(\E p \in Procs : JobSucceeds(p, j) /\ job'[j].state = "idle"))
    /\ WF_all(Here(HeartbeatAges /\ lock["worker"] = None)) /\ WF_all(Here(Heartbeat))
    /\ WF_all(Here(host # "idle" /\ HostChanges))

MCSpec == MCInit /\ [][MCNext]_all /\ MCFairness
=============================================================================
