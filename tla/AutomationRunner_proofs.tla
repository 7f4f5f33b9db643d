----------------------- MODULE AutomationRunner_proofs -----------------------
(***************************************************************************)
(* Proofs about AutomationRunner, for any tasks, pumps, limit and          *)
(* environment: type correctness, ClaimsCurrentRequest and PumpLimit; when *)
(* the loop is the only pump, ParallelLimit and SharedExclusive; and, when *)
(* nothing raises and the process lives, RunningIsAttended.                *)
(*                                                                         *)
(* The inductive invariant says where a pump can be when it holds a claim  *)
(* or a batch (PhaseInv), and that a claim whose version is still the      *)
(* stream's describes the task as it is (ClaimInv): the compare-and-swap   *)
(* of the Started append turns what was read into what holds.              *)
(***************************************************************************)
EXTENDS AutomationRunner, FiniteSetTheorems, TLAPS

Phase(p, t) ==
  /\ claim[p].task = {t} => pc[p] = "scan" /\ run[p][t].stage = "none"
  /\ pc[p] \notin {"scan", "drain"} => run[p][t].stage = "none"
  /\ t \in left[p] => run[p][t].stage = "none" /\ claim[p].task # {t}

JobPhase == job # NoJob => pc[Loop] \notin {"scan", "drain"}

PhaseInv == JobPhase /\ \A p \in Pumps, t \in Tasks : Phase(p, t)

ClaimInv ==
  \A p \in Pumps, t \in Tasks :
    claim[p].task = {t} /\ claim[p].fresh =>
      task[t].auto = "queued" /\ task[t].src = claim[p].src

IInv == TypeOK /\ PhaseInv /\ ClaimInv

-----------------------------------------------------------------------------
(* Events and plans.                                                       *)

\* Every event takes a task state to a task state, and no event of a plan
\* makes a task running.
LEMMA ApplyType ==
  ASSUME NEW s \in TaskStates, NEW e \in Events
  PROVE  /\ Apply(e, s) \in TaskStates
         /\ e.type # "Started" => (Apply(e, s).auto = "running" => s.auto = "running")
  <1> DEFINE r == Apply(e, s)
  <1>1. e.type \in EventTypes /\ e.src \in Sources /\ e.n \in Nat
    BY DEF Events
  <1>2. CASE e.type \in {"Requested", "Started", "Completed", "Failed"}
    <2>1. r.sched = s.sched /\ r.pending = s.pending /\ r.retries = s.retries
      BY <1>2 DEF Apply, TaskStates
    <2> QED BY <1>1, <1>2, <2>1 DEF Apply, TaskStates
  <1>3. CASE e.type \in {"ScheduleQueued", "ScheduleStarted", "ScheduleCompleted",
                        "ScheduleFailed", "Rearmed"}
    BY <1>3 DEF Apply, TaskStates
  <1>4. CASE e.type \in {"Pending", "Triggered"}
    BY <1>1, <1>4 DEF Apply, TaskStates
  <1>5. CASE e.type = "Retries"
    <2>1. e.n \in 0 .. MaxRetries
      BY <1>5, MaxRetriesAssumption DEF Events
    <2> QED BY <1>5, <2>1 DEF Apply, TaskStates
  <1> QED BY <1>1, <1>2, <1>3, <1>4, <1>5 DEF EventTypes

\* The event constructors make plan events.
LEMMA EventTyping ==
  /\ \A type \in EventTypes \ {"Started", "Retries"} : Event(type) \in PlanEvents
  /\ \A source \in Sources : Requested(source) \in PlanEvents
  /\ \A n \in Nat : Count("Pending", n) \in PlanEvents
  /\ \A n \in 0 .. MaxRetries : Count("Retries", n) \in PlanEvents
  BY MaxRetriesAssumption
  DEF Event, Requested, Count, PlanEvents, Events, EventTypes, Sources

LEMMA RearmTyping ==
  ASSUME NEW t \in Tasks
  PROVE  Rearm(t) \in Seq(PlanEvents)
  <1>1. Event("Rearmed") \in PlanEvents
    BY EventTyping DEF EventTypes
  <1> QED BY <1>1 DEF Rearm, If

LEMMA RequeueTyping ==
  ASSUME NEW s \in TaskStates
  PROVE  RequeuePending(s) \in Seq(PlanEvents)
  <1>1. CASE s.pending > 0
    <2>1. s.pending - 1 \in Nat
      BY <1>1 DEF TaskStates
    <2>2. Count("Pending", s.pending - 1) \in PlanEvents
      BY <2>1, EventTyping
    <2>3. Requested("status_change") \in PlanEvents
      BY EventTyping DEF Sources
    <2> QED BY <2>2, <2>3 DEF RequeuePending, If
  <1>2. CASE ~(s.pending > 0)
    BY <1>2 DEF RequeuePending, If
  <1> QED BY <1>1, <1>2

\* The three recording handlers produce plans.
LEMMA SuccessPlanTyping ==
  ASSUME NEW t \in Tasks, NEW s \in TaskStates, NEW src \in Sources, NEW again \in BOOLEAN
  PROVE  SuccessPlan(t, s, src, again) \in Seq(PlanEvents)
  <1>1. If(s.retries > 0, <<Count("Retries", 0)>>) \in Seq(PlanEvents)
    BY EventTyping, MaxRetriesAssumption DEF If
  <1>2. <<Event("Completed")>> \in Seq(PlanEvents)
    BY EventTyping DEF EventTypes
  <1>3. If(src = "schedule", <<Event("ScheduleCompleted")>> \o Rearm(t)) \in Seq(PlanEvents)
    BY EventTyping, RearmTyping DEF EventTypes, If
  <1>4. If(again, <<Requested("auto_retry")>>) \in Seq(PlanEvents)
    BY EventTyping DEF Sources, If
  <1>5. RequeuePending(s) \in Seq(PlanEvents)
    BY RequeueTyping
  <1> QED BY <1>1, <1>2, <1>3, <1>4, <1>5 DEF SuccessPlan

LEMMA FailurePlanTyping ==
  ASSUME NEW t \in Tasks, NEW s \in TaskStates, NEW src \in Sources, NEW kind \in FailureKinds
  PROVE  FailurePlan(t, s, src, kind) \in Seq(PlanEvents)
  <1>1. <<Event("Completed")>> \in Seq(PlanEvents) /\ <<Event("Failed")>> \in Seq(PlanEvents)
    BY EventTyping DEF EventTypes
  <1>2. <<Event("ScheduleFailed")>> \o Rearm(t) \in Seq(PlanEvents)
    BY EventTyping, RearmTyping DEF EventTypes
  <1>3. If(src = "schedule" \/ ScheduleActive(s), <<Event("ScheduleFailed")>> \o Rearm(t))
          \in Seq(PlanEvents)
    BY <1>2 DEF If
  <1>4. NextRetry(s) \in 0 .. MaxRetries
    BY MaxRetriesAssumption DEF NextRetry, TaskStates
  <1>5. <<Count("Retries", NextRetry(s)), Requested("recover")>> \in Seq(PlanEvents)
    BY <1>4, EventTyping DEF Sources
  <1>6. RequeuePending(s) \in Seq(PlanEvents)
    BY RequeueTyping
  <1> QED BY <1>1, <1>3, <1>5, <1>6 DEF FailurePlan

LEMMA RecoveryPlanTyping ==
  ASSUME NEW t \in Tasks, NEW s \in TaskStates
  PROVE  RecoveryPlan(t, s) \in Seq(PlanEvents)
  <1>1. <<Event("Failed")>> \in Seq(PlanEvents)
    BY EventTyping DEF EventTypes
  <1>2. <<Event("ScheduleFailed")>> \o Rearm(t) \in Seq(PlanEvents)
    BY EventTyping, RearmTyping DEF EventTypes
  <1> QED BY <1>1, <1>2 DEF RecoveryPlan, If

-----------------------------------------------------------------------------
(* Appends.                                                                *)

\* What an append to the stream of t that does not start a run changes.
Touches(t) ==
  /\ task' \in [Tasks -> TaskStates]
  /\ claim' \in [Pumps -> Claims]
  /\ \A u \in Tasks : u # t => task'[u] = task[u]
  /\ task'[t].auto = "running" => task[t].auto = "running"
  /\ \A p \in Pumps : /\ claim'[p].task = claim[p].task
                      /\ claim'[p].src = claim[p].src
                      /\ claim'[p].fresh => claim[p].fresh /\ claim[p].task # {t}

LEMMA ClaimsStale ==
  ASSUME TypeOK, NEW t \in Tasks,
         claim' = [p \in Pumps |-> IF claim[p].task = {t}
                                  THEN [claim[p] EXCEPT !.fresh = FALSE]
                                  ELSE claim[p]]
  PROVE  /\ claim' \in [Pumps -> Claims]
         /\ \A p \in Pumps : /\ claim'[p].task = claim[p].task
                             /\ claim'[p].src = claim[p].src
                             /\ claim'[p].fresh => claim[p].fresh /\ claim[p].task # {t}
  <1>1. ASSUME NEW p \in Pumps
        PROVE  /\ claim'[p] \in Claims
               /\ claim'[p].task = claim[p].task
               /\ claim'[p].src = claim[p].src
               /\ claim'[p].fresh => claim[p].fresh /\ claim[p].task # {t}
    <2>1. claim[p] \in Claims
      BY DEF TypeOK
    <2>2. CASE claim[p].task = {t}
      <3>1. claim'[p] = [claim[p] EXCEPT !.fresh = FALSE]
        BY <2>2
      <3> QED BY <2>1, <3>1 DEF Claims
    <2>3. CASE claim[p].task # {t}
      <3>1. claim'[p] = claim[p]
        BY <2>3
      <3> QED BY <2>1, <2>3, <3>1
    <2> QED BY <2>2, <2>3
  <1>2. claim' = [p \in Pumps |-> claim'[p]]
    OBVIOUS
  <1> QED BY <1>1, <1>2

\* AppendTo with an event of a plan is such an append.
LEMMA AppendTouches ==
  ASSUME TypeOK, NEW t \in Tasks, NEW e \in PlanEvents, AppendTo(t, e)
  PROVE  Touches(t)
  <1>1. e \in Events /\ e.type # "Started"
    BY DEF PlanEvents
  <1>2. task[t] \in TaskStates
    BY DEF TypeOK
  <1>3. /\ Apply(e, task[t]) \in TaskStates
        /\ Apply(e, task[t]).auto = "running" => task[t].auto = "running"
    BY <1>1, <1>2, ApplyType
  <1>4. task' = [task EXCEPT ![t] = Apply(e, task[t])]
    BY DEF AppendTo
  <1>5. /\ task' \in [Tasks -> TaskStates]
        /\ \A u \in Tasks : u # t => task'[u] = task[u]
        /\ task'[t].auto = "running" => task[t].auto = "running"
    BY <1>3, <1>4 DEF TypeOK
  <1> QED BY <1>5, ClaimsStale DEF AppendTo, Touches

\* So is the Updated event of a trigger on a task in progress.
LEMMA TriggerTouches ==
  ASSUME TypeOK, NEW t \in Tasks, StatusTrigger(t)
  PROVE  Touches(t)
  <1>1. task[t].pending + 1 \in Nat
    BY DEF TypeOK, TaskStates
  <1>2. Triggered(task[t].pending + 1) \in PlanEvents
    BY <1>1 DEF Triggered, PlanEvents, Events, EventTypes, Sources
  <1>3. Requested("status_change") \in PlanEvents
    BY EventTyping DEF Sources
  <1> QED BY <1>2, <1>3, AppendTouches DEF StatusTrigger

\* An append that leaves the phases alone preserves the invariant.
LEMMA TouchPreserves ==
  ASSUME IInv, NEW t \in Tasks, Touches(t), UNCHANGED <<pc, left>>,
         run' \in [Pumps -> [Tasks -> RunStates]],
         \A p \in Pumps, u \in Tasks : run'[p][u].stage = run[p][u].stage,
         job' \in [task : {{}} \union {{u} : u \in Tasks}, plan : Seq(PlanEvents)],
         job = NoJob => job' = NoJob,
         env' \in 0 .. MaxEnv
  PROVE  IInv'
  <1>1. TypeOK'
    BY DEF IInv, TypeOK, Touches
  <1>2. PhaseInv'
    <2>1. JobPhase'
      BY DEF IInv, PhaseInv, JobPhase, NoJob
    <2>2. ASSUME NEW p \in Pumps, NEW u \in Tasks PROVE Phase(p, u)'
      <3>1. Phase(p, u)
        BY DEF IInv, PhaseInv
      <3>2. claim'[p].task = claim[p].task /\ run'[p][u].stage = run[p][u].stage
        BY DEF Touches
      <3> QED BY <3>1, <3>2 DEF Phase
    <2> QED BY <2>1, <2>2 DEF PhaseInv
  <1>3. ClaimInv'
    <2> SUFFICES ASSUME NEW p \in Pumps, NEW u \in Tasks, claim'[p].task = {u}, claim'[p].fresh
                 PROVE  task'[u].auto = "queued" /\ task'[u].src = claim'[p].src
      BY DEF ClaimInv
    <2>1. u # t /\ claim[p].task = {u} /\ claim[p].fresh /\ claim'[p].src = claim[p].src
      BY DEF Touches
    <2>2. task'[u] = task[u]
      BY <2>1 DEF Touches
    <2> QED BY <2>1, <2>2 DEF IInv, ClaimInv
  <1> QED BY <1>1, <1>2, <1>3 DEF IInv

-----------------------------------------------------------------------------
(* The inductive invariant.                                                *)

LEMMA InitIInv ==
  Init => IInv
  <1> SUFFICES ASSUME Init PROVE IInv
    OBVIOUS
  <1>1. NewTask \in TaskStates
    BY MaxRetriesAssumption DEF NewTask, TaskStates, Sources
  <1>2. NoClaim \in Claims /\ NoRun \in RunStates
    BY DEF NoClaim, NoRun, Claims, RunStates, Sources
  <1>3. TypeOK
    BY <1>1, <1>2, MaxEnvAssumption DEF Init, TypeOK, NoJob
  <1>4. PhaseInv
    BY DEF Init, PhaseInv, Phase, JobPhase, NoClaim, NoRun, NoJob
  <1>5. ClaimInv
    BY DEF Init, ClaimInv, NoClaim
  <1> QED BY <1>3, <1>4, <1>5 DEF IInv

\* A step that appends nothing and leaves the claims alone.
LEMMA QuietPreserves ==
  ASSUME IInv, UNCHANGED <<task, claim>>, TypeOK', PhaseInv'
  PROVE  IInv'
  BY DEF IInv, ClaimInv

\* The environment's steps and the events of plans.
LEMMA EnvironmentIInv ==
  ASSUME IInv, NEW t \in Tasks, HumanRequest(t) \/ StatusTrigger(t)
  PROVE  IInv'
  <1>1. Touches(t)
    <2>1. CASE HumanRequest(t)
      <3>1. Requested("manual") \in PlanEvents
        BY EventTyping DEF Sources
      <3> QED BY <2>1, <3>1, AppendTouches DEF HumanRequest, IInv
    <2>2. CASE StatusTrigger(t)
      BY <2>2, TriggerTouches DEF IInv
    <2> QED BY <2>1, <2>2
  <1>2. UNCHANGED <<pc, left, run, job>> /\ env' \in 0 .. MaxEnv
    BY MaxEnvAssumption DEF HumanRequest, StatusTrigger, Happens, IInv, TypeOK
  <1> QED BY <1>1, <1>2, TouchPreserves DEF IInv, TypeOK

LEMMA CrashIInv ==
  ASSUME IInv, Crash
  PROVE  IInv'
  <1>1. NoClaim \in Claims /\ NoRun \in RunStates
    BY DEF NoClaim, NoRun, Claims, RunStates, Sources
  <1>2. TypeOK'
    BY <1>1, MaxEnvAssumption DEF Crash, Happens, IInv, TypeOK, NoJob
  <1>3. PhaseInv'
    BY DEF Crash, PhaseInv, Phase, JobPhase, NoClaim, NoRun, NoJob
  <1>4. ClaimInv'
    BY DEF Crash, ClaimInv, NoClaim
  <1> QED BY <1>2, <1>3, <1>4 DEF IInv

LEMMA JobAppendIInv ==
  ASSUME IInv, NEW t \in Tasks, JobAppend(t)
  PROVE  IInv'
  <1>1. Head(job.plan) \in PlanEvents /\ Tail(job.plan) \in Seq(PlanEvents)
    BY DEF JobAppend, IInv, TypeOK
  <1>2. Touches(t)
    BY <1>1, AppendTouches DEF JobAppend, IInv
  <1>3. job' \in [task : {{}} \union {{u} : u \in Tasks}, plan : Seq(PlanEvents)]
    BY <1>1 DEF JobAppend, IInv, TypeOK, NoJob
  <1>4. job # NoJob
    BY DEF JobAppend, NoJob
  <1>5. UNCHANGED <<pc, left, run, env>>
    BY DEF JobAppend
  <1> QED BY <1>2, <1>3, <1>4, <1>5, TouchPreserves DEF IInv, TypeOK

LEMMA RunAppendIInv ==
  ASSUME IInv, NEW p \in Pumps, NEW t \in Tasks, RunAppend(p, t)
  PROVE  IInv'
  <1>1. run[p][t] \in RunStates
    BY DEF IInv, TypeOK
  <1>2. Head(run[p][t].plan) \in PlanEvents /\ Tail(run[p][t].plan) \in Seq(PlanEvents)
    BY <1>1 DEF RunAppend, RunStates
  <1>3. Touches(t)
    BY <1>2, AppendTouches DEF RunAppend, IInv
  <1>4. /\ run' \in [Pumps -> [Tasks -> RunStates]]
        /\ \A q \in Pumps, u \in Tasks : run'[q][u].stage = run[q][u].stage
    BY <1>1, <1>2 DEF RunAppend, IInv, TypeOK, RunStates
  <1>5. UNCHANGED <<pc, left, job, env>>
    BY DEF RunAppend
  <1> QED BY <1>3, <1>4, <1>5, TouchPreserves DEF IInv, TypeOK

\* A step of pump p that appends nothing, for pumps other than p.
LEMMA OthersPhase ==
  ASSUME PhaseInv, NEW p \in Pumps, NEW q \in Pumps, NEW u \in Tasks, q # p,
         pc'[q] = pc[q], left'[q] = left[q], claim'[q] = claim[q], run'[q] = run[q]
  PROVE  Phase(q, u)'
  BY DEF PhaseInv, Phase

\* Steps of the loop between two batches.
LEMMA JobBeginIInv ==
  ASSUME IInv, NEW t \in Tasks, RecoverBegin(t) \/ QueueDue(t)
  PROVE  IInv'
  <1>1. UNCHANGED <<task, pc, left, claim, run, env>> /\ pc[Loop] \notin {"scan", "drain"}
    BY DEF RecoverBegin, QueueDue
  <1>2. PhaseInv'
    BY <1>1 DEF IInv, PhaseInv, Phase, JobPhase
  <1>3. TypeOK'
    <2>1. CASE RecoverBegin(t)
      <3>1. RecoveryPlan(t, task[t]) \in Seq(PlanEvents)
        BY RecoveryPlanTyping DEF IInv, TypeOK
      <3> QED BY <2>1, <3>1 DEF RecoverBegin, IInv, TypeOK
    <2>2. CASE QueueDue(t)
      <3>1. <<Event("ScheduleQueued"), Requested("schedule")>> \in Seq(PlanEvents)
        BY EventTyping DEF EventTypes, Sources
      <3> QED BY <2>2, <3>1 DEF QueueDue, IInv, TypeOK
    <2> QED BY <2>1, <2>2
  <1> QED BY <1>1, <1>2, <1>3, QuietPreserves

LEMMA TickIInv ==
  ASSUME IInv, EndStartup \/ EndRecover \/ EndQueue \/ JobFault
  PROVE  IInv'
  <1> Loop \in Pumps
    BY DEF Pumps
  <1>1. UNCHANGED <<task, claim, run>>
    BY DEF EndStartup, EndRecover, EndQueue, JobFault
  <1>2. pc[Loop] \notin {"scan", "drain"} /\ job' = NoJob
    BY DEF EndStartup, EndRecover, EndQueue, JobFault, IInv, PhaseInv, JobPhase
  <1>3. \A t \in Tasks : run[Loop][t].stage = "none" /\ claim[Loop].task # {t}
    BY <1>2 DEF IInv, PhaseInv, Phase
  <1>4. PICK label \in {"recover", "queue", "scan"} : pc' = [pc EXCEPT ![Loop] = label]
    BY DEF EndStartup, EndRecover, EndQueue, JobFault, StartScan, Goto
  <1>5. left' = left \/ left' = [left EXCEPT ![Loop] = Tasks]
    BY DEF EndStartup, EndRecover, EndQueue, JobFault, StartScan
  <1>6. env' \in 0 .. MaxEnv
    BY MaxEnvAssumption
    DEF EndStartup, EndRecover, EndQueue, JobFault, Happens, IInv, TypeOK
  <1>7. TypeOK'
    BY <1>1, <1>2, <1>4, <1>5, <1>6 DEF IInv, TypeOK, NoJob
  <1>8. PhaseInv'
    <2>1. ASSUME NEW q \in Pumps, NEW u \in Tasks PROVE Phase(q, u)'
      <3>1. CASE q = Loop
        BY <1>1, <1>3, <3>1 DEF Phase
      <3>2. CASE q # Loop
        <4>1. pc'[q] = pc[q] /\ left'[q] = left[q]
          BY <1>4, <1>5, <3>2 DEF IInv, TypeOK
        <4> QED BY <1>1, <3>2, <4>1, OthersPhase DEF IInv
      <3> QED BY <3>1, <3>2
    <2> QED BY <1>2, <2>1 DEF PhaseInv, JobPhase
  <1> QED BY <1>1, <1>7, <1>8, QuietPreserves

\* Starting and ending a scan, ending a batch.
LEMMA ScanIInv ==
  ASSUME IInv, NEW p \in Pumps, KickoffPump(p) \/ EndScan(p) \/ EndBatch(p)
  PROVE  IInv'
  <1>1. UNCHANGED <<task, claim, run, job, env>>
    BY DEF KickoffPump, EndScan, EndBatch
  <1>2. PICK label \in {"scan", "drain", "recover", "idle"} : pc' = [pc EXCEPT ![p] = label]
    BY DEF KickoffPump, EndScan, EndBatch, StartScan, Goto
  <1>3. left' = left \/ left' = [left EXCEPT ![p] = Tasks]
    BY DEF KickoffPump, EndScan, EndBatch, StartScan
  <1>4. TypeOK'
    BY <1>1, <1>2, <1>3 DEF IInv, TypeOK
  <1>5. ASSUME NEW u \in Tasks PROVE Phase(p, u)'
    <2>1. CASE KickoffPump(p)
      <3>1. run[p][u].stage = "none" /\ claim[p].task # {u}
        BY <2>1 DEF KickoffPump, IInv, PhaseInv, Phase
      <3> QED BY <1>1, <3>1 DEF Phase
    <2>2. CASE EndScan(p)
      <3>1. pc'[p] = "drain" /\ left'[p] = {} /\ claim[p].task # {u}
        BY <2>2 DEF EndScan, Goto, NoClaim, IInv, TypeOK
      <3> QED BY <1>1, <3>1 DEF Phase
    <2>3. CASE EndBatch(p)
      <3>1. pc[p] = "drain" /\ run[p][u].stage = "none" /\ left' = left
        BY <2>3 DEF EndBatch, NoRun
      <3>2. claim[p].task # {u}
        BY <3>1 DEF IInv, PhaseInv, Phase
      <3> QED BY <1>1, <3>1, <3>2 DEF Phase
    <2> QED BY <2>1, <2>2, <2>3
  <1>6. JobPhase'
    <2>1. CASE p = Loop
      <3>1. pc[Loop] \in {"scan", "drain"}
        BY <2>1, LoopAssumption DEF KickoffPump, EndScan, EndBatch
      <3> QED BY <1>1, <3>1 DEF IInv, PhaseInv, JobPhase
    <2>2. CASE p # Loop
      <3>1. pc'[Loop] = pc[Loop]
        BY <1>2, <2>2 DEF IInv, TypeOK, Pumps
      <3> QED BY <1>1, <3>1 DEF IInv, PhaseInv, JobPhase, NoJob
    <2> QED BY <2>1, <2>2
  <1>7. ASSUME NEW q \in Pumps, NEW u \in Tasks, q # p PROVE Phase(q, u)'
    <2>1. pc'[q] = pc[q] /\ left'[q] = left[q]
      BY <1>2, <1>3, <1>7 DEF IInv, TypeOK
    <2> QED BY <1>1, <1>7, <2>1, OthersPhase DEF IInv
  <1> QED BY <1>1, <1>4, <1>5, <1>6, <1>7, QuietPreserves DEF PhaseInv

\* A step of one pump that leaves the tasks, the positions and the job alone.
LEMMA PumpStepIInv ==
  ASSUME IInv, NEW p \in Pumps, UNCHANGED <<task, pc, job>>,
         left' \in [Pumps -> SUBSET Tasks],
         claim' \in [Pumps -> Claims],
         run' \in [Pumps -> [Tasks -> RunStates]],
         env' \in 0 .. MaxEnv,
         \A q \in Pumps \ {p} : left'[q] = left[q] /\ claim'[q] = claim[q] /\ run'[q] = run[q],
         \A u \in Tasks : Phase(p, u)',
         \A u \in Tasks : claim'[p].task = {u} /\ claim'[p].fresh =>
                            task[u].auto = "queued" /\ task[u].src = claim'[p].src
  PROVE  IInv'
  <1>1. TypeOK'
    BY DEF IInv, TypeOK
  <1>2. ASSUME NEW q \in Pumps, NEW u \in Tasks, q # p PROVE Phase(q, u)'
    BY <1>2, OthersPhase DEF IInv
  <1>3. PhaseInv'
    BY <1>2 DEF PhaseInv, JobPhase, IInv
  <1>4. ClaimInv'
    <2> SUFFICES ASSUME NEW q \in Pumps, NEW u \in Tasks, claim'[q].task = {u}, claim'[q].fresh
                 PROVE  task'[u].auto = "queued" /\ task'[u].src = claim'[q].src
      BY DEF ClaimInv
    <2>1. CASE q = p
      BY <2>1
    <2>2. CASE q # p
      BY <2>2 DEF IInv, ClaimInv
    <2> QED BY <2>1, <2>2
  <1> QED BY <1>1, <1>3, <1>4 DEF IInv

\* Reading a task: the claim that is made describes it.
LEMMA ClaimReadIInv ==
  ASSUME IInv, NEW p \in Pumps, NEW t \in Tasks, ClaimRead(p, t)
  PROVE  IInv'
  <1> DEFINE c == [task |-> {t}, src |-> task[t].src, sched |-> task[t].sched, fresh |-> TRUE]
  <1>1. UNCHANGED <<task, pc, run, job, env>> /\ pc[p] = "scan" /\ t \in left[p]
    BY DEF ClaimRead, Visit
  <1>2. left' = [left EXCEPT ![p] = @ \ {t}] /\ claim' = [claim EXCEPT ![p] = c]
    BY DEF ClaimRead, Visit
  <1>3. c \in Claims
    BY DEF IInv, TypeOK, TaskStates, Claims
  <1>4. /\ left' \in [Pumps -> SUBSET Tasks]
        /\ claim' \in [Pumps -> Claims]
        /\ left'[p] = left[p] \ {t}
        /\ claim'[p] = c
        /\ \A q \in Pumps \ {p} : left'[q] = left[q] /\ claim'[q] = claim[q]
    BY <1>2, <1>3 DEF IInv, TypeOK
  <1>5. \A u \in left[p] : run[p][u].stage = "none"
    BY DEF IInv, PhaseInv, Phase, TypeOK
  <1>6. claim'[p].task = {t} /\ claim'[p].src = task[t].src
    BY <1>4
  <1>7. task[t].auto = "queued"
    BY DEF ClaimRead, Claimable
  <1>8. ASSUME NEW u \in Tasks PROVE Phase(p, u)'
    BY <1>1, <1>4, <1>5, <1>6 DEF Phase
  <1>9. \A u \in Tasks : claim'[p].task = {u} /\ claim'[p].fresh =>
          task[u].auto = "queued" /\ task[u].src = claim'[p].src
    BY <1>6, <1>7
  <1>10. run' \in [Pumps -> [Tasks -> RunStates]] /\ env' \in 0 .. MaxEnv
    BY <1>1 DEF IInv, TypeOK
  <1>11. \A q \in Pumps \ {p} : left'[q] = left[q] /\ claim'[q] = claim[q] /\ run'[q] = run[q]
    BY <1>1, <1>4
  <1> QED BY <1>1, <1>4, <1>8, <1>9, <1>10, <1>11, PumpStepIInv

LEMMA SkipIInv ==
  ASSUME IInv, NEW p \in Pumps, NEW t \in Tasks, Skip(p, t)
  PROVE  IInv'
  <1>1. UNCHANGED <<task, pc, claim, run, job, env>>
    BY DEF Skip
  <1>2. left' = [left EXCEPT ![p] = @ \ {t}]
    BY DEF Skip, Visit
  <1>3. /\ left' \in [Pumps -> SUBSET Tasks]
        /\ left'[p] = left[p] \ {t}
        /\ \A q \in Pumps \ {p} : left'[q] = left[q]
    BY <1>2 DEF IInv, TypeOK
  <1>4. ASSUME NEW u \in Tasks PROVE Phase(p, u)'
    BY <1>1, <1>3 DEF IInv, PhaseInv, Phase
  <1>5. /\ claim' \in [Pumps -> Claims]
        /\ run' \in [Pumps -> [Tasks -> RunStates]]
        /\ env' \in 0 .. MaxEnv
    BY <1>1 DEF IInv, TypeOK
  <1>6. \A u \in Tasks : claim'[p].task = {u} /\ claim'[p].fresh =>
          task[u].auto = "queued" /\ task[u].src = claim'[p].src
    BY <1>1 DEF IInv, ClaimInv
  <1>7. \A q \in Pumps \ {p} : left'[q] = left[q] /\ claim'[q] = claim[q] /\ run'[q] = run[q]
    BY <1>1, <1>3
  <1> QED BY <1>1, <1>3, <1>4, <1>5, <1>6, <1>7, PumpStepIInv

LEMMA ClaimLostIInv ==
  ASSUME IInv, NEW p \in Pumps, ClaimLost(p)
  PROVE  IInv'
  <1>1. UNCHANGED <<task, pc, left, run, job, env>> /\ claim' = [claim EXCEPT ![p] = NoClaim]
    BY DEF ClaimLost
  <1>2. NoClaim \in Claims /\ NoClaim.task = {}
    BY DEF NoClaim, Claims, Sources
  <1>3. /\ claim' \in [Pumps -> Claims]
        /\ claim'[p].task = {}
        /\ \A q \in Pumps \ {p} : claim'[q] = claim[q]
    BY <1>1, <1>2 DEF IInv, TypeOK
  <1>4. ASSUME NEW u \in Tasks PROVE Phase(p, u)'
    BY <1>1, <1>3 DEF IInv, PhaseInv, Phase
  <1>5. /\ left' \in [Pumps -> SUBSET Tasks]
        /\ run' \in [Pumps -> [Tasks -> RunStates]]
        /\ env' \in 0 .. MaxEnv
    BY <1>1 DEF IInv, TypeOK
  <1>6. \A q \in Pumps \ {p} : left'[q] = left[q] /\ claim'[q] = claim[q] /\ run'[q] = run[q]
    BY <1>1, <1>3
  <1> QED BY <1>1, <1>3, <1>4, <1>5, <1>6, PumpStepIInv

\* Steps that change one run: they find it begun, and so the pump is in its
\* scan or its drain and the task is neither left nor being claimed.
RunStep(p, t) ==
  /\ UNCHANGED <<task, pc, left, claim, job>>
  /\ env' \in 0 .. MaxEnv
  /\ run[p][t].stage # "none"
  /\ \E r \in RunStates : run' = [run EXCEPT ![p][t] = r]

LEMMA RunStepIInv ==
  ASSUME IInv, NEW p \in Pumps, NEW t \in Tasks, RunStep(p, t)
  PROVE  IInv'
  <1>1. PICK r \in RunStates : run' = [run EXCEPT ![p][t] = r]
    BY DEF RunStep
  <1>2. /\ UNCHANGED <<task, pc, left, claim, job>>
        /\ env' \in 0 .. MaxEnv
        /\ run[p][t].stage # "none"
    BY DEF RunStep
  <1>3. /\ run' \in [Pumps -> [Tasks -> RunStates]]
        /\ \A q \in Pumps \ {p} : run'[q] = run[q]
        /\ \A u \in Tasks \ {t} : run'[p][u] = run[p][u]
    BY <1>1 DEF IInv, TypeOK
  <1>4. claim[p].task # {t} /\ t \notin left[p] /\ pc[p] \in {"scan", "drain"}
    BY <1>2 DEF IInv, PhaseInv, Phase
  <1>5. ASSUME NEW u \in Tasks PROVE Phase(p, u)'
    BY <1>2, <1>3, <1>4 DEF IInv, PhaseInv, Phase
  <1>6. left' \in [Pumps -> SUBSET Tasks] /\ claim' \in [Pumps -> Claims]
    BY <1>2 DEF IInv, TypeOK
  <1>7. \A u \in Tasks : claim'[p].task = {u} /\ claim'[p].fresh =>
          task[u].auto = "queued" /\ task[u].src = claim'[p].src
    BY <1>2 DEF IInv, ClaimInv
  <1>8. \A q \in Pumps \ {p} : left'[q] = left[q] /\ claim'[q] = claim[q] /\ run'[q] = run[q]
    BY <1>2, <1>3
  <1> QED BY <1>2, <1>3, <1>5, <1>6, <1>7, <1>8, PumpStepIInv

LEMMA RunStepsAre ==
  ASSUME IInv, NEW p \in Pumps, NEW t \in Tasks,
         \/ ClaimEnd(p, t) \/ ClaimWordless(p, t)
         \/ Succeed(p, t) \/ Fail(p, t) \/ RunEnd(p, t) \/ RunFault(p, t)
  PROVE  RunStep(p, t)
  <1> DEFINE s == run[p][t]
  <1>1. s \in RunStates /\ task[t] \in TaskStates /\ env \in 0 .. MaxEnv
    BY DEF IInv, TypeOK
  <1>2. s.src \in Sources /\ s.plan \in Seq(PlanEvents)
    BY <1>1 DEF RunStates
  <1>3. NoRun \in RunStates
    BY DEF NoRun, RunStates, Sources
  <1>4. CASE ClaimEnd(p, t)
    <2>1. run' = [run EXCEPT ![p][t] = [s EXCEPT !.stage = "executing"]]
      BY <1>4 DEF ClaimEnd
    <2>2. [s EXCEPT !.stage = "executing"] \in RunStates
      BY <1>1 DEF RunStates
    <2> QED BY <1>1, <1>4, <2>1, <2>2 DEF ClaimEnd, RunStep
  <1>5. CASE Succeed(p, t)
    <2>1. PICK again \in BOOLEAN :
            run' = [run EXCEPT ![p][t].stage = "success",
                               ![p][t].plan = SuccessPlan(t, task[t], s.src, again)]
      BY <1>5 DEF Succeed
    <2> DEFINE plan == SuccessPlan(t, task[t], s.src, again)
    <2>2. plan \in Seq(PlanEvents)
      BY <1>1, <1>2, SuccessPlanTyping
    <2>3. [s EXCEPT !.stage = "success", !.plan = plan] \in RunStates
      BY <1>1, <2>2 DEF RunStates
    <2>4. run' = [run EXCEPT ![p][t] = [s EXCEPT !.stage = "success", !.plan = plan]]
      BY <2>1 DEF IInv, TypeOK
    <2> QED BY <1>1, <1>5, <2>3, <2>4 DEF Succeed, RunStep
  <1>6. CASE Fail(p, t)
    <2>1. PICK kind \in Failures :
            run' = [run EXCEPT ![p][t].stage = "failure",
                               ![p][t].plan = FailurePlan(t, task[t], s.src, kind)]
      BY <1>6 DEF Fail
    <2> DEFINE plan == FailurePlan(t, task[t], s.src, kind)
    <2>2. plan \in Seq(PlanEvents)
      BY <1>1, <1>2, FailurePlanTyping, FailuresAssumption
    <2>3. [s EXCEPT !.stage = "failure", !.plan = plan] \in RunStates
      BY <1>1, <2>2 DEF RunStates
    <2>4. run' = [run EXCEPT ![p][t] = [s EXCEPT !.stage = "failure", !.plan = plan]]
      BY <2>1 DEF IInv, TypeOK
    <2> QED BY <1>1, <1>6, <2>3, <2>4 DEF Fail, RunStep
  <1>7. CASE RunEnd(p, t)
    BY <1>1, <1>3, <1>7 DEF RunEnd, RunStep
  <1>8. CASE RunFault(p, t)
    <2>1. UNCHANGED <<task, pc, left, claim, job>> /\ env' \in 0 .. MaxEnv /\ s.stage # "none"
      BY <1>1, <1>8, MaxEnvAssumption DEF RunFault, Happens
    <2>2. CASE s.stage # "success"
      BY <1>3, <1>8, <2>1, <2>2 DEF RunFault, RunStep
    <2>3. CASE s.stage = "success"
      <3>1. PICK kind \in Failures :
              run' = [run EXCEPT ![p][t].stage = "failure",
                                 ![p][t].plan = FailurePlan(t, task[t], s.src, kind)]
        BY <1>8, <2>3 DEF RunFault
      <3> DEFINE plan == FailurePlan(t, task[t], s.src, kind)
      <3>2. plan \in Seq(PlanEvents)
        BY <1>1, <1>2, FailurePlanTyping, FailuresAssumption
      <3>3. [s EXCEPT !.stage = "failure", !.plan = plan] \in RunStates
        BY <1>1, <3>2 DEF RunStates
      <3>4. run' = [run EXCEPT ![p][t] = [s EXCEPT !.stage = "failure", !.plan = plan]]
        BY <3>1 DEF IInv, TypeOK
      <3> QED BY <2>1, <3>3, <3>4 DEF RunStep
    <2> QED BY <2>2, <2>3
  <1>9. CASE ClaimWordless(p, t)
    BY <1>1, <1>3, <1>9 DEF ClaimWordless, RunStep
  <1> QED BY <1>4, <1>5, <1>6, <1>7, <1>8, <1>9

\* The append of Started: the claim was fresh, so the task was queued.
LEMMA ClaimWriteChanges ==
  ASSUME IInv, NEW p \in Pumps, NEW t \in Tasks, ClaimWrite(p, t)
  PROVE  /\ UNCHANGED <<pc, left, job, env>>
         /\ task[t].auto = "queued" /\ task[t].src = claim[p].src
         /\ run[p][t].stage = "none"
         /\ task' \in [Tasks -> TaskStates]
         /\ task'[t].auto = "running"
         /\ \A u \in Tasks \ {t} : task'[u] = task[u]
         /\ claim' \in [Pumps -> Claims]
         /\ claim'[p] = NoClaim
         /\ \A q \in Pumps \ {p} : /\ claim'[q].task = claim[q].task
                                   /\ claim'[q].src = claim[q].src
                                   /\ claim'[q].fresh => claim[q].fresh /\ claim[q].task # {t}
         /\ run' \in [Pumps -> [Tasks -> RunStates]]
         /\ run'[p][t].stage = "claiming" /\ run'[p][t].src = claim[p].src
         /\ \A q \in Pumps \ {p} : run'[q] = run[q]
         /\ \A u \in Tasks \ {t} : run'[p][u] = run[p][u]
  <1>1. UNCHANGED <<pc, left, job, env>> /\ claim[p].task = {t} /\ claim[p].fresh
    BY DEF ClaimWrite
  <1>2. task[t].auto = "queued" /\ task[t].src = claim[p].src
    BY <1>1 DEF IInv, ClaimInv
  <1>3. run[p][t].stage = "none"
    BY <1>1 DEF IInv, PhaseInv, Phase
  <1>4. /\ task' \in [Tasks -> TaskStates]
        /\ task'[t].auto = "running"
        /\ \A u \in Tasks \ {t} : task'[u] = task[u]
    <2>1. task' = [task EXCEPT ![t] = Apply(Event("Started"), task[t])]
      BY DEF ClaimWrite
    <2>2. Apply(Event("Started"), task[t]) = [task[t] EXCEPT !.auto = "running"]
      BY DEF Apply, Event
    <2>3. task \in [Tasks -> TaskStates] /\ task[t] \in TaskStates
      BY DEF IInv, TypeOK
    <2>4. [task[t] EXCEPT !.auto = "running"] \in TaskStates
      BY <2>3 DEF TaskStates
    <2>5. [task[t] EXCEPT !.auto = "running"].auto = "running"
      BY <2>3 DEF TaskStates
    <2> QED BY <2>1, <2>2, <2>3, <2>4, <2>5
  <1>5. /\ claim' \in [Pumps -> Claims]
        /\ claim'[p] = NoClaim
        /\ \A q \in Pumps \ {p} : /\ claim'[q].task = claim[q].task
                                  /\ claim'[q].src = claim[q].src
                                  /\ claim'[q].fresh => claim[q].fresh /\ claim[q].task # {t}
    <2>1. claim' = [q \in Pumps |->
                      IF q = p THEN NoClaim
                      ELSE IF claim[q].task = {t} THEN [claim[q] EXCEPT !.fresh = FALSE]
                      ELSE claim[q]]
      BY DEF ClaimWrite
    <2>2. NoClaim \in Claims
      BY DEF NoClaim, Claims, Sources
    <2>3. ASSUME NEW q \in Pumps, q # p
          PROVE  /\ claim'[q] \in Claims
                 /\ claim'[q].task = claim[q].task
                 /\ claim'[q].src = claim[q].src
                 /\ claim'[q].fresh => claim[q].fresh /\ claim[q].task # {t}
      <3>1. claim[q] \in Claims
        BY DEF IInv, TypeOK
      <3>2. CASE claim[q].task = {t}
        <4>1. claim'[q] = [claim[q] EXCEPT !.fresh = FALSE]
          BY <2>1, <2>3, <3>2
        <4> QED BY <3>1, <4>1 DEF Claims
      <3>3. CASE claim[q].task # {t}
        <4>1. claim'[q] = claim[q]
          BY <2>1, <2>3, <3>3
        <4> QED BY <3>1, <3>3, <4>1
      <3> QED BY <3>2, <3>3
    <2>4. claim'[p] = NoClaim
      BY <2>1
    <2>5. \A q \in Pumps : claim'[q] \in Claims
      BY <2>2, <2>3, <2>4
    <2>6. claim' = [q \in Pumps |-> claim'[q]]
      BY <2>1
    <2>7. claim' \in [Pumps -> Claims]
      BY <2>5, <2>6
    <2> QED BY <2>3, <2>4, <2>7
  <1>6. /\ run' \in [Pumps -> [Tasks -> RunStates]]
        /\ run'[p][t].stage = "claiming" /\ run'[p][t].src = claim[p].src
        /\ \A q \in Pumps \ {p} : run'[q] = run[q]
        /\ \A u \in Tasks \ {t} : run'[p][u] = run[p][u]
    <2> DEFINE plan == If(claim[p].src = "schedule" /\ claim[p].sched \in {"queued", "idle"},
                          <<Event("ScheduleStarted")>>)
               r == [stage |-> "claiming", src |-> claim[p].src, plan |-> plan]
    <2>1. plan \in Seq(PlanEvents)
      BY EventTyping DEF EventTypes, If
    <2>2. r \in RunStates
      <3>1. claim[p].src \in Sources
        BY DEF IInv, TypeOK, Claims
      <3> QED BY <2>1, <3>1 DEF RunStates
    <2>3. run' = [run EXCEPT ![p][t] = r]
      BY DEF ClaimWrite
    <2>4. r.stage = "claiming" /\ r.src = claim[p].src
      OBVIOUS
    <2> HIDE DEF r
    <2> QED BY <2>2, <2>3, <2>4 DEF IInv, TypeOK
  <1> QED BY <1>1, <1>2, <1>3, <1>4, <1>5, <1>6

LEMMA ClaimWriteIInv ==
  ASSUME IInv, NEW p \in Pumps, NEW t \in Tasks, ClaimWrite(p, t)
  PROVE  IInv'
  <1>1. /\ UNCHANGED <<pc, left, job, env>>
        /\ task' \in [Tasks -> TaskStates]
        /\ \A u \in Tasks \ {t} : task'[u] = task[u]
        /\ claim' \in [Pumps -> Claims]
        /\ claim'[p] = NoClaim
        /\ \A q \in Pumps \ {p} : /\ claim'[q].task = claim[q].task
                                  /\ claim'[q].src = claim[q].src
                                  /\ claim'[q].fresh => claim[q].fresh /\ claim[q].task # {t}
        /\ run' \in [Pumps -> [Tasks -> RunStates]]
        /\ \A q \in Pumps \ {p} : run'[q] = run[q]
        /\ \A u \in Tasks \ {t} : run'[p][u] = run[p][u]
    BY ClaimWriteChanges
  <1>2. NoClaim.task = {}
    BY DEF NoClaim
  <1>3. TypeOK'
    BY <1>1 DEF IInv, TypeOK
  <1>4. claim[p].task = {t}
    BY DEF ClaimWrite
  <1>5. pc[p] = "scan" /\ t \notin left[p]
    BY <1>4 DEF IInv, PhaseInv, Phase
  <1>6. ASSUME NEW q \in Pumps, NEW u \in Tasks PROVE Phase(q, u)'
    <2>1. CASE q # p
      <3>1. Phase(q, u)
        BY DEF IInv, PhaseInv
      <3>2. claim'[q].task = claim[q].task /\ run'[q] = run[q] /\ pc' = pc /\ left' = left
        BY <1>1, <2>1
      <3> QED BY <3>1, <3>2 DEF Phase
    <2>2. CASE q = p
      <3>1. Phase(p, u) /\ claim'[p].task = {} /\ pc'[p] = "scan" /\ left' = left
        BY <1>1, <1>2, <1>5 DEF IInv, PhaseInv
      <3>2. u # t => run'[p][u] = run[p][u]
        BY <1>1
      <3> QED BY <1>5, <2>2, <3>1, <3>2 DEF Phase
    <2> QED BY <2>1, <2>2
  <1>7. PhaseInv'
    BY <1>1, <1>6 DEF PhaseInv, JobPhase, IInv
  <1>8. ClaimInv'
    <2> SUFFICES ASSUME NEW q \in Pumps, NEW u \in Tasks, claim'[q].task = {u}, claim'[q].fresh
                 PROVE  task'[u].auto = "queued" /\ task'[u].src = claim'[q].src
      BY DEF ClaimInv
    <2>1. q # p
      BY <1>1, <1>2
    <2>2. claim[q].task = {u} /\ claim[q].fresh /\ u # t /\ claim'[q].src = claim[q].src
      BY <1>1, <2>1
    <2>3. task'[u] = task[u]
      BY <1>1, <2>2
    <2> QED BY <2>2, <2>3 DEF IInv, ClaimInv
  <1> QED BY <1>3, <1>7, <1>8 DEF IInv

\* Every step preserves the invariant.
LEMMA NextIInv ==
  IInv /\ [Next]_vars => IInv'
  <1> SUFFICES ASSUME IInv, [Next]_vars PROVE IInv'
    OBVIOUS
  <1>1. CASE \E t \in Tasks : HumanRequest(t) \/ StatusTrigger(t)
    BY <1>1, EnvironmentIInv
  <1>2. CASE Crash
    BY <1>2, CrashIInv
  <1>3. CASE Faults
    BY <1>3, TickIInv, RunStepsAre, RunStepIInv DEF Faults
  <1>4. CASE LoopTick
    BY <1>4, JobBeginIInv, JobAppendIInv, TickIInv DEF LoopTick
  <1>5. CASE \E p \in Pumps : KickoffPump(p) \/ EndScan(p) \/ EndBatch(p)
    BY <1>5, ScanIInv
  <1>6. CASE \E p \in Pumps : Claiming(p)
    BY <1>6, ClaimReadIInv, SkipIInv, ClaimWriteIInv, ClaimLostIInv, RunStepsAre, RunStepIInv
    DEF Claiming
  <1>7. CASE \E p \in Pumps, t \in Tasks : Executing(p, t)
    BY <1>7, RunAppendIInv, RunStepsAre, RunStepIInv DEF Executing
  <1>8. CASE UNCHANGED vars
    <2>1. TypeOK'
      BY <1>8 DEF vars, IInv, TypeOK
    <2>2. PhaseInv'
      BY <1>8 DEF vars, IInv, PhaseInv, JobPhase, Phase
    <2> QED BY <1>8, <2>1, <2>2, QuietPreserves DEF vars
  <1> QED BY <1>1, <1>2, <1>3, <1>4, <1>5, <1>6, <1>7, <1>8 DEF Next

LEMMA Invariance ==
  Spec => []IInv
  BY InitIInv, NextIInv, PTL DEF Spec

-----------------------------------------------------------------------------
(* Theorems.                                                               *)

\* Whatever the tasks, the pumps and the environment do, every variable of
\* the runner keeps its type: in particular no plan outruns a pending count
\* and no retry count passes its bound.
THEOREM TypeCorrect ==
  Spec => []TypeOK
  BY Invariance, PTL DEF IInv

\* A step that starts no run and makes no claim fresh.
Gentle ==
  /\ \A t \in Tasks : task'[t].auto = "running" => task[t].auto = "running"
  /\ \A p \in Pumps, t \in Tasks :
       claim'[p].task = {t} /\ claim'[p].fresh => claim[p].task = {t} /\ claim[p].fresh

LEMMA TouchGentle ==
  ASSUME NEW t \in Tasks, Touches(t)
  PROVE  Gentle
  BY DEF Touches, Gentle

\* Only the append of a claim starts a run, only a read makes a claim.
LEMMA StepKinds ==
  ASSUME IInv, [Next]_vars
  PROVE  \/ Gentle
         \/ \E p \in Pumps, t \in Tasks : ClaimRead(p, t) \/ ClaimWrite(p, t)
  <1>1. CASE \E t \in Tasks : HumanRequest(t) \/ StatusTrigger(t)
    <2>1. PICK t \in Tasks : HumanRequest(t) \/ StatusTrigger(t)
      BY <1>1
    <2>2. Requested("manual") \in PlanEvents
      BY EventTyping DEF Sources
    <2>3. Touches(t)
      BY <2>1, <2>2, AppendTouches, TriggerTouches DEF HumanRequest, IInv
    <2> QED BY <2>3, TouchGentle
  <1>2. CASE Crash
    BY <1>2 DEF Crash, Gentle, NoClaim
  <1>3. CASE Faults
    BY <1>3 DEF Faults, JobFault, RunFault, Gentle
  <1>4. CASE LoopTick
    <2>1. CASE \E t \in Tasks : JobAppend(t)
      <3>1. PICK t \in Tasks : JobAppend(t)
        BY <2>1
      <3>2. Head(job.plan) \in PlanEvents
        BY <3>1 DEF JobAppend, IInv, TypeOK
      <3>3. Touches(t)
        BY <3>1, <3>2, AppendTouches DEF JobAppend, IInv
      <3> QED BY <3>3, TouchGentle
    <2>2. CASE ~\E t \in Tasks : JobAppend(t)
      BY <1>4, <2>2
      DEF LoopTick, RecoverBegin, QueueDue, EndStartup, EndRecover, EndQueue, Gentle
    <2> QED BY <2>1, <2>2
  <1>5. CASE \E p \in Pumps : KickoffPump(p) \/ EndScan(p) \/ EndBatch(p)
    BY <1>5 DEF KickoffPump, EndScan, EndBatch, Gentle
  <1>6. CASE \E p \in Pumps : Claiming(p)
    <2>1. PICK p \in Pumps : Claiming(p)
      BY <1>6
    <2>2. CASE ClaimLost(p)
      <3>1. task' = task /\ \A q \in Pumps : claim'[q] = claim[q] \/ claim'[q] = NoClaim
        BY <2>2 DEF ClaimLost, IInv, TypeOK
      <3> QED BY <3>1 DEF Gentle, NoClaim
    <2>3. CASE \E t \in Tasks : Skip(p, t) \/ ClaimEnd(p, t) \/ ClaimWordless(p, t)
      BY <2>3 DEF Skip, ClaimEnd, ClaimWordless, Gentle
    <2> QED BY <2>1, <2>2, <2>3 DEF Claiming
  <1>7. CASE \E p \in Pumps, t \in Tasks : Executing(p, t)
    <2>1. PICK p \in Pumps, t \in Tasks : Executing(p, t)
      BY <1>7
    <2>2. CASE RunAppend(p, t)
      <3>1. run[p][t] \in RunStates
        BY DEF IInv, TypeOK
      <3>2. Head(run[p][t].plan) \in PlanEvents
        BY <2>2, <3>1 DEF RunAppend, RunStates
      <3>3. Touches(t)
        BY <2>2, <3>2, AppendTouches DEF RunAppend, IInv
      <3> QED BY <3>3, TouchGentle
    <2>3. CASE ~RunAppend(p, t)
      BY <2>1, <2>3 DEF Executing, Succeed, Fail, RunEnd, Gentle
    <2> QED BY <2>2, <2>3
  <1>8. CASE UNCHANGED vars
    BY <1>8 DEF vars, Gentle
  <1> QED BY <1>1, <1>2, <1>3, <1>4, <1>5, <1>6, <1>7, <1>8 DEF Next

\* With any number of pumps, tasks and environment steps: a task starts to
\* run only from the queued state, on a pump that had no run of it, and with
\* the source of the request that is current (the compare-and-swap of
\* _claim_queued_task is enough).
THEOREM ClaimsAreCurrent ==
  Spec => ClaimsCurrentRequest
  <1>1. ASSUME IInv, [Next]_vars, NEW t \in Tasks,
               task[t].auto # "running", task'[t].auto = "running"
        PROVE  /\ task[t].auto = "queued"
               /\ \E p \in Pumps : run[p][t].stage = "none"
                                  /\ run'[p][t].stage = "claiming"
                                  /\ run'[p][t].src = task[t].src
    <2>1. ~Gentle
      BY <1>1 DEF Gentle
    <2>2. PICK p \in Pumps, u \in Tasks : ClaimRead(p, u) \/ ClaimWrite(p, u)
      BY <1>1, <2>1, StepKinds
    <2>3. ClaimWrite(p, u)
      BY <1>1, <2>2 DEF ClaimRead
    <2>4. u = t
      BY <1>1, <2>3, ClaimWriteChanges
    <2>5. ClaimWrite(p, t)
      BY <2>3, <2>4
    <2>6. /\ task[t].auto = "queued" /\ task[t].src = claim[p].src
          /\ run[p][t].stage = "none"
          /\ run'[p][t].stage = "claiming" /\ run'[p][t].src = claim[p].src
      BY <1>1, <2>5, ClaimWriteChanges
    <2> QED BY <2>6
  <1> DEFINE CurrentStart ==
               \A t \in Tasks : task[t].auto # "running" /\ task'[t].auto = "running" =>
                 /\ task[t].auto = "queued"
                 /\ \E p \in Pumps : run[p][t].stage = "none"
                                    /\ run'[p][t].stage = "claiming"
                                    /\ run'[p][t].src = task[t].src
  <1>2. IInv /\ [Next]_vars => [CurrentStart]_vars
    BY <1>1
  <1> QED BY <1>2, Invariance, PTL DEF Spec, ClaimsCurrentRequest

-----------------------------------------------------------------------------
(* The project's limit.                                                    *)

\* The claims whose append would succeed now.
Claimers == {p \in Pumps : claim[p].fresh /\ claim[p].task # {}}

\* A run that is about to be started is counted with the running ones.
PumpInv == Cardinality(Running) + Cardinality(Claimers) <= Limit + Cardinality(Kickoffs)

LEMMA Finiteness ==
  /\ IsFiniteSet(Running) /\ Cardinality(Running) \in Nat
  /\ IsFiniteSet(Claimers) /\ Cardinality(Claimers) \in Nat
  /\ IsFiniteSet(Pumps) /\ Cardinality(Kickoffs) \in Nat
  /\ Cardinality(Pumps) = Cardinality(Kickoffs) + 1
  <1>1. Running \subseteq Tasks /\ Claimers \subseteq Pumps
    BY DEF Running, Claimers
  <1>2. Pumps = Kickoffs \union {Loop}
    BY DEF Pumps
  <1>3. IsFiniteSet(Pumps) /\ Cardinality(Pumps) = Cardinality(Kickoffs) + 1
    BY <1>2, KickoffsAssumption, LoopAssumption, FS_AddElement
  <1> QED BY <1>1, <1>3, TasksAssumption, KickoffsAssumption, FS_Subset, FS_CardinalityType

LEMMA FinitenessNext ==
  /\ IsFiniteSet(Running') /\ Cardinality(Running') \in Nat
  /\ IsFiniteSet(Claimers') /\ Cardinality(Claimers') \in Nat
  <1>1. Running' \subseteq Tasks /\ Claimers' \subseteq Pumps
    BY DEF Running, Claimers
  <1> QED BY <1>1, Finiteness, TasksAssumption, FS_Subset, FS_CardinalityType

\* A step that starts no run and makes no claim fresh.
LEMMA PumpInvGentle ==
  ASSUME IInv, IInv', PumpInv, Gentle
  PROVE  PumpInv'
  <1>1. Running' \subseteq Running
    BY DEF Gentle, Running
  <1>2. Claimers' \subseteq Claimers
    <2> SUFFICES ASSUME NEW p \in Pumps, claim'[p].fresh, claim'[p].task # {}
                 PROVE  claim[p].fresh /\ claim[p].task # {}
      BY DEF Claimers
    <2>1. claim'[p] \in Claims
      BY DEF IInv, TypeOK
    <2>2. PICK t \in Tasks : claim'[p].task = {t}
      BY <2>1 DEF Claims
    <2> QED BY <2>2 DEF Gentle
  <1>3. /\ Cardinality(Running') <= Cardinality(Running)
        /\ Cardinality(Claimers') <= Cardinality(Claimers)
    BY <1>1, <1>2, Finiteness, FS_Subset
  <1> QED BY <1>3, Finiteness, FinitenessNext, LimitAssumption DEF PumpInv

\* The claim that is read has counted the running tasks: with all the other
\* pumps about to start one each, the limit is exceeded by their number.
LEMMA PumpInvRead ==
  ASSUME IInv, NEW p \in Pumps, NEW t \in Tasks, ClaimRead(p, t)
  PROVE  PumpInv'
  <1>1. task' = task /\ task[t].auto = "queued" /\ Cardinality(Running \ {t}) < Limit
    BY DEF ClaimRead, Claimable
  <1>2. Running \ {t} = Running /\ Running' = Running
    BY <1>1 DEF Running
  <1>3. Claimers' \subseteq Pumps
    BY DEF Claimers
  <1>4. Cardinality(Claimers') <= Cardinality(Pumps)
    BY <1>3, Finiteness, FS_Subset
  <1>5. Cardinality(Running') + 1 <= Limit
    BY <1>1, <1>2, Finiteness, LimitAssumption
  <1> QED BY <1>4, <1>5, Finiteness, FinitenessNext, LimitAssumption DEF PumpInv

\* The append of a claim makes one claim a running task.
LEMMA PumpInvWrite ==
  ASSUME IInv, PumpInv, NEW p \in Pumps, NEW t \in Tasks, ClaimWrite(p, t)
  PROVE  PumpInv'
  <1>1. claim[p].fresh /\ claim[p].task = {t}
    BY DEF ClaimWrite
  <1>2. /\ task'[t].auto = "running"
        /\ \A u \in Tasks \ {t} : task'[u] = task[u]
        /\ claim'[p] = NoClaim
        /\ \A q \in Pumps \ {p} : /\ claim'[q].task = claim[q].task
                                  /\ claim'[q].fresh => claim[q].fresh
        /\ task[t].auto = "queued"
    BY ClaimWriteChanges
  <1>3. t \notin Running /\ Running' = Running \union {t}
    BY <1>2 DEF Running
  <1>4. Cardinality(Running') = Cardinality(Running) + 1
    BY <1>3, Finiteness, FS_AddElement
  <1>5. p \in Claimers
    BY <1>1 DEF Claimers
  <1>6. Claimers' \subseteq Claimers \ {p}
    <2>1. claim'[p].task = {}
      BY <1>2 DEF NoClaim
    <2> QED BY <1>2, <2>1 DEF Claimers
  <1>7. /\ Cardinality(Claimers \ {p}) = Cardinality(Claimers) - 1
        /\ IsFiniteSet(Claimers \ {p})
    BY <1>5, Finiteness, FS_RemoveElement
  <1>8. Cardinality(Claimers') <= Cardinality(Claimers) - 1
    BY <1>6, <1>7, FS_Subset
  <1> QED BY <1>4, <1>8, Finiteness, FinitenessNext, LimitAssumption DEF PumpInv

LEMMA PumpInvariance ==
  Spec => []PumpInv
  <1>1. Init => PumpInv
    <2> SUFFICES ASSUME Init PROVE PumpInv
      OBVIOUS
    <2>1. Running = {} /\ Claimers = {}
      BY DEF Init, Running, NewTask, Claimers, NoClaim
    <2> QED BY <2>1, FS_EmptySet, Finiteness, LimitAssumption DEF PumpInv
  <1>2. IInv /\ IInv' /\ PumpInv /\ [Next]_vars => PumpInv'
    BY StepKinds, PumpInvGentle, PumpInvRead, PumpInvWrite
  <1> QED BY <1>1, <1>2, Invariance, PTL DEF Spec

\* For any number of tasks and pumps, any limit, and whatever the
\* environment does: every pump beyond the loop exceeds the project's limit
\* by one running task at most, although the count is read before the append.
THEOREM PumpsBounded ==
  Spec => []PumpLimit
  <1>1. PumpInv => PumpLimit
    BY Finiteness, LimitAssumption DEF PumpInv, PumpLimit
  <1> QED BY <1>1, PumpInvariance, PTL

\* So the limit itself holds when kickoffs do not pump the queue themselves.
THEOREM LimitHolds ==
  ASSUME Kickoffs = {}
  PROVE  Spec => []ParallelLimit
  <1>1. PumpLimit => ParallelLimit
    <2>1. Cardinality(Kickoffs) = 0
      BY FS_EmptySet
    <2> QED BY <2>1, LimitAssumption DEF PumpLimit, ParallelLimit
  <1> QED BY <1>1, PumpsBounded, PTL

-----------------------------------------------------------------------------
(* The shared workspace, with the loop as the only pump.                   *)

\* What _claim_queued_task asked of the shared workspace still holds.
Alone(t) == t \in Shared => Running \ {t} = {}

SoleInv ==
  /\ SharedExclusive
  /\ \A t \in Tasks : claim[Loop].task = {t} /\ claim[Loop].fresh => Alone(t)

\* Fewer running tasks: nothing of the invariant is lost.
LEMMA ShrinkPreserves ==
  ASSUME SoleInv, Running' \subseteq Running,
         \A t \in Tasks : claim'[Loop].task = {t} /\ claim'[Loop].fresh => Alone(t)
  PROVE  SoleInv'
  BY DEF SoleInv, SharedExclusive, Alone

LEMMA SoleInvariance ==
  ASSUME Kickoffs = {}
  PROVE  Spec => []SoleInv
  <1> Pumps = {Loop}
    BY DEF Pumps
  <1>1. Init => SoleInv
    BY DEF Init, Running, NewTask, SoleInv, SharedExclusive, NoClaim
  <1>2. IInv /\ SoleInv /\ [Next]_vars => SoleInv'
    <2> SUFFICES ASSUME IInv, SoleInv, [Next]_vars PROVE SoleInv'
      OBVIOUS
    <2>1. CASE Gentle
      <3>1. Running' \subseteq Running
        BY <2>1 DEF Gentle, Running
      <3>2. \A t \in Tasks : claim'[Loop].task = {t} /\ claim'[Loop].fresh => Alone(t)
        BY <2>1 DEF Gentle, SoleInv
      <3> QED BY <3>1, <3>2, ShrinkPreserves
    <2>2. CASE \E p \in Pumps, t \in Tasks : ClaimRead(p, t)
      <3>1. PICK t \in Tasks : ClaimRead(Loop, t)
        BY <2>2
      <3>2. claim'[Loop].task = {t} /\ Running' = Running
        BY <3>1 DEF ClaimRead, IInv, TypeOK, Running
      <3>3. Alone(t)
        BY <3>1 DEF ClaimRead, Claimable, Alone
      <3> QED BY <3>2, <3>3, ShrinkPreserves
    <2>3. CASE \E p \in Pumps, t \in Tasks : ClaimWrite(p, t)
      <3>1. PICK t \in Tasks : ClaimWrite(Loop, t)
        BY <2>3
      <3>2. Alone(t)
        BY <3>1 DEF ClaimWrite, SoleInv
      <3>3. /\ task'[t].auto = "running"
            /\ \A u \in Tasks \ {t} : task'[u] = task[u]
            /\ claim'[Loop] = NoClaim
        BY <3>1, ClaimWriteChanges
      <3>4. Running' = (Running \ {t}) \union {t}
        BY <3>3 DEF Running
      <3>5. SharedExclusive'
        BY <3>2, <3>4 DEF Alone, SoleInv, SharedExclusive
      <3>6. claim'[Loop].task = {}
        BY <3>3 DEF NoClaim
      <3> QED BY <3>5, <3>6 DEF SoleInv
    <2> QED BY <2>1, <2>2, <2>3, StepKinds
  <1> QED BY <1>1, <1>2, Invariance, PTL DEF Spec

\* With the loop as the only pump the shared workspace is used by one
\* running task at a time, although the check precedes the append.
THEOREM SharedWorkspaceExclusive ==
  ASSUME Kickoffs = {}
  PROVE  Spec => []SharedExclusive
  BY SoleInvariance, PTL DEF SoleInv

-----------------------------------------------------------------------------
(* A task that is shown as running is in some pump's batch, when nothing   *)
(* raises and the process lives.                                           *)

\* The events after which a task is not running any more.
Ending == {"Completed", "Failed", "Requested"}

Ends(plan) == \E i \in 1 .. Len(plan) : plan[i].type \in Ending

\* The pump has the task in its batch, and will end its run when it is done:
\* the recording that is under way has the event for it still to append.
Attends(p, t) ==
  \/ run[p][t].stage \in {"claiming", "executing"}
  \/ run[p][t].stage \in {"success", "failure"} /\ Ends(run[p][t].plan)

AttendInv == \A t \in Running \ Wordless : \E p \in Pumps : Attends(p, t)

LEMMA EndsOfParts ==
  ASSUME NEW a \in Seq(PlanEvents), NEW b \in Seq(PlanEvents), Ends(a) \/ Ends(b)
  PROVE  Ends(a \o b)
  <1>1. CASE Ends(a)
    <2>1. PICK i \in 1 .. Len(a) : a[i].type \in Ending
      BY <1>1 DEF Ends
    <2>2. i \in 1 .. Len(a \o b) /\ (a \o b)[i] = a[i]
      OBVIOUS
    <2> QED BY <2>1, <2>2 DEF Ends
  <1>2. CASE Ends(b)
    <2>1. PICK i \in 1 .. Len(b) : b[i].type \in Ending
      BY <1>2 DEF Ends
    <2>2. Len(a) + i \in 1 .. Len(a \o b) /\ (a \o b)[Len(a) + i] = b[i]
      OBVIOUS
    <2> QED BY <2>1, <2>2 DEF Ends
  <1> QED BY <1>1, <1>2

LEMMA EndsOfTail ==
  ASSUME NEW plan \in Seq(PlanEvents), plan # <<>>, Ends(plan),
         Head(plan).type \notin Ending
  PROVE  Ends(Tail(plan))
  <1>1. PICK i \in 1 .. Len(plan) : plan[i].type \in Ending
    BY DEF Ends
  <1>2. i # 1
    BY <1>1
  <1>3. i - 1 \in 1 .. Len(Tail(plan)) /\ Tail(plan)[i - 1] = plan[i]
    BY <1>2
  <1> QED BY <1>1, <1>3 DEF Ends

LEMMA EndsOfOne ==
  /\ Ends(<<Event("Completed")>>)
  /\ Ends(<<Event("Failed")>>)
  /\ \A n \in Nat : Ends(<<Count("Retries", n), Requested("recover")>>)
  <1>1. ASSUME NEW n \in Nat PROVE Ends(<<Count("Retries", n), Requested("recover")>>)
    <2> DEFINE plan == <<Count("Retries", n), Requested("recover")>>
    <2>1. 2 \in 1 .. Len(plan) /\ plan[2].type = "Requested"
      BY DEF Requested
    <2> QED BY <2>1 DEF Ends, Ending
  <1>2. ASSUME NEW type \in {"Completed", "Failed"} PROVE Ends(<<Event(type)>>)
    <2> DEFINE plan == <<Event(type)>>
    <2>1. 1 \in 1 .. Len(plan) /\ plan[1].type = type
      BY DEF Event
    <2> QED BY <2>1 DEF Ends, Ending
  <1> QED BY <1>1, <1>2

\* Both recordings end the run they record.
LEMMA SuccessPlanEnds ==
  ASSUME NEW t \in Tasks, NEW s \in TaskStates, NEW src \in Sources, NEW again \in BOOLEAN
  PROVE  Ends(SuccessPlan(t, s, src, again))
  <1> DEFINE a == If(s.retries > 0, <<Count("Retries", 0)>>)
             b == <<Event("Completed")>>
             c == If(src = "schedule", <<Event("ScheduleCompleted")>> \o Rearm(t))
             d == If(again, <<Requested("auto_retry")>>)
             e == RequeuePending(s)
  <1>1. a \in Seq(PlanEvents)
    BY EventTyping, MaxRetriesAssumption DEF If
  <1>2. b \in Seq(PlanEvents) /\ Ends(b)
    BY EventTyping, EndsOfOne DEF EventTypes
  <1>3. c \in Seq(PlanEvents)
    BY EventTyping, RearmTyping DEF EventTypes, If
  <1>4. d \in Seq(PlanEvents)
    BY EventTyping DEF Sources, If
  <1>5. e \in Seq(PlanEvents)
    BY RequeueTyping
  <1>6. SuccessPlan(t, s, src, again) = a \o b \o c \o d \o e
    BY DEF SuccessPlan
  <1> HIDE DEF a, b, c, d, e
  <1> DEFINE ab == a \o b
             abc == ab \o c
             abcd == abc \o d
  <1>7. ab \in Seq(PlanEvents) /\ Ends(ab)
    BY <1>1, <1>2, EndsOfParts
  <1>8. abc \in Seq(PlanEvents) /\ Ends(abc)
    <2> HIDE DEF ab
    <2> QED BY <1>3, <1>7, EndsOfParts
  <1>9. abcd \in Seq(PlanEvents) /\ Ends(abcd)
    <2> HIDE DEF abc
    <2> QED BY <1>4, <1>8, EndsOfParts
  <1>10. Ends(abcd \o e)
    <2> HIDE DEF abcd
    <2> QED BY <1>5, <1>9, EndsOfParts
  <1> QED BY <1>6, <1>10

LEMMA FailurePlanEnds ==
  ASSUME NEW t \in Tasks, NEW s \in TaskStates, NEW src \in Sources, NEW kind \in FailureKinds
  PROVE  Ends(FailurePlan(t, s, src, kind))
  <1> DEFINE a == If(src = "schedule" \/ ScheduleActive(s),
                     <<Event("ScheduleFailed")>> \o Rearm(t))
             b == IF Retries(kind, s)
                  THEN <<Count("Retries", NextRetry(s)), Requested("recover")>>
                  ELSE <<Event("Failed")>>
             e == RequeuePending(s)
  <1>1. CASE kind = "gate"
    BY <1>1, EndsOfOne DEF FailurePlan
  <1>2. CASE kind # "gate"
    <2>1. a \in Seq(PlanEvents)
      BY EventTyping, RearmTyping DEF EventTypes, If
    <2>2. NextRetry(s) \in 0 .. MaxRetries /\ NextRetry(s) \in Nat
      BY MaxRetriesAssumption DEF NextRetry, TaskStates
    <2>3. <<Count("Retries", NextRetry(s)), Requested("recover")>> \in Seq(PlanEvents)
      BY <2>2, EventTyping DEF Sources
    <2>4. <<Event("Failed")>> \in Seq(PlanEvents)
      BY EventTyping DEF EventTypes
    <2>5. b \in Seq(PlanEvents) /\ Ends(b)
      BY <2>2, <2>3, <2>4, EndsOfOne
    <2>6. e \in Seq(PlanEvents)
      BY RequeueTyping
    <2>7. FailurePlan(t, s, src, kind) = a \o b \o e
      BY <1>2 DEF FailurePlan
    <2> HIDE DEF a, b, e
    <2>8. a \o b \in Seq(PlanEvents) /\ Ends(a \o b)
      BY <2>1, <2>5, EndsOfParts
    <2>9. Ends(a \o b \o e)
      BY <2>6, <2>8, EndsOfParts
    <2> QED BY <2>7, <2>9
  <1> QED BY <1>1, <1>2

\* A step that starts no run and takes attention from no running task.
LEMMA StillAttended ==
  ASSUME AttendInv, Gentle,
         \A p \in Pumps, t \in Tasks \ Wordless :
           task'[t].auto = "running" /\ Attends(p, t) => Attends(p, t)'
  PROVE  AttendInv'
  <1> SUFFICES ASSUME NEW t \in Running' \ Wordless PROVE \E p \in Pumps : Attends(p, t)'
    BY DEF AttendInv
  <1>1. t \in Tasks /\ task'[t].auto = "running" /\ t \in Running
    BY DEF Running, Gentle
  <1>2. PICK p \in Pumps : Attends(p, t)
    BY <1>1 DEF AttendInv
  <1> QED BY <1>1, <1>2

LEMMA SameRunsAttend ==
  ASSUME AttendInv, Gentle, run' = run
  PROVE  AttendInv'
  <1>1. \A p \in Pumps, t \in Tasks : Attends(p, t) => Attends(p, t)'
    BY DEF Attends, Ends
  <1> QED BY <1>1, StillAttended

\* The step replaces one run.
LEMMA OneRunAttends ==
  ASSUME TypeOK, AttendInv, Gentle, NEW p \in Pumps, NEW t \in Tasks, NEW r \in RunStates,
         run' = [run EXCEPT ![p][t] = r],
         t \notin Wordless /\ task'[t].auto = "running" /\ Attends(p, t) =>
           r.stage \in {"claiming", "executing"} \/ (r.stage \in {"success", "failure"} /\ Ends(r.plan))
  PROVE  AttendInv'
  <1>1. /\ run'[p][t] = r
        /\ \A q \in Pumps, u \in Tasks : q # p \/ u # t => run'[q][u] = run[q][u]
    BY DEF TypeOK
  <1>2. ASSUME NEW q \in Pumps, NEW u \in Tasks \ Wordless, task'[u].auto = "running", Attends(q, u)
        PROVE  Attends(q, u)'
    <2>1. CASE q = p /\ u = t
      BY <1>1, <1>2, <2>1 DEF Attends, Ends
    <2>2. CASE q # p \/ u # t
      <3>1. run'[q][u] = run[q][u]
        BY <1>1, <2>2
      <3> QED BY <1>2, <3>1 DEF Attends, Ends
    <2> QED BY <2>1, <2>2
  <1> QED BY <1>2, StillAttended

LEMMA ExecutionAttends ==
  ASSUME IInv, AttendInv, Gentle, NEW p \in Pumps, NEW t \in Tasks,
         ClaimEnd(p, t) \/ ClaimWordless(p, t) \/ Executing(p, t)
  PROVE  AttendInv'
  <1> DEFINE s == run[p][t]
  <1>1. TypeOK /\ s \in RunStates /\ task[t] \in TaskStates
    BY DEF IInv, TypeOK
  <1>2. s.src \in Sources /\ s.plan \in Seq(PlanEvents)
    BY <1>1 DEF RunStates
  <1>3. CASE ClaimEnd(p, t)
    <2> DEFINE r == [s EXCEPT !.stage = "executing"]
    <2>1. run' = [run EXCEPT ![p][t] = r]
      BY <1>3 DEF ClaimEnd
    <2>2. r \in RunStates /\ r.stage = "executing"
      BY <1>1 DEF RunStates
    <2> HIDE DEF r
    <2> QED BY <1>1, <2>1, <2>2, OneRunAttends
  <1>4. CASE Succeed(p, t)
    <2>1. PICK again \in BOOLEAN :
            run' = [run EXCEPT ![p][t].stage = "success",
                               ![p][t].plan = SuccessPlan(t, task[t], s.src, again)]
      BY <1>4 DEF Succeed
    <2> DEFINE plan == SuccessPlan(t, task[t], s.src, again)
               r == [s EXCEPT !.stage = "success", !.plan = plan]
    <2>2. plan \in Seq(PlanEvents) /\ Ends(plan)
      BY <1>1, <1>2, SuccessPlanTyping, SuccessPlanEnds
    <2>3. run' = [run EXCEPT ![p][t] = r]
      BY <1>1, <2>1 DEF TypeOK
    <2> HIDE DEF plan
    <2>4. r \in RunStates /\ r.stage = "success" /\ r.plan = plan
      BY <1>1, <2>2 DEF RunStates
    <2> HIDE DEF r
    <2> QED BY <1>1, <2>2, <2>3, <2>4, OneRunAttends
  <1>5. CASE Fail(p, t)
    <2>1. PICK kind \in Failures :
            run' = [run EXCEPT ![p][t].stage = "failure",
                               ![p][t].plan = FailurePlan(t, task[t], s.src, kind)]
      BY <1>5 DEF Fail
    <2> DEFINE plan == FailurePlan(t, task[t], s.src, kind)
               r == [s EXCEPT !.stage = "failure", !.plan = plan]
    <2>2. plan \in Seq(PlanEvents) /\ Ends(plan)
      BY <1>1, <1>2, FailurePlanTyping, FailurePlanEnds, FailuresAssumption
    <2>3. run' = [run EXCEPT ![p][t] = r]
      BY <1>1, <2>1 DEF TypeOK
    <2> HIDE DEF plan
    <2>4. r \in RunStates /\ r.stage = "failure" /\ r.plan = plan
      BY <1>1, <2>2 DEF RunStates
    <2> HIDE DEF r
    <2> QED BY <1>1, <2>2, <2>3, <2>4, OneRunAttends
  <1>6. CASE RunAppend(p, t)
    <2> DEFINE e == Head(s.plan)
               r == [s EXCEPT !.plan = Tail(s.plan)]
    <2>1. /\ s.plan # <<>>
          /\ task' = [task EXCEPT ![t] = Apply(e, task[t])]
          /\ run' = [run EXCEPT ![p][t] = r]
      BY <1>6 DEF RunAppend, AppendTo
    <2>2. e \in PlanEvents /\ Tail(s.plan) \in Seq(PlanEvents)
      BY <1>2, <2>1
    <2>3. r \in RunStates /\ r.stage = s.stage /\ r.plan = Tail(s.plan)
      BY <1>1, <2>2 DEF RunStates
    <2>4. CASE e.type \in Ending
      <3>1. task'[t] = Apply(e, task[t])
        BY <1>1, <2>1 DEF TypeOK
      <3>2. task'[t].auto # "running"
        BY <1>1, <2>4, <3>1 DEF Apply, Ending, TaskStates
      <3> HIDE DEF r
      <3> QED BY <1>1, <2>1, <2>3, <3>2, OneRunAttends
    <2>5. CASE e.type \notin Ending
      <3>1. Ends(s.plan) => Ends(Tail(s.plan))
        BY <1>2, <2>1, <2>5, EndsOfTail
      <3>2. Attends(p, t) =>
              \/ r.stage \in {"claiming", "executing"}
              \/ r.stage \in {"success", "failure"} /\ Ends(r.plan)
        BY <2>3, <3>1 DEF Attends
      <3> HIDE DEF r
      <3> QED BY <1>1, <2>1, <2>3, <3>2, OneRunAttends
    <2> QED BY <2>4, <2>5
  <1>7. CASE RunEnd(p, t)
    <2>1. s.stage \in {"success", "failure"} /\ s.plan = <<>> /\ run' = [run EXCEPT ![p][t] = NoRun]
      BY <1>7 DEF RunEnd
    <2>2. ~Attends(p, t)
      BY <2>1 DEF Attends, Ends
    <2>3. NoRun \in RunStates
      BY DEF NoRun, RunStates, Sources
    <2> QED BY <1>1, <2>1, <2>2, <2>3, OneRunAttends
  <1>8. CASE ClaimWordless(p, t)
    <2>1. NoRun \in RunStates
      BY DEF NoRun, RunStates, Sources
    <2> QED BY <1>1, <1>8, <2>1, OneRunAttends DEF ClaimWordless
  <1> QED BY <1>3, <1>4, <1>5, <1>6, <1>7, <1>8 DEF Executing

\* The claim that starts a run has it in its batch.
LEMMA ClaimAttends ==
  ASSUME IInv, AttendInv, NEW p \in Pumps, NEW t \in Tasks, ClaimWrite(p, t)
  PROVE  AttendInv'
  <1>1. /\ run[p][t].stage = "none"
        /\ \A u \in Tasks \ {t} : task'[u] = task[u]
        /\ run'[p][t].stage = "claiming"
        /\ \A q \in Pumps \ {p} : run'[q] = run[q]
        /\ \A u \in Tasks \ {t} : run'[p][u] = run[p][u]
    BY ClaimWriteChanges
  <1> SUFFICES ASSUME NEW u \in Running' \ Wordless PROVE \E q \in Pumps : Attends(q, u)'
    BY DEF AttendInv
  <1>2. CASE u = t
    BY <1>1, <1>2 DEF Attends
  <1>3. CASE u # t
    <2>1. u \in Tasks \ {t} /\ u \in Running \ Wordless
      BY <1>1, <1>3 DEF Running
    <2>2. PICK q \in Pumps : Attends(q, u)
      BY <2>1 DEF AttendInv
    <2>3. run'[q][u] = run[q][u]
      BY <1>1, <2>1
    <2>4. Attends(q, u)'
      BY <2>2, <2>3 DEF Attends, Ends
    <2> QED BY <2>4
  <1> QED BY <1>2, <1>3

\* For any tasks, pumps, limit and failures: when nothing raises and the
\* process lives, a task that is shown as running is in the batch of some
\* pump, because every recording ends the run before its pump lets it go;
\* except for a task whose claim may be dropped for want of an instruction.
\* The stale-run recovery may end a run that is still being worked on, but
\* never leaves one that is not.
THEOREM RunsAttended ==
  ASSUME "crash" \notin Environment, "fault" \notin Environment
  PROVE  Spec => []RunningIsAttended
  <1>1. Init => AttendInv
    BY DEF Init, AttendInv, Running, NewTask
  <1>2. IInv /\ AttendInv /\ [Next]_vars => AttendInv'
    <2> SUFFICES ASSUME IInv, AttendInv, [Next]_vars PROVE AttendInv'
      OBVIOUS
    <2>1. ~Crash /\ ~Faults
      BY DEF Crash, Faults, JobFault, RunFault, Happens
    <2>2. CASE \E p \in Pumps, t \in Tasks : ClaimWrite(p, t)
      BY <2>2, ClaimAttends
    <2>3. CASE \E p \in Pumps, t \in Tasks : ClaimRead(p, t)
      <3>1. task' = task /\ run' = run
        BY <2>3 DEF ClaimRead
      <3> QED BY <3>1 DEF AttendInv, Running, Attends, Ends
    <2>4. CASE Gentle
      <3>1. CASE \E p \in Pumps, t \in Tasks : ClaimEnd(p, t) \/ ClaimWordless(p, t) \/ Executing(p, t)
        BY <2>4, <3>1, ExecutionAttends
      <3>2. CASE \E p \in Pumps, t \in Tasks : ClaimWrite(p, t)
        BY <3>2, ClaimAttends
      <3>3. CASE run' = run
        BY <2>4, <3>3, SameRunsAttend
      <3>4. \/ \E p \in Pumps, t \in Tasks : ClaimEnd(p, t) \/ ClaimWordless(p, t) \/ Executing(p, t)
            \/ \E p \in Pumps, t \in Tasks : ClaimWrite(p, t)
            \/ run' = run
        BY <2>1 DEF Next, vars, HumanRequest, StatusTrigger, LoopTick, RecoverBegin, QueueDue,
                    JobAppend, EndStartup, EndRecover, EndQueue, KickoffPump, EndScan, EndBatch,
                    Claiming, ClaimRead, Skip, ClaimLost
      <3> QED BY <3>1, <3>2, <3>3, <3>4
    <2> QED BY <2>2, <2>3, <2>4, StepKinds
  <1>3. IInv /\ AttendInv => RunningIsAttended
    BY DEF AttendInv, Attends, RunningIsAttended, Unattended, IInv, TypeOK
  <1> QED BY <1>1, <1>2, <1>3, Invariance, PTL DEF Spec

=============================================================================
