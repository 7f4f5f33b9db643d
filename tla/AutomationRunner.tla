-------------------------- MODULE AutomationRunner --------------------------
(***************************************************************************)
(* The agent automation runner (app/features/agents/runner.py) on the      *)
(* tasks of one project, with the handlers that request automation         *)
(* (app/features/tasks/command_handlers.py) and the status-change triggers *)
(* (app/shared/eventing_task_automation_triggers.py).                      *)
(*                                                                         *)
(* A task is the part of its rebuilt state the runner looks at.  Events go *)
(* to the event store one by one and are visible at once (the deployed     *)
(* Kurrent mode), so a handler that appends several is a plan: the         *)
(* sequence of events it still has to append, decided from the state it    *)
(* read when it started.  Apply is apply_task_event.                       *)
(*                                                                         *)
(* A pump is a thread that claims queued tasks and executes them as one    *)
(* batch: the runner loop, and any Team Mode kickoff requests, which call  *)
(* run_queued_automation_once themselves.                                  *)
(***************************************************************************)
EXTENDS Integers, Sequences, FiniteSets

CONSTANTS
  Tasks,
  Recurring,    \* tasks with a recurring schedule trigger
  Shared,       \* tasks whose agent works in the project's shared workspace
  Wordless,     \* tasks whose instruction may come out empty, as a kickoff's of
                \* a Developer task without one
  Loop,         \* the automation-runner thread
  Kickoffs,     \* kickoff request threads that pump the runner
  Limit,        \* automation_max_parallel_tasks of the project
  MaxRetries,   \* _MAX_RECOVERABLE_RETRIES
  Failures,     \* how executions may fail: "recoverable", "transient", ...
  Environment,  \* which of "human", "trigger", "crash", "fault" can happen
  MaxEnv,       \* bound: steps of the environment
  MaxPending    \* bound: automation_pending_requests

FailureKinds == {"recoverable", "transient", "gate", "other"}

ASSUME TasksAssumption == IsFiniteSet(Tasks)
ASSUME RecurringAssumption == Recurring \subseteq Tasks
ASSUME SharedAssumption == Shared \subseteq Tasks
ASSUME WordlessAssumption == Wordless \subseteq Tasks
ASSUME LoopAssumption == Loop \notin Kickoffs
ASSUME KickoffsAssumption == IsFiniteSet(Kickoffs)
ASSUME LimitAssumption == Limit \in Nat \ {0}
ASSUME MaxRetriesAssumption == MaxRetries \in Nat
ASSUME FailuresAssumption == Failures \subseteq FailureKinds
ASSUME MaxEnvAssumption == MaxEnv \in Nat
ASSUME MaxPendingAssumption == MaxPending \in Nat

Pumps == {Loop} \union Kickoffs

VARIABLES
  task,   \* [Tasks -> rebuilt task state]
  pc,     \* [Pumps -> where the pump is in its cycle]
  left,   \* [Pumps -> queued-task candidates the scan has still to visit]
  claim,  \* [Pumps -> the claim between its read and its append]
  run,    \* [Pumps -> [Tasks -> the run of that task in the pump's batch]]
  job,    \* the loop's recovery or due-schedule handling in progress
  env     \* environment steps taken

vars == <<task, pc, left, claim, run, job, env>>

-----------------------------------------------------------------------------
(* Events and task states.                                                 *)

Sources == {"none", "manual", "status_change", "schedule", "auto_retry", "recover"}

TaskStates ==
  [auto : {"idle", "queued", "running", "completed", "failed"},
   src : Sources,                \* last_requested_source
   sched : {"idle", "queued", "running", "done", "failed"},
   pending : Nat,                \* automation_pending_requests
   retries : 0 .. MaxRetries]    \* runner_recover_retry_count, saturated

NewTask == [auto |-> "idle", src |-> "none", sched |-> "idle", pending |-> 0, retries |-> 0]

EventTypes == {"Requested", "Started", "Completed", "Failed", "ScheduleQueued",
               "ScheduleStarted", "ScheduleCompleted", "ScheduleFailed",
               "Rearmed", "Pending", "Triggered", "Retries"}

Events == {e \in [type : EventTypes, src : Sources, n : Nat] :
             e.type = "Retries" => e.n <= MaxRetries}

\* Started is only appended by a claim; a plan holds the other events.
PlanEvents == {e \in Events : e.type # "Started"}

Event(type) == [type |-> type, src |-> "none", n |-> 0]
Requested(source) == [type |-> "Requested", src |-> source, n |-> 0]
Triggered(n) == [type |-> "Triggered", src |-> "status_change", n |-> n]
Count(type, n) == [type |-> type, src |-> "none", n |-> n]

Apply(e, s) ==
  CASE e.type = "Requested" -> [s EXCEPT !.auto = "queued", !.src = e.src]
    [] e.type = "Started" -> [s EXCEPT !.auto = "running"]
    [] e.type = "Completed" -> [s EXCEPT !.auto = "completed"]
    [] e.type = "Failed" -> [s EXCEPT !.auto = "failed"]
    [] e.type = "ScheduleQueued" -> [s EXCEPT !.sched = "queued"]
    [] e.type = "ScheduleStarted" -> [s EXCEPT !.sched = "running"]
    [] e.type = "ScheduleCompleted" -> [s EXCEPT !.sched = "done"]
    [] e.type = "ScheduleFailed" -> [s EXCEPT !.sched = "failed"]
    [] e.type = "Rearmed" -> [s EXCEPT !.sched = "idle"]
    [] e.type = "Pending" -> [s EXCEPT !.pending = e.n]
    [] e.type = "Triggered" -> [s EXCEPT !.pending = e.n, !.src = e.src]
    [] e.type = "Retries" -> [s EXCEPT !.retries = e.n]

\* Appending to a task's stream moves its version, which is what makes the
\* claims that read an earlier version lose.
AppendTo(t, e) ==
  /\ task' = [task EXCEPT ![t] = Apply(e, task[t])]
  /\ claim' = [p \in Pumps |-> IF claim[p].task = {t}
                               THEN [claim[p] EXCEPT !.fresh = FALSE]
                               ELSE claim[p]]

If(condition, plan) == IF condition THEN plan ELSE <<>>

-----------------------------------------------------------------------------
(* Plans: what the recording handlers append, from the state they read.    *)

\* _append_schedule_rearm_update
Rearm(t) == If(t \in Recurring, <<Event("Rearmed")>>)

\* Fault variant: requeues without looking at the count.
RequeuePendingAlways(s) == <<Count("Pending", s.pending - 1), Requested("status_change")>>

\* _requeue_pending_status_change_request, with the pending count the
\* caller read when it started.
RequeuePending(s) ==
  If(s.pending > 0, <<Count("Pending", s.pending - 1), Requested("status_change")>>)

\* Fault variant: a scheduled run is completed but not rearmed.
SuccessPlanNoRearm(t, s, src, again) ==
  If(s.retries > 0, <<Count("Retries", 0)>>)
    \o <<Event("Completed")>>
    \o If(src = "schedule", <<Event("ScheduleCompleted")>>)
    \o If(again, <<Requested("auto_retry")>>)
    \o RequeuePending(s)

\* _record_automation_success; again: the no-progress auto retry.
SuccessPlan(t, s, src, again) ==
  If(s.retries > 0, <<Count("Retries", 0)>>)
    \o <<Event("Completed")>>
    \o If(src = "schedule", <<Event("ScheduleCompleted")>> \o Rearm(t))
    \o If(again, <<Requested("auto_retry")>>)
    \o RequeuePending(s)

ScheduleActive(s) == s.sched \in {"queued", "running"}

\* Whether _record_automation_failure requeues the run.
Retries(kind, s) ==
  kind = "transient" \/ (kind = "recoverable" /\ s.retries < MaxRetries)

NextRetry(s) == IF s.retries < MaxRetries THEN s.retries + 1 ELSE MaxRetries

\* Fault variant: the retry count is not written back.
FailurePlanNoCount(t, s, src, kind) ==
  IF kind = "gate"
  THEN <<Event("Completed")>>
  ELSE If(src = "schedule" \/ ScheduleActive(s), <<Event("ScheduleFailed")>> \o Rearm(t))
         \o (IF Retries(kind, s) THEN <<Requested("recover")>> ELSE <<Event("Failed")>>)
         \o RequeuePending(s)

\* Fault variant: a final failure only updates the schedule and the text.
FailurePlanSilent(t, s, src, kind) ==
  IF kind = "gate"
  THEN <<Event("Completed")>>
  ELSE If(src = "schedule" \/ ScheduleActive(s), <<Event("ScheduleFailed")>> \o Rearm(t))
         \o If(Retries(kind, s), <<Count("Retries", NextRetry(s)), Requested("recover")>>)
         \o RequeuePending(s)

\* _record_automation_failure.  A workflow gate defers the run: completed,
\* with nothing else recorded.
FailurePlan(t, s, src, kind) ==
  IF kind = "gate"
  THEN <<Event("Completed")>>
  ELSE If(src = "schedule" \/ ScheduleActive(s), <<Event("ScheduleFailed")>> \o Rearm(t))
         \o (IF Retries(kind, s)
             THEN <<Count("Retries", NextRetry(s)), Requested("recover")>>
             ELSE <<Event("Failed")>>)
         \o RequeuePending(s)

\* recover_stale_running_automation_once
RecoveryPlan(t, s) ==
  <<Event("Failed")>>
    \o If(s.src = "schedule" \/ ScheduleActive(s), <<Event("ScheduleFailed")>> \o Rearm(t))

-----------------------------------------------------------------------------
NoClaim == [task |-> {}, src |-> "none", sched |-> "idle", fresh |-> FALSE]
NoRun == [stage |-> "none", src |-> "none", plan |-> <<>>]
NoJob == [task |-> {}, plan |-> <<>>]

Claims == [task : {{}} \union {{t} : t \in Tasks}, src : Sources,
           sched : {"idle", "queued", "running", "done", "failed"}, fresh : BOOLEAN]
RunStates == [stage : {"none", "claiming", "executing", "success", "failure"},
              src : Sources, plan : Seq(PlanEvents)]

\* The types: states a task can be rebuilt to, with its retry and pending
\* counts, and what a pump may hold (apply_task_event and the recording
\* functions).
TypeOK ==
  /\ task \in [Tasks -> TaskStates]
  /\ pc \in [Pumps -> {"startup", "recover", "queue", "idle", "scan", "drain"}]
  /\ left \in [Pumps -> SUBSET Tasks]
  /\ claim \in [Pumps -> Claims]
  /\ run \in [Pumps -> [Tasks -> RunStates]]
  /\ job \in [task : {{}} \union {{t} : t \in Tasks}, plan : Seq(PlanEvents)]
  /\ env \in 0 .. MaxEnv

Init ==
  /\ task = [t \in Tasks |-> NewTask]
  /\ pc = [p \in Pumps |-> IF p = Loop THEN "startup" ELSE "idle"]
  /\ left = [p \in Pumps |-> {}]
  /\ claim = [p \in Pumps |-> NoClaim]
  /\ run = [p \in Pumps |-> [t \in Tasks |-> NoRun]]
  /\ job = NoJob
  /\ env = 0

Running == {t \in Tasks : task[t].auto = "running"}

Goto(p, label) == pc' = [pc EXCEPT ![p] = label]

\* _ordered_task_ids_for_runner_scan: every task is visited, in some order.
StartScan(p) == Goto(p, "scan") /\ left' = [left EXCEPT ![p] = Tasks]

-----------------------------------------------------------------------------
(* The environment.                                                        *)

Happens(what) ==
  /\ what \in Environment
  /\ env < MaxEnv
  /\ env' = env + 1

\* RequestAutomationRunHandler for a human user: no check of the state.
HumanRequest(t) ==
  /\ pc[Loop] # "startup"
  /\ Happens("human")
  /\ AppendTo(t, Requested("manual"))
  /\ UNCHANGED <<pc, left, run, job>>

\* _queue_automation_for_task, when another task changed its status.  On a
\* task in progress one Updated event counts the request and overwrites the
\* source of the last one.
StatusTrigger(t) ==
  /\ pc[Loop] # "startup"
  /\ Happens("trigger")
  /\ IF task[t].auto \in {"queued", "running"}
     THEN /\ task[t].pending < MaxPending
          /\ AppendTo(t, Triggered(task[t].pending + 1))
     ELSE AppendTo(t, Requested("status_change"))
  /\ UNCHANGED <<pc, left, run, job>>

\* The process dies; the next one starts with the startup recovery.
Crash ==
  /\ Happens("crash")
  /\ pc' = [p \in Pumps |-> IF p = Loop THEN "startup" ELSE "idle"]
  /\ left' = [p \in Pumps |-> {}]
  /\ claim' = [p \in Pumps |-> NoClaim]
  /\ run' = [p \in Pumps |-> [t \in Tasks |-> NoRun]]
  /\ job' = NoJob
  /\ UNCHANGED task

-----------------------------------------------------------------------------
(* Recovery and due schedules: only the loop, between two batches.         *)

\* Fault variant: stale runs are only recovered when the process starts.
RecoverBeginAtStart(t) ==
  /\ pc[Loop] = "startup"
  /\ job = NoJob
  /\ task[t].auto = "running"
  /\ job' = [task |-> {t}, plan |-> RecoveryPlan(t, task[t])]
  /\ UNCHANGED <<task, pc, left, claim, run, env>>

\* recover_stale_running_automation_once reads a running task.  During a
\* tick it takes a task whose progress timestamps are older than the
\* threshold, which nothing else bounds; the startup recovery takes all.
RecoverBegin(t) ==
  /\ pc[Loop] \in {"startup", "recover"}
  /\ job = NoJob
  /\ task[t].auto = "running"
  /\ job' = [task |-> {t}, plan |-> RecoveryPlan(t, task[t])]
  /\ UNCHANGED <<task, pc, left, claim, run, env>>

EndStartup ==
  /\ pc[Loop] = "startup"
  /\ job = NoJob
  /\ Running = {}
  /\ Goto(Loop, "recover")
  /\ UNCHANGED <<task, left, claim, run, job, env>>

EndRecover ==
  /\ pc[Loop] = "recover"
  /\ job = NoJob
  /\ Goto(Loop, "queue")
  /\ UNCHANGED <<task, left, claim, run, job, env>>

\* queue_due_scheduled_tasks_once finds a due, idle schedule.
QueueDue(t) ==
  /\ pc[Loop] = "queue"
  /\ job = NoJob
  /\ t \in Recurring
  /\ task[t].sched = "idle"
  /\ task[t].auto \notin {"queued", "running"}
  /\ job' = [task |-> {t}, plan |-> <<Event("ScheduleQueued"), Requested("schedule")>>]
  /\ UNCHANGED <<task, pc, left, claim, run, env>>

EndQueue ==
  /\ pc[Loop] = "queue"
  /\ job = NoJob
  /\ StartScan(Loop)
  /\ UNCHANGED <<task, claim, run, job, env>>

\* The next event of the loop's job.
JobAppend(t) ==
  /\ job.task = {t}
  /\ job.plan # <<>>
  /\ AppendTo(t, Head(job.plan))
  /\ job' = IF Tail(job.plan) = <<>> THEN NoJob ELSE [job EXCEPT !.plan = Tail(@)]
  /\ UNCHANGED <<pc, left, run, env>>

\* An append raises: the tick is abandoned, or the startup recovery is.
JobFault ==
  /\ Happens("fault")
  /\ job # NoJob
  /\ job' = NoJob
  /\ Goto(Loop, "recover")
  /\ UNCHANGED <<task, left, claim, run>>

-----------------------------------------------------------------------------
(* Claiming: run_queued_automation_once and _claim_queued_task.            *)

\* A kickoff request starts to pump the queue.
KickoffPump(p) ==
  /\ p \in Kickoffs
  /\ pc[p] = "idle"
  /\ pc[Loop] # "startup"
  /\ StartScan(p)
  /\ UNCHANGED <<task, claim, run, job, env>>

\* Fault variant: no check of the shared workspace.
ClaimableUnshared(t) ==
  /\ task[t].auto = "queued"
  /\ Cardinality(Running \ {t}) < Limit

\* Fault variant: off by one in the comparison with the limit.
ClaimableOneMore(t) ==
  /\ task[t].auto = "queued"
  /\ t \in Shared => Running \ {t} = {}
  /\ Cardinality(Running \ {t}) <= Limit

\* Fault variant: the shared workspace is taken for busy while another
\* task that uses it is only queued.
ClaimableAlone(t) ==
  /\ task[t].auto = "queued"
  /\ t \in Shared => \A u \in Tasks \ {t} : task[u].auto \notin {"queued", "running"}
  /\ Cardinality(Running \ {t}) < Limit

\* What _claim_queued_task asks of a task and of the project's other tasks.
Claimable(t) ==
  /\ task[t].auto = "queued"
  /\ t \in Shared => Running \ {t} = {}
  /\ Cardinality(Running \ {t}) < Limit

Visit(p, t) ==
  /\ pc[p] = "scan"
  /\ claim[p] = NoClaim
  /\ \A u \in Tasks : run[p][u].stage # "claiming"
  /\ t \in left[p]
  /\ left' = [left EXCEPT ![p] = @ \ {t}]

\* State and version are read and the checks passed.
ClaimRead(p, t) ==
  /\ Visit(p, t)
  /\ Claimable(t)
  /\ claim' = [claim EXCEPT ![p] =
                 [task |-> {t}, src |-> task[t].src, sched |-> task[t].sched, fresh |-> TRUE]]
  /\ UNCHANGED <<task, pc, run, job, env>>

Skip(p, t) ==
  /\ Visit(p, t)
  /\ ~Claimable(t)
  /\ UNCHANGED <<task, pc, claim, run, job, env>>

\* Fault variant: Started is appended whatever the stream's version.
ClaimWriteBlind(p, t) ==
  /\ claim[p].task = {t}
  /\ task' = [task EXCEPT ![t] = Apply(Event("Started"), task[t])]
  /\ claim' = [q \in Pumps |->
                 IF q = p THEN NoClaim
                 ELSE IF claim[q].task = {t} THEN [claim[q] EXCEPT !.fresh = FALSE]
                 ELSE claim[q]]
  /\ run' = [run EXCEPT ![p][t] =
               [stage |-> "claiming", src |-> claim[p].src,
                plan |-> If(claim[p].src = "schedule" /\ claim[p].sched \in {"queued", "idle"},
                            <<Event("ScheduleStarted")>>)]]
  /\ UNCHANGED <<pc, left, job, env>>

\* Started is appended with the version read: one claimer wins.
ClaimWrite(p, t) ==
  /\ claim[p].task = {t}
  /\ claim[p].fresh
  /\ task' = [task EXCEPT ![t] = Apply(Event("Started"), task[t])]
  /\ claim' = [q \in Pumps |->
                 IF q = p THEN NoClaim
                 ELSE IF claim[q].task = {t} THEN [claim[q] EXCEPT !.fresh = FALSE]
                 ELSE claim[q]]
  /\ run' = [run EXCEPT ![p][t] =
               [stage |-> "claiming", src |-> claim[p].src,
                plan |-> If(claim[p].src = "schedule" /\ claim[p].sched \in {"queued", "idle"},
                            <<Event("ScheduleStarted")>>)]]
  /\ UNCHANGED <<pc, left, job, env>>

\* ConcurrencyConflictError: the claim is given up.
ClaimLost(p) ==
  /\ claim[p].task # {}
  /\ ~claim[p].fresh
  /\ claim' = [claim EXCEPT ![p] = NoClaim]
  /\ UNCHANGED <<task, pc, left, run, job, env>>

\* The claim is complete and joins the batch.
ClaimEnd(p, t) ==
  /\ run[p][t].stage = "claiming"
  /\ run[p][t].plan = <<>>
  /\ run' = [run EXCEPT ![p][t].stage = "executing"]
  /\ UNCHANGED <<task, pc, left, claim, job, env>>

\* There is nothing to execute: the claim returns without a run, after Started
\* was appended.
ClaimWordless(p, t) ==
  /\ t \in Wordless
  /\ run[p][t].stage = "claiming"
  /\ run[p][t].plan = <<>>
  /\ run' = [run EXCEPT ![p][t] = NoRun]
  /\ UNCHANGED <<task, pc, left, claim, job, env>>

EndScan(p) ==
  /\ pc[p] = "scan"
  /\ left[p] = {}
  /\ claim[p] = NoClaim
  /\ \A t \in Tasks : run[p][t].stage # "claiming"
  /\ Goto(p, "drain")
  /\ UNCHANGED <<task, left, claim, run, job, env>>

-----------------------------------------------------------------------------
(* Execution: _execute_claimed_automation, in parallel within a batch.     *)

\* The executor returned: _record_automation_success reads the task.
Succeed(p, t) ==
  /\ pc[p] = "drain"
  /\ run[p][t].stage = "executing"
  /\ \E again \in BOOLEAN :
       /\ again => run[p][t].src = "manual"
       /\ run' = [run EXCEPT ![p][t].stage = "success",
                             ![p][t].plan = SuccessPlan(t, task[t], run[p][t].src, again)]
  /\ UNCHANGED <<task, pc, left, claim, job, env>>

\* The executor, or the preflight, failed: _record_automation_failure.
Fail(p, t) ==
  /\ pc[p] = "drain"
  /\ run[p][t].stage = "executing"
  /\ \E kind \in Failures :
       run' = [run EXCEPT ![p][t].stage = "failure",
                          ![p][t].plan = FailurePlan(t, task[t], run[p][t].src, kind)]
  /\ UNCHANGED <<task, pc, left, claim, job, env>>

\* The next event of a claim or of a recording.
RunAppend(p, t) ==
  /\ run[p][t].plan # <<>>
  /\ AppendTo(t, Head(run[p][t].plan))
  /\ run' = [run EXCEPT ![p][t].plan = Tail(@)]
  /\ UNCHANGED <<pc, left, job, env>>

RunEnd(p, t) ==
  /\ run[p][t].stage \in {"success", "failure"}
  /\ run[p][t].plan = <<>>
  /\ run' = [run EXCEPT ![p][t] = NoRun]
  /\ UNCHANGED <<task, pc, left, claim, job, env>>

\* Something raises.  A failed success record is recorded as a failure; a
\* failed failure record or claim leaves the task as it is.
RunFault(p, t) ==
  /\ Happens("fault")
  /\ run[p][t].stage # "none"
  /\ run[p][t].stage = "executing" => pc[p] = "drain"
  /\ IF run[p][t].stage = "success"
     THEN \E kind \in Failures :
            run' = [run EXCEPT ![p][t].stage = "failure",
                               ![p][t].plan = FailurePlan(t, task[t], run[p][t].src, kind)]
     ELSE run' = [run EXCEPT ![p][t] = NoRun]
  /\ UNCHANGED <<task, pc, left, claim, job>>

\* Every future of the batch is done.
EndBatch(p) ==
  /\ pc[p] = "drain"
  /\ run[p] = [t \in Tasks |-> NoRun]
  /\ Goto(p, IF p = Loop THEN "recover" ELSE "idle")
  /\ UNCHANGED <<task, left, claim, run, job, env>>

-----------------------------------------------------------------------------
Claiming(p) ==
  \/ \E t \in Tasks :
       \/ ClaimRead(p, t) \/ Skip(p, t) \/ ClaimWrite(p, t)
       \/ ClaimEnd(p, t) \/ ClaimWordless(p, t)
  \/ ClaimLost(p)

Executing(p, t) == Succeed(p, t) \/ Fail(p, t) \/ RunAppend(p, t) \/ RunEnd(p, t)

LoopTick ==
  \/ \E t \in Tasks : RecoverBegin(t) \/ QueueDue(t) \/ JobAppend(t)
  \/ EndStartup \/ EndRecover \/ EndQueue

Faults == JobFault \/ \E p \in Pumps, t \in Tasks : RunFault(p, t)

Next ==
  \/ \E t \in Tasks : HumanRequest(t) \/ StatusTrigger(t)
  \/ Crash
  \/ Faults
  \/ LoopTick
  \/ \E p \in Pumps : KickoffPump(p) \/ Claiming(p) \/ EndScan(p) \/ EndBatch(p)
  \/ \E p \in Pumps, t \in Tasks : Executing(p, t)

Spec == Init /\ [][Next]_vars

\* No thread is working on the task.
Unattended(t) == \A p \in Pumps : run[p][t].stage = "none"

\* The loop keeps ticking, a batch that was started is worked off (the
\* executor has a timeout), and a running task that nobody works on gets old
\* enough for a tick's recovery to take it.
FairSpec ==
  /\ Spec
  /\ WF_vars(LoopTick)
  /\ \A p \in Pumps : WF_vars(Claiming(p)) /\ WF_vars(EndScan(p)) /\ WF_vars(EndBatch(p))
  /\ \A p \in Pumps, t \in Tasks : WF_vars(Executing(p, t))
  /\ \A t \in Tasks : SF_vars(Unattended(t) /\ RecoverBegin(t))

-----------------------------------------------------------------------------
(* Properties.                                                             *)

\* A task starts to run only from the queued state, and the run carries the
\* source of the request that is current at that moment: two pumps never
\* take the same request, and none executes a request that was replaced
\* between its read and its append.
ClaimsCurrentRequest ==
  [][\A t \in Tasks : task[t].auto # "running" /\ task'[t].auto = "running" =>
       /\ task[t].auto = "queued"
       /\ \E p \in Pumps : run[p][t].stage = "none"
                          /\ run'[p][t].stage = "claiming"
                          /\ run'[p][t].src = task[t].src]_vars

\* As documented: the project never has more running tasks than its limit.
\* The count is read before the append, so this needs that nobody else
\* claims in between, as when the loop is the only pump.
ParallelLimit == Cardinality(Running) <= Limit

\* Each further pump may exceed the limit by one, and no more, however long
\* a claim waits between its count and its append.
PumpLimit == Cardinality(Running) <= Limit + Cardinality(Kickoffs)

\* Two tasks that work in the project's shared workspace never run together
\* (with the loop as the only pump).
SharedExclusive == \A t, u \in Running \intersect Shared : t = u

\* When nothing raises and the process lives, a task is shown as running
\* only while some pump still has it in its batch.  It excepts tasks whose
\* instruction comes out empty: their claim is dropped after it has made them
\* running.
RunningIsAttended == \A t \in Running \ Wordless : ~Unattended(t)

\* Whatever raises, after any crash, and if its claim was dropped, a running
\* task stops running.
RunningEnds == \A t \in Tasks : task[t].auto = "running" ~> task[t].auto # "running"

\* A queued request is eventually claimed (while the other tasks of the
\* project are not requested again forever).
QueuedIsClaimed == \A t \in Tasks : task[t].auto = "queued" ~> task[t].auto # "queued"

\* No request waits for ever and no run is shown for ever: both of the above.
RequestsAreServed == RunningEnds /\ QueuedIsClaimed

\* Retries, automatic retries and requeued triggers die out: when nobody
\* asks any more, automation comes to rest.
AutomationSettles == <>[](\A t \in Tasks : task[t].auto \notin {"queued", "running"})

\* What a workflow gate leaves of a scheduled run: completed, its schedule not.
Deferred(t) ==
  /\ task[t].auto = "completed" /\ ScheduleActive(task[t])
  /\ Unattended(t) /\ job.task # {t}

\* A due occurrence of a recurring task leads to the next one, after successes,
\* retries and final failures; except that a run which a workflow gate defers
\* leaves the schedule as it is.
RecurringRearms ==
  \A t \in Recurring : task[t].sched # "idle" ~> task[t].sched = "idle" \/ Deferred(t)
=============================================================================
