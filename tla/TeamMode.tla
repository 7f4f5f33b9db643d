------------------------------ MODULE TeamMode ------------------------------
(***************************************************************************)
(* Team Mode: the workflow that carries the tasks of one project from a    *)
(* Developer agent (implement and merge) to the Lead agent (deploy under   *)
(* the project deploy lock) and to the QA agent (validate and complete).   *)
(* It lives in the recording half of app/features/agents/runner.py, in the *)
(* dispatch planner app/plugins/team_mode/workflow_orchestrator.py and in  *)
(* the handlers of app/features/tasks/command_handlers.py.                 *)
(*                                                                         *)
(* What AutomationRunner models in detail is one step here: a claim reads  *)
(* and appends at once, and the events a handler appends back to back on   *)
(* one task are one step unless another thread's read in between matters.  *)
(*                                                                         *)
(* A task has one agent at a time, and with it one role.  The team has one *)
(* Lead agent, one QA agent and the Developer agents DevSlot names; every  *)
(* task has an instruction, a task branch and no structural dependency.    *)
(***************************************************************************)
EXTENDS Integers, FiniteSets

CONSTANTS
  Tasks,
  DeployTasks,    \* tasks whose delivery mode is deployable_slice
  DevSlot,        \* [Tasks -> the Developer agent of the task]
  ReviewRequired, \* human_code_review_required of the project
  Limit,          \* automation_max_parallel_tasks
  Failures,       \* how executions, merges and deploys may fail
  Environment,    \* "request", "review", "crash", "slow", "complete"
  MaxEnv          \* bound: failures and environment steps

FailureKinds == {"retry", "exhausted", "uncommitted", "other", "conflict", "unhealthy"}

ASSUME TasksAssumption == IsFiniteSet(Tasks)
ASSUME DeployTasksAssumption == DeployTasks \subseteq Tasks
ASSUME ReviewAssumption == ReviewRequired \in BOOLEAN
ASSUME LimitAssumption == Limit \in Nat \ {0}
ASSUME FailuresAssumption == Failures \subseteq FailureKinds
ASSUME MaxEnvAssumption == MaxEnv \in Nat

VARIABLES
  task,    \* [Tasks -> rebuilt state of the task]
  main,    \* number of merges that reached main
  clock,   \* number of Lead runs that went for the lock: their completed_at
  pc,      \* where the runner's loop is
  left,    \* candidates the scan for queued tasks has still to visit
  work,    \* [Tasks -> the run of that task in the batch]
  env,     \* failures and environment steps taken
  crashed  \* history: the process has died

vars == <<task, main, clock, pc, left, work, env, crashed>>

-----------------------------------------------------------------------------
(* Task states.                                                            *)

Roles == {"Developer", "Lead", "QA", "none"}
Sources == {"none", "manual", "lead_kickoff_dispatch", "runner_orchestrator",
            "developer_handoff", "lead_handoff", "recover", "main_reconcile",
            "developer_handoff_recovery", "lead_triage_return",
            "blocker_escalation", "review"}
DerivedIds == {"tm-dev-sync", "tm-dev-handoff", "lead-dev-triage",
               "retry:main_reconcile", "retry:developer_handoff_recovery",
               "retry:lead_triage_return"}
Gates == {"none", "lead_waiting_merge_ready_developer", "qa_waiting_lead_handoff",
          "qa_waiting_current_deploy_cycle"}

\* last_deploy_execution: when it was executed, its deploy cycle, the merges it
\* contained, whether the stack came up healthy (the strict success snapshot).
NoDeploy == [n |-> 0, cycle |-> 0, main |-> 0, ok |-> FALSE]

NewTask ==
  [status |-> "todo", role |-> "Developer", auto |-> "idle", src |-> "none",
   from |-> {}, asked |-> FALSE, warm |-> FALSE, gate |-> "none",
   review |-> "none", merged |-> 0, deploy |-> NoDeploy, handed |-> NoDeploy,
   lock |-> [st |-> "none", n |-> 0], used |-> {}]

Deploys == [n : Nat, cycle : Nat, main : Nat, ok : BOOLEAN]

TaskStates ==
  [status : {"todo", "active", "in_review", "blocked", "awaiting", "completed"},
   role : Roles,
   auto : {"idle", "queued", "running", "completed", "failed"},
   src : Sources,
   from : {{}} \union {{t} : t \in Tasks},
   asked : BOOLEAN,              \* last_requested_at is set
   warm : BOOLEAN,               \* ... less than 45 s ago
   gate : Gates,                 \* team_mode_blocking_gate
   review : {"none", "pending", "approved", "changes_requested"},
   merged : Nat,                 \* last_merged_commit_sha, as a merge of main
   deploy : Deploys,             \* last_deploy_execution
   handed : Deploys,             \* last_lead_handoff_deploy_execution and token
   lock : [st : {"none", "held", "expired", "released"},
           n : Nat],             \* when it was acquired, which names its cycle
   used : SUBSET DerivedIds]     \* derived command ids already recorded

Stages == {"none", "execute", "failing", "failed", "rerun", "escalate", "developer",
           "merge", "handoff", "request", "dispatch_lead", "dispatch_developers",
           "lead", "lock", "deploy", "qa_handoff", "release", "validated"}
Reruns == {"main_reconcile", "developer_handoff_recovery", "lead_triage_return"}
Reasons == FailureKinds \union Reruns \union {"none", "gate", "frozen"}

NoRun == [at |-> "none", why |-> "none", n |-> 0]
Runs == [at : Stages, why : Reasons, n : Nat]

\* The types: a task is in one of the states the workflow knows, with a role
\* and a request source (the runner's gates and recording functions).
TypeOK ==
  /\ task \in [Tasks -> TaskStates]
  /\ main \in Nat
  /\ clock \in Nat
  /\ pc \in {"startup", "happy", "claim", "drain", "closeout"}
  /\ left \subseteq Tasks
  /\ work \in [Tasks -> Runs]
  /\ env \in 0 .. MaxEnv
  /\ crashed \in BOOLEAN

Init ==
  /\ task = [t \in Tasks |-> NewTask]
  /\ main = 0
  /\ clock = 0
  /\ pc = "startup"
  /\ left = {}
  /\ work = [t \in Tasks |-> NoRun]
  /\ env = 0
  /\ crashed = FALSE

Open(s) == s.status \in {"todo", "active", "blocked"}
Busy(s) == s.auto \in {"queued", "running"}
Running == {t \in Tasks : task[t].auto = "running"}
Strict(d) == d.n > 0 /\ d.ok

Happens(what) ==
  /\ what \in Environment
  /\ env < MaxEnv
  /\ env' = env + 1

Fails(kind) ==
  /\ kind \in Failures
  /\ env < MaxEnv
  /\ env' = env + 1

-----------------------------------------------------------------------------
(* Gates, requests and dispatch.                                           *)

\* _current_nonblocking_gate_key
GateOf(t) ==
  LET s == task[t]
      latest == {u \in Tasks : task[u].role = "Lead" /\ Strict(task[u].deploy)}
  IN CASE s.role = "Lead" /\ (Open(s) \/ s.status = "awaiting") /\ s.merged = 0
            /\ \E u \in Tasks : task[u].role = "Developer" /\ (Open(task[u]) \/ Busy(task[u]))
            -> "lead_waiting_merge_ready_developer"
       [] s.role = "QA" /\ s.status \in {"active", "blocked"} /\ s.handed = NoDeploy
            -> "qa_waiting_lead_handoff"
       [] s.role = "QA" /\ s.status \in {"active", "blocked"}
            /\ \E u \in latest : /\ \A v \in latest : task[v].deploy.n <= task[u].deploy.n
                                 /\ task[u].deploy.n # s.handed.n
            -> "qa_waiting_current_deploy_cycle"
       [] OTHER -> "none"

\* Fault variant: the source and the state are swapped.
RequestSwapped(s, src, from) ==
  [s EXCEPT !.auto = src, !.src = "queued", !.from = from, !.asked = TRUE, !.warm = TRUE]

\* The AutomationRequested event: no check of the state.
Request(s, src, from) ==
  [s EXCEPT !.auto = "queued", !.src = src, !.from = from, !.asked = TRUE, !.warm = TRUE]

SameHandoff(s, src, from) == s.auto = "completed" /\ s.src = src /\ s.from = from

Handoffs == {"runner_orchestrator", "developer_handoff", "lead_kickoff_dispatch"}

\* RequestAutomationRunHandler for an agent user.
AgentRequest(s, src, from) ==
  IF \/ Busy(s)
     \/ src \in Handoffs /\ SameHandoff(s, src, from)
     \/ s.role = "QA" /\ s.handed = NoDeploy
  THEN s ELSE Request(s, src, from)

\* The same through the command executor, with a command id derived from the
\* task and the reason: the second time the recorded answer is returned.
\* A task is never its own source task.
Command(s, id, src) ==
  IF id \in s.used THEN s
  ELSE [AgentRequest(s, src, {}) EXCEPT !.used = @ \union {id}]

\* The dispatch_slot of a task, per role.
Slot(t) == IF task[t].role = "Developer" THEN <<"Developer", DevSlot[t]>> ELSE <<task[t].role>>

\* dispatch_ready of _build_team_mode_dispatch_candidates, and the semantic
\* statuses plan_team_mode_dispatch takes.
Ready(t) ==
  LET s == task[t]
  IN \/ s.role = "Developer" /\ Open(s)
     \/ s.role = "Lead" /\ Open(s)
     \/ /\ s.role = "QA" /\ s.status \in {"active", "blocked"}
        /\ s.handed # NoDeploy
        /\ GateOf(t) # "qa_waiting_current_deploy_cycle"

Rank(t) == CASE task[t].role = "Developer" -> 0 [] task[t].role = "QA" -> 1 [] OTHER -> 2

\* plan_team_mode_dispatch: what the free slots take of the candidates, by
\* role, one task for each agent.
Plans(candidates) ==
  LET busy == {t \in candidates : Busy(task[t]) /\ task[t].role # "none"}
      ready == {t \in candidates : Ready(t) /\ ~Busy(task[t])}
      free == Limit - Cardinality(busy)
  IN {S \in SUBSET ready :
        /\ S = {} \/ Cardinality(S) <= free
        /\ \A t \in S : \A u \in S \union busy : t # u => Slot(t) # Slot(u)
        /\ \A t \in ready \ S :
             \/ \E u \in S \union busy : Slot(u) = Slot(t)
             \/ Cardinality(S) >= free /\ \A u \in S : Rank(u) <= Rank(t)}

\* _queue_team_mode_dispatches: request what the plan selects.
Dispatched(S, src, from) ==
  [t \in Tasks |-> IF t \in S THEN AgentRequest(task[t], src, from) ELSE task[t]]

OfRole(role) == {t \in Tasks : task[t].role = role}

-----------------------------------------------------------------------------
(* The environment.                                                        *)

\* The Lead's kickoff run dispatches the Developers
\* (_queue_initial_team_mode_developer_tasks_after_kickoff).
Kickoff ==
  /\ pc # "startup"
  /\ \A t \in Tasks : ~task[t].asked
  /\ \E S \in Plans(OfRole("Developer")) :
       task' = Dispatched(S, "lead_kickoff_dispatch", {})
  /\ UNCHANGED <<main, clock, pc, left, work, env, crashed>>

\* _infer_team_mode_request_origin: the source and source task recorded for
\* a human's request.  A Developer's is the kickoff, if the Lead's kickoff
\* task is still open.
Origins(t) ==
  LET developed == {u \in OfRole("Developer") \ {t} :
                      /\ task[u].status \in {"active", "completed"}
                      /\ task[u].auto = "completed" \/ task[u].merged > 0}
      stuck == {u \in Tasks \ {t} : task[u].role \in {"Developer", "QA"} /\ task[u].status = "blocked"}
  IN CASE task[t].role = "Developer" ->
            {<<"runner_orchestrator", {}>>, <<"lead_kickoff_dispatch", {}>>}
       [] task[t].role = "QA" -> {<<"runner_orchestrator", {}>>}
       [] task[t].role = "Lead" /\ developed # {} -> {<<"developer_handoff", {u}>> : u \in developed}
       [] task[t].role = "Lead" /\ stuck # {} -> {<<"blocker_escalation", {u}>> : u \in stuck}
       [] OTHER -> {<<"manual", {}>>}

\* RequestAutomationRunHandler for a human: no check that the task is busy.
HumanRequest(t) ==
  /\ pc # "startup"
  /\ task[t].role = "QA" => task[t].handed # NoDeploy
  /\ Happens("request")
  /\ \E o \in Origins(t) : task' = [task EXCEPT ![t] = Request(@, o[1], o[2])]
  /\ UNCHANGED <<main, clock, pc, left, work, crashed>>

\* ReviewTaskHandler: the decision, the way back to the Developer and the
\* request are one append.
Review(t, decision) ==
  /\ task[t].status = "in_review"
  /\ IF decision = "approved" THEN UNCHANGED env ELSE Happens("review")
  /\ task' = [task EXCEPT ![t] =
       Request([@ EXCEPT !.status = "active", !.role = "Developer",
                         !.review = decision, !.gate = "none"], "review", {})]
  /\ UNCHANGED <<main, clock, pc, left, work, crashed>>

\* Forty-five seconds pass after a request.
Cool(t) ==
  /\ task[t].warm
  /\ task' = [task EXCEPT ![t].warm = FALSE]
  /\ UNCHANGED <<main, clock, pc, left, work, env, crashed>>

Deploying(t) ==
  work[t].at \in {"deploy", "qa_handoff", "release"}

\* Fault variant: the lease is looked at only while the deploy runs.
ExpireWorking(t) ==
  /\ task[t].lock.st = "held" /\ Deploying(t)
  /\ Happens("slow")
  /\ task' = [task EXCEPT ![t].lock.st = "expired"]
  /\ UNCHANGED <<main, clock, pc, left, work, crashed>>

\* The lease of ten minutes ends.  While the deploy is still running that
\* needs docker compose, which has no timeout, to be slow.
Expire(t) ==
  /\ task[t].lock.st = "held"
  /\ IF Deploying(t) THEN Happens("slow") ELSE UNCHANGED env
  /\ task' = [task EXCEPT ![t].lock.st = "expired"]
  /\ UNCHANGED <<main, clock, pc, left, work, crashed>>

\* The process dies; the next one starts with the startup recovery.
Crash ==
  /\ Happens("crash")
  /\ pc' = "startup"
  /\ left' = {}
  /\ work' = [t \in Tasks |-> NoRun]
  /\ crashed' = TRUE
  /\ UNCHANGED <<task, main, clock>>

-----------------------------------------------------------------------------
(* The loop: recovery, the happy path, and the closeout after a batch.     *)

\* recover_stale_running_automation_once, at startup and in every tick.
Recover(t) ==
  /\ pc \in {"startup", "happy"}
  /\ task[t].auto = "running"
  /\ task' = [task EXCEPT ![t].auto = "failed"]
  /\ UNCHANGED <<main, clock, pc, left, work, env, crashed>>

EndStartup ==
  /\ pc = "startup"
  /\ Running = {}
  /\ pc' = "happy"
  /\ UNCHANGED <<task, main, clock, left, work, env, crashed>>

\* Fault variant: only a task whose automation never ran is taken.
EligibleIdle(t) ==
  LET s == task[t]
  IN /\ s.role \in {"Developer", "QA"}
     /\ s.auto = "idle"
     /\ s.asked /\ ~s.warm
     /\ s.gate # "none" => GateOf(t) # s.gate

\* _eligible_for_team_mode_auto_queue
Eligible(t) ==
  LET s == task[t]
  IN /\ s.role \in {"Developer", "QA"}
     /\ ~Busy(s)
     /\ s.asked /\ ~s.warm
     /\ s.gate # "none" => GateOf(t) # s.gate

\* _infer_team_mode_dispatch_source_task_id, for Developers and QA; which of
\* several is the one touched last.
Inferred(t) ==
  LET leads == {u \in OfRole("Lead") \ {t} : Open(task[u]) \/ task[u].status = "awaiting"}
      handedOn == {u \in OfRole("Lead") \ {t} : task[u].handed # NoDeploy}
      first == IF task[t].role = "QA" /\ handedOn # {} THEN handedOn ELSE leads
  IN IF first = {} THEN {{}} ELSE {{u} : u \in first}

\* _rearm_blocked_team_mode_lead_tasks, for one task: not after a deploy
\* that left the stack unhealthy.
Rearmed(s) ==
  IF s.role = "Lead" /\ s.status = "blocked" /\ ~(s.deploy.n > 0 /\ ~s.deploy.ok)
  THEN [s EXCEPT !.status = "active"] ELSE s

\* queue_team_mode_happy_path_once: a planned task whose completed run
\* already had this source is skipped, and still takes its slot.
HappyPath ==
  /\ pc = "happy"
  /\ \E S \in Plans({t \in Tasks : Eligible(t)}) :
     \E from \in [S -> {{}} \union {{t} : t \in Tasks}] :
       /\ \A t \in S : from[t] \in Inferred(t)
       /\ task' = [t \in Tasks |->
            IF t \in S THEN AgentRequest(task[t], "runner_orchestrator", from[t])
                       ELSE Rearmed(task[t])]
  /\ pc' = "claim"
  /\ left' = Tasks
  /\ UNCHANGED <<main, clock, work, env, crashed>>

\* Fault variant: the transition policy is not asked.
CloseoutAny(t) ==
  /\ pc = "closeout"
  /\ ~Busy(task[t])
  /\ task' = [task EXCEPT ![t].status = "completed"]
  /\ UNCHANGED <<main, clock, pc, left, work, env, crashed>>

\* closeout_team_mode_tasks_once, when verify_delivery_workflow says so: the
\* transition policy lets only tasks in QA, active or blocked, be completed.
Closeout(t) ==
  /\ pc = "closeout"
  /\ task[t].role = "QA"
  /\ task[t].status \in {"active", "blocked"}
  /\ ~Busy(task[t])
  /\ task' = [task EXCEPT ![t].status = "completed"]
  /\ UNCHANGED <<main, clock, pc, left, work, env, crashed>>

EndCloseout ==
  /\ pc = "closeout"
  /\ pc' = "happy"
  /\ UNCHANGED <<task, main, clock, left, work, env, crashed>>

-----------------------------------------------------------------------------
(* Claiming a batch: run_queued_automation_once and _claim_queued_task.    *)

\* _task_uses_shared_project_workspace: only a Developer at work has a
\* worktree of its own.
UsesSharedWorkspace(s) == ~(s.role = "Developer" /\ Open(s))

Claimable(t) ==
  /\ task[t].auto = "queued"
  /\ UsesSharedWorkspace(task[t]) => Running = {}
  /\ Cardinality(Running) < Limit

\* The claim clears the gate and resumes a task in To do or Awaiting.
Claim(t) ==
  /\ pc = "claim" /\ t \in left
  /\ Claimable(t)
  /\ task' = [task EXCEPT ![t].auto = "running", ![t].gate = "none",
                ![t].status = IF @ \in {"todo", "awaiting"} /\ task[t].role # "none"
                              THEN "active" ELSE @]
  /\ work' = [work EXCEPT ![t] = [NoRun EXCEPT !.at = "execute"]]
  /\ left' = left \ {t}
  /\ UNCHANGED <<main, clock, pc, env, crashed>>

Pass(t) ==
  /\ pc = "claim" /\ t \in left
  /\ ~Claimable(t)
  /\ left' = left \ {t}
  /\ UNCHANGED <<task, main, clock, pc, work, env, crashed>>

EndScan ==
  /\ pc = "claim" /\ left = {}
  /\ pc' = "drain"
  /\ UNCHANGED <<task, main, clock, left, work, env, crashed>>

\* The executor of the batch returns when every run has ended.
EndBatch ==
  /\ pc = "drain"
  /\ \A t \in Tasks : work[t] = NoRun
  /\ pc' = "closeout"
  /\ UNCHANGED <<task, main, clock, left, work, env, crashed>>

-----------------------------------------------------------------------------
(* A run: _execute_claimed_automation.                                     *)

At(t, stage) == work[t].at = stage

\* The run goes on with a stage; "none" ends it.
On(t, stage) ==
  work' = [work EXCEPT ![t] = IF stage = "none" THEN NoRun ELSE [@ EXCEPT !.at = stage]]

Failing(t, why) ==
  work' = [work EXCEPT ![t].at = "failing", ![t].why = why]

Set(t, s) == task' = [task EXCEPT ![t] = s]

\* The runs of a batch start when the scan has ended.
Executing(t) == pc = "drain" /\ At(t, "execute")

\* _preflight_automation_error
Gated(t) ==
  /\ Executing(t)
  /\ GateOf(t) # "none"
  /\ Failing(t, "gate")
  /\ UNCHANGED <<task, main, clock, pc, left, env, crashed>>

\* The agent's run raises, or leaves nothing committed on the task branch, or
\* leaves a branch that lacks what was merged to main meanwhile.
ExecuteFails(t, why) ==
  /\ Executing(t)
  /\ GateOf(t) = "none"
  /\ why \in {"retry", "exhausted", "other", "uncommitted", "conflict"}
  /\ why \in {"uncommitted", "conflict"} => task[t].role = "Developer" /\ Open(task[t])
  /\ why = "conflict" => main > 0
  /\ Fails(why)
  /\ Failing(t, why)
  /\ UNCHANGED <<task, main, clock, pc, left, crashed>>

\* What _record_automation_success does after AutomationCompleted.
Follows(t) ==
  LET s == task[t]
  IN CASE s.role = "Developer" /\ Open(s) -> "developer"
       [] s.role = "Lead" /\ Open(s) -> "lead"
       [] s.role = "QA" /\ Open(s) /\ s.handed # NoDeploy /\ t \in DeployTasks -> "validated"
       [] s.role \in {"Developer", "QA"} /\ s.status = "blocked" -> "escalate"
       [] OTHER -> "none"

\* _record_automation_success up to AutomationCompleted.
ExecuteSucceeds(t) ==
  /\ Executing(t)
  /\ GateOf(t) = "none"
  /\ Set(t, [task[t] EXCEPT !.auto = "completed"])
  /\ On(t, Follows(t))
  /\ UNCHANGED <<main, clock, pc, left, env, crashed>>

\* The same for a Lead agent that answers "complete": the task is completed
\* first, and the recording goes on with the state it read before.
LeadCompletes(t) ==
  /\ Executing(t)
  /\ GateOf(t) = "none"
  /\ task[t].role = "Lead" /\ Open(task[t])
  /\ Happens("complete")
  /\ Set(t, [task[t] EXCEPT !.auto = "completed", !.status = "completed"])
  /\ On(t, "lead")
  /\ UNCHANGED <<main, clock, pc, left, crashed>>

-----------------------------------------------------------------------------
(* The Developer's success: review or merge, then the handoff to the Lead. *)

Held(t) == task[t].lock.st = "held"

\* _project_active_deploy_lock, the newest lock in force, is another task's.
FrozenFor(t) ==
  \E u \in Tasks \ {t} : Held(u) /\ \A v \in Tasks : Held(v) => task[v].lock.n <= task[u].lock.n

\* _team_mode_review_gate_pending
ReviewPending(t) == ReviewRequired /\ task[t].review # "approved"

SendToReview(t) ==
  /\ At(t, "developer") /\ ReviewPending(t)
  /\ Set(t, [task[t] EXCEPT !.status = "in_review", !.role = "none", !.review = "pending"])
  /\ On(t, "none")
  /\ UNCHANGED <<main, clock, pc, left, env, crashed>>

\* _merge_current_task_branch_to_main looks for a deploy lock ...
CheckFreeze(t) ==
  /\ At(t, "developer") /\ ~ReviewPending(t)
  /\ IF FrozenFor(t) THEN Failing(t, "frozen") ELSE On(t, "merge")
  /\ UNCHANGED <<task, main, clock, pc, left, env, crashed>>

\* ... and then merges, and records the merge.
Merge(t) ==
  /\ At(t, "merge")
  /\ main' = main + 1
  /\ Set(t, [task[t] EXCEPT !.merged = main + 1])
  /\ On(t, "handoff")
  /\ UNCHANGED <<clock, pc, left, env, crashed>>

MergeConflict(t) ==
  /\ At(t, "merge")
  /\ Fails("conflict")
  /\ Failing(t, "conflict")
  /\ UNCHANGED <<task, main, clock, pc, left, crashed>>

\* A task that needs no deploy is done; the others become the Lead's.
Handoff(t) ==
  /\ At(t, "handoff")
  /\ IF t \in DeployTasks
     THEN /\ Set(t, [task[t] EXCEPT !.role = "Lead", !.status = "active"])
          /\ On(t, "request")
     ELSE /\ Set(t, [task[t] EXCEPT !.status = "completed"])
          /\ On(t, "dispatch_developers")
  /\ UNCHANGED <<main, clock, pc, left, env, crashed>>

RequestLead(t) ==
  /\ At(t, "request")
  /\ Set(t, Request(task[t], "developer_handoff", {t}))
  /\ On(t, "dispatch_lead")
  /\ UNCHANGED <<main, clock, pc, left, env, crashed>>

\* Blocked Lead tasks are rearmed, then the Leads dispatched.
DispatchLead(t) ==
  /\ At(t, "dispatch_lead")
  /\ \E S \in Plans(OfRole("Lead") \ {t}) :
       task' = [u \in Tasks |->
         IF u \in S THEN AgentRequest(Rearmed(task[u]), "developer_handoff", {t})
                    ELSE Rearmed(task[u])]
  /\ On(t, "dispatch_developers")
  /\ UNCHANGED <<main, clock, pc, left, env, crashed>>

DispatchDevelopers(t) ==
  /\ At(t, "dispatch_developers")
  /\ \E S \in Plans(OfRole("Developer") \ {t}) :
       task' = Dispatched(S, "runner_orchestrator", {t})
  /\ On(t, "none")
  /\ UNCHANGED <<main, clock, pc, left, env, crashed>>

-----------------------------------------------------------------------------
(* The Lead's success: deploy under the lock, then the handoff to QA.      *)

\* Fault variant: the lookup forgets that a lock was released.
LookUpLockReleased(t) ==
  /\ At(t, "lead")
  /\ IF task[t].merged = 0 \/ FrozenFor(t)
     THEN /\ Failing(t, "other")
          /\ UNCHANGED clock
     ELSE /\ clock' = clock + 1
          /\ work' = [work EXCEPT ![t] =
               [@ EXCEPT !.at = IF task[t].lock.st \in {"held", "released"} THEN "deploy" ELSE "lock",
                         !.n = clock + 1]]
  /\ UNCHANGED <<task, main, pc, left, env, crashed>>

\* _acquire_project_deploy_lock, its lookup: a lock of the task's own that is
\* still in force is used again, with its deploy cycle.
LookUpLock(t) ==
  /\ At(t, "lead")
  /\ IF task[t].merged = 0 \/ FrozenFor(t)
     THEN /\ Failing(t, "other")
          /\ UNCHANGED clock
     ELSE /\ clock' = clock + 1
          /\ work' = [work EXCEPT ![t] =
               [@ EXCEPT !.at = IF Held(t) THEN "deploy" ELSE "lock", !.n = clock + 1]]
  /\ UNCHANGED <<task, main, pc, left, env, crashed>>

AcquireLock(t) ==
  /\ At(t, "lock")
  /\ Set(t, [task[t] EXCEPT !.lock = [st |-> "held", n |-> work[t].n]])
  /\ On(t, "deploy")
  /\ UNCHANGED <<main, clock, pc, left, env, crashed>>

\* Fault variant: a deploy that fails leaves the lock.
KeepsLock(s) == s

\* _release_project_deploy_lock, for a lock that is not looked up again.
Unlocked(s) == [s EXCEPT !.lock.st = "released"]

\* The snapshot of a deploy of what main holds, under the task's lock.
Deployed(t, healthy) ==
  [n |-> work[t].n, cycle |-> task[t].lock.n, main |-> main, ok |-> healthy]

\* docker compose up or the health probe fails: the snapshot is recorded
\* and the lock released.
DeployFails(t) ==
  /\ At(t, "deploy")
  /\ t \in DeployTasks
  /\ Fails("unhealthy")
  /\ Set(t, Unlocked([task[t] EXCEPT !.deploy = Deployed(t, FALSE)]))
  /\ Failing(t, "other")
  /\ UNCHANGED <<main, clock, pc, left, crashed>>

\* docker compose up runs what main holds; a task that needs no deploy
\* deploys nothing.
Deploy(t) ==
  /\ At(t, "deploy")
  /\ IF t \in DeployTasks
     THEN Set(t, [task[t] EXCEPT !.deploy = Deployed(t, TRUE)])
     ELSE UNCHANGED task
  /\ On(t, "qa_handoff")
  /\ UNCHANGED <<main, clock, pc, left, env, crashed>>

\* _queue_qa_handoff_requests, on the same task: no other task names it in a
\* hands_off_to relationship.  Without a strict deploy snapshot nothing is
\* queued, which raises, and the lock is not released.
QaHandoff(t) ==
  /\ At(t, "qa_handoff")
  /\ IF Strict(task[t].deploy)
     THEN /\ Set(t, Request([task[t] EXCEPT !.role = "QA", !.status = "active",
                                            !.handed = task[t].deploy], "lead_handoff", {t}))
          /\ On(t, "release")
     ELSE /\ Failing(t, "other")
          /\ UNCHANGED task
  /\ UNCHANGED <<main, clock, pc, left, env, crashed>>

ReleaseLock(t) ==
  /\ At(t, "release")
  /\ Set(t, Unlocked([task[t] EXCEPT !.status = "active"]))
  /\ On(t, "none")
  /\ UNCHANGED <<main, clock, pc, left, env, crashed>>

\* The QA branch: the task is completed and the next Developers dispatched.
QaCompletes(t) ==
  /\ At(t, "validated")
  /\ Set(t, [task[t] EXCEPT !.status = "completed"])
  /\ On(t, "dispatch_developers")
  /\ UNCHANGED <<main, clock, pc, left, env, crashed>>

-----------------------------------------------------------------------------
(* _record_automation_failure.                                             *)

RerunSource(s, why) ==
  CASE s.role = "Developer" /\ why = "conflict" -> "main_reconcile"
    [] s.role = "Developer" /\ why = "uncommitted" -> "developer_handoff_recovery"
    [] s.role = "Lead" /\ why \notin {"retry", "exhausted", "gate"} -> "lead_triage_return"
    [] OTHER -> "none"

FirstId(src) ==
  CASE src = "main_reconcile" -> "tm-dev-sync"
    [] src = "developer_handoff_recovery" -> "tm-dev-handoff"
    [] src = "lead_triage_return" -> "lead-dev-triage"

RetryId(src) ==
  CASE src = "main_reconcile" -> "retry:main_reconcile"
    [] src = "developer_handoff_recovery" -> "retry:developer_handoff_recovery"
    [] src = "lead_triage_return" -> "retry:lead_triage_return"

\* A gate defers the run; it is completed and keeps the gate's name.
Defer(t) ==
  /\ At(t, "failing") /\ work[t].why = "gate"
  /\ Set(t, [task[t] EXCEPT !.auto = "completed", !.gate = GateOf(t)])
  /\ On(t, "none")
  /\ UNCHANGED <<main, clock, pc, left, env, crashed>>

\* A transient failure, or a recoverable one with retries left.
Retry(t) ==
  /\ At(t, "failing") /\ work[t].why = "retry"
  /\ Set(t, Request(task[t], "recover", {}))
  /\ On(t, "none")
  /\ UNCHANGED <<main, clock, pc, left, env, crashed>>

\* Where the task goes before the failure is recorded: back to its Developer
\* with a first request (conflict, nothing committed, a Lead's triage), back
\* without one (freeze), to a human (retries exhausted), or to the Lead.
Reroute(t) ==
  LET s == task[t]
      why == work[t].why
      src == RerunSource(s, why)
      back == [s EXCEPT !.role = "Developer", !.status = "active"]
  IN /\ At(t, "failing") /\ why \notin {"gate", "retry"}
     /\ Set(t, CASE src # "none" -> Command(back, FirstId(src), src)
                 [] s.role = "Developer" /\ why = "frozen" -> back
                 [] why = "exhausted" -> [s EXCEPT !.status = "awaiting"]
                 [] s.role \in {"Developer", "QA"} /\ why # "exhausted"
                      -> [s EXCEPT !.role = "Lead", !.status = "blocked"]
                 [] OTHER -> s)
     /\ work' = [work EXCEPT ![t].at = "failed",
                   ![t].why = CASE src # "none" -> src
                                   [] why = "exhausted" /\ s.role \in {"Developer", "QA"} -> "exhausted"
                                   [] OTHER -> "none"]
     /\ UNCHANGED <<main, clock, pc, left, env, crashed>>

\* AutomationFailed; AutomationCompleted when the Lead's triage resolved it.
RecordOutcome(t) ==
  LET why == work[t].why
  IN /\ At(t, "failed")
     /\ Set(t, [task[t] EXCEPT !.gate = "none",
                  !.auto = IF why = "lead_triage_return" THEN "completed" ELSE "failed"])
     /\ On(t, CASE why \in Reruns -> "rerun"
                   [] why = "exhausted" -> "escalate"
                   [] OTHER -> "none")
     /\ UNCHANGED <<main, clock, pc, left, env, crashed>>

\* The second request, under another derived command id.
Rerun(t) ==
  LET src == work[t].why
  IN /\ At(t, "rerun")
     /\ Set(t, Command(task[t], RetryId(src), src))
     /\ On(t, "none")
     /\ UNCHANGED <<main, clock, pc, left, env, crashed>>

\* _enqueue_team_lead_blocker_escalation requests every Lead task.
Escalate(t) ==
  /\ At(t, "escalate")
  /\ task' = [u \in Tasks |->
       IF /\ task[u].role = "Lead" /\ task[u].status # "completed"
          /\ ~(Busy(task[u]) /\ task[u].src = "blocker_escalation" /\ task[u].from = {t})
       THEN Request(task[u], "blocker_escalation", {t}) ELSE task[u]]
  /\ On(t, "none")
  /\ UNCHANGED <<main, clock, pc, left, env, crashed>>

-----------------------------------------------------------------------------
Run(t) ==
  \/ Gated(t)
  \/ \E why \in Failures : ExecuteFails(t, why)
  \/ ExecuteSucceeds(t)
  \/ LeadCompletes(t)
  \/ SendToReview(t) \/ CheckFreeze(t)
  \/ Merge(t) \/ MergeConflict(t)
  \/ Handoff(t) \/ RequestLead(t)
  \/ DispatchLead(t) \/ DispatchDevelopers(t)
  \/ LookUpLock(t) \/ AcquireLock(t)
  \/ Deploy(t) \/ DeployFails(t)
  \/ QaHandoff(t) \/ ReleaseLock(t) \/ QaCompletes(t)
  \/ Defer(t) \/ Retry(t) \/ Reroute(t)
  \/ RecordOutcome(t) \/ Rerun(t) \/ Escalate(t)

Tick ==
  \/ \E t \in Tasks : Recover(t)
  \/ EndStartup \/ HappyPath
  \/ \E t \in Tasks : Claim(t) \/ Pass(t)
  \/ EndScan \/ EndBatch \/ EndCloseout

Next ==
  \/ Kickoff
  \/ \E t \in Tasks : \/ HumanRequest(t)
                      \/ \E d \in {"approved", "changes_requested"} : Review(t, d)
                      \/ Cool(t) \/ Expire(t) \/ Closeout(t)
  \/ Crash
  \/ Tick
  \/ \E t \in Tasks : Run(t)

\* The loop ticks, the threads of a batch run, and time passes: cooldowns
\* and the leases of locks nobody works under any more come to an end.
Fairness ==
  /\ WF_vars(Tick)
  /\ \A t \in Tasks : WF_vars(Run(t))
  /\ \A t \in Tasks : WF_vars(Cool(t)) /\ WF_vars(Expire(t) /\ ~Deploying(t))

Spec == Init /\ [][Next]_vars /\ Fairness

-----------------------------------------------------------------------------
(* Properties.                                                             *)

\* A completed task that needs a deploy was deployed, healthy, with its last
\* merge in it, and that deploy is the one it was handed to QA with: through
\* rework after a failed validation or deploy, a second review, crashes and
\* closeouts (the Developer, Lead and QA branches of
\* _record_automation_success).  The exception is the Lead agent that answers
\* "complete" itself, until its recording has handed the task to QA.
CompletedWasDeployed ==
  \A t \in DeployTasks : task[t].status = "completed" /\ task[t].role # "Lead" =>
    /\ Strict(task[t].handed)
    /\ task[t].merged \in 1 .. task[t].handed.main

\* A lock in force is being deployed under, unless the process died, or the
\* task never needed a deploy: then the handoff fails after the try block
\* whose except releases the lock.
LockIsAttended ==
  \A t \in DeployTasks : Held(t) => Deploying(t) \/ crashed

\* Every handoff to QA carries a later deploy than the one before, and a later
\* deploy cycle: review, rework, reruns and triage never hand one cycle over
\* twice.  The exception is a process that died between a handoff and the
\* release: a Lead that works on the task again within the lease uses the lock
\* it finds, and its cycle, once more (_acquire_project_deploy_lock).
CyclesAdvance ==
  [][\A t \in Tasks : task'[t].handed # task[t].handed =>
       /\ task'[t].handed.n > task[t].handed.n
       /\ \/ task'[t].handed.cycle > task[t].handed.cycle
          \/ crashed /\ task'[t].handed.cycle = task[t].handed.cycle]_vars

\* No deploy lock is in force for ever, whoever dies or fails holding it.
LockIsTemporary == \A t \in Tasks : Held(t) ~> ~Held(t)

\* A Developer task that was asked for and rests in a status agents work in
\* (failed, frozen out by a deploy, or asked for again under a command id
\* already answered) is requested again or moves on, unless a crash came
\* between its completed run and the handoff.
DeveloperResumes ==
  \A t \in Tasks :
    (task[t].role = "Developer" /\ Open(task[t]) /\ task[t].asked /\ ~Busy(task[t]))
      ~> (Busy(task[t]) \/ task[t].role # "Developer" \/ ~Open(task[t]) \/ crashed)

\* Nobody dies or fails in a way that stops the others for good: both of the
\* above.
NothingHangs == LockIsTemporary /\ DeveloperResumes

\* No Developer merges while another task's deploy lock is in force.
MergesFrozen ==
  [][\A t \in Tasks : task'[t].merged # task[t].merged =>
       \A u \in Tasks \ {t} : ~Held(u)]_vars
=============================================================================
