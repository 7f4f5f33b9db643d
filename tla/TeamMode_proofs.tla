--------------------------- MODULE TeamMode_proofs ---------------------------
(***************************************************************************)
(* Theorems about TeamMode, for any tasks, agents, limit and environment:  *)
(* type correctness, what a completed task went through, who holds a       *)
(* deploy lock, and the order of the deploy cycles handed to QA.           *)
(***************************************************************************)
EXTENDS TeamMode, TLAPS

\* What the steps of others, requests, recoveries and claims leave of a task:
\* they move it to active at most, and only take a lock away.
Calm(s, u) ==
  /\ u.role = s.role
  /\ u.merged = s.merged
  /\ u.deploy = s.deploy
  /\ u.handed = s.handed
  /\ u.status = s.status \/ (u.status = "active" /\ (Open(s) \/ s.status = "awaiting"))
  /\ u.lock.n = s.lock.n
  /\ u.lock.st = s.lock.st \/ u.lock.st # "held"

\* Runs are under way only while the loop drains its batch.
PhaseInv == pc # "drain" => \A t \in Tasks : work[t].at \in {"none", "execute"}

\* A run that works on its task's branch, or validates it, keeps the task to
\* itself: nobody else changes the role or takes the task out of work.  One
\* that requests a rerun knows which.
RoleInv(t) ==
  /\ work[t].at \in {"developer", "merge", "handoff"} => task[t].role = "Developer" /\ Open(task[t])
  /\ work[t].at = "validated" => task[t].role = "QA" /\ Open(task[t])
  /\ work[t].at = "rerun" => work[t].why \in Reruns

\* The deploy of a run that holds or takes the lock is later than any the task
\* was handed over with, and, unless the process died, so is the cycle of the
\* lock; what it deployed contains the task's last merge.
CycleInv(t) ==
  /\ task[t].merged <= main
  /\ task[t].handed.n <= clock
  /\ task[t].lock.n <= clock
  /\ task[t].handed.cycle <= task[t].lock.n
  /\ work[t].at = "lock" => task[t].lock.n < work[t].n
  /\ work[t].at \in {"deploy", "qa_handoff"} /\ t \in DeployTasks =>
       crashed \/ task[t].handed.cycle < task[t].lock.n
  /\ t \notin DeployTasks => task[t].deploy = NoDeploy
  /\ work[t].at \in {"lock", "deploy", "qa_handoff"} =>
       /\ task[t].merged > 0
       /\ work[t].n > task[t].handed.n
       /\ work[t].n <= clock
  /\ work[t].at = "qa_handoff" /\ t \in DeployTasks =>
       /\ task[t].deploy.n = work[t].n
       /\ task[t].deploy.cycle = task[t].lock.n
       /\ task[t].deploy.ok
       /\ task[t].merged <= task[t].deploy.main

\* Only QA, with a deploy that holds the last merge, and a Lead agent have
\* completed tasks.
DoneInv(t) ==
  t \in DeployTasks =>
    /\ task[t].role = "QA" => /\ Strict(task[t].handed)
                              /\ task[t].merged \in 1 .. task[t].handed.main
    /\ task[t].role \in {"Developer", "none"} => task[t].status # "completed"

LockInv(t) == t \in DeployTasks /\ Held(t) => Deploying(t) \/ crashed

TaskInv(t) == RoleInv(t) /\ CycleInv(t) /\ DoneInv(t) /\ LockInv(t)

IInv == TypeOK /\ PhaseInv /\ \A t \in Tasks : TaskInv(t)

-----------------------------------------------------------------------------
(* What the operators on a task's state return, and what they leave alone. *)

Statuses == {"todo", "active", "in_review", "blocked", "awaiting", "completed"}
Autos == {"idle", "queued", "running", "completed", "failed"}
Reviews == {"none", "pending", "approved", "changes_requested"}
Froms == {{}} \union {{t} : t \in Tasks}
Locks == [st : {"none", "held", "expired", "released"}, n : Nat]

LEMMA CalmSame == ASSUME NEW s PROVE Calm(s, s)
BY DEF Calm

LEMMA StatusType ==
  ASSUME NEW s \in TaskStates, NEW x \in Statuses
  PROVE  [s EXCEPT !.status = x] \in TaskStates
BY DEF TaskStates, Statuses

LEMMA RoleType ==
  ASSUME NEW s \in TaskStates, NEW x \in Roles
  PROVE  [s EXCEPT !.role = x] \in TaskStates
BY DEF TaskStates

LEMMA AutoType ==
  ASSUME NEW s \in TaskStates, NEW x \in Autos
  PROVE  [s EXCEPT !.auto = x] \in TaskStates
BY DEF TaskStates, Autos

LEMMA GateType ==
  ASSUME NEW s \in TaskStates, NEW x \in Gates
  PROVE  [s EXCEPT !.gate = x] \in TaskStates
BY DEF TaskStates

LEMMA ReviewType ==
  ASSUME NEW s \in TaskStates, NEW x \in Reviews
  PROVE  [s EXCEPT !.review = x] \in TaskStates
BY DEF TaskStates, Reviews

LEMMA DeployType ==
  ASSUME NEW s \in TaskStates, NEW x \in Deploys
  PROVE  [s EXCEPT !.deploy = x] \in TaskStates
BY DEF TaskStates

LEMMA LockType ==
  ASSUME NEW s \in TaskStates, NEW x \in Locks
  PROVE  [s EXCEPT !.lock = x] \in TaskStates
BY DEF TaskStates, Locks

LEMMA LockStateType ==
  ASSUME NEW s \in TaskStates, NEW x \in {"none", "held", "expired", "released"}
  PROVE  [s EXCEPT !.lock.st = x] \in TaskStates
<1>1. [s.lock EXCEPT !.st = x] \in Locks
  BY DEF TaskStates, Locks
<1>2. [s EXCEPT !.lock.st = x] = [s EXCEPT !.lock = [s.lock EXCEPT !.st = x]]
  OBVIOUS
<1> QED BY <1>1, <1>2, LockType

LEMMA RequestType ==
  ASSUME NEW s \in TaskStates, NEW src \in Sources, NEW from \in Froms
  PROVE  Request(s, src, from) \in TaskStates /\ Calm(s, Request(s, src, from))
<1>1. Request(s, src, from) \in TaskStates
  BY DEF Request, TaskStates, Froms
<1>2. Calm(s, Request(s, src, from))
  BY DEF Request, TaskStates, Calm
<1> QED BY <1>1, <1>2

LEMMA AgentRequestType ==
  ASSUME NEW s \in TaskStates, NEW src \in Sources, NEW from \in Froms
  PROVE  AgentRequest(s, src, from) \in TaskStates /\ Calm(s, AgentRequest(s, src, from))
BY RequestType, CalmSame DEF AgentRequest

LEMMA CommandType ==
  ASSUME NEW s \in TaskStates, NEW id \in DerivedIds, NEW src \in Sources
  PROVE  Command(s, id, src) \in TaskStates /\ Calm(s, Command(s, id, src))
<1> DEFINE u == AgentRequest(s, src, {})
<1>1. u \in TaskStates /\ Calm(s, u)
  BY AgentRequestType DEF Froms
<1>2. [u EXCEPT !.used = @ \union {id}] \in TaskStates /\ Calm(u, [u EXCEPT !.used = @ \union {id}])
  <2> HIDE DEF u
  <2>1. [u EXCEPT !.used = @ \union {id}] \in TaskStates
    BY <1>1 DEF TaskStates
  <2>2. Calm(u, [u EXCEPT !.used = @ \union {id}])
    BY <1>1 DEF TaskStates, Calm
  <2> QED BY <2>1, <2>2
<1>3. Calm(s, [u EXCEPT !.used = @ \union {id}])
  <2> HIDE DEF u
  <2> QED BY <1>1, <1>2 DEF Calm, TaskStates
<1> QED BY <1>1, <1>2, <1>3, CalmSame DEF Command

LEMMA RearmedType ==
  ASSUME NEW s \in TaskStates
  PROVE  Rearmed(s) \in TaskStates /\ Calm(s, Rearmed(s))
<1>1. [s EXCEPT !.status = "active"] \in TaskStates
  BY StatusType DEF Statuses
<1>2. s.status = "blocked" => Calm(s, [s EXCEPT !.status = "active"])
  BY DEF TaskStates, Calm, Open
<1> QED BY <1>1, <1>2, CalmSame DEF Rearmed

LEMMA GateOfType == ASSUME NEW t \in Tasks PROVE GateOf(t) \in Gates
BY DEF GateOf, Gates

LEMMA PlansType ==
  ASSUME NEW C \in SUBSET Tasks, NEW S \in Plans(C)
  PROVE  S \subseteq C
BY DEF Plans

-----------------------------------------------------------------------------
(* Steps that leave every task calm.                                       *)

AllCalm == \A u \in Tasks : Calm(task[u], task'[u])
Typed == task' \in [Tasks -> TaskStates]

LEMMA DispatchedType ==
  ASSUME task \in [Tasks -> TaskStates], NEW S, NEW src \in Sources, NEW from \in Froms,
         task' = Dispatched(S, src, from)
  PROVE  Typed /\ AllCalm
<1>1. ASSUME NEW u \in Tasks
      PROVE  task'[u] \in TaskStates /\ Calm(task[u], task'[u])
  <2>1. task[u] \in TaskStates
    OBVIOUS
  <2>2. task'[u] = IF u \in S THEN AgentRequest(task[u], src, from) ELSE task[u]
    BY DEF Dispatched
  <2> QED BY <2>1, <2>2, AgentRequestType, CalmSame
<1>2. task' = [u \in Tasks |-> task'[u]]
  BY DEF Dispatched
<1> QED BY <1>1, <1>2 DEF Typed, AllCalm

\* A step that sets one task to a state.
LEMMA SetTyped ==
  ASSUME task \in [Tasks -> TaskStates], NEW t \in Tasks, NEW s \in TaskStates,
         task' = [task EXCEPT ![t] = s]
  PROVE  Typed /\ task'[t] = s /\ \A u \in Tasks \ {t} : task'[u] = task[u]
BY DEF Typed

LEMMA SetCalm ==
  ASSUME task \in [Tasks -> TaskStates], NEW t \in Tasks, NEW s \in TaskStates,
         task' = [task EXCEPT ![t] = s], Calm(task[t], s)
  PROVE  Typed /\ AllCalm
BY SetTyped, CalmSame DEF AllCalm

LEMMA KickoffCalm == ASSUME TypeOK, Kickoff PROVE Typed /\ AllCalm
BY DispatchedType DEF Kickoff, TypeOK, Sources, Froms

LEMMA OriginsType ==
  ASSUME NEW t \in Tasks, NEW o \in Origins(t)
  PROVE  o[1] \in Sources /\ o[2] \in Froms
<1> DEFINE D == {u \in OfRole("Developer") \ {t} :
                   /\ task[u].status \in {"active", "completed"}
                   /\ task[u].auto = "completed" \/ task[u].merged > 0}
           B == {u \in Tasks \ {t} : task[u].role \in {"Developer", "QA"} /\ task[u].status = "blocked"}
<1>1. D \subseteq Tasks /\ B \subseteq Tasks
  BY DEF OfRole
<1>2. Origins(t) = CASE task[t].role = "Developer" ->
            {<<"runner_orchestrator", {}>>, <<"lead_kickoff_dispatch", {}>>}
       [] task[t].role = "QA" -> {<<"runner_orchestrator", {}>>}
       [] task[t].role = "Lead" /\ D # {} -> {<<"developer_handoff", {u}>> : u \in D}
       [] task[t].role = "Lead" /\ B # {} -> {<<"blocker_escalation", {u}>> : u \in B}
       [] OTHER -> {<<"manual", {}>>}
  BY DEF Origins
<1> HIDE DEF D, B
<1>3. \/ o \in {<<"runner_orchestrator", {}>>, <<"lead_kickoff_dispatch", {}>>, <<"manual", {}>>}
      \/ \E u \in D : o = <<"developer_handoff", {u}>>
      \/ \E u \in B : o = <<"blocker_escalation", {u}>>
  BY <1>2
<1> QED BY <1>1, <1>3 DEF Sources, Froms

LEMMA HumanRequestCalm ==
  ASSUME TypeOK, NEW t \in Tasks, HumanRequest(t)
  PROVE  Typed /\ AllCalm
<1>1. PICK o \in Origins(t) : task' = [task EXCEPT ![t] = Request(@, o[1], o[2])]
  BY DEF HumanRequest
<1>2. o[1] \in Sources /\ o[2] \in Froms
  BY <1>1, OriginsType
<1>3. task[t] \in TaskStates
  BY DEF TypeOK
<1> QED BY <1>1, <1>2, <1>3, RequestType, SetCalm DEF TypeOK

LEMMA CoolCalm == ASSUME TypeOK, NEW t \in Tasks, Cool(t) PROVE Typed /\ AllCalm
<1>1. task[t] \in TaskStates
  BY DEF TypeOK
<1>2. [task[t] EXCEPT !.warm = FALSE] \in TaskStates
  BY <1>1 DEF TaskStates
<1>3. Calm(task[t], [task[t] EXCEPT !.warm = FALSE])
  BY <1>1 DEF TaskStates, Calm
<1> QED BY <1>2, <1>3, SetCalm DEF Cool, TypeOK

LEMMA ExpireCalm == ASSUME TypeOK, NEW t \in Tasks, Expire(t) PROVE Typed /\ AllCalm
<1>1. task[t] \in TaskStates
  BY DEF TypeOK
<1>2. [task[t] EXCEPT !.lock.st = "expired"] \in TaskStates
  BY <1>1, LockStateType
<1>3. Calm(task[t], [task[t] EXCEPT !.lock.st = "expired"])
  BY <1>1 DEF TaskStates, Calm
<1>4. task' = [task EXCEPT ![t] = [task[t] EXCEPT !.lock.st = "expired"]]
  BY DEF Expire
<1> QED BY <1>2, <1>3, <1>4, SetCalm DEF TypeOK

LEMMA RecoverCalm == ASSUME TypeOK, NEW t \in Tasks, Recover(t) PROVE Typed /\ AllCalm
<1>1. task[t] \in TaskStates
  BY DEF TypeOK
<1>2. [task[t] EXCEPT !.auto = "failed"] \in TaskStates
  BY <1>1, AutoType DEF Autos
<1>3. Calm(task[t], [task[t] EXCEPT !.auto = "failed"])
  BY <1>1 DEF TaskStates, Calm
<1> QED BY <1>2, <1>3, SetCalm DEF Recover, TypeOK

LEMMA InferredType == ASSUME NEW t \in Tasks PROVE Inferred(t) \subseteq Froms
BY DEF Inferred, Froms, OfRole

LEMMA HappyPathCalm == ASSUME TypeOK, HappyPath PROVE Typed /\ AllCalm
<1>0. PICK S \in Plans({t \in Tasks : Eligible(t)}) :
        \E from \in [S -> {{}} \union {{t} : t \in Tasks}] :
          task' = [t \in Tasks |->
            IF t \in S THEN AgentRequest(task[t], "runner_orchestrator", from[t])
                       ELSE Rearmed(task[t])]
  BY DEF HappyPath
<1>1. PICK from \in [S -> {{}} \union {{t} : t \in Tasks}] :
        task' = [t \in Tasks |->
          IF t \in S THEN AgentRequest(task[t], "runner_orchestrator", from[t])
                     ELSE Rearmed(task[t])]
  BY <1>0
<1>2. ASSUME NEW u \in Tasks
      PROVE  task'[u] \in TaskStates /\ Calm(task[u], task'[u])
  <2>1. task[u] \in TaskStates
    BY DEF TypeOK
  <2>2. CASE u \in S
    <3>1. from[u] \in Froms
      BY <1>1, <2>2 DEF Froms
    <3>2. task'[u] = AgentRequest(task[u], "runner_orchestrator", from[u])
      BY <1>1, <2>2
    <3> QED BY <2>1, <3>1, <3>2, AgentRequestType DEF Sources
  <2>3. CASE u \notin S
    BY <1>1, <2>1, <2>3, RearmedType
  <2> QED BY <2>2, <2>3
<1>3. task' = [u \in Tasks |-> task'[u]]
  BY <1>1
<1> QED BY <1>2, <1>3 DEF Typed, AllCalm

LEMMA ClaimCalm == ASSUME TypeOK, NEW t \in Tasks, Claim(t) PROVE Typed /\ AllCalm
<1> DEFINE x == IF task[t].status \in {"todo", "awaiting"} /\ task[t].role # "none"
                THEN "active" ELSE task[t].status
           a == [task[t] EXCEPT !.auto = "running"]
           b == [a EXCEPT !.gate = "none"]
           c == [b EXCEPT !.status = x]
<1>1. task[t] \in TaskStates
  BY DEF TypeOK
<1>2. x \in Statuses
  BY <1>1 DEF TaskStates, Statuses
<1>3. a \in TaskStates
  BY <1>1, AutoType DEF Autos
<1>4. b \in TaskStates
  <2> HIDE DEF a
  <2> QED BY <1>3, GateType DEF Gates
<1>5. c \in TaskStates
  <2> HIDE DEF b, x
  <2> QED BY <1>2, <1>4, StatusType
<1>6. Calm(task[t], c)
  BY <1>1 DEF TaskStates, Calm, Open
<1>7. task' = [task EXCEPT ![t] = c]
  BY <1>1 DEF Claim, TypeOK, TaskStates
<1> HIDE DEF c
<1> QED BY <1>5, <1>6, <1>7, SetCalm DEF TypeOK

-----------------------------------------------------------------------------
(* The run of a task.                                                      *)

WorkTyped == work' \in [Tasks -> Runs]
OthersWait(t) == \A u \in Tasks \ {t} : work'[u] = work[u]
OthersCalm(t) == \A u \in Tasks \ {t} : Calm(task[u], task'[u]) /\ work'[u] = work[u]

LEMMA NoRunType == NoRun \in Runs
BY DEF NoRun, Runs, Stages, Reasons

LEMMA OnEffect ==
  ASSUME work \in [Tasks -> Runs], NEW t \in Tasks, NEW stage \in Stages, On(t, stage)
  PROVE  /\ WorkTyped /\ OthersWait(t)
         /\ work'[t].at = stage
         /\ stage # "none" => work'[t].n = work[t].n /\ work'[t].why = work[t].why
<1>1. work[t] \in Runs
  OBVIOUS
<1>2. CASE stage = "none"
  <2>1. work' = [work EXCEPT ![t] = NoRun]
    BY <1>2 DEF On
  <2> QED BY <1>2, <2>1, NoRunType DEF WorkTyped, OthersWait, NoRun
<1>3. CASE stage # "none"
  <2> DEFINE r == [work[t] EXCEPT !.at = stage]
  <2>1. r \in Runs /\ r.at = stage /\ r.n = work[t].n /\ r.why = work[t].why
    BY <1>1 DEF Runs
  <2>2. work' = [work EXCEPT ![t] = r]
    BY <1>3 DEF On
  <2> HIDE DEF r
  <2> QED BY <2>1, <2>2 DEF WorkTyped, OthersWait
<1> QED BY <1>2, <1>3

LEMMA FailingEffect ==
  ASSUME work \in [Tasks -> Runs], NEW t \in Tasks, NEW why \in Reasons, Failing(t, why)
  PROVE  WorkTyped /\ OthersWait(t) /\ work'[t].at = "failing"
<1> DEFINE a == [work[t] EXCEPT !.at = "failing"]
           r == [a EXCEPT !.why = why]
<1>1. a \in Runs /\ a.at = "failing"
  BY DEF Runs, Stages
<1>2. r \in Runs /\ r.at = "failing"
  <2> HIDE DEF a
  <2> QED BY <1>1 DEF Runs
<1>3. work' = [work EXCEPT ![t] = r]
  BY DEF Failing, Runs
<1> HIDE DEF r
<1> QED BY <1>2, <1>3 DEF WorkTyped, OthersWait

\* The stages that ask nothing of the task.
Free == Stages \ {"developer", "merge", "handoff", "validated", "lock", "deploy", "qa_handoff"}

\* A calm task keeps its invariant as long as its run does not move ...
LEMMA CalmKeeps ==
  ASSUME TypeOK, TypeOK', NEW u \in Tasks, TaskInv(u), Calm(task[u], task'[u]),
         work'[u] = work[u], main <= main', clock <= clock', crashed => crashed'
  PROVE  TaskInv(u)'
<1>1. /\ task[u] \in TaskStates /\ task'[u] \in TaskStates
      /\ main \in Nat /\ main' \in Nat /\ clock \in Nat /\ clock' \in Nat
      /\ work[u] \in Runs
  BY DEF TypeOK
<1>2. /\ task[u].merged \in Nat
      /\ task[u].handed.n \in Nat /\ task[u].handed.cycle \in Nat
      /\ task[u].lock.n \in Nat
      /\ work[u].n \in Nat
  BY <1>1 DEF TaskStates, Deploys, Runs
<1>3. RoleInv(u)'
  BY <1>1 DEF TaskInv, RoleInv, Calm, Open
<1>4. CycleInv(u)'
  BY <1>1, <1>2 DEF TaskInv, CycleInv, Calm
<1>5. DoneInv(u)'
  BY <1>1, <1>2 DEF TaskInv, DoneInv, Calm, Open
<1>6. LockInv(u)'
  BY <1>1 DEF TaskInv, LockInv, Calm, Held, Deploying
<1> QED BY <1>3, <1>4, <1>5, <1>6 DEF TaskInv

\* ... or moves to such a stage.
LEMMA FreeKeeps ==
  ASSUME TypeOK, TypeOK', NEW u \in Tasks, TaskInv(u), Calm(task[u], task'[u]),
         ~Deploying(u) \/ crashed' \/ ~Held(u)', work'[u].at \in Free,
         work'[u].at = "rerun" => work'[u].why \in Reruns,
         main <= main', clock <= clock', crashed => crashed'
  PROVE  TaskInv(u)'
<1>1. /\ task[u] \in TaskStates /\ task'[u] \in TaskStates
      /\ main \in Nat /\ main' \in Nat /\ clock \in Nat /\ clock' \in Nat
      /\ work[u] \in Runs
  BY DEF TypeOK
<1>2. /\ task[u].merged \in Nat
      /\ task[u].handed.n \in Nat /\ task[u].handed.cycle \in Nat
      /\ task[u].lock.n \in Nat
      /\ work[u].n \in Nat
  BY <1>1 DEF TaskStates, Deploys, Runs
<1>3. RoleInv(u)'
  BY <1>1 DEF RoleInv, Free
<1>4. CycleInv(u)'
  BY <1>1, <1>2 DEF TaskInv, CycleInv, Calm, Free
<1>5. DoneInv(u)'
  BY <1>1, <1>2 DEF TaskInv, DoneInv, Calm, Open
<1>6. LockInv(u)'
  BY <1>1 DEF TaskInv, LockInv, Calm, Held, Deploying
<1> QED BY <1>3, <1>4, <1>5, <1>6 DEF TaskInv

\* The deploy and the cycle the task was handed over with move forward.
Advances(t) ==
  task'[t].handed # task[t].handed =>
    /\ task'[t].handed.n > task[t].handed.n
    /\ \/ task'[t].handed.cycle > task[t].handed.cycle
       \/ crashed /\ task'[t].handed.cycle = task[t].handed.cycle

Kept(t) == TypeOK' /\ PhaseInv' /\ OthersCalm(t) /\ TaskInv(t)' /\ Advances(t)

\* Only runs of a batch that drains are at a stage.
LEMMA StageDrains ==
  ASSUME TypeOK, PhaseInv, NEW t \in Tasks, work[t].at \notin {"none", "execute"}
  PROVE  pc = "drain"
BY DEF TypeOK, PhaseInv

\* A step of a run that leaves the tasks calm and goes to a free stage.
LEMMA FreeStep ==
  ASSUME TypeOK, PhaseInv, NEW t \in Tasks, TaskInv(t), Typed, AllCalm,
         WorkTyped, OthersWait(t), work'[t].at \in Free, ~Deploying(t), pc = "drain",
         work'[t].at = "rerun" => work'[t].why \in Reruns,
         UNCHANGED <<main, clock, pc, left, crashed>>, env' \in 0 .. MaxEnv
  PROVE  Kept(t)
<1>1. TypeOK'
  BY DEF TypeOK, Typed, WorkTyped
<1>2. PhaseInv'
  BY DEF PhaseInv
<1>3. OthersCalm(t)
  BY DEF OthersCalm, OthersWait, AllCalm
<1>4. main <= main' /\ clock <= clock'
  BY DEF TypeOK
<1>5. TaskInv(t)'
  BY <1>1, <1>4, FreeKeeps DEF AllCalm
<1>6. Advances(t)
  BY DEF AllCalm, Calm, Advances
<1> QED BY <1>1, <1>2, <1>3, <1>5, <1>6 DEF Kept

\* Any other step of a run that drains.
LEMMA OwnStep ==
  ASSUME TypeOK, PhaseInv, NEW t \in Tasks, Typed, \A u \in Tasks \ {t} : task'[u] = task[u],
         WorkTyped, OthersWait(t), pc = "drain", UNCHANGED <<pc, left, crashed>>,
         main' \in Nat, clock' \in Nat, env' \in 0 .. MaxEnv
  PROVE  TypeOK' /\ PhaseInv' /\ OthersCalm(t)
<1>1. TypeOK'
  BY DEF TypeOK, Typed, WorkTyped
<1>2. PhaseInv'
  BY DEF PhaseInv
<1>3. OthersCalm(t)
  BY CalmSame DEF OthersCalm, OthersWait
<1> QED BY <1>1, <1>2, <1>3

LEMMA SameCalm == ASSUME TypeOK, UNCHANGED task PROVE Typed /\ AllCalm
BY CalmSame DEF TypeOK, Typed, AllCalm

LEMMA GatedKeeps ==
  ASSUME TypeOK, PhaseInv, NEW t \in Tasks, TaskInv(t), Gated(t)
  PROVE  Kept(t)
<1>1. WorkTyped /\ OthersWait(t) /\ work'[t].at = "failing"
  BY FailingEffect DEF Gated, TypeOK, Reasons
<1>2. ~Deploying(t) /\ pc = "drain"
  BY DEF Gated, Executing, At, Deploying
<1> QED BY <1>1, <1>2, FreeStep, SameCalm DEF Gated, TypeOK, Free, Stages

LEMMA ExecuteFailsKeeps ==
  ASSUME TypeOK, PhaseInv, NEW t \in Tasks, TaskInv(t), NEW why \in Failures, ExecuteFails(t, why)
  PROVE  Kept(t)
<1>1. WorkTyped /\ OthersWait(t) /\ work'[t].at = "failing"
  BY FailuresAssumption, FailingEffect DEF ExecuteFails, TypeOK, Reasons
<1>2. ~Deploying(t) /\ pc = "drain"
  BY DEF ExecuteFails, Executing, At, Deploying
<1>3. env' \in 0 .. MaxEnv
  BY MaxEnvAssumption DEF ExecuteFails, Fails, TypeOK
<1> QED BY <1>1, <1>2, <1>3, FreeStep, SameCalm DEF ExecuteFails, Free, Stages

LEMMA FollowsType == ASSUME NEW t \in Tasks PROVE Follows(t) \in Stages
BY DEF Follows, Stages

LEMMA ExecuteSucceedsKeeps ==
  ASSUME TypeOK, PhaseInv, NEW t \in Tasks, TaskInv(t), ExecuteSucceeds(t)
  PROVE  Kept(t)
<1> DEFINE s == [task[t] EXCEPT !.auto = "completed"]
<1>1. task[t] \in TaskStates
  BY DEF TypeOK
<1>2. s \in TaskStates /\ Calm(task[t], s) /\ s.status = task[t].status
  <2>1. s \in TaskStates
    BY <1>1, AutoType DEF Autos
  <2>2. Calm(task[t], s) /\ s.status = task[t].status
    BY <1>1 DEF Calm, TaskStates
  <2> QED BY <2>1, <2>2
<1>3. task' = [task EXCEPT ![t] = s]
  BY DEF ExecuteSucceeds, Set
<1>4. /\ WorkTyped /\ OthersWait(t)
      /\ work'[t].at = Follows(t)
  BY OnEffect, FollowsType DEF ExecuteSucceeds, TypeOK
<1>5. ~Deploying(t) /\ pc = "drain"
  BY DEF ExecuteSucceeds, Executing, At, Deploying
<1> HIDE DEF s
<1>6. Typed /\ AllCalm /\ task'[t] = s
  BY <1>2, <1>3, SetCalm, SetTyped DEF TypeOK
<1>7. UNCHANGED <<main, clock, pc, left, crashed>> /\ env' \in 0 .. MaxEnv
  BY DEF ExecuteSucceeds, TypeOK
<1>8. CASE Follows(t) \in Free
  <2>1. Follows(t) # "rerun"
    BY DEF Follows
  <2> QED BY <1>4, <1>5, <1>6, <1>7, <1>8, <2>1, FreeStep
<1>9. CASE Follows(t) \notin Free
  <2>1. \/ Follows(t) = "developer" /\ task[t].role = "Developer" /\ Open(task[t])
        \/ Follows(t) = "validated" /\ task[t].role = "QA" /\ Open(task[t])
    BY <1>9 DEF Follows, Free, Stages
  <2>2. TypeOK'
    BY <1>4, <1>6, <1>7 DEF TypeOK, Typed, WorkTyped
  <2>3. PhaseInv' /\ OthersCalm(t)
    BY <1>4, <1>5, <1>6, <1>7 DEF PhaseInv, OthersCalm, OthersWait, AllCalm
  <2>4. RoleInv(t)'
    BY <1>2, <1>4, <1>6, <2>1 DEF RoleInv, Calm, Open
  <2>5. CycleInv(t)' /\ DoneInv(t)'
    BY <1>2, <1>4, <1>6, <1>7, <2>1 DEF TaskInv, CycleInv, DoneInv, Calm, Open
  <2>6. LockInv(t)'
    BY <1>2, <1>5, <1>6, <1>7 DEF TaskInv, LockInv, Calm, Held
  <2>7. Advances(t)
    BY <1>2, <1>6 DEF Calm, Advances
  <2> QED BY <2>2, <2>3, <2>4, <2>5, <2>6, <2>7 DEF Kept, TaskInv
<1> QED BY <1>8, <1>9

-----------------------------------------------------------------------------
(* The Developer's stages.                                                 *)

LEMMA LeadCompletesKeeps ==
  ASSUME TypeOK, PhaseInv, NEW t \in Tasks, TaskInv(t), LeadCompletes(t)
  PROVE  Kept(t)
<1> DEFINE a == [task[t] EXCEPT !.auto = "completed"]
           s == [a EXCEPT !.status = "completed"]
<1>1. task[t] \in TaskStates
  BY DEF TypeOK
<1>2. a \in TaskStates
  BY <1>1, AutoType DEF Autos
<1>3. s \in TaskStates
  <2> HIDE DEF a
  <2> QED BY <1>2, StatusType DEF Statuses
<1>4. /\ s.role = task[t].role /\ s.merged = task[t].merged /\ s.deploy = task[t].deploy
      /\ s.handed = task[t].handed /\ s.lock = task[t].lock
  BY <1>1 DEF TaskStates
<1>5. task' = [task EXCEPT ![t] = s]
  BY <1>1 DEF LeadCompletes, Set, TaskStates
<1>6. WorkTyped /\ OthersWait(t) /\ work'[t].at = "lead"
  BY OnEffect DEF LeadCompletes, TypeOK, Stages
<1>7. pc = "drain" /\ ~Deploying(t) /\ task[t].role = "Lead"
  BY DEF LeadCompletes, Executing, At, Deploying
<1>8. /\ UNCHANGED <<main, clock, pc, left, crashed>> /\ main' \in Nat /\ clock' \in Nat
      /\ env' \in 0 .. MaxEnv
  BY MaxEnvAssumption DEF LeadCompletes, Happens, TypeOK
<1> HIDE DEF s
<1>9. Typed /\ task'[t] = s /\ \A u \in Tasks \ {t} : task'[u] = task[u]
  BY <1>3, <1>5, SetTyped DEF TypeOK
<1>10. TypeOK' /\ PhaseInv' /\ OthersCalm(t)
  BY <1>6, <1>7, <1>8, <1>9, OwnStep
<1>11. RoleInv(t)' /\ CycleInv(t)'
  BY <1>4, <1>6, <1>8, <1>9 DEF TaskInv, RoleInv, CycleInv
<1>12. DoneInv(t)'
  BY <1>4, <1>7, <1>9 DEF DoneInv
<1>13. LockInv(t)'
  BY <1>4, <1>7, <1>8, <1>9 DEF TaskInv, LockInv, Held
<1>14. Advances(t)
  BY <1>4, <1>9 DEF Advances
<1> QED BY <1>10, <1>11, <1>12, <1>13, <1>14 DEF Kept, TaskInv

LEMMA SendToReviewKeeps ==
  ASSUME TypeOK, PhaseInv, NEW t \in Tasks, TaskInv(t), SendToReview(t)
  PROVE  Kept(t)
<1> DEFINE a == [task[t] EXCEPT !.status = "in_review"]
           b == [a EXCEPT !.role = "none"]
           s == [b EXCEPT !.review = "pending"]
<1>1. task[t] \in TaskStates
  BY DEF TypeOK
<1>2. a \in TaskStates
  BY <1>1, StatusType DEF Statuses
<1>3. b \in TaskStates
  <2> HIDE DEF a
  <2> QED BY <1>2, RoleType DEF Roles
<1>4. s \in TaskStates
  <2> HIDE DEF b
  <2> QED BY <1>3, ReviewType DEF Reviews
<1>5. /\ s.role = "none" /\ s.status = "in_review"
      /\ s.merged = task[t].merged /\ s.deploy = task[t].deploy
      /\ s.handed = task[t].handed /\ s.lock = task[t].lock
  BY <1>1 DEF TaskStates
<1>6. task' = [task EXCEPT ![t] = s]
  BY <1>1 DEF SendToReview, Set, TaskStates
<1>7. WorkTyped /\ OthersWait(t) /\ work'[t].at = "none"
  BY OnEffect DEF SendToReview, TypeOK, Stages
<1>8. pc = "drain" /\ ~Deploying(t)
  BY StageDrains DEF SendToReview, At, Deploying
<1>9. /\ UNCHANGED <<main, clock, pc, left, crashed>> /\ main' \in Nat /\ clock' \in Nat
      /\ env' \in 0 .. MaxEnv
  BY DEF SendToReview, TypeOK
<1> HIDE DEF s
<1>10. Typed /\ task'[t] = s /\ \A u \in Tasks \ {t} : task'[u] = task[u]
  BY <1>4, <1>6, SetTyped DEF TypeOK
<1>11. TypeOK' /\ PhaseInv' /\ OthersCalm(t)
  BY <1>7, <1>8, <1>9, <1>10, OwnStep
<1>12. RoleInv(t)' /\ CycleInv(t)'
  BY <1>5, <1>7, <1>9, <1>10 DEF TaskInv, RoleInv, CycleInv
<1>13. DoneInv(t)'
  BY <1>5, <1>10 DEF DoneInv
<1>14. LockInv(t)'
  BY <1>5, <1>8, <1>9, <1>10 DEF TaskInv, LockInv, Held
<1>15. Advances(t)
  BY <1>5, <1>10 DEF Advances
<1> QED BY <1>11, <1>12, <1>13, <1>14, <1>15 DEF Kept, TaskInv

LEMMA CheckFreezeKeeps ==
  ASSUME TypeOK, PhaseInv, NEW t \in Tasks, TaskInv(t), CheckFreeze(t)
  PROVE  Kept(t)
<1>1. pc = "drain" /\ ~Deploying(t) /\ work[t].at = "developer"
  BY StageDrains DEF CheckFreeze, At, Deploying
<1>2. /\ UNCHANGED <<task, main, clock, pc, left, crashed>> /\ main' \in Nat /\ clock' \in Nat
      /\ env' \in 0 .. MaxEnv
  BY DEF CheckFreeze, TypeOK
<1>3. Typed /\ AllCalm /\ \A u \in Tasks \ {t} : task'[u] = task[u]
  BY <1>2, SameCalm
<1>4. CASE FrozenFor(t)
  <2>1. WorkTyped /\ OthersWait(t) /\ work'[t].at = "failing"
    BY <1>4, FailingEffect DEF CheckFreeze, TypeOK, Reasons
  <2> QED BY <1>1, <1>2, <1>3, <2>1, FreeStep DEF Free, Stages
<1>5. CASE ~FrozenFor(t)
  <2>1. WorkTyped /\ OthersWait(t) /\ work'[t].at = "merge"
    BY <1>5, OnEffect DEF CheckFreeze, TypeOK, Stages
  <2>2. TypeOK' /\ PhaseInv' /\ OthersCalm(t)
    BY <1>1, <1>2, <1>3, <2>1, OwnStep
  <2>3. TaskInv(t)'
    BY <1>1, <1>2, <2>1 DEF TaskInv, RoleInv, CycleInv, DoneInv, LockInv, Open, Held, Deploying
  <2>4. Advances(t)
    BY <1>2 DEF Advances
  <2> QED BY <2>2, <2>3, <2>4 DEF Kept
<1> QED BY <1>4, <1>5

LEMMA MergeKeeps ==
  ASSUME TypeOK, PhaseInv, NEW t \in Tasks, TaskInv(t), Merge(t)
  PROVE  Kept(t) /\ main <= main' /\ clock <= clock'
<1> DEFINE s == [task[t] EXCEPT !.merged = main + 1]
<1>1. task[t] \in TaskStates /\ main \in Nat /\ clock \in Nat
  BY DEF TypeOK
<1>2. s \in TaskStates
  BY <1>1 DEF TaskStates
<1>3. /\ s.merged = main + 1
      /\ s.role = task[t].role /\ s.status = task[t].status
      /\ s.deploy = task[t].deploy /\ s.handed = task[t].handed /\ s.lock = task[t].lock
  BY <1>1 DEF TaskStates
<1>4. task' = [task EXCEPT ![t] = s]
  BY DEF Merge, Set
<1>5. WorkTyped /\ OthersWait(t) /\ work'[t].at = "handoff"
  BY OnEffect DEF Merge, TypeOK, Stages
<1>6. pc = "drain" /\ ~Deploying(t) /\ work[t].at = "merge"
  BY StageDrains DEF Merge, At, Deploying
<1>7. /\ UNCHANGED <<clock, pc, left, crashed>> /\ main' = main + 1 /\ clock' \in Nat
      /\ env' \in 0 .. MaxEnv
  BY DEF Merge, TypeOK
<1> HIDE DEF s
<1>8. Typed /\ task'[t] = s /\ \A u \in Tasks \ {t} : task'[u] = task[u]
  BY <1>2, <1>4, SetTyped DEF TypeOK
<1>9. TypeOK' /\ PhaseInv' /\ OthersCalm(t)
  BY <1>1, <1>5, <1>6, <1>7, <1>8, OwnStep
<1>10. RoleInv(t)'
  BY <1>3, <1>5, <1>6, <1>8 DEF TaskInv, RoleInv, Open
<1>11. CycleInv(t)'
  BY <1>1, <1>3, <1>5, <1>7, <1>8 DEF TaskInv, CycleInv
<1>12. DoneInv(t)'
  BY <1>3, <1>6, <1>8 DEF TaskInv, RoleInv, DoneInv, Open
<1>13. LockInv(t)'
  BY <1>3, <1>6, <1>7, <1>8 DEF TaskInv, LockInv, Held
<1>14. Advances(t)
  BY <1>3, <1>8 DEF Advances
<1> QED BY <1>1, <1>7, <1>9, <1>10, <1>11, <1>12, <1>13, <1>14 DEF Kept, TaskInv

LEMMA MergeConflictKeeps ==
  ASSUME TypeOK, PhaseInv, NEW t \in Tasks, TaskInv(t), MergeConflict(t)
  PROVE  Kept(t)
<1>1. WorkTyped /\ OthersWait(t) /\ work'[t].at = "failing"
  BY FailingEffect DEF MergeConflict, TypeOK, Reasons, FailureKinds
<1>2. ~Deploying(t) /\ pc = "drain"
  BY StageDrains DEF MergeConflict, At, Deploying
<1>3. env' \in 0 .. MaxEnv
  BY MaxEnvAssumption DEF MergeConflict, Fails, TypeOK
<1> QED BY <1>1, <1>2, <1>3, FreeStep, SameCalm DEF MergeConflict, Free, Stages

LEMMA HandoffKeeps ==
  ASSUME TypeOK, PhaseInv, NEW t \in Tasks, TaskInv(t), Handoff(t)
  PROVE  Kept(t)
<1>1. task[t] \in TaskStates
  BY DEF TypeOK
<1>2. pc = "drain" /\ ~Deploying(t)
  BY StageDrains DEF Handoff, At, Deploying
<1>3. /\ UNCHANGED <<main, clock, pc, left, crashed>> /\ main' \in Nat /\ clock' \in Nat
      /\ env' \in 0 .. MaxEnv
  BY DEF Handoff, TypeOK
<1>4. CASE t \in DeployTasks
  <2> DEFINE a == [task[t] EXCEPT !.role = "Lead"]
             s == [a EXCEPT !.status = "active"]
  <2>1. a \in TaskStates
    BY <1>1, RoleType DEF Roles
  <2>2. s \in TaskStates
    <3> HIDE DEF a
    <3> QED BY <2>1, StatusType DEF Statuses
  <2>3. /\ s.role = "Lead" /\ s.merged = task[t].merged /\ s.deploy = task[t].deploy
        /\ s.handed = task[t].handed /\ s.lock = task[t].lock
    BY <1>1 DEF TaskStates
  <2>4. task' = [task EXCEPT ![t] = s]
    BY <1>1, <1>4 DEF Handoff, Set, TaskStates
  <2>5. WorkTyped /\ OthersWait(t) /\ work'[t].at = "request"
    BY <1>4, OnEffect DEF Handoff, TypeOK, Stages
  <2> HIDE DEF s
  <2>6. Typed /\ task'[t] = s /\ \A u \in Tasks \ {t} : task'[u] = task[u]
    BY <2>2, <2>4, SetTyped DEF TypeOK
  <2>7. TypeOK' /\ PhaseInv' /\ OthersCalm(t)
    BY <1>2, <1>3, <2>5, <2>6, OwnStep
  <2>8. RoleInv(t)' /\ CycleInv(t)' /\ DoneInv(t)'
    BY <1>3, <2>3, <2>5, <2>6 DEF TaskInv, RoleInv, CycleInv, DoneInv
  <2>9. LockInv(t)'
    BY <1>2, <1>3, <2>3, <2>6 DEF TaskInv, LockInv, Held
  <2>10. Advances(t)
    BY <2>3, <2>6 DEF Advances
  <2> QED BY <2>7, <2>8, <2>9, <2>10 DEF Kept, TaskInv
<1>5. CASE t \notin DeployTasks
  <2> DEFINE s == [task[t] EXCEPT !.status = "completed"]
  <2>1. s \in TaskStates
    BY <1>1, StatusType DEF Statuses
  <2>2. /\ s.role = task[t].role /\ s.merged = task[t].merged /\ s.deploy = task[t].deploy
        /\ s.handed = task[t].handed /\ s.lock = task[t].lock
    BY <1>1 DEF TaskStates
  <2>3. task' = [task EXCEPT ![t] = s]
    BY <1>5 DEF Handoff, Set
  <2>4. WorkTyped /\ OthersWait(t) /\ work'[t].at = "dispatch_developers"
    BY <1>5, OnEffect DEF Handoff, TypeOK, Stages
  <2> HIDE DEF s
  <2>5. Typed /\ task'[t] = s /\ \A u \in Tasks \ {t} : task'[u] = task[u]
    BY <2>1, <2>3, SetTyped DEF TypeOK
  <2>6. TypeOK' /\ PhaseInv' /\ OthersCalm(t)
    BY <1>2, <1>3, <2>4, <2>5, OwnStep
  <2>7. RoleInv(t)' /\ CycleInv(t)' /\ DoneInv(t)' /\ LockInv(t)'
    BY <1>3, <1>5, <2>2, <2>4, <2>5 DEF TaskInv, RoleInv, CycleInv, DoneInv, LockInv
  <2>8. Advances(t)
    BY <2>2, <2>5 DEF Advances
  <2> QED BY <2>6, <2>7, <2>8 DEF Kept, TaskInv
<1> QED BY <1>4, <1>5

LEMMA RequestLeadKeeps ==
  ASSUME TypeOK, PhaseInv, NEW t \in Tasks, TaskInv(t), RequestLead(t)
  PROVE  Kept(t)
<1>1. task[t] \in TaskStates
  BY DEF TypeOK
<1>2. /\ Request(task[t], "developer_handoff", {t}) \in TaskStates
      /\ Calm(task[t], Request(task[t], "developer_handoff", {t}))
  BY <1>1, RequestType DEF Sources, Froms
<1>3. Typed /\ AllCalm
  BY <1>2, SetCalm DEF RequestLead, Set, TypeOK
<1>4. WorkTyped /\ OthersWait(t) /\ work'[t].at = "dispatch_lead"
  BY OnEffect DEF RequestLead, TypeOK, Stages
<1>5. ~Deploying(t) /\ pc = "drain"
  BY StageDrains DEF RequestLead, At, Deploying
<1> QED BY <1>3, <1>4, <1>5, FreeStep DEF RequestLead, TypeOK, Free, Stages

LEMMA DispatchLeadKeeps ==
  ASSUME TypeOK, PhaseInv, NEW t \in Tasks, TaskInv(t), DispatchLead(t)
  PROVE  Kept(t)
<1>1. PICK S \in Plans(OfRole("Lead") \ {t}) :
        task' = [u \in Tasks |->
          IF u \in S THEN AgentRequest(Rearmed(task[u]), "developer_handoff", {t})
                     ELSE Rearmed(task[u])]
  BY DEF DispatchLead
<1>2. ASSUME NEW u \in Tasks
      PROVE  task'[u] \in TaskStates /\ Calm(task[u], task'[u])
  <2> DEFINE r == Rearmed(task[u])
  <2>1. task[u] \in TaskStates
    BY DEF TypeOK
  <2>2. r \in TaskStates /\ Calm(task[u], r)
    BY <2>1, RearmedType
  <2>3. task'[u] = IF u \in S THEN AgentRequest(r, "developer_handoff", {t}) ELSE r
    BY <1>1
  <2> HIDE DEF r
  <2>4. /\ AgentRequest(r, "developer_handoff", {t}) \in TaskStates
        /\ Calm(r, AgentRequest(r, "developer_handoff", {t}))
    BY <2>2, AgentRequestType DEF Sources, Froms
  <2>5. Calm(task[u], AgentRequest(r, "developer_handoff", {t}))
    BY <2>1, <2>2, <2>4 DEF Calm, Open
  <2> QED BY <2>2, <2>3, <2>4, <2>5
<1>3. Typed /\ AllCalm
  <2>1. task' = [u \in Tasks |-> task'[u]]
    BY <1>1
  <2> QED BY <1>2, <2>1 DEF Typed, AllCalm
<1>4. WorkTyped /\ OthersWait(t) /\ work'[t].at = "dispatch_developers"
  BY OnEffect DEF DispatchLead, TypeOK, Stages
<1>5. ~Deploying(t) /\ pc = "drain"
  BY StageDrains DEF DispatchLead, At, Deploying
<1> QED BY <1>3, <1>4, <1>5, FreeStep DEF DispatchLead, TypeOK, Free, Stages

LEMMA DispatchDevelopersKeeps ==
  ASSUME TypeOK, PhaseInv, NEW t \in Tasks, TaskInv(t), DispatchDevelopers(t)
  PROVE  Kept(t)
<1>1. Typed /\ AllCalm
  BY DispatchedType DEF DispatchDevelopers, TypeOK, Sources, Froms
<1>2. WorkTyped /\ OthersWait(t) /\ work'[t].at = "none"
  BY OnEffect DEF DispatchDevelopers, TypeOK, Stages
<1>3. ~Deploying(t) /\ pc = "drain"
  BY StageDrains DEF DispatchDevelopers, At, Deploying
<1> QED BY <1>1, <1>2, <1>3, FreeStep DEF DispatchDevelopers, TypeOK, Free, Stages

-----------------------------------------------------------------------------
(* The Lead's and the QA agent's stages.                                   *)

LEMMA LookUpLockKeeps ==
  ASSUME TypeOK, PhaseInv, NEW t \in Tasks, TaskInv(t), LookUpLock(t)
  PROVE  Kept(t) /\ main <= main' /\ clock <= clock'
<1>1. /\ task[t] \in TaskStates /\ work[t] \in Runs
      /\ main \in Nat /\ clock \in Nat
  BY DEF TypeOK
<1>2. pc = "drain" /\ ~Deploying(t) /\ work[t].at = "lead"
  BY StageDrains DEF LookUpLock, At, Deploying
<1>3. UNCHANGED <<task, main, pc, left, env, crashed>> /\ env' \in 0 .. MaxEnv
  BY DEF LookUpLock, TypeOK
<1>4. Typed /\ AllCalm /\ \A u \in Tasks \ {t} : task'[u] = task[u]
  BY <1>3, SameCalm
<1>5. CASE task[t].merged = 0 \/ FrozenFor(t)
  <2>1. WorkTyped /\ OthersWait(t) /\ work'[t].at = "failing"
    BY <1>5, FailingEffect DEF LookUpLock, TypeOK, Reasons, FailureKinds
  <2>2. UNCHANGED clock
    BY <1>5 DEF LookUpLock
  <2> QED BY <1>1, <1>2, <1>3, <1>4, <2>1, <2>2, FreeStep DEF Free, Stages
<1>6. CASE ~(task[t].merged = 0 \/ FrozenFor(t))
  <2> DEFINE stage == IF Held(t) THEN "deploy" ELSE "lock"
             a == [work[t] EXCEPT !.at = stage]
             r == [a EXCEPT !.n = clock + 1]
  <2>1. a \in Runs /\ a.at = stage
    BY <1>1 DEF Runs, Stages
  <2>2. r \in Runs /\ r.at = stage /\ r.n = clock + 1
    <3> HIDE DEF a
    <3> QED BY <1>1, <2>1 DEF Runs
  <2>3. clock' = clock + 1 /\ work' = [work EXCEPT ![t] = r]
    BY <1>1, <1>6 DEF LookUpLock, Runs
  <2> HIDE DEF r
  <2>4. /\ WorkTyped /\ OthersWait(t)
        /\ work'[t].at = stage /\ work'[t].n = clock + 1
    BY <2>2, <2>3 DEF WorkTyped, OthersWait, TypeOK
  <2>5. TypeOK' /\ PhaseInv' /\ OthersCalm(t)
    BY <1>1, <1>2, <1>3, <1>4, <2>3, <2>4, OwnStep
  <2>6. RoleInv(t)' /\ DoneInv(t)'
    BY <1>3, <2>4 DEF TaskInv, RoleInv, DoneInv
  <2>7. CycleInv(t)'
    <3>1. /\ task[t].merged \in Nat /\ task[t].handed.n \in Nat
          /\ task[t].handed.cycle \in Nat /\ task[t].lock.n \in Nat
      BY <1>1 DEF TaskStates, Deploys
    <3>2. /\ task[t].merged > 0 /\ task[t].handed.n <= clock
          /\ task[t].lock.n <= clock /\ task[t].handed.cycle <= task[t].lock.n
      BY <1>6, <3>1 DEF TaskInv, CycleInv
    <3>3. stage \in {"lock", "deploy"} /\ (stage = "deploy" /\ t \in DeployTasks => crashed)
      BY <1>2 DEF TaskInv, LockInv
    <3> HIDE DEF stage
    <3> QED BY <1>1, <1>3, <2>3, <2>4, <3>1, <3>2, <3>3 DEF TaskInv, CycleInv
  <2>8. LockInv(t)'
    BY <1>2, <1>3 DEF TaskInv, LockInv, Held
  <2>9. Advances(t)
    BY <1>3 DEF Advances
  <2> QED BY <1>1, <1>3, <2>3, <2>5, <2>6, <2>7, <2>8, <2>9 DEF Kept, TaskInv
<1> QED BY <1>5, <1>6

LEMMA AcquireLockKeeps ==
  ASSUME TypeOK, PhaseInv, NEW t \in Tasks, TaskInv(t), AcquireLock(t)
  PROVE  Kept(t)
<1> DEFINE s == [task[t] EXCEPT !.lock = [st |-> "held", n |-> work[t].n]]
<1>1. task[t] \in TaskStates /\ work[t] \in Runs
  BY DEF TypeOK
<1>2. s \in TaskStates
  BY <1>1, LockType DEF Locks, Runs
<1>3. /\ s.role = task[t].role /\ s.status = task[t].status /\ s.merged = task[t].merged
      /\ s.deploy = task[t].deploy /\ s.handed = task[t].handed /\ s.lock.n = work[t].n
      /\ task[t].handed.cycle \in Nat /\ task[t].lock.n \in Nat /\ work[t].n \in Nat
  BY <1>1 DEF TaskStates, Deploys, Runs
<1>4. task' = [task EXCEPT ![t] = s]
  BY DEF AcquireLock, Set
<1>5. /\ WorkTyped /\ OthersWait(t)
      /\ work'[t].at = "deploy" /\ work'[t].n = work[t].n
  BY OnEffect DEF AcquireLock, TypeOK, Stages
<1>6. pc = "drain" /\ work[t].at = "lock"
  BY StageDrains DEF AcquireLock, At
<1>7. /\ UNCHANGED <<main, clock, pc, left, crashed>> /\ main' \in Nat /\ clock' \in Nat
      /\ env' \in 0 .. MaxEnv
  BY DEF AcquireLock, TypeOK
<1> HIDE DEF s
<1>8. Typed /\ task'[t] = s /\ \A u \in Tasks \ {t} : task'[u] = task[u]
  BY <1>2, <1>4, SetTyped DEF TypeOK
<1>9. TypeOK' /\ PhaseInv' /\ OthersCalm(t)
  BY <1>5, <1>6, <1>7, <1>8, OwnStep
<1>10. RoleInv(t)' /\ DoneInv(t)'
  BY <1>3, <1>5, <1>8 DEF TaskInv, RoleInv, DoneInv
<1>11. CycleInv(t)'
  BY <1>3, <1>5, <1>6, <1>7, <1>8 DEF TaskInv, CycleInv
<1>12. LockInv(t)'
  BY <1>5 DEF LockInv, Deploying
<1>13. Advances(t)
  BY <1>3, <1>8 DEF Advances
<1> QED BY <1>9, <1>10, <1>11, <1>12, <1>13 DEF Kept, TaskInv

LEMMA DeployFailsKeeps ==
  ASSUME TypeOK, PhaseInv, NEW t \in Tasks, TaskInv(t), DeployFails(t)
  PROVE  Kept(t)
<1> DEFINE d == Deployed(t, FALSE)
           a == [task[t] EXCEPT !.deploy = d]
           s == Unlocked(a)
<1>1. task[t] \in TaskStates /\ work[t] \in Runs /\ main \in Nat
  BY DEF TypeOK
<1>2. d \in Deploys
  BY <1>1 DEF Deployed, Deploys, TaskStates, Runs
<1>3. a \in TaskStates /\ a.role = task[t].role /\ a.status = task[t].status
      /\ a.merged = task[t].merged /\ a.handed = task[t].handed /\ a.lock = task[t].lock
  <2> HIDE DEF d
  <2>1. a \in TaskStates
    BY <1>1, <1>2, DeployType
  <2>2. /\ a.role = task[t].role /\ a.status = task[t].status
        /\ a.merged = task[t].merged /\ a.handed = task[t].handed /\ a.lock = task[t].lock
    BY <1>1 DEF TaskStates
  <2> QED BY <2>1, <2>2
<1>4. /\ s \in TaskStates
      /\ s.role = task[t].role /\ s.status = task[t].status /\ s.merged = task[t].merged
      /\ s.handed = task[t].handed /\ s.lock.st = "released" /\ s.lock.n = task[t].lock.n
  <2> HIDE DEF a
  <2>1. s \in TaskStates
    BY <1>3, LockStateType DEF Unlocked
  <2>2. s.role = a.role /\ s.status = a.status /\ s.merged = a.merged /\ s.handed = a.handed
    BY <1>3 DEF Unlocked, TaskStates
  <2>3. s.lock.st = "released" /\ s.lock.n = task[t].lock.n
    BY <1>3 DEF Unlocked, TaskStates
  <2> QED BY <1>3, <2>1, <2>2, <2>3
<1>5. task' = [task EXCEPT ![t] = s]
  BY DEF DeployFails, Set
<1>6. WorkTyped /\ OthersWait(t) /\ work'[t].at = "failing"
  BY FailingEffect DEF DeployFails, TypeOK, Reasons, FailureKinds
<1>7. pc = "drain" /\ t \in DeployTasks
  BY StageDrains DEF DeployFails, At
<1>8. /\ UNCHANGED <<main, clock, pc, left, crashed>> /\ main' \in Nat /\ clock' \in Nat
      /\ env' \in 0 .. MaxEnv
  BY MaxEnvAssumption DEF DeployFails, Fails, TypeOK
<1> HIDE DEF s
<1>9. Typed /\ task'[t] = s /\ \A u \in Tasks \ {t} : task'[u] = task[u]
  BY <1>4, <1>5, SetTyped DEF TypeOK
<1>10. TypeOK' /\ PhaseInv' /\ OthersCalm(t)
  BY <1>6, <1>7, <1>8, <1>9, OwnStep
<1>11. RoleInv(t)' /\ DoneInv(t)'
  BY <1>4, <1>6, <1>9 DEF TaskInv, RoleInv, DoneInv
<1>12. CycleInv(t)'
  BY <1>4, <1>6, <1>7, <1>8, <1>9 DEF TaskInv, CycleInv
<1>13. LockInv(t)'
  BY <1>4, <1>9 DEF LockInv, Held
<1>14. Advances(t)
  BY <1>4, <1>9 DEF Advances
<1> QED BY <1>10, <1>11, <1>12, <1>13, <1>14 DEF Kept, TaskInv

LEMMA DeployKeeps ==
  ASSUME TypeOK, PhaseInv, NEW t \in Tasks, TaskInv(t), Deploy(t)
  PROVE  Kept(t)
<1>1. task[t] \in TaskStates /\ work[t] \in Runs /\ main \in Nat
  BY DEF TypeOK
<1>2. /\ WorkTyped /\ OthersWait(t)
      /\ work'[t].at = "qa_handoff" /\ work'[t].n = work[t].n
  BY OnEffect DEF Deploy, TypeOK, Stages
<1>3. pc = "drain" /\ work[t].at = "deploy"
  BY StageDrains DEF Deploy, At
<1>4. /\ UNCHANGED <<main, clock, pc, left, crashed>> /\ main' \in Nat /\ clock' \in Nat
      /\ env' \in 0 .. MaxEnv
  BY DEF Deploy, TypeOK
<1>5. CASE t \in DeployTasks
  <2> DEFINE d == Deployed(t, TRUE)
             s == [task[t] EXCEPT !.deploy = d]
  <2>1. d \in Deploys
    BY <1>1 DEF Deployed, Deploys, TaskStates, Runs
  <2>2. s \in TaskStates
    <3> HIDE DEF d
    <3> QED BY <1>1, <2>1, DeployType
  <2>3. /\ s.role = task[t].role /\ s.status = task[t].status /\ s.merged = task[t].merged
        /\ s.handed = task[t].handed /\ s.lock = task[t].lock /\ s.deploy = d
        /\ d.n = work[t].n /\ d.cycle = task[t].lock.n /\ d.main = main /\ d.ok
    BY <1>1 DEF Deployed, TaskStates
  <2>4. task' = [task EXCEPT ![t] = s]
    BY <1>5 DEF Deploy, Set
  <2> HIDE DEF d, s
  <2>5. Typed /\ task'[t] = s /\ \A u \in Tasks \ {t} : task'[u] = task[u]
    BY <2>2, <2>4, SetTyped DEF TypeOK
  <2>6. TypeOK' /\ PhaseInv' /\ OthersCalm(t)
    BY <1>2, <1>3, <1>4, <2>5, OwnStep
  <2>7. RoleInv(t)' /\ DoneInv(t)'
    BY <1>2, <2>3, <2>5 DEF TaskInv, RoleInv, DoneInv
  <2>8. CycleInv(t)'
    BY <1>2, <1>3, <1>4, <1>5, <2>3, <2>5 DEF TaskInv, CycleInv
  <2>9. LockInv(t)'
    BY <1>2 DEF LockInv, Deploying
  <2>10. Advances(t)
    BY <2>3, <2>5 DEF Advances
  <2> QED BY <2>6, <2>7, <2>8, <2>9, <2>10 DEF Kept, TaskInv
<1>6. CASE t \notin DeployTasks
  <2>1. UNCHANGED task
    BY <1>6 DEF Deploy
  <2>2. Typed /\ \A u \in Tasks \ {t} : task'[u] = task[u]
    BY <2>1, SameCalm
  <2>3. TypeOK' /\ PhaseInv' /\ OthersCalm(t)
    BY <1>2, <1>3, <1>4, <2>2, OwnStep
  <2>4. RoleInv(t)' /\ DoneInv(t)' /\ LockInv(t)'
    BY <1>2, <1>6, <2>1 DEF RoleInv, DoneInv, LockInv
  <2>5. CycleInv(t)'
    BY <1>2, <1>3, <1>4, <1>6, <2>1 DEF TaskInv, CycleInv
  <2>6. Advances(t)
    BY <2>1 DEF Advances
  <2> QED BY <2>3, <2>4, <2>5, <2>6 DEF Kept, TaskInv
<1> QED BY <1>5, <1>6

LEMMA QaHandoffKeeps ==
  ASSUME TypeOK, PhaseInv, NEW t \in Tasks, TaskInv(t), QaHandoff(t)
  PROVE  Kept(t)
<1>1. task[t] \in TaskStates /\ work[t] \in Runs /\ main \in Nat /\ clock \in Nat
  BY DEF TypeOK
<1>2. pc = "drain" /\ work[t].at = "qa_handoff"
  BY StageDrains DEF QaHandoff, At
<1>3. /\ UNCHANGED <<main, clock, pc, left, crashed>> /\ main' \in Nat /\ clock' \in Nat
      /\ env' \in 0 .. MaxEnv
  BY DEF QaHandoff, TypeOK
<1>4. CASE Strict(task[t].deploy)
  <2> DEFINE a == [task[t] EXCEPT !.role = "QA"]
             b == [a EXCEPT !.status = "active"]
             c == [b EXCEPT !.handed = task[t].deploy]
             s == Request(c, "lead_handoff", {t})
  <2>1. a \in TaskStates
    BY <1>1, RoleType DEF Roles
  <2>2. b \in TaskStates
    <3> HIDE DEF a
    <3> QED BY <2>1, StatusType DEF Statuses
  <2>3. c \in TaskStates
    <3>1. task[t].deploy \in Deploys
      BY <1>1 DEF TaskStates
    <3> HIDE DEF b
    <3> QED BY <2>2, <3>1 DEF TaskStates
  <2>4. /\ c.role = "QA" /\ c.handed = task[t].deploy /\ c.lock = task[t].lock
        /\ c.merged = task[t].merged /\ c.deploy = task[t].deploy
    BY <1>1 DEF TaskStates
  <2>5. task' = [task EXCEPT ![t] = s]
    <3>1. [task[t] EXCEPT !.role = "QA", !.status = "active", !.handed = task[t].deploy] = c
      BY <1>1 DEF TaskStates
    <3> QED BY <1>4, <3>1 DEF QaHandoff, Set
  <2> HIDE DEF c
  <2>6. s \in TaskStates /\ Calm(c, s)
    BY <2>3, RequestType DEF Sources, Froms
  <2> HIDE DEF s
  <2>7. /\ s.role = "QA" /\ s.handed = task[t].deploy /\ s.lock.n = task[t].lock.n
        /\ s.merged = task[t].merged /\ s.deploy = task[t].deploy
    BY <2>4, <2>6 DEF Calm
  <2>8. WorkTyped /\ OthersWait(t) /\ work'[t].at = "release"
    BY <1>4, OnEffect DEF QaHandoff, TypeOK, Stages
  <2>9. Typed /\ task'[t] = s /\ \A u \in Tasks \ {t} : task'[u] = task[u]
    BY <2>5, <2>6, SetTyped DEF TypeOK
  <2>10. TypeOK' /\ PhaseInv' /\ OthersCalm(t)
    BY <1>2, <1>3, <2>8, <2>9, OwnStep
  <2>11. RoleInv(t)' /\ LockInv(t)'
    BY <2>8 DEF RoleInv, LockInv, Deploying
  <2>12. t \in DeployTasks
    BY <1>4 DEF TaskInv, CycleInv, Strict, NoDeploy
  <2>13. /\ task[t].merged > 0 /\ work[t].n > task[t].handed.n /\ work[t].n <= clock
         /\ task[t].deploy.n = work[t].n /\ task[t].merged <= task[t].deploy.main
         /\ task[t].merged <= main /\ task[t].lock.n <= clock
         /\ task[t].deploy.cycle = task[t].lock.n /\ task[t].handed.cycle <= task[t].lock.n
         /\ crashed \/ task[t].handed.cycle < task[t].lock.n
    BY <1>2, <2>12 DEF TaskInv, CycleInv
  <2>14. /\ task[t].merged \in Nat /\ task[t].deploy.main \in Nat
         /\ task[t].handed.cycle \in Nat /\ task[t].lock.n \in Nat
    BY <1>1 DEF TaskStates, Deploys
  <2>15. CycleInv(t)'
    BY <1>3, <2>7, <2>8, <2>9, <2>12, <2>13, <2>14 DEF CycleInv
  <2>16. DoneInv(t)'
    BY <1>4, <2>7, <2>9, <2>13, <2>14 DEF DoneInv
  <2>17. /\ task'[t].handed.n > task[t].handed.n
         /\ \/ task'[t].handed.cycle > task[t].handed.cycle
            \/ crashed /\ task'[t].handed.cycle = task[t].handed.cycle
    BY <2>7, <2>9, <2>13, <2>14
  <2>18. Advances(t)
    BY <2>17 DEF Advances
  <2> QED BY <2>10, <2>11, <2>15, <2>16, <2>18 DEF Kept, TaskInv
<1>5. CASE ~Strict(task[t].deploy)
  <2>1. t \notin DeployTasks
    <3>1. work[t].n \in Nat /\ task[t].handed.n \in Nat
      BY <1>1 DEF TaskStates, Deploys, Runs
    <3> QED BY <1>2, <1>5, <3>1 DEF TaskInv, CycleInv, Strict
  <2>2. WorkTyped /\ OthersWait(t) /\ work'[t].at = "failing" /\ UNCHANGED task
    BY <1>5, FailingEffect DEF QaHandoff, TypeOK, Reasons, FailureKinds
  <2>3. Typed /\ \A u \in Tasks \ {t} : task'[u] = task[u]
    BY <2>2, SameCalm
  <2>4. TypeOK' /\ PhaseInv' /\ OthersCalm(t)
    BY <1>2, <1>3, <2>2, <2>3, OwnStep
  <2>5. RoleInv(t)' /\ DoneInv(t)' /\ LockInv(t)'
    BY <2>1, <2>2 DEF RoleInv, DoneInv, LockInv
  <2>6. CycleInv(t)'
    BY <1>3, <2>2 DEF TaskInv, CycleInv
  <2>7. Advances(t)
    BY <2>2 DEF Advances
  <2> QED BY <2>4, <2>5, <2>6, <2>7 DEF Kept, TaskInv
<1> QED BY <1>4, <1>5

LEMMA ReleaseLockKeeps ==
  ASSUME TypeOK, PhaseInv, NEW t \in Tasks, TaskInv(t), ReleaseLock(t)
  PROVE  Kept(t)
<1> DEFINE a == [task[t] EXCEPT !.status = "active"]
           s == Unlocked(a)
<1>1. task[t] \in TaskStates
  BY DEF TypeOK
<1>2. a \in TaskStates /\ a.lock = task[t].lock
  <2>1. a \in TaskStates
    BY <1>1, StatusType DEF Statuses
  <2> QED BY <1>1, <2>1 DEF TaskStates
<1>3. s \in TaskStates
  <2> HIDE DEF a
  <2> QED BY <1>2, LockStateType DEF Unlocked
<1>4. /\ s.role = task[t].role /\ s.merged = task[t].merged /\ s.deploy = task[t].deploy
      /\ s.handed = task[t].handed /\ s.status = "active"
      /\ s.lock.st = "released" /\ s.lock.n = task[t].lock.n
  BY <1>1 DEF Unlocked, TaskStates
<1>5. task' = [task EXCEPT ![t] = s]
  BY DEF ReleaseLock, Set
<1>6. WorkTyped /\ OthersWait(t) /\ work'[t].at = "none"
  BY OnEffect DEF ReleaseLock, TypeOK, Stages
<1>7. pc = "drain"
  BY StageDrains DEF ReleaseLock, At
<1>8. /\ UNCHANGED <<main, clock, pc, left, crashed>> /\ main' \in Nat /\ clock' \in Nat
      /\ env' \in 0 .. MaxEnv
  BY DEF ReleaseLock, TypeOK
<1> HIDE DEF s
<1>9. Typed /\ task'[t] = s /\ \A u \in Tasks \ {t} : task'[u] = task[u]
  BY <1>3, <1>5, SetTyped DEF TypeOK
<1>10. TypeOK' /\ PhaseInv' /\ OthersCalm(t)
  BY <1>6, <1>7, <1>8, <1>9, OwnStep
<1>11. RoleInv(t)' /\ CycleInv(t)'
  BY <1>4, <1>6, <1>8, <1>9 DEF TaskInv, RoleInv, CycleInv
<1>12. DoneInv(t)' /\ LockInv(t)'
  BY <1>4, <1>9 DEF TaskInv, DoneInv, LockInv, Held
<1>13. Advances(t)
  BY <1>4, <1>9 DEF Advances
<1> QED BY <1>10, <1>11, <1>12, <1>13 DEF Kept, TaskInv

LEMMA QaCompletesKeeps ==
  ASSUME TypeOK, PhaseInv, NEW t \in Tasks, TaskInv(t), QaCompletes(t)
  PROVE  Kept(t)
<1> DEFINE s == [task[t] EXCEPT !.status = "completed"]
<1>1. task[t] \in TaskStates
  BY DEF TypeOK
<1>2. s \in TaskStates
  BY <1>1, StatusType DEF Statuses
<1>3. /\ s.role = task[t].role /\ s.merged = task[t].merged /\ s.deploy = task[t].deploy
      /\ s.handed = task[t].handed /\ s.lock = task[t].lock
  BY <1>1 DEF TaskStates
<1>4. task' = [task EXCEPT ![t] = s]
  BY DEF QaCompletes, Set
<1>5. WorkTyped /\ OthersWait(t) /\ work'[t].at = "dispatch_developers"
  BY OnEffect DEF QaCompletes, TypeOK, Stages
<1>6. pc = "drain" /\ ~Deploying(t) /\ work[t].at = "validated"
  BY StageDrains DEF QaCompletes, At, Deploying
<1>7. /\ UNCHANGED <<main, clock, pc, left, crashed>> /\ main' \in Nat /\ clock' \in Nat
      /\ env' \in 0 .. MaxEnv
  BY DEF QaCompletes, TypeOK
<1> HIDE DEF s
<1>8. Typed /\ task'[t] = s /\ \A u \in Tasks \ {t} : task'[u] = task[u]
  BY <1>2, <1>4, SetTyped DEF TypeOK
<1>9. TypeOK' /\ PhaseInv' /\ OthersCalm(t)
  BY <1>5, <1>6, <1>7, <1>8, OwnStep
<1>10. RoleInv(t)' /\ CycleInv(t)'
  BY <1>3, <1>5, <1>7, <1>8 DEF TaskInv, RoleInv, CycleInv
<1>11. DoneInv(t)'
  BY <1>3, <1>6, <1>8 DEF TaskInv, RoleInv, DoneInv
<1>12. LockInv(t)'
  BY <1>3, <1>6, <1>7, <1>8 DEF TaskInv, LockInv, Held
<1>13. Advances(t)
  BY <1>3, <1>8 DEF Advances
<1> QED BY <1>9, <1>10, <1>11, <1>12, <1>13 DEF Kept, TaskInv

-----------------------------------------------------------------------------
(* Failures.                                                               *)

LEMMA DeferKeeps ==
  ASSUME TypeOK, PhaseInv, NEW t \in Tasks, TaskInv(t), Defer(t)
  PROVE  Kept(t)
<1> DEFINE a == [task[t] EXCEPT !.auto = "completed"]
           s == [a EXCEPT !.gate = GateOf(t)]
<1>1. task[t] \in TaskStates
  BY DEF TypeOK
<1>2. a \in TaskStates
  BY <1>1, AutoType DEF Autos
<1>3. s \in TaskStates
  <2> HIDE DEF a
  <2> QED BY <1>2, GateOfType, GateType
<1>4. Calm(task[t], s)
  BY <1>1 DEF TaskStates, Calm
<1>5. task' = [task EXCEPT ![t] = s]
  BY <1>1 DEF Defer, Set, TaskStates
<1> HIDE DEF s
<1>6. Typed /\ AllCalm
  BY <1>3, <1>4, <1>5, SetCalm DEF TypeOK
<1>7. WorkTyped /\ OthersWait(t) /\ work'[t].at = "none"
  BY OnEffect DEF Defer, TypeOK, Stages
<1>8. ~Deploying(t) /\ pc = "drain"
  BY StageDrains DEF Defer, At, Deploying
<1> QED BY <1>6, <1>7, <1>8, FreeStep DEF Defer, TypeOK, Free, Stages

LEMMA RetryKeeps ==
  ASSUME TypeOK, PhaseInv, NEW t \in Tasks, TaskInv(t), Retry(t)
  PROVE  Kept(t)
<1>1. task[t] \in TaskStates
  BY DEF TypeOK
<1>2. /\ Request(task[t], "recover", {}) \in TaskStates
      /\ Calm(task[t], Request(task[t], "recover", {}))
  BY <1>1, RequestType DEF Sources, Froms
<1>3. Typed /\ AllCalm
  BY <1>2, SetCalm DEF Retry, Set, TypeOK
<1>4. WorkTyped /\ OthersWait(t) /\ work'[t].at = "none"
  BY OnEffect DEF Retry, TypeOK, Stages
<1>5. ~Deploying(t) /\ pc = "drain"
  BY StageDrains DEF Retry, At, Deploying
<1> QED BY <1>3, <1>4, <1>5, FreeStep DEF Retry, TypeOK, Free, Stages

LEMMA RerunIds ==
  ASSUME NEW src \in Reruns
  PROVE  FirstId(src) \in DerivedIds /\ RetryId(src) \in DerivedIds /\ src \in Sources
BY DEF Reruns, FirstId, RetryId, DerivedIds, Sources

LEMMA RerunSourceType ==
  ASSUME NEW s, NEW why
  PROVE  RerunSource(s, why) \in Reruns \union {"none"}
BY DEF RerunSource, Reruns

\* What Reroute makes of the task: on its way to an agent or a human, or as it was.
Rerouted(t) ==
  LET s == task[t]
      why == work[t].why
      src == RerunSource(s, why)
      back == [s EXCEPT !.role = "Developer", !.status = "active"]
  IN CASE src # "none" -> Command(back, FirstId(src), src)
       [] s.role = "Developer" /\ why = "frozen" -> back
       [] why = "exhausted" -> [s EXCEPT !.status = "awaiting"]
       [] s.role \in {"Developer", "QA"} /\ why # "exhausted"
            -> [s EXCEPT !.role = "Lead", !.status = "blocked"]
       [] OTHER -> s

\* A task in another agent's hands that is not completed.
Passed(s, u) ==
  /\ u.merged = s.merged /\ u.deploy = s.deploy /\ u.handed = s.handed /\ u.lock = s.lock
  /\ \/ u.role = "Developer" /\ u.status = "active"
     \/ u.role = "Lead"
     \/ u.role = s.role /\ u.status \in {s.status, "awaiting"}

LEMMA ReroutedType ==
  ASSUME TypeOK, NEW t \in Tasks
  PROVE  Rerouted(t) \in TaskStates /\ Passed(task[t], Rerouted(t))
<1> DEFINE s == task[t]
           why == work[t].why
           src == RerunSource(s, why)
           a == [s EXCEPT !.role = "Developer"]
           back == [a EXCEPT !.status = "active"]
           b == [s EXCEPT !.role = "Lead"]
           led == [b EXCEPT !.status = "blocked"]
           held == [s EXCEPT !.status = "awaiting"]
<1>1. s \in TaskStates
  BY DEF TypeOK
<1>2. back \in TaskStates /\ led \in TaskStates /\ held \in TaskStates
  <2>1. a \in TaskStates /\ b \in TaskStates
    BY <1>1, RoleType DEF Roles
  <2>2. held \in TaskStates
    BY <1>1, StatusType DEF Statuses
  <2> HIDE DEF a, b
  <2> QED BY <2>1, <2>2, StatusType DEF Statuses
<1>3. /\ back.role = "Developer" /\ back.status = "active"
      /\ Passed(s, back) /\ Passed(s, led) /\ Passed(s, held) /\ Passed(s, s)
  BY <1>1 DEF TaskStates, Passed
<1>4. /\ [s EXCEPT !.role = "Developer", !.status = "active"] = back
      /\ [s EXCEPT !.role = "Lead", !.status = "blocked"] = led
  BY <1>1 DEF TaskStates
<1>5. src \in Reruns \union {"none"}
  BY RerunSourceType
<1>6. ASSUME src # "none"
      PROVE  /\ Command(back, FirstId(src), src) \in TaskStates
             /\ Passed(s, Command(back, FirstId(src), src))
  <2> HIDE DEF back, src
  <2>1. /\ Command(back, FirstId(src), src) \in TaskStates
        /\ Calm(back, Command(back, FirstId(src), src))
    BY <1>2, <1>5, <1>6, CommandType, RerunIds
  <2>2. Command(back, FirstId(src), src).lock = back.lock
    BY <1>2 DEF Command, AgentRequest, Request, TaskStates
  <2> QED BY <1>3, <2>1, <2>2 DEF Calm, Passed
<1>7. Rerouted(t) = CASE src # "none" -> Command(back, FirstId(src), src)
       [] s.role = "Developer" /\ why = "frozen" -> back
       [] why = "exhausted" -> held
       [] s.role \in {"Developer", "QA"} /\ why # "exhausted" -> led
       [] OTHER -> s
  BY <1>4 DEF Rerouted
<1> HIDE DEF s, why, src, back, led, held
<1>8. Rerouted(t) \in TaskStates /\ Passed(s, Rerouted(t))
  BY <1>1, <1>2, <1>3, <1>6, <1>7
<1> QED BY <1>8 DEF s

LEMMA RerouteKeeps ==
  ASSUME TypeOK, PhaseInv, NEW t \in Tasks, TaskInv(t), Reroute(t)
  PROVE  Kept(t)
<1> DEFINE s == Rerouted(t)
           why == CASE RerunSource(task[t], work[t].why) # "none"
                         -> RerunSource(task[t], work[t].why)
                    [] work[t].why = "exhausted" /\ task[t].role \in {"Developer", "QA"} -> "exhausted"
                    [] OTHER -> "none"
           a == [work[t] EXCEPT !.at = "failed"]
           r == [a EXCEPT !.why = why]
<1>1. task[t] \in TaskStates /\ work[t] \in Runs
  BY DEF TypeOK
<1>2. s \in TaskStates /\ Passed(task[t], s)
  BY ReroutedType
<1>3. task' = [task EXCEPT ![t] = s]
  BY DEF Reroute, Rerouted, Set
<1>4. a \in Runs /\ a.at = "failed"
  BY <1>1 DEF Runs, Stages
<1>5. r \in Runs /\ r.at = "failed"
  <2>1. why \in Reasons
    BY RerunSourceType DEF Reasons, FailureKinds
  <2> HIDE DEF a, why
  <2> QED BY <1>4, <2>1 DEF Runs
<1>6. work' = [work EXCEPT ![t] = r]
  <2>1. work' = [work EXCEPT ![t].at = "failed", ![t].why = why]
    BY DEF Reroute
  <2> HIDE DEF why
  <2> QED BY <1>1, <2>1 DEF Runs, TypeOK
<1> HIDE DEF s, r
<1>7. WorkTyped /\ OthersWait(t) /\ work'[t].at = "failed"
  BY <1>5, <1>6 DEF WorkTyped, OthersWait, TypeOK
<1>8. pc = "drain" /\ ~Deploying(t)
  BY StageDrains DEF Reroute, At, Deploying
<1>9. /\ UNCHANGED <<main, clock, pc, left, crashed>> /\ main' \in Nat /\ clock' \in Nat
      /\ env' \in 0 .. MaxEnv
  BY DEF Reroute, TypeOK
<1>10. Typed /\ task'[t] = s /\ \A u \in Tasks \ {t} : task'[u] = task[u]
  BY <1>2, <1>3, SetTyped DEF TypeOK
<1>11. TypeOK' /\ PhaseInv' /\ OthersCalm(t)
  BY <1>7, <1>8, <1>9, <1>10, OwnStep
<1>12. RoleInv(t)' /\ CycleInv(t)'
  BY <1>2, <1>7, <1>9, <1>10 DEF TaskInv, RoleInv, CycleInv, Passed
<1>13. DoneInv(t)'
  BY <1>2, <1>10 DEF TaskInv, DoneInv, Passed
<1>14. LockInv(t)'
  BY <1>2, <1>8, <1>9, <1>10 DEF TaskInv, LockInv, Held, Passed
<1>15. Advances(t)
  BY <1>2, <1>10 DEF Advances, Passed
<1> QED BY <1>11, <1>12, <1>13, <1>14, <1>15 DEF Kept, TaskInv

LEMMA RecordOutcomeKeeps ==
  ASSUME TypeOK, PhaseInv, NEW t \in Tasks, TaskInv(t), RecordOutcome(t)
  PROVE  Kept(t)
<1> DEFINE x == IF work[t].why = "lead_triage_return" THEN "completed" ELSE "failed"
           stage == CASE work[t].why \in Reruns -> "rerun"
                      [] work[t].why = "exhausted" -> "escalate"
                      [] OTHER -> "none"
           a == [task[t] EXCEPT !.gate = "none"]
           s == [a EXCEPT !.auto = x]
<1>1. task[t] \in TaskStates
  BY DEF TypeOK
<1>2. a \in TaskStates
  BY <1>1, GateType DEF Gates
<1>3. s \in TaskStates
  <2>1. x \in Autos
    BY DEF Autos
  <2> HIDE DEF a, x
  <2> QED BY <1>2, <2>1, AutoType
<1>4. Calm(task[t], s)
  BY <1>1 DEF TaskStates, Calm
<1>5. task' = [task EXCEPT ![t] = s] /\ On(t, stage)
  BY <1>1 DEF RecordOutcome, Set, TaskStates
<1> HIDE DEF s
<1>6. Typed /\ AllCalm
  BY <1>3, <1>4, <1>5, SetCalm DEF TypeOK
<1>7. stage \in Free /\ stage \in Stages /\ (stage = "rerun" => work[t].why \in Reruns)
  BY DEF Free, Stages
<1> HIDE DEF stage
<1>8. /\ WorkTyped /\ OthersWait(t)
      /\ work'[t].at = stage /\ (stage # "none" => work'[t].why = work[t].why)
  BY <1>5, <1>7, OnEffect DEF TypeOK
<1>9. ~Deploying(t) /\ pc = "drain"
  BY StageDrains DEF RecordOutcome, At, Deploying
<1> QED BY <1>6, <1>7, <1>8, <1>9, FreeStep DEF RecordOutcome, TypeOK

LEMMA RerunKeeps ==
  ASSUME TypeOK, PhaseInv, NEW t \in Tasks, TaskInv(t), Rerun(t)
  PROVE  Kept(t)
<1> DEFINE src == work[t].why
           s == Command(task[t], RetryId(src), src)
<1>1. task[t] \in TaskStates
  BY DEF TypeOK
<1>2. task' = [task EXCEPT ![t] = s]
  BY DEF Rerun, Set
<1>3. src \in Reruns
  BY DEF Rerun, At, TaskInv, RoleInv
<1> HIDE DEF src
<1>4. s \in TaskStates /\ Calm(task[t], s)
  BY <1>1, <1>3, CommandType, RerunIds
<1> HIDE DEF s
<1>5. Typed /\ AllCalm
  BY <1>2, <1>4, SetCalm DEF TypeOK
<1>6. WorkTyped /\ OthersWait(t) /\ work'[t].at = "none"
  BY OnEffect DEF Rerun, TypeOK, Stages
<1>7. ~Deploying(t) /\ pc = "drain"
  BY StageDrains DEF Rerun, At, Deploying
<1> QED BY <1>5, <1>6, <1>7, FreeStep DEF Rerun, TypeOK, Free, Stages

LEMMA EscalateKeeps ==
  ASSUME TypeOK, PhaseInv, NEW t \in Tasks, TaskInv(t), Escalate(t)
  PROVE  Kept(t)
<1>1. ASSUME NEW u \in Tasks
      PROVE  task'[u] \in TaskStates /\ Calm(task[u], task'[u])
  <2>1. task[u] \in TaskStates
    BY DEF TypeOK
  <2>2. \/ task'[u] = Request(task[u], "blocker_escalation", {t})
        \/ task'[u] = task[u]
    BY DEF Escalate
  <2> QED BY <2>1, <2>2, RequestType, CalmSame DEF Sources, Froms
<1>2. Typed /\ AllCalm
  <2>1. task' = [u \in Tasks |-> task'[u]]
    BY DEF Escalate
  <2> QED BY <1>1, <2>1 DEF Typed, AllCalm
<1>3. WorkTyped /\ OthersWait(t) /\ work'[t].at = "none"
  BY OnEffect DEF Escalate, TypeOK, Stages
<1>4. ~Deploying(t) /\ pc = "drain"
  BY StageDrains DEF Escalate, At, Deploying
<1> QED BY <1>2, <1>3, <1>4, FreeStep DEF Escalate, TypeOK, Free, Stages

-----------------------------------------------------------------------------
(* The steps of the environment and of the loop.                           *)

\* What every step keeps.
AllKept == TypeOK' /\ PhaseInv' /\ \A u \in Tasks : TaskInv(u)' /\ Advances(u)

\* A step of a run keeps the invariant of the other tasks too.
LEMMA KeptByAll ==
  ASSUME TypeOK, \A u \in Tasks : TaskInv(u), NEW t \in Tasks, Kept(t),
         main <= main', clock <= clock', crashed => crashed'
  PROVE  AllKept
<1>1. ASSUME NEW u \in Tasks \ {t}
      PROVE  TaskInv(u)' /\ Advances(u)
  <2>1. Calm(task[u], task'[u]) /\ work'[u] = work[u] /\ TypeOK'
    BY DEF Kept, OthersCalm
  <2>2. TaskInv(u)'
    BY <2>1, CalmKeeps
  <2>3. Advances(u)
    BY <2>1 DEF Calm, Advances
  <2> QED BY <2>2, <2>3
<1> QED BY <1>1 DEF Kept, AllKept

\* A step that leaves the tasks calm and no run moves by.
LEMMA QuietStep ==
  ASSUME IInv, Typed, AllCalm, UNCHANGED <<main, clock, work, crashed>>, env' \in 0 .. MaxEnv,
         left' \subseteq Tasks, pc' \in {"startup", "happy", "claim", "drain", "closeout"},
         pc' = "drain" \/ pc # "drain" \/ \A t \in Tasks : work[t].at = "none"
  PROVE  AllKept
<1>1. TypeOK'
  BY DEF IInv, TypeOK, Typed
<1>2. PhaseInv'
  BY DEF IInv, PhaseInv
<1>3. main <= main' /\ clock <= clock'
  BY DEF IInv, TypeOK
<1>4. \A u \in Tasks : TaskInv(u)'
  BY <1>1, <1>3, CalmKeeps DEF IInv, AllCalm
<1>5. \A u \in Tasks : Advances(u)
  BY DEF AllCalm, Calm, Advances
<1> QED BY <1>1, <1>2, <1>4, <1>5 DEF AllKept

LEMMA ReviewKeeps ==
  ASSUME IInv, NEW t \in Tasks, NEW decision \in {"approved", "changes_requested"}, Review(t, decision)
  PROVE  AllKept
<1> DEFINE a == [task[t] EXCEPT !.status = "active"]
           b == [a EXCEPT !.role = "Developer"]
           c == [b EXCEPT !.review = decision]
           d == [c EXCEPT !.gate = "none"]
           s == Request(d, "review", {})
<1>0. TypeOK /\ PhaseInv /\ TaskInv(t)
  BY DEF IInv
<1>1. task[t] \in TaskStates /\ task[t].status = "in_review"
  BY <1>0 DEF TypeOK, Review
<1>2. a \in TaskStates
  BY <1>1, StatusType DEF Statuses
<1>3. b \in TaskStates
  <2> HIDE DEF a
  <2> QED BY <1>2, RoleType DEF Roles
<1>4. c \in TaskStates
  <2> HIDE DEF b
  <2> QED BY <1>3, ReviewType DEF Reviews
<1>5. d \in TaskStates
  <2> HIDE DEF c
  <2> QED BY <1>4, GateType DEF Gates
<1>6. /\ d.role = "Developer" /\ d.status = "active"
      /\ d.merged = task[t].merged /\ d.deploy = task[t].deploy
      /\ d.handed = task[t].handed /\ d.lock = task[t].lock
  BY <1>1 DEF TaskStates
<1>7. task' = [task EXCEPT ![t] = s]
  <2>1. [task[t] EXCEPT !.status = "active", !.role = "Developer", !.review = decision,
                        !.gate = "none"] = d
    BY <1>1 DEF TaskStates
  <2> QED BY <1>0, <2>1 DEF Review, TypeOK
<1> HIDE DEF d
<1>8. s \in TaskStates /\ Calm(d, s)
  BY <1>5, RequestType DEF Sources, Froms
<1>9. s.lock = d.lock
  BY <1>5 DEF Request, TaskStates
<1> HIDE DEF s
<1>10. Typed /\ task'[t] = s /\ \A u \in Tasks \ {t} : task'[u] = task[u]
  BY <1>0, <1>7, <1>8, SetTyped DEF TypeOK
<1>11. /\ UNCHANGED <<main, clock, pc, left, work, crashed>>
       /\ env' \in 0 .. MaxEnv
  BY <1>0, MaxEnvAssumption DEF Review, Happens, TypeOK
<1>12. TypeOK' /\ PhaseInv'
  BY <1>0, <1>10, <1>11 DEF TypeOK, Typed, PhaseInv
<1>13. OthersCalm(t)
  BY <1>10, <1>11, CalmSame DEF OthersCalm
<1>14. RoleInv(t)'
  BY <1>0, <1>1, <1>6, <1>8, <1>10, <1>11 DEF TaskInv, RoleInv, Calm, Open
<1>15. CycleInv(t)'
  BY <1>0, <1>6, <1>8, <1>10, <1>11 DEF TaskInv, CycleInv, Calm
<1>16. DoneInv(t)'
  BY <1>6, <1>8, <1>10 DEF DoneInv, Calm
<1>17. LockInv(t)'
  BY <1>0, <1>6, <1>9, <1>10, <1>11 DEF TaskInv, LockInv, Held, Deploying
<1>18. Advances(t)
  BY <1>6, <1>8, <1>10 DEF Calm, Advances
<1>19. main <= main' /\ clock <= clock'
  BY <1>0, <1>11 DEF TypeOK
<1> QED
  BY <1>0, <1>11, <1>12, <1>13, <1>14, <1>15, <1>16, <1>17, <1>18, <1>19, KeptByAll
     DEF Kept, TaskInv, IInv

LEMMA CloseoutKeeps ==
  ASSUME IInv, NEW t \in Tasks, Closeout(t)
  PROVE  AllKept
<1> DEFINE s == [task[t] EXCEPT !.status = "completed"]
<1>0. TypeOK /\ PhaseInv /\ TaskInv(t)
  BY DEF IInv
<1>1. task[t] \in TaskStates
  BY <1>0 DEF TypeOK
<1>2. s \in TaskStates
  BY <1>1, StatusType DEF Statuses
<1>3. /\ s.role = task[t].role /\ s.merged = task[t].merged /\ s.deploy = task[t].deploy
      /\ s.handed = task[t].handed /\ s.lock = task[t].lock
  BY <1>1 DEF TaskStates
<1>4. task' = [task EXCEPT ![t] = s]
  BY DEF Closeout
<1> HIDE DEF s
<1>5. Typed /\ task'[t] = s /\ \A u \in Tasks \ {t} : task'[u] = task[u]
  BY <1>0, <1>2, <1>4, SetTyped DEF TypeOK
<1>6. UNCHANGED <<main, clock, pc, left, work, env, crashed>>
  BY DEF Closeout
<1>7. work[t].at \in {"none", "execute"} /\ task[t].role = "QA"
  BY <1>0 DEF Closeout, PhaseInv
<1>8. TypeOK' /\ PhaseInv'
  BY <1>0, <1>5, <1>6 DEF TypeOK, Typed, PhaseInv
<1>9. OthersCalm(t)
  BY <1>5, <1>6, CalmSame DEF OthersCalm
<1>10. RoleInv(t)' /\ CycleInv(t)'
  BY <1>0, <1>3, <1>5, <1>6, <1>7 DEF TaskInv, RoleInv, CycleInv
<1>11. DoneInv(t)'
  BY <1>0, <1>3, <1>5, <1>7 DEF TaskInv, DoneInv
<1>12. LockInv(t)'
  BY <1>0, <1>3, <1>5, <1>6 DEF TaskInv, LockInv, Held, Deploying
<1>13. Advances(t)
  BY <1>3, <1>5 DEF Advances
<1>14. main <= main' /\ clock <= clock'
  BY <1>0, <1>6 DEF TypeOK
<1> QED
  BY <1>0, <1>6, <1>8, <1>9, <1>10, <1>11, <1>12, <1>13, <1>14, KeptByAll DEF Kept, TaskInv, IInv

LEMMA ClaimKeeps ==
  ASSUME IInv, NEW t \in Tasks, Claim(t)
  PROVE  AllKept
<1> DEFINE r == [NoRun EXCEPT !.at = "execute"]
<1>0. TypeOK /\ PhaseInv /\ TaskInv(t)
  BY DEF IInv
<1>1. Typed /\ AllCalm
  BY <1>0, ClaimCalm
<1>2. r \in Runs /\ r.at = "execute"
  BY DEF NoRun, Runs, Stages, Reasons
<1>3. work' = [work EXCEPT ![t] = r]
  BY DEF Claim
<1> HIDE DEF r
<1>4. WorkTyped /\ OthersWait(t) /\ work'[t].at = "execute"
  BY <1>0, <1>2, <1>3 DEF WorkTyped, OthersWait, TypeOK
<1>5. pc = "claim" /\ left' \subseteq Tasks /\ UNCHANGED <<main, clock, pc, env, crashed>>
  BY <1>0 DEF Claim, TypeOK
<1>6. TypeOK'
  BY <1>0, <1>1, <1>4, <1>5 DEF TypeOK, Typed, WorkTyped
<1>7. PhaseInv' /\ ~Deploying(t)
  BY <1>0, <1>4, <1>5 DEF PhaseInv, OthersWait, Deploying
<1>8. main <= main' /\ clock <= clock'
  BY <1>0, <1>5 DEF TypeOK
<1>9. TaskInv(t)'
  BY <1>0, <1>1, <1>4, <1>5, <1>6, <1>7, <1>8, FreeKeeps DEF AllCalm, Free, Stages
<1>10. OthersCalm(t) /\ Advances(t)
  BY <1>1, <1>4 DEF AllCalm, OthersWait, OthersCalm, Calm, Advances
<1> QED BY <1>0, <1>5, <1>6, <1>7, <1>8, <1>9, <1>10, KeptByAll DEF Kept, IInv

LEMMA CrashKeeps ==
  ASSUME IInv, Crash
  PROVE  AllKept
<1>0. TypeOK
  BY DEF IInv
<1>1. Typed /\ AllCalm
  BY <1>0, SameCalm DEF Crash
<1>2. env' \in 0 .. MaxEnv /\ crashed' = TRUE /\ UNCHANGED <<task, main, clock>>
  BY <1>0, MaxEnvAssumption DEF Crash, Happens, TypeOK
<1>3. \A u \in Tasks : work'[u] = NoRun /\ work'[u].at = "none"
  BY DEF Crash, NoRun
<1>4. TypeOK'
  BY <1>0, <1>1, <1>2, NoRunType DEF Crash, TypeOK, Typed
<1>5. PhaseInv'
  BY <1>3 DEF PhaseInv
<1>6. main <= main' /\ clock <= clock'
  BY <1>0, <1>2 DEF TypeOK
<1>7. \A u \in Tasks : TaskInv(u)'
  BY <1>0, <1>1, <1>2, <1>3, <1>4, <1>6, FreeKeeps DEF IInv, AllCalm, Free, Stages
<1>8. \A u \in Tasks : Advances(u)
  BY <1>2 DEF Advances
<1> QED BY <1>4, <1>5, <1>7, <1>8 DEF AllKept

-----------------------------------------------------------------------------
(* The invariant and the theorems.                                         *)

LEMMA RunKeeps ==
  ASSUME IInv, NEW t \in Tasks, Run(t)
  PROVE  AllKept
<1>0. TypeOK /\ PhaseInv /\ TaskInv(t) /\ \A u \in Tasks : TaskInv(u)
  BY DEF IInv
<1>1. main \in Nat /\ clock \in Nat
  BY <1>0 DEF TypeOK
<1>2. crashed => crashed'
  BY DEF Run, Gated, ExecuteFails, ExecuteSucceeds, LeadCompletes, SendToReview, CheckFreeze, Merge,
         MergeConflict, Handoff, RequestLead, DispatchLead, DispatchDevelopers, LookUpLock,
         AcquireLock, Deploy, DeployFails, QaHandoff, ReleaseLock, QaCompletes, Defer, Retry,
         Reroute, RecordOutcome, Rerun, Escalate
<1>3. CASE Merge(t)
  BY <1>0, <1>2, <1>3, MergeKeeps, KeptByAll
<1>4. CASE LookUpLock(t)
  BY <1>0, <1>2, <1>4, LookUpLockKeeps, KeptByAll
<1>5. CASE Run(t) /\ ~Merge(t) /\ ~LookUpLock(t)
  <2>1. UNCHANGED <<main, clock>>
    BY <1>5
    DEF Run, Gated, ExecuteFails, ExecuteSucceeds, LeadCompletes, SendToReview, CheckFreeze,
        MergeConflict, Handoff, RequestLead, DispatchLead, DispatchDevelopers,
        AcquireLock, Deploy, DeployFails, QaHandoff, ReleaseLock, QaCompletes, Defer, Retry,
        Reroute, RecordOutcome, Rerun, Escalate
  <2>2. Kept(t)
    BY <1>0, <1>5, GatedKeeps, ExecuteFailsKeeps, ExecuteSucceedsKeeps, LeadCompletesKeeps,
       SendToReviewKeeps, CheckFreezeKeeps, MergeConflictKeeps, HandoffKeeps, RequestLeadKeeps,
       DispatchLeadKeeps, DispatchDevelopersKeeps, AcquireLockKeeps, DeployKeeps, DeployFailsKeeps,
       QaHandoffKeeps, ReleaseLockKeeps, QaCompletesKeeps, DeferKeeps, RetryKeeps, RerouteKeeps,
       RecordOutcomeKeeps, RerunKeeps, EscalateKeeps
    DEF Run
  <2>3. main <= main' /\ clock <= clock'
    BY <1>1, <2>1
  <2> QED BY <1>0, <1>2, <2>2, <2>3, KeptByAll
<1> QED BY <1>3, <1>4, <1>5

LEMMA StepKeeps ==
  ASSUME IInv, [Next]_vars
  PROVE  AllKept
<1>0. TypeOK /\ PhaseInv
  BY DEF IInv
<1>1. CASE Kickoff
  BY <1>0, <1>1, KickoffCalm, QuietStep DEF Kickoff, TypeOK
<1>2. ASSUME NEW t \in Tasks, HumanRequest(t) PROVE AllKept
  <2>1. env' \in 0 .. MaxEnv
    BY <1>0, <1>2, MaxEnvAssumption DEF HumanRequest, Happens, TypeOK
  <2> QED BY <1>0, <1>2, <2>1, HumanRequestCalm, QuietStep DEF HumanRequest, TypeOK
<1>3. ASSUME NEW t \in Tasks, Cool(t) PROVE AllKept
  BY <1>0, <1>3, CoolCalm, QuietStep DEF Cool, TypeOK
<1>4. ASSUME NEW t \in Tasks, Expire(t) PROVE AllKept
  <2>1. env' \in 0 .. MaxEnv
    BY <1>0, <1>4, MaxEnvAssumption DEF Expire, Happens, TypeOK
  <2> QED BY <1>0, <1>4, <2>1, ExpireCalm, QuietStep DEF Expire, TypeOK
<1>5. ASSUME NEW t \in Tasks, Recover(t) PROVE AllKept
  BY <1>0, <1>5, RecoverCalm, QuietStep DEF Recover, TypeOK
<1>6. CASE HappyPath
  BY <1>0, <1>6, HappyPathCalm, QuietStep DEF HappyPath, TypeOK
<1>7. CASE EndStartup \/ EndCloseout \/ EndScan \/ EndBatch \/ \E t \in Tasks : Pass(t)
  <2>1. UNCHANGED <<task, main, clock, work, env, crashed>>
    BY <1>7 DEF EndStartup, EndCloseout, EndScan, EndBatch, Pass
  <2>2. left' \subseteq Tasks /\ pc' \in {"startup", "happy", "claim", "drain", "closeout"}
    BY <1>0, <1>7 DEF EndStartup, EndCloseout, EndScan, EndBatch, Pass, TypeOK
  <2>3. pc' = "drain" \/ pc # "drain" \/ \A t \in Tasks : work[t].at = "none"
    BY <1>7 DEF EndStartup, EndCloseout, EndScan, EndBatch, Pass, NoRun
  <2> QED BY <1>0, <2>1, <2>2, <2>3, SameCalm, QuietStep DEF TypeOK
<1>8. CASE UNCHANGED vars
  <2>1. UNCHANGED <<task, main, clock, work, env, crashed, pc, left>>
    BY <1>8 DEF vars
  <2> QED BY <1>0, <2>1, SameCalm, QuietStep DEF TypeOK
<1> QED
  BY <1>1, <1>2, <1>3, <1>4, <1>5, <1>6, <1>7, <1>8, ReviewKeeps, CloseoutKeeps, ClaimKeeps,
     CrashKeeps, RunKeeps
  DEF Next, Tick

LEMMA InitInv == Init => IInv
<1> SUFFICES ASSUME Init PROVE IInv
  OBVIOUS
<1>1. NewTask \in TaskStates
  BY DEF NewTask, TaskStates, NoDeploy, Deploys, Roles, Sources, Gates, DerivedIds
<1>2. TypeOK
  <2>1. task \in [Tasks -> TaskStates] /\ work \in [Tasks -> Runs]
    BY <1>1, NoRunType DEF Init
  <2>2. main \in Nat /\ clock \in Nat /\ env \in 0 .. MaxEnv
    BY MaxEnvAssumption DEF Init
  <2>3. /\ pc \in {"startup", "happy", "claim", "drain", "closeout"}
        /\ left \subseteq Tasks /\ crashed \in BOOLEAN
    BY DEF Init
  <2> QED BY <2>1, <2>2, <2>3 DEF TypeOK
<1>3. /\ \A t \in Tasks : work[t].at = "none" /\ task[t] = NewTask
      /\ main = 0 /\ clock = 0
  BY DEF Init, NoRun
<1>4. PhaseInv
  BY <1>3 DEF PhaseInv
<1>5. ASSUME NEW t \in Tasks PROVE TaskInv(t)
  <2>1. /\ task[t].merged = 0 /\ task[t].handed.n = 0 /\ task[t].deploy = NoDeploy
        /\ task[t].handed.cycle = 0 /\ task[t].lock.n = 0
        /\ task[t].role = "Developer" /\ task[t].status = "todo" /\ task[t].lock.st = "none"
    <3>1. /\ NewTask.merged = 0 /\ NewTask.handed.n = 0 /\ NewTask.deploy = NoDeploy
          /\ NewTask.handed.cycle = 0 /\ NewTask.lock.n = 0
          /\ NewTask.role = "Developer" /\ NewTask.status = "todo" /\ NewTask.lock.st = "none"
      BY DEF NewTask, NoDeploy
    <3> QED BY <1>3, <3>1
  <2> QED BY <1>3, <2>1 DEF TaskInv, RoleInv, CycleInv, DoneInv, LockInv, Held
<1> QED BY <1>2, <1>4, <1>5 DEF IInv

LEMMA Invariant == Spec => []IInv
<1>1. IInv /\ [Next]_vars => IInv'
  BY StepKeeps DEF AllKept, IInv
<1> QED BY <1>1, InitInv, PTL DEF Spec

\* Every task stays in a state the workflow knows, and so do the runs: the
\* runner's gates, requests and recording functions.
THEOREM TypeCorrect == Spec => []TypeOK
<1>1. IInv => TypeOK
  BY DEF IInv
<1> QED BY <1>1, Invariant, PTL

\* However reviews, reruns, rework, crashes, closeouts and two Leads'
\* deploys interleave, a task that needs a deploy is completed by QA only with a
\* healthy deploy that contains its last merge.
THEOREM CompletedDeployed == Spec => []CompletedWasDeployed
<1>1. IInv => CompletedWasDeployed
  <2> SUFFICES ASSUME IInv, NEW t \in DeployTasks, task[t].status = "completed", task[t].role # "Lead"
               PROVE  Strict(task[t].handed) /\ task[t].merged \in 1 .. task[t].handed.main
    BY DEF CompletedWasDeployed
  <2>1. t \in Tasks /\ task[t] \in TaskStates
    BY DeployTasksAssumption DEF IInv, TypeOK
  <2>2. task[t].role \in Roles
    BY <2>1 DEF TaskStates
  <2>3. DoneInv(t)
    BY <2>1 DEF IInv, TaskInv
  <2> QED BY <2>2, <2>3 DEF DoneInv, Roles
<1> QED BY <1>1, Invariant, PTL

\* As long as the process lives, a deploy lock in force is one that a run
\* deploys under: every exit of the deploy releases it.
THEOREM LocksAttended == Spec => []LockIsAttended
<1>1. IInv => LockIsAttended
  BY DeployTasksAssumption DEF IInv, TaskInv, LockInv, LockIsAttended
<1> QED BY <1>1, Invariant, PTL

\* Every handoff to QA carries a later deploy, and a deploy cycle QA has not
\* seen, unless the process died and a lock it left was used again.
THEOREM CyclesOnlyAdvance == Spec => CyclesAdvance
<1>1. IInv /\ [Next]_vars =>
        [\A t \in Tasks : task'[t].handed # task[t].handed =>
           /\ task'[t].handed.n > task[t].handed.n
           /\ \/ task'[t].handed.cycle > task[t].handed.cycle
              \/ crashed /\ task'[t].handed.cycle = task[t].handed.cycle]_vars
  BY StepKeeps DEF AllKept, Advances
<1> QED BY <1>1, Invariant, PTL DEF Spec, CyclesAdvance

=============================================================================
