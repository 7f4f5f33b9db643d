# constructos: TLA+ models, checks and proofs

This directory models the concurrent core of the constructos task app
(`src/app`): how commands become events, how events become rows and wake-ups,
how the agent runner claims and executes tasks, how Team Mode carries them to a
deploy, how a project's tasks are created and deleted together, how changes are
analysed in the background, and how live output reaches the browser. TLC checks the modules
on small instances; TLAPS proves the safety properties of all of them for every
instance.

`PROJECT.json` maps every definition to the lines it translates, lists the
runs, the fault variants that break each checked property, the findings, the
hazards and the theorems. Definitions commented as *fault variant* are those
deliberately wrong versions; no specification uses them.

    tlc -workers 2 -config StreamBroker.cfg MCStreamBroker
    tlapm AutomationRunner_proofs.tla

## 1. The system

One process (FastAPI, `src/app/main.py`) with many threads, an event store
(KurrentDB), a Postgres read model, and agent CLIs run as subprocesses.

| Part | State | Operations | Talks to |
|---|---|---|---|
| Command execution (`shared/commanding.py`, `deps.py`) | `CommandExecution` rows | look up the id, run the handler with retries on conflict, insert the record | handlers, SQL session |
| Event store and aggregates (`shared/aggregates.py`, `eventing.py`, `eventing_rebuild.py`, `eventing_store.py`) | one stream per aggregate, one snapshot stream each | load (snapshot, then events), append with expected version, snapshot every n | Kurrent |
| SQL read model (`eventing_projections.py`, write-through in `eventing.py`) | one row per aggregate | write-through with the call's transaction; worker of a persistent subscription: project, ack, nack | Kurrent, Postgres |
| Realtime (`shared/realtime.py`, `notifications/api.py`) | channels queued in a session, subscriber queues, SSE cursors | queue, publish on commit, subscribe, read rows after the cursor, send | session hooks, browser |
| Automation runner (`features/agents/runner.py`) | task fields rebuilt from events; a loop thread with a batch of runs | recover stale runs, queue due schedules, claim, execute, record success or failure, retry | event store, agent CLIs |
| Status-change triggers (`eventing_task_automation_triggers.py`) | pending counts in tasks | request automation of other tasks when a task changes status | inside `append_event` |
| Team Mode (`plugins/team_mode`) | roles, phases, delivery evidence, deploy lock, kickoff sessions | dispatch, handoff, gates, kickoff (which pumps the runner itself) | runner |
| Stream broker (`in_memory_stream_broker.py`) with chat and task live output (`agents/api.py`, `tasks/api.py`) | one broker object per key: event deque, subscriber queues, run id, done | create, publish, finish, subscribe with replay, poll | worker threads, HTTP readers |
| Chat sessions and stop (`agents/api.py`) | cancel events by run, the run and the stop flag of a stream key, the stored messages | post a message, stream, finalize, stop | broker, agent CLIs, browser |
| Tasks and projects (`tasks/command_handlers.py`, `projects/command_handlers.py`) | task and project streams and rows, dependencies, tag index | create, patch, bulk actions, delete a project with its tasks | command execution, Postgres |
| Event-storming analysis (`eventing_event_storming.py`) | job rows, advisory lock per project, runs with content hashes, links in the graph | enqueue, claim, analyse, retry, recover, backfill | Kurrent, Postgres, graph database |
| Graph and vector projections; notifications; bootstrap cache; provider login; doctor; frontend; command-line tools | see `PROJECT.json`, components | | |

What is hard here, and what each part has to get right:

- *Command execution and event store*: optimistic concurrency with retries,
  appends that outlive a failed SQL commit, records written after the fact. A
  command decides on the state its event follows; an answer is true; a retry of
  something known to be done does nothing.
- *SQL read model*: two writers of the same row (the call and the worker), redelivery,
  nacks. When all is quiet the row is the replay of the stream.
- *Realtime*: hooks that run for SAVEPOINTs too, a cursor read before the
  subscription, bounded queues. No client is left behind.
- *Runner*: several pumps claim the same tasks; recording an outcome is several
  appends that interleave with requests and triggers; crash and stale recovery;
  retries. One claim per request, limits respected, nothing running for ever,
  nothing queued for ever.
- *Stream broker*: replay and live queue joined outside one lock, runs replaced
  under a reader. No gap, no duplicate, every stream ends.
- *Team Mode*: a lease-based lock in the read model, handoffs, gates that
  requeue. What is completed was deployed; work is not lost between roles; no lock
  stays.
- *Chat*: three threads finish one run, stop flags outlive runs. An answer belongs to
  its run, a stop is obeyed, one message is stored.
- *Tasks and projects*: commands over several streams that list rows and append to
  streams, retried as a whole, while transactions lock rows. A deletion is complete,
  a plan has no cycle, nobody waits for ever.
- *Analysis*: jobs claimed by several processes, recovered while they still run, locks that
  belong to connections. One analysis per project, and links of the current content.

## 2. Modules

| Module | Models | Lines of the code |
|---|---|---|
| `StreamBroker` | the broker for one key, its publishers and resuming readers | `in_memory_stream_broker.py`, readers in `agents/api.py` |
| `AutomationRunner` | the runner on the tasks of a project, requests, triggers | `agents/runner.py`, `tasks/command_handlers.py`, `eventing_task_automation_triggers.py` |
| `SerialStreams` | what the write path promises of the event streams | abstract |
| `CommandPath` | the write path; implements `SerialStreams` | `commanding.py`, `deps.py`, `aggregates.py`, `eventing.py`, `eventing_rebuild.py` |
| `ReadModel` | the row of one aggregate, write-through against worker | `eventing.py`, `eventing_projections.py` |
| `Realtime` | sessions, hub and SSE streams of one workspace | `realtime.py`, `eventing.py`, `notifications/api.py` |
| `TeamMode` | a project's tasks from Developer to Lead to QA, with the deploy lock | `agents/runner.py`, `plugins/team_mode`, `tasks/command_handlers.py` |
| `ChatSession` | the runs of one chat session and their stops | `agents/api.py`, the client's `miscMutations.ts` |
| `ProjectTasks` | the tasks of one specification under overlapping commands | `tasks/command_handlers.py`, `projects/command_handlers.py`, `eventing.py`, `eventing_rebuild.py` |
| `AnalysisQueue` | the event-storming job queue and its workers | `eventing_event_storming.py` |
| `..._proofs` | theorems about each of these (section 4); those about `ReadModel` stand at the end of `ProjectTasks_proofs` | |
| `MC...` | instances for TLC | |

The modules meet where one is a step of another: a command of `ProjectTasks` or a
handler in `AutomationRunner` is a request of `CommandPath`; what `AutomationRunner` does in
several appends is one step of `TeamMode`, which is about what happens between
runs; `ChatSession` keeps of the broker that `StreamBroker` details only whose run it is,
whether it is done and the final events; `ProjectTasks` has several rows and locks where
`ReadModel` has one row and redelivery.

### StreamBroker
`create_run` replaces the dictionary entry, so broker objects are numbered and
`run` is the current one; a reader keeps the run it asked for (`want`). The
deque is the interval `first .. nextSeq-1`. `publish_event` is two kinds of
steps, the append under the lock and one put per subscriber after it, which is
what makes order and completeness interesting. A reader first yields its
replay, then the queue, and on a timeout polls `current_state` (`TimeOut`,
`CheckState`), as the generators do.

### AutomationRunner
A task is `[auto, src, sched, pending, retries]`, the fields of the rebuilt state
that the runner reads; `Apply` is `apply_task_event`. In Kurrent mode every
append is visible at once, so a handler that appends several events is a *plan*
computed from the state it read, appended one by one, with everyone else in
between. A pump is a thread in `run_queued_automation_once`: the loop, or a
kickoff request (`api_kickoff.py:618`). `claim[p].fresh` stands for the
comparison of the version read with the stream's version. Executions are opaque:
any run may succeed or fail in one of four ways (recoverable, transient,
deferred by a gate, other), any append may raise (`Faults`), the process may
die (`Crash`), and users and triggers request tasks at any moment.
For the tasks of `Wordless` the instruction may come out empty after Started has been
appended: `_claim_queued_task` then returns no run, and the task stays running in no batch
until stale recovery finds it (`ClaimWordless`). A gate that defers a scheduled run appends
Completed and leaves the schedule as it is.
The tick order recover, queue due, scan is the loop's.

Left out: progress patches, the kickoff hold-off, the scan's window (all tasks
of the instance fit), requests by agents (allowed a subset of what users may
do), the Team Mode branches of the recording functions, batches executed
without a thread pool (`AGENT_RUNNER_MAX_CONCURRENCY` of 1, where an escaping
exception abandons the rest of the batch), two loops after a quick stop and
start.

### CommandPath and SerialStreams
A request is a call of `execute_command`, with its command id, its intent
(command and user) and the streams its handler appends to. Steps: look up the
record; load the snapshot; read the events after it; append (first event of an
aggregate with the version loaded, further ones with whatever version
is found); snapshot; commit; insert the record. An append may succeed and be
reported as failed, a commit may raise, the process may die. A snapshot is made in the four steps of
`maybe_snapshot`: load the newest snapshot, replay the events after it, read the position of
the snapshot stream, append there; the append is refused if that stream has moved on since its
position was read, and any failure is swallowed. Two calls can therefore store an older state after a
newer one. The state rebuilt
from a stream is the sequence of events applied, so a wrong fold cannot hide.
`SerialStreams` says that an event was decided on everything before it (further events of
the same command excepted), and that nothing is acknowledged that is not in
the streams. The refinement maps an event to the length of the state its
handler had, and the acknowledged set to the requests answered with success.

### ReadModel
`log[n]` is the set of fields event n touches and the row (`columns`) holds for each field
the event that wrote it, so any lost or reordered write shows. `append_event` is `AppendToLog`; the
call's write-through takes effect at its commit or never (`WriteLost`); the worker takes
delivered events, applies, acks in batches, nacks on failure. Any event may fail any
number of times, so nothing but the give-up rule (`MaxRetries`) gets an event
acknowledged that cannot be projected. Delivery and acks
of the persistent subscription are external, modelled as the worker relies on
them: in order, except that nacked events come again and unacknowledged events
come again after a reconnect.

### Realtime
A change is an event's effect on the read model, with an `ActivityLog` row of the project
the client shows (`view`) or of another (`elsewhere`), a `Notification` row (`notice`) or
none of these (`silent`), numbered at insertion, visible at commit. `AppendEvent` includes what
SQLAlchemy does at the release of the write-through's SAVEPOINT: it runs the
`after_commit` hook. A stream reads its two starting cursors (`Connect`: the latest row, or the
row the client names), subscribes, flushes, then waits, wakes, reads a page of each feed, and
sends. A signal is a commit's or that of a provider's sign-in; only if a round has sent nothing
does a commit's signal send an empty refresh. The client fetches its views for a refresh and for a row
of the project it shows; it answers a notification, another project's row and a sign-in
otherwise. `told` is the history of what the stream owes no more to its client: what was
visible at the subscription and is not after its cursors (left to the client's own first
fetch), a row sent, and everything visible whenever the client fetches. `hushed` is the history of
the changes whose last signal sent other events and so no refresh. Left out: the
refresh after a change of the user's own row (one more fetch), and that the client drops a
fetch within 1.2 s of its last.

### TeamMode
A task is the part of its rebuilt state that the workflow decides on: status, role,
automation state and request source, merges, deploys, lock record, handoff, review,
and which derived command ids were already used (`DerivedIds`: a request under a used
id is answered from the record and does nothing). One loop claims a
batch, runs it and closes it out; each run goes through the gates, the agent, and the
recording of its role: merge or human review and handoff to the Lead, or lock, merge, deploy
and handoff to QA, or validation. Between the look-up of a lock and the writing of the own
one, between merge steps, and between deploy and handoff others may step in. The
environment may request, review, complete, crash, make a deploy slower than its lease.
A lock record is identified by its deploy cycle; a deploy has besides the execution it was made
in (`n`), because a Lead that finds a lock of its own task in force deploys under it and
its cycle again.
The second pump of a kickoff is left to `AutomationRunner`, so two Leads never look for a lock
at once here; structural dependencies between tasks (with them the Lead's handoff to a QA task of
its own, `hands_off_to`) and the evidence an agent has to print are left out.

### ChatSession
A POST creates a broker run, registers its cancel event, clears the stop flag of the key and
starts a worker and a finalizer thread, in the order of `agent_chat_stream`; the stream's
thread reads. Both it and the finalizer call `_finalize_once`, which waits for the worker,
stores the message, publishes, finishes the run, and clears the registries. A stop sets the cancel
event it finds by run id, else that of the key's current run, else leaves a flag.
`calm` says that the client has waited for each answer so far: another tab, or the tab
after a stop, need not. With such a client a late finalizer acts on the next
run, and the properties that speak of answers assume `calm`.

### ProjectTasks
A call checks, then works through a list of events, each loaded, appended to its stream
and written through to its row; the transaction ends at the commit. Guards and aggregates
read streams; the list of a project's tasks and the inputs of
`_backfill_team_mode_structural_dependencies` come from rows, seen with the transaction's own
writes. `rowLock` and `tagLock` are what Postgres holds for a transaction: the rows it
wrote, and the rows of the project's tag index, which every projection of a task deletes and
inserts again. Two transactions that insert the same tag end in a duplicate, which the
savepoint of the write-through absorbs (`Duplicate`); a cycle of waits ends one with an
error (`Abort`). A conflict rolls back and begins the handler again (`Conflict`), which for a
creation whose backfill conflicted means that it finds the task and returns. Locks, deadlock
detection and the worker's checkpoint are external.
The order in which a backfill goes through the tasks is one of the sequences of them that are
sorted as the code sorts (`Backfill`), of which there is one. Tasks that are there at first depend on
those of a higher priority, as if they had been created after them (`AtFirst`).
Left out: notes, rules and specifications of a deleted project (further streams in the
same list), task groups, moves between projects, commands on one task
(`CommandPath`).

### AnalysisQueue
An entity has a content, the links of its content are what the graph should hold, and a
job row. Events may arrive before the row they speak of is committed (`LateRow`).
Workers select the oldest jobs (`older` orders those that are not done by
`updated_at`) without locking them, mark them, and process one after the other under the
project's advisory lock, which belongs to a pooled connection: after a commit the release may run
on another one and do nothing, until the connection is recycled (`Recycle`). When the query for
the lock fails it counts as granted, and the worker goes on without it (`unanswered`). Recovery queues
jobs that have run too long, whether or not their worker lives. An analysis reads the content,
skips it when its hash is that of the last completed run, and otherwise writes the links,
perhaps not all, or none if the extraction is empty. `missed`, `dirty` and `raced` are histories
of what no later step of the code repairs by itself: a change that came during the
entity's analysis (its job ends as done) or while the project was switched off, links
that no completed run wrote, and entities that two workers analysed at once, one of them
without the lock.

## 3. Runs

Bounds are chosen so that every race of two actors, every overflow and every
retry limit occurs; the fault variant of each property, which its run refutes,
shows that the instance reaches the situation the property is about.

| Run | Instance | Shows |
|---|---|---|
| `broker` | 2 publishers, 1 reader, 2 runs, deque of 2, 3 events | `DeliveryIsExact`: replay and live delivery join without gap or duplicate, over replaced runs and dropped history, and events are out of order only between publishers (their puts happen outside the lock). `StreamsEnd`: every reader of a run that is done or replaced ends |
| `runner_pumps` | 3 tasks, one of them wordless, limit 1, loop and kickoff pump, 3 requests by users or triggers, failing executions, no exceptions or crashes | `ClaimsCurrentRequest`: a claim is won once, for the current request. `PumpLimit`: each further pump exceeds the limit by one at most. `RunningIsAttended`: no interleaving of pumps and recovery leaves a task running that no thread works on, wordless tasks excepted |
| `runner_progress` | 2 tasks in the shared workspace, one of them wordless, loop alone, users, triggers, crashes, exceptions, all but unbounded retries | `SharedExclusive`; `RequestsAreServed`: every request is claimed and every run ends; `AutomationSettles`: retries die out |
| `runner_schedule` | 2 recurring tasks, all failures, no other requests | `RecurringRearms`: every due occurrence leads to the next, however the run ends, unless a gate defers it (`Deferred`) |
| `command` | a command, its client's retry, a stranger's bulk command (two events on one stream, one on another) with the same id, 2 attempts, a snapshot every 2 events, one fault | `RebuildIsExact`, though snapshots overtake each other; `AnswersAreTrue`: an answer says what was appended, a retry of something answered appends nothing, nobody gets another's answer; refinement of `SerialStreams` (`SerialSpec`); `EveryCallIsAnswered` |
| `readmodel` | 3 events on two fields, overlapping calls, failures without a bound, given up at the second, a reconnect | `CleanRowIsReplay` (the row is the replay once all is quiet, unless a projection failed or calls overlapped); `EveryEventIsAcked`: so is one whose projection always fails |
| `realtime` | two overlapping sessions, projection worker, one stream with two connections, 2 changes of any kind, a sign-in signal, queue of one signal, pages of one row per feed | `NothingMissed`: no signal and no visible row is passed over; `ChangesAreTold`: a request's change is announced, unless its refresh was hushed |
| `team` | 2 tasks that need a deploy, each with its own Developer agent, human review on, limit 2, one failure or interference of any kind | `CompletedWasDeployed`; `LockIsAttended`; `CyclesAdvance`: each handoff to QA is of a later deploy and a later deploy cycle; `NothingHangs`: locks end, and Developer tasks are picked up again |
| `chat` | 2 runs of a session, one stop by run id or by key, one fault of the worker, of storing the message, or a client that leaves; a client that waits and one that does not | `AnswersAreHonest`, `StopIsObeyed`, `StreamsAnswer` |
| `storming` | 2 entities of one project, 3 contents, 2 server processes, 2 changes or faults (raising, partial, empty or slow analyses, crash, switching off, lock queries that fail) and late rows | `OneAnalysisPerProject`, `GraphIsCurrent`, `JobsSettle` |
| `tasks` | 3 tasks of 3 priorities, tags, 2 attempts; 12 scenarios: three overlapping calls without a fault, or two with a failed append or a crash | `NothingComesBack`: deleted tasks stay deleted, in streams and rows; `DeletionIsComplete`: a project deleted with success takes every task with it that it listed; `PlanIsSound`: dependencies point to higher priorities only and are complete after creations; `CallsEnd` |

The type invariant of each module is checked in its first run. Deadlock is
checked for the broker, the runner and Team Mode. The others stop when the bounded set of
requests, events, changes or messages is used up (`CHECK_DEADLOCK FALSE`). Symmetry (of the tasks that have an instruction) is
used in `runner_pumps` only, which checks no liveness.

Some properties name exceptions. They are behaviours of the code, most of which fall short of
what the internal documentation says:

- Calls that overlap on an aggregate can leave its row behind: a write-through that
  commits late overwrites a newer projection, and nothing replays it (`overlapped` in
  `CleanRowIsReplay`); so does an event that was nacked and is applied after its successor.
- Changes of the projection worker queue no signal, nor has the stream's wait a
  timeout, so they are told with the next request's signal only (`Requested` in
  `NothingMissed` and `ChangesAreTold`).
- A refresh that is due for a change is not sent in a round that sends a notification, another
  project's row or a sign-in (`hushed` in `NothingMissed` and `ChangesAreTold`).
- A task with an empty instruction stays running with nobody at work on it, until stale recovery
  fails it (`Wordless` in `RunningIsAttended`).
- Two overlapping calls with one command id both append; `AnswersAreTrue` speaks of calls
  that begin after an answer.
- A request between the queueing of a due occurrence and its claim makes the runner forget that
  the run was scheduled; `RecurringRearms` is checked without other requests. A run that a
  gate defers completes without arming the next occurrence (`Deferred`).
- A change that arrives while its entity is analysed is analysed with the next change only
  (`missed`). `JobsSettle` holds unless two workers claim the same job together for ever
  (`[]<>ClaimedTwice`): the second to come to the lock queues the job again. `OneAnalysisPerProject` speaks of the
  analyses that were granted the lock; one whose query for it failed runs beside them, which
  costs the graph its links only if both analyse one entity (`raced` in `GraphIsCurrent`).
- A Lead agent that answers "complete" itself completes the task before its deploy, until its
  recording hands it over (`CompletedWasDeployed`); a crash leaves a lock to its lease
  (`LockIsAttended`), and one between a Developer's run and the handoff leaves the task at rest
  (`DeveloperResumes`). A process that dies between a handoff and the release of the lock
  leaves it in force: a Lead that works on the task again within the lease, after QA has failed,
  hands the same cycle over once more (`crashed` in `CyclesAdvance`), although
  `docs/internal/90-policy-appendix.md` says that recovery must not duplicate QA handoffs for
  the same deploy cycle. That takes two faults; `team` has
  one, and the theorem has any number.
- A conflict, or a skipped write-through, during the dependency backfill leaves a task without
  dependencies (`clean` in `PlanIsSound`), and patched priorities can make them
  circular. Tasks created while their project is deleted survive it.

### The run that finds a violation

| Run | Document | What happens |
|---|---|---|
| `team_freeze` | "no Developer merge-to-main is allowed" while a deploy lock is active (`docs/internal/90-policy-appendix.md`) | The merge looks for a lock and then merges, holding nothing; a Lead's lock that is written in between does not stop it (`MergesFrozen`). |

### Fairness

- `StreamBroker`: the server keeps iterating an open stream's generator.
- `AutomationRunner`: weak fairness of the loop's tick and of each batch (the
  executor has a timeout, every append returns); strong fairness that a running
  task nobody works on is found by recovery, because its timestamps stop moving
  while ticks go on. Nothing forces recovery to wait for the worker: it may
  take a run that is alive.
- `CommandPath`: a thread that serves a call keeps running.
- `ReadModel`: the worker keeps taking events; the server delivers.
- `Realtime`: the event loop runs its callbacks and the stream's coroutine,
  and a commit is followed by its hook. Sessions need not commit.
- `TeamMode`: the loop ticks, the threads of a batch run, cooldowns and the leases of locks
  nobody works under end. That a run ends includes `docker compose`, which the code starts
  without a timeout: a slow one outlasts its lease (`slow`), one that never ends is
  outside what `NothingHangs` claims. Nobody has to request, review or complete anything.
- `ChatSession`: threads run, and an agent's execution ends, by itself or cancelled. The client
  need not read on, stop or post.
- `AnalysisQueue`: events are delivered and their rows committed, workers poll and process,
  retry times come, recovery finds abandoned jobs, pooled connections are recycled. Nothing is fair
  about which of two workers wins a lock.
- `ProjectTasks`: the thread of a call runs, Postgres grants a lock that is free and ends one
  of the transactions in a deadlock, the projection worker runs. Calls need not be made.

## 4. Proofs

Every component has its theorems, and every safety property that a passing run checks is one.
They hold for every value of the constants, under the assumptions that the component's module names
and nothing else, save where a hypothesis is stated. Each is proved from an inductive invariant `IInv` that TLC had checked
first; one lemma per action shows that it is preserved, and helper lemmas say what the
operators return and what an append, a release or a request leaves alone.

| Module | Theorems |
|---|---|
| `AutomationRunner_proofs` | `TypeCorrect`, `ClaimsAreCurrent` (`ClaimsCurrentRequest`), `PumpsBounded` (`PumpLimit`); with no kickoff pumps `LimitHolds` (`ParallelLimit`) and `SharedWorkspaceExclusive` (`SharedExclusive`); without crashes and exceptions `RunsAttended` (`RunningIsAttended`) |
| `StreamBroker_proofs` | `TypeCorrect`, `DeliveryExact` (`DeliveryIsExact`) |
| `CommandPath_proofs` | `TypeCorrect`, `RebuildExact` (`RebuildIsExact`), `AnswersTrue` (`AnswersAreTrue`), `ImplementsSerial` (refinement of `SerialStreams`) |
| `Realtime_proofs` | `TypeCorrect`, `MissesNothing` (`NothingMissed`) |
| `ChatSession_proofs` | `TypeCorrect`, `Honest` (`AnswersAreHonest`), `StopsObeyed` (`StopIsObeyed`) |
| `AnalysisQueue_proofs` | `TypeCorrect`, `AnalysesExclude` (`OneAnalysisPerProject`), `GraphsCurrent` (`GraphIsCurrent`) |
| `ProjectTasks_proofs` | `TypeCorrect`, `DeletionComplete` (`DeletionIsComplete`), `DeletionStands` (`NothingComesBack`), `PlanSound` (`PlanIsSound`); of `ReadModel`: `RowTypeCorrect` (`RowTypeOK`), `RowIsReplay` (`CleanRowIsReplay`) |
| `TeamMode_proofs` | `TypeCorrect`, `CompletedDeployed` (`CompletedWasDeployed`), `LocksAttended` (`LockIsAttended`), `CyclesOnlyAdvance` (`CyclesAdvance`) |

### AutomationRunner

*Claims.* `IInv == TypeOK /\ PhaseInv /\ ClaimInv`. `ClaimInv` says that a claim
that is still fresh remembers the task as it is: queued, with the source it read. It is inductive
because `AppendTo` makes every claim on the task stale, the append of a
competing claim included. `PhaseInv` ties a pump's position to what it may
hold (no claim outside the scan, no runs before it), so that a pump never has a
run of a task it is claiming. `ClaimsCurrentRequest` follows: a task turns to running only in
`ClaimWrite`, whose guard `fresh` gives the queued state and the source.

*Limit.* The check is made at `ClaimRead` and the append at `ClaimWrite`, so
`PumpLimit` is not inductive: any number of pumps may be about to append.
`PumpInv` counts the fresh claims with the running tasks. A read requires
fewer running tasks than the limit, and even if every pump then holds a claim
the sum stays within the limit plus the number of kickoff pumps; the append of
a claim turns one claim into one running task; everything else only lowers
either number.

*Shared workspace.* With a single pump, a pending claim of a task in the shared
workspace implies that nothing else runs, because only a claim adds a running
task. This fails with a second pump.

*Attended runs.* That a running task is in some batch is not inductive, since a recording could be let
go before it has ended the run. `AttendInv` asks that the pump still claims or executes, or has
an event left to append that ends the run. Both recordings' plans contain one
(`SuccessPlanEnds`, `FailurePlanEnds`), and until it is at their head the rest of the
plan still does. The hypotheses exclude what breaks it: after a crash or a failed append, or with an
empty instruction (`Wordless`), the task is left to stale recovery (`RequestsAreServed`).

### StreamBroker

The property relates what a reader has yielded to what was published. `IInv` adds where a
reader's queue is registered (`Registered`: in its own run's list only, every put
towards it is of that run), that replay, queue, puts under way and yielded events are disjoint and
together an interval (`Handoff`, `Once`), that the replay lies before everything live and after
everything yielded (`ReplayFirst`), and that the smaller events still behind a queued or
yielded one are few (`FifoBounded`): they were under way when it was put, each by another publisher,
and neither a FIFO queue nor a later publication adds any.

### CommandPath and SerialStreams

`IInv` says where a call can be (`Phase`), that what it has loaded and what is
snapshotted, or about to be, are prefixes of the stream (`Load`, `SnapInv`; each is labelled with
its own length, so that an older snapshot stored after a newer one only costs a longer
replay), which events are its own and in which order (`OwnedInv`,
`OrderInv`, `Made`), and what a record is evidence of (`RecordInv`, `Later`).

*Refinement.* `history` is `History` (an event's request and the length of the state it was decided on)
and `acked` is `Answered`. A first append succeeds only at the version loaded, whose state is the
whole stream by `Load`: it is a `Decide`. A further append of the command is a `Follow`. An answer
of success is an `Acknowledge`, by `Made` for the call itself and by `RecordInv` for a replayed
answer. Everything else is a stutter.

### Realtime

`NothingMissed` speaks of a stream that waits. `IInv` says of every subscribed stream what
will still tell its client of an untold change (`Coming`: a scheduled or queued signal, a
committed session whose hook has not run, a flush or an event under way), which needs that an open
transaction holds its channel (`WriterInv`, `Disjoint`); and of the rows of each feed that a page leaves
out none before its own (`RowsInv`), so that the cursor passes over nothing it could have
read. The full queue drops a signal only when another stays, and a round that
withholds its refresh hushes what it would have told. A sign-in's signal announces nothing.

### ChatSession

The threads of a run outlive it and act under a stream key that may belong to the next run by
then. With a client that waits (`calm`), `IInv` says why this is harmless: the client goes on only
when the run is settled, a settled run publishes nothing more and decides no answer (`Known`,
`Past`, `BrokerInv`), only one caller finalizes (`OneCaller`) and only after the worker
(`AfterWorker`), and whatever is flagged or cancelled was meant for the run that it stops
(`CancelInv`, `StopInv`). That a run stores one message needs no calm client.

### AnalysisQueue

A worker that was granted the lock holds it on a connection in use (`LockInv`), so two of them never
are in one project. Unless the entity is recorded as raced, a worker that analyses it, with or without
the lock, alone writes its links, hash and flags until it is through; what it has
read stays the content unless a change is pending or recorded as missed
(`ReadInv`), and a recorded hash is that of the links in the graph (`HashInv`). That the open
jobs stay ordered by age, ties allowed (`older`), is part of `TypeOK`.

### ProjectTasks

The assumptions are finitely many tasks, numbered from 1, an attempt at least, and scenarios whose
commands are `Commands`; calls, faults and scenarios are arbitrary.

`IInv` keeps streams, rows and calls together. What a row, a transaction's view or an
event of the worker says of a task has been said in its stream, and a stream takes nothing back but
what a patch sets (`Follows`, `Reached`, `Grows`); so a row is deleted only when its stream is. Rows
lag behind their streams, and a late transaction or replay could bring one back. None does, since what
a transaction has written is locked and goes on from the committed row (`MineOK`), and an update writes the columns
that differ, of which a creation's are none of `deleted`. `CreationOK` says why the first event of a
stream is written once: it is appended at version 0, and inserts a row that nobody has.
`NothingComesBack` follows action by action, for streams by `Grows` and for rows at a commit and at a
replay.

*Deletions.* A call that deletes the project has, for everything it listed, a job to do or a
stream that says deleted (`DeletionOK`). Jobs are dropped by their own append only, or by a conflict,
which begins again with the rows of then: a task that is missing among these is deleted in its
stream already, because the rows follow.

*Plans.* That dependencies point to higher priorities is inductive with the same claim of the jobs
that a backfill has still to do (`JobOK`). That they are complete needs two promises: a task
without a row is being created by a call that will commit it (`RowsComing`), and of two tasks of
which one should wait, that one waits, or a call that created one of them has not planned yet, or a
backfill has a job for it (`PlansComing`). The critical step is the
creation that looks at the rows and finds nothing to do: each of the two tasks has its row by
then, or is being created by a call that plans later. Every step that could break a promise is one that ends
`clean`.

### ReadModel

`ProjectTasks_proofs` extends both modules, which share no names. As long as nothing failed and no
calls overlapped, the events the server has acks of, those the worker has acknowledged, those in its
buffer and those to come follow each other in the log (`InOrder`).
`RowUpTo(n)` says that each field was written by an event that touches it, and none older
than the last of the first `n` that does: a redelivery may take a field back, but never behind
what was acknowledged, and a write-through writes the newest event.

### TeamMode

The steps of others leave a task `Calm`: its role, merges, deploy and handoff stay, its status moves
to active at most, and a lock is only taken away. Every action is therefore proved
for its own task only. `IInv` says of each run what it may rely on: a run at work on a
branch keeps the Developer role (`RoleInv`); the deploy of a run is later than any handed to QA, its cycle too unless the process died, and
what it has deployed contains the task's last merge (`CycleInv`, hence `CyclesAdvance`); so does what QA was handed, and only QA or a Lead agent completes
(`DoneInv`); a held lock is deployed under unless the process died (`LockInv`).

### Only model-checked

- All liveness properties and the refinement of fairness: TLAPS does not reason about `ENABLED`,
  which fairness needs.
- That a backfill's tasks have a sorted order, so that `Plan` is enabled: it is an induction over
  finite sets. Safety does not need it; the runs reach every step after it.
- `MergesFrozen`, which the code violates.

## 5. What is left

Every safety property of the passing runs is proved; liveness is model-checked. Not modelled:

- *Agent execution, git and GitHub plugins, provider login*: subprocesses and their output.
  The runner, Team Mode and chat take every outcome as a choice.
- *Agent service, MCP servers, gates and classifiers*: dispatch, validation and heuristics; what they
  change goes through the modelled commands.
- *Graph and vector projections, chat indexing*: workers with the loop of `ReadModel` over
  another store; search and ranking are queries.
- *Notifications*: events of new streams; duplicates are looked up before the append, a race
  like that of the command record.
- *Task dependency graph, doctor, architecture inventory, debug*: reports over one read.
- *Bootstrap*: sequential repair and seeding at startup, and a response cache that is stale for
  its time to live at most.
- *Frontend, command-line tools*: beyond the readers of the two kinds of streams and the chat
  client's order of requests, presentation and installers.
- *Handlers of single events* (complete, reopen, archive, reorder, notes, views, rules, users): a
  request of `CommandPath` each; their field validation is not modelled.
- *The `StoredEvent` mode without an event store*: events and rows share one transaction there,
  so the races between streams and rows do not exist.
