---------------------------- MODULE ProjectTasks ----------------------------
(* The tasks of a Team Mode project that belong to one specification, under *)
(* the commands of src/app/features/tasks/command_handlers.py (CreateTask,  *)
(* PatchTask, BulkTaskAction) and projects/command_handlers.py              *)
(* (DeleteProject), run by run_command_with_retry of src/app/shared/deps.py. *)
(*                                                                          *)
(* A handler checks and loads from the event streams, but lists tasks from  *)
(* the SQL read model.  Each event goes to its stream at once, and to the   *)
(* row within the call's SQL transaction (write-through, with the row and   *)
(* the tag index of the project locked until it ends), and again by the     *)
(* projection worker.                                                       *)
EXTENDS Integers, Sequences, FiniteSets, SequencesExt

CONSTANTS
  Tasks,        \* positive numbers, in the order of the ids (uuid5 of the title)
  Calls,        \* calls of execute_command
  NoCall,
  Scenarios,    \* records: the priorities of the tasks there are at first, the
                \* commands that are called, and a bound on the faults
  MaxAttempts,  \* max_attempts of run_command_with_retry
  Tagged,       \* the project has tags
  Faults        \* subset of {"append", "crash"}

Project == 0
Streams == Tasks \union {Project}
Priorities == 0 .. 2            \* ranks of High, Med and Low

\* A bulk action that names no task does nothing, and its handler takes out
\* the repeated ids.
Commands ==
  [do : {"create", "patch"}, task : Tasks, priority : Priorities]
    \union [do : {"bulk"}, tasks : Seq(Tasks) \ {<<>>}]
    \union [do : {"delete_project"}]

ASSUME TasksAssumption == Tasks \subseteq Nat \ {0} /\ IsFiniteSet(Tasks)
ASSUME NoCallAssumption == NoCall \notin Calls
ASSUME AttemptsAssumption == MaxAttempts \in Nat \ {0}
ASSUME FaultsAssumption == Faults \subseteq {"append", "crash"}
ASSUME ScenariosAssumption ==
  \A sc \in Scenarios :
    /\ DOMAIN sc.tasks \subseteq Tasks
    /\ \A t \in DOMAIN sc.tasks : sc.tasks[t] \in Priorities
    /\ \A c \in DOMAIN sc.cmd : sc.cmd[c] \in Commands

VARIABLES
  state,    \* what the events of a stream add up to
  version,  \* the number of its events
  row,      \* the committed row
  todo,     \* events the projection worker has not seen
  rowLock,  \* the transaction that has written a row
  tagLock,  \* ... and the one that has written the project's tag index
  call,     \* the calls: where they are, what they have read and written
  faults,   \* faults still to come (bound)
  clean     \* history: no backfill was cut short and no write-through lost
vars == <<state, version, row, todo, rowLock, tagLock, call, faults, clean>>

Absent == [known |-> FALSE, priority |-> 0, needs |-> {}, deleted |-> FALSE]
States == [known : BOOLEAN, priority : Priorities, needs : SUBSET Tasks, deleted : BOOLEAN]

\* An event is the fields it sets.
Created(p) == [known |-> TRUE, priority |-> p, needs |-> {}, deleted |-> FALSE]
Deleted == [deleted |-> TRUE]
IsCreation(e) == "known" \in DOMAIN e

\* project_event does not touch is_deleted when it projects a creation.
RowFields(e) == IF IsCreation(e) THEN DOMAIN e \ {"deleted"} ELSE DOMAIN e

\* g with what f says instead, where it says something.
Overlay(f, g) == [x \in DOMAIN f \union DOMAIN g |-> IF x \in DOMAIN f THEN f[x] ELSE g[x]]

\* The columns the session writes: those that differ from the row it loaded.
Written(base, e) ==
  [f \in {g \in RowFields(e) : e[g] # base[g]} |-> e[f]]

Live(s) == s.known /\ ~s.deleted

NoCommand == [do |-> "none"]

Idle(cmd) ==
  [at |-> "idle", cmd |-> cmd, tries |-> 0, phase |-> "do", jobs |-> <<>>,
   version |-> 0, base |-> Absent, mine |-> <<>>, known |-> {}, answer |-> "none"]

\* A task that is there at first, created when those of a higher priority
\* were there.
AtFirst(sc, t) ==
  [Created(sc.tasks[t]) EXCEPT !.needs = {u \in DOMAIN sc.tasks : sc.tasks[u] < sc.tasks[t]}]

Init ==
  \E sc \in Scenarios :
    /\ state = [s \in Streams |->
         IF s = Project THEN Created(0)
         ELSE IF s \in DOMAIN sc.tasks THEN AtFirst(sc, s) ELSE Absent]
    /\ version = [s \in Streams |-> IF ~state[s].known THEN 0
                                    ELSE IF state[s].needs = {} THEN 1 ELSE 2]
    /\ row = state
    /\ todo = [s \in Streams |-> <<>>]
    /\ rowLock = [s \in Streams |-> NoCall]
    /\ tagLock = NoCall
    /\ call = [c \in Calls |->
         Idle(IF c \in DOMAIN sc.cmd THEN sc.cmd[c] ELSE NoCommand)]
    /\ faults = sc.faults
    /\ clean = TRUE

\* A row as the transaction of call c sees it.
View(c, s) == IF s \in DOMAIN call[c].mine THEN call[c].mine[s] ELSE row[s]

Job(c) == Head(call[c].jobs)

\* The end of a transaction releases its locks.
ReleaseLocks(c) ==
  /\ rowLock' = [s \in Streams |-> IF rowLock[s] = c THEN NoCall ELSE rowLock[s]]
  /\ tagLock' = IF tagLock = c THEN NoCall ELSE tagLock

\* The call is answered; what was not committed is rolled back.
Answer(c, a) ==
  /\ call' = [call EXCEPT ![c] = [Idle(@.cmd) EXCEPT !.at = "end", !.answer = a,
                                                     !.known = call[c].known]]
  /\ ReleaseLocks(c)

-----------------------------------------------------------------------------
(* The guards and the lists of work.                                       *)

Listed == {t \in Tasks : Live(row[t])}

Begin(c) ==
  /\ call[c].at = "idle" /\ call[c].cmd # NoCommand
  /\ call' = [call EXCEPT ![c].at = "check",
                          ![c].known = IF call[c].cmd.do = "delete_project" THEN Listed ELSE {}]
  /\ UNCHANGED <<state, version, row, todo, rowLock, tagLock, faults, clean>>

\* The jobs are events to append, each to its stream, in this order.
Start(c, at, jobs, base) ==
  /\ call' = [call EXCEPT ![c].at = at, ![c].phase = "do", ![c].jobs = jobs,
                          ![c].version = 0, ![c].base = base]
  /\ UNCHANGED <<rowLock, tagLock>>

\* The title of a task decides its id.
CheckCreate(c) ==
  LET cmd == call[c].cmd
      s == state[cmd.task]
  IN \/ state[Project].deleted /\ Answer(c, "404")
     \/ /\ ~state[Project].deleted /\ Live(s)
        /\ Answer(c, IF row[cmd.task].known THEN "ok" ELSE "404")
     \/ ~state[Project].deleted /\ s.deleted /\ Answer(c, "409")
     \/ /\ ~state[Project].deleted /\ ~s.known
        /\ Start(c, "append", <<[of |-> cmd.task, event |-> Created(cmd.priority)]>>, Absent)

\* PatchTask reads the state and the row, and fills its event with what it
\* does not change: the relationships, here.
CheckPatch(c) ==
  LET cmd == call[c].cmd
      s == state[cmd.task]
  IN \/ ~Live(s) /\ Answer(c, "404")
     \/ /\ Live(s)
        /\ Start(c, "load", <<[of |-> cmd.task,
                               event |-> [priority |-> cmd.priority, needs |-> s.needs]]>>,
                 row[cmd.task])

CheckBulk(c) ==
  Start(c, "load", [i \in DOMAIN call[c].cmd.tasks |->
                      [of |-> call[c].cmd.tasks[i], event |-> Deleted]], Absent)

\* DeleteProject lists the rows, in whatever order the query returns them.
CheckDeleteProject(c) ==
  \/ state[Project].deleted /\ Answer(c, "404")
  \/ /\ ~state[Project].deleted
     /\ \E order \in SetToSeqs(Listed) :
          Start(c, "load", [i \in 1 .. Len(order) + 1 |->
                              [of |-> IF i <= Len(order) THEN order[i] ELSE Project,
                               event |-> Deleted]], Absent)

Check(c) ==
  /\ call[c].at = "check"
  /\ \/ call[c].cmd.do = "create" /\ CheckCreate(c)
     \/ call[c].cmd.do = "patch" /\ CheckPatch(c)
     \/ call[c].cmd.do = "bulk" /\ CheckBulk(c)
     \/ call[c].cmd.do = "delete_project" /\ CheckDeleteProject(c)
  /\ UNCHANGED <<state, version, row, todo, faults, clean>>

\* Fault variant: tasks of the same priority count as well.
HigherOrEqual(c, t) ==
  {u \in Tasks \ {t} : Live(View(c, u)) /\ View(c, u).priority <= View(c, t).priority}

\* _backfill_team_mode_structural_dependencies: each task without
\* relationships depends on all tasks of a higher priority.
Higher(c, t) == {u \in Tasks : Live(View(c, u)) /\ View(c, u).priority < View(c, t).priority}

\* Fault variant: only the task that was created is looked at.
OpenOwn(c) == {t \in {call[c].cmd.task} : Higher(c, t) # {}}

Open(c) == {t \in Tasks : Live(View(c, t)) /\ View(c, t).needs = {} /\ Higher(c, t) # {}}

Before(c, t, u) ==
  \/ View(c, t).priority < View(c, u).priority
  \/ View(c, t).priority = View(c, u).priority /\ t < u

\* The lists of jobs that are in order: there is one.
Backfill(c) ==
  {[i \in DOMAIN order |-> [of |-> order[i], event |-> [needs |-> Higher(c, order[i])]]] :
     order \in {o \in SetToSeqs(Open(c)) :
                  \A i, j \in DOMAIN o : i < j => Before(c, o[i], o[j])}}

Plan(c) ==
  /\ call[c].at = "plan"
  /\ \/ Open(c) = {} /\ Answer(c, "ok")
     \/ /\ Open(c) # {}
        /\ \E jobs \in Backfill(c) :
             call' = [call EXCEPT ![c].at = "load", ![c].phase = "plan", ![c].jobs = jobs]
        /\ UNCHANGED <<rowLock, tagLock>>
  /\ UNCHANGED <<state, version, row, todo, faults, clean>>

-----------------------------------------------------------------------------
(* One event: load, append, write-through.                                 *)

\* Only the bulk handler checks each task again.
Load(c) ==
  /\ call[c].at = "load"
  /\ IF call[c].cmd.do = "bulk" /\ ~Live(state[Job(c).of])
     THEN Answer(c, "404")
     ELSE /\ call' = [call EXCEPT ![c].at = "append", ![c].version = version[Job(c).of]]
          /\ UNCHANGED <<rowLock, tagLock>>
  /\ UNCHANGED <<state, version, row, todo, faults, clean>>

\* The row that project_event finds in the session: the one PatchTask has
\* held since its check, a fresh one otherwise.
LoadedRow(c) == IF call[c].cmd.do = "patch" THEN call[c].base ELSE View(c, Job(c).of)

Stored(c) ==
  /\ state' = [state EXCEPT ![Job(c).of] = Overlay(Job(c).event, @)]
  /\ version' = [version EXCEPT ![Job(c).of] = @ + 1]
  /\ todo' = [todo EXCEPT ![Job(c).of] = Append(@, Job(c).event)]

\* Fault variant: a creation without an expected version.
AppendEventBlind(c) ==
  /\ call[c].at = "append"
  /\ version[Job(c).of] = call[c].version \/ IsCreation(Job(c).event)
  /\ Stored(c)
  /\ call' = [call EXCEPT ![c].at = "row", ![c].base = LoadedRow(c)]
  /\ UNCHANGED <<row, rowLock, tagLock, faults, clean>>

AppendEvent(c) ==
  /\ call[c].at = "append"
  /\ version[Job(c).of] = call[c].version
  /\ Stored(c)
  /\ call' = [call EXCEPT ![c].at = "row", ![c].base = LoadedRow(c)]
  /\ UNCHANGED <<row, rowLock, tagLock, faults, clean>>

\* Fault variant: begins again without a rollback.
ConflictNoRollback(c) ==
  /\ call[c].at = "append"
  /\ version[Job(c).of] # call[c].version
  /\ IF call[c].tries + 1 >= MaxAttempts
     THEN /\ call' = [call EXCEPT ![c].at = "end", ![c].answer = "409"]
     ELSE /\ call' = [call EXCEPT ![c].at = "check", ![c].tries = @ + 1, ![c].jobs = <<>>]
  /\ clean' = (clean /\ call[c].phase # "plan")
  /\ UNCHANGED <<state, version, row, todo, rowLock, tagLock, faults>>

\* Fault variant: goes on with the next event instead.
ConflictSkips(c) ==
  /\ call[c].at = "append"
  /\ version[Job(c).of] # call[c].version
  /\ call' = [call EXCEPT ![c].jobs = Tail(@),
                          ![c].at = IF Len(call[c].jobs) = 1 THEN "commit" ELSE "load"]
  /\ clean' = (clean /\ call[c].phase # "plan")
  /\ UNCHANGED <<state, version, row, todo, rowLock, tagLock, faults>>

\* run_command_with_retry: roll back, begin again, or give up.
Conflict(c) ==
  /\ call[c].at = "append"
  /\ version[Job(c).of] # call[c].version
  /\ IF call[c].tries + 1 >= MaxAttempts
     THEN Answer(c, "409")
     ELSE /\ call' = [call EXCEPT ![c].at = "check", ![c].tries = call[c].tries + 1,
                                  ![c].mine = <<>>, ![c].jobs = <<>>, ![c].version = 0,
                                  ![c].base = Absent]
          /\ ReleaseLocks(c)
  /\ clean' = (clean /\ call[c].phase # "plan")
  /\ UNCHANGED <<state, version, row, todo, faults>>

\* The job is done, with this view of its row.
NextJob(c, mine) ==
  call' = [call EXCEPT ![c].jobs = Tail(call[c].jobs), ![c].mine = mine, ![c].version = 0,
                       ![c].base = IF call[c].cmd.do = "patch" THEN call[c].base ELSE Absent,
                       ![c].at = IF Len(call[c].jobs) = 1 THEN "commit" ELSE "load"]

Writes(c) == Written(call[c].base, Job(c).event)

\* A change of a row that is not there yet is left to the worker, as is the
\* insert of a row that the worker inserted first.
NoRow(c) ==
  /\ call[c].at = "row"
  /\ IF IsCreation(Job(c).event)
     THEN ~call[c].base.known /\ row[Job(c).of].known
     ELSE ~call[c].base.known
  /\ NextJob(c, call[c].mine)
  /\ UNCHANGED <<state, version, row, todo, rowLock, tagLock, faults, clean>>

\* The row is written when no other transaction holds it.
TakeRow(c) ==
  /\ call[c].at = "row"
  /\ \/ call[c].base.known
     \/ IsCreation(Job(c).event) /\ ~row[Job(c).of].known
  /\ \/ /\ DOMAIN Writes(c) = {}
        /\ UNCHANGED rowLock
     \/ /\ DOMAIN Writes(c) # {}
        /\ rowLock[Job(c).of] \in {NoCall, c}
        /\ rowLock' = [rowLock EXCEPT ![Job(c).of] = c]
  /\ call' = [call EXCEPT ![c].at = "tags"]
  /\ UNCHANGED <<state, version, row, todo, tagLock, faults, clean>>

\* _recompute_project_tag_index deletes and inserts the rows of the index.
TakeTags(c) ==
  /\ call[c].at \in {"tags", "blocked"}
  /\ Tagged => tagLock \in {NoCall, c}
  /\ tagLock' = IF Tagged THEN c ELSE tagLock
  /\ NextJob(c, IF DOMAIN Writes(c) = {} THEN call[c].mine
                ELSE Overlay([s \in {Job(c).of} |-> Overlay(Writes(c), View(c, s))], call[c].mine))
  /\ UNCHANGED <<state, version, row, todo, rowLock, faults, clean>>

Block(c) ==
  /\ call[c].at = "tags" /\ Tagged /\ tagLock \notin {NoCall, c}
  /\ call' = [call EXCEPT ![c].at = "blocked"]
  /\ UNCHANGED <<state, version, row, todo, rowLock, tagLock, faults, clean>>

\* Both transactions insert the same tag: the savepoint is rolled back, and
\* _project_event_write_through lets that pass.
Duplicate(c) ==
  /\ call[c].at = "blocked" /\ tagLock = NoCall
  /\ rowLock' = IF Job(c).of \in DOMAIN call[c].mine \/ rowLock[Job(c).of] # c THEN rowLock
                ELSE [rowLock EXCEPT ![Job(c).of] = NoCall]
  /\ NextJob(c, call[c].mine)
  /\ clean' = FALSE
  /\ UNCHANGED <<state, version, row, todo, tagLock, faults>>

\* CreateTask commits twice: the task, then the dependencies.
Commit(c) ==
  /\ call[c].at = "commit"
  /\ row' = Overlay(call[c].mine, row)
  /\ IF call[c].cmd.do = "create" /\ call[c].phase = "do"
     THEN /\ call' = [call EXCEPT ![c].at = "plan", ![c].mine = <<>>]
          /\ ReleaseLocks(c)
     ELSE Answer(c, "ok")
  /\ UNCHANGED <<state, version, todo, faults, clean>>

-----------------------------------------------------------------------------
(* The database, the worker and the faults.                                *)

\* The transaction whose end call c waits for.
WaitsFor(c) ==
  IF call[c].at = "row" /\ call[c].jobs # <<>> /\ DOMAIN Writes(c) # {}
     /\ rowLock[Job(c).of] # c THEN rowLock[Job(c).of]
  ELSE IF call[c].at = "blocked" THEN tagLock
  ELSE NoCall

InDeadlock(c) ==
  LET hop[n \in 0 .. Cardinality(Calls)] ==
        IF n = 0 THEN c
        ELSE IF hop[n - 1] = NoCall THEN NoCall ELSE WaitsFor(hop[n - 1])
  IN WaitsFor(c) # NoCall /\ \E n \in 1 .. Cardinality(Calls) : hop[n] = c

\* Postgres ends a deadlock by failing one statement; nothing in the call
\* handles that error.
Abort(c) ==
  /\ InDeadlock(c)
  /\ Answer(c, "error")
  /\ clean' = FALSE
  /\ UNCHANGED <<state, version, row, todo, faults>>

\* The worker projects the events of a stream in their order.
Replay(s) ==
  /\ todo[s] # <<>>
  /\ rowLock[s] = NoCall /\ (Tagged => tagLock = NoCall)
  /\ row' = IF row[s].known \/ IsCreation(Head(todo[s]))
            THEN [row EXCEPT ![s] = Overlay(Written(@, Head(todo[s])), @)] ELSE row
  /\ todo' = [todo EXCEPT ![s] = Tail(@)]
  /\ UNCHANGED <<state, version, rowLock, tagLock, call, faults, clean>>

Fault(kind) == kind \in Faults /\ faults > 0 /\ faults' = faults - 1 /\ clean' = FALSE

\* The event is stored, but its append is reported as failed.
AppendFails(c) ==
  /\ call[c].at = "append"
  /\ version[Job(c).of] = call[c].version
  /\ Fault("append")
  /\ Stored(c)
  /\ Answer(c, "error")
  /\ UNCHANGED row

Crash ==
  /\ Fault("crash")
  /\ \E c \in Calls : call[c].at \notin {"idle", "end"}
  /\ call' = [c \in Calls |->
                IF call[c].at = "idle" THEN call[c]
                ELSE [Idle(call[c].cmd) EXCEPT
                        !.at = "end", !.known = call[c].known,
                        !.answer = IF call[c].answer = "none" THEN "error" ELSE call[c].answer]]
  /\ rowLock' = [s \in Streams |-> NoCall]
  /\ tagLock' = NoCall
  /\ UNCHANGED <<state, version, row, todo>>

-----------------------------------------------------------------------------
Step(c) ==
  \/ Check(c) \/ Load(c) \/ AppendEvent(c) \/ Conflict(c)
  \/ NoRow(c) \/ TakeRow(c) \/ TakeTags(c) \/ Block(c) \/ Duplicate(c)
  \/ Commit(c) \/ Plan(c) \/ Abort(c)

Next ==
  \/ \E c \in Calls : Begin(c) \/ Step(c) \/ AppendFails(c)
  \/ \E s \in Streams : Replay(s)
  \/ Crash

\* The thread of a call runs, the database grants locks and detects
\* deadlocks, and the worker runs.
Fairness ==
  /\ \A c \in Calls : WF_vars(Step(c))
  /\ \A s \in Streams : WF_vars(Replay(s))

Spec == Init /\ [][Next]_vars /\ Fairness

-----------------------------------------------------------------------------
(* Properties.                                                             *)

Ats == {"idle", "check", "load", "append", "row", "tags", "blocked", "commit", "plan", "end"}

\* The types; attempts stay within their limit, a call has work while it is
\* at work, and no lock outlives the call (run_command_with_retry).
TypeOK ==
  /\ state \in [Streams -> States]
  /\ version \in [Streams -> Nat]
  /\ row \in [Streams -> States]
  /\ rowLock \in [Streams -> Calls \union {NoCall}]
  /\ tagLock \in Calls \union {NoCall}
  /\ \A c \in Calls :
       /\ call[c].at \in Ats
       /\ call[c].tries \in 0 .. MaxAttempts - 1
       /\ call[c].phase \in {"do", "plan"}
       /\ call[c].known \subseteq Tasks
       /\ DOMAIN call[c].mine \subseteq Streams
       /\ call[c].at \in {"load", "append", "row", "tags", "blocked"} => call[c].jobs # <<>>
       /\ call[c].at = "end" => c # tagLock /\ \A s \in Streams : rowLock[s] # c

\* A deleted task does not come back, although its title can be created
\* again, calls that found it alive go on appending, and late transactions
\* and the worker write its row.
NothingComesBack ==
  [][\A t \in Tasks : /\ state[t].deleted => state'[t].deleted
                      /\ row[t].deleted => row'[t].deleted]_vars

\* When the deletion of a project is answered with success, every task whose
\* row was there when it began is deleted, through conflicts with other
\* calls on those tasks, and the project is.  (Tasks created meanwhile, or
\* with a row that the worker still owes, may survive.)
DeletionIsComplete ==
  \A c \in Calls : call[c].cmd.do = "delete_project" /\ call[c].answer = "ok" =>
    \A s \in call[c].known \union {Project} : state[s].deleted

\* No task waits for one of no higher priority, so none waits for itself; and
\* when all creations have ended, in whatever order they overlapped, each
\* live task waits if another has a higher priority: unless a backfill or a
\* write-through was cut short, or priorities were changed.
PlanIsSound ==
  (\A c \in Calls : call[c].cmd.do # "patch") =>
    /\ \A t \in Tasks : \A u \in state[t].needs : state[u].priority < state[t].priority
    /\ clean /\ (\A c \in Calls : call[c].at \in {"idle", "end"}) =>
         \A t, u \in Tasks :
           Live(state[t]) /\ Live(state[u]) /\ state[u].priority < state[t].priority
             => state[t].needs # {}

\* Every call is answered: locks of rows and of the tag index, conflicts and
\* retries block nobody for ever.
CallsEnd == \A c \in Calls : call[c].at = "check" ~> call[c].at = "end"
=============================================================================
