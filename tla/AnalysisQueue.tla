---------------------------- MODULE AnalysisQueue ----------------------------
(***************************************************************************)
(* The event-storming analysis jobs (app/shared/eventing_event_storming.py):*)
(* a projection worker queues one job per changed entity, and the analysis *)
(* workers of the server processes that share the database claim jobs,     *)
(* analyse one entity of a project at a time under a PostgreSQL advisory   *)
(* lock, and bring the entity's links in the graph up to date.             *)
(*                                                                         *)
(* The extraction is abstracted to its result: an entity of some content   *)
(* has the links Links(content).  A transaction is a step; the rows a      *)
(* transaction has read are stale by the time it writes.                   *)
(***************************************************************************)
EXTENDS Naturals, Sequences, SequencesExt, FiniteSets

CONSTANTS
  Entities, Projects,
  Contents,    \* contents of an entity, "gone" among them
  First,       \* the content at the start
  Workers,     \* analysis workers, one per server process
  Faults,      \* "raise", "partial", "empty", "slow", "crash", "disable"; "late" rows;
               \* "unanswered" lock queries
  MaxEvents    \* bound: changes of entities and faults together, late rows aside

ASSUME EntitiesAssumption == IsFiniteSet(Entities)
ASSUME ContentsAssumption ==
  "gone" \in Contents /\ "none" \notin Contents /\ First \in Contents \ {"gone"}
ASSUME WorkersAssumption == "nobody" \notin Workers
ASSUME FaultsAssumption ==
  Faults \subseteq {"raise", "partial", "empty", "slow", "crash", "disable", "late", "unanswered"}
ASSUME BoundAssumption == MaxEvents \in Nat

VARIABLES
  projectOf, \* the project of every entity (never changes)
  enabled,   \* projects whose analysis is switched on
  content,   \* the entity in the SQL read model
  pending,   \* what of a change is still to come: nothing, its event, or its row
  job,       \* the entity's row in event_storming_analysis_jobs
  older,     \* pairs of jobs that are not done, by updated_at
  hash,      \* content of the entity's last run of status done
  graph,     \* the entity's links
  lock,      \* the project's advisory lock: holder, whether its connection is busy, depth
  worker,    \* the analysis workers
  missed,    \* entities with a change that no analysis has read and no job is queued for
  dirty,     \* entities whose links were written by no completed run
  raced,     \* entities that two workers have analysed at the same time
  events     \* changes and faults so far

vars == <<projectOf, enabled, content, pending, job, older, hash, graph, lock, worker,
          missed, dirty, raced, events>>

NoHash == "none"
Links(c) == IF c = "gone" THEN "nothing" ELSE c

Statuses == {"queued", "running", "failed", "done"}
WorkerStates ==
  [at : {"down", "poll", "claim", "look", "lock", "sync", "finish", "fail", "release"},
   batch : Seq(Entities),             \* job_ids still to be processed, the current one first
   read : Contents,                   \* the snapshot of the current job
   how : {"none", "disabled", "skip", "ok", "empty"},
   has : {"lock", "nothing"}]         \* whether the lock was granted to this analysis

Settled == [still |-> "nothing", to |-> "gone"]
Idle == [at |-> "poll", batch |-> <<>>, read |-> "gone", how |-> "none", has |-> "nothing"]
Free == [by |-> "nobody", busy |-> FALSE, depth |-> 0]

\* Depth 2 stands for two or more: taken again on the same connection.
LockStates == [by : Workers \union {"nobody"}, busy : BOOLEAN, depth : 0 .. 2]

Open == {e \in Entities : job[e].status # "done"}

\* The types; the jobs that are not done are ordered by the time they were last
\* touched, each in one place (the unique row per entity of
\* _enqueue_analysis_job).
TypeOK ==
  /\ projectOf \in [Entities -> Projects]
  /\ enabled \subseteq Projects
  /\ content \in [Entities -> Contents]
  /\ pending \in [Entities -> [still : {"nothing", "event", "row"}, to : Contents]]
  /\ job \in [Entities -> [status : Statuses, due : BOOLEAN]]
  /\ older \subseteq Open \X Open
  /\ \A e, f \in Open : <<e, f>> \in older =>
       <<f, e>> \notin older /\ \A g \in Open : <<e, g>> \in older \/ <<g, f>> \in older
  /\ hash \in [Entities -> Contents \union {NoHash}]
  /\ graph \in [Entities -> {Links(c) : c \in Contents} \union {"part"}]
  /\ lock \in [Projects -> LockStates]
  /\ worker \in [Workers -> WorkerStates]
  /\ missed \subseteq Entities /\ dirty \subseteq Entities /\ raced \subseteq Entities
  /\ events \in 0 .. MaxEvents

\* Every entity exists and has been analysed.
Init ==
  /\ projectOf \in [Entities -> Projects]
  /\ enabled = Projects
  /\ content = [e \in Entities |-> First]
  /\ pending = [e \in Entities |-> Settled]
  /\ job = [e \in Entities |-> [status |-> "done", due |-> TRUE]]
  /\ older = {}
  /\ hash = content
  /\ graph = [e \in Entities |-> Links(content[e])]
  /\ lock = [p \in Projects |-> Free]
  /\ worker = [w \in Workers |-> Idle]
  /\ missed = {} /\ dirty = {} /\ raced = {}
  /\ events = 0

Event == events < MaxEvents /\ events' = events + 1

Happens(what) == what \in Faults /\ Event

Current(w) == Head(worker[w].batch)

\* A worker analyses content of e that it has read.
LoadedBy(w, e) == worker[w].at \in {"sync", "finish", "fail"} /\ Current(w) = e
Loaded(e) == \E w \in Workers : LoadedBy(w, e)

\* It has not failed so far.
Works(w, e) == worker[w].at \in {"sync", "finish"} /\ Current(w) = e

\* Fault variant: a job per event, not one per entity.
JobPerEvent(S) == older \union ((Open \ S) \X S)

\* updated_at of the jobs in S becomes now.
Touched(S) == {p \in older : p[1] \notin S /\ p[2] \notin S} \union ((Open \ S) \X S)

Set(S, status, due) ==
  /\ job' = [e \in Entities |-> IF e \in S THEN [status |-> status, due |-> due] ELSE job[e]]
  /\ older' = Touched(S)

-----------------------------------------------------------------------------
(* Changes of the entities, and the projection worker.                     *)

\* A command changes an entity, or deletes it for good; its row in the read
\* model and the delivery of its event to the projection worker come in
\* either order.
Change(e, c) ==
  /\ Event
  /\ pending[e] = Settled /\ content[e] \notin {"gone", c}
  /\ \/ /\ content' = [content EXCEPT ![e] = c]
        /\ pending' = [pending EXCEPT ![e].still = "event"]
        /\ UNCHANGED <<job, older>>
     \/ /\ "late" \in Faults
        /\ pending' = [pending EXCEPT ![e] = [still |-> "row", to |-> c]]
        /\ IF projectOf[e] \in enabled THEN Set({e}, "queued", TRUE) ELSE UNCHANGED <<job, older>>
        /\ UNCHANGED content
  /\ UNCHANGED <<projectOf, enabled, hash, graph, lock, worker, missed, dirty, raced>>

\* _enqueue_analysis_job, for a project that is enabled.
Enqueue(e) ==
  /\ pending[e].still = "event"
  /\ pending' = [pending EXCEPT ![e] = Settled]
  /\ IF projectOf[e] \in enabled
     THEN /\ Set({e}, "queued", TRUE)
          /\ missed' = IF Loaded(e) THEN missed \union {e} ELSE missed
     ELSE missed' = missed \union {e} /\ UNCHANGED <<job, older>>
  /\ UNCHANGED <<projectOf, enabled, content, hash, graph, lock, worker, dirty, raced, events>>

\* The row comes after the event: too late if the job was done meanwhile.
LateRow(e) ==
  /\ pending[e].still = "row"
  /\ content' = [content EXCEPT ![e] = pending[e].to]
  /\ pending' = [pending EXCEPT ![e] = Settled]
  /\ missed' = IF Loaded(e) \/ job[e].status = "done" THEN missed \union {e} ELSE missed
  /\ UNCHANGED <<projectOf, enabled, job, older, hash, graph, lock, worker, dirty, raced, events>>

Disable(p) ==
  /\ p \in enabled
  /\ Happens("disable")
  /\ enabled' = enabled \ {p}
  /\ UNCHANGED <<projectOf, content, pending, job, older, hash, graph, lock, worker, missed, dirty, raced>>

\* Switched on again: enqueue_event_storming_project_backfill, for what is not
\* deleted.
Enable(p) ==
  /\ p \notin enabled
  /\ enabled' = enabled \union {p}
  /\ LET kept == {e \in Entities : projectOf[e] = p /\ content[e] # "gone"}
     IN /\ Set(kept, "queued", TRUE)
        /\ missed' = missed \union {e \in kept : Loaded(e)}
  /\ UNCHANGED <<projectOf, content, pending, hash, graph, lock, worker, dirty, raced, events>>

\* next_attempt_at is reached.
Due(e) ==
  /\ ~job[e].due
  /\ job' = [job EXCEPT ![e].due = TRUE]
  /\ UNCHANGED <<projectOf, enabled, content, pending, older, hash, graph, lock, worker, missed,
                 dirty, raced, events>>

-----------------------------------------------------------------------------
(* Claims.                                                                 *)

At(w, stage) == worker[w].at = stage
Goto(w, stage) == worker' = [worker EXCEPT ![w].at = stage]

\* The analysis is over: what it had read is forgotten.
Leave(w, stage) ==
  worker' = [worker EXCEPT ![w] = [Idle EXCEPT !.at = stage, !.batch = worker[w].batch,
                                               !.has = worker[w].has]]

Attended(e) == \E w \in Workers : Contains(worker[w].batch, e)

\* Marked as running by a process that is gone.
Abandoned == {e \in Entities : job[e].status = "running" /\ ~Attended(e)}

\* _recover_stale_running_analysis_jobs_once: jobs that nobody works on, or one
\* whose analysis takes longer than the threshold.
Recover(w, S) ==
  /\ At(w, "poll")
  /\ S # {} /\ \A e \in S : job[e].status = "running"
  /\ IF S \subseteq Abandoned THEN UNCHANGED events ELSE Happens("slow")
  /\ Set(S, "queued", TRUE)
  /\ UNCHANGED <<projectOf, enabled, content, pending, hash, graph, lock, worker, missed, dirty, raced>>

\* Fault variant: failed jobs are not claimed again.
QueuedOnly(e) == job[e].due /\ job[e].status = "queued"

Waiting(e) == job[e].due /\ job[e].status \in {"queued", "failed"}

\* _claim_analysis_jobs reads the oldest waiting job of every project ...
Claims ==
  LET waiting == {e \in Entities : Waiting(e)}
  IN {C \in SUBSET waiting :
        /\ \A e \in waiting : \E c \in C : projectOf[c] = projectOf[e] /\ <<e, c>> \notin older
        /\ \A c, d \in C : projectOf[c] = projectOf[d] => c = d}

\* ... in the order of updated_at.
ByAge(C) ==
  {s \in [1 .. Cardinality(C) -> C] :
     \A i, k \in 1 .. Cardinality(C) : i < k => s[i] # s[k] /\ <<s[k], s[i]>> \notin older}

Select(w) ==
  /\ At(w, "poll")
  /\ \E C \in Claims \ {{}} : \E ids \in ByAge(C) :
       worker' = [worker EXCEPT ![w].at = "claim", ![w].batch = ids]
  /\ UNCHANGED <<projectOf, enabled, content, pending, job, older, hash, graph, lock, missed,
                 dirty, raced, events>>

\* ... and marks them, whatever has become of them since.
Mark(w) ==
  /\ At(w, "claim")
  /\ LET S == ToSet(worker[w].batch)
     IN job' = [e \in Entities |-> IF e \in S THEN [job[e] EXCEPT !.status = "running"] ELSE job[e]]
        /\ older' = Touched(S)
  /\ Goto(w, "look")
  /\ UNCHANGED <<projectOf, enabled, content, pending, hash, graph, lock, missed, dirty, raced, events>>

-----------------------------------------------------------------------------
(* _process_analysis_job.                                                  *)

\* On to the next claimed job, or back to the loop.
Done(w) ==
  LET rest == Tail(worker[w].batch)
  IN worker' = [worker EXCEPT ![w] = [Idle EXCEPT !.batch = rest,
                                                  !.at = IF rest = <<>> THEN "poll" ELSE "look"]]

Look(w) ==
  /\ At(w, "look")
  /\ IF job[Current(w)].status = "running" THEN Goto(w, "lock") ELSE Done(w)
  /\ UNCHANGED <<projectOf, enabled, content, pending, job, older, hash, graph, lock, missed,
                 dirty, raced, events>>

Owner(w) == projectOf[Current(w)]

\* Fault variant: a lock per entity, not one per project.
LockPerEntity(w) == \A v \in Workers \ {w} : ~Works(v, Current(w))

\* pg_try_advisory_lock: a connection gets the lock it has.
MayLock(w) == lock[Owner(w)].by \in {"nobody", w}

\* What becomes of an analysis: skipped if the project is disabled or the
\* entity's last completed run read the same.
Verdict(e) ==
  IF projectOf[e] \notin enabled THEN "disabled"
  ELSE IF content[e] # "gone" /\ hash[e] = content[e] THEN "skip"
  ELSE "none"

\* The analysis reads the entity.
Reads(w, has) ==
  LET e == Current(w)
  IN /\ worker' = [worker EXCEPT ![w].at = IF Verdict(e) = "none" THEN "sync" ELSE "finish",
                                 ![w].how = Verdict(e), ![w].read = content[e],
                                 ![w].has = has]
     /\ missed' = IF Verdict(e) = "disabled" THEN missed \union {e} ELSE missed \ {e}
     /\ raced' = IF \E v \in Workers \ {w} : Works(v, e) THEN raced \union {e} ELSE raced

\* The session draws the connection that has the lock, or any if none has it.
Lock(w) ==
  /\ At(w, "lock") /\ MayLock(w)
  /\ lock' = [lock EXCEPT ![Owner(w)] = [by |-> w, busy |-> TRUE,
                                         depth |-> IF @.depth = 0 THEN 1 ELSE 2]]
  /\ Reads(w, "lock")
  /\ UNCHANGED <<projectOf, enabled, content, pending, job, older, hash, graph, dirty, events>>

\* The query for the lock fails, which _try_acquire_project_lock takes for the
\* lock: the analysis goes on without it, or its next query fails as well.
LockUnanswered(w) ==
  /\ At(w, "lock") /\ Happens("unanswered")
  /\ \/ Reads(w, "nothing")
     \/ /\ worker' = [worker EXCEPT ![w].at = "fail", ![w].has = "nothing"]
        /\ UNCHANGED <<missed, raced>>
  /\ UNCHANGED <<projectOf, enabled, content, pending, job, older, hash, graph, lock, dirty>>

\* Another connection has it: try again in two seconds.
NoLock(w) ==
  /\ At(w, "lock") /\ lock[Owner(w)] # Free
  /\ Set({Current(w)}, "queued", FALSE)
  /\ Done(w)
  /\ UNCHANGED <<projectOf, enabled, content, pending, hash, graph, lock, missed, dirty, raced, events>>

\* _sync_graph_for_job; an extraction that finds nothing leaves the links alone.
Sync(w) ==
  /\ At(w, "sync")
  /\ LET e == Current(w)
     IN /\ \/ /\ graph' = [graph EXCEPT ![e] = Links(worker[w].read)]
              /\ worker' = [worker EXCEPT ![w].at = "finish", ![w].how = "ok"]
              /\ UNCHANGED events
           \/ /\ worker[w].read # "gone" /\ Happens("empty")
              /\ worker' = [worker EXCEPT ![w].at = "finish", ![w].how = "empty"]
              /\ UNCHANGED graph
        /\ dirty' = dirty \union {e}
  /\ UNCHANGED <<projectOf, enabled, content, pending, job, older, hash, lock, missed, raced>>

\* It raises, before its writes or between them.
SyncRaises(w) ==
  /\ At(w, "sync")
  /\ \/ Happens("raise") /\ UNCHANGED <<graph, dirty>>
     \/ /\ Happens("partial")
        /\ graph' = [graph EXCEPT ![Current(w)] = "part"]
        /\ dirty' = dirty \union {Current(w)}
  /\ Leave(w, "fail")
  /\ UNCHANGED <<projectOf, enabled, content, pending, job, older, hash, lock, missed, raced>>

\* Fault variant: the hash of what was read, even if it was not analysed.
HashAsRead(w) == worker[w].read

\* The input_hash of the run; none for a deleted entity or a disabled project.
RunHash(w) ==
  IF worker[w].how = "disabled" \/ worker[w].read = "gone" THEN NoHash ELSE worker[w].read

\* The run and the status, over a "queued" that came during the analysis.
Finish(w) ==
  /\ At(w, "finish")
  /\ LET e == Current(w)
     IN /\ hash' = [hash EXCEPT ![e] = RunHash(w)]
        /\ job' = [job EXCEPT ![e].status = "done"]
        /\ older' = {p \in older : p[1] # e /\ p[2] # e}
        /\ dirty' = IF worker[w].how = "ok" THEN dirty \ {e} ELSE dirty
  /\ Leave(w, "release")
  /\ UNCHANGED <<projectOf, enabled, content, pending, graph, lock, missed, raced, events>>

Fail(w) ==
  /\ At(w, "fail")
  /\ Set({Current(w)}, "failed", FALSE)
  /\ Leave(w, "release")
  /\ UNCHANGED <<projectOf, enabled, content, pending, hash, graph, lock, missed, dirty, raced, events>>

\* pg_advisory_unlock.  The commit has given the connection back to the pool;
\* if the session now draws another one, the lock stays with the first.  Without
\* a lock of its own, the analysis undoes one that was left so, or none.
Release(w) ==
  /\ At(w, "release")
  /\ \/ /\ lock[Owner(w)].by = w
        /\ lock' = [lock EXCEPT ![Owner(w)] =
                       IF @.depth = 1 THEN Free ELSE [@ EXCEPT !.busy = FALSE, !.depth = 1]]
     \/ worker[w].has = "lock" /\ lock' = [lock EXCEPT ![Owner(w)].busy = FALSE]
     \/ worker[w].has = "nothing" /\ lock' = lock
  /\ Done(w)
  /\ UNCHANGED <<projectOf, enabled, content, pending, job, older, hash, graph, missed, dirty, raced, events>>

\* pool_recycle: a connection that is old enough is closed when it is drawn.
Recycle(p) ==
  /\ lock[p].by # "nobody" /\ ~lock[p].busy
  /\ lock' = [lock EXCEPT ![p] = Free]
  /\ UNCHANGED <<projectOf, enabled, content, pending, job, older, hash, graph, worker, missed,
                 dirty, raced, events>>

-----------------------------------------------------------------------------
\* The process dies, and with it its connections; nobody repeats an analysis
\* that was a repetition itself.
Crash(w) ==
  /\ ~At(w, "down")
  /\ Happens("crash")
  /\ worker' = [worker EXCEPT ![w] = [Idle EXCEPT !.at = "down"]]
  /\ lock' = [p \in Projects |-> IF lock[p].by = w THEN Free ELSE lock[p]]
  /\ missed' = missed \union {e \in Entities : LoadedBy(w, e) /\ job[e].status = "done"}
  /\ UNCHANGED <<projectOf, enabled, content, pending, job, older, hash, graph, dirty, raced>>

Restart(w) ==
  /\ At(w, "down")
  /\ Goto(w, "poll")
  /\ UNCHANGED <<projectOf, enabled, content, pending, job, older, hash, graph, lock, missed,
                 dirty, raced, events>>

Process(w) ==
  \/ Mark(w) \/ Look(w) \/ Lock(w) \/ LockUnanswered(w) \/ NoLock(w) \/ Sync(w) \/ SyncRaises(w)
  \/ Finish(w) \/ Fail(w) \/ Release(w) \/ Restart(w)

Next ==
  \/ \E e \in Entities : Enqueue(e) \/ LateRow(e) \/ Due(e) \/ \E c \in Contents : Change(e, c)
  \/ \E p \in Projects : Disable(p) \/ Enable(p) \/ Recycle(p)
  \/ \E w \in Workers : Process(w) \/ Select(w) \/ Crash(w) \/ \E S \in SUBSET Entities : Recover(w, S)

\* Workers run, events are delivered, time passes.
Fairness ==
  /\ \A e \in Entities : WF_vars(Enqueue(e) \/ LateRow(e)) /\ WF_vars(Due(e))
  /\ \A p \in Projects : WF_vars(Recycle(p))
  /\ \A w \in Workers :
       /\ WF_vars(Process(w) \/ Select(w))
       /\ WF_vars(Recover(w, Abandoned))

Spec == Init /\ [][Next]_vars /\ Fairness

-----------------------------------------------------------------------------
(* Properties.                                                             *)

Analysing(w) == worker[w].at \in {"sync", "finish", "fail"}

\* Of the analyses that were granted the project's lock there is one at a time,
\* although stale recovery queues a job that a slow worker still has, two
\* workers may mark the same job, and a lock may stay with a pooled connection
\* (_try_acquire_project_lock).  It excepts analyses that go on without the lock
\* because the query for it failed.
OneAnalysisPerProject ==
  \A v, w \in Workers :
    /\ Analysing(v) /\ worker[v].has = "lock"
    /\ Analysing(w) /\ worker[w].has = "lock"
    /\ Owner(v) = Owner(w)
    => v = w

\* When a job is done, its entity's changes have arrived and no repeated
\* analysis of it is under way, the links are those of the entity's content:
\* recorded hashes, skipped runs, retries, recoveries and repeated claims
\* included (_process_analysis_job), and also an analysis that runs without the
\* project's lock beside that of another entity.  It excepts changes that came
\* during the analysis they belonged to or while the project was disabled
\* (missed), links that no completed run wrote (dirty), and entities that two
\* workers analysed at once, one of them without the lock (raced).
GraphIsCurrent ==
  \A e \in Entities :
    /\ job[e].status = "done" /\ pending[e] = Settled /\ ~Loaded(e)
    /\ e \notin missed \union dirty \union raced
    => graph[e] = Links(content[e])

ClaimedTwice == \E v, w \in Workers : v # w /\ ToSet(worker[v].batch) \cap ToSet(worker[w].batch) # {}

\* A job that waits, fails or was lost in a crash is done in the end, even if
\* the project's lock was left with a connection of the pool; unless workers
\* claim the same jobs together again and again: the second to come to the
\* lock queues the job once more, and so keeps others from the lock.
JobsSettle ==
  []<>ClaimedTwice \/ \A e \in Entities : job[e].status # "done" ~> job[e].status = "done"
=============================================================================
