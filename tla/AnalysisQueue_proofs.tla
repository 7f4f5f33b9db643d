------------------------ MODULE AnalysisQueue_proofs -------------------------
(***************************************************************************)
(* Proofs about the analysis jobs, for any entities, projects, workers and *)
(* faults: the types, one analysis per project at a time, and graphs that  *)
(* are current when their job is done.                                     *)
(*                                                                         *)
(* A worker that was granted the project's lock has it on a connection     *)
(* that is in use, so that neither the pool nor another worker can take    *)
(* it.  A worker may also go on without the lock; but as long as no two    *)
(* analyse one entity at a time, the one that does is alone in writing the *)
(* entity's links, hash and flags until it is through, and what it has     *)
(* read stays true of the entity unless the change is pending or missed.   *)
(***************************************************************************)
EXTENDS AnalysisQueue, FiniteSetTheorems, TLAPS

-----------------------------------------------------------------------------
(* The inductive invariant.                                                *)

HasLock(w) == worker[w].at \in {"sync", "finish", "fail", "release"} /\ worker[w].has = "lock"

\* A worker past the claim has a job; one that was granted the lock has it.
BatchInv(w) == worker[w].at \notin {"down", "poll"} => worker[w].batch # <<>>
LockInv(w) == HasLock(w) => lock[Owner(w)].by = w /\ lock[Owner(w)].busy

\* What worker w has read of its entity e is the content, and what it has found out holds of
\* the hash, the links and the flags.
ReadInv(w, e) ==
  /\ ~At(w, "fail") /\ pending[e] = Settled /\ e \notin missed => worker[w].read = content[e]
  /\ At(w, "finish") =>
       /\ worker[w].how # "none"
       /\ worker[w].how = "disabled" => e \in missed
       /\ worker[w].how = "skip" => worker[w].read # "gone" /\ hash[e] = worker[w].read
       /\ worker[w].how = "ok" => graph[e] = Links(worker[w].read)
       /\ worker[w].how = "empty" => e \in dirty

\* The last completed run of an entity wrote the links of what it read.
HashInv(e) == e \notin dirty /\ hash[e] # NoHash => graph[e] = Links(hash[e])

\* Nobody has come to an entity that another works on.
AloneInv(e) == \A v, w \in Workers : Works(v, e) /\ Works(w, e) => v = w

\* GraphIsCurrent, of one entity.
GraphInv(e) ==
  job[e].status = "done" /\ pending[e] = Settled /\ ~Loaded(e) /\ e \notin missed \union dirty
    => graph[e] = Links(content[e])

IInv ==
  /\ TypeOK
  /\ \A w \in Workers : BatchInv(w) /\ LockInv(w)
  /\ \A e \in Entities \ raced :
       /\ AloneInv(e) /\ HashInv(e) /\ GraphInv(e)
       /\ \A w \in Workers : LoadedBy(w, e) => ReadInv(w, e)

-----------------------------------------------------------------------------
(* The types.                                                              *)

Ordered ==
  /\ older \subseteq Open \X Open
  /\ \A e, f \in Open : <<e, f>> \in older =>
       <<f, e>> \notin older /\ \A g \in Open : <<e, g>> \in older \/ <<g, f>> \in older

JobStates == [status : Statuses, due : BOOLEAN]

LEMMA OrderKept ==
  ASSUME Ordered, older' = older, Open' = Open
  PROVE  Ordered'
<1>1. older' \subseteq Open' \X Open'
  BY DEF Ordered
<1>2. ASSUME NEW e \in Open', NEW f \in Open', <<e, f>> \in older'
      PROVE  <<f, e>> \notin older' /\ \A g \in Open' : <<e, g>> \in older' \/ <<g, f>> \in older'
  BY <1>2 DEF Ordered
<1>. QED
  BY <1>1, <1>2 DEF Ordered

\* The jobs of S are touched, and none of them is done then.
Touch(S) ==
  /\ \A e \in S : job'[e].status # "done"
  /\ \A e \in Entities \ S : job'[e].status = job[e].status
  /\ older' = Touched(S)

LEMMA TouchedOrder ==
  ASSUME Ordered, NEW S \in SUBSET Entities, Touch(S)
  PROVE  Ordered'
<1>1. Open' = Open \union S
  BY DEF Open, Touch
<1>2. \A e, f : <<e, f>> \in older' <=>
        \/ <<e, f>> \in older /\ e \notin S /\ f \notin S
        \/ e \in Open \ S /\ f \in S
  <2>1. older' = {p \in older : p[1] \notin S /\ p[2] \notin S} \union ((Open \ S) \X S)
    BY DEF Touch, Touched
  <2>. QED
    BY <2>1
<1>3. older' \subseteq Open' \X Open'
  <2>. SUFFICES ASSUME NEW p \in older' PROVE p \in Open' \X Open'
    OBVIOUS
  <2>1. p \in older \/ p \in (Open \ S) \X S
    BY DEF Touch, Touched
  <2>. QED
    BY <1>1, <2>1 DEF Ordered
<1>4. ASSUME NEW e \in Open', NEW f \in Open', <<e, f>> \in older'
      PROVE  <<f, e>> \notin older' /\ \A g \in Open' : <<e, g>> \in older' \/ <<g, f>> \in older'
  BY <1>1, <1>2, <1>4 DEF Ordered
<1>. QED
  BY <1>3, <1>4 DEF Ordered

\* What a step of Set does to the jobs.
LEMMA SetTouches ==
  ASSUME TypeOK, NEW S \in SUBSET Entities, NEW status \in Statuses \ {"done"}, NEW due \in BOOLEAN,
         Set(S, status, due)
  PROVE  job' \in [Entities -> JobStates] /\ Touch(S)
<1>1. job' = [e \in Entities |-> IF e \in S THEN [status |-> status, due |-> due] ELSE job[e]]
      /\ older' = Touched(S)
  BY DEF Set
<1>2. job \in [Entities -> JobStates]
  BY DEF TypeOK, JobStates
<1>3. job' \in [Entities -> JobStates]
  <2>1. [status |-> status, due |-> due] \in JobStates
    BY DEF JobStates
  <2>. QED
    BY <1>1, <1>2, <2>1
<1>. QED
  BY <1>1, <1>3 DEF Touch

LEMMA JobStep ==
  ASSUME TypeOK, \A w \in Workers : BatchInv(w), [Next]_vars
  PROVE  job' \in [Entities -> JobStates] /\ Ordered'
<1>0. job \in [Entities -> JobStates] /\ Ordered /\ worker \in [Workers -> WorkerStates]
  BY DEF TypeOK, Ordered, JobStates
<1>1. ASSUME UNCHANGED <<job, older>> PROVE job' \in [Entities -> JobStates] /\ Ordered'
  BY <1>0, <1>1 DEF Ordered, Open
<1>2. ASSUME NEW S \in SUBSET Entities, NEW status \in Statuses \ {"done"}, NEW due \in BOOLEAN,
             Set(S, status, due)
      PROVE  job' \in [Entities -> JobStates] /\ Ordered'
  BY <1>0, <1>2, SetTouches, TouchedOrder
<1>3. "queued" \in Statuses \ {"done"} /\ "failed" \in Statuses \ {"done"} /\ "running" \in Statuses
  BY DEF Statuses
<1>4. ASSUME NEW w \in Workers, worker[w].at \notin {"down", "poll"}
      PROVE  Current(w) \in Entities
  BY <1>0, <1>4 DEF Current, BatchInv, WorkerStates
<1>5. ASSUME NEW e \in Entities, Enqueue(e) \/ LateRow(e) \/ \E c \in Contents : Change(e, c)
      PROVE  job' \in [Entities -> JobStates] /\ Ordered'
  <2>1. UNCHANGED <<job, older>> \/ Set({e}, "queued", TRUE)
    BY <1>5 DEF Enqueue, LateRow, Change
  <2>. QED
    BY <1>1, <1>2, <1>3, <2>1
<1>6. ASSUME NEW e \in Entities, Due(e) PROVE job' \in [Entities -> JobStates] /\ Ordered'
  <2>1. job' = [job EXCEPT ![e].due = TRUE] /\ older' = older
    BY <1>6 DEF Due
  <2>2. job' \in [Entities -> JobStates]
    BY <1>0, <2>1 DEF JobStates
  <2>3. Open' = Open
    BY <1>0, <2>1, <2>2 DEF Open, JobStates
  <2>4. Ordered'
    BY <1>0, <2>1, <2>3, OrderKept
  <2>. QED
    BY <2>2, <2>4
<1>7. ASSUME NEW p \in Projects, Disable(p) \/ Enable(p) \/ Recycle(p)
      PROVE  job' \in [Entities -> JobStates] /\ Ordered'
  <2>1. UNCHANGED <<job, older>> \/ Set({e \in Entities : projectOf[e] = p /\ content[e] # "gone"}, "queued", TRUE)
    BY <1>7 DEF Disable, Enable, Recycle
  <2>. QED
    BY <1>1, <1>2, <1>3, <2>1
<1>8. ASSUME NEW w \in Workers,
             \/ Look(w) \/ Lock(w) \/ LockUnanswered(w) \/ Sync(w) \/ SyncRaises(w) \/ Release(w)
             \/ Restart(w) \/ Select(w) \/ Crash(w)
      PROVE  job' \in [Entities -> JobStates] /\ Ordered'
  BY <1>1, <1>8 DEF Look, Lock, LockUnanswered, Sync, SyncRaises, Release, Restart, Select, Crash
<1>9. ASSUME NEW w \in Workers, NEW S \in SUBSET Entities, Recover(w, S)
      PROVE  job' \in [Entities -> JobStates] /\ Ordered'
  BY <1>2, <1>3, <1>9 DEF Recover
<1>10. ASSUME NEW w \in Workers, NoLock(w) \/ Fail(w) PROVE job' \in [Entities -> JobStates] /\ Ordered'
  <2>1. {Current(w)} \in SUBSET Entities
    BY <1>4, <1>10 DEF NoLock, Fail, At
  <2>2. \E status \in {"queued", "failed"} : Set({Current(w)}, status, FALSE)
    BY <1>10 DEF NoLock, Fail
  <2>. QED
    BY <1>2, <1>3, <2>1, <2>2
<1>11. ASSUME NEW w \in Workers, Mark(w) PROVE job' \in [Entities -> JobStates] /\ Ordered'
  <2>. DEFINE S == ToSet(worker[w].batch)
  <2>1. S \in SUBSET Entities
    BY <1>0 DEF WorkerStates, ToSet
  <2>2. /\ job' = [e \in Entities |-> IF e \in S THEN [job[e] EXCEPT !.status = "running"] ELSE job[e]]
        /\ older' = Touched(S)
    BY <1>11 DEF Mark
  <2>. HIDE DEF S
  <2>3. job' \in [Entities -> JobStates]
    BY <1>0, <1>3, <2>2 DEF JobStates
  <2>4. Touch(S)
    BY <1>0, <2>1, <2>2 DEF Touch, JobStates
  <2>. QED
    BY <1>0, <2>1, <2>3, <2>4, TouchedOrder
<1>12. ASSUME NEW w \in Workers, Finish(w) PROVE job' \in [Entities -> JobStates] /\ Ordered'
  <2>. DEFINE e == Current(w)
  <2>1. /\ job' = [job EXCEPT ![e].status = "done"]
        /\ older' = {p \in older : p[1] # e /\ p[2] # e}
    BY <1>12 DEF Finish
  <2>2. e \in Entities
    BY <1>4, <1>12 DEF Finish, At
  <2>. HIDE DEF e
  <2>3. job' \in [Entities -> JobStates]
    BY <1>0, <2>1, <2>2 DEF JobStates, Statuses
  <2>4. Open' = Open \ {e}
    BY <1>0, <2>1, <2>2 DEF Open, JobStates
  <2>5. older' \subseteq Open' \X Open'
    BY <1>0, <2>1, <2>4 DEF Ordered
  <2>6. \A f, g : <<f, g>> \in older' <=> <<f, g>> \in older /\ f # e /\ g # e
    BY <2>1
  <2>7. ASSUME NEW f \in Open', NEW g \in Open', <<f, g>> \in older'
        PROVE  <<g, f>> \notin older' /\ \A h \in Open' : <<f, h>> \in older' \/ <<h, g>> \in older'
    BY <1>0, <2>4, <2>6, <2>7 DEF Ordered
  <2>8. Ordered'
    BY <2>5, <2>7 DEF Ordered
  <2>. QED
    BY <2>3, <2>8
<1>. QED
  BY <1>1, <1>5, <1>6, <1>7, <1>8, <1>9, <1>10, <1>11, <1>12 DEF Next, Process, vars

\* A claim is a sequence of entities, and not empty.
LEMMA ClaimIsBatch ==
  ASSUME NEW C \in SUBSET Entities, C # {}, NEW ids \in ByAge(C)
  PROVE  ids \in Seq(Entities) /\ ids # <<>>
<1>1. IsFiniteSet(C)
  BY EntitiesAssumption, FS_Subset
<1>2. Cardinality(C) \in Nat \ {0}
  BY <1>1, FS_CardinalityType, FS_EmptySet
<1>3. ids \in [1 .. Cardinality(C) -> C]
  BY DEF ByAge
<1>. QED
  BY <1>2, <1>3

LEMMA StageNext ==
  ASSUME TypeOK, NEW w \in Workers, NEW stage \in {"claim", "look", "lock", "sync", "finish", "fail", "release", "poll"},
         Goto(w, stage)
  PROVE  worker' \in [Workers -> WorkerStates] /\ worker'[w].batch = worker[w].batch /\ worker'[w].at = stage
         /\ \A v \in Workers \ {w} : worker'[v] = worker[v]
<1>1. worker \in [Workers -> WorkerStates] /\ worker' = [worker EXCEPT ![w] = [worker[w] EXCEPT !.at = stage]]
  BY DEF TypeOK, Goto
<1>2. [worker[w] EXCEPT !.at = stage] \in WorkerStates
  BY <1>1 DEF WorkerStates
<1>3. [worker[w] EXCEPT !.at = stage].batch = worker[w].batch /\ [worker[w] EXCEPT !.at = stage].at = stage
  BY <1>1 DEF WorkerStates
<1>. QED
  BY <1>1, <1>2, <1>3

\* A worker that is between two analyses.
LEMMA IdleAt ==
  ASSUME NEW stage, NEW batch
  PROVE  [Idle EXCEPT !.at = stage, !.batch = batch]
           = [at |-> stage, batch |-> batch, read |-> "gone", how |-> "none", has |-> "nothing"]
         /\ [Idle EXCEPT !.batch = batch, !.at = stage]
           = [at |-> stage, batch |-> batch, read |-> "gone", how |-> "none", has |-> "nothing"]
<1>1. [Idle EXCEPT !.at = stage] = [at |-> stage, batch |-> <<>>, read |-> "gone", how |-> "none", has |-> "nothing"]
  BY DEF Idle
<1>2. [Idle EXCEPT !.batch = batch] = [at |-> "poll", batch |-> batch, read |-> "gone", how |-> "none", has |-> "nothing"]
  BY DEF Idle
<1>3. [Idle EXCEPT !.at = stage, !.batch = batch] = [[Idle EXCEPT !.at = stage] EXCEPT !.batch = batch]
      /\ [Idle EXCEPT !.batch = batch, !.at = stage] = [[Idle EXCEPT !.batch = batch] EXCEPT !.at = stage]
  OBVIOUS
<1>4. [[at |-> stage, batch |-> <<>>, read |-> "gone", how |-> "none", has |-> "nothing"] EXCEPT !.batch = batch]
        = [at |-> stage, batch |-> batch, read |-> "gone", how |-> "none", has |-> "nothing"]
  OBVIOUS
<1>5. [[at |-> "poll", batch |-> batch, read |-> "gone", how |-> "none", has |-> "nothing"] EXCEPT !.at = stage]
        = [at |-> stage, batch |-> batch, read |-> "gone", how |-> "none", has |-> "nothing"]
  OBVIOUS
<1>. QED
  BY <1>1, <1>2, <1>3, <1>4, <1>5

LEMMA DoneNext ==
  ASSUME TypeOK, NEW w \in Workers, worker[w].batch # <<>>, Done(w)
  PROVE  /\ worker' \in [Workers -> WorkerStates]
         /\ worker'[w].at \in {"poll", "look"} /\ (worker'[w].at = "look" => worker'[w].batch # <<>>)
         /\ \A v \in Workers \ {w} : worker'[v] = worker[v]
<1>. DEFINE rest == Tail(worker[w].batch)
            next == [Idle EXCEPT !.batch = rest, !.at = IF rest = <<>> THEN "poll" ELSE "look"]
<1>1. worker' = [worker EXCEPT ![w] = next]
  BY DEF Done
<1>2. rest \in Seq(Entities) /\ worker \in [Workers -> WorkerStates]
  BY DEF TypeOK, WorkerStates
<1>. HIDE DEF rest
<1>3. next = [at |-> IF rest = <<>> THEN "poll" ELSE "look", batch |-> rest, read |-> "gone", how |-> "none",
              has |-> "nothing"]
  BY IdleAt
<1>4. next \in WorkerStates
  BY <1>2, <1>3, ContentsAssumption DEF WorkerStates
<1>5. next.at \in {"poll", "look"} /\ (next.at = "look" => next.batch # <<>>)
  BY <1>3
<1>. HIDE DEF next
<1>. QED
  BY <1>1, <1>2, <1>4, <1>5

LEMMA LeaveNext ==
  ASSUME TypeOK, NEW w \in Workers, NEW stage \in {"fail", "release"}, Leave(w, stage)
  PROVE  /\ worker' \in [Workers -> WorkerStates]
         /\ worker'[w].at = stage /\ worker'[w].batch = worker[w].batch
         /\ worker'[w].has = worker[w].has
         /\ \A v \in Workers \ {w} : worker'[v] = worker[v]
<1>. DEFINE batch == worker[w].batch
            has == worker[w].has
            next == [at |-> stage, batch |-> batch, read |-> "gone", how |-> "none", has |-> has]
<1>1. [Idle EXCEPT !.at = stage, !.batch = batch, !.has = has]
        = [[Idle EXCEPT !.at = stage, !.batch = batch] EXCEPT !.has = has]
  OBVIOUS
<1>0. [[at |-> stage, batch |-> batch, read |-> "gone", how |-> "none", has |-> "nothing"] EXCEPT !.has = has]
        = next
  OBVIOUS
<1>2. [Idle EXCEPT !.at = stage, !.batch = batch, !.has = has] = next
  BY <1>0, <1>1, IdleAt
<1>3. worker' = [worker EXCEPT ![w] = next]
  BY <1>2 DEF Leave
<1>4. worker \in [Workers -> WorkerStates] /\ batch \in Seq(Entities) /\ has \in {"lock", "nothing"}
  BY DEF TypeOK, WorkerStates
<1>. HIDE DEF batch, has
<1>5. next \in WorkerStates
  BY <1>4, ContentsAssumption DEF WorkerStates
<1>. QED
  BY <1>3, <1>4, <1>5 DEF batch, has

\* What an analysis that reads its entity does to its worker.
LEMMA ReadsNext ==
  ASSUME TypeOK, NEW w \in Workers, BatchInv(w), At(w, "lock"), NEW has \in {"lock", "nothing"}, Reads(w, has)
  PROVE  /\ worker' \in [Workers -> WorkerStates] /\ Current(w) \in Entities
         /\ worker'[w].batch = worker[w].batch /\ worker'[w].has = has
         /\ worker'[w].at = (IF Verdict(Current(w)) = "none" THEN "sync" ELSE "finish")
         /\ worker'[w].how = Verdict(Current(w)) /\ worker'[w].read = content[Current(w)]
         /\ \A v \in Workers \ {w} : worker'[v] = worker[v]
<1>. DEFINE stage == IF Verdict(Current(w)) = "none" THEN "sync" ELSE "finish"
            how == Verdict(Current(w))
            read == content[Current(w)]
<1>0. worker \in [Workers -> WorkerStates]
  BY DEF TypeOK
<1>1. worker' = [worker EXCEPT ![w].at = stage, ![w].how = how, ![w].read = read, ![w].has = has]
  BY DEF Reads
<1>2. Current(w) \in Entities
  BY <1>0 DEF At, BatchInv, Current, WorkerStates
<1>3. stage \in {"sync", "finish"} /\ how \in {"disabled", "skip", "none"} /\ read \in Contents
  BY <1>2 DEF Verdict, TypeOK
<1>. HIDE DEF stage, how, read
<1>. DEFINE next == [worker[w] EXCEPT !.at = stage, !.how = how, !.read = read, !.has = has]
<1>4. worker' = [worker EXCEPT ![w] = next]
  BY <1>0, <1>1
<1>5. next \in WorkerStates
  BY <1>0, <1>3 DEF WorkerStates
<1>6. /\ next.at = stage /\ next.batch = worker[w].batch /\ next.read = read /\ next.how = how
      /\ next.has = has
  BY <1>0 DEF WorkerStates
<1>. HIDE DEF next
<1>. QED
  BY <1>0, <1>2, <1>4, <1>5, <1>6 DEF stage, how, read

\* What a query for the lock that fails does to its worker.
LEMMA UnansweredNext ==
  ASSUME TypeOK, NEW w \in Workers, BatchInv(w), LockUnanswered(w)
  PROVE  /\ worker' \in [Workers -> WorkerStates] /\ Current(w) \in Entities
         /\ worker'[w].batch = worker[w].batch /\ worker'[w].has = "nothing"
         /\ worker'[w].at \in {"sync", "finish", "fail"}
         /\ worker'[w].at \in {"sync", "finish"} => Reads(w, "nothing")
         /\ \A v \in Workers \ {w} : worker'[v] = worker[v]
<1>0. worker \in [Workers -> WorkerStates] /\ At(w, "lock")
  BY DEF TypeOK, LockUnanswered
<1>1. Current(w) \in Entities
  BY <1>0 DEF At, BatchInv, Current, WorkerStates
<1>2. CASE Reads(w, "nothing")
  BY <1>0, <1>2, ReadsNext
<1>3. CASE worker' = [worker EXCEPT ![w].at = "fail", ![w].has = "nothing"]
  <2>. DEFINE next == [worker[w] EXCEPT !.at = "fail", !.has = "nothing"]
  <2>1. worker' = [worker EXCEPT ![w] = next]
    BY <1>0, <1>3
  <2>2. next \in WorkerStates
    BY <1>0 DEF WorkerStates
  <2>3. next.at = "fail" /\ next.batch = worker[w].batch /\ next.has = "nothing"
    BY <1>0 DEF WorkerStates
  <2>. HIDE DEF next
  <2>. QED
    BY <1>0, <1>1, <2>1, <2>2, <2>3
<1>. QED
  BY <1>2, <1>3 DEF LockUnanswered

\* Every step of worker w: what it does to w, by where w was and is.
StepOf(w) == Process(w) \/ Select(w) \/ Crash(w) \/ \E S \in SUBSET Entities : Recover(w, S)

LEMMA WorkerNext ==
  ASSUME TypeOK, NEW w \in Workers, BatchInv(w), StepOf(w)
  PROVE  worker' \in [Workers -> WorkerStates] /\ BatchInv(w)'
         /\ \A v \in Workers \ {w} : worker'[v] = worker[v]
<1>0. worker \in [Workers -> WorkerStates]
  BY DEF TypeOK
<1>1. CASE \E S \in SUBSET Entities : Recover(w, S)
  BY <1>0, <1>1 DEF Recover, BatchInv
<1>2. CASE Select(w)
  <2>1. PICK C \in Claims \ {{}} : \E ids \in ByAge(C) : worker' = [worker EXCEPT ![w].at = "claim", ![w].batch = ids]
    BY <1>2 DEF Select
  <2>2. PICK ids \in ByAge(C) : worker' = [worker EXCEPT ![w].at = "claim", ![w].batch = ids]
    BY <2>1
  <2>3. C \in SUBSET Entities
    BY <2>1 DEF Claims
  <2>4. ids \in Seq(Entities) /\ ids # <<>>
    BY <2>1, <2>3, ClaimIsBatch
  <2>5. worker' = [worker EXCEPT ![w] = [worker[w] EXCEPT !.at = "claim", !.batch = ids]]
    BY <1>0, <2>2
  <2>6. [worker[w] EXCEPT !.at = "claim", !.batch = ids] \in WorkerStates
    BY <1>0, <2>4 DEF WorkerStates
  <2>7. [worker[w] EXCEPT !.at = "claim", !.batch = ids].batch = ids
    BY <1>0 DEF WorkerStates
  <2>8. worker'[w].batch = ids
    BY <1>0, <2>5, <2>7
  <2>9. worker' \in [Workers -> WorkerStates] /\ \A v \in Workers \ {w} : worker'[v] = worker[v]
    BY <1>0, <2>5, <2>6
  <2>. QED
    BY <2>4, <2>8, <2>9 DEF BatchInv
<1>3. CASE Crash(w)
  <2>1. [Idle EXCEPT !.at = "down"] = [at |-> "down", batch |-> <<>>, read |-> "gone", how |-> "none",
                                      has |-> "nothing"]
    BY DEF Idle
  <2>2. [at |-> "down", batch |-> <<>>, read |-> "gone", how |-> "none", has |-> "nothing"] \in WorkerStates
    BY ContentsAssumption DEF WorkerStates
  <2>3. worker' = [worker EXCEPT ![w] = [at |-> "down", batch |-> <<>>, read |-> "gone", how |-> "none",
                                         has |-> "nothing"]]
    BY <1>3, <2>1 DEF Crash
  <2>. QED
    BY <1>0, <2>2, <2>3 DEF BatchInv
<1>4. CASE Restart(w)
  <2>1. Goto(w, "poll")
    BY <1>4 DEF Restart
  <2>. QED
    BY <2>1, StageNext DEF BatchInv
<1>5. CASE Mark(w)
  <2>1. Goto(w, "look") /\ worker[w].at = "claim"
    BY <1>5 DEF Mark, At
  <2>. QED
    BY <2>1, StageNext DEF BatchInv
<1>6. CASE Look(w) \/ NoLock(w)
  <2>1. worker[w].batch # <<>>
    BY <1>6 DEF Look, NoLock, At, BatchInv
  <2>2. Goto(w, "lock") \/ Done(w)
    BY <1>6 DEF Look, NoLock
  <2>. QED
    BY <2>1, <2>2, StageNext, DoneNext DEF BatchInv
<1>7. CASE Release(w)
  <2>1. worker[w].batch # <<>> /\ Done(w)
    BY <1>7 DEF Release, At, BatchInv
  <2>. QED
    BY <2>1, DoneNext DEF BatchInv
<1>8. CASE SyncRaises(w) \/ Fail(w) \/ Finish(w)
  <2>1. worker[w].batch # <<>> /\ \E stage \in {"fail", "release"} : Leave(w, stage)
    BY <1>8 DEF SyncRaises, Fail, Finish, At, BatchInv
  <2>. QED
    BY <2>1, LeaveNext DEF BatchInv
<1>9. CASE Lock(w) \/ LockUnanswered(w)
  <2>1. worker[w].batch # <<>>
    BY <1>9 DEF Lock, LockUnanswered, At, BatchInv
  <2>2. CASE Lock(w)
    <3>1. At(w, "lock") /\ Reads(w, "lock")
      BY <2>2 DEF Lock
    <3>. QED
      BY <2>1, <3>1, ReadsNext DEF BatchInv
  <2>3. CASE LockUnanswered(w)
    BY <2>1, <2>3, UnansweredNext DEF BatchInv
  <2>. QED
    BY <1>9, <2>2, <2>3
<1>10. CASE Sync(w)
  <2>1. PICK how \in {"ok", "empty"} : worker' = [worker EXCEPT ![w].at = "finish", ![w].how = how]
    BY <1>10 DEF Sync
  <2>2. worker[w].batch # <<>>
    BY <1>10 DEF Sync, At, BatchInv
  <2>3. worker' = [worker EXCEPT ![w] = [worker[w] EXCEPT !.at = "finish", !.how = how]]
    BY <1>0, <2>1
  <2>4. [worker[w] EXCEPT !.at = "finish", !.how = how] \in WorkerStates
    BY <1>0 DEF WorkerStates
  <2>5. [worker[w] EXCEPT !.at = "finish", !.how = how].batch = worker[w].batch
    BY <1>0 DEF WorkerStates
  <2>. QED
    BY <1>0, <2>2, <2>3, <2>4, <2>5 DEF BatchInv
<1>. QED
  BY <1>1, <1>2, <1>3, <1>4, <1>5, <1>6, <1>7, <1>8, <1>9, <1>10 DEF StepOf, Process

\* The steps of the entities and projects leave the workers and what they write alone.
Around ==
  \/ \E e \in Entities : Enqueue(e) \/ LateRow(e) \/ Due(e) \/ \E c \in Contents : Change(e, c)
  \/ \E p \in Projects : Disable(p) \/ Enable(p) \/ Recycle(p)

LEMMA AroundFrame ==
  ASSUME Around
  PROVE  /\ worker' = worker /\ hash' = hash /\ graph' = graph /\ dirty' = dirty
         /\ projectOf' = projectOf /\ raced' = raced
<1>1. ASSUME NEW e \in Entities, Enqueue(e) \/ LateRow(e) \/ Due(e)
      PROVE  /\ worker' = worker /\ hash' = hash /\ graph' = graph /\ dirty' = dirty
             /\ projectOf' = projectOf /\ raced' = raced
  BY <1>1 DEF Enqueue, LateRow, Due
<1>2. ASSUME NEW e \in Entities, NEW c \in Contents, Change(e, c)
      PROVE  /\ worker' = worker /\ hash' = hash /\ graph' = graph /\ dirty' = dirty
             /\ projectOf' = projectOf /\ raced' = raced
  BY <1>2 DEF Change
<1>3. ASSUME NEW p \in Projects, Disable(p) \/ Enable(p) \/ Recycle(p)
      PROVE  /\ worker' = worker /\ hash' = hash /\ graph' = graph /\ dirty' = dirty
             /\ projectOf' = projectOf /\ raced' = raced
  BY <1>3 DEF Disable, Enable, Recycle
<1>. QED
  BY <1>1, <1>2, <1>3 DEF Around

LEMMA NextCases ==
  ASSUME [Next]_vars
  PROVE  Around \/ (\E w \in Workers : StepOf(w)) \/ UNCHANGED vars
  BY DEF Next, Around, StepOf

LEMMA ProjectStays ==
  ASSUME [Next]_vars
  PROVE  projectOf' = projectOf
<1>1. ASSUME NEW w \in Workers, StepOf(w) PROVE projectOf' = projectOf
  <2>1. CASE Process(w)
    BY <2>1 DEF Process, Mark, Look, Lock, LockUnanswered, NoLock, Sync, SyncRaises, Finish, Fail, Release,
                 Restart
  <2>. QED
    BY <1>1, <2>1 DEF StepOf, Select, Crash, Recover
<1>. QED
  BY <1>1, NextCases, AroundFrame DEF vars

LEMMA WorkerStep ==
  ASSUME TypeOK, \A w \in Workers : BatchInv(w), [Next]_vars
  PROVE  worker' \in [Workers -> WorkerStates] /\ \A w \in Workers : BatchInv(w)'
<1>1. ASSUME worker' = worker PROVE worker' \in [Workers -> WorkerStates] /\ \A w \in Workers : BatchInv(w)'
  BY <1>1 DEF TypeOK, BatchInv
<1>2. ASSUME NEW w \in Workers, StepOf(w)
      PROVE  worker' \in [Workers -> WorkerStates] /\ \A v \in Workers : BatchInv(v)'
  <2>1. worker' \in [Workers -> WorkerStates] /\ BatchInv(w)' /\ \A v \in Workers \ {w} : worker'[v] = worker[v]
    BY <1>2, WorkerNext
  <2>2. \A v \in Workers \ {w} : BatchInv(v)'
    BY <2>1 DEF BatchInv
  <2>. QED
    BY <2>1, <2>2
<1>. QED
  BY <1>1, <1>2, NextCases, AroundFrame DEF vars

Data ==
  /\ enabled \subseteq Projects
  /\ content \in [Entities -> Contents]
  /\ pending \in [Entities -> [still : {"nothing", "event", "row"}, to : Contents]]
  /\ hash \in [Entities -> Contents \union {NoHash}]
  /\ graph \in [Entities -> {Links(c) : c \in Contents} \union {"part"}]
  /\ missed \subseteq Entities /\ dirty \subseteq Entities /\ raced \subseteq Entities
  /\ events \in 0 .. MaxEvents

LEMMA CurrentEntity ==
  ASSUME TypeOK, NEW w \in Workers, BatchInv(w), worker[w].at \notin {"down", "poll"}
  PROVE  Current(w) \in Entities /\ Owner(w) \in Projects
BY DEF TypeOK, Current, BatchInv, WorkerStates, Owner

LEMMA EventNext ==
  ASSUME events \in 0 .. MaxEvents, Event
  PROVE  events' \in 0 .. MaxEvents
BY BoundAssumption DEF Event

LEMMA DataAround ==
  ASSUME TypeOK, Around
  PROVE  Data'
<1>0. Data
  BY DEF TypeOK, Data
<1>1. hash' = hash /\ graph' = graph /\ dirty' = dirty /\ raced' = raced
  BY AroundFrame
<1>. DEFINE Rest == /\ enabled' \subseteq Projects
                    /\ content' \in [Entities -> Contents]
                    /\ pending' \in [Entities -> [still : {"nothing", "event", "row"}, to : Contents]]
                    /\ missed' \subseteq Entities
                    /\ events' \in 0 .. MaxEvents
<1>2. Settled \in [still : {"nothing", "event", "row"}, to : Contents]
  BY ContentsAssumption DEF Settled
<1>3. ASSUME NEW e \in Entities, NEW c \in Contents, Change(e, c) PROVE Rest
  <2>1. content' \in [Entities -> Contents]
    BY <1>0, <1>3 DEF Change, Data
  <2>2. pending' = [pending EXCEPT ![e].still = "event"] \/ pending' = [pending EXCEPT ![e] = [still |-> "row", to |-> c]]
    BY <1>3 DEF Change
  <2>3. pending' \in [Entities -> [still : {"nothing", "event", "row"}, to : Contents]]
    BY <1>0, <2>2 DEF Data
  <2>4. Event /\ missed' = missed /\ enabled' = enabled
    BY <1>3 DEF Change
  <2>. QED
    BY <1>0, <2>1, <2>3, <2>4, EventNext DEF Data
<1>4. ASSUME NEW e \in Entities, Enqueue(e) PROVE Rest
  <2>1. pending' = [pending EXCEPT ![e] = Settled]
    BY <1>4 DEF Enqueue
  <2>2. pending' \in [Entities -> [still : {"nothing", "event", "row"}, to : Contents]]
    BY <1>0, <1>2, <2>1 DEF Data
  <2>3. missed' = missed \/ missed' = missed \union {e}
    BY <1>4 DEF Enqueue
  <2>4. enabled' = enabled /\ content' = content /\ events' = events
    BY <1>4 DEF Enqueue
  <2>. QED
    BY <1>0, <2>2, <2>3, <2>4 DEF Data
<1>5. ASSUME NEW e \in Entities, LateRow(e) PROVE Rest
  <2>1. pending' = [pending EXCEPT ![e] = Settled] /\ content' = [content EXCEPT ![e] = pending[e].to]
    BY <1>5 DEF LateRow
  <2>2. pending' \in [Entities -> [still : {"nothing", "event", "row"}, to : Contents]]
    BY <1>0, <1>2, <2>1 DEF Data
  <2>3. content' \in [Entities -> Contents]
    BY <1>0, <2>1 DEF Data
  <2>4. missed' = missed \/ missed' = missed \union {e}
    BY <1>5 DEF LateRow
  <2>5. enabled' = enabled /\ events' = events
    BY <1>5 DEF LateRow
  <2>. QED
    BY <1>0, <2>2, <2>3, <2>4, <2>5 DEF Data
<1>6. ASSUME NEW e \in Entities, Due(e) PROVE Rest
  BY <1>0, <1>6 DEF Due, Data
<1>7. ASSUME NEW p \in Projects, Disable(p) PROVE Rest
  <2>1. Event /\ enabled' = enabled \ {p} /\ content' = content /\ pending' = pending /\ missed' = missed
    BY <1>7 DEF Disable, Happens
  <2>. QED
    BY <1>0, <2>1, EventNext DEF Data
<1>8. ASSUME NEW p \in Projects, Enable(p) PROVE Rest
  <2>1. /\ events' = events /\ enabled' = enabled \union {p} /\ content' = content /\ pending' = pending
        /\ \E S \in SUBSET Entities : missed' = missed \union {e \in S : Loaded(e)}
    BY <1>8 DEF Enable
  <2>. QED
    BY <1>0, <2>1 DEF Data
<1>9. ASSUME NEW p \in Projects, Recycle(p) PROVE Rest
  BY <1>0, <1>9 DEF Recycle, Data
<1>10. Rest
  BY <1>3, <1>4, <1>5, <1>6, <1>7, <1>8, <1>9 DEF Around
<1>. QED
  BY <1>0, <1>1, <1>10 DEF Data

\* The steps of a worker that write no links, hash or flags.
LEMMA Bystand ==
  ASSUME NEW w \in Workers,
         \/ Mark(w) \/ Look(w) \/ NoLock(w) \/ Fail(w) \/ Release(w) \/ Restart(w) \/ Select(w)
         \/ \E S \in SUBSET Entities : Recover(w, S)
  PROVE  /\ enabled' = enabled /\ content' = content /\ pending' = pending
         /\ hash' = hash /\ graph' = graph /\ missed' = missed /\ dirty' = dirty /\ raced' = raced
BY DEF Mark, Look, NoLock, Fail, Release, Restart, Select, Recover

LEMMA DataWork ==
  ASSUME TypeOK, NEW w \in Workers, BatchInv(w), StepOf(w)
  PROVE  Data'
<1>0. Data /\ worker[w] \in WorkerStates
  BY DEF TypeOK, Data
<1>1. CASE \/ Mark(w) \/ Look(w) \/ NoLock(w) \/ Fail(w) \/ Release(w) \/ Restart(w) \/ Select(w)
           \/ \E S \in SUBSET Entities : Recover(w, S)
  <2>1. events' = events \/ Event
    BY <1>1 DEF Mark, Look, NoLock, Fail, Release, Restart, Select, Recover, Happens
  <2>2. events' \in 0 .. MaxEvents
    BY <1>0, <2>1, EventNext DEF Data
  <2>. QED
    BY <1>0, <1>1, <2>2, Bystand DEF Data
<1>2. CASE Lock(w) \/ LockUnanswered(w)
  <2>1. /\ enabled' = enabled /\ content' = content /\ pending' = pending /\ hash' = hash /\ graph' = graph
        /\ dirty' = dirty
    BY <1>2 DEF Lock, LockUnanswered
  <2>2. events' = events \/ Event
    BY <1>2 DEF Lock, LockUnanswered, Happens
  <2>3. events' \in 0 .. MaxEvents
    BY <1>0, <2>2, EventNext DEF Data
  <2>4. /\ missed' \in {missed, missed \union {Current(w)}, missed \ {Current(w)}}
        /\ raced' \in {raced, raced \union {Current(w)}}
    BY <1>2 DEF Lock, LockUnanswered, Reads
  <2>5. Current(w) \in Entities
    BY <1>2, CurrentEntity DEF Lock, LockUnanswered, At
  <2>. QED
    BY <1>0, <2>1, <2>3, <2>4, <2>5 DEF Data
<1>3. CASE Sync(w) \/ SyncRaises(w)
  <2>1. Current(w) \in Entities
    BY <1>3, CurrentEntity DEF Sync, SyncRaises, At
  <2>2. /\ enabled' = enabled /\ content' = content /\ pending' = pending /\ hash' = hash /\ missed' = missed
        /\ raced' = raced
    BY <1>3 DEF Sync, SyncRaises
  <2>3. dirty' \in {dirty, dirty \union {Current(w)}}
    BY <1>3 DEF Sync, SyncRaises
  <2>4. events' = events \/ Event
    BY <1>3 DEF Sync, SyncRaises, Happens
  <2>5. \E l \in {Links(worker[w].read), "part"} : graph' = graph \/ graph' = [graph EXCEPT ![Current(w)] = l]
    BY <1>3 DEF Sync, SyncRaises
  <2>6. worker[w].read \in Contents
    BY <1>0 DEF WorkerStates
  <2>7. graph' \in [Entities -> {Links(c) : c \in Contents} \union {"part"}]
    BY <1>0, <2>5, <2>6 DEF Data
  <2>8. events' \in 0 .. MaxEvents
    BY <1>0, <2>4, EventNext DEF Data
  <2>. QED
    BY <1>0, <2>1, <2>2, <2>3, <2>7, <2>8 DEF Data
<1>4. CASE Finish(w)
  <2>1. /\ enabled' = enabled /\ content' = content /\ pending' = pending /\ graph' = graph
        /\ missed' = missed /\ raced' = raced /\ events' = events /\ dirty' \in {dirty, dirty \ {Current(w)}}
        /\ hash' = [hash EXCEPT ![Current(w)] = RunHash(w)]
    BY <1>4 DEF Finish
  <2>2. RunHash(w) \in Contents \union {NoHash}
    BY <1>0 DEF RunHash, WorkerStates
  <2>. QED
    BY <1>0, <2>1, <2>2 DEF Data
<1>5. CASE Crash(w)
  <2>1. /\ enabled' = enabled /\ content' = content /\ pending' = pending /\ hash' = hash /\ graph' = graph
        /\ dirty' = dirty /\ raced' = raced /\ Event /\ missed' \subseteq Entities
    BY <1>0, <1>5 DEF Crash, Happens, Data
  <2>. QED
    BY <1>0, <2>1, EventNext DEF Data
<1>. QED
  BY <1>1, <1>2, <1>3, <1>4, <1>5 DEF StepOf, Process

LEMMA LockType ==
  ASSUME TypeOK, \A w \in Workers : BatchInv(w), [Next]_vars
  PROVE  lock' \in [Projects -> LockStates]
<1>0. lock \in [Projects -> LockStates]
  BY DEF TypeOK
<1>1. Free \in LockStates
  BY DEF Free, LockStates
<1>2. ASSUME NEW p \in Projects, Recycle(p) PROVE lock' \in [Projects -> LockStates]
  BY <1>0, <1>1, <1>2 DEF Recycle
<1>3. ASSUME NEW w \in Workers, Lock(w) PROVE lock' \in [Projects -> LockStates]
  <2>1. Owner(w) \in Projects
    BY <1>3, CurrentEntity DEF Lock, At
  <2>2. PICK d \in {1, 2} : lock' = [lock EXCEPT ![Owner(w)] = [by |-> w, busy |-> TRUE, depth |-> d]]
    BY <1>0, <1>3, <2>1 DEF Lock
  <2>3. [by |-> w, busy |-> TRUE, depth |-> d] \in LockStates
    BY DEF LockStates
  <2>. QED
    BY <1>0, <2>2, <2>3
<1>4. ASSUME NEW w \in Workers, Release(w) PROVE lock' \in [Projects -> LockStates]
  <2>1. Owner(w) \in Projects
    BY <1>4, CurrentEntity DEF Release, At
  <2>. DEFINE o == lock[Owner(w)]
  <2>2. \/ lock' = [lock EXCEPT ![Owner(w)] = IF o.depth = 1 THEN Free ELSE [o EXCEPT !.busy = FALSE, !.depth = 1]]
        \/ lock' = [lock EXCEPT ![Owner(w)] = [o EXCEPT !.busy = FALSE]]
        \/ lock' = lock
    BY <1>0, <1>4, <2>1 DEF Release
  <2>3. o \in LockStates
    BY <1>0, <2>1
  <2>. HIDE DEF o
  <2>4. [o EXCEPT !.busy = FALSE] \in LockStates
    BY <2>3, Zenon DEF LockStates
  <2>5. [o EXCEPT !.busy = FALSE, !.depth = 1] = [[o EXCEPT !.busy = FALSE] EXCEPT !.depth = 1]
    OBVIOUS
  <2>6. [[o EXCEPT !.busy = FALSE] EXCEPT !.depth = 1] \in LockStates
    <3>. DEFINE b == [o EXCEPT !.busy = FALSE]
    <3>1. 1 \in 0 .. 2
      OBVIOUS
    <3>2. b \in [by : Workers \union {"nobody"}, busy : BOOLEAN, depth : 0 .. 2]
      BY <2>4 DEF LockStates
    <3>. HIDE DEF b
    <3>3. [b EXCEPT !.depth = 1] \in [by : Workers \union {"nobody"}, busy : BOOLEAN, depth : 0 .. 2]
      BY <3>1, <3>2
    <3>. QED
      BY <3>3 DEF LockStates, b
  <2>. QED
    BY <1>0, <1>1, <2>2, <2>4, <2>5, <2>6
<1>5. ASSUME NEW w \in Workers, Crash(w) PROVE lock' \in [Projects -> LockStates]
  BY <1>0, <1>1, <1>5 DEF Crash
<1>6. ASSUME NEW w \in Workers,
             \/ Mark(w) \/ Look(w) \/ LockUnanswered(w) \/ NoLock(w) \/ Sync(w) \/ SyncRaises(w) \/ Finish(w)
             \/ Fail(w) \/ Restart(w) \/ Select(w) \/ \E S \in SUBSET Entities : Recover(w, S)
      PROVE  lock' = lock
  BY <1>6 DEF Mark, Look, LockUnanswered, NoLock, Sync, SyncRaises, Finish, Fail, Restart, Select, Recover
<1>7. ASSUME NEW e \in Entities, Enqueue(e) \/ LateRow(e) \/ Due(e) \/ \E c \in Contents : Change(e, c)
      PROVE  lock' = lock
  BY <1>7 DEF Enqueue, LateRow, Due, Change
<1>8. ASSUME NEW p \in Projects, Disable(p) \/ Enable(p)
      PROVE  lock' = lock
  BY <1>8 DEF Disable, Enable
<1>. QED
  BY <1>0, <1>2, <1>3, <1>4, <1>5, <1>6, <1>7, <1>8 DEF Next, Process, vars

LEMMA TypeStep ==
  ASSUME TypeOK, \A w \in Workers : BatchInv(w), [Next]_vars
  PROVE  TypeOK' /\ \A w \in Workers : BatchInv(w)'
<1>1. Data'
  <2>1. CASE UNCHANGED vars
    BY <2>1 DEF TypeOK, Data, vars
  <2>. QED
    BY <2>1, NextCases, DataAround, DataWork
<1>2. projectOf' \in [Entities -> Projects]
  BY ProjectStays DEF TypeOK
<1>3. job' \in [Entities -> JobStates] /\ Ordered'
  BY JobStep
<1>4. worker' \in [Workers -> WorkerStates] /\ \A w \in Workers : BatchInv(w)'
  BY WorkerStep
<1>5. lock' \in [Projects -> LockStates]
  BY LockType
<1>. QED
  BY <1>1, <1>2, <1>3, <1>4, <1>5 DEF TypeOK, Data, Ordered, JobStates

-----------------------------------------------------------------------------
(* The lock of a project, and who has it.                                  *)

\* What every lemma below may use of the state before the step.
Sound == TypeOK /\ \A w \in Workers : BatchInv(w) /\ LockInv(w)

LEMMA Alone ==
  ASSUME Sound, NEW v \in Workers, NEW w \in Workers, HasLock(v), HasLock(w), Owner(v) = Owner(w)
  PROVE  v = w
BY DEF Sound, LockInv

\* A worker whose project is locked by another does not get it.
LEMMA LockKeepsOut ==
  ASSUME Sound, NEW v \in Workers, NEW w \in Workers, v # w, HasLock(v), Lock(w)
  PROVE  Owner(v) # Owner(w)
BY WorkersAssumption DEF Sound, LockInv, Lock, MayLock

LEMMA OwnerStays ==
  ASSUME [Next]_vars, NEW v \in Workers, worker'[v].batch = worker[v].batch
  PROVE  Owner(v)' = Owner(v) /\ Current(v)' = Current(v)
BY ProjectStays DEF Owner, Current

\* How a worker gets to an analysis and through it.
LEMMA StageOwn ==
  ASSUME Sound, NEW w \in Workers, StepOf(w), worker'[w].at \in {"sync", "finish", "fail", "release"}
  PROVE  /\ Lock(w) \/ LockUnanswered(w) \/ Sync(w) \/ SyncRaises(w) \/ Finish(w) \/ Fail(w)
         /\ worker'[w].batch = worker[w].batch
         /\ Lock(w) \/ LockUnanswered(w) \/ worker'[w].has = worker[w].has
<1>0. worker \in [Workers -> WorkerStates] /\ BatchInv(w)
  BY DEF Sound, TypeOK
<1>1. ASSUME Goto(w, "look") \/ Goto(w, "poll") \/ Goto(w, "lock") PROVE FALSE
  BY <1>0, <1>1 DEF Goto, WorkerStates
<1>2. ASSUME worker[w].batch # <<>>, Done(w) PROVE FALSE
  BY <1>2, DoneNext DEF Sound
<1>3. ~Mark(w) /\ ~Restart(w)
  BY <1>1 DEF Mark, Restart
<1>4. ~Look(w) /\ ~NoLock(w) /\ ~Release(w)
  BY <1>0, <1>1, <1>2 DEF Look, NoLock, Release, At, BatchInv
<1>5. ~Select(w)
  <2>. SUFFICES ASSUME Select(w) PROVE FALSE
    OBVIOUS
  <2>1. \E ids : worker' = [worker EXCEPT ![w].at = "claim", ![w].batch = ids]
    BY DEF Select
  <2>2. worker'[w].at = "claim"
    BY <1>0, <2>1 DEF WorkerStates
  <2>. QED
    BY <2>2
<1>6. ~Crash(w)
  <2>. SUFFICES ASSUME Crash(w) PROVE FALSE
    OBVIOUS
  <2>1. worker'[w] = [Idle EXCEPT !.at = "down"]
    BY <1>0 DEF Crash
  <2>2. worker'[w].at = "down"
    BY <2>1 DEF Idle
  <2>. QED
    BY <2>2
<1>7. ~\E S \in SUBSET Entities : Recover(w, S)
  BY DEF Recover, At
<1>8. Lock(w) \/ LockUnanswered(w) \/ Sync(w) \/ SyncRaises(w) \/ Finish(w) \/ Fail(w)
  BY <1>3, <1>4, <1>5, <1>6, <1>7 DEF StepOf, Process
<1>9. CASE Lock(w)
  <2>1. At(w, "lock") /\ Reads(w, "lock")
    BY <1>9 DEF Lock
  <2>. QED
    BY <1>0, <1>9, <2>1, ReadsNext DEF Sound
<1>10. CASE LockUnanswered(w)
  BY <1>0, <1>10, UnansweredNext DEF Sound
<1>11. CASE Sync(w)
  <2>1. \E how \in {"ok", "empty"} : worker' = [worker EXCEPT ![w].at = "finish", ![w].how = how]
    BY <1>11 DEF Sync
  <2>2. worker'[w].batch = worker[w].batch /\ worker'[w].has = worker[w].has
    BY <1>0, <2>1 DEF WorkerStates
  <2>. QED
    BY <1>11, <2>2
<1>12. CASE SyncRaises(w) \/ Finish(w) \/ Fail(w)
  <2>1. \E stage \in {"fail", "release"} : Leave(w, stage)
    BY <1>12 DEF SyncRaises, Finish, Fail
  <2>2. worker'[w].batch = worker[w].batch /\ worker'[w].has = worker[w].has
    BY <2>1, LeaveNext DEF Sound
  <2>. QED
    BY <1>12, <2>2
<1>. QED
  BY <1>8, <1>9, <1>10, <1>11, <1>12

\* A worker gets to the lock by Lock, and else keeps what it has.
LEMMA LockOwn ==
  ASSUME Sound, NEW w \in Workers, StepOf(w), HasLock(w)', ~Lock(w)
  PROVE  HasLock(w) /\ lock' = lock /\ worker'[w].batch = worker[w].batch
<1>1. ~LockUnanswered(w)
  BY UnansweredNext DEF HasLock, Sound
<1>2. /\ Sync(w) \/ SyncRaises(w) \/ Finish(w) \/ Fail(w)
      /\ worker'[w].batch = worker[w].batch /\ worker[w].has = "lock"
  BY <1>1, StageOwn DEF HasLock
<1>3. worker[w].at \in {"sync", "finish", "fail"} /\ lock' = lock
  BY <1>2 DEF Sync, SyncRaises, Finish, Fail, At
<1>. QED
  BY <1>2, <1>3 DEF HasLock

LEMMA LockStep ==
  ASSUME Sound, [Next]_vars, NEW v \in Workers
  PROVE  LockInv(v)'
<1>0. worker \in [Workers -> WorkerStates] /\ lock \in [Projects -> LockStates] /\ LockInv(v)
  BY DEF Sound, TypeOK
<1>. SUFFICES ASSUME HasLock(v)' PROVE (lock[Owner(v)].by = v /\ lock[Owner(v)].busy)'
  BY DEF LockInv
<1>1. CASE UNCHANGED vars
  BY <1>0, <1>1 DEF vars, HasLock, LockInv, Owner, Current
<1>2. CASE Around
  <2>1. worker' = worker /\ projectOf' = projectOf
    BY <1>2, AroundFrame
  <2>2. HasLock(v) /\ Owner(v)' = Owner(v)
    BY <2>1 DEF HasLock, Owner, Current
  <2>3. lock[Owner(v)].by = v /\ lock[Owner(v)].busy
    BY <1>0, <2>2 DEF LockInv
  <2>4. lock' = lock \/ \E p \in Projects : Recycle(p)
    BY <1>2 DEF Around, Enqueue, LateRow, Due, Change, Disable, Enable
  <2>5. ASSUME NEW p \in Projects, Recycle(p) PROVE lock'[Owner(v)] = lock[Owner(v)]
    <3>1. lock' = [lock EXCEPT ![p] = Free] /\ ~lock[p].busy
      BY <2>5 DEF Recycle
    <3>2. p # Owner(v)
      BY <2>3, <3>1
    <3>. QED
      BY <1>0, <3>1, <3>2
  <2>. QED
    BY <2>2, <2>3, <2>4, <2>5
<1>3. CASE Lock(v)
  <2>1. Owner(v) \in Projects
    BY <1>3, CurrentEntity DEF Lock, At, Sound
  <2>2. Owner(v)' = Owner(v)
    BY <1>3, ReadsNext, OwnerStays DEF Lock, Sound
  <2>3. \E d \in {1, 2} : lock' = [lock EXCEPT ![Owner(v)] = [by |-> v, busy |-> TRUE, depth |-> d]]
    BY <1>0, <1>3, <2>1 DEF Lock
  <2>. QED
    BY <1>0, <2>1, <2>2, <2>3
<1>4. CASE StepOf(v) /\ ~Lock(v)
  BY <1>0, <1>4, LockOwn, OwnerStays DEF LockInv
<1>5. ASSUME NEW w \in Workers, w # v, StepOf(w)
      PROVE  (lock[Owner(v)].by = v /\ lock[Owner(v)].busy)'
  <2>1. worker'[v] = worker[v]
    BY <1>5, WorkerNext DEF Sound
  <2>2. HasLock(v) /\ Owner(v)' = Owner(v)
    BY <2>1, OwnerStays DEF HasLock
  <2>3. lock[Owner(v)].by = v /\ lock[Owner(v)].busy
    BY <1>0, <2>2 DEF LockInv
  <2>4. CASE Lock(w)
    <3>1. Owner(v) # Owner(w)
      BY <1>5, <2>2, <2>4, LockKeepsOut
    <3>2. lock'[Owner(v)] = lock[Owner(v)]
      BY <1>0, <2>4, <3>1 DEF Lock
    <3>. QED
      BY <2>2, <2>3, <3>2
  <2>5. CASE Release(w)
    <3>1. lock' = lock \/ Owner(v) # Owner(w)
      <4>1. CASE lock[Owner(w)].by = w
        BY <1>5, <2>3, <4>1
      <4>2. CASE worker[w].has = "lock"
        <5>1. HasLock(w)
          BY <2>5, <4>2 DEF Release, At, HasLock
        <5>. QED
          BY <1>5, <2>2, <5>1, Alone
      <4>3. CASE lock' = lock
        BY <4>3
      <4>. QED
        BY <2>5, <4>1, <4>2, <4>3 DEF Release
    <3>2. \/ \E o : lock' = [lock EXCEPT ![Owner(w)] = o]
          \/ lock' = [lock EXCEPT ![Owner(w)].busy = FALSE]
          \/ lock' = lock
      BY <2>5 DEF Release
    <3>3. Owner(v) \in Projects
      BY <2>2, CurrentEntity DEF HasLock, Sound
    <3>4. lock'[Owner(v)] = lock[Owner(v)]
      BY <1>0, <3>1, <3>2, <3>3
    <3>. QED
      BY <2>2, <2>3, <3>4
  <2>6. CASE Crash(w)
    <3>1. Owner(v) \in Projects
      BY <2>2, CurrentEntity DEF HasLock, Sound
    <3>2. lock' = [p \in Projects |-> IF lock[p].by = w THEN Free ELSE lock[p]]
      BY <2>6 DEF Crash
    <3>3. lock'[Owner(v)] = lock[Owner(v)]
      BY <1>5, <2>3, <3>1, <3>2
    <3>. QED
      BY <2>2, <2>3, <3>3
  <2>7. CASE ~Lock(w) /\ ~Release(w) /\ ~Crash(w)
    <3>1. lock' = lock
      BY <1>5, <2>7 DEF StepOf, Process, Mark, Look, LockUnanswered, NoLock, Sync, SyncRaises, Finish, Fail, Restart,
                       Select, Recover
    <3>. QED
      BY <2>2, <2>3, <3>1
  <2>. QED
    BY <2>4, <2>5, <2>6, <2>7
<1>. QED
  BY <1>1, <1>2, <1>3, <1>4, <1>5, NextCases

-----------------------------------------------------------------------------
(* What a worker has read, and the links that are written.                 *)

\* Around the workers a change that an analysis has not read, or that finds its
\* job done, becomes missed, and no job becomes done.
LEMMA AroundQuiet ==
  ASSUME TypeOK, Around, NEW e \in Entities
  PROVE  /\ e \in missed => e \in missed'
         /\ job'[e].status = "done" => job[e].status = "done"
         /\ (pending'[e] = Settled /\ e \notin missed' /\ (Loaded(e) \/ job'[e].status = "done"))
              => pending[e] = Settled /\ content'[e] = content[e]
<1>0. /\ pending \in [Entities -> [still : {"nothing", "event", "row"}, to : Contents]]
      /\ content \in [Entities -> Contents] /\ job \in [Entities -> JobStates]
  BY DEF TypeOK, JobStates
<1>. DEFINE Goal == /\ e \in missed => e \in missed'
                    /\ job'[e].status = "done" => job[e].status = "done"
                    /\ (pending'[e] = Settled /\ e \notin missed' /\ (Loaded(e) \/ job'[e].status = "done"))
                         => pending[e] = Settled /\ content'[e] = content[e]
<1>1. ASSUME NEW S \in SUBSET Entities, Set(S, "queued", TRUE)
      PROVE  job'[e].status = "done" => job[e].status = "done" /\ e \notin S
  BY <1>0, <1>1 DEF Set
<1>2. ASSUME NEW f \in Entities, Enqueue(f) PROVE Goal
  <2>1. /\ pending' = [pending EXCEPT ![f] = Settled] /\ content' = content
        /\ \/ Set({f}, "queued", TRUE) /\ missed' = IF Loaded(f) THEN missed \union {f} ELSE missed
           \/ missed' = missed \union {f} /\ job' = job
    BY <1>2 DEF Enqueue
  <2>2. CASE missed' = missed \union {f} /\ job' = job
    BY <1>0, <2>1, <2>2
  <2>3. CASE Set({f}, "queued", TRUE) /\ missed' = IF Loaded(f) THEN missed \union {f} ELSE missed
    <3>1. job'[e].status = "done" => job[e].status = "done" /\ e # f
      BY <1>1, <2>3
    <3>2. e # f => pending'[e] = pending[e]
      BY <1>0, <2>1
    <3>. QED
      BY <2>1, <2>3, <3>1, <3>2
  <2>. QED
    BY <2>1, <2>2, <2>3
<1>3. ASSUME NEW f \in Entities, LateRow(f) PROVE Goal
  <2>1. /\ pending' = [pending EXCEPT ![f] = Settled] /\ content' = [content EXCEPT ![f] = pending[f].to]
        /\ job' = job
        /\ missed' = IF Loaded(f) \/ job[f].status = "done" THEN missed \union {f} ELSE missed
    BY <1>3 DEF LateRow
  <2>2. CASE e = f
    BY <2>1, <2>2
  <2>3. CASE e # f
    <3>1. pending'[e] = pending[e] /\ content'[e] = content[e]
      BY <1>0, <2>1, <2>3
    <3>. QED
      BY <2>1, <3>1
  <2>. QED
    BY <2>2, <2>3
<1>4. ASSUME NEW f \in Entities, Due(f) PROVE Goal
  <2>1. pending' = pending /\ content' = content /\ missed' = missed /\ job' = [job EXCEPT ![f].due = TRUE]
    BY <1>4 DEF Due
  <2>2. job'[e].status = job[e].status
    BY <1>0, <2>1 DEF JobStates
  <2>. QED
    BY <2>1, <2>2
<1>5. ASSUME NEW f \in Entities, NEW c \in Contents, Change(f, c) PROVE Goal
  <2>1. missed' = missed
    BY <1>5 DEF Change
  <2>2. job' = job \/ Set({f}, "queued", TRUE)
    BY <1>5 DEF Change
  <2>3. job'[e].status = "done" => job[e].status = "done"
    BY <1>1, <2>2
  <2>4. CASE e = f
    <3>1. pending' = [pending EXCEPT ![f].still = "event"] \/ pending' = [pending EXCEPT ![f] = [still |-> "row", to |-> c]]
      BY <1>5 DEF Change
    <3>2. pending'[f].still # "nothing"
      BY <1>0, <3>1
    <3>3. pending'[e] # Settled
      BY <2>4, <3>2 DEF Settled
    <3>. QED
      BY <2>1, <2>3, <3>3
  <2>5. CASE e # f
    <3>1. content' = content \/ content' = [content EXCEPT ![f] = c]
      BY <1>5 DEF Change
    <3>2. pending' = [pending EXCEPT ![f].still = "event"] \/ pending' = [pending EXCEPT ![f] = [still |-> "row", to |-> c]]
      BY <1>5 DEF Change
    <3>3. content'[e] = content[e] /\ pending'[e] = pending[e]
      BY <1>0, <2>5, <3>1, <3>2
    <3>. QED
      BY <2>1, <2>3, <3>3
  <2>. QED
    BY <2>4, <2>5
<1>6. ASSUME NEW p \in Projects, Disable(p) \/ Recycle(p) PROVE Goal
  BY <1>6 DEF Disable, Recycle
<1>7. ASSUME NEW p \in Projects, Enable(p) PROVE Goal
  <2>. DEFINE kept == {f \in Entities : projectOf[f] = p /\ content[f] # "gone"}
  <2>1. /\ pending' = pending /\ content' = content /\ missed' = missed \union {f \in kept : Loaded(f)}
        /\ Set(kept, "queued", TRUE)
    BY <1>7 DEF Enable
  <2>2. kept \in SUBSET Entities
    OBVIOUS
  <2>. HIDE DEF kept
  <2>. QED
    BY <1>1, <2>1, <2>2
<1>8. Goal
  BY <1>2, <1>3, <1>4, <1>5, <1>6, <1>7 DEF Around
<1>. QED
  BY <1>8

\* Once recorded, a race stays so.
LEMMA RacedStays ==
  ASSUME [Next]_vars
  PROVE  raced \subseteq raced'
<1>1. ASSUME NEW w \in Workers, StepOf(w) PROVE raced \subseteq raced'
  <2>1. CASE Lock(w) \/ LockUnanswered(w)
    BY <2>1 DEF Lock, LockUnanswered, Reads
  <2>2. CASE Sync(w) \/ SyncRaises(w) \/ Finish(w) \/ Crash(w)
    BY <2>2 DEF Sync, SyncRaises, Finish, Crash
  <2>. QED
    BY <1>1, <2>1, <2>2, Bystand DEF StepOf, Process
<1>. QED
  BY <1>1, NextCases, AroundFrame DEF vars

\* Who comes to work on e finds nobody there, or the race is recorded.
LEMMA WorksNext ==
  ASSUME Sound, NEW w \in Workers, StepOf(w), NEW e \in Entities, Works(w, e)', e \notin raced'
  PROVE  Works(w, e) \/ \A v \in Workers \ {w} : ~Works(v, e)
<1>1. /\ Lock(w) \/ LockUnanswered(w) \/ Sync(w) \/ SyncRaises(w) \/ Finish(w) \/ Fail(w)
      /\ worker'[w].batch = worker[w].batch
  BY StageOwn DEF Works
<1>2. Current(w) = e
  BY <1>1 DEF Works, Current
<1>3. CASE Lock(w)
  BY <1>2, <1>3 DEF Lock, Reads
<1>4. CASE LockUnanswered(w)
  <2>1. Reads(w, "nothing")
    BY <1>4, UnansweredNext DEF Works, Sound
  <2>. QED
    BY <1>2, <2>1 DEF Reads
<1>5. CASE Sync(w)
  BY <1>2, <1>5 DEF Sync, At, Works
<1>6. CASE SyncRaises(w) \/ Finish(w) \/ Fail(w)
  <2>1. \E stage \in {"fail", "release"} : Leave(w, stage)
    BY <1>6 DEF SyncRaises, Finish, Fail
  <2>. QED
    BY <2>1, LeaveNext DEF Works, Sound
<1>. QED
  BY <1>1, <1>3, <1>4, <1>5, <1>6

LEMMA AloneStep ==
  ASSUME Sound, [Next]_vars, NEW e \in Entities, AloneInv(e), e \notin raced'
  PROVE  AloneInv(e)'
<1>1. CASE Around \/ UNCHANGED vars
  BY <1>1, AroundFrame DEF vars, AloneInv, Works, Current
<1>2. ASSUME NEW w \in Workers, StepOf(w) PROVE AloneInv(e)'
  <2>1. \A v \in Workers \ {w} : Works(v, e)' <=> Works(v, e)
    BY <1>2, WorkerNext DEF Sound, Works, Current
  <2>2. Works(w, e)' => Works(w, e) \/ \A v \in Workers \ {w} : ~Works(v, e)
    BY <1>2, WorksNext
  <2>. QED
    BY <2>1, <2>2 DEF AloneInv
<1>. QED
  BY <1>1, <1>2, NextCases

\* While v works on e, the other workers leave e's links, hash and flags alone.
LEMMA OthersSpare ==
  ASSUME Sound, NEW v \in Workers, NEW w \in Workers, v # w, NEW e \in Entities, Works(v, e), StepOf(w),
         AloneInv(e), e \notin raced'
  PROVE  /\ hash'[e] = hash[e] /\ graph'[e] = graph[e] /\ (e \in dirty' <=> e \in dirty)
         /\ (e \in missed => e \in missed') /\ content' = content /\ pending' = pending
<1>1. CASE \/ Mark(w) \/ Look(w) \/ NoLock(w) \/ Fail(w) \/ Release(w) \/ Restart(w) \/ Select(w)
           \/ \E S \in SUBSET Entities : Recover(w, S)
  BY <1>1, Bystand
<1>2. CASE Lock(w) \/ LockUnanswered(w)
  <2>1. CASE Reads(w, "lock") \/ Reads(w, "nothing")
    <3>1. Current(w) # e
      BY <2>1 DEF Reads
    <3>2. e \in missed => e \in missed'
      BY <2>1, <3>1 DEF Reads
    <3>. QED
      BY <1>2, <3>2 DEF Lock, LockUnanswered
  <2>2. CASE UNCHANGED missed
    BY <1>2, <2>2 DEF Lock, LockUnanswered
  <2>. QED
    BY <1>2, <2>1, <2>2 DEF Lock, LockUnanswered
<1>3. CASE Sync(w) \/ SyncRaises(w) \/ Finish(w)
  <2>2. Current(w) # e
    BY <1>3 DEF Sync, SyncRaises, Finish, At, Works, AloneInv
  <2>3. /\ \E l : graph' = [graph EXCEPT ![Current(w)] = l] \/ graph' = graph
        /\ \E h : hash' = [hash EXCEPT ![Current(w)] = h] \/ hash' = hash
        /\ dirty' \in {dirty, dirty \union {Current(w)}, dirty \ {Current(w)}}
        /\ missed' = missed /\ content' = content /\ pending' = pending
    <3>1. CASE Sync(w)
      BY <3>1 DEF Sync
    <3>2. CASE SyncRaises(w)
      BY <3>2 DEF SyncRaises
    <3>3. CASE Finish(w)
      BY <3>3 DEF Finish
    <3>. QED
      BY <1>3, <3>1, <3>2, <3>3
  <2>4. hash'[e] = hash[e] /\ graph'[e] = graph[e]
    BY <2>2, <2>3 DEF Sound, TypeOK
  <2>. QED
    BY <2>2, <2>3, <2>4
<1>4. CASE Crash(w)
  BY <1>4 DEF Crash
<1>. QED
  BY <1>1, <1>2, <1>3, <1>4 DEF StepOf, Process

LEMMA ReadsRead ==
  ASSUME Sound, NEW w \in Workers, At(w, "lock"), NEW has \in {"lock", "nothing"}, Reads(w, has),
         NEW e \in Entities, Current(w) = e, content' = content, hash' = hash
  PROVE  ReadInv(w, e)'
<1>1. /\ worker'[w].at = (IF Verdict(e) = "none" THEN "sync" ELSE "finish")
      /\ worker'[w].how = Verdict(e) /\ worker'[w].read = content[e]
  BY ReadsNext DEF Sound
<1>2. missed' = (IF Verdict(e) = "disabled" THEN missed \union {e} ELSE missed \ {e})
  BY DEF Reads
<1>3. Verdict(e) \in {"disabled", "skip", "none"} /\ (Verdict(e) = "skip" => content[e] # "gone" /\ hash[e] = content[e])
  BY DEF Verdict
<1>4. worker'[w].read = content'[e]
  BY <1>1, <1>2
<1>5. worker'[w].at = "finish" => /\ worker'[w].how \in {"disabled", "skip"}
                                  /\ worker'[w].how = "disabled" => e \in missed'
                                  /\ worker'[w].how = "skip" => worker'[w].read # "gone" /\ hash'[e] = worker'[w].read
  BY <1>1, <1>2, <1>3
<1>6. worker'[w].at = "sync" \/ (worker'[w].at # "fail" /\ worker'[w].how # "none")
  BY <1>1, <1>3
<1>. QED
  BY <1>4, <1>5, <1>6 DEF ReadInv, At

LEMMA SyncReads ==
  ASSUME Sound, NEW w \in Workers, Sync(w), NEW e \in Entities, Current(w) = e, ReadInv(w, e)
  PROVE  ReadInv(w, e)'
<1>0. worker \in [Workers -> WorkerStates] /\ graph \in [Entities -> {Links(c) : c \in Contents} \union {"part"}]
  BY DEF Sound, TypeOK
<1>1. PICK how \in {"ok", "empty"} :
        /\ worker' = [worker EXCEPT ![w].at = "finish", ![w].how = how]
        /\ how = "ok" => graph' = [graph EXCEPT ![e] = Links(worker[w].read)]
  BY DEF Sync
<1>2. worker'[w].at = "finish" /\ worker'[w].how = how /\ worker'[w].read = worker[w].read
  BY <1>0, <1>1 DEF WorkerStates
<1>3. e \in dirty' /\ pending' = pending /\ missed' = missed /\ content' = content /\ worker[w].at = "sync"
  BY DEF Sync, At
<1>4. how = "ok" => graph'[e] = Links(worker[w].read)
  BY <1>0, <1>1
<1>5. pending[e] = Settled /\ e \notin missed => worker[w].read = content[e]
  BY <1>3 DEF ReadInv, At
<1>. QED
  BY <1>1, <1>2, <1>3, <1>4, <1>5 DEF ReadInv, At

LEMMA ReadStep ==
  ASSUME Sound, [Next]_vars, NEW v \in Workers, NEW e \in Entities, LoadedBy(v, e) => ReadInv(v, e), LoadedBy(v, e)',
         AloneInv(e), e \notin raced'
  PROVE  ReadInv(v, e)'
<1>0. worker \in [Workers -> WorkerStates]
  BY DEF Sound, TypeOK
<1>1. CASE UNCHANGED vars
  BY <1>1 DEF vars, LoadedBy, ReadInv, Current, At
<1>2. CASE Around
  <2>1. worker' = worker /\ hash' = hash /\ graph' = graph /\ dirty' = dirty
    BY <1>2, AroundFrame
  <2>2. LoadedBy(v, e) /\ Loaded(e)
    BY <2>1 DEF LoadedBy, Loaded, Current
  <2>3. /\ e \in missed => e \in missed'
        /\ pending'[e] = Settled /\ e \notin missed' => pending[e] = Settled /\ content'[e] = content[e]
    BY <1>2, <2>2, AroundQuiet DEF Sound
  <2>. QED
    BY <2>1, <2>2, <2>3 DEF ReadInv, At
<1>3. ASSUME NEW w \in Workers, w # v, StepOf(w) PROVE ReadInv(v, e)'
  <2>1. worker'[v] = worker[v]
    BY <1>3, WorkerNext DEF Sound
  <2>2. LoadedBy(v, e)
    BY <2>1 DEF LoadedBy, Current
  <2>. SUFFICES ASSUME Works(v, e) PROVE ReadInv(v, e)'
    BY <2>1, <2>2 DEF LoadedBy, Works, ReadInv, At
  <2>3. /\ hash'[e] = hash[e] /\ graph'[e] = graph[e] /\ (e \in dirty' <=> e \in dirty)
        /\ (e \in missed => e \in missed') /\ content' = content /\ pending' = pending
    BY <1>3, <2>2, OthersSpare
  <2>. QED
    BY <2>1, <2>2, <2>3 DEF ReadInv, At
<1>4. CASE StepOf(v)
  <2>1. worker'[v].at \in {"sync", "finish", "fail", "release"}
    BY DEF LoadedBy
  <2>2. /\ Lock(v) \/ LockUnanswered(v) \/ Sync(v) \/ SyncRaises(v) \/ Finish(v) \/ Fail(v)
        /\ worker'[v].batch = worker[v].batch
    BY <1>4, <2>1, StageOwn
  <2>3. Current(v) = e /\ Current(v)' = e
    BY <2>2 DEF LoadedBy, Current
  <2>7. CASE Lock(v)
    BY <2>3, <2>7, ReadsRead DEF Lock
  <2>8. CASE LockUnanswered(v)
    <3>1. worker'[v].at \in {"sync", "finish"} => Reads(v, "nothing")
      BY <2>8, UnansweredNext DEF Sound
    <3>2. CASE worker'[v].at = "fail"
      BY <3>2 DEF ReadInv, At
    <3>3. CASE worker'[v].at \in {"sync", "finish"}
      BY <2>3, <2>8, <3>1, <3>3, ReadsRead DEF LockUnanswered
    <3>. QED
      BY <3>2, <3>3 DEF LoadedBy
  <2>4. CASE Sync(v)
    <3>1. ReadInv(v, e)
      BY <2>3, <2>4 DEF LoadedBy, Sync, At
    <3>. QED
      BY <2>3, <2>4, <3>1, SyncReads
  <2>5. CASE SyncRaises(v)
    <3>1. worker'[v].at = "fail"
      BY <2>5, LeaveNext DEF SyncRaises, Sound
    <3>. QED
      BY <3>1 DEF ReadInv, At
  <2>6. CASE Finish(v) \/ Fail(v)
    <3>1. worker'[v].at = "release"
      BY <2>6, LeaveNext DEF Finish, Fail, Sound
    <3>. QED
      BY <3>1 DEF LoadedBy
  <2>. QED
    BY <2>2, <2>4, <2>5, <2>6, <2>7, <2>8
<1>. QED
  BY <1>1, <1>2, <1>3, <1>4, NextCases

\* A worker's step that changes what is recorded of e is about e.
LEMMA WritesOwn ==
  ASSUME Sound, NEW w \in Workers, StepOf(w), NEW e \in Entities,
         ~((Sync(w) \/ SyncRaises(w) \/ Finish(w)) /\ Current(w) = e)
  PROVE  hash'[e] = hash[e] /\ graph'[e] = graph[e] /\ (e \in dirty' <=> e \in dirty)
<1>0. /\ hash \in [Entities -> Contents \union {NoHash}]
      /\ graph \in [Entities -> {Links(c) : c \in Contents} \union {"part"}]
  BY DEF Sound, TypeOK
<1>1. CASE ~Sync(w) /\ ~SyncRaises(w) /\ ~Finish(w)
  <2>1. CASE Lock(w) \/ LockUnanswered(w) \/ Crash(w)
    BY <2>1 DEF Lock, LockUnanswered, Crash
  <2>. QED
    BY <1>1, <2>1, Bystand DEF StepOf, Process
<1>2. CASE Sync(w) \/ SyncRaises(w)
  <2>1. /\ \E l : graph' = [graph EXCEPT ![Current(w)] = l] \/ graph' = graph
        /\ hash' = hash /\ dirty' \in {dirty, dirty \union {Current(w)}}
    BY <1>2 DEF Sync, SyncRaises
  <2>. QED
    BY <1>0, <1>2, <2>1
<1>3. CASE Finish(w)
  <2>1. /\ \E h : hash' = [hash EXCEPT ![Current(w)] = h]
        /\ graph' = graph /\ dirty' \in {dirty, dirty \ {Current(w)}}
    BY <1>3 DEF Finish
  <2>. QED
    BY <1>0, <1>3, <2>1
<1>. QED
  BY <1>1, <1>2, <1>3

\* What Finish records of its entity is what the links show.
LEMMA FinishRecords ==
  ASSUME Sound, NEW w \in Workers, Finish(w), NEW e \in Entities, Current(w) = e, ReadInv(w, e), HashInv(e)
  PROVE  HashInv(e)' /\ GraphInv(e)'
<1>0. /\ worker[w] \in WorkerStates /\ hash \in [Entities -> Contents \union {NoHash}] /\ worker[w].at = "finish"
  BY DEF Sound, TypeOK, Finish, At
<1>1. /\ hash'[e] = RunHash(w) /\ graph' = graph /\ content' = content /\ pending' = pending /\ missed' = missed
      /\ dirty' = (IF worker[w].how = "ok" THEN dirty \ {e} ELSE dirty)
  BY <1>0 DEF Finish
<1>2. worker[w].how \in {"disabled", "skip", "ok", "empty"}
  BY <1>0 DEF ReadInv, At, WorkerStates
<1>3. CASE worker[w].how = "disabled"
  <2>1. hash'[e] = NoHash /\ e \in missed'
    BY <1>0, <1>1, <1>3 DEF RunHash, ReadInv, At
  <2>. QED
    BY <2>1 DEF HashInv, GraphInv
<1>4. CASE worker[w].how = "empty"
  <2>1. e \in dirty'
    BY <1>0, <1>1, <1>4 DEF ReadInv, At
  <2>. QED
    BY <2>1 DEF HashInv, GraphInv
<1>5. CASE worker[w].how \in {"ok", "skip"}
  <2>1. e \notin dirty' => graph[e] = Links(worker[w].read)
    <3>1. CASE worker[w].how = "ok"
      BY <1>0, <3>1 DEF ReadInv, At
    <3>2. CASE worker[w].how = "skip"
      <4>1. hash[e] = worker[w].read /\ hash[e] # NoHash /\ dirty' = dirty
        BY <1>0, <1>1, <3>2, ContentsAssumption DEF ReadInv, At, WorkerStates, NoHash
      <4>. QED
        BY <4>1 DEF HashInv
    <3>. QED
      BY <1>5, <3>1, <3>2
  <2>2. hash'[e] \in {NoHash, worker[w].read}
    BY <1>1 DEF RunHash
  <2>3. pending[e] = Settled /\ e \notin missed => worker[w].read = content[e]
    BY <1>0 DEF ReadInv, At
  <2>4. HashInv(e)'
    BY <1>1, <2>1, <2>2 DEF HashInv
  <2>5. GraphInv(e)'
    BY <1>1, <2>1, <2>3 DEF GraphInv
  <2>. QED
    BY <2>4, <2>5
<1>. QED
  BY <1>2, <1>3, <1>4, <1>5

LEMMA HashStep ==
  ASSUME Sound, [Next]_vars, NEW e \in Entities, HashInv(e),
         \A w \in Workers : LoadedBy(w, e) => ReadInv(w, e)
  PROVE  HashInv(e)'
<1>0. graph \in [Entities -> {Links(c) : c \in Contents} \union {"part"}]
  BY DEF Sound, TypeOK
<1>1. CASE Around \/ UNCHANGED vars
  <2>1. hash' = hash /\ graph' = graph /\ dirty' = dirty
    BY <1>1, AroundFrame DEF vars
  <2>. QED
    BY <2>1 DEF HashInv
<1>2. ASSUME NEW w \in Workers, StepOf(w) PROVE HashInv(e)'
  <2>1. CASE ~((Sync(w) \/ SyncRaises(w) \/ Finish(w)) /\ Current(w) = e)
    <3>1. hash'[e] = hash[e] /\ graph'[e] = graph[e] /\ (e \in dirty' <=> e \in dirty)
      BY <1>2, <2>1, WritesOwn
    <3>. QED
      BY <3>1 DEF HashInv
  <2>2. CASE Finish(w) /\ Current(w) = e
    <3>1. ReadInv(w, e)
      BY <2>2 DEF Finish, At, LoadedBy
    <3>. QED
      BY <2>2, <3>1, FinishRecords
  <2>3. CASE Sync(w) /\ Current(w) = e
    BY <2>3 DEF Sync, HashInv
  <2>4. CASE SyncRaises(w) /\ Current(w) = e
    <3>1. hash' = hash /\ ((graph' = graph /\ dirty' = dirty) \/ e \in dirty')
      BY <2>4 DEF SyncRaises
    <3>. QED
      BY <3>1 DEF HashInv
  <2>. QED
    BY <2>1, <2>2, <2>3, <2>4
<1>. QED
  BY <1>1, <1>2, NextCases

\* A job becomes done by Finish alone.
LEMMA DoneByFinish ==
  ASSUME Sound, NEW w \in Workers, StepOf(w), NEW e \in Entities, job'[e].status = "done"
  PROVE  \/ job[e].status = "done" /\ ~(Fail(w) /\ Current(w) = e)
         \/ Finish(w) /\ Current(w) = e
<1>0. job \in [Entities -> JobStates]
  BY DEF Sound, TypeOK, JobStates
<1>1. ASSUME NEW S \in SUBSET Entities, NEW status \in {"queued", "failed"}, NEW due, Set(S, status, due)
      PROVE  job[e].status = "done" /\ e \notin S
  <2>1. job'[e] = IF e \in S THEN [status |-> status, due |-> due] ELSE job[e]
    BY <1>1 DEF Set
  <2>. QED
    BY <2>1
<1>2. CASE \E S \in SUBSET Entities : Recover(w, S)
  <2>1. job[e].status = "done" /\ worker[w].at = "poll"
    BY <1>1, <1>2 DEF Recover, At
  <2>. QED
    BY <2>1 DEF Fail, At
<1>3. CASE NoLock(w) \/ Fail(w)
  <2>1. {Current(w)} \in SUBSET Entities
    BY <1>3, CurrentEntity DEF NoLock, Fail, At, Sound
  <2>2. \E status \in {"queued", "failed"} : Set({Current(w)}, status, FALSE)
    BY <1>3 DEF NoLock, Fail
  <2>. QED
    BY <1>1, <2>1, <2>2
<1>4. CASE Mark(w)
  <2>1. \E S : job' = [f \in Entities |-> IF f \in S THEN [job[f] EXCEPT !.status = "running"] ELSE job[f]]
    BY <1>4 DEF Mark
  <2>2. job[e].status = "done"
    BY <1>0, <2>1 DEF JobStates
  <2>. QED
    BY <1>4, <2>2 DEF Mark, Fail, At
<1>5. CASE Finish(w)
  <2>1. job' = [job EXCEPT ![Current(w)].status = "done"]
    BY <1>5 DEF Finish
  <2>2. Current(w) # e => job[e].status = "done"
    BY <1>0, <2>1
  <2>. QED
    BY <1>5, <2>2
<1>6. CASE \/ Look(w) \/ Lock(w) \/ LockUnanswered(w) \/ Sync(w) \/ SyncRaises(w) \/ Release(w)
           \/ Restart(w) \/ Select(w)
  <2>1. job' = job
    BY <1>6 DEF Look, Lock, LockUnanswered, Sync, SyncRaises, Release, Restart, Select
  <2>2. worker[w].at # "fail"
    BY <1>6 DEF Look, Lock, LockUnanswered, Sync, SyncRaises, Release, Restart, Select, At
  <2>. QED
    BY <2>1, <2>2 DEF Fail, At
<1>7. CASE Crash(w) /\ ~Fail(w)
  BY <1>7 DEF Crash
<1>8. CASE Crash(w) /\ Fail(w)
  BY <1>3, <1>8
<1>. QED
  BY <1>2, <1>3, <1>4, <1>5, <1>6, <1>7, <1>8 DEF StepOf, Process

\* An analysis ends with its worker's Finish, Fail or Crash.
LEMMA LoadedEnds ==
  ASSUME Sound, NEW w \in Workers, StepOf(w), NEW e \in Entities, ~Loaded(e)'
  PROVE  \/ ~Loaded(e) /\ ~((Lock(w) \/ LockUnanswered(w)) /\ Current(w) = e)
         \/ LoadedBy(w, e) /\ (Finish(w) \/ Fail(w) \/ Crash(w))
<1>0. worker \in [Workers -> WorkerStates] /\ BatchInv(w)
  BY DEF Sound, TypeOK
<1>1. ~LoadedBy(w, e)' /\ \A v \in Workers : v # w => ~LoadedBy(v, e)
  <2>1. \A v \in Workers : ~LoadedBy(v, e)'
    BY DEF Loaded
  <2>2. \A v \in Workers \ {w} : worker'[v] = worker[v]
    BY WorkerNext DEF Sound
  <2>. QED
    BY <2>1, <2>2 DEF LoadedBy, Current
<1>2. ~((Lock(w) \/ LockUnanswered(w)) /\ Current(w) = e)
  <2>. SUFFICES ASSUME Lock(w) \/ LockUnanswered(w), Current(w) = e PROVE FALSE
    OBVIOUS
  <2>1. CASE Lock(w)
    <3>1. At(w, "lock") /\ Reads(w, "lock")
      BY <2>1 DEF Lock
    <3>2. worker'[w].batch = worker[w].batch /\ worker'[w].at \in {"sync", "finish"}
      BY <1>0, <3>1, ReadsNext DEF Sound
    <3>. QED
      BY <1>1, <3>2 DEF LoadedBy, Current
  <2>2. CASE LockUnanswered(w)
    <3>1. worker'[w].batch = worker[w].batch /\ worker'[w].at \in {"sync", "finish", "fail"}
      BY <1>0, <2>2, UnansweredNext DEF Sound
    <3>. QED
      BY <1>1, <3>1 DEF LoadedBy, Current
  <2>. QED
    BY <2>1, <2>2
<1>3. ASSUME LoadedBy(w, e), Sync(w) PROVE FALSE
  <2>1. \E how \in {"ok", "empty"} : worker' = [worker EXCEPT ![w].at = "finish", ![w].how = how]
    BY <1>3 DEF Sync
  <2>2. worker'[w].at = "finish" /\ worker'[w].batch = worker[w].batch
    BY <1>0, <2>1 DEF WorkerStates
  <2>. QED
    BY <1>1, <1>3, <2>2 DEF LoadedBy, Current
<1>4. ASSUME LoadedBy(w, e), SyncRaises(w) PROVE FALSE
  <2>1. worker'[w].at = "fail" /\ worker'[w].batch = worker[w].batch
    BY <1>4, LeaveNext DEF SyncRaises, Sound
  <2>. QED
    BY <1>1, <1>4, <2>1 DEF LoadedBy, Current
<1>5. ASSUME LoadedBy(w, e)
      PROVE  ~(\/ Mark(w) \/ Look(w) \/ Lock(w) \/ LockUnanswered(w) \/ NoLock(w) \/ Release(w)
               \/ Restart(w) \/ Select(w) \/ \E S \in SUBSET Entities : Recover(w, S))
  BY <1>5 DEF LoadedBy, Mark, Look, Lock, LockUnanswered, NoLock, Release, Restart, Select, Recover, At
<1>6. LoadedBy(w, e) => Finish(w) \/ Fail(w) \/ Crash(w)
  BY <1>3, <1>4, <1>5 DEF StepOf, Process
<1>. QED
  BY <1>1, <1>2, <1>6 DEF Loaded

LEMMA GraphStep ==
  ASSUME Sound, [Next]_vars, NEW e \in Entities, HashInv(e), GraphInv(e),
         \A w \in Workers : LoadedBy(w, e) => ReadInv(w, e)
  PROVE  GraphInv(e)'
<1>. SUFFICES ASSUME job'[e].status = "done", pending'[e] = Settled, ~Loaded(e)', e \notin missed', e \notin dirty'
              PROVE  graph'[e] = Links(content'[e])
  BY DEF GraphInv
<1>1. CASE Around
  <2>1. worker' = worker /\ graph' = graph /\ dirty' = dirty
    BY <1>1, AroundFrame
  <2>2. ~Loaded(e)
    BY <2>1 DEF Loaded, LoadedBy, Current
  <2>3. e \notin missed /\ job[e].status = "done" /\ pending[e] = Settled /\ content'[e] = content[e]
    BY <1>1, AroundQuiet DEF Sound
  <2>. QED
    BY <2>1, <2>2, <2>3 DEF GraphInv
<1>2. CASE UNCHANGED vars
  BY <1>2 DEF vars, GraphInv, Loaded, LoadedBy, Current
<1>3. ASSUME NEW w \in Workers, StepOf(w) PROVE graph'[e] = Links(content'[e])
  <2>1. CASE Finish(w) /\ Current(w) = e
    <3>1. ReadInv(w, e)
      BY <2>1 DEF Finish, At, LoadedBy
    <3>2. GraphInv(e)'
      BY <2>1, <3>1, FinishRecords
    <3>. QED
      BY <3>2 DEF GraphInv
  <2>2. CASE ~(Finish(w) /\ Current(w) = e)
    <3>1. job[e].status = "done" /\ ~(Fail(w) /\ Current(w) = e)
      BY <1>3, <2>2, DoneByFinish
    <3>2. ~(LoadedBy(w, e) /\ Crash(w))
      BY <3>1 DEF Crash
    <3>3. ~Loaded(e) /\ ~((Lock(w) \/ LockUnanswered(w)) /\ Current(w) = e)
      BY <1>3, <2>2, <3>1, <3>2, LoadedEnds DEF LoadedBy
    <3>4. ~((Sync(w) \/ SyncRaises(w) \/ Finish(w)) /\ Current(w) = e)
      BY <3>3 DEF Sync, SyncRaises, Finish, At, Loaded, LoadedBy
    <3>5. hash'[e] = hash[e] /\ graph'[e] = graph[e] /\ (e \in dirty' <=> e \in dirty)
      BY <1>3, <3>4, WritesOwn
    <3>6. content' = content /\ pending' = pending /\ (e \in missed => e \in missed')
      <4>1. CASE Lock(w) \/ LockUnanswered(w)
        <5>1. /\ content' = content /\ pending' = pending
              /\ missed' \in {missed, missed \union {Current(w)}, missed \ {Current(w)}}
          BY <4>1 DEF Lock, LockUnanswered, Reads
        <5>. QED
          BY <3>3, <4>1, <5>1
      <4>2. CASE Sync(w) \/ SyncRaises(w) \/ Finish(w) \/ Crash(w)
        BY <4>2 DEF Sync, SyncRaises, Finish, Crash
      <4>. QED
        BY <1>3, <4>1, <4>2, Bystand DEF StepOf, Process
    <3>. QED
      BY <3>1, <3>3, <3>5, <3>6 DEF GraphInv
  <2>. QED
    BY <2>1, <2>2
<1>. QED
  BY <1>1, <1>2, <1>3, NextCases

-----------------------------------------------------------------------------
(* The invariant and what follows from it.                                 *)

LEMMA InvInit == Init => IInv
<1>. SUFFICES ASSUME Init PROVE IInv
  OBVIOUS
<1>1. TypeOK
  <2>1. Data
    <3>1. Settled \in [still : {"nothing", "event", "row"}, to : Contents]
      BY ContentsAssumption DEF Settled
    <3>. QED
      BY <3>1, ContentsAssumption, BoundAssumption DEF Init, Data
  <2>2. Idle \in WorkerStates
    BY ContentsAssumption DEF Idle, WorkerStates
  <2>3. Free \in LockStates
    BY DEF Free, LockStates
  <2>4. job \in [Entities -> JobStates] /\ Open = {}
    BY DEF Init, JobStates, Statuses, Open
  <2>5. worker \in [Workers -> WorkerStates] /\ lock \in [Projects -> LockStates]
    BY <2>2, <2>3 DEF Init
  <2>. QED
    BY <2>1, <2>4, <2>5 DEF Init, TypeOK, Data, JobStates
<1>2. \A w \in Workers : worker[w].at = "poll"
  BY DEF Init, Idle
<1>3. \A e \in Entities : graph[e] = Links(content[e]) /\ hash[e] = content[e]
  BY DEF Init
<1>. QED
  BY <1>1, <1>2, <1>3 DEF IInv, BatchInv, LockInv, HasLock, LoadedBy, Works, AloneInv, HashInv, GraphInv

LEMMA Inductive == Spec => []IInv
<1>1. IInv /\ [Next]_vars => IInv'
  <2>. SUFFICES ASSUME IInv, [Next]_vars PROVE IInv'
    OBVIOUS
  <2>1. Sound
    BY DEF IInv, Sound
  <2>2. TypeOK' /\ \A w \in Workers : BatchInv(w)'
    BY <2>1, TypeStep DEF Sound
  <2>3. \A w \in Workers : LockInv(w)'
    BY <2>1, LockStep
  <2>4. \A e \in Entities \ raced' : e \in Entities \ raced
    BY RacedStays
  <2>5. ASSUME NEW e \in Entities \ raced'
        PROVE  /\ AloneInv(e)' /\ HashInv(e)' /\ GraphInv(e)'
               /\ \A w \in Workers : LoadedBy(w, e)' => ReadInv(w, e)'
    <3>1. /\ AloneInv(e) /\ HashInv(e) /\ GraphInv(e)
          /\ \A w \in Workers : LoadedBy(w, e) => ReadInv(w, e)
      BY <2>4 DEF IInv
    <3>2. AloneInv(e)'
      BY <2>1, <3>1, AloneStep
    <3>3. HashInv(e)' /\ GraphInv(e)'
      BY <2>1, <3>1, HashStep, GraphStep
    <3>4. \A w \in Workers : LoadedBy(w, e)' => ReadInv(w, e)'
      BY <2>1, <3>1, ReadStep
    <3>. QED
      BY <3>2, <3>3, <3>4
  <2>. QED
    BY <2>2, <2>3, <2>4, <2>5 DEF IInv
<1>. QED
  BY <1>1, InvInit, PTL DEF Spec

\* Type correctness: the job table has one row per entity, and the jobs that
\* are not done are ordered by when they were last touched
\* (_enqueue_analysis_job, _claim_analysis_jobs).
THEOREM TypeCorrect == Spec => []TypeOK
<1>1. IInv => TypeOK
  BY DEF IInv
<1>. QED
  BY <1>1, Inductive, PTL

\* For any number of servers, projects and faults, no two workers that were
\* granted the project's lock analyse at a time: who was granted it has it on a
\* connection in use, whatever workers without it undo at their end
\* (_try_acquire_project_lock, _release_project_lock).
THEOREM AnalysesExclude == Spec => []OneAnalysisPerProject
<1>1. IInv => OneAnalysisPerProject
  <2>1. IInv => Sound
    BY DEF IInv, Sound
  <2>. QED
    BY <2>1, Alone DEF OneAnalysisPerProject, Analysing, HasLock
<1>. QED
  BY <1>1, Inductive, PTL

\* For any entities, contents and faults, a job that is done has left links
\* that are current, with and without the project's lock, unless a change was
\* missed, an unfinished run wrote them, or two workers analysed the entity at
\* once (_process_analysis_job).
THEOREM GraphsCurrent == Spec => []GraphIsCurrent
<1>1. IInv => GraphIsCurrent
  BY DEF IInv, GraphInv, GraphIsCurrent
<1>. QED
  BY <1>1, Inductive, PTL
=============================================================================
