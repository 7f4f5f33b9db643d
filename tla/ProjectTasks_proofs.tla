------------------------- MODULE ProjectTasks_proofs -------------------------
(* Proofs about ProjectTasks, for any tasks, calls, scenarios and faults:   *)
(* the types, deletions that are complete and stand, and a plan that is     *)
(* sound; and, at the end, about one row of ReadModel.                      *)
(*                                                                          *)
(* What a row, a transaction and the worker's events say of a task has been *)
(* said in its stream (Follows, Reached), and only a patch takes back what  *)
(* a stream has said (Grows).  A call's view of the rows is its own while   *)
(* it holds their locks, and each of its jobs is a step of its command.     *)
(*                                                                          *)
(* The plan is sound because of two promises that the calls keep: a task    *)
(* without a row is being created by a call that will write it, and two     *)
(* tasks of which one should wait for the other are still to be looked at   *)
(* by a call that creates one of them or that has a job for the one that    *)
(* should wait.                                                             *)
EXTENDS ProjectTasks, ReadModel, FiniteSetTheorems, TLAPS

-----------------------------------------------------------------------------
(* The inductive invariant.                                                *)

\* The places of a call that has a job, and of one that has stored its event.
Working == {"load", "append", "row", "tags", "blocked"}
Writing == {"row", "tags", "blocked"}

NoPatch == \A c \in Calls : call[c].cmd.do # "patch"

\* What the events, jobs and calls are made of.
Events ==
  {Created(p) : p \in Priorities} \union {Deleted} \union [needs : SUBSET Tasks]
    \union [priority : Priorities, needs : SUBSET Tasks]
JobSet == [of : Streams, event : Events]
Views == UNION {[S -> States] : S \in SUBSET Streams}
Answers == {"none", "ok", "404", "409", "error"}

CallRecs ==
  [at : Ats, cmd : Commands \union {NoCommand}, tries : 0 .. MaxAttempts - 1,
   phase : {"do", "plan"}, jobs : Seq(JobSet), version : Nat, base : States,
   mine : Views, known : SUBSET Tasks, answer : Answers]

Types ==
  /\ state \in [Streams -> States]
  /\ version \in [Streams -> Nat]
  /\ row \in [Streams -> States]
  /\ todo \in [Streams -> Seq(Events)]
  /\ rowLock \in [Streams -> Calls \union {NoCall}]
  /\ tagLock \in Calls \union {NoCall}
  /\ call \in [Calls -> CallRecs]
  /\ clean \in BOOLEAN

\* What has been said of a row r has been said in the stream, whose events
\* add up to s.
Follows(r, s, frozen) ==
  /\ r.known => s.known
  /\ ~r.known => r = Absent
  /\ r.deleted => s.deleted
  /\ frozen => /\ r.known => r.priority = s.priority
               /\ r.needs # {} => s.needs # {}

\* What an event of the stream said still holds.
Reached(e, s, frozen) ==
  /\ IsCreation(e) => s.known
  /\ "deleted" \in DOMAIN e /\ ~IsCreation(e) => s.deleted
  /\ frozen => /\ "priority" \in DOMAIN e => s.known /\ e.priority = s.priority
               /\ "needs" \in DOMAIN e /\ e.needs # {} => s.needs # {}

\* What a stream has said that is not taken back.
Grows(s, s1, frozen) ==
  /\ s.known => s1.known
  /\ s.deleted => s1.deleted
  /\ frozen => /\ s.known => s1.priority = s.priority
               /\ s.needs # {} => s1.needs # {}

\* A stream, its row and the events that the worker has to replay.
StreamOK(s) ==
  /\ version[s] = 0 => state[s] = Absent
  /\ Follows(row[s], state[s], NoPatch)
  /\ \A i \in DOMAIN todo[s] : Reached(todo[s][i], state[s], NoPatch)

\* The tasks that t waits for have a higher priority.
NeedsHigher(t, needs) ==
  \A u \in needs : state[u].known /\ state[t].known /\ state[u].priority < state[t].priority

NeedsOK == NoPatch => \A t \in Tasks : NeedsHigher(t, state[t].needs)

\* The jobs that a command can have.
JobOK(c, j) ==
  LET cmd == call[c].cmd
      phase == call[c].phase
  IN \/ /\ cmd.do = "create" /\ phase = "do"
        /\ j = [of |-> cmd.task, event |-> Created(cmd.priority)]
     \/ /\ cmd.do = "create" /\ phase = "plan"
        /\ j.of \in Tasks /\ j.event \in [needs : SUBSET Tasks] /\ j.event.needs # {}
        /\ NoPatch => NeedsHigher(j.of, j.event.needs)
     \/ /\ cmd.do = "patch" /\ phase = "do"
        /\ j.of = cmd.task /\ j.event \in [priority : Priorities, needs : SUBSET Tasks]
     \/ /\ cmd.do \in {"bulk", "delete_project"} /\ phase = "do"
        /\ j.event = Deleted

JobsOK(c) == \A i \in DOMAIN call[c].jobs : JobOK(c, call[c].jobs[i])

\* What a call has at each place.
PlaceOK(c) ==
  /\ call[c].at # "end" => call[c].answer = "none"
  /\ call[c].at \in {"idle", "check", "plan", "end"} => call[c].mine = <<>>
  /\ call[c].at = "commit" => call[c].jobs = <<>>
  /\ call[c].at \in Working => call[c].jobs # <<>>
  /\ call[c].at \notin {"idle", "end"} => call[c].cmd \in Commands
  /\ call[c].at = "plan" => call[c].cmd.do = "create" /\ call[c].phase = "do"
  /\ call[c].at = "end" => c # tagLock /\ \A s \in Streams : rowLock[s] # c

\* A creation appends to an empty stream, and inserts a row that nobody else
\* has inserted.
CreationOK(c) ==
  call[c].at \in Working /\ call[c].cmd.do = "create" /\ call[c].phase = "do" =>
    /\ call[c].at # "load" /\ Len(call[c].jobs) = 1 /\ call[c].mine = <<>>
    /\ call[c].at = "append" => call[c].version = 0
    /\ call[c].at \in Writing => call[c].base = Absent
    /\ call[c].at \in {"tags", "blocked"} => ~row[call[c].cmd.task].known

\* A job whose event is stored, and the row that is written for it.
WriteOK(c) ==
  /\ call[c].at \in Working => JobsOK(c)
  /\ call[c].at \in Writing \/ (call[c].at \in Working /\ call[c].cmd.do = "patch") =>
       (call[c].base.known => row[Job(c).of].known \/ Job(c).of \in DOMAIN call[c].mine)
  /\ call[c].at \in Writing => Reached(Job(c).event, state[Job(c).of], NoPatch)
  /\ call[c].at \in {"tags", "blocked"} =>
       /\ call[c].base.known \/ IsCreation(Job(c).event)
       /\ DOMAIN Writes(c) # {} => rowLock[Job(c).of] = c

\* The rows that the transaction has written are locked, and go on from the
\* committed ones.
MineOK(c) ==
  \A s \in DOMAIN call[c].mine :
    /\ rowLock[s] = c
    /\ call[c].mine[s].known
    /\ row[s].deleted => call[c].mine[s].deleted
    /\ Follows(call[c].mine[s], state[s], NoPatch)

\* A deletion has done with a task or has a job for it.
DeletionOK(c) ==
  call[c].cmd.do = "delete_project" =>
    /\ call[c].at # "idle" => \A t \in call[c].known : row[t].known
    /\ call[c].at \in Working \union {"commit"} =>
         \A s \in call[c].known \union {Project} :
           state[s].deleted \/ \E i \in DOMAIN call[c].jobs : call[c].jobs[i].of = s
    /\ call[c].answer = "ok" => \A s \in call[c].known \union {Project} : state[s].deleted

CallOK(c) == PlaceOK(c) /\ CreationOK(c) /\ WriteOK(c) /\ MineOK(c) /\ DeletionOK(c)

IInv ==
  /\ Types
  /\ \A s \in Streams : StreamOK(s)
  /\ NeedsOK
  /\ \A c \in Calls : CallOK(c)

\* Call c has created t and will commit its row.
Creating(c, t) ==
  /\ call[c].cmd.do = "create" /\ call[c].phase = "do" /\ call[c].cmd.task = t
  /\ call[c].at \in Writing \/ (call[c].at = "commit" /\ t \in DOMAIN call[c].mine)

RowsComing ==
  clean => \A t \in Tasks : state[t].known => row[t].known \/ \E c \in Calls : Creating(c, t)

\* Call c has yet to look at t, or to make it wait.
Planning(c, t, u) ==
  /\ call[c].cmd.do = "create"
  /\ \/ /\ call[c].phase = "do" /\ call[c].cmd.task \in {t, u}
        /\ call[c].at \in Writing \union {"commit", "plan"}
     \/ /\ call[c].phase = "plan" /\ call[c].at \in Working
        /\ \E i \in DOMAIN call[c].jobs : call[c].jobs[i].of = t

PlansComing ==
  clean /\ NoPatch =>
    \A t, u \in Tasks :
      Live(state[t]) /\ Live(state[u]) /\ state[u].priority < state[t].priority =>
        state[t].needs # {} \/ \E c \in Calls : Planning(c, t, u)

PInv == IInv /\ RowsComing /\ PlansComing

-----------------------------------------------------------------------------
(* Events and what they do to a state or a row.                            *)

\* The four kinds of events: a creation, a deletion, a backfill, a patch.
LEMMA EventKinds ==
  ASSUME NEW e \in Events
  PROVE  \/ /\ DOMAIN e = {"known", "priority", "needs", "deleted"}
            /\ e.known = TRUE /\ e.priority \in Priorities /\ e.needs = {} /\ e.deleted = FALSE
         \/ e = Deleted /\ DOMAIN e = {"deleted"} /\ e.deleted = TRUE
         \/ DOMAIN e = {"needs"} /\ e.needs \in SUBSET Tasks
         \/ /\ DOMAIN e = {"priority", "needs"}
            /\ e.priority \in Priorities /\ e.needs \in SUBSET Tasks
<1>1. CASE e \in {Created(p) : p \in Priorities}
  BY <1>1 DEF Created
<1>2. CASE e \in {Deleted}
  BY <1>2 DEF Deleted
<1>3. CASE e \in [needs : SUBSET Tasks]
  BY <1>3
<1>4. CASE e \in [priority : Priorities, needs : SUBSET Tasks]
  BY <1>4
<1> QED
  BY <1>1, <1>2, <1>3, <1>4 DEF Events

\* The fields of a state.
LEMMA StateFields ==
  ASSUME NEW s \in States
  PROVE  /\ DOMAIN s = {"known", "priority", "needs", "deleted"}
         /\ s.known \in BOOLEAN /\ s.priority \in Priorities
         /\ s.needs \in SUBSET Tasks /\ s.deleted \in BOOLEAN
  BY DEF States

\* A function with the fields of a state is one.
LEMMA StateFromFields ==
  ASSUME NEW g, g = [x \in {"known", "priority", "needs", "deleted"} |-> g[x]],
         g.known \in BOOLEAN, g.priority \in Priorities, g.needs \in SUBSET Tasks,
         g.deleted \in BOOLEAN
  PROVE  g \in States
  BY DEF States

\* An overlay of a state by some of its fields.
LEMMA OverlayFields ==
  ASSUME NEW f, NEW s \in States, DOMAIN f \subseteq {"known", "priority", "needs", "deleted"},
         "known" \in DOMAIN f => f.known \in BOOLEAN,
         "priority" \in DOMAIN f => f.priority \in Priorities,
         "needs" \in DOMAIN f => f.needs \in SUBSET Tasks,
         "deleted" \in DOMAIN f => f.deleted \in BOOLEAN
  PROVE  /\ Overlay(f, s) \in States
         /\ Overlay(f, s).known = IF "known" \in DOMAIN f THEN f.known ELSE s.known
         /\ Overlay(f, s).priority = IF "priority" \in DOMAIN f THEN f.priority ELSE s.priority
         /\ Overlay(f, s).needs = IF "needs" \in DOMAIN f THEN f.needs ELSE s.needs
         /\ Overlay(f, s).deleted = IF "deleted" \in DOMAIN f THEN f.deleted ELSE s.deleted
<1> DEFINE All == {"known", "priority", "needs", "deleted"}
<1> DEFINE g == Overlay(f, s)
<1>1. DOMAIN s = All /\ s.known \in BOOLEAN /\ s.priority \in Priorities
      /\ s.needs \in SUBSET Tasks /\ s.deleted \in BOOLEAN
  BY StateFields
<1>2. DOMAIN f \union DOMAIN s = All
  BY <1>1
<1>3. g = [x \in All |-> IF x \in DOMAIN f THEN f[x] ELSE s[x]]
  BY <1>2 DEF Overlay
<1>4. /\ g.known = IF "known" \in DOMAIN f THEN f.known ELSE s.known
      /\ g.priority = IF "priority" \in DOMAIN f THEN f.priority ELSE s.priority
      /\ g.needs = IF "needs" \in DOMAIN f THEN f.needs ELSE s.needs
      /\ g.deleted = IF "deleted" \in DOMAIN f THEN f.deleted ELSE s.deleted
  BY <1>3
<1>5. g = [x \in All |-> g[x]]
  BY <1>3
<1> HIDE DEF g
<1>6. g \in States
  BY <1>1, <1>4, <1>5, StateFromFields
<1> QED
  BY <1>4, <1>6 DEF g

\* What the session writes to its row.
LEMMA WrittenFields ==
  ASSUME NEW e, NEW b
  PROVE  /\ DOMAIN Written(b, e) = {f \in RowFields(e) : e[f] # b[f]}
         /\ \A f \in DOMAIN Written(b, e) : Written(b, e)[f] = e[f]
  BY DEF Written

LEMMA AbsentState == Absent \in States
  BY DEF Absent, States, Priorities

\* Storing an event that does not take back what the stream has said.
LEMMA StoredGrows ==
  ASSUME NEW s \in States, NEW e \in Events, NEW frozen \in BOOLEAN,
         IsCreation(e) => s = Absent,
         frozen /\ ~IsCreation(e) => "priority" \notin DOMAIN e,
         frozen /\ ~IsCreation(e) /\ "needs" \in DOMAIN e => e.needs # {}
  PROVE  /\ Overlay(e, s) \in States
         /\ Grows(s, Overlay(e, s), frozen)
         /\ Reached(e, Overlay(e, s), frozen)
<1> DEFINE g == Overlay(e, s)
<1>z. \/ /\ DOMAIN e = {"known", "priority", "needs", "deleted"}
         /\ e.known = TRUE /\ e.priority \in Priorities /\ e.needs = {} /\ e.deleted = FALSE
      \/ e = Deleted /\ DOMAIN e = {"deleted"} /\ e.deleted = TRUE
      \/ DOMAIN e = {"needs"} /\ e.needs \in SUBSET Tasks
      \/ /\ DOMAIN e = {"priority", "needs"}
         /\ e.priority \in Priorities /\ e.needs \in SUBSET Tasks
  BY EventKinds
<1>a. /\ DOMAIN e \subseteq {"known", "priority", "needs", "deleted"}
      /\ "known" \in DOMAIN e => e.known = TRUE /\ e.needs = {} /\ e.deleted = FALSE
                              /\ {"priority", "needs", "deleted"} \subseteq DOMAIN e
      /\ "priority" \in DOMAIN e => e.priority \in Priorities
      /\ "needs" \in DOMAIN e => e.needs \in SUBSET Tasks
      /\ "deleted" \in DOMAIN e => e.deleted \in BOOLEAN
      /\ "deleted" \in DOMAIN e /\ "known" \notin DOMAIN e => e.deleted = TRUE
  BY <1>z
<1>b. Absent.known = FALSE /\ Absent.needs = {} /\ Absent.deleted = FALSE
  BY DEF Absent
<1>1. /\ g \in States
      /\ g.known = IF "known" \in DOMAIN e THEN e.known ELSE s.known
      /\ g.priority = IF "priority" \in DOMAIN e THEN e.priority ELSE s.priority
      /\ g.needs = IF "needs" \in DOMAIN e THEN e.needs ELSE s.needs
      /\ g.deleted = IF "deleted" \in DOMAIN e THEN e.deleted ELSE s.deleted
  BY <1>a, OverlayFields
<1> HIDE DEF g
<1>2. Grows(s, g, frozen)
  BY <1>1, <1>a, <1>b DEF Grows, IsCreation
<1>3. Reached(e, g, frozen)
  BY <1>1, <1>a, <1>b DEF Reached, IsCreation
<1> QED
  BY <1>1, <1>2, <1>3 DEF g

\* Writing a row keeps it behind its stream: an event that is no creation on
\* top of a row that is there, and a creation on the row that was loaded.
LEMMA WriteFollows ==
  ASSUME NEW v \in States, NEW s \in States, NEW b \in States, NEW e \in Events,
         NEW frozen \in BOOLEAN,
         Follows(v, s, frozen), Reached(e, s, frozen),
         IsCreation(e) => b = v,
         v.known \/ IsCreation(e)
  PROVE  /\ Overlay(Written(b, e), v) \in States
         /\ Overlay(Written(b, e), v).known
         /\ v.deleted => Overlay(Written(b, e), v).deleted
         /\ Follows(Overlay(Written(b, e), v), s, frozen)
<1>z. \/ /\ DOMAIN e = {"known", "priority", "needs", "deleted"}
         /\ e.known = TRUE /\ e.priority \in Priorities /\ e.needs = {} /\ e.deleted = FALSE
      \/ e = Deleted /\ DOMAIN e = {"deleted"} /\ e.deleted = TRUE
      \/ DOMAIN e = {"needs"} /\ e.needs \in SUBSET Tasks
      \/ /\ DOMAIN e = {"priority", "needs"}
         /\ e.priority \in Priorities /\ e.needs \in SUBSET Tasks
  BY EventKinds
<1> DEFINE w == Written(b, e)
<1> DEFINE g == Overlay(w, v)
<1>1. /\ DOMAIN w = {f \in RowFields(e) : e[f] # b[f]}
      /\ \A f \in DOMAIN w : w[f] = e[f]
  BY WrittenFields
<1> HIDE DEF w
<1>2. RowFields(e) \subseteq DOMAIN e /\ (IsCreation(e) => "deleted" \notin RowFields(e))
  BY DEF RowFields
<1>3. /\ DOMAIN w \subseteq {"known", "priority", "needs", "deleted"}
      /\ "known" \in DOMAIN w => w.known \in BOOLEAN
      /\ "priority" \in DOMAIN w => w.priority \in Priorities
      /\ "needs" \in DOMAIN w => w.needs \in SUBSET Tasks
      /\ "deleted" \in DOMAIN w => w.deleted \in BOOLEAN
  BY <1>1, <1>2, <1>z
<1>4. /\ g \in States
      /\ g.known = IF "known" \in DOMAIN w THEN w.known ELSE v.known
      /\ g.priority = IF "priority" \in DOMAIN w THEN w.priority ELSE v.priority
      /\ g.needs = IF "needs" \in DOMAIN w THEN w.needs ELSE v.needs
      /\ g.deleted = IF "deleted" \in DOMAIN w THEN w.deleted ELSE v.deleted
  BY <1>3, OverlayFields
<1> HIDE DEF g
<1>5. CASE IsCreation(e)
  <2>a. DOMAIN e = {"known", "priority", "needs", "deleted"} /\ e.known = TRUE /\ e.needs = {}
    BY <1>5, <1>z DEF IsCreation
  <2>1. e.known = TRUE /\ e.needs = {} /\ b = v /\ RowFields(e) = {"known", "priority", "needs"}
    BY <1>5, <2>a DEF RowFields
  <2>2. g.known = TRUE /\ g.priority = e.priority /\ g.needs = {} /\ g.deleted = v.deleted
    BY <2>1, <1>1, <1>4, StateFields
  <2>3. s.known /\ (frozen => e.priority = s.priority)
    BY <1>5, <2>a DEF Reached
  <2>4. Follows(g, s, frozen)
    BY <2>2, <2>3 DEF Follows
  <2> QED
    BY <1>4, <2>2, <2>4 DEF g, w
<1>6. CASE ~IsCreation(e)
  <2>1. v.known = TRUE /\ "known" \notin DOMAIN w
    BY <1>1, <1>2, <1>6, StateFields DEF IsCreation
  <2>2. g.known = TRUE
    BY <2>1, <1>4
  <2>3. "deleted" \in DOMAIN w => w.deleted = TRUE /\ s.deleted
    BY <1>1, <1>2, <1>6, <1>z DEF Reached, IsCreation
  <2>4. frozen /\ "priority" \in DOMAIN w => w.priority = s.priority
    BY <1>1, <1>2, <1>6 DEF Reached
  <2>5. frozen /\ "needs" \in DOMAIN w /\ w.needs # {} => s.needs # {}
    BY <1>1, <1>2, <1>6 DEF Reached
  <2> QED
    BY <1>4, <2>1, <2>2, <2>3, <2>4, <2>5 DEF Follows, g, w
<1> QED
  BY <1>5, <1>6

LEMMA GrowsSame ==
  ASSUME NEW s \in States, NEW frozen
  PROVE  Grows(s, s, frozen)
  BY DEF Grows

LEMMA FollowsOn ==
  ASSUME NEW r \in States, NEW s \in States, NEW s1 \in States, NEW frozen \in BOOLEAN,
         Follows(r, s, frozen), Grows(s, s1, frozen)
  PROVE  Follows(r, s1, frozen)
  BY DEF Follows, Grows

LEMMA ReachedOn ==
  ASSUME NEW e, NEW s \in States, NEW s1 \in States, NEW frozen \in BOOLEAN,
         Reached(e, s, frozen), Grows(s, s1, frozen)
  PROVE  Reached(e, s1, frozen)
  BY DEF Reached, Grows

-----------------------------------------------------------------------------
(* Steps as the calls that do not take them see them.                      *)

\* The record of one call is replaced.
LEMMA Put ==
  ASSUME call \in [Calls -> CallRecs], NEW c \in Calls, NEW r \in CallRecs,
         call' = [call EXCEPT ![c] = r]
  PROVE  /\ call' \in [Calls -> CallRecs] /\ call'[c] = r
         /\ \A d \in Calls \ {c} : call'[d] = call[d]
  OBVIOUS

LEMMA RecFields ==
  ASSUME NEW r \in CallRecs
  PROVE  /\ r.at \in Ats /\ r.cmd \in Commands \union {NoCommand}
         /\ r.tries \in 0 .. MaxAttempts - 1 /\ r.phase \in {"do", "plan"}
         /\ r.jobs \in Seq(JobSet) /\ r.version \in Nat /\ r.base \in States
         /\ r.mine \in Views /\ r.known \in SUBSET Tasks /\ r.answer \in Answers
  BY DEF CallRecs

LEMMA ViewFacts ==
  ASSUME NEW m \in Views
  PROVE  DOMAIN m \subseteq Streams /\ \A s \in DOMAIN m : m[s] \in States
<1>1. PICK S \in SUBSET Streams : m \in [S -> States]
  BY DEF Views
<1> QED
  BY <1>1

LEMMA EmptyView == <<>> \in Views /\ DOMAIN <<>> = {}
<1>1. DOMAIN <<>> = {}
  OBVIOUS
<1>2. <<>> = [s \in {} |-> Absent]
  OBVIOUS
<1>3. <<>> \in [{} -> States]
  BY <1>2
<1> QED
  BY <1>1, <1>3 DEF Views

\* A call keeps its command, so that what the commands are does not change.
LEMMA PatchSame ==
  ASSUME \A c \in Calls : call'[c].cmd = call[c].cmd
  PROVE  (NoPatch <=> NoPatch') /\ NoPatch \in BOOLEAN /\ NoPatch' \in BOOLEAN
  BY DEF NoPatch

\* What a step of another call, of the worker or a crash does to call d.
Env(d) ==
  /\ \A s \in Streams :
       /\ Grows(state[s], state'[s], NoPatch)
       /\ row[s].known => row'[s].known
       /\ rowLock[s] = d => row'[s] = row[s]
       /\ rowLock[s] = d <=> rowLock'[s] = d
  /\ tagLock = d <=> tagLock' = d

LEMMA NeedsHigherOn ==
  ASSUME Types, NoPatch, \A s \in Streams : Grows(state[s], state'[s], NoPatch),
         NEW t \in Tasks, NEW needs \in SUBSET Tasks, NeedsHigher(t, needs)
  PROVE  NeedsHigher(t, needs)'
<1>1. \A s \in Streams : state[s].known => state'[s].known /\ state'[s].priority = state[s].priority
  BY DEF Grows
<1> QED
  BY <1>1 DEF NeedsHigher, Streams

LEMMA JobOn ==
  ASSUME Types, NEW d \in Calls, call'[d].cmd = call[d].cmd, call'[d].phase = call[d].phase,
         NoPatch <=> NoPatch', \A s \in Streams : Grows(state[s], state'[s], NoPatch),
         NEW j \in JobSet, JobOK(d, j)
  PROVE  JobOK(d, j)'
<1>1. CASE call[d].cmd.do = "create" /\ call[d].phase = "plan" /\ j.event \in [needs : SUBSET Tasks]
           /\ j.of \in Tasks
  <2>1. NoPatch /\ NeedsHigher(j.of, j.event.needs) => NeedsHigher(j.of, j.event.needs)'
    BY <1>1, NeedsHigherOn
  <2> QED
    BY <1>1, <2>1 DEF JobOK
<1>2. CASE ~(call[d].cmd.do = "create" /\ call[d].phase = "plan" /\ j.event \in [needs : SUBSET Tasks]
           /\ j.of \in Tasks)
  BY <1>2 DEF JobOK
<1> QED
  BY <1>1, <1>2

LEMMA JobFacts ==
  ASSUME NEW r \in CallRecs, r.jobs # <<>>
  PROVE  /\ Head(r.jobs) \in JobSet /\ Head(r.jobs) = r.jobs[1] /\ 1 \in DOMAIN r.jobs
         /\ Head(r.jobs).of \in Streams /\ Head(r.jobs).event \in Events
<1>1. r.jobs \in Seq(JobSet)
  BY RecFields
<1>2. Head(r.jobs) \in JobSet /\ Head(r.jobs) = r.jobs[1] /\ 1 \in DOMAIN r.jobs
  BY <1>1
<1> QED
  BY <1>2 DEF JobSet

\* The creation of a task has its row to itself once it has written it.
LEMMA CreationLock ==
  ASSUME Types, NEW d \in Calls, CallOK(d),
         call[d].at \in {"tags", "blocked"}, call[d].cmd.do = "create", call[d].phase = "do"
  PROVE  Job(d).of = call[d].cmd.task /\ rowLock[call[d].cmd.task] = d
         /\ Job(d).event = Created(call[d].cmd.priority) /\ "known" \in DOMAIN Writes(d)
<1>1. call[d] \in CallRecs
  BY DEF Types
<1>2. call[d].jobs # <<>> /\ call[d].base = Absent
  BY DEF CallOK, PlaceOK, CreationOK, Working, Writing
<1>3. Job(d) = call[d].jobs[1] /\ 1 \in DOMAIN call[d].jobs
  BY <1>1, <1>2, JobFacts DEF Job
<1>4. JobOK(d, Job(d))
  BY <1>3 DEF CallOK, WriteOK, JobsOK, Working
<1>5. Job(d) = [of |-> call[d].cmd.task, event |-> Created(call[d].cmd.priority)]
  BY <1>4 DEF JobOK
<1>6. Job(d).of = call[d].cmd.task /\ Job(d).event = Created(call[d].cmd.priority)
  BY <1>5
<1>7. "known" \in DOMAIN Writes(d)
  BY <1>2, <1>6 DEF Writes, Written, RowFields, IsCreation, Created, Absent
<1> QED
  BY <1>6, <1>7 DEF CallOK, WriteOK

LEMMA OthersOK ==
  ASSUME Types, Types', NEW d \in Calls, call'[d] = call[d], NoPatch <=> NoPatch',
         NoPatch \in BOOLEAN, Env(d), CallOK(d)
  PROVE  CallOK(d)'
<1> USE DEF CallOK
<1>0. call[d] \in CallRecs /\ Job(d)' = Job(d) /\ Writes(d)' = Writes(d)
  BY DEF Types, Job, Writes
<1>a. state \in [Streams -> States] /\ state' \in [Streams -> States]
      /\ row \in [Streams -> States] /\ row' \in [Streams -> States]
  BY DEF Types
<1>b. DOMAIN call[d].mine \subseteq Streams /\ \A s \in DOMAIN call[d].mine : call[d].mine[s] \in States
  BY <1>0, RecFields, ViewFacts
<1>1. PlaceOK(d)'
  BY DEF PlaceOK, Env
<1>2. CreationOK(d)'
  <2> SUFFICES ASSUME call[d].at \in {"tags", "blocked"}, call[d].cmd.do = "create",
                      call[d].phase = "do"
               PROVE  ~row'[call[d].cmd.task].known
    BY DEF CreationOK, Working, Writing
  <2>1. Job(d).of = call[d].cmd.task /\ rowLock[call[d].cmd.task] = d
    BY CreationLock
  <2>2. call[d].jobs # <<>>
    BY DEF PlaceOK, Working
  <2>3. call[d].cmd.task \in Streams
    BY <1>0, <2>1, <2>2, JobFacts DEF Job
  <2> QED
    BY <2>1, <2>3 DEF Env, CreationOK, Working
<1>3. WriteOK(d)'
  <2> DEFINE o == Job(d).of
  <2>1. call[d].at \in Working => o \in Streams /\ Job(d).event \in Events
    BY <1>0, JobFacts DEF PlaceOK, Job
  <2>2. call[d].at \in Working => JobsOK(d)'
    <3> SUFFICES ASSUME call[d].at \in Working, NEW i \in DOMAIN call[d].jobs
                 PROVE  JobOK(d, call[d].jobs[i])'
      BY DEF JobsOK
    <3>1. JobOK(d, call[d].jobs[i]) /\ call[d].jobs[i] \in JobSet
      BY <1>0, RecFields DEF WriteOK, JobsOK
    <3>2. PICK j \in JobSet : j = call[d].jobs[i] /\ JobOK(d, j)
      BY <3>1
    <3>3. JobOK(d, j)'
      BY <3>2, JobOn DEF Env
    <3> QED
      BY <3>2, <3>3 DEF JobOK
  <2>3. call[d].at \in Writing => Reached(Job(d).event, state'[o], NoPatch)
    <3> SUFFICES ASSUME call[d].at \in Writing PROVE Reached(Job(d).event, state'[o], NoPatch)
      OBVIOUS
    <3>1. o \in Streams
      BY <2>1 DEF Writing, Working
    <3>2. Grows(state[o], state'[o], NoPatch) /\ state[o] \in States /\ state'[o] \in States
      BY <1>a, <3>1 DEF Env
    <3>3. Reached(Job(d).event, state[o], NoPatch)
      BY DEF WriteOK
    <3> QED
      BY <3>2, <3>3, ReachedOn
  <2>4. o \in Streams => (row[o].known => row'[o].known) /\ (rowLock[o] = d => rowLock'[o] = d)
    BY DEF Env
  <2> HIDE DEF o
  <2> QED
    BY <1>0, <2>1, <2>2, <2>3, <2>4 DEF WriteOK, Writing, Working, o
<1>4. MineOK(d)'
  <2> SUFFICES ASSUME NEW s \in DOMAIN call[d].mine
               PROVE  /\ rowLock'[s] = d
                      /\ call[d].mine[s].known
                      /\ row'[s].deleted => call[d].mine[s].deleted
                      /\ Follows(call[d].mine[s], state'[s], NoPatch')
    BY DEF MineOK
  <2>1. s \in Streams /\ call[d].mine[s] \in States /\ state[s] \in States /\ state'[s] \in States
    BY <1>a, <1>b
  <2>2. rowLock[s] = d /\ call[d].mine[s].known /\ (row[s].deleted => call[d].mine[s].deleted)
        /\ Follows(call[d].mine[s], state[s], NoPatch)
    BY DEF MineOK
  <2>3. Grows(state[s], state'[s], NoPatch) /\ rowLock'[s] = d /\ row'[s] = row[s]
    BY <2>1, <2>2 DEF Env
  <2>4. Follows(call[d].mine[s], state'[s], NoPatch)
    BY <2>1, <2>2, <2>3, FollowsOn
  <2> QED
    BY <2>2, <2>3, <2>4
<1>5. DeletionOK(d)'
  <2>1. \A s \in Streams : (state[s].deleted => state'[s].deleted) /\ (row[s].known => row'[s].known)
    BY DEF Env, Grows
  <2>2. call[d].known \subseteq Streams /\ Project \in Streams
    BY <1>0, RecFields DEF Streams
  <2> QED
    BY <2>1, <2>2 DEF DeletionOK
<1> QED
  BY <1>1, <1>2, <1>3, <1>4, <1>5

\* The streams when no event is stored and no row is written.
LEMMA QuietStreams ==
  ASSUME Types, NoPatch <=> NoPatch', NoPatch \in BOOLEAN, NoPatch' \in BOOLEAN,
         UNCHANGED <<state, version, row, todo>>,
         \A s \in Streams : StreamOK(s), NeedsOK
  PROVE  (\A s \in Streams : StreamOK(s)') /\ NeedsOK'
<1>1. NoPatch = NoPatch'
  OBVIOUS
<1> QED
  BY <1>1 DEF StreamOK, NeedsOK, NeedsHigher

\* A step that only replaces the record of a call, and may take or release
\* locks of that call.
LEMMA Quiet ==
  ASSUME IInv, NEW c \in Calls, NEW r \in CallRecs, call' = [call EXCEPT ![c] = r],
         r.cmd = call[c].cmd, UNCHANGED <<state, version, row, todo>>,
         rowLock' \in [Streams -> Calls \union {NoCall}], tagLock' \in Calls \union {NoCall},
         clean' \in BOOLEAN,
         \A d \in Calls \ {c} : /\ \A s \in Streams : rowLock[s] = d <=> rowLock'[s] = d
                                /\ tagLock = d <=> tagLock' = d,
         CallOK(c)'
  PROVE  IInv'
<1>0. Types /\ NeedsOK /\ (\A s \in Streams : StreamOK(s)) /\ \A d \in Calls : CallOK(d)
  BY DEF IInv
<1>1. call' \in [Calls -> CallRecs] /\ call'[c] = r /\ \A d \in Calls \ {c} : call'[d] = call[d]
  BY <1>0, Put DEF Types
<1>2. Types'
  BY <1>0, <1>1 DEF Types
<1>3. (NoPatch <=> NoPatch') /\ NoPatch \in BOOLEAN /\ NoPatch' \in BOOLEAN
  BY <1>1, PatchSame
<1>4. (\A s \in Streams : StreamOK(s)') /\ NeedsOK'
  BY <1>0, <1>3, QuietStreams
<1>5. ASSUME NEW d \in Calls \ {c} PROVE CallOK(d)'
  <2>1. Env(d)
    BY <1>0, GrowsSame DEF Env, Types
  <2> QED
    BY <1>0, <1>1, <1>2, <1>3, <2>1, OthersOK
<1> QED
  BY <1>2, <1>4, <1>5 DEF IInv

\* The end of a transaction releases the locks of its call and no others.
LEMMA Released ==
  ASSUME Types, NEW c \in Calls, ReleaseLocks(c)
  PROVE  /\ rowLock' \in [Streams -> Calls \union {NoCall}] /\ tagLock' \in Calls \union {NoCall}
         /\ tagLock' # c /\ \A s \in Streams : rowLock'[s] # c
         /\ \A d \in Calls \ {c} : /\ \A s \in Streams : rowLock[s] = d <=> rowLock'[s] = d
                                   /\ tagLock = d <=> tagLock' = d
  BY NoCallAssumption DEF Types, ReleaseLocks

\* The record of a call that has been answered.
EndRec(q, a) == [Idle(q.cmd) EXCEPT !.at = "end", !.answer = a, !.known = q.known]

LEMMA Ended ==
  ASSUME NEW q \in CallRecs, NEW a \in Answers, NEW r, r = EndRec(q, a)
  PROVE  /\ r \in CallRecs /\ r.at = "end" /\ r.answer = a /\ r.known = q.known
         /\ r.cmd = q.cmd /\ r.mine = <<>>
<1>1. q.cmd \in Commands \union {NoCommand} /\ q.known \in SUBSET Tasks
  BY RecFields
<1>2. Absent \in States /\ <<>> \in Views /\ <<>> \in Seq(JobSet)
  BY AbsentState, EmptyView
<1>3. 0 \in 0 .. MaxAttempts - 1 /\ 0 \in Nat /\ "end" \in Ats /\ "none" \in Answers
  BY AttemptsAssumption DEF Ats, Answers
<1>4. Idle(q.cmd) \in CallRecs /\ Idle(q.cmd).cmd = q.cmd /\ Idle(q.cmd).mine = <<>>
  BY <1>1, <1>2, <1>3 DEF CallRecs, Idle, Ats
<1> HIDE DEF Idle
<1> QED
  BY <1>1, <1>3, <1>4 DEF CallRecs, EndRec

\* What a deletion that is over needs of its record.
DeletionDone(c) ==
  call[c].cmd.do = "delete_project" =>
    \A s \in call[c].known \union {Project} : state[s].deleted

\* A call that is over when it has been answered.
LEMMA EndedOK ==
  ASSUME IInv, NEW c \in Calls, NEW a \in Answers, NEW r, r = EndRec(call[c], a),
         call'[c] = r, call[c].at # "idle", state' \in [Streams -> States],
         \A s \in Streams : row[s].known => row'[s].known,
         \A s \in Streams : state[s].deleted => state'[s].deleted,
         tagLock' # c, \A s \in Streams : rowLock'[s] # c,
         a = "ok" => DeletionDone(c)
  PROVE  CallOK(c)'
<1>1. call[c] \in CallRecs /\ CallOK(c)
  BY DEF IInv, Types
<1>2. /\ r \in CallRecs /\ r.at = "end" /\ r.answer = a /\ r.known = call[c].known
      /\ r.cmd = call[c].cmd /\ r.mine = <<>>
  BY <1>1, Ended
<1>3. call[c].known \subseteq Tasks
  BY <1>1, RecFields
<1>4. PlaceOK(c)' /\ CreationOK(c)' /\ WriteOK(c)'
  BY <1>2 DEF PlaceOK, CreationOK, WriteOK, Working, Writing
<1>5. MineOK(c)'
  BY <1>2, EmptyView DEF MineOK
<1>6. DeletionOK(c)'
  BY <1>1, <1>2, <1>3 DEF CallOK, DeletionOK, DeletionDone, Working, Streams
<1> QED
  BY <1>4, <1>5, <1>6 DEF CallOK

\* A call is answered and its locks are released; nothing else happens.
LEMMA AnswerOK ==
  ASSUME IInv, NEW c \in Calls, NEW a \in Answers, Answer(c, a), call[c].at # "idle",
         UNCHANGED <<state, version, row, todo>>, clean' \in BOOLEAN,
         a = "ok" => DeletionDone(c)
  PROVE  IInv'
<1> DEFINE r == EndRec(call[c], a)
<1>1. call' = [call EXCEPT ![c] = r] /\ ReleaseLocks(c)
  BY DEF Answer, EndRec
<1>2. Types /\ call[c] \in CallRecs
  BY DEF IInv, Types
<1>3. r \in CallRecs /\ r.cmd = call[c].cmd
  BY <1>2, Ended
<1>4. /\ rowLock' \in [Streams -> Calls \union {NoCall}] /\ tagLock' \in Calls \union {NoCall}
      /\ tagLock' # c /\ \A s \in Streams : rowLock'[s] # c
      /\ \A d \in Calls \ {c} : /\ \A s \in Streams : rowLock[s] = d <=> rowLock'[s] = d
                                /\ tagLock = d <=> tagLock' = d
  BY <1>1, <1>2, Released
<1> HIDE DEF r
<1>5. call'[c] = r /\ row' = row /\ state' = state /\ state' \in [Streams -> States]
  BY <1>1, <1>2 DEF Types
<1>6. CallOK(c)'
  BY <1>4, <1>5, EndedOK DEF r
<1> QED
  BY <1>1, <1>3, <1>4, <1>6, Quiet

-----------------------------------------------------------------------------
(* The initial states, and the checks.                                     *)

\* Every element of a finite set has a place in each of its sequences.
LEMMA SeqsOnto ==
  ASSUME NEW S, IsFiniteSet(S), NEW o \in SetToSeqs(S)
  PROVE  /\ Cardinality(S) \in Nat /\ o \in [1 .. Cardinality(S) -> S]
         /\ DOMAIN o = 1 .. Cardinality(S) /\ Len(o) = Cardinality(S)
         /\ \A x \in S : \E i \in DOMAIN o : o[i] = x
<1> DEFINE n == Cardinality(S)
<1>1. n \in Nat
  BY FS_CardinalityType
<1>2. o \in [1 .. n -> S] /\ \A i, j \in 1 .. n : i # j => o[i] # o[j]
  BY DEF SetToSeqs
<1>3. IsFiniteSet(1 .. n) /\ Cardinality(1 .. n) = n
  BY <1>1, FS_Interval
<1>4. o \in Injection(1 .. n, S)
  BY <1>2 DEF Injection, IsInjective
<1>5. o \in Surjection(1 .. n, S)
  BY <1>3, <1>4, FS_Injection
<1>6. Len(o) = n
  BY <1>1, <1>2
<1> QED
  BY <1>1, <1>2, <1>5, <1>6 DEF Surjection

LEMMA FirstState ==
  ASSUME NEW sc \in Scenarios, NEW t \in DOMAIN sc.tasks
  PROVE  /\ AtFirst(sc, t) \in States /\ AtFirst(sc, t).known = TRUE
         /\ AtFirst(sc, t).deleted = FALSE /\ AtFirst(sc, t).priority = sc.tasks[t]
         /\ AtFirst(sc, t).needs = {u \in DOMAIN sc.tasks : sc.tasks[u] < sc.tasks[t]}
<1>1. sc.tasks[t] \in Priorities /\ DOMAIN sc.tasks \subseteq Tasks
  BY ScenariosAssumption
<1> DEFINE N == {u \in DOMAIN sc.tasks : sc.tasks[u] < sc.tasks[t]}
<1>2. N \in SUBSET Tasks
  BY <1>1
<1> DEFINE q == Created(sc.tasks[t])
<1>3. q \in States /\ q.known = TRUE /\ q.deleted = FALSE /\ q.priority = sc.tasks[t]
  BY <1>1 DEF Created, States
<1>4. AtFirst(sc, t) = [q EXCEPT !.needs = N]
  BY DEF AtFirst
<1> HIDE DEF N, q
<1> QED
  BY <1>2, <1>3, <1>4 DEF States, N

LEMMA IdleRecord ==
  ASSUME NEW cmd \in Commands \union {NoCommand}
  PROVE  /\ Idle(cmd) \in CallRecs /\ Idle(cmd).at = "idle" /\ Idle(cmd).cmd = cmd
         /\ Idle(cmd).mine = <<>> /\ Idle(cmd).answer = "none"
<1>1. Absent \in States /\ <<>> \in Views /\ <<>> \in Seq(JobSet)
  BY AbsentState, EmptyView
<1>2. 0 \in 0 .. MaxAttempts - 1 /\ 0 \in Nat /\ "none" \in Answers
  BY AttemptsAssumption DEF Answers
<1> QED
  BY <1>1, <1>2 DEF CallRecs, Idle, Ats

LEMMA InitInv == Init => IInv
<1> SUFFICES ASSUME Init PROVE IInv
  OBVIOUS
<1>1. PICK sc \in Scenarios :
        /\ state = [s \in Streams |->
             IF s = Project THEN Created(0)
             ELSE IF s \in DOMAIN sc.tasks THEN AtFirst(sc, s) ELSE Absent]
        /\ call = [c \in Calls |-> Idle(IF c \in DOMAIN sc.cmd THEN sc.cmd[c] ELSE NoCommand)]
  BY DEF Init
<1>2. /\ version = [s \in Streams |-> IF ~state[s].known THEN 0
                                      ELSE IF state[s].needs = {} THEN 1 ELSE 2]
      /\ row = state
      /\ todo = [s \in Streams |-> <<>>]
      /\ rowLock = [s \in Streams |-> NoCall]
      /\ tagLock = NoCall
      /\ clean = TRUE
  BY DEF Init
<1>3. Created(0) \in States /\ Created(0).known = TRUE /\ Created(0).deleted = FALSE
  BY DEF Created, States, Priorities
<1>4. Absent \in States /\ Absent.known = FALSE /\ Absent.needs = {} /\ Absent.deleted = FALSE
  BY AbsentState DEF Absent
<1>5. \A s \in Streams : state[s] \in States /\ (~state[s].known => state[s] = Absent)
  BY <1>1, <1>3, <1>4, FirstState
<1>6. \A c \in Calls : /\ call[c] \in CallRecs /\ call[c].at = "idle" /\ call[c].mine = <<>>
                       /\ call[c].answer = "none"
  <2> SUFFICES ASSUME NEW c \in Calls
               PROVE  /\ call[c] \in CallRecs /\ call[c].at = "idle" /\ call[c].mine = <<>>
                      /\ call[c].answer = "none"
    OBVIOUS
  <2>1. (IF c \in DOMAIN sc.cmd THEN sc.cmd[c] ELSE NoCommand) \in Commands \union {NoCommand}
    BY ScenariosAssumption
  <2> QED
    BY <1>1, <2>1, IdleRecord
<1>7. Types
  <2>1. state \in [Streams -> States] /\ call \in [Calls -> CallRecs]
    BY <1>1, <1>5, <1>6
  <2> QED
    BY <1>2, <2>1 DEF Types
<1>8. ASSUME NEW s \in Streams PROVE StreamOK(s)
  <2>1. version[s] = 0 => state[s] = Absent
    BY <1>2, <1>5
  <2>2. Follows(row[s], state[s], NoPatch)
    BY <1>2, <1>5 DEF Follows
  <2> QED
    BY <1>2, <2>1, <2>2 DEF StreamOK
<1>9. NeedsOK
  <2> SUFFICES ASSUME NEW t \in Tasks, NEW u \in state[t].needs
               PROVE  state[u].known /\ state[t].known /\ state[u].priority < state[t].priority
    BY DEF NeedsOK, NeedsHigher
  <2>1. t \in Streams /\ t # Project
    BY TasksAssumption DEF Streams, Project
  <2>2. t \in DOMAIN sc.tasks
    BY <1>1, <1>4, <2>1
  <2>3. state[t] = AtFirst(sc, t)
    BY <1>1, <2>1, <2>2
  <2>4. u \in DOMAIN sc.tasks /\ sc.tasks[u] < sc.tasks[t] /\ state[t].known
        /\ state[t].priority = sc.tasks[t]
    BY <2>2, <2>3, FirstState
  <2>5. u \in Streams /\ u # Project
    BY <2>4, ScenariosAssumption, TasksAssumption DEF Streams, Project
  <2>6. state[u] = AtFirst(sc, u)
    BY <1>1, <2>4, <2>5
  <2> QED
    BY <2>4, <2>6, FirstState
<1>10. ASSUME NEW c \in Calls PROVE CallOK(c)
  <2>1. PlaceOK(c) /\ CreationOK(c) /\ WriteOK(c) /\ DeletionOK(c)
    BY <1>6 DEF PlaceOK, CreationOK, WriteOK, DeletionOK, Working, Writing
  <2>2. MineOK(c)
    BY <1>6, EmptyView DEF MineOK
  <2> QED
    BY <2>1, <2>2 DEF CallOK
<1> QED
  BY <1>7, <1>8, <1>9, <1>10 DEF IInv

\* The row of a stream knows no more than its events.
LEMMA RowFacts ==
  ASSUME IInv, NEW s \in Streams
  PROVE  /\ row[s] \in States /\ state[s] \in States
         /\ row[s].known => state[s].known
         /\ row[s].deleted => state[s].deleted
         /\ ~row[s].known => row[s] = Absent
         /\ version[s] = 0 => state[s] = Absent
  BY DEF IInv, Types, StreamOK, Follows

LEMMA BeginOK ==
  ASSUME IInv, NEW c \in Calls, Begin(c)
  PROVE  IInv'
<1> DEFINE K == IF call[c].cmd.do = "delete_project" THEN Listed ELSE {}
<1> DEFINE r == [call[c] EXCEPT !.at = "check", !.known = K]
<1>1. call' = [call EXCEPT ![c] = r]
  BY DEF Begin
<1>2. Types /\ call[c] \in CallRecs /\ CallOK(c)
  BY DEF IInv, Types
<1>3. K \in SUBSET Tasks /\ (\A t \in K : row[t].known)
  BY DEF Listed, Live
<1> HIDE DEF K
<1>4. r \in CallRecs /\ r.at = "check" /\ r.known = K /\ r.cmd = call[c].cmd
      /\ r.mine = call[c].mine /\ r.answer = call[c].answer
  BY <1>2, <1>3 DEF CallRecs, Ats
<1> HIDE DEF r
<1>5. call'[c] = r /\ UNCHANGED <<state, version, row, todo, rowLock, tagLock, clean>>
  BY <1>1, <1>2 DEF Begin, Types
<1>6. call[c].at = "idle" /\ call[c].cmd \in Commands
  BY <1>2, RecFields DEF Begin
<1>7. PlaceOK(c)' /\ CreationOK(c)' /\ WriteOK(c)'
  BY <1>2, <1>4, <1>5, <1>6 DEF CallOK, PlaceOK, CreationOK, WriteOK, Working, Writing
<1>8. MineOK(c)'
  BY <1>2, <1>4, <1>5, <1>6, EmptyView DEF CallOK, PlaceOK, MineOK
<1>9. DeletionOK(c)'
  BY <1>2, <1>3, <1>4, <1>5, <1>6 DEF CallOK, PlaceOK, DeletionOK, Working
<1>10. CallOK(c)'
  BY <1>7, <1>8, <1>9 DEF CallOK
<1> QED
  BY <1>1, <1>2, <1>4, <1>5, <1>10, Quiet DEF Types

\* The first list of a call's jobs.
LEMMA StartOK ==
  ASSUME IInv, NEW c \in Calls, NEW at \in {"append", "load"}, NEW jobs \in Seq(JobSet),
         NEW base \in States, Start(c, at, jobs, base), call[c].at = "check", jobs # <<>>,
         UNCHANGED <<state, version, row, todo, faults, clean>>,
         \/ /\ call[c].cmd.do = "create" /\ at = "append" /\ Len(jobs) = 1
            /\ jobs[1] = [of |-> call[c].cmd.task, event |-> Created(call[c].cmd.priority)]
         \/ /\ call[c].cmd.do = "patch" /\ Len(jobs) = 1 /\ jobs[1].of = call[c].cmd.task
            /\ jobs[1].event \in [priority : Priorities, needs : SUBSET Tasks]
            /\ base = row[call[c].cmd.task]
         \/ /\ call[c].cmd.do \in {"bulk", "delete_project"} /\ at = "load"
            /\ \A i \in DOMAIN jobs : jobs[i].event = Deleted
            /\ call[c].cmd.do = "delete_project" =>
                 \A s \in Listed \union {Project} : \E i \in DOMAIN jobs : jobs[i].of = s
  PROVE  IInv'
<1> DEFINE r == [call[c] EXCEPT !.at = at, !.phase = "do", !.jobs = jobs, !.version = 0, !.base = base]
<1>1. call' = [call EXCEPT ![c] = r]
  BY DEF Start
<1>2. Types /\ call[c] \in CallRecs /\ CallOK(c)
  BY DEF IInv, Types
<1>3. /\ r \in CallRecs /\ r.at = at /\ r.phase = "do" /\ r.jobs = jobs /\ r.version = 0
      /\ r.base = base /\ r.cmd = call[c].cmd /\ r.mine = call[c].mine
      /\ r.known = call[c].known /\ r.answer = call[c].answer
  BY <1>2 DEF CallRecs, Ats
<1> HIDE DEF r
<1>4. call'[c] = r /\ UNCHANGED <<state, version, row, todo, rowLock, tagLock, clean>>
  BY <1>1, <1>2 DEF Start, Types
<1>5. call[c].cmd \in Commands /\ call[c].mine = <<>> /\ call[c].answer = "none"
  BY <1>2 DEF CallOK, PlaceOK
<1>6. PlaceOK(c)'
  BY <1>3, <1>4, <1>5 DEF PlaceOK
<1>7. CreationOK(c)'
  BY <1>3, <1>4, <1>5 DEF CreationOK, Writing
<1>8. 1 \in DOMAIN jobs /\ Job(c)' = jobs[1]
  BY <1>3, <1>4 DEF Job
<1>9. JobsOK(c)'
  BY <1>3, <1>4 DEF JobOK, JobsOK
<1>10. WriteOK(c)'
  BY <1>3, <1>4, <1>8, <1>9 DEF WriteOK, Working, Writing
<1>11. MineOK(c)'
  BY <1>3, <1>4, <1>5, EmptyView DEF MineOK
<1>12. DeletionOK(c)'
  <2> SUFFICES ASSUME call[c].cmd.do = "delete_project" PROVE DeletionOK(c)'
    BY <1>3, <1>4 DEF DeletionOK
  <2>1. call[c].known \subseteq Tasks /\ \A t \in call[c].known : row[t].known
    BY <1>2, RecFields DEF CallOK, DeletionOK
  <2>2. \A t \in call[c].known : t \in Listed \/ state[t].deleted
    <3> SUFFICES ASSUME NEW t \in call[c].known PROVE t \in Listed \/ state[t].deleted
      OBVIOUS
    <3>1. t \in Streams /\ t \in Tasks /\ row[t].known
      BY <2>1 DEF Streams
    <3> QED
      BY <3>1, RowFacts DEF Listed, Live
  <2> QED
    BY <1>3, <1>4, <1>5, <2>1, <2>2 DEF DeletionOK
<1>13. CallOK(c)'
  BY <1>6, <1>7, <1>10, <1>11, <1>12 DEF CallOK
<1> QED
  BY <1>1, <1>2, <1>3, <1>4, <1>13, Quiet DEF Types

LEMMA CommandFields ==
  ASSUME NEW cmd \in Commands
  PROVE  /\ cmd.do \in {"create", "patch", "bulk", "delete_project"}
         /\ cmd.do \in {"create", "patch"} => cmd.task \in Tasks /\ cmd.priority \in Priorities
         /\ cmd.do = "bulk" => cmd.tasks \in Seq(Tasks) /\ cmd.tasks # <<>>
  BY DEF Commands

LEMMA EventTypes ==
  /\ Deleted \in Events
  /\ \A p \in Priorities : Created(p) \in Events
  /\ \A n \in SUBSET Tasks : [needs |-> n] \in Events
  /\ \A p \in Priorities, n \in SUBSET Tasks : [priority |-> p, needs |-> n] \in Events
  BY DEF Events

LEMMA CheckOK ==
  ASSUME IInv, NEW c \in Calls, Check(c)
  PROVE  IInv'
<1> DEFINE cmd == call[c].cmd
<1>1. Types /\ call[c] \in CallRecs /\ CallOK(c) /\ call[c].at = "check" /\ call[c].at # "idle"
      /\ UNCHANGED <<state, version, row, todo, faults, clean>> /\ clean' \in BOOLEAN
  BY DEF IInv, Types, Check
<1>2. cmd \in Commands /\ Project \in Streams /\ Tasks \subseteq Streams
  BY <1>1 DEF CallOK, PlaceOK, Streams
<1>3. {"ok", "404", "409"} \subseteq Answers
  BY DEF Answers
<1>4. ASSUME NEW a \in {"404", "409"}, Answer(c, a)
      PROVE  IInv'
  BY <1>1, <1>3, <1>4, AnswerOK
<1>5. CASE cmd.do = "create" /\ CheckCreate(c)
  <2>1. cmd.task \in Tasks /\ cmd.priority \in Priorities
    BY <1>2, <1>5, CommandFields
  <2>2. CASE Answer(c, "ok")
    BY <1>1, <1>3, <1>5, <2>2, AnswerOK DEF DeletionDone
  <2>3. CASE Start(c, "append", <<[of |-> cmd.task, event |-> Created(cmd.priority)]>>, Absent)
    <3> DEFINE j == [of |-> cmd.task, event |-> Created(cmd.priority)]
    <3>1. j \in JobSet
      BY <1>2, <2>1, EventTypes DEF JobSet
    <3>2. Start(c, "append", <<j>>, Absent)
      BY <2>3
    <3> HIDE DEF j
    <3>3. <<j>> \in Seq(JobSet) /\ <<j>> # <<>> /\ Len(<<j>>) = 1 /\ <<j>>[1] = j
      BY <3>1
    <3>4. <<j>>[1] = [of |-> call[c].cmd.task, event |-> Created(call[c].cmd.priority)]
      BY <3>3 DEF j
    <3>5. Absent \in States
      BY AbsentState
    <3> HIDE DEF cmd
    <3> QED
      BY <1>1, <1>5, <3>2, <3>3, <3>4, <3>5, StartOK DEF cmd
  <2> QED
    BY <1>4, <1>5, <2>2, <2>3 DEF CheckCreate
<1>6. CASE cmd.do = "patch" /\ CheckPatch(c)
  <2>1. cmd.task \in Tasks /\ cmd.priority \in Priorities
    BY <1>2, <1>6, CommandFields
  <2> DEFINE j == [of |-> cmd.task,
                   event |-> [priority |-> cmd.priority, needs |-> state[cmd.task].needs]]
  <2>2. CASE Start(c, "load", <<j>>, row[cmd.task])
    <3>1. state[cmd.task].needs \in SUBSET Tasks /\ row[cmd.task] \in States
      BY <1>1, <1>2, <2>1, StateFields DEF Types
    <3>2. /\ [priority |-> cmd.priority, needs |-> state[cmd.task].needs] \in Events
          /\ [priority |-> cmd.priority, needs |-> state[cmd.task].needs]
               \in [priority : Priorities, needs : SUBSET Tasks]
      BY <2>1, <3>1, EventTypes
    <3>3. j \in JobSet /\ j.of = cmd.task
          /\ j.event \in [priority : Priorities, needs : SUBSET Tasks]
      BY <1>2, <2>1, <3>2 DEF JobSet
    <3> HIDE DEF j
    <3>4. <<j>> \in Seq(JobSet) /\ <<j>> # <<>> /\ Len(<<j>>) = 1 /\ <<j>>[1] = j
      BY <3>3
    <3> QED
      BY <1>1, <1>6, <2>2, <3>1, <3>3, <3>4, StartOK
  <2> QED
    BY <1>4, <1>6, <2>2 DEF CheckPatch
<1>7. CASE cmd.do = "bulk" /\ CheckBulk(c)
  <2> DEFINE jobs == [i \in DOMAIN cmd.tasks |-> [of |-> cmd.tasks[i], event |-> Deleted]]
  <2>1. cmd.tasks \in Seq(Tasks) /\ cmd.tasks # <<>>
    BY <1>2, <1>7, CommandFields
  <2>2. DOMAIN cmd.tasks = 1 .. Len(cmd.tasks) /\ Len(cmd.tasks) \in Nat /\ Len(cmd.tasks) # 0
    BY <2>1
  <2>3. \A i \in 1 .. Len(cmd.tasks) : [of |-> cmd.tasks[i], event |-> Deleted] \in JobSet
    BY <1>2, <2>1, EventTypes DEF JobSet
  <2>4. /\ jobs \in Seq(JobSet) /\ DOMAIN jobs = 1 .. Len(cmd.tasks) /\ jobs # <<>>
        /\ \A i \in DOMAIN jobs : jobs[i].event = Deleted
    BY <2>2, <2>3
  <2>5. Start(c, "load", jobs, Absent)
    BY <1>7 DEF CheckBulk
  <2> HIDE DEF jobs
  <2> QED
    BY <1>1, <1>7, <2>4, <2>5, AbsentState, StartOK
<1>8. CASE cmd.do = "delete_project" /\ CheckDeleteProject(c)
  <2>1. ASSUME NEW order \in SetToSeqs(Listed),
               Start(c, "load", [i \in 1 .. Len(order) + 1 |->
                                   [of |-> IF i <= Len(order) THEN order[i] ELSE Project,
                                    event |-> Deleted]], Absent)
        PROVE  IInv'
    <3> DEFINE n == Len(order)
    <3> DEFINE jobs == [i \in 1 .. n + 1 |->
                          [of |-> IF i <= n THEN order[i] ELSE Project, event |-> Deleted]]
    <3>1. IsFiniteSet(Listed) /\ Listed \subseteq Tasks
      BY TasksAssumption, FS_Subset DEF Listed
    <3>2. n \in Nat /\ order \in [1 .. n -> Listed] /\ DOMAIN order = 1 .. n
          /\ \A x \in Listed : \E i \in 1 .. n : order[i] = x
      BY <3>1, SeqsOnto
    <3> HIDE DEF n
    <3>3. \A i \in 1 .. n + 1 :
            [of |-> IF i <= n THEN order[i] ELSE Project, event |-> Deleted] \in JobSet
      <4> SUFFICES ASSUME NEW i \in 1 .. n + 1
                   PROVE  [of |-> IF i <= n THEN order[i] ELSE Project, event |-> Deleted] \in JobSet
        OBVIOUS
      <4>1. (IF i <= n THEN order[i] ELSE Project) \in Streams
        BY <1>2, <3>1, <3>2
      <4> QED
        BY <4>1, EventTypes DEF JobSet
    <3>4. jobs \in Seq(JobSet) /\ DOMAIN jobs = 1 .. n + 1 /\ jobs # <<>>
      <4>1. n + 1 \in Nat /\ 1 \in 1 .. n + 1
        BY <3>2
      <4>2. jobs \in [1 .. n + 1 -> JobSet] /\ DOMAIN jobs = 1 .. n + 1
        BY <3>3
      <4> HIDE DEF jobs
      <4> QED
        BY <4>1, <4>2
    <3>5. \A i \in 1 .. n + 1 : /\ jobs[i].event = Deleted
                                /\ jobs[i].of = IF i <= n THEN order[i] ELSE Project
      OBVIOUS
    <3>6. Start(c, "load", jobs, Absent)
      BY <2>1 DEF n
    <3> HIDE DEF jobs
    <3>7. \A s \in Listed \union {Project} : \E i \in DOMAIN jobs : jobs[i].of = s
      <4>1. n + 1 \in DOMAIN jobs /\ jobs[n + 1].of = Project
        BY <3>2, <3>4, <3>5
      <4>2. ASSUME NEW s \in Listed PROVE \E i \in DOMAIN jobs : jobs[i].of = s
        <5>1. PICK i \in 1 .. n : order[i] = s
          BY <3>2
        <5>2. i \in 1 .. n + 1 /\ i <= n
          BY <3>2
        <5> QED
          BY <3>4, <3>5, <5>1, <5>2
      <4> QED
        BY <4>1, <4>2
    <3> QED
      BY <1>1, <1>8, <3>4, <3>5, <3>6, <3>7, AbsentState, StartOK
  <2> QED
    BY <1>4, <1>8, <2>1 DEF CheckDeleteProject
<1> QED
  BY <1>5, <1>6, <1>7, <1>8 DEF Check

-----------------------------------------------------------------------------
(* A call at work.                                                         *)

LEMMA WorkFacts ==
  ASSUME IInv, NEW c \in Calls, call[c].at \in Working
  PROVE  /\ Types /\ call[c] \in CallRecs /\ CallOK(c)
         /\ call[c].jobs # <<>> /\ call[c].jobs \in Seq(JobSet) /\ call[c].cmd \in Commands
         /\ call[c].answer = "none"
         /\ Job(c) = call[c].jobs[1] /\ 1 \in DOMAIN call[c].jobs
         /\ Job(c) \in JobSet /\ Job(c).of \in Streams /\ Job(c).event \in Events
         /\ JobOK(c, Job(c))
<1>1. Types /\ call[c] \in CallRecs /\ CallOK(c)
  BY DEF IInv, Types
<1>2. call[c].jobs # <<>> /\ call[c].cmd \in Commands /\ call[c].answer = "none"
  BY <1>1 DEF CallOK, PlaceOK, Working
<1>3. /\ Job(c) = call[c].jobs[1] /\ 1 \in DOMAIN call[c].jobs
      /\ Job(c) \in JobSet /\ Job(c).of \in Streams /\ Job(c).event \in Events
  BY <1>1, <1>2, JobFacts DEF Job
<1>4. JobOK(c, Job(c))
  BY <1>1, <1>3 DEF CallOK, WriteOK, JobsOK
<1> QED
  BY <1>1, <1>2, <1>3, <1>4, RecFields

\* A job and its event by the command it belongs to.
LEMMA JobKinds ==
  ASSUME NEW c \in Calls, NEW j \in JobSet, JobOK(c, j)
  PROVE  /\ IsCreation(j.event) =>
              /\ call[c].cmd.do = "create" /\ call[c].phase = "do" /\ j.of = call[c].cmd.task
              /\ j.event = Created(call[c].cmd.priority)
         /\ call[c].cmd.do = "patch" => j.of = call[c].cmd.task
         /\ call[c].cmd.do = "delete_project" => j.event = Deleted
         /\ NoPatch /\ ~IsCreation(j.event) => "priority" \notin DOMAIN j.event
         /\ NoPatch /\ ~IsCreation(j.event) /\ "needs" \in DOMAIN j.event =>
              j.event.needs # {} /\ NeedsHigher(j.of, j.event.needs)
<1>1. CASE call[c].cmd.do = "create" /\ call[c].phase = "do"
  <2>1. j = [of |-> call[c].cmd.task, event |-> Created(call[c].cmd.priority)]
    BY <1>1 DEF JobOK
  <2>2. j.of = call[c].cmd.task /\ j.event = Created(call[c].cmd.priority)
    BY <2>1
  <2> QED
    BY <1>1, <2>2 DEF IsCreation, Created
<1>2. CASE call[c].cmd.do = "create" /\ call[c].phase = "plan"
  <2>1. j.event \in [needs : SUBSET Tasks] /\ j.event.needs # {}
        /\ (NoPatch => NeedsHigher(j.of, j.event.needs))
    BY <1>2 DEF JobOK
  <2>2. DOMAIN j.event = {"needs"}
    BY <2>1
  <2> QED
    BY <1>2, <2>1, <2>2 DEF IsCreation
<1>3. CASE call[c].cmd.do = "patch"
  <2>1. j.event \in [priority : Priorities, needs : SUBSET Tasks] /\ j.of = call[c].cmd.task
    BY <1>3 DEF JobOK
  <2>2. DOMAIN j.event = {"priority", "needs"} /\ ~NoPatch
    BY <1>3, <2>1 DEF NoPatch
  <2> QED
    BY <1>3, <2>1, <2>2 DEF IsCreation
<1>4. CASE call[c].cmd.do \in {"bulk", "delete_project"}
  <2>1. j.event = Deleted /\ DOMAIN Deleted = {"deleted"}
    BY <1>4 DEF JobOK, Deleted
  <2> QED
    BY <1>4, <2>1 DEF IsCreation
<1> QED
  BY <1>1, <1>2, <1>3, <1>4 DEF JobOK

\* A call that goes on with the same jobs.
LEMMA GrownOn ==
  ASSUME IInv, NEW c \in Calls, call[c].at \in Working, NEW r \in CallRecs,
         call' = [call EXCEPT ![c] = r], r.at \in Working, r.cmd = call[c].cmd,
         r.phase = call[c].phase, r.jobs = call[c].jobs, r.mine = call[c].mine,
         r.known = call[c].known, r.answer = call[c].answer,
         state' \in [Streams -> States], UNCHANGED row,
         \A s \in Streams : Grows(state[s], state'[s], NoPatch),
         \A s \in Streams : rowLock[s] = c => rowLock'[s] = c
  PROVE  /\ call'[c] = r /\ Job(c)' = Job(c) /\ (NoPatch' <=> NoPatch)
         /\ JobsOK(c)'
         /\ PlaceOK(c)' /\ MineOK(c)' /\ DeletionOK(c)'
<1>1. Types /\ call[c] \in CallRecs /\ CallOK(c) /\ call[c].cmd \in Commands
      /\ call[c].answer = "none" /\ call[c].jobs \in Seq(JobSet)
  BY WorkFacts
<1>2. call'[c] = r /\ Job(c)' = Job(c)
  BY <1>1 DEF Types, Job
<1>3. (NoPatch' <=> NoPatch) /\ NoPatch \in BOOLEAN
  BY <1>1, Put, PatchSame DEF Types
<1>5. JobsOK(c)'
  <2> SUFFICES ASSUME NEW i \in DOMAIN r.jobs PROVE JobOK(c, r.jobs[i])'
    BY <1>2 DEF JobsOK
  <2>1. JobOK(c, r.jobs[i]) /\ r.jobs[i] \in JobSet
    BY <1>1 DEF CallOK, WriteOK, JobsOK
  <2>2. PICK j \in JobSet : j = r.jobs[i] /\ JobOK(c, j)
    BY <2>1
  <2>3. JobOK(c, j)'
    BY <1>1, <1>2, <1>3, <2>2, JobOn
  <2> QED
    BY <2>2, <2>3
<1>6. PlaceOK(c)'
  BY <1>1, <1>2 DEF CallOK, PlaceOK, Working
<1>7. MineOK(c)'
  <2>1. DOMAIN call[c].mine \subseteq Streams
    BY <1>1, RecFields, ViewFacts
  <2>2. MineOK(c)
    BY <1>1 DEF CallOK
  <2> SUFFICES ASSUME NEW s \in DOMAIN call[c].mine
               PROVE  /\ rowLock'[s] = c
                      /\ call[c].mine[s].known
                      /\ row[s].deleted => call[c].mine[s].deleted
                      /\ Follows(call[c].mine[s], state'[s], NoPatch')
    BY <1>2 DEF MineOK
  <2>3. /\ call[c].mine[s] \in States /\ state[s] \in States /\ state'[s] \in States
        /\ Grows(state[s], state'[s], NoPatch)
    BY <1>1, <2>1, RecFields, ViewFacts DEF Types
  <2>4. Follows(call[c].mine[s], state'[s], NoPatch)
    BY <1>3, <2>2, <2>3, FollowsOn DEF MineOK
  <2> QED
    BY <1>3, <2>1, <2>2, <2>4 DEF MineOK, Follows
<1>8. DeletionOK(c)'
  <2>1. call[c].known \subseteq Streams /\ Project \in Streams
    BY <1>1, RecFields DEF Streams
  <2>2. \A s \in Streams : state[s].deleted => state'[s].deleted
    BY DEF Grows
  <2> QED
    BY <1>1, <1>2, <2>1, <2>2 DEF CallOK, DeletionOK, Working
<1> QED
  BY <1>2, <1>3, <1>5, <1>6, <1>7, <1>8

LEMMA GoesOn ==
  ASSUME IInv, NEW c \in Calls, call[c].at \in Working, NEW r \in CallRecs,
         call' = [call EXCEPT ![c] = r], r.at \in Working, r.cmd = call[c].cmd,
         r.phase = call[c].phase, r.jobs = call[c].jobs, r.mine = call[c].mine,
         r.known = call[c].known, r.answer = call[c].answer,
         UNCHANGED <<state, row>>,
         \A s \in Streams : rowLock[s] = c => rowLock'[s] = c
  PROVE  /\ call'[c] = r /\ Job(c)' = Job(c) /\ (NoPatch' <=> NoPatch)
         /\ JobsOK(c)' /\ PlaceOK(c)' /\ MineOK(c)' /\ DeletionOK(c)'
<1>1. /\ state' \in [Streams -> States]
      /\ \A s \in Streams : Grows(state[s], state'[s], NoPatch)
  BY GrowsSame DEF IInv, Types
<1> QED
  BY <1>1, GrownOn

LEMMA LoadOK ==
  ASSUME IInv, NEW c \in Calls, Load(c)
  PROVE  IInv'
<1> DEFINE r == [call[c] EXCEPT !.at = "append", !.version = version[Job(c).of]]
<1>1. call[c].at = "load" /\ call[c].at \in Working /\ call[c].at # "idle"
      /\ UNCHANGED <<state, version, row, todo, clean>>
  BY DEF Load, Working
<1>2. Types /\ call[c] \in CallRecs /\ CallOK(c) /\ clean' \in BOOLEAN /\ Job(c).of \in Streams
  BY <1>1, WorkFacts DEF Types
<1>3. CASE Answer(c, "404")
  <2>1. "404" \in Answers
    BY DEF Answers
  <2> QED
    BY <1>1, <1>2, <1>3, <2>1, AnswerOK
<1>4. CASE call' = [call EXCEPT ![c].at = "append", ![c].version = version[Job(c).of]]
           /\ UNCHANGED <<rowLock, tagLock>>
  <2>1. call' = [call EXCEPT ![c] = r]
    BY <1>4
  <2>2. version[Job(c).of] \in Nat
    BY <1>2 DEF Types
  <2>3. /\ r \in CallRecs /\ r.at = "append" /\ r.phase = call[c].phase /\ r.jobs = call[c].jobs
        /\ r.base = call[c].base /\ r.cmd = call[c].cmd /\ r.mine = call[c].mine
        /\ r.known = call[c].known /\ r.answer = call[c].answer
    BY <1>2, <2>2 DEF CallRecs, Ats
  <2> HIDE DEF r
  <2>4. /\ call'[c] = r /\ Job(c)' = Job(c) /\ (NoPatch' <=> NoPatch)
        /\ JobsOK(c)'
        /\ PlaceOK(c)' /\ MineOK(c)' /\ DeletionOK(c)'
    BY <1>1, <1>4, <2>1, <2>3, GoesOn DEF Working
  <2>5. CreationOK(c)'
    BY <1>1, <1>2, <2>3, <2>4 DEF CallOK, CreationOK
  <2>6. WriteOK(c)'
    BY <1>1, <1>2, <2>3, <2>4 DEF CallOK, WriteOK, Working, Writing
  <2>9. CallOK(c)'
    BY <2>4, <2>5, <2>6 DEF CallOK
  <2> QED
    BY <1>1, <1>2, <1>4, <2>1, <2>3, <2>9, Quiet DEF Types
<1> QED
  BY <1>3, <1>4 DEF Load

LEMMA BlockOK ==
  ASSUME IInv, NEW c \in Calls, Block(c)
  PROVE  IInv'
<1> DEFINE r == [call[c] EXCEPT !.at = "blocked"]
<1>1. call[c].at = "tags" /\ call[c].at \in Working
      /\ UNCHANGED <<state, version, row, todo, rowLock, tagLock, clean>>
  BY DEF Block, Working
<1>2. Types /\ call[c] \in CallRecs /\ CallOK(c)
  BY <1>1, WorkFacts
<1>3. call' = [call EXCEPT ![c] = r]
  BY DEF Block
<1>4. /\ r \in CallRecs /\ r.at = "blocked" /\ r.phase = call[c].phase /\ r.jobs = call[c].jobs
      /\ r.base = call[c].base /\ r.cmd = call[c].cmd /\ r.mine = call[c].mine
      /\ r.known = call[c].known /\ r.answer = call[c].answer
  BY <1>2 DEF CallRecs, Ats
<1> HIDE DEF r
<1>5. /\ call'[c] = r /\ Job(c)' = Job(c) /\ (NoPatch' <=> NoPatch)
      /\ JobsOK(c)'
      /\ PlaceOK(c)' /\ MineOK(c)' /\ DeletionOK(c)'
  BY <1>1, <1>3, <1>4, GoesOn DEF Working
<1>6. Writes(c)' = Writes(c)
  BY <1>4, <1>5 DEF Writes
<1>7. CreationOK(c)'
  BY <1>1, <1>2, <1>4, <1>5 DEF CallOK, CreationOK, Working, Writing
<1>8. WriteOK(c)'
  BY <1>1, <1>2, <1>4, <1>5, <1>6 DEF CallOK, WriteOK, Working, Writing, Reached
<1>10. CallOK(c)'
  BY <1>5, <1>7, <1>8 DEF CallOK
<1> QED
  BY <1>1, <1>2, <1>3, <1>4, <1>10, Quiet DEF Types

LEMMA TakeRowOK ==
  ASSUME IInv, NEW c \in Calls, TakeRow(c)
  PROVE  IInv'
<1> DEFINE r == [call[c] EXCEPT !.at = "tags"]
<1>1. call[c].at = "row" /\ call[c].at \in Working
      /\ UNCHANGED <<state, version, row, todo, tagLock, clean>>
  BY DEF TakeRow, Working
<1>2. Types /\ call[c] \in CallRecs /\ CallOK(c) /\ Job(c).of \in Streams /\ JobOK(c, Job(c))
      /\ Job(c) \in JobSet
  BY <1>1, WorkFacts
<1>3. call' = [call EXCEPT ![c] = r]
  BY DEF TakeRow
<1>4. /\ r \in CallRecs /\ r.at = "tags" /\ r.phase = call[c].phase /\ r.jobs = call[c].jobs
      /\ r.base = call[c].base /\ r.cmd = call[c].cmd /\ r.mine = call[c].mine
      /\ r.known = call[c].known /\ r.answer = call[c].answer
  BY <1>2 DEF CallRecs, Ats
<1> HIDE DEF r
<1>5. rowLock' \in [Streams -> Calls \union {NoCall}]
  BY <1>2 DEF TakeRow, Types
<1>6. /\ DOMAIN Writes(c) # {} => rowLock'[Job(c).of] = c
      /\ \A s \in Streams : rowLock[s] = c => rowLock'[s] = c
      /\ \A d \in Calls \ {c} : \A s \in Streams : rowLock[s] = d <=> rowLock'[s] = d
  BY <1>2, NoCallAssumption DEF TakeRow, Types
<1>7. /\ call'[c] = r /\ Job(c)' = Job(c) /\ (NoPatch' <=> NoPatch)
      /\ JobsOK(c)'
      /\ PlaceOK(c)' /\ MineOK(c)' /\ DeletionOK(c)'
  BY <1>1, <1>3, <1>4, <1>6, GoesOn DEF Working
<1>8. Writes(c)' = Writes(c)
  BY <1>4, <1>7 DEF Writes
<1>9. CreationOK(c)'
  <2> SUFFICES ASSUME call[c].cmd.do = "create", call[c].phase = "do"
               PROVE  ~row[call[c].cmd.task].known /\ Len(call[c].jobs) = 1
                      /\ call[c].mine = <<>> /\ call[c].base = Absent
    BY <1>1, <1>4, <1>7 DEF CreationOK
  <2>1. Len(call[c].jobs) = 1 /\ call[c].mine = <<>> /\ call[c].base = Absent
    BY <1>1, <1>2 DEF CallOK, CreationOK, Working, Writing
  <2>2. Job(c) = [of |-> call[c].cmd.task, event |-> Created(call[c].cmd.priority)]
    BY <1>2 DEF JobOK
  <2>3. Job(c).of = call[c].cmd.task /\ ~call[c].base.known
    BY <2>1, <2>2 DEF Absent
  <2> QED
    BY <2>1, <2>3 DEF TakeRow
<1>10. WriteOK(c)'
  BY <1>1, <1>2, <1>4, <1>6, <1>7, <1>8
  DEF CallOK, WriteOK, Working, Writing, Reached, TakeRow
<1>11. CallOK(c)'
  BY <1>7, <1>9, <1>10 DEF CallOK
<1> QED
  BY <1>1, <1>2, <1>3, <1>4, <1>5, <1>6, <1>11, Quiet DEF Types

LEMMA TailFacts ==
  ASSUME NEW S, NEW q \in Seq(S), q # <<>>
  PROVE  /\ Tail(q) \in Seq(S)
         /\ Len(q) = 1 => Tail(q) = <<>>
         /\ Len(q) # 1 => Tail(q) # <<>>
         /\ \A i \in DOMAIN Tail(q) : i + 1 \in DOMAIN q /\ Tail(q)[i] = q[i + 1]
         /\ \A i \in DOMAIN q : i # 1 => i - 1 \in DOMAIN Tail(q) /\ Tail(q)[i - 1] = q[i]
<1>1. Len(q) \in Nat /\ Len(q) # 0 /\ DOMAIN q = 1 .. Len(q)
  OBVIOUS
<1>2. Tail(q) \in Seq(S) /\ Len(Tail(q)) = Len(q) - 1
  OBVIOUS
<1>3. DOMAIN Tail(q) = 1 .. Len(q) - 1
  BY <1>1, <1>2
<1>4. \A i \in 1 .. Len(q) - 1 : Tail(q)[i] = q[i + 1]
  BY <1>1
<1>5. \A i \in 1 .. Len(q) : i # 1 => i - 1 \in 1 .. Len(q) - 1 /\ i - 1 + 1 = i
  BY <1>1
<1> QED
  BY <1>1, <1>2, <1>3, <1>4, <1>5

\* The job is done: what the call has of its rows stays behind the streams.
LEMMA NextJobOK ==
  ASSUME IInv, NEW c \in Calls, call[c].at \in Writing, NEW mine \in Views,
         NextJob(c, mine), DOMAIN call[c].mine \subseteq DOMAIN mine,
         UNCHANGED <<state, version, row, todo>>, clean' \in BOOLEAN,
         rowLock' \in [Streams -> Calls \union {NoCall}], tagLock' \in Calls \union {NoCall},
         \A d \in Calls \ {c} : /\ \A s \in Streams : rowLock[s] = d <=> rowLock'[s] = d
                                /\ tagLock = d <=> tagLock' = d,
         \A s \in DOMAIN mine : /\ rowLock'[s] = c
                                /\ mine[s].known
                                /\ row[s].deleted => mine[s].deleted
                                /\ Follows(mine[s], state[s], NoPatch)
  PROVE  IInv'
<1> DEFINE base0 == IF call[c].cmd.do = "patch" THEN call[c].base ELSE Absent
<1> DEFINE at0 == IF Len(call[c].jobs) = 1 THEN "commit" ELSE "load"
<1> DEFINE rest0 == Tail(call[c].jobs)
<1>1. call' = [call EXCEPT ![c].jobs = rest0, ![c].mine = mine, ![c].version = 0,
                           ![c].base = base0, ![c].at = at0]
  BY DEF NextJob
<1>2. /\ Types /\ call[c] \in CallRecs /\ CallOK(c)
      /\ call[c].jobs # <<>> /\ call[c].jobs \in Seq(JobSet) /\ call[c].cmd \in Commands
      /\ call[c].answer = "none"
      /\ Job(c) = call[c].jobs[1] /\ 1 \in DOMAIN call[c].jobs
      /\ Job(c) \in JobSet /\ Job(c).of \in Streams /\ Job(c).event \in Events
      /\ JobOK(c, Job(c)) /\ call[c].at \in Working
  BY WorkFacts DEF Writing, Working
<1>a. PICK rest \in Seq(JobSet) : rest = rest0
  BY <1>2, TailFacts
<1>b. PICK base \in States : base = base0
  BY <1>2, RecFields, AbsentState
<1>c. PICK at \in {"commit", "load"} : at = at0
  OBVIOUS
<1>3. /\ Len(call[c].jobs) = 1 => rest = <<>>
      /\ Len(call[c].jobs) # 1 => rest # <<>>
      /\ \A i \in DOMAIN rest : i + 1 \in DOMAIN call[c].jobs /\ rest[i] = call[c].jobs[i + 1]
      /\ \A i \in DOMAIN call[c].jobs : i # 1 => i - 1 \in DOMAIN rest /\ rest[i - 1] = call[c].jobs[i]
  BY <1>2, <1>a, TailFacts
<1> HIDE DEF base0, at0, rest0
<1> DEFINE r == [call[c] EXCEPT !.jobs = rest, !.mine = mine, !.version = 0, !.base = base, !.at = at]
<1>4. call' = [call EXCEPT ![c] = r]
  <2>1. call' = [call EXCEPT ![c].jobs = rest, ![c].mine = mine, ![c].version = 0,
                             ![c].base = base, ![c].at = at]
    BY <1>1, <1>a, <1>b, <1>c
  <2>2. call \in [Calls -> CallRecs]
    BY <1>2 DEF Types
  <2> QED
    BY <2>1, <2>2
<1>5. at = IF Len(call[c].jobs) = 1 THEN "commit" ELSE "load"
  BY <1>c DEF at0
<1>6. /\ r \in CallRecs /\ r.at = at /\ r.phase = call[c].phase /\ r.jobs = rest
      /\ r.base = base /\ r.cmd = call[c].cmd /\ r.mine = mine
      /\ r.known = call[c].known /\ r.answer = call[c].answer
  BY <1>2 DEF CallRecs, Ats
<1> HIDE DEF r
<1>7. call'[c] = r
  BY <1>2, <1>4 DEF Types
<1>8. (NoPatch' <=> NoPatch) /\ NoPatch \in BOOLEAN
  BY <1>2, <1>4, <1>6, Put, PatchSame DEF Types
<1>9. PlaceOK(c)'
  BY <1>2, <1>3, <1>5, <1>6, <1>7 DEF PlaceOK, Working
<1>10. CreationOK(c)'
  BY <1>2, <1>5, <1>6, <1>7 DEF CallOK, CreationOK, Working, Writing
<1>11. JobsOK(c)'
  <2> SUFFICES ASSUME NEW i \in DOMAIN rest PROVE JobOK(c, rest[i])'
    BY <1>6, <1>7 DEF JobsOK
  <2>1. PICK j \in JobSet : j = rest[i] /\ JobOK(c, j)
    BY <1>2, <1>3 DEF CallOK, WriteOK, JobsOK
  <2>2. \A s \in Streams : Grows(state[s], state'[s], NoPatch)
    BY <1>2, GrowsSame DEF Types
  <2>3. JobOK(c, j)'
    BY <1>2, <1>6, <1>7, <1>8, <2>1, <2>2, JobOn
  <2> QED
    BY <2>1, <2>3
<1>12. WriteOK(c)'
  <2>1. r.at \notin Writing
    BY <1>6 DEF Writing
  <2>2. ASSUME r.at = "load", call[c].cmd.do = "patch", base.known
        PROVE  row[Job(c)'.of].known \/ Job(c)'.of \in DOMAIN mine
    <3>1. base = call[c].base /\ Job(c).of = call[c].cmd.task
      BY <1>2, <1>b, <2>2, JobKinds DEF base0
    <3>2. row[Job(c).of].known \/ Job(c).of \in DOMAIN mine
      BY <1>2, <2>2, <3>1 DEF CallOK, WriteOK
    <3>3. rest # <<>> /\ 1 \in DOMAIN rest
      BY <1>3, <1>5, <1>6, <2>2
    <3>4. Job(c)' = rest[1]
      BY <1>6, <1>7, <3>3 DEF Job
    <3>5. PICK j \in JobSet : j = rest[1] /\ JobOK(c, j)
      BY <1>2, <1>3, <3>3 DEF CallOK, WriteOK, JobsOK
    <3>6. Job(c)'.of = call[c].cmd.task
      BY <2>2, <3>4, <3>5, JobKinds
    <3> QED
      BY <3>1, <3>2, <3>6
  <2> QED
    BY <1>6, <1>7, <1>11, <2>1, <2>2 DEF WriteOK, Working, Writing
<1>13. MineOK(c)'
  BY <1>6, <1>7, <1>8 DEF MineOK, Follows
<1>14. DeletionOK(c)'
  <2> SUFFICES ASSUME call[c].cmd.do = "delete_project"
               PROVE  /\ \A t \in call[c].known : row[t].known
                      /\ \A s \in call[c].known \union {Project} :
                           state[s].deleted \/ \E i \in DOMAIN rest : rest[i].of = s
    BY <1>2, <1>6, <1>7 DEF DeletionOK
  <2>1. /\ \A t \in call[c].known : row[t].known
        /\ \A s \in call[c].known \union {Project} :
             state[s].deleted \/ \E i \in DOMAIN call[c].jobs : call[c].jobs[i].of = s
    BY <1>2 DEF CallOK, DeletionOK, Working
  <2>2. state[Job(c).of].deleted
    <3>1. Job(c).event = Deleted
      BY <1>2, JobKinds
    <3>2. "deleted" \in DOMAIN Job(c).event /\ ~IsCreation(Job(c).event)
      BY <3>1 DEF Deleted, IsCreation
    <3>3. Reached(Job(c).event, state[Job(c).of], NoPatch)
      BY <1>2 DEF CallOK, WriteOK
    <3> QED
      BY <3>2, <3>3 DEF Reached
  <2>3. ASSUME NEW s \in call[c].known \union {Project}, ~state[s].deleted
        PROVE  \E i \in DOMAIN rest : rest[i].of = s
    <3>1. PICK i \in DOMAIN call[c].jobs : call[c].jobs[i].of = s
      BY <2>1, <2>3
    <3>2. i # 1
      BY <1>2, <2>2, <2>3, <3>1
    <3> QED
      BY <1>3, <3>1, <3>2
  <2> QED
    BY <2>1, <2>3
<1>15. CallOK(c)'
  BY <1>9, <1>10, <1>12, <1>13, <1>14 DEF CallOK
<1> QED
  BY <1>4, <1>6, <1>15, Quiet

LEMMA NoRowOK ==
  ASSUME IInv, NEW c \in Calls, NoRow(c)
  PROVE  IInv'
<1>1. call[c].at \in Working /\ call[c].at \in Writing
      /\ UNCHANGED <<state, version, row, todo, rowLock, tagLock, clean>>
  BY DEF NoRow, Working, Writing
<1>2. Types /\ call[c] \in CallRecs /\ CallOK(c)
  BY <1>1, WorkFacts
<1>3. PICK mine \in Views : mine = call[c].mine
  BY <1>2, RecFields
<1>4. NextJob(c, mine)
  BY <1>3 DEF NoRow
<1>5. \A s \in DOMAIN mine : /\ rowLock'[s] = c
                             /\ mine[s].known
                             /\ row[s].deleted => mine[s].deleted
                             /\ Follows(mine[s], state[s], NoPatch)
  BY <1>1, <1>2, <1>3 DEF CallOK, MineOK
<1> QED
  BY <1>1, <1>2, <1>3, <1>4, <1>5, NextJobOK DEF Types

LEMMA DuplicateOK ==
  ASSUME IInv, NEW c \in Calls, Duplicate(c)
  PROVE  IInv'
<1>1. call[c].at \in Working /\ call[c].at \in Writing
      /\ UNCHANGED <<state, version, row, todo, tagLock>> /\ clean' \in BOOLEAN
  BY DEF Duplicate, Working, Writing
<1>2. Types /\ call[c] \in CallRecs /\ CallOK(c)
  BY <1>1, WorkFacts
<1>3. PICK mine \in Views : mine = call[c].mine
  BY <1>2, RecFields
<1>4. NextJob(c, mine)
  BY <1>3 DEF Duplicate
<1>5. /\ rowLock' \in [Streams -> Calls \union {NoCall}]
      /\ \A s \in DOMAIN mine : rowLock'[s] = rowLock[s]
      /\ \A d \in Calls \ {c} : \A s \in Streams : rowLock[s] = d <=> rowLock'[s] = d
  <2>1. CASE rowLock' = rowLock
    BY <1>2, <2>1 DEF Types
  <2>2. CASE Job(c).of \notin DOMAIN call[c].mine /\ rowLock[Job(c).of] = c
             /\ rowLock' = [rowLock EXCEPT ![Job(c).of] = NoCall]
    BY <1>2, <1>3, <2>2, RecFields, ViewFacts, NoCallAssumption DEF Types
  <2> QED
    BY <2>1, <2>2 DEF Duplicate
<1>6. \A s \in DOMAIN mine : /\ rowLock'[s] = c
                             /\ mine[s].known
                             /\ row[s].deleted => mine[s].deleted
                             /\ Follows(mine[s], state[s], NoPatch)
  BY <1>1, <1>2, <1>3, <1>5 DEF CallOK, MineOK
<1>7. /\ tagLock' \in Calls \union {NoCall} /\ DOMAIN call[c].mine \subseteq DOMAIN mine
      /\ \A d \in Calls \ {c} : /\ \A s \in Streams : rowLock[s] = d <=> rowLock'[s] = d
                                /\ tagLock = d <=> tagLock' = d
  BY <1>1, <1>2, <1>3, <1>5 DEF Types
<1>8. UNCHANGED <<state, version, row, todo>> /\ rowLock' \in [Streams -> Calls \union {NoCall}]
  BY <1>1, <1>5
<1> QED
  BY <1>1, <1>4, <1>6, <1>7, <1>8, NextJobOK

\* The row as call c sees it, with the job's event written over it.
LEMMA RowWritten ==
  ASSUME IInv, NEW c \in Calls, call[c].at \in {"tags", "blocked"}
  PROVE  LET o == Job(c).of
             w == Overlay(Writes(c), View(c, o))
         IN  /\ w \in States /\ w.known /\ (row[o].deleted => w.deleted)
             /\ Follows(w, state[o], NoPatch)
<1> DEFINE o == Job(c).of
<1> DEFINE v == View(c, o)
<1>1. /\ Types /\ call[c] \in CallRecs /\ CallOK(c)
      /\ Job(c) \in JobSet /\ o \in Streams /\ Job(c).event \in Events
      /\ JobOK(c, Job(c)) /\ call[c].at \in Working /\ call[c].at \in Writing
  BY WorkFacts DEF Writing, Working
<1>2. state[o] \in States /\ row[o] \in States /\ Follows(row[o], state[o], NoPatch)
      /\ call[c].base \in States
  BY <1>1, RecFields DEF IInv, StreamOK, Types
<1>3. /\ v \in States /\ Follows(v, state[o], NoPatch)
      /\ row[o].deleted => v.deleted
      /\ row[o].known \/ o \in DOMAIN call[c].mine => v.known
  <2>1. CASE o \in DOMAIN call[c].mine
    <3>1. v = call[c].mine[o]
      BY <2>1 DEF View
    <3>2. v \in States
      BY <1>1, <2>1, <3>1, RecFields, ViewFacts
    <3> HIDE DEF v
    <3> QED
      BY <1>1, <2>1, <3>1, <3>2 DEF CallOK, MineOK
  <2>2. CASE o \notin DOMAIN call[c].mine
    BY <1>2, <2>2 DEF View
  <2> QED
    BY <2>1, <2>2
<1>4. Reached(Job(c).event, state[o], NoPatch)
  BY <1>1 DEF CallOK, WriteOK
<1>5. ASSUME IsCreation(Job(c).event) PROVE call[c].base = v
  <2>1. call[c].cmd.do = "create" /\ call[c].phase = "do" /\ o = call[c].cmd.task
    BY <1>1, <1>5, JobKinds
  <2>2. call[c].base = Absent /\ call[c].mine = <<>> /\ ~row[o].known
    BY <1>1, <2>1 DEF CallOK, CreationOK
  <2>3. v = row[o]
    BY <2>2, EmptyView DEF View
  <2> QED
    BY <1>2, <2>2, <2>3 DEF Follows
<1>6. v.known \/ IsCreation(Job(c).event)
  BY <1>1, <1>3 DEF CallOK, WriteOK
<1>7. NoPatch \in BOOLEAN
  BY DEF NoPatch
<1> HIDE DEF v, o
<1>8. /\ Overlay(Written(call[c].base, Job(c).event), v) \in States
      /\ Overlay(Written(call[c].base, Job(c).event), v).known
      /\ v.deleted => Overlay(Written(call[c].base, Job(c).event), v).deleted
      /\ Follows(Overlay(Written(call[c].base, Job(c).event), v), state[o], NoPatch)
  BY <1>1, <1>2, <1>3, <1>4, <1>5, <1>6, <1>7, WriteFollows
<1> QED
  BY <1>3, <1>8 DEF Writes, v, o

LEMMA TakeTagsOK ==
  ASSUME IInv, NEW c \in Calls, TakeTags(c)
  PROVE  IInv'
<1> DEFINE o == Job(c).of
<1> DEFINE one == [s \in {o} |-> Overlay(Writes(c), View(c, s))]
<1>1. call[c].at \in {"tags", "blocked"} /\ call[c].at \in Working /\ call[c].at \in Writing
      /\ UNCHANGED <<state, version, row, todo, rowLock, clean>>
  BY DEF TakeTags, Working, Writing
<1>2. Types /\ call[c] \in CallRecs /\ CallOK(c) /\ o \in Streams
  BY <1>1, WorkFacts
<1>3. /\ tagLock' \in Calls \union {NoCall}
      /\ \A d \in Calls \ {c} : tagLock = d <=> tagLock' = d
  BY <1>2, NoCallAssumption DEF TakeTags, Types
<1>4. \A s \in DOMAIN call[c].mine : /\ rowLock'[s] = c
                                     /\ call[c].mine[s].known
                                     /\ row[s].deleted => call[c].mine[s].deleted
                                     /\ Follows(call[c].mine[s], state[s], NoPatch)
  BY <1>1, <1>2 DEF CallOK, MineOK
<1>5. call[c].mine \in Views /\ DOMAIN call[c].mine \subseteq Streams
      /\ \A s \in DOMAIN call[c].mine : call[c].mine[s] \in States
  BY <1>2, RecFields, ViewFacts
<1>6. CASE DOMAIN Writes(c) = {}
  <2>1. PICK mine \in Views : mine = call[c].mine
    BY <1>5
  <2>2. NextJob(c, mine)
    BY <1>6, <2>1 DEF TakeTags
  <2> QED
    BY <1>1, <1>2, <1>3, <1>4, <2>1, <2>2, NextJobOK DEF Types
<1>7. CASE DOMAIN Writes(c) # {}
  <2> DEFINE m == Overlay(one, call[c].mine)
  <2>1. /\ one[o] \in States /\ one[o].known /\ (row[o].deleted => one[o].deleted)
        /\ Follows(one[o], state[o], NoPatch)
    BY <1>1, RowWritten
  <2>2. DOMAIN one = {o}
    OBVIOUS
  <2> HIDE DEF one
  <2>3. /\ DOMAIN m = {o} \union DOMAIN call[c].mine
        /\ m = [s \in DOMAIN m |-> m[s]]
        /\ \A s \in DOMAIN m : m[s] = IF s = o THEN one[o] ELSE call[c].mine[s]
    BY <2>2 DEF Overlay
  <2> HIDE DEF m
  <2>4. DOMAIN m \subseteq Streams /\ \A s \in DOMAIN m : m[s] \in States
    BY <1>2, <1>5, <2>1, <2>3
  <2>5. m \in [DOMAIN m -> States]
    BY <2>3, <2>4
  <2>6. m \in Views
    BY <2>4, <2>5 DEF Views
  <2>7. NextJob(c, m)
    BY <1>7 DEF TakeTags, m, one
  <2>8. rowLock'[o] = c
    BY <1>1, <1>2, <1>7 DEF CallOK, WriteOK
  <2>9. PICK mine \in Views : mine = m
    BY <2>6
  <2>10. \A s \in DOMAIN mine : /\ rowLock'[s] = c
                                /\ mine[s].known
                                /\ row[s].deleted => mine[s].deleted
                                /\ Follows(mine[s], state[s], NoPatch)
    BY <1>4, <2>1, <2>3, <2>8, <2>9
  <2>11. NextJob(c, mine) /\ DOMAIN call[c].mine \subseteq DOMAIN mine
    BY <2>3, <2>7, <2>9
  <2>12. /\ UNCHANGED <<state, version, row, todo>> /\ clean' \in BOOLEAN
         /\ rowLock' \in [Streams -> Calls \union {NoCall}]
         /\ tagLock' \in Calls \union {NoCall}
         /\ \A d \in Calls \ {c} : /\ \A s \in Streams : rowLock[s] = d <=> rowLock'[s] = d
                                   /\ tagLock = d <=> tagLock' = d
    BY <1>1, <1>2, <1>3 DEF Types
  <2> HIDE DEF m, o
  <2> QED
    BY <1>1, <2>10, <2>11, <2>12, NextJobOK
<1> QED
  BY <1>6, <1>7

-----------------------------------------------------------------------------
(* Events are stored, and rows are committed and replayed.                 *)

\* What storing the event of a job does to the streams.
LEMMA StoredOK ==
  ASSUME IInv, NEW c \in Calls, call[c].at = "append",
         version[Job(c).of] = call[c].version, Stored(c), UNCHANGED row,
         NoPatch' <=> NoPatch
  PROVE  /\ state' \in [Streams -> States] /\ version' \in [Streams -> Nat]
         /\ todo' \in [Streams -> Seq(Events)]
         /\ \A s \in Streams : Grows(state[s], state'[s], NoPatch)
         /\ Reached(Job(c).event, state'[Job(c).of], NoPatch)
         /\ \A s \in Streams : StreamOK(s)'
         /\ NeedsOK'
         /\ IsCreation(Job(c).event) => state[Job(c).of] = Absent
<1>1. /\ Types /\ call[c] \in CallRecs /\ CallOK(c)
      /\ Job(c) \in JobSet /\ Job(c).of \in Streams /\ Job(c).event \in Events
      /\ JobOK(c, Job(c)) /\ call[c].at \in Working
  BY WorkFacts DEF Working
<1>2. PICK o \in Streams : o = Job(c).of
  BY <1>1
<1>3. PICK e \in Events : e = Job(c).event
  BY <1>1
<1>4. /\ state' = [state EXCEPT ![o] = Overlay(e, state[o])]
      /\ version' = [version EXCEPT ![o] = version[o] + 1]
      /\ todo' = [todo EXCEPT ![o] = Append(todo[o], e)]
  BY <1>2, <1>3 DEF Stored
<1>5. /\ IsCreation(e) => call[c].cmd.do = "create" /\ call[c].phase = "do"
      /\ NoPatch /\ ~IsCreation(e) => "priority" \notin DOMAIN e
      /\ NoPatch /\ ~IsCreation(e) /\ "needs" \in DOMAIN e => e.needs # {} /\ NeedsHigher(o, e.needs)
  BY <1>1, <1>2, <1>3, JobKinds
<1>6. IsCreation(e) => state[o] = Absent
  <2> SUFFICES ASSUME IsCreation(e) PROVE state[o] = Absent
    OBVIOUS
  <2>1. version[o] = 0
    BY <1>1, <1>2, <1>5 DEF CallOK, CreationOK
  <2> QED
    BY <2>1, RowFacts
<1>7. state[o] \in States /\ NoPatch \in BOOLEAN
  BY <1>1 DEF Types, NoPatch
<1>8. /\ Overlay(e, state[o]) \in States
      /\ Grows(state[o], Overlay(e, state[o]), NoPatch)
      /\ Reached(e, Overlay(e, state[o]), NoPatch)
  BY <1>5, <1>6, <1>7, StoredGrows
<1>9. /\ state' \in [Streams -> States] /\ version' \in [Streams -> Nat]
      /\ todo' \in [Streams -> Seq(Events)]
  BY <1>1, <1>4, <1>8 DEF Types
<1>10. /\ state'[o] = Overlay(e, state[o])
       /\ \A s \in Streams : s # o => state'[s] = state[s]
  BY <1>1, <1>4 DEF Types
<1>11. \A s \in Streams : Grows(state[s], state'[s], NoPatch)
  BY <1>1, <1>8, <1>10, GrowsSame DEF Types
<1>12. ASSUME NEW s \in Streams PROVE StreamOK(s)'
  <2>1. /\ state[s] \in States /\ state'[s] \in States /\ row[s] \in States
        /\ Grows(state[s], state'[s], NoPatch) /\ StreamOK(s) /\ todo[s] \in Seq(Events)
        /\ version[s] \in Nat
    BY <1>1, <1>9, <1>11 DEF Types, IInv
  <2>2. Follows(row[s], state'[s], NoPatch)
    BY <1>7, <2>1, FollowsOn DEF StreamOK
  <2>3. \A i \in DOMAIN todo[s] : Reached(todo[s][i], state'[s], NoPatch)
    BY <1>7, <2>1, ReachedOn DEF StreamOK
  <2>4. CASE s = o
    <3>1. version'[s] # 0
      BY <1>1, <1>4, <2>1, <2>4 DEF Types
    <3>2. todo'[s] = Append(todo[s], e)
      BY <1>1, <1>4, <2>4 DEF Types
    <3>3. \A i \in DOMAIN todo'[s] : Reached(todo'[s][i], state'[s], NoPatch)
      BY <1>8, <1>10, <2>1, <2>3, <2>4, <3>2
    <3> QED
      BY <2>2, <3>1, <3>3 DEF StreamOK, Follows, Reached
  <2>5. CASE s # o
    <3>1. version'[s] = version[s] /\ todo'[s] = todo[s] /\ state'[s] = state[s]
      BY <1>1, <1>4, <2>5 DEF Types
    <3> QED
      BY <2>1, <2>2, <2>3, <3>1 DEF StreamOK, Follows, Reached
  <2> QED
    BY <2>4, <2>5
<1>13. NeedsOK'
  <2> SUFFICES ASSUME NoPatch, NEW t \in Tasks
               PROVE  \A u \in state'[t].needs : /\ state'[u].known /\ state'[t].known
                                                  /\ state'[u].priority < state'[t].priority
    BY DEF NeedsOK, NeedsHigher
  <2>1. t \in Streams /\ state[t].needs \in SUBSET Tasks /\ state'[t].needs \in SUBSET Tasks
    BY <1>1, <1>9, StateFields DEF Types, Streams
  <2>2. PICK n \in SUBSET Tasks : n = state'[t].needs
    BY <2>1
  <2>3. CASE t = o
    <3>1. /\ DOMAIN e \subseteq {"known", "priority", "needs", "deleted"}
          /\ "known" \in DOMAIN e => e.needs = {} /\ "needs" \in DOMAIN e
          /\ "needs" \in DOMAIN e => e.needs \in SUBSET Tasks
      <4>1. \/ DOMAIN e = {"known", "priority", "needs", "deleted"} /\ e.needs = {}
            \/ DOMAIN e = {"deleted"}
            \/ DOMAIN e = {"needs"} /\ e.needs \in SUBSET Tasks
            \/ DOMAIN e = {"priority", "needs"} /\ e.needs \in SUBSET Tasks
        BY EventKinds
      <4> QED
        BY <4>1
    <3>2. n = IF "needs" \in DOMAIN e THEN e.needs ELSE state[t].needs
      BY <1>7, <1>10, <2>2, <2>3, <3>1, StateFields DEF Overlay
    <3>3. NeedsHigher(t, n)
      BY <1>5, <2>1, <2>3, <3>1, <3>2 DEF IsCreation, IInv, NeedsOK, NeedsHigher
    <3> QED
      <4>1. NeedsHigher(t, n)'
        BY <1>1, <1>11, <3>3, NeedsHigherOn
      <4> QED
        BY <2>2, <4>1 DEF NeedsHigher
  <2>4. CASE t # o
    <3>1. n = state[t].needs /\ NeedsHigher(t, n)
      BY <1>10, <2>1, <2>2, <2>4 DEF IInv, NeedsOK
    <3> QED
      <4>1. NeedsHigher(t, n)'
        BY <1>1, <1>11, <3>1, NeedsHigherOn
      <4> QED
        BY <2>2, <4>1 DEF NeedsHigher
  <2> QED
    BY <2>3, <2>4
<1> QED
  BY <1>2, <1>3, <1>6, <1>8, <1>9, <1>10, <1>11, <1>12, <1>13

\* A stored event as the other calls see it.
LEMMA StoredEnv ==
  ASSUME Types, NEW c \in Calls, NEW d \in Calls \ {c}, UNCHANGED row,
         \A s \in Streams : Grows(state[s], state'[s], NoPatch),
         \A s \in Streams : rowLock[s] = d <=> rowLock'[s] = d,
         tagLock = d <=> tagLock' = d
  PROVE  Env(d)
  BY DEF Env

LEMMA AppendEventOK ==
  ASSUME IInv, NEW c \in Calls, AppendEvent(c)
  PROVE  IInv'
<1>1. call[c].at = "append" /\ version[Job(c).of] = call[c].version /\ Stored(c)
      /\ UNCHANGED <<row, rowLock, tagLock, faults, clean>> /\ call[c].at \in Working
  BY DEF AppendEvent, Working
<1>2. /\ Types /\ call[c] \in CallRecs /\ CallOK(c) /\ JobOK(c, Job(c)) /\ Job(c) \in JobSet
      /\ Job(c).of \in Streams /\ call[c].mine \in Views /\ call[c].base \in States
  BY <1>1, WorkFacts, RecFields
<1>3. LoadedRow(c) \in States
  BY <1>2, ViewFacts DEF LoadedRow, View, Types
<1>4. PICK b \in States : b = LoadedRow(c)
  BY <1>3
<1> DEFINE r == [call[c] EXCEPT !.at = "row", !.base = b]
<1>5. call' = [call EXCEPT ![c] = r]
  BY <1>4 DEF AppendEvent
<1>6. /\ r \in CallRecs /\ r.at = "row" /\ r.phase = call[c].phase /\ r.jobs = call[c].jobs
      /\ r.base = b /\ r.cmd = call[c].cmd /\ r.mine = call[c].mine
      /\ r.known = call[c].known /\ r.answer = call[c].answer
  BY <1>2 DEF CallRecs, Ats
<1> HIDE DEF r
<1>7. call' \in [Calls -> CallRecs] /\ \A d \in Calls \ {c} : call'[d] = call[d]
  BY <1>2, <1>5, <1>6, Put DEF Types
<1>8. (NoPatch' <=> NoPatch) /\ NoPatch \in BOOLEAN
  BY <1>2, <1>5, <1>6, Put, PatchSame DEF Types
<1>9. /\ state' \in [Streams -> States] /\ version' \in [Streams -> Nat]
      /\ todo' \in [Streams -> Seq(Events)]
      /\ \A s \in Streams : Grows(state[s], state'[s], NoPatch)
      /\ Reached(Job(c).event, state'[Job(c).of], NoPatch)
      /\ \A s \in Streams : StreamOK(s)'
      /\ NeedsOK'
      /\ IsCreation(Job(c).event) => state[Job(c).of] = Absent
  BY <1>1, <1>8, StoredOK
<1>10. Types'
  BY <1>1, <1>2, <1>7, <1>9 DEF Types
<1>11. /\ call'[c] = r /\ Job(c)' = Job(c)
       /\ JobsOK(c)' /\ PlaceOK(c)' /\ MineOK(c)' /\ DeletionOK(c)'
  BY <1>1, <1>5, <1>6, <1>9, GrownOn DEF Working
<1>12. CreationOK(c)'
  <2> SUFFICES ASSUME call[c].cmd.do = "create", call[c].phase = "do"
               PROVE  b = Absent /\ Len(call[c].jobs) = 1 /\ call[c].mine = <<>>
    BY <1>6, <1>11 DEF CreationOK
  <2>1. Len(call[c].jobs) = 1 /\ call[c].mine = <<>>
    BY <1>1, <1>2 DEF CallOK, CreationOK
  <2>2. Job(c) = [of |-> call[c].cmd.task, event |-> Created(call[c].cmd.priority)]
    BY <1>2 DEF JobOK
  <2>3. IsCreation(Job(c).event)
    BY <2>2 DEF IsCreation, Created
  <2>4. state[Job(c).of] = Absent /\ Absent.known = FALSE
    BY <1>9, <2>3 DEF Absent
  <2>5. row[Job(c).of] = Absent
    BY <1>2, <2>4, RowFacts
  <2>6. b = row[Job(c).of]
    BY <1>4, <2>1, EmptyView DEF LoadedRow, View
  <2> QED
    BY <2>1, <2>5, <2>6
<1>13. WriteOK(c)'
  <2>1. b.known => row[Job(c).of].known \/ Job(c).of \in DOMAIN call[c].mine
    <3>1. CASE call[c].cmd.do = "patch"
      BY <1>1, <1>2, <1>4, <3>1 DEF LoadedRow, CallOK, WriteOK
    <3>2. CASE call[c].cmd.do # "patch"
      BY <1>4, <3>2 DEF LoadedRow, View
    <3> QED
      BY <3>1, <3>2
  <2> QED
    BY <1>1, <1>6, <1>8, <1>9, <1>11, <2>1 DEF WriteOK, Working, Writing, Reached
<1>14. CallOK(c)'
  BY <1>11, <1>12, <1>13 DEF CallOK
<1>15. ASSUME NEW d \in Calls \ {c} PROVE CallOK(d)'
  <2>1. Env(d)
    BY <1>1, <1>2, <1>9, StoredEnv
  <2> QED
    BY <1>2, <1>7, <1>8, <1>10, <2>1, OthersOK DEF IInv
<1> QED
  BY <1>9, <1>10, <1>14, <1>15 DEF IInv

LEMMA AppendFailsOK ==
  ASSUME IInv, NEW c \in Calls, AppendFails(c)
  PROVE  IInv'
<1>1. call[c].at = "append" /\ version[Job(c).of] = call[c].version /\ Stored(c)
      /\ UNCHANGED row /\ call[c].at \in Working /\ call[c].at # "idle" /\ clean' \in BOOLEAN
      /\ Answer(c, "error")
  BY DEF AppendFails, Working, Fault
<1>2. Types /\ call[c] \in CallRecs /\ "error" \in Answers
  BY <1>1, WorkFacts DEF Answers
<1>3. PICK r \in CallRecs : r = EndRec(call[c], "error") /\ r.cmd = call[c].cmd
  BY <1>2, Ended
<1>4. call' = [call EXCEPT ![c] = r] /\ ReleaseLocks(c)
  BY <1>1, <1>3 DEF Answer, EndRec
<1>5. /\ call' \in [Calls -> CallRecs] /\ call'[c] = r
      /\ \A d \in Calls \ {c} : call'[d] = call[d]
  BY <1>2, <1>4, Put DEF Types
<1>6. (NoPatch' <=> NoPatch) /\ NoPatch \in BOOLEAN
  BY <1>3, <1>5, PatchSame
<1>7. /\ state' \in [Streams -> States] /\ version' \in [Streams -> Nat]
      /\ todo' \in [Streams -> Seq(Events)]
      /\ \A s \in Streams : Grows(state[s], state'[s], NoPatch)
      /\ \A s \in Streams : StreamOK(s)'
      /\ NeedsOK'
  BY <1>1, <1>6, StoredOK
<1>8. /\ rowLock' \in [Streams -> Calls \union {NoCall}] /\ tagLock' \in Calls \union {NoCall}
      /\ tagLock' # c /\ \A s \in Streams : rowLock'[s] # c
      /\ \A d \in Calls \ {c} : /\ \A s \in Streams : rowLock[s] = d <=> rowLock'[s] = d
                                /\ tagLock = d <=> tagLock' = d
  BY <1>2, <1>4, Released
<1>9. Types'
  BY <1>1, <1>2, <1>5, <1>7, <1>8 DEF Types
<1>10. CallOK(c)'
  <2>1. /\ \A s \in Streams : state[s].deleted => state'[s].deleted
        /\ \A s \in Streams : row[s].known => row'[s].known
    BY <1>1, <1>7 DEF Grows
  <2> QED
    BY <1>1, <1>2, <1>3, <1>5, <1>7, <1>8, <2>1, EndedOK
<1>11. ASSUME NEW d \in Calls \ {c} PROVE CallOK(d)'
  <2>1. Env(d)
    BY <1>1, <1>2, <1>7, <1>8, StoredEnv
  <2> QED
    BY <1>2, <1>5, <1>6, <1>9, <2>1, OthersOK DEF IInv
<1> QED
  BY <1>7, <1>9, <1>10, <1>11 DEF IInv

\* run_command_with_retry rolls back and begins again, or gives up.
LEMMA ConflictOK ==
  ASSUME IInv, NEW c \in Calls, Conflict(c)
  PROVE  IInv'
<1>1. /\ call[c].at = "append" /\ call[c].at \in Working /\ call[c].at # "idle"
      /\ UNCHANGED <<state, version, row, todo>>
  BY DEF Conflict, Working
<1>2. Types /\ call[c] \in CallRecs /\ CallOK(c) /\ call[c].cmd \in Commands /\ call[c].answer = "none"
  BY <1>1, WorkFacts
<1>3. clean' \in BOOLEAN /\ "409" \in Answers
  BY <1>2 DEF Conflict, Types, Answers
<1>4. CASE Answer(c, "409")
  BY <1>1, <1>3, <1>4, AnswerOK
<1>5. CASE /\ ~(call[c].tries + 1 >= MaxAttempts)
           /\ call' = [call EXCEPT ![c].at = "check", ![c].tries = call[c].tries + 1,
                                   ![c].mine = <<>>, ![c].jobs = <<>>, ![c].version = 0,
                                   ![c].base = Absent]
           /\ ReleaseLocks(c)
  <2>1. PICK n \in 0 .. MaxAttempts - 1 : n = call[c].tries + 1
    BY <1>2, <1>5, RecFields, AttemptsAssumption
  <2>2. PICK mine \in Views : mine = <<>> /\ DOMAIN mine = {}
    BY EmptyView
  <2>0. <<>> \in Seq(JobSet)
    OBVIOUS
  <2>3. PICK jobs \in Seq(JobSet) : jobs = <<>>
    BY <2>0
  <2>4. PICK base \in States : base = Absent
    BY AbsentState
  <2> DEFINE r == [call[c] EXCEPT !.at = "check", !.tries = n, !.mine = mine, !.jobs = jobs,
                                  !.version = 0, !.base = base]
  <2>5. call' = [call EXCEPT ![c] = r]
    <3>1. call' = [call EXCEPT ![c].at = "check", ![c].tries = n, ![c].mine = mine,
                               ![c].jobs = jobs, ![c].version = 0, ![c].base = base]
      BY <1>5, <2>1, <2>2, <2>3, <2>4
    <3>2. call \in [Calls -> CallRecs]
      BY <1>2 DEF Types
    <3> QED
      BY <3>1, <3>2
  <2>6. /\ r \in CallRecs /\ r.at = "check" /\ r.mine = mine /\ r.cmd = call[c].cmd
        /\ r.known = call[c].known /\ r.answer = call[c].answer
    BY <1>2 DEF CallRecs, Ats
  <2> HIDE DEF r
  <2>7. call'[c] = r
    BY <1>2, <2>5 DEF Types
  <2>8. /\ rowLock' \in [Streams -> Calls \union {NoCall}] /\ tagLock' \in Calls \union {NoCall}
        /\ \A d \in Calls \ {c} : /\ \A s \in Streams : rowLock[s] = d <=> rowLock'[s] = d
                                  /\ tagLock = d <=> tagLock' = d
    BY <1>2, <1>5, Released
  <2>9. PlaceOK(c)' /\ CreationOK(c)' /\ WriteOK(c)'
    BY <1>2, <2>2, <2>6, <2>7 DEF PlaceOK, CreationOK, WriteOK, Working, Writing
  <2>10. MineOK(c)'
    BY <2>2, <2>6, <2>7 DEF MineOK
  <2>11. DeletionOK(c)'
    BY <1>1, <1>2, <2>6, <2>7 DEF CallOK, DeletionOK, Working
  <2>12. CallOK(c)'
    BY <2>9, <2>10, <2>11 DEF CallOK
  <2> QED
    BY <1>1, <1>3, <2>5, <2>6, <2>8, <2>12, Quiet
<1> QED
  BY <1>4, <1>5 DEF Conflict

\* The streams and the other calls when rows are written that stay behind
\* their streams.
LEMMA RowsOK ==
  ASSUME IInv, UNCHANGED <<state, version>>,
         row' \in [Streams -> States], todo' \in [Streams -> Seq(Events)],
         NoPatch' <=> NoPatch,
         \A s \in Streams : Follows(row'[s], state[s], NoPatch),
         \A s \in Streams : todo'[s] = todo[s] \/ (todo[s] # <<>> /\ todo'[s] = Tail(todo[s]))
  PROVE  (\A s \in Streams : StreamOK(s)') /\ NeedsOK'
<1>1. NoPatch \in BOOLEAN /\ NoPatch' \in BOOLEAN /\ Types /\ NeedsOK
      /\ \A s \in Streams : StreamOK(s)
  BY DEF IInv, NoPatch
<1>2. NoPatch = NoPatch'
  BY <1>1
<1>3. ASSUME NEW s \in Streams PROVE StreamOK(s)'
  <2>1. todo[s] \in Seq(Events) /\ StreamOK(s)
    BY <1>1 DEF Types
  <2>2. \A i \in DOMAIN todo'[s] : Reached(todo'[s][i], state[s], NoPatch)
    <3>1. CASE todo'[s] = todo[s]
      BY <2>1, <3>1 DEF StreamOK
    <3>2. CASE todo[s] # <<>> /\ todo'[s] = Tail(todo[s])
      <4>1. \A i \in DOMAIN Tail(todo[s]) : i + 1 \in DOMAIN todo[s] /\ Tail(todo[s])[i] = todo[s][i + 1]
        BY <2>1, <3>2, TailFacts
      <4> QED
        BY <2>1, <3>2, <4>1 DEF StreamOK
    <3> QED
      BY <3>1, <3>2
  <2> QED
    BY <1>2, <2>1, <2>2 DEF StreamOK
<1>4. NeedsOK'
  BY <1>1, <1>2 DEF NeedsOK, NeedsHigher
<1> QED
  BY <1>3, <1>4

\* What a commit makes of the rows.
LEMMA CommitRows ==
  ASSUME IInv, NEW c \in Calls, row' = Overlay(call[c].mine, row)
  PROVE  /\ row' \in [Streams -> States]
         /\ \A s \in Streams : /\ s \in DOMAIN call[c].mine =>
                                    row'[s] = call[c].mine[s] /\ rowLock[s] = c
                               /\ s \notin DOMAIN call[c].mine => row'[s] = row[s]
                               /\ row[s].known => row'[s].known
                               /\ row[s].deleted => row'[s].deleted
                               /\ Follows(row'[s], state[s], NoPatch)
<1>1. Types /\ call[c] \in CallRecs /\ CallOK(c) /\ MineOK(c) /\ row \in [Streams -> States]
  BY DEF IInv, Types, CallOK
<1>2. call[c].mine \in Views /\ DOMAIN call[c].mine \subseteq Streams
      /\ \A s \in DOMAIN call[c].mine : call[c].mine[s] \in States
  BY <1>1, RecFields, ViewFacts
<1>3. DOMAIN call[c].mine \union DOMAIN row = Streams
  BY <1>1, <1>2
<1>4. row' = [s \in Streams |-> IF s \in DOMAIN call[c].mine THEN call[c].mine[s] ELSE row[s]]
  BY <1>3 DEF Overlay
<1>5. row' \in [Streams -> States]
  BY <1>1, <1>2, <1>4
<1>6. ASSUME NEW s \in Streams
      PROVE  /\ s \in DOMAIN call[c].mine => row'[s] = call[c].mine[s] /\ rowLock[s] = c
             /\ s \notin DOMAIN call[c].mine => row'[s] = row[s]
             /\ row[s].known => row'[s].known
             /\ row[s].deleted => row'[s].deleted
             /\ Follows(row'[s], state[s], NoPatch)
  <2>1. CASE s \in DOMAIN call[c].mine
    <3>1. row'[s] = call[c].mine[s]
      BY <1>4, <2>1
    <3>2. /\ rowLock[s] = c /\ call[c].mine[s].known
          /\ row[s].deleted => call[c].mine[s].deleted
          /\ Follows(call[c].mine[s], state[s], NoPatch)
      BY <1>1, <2>1 DEF MineOK
    <3> QED
      BY <2>1, <3>1, <3>2
  <2>2. CASE s \notin DOMAIN call[c].mine
    <3>1. row'[s] = row[s]
      BY <1>4, <2>2
    <3>2. Follows(row[s], state[s], NoPatch)
      BY DEF IInv, StreamOK
    <3> QED
      BY <2>2, <3>1, <3>2
  <2> QED
    BY <2>1, <2>2
<1> QED
  BY <1>5, <1>6

LEMMA CommitOK ==
  ASSUME IInv, NEW c \in Calls, Commit(c)
  PROVE  IInv'
<1>1. /\ call[c].at = "commit" /\ call[c].at # "idle" /\ row' = Overlay(call[c].mine, row)
      /\ UNCHANGED <<state, version, todo, clean>>
  BY DEF Commit
<1>2. /\ Types /\ call[c] \in CallRecs /\ CallOK(c) /\ call[c].jobs = <<>>
      /\ call[c].cmd \in Commands /\ call[c].answer = "none" /\ "ok" \in Answers
  BY <1>1 DEF IInv, Types, CallOK, PlaceOK, Answers
<1>3. /\ row' \in [Streams -> States]
      /\ \A s \in Streams : /\ s \in DOMAIN call[c].mine =>
                                 row'[s] = call[c].mine[s] /\ rowLock[s] = c
                            /\ s \notin DOMAIN call[c].mine => row'[s] = row[s]
                            /\ row[s].known => row'[s].known
                            /\ Follows(row'[s], state[s], NoPatch)
  BY <1>1, CommitRows
<1>4. ReleaseLocks(c)
  BY DEF Commit, Answer
<1>5. /\ rowLock' \in [Streams -> Calls \union {NoCall}] /\ tagLock' \in Calls \union {NoCall}
      /\ tagLock' # c /\ \A s \in Streams : rowLock'[s] # c
      /\ \A d \in Calls \ {c} : /\ \A s \in Streams : rowLock[s] = d <=> rowLock'[s] = d
                                /\ tagLock = d <=> tagLock' = d
  BY <1>2, <1>4, Released
<1>6. ASSUME NEW r \in CallRecs, call' = [call EXCEPT ![c] = r], r.cmd = call[c].cmd, CallOK(c)'
      PROVE  IInv'
  <2>1. /\ call' \in [Calls -> CallRecs] /\ \A d \in Calls \ {c} : call'[d] = call[d]
    BY <1>2, <1>6, Put DEF Types
  <2>2. (NoPatch' <=> NoPatch) /\ NoPatch \in BOOLEAN
    BY <1>2, <1>6, Put, PatchSame DEF Types
  <2>3. Types'
    BY <1>1, <1>2, <1>3, <1>5, <2>1 DEF Types
  <2>4. (\A s \in Streams : StreamOK(s)') /\ NeedsOK'
    BY <1>1, <1>3, <2>2, <2>3, RowsOK DEF Types
  <2>5. ASSUME NEW d \in Calls \ {c} PROVE CallOK(d)'
    <3>1. Env(d)
      BY <1>1, <1>2, <1>3, <1>5, GrowsSame DEF Env, Types
    <3> QED
      BY <1>2, <2>1, <2>2, <2>3, <3>1, OthersOK DEF IInv
  <2> QED
    BY <1>6, <2>3, <2>4, <2>5 DEF IInv
<1>7. CASE /\ call[c].cmd.do = "create" /\ call[c].phase = "do"
           /\ call' = [call EXCEPT ![c].at = "plan", ![c].mine = <<>>]
  <2>1. PICK mine \in Views : mine = <<>> /\ DOMAIN mine = {}
    BY EmptyView
  <2> DEFINE r == [call[c] EXCEPT !.at = "plan", !.mine = mine]
  <2>2. call' = [call EXCEPT ![c] = r]
    BY <1>7, <2>1
  <2>3. /\ r \in CallRecs /\ r.at = "plan" /\ r.mine = mine /\ r.cmd = call[c].cmd
        /\ r.phase = call[c].phase /\ r.known = call[c].known /\ r.answer = call[c].answer
    BY <1>2 DEF CallRecs, Ats
  <2> HIDE DEF r
  <2>4. call'[c] = r
    BY <1>2, <2>2 DEF Types
  <2>5. PlaceOK(c)' /\ CreationOK(c)' /\ WriteOK(c)'
    BY <1>2, <1>7, <2>1, <2>3, <2>4 DEF PlaceOK, CreationOK, WriteOK, Working, Writing
  <2>6. MineOK(c)' /\ DeletionOK(c)'
    BY <1>7, <2>1, <2>3, <2>4 DEF MineOK, DeletionOK
  <2>7. CallOK(c)'
    BY <2>5, <2>6 DEF CallOK
  <2> QED
    BY <1>6, <2>2, <2>3, <2>7
<1>8. CASE Answer(c, "ok")
  <2>1. PICK r \in CallRecs : r = EndRec(call[c], "ok") /\ r.cmd = call[c].cmd
    BY <1>2, Ended
  <2>2. call' = [call EXCEPT ![c] = r]
    BY <1>8, <2>1 DEF Answer, EndRec
  <2>3. call'[c] = r
    BY <1>2, <2>2 DEF Types
  <2>4. DeletionDone(c)
    BY <1>1, <1>2 DEF CallOK, DeletionOK, DeletionDone
  <2>5. /\ state' \in [Streams -> States]
        /\ \A s \in Streams : state[s].deleted => state'[s].deleted
    BY <1>1, <1>2 DEF Types
  <2>6. CallOK(c)'
    BY <1>1, <1>2, <1>3, <1>5, <2>1, <2>3, <2>4, <2>5, EndedOK
  <2> QED
    BY <1>6, <2>1, <2>2, <2>6
<1> QED
  BY <1>7, <1>8 DEF Commit

\* What the worker makes of the row of a stream.
LEMMA ReplayRows ==
  ASSUME IInv, NEW s \in Streams, Replay(s)
  PROVE  /\ row' \in [Streams -> States]
         /\ \A u \in Streams : /\ u # s => row'[u] = row[u]
                               /\ row[u].known => row'[u].known
                               /\ row[u].deleted => row'[u].deleted
                               /\ Follows(row'[u], state[u], NoPatch)
         /\ IsCreation(Head(todo[s])) => row'[s].known
<1>1. Types /\ StreamOK(s) /\ todo[s] \in Seq(Events) /\ todo[s] # <<>>
      /\ row \in [Streams -> States] /\ state[s] \in States /\ NoPatch \in BOOLEAN
  BY DEF IInv, Types, Replay, NoPatch
<1>2. PICK e \in Events : e = Head(todo[s]) /\ e = todo[s][1] /\ 1 \in DOMAIN todo[s]
  BY <1>1
<1>3. Follows(row[s], state[s], NoPatch) /\ Reached(e, state[s], NoPatch)
  BY <1>1, <1>2 DEF StreamOK
<1>4. \A u \in Streams : Follows(row[u], state[u], NoPatch)
  BY DEF IInv, StreamOK
<1>5. CASE row[s].known \/ IsCreation(e)
  <2> DEFINE w == Overlay(Written(row[s], e), row[s])
  <2>1. row' = [row EXCEPT ![s] = w]
    BY <1>2, <1>5 DEF Replay
  <2>2. /\ w \in States /\ w.known /\ (row[s].deleted => w.deleted)
        /\ Follows(w, state[s], NoPatch)
    BY <1>1, <1>3, <1>5, WriteFollows
  <2> HIDE DEF w
  <2>3. row'[s] = w /\ (\A u \in Streams : u # s => row'[u] = row[u]) /\ row' \in [Streams -> States]
    BY <1>1, <2>1, <2>2
  <2> QED
    BY <1>4, <2>2, <2>3
<1>6. CASE ~(row[s].known \/ IsCreation(e))
  <2>1. row' = row
    BY <1>2, <1>6 DEF Replay
  <2> QED
    BY <1>1, <1>2, <1>4, <1>6, <2>1
<1> QED
  BY <1>5, <1>6

LEMMA ReplayOK ==
  ASSUME IInv, NEW s \in Streams, Replay(s)
  PROVE  IInv'
<1>1. /\ todo[s] # <<>> /\ rowLock[s] = NoCall /\ todo' = [todo EXCEPT ![s] = Tail(todo[s])]
      /\ UNCHANGED <<state, version, rowLock, tagLock, call, clean>>
  BY DEF Replay
<1>2. Types /\ todo[s] \in Seq(Events)
  BY DEF IInv, Types
<1>3. /\ row' \in [Streams -> States]
      /\ \A u \in Streams : /\ u # s => row'[u] = row[u]
                            /\ row[u].known => row'[u].known
                            /\ Follows(row'[u], state[u], NoPatch)
  BY ReplayRows
<1>4. (NoPatch' <=> NoPatch) /\ NoPatch \in BOOLEAN
  BY <1>1 DEF NoPatch
<1>5. Tail(todo[s]) \in Seq(Events)
  BY <1>1, <1>2
<1>6. /\ todo' \in [Streams -> Seq(Events)]
      /\ \A u \in Streams : todo'[u] = todo[u] \/ (todo[u] # <<>> /\ todo'[u] = Tail(todo[u]))
  BY <1>1, <1>2, <1>5 DEF Types
<1>7. Types'
  BY <1>1, <1>2, <1>3, <1>6 DEF Types
<1>8. (\A u \in Streams : StreamOK(u)') /\ NeedsOK'
  BY <1>1, <1>3, <1>4, <1>6, RowsOK
<1>9. ASSUME NEW d \in Calls PROVE CallOK(d)'
  <2>1. Env(d)
    BY <1>1, <1>2, <1>3, GrowsSame, NoCallAssumption DEF Env, Types
  <2> QED
    BY <1>1, <1>2, <1>4, <1>7, <2>1, OthersOK DEF IInv
<1> QED
  BY <1>7, <1>8, <1>9 DEF IInv

-----------------------------------------------------------------------------
(* The backfill, deadlocks and crashes.                                    *)

\* The jobs of a backfill are about the tasks that are open, and have each of
\* them wait for tasks that are known to have a higher priority.
LEMMA BackfillJobs ==
  ASSUME IInv, NEW c \in Calls, call[c].at = "plan", NEW jobs \in Backfill(c), Open(c) # {}
  PROVE  /\ jobs \in Seq(JobSet) /\ jobs # <<>>
         /\ \A i \in DOMAIN jobs :
              /\ jobs[i].of \in Open(c) /\ jobs[i].of \in Tasks
              /\ jobs[i].event = [needs |-> Higher(c, jobs[i].of)]
              /\ Higher(c, jobs[i].of) \in SUBSET Tasks
              /\ Higher(c, jobs[i].of) # {}
              /\ NoPatch => NeedsHigher(jobs[i].of, Higher(c, jobs[i].of))
         /\ \A t \in Open(c) : \E i \in DOMAIN jobs : jobs[i].of = t
<1>1. PICK order \in SetToSeqs(Open(c)) :
        jobs = [i \in DOMAIN order |-> [of |-> order[i], event |-> [needs |-> Higher(c, order[i])]]]
  BY DEF Backfill
<1>2. Open(c) \subseteq Tasks /\ IsFiniteSet(Open(c)) /\ \A t \in Tasks : Higher(c, t) \subseteq Tasks
  BY TasksAssumption, FS_Subset DEF Open, Higher
<1>3. PICK n \in Nat : /\ order \in [1 .. n -> Open(c)] /\ DOMAIN order = 1 .. n
                       /\ \A x \in Open(c) : \E i \in DOMAIN order : order[i] = x
  BY <1>2, SeqsOnto
<1>4. \A i \in 1 .. n : /\ order[i] \in Open(c) /\ order[i] \in Tasks
                        /\ Higher(c, order[i]) \in SUBSET Tasks /\ Higher(c, order[i]) # {}
  BY <1>2, <1>3 DEF Open
<1>5. \A i \in 1 .. n : [of |-> order[i], event |-> [needs |-> Higher(c, order[i])]] \in JobSet
  BY <1>4, EventTypes DEF JobSet, Streams
<1>6. /\ jobs \in [1 .. n -> JobSet] /\ DOMAIN jobs = 1 .. n
      /\ \A i \in 1 .. n : /\ jobs[i].of = order[i]
                           /\ jobs[i].event = [needs |-> Higher(c, order[i])]
  BY <1>1, <1>3, <1>5
<1>7. jobs \in Seq(JobSet)
  BY <1>6
<1>8. jobs # <<>>
  BY <1>3, <1>6
<1>9. ASSUME NEW t \in Tasks, Live(View(c, t)), NoPatch
      PROVE  NeedsHigher(t, Higher(c, t))
  <2>1. call[c].mine = <<>>
    BY DEF IInv, CallOK, PlaceOK
  <2>2. \A s \in Streams : View(c, s) = row[s]
    BY <2>1, EmptyView DEF View
  <2>3. \A s \in Streams : row[s].known => state[s].known /\ row[s].priority = state[s].priority
    BY <1>9 DEF IInv, StreamOK, Follows
  <2> QED
    BY <1>9, <2>2, <2>3 DEF NeedsHigher, Higher, Live, Streams
<1>10. \A i \in 1 .. n : NoPatch => NeedsHigher(order[i], Higher(c, order[i]))
  BY <1>4, <1>9 DEF Open
<1> QED
  BY <1>3, <1>4, <1>6, <1>7, <1>8, <1>10

LEMMA PlanOK ==
  ASSUME IInv, NEW c \in Calls, Plan(c)
  PROVE  IInv'
<1>1. /\ call[c].at = "plan" /\ call[c].at # "idle" /\ UNCHANGED <<state, version, row, todo, clean>>
  BY DEF Plan
<1>2. /\ Types /\ call[c] \in CallRecs /\ CallOK(c) /\ "ok" \in Answers
      /\ call[c].cmd \in Commands /\ call[c].answer = "none" /\ call[c].mine = <<>>
      /\ call[c].cmd.do = "create" /\ clean' \in BOOLEAN
  BY <1>1 DEF IInv, Types, CallOK, PlaceOK, Answers
<1>3. CASE Answer(c, "ok")
  BY <1>1, <1>2, <1>3, AnswerOK DEF DeletionDone
<1>4. ASSUME Open(c) # {}, NEW jobs0 \in Backfill(c), UNCHANGED <<rowLock, tagLock>>,
             call' = [call EXCEPT ![c].at = "load", ![c].phase = "plan", ![c].jobs = jobs0]
      PROVE  IInv'
  <2>1. /\ jobs0 \in Seq(JobSet) /\ jobs0 # <<>>
        /\ \A i \in DOMAIN jobs0 :
             /\ jobs0[i].of \in Tasks /\ jobs0[i].event \in [needs : SUBSET Tasks]
             /\ jobs0[i].event.needs # {}
             /\ NoPatch => NeedsHigher(jobs0[i].of, jobs0[i].event.needs)
    <3>1. /\ jobs0 \in Seq(JobSet) /\ jobs0 # <<>>
          /\ \A i \in DOMAIN jobs0 :
               /\ jobs0[i].of \in Tasks
               /\ jobs0[i].event = [needs |-> Higher(c, jobs0[i].of)]
               /\ Higher(c, jobs0[i].of) \in SUBSET Tasks
               /\ Higher(c, jobs0[i].of) # {}
               /\ NoPatch => NeedsHigher(jobs0[i].of, Higher(c, jobs0[i].of))
      BY <1>1, <1>4, BackfillJobs
    <3>2. ASSUME NEW i \in DOMAIN jobs0
          PROVE  /\ jobs0[i].of \in Tasks /\ jobs0[i].event \in [needs : SUBSET Tasks]
                 /\ jobs0[i].event.needs # {}
                 /\ NoPatch => NeedsHigher(jobs0[i].of, jobs0[i].event.needs)
      <4>1. PICK n \in SUBSET Tasks : n = Higher(c, jobs0[i].of) /\ n # {}
        BY <3>1
      <4>2. jobs0[i].event = [needs |-> n]
        BY <3>1, <4>1
      <4>3. jobs0[i].event \in [needs : SUBSET Tasks] /\ jobs0[i].event.needs = n
        BY <4>2
      <4> QED
        BY <3>1, <4>1, <4>3
    <3> QED
      BY <3>1, <3>2
  <2>2. PICK jobs \in Seq(JobSet) :
          /\ jobs = jobs0 /\ jobs # <<>>
          /\ \A i \in DOMAIN jobs :
               /\ jobs[i].of \in Tasks /\ jobs[i].event \in [needs : SUBSET Tasks]
               /\ jobs[i].event.needs # {}
               /\ NoPatch => NeedsHigher(jobs[i].of, jobs[i].event.needs)
    BY <2>1
  <2> DEFINE r == [call[c] EXCEPT !.at = "load", !.phase = "plan", !.jobs = jobs]
  <2>3. call' = [call EXCEPT ![c] = r]
    BY <1>4, <2>2
  <2>4. /\ r \in CallRecs /\ r.at = "load" /\ r.phase = "plan" /\ r.jobs = jobs
        /\ r.cmd = call[c].cmd /\ r.mine = call[c].mine
        /\ r.known = call[c].known /\ r.answer = call[c].answer
    BY <1>2 DEF CallRecs, Ats
  <2> HIDE DEF r
  <2>5. call'[c] = r
    BY <1>2, <2>3 DEF Types
  <2>6. NoPatch' <=> NoPatch
    BY <1>2, <2>3, <2>4, Put, PatchSame DEF Types
  <2>7. JobsOK(c)'
    BY <1>1, <1>2, <2>2, <2>4, <2>5, <2>6 DEF JobsOK, JobOK, NeedsHigher
  <2>8. PlaceOK(c)'
    BY <1>2, <2>2, <2>4, <2>5 DEF PlaceOK
  <2>9. CreationOK(c)' /\ DeletionOK(c)'
    BY <1>2, <2>4, <2>5 DEF CreationOK, DeletionOK
  <2>10. WriteOK(c)'
    BY <1>2, <2>4, <2>5, <2>7 DEF WriteOK, Writing
  <2>11. MineOK(c)'
    BY <1>2, <2>4, <2>5, EmptyView DEF MineOK
  <2>12. CallOK(c)'
    BY <2>8, <2>9, <2>10, <2>11 DEF CallOK
  <2> QED
    BY <1>1, <1>2, <1>4, <2>3, <2>4, <2>12, Quiet DEF Types
<1> QED
  BY <1>3, <1>4 DEF Plan

LEMMA AbortOK ==
  ASSUME IInv, NEW c \in Calls, Abort(c)
  PROVE  IInv'
<1>1. WaitsFor(c) # NoCall
  BY DEF Abort, InDeadlock
<1>2. call[c].at # "idle"
  BY <1>1 DEF WaitsFor
<1>3. /\ Answer(c, "error") /\ UNCHANGED <<state, version, row, todo>> /\ clean' \in BOOLEAN
      /\ "error" \in Answers
  BY DEF Abort, Answers
<1> QED
  BY <1>2, <1>3, AnswerOK

LEMMA CrashOK == ASSUME IInv, Crash PROVE IInv'
<1>1. /\ call' = [c \in Calls |->
                    IF call[c].at = "idle" THEN call[c]
                    ELSE [Idle(call[c].cmd) EXCEPT
                            !.at = "end", !.known = call[c].known,
                            !.answer = IF call[c].answer = "none" THEN "error" ELSE call[c].answer]]
      /\ rowLock' = [s \in Streams |-> NoCall] /\ tagLock' = NoCall
      /\ UNCHANGED <<state, version, row, todo>> /\ clean' \in BOOLEAN
  BY DEF Crash, Fault
<1>2. Types /\ \A c \in Calls : call[c] \in CallRecs /\ CallOK(c)
  BY DEF IInv, Types
<1>3. /\ rowLock' \in [Streams -> Calls \union {NoCall}] /\ tagLock' \in Calls \union {NoCall}
      /\ \A c \in Calls : tagLock' # c /\ \A s \in Streams : rowLock'[s] # c
  BY <1>1, NoCallAssumption
<1>4. ASSUME NEW c \in Calls, call[c].at = "idle"
      PROVE  call'[c] = call[c] /\ CallOK(c)'
  <2>1. call'[c] = call[c]
    BY <1>1, <1>4
  <2>2. PlaceOK(c)' /\ CreationOK(c)' /\ WriteOK(c)'
    BY <1>2, <1>4, <2>1 DEF CallOK, PlaceOK, CreationOK, WriteOK, Working, Writing
  <2>3. MineOK(c)'
    BY <1>2, <1>4, <2>1, EmptyView DEF CallOK, PlaceOK, MineOK
  <2>4. DeletionOK(c)'
    BY <1>1, <1>2, <1>4, <2>1 DEF CallOK, DeletionOK, Working
  <2> QED
    BY <2>1, <2>2, <2>3, <2>4 DEF CallOK
<1>5. ASSUME NEW c \in Calls, call[c].at # "idle"
      PROVE  call'[c] \in CallRecs /\ call'[c].cmd = call[c].cmd /\ CallOK(c)'
  <2>1. PICK a \in Answers : a = IF call[c].answer = "none" THEN "error" ELSE call[c].answer
    BY <1>2, RecFields DEF Answers
  <2>2. call'[c] = EndRec(call[c], a)
    <3>1. call'[c] = [Idle(call[c].cmd) EXCEPT !.at = "end", !.known = call[c].known, !.answer = a]
      BY <1>1, <1>5, <2>1
    <3> QED
      BY <3>1 DEF EndRec, Idle
  <2>3. PICK r \in CallRecs : r = EndRec(call[c], a) /\ r.cmd = call[c].cmd
    BY <1>2, Ended
  <2>4. a = "ok" => DeletionDone(c)
    BY <1>2, <2>1 DEF CallOK, DeletionOK, DeletionDone
  <2>5. /\ \A s \in Streams : row[s].known => row'[s].known
        /\ \A s \in Streams : state[s].deleted => state'[s].deleted
        /\ state' \in [Streams -> States]
    BY <1>1, <1>2 DEF Types
  <2>6. CallOK(c)'
    BY <1>3, <1>5, <2>2, <2>3, <2>4, <2>5, EndedOK
  <2> QED
    BY <2>2, <2>3, <2>6
<1>6. call' \in [Calls -> CallRecs] /\ \A c \in Calls : call'[c].cmd = call[c].cmd
  <2>1. \A c \in Calls : call'[c] \in CallRecs /\ call'[c].cmd = call[c].cmd
    BY <1>2, <1>4, <1>5
  <2>2. call' = [c \in Calls |-> call'[c]]
    BY <1>1
  <2> QED
    BY <2>1, <2>2
<1>7. (NoPatch' <=> NoPatch) /\ NoPatch \in BOOLEAN /\ NoPatch' \in BOOLEAN
  BY <1>6, PatchSame
<1>8. Types'
  BY <1>1, <1>2, <1>3, <1>6 DEF Types
<1>9. (\A s \in Streams : StreamOK(s)') /\ NeedsOK'
  BY <1>1, <1>2, <1>7, QuietStreams DEF IInv
<1> QED
  BY <1>4, <1>5, <1>8, <1>9 DEF IInv

LEMMA NextInv == ASSUME IInv, [Next]_vars PROVE IInv'
<1>1. ASSUME NEW c \in Calls, Begin(c) \/ Step(c) \/ AppendFails(c) PROVE IInv'
  BY <1>1, BeginOK, CheckOK, LoadOK, AppendEventOK, ConflictOK, NoRowOK, TakeRowOK, TakeTagsOK,
     BlockOK, DuplicateOK, CommitOK, PlanOK, AbortOK, AppendFailsOK DEF Step
<1>2. ASSUME NEW s \in Streams, Replay(s) PROVE IInv'
  BY <1>2, ReplayOK
<1>3. CASE Crash
  BY <1>3, CrashOK
<1>4. CASE UNCHANGED vars
  <2>1. UNCHANGED <<state, version, row, todo, rowLock, tagLock, call, clean>>
    BY <1>4 DEF vars
  <2>2. Types /\ Types' /\ (NoPatch <=> NoPatch') /\ NoPatch \in BOOLEAN /\ NoPatch' \in BOOLEAN
    BY <2>1 DEF IInv, Types, NoPatch
  <2>3. (\A s \in Streams : StreamOK(s)') /\ NeedsOK'
    BY <2>1, <2>2, QuietStreams DEF IInv
  <2>4. ASSUME NEW d \in Calls PROVE CallOK(d)'
    <3>1. Env(d)
      BY <2>1, <2>2, GrowsSame DEF Env, Types
    <3> QED
      BY <2>1, <2>2, <3>1, OthersOK DEF IInv
  <2> QED
    BY <2>2, <2>3, <2>4 DEF IInv
<1> QED
  BY <1>1, <1>2, <1>3, <1>4 DEF Next

THEOREM Invariance == Spec => []IInv
<1>1. Init => IInv
  BY InitInv
<1>2. IInv /\ [Next]_vars => IInv'
  BY NextInv
<1> QED
  BY <1>1, <1>2, PTL DEF Spec

-----------------------------------------------------------------------------
(* The types, deletions, and what does not come back.                      *)

\* The types, the limit of the attempts, work while a call is at work, and no
\* lock that outlives its call.
THEOREM TypeCorrect == Spec => []TypeOK
<1>1. IInv => TypeOK
  <2> SUFFICES ASSUME IInv PROVE TypeOK
    OBVIOUS
  <2>1. Types
    BY DEF IInv
  <2>2. ASSUME NEW c \in Calls
        PROVE  /\ call[c].at \in Ats
               /\ call[c].tries \in 0 .. MaxAttempts - 1
               /\ call[c].phase \in {"do", "plan"}
               /\ call[c].known \subseteq Tasks
               /\ DOMAIN call[c].mine \subseteq Streams
               /\ call[c].at \in {"load", "append", "row", "tags", "blocked"} => call[c].jobs # <<>>
               /\ call[c].at = "end" => c # tagLock /\ \A s \in Streams : rowLock[s] # c
    <3>1. call[c] \in CallRecs /\ PlaceOK(c)
      BY <2>1 DEF IInv, Types, CallOK
    <3>2. DOMAIN call[c].mine \subseteq Streams
      BY <3>1, RecFields, ViewFacts
    <3> QED
      BY <3>1, <3>2, RecFields DEF PlaceOK, Working
  <2> QED
    BY <2>1, <2>2 DEF Types, TypeOK
<1> QED
  BY <1>1, Invariance, PTL

\* The deletion of a project that is answered with success has deleted the
\* project and every task that it listed when it began.
THEOREM DeletionComplete == Spec => []DeletionIsComplete
<1>1. IInv => DeletionIsComplete
  BY DEF IInv, CallOK, DeletionOK, DeletionIsComplete
<1> QED
  BY <1>1, Invariance, PTL

\* Only two actions store an event.
LEMMA StateStays ==
  ASSUME Next, ~\E c \in Calls : AppendEvent(c) \/ AppendFails(c)
  PROVE  UNCHANGED state
<1>1. ASSUME NEW c \in Calls, Begin(c) \/ Step(c) \/ AppendFails(c) PROVE UNCHANGED state
  BY <1>1 DEF Begin, Step, Check, Load, Conflict, NoRow, TakeRow, TakeTags, Block, Duplicate,
     Commit, Plan, Abort
<1> QED
  BY <1>1 DEF Next, Replay, Crash

\* Only two actions write committed rows.
LEMMA RowStays ==
  ASSUME Next, ~\E c \in Calls : Commit(c), ~\E s \in Streams : Replay(s)
  PROVE  UNCHANGED row
<1>1. ASSUME NEW c \in Calls, Begin(c) \/ Step(c) \/ AppendFails(c) PROVE UNCHANGED row
  BY <1>1 DEF Begin, Step, Check, Load, AppendEvent, Conflict, NoRow, TakeRow, TakeTags, Block,
     Duplicate, Plan, Abort, AppendFails
<1> QED
  BY <1>1 DEF Next, Crash

\* What the calls are told to do does not change.
LEMMA CommandsStay ==
  ASSUME IInv, NEW c \in Calls, AppendEvent(c) \/ AppendFails(c)
  PROVE  NoPatch' <=> NoPatch
<1>1. Types /\ call \in [Calls -> CallRecs]
  BY DEF IInv, Types
<1>2. CASE AppendEvent(c)
  <2>1. \A d \in Calls : call'[d].cmd = call[d].cmd
    BY <1>1, <1>2 DEF AppendEvent, CallRecs
  <2> QED
    BY <2>1, PatchSame
<1>3. CASE AppendFails(c)
  <2>1. PICK r \in CallRecs : r = EndRec(call[c], "error") /\ r.cmd = call[c].cmd
    BY <1>1, Ended DEF Answers
  <2>2. call' = [call EXCEPT ![c] = r]
    BY <1>3, <2>1 DEF AppendFails, Answer, EndRec
  <2>3. \A d \in Calls : call'[d].cmd = call[d].cmd
    BY <1>1, <2>1, <2>2
  <2> QED
    BY <2>3, PatchSame
<1> QED
  BY <1>2, <1>3

LEMMA DeletedStays ==
  ASSUME IInv, Next, NEW s \in Streams
  PROVE  /\ state[s].deleted => state'[s].deleted
         /\ row[s].deleted => row'[s].deleted
<1>1. state[s].deleted => state'[s].deleted
  <2>1. ASSUME NEW c \in Calls, AppendEvent(c) \/ AppendFails(c)
        PROVE  state[s].deleted => state'[s].deleted
    <3>1. /\ call[c].at = "append" /\ version[Job(c).of] = call[c].version /\ Stored(c)
          /\ UNCHANGED row
      BY <2>1 DEF AppendEvent, AppendFails
    <3>2. NoPatch' <=> NoPatch
      BY <2>1, CommandsStay
    <3>3. Grows(state[s], state'[s], NoPatch)
      BY <3>1, <3>2, StoredOK
    <3> QED
      BY <3>3 DEF Grows
  <2> QED
    BY <2>1, StateStays
<1>2. row[s].deleted => row'[s].deleted
  <2>1. ASSUME NEW c \in Calls, Commit(c) PROVE row[s].deleted => row'[s].deleted
    BY <2>1, CommitRows DEF Commit
  <2>2. ASSUME NEW u \in Streams, Replay(u) PROVE row[s].deleted => row'[s].deleted
    BY <2>2, ReplayRows
  <2> QED
    BY <2>1, <2>2, RowStays
<1> QED
  BY <1>1, <1>2

\* A deleted task does not come back, in its stream or in its row.
THEOREM DeletionStands == Spec => NothingComesBack
<1>1. IInv /\ [Next]_vars =>
        [\A t \in Tasks : /\ state[t].deleted => state'[t].deleted
                          /\ row[t].deleted => row'[t].deleted]_vars
  BY DeletedStays DEF Streams
<1> QED
  BY <1>1, Invariance, PTL DEF Spec, NothingComesBack

-----------------------------------------------------------------------------
(* The backfills.                                                          *)

\* A step of call c that stores nothing, and after which what c had to do
\* for a row or for a task that waits is done, or c still has to do it.
LEMMA ComingOn ==
  ASSUME PInv, UNCHANGED state, clean' => clean,
         \A t \in Tasks : row[t].known => row'[t].known,
         NoPatch' => NoPatch,
         NEW c \in Calls, \A d \in Calls \ {c} : call'[d] = call[d],
         clean' => \A t \in Tasks : Creating(c, t) => row'[t].known \/ Creating(c, t)',
         clean' /\ NoPatch => \A t, u \in Tasks :
           Live(state[t]) /\ Live(state[u]) /\ state[u].priority < state[t].priority
             /\ state[t].needs = {} /\ Planning(c, t, u)
           => \E d \in Calls : Planning(d, t, u)'
  PROVE  RowsComing' /\ PlansComing'
<1>1. RowsComing /\ PlansComing
  BY DEF PInv
<1>2. \A d \in Calls \ {c}, t, u \in Tasks :
        /\ Creating(d, t) => Creating(d, t)'
        /\ Planning(d, t, u) => Planning(d, t, u)'
  BY DEF Creating, Planning
<1>3. RowsComing'
  <2> SUFFICES ASSUME clean', NEW t \in Tasks, state[t].known, ~row'[t].known
               PROVE  \E d \in Calls : Creating(d, t)'
    BY DEF RowsComing
  <2>1. PICK d \in Calls : Creating(d, t)
    BY <1>1 DEF RowsComing
  <2> QED
    BY <1>2, <2>1
<1>4. PlansComing'
  <2> SUFFICES ASSUME clean', NoPatch, NEW t \in Tasks, NEW u \in Tasks,
                      Live(state[t]), Live(state[u]), state[u].priority < state[t].priority,
                      state[t].needs = {}
               PROVE  \E d \in Calls : Planning(d, t, u)'
    BY DEF PlansComing
  <2>1. PICK d \in Calls : Planning(d, t, u)
    BY <1>1 DEF PlansComing
  <2> QED
    BY <1>2, <2>1
<1> QED
  BY <1>3, <1>4

\* A step of call c that has neither a row nor a backfill to care for.
LEMMA ComingElse ==
  ASSUME PInv, UNCHANGED state, clean' => clean, UNCHANGED row,
         NoPatch' => NoPatch,
         NEW c \in Calls, \A d \in Calls \ {c} : call'[d] = call[d],
         \/ call[c].at \in {"idle", "check", "end"}
         \/ call[c].cmd.do # "create"
         \/ call[c].at = "append" /\ call[c].phase = "do"
         \/ ~clean'
  PROVE  RowsComing' /\ PlansComing'
<1>1. clean' => \A t, u \in Tasks : ~Creating(c, t) /\ ~Planning(c, t, u)
  <2>1. call[c].phase # "do" \/ call[c].phase # "plan"
    OBVIOUS
  <2> QED
    BY <2>1 DEF Creating, Planning, Working, Writing
<1>a1. clean' => \A t \in Tasks : Creating(c, t) => row'[t].known \/ Creating(c, t)'
  BY <1>1
<1>a2. clean' /\ NoPatch => \A t, u \in Tasks :
         Live(state[t]) /\ Live(state[u]) /\ state[u].priority < state[t].priority
           /\ state[t].needs = {} /\ Planning(c, t, u)
         => \E d \in Calls : Planning(d, t, u)'
  BY <1>1
<1>a3. \A t \in Tasks : row[t].known => row'[t].known
  OBVIOUS
<1> QED
  BY <1>a1, <1>a2, <1>a3, ComingOn

\* A step of call c that goes on with the same jobs.
LEMMA ComingSame ==
  ASSUME PInv, UNCHANGED state, clean' => clean, UNCHANGED row,
         NoPatch' => NoPatch,
         NEW c \in Calls, \A d \in Calls \ {c} : call'[d] = call[d],
         call'[c].cmd = call[c].cmd, call'[c].phase = call[c].phase,
         call'[c].jobs = call[c].jobs,
         \/ call[c].at \in Writing /\ call'[c].at \in Writing
         \/ call[c].at = "load" /\ call'[c].at \in Working
  PROVE  RowsComing' /\ PlansComing'
<1>1. \A t, u \in Tasks : /\ Creating(c, t) => Creating(c, t)'
                          /\ Planning(c, t, u) => Planning(c, t, u)'
  BY DEF Creating, Planning, Working, Writing
<1>a1. clean' => \A t \in Tasks : Creating(c, t) => row'[t].known \/ Creating(c, t)'
  BY <1>1
<1>a2. clean' /\ NoPatch => \A t, u \in Tasks :
         Live(state[t]) /\ Live(state[u]) /\ state[u].priority < state[t].priority
           /\ state[t].needs = {} /\ Planning(c, t, u)
         => \E d \in Calls : Planning(d, t, u)'
  BY <1>1
<1>a3. \A t \in Tasks : row[t].known => row'[t].known
  OBVIOUS
<1> QED
  BY <1>a1, <1>a2, <1>a3, ComingOn

\* Answering a call changes no other call and no command.
LEMMA AnswerFacts ==
  ASSUME Types, NEW c \in Calls, NEW a \in Answers, Answer(c, a)
  PROVE  (\A d \in Calls \ {c} : call'[d] = call[d]) /\ (NoPatch' <=> NoPatch)
<1>1. PICK r \in CallRecs : r = EndRec(call[c], a) /\ r.cmd = call[c].cmd
  BY Ended DEF Types
<1>2. call' = [call EXCEPT ![c] = r]
  BY <1>1 DEF Answer, EndRec
<1>3. \A d \in Calls : call'[d].cmd = call[d].cmd
  BY <1>1, <1>2 DEF Types
<1> QED
  BY <1>2, <1>3, PatchSame DEF Types

\* What NextJob makes of the record of its call.
LEMMA NextJobFacts ==
  ASSUME Types, NEW c \in Calls, NEW mine, NextJob(c, mine)
  PROVE  /\ \A d \in Calls \ {c} : call'[d] = call[d]
         /\ call'[c].cmd = call[c].cmd /\ call'[c].phase = call[c].phase
         /\ call'[c].jobs = Tail(call[c].jobs) /\ call'[c].mine = mine
         /\ call'[c].at = IF Len(call[c].jobs) = 1 THEN "commit" ELSE "load"
         /\ NoPatch' <=> NoPatch
<1> DEFINE base == IF call[c].cmd.do = "patch" THEN call[c].base ELSE Absent
<1> DEFINE at == IF Len(call[c].jobs) = 1 THEN "commit" ELSE "load"
<1> DEFINE rest == Tail(call[c].jobs)
<1>1. call' = [call EXCEPT ![c].jobs = rest, ![c].mine = mine, ![c].version = 0,
                           ![c].base = base, ![c].at = at]
  BY DEF NextJob
<1> HIDE DEF base, at, rest
<1>2. call \in [Calls -> CallRecs] /\ call[c] \in CallRecs
  BY DEF Types
<1>3. call' = [call EXCEPT ![c] = [call[c] EXCEPT !.jobs = rest, !.mine = mine, !.version = 0,
                                                  !.base = base, !.at = at]]
  BY <1>1, <1>2
<1> DEFINE r == [call[c] EXCEPT !.jobs = rest, !.mine = mine, !.version = 0, !.base = base, !.at = at]
<1>4. r.cmd = call[c].cmd /\ r.phase = call[c].phase /\ r.jobs = rest /\ r.mine = mine /\ r.at = at
  BY <1>2 DEF CallRecs
<1>5. call' = [call EXCEPT ![c] = r]
  BY <1>3
<1> HIDE DEF r
<1>6. (\A d \in Calls \ {c} : call'[d] = call[d]) /\ call'[c] = r
  BY <1>2, <1>5
<1>7. NoPatch' <=> NoPatch
  BY <1>4, <1>6, PatchSame
<1> QED
  BY <1>4, <1>6, <1>7 DEF rest, at

\* The job that is done leaves its task waiting, if it was one of a backfill.
LEMMA ComingNext ==
  ASSUME PInv, NEW c \in Calls, call[c].at \in Writing, NEW mine, NextJob(c, mine),
         UNCHANGED <<state, row>>, clean' => clean,
         clean' /\ call[c].cmd.do = "create" /\ call[c].phase = "do" =>
           row[call[c].cmd.task].known \/ call[c].cmd.task \in DOMAIN mine
  PROVE  RowsComing' /\ PlansComing'
<1>1. /\ Types /\ call[c] \in CallRecs /\ CallOK(c)
      /\ call[c].jobs # <<>> /\ call[c].jobs \in Seq(JobSet)
      /\ Job(c) = call[c].jobs[1] /\ 1 \in DOMAIN call[c].jobs
      /\ Job(c) \in JobSet /\ JobOK(c, Job(c)) /\ IInv /\ call[c].at \in Working
  BY WorkFacts DEF PInv, Writing, Working
<1>2. /\ \A d \in Calls \ {c} : call'[d] = call[d]
      /\ call'[c].cmd = call[c].cmd /\ call'[c].phase = call[c].phase
      /\ call'[c].jobs = Tail(call[c].jobs) /\ call'[c].mine = mine
      /\ call'[c].at = IF Len(call[c].jobs) = 1 THEN "commit" ELSE "load"
      /\ NoPatch' <=> NoPatch
  BY <1>1, NextJobFacts
<1>3. ASSUME call[c].cmd.do = "create", call[c].phase = "do" PROVE call'[c].at = "commit"
  BY <1>1, <1>2, <1>3 DEF CallOK, CreationOK
<1>4. ASSUME clean', NEW t \in Tasks, Creating(c, t)
      PROVE  row'[t].known \/ Creating(c, t)'
  BY <1>2, <1>3, <1>4 DEF Creating
<1>5. ASSUME NoPatch, NEW t \in Tasks, NEW u \in Tasks, state[t].needs = {}, Planning(c, t, u)
      PROVE  Planning(c, t, u)'
  <2>1. CASE call[c].phase = "do"
    BY <1>2, <1>3, <1>5, <2>1 DEF Planning
  <2>2. CASE call[c].phase = "plan"
    <3>1. call[c].cmd.do = "create"
      BY <1>5 DEF Planning
    <3>2. PICK i \in DOMAIN call[c].jobs : call[c].jobs[i].of = t
      BY <1>5, <2>2 DEF Planning
    <3>3. Job(c).of # t
      <4>1. Job(c).event \in [needs : SUBSET Tasks] /\ Job(c).event.needs # {}
        BY <1>1, <2>2, <3>1 DEF JobOK
      <4>2. "needs" \in DOMAIN Job(c).event
        BY <4>1
      <4>3. Reached(Job(c).event, state[Job(c).of], NoPatch)
        BY <1>1 DEF CallOK, WriteOK
      <4> QED
        BY <1>5, <4>1, <4>2, <4>3 DEF Reached
    <3>4. i # 1
      BY <1>1, <3>2, <3>3
    <3>5. i - 1 \in DOMAIN call'[c].jobs /\ call'[c].jobs[i - 1] = call[c].jobs[i]
      BY <1>1, <1>2, <3>2, <3>4, TailFacts
    <3>6. Len(call[c].jobs) # 1
      BY <1>1, <3>2, <3>4
    <3>7. call'[c].at \in Working
      BY <1>2, <3>6 DEF Working
    <3> QED
      BY <1>2, <2>2, <3>1, <3>2, <3>5, <3>7 DEF Planning
  <2> QED
    BY <1>5, <2>1, <2>2 DEF Planning
<1>a1. clean' => \A t \in Tasks : Creating(c, t) => row'[t].known \/ Creating(c, t)'
  BY <1>4
<1>a2. clean' /\ NoPatch => \A t, u \in Tasks :
         Live(state[t]) /\ Live(state[u]) /\ state[u].priority < state[t].priority
           /\ state[t].needs = {} /\ Planning(c, t, u)
         => \E d \in Calls : Planning(d, t, u)'
  BY <1>5
<1>a3. \A t \in Tasks : row[t].known => row'[t].known
  OBVIOUS
<1> QED
  BY <1>2, <1>a1, <1>a2, <1>a3, ComingOn

\* No event, no row, and nothing that the calls have to care for.
LEMMA ComingUnclean ==
  ASSUME ~clean'
  PROVE  RowsComing' /\ PlansComing'
  BY DEF RowsComing, PlansComing

LEMMA LoadComing ==
  ASSUME PInv, NEW c \in Calls, Load(c)
  PROVE  RowsComing' /\ PlansComing'
<1>1. call[c].at = "load" /\ UNCHANGED <<state, row, clean>> /\ Types /\ call[c] \in CallRecs
  BY DEF Load, PInv, IInv, Types
<1>2. CASE call[c].cmd.do = "bulk" /\ Answer(c, "404")
  <2>1. (\A d \in Calls \ {c} : call'[d] = call[d]) /\ (NoPatch' <=> NoPatch)
    BY <1>1, <1>2, AnswerFacts DEF Answers
  <2> QED
    BY <1>1, <1>2, <2>1, ComingElse
<1>3. CASE call' = [call EXCEPT ![c].at = "append", ![c].version = version[Job(c).of]]
  <2>1. /\ \A d \in Calls \ {c} : call'[d] = call[d]
        /\ call'[c].cmd = call[c].cmd /\ call'[c].phase = call[c].phase
        /\ call'[c].jobs = call[c].jobs /\ call'[c].at = "append"
    BY <1>1, <1>3 DEF Types, CallRecs
  <2>2. NoPatch' <=> NoPatch
    BY <2>1, PatchSame
  <2> QED
    BY <1>1, <2>1, <2>2, ComingSame DEF Working
<1> QED
  BY <1>2, <1>3 DEF Load

LEMMA RowComing ==
  ASSUME PInv, NEW c \in Calls, TakeRow(c) \/ Block(c)
  PROVE  RowsComing' /\ PlansComing'
<1>1. call[c].at \in Writing /\ UNCHANGED <<state, row, clean>> /\ Types /\ call[c] \in CallRecs
  BY DEF TakeRow, Block, PInv, IInv, Types, Writing
<1>2. PICK at \in Writing : call' = [call EXCEPT ![c].at = at]
  BY DEF TakeRow, Block, Writing
<1>3. /\ \A d \in Calls \ {c} : call'[d] = call[d]
      /\ call'[c].cmd = call[c].cmd /\ call'[c].phase = call[c].phase
      /\ call'[c].jobs = call[c].jobs /\ call'[c].at = at
  BY <1>1, <1>2 DEF Types, CallRecs
<1>4. NoPatch' <=> NoPatch
  BY <1>3, PatchSame
<1> QED
  BY <1>1, <1>3, <1>4, ComingSame

LEMMA NoRowComing ==
  ASSUME PInv, NEW c \in Calls, NoRow(c)
  PROVE  RowsComing' /\ PlansComing'
<1>1. /\ call[c].at \in Writing /\ call[c].at \in Working /\ UNCHANGED <<state, row, clean>>
      /\ NextJob(c, call[c].mine) /\ IInv
  BY DEF NoRow, Writing, Working, PInv
<1>2. JobOK(c, Job(c))
  BY <1>1, WorkFacts
<1>3. ASSUME call[c].cmd.do = "create", call[c].phase = "do"
      PROVE  row[call[c].cmd.task].known
  <2>1. Job(c) = [of |-> call[c].cmd.task, event |-> Created(call[c].cmd.priority)]
    BY <1>2, <1>3 DEF JobOK
  <2>2. Job(c).of = call[c].cmd.task /\ Job(c).event = Created(call[c].cmd.priority)
    BY <2>1
  <2>3. IsCreation(Job(c).event)
    BY <2>2 DEF IsCreation, Created
  <2> QED
    BY <2>2, <2>3 DEF NoRow
<1> QED
  BY <1>1, <1>3, ComingNext

LEMMA TakeTagsComing ==
  ASSUME PInv, NEW c \in Calls, TakeTags(c)
  PROVE  RowsComing' /\ PlansComing'
<1> DEFINE m == IF DOMAIN Writes(c) = {} THEN call[c].mine
                ELSE Overlay([s \in {Job(c).of} |-> Overlay(Writes(c), View(c, s))], call[c].mine)
<1>1. /\ call[c].at \in {"tags", "blocked"} /\ call[c].at \in Writing
      /\ UNCHANGED <<state, row, clean>> /\ NextJob(c, m)
  BY DEF TakeTags, Writing
<1>2. IInv /\ Types /\ CallOK(c)
  BY DEF PInv, IInv
<1>3. ASSUME call[c].cmd.do = "create", call[c].phase = "do"
      PROVE  call[c].cmd.task \in DOMAIN m
  <2>1. Job(c).of = call[c].cmd.task /\ "known" \in DOMAIN Writes(c)
    BY <1>1, <1>2, <1>3, CreationLock
  <2>2. m = Overlay([s \in {Job(c).of} |-> Overlay(Writes(c), View(c, s))], call[c].mine)
    BY <2>1
  <2>3. Job(c).of \in DOMAIN Overlay([s \in {Job(c).of} |-> Overlay(Writes(c), View(c, s))], call[c].mine)
    BY DEF Overlay
  <2> QED
    BY <2>1, <2>2, <2>3
<1> HIDE DEF m
<1> QED
  BY <1>1, <1>3, ComingNext

LEMMA BeginComing ==
  ASSUME PInv, NEW c \in Calls, Begin(c)
  PROVE  RowsComing' /\ PlansComing'
<1>1. call[c].at = "idle" /\ UNCHANGED <<state, row, clean>> /\ Types /\ call[c] \in CallRecs
  BY DEF Begin, PInv, IInv, Types
<1>2. PICK K : call' = [call EXCEPT ![c].at = "check", ![c].known = K]
  BY DEF Begin
<1>3. (\A d \in Calls \ {c} : call'[d] = call[d]) /\ call'[c].cmd = call[c].cmd
  BY <1>1, <1>2 DEF Types, CallRecs
<1>4. NoPatch' <=> NoPatch
  BY <1>3, PatchSame
<1> QED
  BY <1>1, <1>3, <1>4, ComingElse

LEMMA CheckComing ==
  ASSUME PInv, NEW c \in Calls, Check(c)
  PROVE  RowsComing' /\ PlansComing'
<1>1. call[c].at = "check" /\ UNCHANGED <<state, row, clean>> /\ Types /\ call[c] \in CallRecs
  BY DEF Check, PInv, IInv, Types
<1>2. ASSUME NEW a \in {"ok", "404", "409"}, Answer(c, a)
      PROVE  RowsComing' /\ PlansComing'
  <2>1. (\A d \in Calls \ {c} : call'[d] = call[d]) /\ (NoPatch' <=> NoPatch)
    BY <1>1, <1>2, AnswerFacts DEF Answers
  <2> QED
    BY <1>1, <2>1, ComingElse
<1>3. ASSUME NEW at, NEW jobs, NEW base, Start(c, at, jobs, base)
      PROVE  RowsComing' /\ PlansComing'
  <2>1. call' = [call EXCEPT ![c] = [call[c] EXCEPT !.at = at, !.phase = "do", !.jobs = jobs,
                                                    !.version = 0, !.base = base]]
    BY <1>3 DEF Start
  <2> DEFINE r == [call[c] EXCEPT !.at = at, !.phase = "do", !.jobs = jobs, !.version = 0, !.base = base]
  <2>2. r.cmd = call[c].cmd
    BY <1>1 DEF CallRecs
  <2> HIDE DEF r
  <2>3. (\A d \in Calls \ {c} : call'[d] = call[d]) /\ call'[c].cmd = call[c].cmd
    BY <1>1, <2>1, <2>2 DEF Types, r
  <2>4. NoPatch' <=> NoPatch
    BY <2>3, PatchSame
  <2> QED
    BY <1>1, <2>3, <2>4, ComingElse
<1> QED
  BY <1>2, <1>3 DEF Check, CheckCreate, CheckPatch, CheckBulk, CheckDeleteProject

LEMMA ConflictComing ==
  ASSUME PInv, NEW c \in Calls, Conflict(c)
  PROVE  RowsComing' /\ PlansComing'
<1>1. /\ call[c].at = "append" /\ UNCHANGED <<state, row>> /\ Types /\ call[c] \in CallRecs
      /\ clean' = (clean /\ call[c].phase # "plan") /\ call[c].phase \in {"do", "plan"}
  BY RecFields DEF Conflict, PInv, IInv, Types
<1>2. (\A d \in Calls \ {c} : call'[d] = call[d]) /\ (NoPatch' <=> NoPatch)
  <2>1. CASE Answer(c, "409")
    BY <1>1, <2>1, AnswerFacts DEF Answers
  <2>2. CASE call' = [call EXCEPT ![c].at = "check", ![c].tries = call[c].tries + 1,
                                  ![c].mine = <<>>, ![c].jobs = <<>>, ![c].version = 0,
                                  ![c].base = Absent]
    <3> DEFINE r == [call[c] EXCEPT !.at = "check", !.tries = call[c].tries + 1, !.mine = <<>>,
                                    !.jobs = <<>>, !.version = 0, !.base = Absent]
    <3>1. call' = [call EXCEPT ![c] = r]
      BY <1>1, <2>2 DEF Types
    <3>2. r.cmd = call[c].cmd
      BY <1>1 DEF CallRecs
    <3> HIDE DEF r
    <3>3. (\A d \in Calls \ {c} : call'[d] = call[d]) /\ call'[c].cmd = call[c].cmd
      BY <1>1, <3>1, <3>2 DEF Types
    <3> QED
      BY <3>3, PatchSame
  <2> QED
    BY <2>1, <2>2 DEF Conflict
<1>3. CASE call[c].phase = "do"
  BY <1>1, <1>2, <1>3, ComingElse
<1>4. CASE call[c].phase = "plan"
  BY <1>1, <1>4, ComingUnclean
<1> QED
  BY <1>1, <1>3, <1>4

LEMMA CommitComing ==
  ASSUME PInv, NEW c \in Calls, Commit(c)
  PROVE  RowsComing' /\ PlansComing'
<1>1. /\ call[c].at = "commit" /\ UNCHANGED <<state, clean>> /\ row' = Overlay(call[c].mine, row)
      /\ IInv /\ Types /\ call[c] \in CallRecs /\ MineOK(c)
  BY DEF Commit, PInv, IInv, Types, CallOK
<1>2. \A s \in Streams : /\ s \in DOMAIN call[c].mine => row'[s] = call[c].mine[s]
                         /\ row[s].known => row'[s].known
  BY <1>1, CommitRows
<1>a3. \A t \in Tasks : row[t].known => row'[t].known
  BY <1>2 DEF Streams
<1>a1. clean' => \A t \in Tasks : Creating(c, t) => row'[t].known \/ Creating(c, t)'
  BY <1>1, <1>2 DEF Creating, Writing, MineOK, Streams
<1>3. CASE /\ call[c].cmd.do = "create" /\ call[c].phase = "do"
           /\ call' = [call EXCEPT ![c].at = "plan", ![c].mine = <<>>]
  <2>1. /\ \A d \in Calls \ {c} : call'[d] = call[d]
        /\ call'[c].cmd = call[c].cmd /\ call'[c].phase = call[c].phase /\ call'[c].at = "plan"
    BY <1>1, <1>3 DEF Types, CallRecs
  <2>2. NoPatch' <=> NoPatch
    BY <2>1, PatchSame
  <2>3. clean' /\ NoPatch => \A t, u \in Tasks :
           Live(state[t]) /\ Live(state[u]) /\ state[u].priority < state[t].priority
             /\ state[t].needs = {} /\ Planning(c, t, u)
           => \E d \in Calls : Planning(d, t, u)'
    BY <1>1, <1>3, <2>1 DEF Planning
  <2> QED
    BY <1>1, <1>a1, <1>a3, <2>1, <2>2, <2>3, ComingOn
<1>4. CASE ~(call[c].cmd.do = "create" /\ call[c].phase = "do") /\ Answer(c, "ok")
  <2>1. (\A d \in Calls \ {c} : call'[d] = call[d]) /\ (NoPatch' <=> NoPatch)
    BY <1>1, <1>4, AnswerFacts DEF Answers
  <2>3. clean' /\ NoPatch => \A t, u \in Tasks :
           Live(state[t]) /\ Live(state[u]) /\ state[u].priority < state[t].priority
             /\ state[t].needs = {} /\ Planning(c, t, u)
           => \E d \in Calls : Planning(d, t, u)'
    BY <1>1, <1>4 DEF Planning, Working
  <2> QED
    BY <1>1, <1>a1, <1>a3, <2>1, <2>3, ComingOn
<1> QED
  BY <1>3, <1>4 DEF Commit

LEMMA ReplayComing ==
  ASSUME PInv, NEW s \in Streams, Replay(s)
  PROVE  RowsComing' /\ PlansComing'
<1>1. /\ UNCHANGED <<state, call, clean>> /\ RowsComing /\ PlansComing
      /\ \A t \in Tasks : row[t].known => row'[t].known
  BY ReplayRows DEF Replay, PInv, Streams
<1> QED
  BY <1>1 DEF RowsComing, PlansComing, Creating, Planning, NoPatch

\* The backfill looks at all tasks whose rows are there; those whose rows are
\* still coming are looked at by the calls that create them.
LEMMA PlanComing ==
  ASSUME PInv, NEW c \in Calls, Plan(c)
  PROVE  RowsComing' /\ PlansComing'
<1>1. /\ call[c].at = "plan" /\ UNCHANGED <<state, row, clean>> /\ IInv /\ Types
      /\ call[c] \in CallRecs /\ RowsComing
      /\ call[c].cmd.do = "create" /\ call[c].phase = "do" /\ call[c].mine = <<>>
  BY DEF Plan, PInv, IInv, Types, CallOK, PlaceOK
<1>a3. \A t \in Tasks : row[t].known => row'[t].known
  BY <1>1
<1>a1. clean' => \A t \in Tasks : Creating(c, t) => row'[t].known \/ Creating(c, t)'
  BY <1>1 DEF Creating, Writing
\* What the backfill sees of a task.
<1>2. ASSUME NEW t \in Tasks, NEW u \in Tasks, NoPatch, clean,
             Live(state[t]), Live(state[u]), state[u].priority < state[t].priority,
             state[t].needs = {}
      PROVE  \/ t \in Open(c)
             \/ \E d \in Calls \ {c} : Planning(d, t, u)
  <2>1. state[t].known /\ state[u].known
    BY <1>2 DEF Live
  <2>2. ASSUME ~row[t].known \/ ~row[u].known
        PROVE  \E d \in Calls \ {c} : Planning(d, t, u)
    <3>1. PICK d \in Calls : Creating(d, t) \/ Creating(d, u)
      BY <1>1, <1>2, <2>1, <2>2 DEF RowsComing
    <3>2. d # c
      BY <1>1, <3>1 DEF Creating, Writing
    <3>3. Planning(d, t, u)
      BY <3>1 DEF Creating, Planning
    <3> QED
      BY <3>2, <3>3
  <2>3. ASSUME row[t].known, row[u].known PROVE t \in Open(c)
    <3>1. t \in Streams /\ u \in Streams
      BY DEF Streams
    <3>2. View(c, t) = row[t] /\ View(c, u) = row[u]
      BY <1>1, EmptyView DEF View
    <3>3. Follows(row[t], state[t], NoPatch) /\ Follows(row[u], state[u], NoPatch)
      BY <1>1, <3>1 DEF IInv, StreamOK
    <3>4. /\ Live(row[t]) /\ Live(row[u]) /\ row[t].needs = {}
          /\ row[t].priority = state[t].priority /\ row[u].priority = state[u].priority
      BY <1>2, <2>3, <3>3 DEF Follows, Live
    <3>5. u \in Higher(c, t)
      BY <1>2, <3>2, <3>4 DEF Higher
    <3> QED
      BY <3>2, <3>4, <3>5 DEF Open
  <2> QED
    BY <2>2, <2>3
<1>3. CASE Open(c) = {} /\ Answer(c, "ok")
  <2>1. (\A d \in Calls \ {c} : call'[d] = call[d]) /\ (NoPatch' <=> NoPatch)
    BY <1>1, <1>3, AnswerFacts DEF Answers
  <2>2. \A d \in Calls \ {c}, t, u \in Tasks : Planning(d, t, u) => Planning(d, t, u)'
    BY <2>1 DEF Planning
  <2>3. clean' /\ NoPatch => \A t, u \in Tasks :
           Live(state[t]) /\ Live(state[u]) /\ state[u].priority < state[t].priority
             /\ state[t].needs = {} /\ Planning(c, t, u)
           => \E d \in Calls : Planning(d, t, u)'
    BY <1>1, <1>2, <1>3, <2>2
  <2> QED
    BY <1>1, <1>a1, <1>a3, <2>1, <2>3, ComingOn
<1>4. ASSUME Open(c) # {}, NEW jobs \in Backfill(c),
             call' = [call EXCEPT ![c].at = "load", ![c].phase = "plan", ![c].jobs = jobs]
      PROVE  RowsComing' /\ PlansComing'
  <2>1. /\ \A d \in Calls \ {c} : call'[d] = call[d]
        /\ call'[c].cmd = call[c].cmd /\ call'[c].phase = "plan" /\ call'[c].at = "load"
        /\ call'[c].jobs = jobs
    BY <1>1, <1>4 DEF Types, CallRecs
  <2>2. NoPatch' <=> NoPatch
    BY <2>1, PatchSame
  <2>3. \A t \in Open(c) : \E i \in DOMAIN jobs : jobs[i].of = t
    BY <1>1, <1>4, BackfillJobs
  <2>4. \A t \in Open(c), u \in Tasks : Planning(c, t, u)'
    BY <1>1, <2>1, <2>3 DEF Planning, Working
  <2>5. \A d \in Calls \ {c}, t, u \in Tasks : Planning(d, t, u) => Planning(d, t, u)'
    BY <2>1 DEF Planning
  <2>6. clean' /\ NoPatch => \A t, u \in Tasks :
           Live(state[t]) /\ Live(state[u]) /\ state[u].priority < state[t].priority
             /\ state[t].needs = {} /\ Planning(c, t, u)
           => \E d \in Calls : Planning(d, t, u)'
    BY <1>1, <1>2, <2>4, <2>5
  <2> QED
    BY <1>1, <1>a1, <1>a3, <2>1, <2>2, <2>6, ComingOn
<1> QED
  BY <1>3, <1>4 DEF Plan

\* A creation has its row to come, and waits to be looked at; any other event
\* of a call that plans makes a task wait, and one that does not can only end
\* the life of a task.
LEMMA AppendComing ==
  ASSUME PInv, NEW c \in Calls, AppendEvent(c)
  PROVE  RowsComing' /\ PlansComing'
<1>1. /\ call[c].at = "append" /\ call[c].at \in Working
      /\ version[Job(c).of] = call[c].version /\ Stored(c)
      /\ UNCHANGED <<row, clean>> /\ IInv /\ RowsComing /\ PlansComing
  BY DEF AppendEvent, Working, PInv
<1>2. /\ Types /\ call[c] \in CallRecs /\ CallOK(c) /\ JobOK(c, Job(c)) /\ Job(c) \in JobSet
      /\ Job(c).of \in Streams /\ Job(c).event \in Events
  BY <1>1, WorkFacts
<1>3. PICK o \in Streams : o = Job(c).of
  BY <1>2
<1>4. PICK e \in Events : e = Job(c).event
  BY <1>2
<1>5. NoPatch' <=> NoPatch
  BY <1>1, CommandsStay
<1>6. /\ \A d \in Calls \ {c} : call'[d] = call[d]
      /\ call'[c].cmd = call[c].cmd /\ call'[c].phase = call[c].phase
      /\ call'[c].jobs = call[c].jobs /\ call'[c].at = "row"
  BY <1>2 DEF AppendEvent, Types, CallRecs
<1>7. /\ \A s \in Streams : Grows(state[s], state'[s], NoPatch)
      /\ IsCreation(e) => state[o] = Absent
  BY <1>1, <1>3, <1>4, <1>5, StoredOK
<1>8. /\ state'[o] = Overlay(e, state[o]) /\ state[o] \in States
      /\ \A s \in Streams : s # o => state'[s] = state[s]
  BY <1>1, <1>2, <1>3, <1>4 DEF Stored, Types
<1>9. IsCreation(e) => /\ call[c].cmd.do = "create" /\ call[c].phase = "do"
                       /\ o = call[c].cmd.task
  BY <1>2, <1>3, <1>4, JobKinds
<1>10. ~IsCreation(e) => state'[o].known = state[o].known
  BY <1>8, StateFields DEF Overlay, IsCreation
<1>11. \A d \in Calls, t, u \in Tasks : /\ Creating(d, t) => Creating(d, t)'
                                        /\ Planning(d, t, u) => Planning(d, t, u)'
  <2>1. \A d \in Calls \ {c}, t, u \in Tasks : /\ Creating(d, t) => Creating(d, t)'
                                               /\ Planning(d, t, u) => Planning(d, t, u)'
    BY <1>6 DEF Creating, Planning
  <2>2. \A t, u \in Tasks : ~Creating(c, t) /\ (Planning(c, t, u) => Planning(c, t, u)')
    BY <1>1, <1>6 DEF Creating, Planning, Writing, Working
  <2> QED
    BY <2>1, <2>2
<1>12. RowsComing'
  <2> SUFFICES ASSUME clean', NEW t \in Tasks, state'[t].known, ~row'[t].known
               PROVE  \E d \in Calls : Creating(d, t)'
    BY DEF RowsComing
  <2>0. t \in Streams
    BY DEF Streams
  <2>1. CASE IsCreation(e) /\ t = o
    BY <1>6, <1>9, <2>1 DEF Creating, Writing
  <2>2. CASE ~(IsCreation(e) /\ t = o)
    <3>1. state[t].known
      BY <1>8, <1>10, <2>0, <2>2
    <3>2. PICK d \in Calls : Creating(d, t)
      BY <1>1, <3>1 DEF RowsComing
    <3> QED
      BY <1>11, <3>2
  <2> QED
    BY <2>1, <2>2
<1>13. PlansComing'
  <2> SUFFICES ASSUME clean', NoPatch, NEW t \in Tasks, NEW u \in Tasks,
                      Live(state'[t]), Live(state'[u]), state'[u].priority < state'[t].priority,
                      state'[t].needs = {}
               PROVE  \E d \in Calls : Planning(d, t, u)'
    BY <1>5 DEF PlansComing
  <2>0. t \in Streams /\ u \in Streams
    BY DEF Streams
  <2>1. CASE IsCreation(e) /\ o \in {t, u}
    BY <1>6, <1>9, <2>1 DEF Planning, Writing
  <2>2. CASE ~(IsCreation(e) /\ o \in {t, u})
    <3>1. state[t].known /\ state[u].known
      BY <1>8, <1>10, <2>0, <2>2 DEF Live
    <3>2. /\ Grows(state[t], state'[t], NoPatch) /\ Grows(state[u], state'[u], NoPatch)
      BY <1>7, <2>0
    <3>3. /\ Live(state[t]) /\ Live(state[u]) /\ state[u].priority < state[t].priority
          /\ state[t].needs = {}
      BY <3>1, <3>2 DEF Grows, Live
    <3>4. PICK d \in Calls : Planning(d, t, u)
      BY <1>1, <3>3 DEF PlansComing
    <3> QED
      BY <1>11, <3>4
  <2> QED
    BY <2>1, <2>2
<1> QED
  BY <1>12, <1>13

LEMMA InitComing == ASSUME Init PROVE RowsComing /\ PlansComing
<1>1. PICK sc \in Scenarios :
        state = [s \in Streams |->
          IF s = Project THEN Created(0)
          ELSE IF s \in DOMAIN sc.tasks THEN AtFirst(sc, s) ELSE Absent]
  BY DEF Init
<1>2. row = state
  BY DEF Init
<1>3. ASSUME NEW t \in Tasks, state[t].known
      PROVE  t \in DOMAIN sc.tasks /\ state[t] = AtFirst(sc, t)
  <2>1. t \in Streams /\ t # Project
    BY TasksAssumption DEF Streams, Project
  <2> QED
    BY <1>1, <1>3, <2>1 DEF Absent
<1>4. PlansComing
  <2> SUFFICES ASSUME NEW t \in Tasks, NEW u \in Tasks, state[t].known, state[u].known,
                      state[u].priority < state[t].priority
               PROVE  state[t].needs # {}
    BY DEF PlansComing, Live
  <2>1. /\ t \in DOMAIN sc.tasks /\ state[t] = AtFirst(sc, t)
        /\ u \in DOMAIN sc.tasks /\ state[u] = AtFirst(sc, u)
    BY <1>3
  <2>2. state[t].priority = sc.tasks[t] /\ state[u].priority = sc.tasks[u]
    BY <2>1, FirstState
  <2>3. state[t].needs = {v \in DOMAIN sc.tasks : sc.tasks[v] < sc.tasks[t]}
    BY <2>1, FirstState
  <2> QED
    BY <2>1, <2>2, <2>3
<1> QED
  BY <1>2, <1>4 DEF RowsComing

LEMMA NextComing == ASSUME PInv, [Next]_vars PROVE PInv'
<1>1. IInv /\ RowsComing /\ PlansComing
  BY DEF PInv
<1>2. IInv'
  BY <1>1, NextInv
<1>3. RowsComing' /\ PlansComing'
  <2>1. ASSUME NEW c \in Calls, Duplicate(c) \/ Abort(c) \/ AppendFails(c)
        PROVE  RowsComing' /\ PlansComing'
    BY <2>1, ComingUnclean DEF Duplicate, Abort, AppendFails, Fault
  <2>2. ASSUME NEW c \in Calls, Begin(c) \/ Step(c)
        PROVE  RowsComing' /\ PlansComing'
    BY <2>1, <2>2, BeginComing, CheckComing, LoadComing, AppendComing, ConflictComing, NoRowComing,
       RowComing, TakeTagsComing, CommitComing, PlanComing DEF Step
  <2>3. ASSUME NEW s \in Streams, Replay(s) PROVE RowsComing' /\ PlansComing'
    BY <2>3, ReplayComing
  <2>4. CASE Crash
    BY <2>4, ComingUnclean DEF Crash, Fault
  <2>5. CASE UNCHANGED vars
    BY <1>1, <2>5 DEF vars, RowsComing, PlansComing, Creating, Planning, NoPatch
  <2> QED
    BY <2>1, <2>2, <2>3, <2>4, <2>5 DEF Next
<1> QED
  BY <1>2, <1>3 DEF PInv

\* No task waits for one of no higher priority; and when all calls are over,
\* each live task waits if another has a higher priority, unless a backfill
\* or a write-through was cut short, or priorities were changed.
THEOREM PlanSound == Spec => []PlanIsSound
<1>1. Init => PInv
  BY InitInv, InitComing DEF PInv
<1>2. PInv /\ [Next]_vars => PInv'
  BY NextComing
<1>3. PInv => PlanIsSound
  <2> SUFFICES ASSUME PInv, NoPatch
               PROVE  /\ \A t \in Tasks : \A u \in state[t].needs : state[u].priority < state[t].priority
                      /\ clean /\ (\A c \in Calls : call[c].at \in {"idle", "end"}) =>
                           \A t, u \in Tasks :
                             Live(state[t]) /\ Live(state[u]) /\ state[u].priority < state[t].priority
                               => state[t].needs # {}
    BY DEF PlanIsSound, NoPatch
  <2>1. \A t \in Tasks : \A u \in state[t].needs : state[u].priority < state[t].priority
    BY DEF PInv, IInv, NeedsOK, NeedsHigher
  <2>2. ASSUME clean, \A c \in Calls : call[c].at \in {"idle", "end"},
               NEW t \in Tasks, NEW u \in Tasks,
               Live(state[t]), Live(state[u]), state[u].priority < state[t].priority
        PROVE  state[t].needs # {}
    <3>1. \A c \in Calls : ~Planning(c, t, u)
      BY <2>2 DEF Planning, Writing, Working
    <3> QED
      BY <2>2, <3>1 DEF PInv, PlansComing
  <2> QED
    BY <2>1, <2>2
<1> QED
  BY <1>1, <1>2, <1>3, PTL DEF Spec

-----------------------------------------------------------------------------
(* One row of the SQL read model (ReadModel), for any log, buffer and retry *)
(* limit: the types, and a row that is the replay of the log when nothing   *)
(* is under way.                                                            *)
(*                                                                          *)
(* Until a projection has failed or two calls have overlapped, what the     *)
(* server has the acks of, what the worker has acknowledged and what it     *)
(* still has to take follow each other in the log.  A redelivery may take   *)
(* a field back to an older event, but never behind the last one that the   *)
(* worker has acknowledged, and a write-through writes the newest.          *)

\* Every field of the row was written by an event that touches it, and by none
\* older than the last of the first n that does.
RowUpTo(n) ==
  /\ n >= 1 => columns \in [Fields -> Appended]
  /\ columns \in [Fields -> Appended] =>
       \A f \in Fields : f \in log[columns[f]] /\ \A m \in 1 .. n : f \in log[m] => m <= columns[f]

\* The worker has acknowledged the first n events, and the server has the acks
\* of the first a of them.
InOrder(a, n) ==
  /\ a <= n /\ n + Len(buffer) <= Len(log)
  /\ acked = 1 .. a /\ unflushed = (a + 1) .. n
  /\ \A i \in 1 .. Len(buffer) : buffer[i] = n + i

CleanRow == \E a, n \in 0 .. Len(log) : InOrder(a, n) /\ RowUpTo(n)

RowInv ==
  /\ RowTypeOK
  /\ log # <<>> => log[1] = Fields
  /\ ~overlapped => pending \subseteq {Len(log)}
  /\ ~hasFailed /\ ~overlapped => CleanRow

LEMMA WiderSeq ==
  ASSUME NEW S, NEW T, S \subseteq T, NEW s \in Seq(S)
  PROVE  s \in Seq(T)
<1>1. s \in [1 .. Len(s) -> T] /\ Len(s) \in Nat
  OBVIOUS
<1>. QED
  BY <1>1

\* What the worker takes from its buffer is a stored event.
LEMMA Taken ==
  ASSUME RowTypeOK, buffer # <<>>
  PROVE  /\ Head(buffer) \in Appended /\ Head(buffer) \in Versions /\ Head(buffer) = buffer[1]
         /\ Tail(buffer) \in Seq(Appended) /\ Len(Tail(buffer)) = Len(buffer) - 1
         /\ Len(buffer) \in Nat \ {0}
         /\ \A i \in 1 .. Len(Tail(buffer)) : Tail(buffer)[i] = buffer[i + 1]
<1>1. buffer \in Seq(Appended) /\ Len(log) \in Nat /\ Len(log) <= MaxLog
  BY DEF RowTypeOK
<1>2. Appended \subseteq Versions
  BY <1>1, BoundsAssumption DEF Appended, Versions
<1>. QED
  BY <1>1, <1>2

\* The row after an event: nothing of nothing, and else a field's last writer.
LEMMA Applied ==
  ASSUME RowTypeOK, NEW n \in Appended
  PROVE  /\ Apply(n, columns) \in {EmptyRow} \union [Fields -> Appended]
         /\ n = 1 => Apply(n, columns) = [f \in Fields |-> 1]
         /\ n # 1 /\ columns = EmptyRow => Apply(n, columns) = EmptyRow
         /\ n # 1 /\ columns \in [Fields -> Appended] =>
              /\ Apply(n, columns) \in [Fields -> Appended]
              /\ \A f \in Fields : Apply(n, columns)[f] = IF f \in log[n] THEN n ELSE columns[f]
<1>1. CASE n = 1
  BY <1>1 DEF Apply
<1>2. ASSUME n # 1, columns = EmptyRow PROVE Apply(n, columns) = EmptyRow
  <2>1. DOMAIN columns = {}
    BY <1>2 DEF EmptyRow
  <2>. QED
    BY <1>2, <2>1 DEF Apply, EmptyRow
<1>3. ASSUME n # 1, columns \in [Fields -> Appended]
      PROVE  /\ Apply(n, columns) \in [Fields -> Appended]
             /\ \A f \in Fields : Apply(n, columns)[f] = IF f \in log[n] THEN n ELSE columns[f]
  BY <1>3 DEF Apply
<1>. QED
  BY <1>1, <1>2, <1>3 DEF RowTypeOK

\* A failure of the first event in the buffer.
LEMMA FailCounts ==
  ASSUME RowTypeOK, Fail
  PROVE  /\ failed' \in [Versions -> 0 .. MaxRetries - 1]
         /\ unflushed' \in {unflushed, unflushed \union {Head(buffer)}}
         /\ dropped' \in {dropped, dropped \union {Head(buffer)}}
<1>. DEFINE n == Head(buffer)
<1>1. n \in Versions /\ failed \in [Versions -> 0 .. MaxRetries - 1]
  BY Taken DEF Fail, RowTypeOK
<1>2. CASE failed[n] + 1 >= MaxRetries
  <2>1. /\ failed' = [failed EXCEPT ![n] = 0] /\ unflushed' = unflushed \union {n}
        /\ dropped' = dropped \union {n}
    BY <1>2 DEF Fail
  <2>2. 0 \in 0 .. MaxRetries - 1
    BY MaxRetriesAssumption
  <2>. QED
    BY <1>1, <2>1, <2>2
<1>3. CASE ~(failed[n] + 1 >= MaxRetries)
  <2>1. /\ failed' = [failed EXCEPT ![n] = failed[n] + 1] /\ unflushed' = unflushed
        /\ dropped' = dropped
    BY <1>1, <1>3 DEF Fail
  <2>2. failed[n] + 1 \in 0 .. MaxRetries - 1
    BY <1>1, <1>3, MaxRetriesAssumption
  <2>. QED
    BY <1>1, <2>1, <2>2
<1>. QED
  BY <1>2, <1>3

\* Only AppendEvent writes the log, and at its end.
LEMMA LogChange ==
  ASSUME [RowNext]_rowVars
  PROVE  log' = log \/ AppendToLog
BY DEF RowNext, rowVars, WriteThrough, WriteLost, Deliver, Process, Fail,
       Flush, Restart

LEMMA Grown ==
  ASSUME RowTypeOK, AppendToLog
  PROVE  /\ log' \in Seq((SUBSET Fields) \ {{}}) /\ Len(log') = Len(log) + 1 /\ Len(log') <= MaxLog
         /\ \A n \in Appended : log'[n] = log[n] /\ n \in Appended'
         /\ log = <<>> => log'[1] = Fields
         /\ columns' = columns /\ buffer' = buffer /\ unflushed' = unflushed
         /\ acked' = acked /\ hasFailed' = hasFailed
<1>1. PICK touched \in (SUBSET Fields) \ {{}} :
        log' = Append(log, IF log = <<>> THEN Fields ELSE touched)
  BY DEF AppendToLog
<1>. DEFINE new == IF log = <<>> THEN Fields ELSE touched
<1>2. new \in (SUBSET Fields) \ {{}}
  <2>1. \E f : f \in touched /\ f \in Fields
    BY <1>1
  <2>2. Fields # {}
    BY <2>1
  <2>. QED
    BY <1>1, <2>2
<1>3. log = <<>> => new = Fields
  OBVIOUS
<1>4. log \in Seq((SUBSET Fields) \ {{}}) /\ Len(log) \in Nat /\ log' = Append(log, new)
  BY <1>1 DEF RowTypeOK
<1>. HIDE DEF new
<1>5. /\ log' \in Seq((SUBSET Fields) \ {{}}) /\ Len(log') = Len(log) + 1
      /\ log'[Len(log) + 1] = new
      /\ \A n \in 1 .. Len(log) : log'[n] = log[n]
  BY <1>2, <1>4
<1>6. Len(log') <= MaxLog
  BY <1>4, <1>5, BoundsAssumption DEF AppendToLog
<1>7. \A n \in Appended : log'[n] = log[n] /\ n \in Appended'
  BY <1>4, <1>5 DEF Appended
<1>8. log = <<>> => log'[1] = Fields
  BY <1>3, <1>5
<1>. QED
  BY <1>5, <1>6, <1>7, <1>8 DEF AppendToLog

LEMMA TypeStep ==
  ASSUME RowTypeOK, [RowNext]_rowVars
  PROVE  RowTypeOK'
<1>0. Len(log) \in Nat /\ Len(log) <= MaxLog /\ Appended \subseteq Versions
  BY BoundsAssumption DEF RowTypeOK, Appended, Versions
<1>1. CASE AppendToLog
  <2>1. Appended \subseteq Appended' /\ Len(log) + 1 \in Appended'
    BY <1>0, <1>1, Grown DEF Appended
  <2>2. log' \in Seq((SUBSET Fields) \ {{}}) /\ Len(log') <= MaxLog
    BY <1>1, Grown
  <2>3. columns' \in {EmptyRow} \union [Fields -> Appended']
    BY <1>1, <2>1, Grown DEF RowTypeOK
  <2>4. buffer' \in Seq(Appended') /\ Len(buffer') <= Buffer
    BY <1>1, <2>1, Grown, WiderSeq DEF RowTypeOK
  <2>5. /\ pending' \subseteq Appended' /\ unflushed' \subseteq Appended'
        /\ acked' \subseteq Appended' /\ dropped' \subseteq Appended'
    BY <1>1, <2>1 DEF RowTypeOK, AppendToLog
  <2>6. failed' = failed /\ hasFailed' = hasFailed /\ restarts' = restarts
    BY <1>1 DEF AppendToLog
  <2>7. overlapped' \in BOOLEAN
    BY <1>1 DEF AppendToLog
  <2>. QED
    BY <2>2, <2>3, <2>4, <2>5, <2>6, <2>7 DEF RowTypeOK
<1>2. CASE ~AppendToLog
  <2>1. log' = log /\ Appended' = Appended
    BY <1>2, LogChange DEF Appended
  <2>2. ASSUME NEW n \in Versions, WriteThrough(n) PROVE RowTypeOK'
    <3>1. n \in Appended /\ columns' = Apply(n, columns)
      BY <2>2 DEF WriteThrough, RowTypeOK
    <3>. QED
      BY <2>1, <2>2, <3>1, Applied DEF RowTypeOK, WriteThrough
  <2>3. ASSUME NEW n \in Versions, WriteLost(n) PROVE RowTypeOK'
    BY <2>1, <2>3 DEF RowTypeOK, WriteLost
  <2>4. CASE Deliver
    <3>1. PICK n \in Undelivered : buffer' = Append(buffer, n)
      BY <2>4 DEF Deliver
    <3>2. n \in Appended /\ Len(buffer) < Buffer
      BY <2>4, <3>1 DEF Undelivered, Deliver
    <3>3. buffer' \in Seq(Appended) /\ Len(buffer') <= Buffer
      BY <3>1, <3>2, BufferAssumption DEF RowTypeOK
    <3>. QED
      BY <2>1, <2>4, <3>3 DEF RowTypeOK, Deliver
  <2>5. CASE Process
    <3>1. /\ Head(buffer) \in Appended /\ Head(buffer) \in Versions
          /\ Tail(buffer) \in Seq(Appended)
          /\ Len(Tail(buffer)) <= Buffer
      BY <2>5, Taken, BufferAssumption DEF Process, RowTypeOK
    <3>2. failed' \in [Versions -> 0 .. MaxRetries - 1]
      BY <2>5, <3>1, MaxRetriesAssumption DEF Process, RowTypeOK
    <3>. QED
      BY <2>1, <2>5, <3>1, <3>2, Applied DEF RowTypeOK, Process
  <2>6. CASE Fail
    <3>1. /\ Head(buffer) \in Appended /\ Tail(buffer) \in Seq(Appended)
          /\ Len(Tail(buffer)) <= Buffer
      BY <2>6, Taken, BufferAssumption DEF Fail, RowTypeOK
    <3>2. hasFailed' \in BOOLEAN
      BY <2>6 DEF Fail
    <3>3. /\ log' = log /\ pending' = pending /\ columns' = columns /\ acked' = acked
          /\ overlapped' = overlapped
          /\ restarts' = restarts /\ buffer' = Tail(buffer)
      BY <2>6 DEF Fail
    <3>. QED
      BY <2>1, <2>6, <3>1, <3>2, <3>3, FailCounts DEF RowTypeOK
  <2>7. CASE Flush
    BY <2>1, <2>7 DEF RowTypeOK, Flush
  <2>8. CASE Restart
    <3>1. restarts' \in 0 .. MaxRestarts
      BY <2>8, BoundsAssumption DEF Restart, RowTypeOK
    <3>2. failed' \in [Versions -> 0 .. MaxRetries - 1]
      BY <2>8, MaxRetriesAssumption DEF Restart, RowTypeOK
    <3>3. buffer' \in Seq(Appended) /\ Len(buffer') <= Buffer
      BY <2>8, BufferAssumption DEF Restart
    <3>. QED
      BY <2>1, <2>8, <3>1, <3>2, <3>3 DEF RowTypeOK, Restart
  <2>9. CASE UNCHANGED rowVars
    BY <2>1, <2>9 DEF RowTypeOK, rowVars
  <2>. QED
    BY <1>2, <2>2, <2>3, <2>4, <2>5, <2>6, <2>7, <2>8, <2>9 DEF RowNext
<1>. QED
  BY <1>1, <1>2

LEMMA AppendedNats ==
  ASSUME RowTypeOK
  PROVE  Len(log) \in Nat /\ \A n : n \in Appended <=> n \in Nat /\ 1 <= n /\ n <= Len(log)
BY DEF RowTypeOK, Appended

\* An event that is applied in its turn, or is the newest of all, leaves a row
\* that is up to date with the first n events.
LEMMA ApplyNext ==
  ASSUME RowTypeOK, log # <<>> => log[1] = Fields, log' = log,
         NEW k \in 0 .. Len(log), RowUpTo(k), NEW n \in Appended, NEW j \in {k, n},
         columns' = Apply(n, columns),
         n = k + 1 \/ (n = Len(log) /\ j = k)
  PROVE  RowUpTo(j)'
<1>0. /\ Len(log) \in Nat /\ n \in Nat /\ n >= 1 /\ n <= Len(log) /\ k \in Nat /\ k <= Len(log)
      /\ Appended' = Appended
  BY AppendedNats DEF Appended
<1>1. CASE n = 1
  <2>1. columns' = [f \in Fields |-> 1] /\ columns' \in [Fields -> Appended]
    BY <1>1, Applied
  <2>2. log[1] = Fields
    <3>1. Len(<<>>) = 0
      OBVIOUS
    <3>. QED
      BY <1>0, <3>1
  <2>3. j \in Nat /\ j <= 1
    <3>1. CASE n = k + 1
      BY <1>0, <1>1, <3>1
    <3>2. CASE n = Len(log) /\ j = k
      BY <1>0, <1>1, <3>2
    <3>. QED
      BY <3>1, <3>2
  <2>. QED
    BY <1>0, <2>1, <2>2, <2>3 DEF RowUpTo
<1>2. CASE n # 1 /\ columns = EmptyRow
  <2>1. columns' = EmptyRow
    BY <1>2, Applied
  <2>2. ASSUME columns \in [Fields -> Appended] PROVE Fields = {}
    <3>1. DOMAIN columns = {} /\ DOMAIN columns = Fields
      BY <1>2, <2>2 DEF EmptyRow
    <3>. QED
      BY <3>1
  <2>3. columns' = columns
    BY <1>2, <2>1
  <2>4. j >= 1 => columns \in [Fields -> Appended]
    <3>1. CASE k >= 1
      BY <3>1 DEF RowUpTo
    <3>2. CASE k = 0
      BY <1>0, <1>2, <3>2
    <3>. QED
      BY <1>0, <3>1, <3>2
  <2>. QED
    BY <1>0, <2>2, <2>3, <2>4 DEF RowUpTo
<1>3. CASE n # 1 /\ columns \in [Fields -> Appended]
  <2>1. /\ columns' \in [Fields -> Appended]
        /\ \A f \in Fields : columns'[f] = IF f \in log[n] THEN n ELSE columns[f]
    BY <1>3, Applied
  <2>2. ASSUME NEW f \in Fields
        PROVE  f \in log[columns'[f]] /\ \A m \in 1 .. j : f \in log[m] => m <= columns'[f]
    <3>1. f \in log[columns[f]] /\ \A m \in 1 .. k : f \in log[m] => m <= columns[f]
      BY <1>3 DEF RowUpTo
    <3>2. CASE f \in log[n]
      BY <1>0, <2>1, <3>2
    <3>3. CASE f \notin log[n]
      BY <1>0, <2>1, <3>1, <3>3
    <3>. QED
      BY <3>2, <3>3
  <2>. QED
    BY <1>0, <2>1, <2>2 DEF RowUpTo
<1>. QED
  BY <1>1, <1>2, <1>3 DEF RowTypeOK

\* A row that is up to date with n events is so with fewer, and when the log grows.
LEMMA RowKept ==
  ASSUME RowTypeOK, NEW k \in 0 .. Len(log), RowUpTo(k), NEW j \in 0 .. k,
         columns' = columns,
         log' = log \/ AppendToLog
  PROVE  RowUpTo(j)'
<1>0. Len(log) \in Nat /\ k \in Nat /\ j \in Nat /\ j <= k /\ k <= Len(log)
  BY AppendedNats
<1>1. \A n \in Appended : log'[n] = log[n] /\ n \in Appended'
  BY Grown DEF Appended
<1>2. \A m \in 1 .. k : m \in Appended
  BY <1>0, AppendedNats
<1>3. columns \in [Fields -> Appended] \/ (k = 0 /\ columns = EmptyRow)
  <2>1. columns \in {EmptyRow} \union [Fields -> Appended]
    BY DEF RowTypeOK
  <2>2. k >= 1 => columns \in [Fields -> Appended]
    BY DEF RowUpTo
  <2>. QED
    BY <1>0, <2>1, <2>2
<1>4. CASE columns \in [Fields -> Appended]
  <2>1. columns' \in [Fields -> Appended']
    BY <1>1, <1>4
  <2>2. ASSUME NEW f \in Fields
        PROVE  f \in log'[columns'[f]] /\ \A m \in 1 .. j : f \in log'[m] => m <= columns'[f]
    <3>1. /\ f \in log[columns[f]] /\ columns[f] \in Appended
          /\ \A m \in 1 .. k : f \in log[m] => m <= columns[f]
      BY <1>4 DEF RowUpTo
    <3>2. \A m \in 1 .. j : m \in 1 .. k
      BY <1>0
    <3>. QED
      BY <1>1, <1>2, <3>1, <3>2
  <2>. QED
    BY <2>1, <2>2 DEF RowUpTo
<1>5. CASE columns \notin [Fields -> Appended]
  <2>1. k = 0 /\ j = 0 /\ columns = EmptyRow
    BY <1>0, <1>3, <1>5
  <2>2. ASSUME columns' \in [Fields -> Appended'] PROVE Fields = {}
    <3>1. DOMAIN columns' = {} /\ DOMAIN columns' = Fields
      BY <2>1, <2>2 DEF EmptyRow
    <3>. QED
      BY <3>1
  <2>. QED
    BY <2>1, <2>2 DEF RowUpTo
<1>. QED
  BY <1>4, <1>5

LEMMA CleanStep ==
  ASSUME RowTypeOK, log # <<>> => log[1] = Fields, pending \subseteq {Len(log)},
         CleanRow, [RowNext]_rowVars, ~Fail
  PROVE  CleanRow'
<1>0. PICK a \in 0 .. Len(log), k \in 0 .. Len(log) : InOrder(a, k) /\ RowUpTo(k)
  BY DEF CleanRow
<1>1. Len(log) \in Nat /\ a \in Nat /\ k \in Nat /\ a <= k /\ k <= Len(log) /\ Len(buffer) \in Nat
      /\ k + Len(buffer) <= Len(log)
  BY <1>0, AppendedNats DEF InOrder, RowTypeOK
<1>2. CASE AppendToLog
  <2>1. RowUpTo(k)'
    BY <1>0, <1>1, <1>2, RowKept, Grown
  <2>2. InOrder(a, k)'
    BY <1>0, <1>1, <1>2, Grown DEF InOrder
  <2>3. a \in 0 .. Len(log') /\ k \in 0 .. Len(log')
    BY <1>1, <1>2, Grown
  <2>. QED
    BY <2>1, <2>2, <2>3 DEF CleanRow
<1>3. ASSUME log' = log, buffer' = buffer, unflushed' = unflushed, acked' = acked, RowUpTo(k)'
      PROVE CleanRow'
  <2>1. InOrder(a, k)'
    BY <1>0, <1>3 DEF InOrder
  <2>. QED
    BY <1>0, <1>3, <2>1 DEF CleanRow
<1>4. ASSUME log' = log, buffer' = buffer, unflushed' = unflushed, acked' = acked, columns' = columns
      PROVE CleanRow'
  BY <1>0, <1>1, <1>3, <1>4, RowKept
<1>5. ASSUME NEW n \in Versions, WriteThrough(n) PROVE CleanRow'
  <2>1. n \in Appended /\ n = Len(log) /\ columns' = Apply(n, columns) /\ log' = log
    BY <1>5 DEF WriteThrough, RowTypeOK
  <2>2. RowUpTo(k)'
    BY <1>0, <2>1, ApplyNext
  <2>. QED
    BY <1>3, <1>5, <2>2 DEF WriteThrough
<1>6. ASSUME NEW n \in Versions, WriteLost(n) PROVE CleanRow'
  BY <1>4, <1>6 DEF WriteLost
<1>7. CASE Deliver
  <2>1. PICK n \in Undelivered : (\A m \in Undelivered : n <= m) /\ buffer' = Append(buffer, n)
    BY <1>7 DEF Deliver
  <2>2. /\ log' = log /\ columns' = columns /\ unflushed' = unflushed /\ acked' = acked
        /\ buffer \in Seq(Appended)
    BY <1>7 DEF Deliver, RowTypeOK
  <2>3. \A m : m \in InBuffer <=> m \in (k + 1) .. (k + Len(buffer))
    <3>1. \A i \in 1 .. Len(buffer) : buffer[i] = k + i
      BY <1>0 DEF InOrder
    <3>2. \A m \in (k + 1) .. (k + Len(buffer)) : m - k \in 1 .. Len(buffer) /\ buffer[m - k] = m
      BY <1>1, <3>1
    <3>. QED
      BY <1>1, <3>1, <3>2, SMTT(60) DEF InBuffer
  <2>4. \A m : m \in Undelivered <=> m \in (k + Len(buffer) + 1) .. Len(log)
    BY <1>0, <1>1, <2>3, AppendedNats DEF Undelivered, InOrder
  <2>5. n = k + Len(buffer) + 1 /\ n <= Len(log)
    <3>1. n \in (k + Len(buffer) + 1) .. Len(log)
      BY <2>1, <2>4
    <3>2. k + Len(buffer) + 1 \in Undelivered
      BY <1>1, <2>4, <3>1
    <3>3. n <= k + Len(buffer) + 1
      BY <2>1, <3>2
    <3>. QED
      BY <1>1, <3>1, <3>3
  <2>6. n \in Appended
    BY <2>1 DEF Undelivered
  <2>7. Len(buffer') = Len(buffer) + 1 /\ \A i \in 1 .. Len(buffer') : buffer'[i] = k + i
    <3>1. /\ Len(buffer') = Len(buffer) + 1 /\ buffer'[Len(buffer) + 1] = n
          /\ \A i \in 1 .. Len(buffer) : buffer'[i] = buffer[i]
      BY <2>1, <2>2, <2>6
    <3>2. \A i \in 1 .. Len(buffer) : buffer[i] = k + i
      BY <1>0 DEF InOrder
    <3>. QED
      BY SMTT(60), <1>1, <2>5, <3>1, <3>2
  <2>8. RowUpTo(k)'
    BY <1>0, <1>1, <2>2, RowKept
  <2>9. InOrder(a, k)'
    BY <1>0, <1>1, <2>2, <2>5, <2>7 DEF InOrder
  <2>. QED
    BY <1>0, <2>2, <2>8, <2>9 DEF CleanRow
<1>8. CASE Process
  <2>1. /\ buffer # <<>> /\ columns' = Apply(Head(buffer), columns)
        /\ buffer' = Tail(buffer) /\ log' = log /\ acked' = acked
        /\ unflushed' = unflushed \union {Head(buffer)}
    BY <1>8 DEF Process
  <2>2. /\ Head(buffer) \in Appended /\ Head(buffer) = buffer[1] /\ Len(buffer) \in Nat \ {0}
        /\ Len(buffer') = Len(buffer) - 1 /\ \A i \in 1 .. Len(buffer') : buffer'[i] = buffer[i + 1]
    BY <2>1, Taken
  <2>3. \A i \in 1 .. Len(buffer) : buffer[i] = k + i
    BY <1>0 DEF InOrder
  <2>4. Head(buffer) = k + 1 /\ k + 1 \in 0 .. Len(log)
    BY <1>1, <2>2, <2>3
  <2>5. RowUpTo(k + 1)'
    <3>1. PICK n \in Appended : n = k + 1
      BY <2>2, <2>4
    <3>2. columns' = Apply(n, columns)
      BY <2>1, <2>4, <3>1
    <3>3. RowUpTo(n)'
      BY <1>0, <2>1, <3>1, <3>2, ApplyNext
    <3>. QED
      BY <3>1, <3>3
  <2>6. \A i \in 1 .. Len(buffer') : buffer'[i] = k + 1 + i
    BY <1>1, <2>2, <2>3
  <2>7. unflushed' = (a + 1) .. (k + 1)
    <3>1. unflushed' = (a + 1) .. k \union {k + 1}
      BY <1>0, <2>1, <2>4 DEF InOrder
    <3>. QED
      BY <1>1, <3>1
  <2>8. InOrder(a, k + 1)'
    BY <1>0, <1>1, <2>1, <2>2, <2>6, <2>7 DEF InOrder
  <2>. QED
    BY <1>0, <2>1, <2>4, <2>5, <2>8 DEF CleanRow
<1>9. CASE Flush
  <2>1. /\ log' = log /\ columns' = columns /\ buffer' = buffer
        /\ acked' = acked \union unflushed /\ unflushed' = {}
    BY <1>9 DEF Flush
  <2>2. acked' = 1 .. k /\ unflushed' = (k + 1) .. k
    BY <1>0, <1>1, <2>1 DEF InOrder
  <2>3. InOrder(k, k)'
    BY <1>0, <1>1, <2>1, <2>2 DEF InOrder
  <2>4. RowUpTo(k)'
    BY <1>0, <1>1, <2>1, RowKept
  <2>. QED
    BY <1>0, <2>1, <2>3, <2>4 DEF CleanRow
<1>10. CASE Restart
  <2>1. log' = log /\ columns' = columns /\ buffer' = <<>> /\ acked' = acked /\ unflushed' = {}
    BY <1>10 DEF Restart
  <2>2. InOrder(a, a)'
    BY <1>0, <1>1, <2>1 DEF InOrder
  <2>3. RowUpTo(a)'
    BY <1>0, <1>1, <2>1, RowKept
  <2>. QED
    BY <1>0, <2>1, <2>2, <2>3 DEF CleanRow
<1>11. CASE UNCHANGED rowVars
  BY <1>4, <1>11 DEF rowVars
<1>. QED
  BY <1>2, <1>5, <1>6, <1>7, <1>8, <1>9, <1>10, <1>11 DEF RowNext

\* Overlaps and failures are not forgotten, and without an overlap only the
\* newest event waits for its commit.
LEMMA HistoryStep ==
  ASSUME RowTypeOK, [RowNext]_rowVars,
         ~overlapped => pending \subseteq {Len(log)}
  PROVE  /\ overlapped => overlapped'
         /\ ~hasFailed' => ~hasFailed /\ ~Fail
         /\ ~overlapped' => pending' \subseteq {Len(log')}
<1>1. CASE AppendToLog
  <2>1. overlapped' = (overlapped \/ pending # {}) /\ pending' = pending \union {Len(log) + 1}
    BY <1>1 DEF AppendToLog
  <2>2. Len(log') = Len(log) + 1 /\ hasFailed' = hasFailed /\ log' # log
    <3>1. Len(log') = Len(log) + 1 /\ hasFailed' = hasFailed /\ Len(log) \in Nat
      BY <1>1, Grown, AppendedNats
    <3>. QED
      BY <3>1
  <2>3. ~Fail
    BY <2>2 DEF Fail
  <2>. QED
    BY <2>1, <2>2, <2>3
<1>2. CASE Fail
  <2>1. /\ hasFailed' = TRUE /\ pending' = pending /\ log' = log
        /\ overlapped' = overlapped
    BY <1>2 DEF Fail, RowTypeOK
  <2>. QED
    BY <2>1
<1>3. CASE ~AppendToLog /\ ~Fail
  <2>1. hasFailed' = hasFailed /\ overlapped' = overlapped /\ pending' \subseteq pending /\ log' = log
    BY <1>3 DEF RowNext, rowVars, WriteThrough, WriteLost, Deliver, Process,
       Flush, Restart
  <2>. QED
    BY <1>3, <2>1
<1>. QED
  BY <1>1, <1>2, <1>3

LEMMA RowInvInit ==
  ASSUME RowInit
  PROVE  RowInv
<1>1. Len(log) = 0 /\ Len(buffer) = 0
  BY DEF RowInit
<1>2. RowTypeOK
  <2>1. /\ log \in Seq((SUBSET Fields) \ {{}}) /\ Len(log) <= MaxLog
        /\ buffer \in Seq(Appended) /\ Len(buffer) <= Buffer
    BY <1>1, BoundsAssumption, BufferAssumption DEF RowInit
  <2>2. failed \in [Versions -> 0 .. MaxRetries - 1]
    BY MaxRetriesAssumption DEF RowInit
  <2>3. hasFailed \in BOOLEAN /\ restarts \in 0 .. MaxRestarts
    <3>1. hasFailed \in BOOLEAN
      BY DEF RowInit
    <3>2. restarts \in 0 .. MaxRestarts
      BY BoundsAssumption DEF RowInit
    <3>. QED
      BY <3>1, <3>2
  <2>4. /\ columns \in {EmptyRow} \union [Fields -> Appended]
        /\ pending \subseteq Appended /\ unflushed \subseteq Appended
        /\ acked \subseteq Appended
        /\ dropped \subseteq Appended
    BY DEF RowInit
  <2>5. overlapped \in BOOLEAN
    BY DEF RowInit
  <2>. QED
    BY <2>1, <2>2, <2>3, <2>4, <2>5 DEF RowTypeOK
<1>3. CleanRow
  <2>1. InOrder(0, 0)
    BY <1>1 DEF RowInit, InOrder
  <2>2. RowUpTo(0)
    <3>1. ASSUME columns \in [Fields -> Appended] PROVE Fields = {}
      <4>1. DOMAIN columns = {} /\ DOMAIN columns = Fields
        BY <3>1 DEF RowInit, EmptyRow
      <4>. QED
        BY <4>1
    <3>. QED
      BY <3>1 DEF RowUpTo
  <2>. QED
    BY <1>1, <2>1, <2>2 DEF CleanRow
<1>. QED
  BY <1>2, <1>3 DEF RowInit, RowInv

LEMMA RowInvariance ==
  RowSpec => []RowInv
<1>0. RowInit => RowInv
  BY RowInvInit
<1>1. RowInv /\ [RowNext]_rowVars => RowInv'
  <2>. SUFFICES ASSUME RowInv, [RowNext]_rowVars PROVE RowInv'
    OBVIOUS
  <2>0. RowTypeOK
    BY DEF RowInv
  <2>1. RowTypeOK'
    BY <2>0, TypeStep
  <2>2. log' # <<>> => log'[1] = Fields
    <3>1. CASE log' = log
      BY <3>1 DEF RowInv
    <3>2. CASE AppendToLog
      <4>1. log # <<>> => 1 \in Appended
        BY <2>0 DEF RowTypeOK, Appended
      <4>. QED
        BY <2>0, <3>2, <4>1, Grown DEF RowInv
    <3>. QED
      BY <3>1, <3>2, LogChange
  <2>3. /\ overlapped => overlapped'
        /\ ~hasFailed' => ~hasFailed /\ ~Fail
        /\ ~overlapped' => pending' \subseteq {Len(log')}
    BY <2>0, HistoryStep DEF RowInv
  <2>4. ~hasFailed' /\ ~overlapped' => CleanRow'
    BY <2>0, <2>3, CleanStep DEF RowInv
  <2>. QED
    BY <2>1, <2>2, <2>3, <2>4 DEF RowInv
<1>. QED
  BY <1>0, <1>1, PTL DEF RowSpec

\* Type correctness: failures stay below the retry limit, and only stored
\* events are projected, delivered or acknowledged.
THEOREM RowTypeCorrect ==
  RowSpec => []RowTypeOK
<1>1. RowInv => RowTypeOK
  BY DEF RowInv
<1>. QED
  BY <1>1, RowInvariance, PTL

\* For any log, buffer and number of restarts: without a failure in the worker
\* and without overlapping calls the row is the replay of the log when nothing
\* is under way, although redelivered events are applied again without a look
\* at versions (project_event).
THEOREM RowIsReplay ==
  RowSpec => []CleanRowIsReplay
<1>1. RowInv => CleanRowIsReplay
  <2>. SUFFICES ASSUME RowInv, ~hasFailed, ~overlapped, Settled PROVE columns = Replayed
    BY DEF CleanRowIsReplay, SettledRowIsReplay
  <2>0. RowTypeOK /\ Len(log) \in Nat
    BY AppendedNats DEF RowInv
  <2>1. PICK a \in 0 .. Len(log), k \in 0 .. Len(log) : InOrder(a, k) /\ RowUpTo(k)
    BY DEF RowInv, CleanRow
  <2>2. k = Len(log)
    <3>1. a <= k /\ 1 .. a = 1 .. Len(log)
      BY <2>1 DEF Settled, InOrder, Appended
    <3>2. ~(a < Len(log))
      <4>1. a < Len(log) => Len(log) \in 1 .. Len(log) /\ Len(log) \notin 1 .. a
        BY <2>0
      <4>. QED
        BY <3>1, <4>1
    <3>. QED
      BY <2>0, <3>1, <3>2
  <2>3. CASE log = <<>>
    <3>1. Appended = {}
      BY <2>3 DEF Appended
    <3>2. columns = EmptyRow
      <4>1. CASE columns \in [Fields -> Appended]
        <5>1. Fields = {}
          BY <3>1, <4>1
        <5>. QED
          BY <4>1, <5>1 DEF EmptyRow
      <4>. QED
        BY <2>0, <4>1 DEF RowTypeOK
    <3>. QED
      BY <2>3, <3>2 DEF Replayed
  <2>4. CASE log # <<>>
    <3>1. Len(log) >= 1
      BY <2>0, <2>4 DEF RowTypeOK
    <3>2. /\ columns \in [Fields -> Appended]
          /\ \A f \in Fields :
               f \in log[columns[f]] /\ \A m \in Appended : f \in log[m] => m <= columns[f]
      BY <2>1, <2>2, <3>1 DEF RowUpTo, Appended
    <3>3. ASSUME NEW f \in Fields
          PROVE  columns[f] = CHOOSE n \in Appended :
                                f \in log[n] /\ \A m \in Appended : f \in log[m] => m <= n
      <4>. DEFINE Newest(n) == f \in log[n] /\ \A m \in Appended : f \in log[m] => m <= n
      <4>1. columns[f] \in Appended /\ Newest(columns[f])
        BY <3>2
      <4>2. \A n \in Appended : Newest(n) => n = columns[f]
        BY <2>0, <4>1, AppendedNats
      <4>. HIDE DEF Newest
      <4>3. columns[f] = CHOOSE n \in Appended : Newest(n)
        BY <4>1, <4>2
      <4>. QED
        BY <4>3 DEF Newest
    <3>4. columns = [f \in Fields |-> CHOOSE n \in Appended :
                       f \in log[n] /\ \A m \in Appended : f \in log[m] => m <= n]
      BY <3>2, <3>3
    <3>. QED
      BY <2>4, <3>4 DEF Replayed
  <2>. QED
    BY <2>3, <2>4
<1>. QED
  BY <1>1, RowInvariance, PTL
=============================================================================
