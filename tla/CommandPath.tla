----------------------------- MODULE CommandPath -----------------------------
(***************************************************************************)
(* The write path of the task app: execute_command                         *)
(* (app/shared/commanding.py), the conflict retry (app/shared/deps.py),    *)
(* aggregate load and persist (app/shared/aggregates.py) and the event     *)
(* store with its snapshots (app/shared/eventing.py, eventing_rebuild.py,  *)
(* eventing_store.py), in Kurrent mode: an append is durable at once, the  *)
(* SQL commit that follows it is not part of it.                           *)
(*                                                                         *)
(* A handler appends to a fixed list of streams.  The first event of a     *)
(* stream is appended with the version that was loaded; a further event of *)
(* the same aggregate is appended to whatever version it finds.            *)
(*                                                                         *)
(* The state rebuilt from a stream is the sequence of the events applied,  *)
(* which tells any two folds apart.                                        *)
(***************************************************************************)
EXTENDS Integers, Sequences, FiniteSets

CONSTANTS
  Requests,        \* calls of execute_command
  Streams,
  Ids,             \* command ids
  NoId,            \* a call without command id
  IdOf(_),         \* request -> command id or NoId
  IntentOf(_),     \* request -> command name and user
  AppendsOf(_),    \* request -> the streams its handler appends to, in order
  MaxAttempts,     \* run_command_with_retry's max_attempts
  SnapshotEvery,   \* SNAPSHOT_EVERY
  Faults,          \* which of "append", "commit", "crash" can happen
  MaxFaults        \* bound: faults

ASSUME NoIdAssumption == NoId \notin Ids
ASSUME IdAssumption == \A r \in Requests : IdOf(r) \in Ids \union {NoId}
ASSUME AppendsAssumption == \A r \in Requests : AppendsOf(r) \in Seq(Streams) \ {<<>>}
ASSUME AttemptsAssumption == MaxAttempts \in Nat \ {0}
ASSUME SnapshotAssumption == SnapshotEvery \in Nat \ {0}
ASSUME FaultsAssumption == MaxFaults \in Nat

VARIABLES
  log,      \* [Streams -> the events of the stream]
  snap,     \* [Streams -> the last event of its snapshot stream]
  stored,   \* [Streams -> the number of events of its snapshot stream]
  record,   \* [Ids -> the CommandExecution row: the request that wrote it]
  pc,       \* [Requests -> position in execute_command]
  at,       \* [Requests -> index into AppendsOf of the next append]
  loaded,   \* [Requests -> rebuilt state and version of the aggregate]
  making,   \* [Requests -> the locals of maybe_snapshot]
  tries,    \* [Requests -> attempts that ended in a conflict]
  reply,    \* [Requests -> the answer]
  before,   \* [Requests -> requests answered when this one began] (history)
  faults    \* faults so far

vars == <<log, snap, stored, record, pc, at, loaded, making, tries, reply, before, faults>>

NoSnap == [state |-> <<>>, version |-> 0]

NoRecord == {}

EventsOf == [req : Requests, at : Nat, attempt : Nat, saw : Nat]
Rebuilt == [state : Seq(EventsOf), version : Nat]

\* A snapshot that is being made: the state, and the position read.
NotMaking == [stage |-> "read", base |-> NoSnap, position |-> 0]
Makings == [stage : {"read", "replay", "position", "store"}, base : Rebuilt, position : Nat]

\* The types: what execute_command and run_command_with_retry have read, and
\* attempts within their limit.
TypeOK ==
  /\ log \in [Streams -> Seq(EventsOf)]
  /\ snap \in [Streams -> Rebuilt]
  /\ stored \in [Streams -> Nat]
  /\ record \in [Ids -> {NoRecord} \union {{r} : r \in Requests}]
  /\ pc \in [Requests -> {"idle", "check", "load", "replay", "append", "snapshot", "next",
                          "commit", "record", "end"}]
  /\ at \in [Requests -> Nat]
  /\ \A r \in Requests : at[r] \in 1 .. Len(AppendsOf(r))
  /\ loaded \in [Requests -> Rebuilt]
  /\ making \in [Requests -> Makings]
  /\ tries \in [Requests -> 0 .. MaxAttempts]
  /\ reply \in [Requests -> {"none", "done", "replayed", "refused", "conflict", "error"}]
  /\ before \in [Requests -> SUBSET Requests]
  /\ faults \in 0 .. MaxFaults

Init ==
  /\ log = [s \in Streams |-> <<>>]
  /\ snap = [s \in Streams |-> NoSnap]
  /\ stored = [s \in Streams |-> 0]
  /\ record = [i \in Ids |-> NoRecord]
  /\ pc = [r \in Requests |-> "idle"]
  /\ at = [r \in Requests |-> 1]
  /\ loaded = [r \in Requests |-> NoSnap]
  /\ making = [r \in Requests |-> NotMaking]
  /\ tries = [r \in Requests |-> 0]
  /\ reply = [r \in Requests |-> "none"]
  /\ before = [r \in Requests |-> {}]
  /\ faults = 0

Goto(r, label) == pc' = [pc EXCEPT ![r] = label]

Answer(r, what) == Goto(r, "end") /\ reply' = [reply EXCEPT ![r] = what]

Answered == {r \in Requests : reply[r] \in {"done", "replayed"}}

Target(r) == AppendsOf(r)[at[r]]

\* The append continues the aggregate of the previous one.
Continues(r) == at[r] > 1 /\ AppendsOf(r)[at[r] - 1] = Target(r)

-----------------------------------------------------------------------------
(* execute_command.                                                        *)

Begin(r) ==
  /\ pc[r] = "idle"
  /\ Goto(r, "check")
  /\ before' = [before EXCEPT ![r] = Answered]
  /\ UNCHANGED <<log, snap, stored, record, at, loaded, making, tries, reply, faults>>

\* Fault variant: the stored row is replayed whatever the intent.
CheckAnyIntent(r) ==
  /\ pc[r] = "check"
  /\ IF IdOf(r) = NoId \/ record[IdOf(r)] = NoRecord
     THEN Goto(r, "load") /\ UNCHANGED reply
     ELSE Answer(r, "replayed")
  /\ UNCHANGED <<log, snap, stored, record, at, loaded, making, tries, before, faults>>

\* Fault variant: a call whose command id is recorded is executed again.
CheckNever(r) ==
  /\ pc[r] = "check"
  /\ Goto(r, "load")
  /\ UNCHANGED <<log, snap, stored, record, at, loaded, making, tries, reply, before, faults>>

\* The lookup of the command id.
Check(r) ==
  /\ pc[r] = "check"
  /\ IF IdOf(r) = NoId \/ record[IdOf(r)] = NoRecord
     THEN Goto(r, "load") /\ UNCHANGED reply
     ELSE Answer(r, IF \E q \in record[IdOf(r)] : IntentOf(q) = IntentOf(r)
                    THEN "replayed" ELSE "refused")
  /\ UNCHANGED <<log, snap, stored, record, at, loaded, making, tries, before, faults>>

\* rebuild_state: the newest snapshot ...
LoadSnapshot(r) ==
  /\ pc[r] = "load"
  /\ loaded' = [loaded EXCEPT ![r] = snap[Target(r)]]
  /\ Goto(r, "replay")
  /\ UNCHANGED <<log, snap, stored, record, at, making, tries, reply, before, faults>>

\* ... and the events after its version.
Replayed(s, base) ==
  [state |-> base.state \o SubSeq(log[s], base.version + 1, Len(log[s])),
   version |-> Len(log[s])]

LoadEvents(r) ==
  /\ pc[r] = "replay"
  /\ loaded' = [loaded EXCEPT ![r] = Replayed(Target(r), @)]
  /\ Goto(r, "append")
  /\ UNCHANGED <<log, snap, stored, record, at, making, tries, reply, before, faults>>

\* Fault variant: one attempt too many.
ConflictOnceMore(r) ==
  /\ tries' = [tries EXCEPT ![r] = @ + 1]
  /\ IF tries[r] >= MaxAttempts
     THEN Answer(r, "conflict")
     ELSE Goto(r, "load") /\ UNCHANGED reply
  /\ at' = [at EXCEPT ![r] = 1]

\* Fault variant: the retry resumes where the conflict happened.
ConflictResumes(r) ==
  /\ tries' = [tries EXCEPT ![r] = @ + 1]
  /\ IF tries[r] + 1 >= MaxAttempts
     THEN Answer(r, "conflict")
     ELSE Goto(r, "load") /\ UNCHANGED reply
  /\ UNCHANGED at

\* A conflict: rollback, and the handler starts again, or 409.
Conflict(r) ==
  /\ tries' = [tries EXCEPT ![r] = @ + 1]
  /\ IF tries[r] + 1 >= MaxAttempts
     THEN Answer(r, "conflict")
     ELSE Goto(r, "load") /\ UNCHANGED reply
  /\ at' = [at EXCEPT ![r] = 1]

\* The handler is done with the aggregate.
Forget(r) == loaded' = [loaded EXCEPT ![r] = NoSnap]

\* What follows the append: another one, or the handler's commit.
AfterAppend(r) ==
  IF at[r] = Len(AppendsOf(r))
  THEN Goto(r, "commit") /\ Forget(r) /\ UNCHANGED at
  ELSE /\ at' = [at EXCEPT ![r] = @ + 1]
       /\ IF AppendsOf(r)[at[r] + 1] = Target(r)
          THEN Goto(r, "next") /\ UNCHANGED loaded
          ELSE Goto(r, "load") /\ Forget(r)

NewEvent(r) ==
  [req |-> r, at |-> at[r], attempt |-> tries[r], saw |-> Len(loaded[r].state)]

\* Fault variant: appended whatever the stream's version.
AppendEventBlind(r) ==
  /\ pc[r] = "append"
  /\ log' = [log EXCEPT ![Target(r)] = Append(@, NewEvent(r))]
  /\ IF (Len(log[Target(r)]) + 1) % SnapshotEvery = 0
     THEN Goto(r, "snapshot") /\ UNCHANGED <<at, loaded>>
     ELSE AfterAppend(r)
  /\ UNCHANGED <<snap, stored, record, making, tries, reply, before, faults>>

\* append_event with an expected version: the check of the current version
\* passes nothing the store's own check would refuse, so they are one step.
AppendEvent(r) ==
  /\ pc[r] = "append"
  /\ IF Len(log[Target(r)]) = loaded[r].version
     THEN /\ log' = [log EXCEPT ![Target(r)] = Append(@, NewEvent(r))]
          /\ IF (Len(log[Target(r)]) + 1) % SnapshotEvery = 0
             THEN Goto(r, "snapshot") /\ UNCHANGED <<at, loaded>>
             ELSE AfterAppend(r)
          /\ UNCHANGED <<tries, reply>>
     ELSE Conflict(r) /\ Forget(r) /\ UNCHANGED log
  /\ UNCHANGED <<snap, stored, record, making, before, faults>>

\* The append of a further event without expected version reads the version
\* first; the store still refuses if it moves before the append.
ReadVersion(r) ==
  /\ pc[r] = "next"
  /\ loaded' = [loaded EXCEPT ![r].version = Len(log[Target(r)])]
  /\ Goto(r, "append")
  /\ UNCHANGED <<log, snap, stored, record, at, making, tries, reply, before, faults>>

\* maybe_snapshot rebuilds the state, which may have moved on, by the two
\* reads of rebuild_state ...
SnapshotRead(r) ==
  /\ making[r].stage = "read"
  /\ making' = [making EXCEPT ![r].base = snap[Target(r)], ![r].stage = "replay"]
  /\ UNCHANGED <<snap, stored, pc, at, loaded>>

SnapshotReplay(r) ==
  /\ making[r].stage = "replay"
  /\ making' = [making EXCEPT ![r].base = Replayed(Target(r), @), ![r].stage = "position"]
  /\ UNCHANGED <<snap, stored, pc, at, loaded>>

\* ... then reads the position of the snapshot stream ...
SnapshotPosition(r) ==
  /\ making[r].stage = "position"
  /\ making' = [making EXCEPT ![r].position = stored[Target(r)], ![r].stage = "store"]
  /\ UNCHANGED <<snap, stored, pc, at, loaded>>

\* Fault variant: the snapshot is labelled with the stream's version of now.
SnapshotStoreRelabelled(r) ==
  /\ making[r].stage = "store"
  /\ \/ UNCHANGED <<snap, stored>>
     \/ /\ stored[Target(r)] = making[r].position
        /\ snap' = [snap EXCEPT ![Target(r)] = [making[r].base EXCEPT !.version = Len(log[Target(r)])]]
        /\ stored' = [stored EXCEPT ![Target(r)] = @ + 1]
  /\ making' = [making EXCEPT ![r] = NotMaking]
  /\ AfterAppend(r)

\* ... and appends the state there, unless the stream has moved on; any
\* failure of the append is swallowed.
SnapshotStore(r) ==
  /\ making[r].stage = "store"
  /\ \/ UNCHANGED <<snap, stored>>
     \/ /\ stored[Target(r)] = making[r].position
        /\ snap' = [snap EXCEPT ![Target(r)] = making[r].base]
        /\ stored' = [stored EXCEPT ![Target(r)] = @ + 1]
  /\ making' = [making EXCEPT ![r] = NotMaking]
  /\ AfterAppend(r)

Snapshot(r) ==
  /\ pc[r] = "snapshot"
  /\ SnapshotRead(r) \/ SnapshotReplay(r) \/ SnapshotPosition(r) \/ SnapshotStore(r)
  /\ UNCHANGED <<log, record, tries, reply, before, faults>>

\* The handler commits the SQL side.
Commit(r) ==
  /\ pc[r] = "commit"
  /\ IF IdOf(r) = NoId
     THEN Answer(r, "done")
     ELSE Goto(r, "record") /\ UNCHANGED reply
  /\ UNCHANGED <<log, snap, stored, record, at, loaded, making, tries, before, faults>>

\* Fault variant: the insert waits for another call's row to go away.
RecordWaits(r) ==
  /\ pc[r] = "record"
  /\ record[IdOf(r)] = NoRecord
  /\ record' = [record EXCEPT ![IdOf(r)] = {r}]
  /\ Answer(r, "done")
  /\ UNCHANGED <<log, snap, stored, at, loaded, making, tries, before, faults>>

\* The CommandExecution row; its command id is unique, so a second row is an
\* IntegrityError that nobody handles.
Record(r) ==
  /\ pc[r] = "record"
  /\ IF record[IdOf(r)] = NoRecord
     THEN /\ record' = [record EXCEPT ![IdOf(r)] = {r}]
          /\ Answer(r, "done")
     ELSE Answer(r, "error") /\ UNCHANGED record
  /\ UNCHANGED <<log, snap, stored, at, loaded, making, tries, before, faults>>

-----------------------------------------------------------------------------
(* Faults.                                                                 *)

Fault(what) ==
  /\ what \in Faults
  /\ faults < MaxFaults
  /\ faults' = faults + 1

\* The append raises and is answered with 503; the store may have it.
AppendFails(r) ==
  /\ Fault("append")
  /\ pc[r] = "append"
  /\ Len(log[Target(r)]) = loaded[r].version
  /\ log' \in {log, [log EXCEPT ![Target(r)] = Append(@, NewEvent(r))]}
  /\ Answer(r, "error")
  /\ Forget(r)
  /\ UNCHANGED <<snap, stored, record, at, making, tries, before>>

\* The commit of the handler or of the record raises.
CommitFails(r) ==
  /\ Fault("commit")
  /\ pc[r] \in {"commit", "record"}
  /\ Answer(r, "error")
  /\ UNCHANGED <<log, snap, stored, record, at, loaded, making, tries, before>>

\* The process dies: every call that is under way ends without an answer.
Crash ==
  /\ Fault("crash")
  /\ pc' = [r \in Requests |-> IF pc[r] = "idle" THEN "idle" ELSE "end"]
  /\ reply' = [r \in Requests |->
                 IF pc[r] \in {"idle", "end"} THEN reply[r] ELSE "error"]
  /\ loaded' = [r \in Requests |-> NoSnap]
  /\ making' = [r \in Requests |-> NotMaking]
  /\ UNCHANGED <<log, snap, stored, record, at, tries, before>>

-----------------------------------------------------------------------------
Step(r) ==
  \/ Check(r)
  \/ LoadSnapshot(r)
  \/ LoadEvents(r)
  \/ AppendEvent(r)
  \/ ReadVersion(r)
  \/ Snapshot(r)
  \/ Commit(r)
  \/ Record(r)

Next ==
  \/ \E r \in Requests : Begin(r) \/ Step(r) \/ AppendFails(r) \/ CommitFails(r)
  \/ Crash

Spec == Init /\ [][Next]_vars

\* A thread that serves a call keeps running.
FairSpec == Spec /\ \A r \in Requests : WF_vars(Step(r))

-----------------------------------------------------------------------------
(* Properties.                                                             *)

Wrote(r) == {s \in Streams : \E i \in 1 .. Len(log[s]) : log[s][i].req = r}

\* However snapshots and appends interleave (an older snapshot may be
\* stored after a newer one), a snapshot holds exactly the events up to its
\* version, and so does a state about to be decided on.
RebuildIsExact ==
  /\ \A s \in Streams : snap[s].state = SubSeq(log[s], 1, snap[s].version)
  /\ \A r \in Requests : pc[r] = "append" /\ ~Continues(r) =>
       loaded[r].state = SubSeq(log[Target(r)], 1, loaded[r].version)

\* A call that is answered with success by its own execution has all its
\* events in the streams, in the order of the handler, from one attempt,
\* and, when it appends only one, exactly once; a call that appends one
\* event and is answered 409 has none.  Nobody is given the stored answer of
\* another command or another user.
CallsDidAsAnswered ==
  \A r \in Requests :
    LET n == Len(AppendsOf(r))
        At(k) == {i \in 1 .. Len(log[AppendsOf(r)[k]]) :
                    LET e == log[AppendsOf(r)[k]][i]
                    IN e.req = r /\ e.at = k /\ e.attempt = tries[r]}
    IN /\ reply[r] = "done" =>
            /\ \A k \in 1 .. n : Cardinality(At(k)) = 1
            /\ \A k, l \in 1 .. n : k < l /\ AppendsOf(r)[k] = AppendsOf(r)[l] =>
                 \A i \in At(k), j \in At(l) : i < j
            /\ n = 1 => Cardinality({i \in 1 .. Len(log[AppendsOf(r)[1]]) :
                                       log[AppendsOf(r)[1]][i].req = r}) = 1
       /\ n = 1 /\ reply[r] \in {"conflict", "refused", "replayed"} => Wrote(r) = {}
       /\ reply[r] = "replayed" => \E q \in record[IdOf(r)] : IntentOf(q) = IntentOf(r)

\* A call that begins after a call with its command id was answered with
\* success appends nothing: retrying what is known to be done is safe.
RetryAppendsNothing ==
  \A r \in Requests :
    IdOf(r) # NoId /\ (\E q \in before[r] : IdOf(q) = IdOf(r)) => Wrote(r) = {}

\* An answer can be relied on, whoever gave it: both of the above.
AnswersAreTrue == CallsDidAsAnswered /\ RetryAppendsNothing

\* Every call is answered, whoever else appends to its streams.
EveryCallIsAnswered == \A r \in Requests : pc[r] = "check" ~> reply[r] # "none"

\* The abstract promise.  An event is what its decision was based on.
TwinsOf(r) == {q \in Requests : q = r \/ (IdOf(r) # NoId /\ IdOf(q) = IdOf(r))}

WritesOf(r) == {AppendsOf(r)[k] : k \in 1 .. Len(AppendsOf(r))}

History ==
  [s \in Streams |-> [i \in 1 .. Len(log[s]) |-> [req |-> log[s][i].req, saw |-> log[s][i].saw]]]

Serial ==
  INSTANCE SerialStreams
  WITH Twins <- TwinsOf, Writes <- WritesOf, history <- History, acked <- Answered

SerialSpec == Serial!Spec
=============================================================================
