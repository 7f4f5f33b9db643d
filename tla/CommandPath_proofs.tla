------------------------- MODULE CommandPath_proofs -------------------------
(***************************************************************************)
(* Proofs about CommandPath, for any calls, streams, handlers, snapshot    *)
(* interval, attempts and faults: type correctness, RebuildIsExact,        *)
(* AnswersAreTrue, and that CommandPath implements SerialStreams.          *)
(*                                                                         *)
(* The inductive invariant says where a call can be (Phase), what it may   *)
(* believe of the stream it is about to append to (Load, SnapInv) or to    *)
(* store a snapshot of (Make), which events are its own and in which order *)
(* (OwnedInv, OrderInv, Made), and what a CommandExecution row is evidence *)
(* of (RecordInv, Later).                                                  *)
(***************************************************************************)
EXTENDS CommandPath, FiniteSetTheorems, SequenceTheorems, TLAPS

\* A rebuilt state that holds the events of the stream up to its version.
Prefix(x, s) == x.version <= Len(log[s]) /\ x.state = SubSeq(log[s], 1, x.version)

NoEvents(r) == \A s \in Streams : \A i \in 1 .. Len(log[s]) : log[s][i].req # r

\* The k-th append of the current attempt has been made.
Past(r, k) ==
  \/ k < at[r]
  \/ k = at[r] /\ pc[r] \in {"snapshot", "commit", "record", "end"}

IsEvent(r, k, e) == e.req = r /\ e.at = k /\ e.attempt = tries[r]

Has(r, k) == \E i \in 1 .. Len(log[AppendsOf(r)[k]]) : IsEvent(r, k, log[AppendsOf(r)[k]][i])

Phase(r) ==
  /\ pc[r] = "next" => Continues(r)
  /\ pc[r] \in {"load", "replay"} => ~Continues(r)
  /\ pc[r] \in {"idle", "check"} => at[r] = 1
  /\ pc[r] \in {"commit", "record"} => at[r] = Len(AppendsOf(r))
  /\ pc[r] = "record" => IdOf(r) # NoId
  /\ pc[r] = "end" <=> reply[r] # "none"
  /\ pc[r] # "end" => tries[r] < MaxAttempts

Load(r) ==
  /\ (pc[r] = "replay" \/ (pc[r] = "append" /\ ~Continues(r))) => Prefix(loaded[r], Target(r))
  /\ pc[r] \in {"append", "snapshot", "next"} => Len(loaded[r].state) <= Len(log[Target(r)])

SnapInv == \A s \in Streams : Prefix(snap[s], s)

\* A snapshot that is being made holds a prefix of the stream, though maybe
\* no longer all of it.
Make(r) ==
  /\ pc[r] = "snapshot" => Prefix(making[r].base, Target(r))
  /\ pc[r] \notin {"snapshot", "end"} => making[r] = NotMaking

Owned(s, e) ==
  /\ pc[e.req] \notin {"idle", "check"}
  /\ e.at \in 1 .. Len(AppendsOf(e.req)) /\ AppendsOf(e.req)[e.at] = s
  /\ \/ e.attempt < tries[e.req]
     \/ e.attempt = tries[e.req] /\ Past(e.req, e.at)
  /\ Len(AppendsOf(e.req)) = 1 => e.attempt = tries[e.req]

OwnedInv == \A s \in Streams : \A i \in 1 .. Len(log[s]) : Owned(s, log[s][i])

OrderInv ==
  \A s \in Streams : \A i, j \in 1 .. Len(log[s]) :
    (/\ log[s][i].req = log[s][j].req
     /\ log[s][i].attempt = log[s][j].attempt
     /\ log[s][i].at <= log[s][j].at) => i <= j

Made(r) ==
  /\ (pc[r] \notin {"idle", "check", "end"} \/ reply[r] = "done") =>
       \A k \in 1 .. Len(AppendsOf(r)) : Past(r, k) => Has(r, k)
  /\ reply[r] = "done" => at[r] = Len(AppendsOf(r))
  /\ reply[r] \in {"refused", "replayed"} => NoEvents(r)
  /\ reply[r] = "conflict" /\ Len(AppendsOf(r)) = 1 => NoEvents(r)

RecordInv ==
  /\ \A i \in Ids : \A q \in record[i] : IdOf(q) = i /\ reply[q] = "done"
  /\ \A r \in Requests : IdOf(r) # NoId /\ reply[r] \in {"done", "replayed"} => record[IdOf(r)] # NoRecord
  /\ \A r \in Requests : reply[r] = "replayed" =>
       IdOf(r) # NoId /\ \E q \in record[IdOf(r)] : IntentOf(q) = IntentOf(r)

Later(r) ==
  /\ before[r] \subseteq Answered
  /\ IdOf(r) # NoId /\ (\E q \in before[r] : IdOf(q) = IdOf(r)) =>
       NoEvents(r) /\ pc[r] \in {"idle", "check", "end"}

IInv ==
  /\ TypeOK /\ SnapInv /\ OwnedInv /\ OrderInv /\ RecordInv
  /\ \A r \in Requests : Phase(r) /\ Load(r) /\ Make(r) /\ Made(r) /\ Later(r)

-----------------------------------------------------------------------------
(* What one action can change.                                             *)

Action(q) == Begin(q) \/ Step(q) \/ AppendFails(q) \/ CommitFails(q)

Same(r) ==
  /\ pc'[r] = pc[r] /\ at'[r] = at[r] /\ loaded'[r] = loaded[r] /\ tries'[r] = tries[r]
  /\ making'[r] = making[r] /\ reply'[r] = reply[r] /\ before'[r] = before[r]

\* The append of the next event of a call.
Appends(q) ==
  /\ pc[q] = "append"
  /\ Len(log[Target(q)]) = loaded[q].version
  /\ log' = [log EXCEPT ![Target(q)] = Append(@, NewEvent(q))]

LEMMA TargetType ==
  ASSUME TypeOK, NEW r \in Requests
  PROVE  /\ AppendsOf(r) \in Seq(Streams) /\ Len(AppendsOf(r)) \in Nat \ {0}
         /\ at[r] \in 1 .. Len(AppendsOf(r)) /\ Target(r) \in Streams
         /\ \A k \in 1 .. Len(AppendsOf(r)) : AppendsOf(r)[k] \in Streams
  <1>1. AppendsOf(r) \in Seq(Streams) /\ AppendsOf(r) # <<>>
    BY AppendsAssumption
  <1> QED BY <1>1 DEF TypeOK, Target

LEMMA Locality ==
  ASSUME TypeOK, NEW q \in Requests, Action(q), NEW r \in Requests, r # q
  PROVE  Same(r)
  <1> USE DEF Same, Goto, Answer, Forget, TypeOK
  <1>1. CASE Begin(q)
    BY <1>1 DEF Begin
  <1>2. CASE Check(q) \/ LoadSnapshot(q) \/ LoadEvents(q) \/ ReadVersion(q)
    BY <1>2 DEF Check, LoadSnapshot, LoadEvents, ReadVersion
  <1>3. CASE AppendEvent(q)
    BY <1>3 DEF AppendEvent, Conflict, AfterAppend
  <1>5. CASE Snapshot(q)
    BY <1>5 DEF Snapshot, SnapshotRead, SnapshotReplay, SnapshotPosition, SnapshotStore, AfterAppend
  <1>4. CASE Commit(q) \/ Record(q) \/ AppendFails(q) \/ CommitFails(q)
    BY <1>4 DEF Commit, Record, AppendFails, CommitFails
  <1> QED BY <1>1, <1>2, <1>3, <1>4, <1>5 DEF Action, Step

\* A step of maybe_snapshot stays in it, or is its end.
LEMMA SnapshotMoves ==
  ASSUME NEW q \in Requests, Snapshot(q)
  PROVE  AfterAppend(q) \/ (pc' = pc /\ at' = at /\ loaded' = loaded)
  BY DEF Snapshot, SnapshotRead, SnapshotReplay, SnapshotPosition, SnapshotStore

LEMMA LogStep ==
  ASSUME NEW q \in Requests, Action(q)
  PROVE  log' = log \/ Appends(q)
  BY DEF Action, Begin, Step, Check, LoadSnapshot, LoadEvents, ReadVersion, AppendEvent,
         Snapshot, Commit, Record, AppendFails, CommitFails, Appends

\* The streams only grow.
LEMMA LogGrows ==
  ASSUME TypeOK, NEW q \in Requests, Action(q), NEW s \in Streams
  PROVE  /\ Len(log[s]) <= Len(log'[s]) /\ Len(log[s]) \in Nat /\ Len(log'[s]) \in Nat
         /\ \A i \in 1 .. Len(log[s]) : log'[s][i] = log[s][i]
  <1>1. log[s] \in Seq(EventsOf)
    BY DEF TypeOK
  <1>2. log'[s] = log[s] \/ log'[s] = Append(log[s], NewEvent(q))
    BY ZenonT(60), LogStep DEF Appends, TypeOK
  <1> QED BY <1>1, <1>2

-----------------------------------------------------------------------------
(* Rebuilding a state.                                                     *)

\* What the first n elements of a sequence are.
LEMMA FirstOnes ==
  ASSUME NEW S, NEW t, NEW n \in Nat, \A i \in 1 .. n : t[i] \in S
  PROVE  /\ SubSeq(t, 1, n) \in Seq(S)
         /\ Len(SubSeq(t, 1, n)) = n
         /\ \A i \in 1 .. n : SubSeq(t, 1, n)[i] = t[i]
  BY SubSeqProperties

\* A prefix stays a prefix when the stream grows.
LEMMA PrefixGrows ==
  ASSUME TypeOK, NEW q \in Requests, Action(q), NEW s \in Streams,
         NEW x \in Rebuilt, Prefix(x, s)
  PROVE  x.version <= Len(log'[s]) /\ x.state = SubSeq(log'[s], 1, x.version)
  <1> DEFINE v == x.version
             new == log'[s]
             old == log[s]
  <1>1. v \in Nat /\ v <= Len(old) /\ x.state = SubSeq(old, 1, v)
    BY DEF Rebuilt, Prefix
  <1>2. \A i \in 1 .. v : new[i] = old[i] /\ old[i] \in EventsOf /\ new[i] \in EventsOf
    BY <1>1, LogGrows DEF TypeOK
  <1>3. v <= Len(new)
    BY <1>1, LogGrows
  <1> HIDE DEF v, new, old
  <1>4. /\ SubSeq(old, 1, v) \in Seq(EventsOf) /\ Len(SubSeq(old, 1, v)) = v
        /\ \A i \in 1 .. v : SubSeq(old, 1, v)[i] = old[i]
    BY <1>1, <1>2, FirstOnes
  <1>5. /\ SubSeq(new, 1, v) \in Seq(EventsOf) /\ Len(SubSeq(new, 1, v)) = v
        /\ \A i \in 1 .. v : SubSeq(new, 1, v)[i] = new[i]
    BY <1>1, <1>2, FirstOnes
  <1>6. SubSeq(old, 1, v) = SubSeq(new, 1, v)
    BY <1>2, <1>4, <1>5, SeqEqual
  <1>7. v <= Len(new) /\ x.state = SubSeq(new, 1, v)
    BY <1>1, <1>3, <1>6
  <1> QED BY <1>7 DEF v, new

\* A snapshot of a prefix, continued with the events after its version, is
\* the whole stream.
LEMMA ReplayIsExact ==
  ASSUME TypeOK, NEW s \in Streams, NEW x \in Rebuilt, Prefix(x, s)
  PROVE  Replayed(s, x) = [state |-> log[s], version |-> Len(log[s])]
  <1>1. log[s] \in Seq(EventsOf) /\ x.version \in 0 .. Len(log[s])
    BY DEF TypeOK, Rebuilt, Prefix
  <1>2. SubSeq(log[s], 1, x.version) \o SubSeq(log[s], x.version + 1, Len(log[s]))
          = SubSeq(log[s], 1, Len(log[s]))
    <2> DEFINE t == log[s]
               v == x.version
    <2>1. t \in Seq(EventsOf) /\ 1 \in 1 .. Len(t) + 1 /\ v \in 1 - 1 .. Len(t) /\ Len(t) \in v .. Len(t)
      BY <1>1
    <2> HIDE DEF t, v
    <2>2. SubSeq(t, 1, v) \o SubSeq(t, v + 1, Len(t)) = SubSeq(t, 1, Len(t))
      BY <2>1, ConcatAdjacentSubSeq
    <2> QED BY <2>2 DEF t, v
  <1>3. SubSeq(log[s], 1, Len(log[s])) = log[s]
    BY <1>1, SubSeqFull
  <1> QED BY <1>2, <1>3 DEF Replayed, Prefix

LEMMA PrefixWhole ==
  ASSUME TypeOK, NEW s \in Streams, NEW x, x = [state |-> log[s], version |-> Len(log[s])]
  PROVE  x \in Rebuilt /\ Prefix(x, s)
  <1>1. log[s] \in Seq(EventsOf)
    BY DEF TypeOK
  <1> QED BY <1>1, SubSeqFull DEF Rebuilt, Prefix

LEMMA NoSnapPrefix ==
  ASSUME TypeOK, NEW s \in Streams
  PROVE  NoSnap \in Rebuilt /\ Prefix(NoSnap, s)
  <1>1. SubSeq(log[s], 1, 0) = <<>>
    BY SubSeqEmpty
  <1>2. NoSnap \in Rebuilt
    BY DEF NoSnap, Rebuilt
  <1> QED BY <1>1, <1>2 DEF NoSnap, Prefix, TypeOK

-----------------------------------------------------------------------------
(* Types.                                                                  *)

LEMMA TypeInit == Init => TypeOK
  <1> SUFFICES ASSUME Init PROVE TypeOK
    OBVIOUS
  <1>1. \A r \in Requests : Len(AppendsOf(r)) \in Nat \ {0}
    BY AppendsAssumption
  <1>2. NoSnap \in Rebuilt /\ NotMaking \in Makings
    BY DEF NoSnap, Rebuilt, NotMaking, Makings
  <1> QED
    BY <1>1, <1>2, AttemptsAssumption, FaultsAssumption DEF Init, TypeOK, NoRecord

LEMMA NewEventType ==
  ASSUME TypeOK, NEW r \in Requests
  PROVE  NewEvent(r) \in EventsOf
  BY DEF TypeOK, NewEvent, EventsOf, Rebuilt

LEMMA LogType ==
  ASSUME TypeOK, NEW q \in Requests, Action(q)
  PROVE  log' \in [Streams -> Seq(EventsOf)]
  <1>1. CASE log' = log
    BY <1>1 DEF TypeOK
  <1>2. CASE Appends(q)
    <2>1. Append(log[Target(q)], NewEvent(q)) \in Seq(EventsOf)
      BY TargetType, NewEventType DEF TypeOK
    <2> QED BY <1>2, <2>1 DEF Appends, TypeOK
  <1> QED BY <1>1, <1>2, LogStep

LEMMA SnapType ==
  ASSUME TypeOK, SnapInv, NEW q \in Requests, Action(q)
  PROVE  snap' \in [Streams -> Rebuilt] /\ stored' \in [Streams -> Nat]
  <1>1. CASE Snapshot(q)
    <2>1. making[q].base \in Rebuilt
      BY DEF TypeOK, Makings
    <2>2. snap \in [Streams -> Rebuilt] /\ stored \in [Streams -> Nat]
      BY DEF TypeOK
    <2>3. \/ snap' = snap /\ stored' = stored
          \/ /\ snap' = [snap EXCEPT ![Target(q)] = making[q].base]
             /\ stored' = [stored EXCEPT ![Target(q)] = @ + 1]
      BY <1>1 DEF Snapshot, SnapshotRead, SnapshotReplay, SnapshotPosition, SnapshotStore
    <2> QED BY <2>1, <2>2, <2>3
  <1>2. CASE ~Snapshot(q)
    BY <1>2 DEF TypeOK, Action, Begin, Step, Check, LoadSnapshot, LoadEvents, ReadVersion,
                AppendEvent, Commit, Record, AppendFails, CommitFails
  <1> QED BY <1>1, <1>2

LEMMA NotMakingType == NotMaking \in Makings /\ NotMaking.base = NoSnap
  BY DEF NotMaking, NoSnap, Makings, Rebuilt

LEMMA MakingType ==
  ASSUME TypeOK, SnapInv, NEW q \in Requests, Action(q), Make(q)
  PROVE  making' \in [Requests -> Makings]
  <1>1. /\ Target(q) \in Streams /\ making[q] \in Makings
        /\ snap[Target(q)] \in Rebuilt /\ stored[Target(q)] \in Nat
    BY TargetType DEF TypeOK
  <1>2. CASE making' = making
    BY <1>2 DEF TypeOK
  <1>3. CASE Snapshot(q) /\ SnapshotRead(q)
    BY <1>1, <1>3 DEF SnapshotRead, Makings, TypeOK
  <1>4. CASE Snapshot(q) /\ SnapshotReplay(q)
    <2>1. making[q].base \in Rebuilt /\ Prefix(making[q].base, Target(q))
      BY <1>1, <1>4 DEF Snapshot, Make, Makings
    <2>2. Replayed(Target(q), making[q].base) \in Rebuilt
      BY <1>1, <2>1, ReplayIsExact, PrefixWhole
    <2> QED BY <1>1, <1>4, <2>2 DEF SnapshotReplay, Makings, TypeOK
  <1>5. CASE Snapshot(q) /\ SnapshotPosition(q)
    BY <1>1, <1>5 DEF SnapshotPosition, Makings, TypeOK
  <1>6. CASE Snapshot(q) /\ SnapshotStore(q)
    BY <1>6, NotMakingType DEF SnapshotStore, TypeOK
  <1> QED
    BY <1>2, <1>3, <1>4, <1>5, <1>6
    DEF Snapshot, Action, Begin, Step, Check, LoadSnapshot, LoadEvents, ReadVersion,
        AppendEvent, Commit, Record, AppendFails, CommitFails

LEMMA AfterAppendType ==
  ASSUME TypeOK, NEW q \in Requests, AfterAppend(q)
  PROVE  /\ pc' \in [Requests -> {"idle", "check", "load", "replay", "append", "snapshot",
                                 "next", "commit", "record", "end"}]
         /\ at' \in [Requests -> Nat] /\ at'[q] \in 1 .. Len(AppendsOf(q))
         /\ loaded' \in [Requests -> Rebuilt]
  <1>1. NoSnap \in Rebuilt
    BY DEF NoSnap, Rebuilt
  <1>2. at[q] \in 1 .. Len(AppendsOf(q)) /\ Len(AppendsOf(q)) \in Nat \ {0}
    BY TargetType
  <1>3. CASE at[q] = Len(AppendsOf(q))
    BY <1>1, <1>2, <1>3 DEF AfterAppend, Goto, Forget, TypeOK
  <1>4. CASE at[q] # Len(AppendsOf(q))
    <2>1. at'[q] = at[q] + 1 /\ at' \in [Requests -> Nat]
      <3>1. at \in [Requests -> Nat]
        BY DEF TypeOK
      <3>2. at' = [at EXCEPT ![q] = @ + 1]
        BY <1>4 DEF AfterAppend
      <3> QED BY <3>1, <3>2
    <2>2. /\ \E label \in {"next", "load"} : pc' = [pc EXCEPT ![q] = label]
          /\ loaded' = loaded \/ loaded' = [loaded EXCEPT ![q] = NoSnap]
      BY <1>4 DEF AfterAppend, Goto, Forget
    <2>3. at'[q] \in 1 .. Len(AppendsOf(q))
      BY <1>2, <1>4, <2>1
    <2>4. loaded' \in [Requests -> Rebuilt]
      BY <1>1, <2>2 DEF TypeOK
    <2>5. pc' \in [Requests -> {"idle", "check", "load", "replay", "append", "snapshot",
                              "next", "commit", "record", "end"}]
      BY <2>2 DEF TypeOK
    <2> QED BY <2>1, <2>3, <2>4, <2>5
  <1> QED BY <1>3, <1>4

LEMMA LoadedType ==
  ASSUME TypeOK, SnapInv, NEW q \in Requests, Action(q), Phase(q), Load(q)
  PROVE  loaded' \in [Requests -> Rebuilt]
  <1>1. NoSnap \in Rebuilt
    BY DEF NoSnap, Rebuilt
  <1>2. Target(q) \in Streams /\ loaded[q] \in Rebuilt
    BY TargetType DEF TypeOK
  <1>3. CASE LoadSnapshot(q)
    BY <1>2, <1>3 DEF LoadSnapshot, TypeOK
  <1>4. CASE LoadEvents(q)
    <2>1. Replayed(Target(q), loaded[q]) \in Rebuilt
      BY <1>2, <1>4, ReplayIsExact, PrefixWhole DEF LoadEvents, Load
    <2> QED BY <1>4, <2>1 DEF LoadEvents, TypeOK
  <1>5. CASE ReadVersion(q)
    <2>1. [loaded[q] EXCEPT !.version = Len(log[Target(q)])] \in Rebuilt
      <3>1. Len(log[Target(q)]) \in Nat
        BY <1>2 DEF TypeOK
      <3> QED BY <1>2, <3>1 DEF Rebuilt
    <2>2. loaded' = [loaded EXCEPT ![q] = [loaded[q] EXCEPT !.version = Len(log[Target(q)])]]
      BY <1>5 DEF ReadVersion
    <2> QED BY <2>1, <2>2 DEF TypeOK
  <1>6. CASE AppendEvent(q) \/ Snapshot(q) \/ AppendFails(q)
    <2>1. Forget(q) => loaded' \in [Requests -> Rebuilt]
      BY <1>1 DEF Forget, TypeOK
    <2>2. AfterAppend(q) => loaded' \in [Requests -> Rebuilt]
      BY AfterAppendType
    <2>3. loaded' = loaded => loaded' \in [Requests -> Rebuilt]
      BY DEF TypeOK
    <2> QED BY <1>6, <2>1, <2>2, <2>3, SnapshotMoves DEF AppendEvent, AppendFails
  <1> QED
    BY <1>3, <1>4, <1>5, <1>6
    DEF TypeOK, Action, Begin, Step, Check, Commit, Record, CommitFails

LEMMA ControlType ==
  ASSUME TypeOK, NEW q \in Requests, Action(q), Phase(q)
  PROVE  /\ pc' \in [Requests -> {"idle", "check", "load", "replay", "append", "snapshot",
                                 "next", "commit", "record", "end"}]
         /\ at' \in [Requests -> Nat] /\ at'[q] \in 1 .. Len(AppendsOf(q))
         /\ tries' \in [Requests -> 0 .. MaxAttempts]
  <1>1. at[q] \in 1 .. Len(AppendsOf(q)) /\ Len(AppendsOf(q)) \in Nat \ {0}
    BY TargetType
  <1>2. CASE AppendEvent(q)
    <2>1. tries[q] + 1 \in 0 .. MaxAttempts
      BY <1>2, AttemptsAssumption DEF AppendEvent, Phase, TypeOK
    <2>2. CASE Conflict(q)
      <3>1. \E label \in {"load", "end"} : Goto(q, label)
        BY <2>2 DEF Conflict, Answer
      <3>2. tries' \in [Requests -> 0 .. MaxAttempts]
        BY <2>1, <2>2 DEF Conflict, TypeOK
      <3>3. at' \in [Requests -> Nat] /\ at'[q] \in 1 .. Len(AppendsOf(q))
        BY <1>1, <2>2 DEF Conflict, TypeOK
      <3> QED BY <3>1, <3>2, <3>3 DEF Goto, TypeOK
    <2>3. CASE ~Conflict(q)
      BY <1>1, <1>2, <2>3, AfterAppendType DEF AppendEvent, Goto, TypeOK
    <2> QED BY <2>2, <2>3
  <1>3. CASE Snapshot(q)
    BY <1>1, <1>3, AfterAppendType, SnapshotMoves DEF Snapshot, TypeOK
  <1>4. CASE ~AppendEvent(q) /\ ~Snapshot(q)
    <2>1. at' = at /\ tries' = tries
      BY <1>4 DEF Action, Begin, Step, Check, LoadSnapshot, LoadEvents, ReadVersion, Commit,
                  Record, AppendFails, CommitFails
    <2>2. \E label \in {"check", "load", "replay", "append", "commit", "record", "end"} :
            Goto(q, label)
      BY <1>4 DEF Answer, Action, Begin, Step, Check, LoadSnapshot, LoadEvents, ReadVersion,
                  Commit, Record, AppendFails, CommitFails
    <2> QED BY <1>1, <2>1, <2>2 DEF Goto, TypeOK
  <1> QED BY <1>2, <1>3, <1>4

LEMMA TypeStep ==
  ASSUME TypeOK, SnapInv, NEW q \in Requests, Action(q), Phase(q), Load(q), Make(q)
  PROVE  TypeOK'
  <1>1. record' \in [Ids -> {NoRecord} \union {{r} : r \in Requests}]
    BY DEF TypeOK, Action, Begin, Step, Check, LoadSnapshot, LoadEvents, ReadVersion, AppendEvent,
           Snapshot, Commit, Record, AppendFails, CommitFails
  <1>2. reply' \in [Requests -> {"none", "done", "replayed", "refused", "conflict", "error"}]
    BY DEF TypeOK, Answer, Action, Begin, Step, Check, LoadSnapshot, LoadEvents, ReadVersion,
           AppendEvent, Conflict, Snapshot, Commit, Record, AppendFails, CommitFails
  <1>3. before' \in [Requests -> SUBSET Requests]
    BY ZenonT(60) DEF TypeOK, Answered, Action, Begin, Step, Check, LoadSnapshot, LoadEvents, ReadVersion,
           AppendEvent, Snapshot, Commit, Record, AppendFails, CommitFails
  <1>4. faults' \in 0 .. MaxFaults
    BY FaultsAssumption
    DEF TypeOK, Fault, Action, Begin, Step, Check, LoadSnapshot, LoadEvents, ReadVersion,
        AppendEvent, Snapshot, Commit, Record, AppendFails, CommitFails
  <1>5. \A r \in Requests : at'[r] \in 1 .. Len(AppendsOf(r))
    BY ControlType, Locality DEF Same, TypeOK
  <1> QED
    BY <1>1, <1>2, <1>3, <1>4, <1>5, LogType, SnapType, LoadedType, MakingType, ControlType DEF TypeOK

-----------------------------------------------------------------------------
(* Where a call is and what it has loaded.                                 *)

\* What follows an append is a further one of the same aggregate, a load, or
\* the commit.
LEMMA AfterAppendCases ==
  ASSUME TypeOK, NEW q \in Requests, AfterAppend(q)
  PROVE  \/ at[q] = Len(AppendsOf(q)) /\ at' = at /\ pc'[q] = "commit"
         \/ /\ at[q] < Len(AppendsOf(q)) /\ at'[q] = at[q] + 1
            /\ pc'[q] = "next" /\ loaded' = loaded /\ Target(q)' = Target(q) /\ Continues(q)'
         \/ /\ at[q] < Len(AppendsOf(q)) /\ at'[q] = at[q] + 1 /\ pc'[q] = "load" /\ ~Continues(q)'
  <1>1. at[q] \in 1 .. Len(AppendsOf(q)) /\ Len(AppendsOf(q)) \in Nat \ {0}
    BY TargetType
  <1>2. CASE at[q] = Len(AppendsOf(q))
    BY <1>2 DEF AfterAppend, Goto, TypeOK
  <1>3. CASE at[q] # Len(AppendsOf(q))
    <2>1. at'[q] = at[q] + 1 /\ at'[q] > 1 /\ at'[q] - 1 = at[q] /\ at[q] < Len(AppendsOf(q))
      BY <1>1, <1>3 DEF AfterAppend, TypeOK
    <2>2. Continues(q)' <=> AppendsOf(q)[at[q] + 1] = Target(q)
      BY <2>1 DEF Continues, Target
    <2>3. CASE AppendsOf(q)[at[q] + 1] = Target(q)
      BY <1>3, <2>1, <2>2, <2>3 DEF AfterAppend, Goto, TypeOK, Target
    <2>4. CASE AppendsOf(q)[at[q] + 1] # Target(q)
      BY <1>3, <2>1, <2>2, <2>4 DEF AfterAppend, Goto, TypeOK
    <2> QED BY <2>3, <2>4
  <1> QED BY <1>2, <1>3

LEMMA PhaseAfterAppend ==
  ASSUME TypeOK, NEW q \in Requests, AfterAppend(q), Phase(q), pc[q] \in {"append", "snapshot"},
         tries' = tries, reply' = reply
  PROVE  Phase(q)'
  <1>1. reply'[q] = "none" /\ tries'[q] < MaxAttempts
    BY DEF Phase
  <1> QED BY <1>1, AfterAppendCases DEF Phase

LEMMA PhaseSame ==
  ASSUME NEW r \in Requests, Same(r), Phase(r)
  PROVE  Phase(r)'
  BY DEF Same, Phase, Continues, Target

LEMMA PhaseStep ==
  ASSUME TypeOK, NEW q \in Requests, Action(q), Phase(q)
  PROVE  Phase(q)'
  <1> USE DEF Goto, Answer
  <1>1. CASE Begin(q) \/ Check(q) \/ LoadSnapshot(q) \/ LoadEvents(q) \/ ReadVersion(q)
    <2>1. at'[q] = at[q] /\ tries'[q] = tries[q] /\ (Continues(q)' <=> Continues(q))
      BY <1>1 DEF Begin, Check, LoadSnapshot, LoadEvents, ReadVersion, Continues, Target
    <2>2. CASE Begin(q)
      BY <2>1, <2>2 DEF Begin, Phase, TypeOK
    <2>3. CASE Check(q)
      <3>1. at[q] = 1 /\ ~Continues(q)
        BY <2>3 DEF Check, Phase, Continues
      <3> QED BY <2>1, <2>3, <3>1 DEF Check, Phase, TypeOK
    <2>4. CASE LoadSnapshot(q) \/ LoadEvents(q) \/ ReadVersion(q)
      BY <2>1, <2>4 DEF LoadSnapshot, LoadEvents, ReadVersion, Phase, TypeOK
    <2> QED BY <1>1, <2>2, <2>3, <2>4
  <1>2. CASE AppendEvent(q)
    <2>1. CASE Conflict(q)
      <3>1. at'[q] = 1 /\ tries'[q] = tries[q] + 1 /\ ~Continues(q)'
        BY <2>1 DEF Conflict, Continues, TypeOK
      <3>2. CASE tries[q] + 1 >= MaxAttempts
        BY <1>2, <2>1, <3>1, <3>2 DEF AppendEvent, Conflict, Phase, TypeOK
      <3>3. CASE ~(tries[q] + 1 >= MaxAttempts)
        <4>1. tries'[q] < MaxAttempts
          BY <3>1, <3>3, AttemptsAssumption DEF TypeOK
        <4>2. pc'[q] = "load" /\ reply' = reply /\ reply[q] = "none"
          BY <1>2, <2>1, <3>3 DEF AppendEvent, Conflict, Phase, TypeOK
        <4> QED BY <3>1, <4>1, <4>2 DEF Phase
      <3> QED BY <3>2, <3>3
    <2>2. CASE AfterAppend(q) /\ ~Conflict(q)
      BY <1>2, <2>2, PhaseAfterAppend DEF AppendEvent
    <2>3. CASE ~AfterAppend(q) /\ ~Conflict(q)
      <3>1. pc'[q] = "snapshot" /\ at' = at /\ tries' = tries /\ reply' = reply
        BY <1>2, <2>3 DEF AppendEvent, TypeOK
      <3> QED BY <1>2, <3>1 DEF AppendEvent, Phase
    <2> QED BY <2>1, <2>2, <2>3
  <1>3. CASE Snapshot(q)
    <2>1. pc[q] = "snapshot" /\ tries' = tries /\ reply' = reply
      BY <1>3 DEF Snapshot
    <2>2. CASE AfterAppend(q)
      BY <2>1, <2>2, PhaseAfterAppend
    <2>3. CASE pc' = pc /\ at' = at
      BY <2>1, <2>3 DEF Phase
    <2> QED BY <1>3, <2>2, <2>3, SnapshotMoves
  <1>4. CASE Commit(q) \/ Record(q) \/ AppendFails(q) \/ CommitFails(q)
    <2>1. at' = at /\ tries' = tries
      BY <1>4 DEF Commit, Record, AppendFails, CommitFails
    <2> QED BY <1>4, <2>1 DEF Commit, Record, AppendFails, CommitFails, Phase, TypeOK
  <1> QED BY <1>1, <1>2, <1>3, <1>4 DEF Action, Step

LEMMA LoadSame ==
  ASSUME TypeOK, NEW q \in Requests, Action(q), NEW r \in Requests, Same(r), Load(r)
  PROVE  Load(r)'
  <1>1. Target(r)' = Target(r) /\ (Continues(r)' <=> Continues(r)) /\ Target(r) \in Streams
    BY TargetType DEF Same, Target, Continues
  <1>2. loaded[r] \in Rebuilt /\ Len(loaded[r].state) \in Nat
    BY DEF TypeOK, Rebuilt
  <1>3. Prefix(loaded[r], Target(r)) =>
          /\ loaded[r].version <= Len(log'[Target(r)])
          /\ loaded[r].state = SubSeq(log'[Target(r)], 1, loaded[r].version)
    BY <1>1, <1>2, PrefixGrows
  <1>4. Len(log[Target(r)]) <= Len(log'[Target(r)])
        /\ Len(log[Target(r)]) \in Nat /\ Len(log'[Target(r)]) \in Nat
    BY <1>1, LogGrows
  <1> QED BY <1>1, <1>2, <1>3, <1>4 DEF Load, Prefix, Same

LEMMA LoadStep ==
  ASSUME TypeOK, SnapInv, NEW q \in Requests, Action(q), Phase(q), Load(q)
  PROVE  Load(q)'
  <1> USE DEF Goto, Answer
  <1>1. Target(q) \in Streams /\ loaded[q] \in Rebuilt /\ log[Target(q)] \in Seq(EventsOf)
    BY TargetType DEF TypeOK
  <1>2. CASE LoadSnapshot(q)
    <2>1. pc'[q] = "replay" /\ Target(q)' = Target(q) /\ log' = log /\ loaded'[q] = snap[Target(q)]
      BY <1>2 DEF LoadSnapshot, Target, TypeOK
    <2> QED BY <1>1, <2>1 DEF Load, Prefix, SnapInv
  <1>3. CASE LoadEvents(q)
    <2>1. /\ pc'[q] = "append" /\ Target(q)' = Target(q) /\ log' = log
          /\ loaded'[q] = Replayed(Target(q), loaded[q])
      BY <1>3 DEF LoadEvents, Target, TypeOK
    <2>2. loaded'[q] = [state |-> log[Target(q)], version |-> Len(log[Target(q)])]
      BY <1>1, <1>3, <2>1, ReplayIsExact DEF LoadEvents, Load
    <2>3. Prefix(loaded'[q], Target(q))
      BY <1>1, <2>2, PrefixWhole
    <2>4. Len(loaded'[q].state) <= Len(log[Target(q)])
      BY <1>1, <2>2
    <2> QED BY <2>1, <2>3, <2>4 DEF Load, Prefix
  <1>4. CASE ReadVersion(q)
    <2>1. /\ pc'[q] = "append" /\ at' = at /\ Target(q)' = Target(q) /\ log' = log
          /\ loaded'[q].state = loaded[q].state
      BY <1>1, <1>4 DEF ReadVersion, Target, TypeOK, Rebuilt
    <2>2. Continues(q)'
      BY <1>4, <2>1 DEF ReadVersion, Phase, Continues
    <2> QED BY <1>4, <2>1, <2>2 DEF ReadVersion, Load
  <1>5. ASSUME AfterAppend(q), pc[q] \in {"append", "snapshot"} PROVE Load(q)'
    <2>1. pc'[q] \in {"commit", "load"} \/ (pc'[q] = "next" /\ loaded' = loaded /\ Target(q)' = Target(q))
      BY <1>5, AfterAppendCases
    <2>2. Len(log[Target(q)]) <= Len(log'[Target(q)])
          /\ Len(log[Target(q)]) \in Nat /\ Len(log'[Target(q)]) \in Nat
      BY <1>1, LogGrows
    <2>3. Len(loaded[q].state) \in Nat
      BY <1>1 DEF Rebuilt
    <2> QED BY <1>5, <2>1, <2>2, <2>3 DEF Load
  <1>6. CASE AppendEvent(q)
    <2>1. CASE AfterAppend(q)
      BY <1>5, <1>6, <2>1 DEF AppendEvent
    <2>2. CASE Conflict(q)
      BY <2>2 DEF Conflict, Load, TypeOK
    <2>3. CASE ~AfterAppend(q) /\ ~Conflict(q)
      <3>1. pc'[q] = "snapshot" /\ loaded' = loaded /\ Target(q)' = Target(q)
        BY <1>6, <2>3 DEF AppendEvent, TypeOK, Target
      <3>2. Len(log[Target(q)]) <= Len(log'[Target(q)])
            /\ Len(log[Target(q)]) \in Nat /\ Len(log'[Target(q)]) \in Nat
        BY <1>1, LogGrows
      <3>3. Len(loaded[q].state) \in Nat
        BY <1>1 DEF Rebuilt
      <3> QED BY <1>6, <3>1, <3>2, <3>3 DEF AppendEvent, Load
    <2> QED BY <2>1, <2>2, <2>3
  <1>7. CASE Snapshot(q)
    <2>1. pc[q] = "snapshot" /\ log' = log
      BY <1>7 DEF Snapshot
    <2>2. CASE pc' = pc /\ at' = at /\ loaded' = loaded
      BY <2>1, <2>2 DEF Load, Target
    <2> QED BY <1>5, <1>7, <2>1, <2>2, SnapshotMoves
  <1>8. CASE Begin(q) \/ Check(q) \/ Commit(q) \/ Record(q) \/ AppendFails(q) \/ CommitFails(q)
    <2>1. pc'[q] \in {"check", "load", "end", "record"}
      BY <1>8 DEF Begin, Check, Commit, Record, AppendFails, CommitFails, TypeOK
    <2> QED BY <2>1 DEF Load
  <1> QED BY <1>2, <1>3, <1>4, <1>6, <1>7, <1>8 DEF Action, Step

LEMMA SnapStep ==
  ASSUME TypeOK, SnapInv, NEW q \in Requests, Action(q), Make(q)
  PROVE  SnapInv'
  <1> SUFFICES ASSUME NEW s \in Streams PROVE Prefix(snap[s], s)'
    BY DEF SnapInv
  <1>1. snap[s] \in Rebuilt /\ Prefix(snap[s], s)
    BY DEF SnapInv, TypeOK
  <1>2. CASE snap'[s] = snap[s]
    BY <1>1, <1>2, PrefixGrows DEF Prefix
  <1>3. CASE snap'[s] # snap[s]
    <2>1. Snapshot(q)
      BY <1>3 DEF Action, Begin, Step, Check, LoadSnapshot, LoadEvents, ReadVersion,
                  AppendEvent, Commit, Record, AppendFails, CommitFails
    <2>2. snap'[s] = making[q].base /\ s = Target(q) /\ log' = log /\ pc[q] = "snapshot"
      BY <1>3, <2>1 DEF Snapshot, SnapshotRead, SnapshotReplay, SnapshotPosition, SnapshotStore, TypeOK
    <2> QED BY <2>2 DEF Make, Prefix
  <1> QED BY <1>2, <1>3

LEMMA MakeSame ==
  ASSUME TypeOK, NEW q \in Requests, Action(q), NEW r \in Requests, Same(r), Make(r)
  PROVE  Make(r)'
  <1>1. Target(r) \in Streams /\ making[r].base \in Rebuilt
    BY TargetType DEF TypeOK, Makings
  <1>2. Target(r)' = Target(r)
    BY DEF Same, Target
  <1>3. pc[r] = "snapshot" => Prefix(making[r].base, Target(r))'
    <2> HAVE pc[r] = "snapshot"
    <2>1. Prefix(making[r].base, Target(r))
      BY DEF Make
    <2> QED BY <1>1, <1>2, <2>1, PrefixGrows DEF Same, Prefix
  <1> QED BY <1>3 DEF Make, Same

\* What maybe_snapshot is to store was rebuilt from a prefix.
LEMMA MakeStep ==
  ASSUME TypeOK, SnapInv, NEW q \in Requests, Action(q), Phase(q), Make(q)
  PROVE  Make(q)'
  <1> USE DEF Goto, Answer
  <1>1. Target(q) \in Streams /\ making[q] \in Makings /\ snap[Target(q)] \in Rebuilt
    BY TargetType DEF TypeOK
  <1>2. CASE Snapshot(q)
    <2>1. /\ pc[q] = "snapshot" /\ log' = log
          /\ making[q].base \in Rebuilt /\ Prefix(making[q].base, Target(q))
      BY <1>1, <1>2 DEF Snapshot, Make, Makings
    <2>2. CASE SnapshotRead(q)
      <3>1. /\ pc' = pc /\ Target(q)' = Target(q)
            /\ making'[q].base = snap[Target(q)]
        BY <1>1, <2>2 DEF SnapshotRead, Target, Makings, TypeOK
      <3> QED BY <1>1, <2>1, <3>1 DEF Make, Prefix, SnapInv
    <2>3. CASE SnapshotReplay(q)
      <3>1. /\ pc' = pc /\ Target(q)' = Target(q)
            /\ making'[q].base = Replayed(Target(q), making[q].base)
        BY <1>1, <2>3 DEF SnapshotReplay, Target, Makings, TypeOK
      <3>2. making'[q].base = [state |-> log[Target(q)], version |-> Len(log[Target(q)])]
        BY <1>1, <2>1, <3>1, ReplayIsExact
      <3>3. Prefix(making'[q].base, Target(q))
        BY <1>1, <3>2, PrefixWhole
      <3> QED BY <2>1, <3>1, <3>3 DEF Make, Prefix
    <2>4. CASE SnapshotPosition(q)
      <3>1. /\ pc' = pc /\ Target(q)' = Target(q)
            /\ making'[q].base = making[q].base
        BY <1>1, <2>4 DEF SnapshotPosition, Target, Makings, TypeOK
      <3> QED BY <2>1, <3>1 DEF Make, Prefix
    <2>5. CASE SnapshotStore(q)
      <3>1. making'[q] = NotMaking /\ AfterAppend(q)
        BY <2>5 DEF SnapshotStore, TypeOK
      <3>2. pc'[q] \in {"commit", "next", "load"}
        BY <3>1, AfterAppendCases
      <3> QED BY <3>1, <3>2 DEF Make
    <2> QED BY <1>2, <2>2, <2>3, <2>4, <2>5 DEF Snapshot
  <1>3. CASE AppendEvent(q)
    <2>1. making' = making /\ making[q] = NotMaking
      BY <1>3 DEF AppendEvent, Make
    <2>2. /\ SubSeq(log'[Target(q)'], 1, 0) = <<>> /\ 0 <= Len(log'[Target(q)'])
      <3>1. log' \in [Streams -> Seq(EventsOf)]
        BY LogType
      <3>2. at'[q] \in 1 .. Len(AppendsOf(q))
        BY ControlType
      <3>3. Target(q)' \in Streams
        BY <3>2, AppendsAssumption DEF Target
      <3> QED BY <3>1, <3>3, SubSeqEmpty
    <2>3. Prefix(NoSnap, Target(q))'
      BY <2>2 DEF Prefix, NoSnap
    <2> QED BY <2>1, <2>3, NotMakingType DEF Make
  <1>4. CASE ~Snapshot(q) /\ ~AppendEvent(q)
    <2>1. making' = making /\ pc[q] # "snapshot" /\ pc[q] # "end" /\ pc'[q] # "snapshot"
      BY <1>4 DEF TypeOK, Phase, Action, Begin, Step, Check, LoadSnapshot, LoadEvents, ReadVersion,
                  Commit, Record, AppendFails, CommitFails
    <2> QED BY <2>1 DEF Make
  <1> QED BY <1>2, <1>3, <1>4

-----------------------------------------------------------------------------
(* Which events are whose.                                                 *)

\* A step of a call begins a new attempt after a conflict, or what the
\* attempt has appended stays appended.
LEMMA TriesStep ==
  ASSUME TypeOK, NEW q \in Requests, Action(q)
  PROVE  \/ /\ tries'[q] = tries[q]
            /\ \A k \in Nat : Past(q, k) => Past(q, k)'
         \/ /\ tries'[q] = tries[q] + 1 /\ at'[q] = 1 /\ pc[q] = "append" /\ log' = log
            /\ \/ pc'[q] = "load" /\ reply' = reply
               \/ pc'[q] = "end" /\ reply'[q] = "conflict"
  <1> USE DEF Goto, Answer
  <1>1. at[q] \in Nat
    BY DEF TypeOK
  <1>2. AfterAppend(q) => \A k \in Nat : k <= at[q] => Past(q, k)'
    BY <1>1, AfterAppendCases DEF Past
  <1>3. CASE AppendEvent(q)
    <2>1. CASE Conflict(q) /\ log' = log
      BY <1>3, <2>1 DEF AppendEvent, Conflict, TypeOK
    <2>2. CASE ~(Conflict(q) /\ log' = log)
      <3>1. tries' = tries /\ (AfterAppend(q) \/ (pc'[q] = "snapshot" /\ at' = at))
        BY <1>3, <2>2 DEF AppendEvent, TypeOK
      <3> QED BY <1>1, <1>2, <1>3, <3>1 DEF AppendEvent, Past
    <2> QED BY <2>1, <2>2
  <1>4. CASE Snapshot(q)
    BY <1>1, <1>2, <1>4, SnapshotMoves DEF Snapshot, Past
  <1>5. CASE ~AppendEvent(q) /\ ~Snapshot(q)
    <2>1. at' = at /\ tries' = tries
      BY <1>5 DEF Action, Begin, Step, Check, LoadSnapshot, LoadEvents, ReadVersion, Commit,
                  Record, AppendFails, CommitFails
    <2>2. pc[q] \in {"snapshot", "commit", "record", "end"} => pc'[q] \in {"record", "end"}
      BY <1>5 DEF TypeOK, Action, Begin, Step, Check, LoadSnapshot, LoadEvents, ReadVersion,
                  Commit, Record, AppendFails, CommitFails
    <2> QED BY <2>1, <2>2 DEF Past
  <1> QED BY <1>3, <1>4, <1>5

\* An append puts the event at the end and is then past.
LEMMA AppendEffect ==
  ASSUME TypeOK, NEW q \in Requests, Action(q), Appends(q)
  PROVE  /\ Target(q) \in Streams
         /\ log'[Target(q)] = Append(log[Target(q)], NewEvent(q))
         /\ \A s \in Streams \ {Target(q)} : log'[s] = log[s]
         /\ tries'[q] = tries[q] /\ pc'[q] \notin {"idle", "check"}
         /\ \A k \in Nat : k <= at[q] => Past(q, k)'
  <1> USE DEF Goto, Answer
  <1>1. at[q] \in Nat /\ Target(q) \in Streams
    BY TargetType DEF TypeOK
  <1>2. AppendEvent(q) \/ AppendFails(q)
    BY DEF Appends, Action, Begin, Step, Check, LoadSnapshot, LoadEvents, ReadVersion, Snapshot,
           Commit, Record, CommitFails
  <1>3. /\ tries' = tries
        /\ AfterAppend(q) \/ (pc'[q] \in {"snapshot", "end"} /\ at' = at)
    BY <1>2 DEF Appends, AppendEvent, AppendFails, TypeOK
  <1>4. pc'[q] \in {"commit", "next", "load", "snapshot", "end"}
    BY <1>3, AfterAppendCases
  <1>5. \A k \in Nat : k <= at[q] => Past(q, k)'
    BY <1>1, <1>3, AfterAppendCases DEF Past
  <1> QED BY <1>1, <1>3, <1>4, <1>5 DEF Appends, TypeOK

\* An event of a stream after a step was there before, or is the new one.
LEMMA EventSource ==
  ASSUME TypeOK, NEW q \in Requests, Action(q), NEW s \in Streams, NEW i \in 1 .. Len(log'[s])
  PROVE  /\ Len(log[s]) \in Nat
         /\ \/ i \in 1 .. Len(log[s]) /\ log'[s][i] = log[s][i]
            \/ /\ i = Len(log[s]) + 1 /\ Appends(q) /\ s = Target(q)
               /\ log'[s][i] = NewEvent(q)
  <1>1. log[s] \in Seq(EventsOf)
    BY DEF TypeOK
  <1>2. CASE log'[s] = log[s]
    BY <1>1, <1>2
  <1>3. CASE log'[s] # log[s]
    <2>1. Appends(q) /\ s = Target(q) /\ log'[s] = Append(log[s], NewEvent(q))
      BY <1>3, LogStep, AppendEffect
    <2> QED BY <1>1, <2>1
  <1> QED BY <1>2, <1>3

LEMMA EventType ==
  ASSUME NEW e \in EventsOf
  PROVE  e.req \in Requests /\ e.at \in Nat /\ e.attempt \in Nat /\ e.saw \in Nat
  BY DEF EventsOf

LEMMA CountTypes ==
  ASSUME TypeOK, NEW r \in Requests
  PROVE  at[r] \in Nat /\ tries[r] \in Nat
  BY AttemptsAssumption DEF TypeOK

\* A call without a further append to come has no event in its attempt.
LEMMA NothingYet ==
  ASSUME TypeOK, OwnedInv, NEW r \in Requests, NEW s \in Streams, NEW i \in 1 .. Len(log[s]),
         log[s][i].req = r, Len(AppendsOf(r)) = 1 \/ pc[r] \in {"idle", "check"}
  PROVE  pc[r] \in {"snapshot", "commit", "record", "end"}
  <1>1. PICK e \in EventsOf : e = log[s][i] /\ Owned(s, e) /\ e.req = r
    BY DEF OwnedInv, TypeOK
  <1>2. at[r] \in 1 .. Len(AppendsOf(r)) /\ tries[r] \in Nat /\ at[r] \in Nat /\ e.at \in Nat
    BY EventType, CountTypes DEF TypeOK
  <1>3. Len(AppendsOf(r)) = 1
    BY <1>1 DEF Owned
  <1>4. Past(r, e.at) /\ e.at \in 1 .. 1
    BY <1>1, <1>2, <1>3 DEF Owned
  <1> QED BY <1>2, <1>3, <1>4 DEF Past

LEMMA OwnedKept ==
  ASSUME TypeOK, OwnedInv, NEW q \in Requests, Action(q), NEW s \in Streams,
         NEW i \in 1 .. Len(log[s]), NEW e \in EventsOf, e = log[s][i]
  PROVE  Owned(s, e)'
  <1>1. Owned(s, e) /\ e.req \in Requests /\ e.at \in Nat /\ e.attempt \in Nat
    BY EventType DEF OwnedInv
  <1>2. CASE e.req # q
    <2>1. Same(e.req)
      BY <1>1, <1>2, Locality
    <2> QED BY <1>1, <2>1 DEF Owned, Past, Same
  <1>3. CASE e.req = q
    <2>1. pc[q] \notin {"idle", "check"}
      BY <1>1, <1>3 DEF Owned
    <2>2. pc'[q] \notin {"idle", "check"}
      BY <2>1, SnapshotMoves DEF TypeOK, Goto, Answer, AfterAppend, Conflict, Action, Begin, Step,
             Check, LoadSnapshot, LoadEvents, ReadVersion, AppendEvent, Snapshot, Commit, Record,
             AppendFails, CommitFails
    <2>3. tries[q] \in Nat
      BY CountTypes
    <2>4. CASE /\ tries'[q] = tries[q]
               /\ \A k \in Nat : Past(q, k) => Past(q, k)'
      <3>1. Past(q, e.at) => Past(q, e.at)'
        BY <1>1, <2>4
      <3> QED BY <1>1, <1>3, <2>2, <2>4, <3>1 DEF Owned
    <2>5. CASE tries'[q] = tries[q] + 1 /\ pc[q] = "append"
      <3>1. Len(AppendsOf(q)) # 1
        BY <1>3, <2>5, NothingYet
      <3>2. e.attempt < tries'[q]
        BY <1>1, <1>3, <2>3, <2>5 DEF Owned
      <3> QED BY <1>1, <1>3, <2>2, <3>1, <3>2 DEF Owned
    <2> QED BY <2>4, <2>5, TriesStep
  <1> QED BY <1>2, <1>3

LEMMA OwnedStep ==
  ASSUME TypeOK, OwnedInv, NEW q \in Requests, Action(q)
  PROVE  OwnedInv'
  <1> SUFFICES ASSUME NEW s \in Streams, NEW i \in 1 .. Len(log'[s]), NEW e, e = log'[s][i]
               PROVE  Owned(s, e)'
    BY DEF OwnedInv, Owned, Past
  <1>1. CASE i \in 1 .. Len(log[s]) /\ log'[s][i] = log[s][i]
    <2>1. e \in EventsOf
      BY <1>1 DEF TypeOK
    <2> QED BY <1>1, <2>1, OwnedKept
  <1>2. CASE Appends(q) /\ s = Target(q) /\ log'[s][i] = NewEvent(q)
    <2>1. e.req = q /\ e.at = at[q] /\ e.attempt = tries[q]
      BY <1>2 DEF NewEvent
    <2>2. e.at \in 1 .. Len(AppendsOf(q)) /\ e.at \in Nat /\ AppendsOf(q)[e.at] = s
      BY <1>2, <2>1 DEF TypeOK, Target
    <2>3. tries'[q] = tries[q] /\ pc'[q] \notin {"idle", "check"}
      BY <1>2, AppendEffect
    <2>4. Past(q, e.at)'
      <3>1. \A k \in Nat : k = at[q] => Past(q, k)'
        BY <1>2, AppendEffect, CountTypes
      <3> QED BY <2>1, <2>2, <3>1
    <2> QED BY <2>1, <2>2, <2>3, <2>4 DEF Owned
  <1> QED BY <1>1, <1>2, EventSource

LEMMA OrderStep ==
  ASSUME TypeOK, OwnedInv, OrderInv, NEW q \in Requests, Action(q)
  PROVE  OrderInv'
  <1> SUFFICES ASSUME NEW s \in Streams, NEW i \in 1 .. Len(log'[s]), NEW j \in 1 .. Len(log'[s]),
                      log'[s][i].req = log'[s][j].req,
                      log'[s][i].attempt = log'[s][j].attempt,
                      log'[s][i].at <= log'[s][j].at
               PROVE  i <= j
    BY DEF OrderInv
  <1>1. CASE i \in 1 .. Len(log[s]) /\ j \in 1 .. Len(log[s])
    <2>1. log'[s][i] = log[s][i]
      BY <1>1, EventSource
    <2>2. log'[s][j] = log[s][j]
      BY <1>1, EventSource
    <2> QED BY <1>1, <2>1, <2>2 DEF OrderInv
  <1>2. CASE j \notin 1 .. Len(log[s])
    BY <1>2, EventSource
  <1>3. CASE i \notin 1 .. Len(log[s]) /\ j \in 1 .. Len(log[s])
    <2>1. /\ Appends(q) /\ log'[s][i] = NewEvent(q) /\ log'[s][j] = log[s][j]
          /\ Owned(s, log[s][j]) /\ log[s][j] \in EventsOf
      <3>1. Appends(q) /\ log'[s][i] = NewEvent(q)
        BY <1>3, EventSource
      <3>2. log'[s][j] = log[s][j]
        BY <1>3, EventSource
      <3> QED BY <1>3, <3>1, <3>2 DEF OwnedInv, TypeOK
    <2>2. log[s][j].req = q /\ log[s][j].attempt = tries[q] /\ at[q] <= log[s][j].at
      BY <2>1 DEF NewEvent
    <2>3. tries[q] \in Nat /\ at[q] \in Nat /\ log[s][j].at \in Nat
      BY <2>1 DEF TypeOK, EventsOf
    <2>4. Past(q, log[s][j].at) /\ pc[q] = "append"
      BY <2>1, <2>2, <2>3 DEF Owned, Appends
    <2> QED BY <2>2, <2>3, <2>4 DEF Past
  <1> QED BY <1>1, <1>2, <1>3

-----------------------------------------------------------------------------
(* What a call has made, and what an answer is evidence of.                *)

LEMMA HasKept ==
  ASSUME TypeOK, NEW q \in Requests, Action(q), NEW r \in Requests, tries'[r] = tries[r],
         NEW k \in 1 .. Len(AppendsOf(r)), Has(r, k)
  PROVE  Has(r, k)'
  <1>1. AppendsOf(r)[k] \in Streams
    BY TargetType
  <1>2. PICK i \in 1 .. Len(log[AppendsOf(r)[k]]) : IsEvent(r, k, log[AppendsOf(r)[k]][i])
    BY DEF Has
  <1>3. i \in 1 .. Len(log'[AppendsOf(r)[k]]) /\ log'[AppendsOf(r)[k]][i] = log[AppendsOf(r)[k]][i]
    BY <1>1, <1>2, LogGrows
  <1> QED BY <1>2, <1>3 DEF Has, IsEvent

LEMMA HasNew ==
  ASSUME TypeOK, NEW q \in Requests, Action(q), Appends(q)
  PROVE  \A k : k = at[q] => Has(q, k)'
  <1> DEFINE n == Len(log[Target(q)]) + 1
  <1>1. log[Target(q)] \in Seq(EventsOf)
    BY TargetType DEF TypeOK
  <1>2. /\ log'[Target(q)] = Append(log[Target(q)], NewEvent(q)) /\ tries'[q] = tries[q]
    BY AppendEffect
  <1>3. n \in 1 .. Len(log'[Target(q)]) /\ log'[Target(q)][n] = NewEvent(q)
    BY <1>1, <1>2
  <1> QED BY SMTT(60), <1>2, <1>3 DEF Has, IsEvent, NewEvent, Target

LEMMA NoEventsKept ==
  ASSUME TypeOK, NEW q \in Requests, Action(q), NEW r \in Requests, NoEvents(r),
         r # q \/ log' = log
  PROVE  NoEvents(r)'
  <1> SUFFICES ASSUME NEW s \in Streams, NEW i \in 1 .. Len(log'[s]) PROVE log'[s][i].req # r
    BY DEF NoEvents
  <1>1. CASE i \in 1 .. Len(log[s]) /\ log'[s][i] = log[s][i]
    BY <1>1 DEF NoEvents
  <1>2. CASE log' = log
    BY <1>2 DEF NoEvents
  <1>3. CASE r # q /\ log'[s][i] = NewEvent(q)
    BY <1>3 DEF NewEvent
  <1> QED BY <1>1, <1>2, <1>3, EventSource

LEMMA MadeSame ==
  ASSUME TypeOK, NEW q \in Requests, Action(q), NEW r \in Requests, r # q, Made(r)
  PROVE  Made(r)'
  <1>1. Same(r)
    BY Locality
  <1>2. \A k : Past(r, k)' <=> Past(r, k)
    BY <1>1 DEF Same, Past
  <1>3. \A k \in 1 .. Len(AppendsOf(r)) : Has(r, k) => Has(r, k)'
    BY <1>1, HasKept DEF Same
  <1>4. NoEvents(r) => NoEvents(r)'
    BY NoEventsKept
  <1> QED BY <1>1, <1>2, <1>3, <1>4 DEF Made, Same

\* What is past after a step was past before it, or has just been appended.
LEMMA PastSource ==
  ASSUME TypeOK, NEW q \in Requests, Action(q),
         pc'[q] \notin {"idle", "check", "end"} \/ reply'[q] = "done", Phase(q),
         NEW k \in Nat \ {0}, Past(q, k)'
  PROVE  /\ tries'[q] = tries[q]
         /\ Past(q, k) \/ (k = at[q] /\ Appends(q))
  <1> USE DEF Goto, Answer
  <1>1. at[q] \in Nat /\ reply[q] \in {"none"} \union {reply[q]}
    BY CountTypes
  <1>2. AfterAppend(q) => k <= at[q]
    BY <1>1, AfterAppendCases DEF Past
  <1>3. CASE AppendEvent(q)
    <2>1. CASE Conflict(q) /\ log' = log
      <3>1. at'[q] = 1 /\ pc'[q] \in {"load", "end"} /\ reply'[q] # "done"
        BY <1>3, <2>1 DEF AppendEvent, Conflict, TypeOK, Phase
      <3> QED BY <3>1 DEF Past
    <2>2. CASE ~(Conflict(q) /\ log' = log)
      <3>1. tries' = tries /\ (AfterAppend(q) \/ (pc'[q] = "snapshot" /\ at' = at)) /\ Appends(q)
        BY <1>3, <2>2 DEF AppendEvent, TypeOK, Appends
      <3> QED BY <1>1, <1>2, <1>3, <3>1 DEF AppendEvent, Past
    <2> QED BY <2>1, <2>2
  <1>4. CASE Snapshot(q)
    BY <1>1, <1>2, <1>4, SnapshotMoves DEF Snapshot, Past
  <1>5. CASE ~AppendEvent(q) /\ ~Snapshot(q)
    <2>1. at' = at /\ tries' = tries
      BY <1>5 DEF Action, Begin, Step, Check, LoadSnapshot, LoadEvents, ReadVersion, Commit,
                  Record, AppendFails, CommitFails
    <2>2. pc'[q] \in {"check", "load", "replay", "append"} \/ pc[q] \in {"commit", "record"}
          \/ reply'[q] \in {"error", "replayed", "refused"}
      BY <1>5 DEF TypeOK, Action, Begin, Step, Check, LoadSnapshot, LoadEvents, ReadVersion,
                  Commit, Record, AppendFails, CommitFails
    <2>3. pc'[q] = "end" => reply'[q] = "done"
      BY DEF TypeOK
    <2>4. reply'[q] # "none" => pc'[q] = "end"
      BY PhaseStep DEF Phase
    <2> QED BY <1>1, <2>1, <2>2, <2>3, <2>4 DEF Past
  <1> QED BY <1>3, <1>4, <1>5

LEMMA MadeStep ==
  ASSUME TypeOK, OwnedInv, NEW q \in Requests, Action(q), Phase(q), Made(q)
  PROVE  Made(q)'
  <1> USE DEF Goto, Answer
  <1>1. pc[q] # "end" /\ reply[q] = "none"
    BY DEF Phase, Action, Begin, Step, Check, LoadSnapshot, LoadEvents, ReadVersion, AppendEvent,
           Snapshot, Commit, Record, AppendFails, CommitFails
  <1>2. ASSUME pc'[q] \notin {"idle", "check", "end"} \/ reply'[q] = "done",
               NEW k \in 1 .. Len(AppendsOf(q)), Past(q, k)'
        PROVE  Has(q, k)'
    <2>1. tries'[q] = tries[q] /\ (Past(q, k) \/ (k = at[q] /\ Appends(q)))
      BY <1>2, PastSource
    <2>2. CASE Appends(q) /\ k = at[q]
      BY <2>2, HasNew
    <2>3. CASE Past(q, k)
      <3>1. at[q] # 1 \/ pc[q] \notin {"idle", "check"}
        BY <2>3 DEF Past
      <3>2. pc[q] \notin {"idle", "check", "end"}
        BY <1>1, <3>1 DEF Phase
      <3> QED BY <2>1, <2>3, <3>2, HasKept DEF Made
    <2> QED BY <2>1, <2>2, <2>3
  <1>3. ASSUME reply'[q] = "done" PROVE at'[q] = Len(AppendsOf(q))
    BY <1>1, <1>3
    DEF Phase, TypeOK, Action, Begin, Step, Check, LoadSnapshot, LoadEvents, ReadVersion,
        AppendEvent, Conflict, Snapshot, Commit, Record, AppendFails, CommitFails
  <1>4. ASSUME reply'[q] \in {"refused", "replayed"} PROVE NoEvents(q)'
    <2>1. pc[q] = "check" /\ log' = log
      BY <1>1, <1>4
      DEF TypeOK, Action, Begin, Step, Check, LoadSnapshot, LoadEvents, ReadVersion,
          AppendEvent, Conflict, Snapshot, Commit, Record, AppendFails, CommitFails
    <2>2. NoEvents(q)
      BY <2>1, NothingYet DEF NoEvents
    <2> QED BY <2>1, <2>2, NoEventsKept
  <1>5. ASSUME reply'[q] = "conflict", Len(AppendsOf(q)) = 1 PROVE NoEvents(q)'
    <2>1. pc[q] = "append" /\ log' = log
      BY <1>1, <1>5
      DEF TypeOK, Action, Begin, Step, Check, LoadSnapshot, LoadEvents, ReadVersion,
          AppendEvent, Conflict, Snapshot, Commit, Record, AppendFails, CommitFails
    <2>2. NoEvents(q)
      BY <1>5, <2>1, NothingYet DEF NoEvents
    <2> QED BY <2>1, <2>2, NoEventsKept
  <1> QED BY <1>2, <1>3, <1>4, <1>5 DEF Made

LEMMA RecordType ==
  ASSUME TypeOK, NEW i \in Ids, NEW p \in record[i]
  PROVE  p \in Requests
  <1>1. record[i] \in {NoRecord} \union {{r} : r \in Requests}
    BY DEF TypeOK
  <1>2. CASE record[i] = NoRecord
    BY <1>2 DEF NoRecord
  <1>3. ASSUME NEW r \in Requests, record[i] = {r} PROVE p \in Requests
    BY <1>3
  <1> QED BY <1>1, <1>2, <1>3

LEMMA RecordStep ==
  ASSUME TypeOK, RecordInv, NEW q \in Requests, Action(q), \A r \in Requests : Phase(r)
  PROVE  RecordInv'
  <1>1. pc[q] # "end" /\ reply[q] = "none"
    BY DEF Phase, Action, Begin, Step, Check, LoadSnapshot, LoadEvents, ReadVersion, AppendEvent,
           Snapshot, Commit, Record, AppendFails, CommitFails
  <1>2. \A r \in Requests \ {q} : reply'[r] = reply[r]
    BY Locality DEF Same
  <1>3. CASE record' = record
    <2>1. reply'[q] = "done" => IdOf(q) = NoId
      <3>1. ~(Record(q) /\ record[IdOf(q)] = NoRecord)
        <4> SUFFICES ASSUME Record(q), record[IdOf(q)] = NoRecord PROVE FALSE
          OBVIOUS
        <4>1. IdOf(q) \in Ids
          BY IdAssumption DEF Record, Phase
        <4>2. record'[IdOf(q)] = {q}
          BY <4>1 DEF Record, TypeOK
        <4> QED BY <1>3, <4>2 DEF NoRecord
      <3> QED
        BY <1>1, <3>1 DEF TypeOK, Answer, Action, Begin, Step, Check, LoadSnapshot, LoadEvents,
          ReadVersion, AppendEvent, Conflict, Snapshot, Commit, Record, AppendFails, CommitFails
    <2>2. reply'[q] = "replayed" =>
            IdOf(q) # NoId /\ \E p \in record[IdOf(q)] : IntentOf(p) = IntentOf(q)
      BY <1>1 DEF TypeOK, Answer, Action, Begin, Step, Check, LoadSnapshot, LoadEvents,
        ReadVersion, AppendEvent, Conflict, Snapshot, Commit, Record, AppendFails, CommitFails
    <2>3. \A i \in Ids : \A p \in record[i] : p \in Requests
      BY RecordType
    <2> QED BY <1>1, <1>2, <1>3, <2>1, <2>2, <2>3 DEF RecordInv, NoRecord
  <1>4. CASE record' # record
    <2>1. /\ Record(q) /\ pc[q] = "record" /\ record[IdOf(q)] = NoRecord
          /\ record' = [record EXCEPT ![IdOf(q)] = {q}] /\ reply'[q] = "done"
      BY <1>4 DEF TypeOK, Answer, Action, Begin, Step, Check, LoadSnapshot, LoadEvents,
        ReadVersion, AppendEvent, Snapshot, Commit, Record, AppendFails, CommitFails
    <2>2. IdOf(q) \in Ids
      BY <2>1, IdAssumption DEF Phase
    <2>3. \A i \in Ids : record'[i] = IF i = IdOf(q) THEN {q} ELSE record[i]
      BY <2>1, <2>2 DEF TypeOK
    <2>4. \A i \in Ids : \A p \in record[i] : p \in Requests
      BY RecordType
    <2>5. \A r \in Requests : IdOf(r) # NoId => IdOf(r) \in Ids
      BY IdAssumption
    <2>6. \A r \in Requests \ {q} : reply[r] = "replayed" => IdOf(r) # IdOf(q)
      BY <2>1 DEF RecordInv, NoRecord
    <2>7. \A i \in Ids : \A p \in record'[i] : IdOf(p) = i /\ reply'[p] = "done"
      BY <1>1, <1>2, <2>1, <2>2, <2>3, <2>4 DEF RecordInv
    <2>8. \A r \in Requests : IdOf(r) # NoId /\ reply'[r] \in {"done", "replayed"} =>
            record'[IdOf(r)] # NoRecord
      BY <1>2, <2>1, <2>3, <2>5 DEF RecordInv, NoRecord
    <2>9. \A r \in Requests : reply'[r] = "replayed" =>
            IdOf(r) # NoId /\ \E p \in record'[IdOf(r)] : IntentOf(p) = IntentOf(r)
      BY <1>2, <2>1, <2>3, <2>5, <2>6 DEF RecordInv
    <2> QED BY <2>7, <2>8, <2>9 DEF RecordInv
  <1> QED BY <1>3, <1>4

LEMMA LaterStep ==
  ASSUME TypeOK, OwnedInv, RecordInv, NEW q \in Requests, Action(q), NEW r \in Requests,
         \A p \in Requests : Phase(p), Later(r)
  PROVE  Later(r)'
  <1> USE DEF Goto, Answer
  <1>1. pc[q] # "end" /\ reply[q] = "none"
    BY DEF Phase, Action, Begin, Step, Check, LoadSnapshot, LoadEvents, ReadVersion, AppendEvent,
           Snapshot, Commit, Record, AppendFails, CommitFails
  <1>2. Answered \subseteq Answered'
    BY <1>1, Locality DEF Answered, Same
  <1>3. CASE r # q
    <2>1. Same(r)
      BY <1>3, Locality
    <2>2. NoEvents(r) => NoEvents(r)'
      BY <1>3, NoEventsKept
    <2> QED BY <1>2, <2>1, <2>2 DEF Later, Same
  <1>4. CASE r = q /\ Begin(q)
    <2>1. before'[q] = Answered /\ pc'[q] = "check" /\ log' = log /\ pc[q] = "idle"
      BY <1>4 DEF Begin, TypeOK
    <2>2. NoEvents(q)
      BY <2>1, NothingYet DEF NoEvents
    <2>3. NoEvents(q)'
      BY <2>1, <2>2, NoEventsKept
    <2> QED BY <1>2, <1>4, <2>1, <2>3 DEF Later
  <1>5. CASE r = q /\ ~Begin(q)
    <2>1. before' = before /\ pc[q] # "idle"
      BY <1>5 DEF Action, Step, Check, LoadSnapshot, LoadEvents, ReadVersion, AppendEvent,
                  Snapshot, Commit, Record, AppendFails, CommitFails
    <2>2. ASSUME IdOf(q) # NoId, NEW p \in before[q], IdOf(p) = IdOf(q)
          PROVE  NoEvents(q)' /\ pc'[q] = "end"
      <3>1. pc[q] = "check" /\ NoEvents(q)
        BY <1>1, <1>5, <2>1, <2>2 DEF Later
      <3>2. Check(q)
        BY <1>5, <3>1 DEF Action, Step, LoadSnapshot, LoadEvents, ReadVersion, AppendEvent,
                  Snapshot, Commit, Record, AppendFails, CommitFails
      <3>3. record[IdOf(q)] # NoRecord
        <4>1. p \in Requests /\ reply[p] \in {"done", "replayed"}
          BY <1>5, <2>2 DEF Later, Answered
        <4> QED BY <2>2, <4>1 DEF RecordInv
      <3>4. pc'[q] = "end" /\ log' = log
        BY <2>2, <3>2, <3>3 DEF Check, TypeOK
      <3> QED BY <3>1, <3>4, NoEventsKept
    <2> QED BY <1>2, <1>5, <2>1, <2>2 DEF Later
  <1> QED BY <1>3, <1>4, <1>5

-----------------------------------------------------------------------------
(* The invariant.                                                          *)

LEMMA InvInit == Init => IInv
  <1> SUFFICES ASSUME Init PROVE IInv
    OBVIOUS
  <1>1. TypeOK
    BY TypeInit
  <1>2. SnapInv
    BY <1>1, NoSnapPrefix DEF SnapInv, Init
  <1>3. OwnedInv /\ OrderInv
    BY DEF Init, OwnedInv, OrderInv
  <1>4. RecordInv
    BY DEF Init, RecordInv, NoRecord
  <1>5. ASSUME NEW r \in Requests PROVE Phase(r) /\ Load(r) /\ Make(r) /\ Made(r) /\ Later(r)
    BY AttemptsAssumption DEF Init, Phase, Load, Make, Made, Later, Continues, NoEvents
  <1> QED BY <1>1, <1>2, <1>3, <1>4, <1>5 DEF IInv

LEMMA CrashStep == IInv /\ Crash => IInv'
  <1> SUFFICES ASSUME IInv, Crash PROVE IInv'
    OBVIOUS
  <1>1. /\ log' = log /\ snap' = snap /\ stored' = stored /\ record' = record /\ at' = at
        /\ loaded' = [r \in Requests |-> NoSnap] /\ making' = [r \in Requests |-> NotMaking]
        /\ tries' = tries /\ before' = before /\ faults' \in 0 .. MaxFaults
    BY FaultsAssumption DEF Crash, Fault, IInv, TypeOK
  <1>2. \A r \in Requests :
          \/ pc[r] = "idle" /\ pc'[r] = "idle" /\ reply'[r] = reply[r]
          \/ pc[r] = "end" /\ pc'[r] = "end" /\ reply'[r] = reply[r]
          \/ pc[r] \notin {"idle", "end"} /\ pc'[r] = "end" /\ reply[r] = "none" /\ reply'[r] = "error"
    BY DEF Crash, IInv, Phase
  <1>3. TypeOK'
    <2>1. NoSnap \in Rebuilt /\ NotMaking \in Makings
      BY NotMakingType DEF NoSnap, Rebuilt
    <2> QED BY <1>1, <2>1 DEF Crash, IInv, TypeOK
  <1>4. SnapInv' /\ OrderInv'
    BY <1>1 DEF IInv, SnapInv, OrderInv, Prefix
  <1>5. OwnedInv'
    <2> SUFFICES ASSUME NEW s \in Streams, NEW i \in 1 .. Len(log'[s]), NEW e, e = log'[s][i]
                 PROVE  Owned(s, e)'
      BY DEF OwnedInv, Owned, Past
    <2>1. e.req \in Requests /\ Owned(s, e)
      BY <1>1, EventType DEF IInv, TypeOK, OwnedInv
    <2> QED BY <1>1, <1>2, <2>1 DEF Owned, Past
  <1>6. RecordInv'
    <2>1. \A i \in Ids : \A p \in record[i] : p \in Requests /\ pc[p] = "end"
      BY RecordType DEF IInv, RecordInv, Phase
    <2> QED BY <1>1, <1>2, <2>1 DEF IInv, RecordInv
  <1>7. ASSUME NEW r \in Requests PROVE Phase(r)' /\ Load(r)' /\ Make(r)'
    BY <1>1, <1>2 DEF IInv, Phase, Load, Make, Continues, Target, Prefix
  <1>8. ASSUME NEW r \in Requests PROVE Made(r)'
    <2>1. \A k : Has(r, k)' <=> Has(r, k)
      BY <1>1 DEF Has, IsEvent
    <2>2. reply'[r] = "done" => reply[r] = "done" /\ pc[r] = "end" /\ pc'[r] = "end"
      BY <1>2 DEF IInv, Phase
    <2>3. reply'[r] = "done" => \A k : Past(r, k)' <=> Past(r, k)
      BY <1>1, <2>2 DEF Past
    <2>4. NoEvents(r)' <=> NoEvents(r)
      BY <1>1 DEF NoEvents
    <2> QED BY <1>1, <1>2, <2>1, <2>2, <2>3, <2>4 DEF IInv, Made
  <1>9. ASSUME NEW r \in Requests PROVE Later(r)'
    <2>1. Answered \subseteq Answered'
      BY <1>2 DEF Answered
    <2> QED BY <1>1, <1>2, <2>1 DEF IInv, Later, NoEvents
  <1> QED BY <1>3, <1>4, <1>5, <1>6, <1>7, <1>8, <1>9 DEF IInv

LEMMA ActionStep == ASSUME IInv, NEW q \in Requests, Action(q) PROVE IInv'
  <1>1. TypeOK' /\ SnapInv' /\ OwnedInv' /\ OrderInv' /\ RecordInv'
    BY TypeStep, SnapStep, OwnedStep, OrderStep, RecordStep DEF IInv
  <1>2. ASSUME NEW r \in Requests PROVE Phase(r)' /\ Load(r)' /\ Make(r)' /\ Made(r)' /\ Later(r)'
    <2>1. CASE r = q
      BY <2>1, PhaseStep, LoadStep, MakeStep, MadeStep, LaterStep DEF IInv
    <2>2. CASE r # q
      BY <2>2, Locality, PhaseSame, LoadSame, MakeSame, MadeSame, LaterStep DEF IInv
    <2> QED BY <2>1, <2>2
  <1> QED BY <1>1, <1>2 DEF IInv

LEMMA StutterStep == IInv /\ UNCHANGED vars => IInv'
  <1> SUFFICES ASSUME IInv, UNCHANGED vars PROVE IInv'
    OBVIOUS
  <1> USE DEF vars
  <1>1. TypeOK' /\ SnapInv' /\ OrderInv' /\ RecordInv'
    BY DEF IInv, TypeOK, SnapInv, OrderInv, RecordInv, Prefix
  <1>2. OwnedInv'
    BY DEF IInv, OwnedInv, Owned, Past
  <1>3. ASSUME NEW r \in Requests PROVE Phase(r)' /\ Load(r)' /\ Make(r)'
    BY DEF IInv, Phase, Load, Make, Continues, Target, Prefix
  <1>4. ASSUME NEW r \in Requests PROVE Made(r)'
    BY DEF IInv, Made, Past, Has, IsEvent, NoEvents
  <1>5. ASSUME NEW r \in Requests PROVE Later(r)'
    BY DEF IInv, Later, NoEvents, Answered
  <1> QED BY <1>1, <1>2, <1>3, <1>4, <1>5 DEF IInv

LEMMA InvStep == IInv /\ [Next]_vars => IInv'
  BY ActionStep, CrashStep, StutterStep DEF Next, Action

LEMMA IInvHolds == Spec => []IInv
  BY InvInit, InvStep, PTL DEF Spec

-----------------------------------------------------------------------------
(* The theorems.                                                           *)

\* Calls, streams, snapshots and records keep their types, whatever the
\* handlers append (execute_command and the event store).
THEOREM TypeCorrect == Spec => []TypeOK
  <1>1. IInv => TypeOK
    BY DEF IInv
  <1> QED BY <1>1, IInvHolds, PTL

\* A snapshot, and a state about to be decided on, hold exactly the events
\* up to their version, for any snapshot interval and any interleaving of
\* rebuilds, appends and snapshots (rebuild_state, maybe_snapshot).
THEOREM RebuildExact == Spec => []RebuildIsExact
  <1>1. IInv => RebuildIsExact
    BY DEF IInv, RebuildIsExact, SnapInv, Prefix, Load
  <1> QED BY <1>1, IInvHolds, PTL

\* The event of an append of the current attempt is in its stream once.
LEMMA HasOnce ==
  ASSUME IInv, NEW r \in Requests, NEW k \in 1 .. Len(AppendsOf(r)), Has(r, k)
  PROVE  \E i \in 1 .. Len(log[AppendsOf(r)[k]]) :
           {j \in 1 .. Len(log[AppendsOf(r)[k]]) :
              IsEvent(r, k, log[AppendsOf(r)[k]][j])} = {i}
  <1> DEFINE s == AppendsOf(r)[k]
  <1>1. s \in Streams /\ TypeOK
    BY TargetType DEF IInv
  <1>2. PICK i \in 1 .. Len(log[s]) : IsEvent(r, k, log[s][i])
    BY DEF Has
  <1>3. ASSUME NEW j \in 1 .. Len(log[s]), IsEvent(r, k, log[s][j]) PROVE j = i
    <2>1. log[s] \in Seq(EventsOf) /\ k \in Nat
      BY <1>1 DEF TypeOK
    <2>2. i <= j /\ j <= i
      BY <1>1, <1>2, <1>3, <2>1 DEF IInv, OrderInv, IsEvent
    <2> QED BY <2>1, <2>2
  <1> QED BY <1>2, <1>3

LEMMA InvAnswers == IInv => CallsDidAsAnswered
  <1> SUFFICES ASSUME IInv, NEW r \in Requests
               PROVE  LET n == Len(AppendsOf(r))
                          At(k) == {i \in 1 .. Len(log[AppendsOf(r)[k]]) :
                                      LET e == log[AppendsOf(r)[k]][i]
                                      IN e.req = r /\ e.at = k /\ e.attempt = tries[r]}
                      IN /\ reply[r] = "done" =>
                              /\ \A k \in 1 .. n : Cardinality(At(k)) = 1
                              /\ \A k, l \in 1 .. n : k < l /\ AppendsOf(r)[k] = AppendsOf(r)[l] =>
                                   \A i \in At(k), j \in At(l) : i < j
                              /\ n = 1 => Cardinality({i \in 1 .. Len(log[AppendsOf(r)[1]]) :
                                                         log[AppendsOf(r)[1]][i].req = r}) = 1
                         /\ n = 1 /\ reply[r] \in {"conflict", "refused", "replayed"} => Wrote(r) = {}
                         /\ reply[r] = "replayed" =>
                              \E q \in record[IdOf(r)] : IntentOf(q) = IntentOf(r)
    BY DEF CallsDidAsAnswered
  <1> DEFINE n == Len(AppendsOf(r))
             At(k) == {i \in 1 .. Len(log[AppendsOf(r)[k]]) :
                         LET e == log[AppendsOf(r)[k]][i]
                         IN e.req = r /\ e.at = k /\ e.attempt = tries[r]}
  <1>1. TypeOK /\ Made(r) /\ Phase(r) /\ n \in Nat \ {0}
    BY TargetType DEF IInv
  <1>2. \A k : At(k) = {i \in 1 .. Len(log[AppendsOf(r)[k]]) :
                         IsEvent(r, k, log[AppendsOf(r)[k]][i])}
    BY DEF IsEvent
  <1> HIDE DEF At
  <1>3. ASSUME reply[r] = "done", NEW k \in 1 .. n
        PROVE  Has(r, k) /\ \E i \in 1 .. Len(log[AppendsOf(r)[k]]) : At(k) = {i}
    <2>1. Past(r, k)
      BY <1>1, <1>3 DEF Made, Past, Phase
    <2>2. Has(r, k)
      BY <1>1, <1>3, <2>1 DEF Made
    <2>3. PICK i \in 1 .. Len(log[AppendsOf(r)[k]]) :
            {j \in 1 .. Len(log[AppendsOf(r)[k]]) : IsEvent(r, k, log[AppendsOf(r)[k]][j])} = {i}
      BY <2>2, HasOnce
    <2>4. At(k) = {i}
      BY <1>2, <2>3
    <2> QED BY <2>2, <2>4
  <1>4. ASSUME reply[r] = "done" PROVE \A k \in 1 .. n : Cardinality(At(k)) = 1
    BY <1>3, <1>4, FS_Singleton
  <1>5. ASSUME NEW k \in 1 .. n, NEW l \in 1 .. n, k < l, AppendsOf(r)[k] = AppendsOf(r)[l],
               NEW i \in At(k), NEW j \in At(l)
        PROVE  i < j
    <2> DEFINE s == AppendsOf(r)[k]
    <2>1. s \in Streams /\ i \in 1 .. Len(log[s]) /\ j \in 1 .. Len(log[s])
      BY <1>1, <1>2, <1>5, TargetType
    <2>2. /\ log[s][i].req = log[s][j].req /\ log[s][i].attempt = log[s][j].attempt
          /\ log[s][i].at = k /\ log[s][j].at = l
      BY <1>2, <1>5 DEF IsEvent
    <2>3. i <= j
      BY <1>5, <2>1, <2>2 DEF IInv, OrderInv
    <2>4. i # j
      BY <1>5, <2>2
    <2> QED BY <2>1, <2>3, <2>4
  <1>6. ASSUME reply[r] = "done", n = 1
        PROVE  Cardinality({i \in 1 .. Len(log[AppendsOf(r)[1]]) :
                              log[AppendsOf(r)[1]][i].req = r}) = 1
    <2> DEFINE s == AppendsOf(r)[1]
    <2>1. s \in Streams
      BY <1>1, TargetType
    <2>2. ASSUME NEW i \in 1 .. Len(log[s]), log[s][i].req = r PROVE IsEvent(r, 1, log[s][i])
      <3>1. PICK e \in EventsOf : e = log[s][i] /\ Owned(s, e)
        BY <1>1, <2>1 DEF IInv, OwnedInv, TypeOK
      <3>2. e.at \in 1 .. 1 /\ e.attempt = tries[r]
        BY <1>6, <2>2, <3>1 DEF Owned
      <3> QED BY <2>2, <3>1, <3>2 DEF IsEvent
    <2>3. {i \in 1 .. Len(log[s]) : log[s][i].req = r} = At(1)
      BY <1>2, <2>2 DEF IsEvent
    <2>4. 1 \in 1 .. n
      BY <1>6
    <2>5. Cardinality(At(1)) = 1
      BY <1>4, <1>6, <2>4
    <2> QED BY <2>3, <2>5
  <1>7. ASSUME n = 1, reply[r] \in {"conflict", "refused", "replayed"} PROVE Wrote(r) = {}
    BY <1>1, <1>7 DEF Made, Wrote, NoEvents
  <1>8. ASSUME reply[r] = "replayed"
        PROVE  \E q \in record[IdOf(r)] : IntentOf(q) = IntentOf(r)
    BY <1>8 DEF IInv, RecordInv
  <1> QED BY <1>4, <1>5, <1>6, <1>7, <1>8 DEF At

\* What an answer says is what the streams hold, and retrying a call that is
\* known to be done appends nothing, for any calls, handlers, conflicts,
\* failures and crashes (execute_command, run_command_with_retry).
THEOREM AnswersTrue == Spec => []AnswersAreTrue
  <1>1. IInv => RetryAppendsNothing
    BY DEF IInv, Later, RetryAppendsNothing, Wrote, NoEvents
  <1>2. IInv => AnswersAreTrue
    BY <1>1, InvAnswers DEF AnswersAreTrue
  <1> QED BY <1>2, IInvHolds, PTL

-----------------------------------------------------------------------------
(* CommandPath implements SerialStreams.                                   *)

\* Appending to a stream appends to its history.
LEMMA HistoryAppend ==
  ASSUME TypeOK, NEW q \in Requests, Action(q), Appends(q)
  PROVE  History' = [History EXCEPT ![Target(q)] =
                       Append(@, [req |-> q, saw |-> Len(loaded[q].state)])]
  <1> DEFINE x == [req |-> q, saw |-> Len(loaded[q].state)]
             s == Target(q)
             Row(e) == [req |-> e.req, saw |-> e.saw]
  <1>1. /\ s \in Streams /\ log[s] \in Seq(EventsOf)
        /\ log'[s] = Append(log[s], NewEvent(q))
        /\ \A t \in Streams \ {s} : log'[t] = log[t]
    BY AppendEffect DEF TypeOK
  <1>2. \A t \in Streams \ {s} : History'[t] = History[t]
    BY <1>1 DEF History
  <1>3. History'[s] = Append(History[s], x)
    <2>1. Len(log'[s]) = Len(log[s]) + 1 /\ Len(log[s]) \in Nat
      BY <1>1
    <2>2. /\ \A i \in 1 .. Len(log[s]) : log'[s][i] = log[s][i]
          /\ log'[s][Len(log[s]) + 1] = NewEvent(q)
      BY <1>1
    <2>3. History[s] = [i \in 1 .. Len(log[s]) |-> Row(log[s][i])]
      BY <1>1 DEF History
    <2>4. History'[s] = [i \in 1 .. Len(log[s]) + 1 |-> Row(log'[s][i])]
      BY <1>1, <2>1 DEF History
    <2>5. Row(NewEvent(q)) = x
      BY DEF NewEvent
    <2>6. Append(History[s], x) = [i \in 1 .. Len(log[s]) + 1 |->
                                     IF i <= Len(log[s]) THEN Row(log[s][i]) ELSE x]
      <3>1. History[s] \in Seq({Row(log[s][i]) : i \in 1 .. Len(log[s])})
        BY SMTT(60), <2>1, <2>3
      <3>2. Len(History[s]) = Len(log[s])
        BY <2>1, <2>3
      <3> QED BY <2>1, <2>3, <3>1, <3>2
    <2> HIDE DEF Row, x, s
    <2>7. ASSUME NEW i \in 1 .. Len(log[s]) + 1
          PROVE  Row(log'[s][i]) = IF i <= Len(log[s]) THEN Row(log[s][i]) ELSE x
      <3>1. CASE i <= Len(log[s])
        BY <2>1, <2>2, <3>1
      <3>2. CASE ~(i <= Len(log[s]))
        <4>1. i = Len(log[s]) + 1
          BY <2>1, <3>2
        <4> QED BY <2>2, <2>5, <3>2, <4>1
      <3> QED BY <3>1, <3>2
    <2> QED BY <2>4, <2>6, <2>7
  <1> QED BY <1>1, <1>2, <1>3 DEF History

LEMMA SerialInit == Init => Serial!Init
  BY DEF Init, Serial!Init, History, Answered

\* An event that does not continue its aggregate saw everything before it;
\* one that does follows an event of the same call.
LEMMA SerialAppend ==
  ASSUME IInv, NEW q \in Requests, Action(q), Appends(q)
  PROVE  Serial!Next
  <1>1. TypeOK /\ Load(q) /\ Made(q) /\ Phase(q)
    BY DEF IInv
  <1>2. /\ Target(q) \in Streams /\ log[Target(q)] \in Seq(EventsOf)
        /\ History[Target(q)] = [i \in 1 .. Len(log[Target(q)]) |->
              [req |-> log[Target(q)][i].req, saw |-> log[Target(q)][i].saw]]
    BY <1>1, TargetType DEF TypeOK, History
  <1>3. Len(History[Target(q)]) = Len(log[Target(q)]) /\ Len(log[Target(q)]) \in Nat
    BY <1>2
  <1>4. Answered' = Answered
    <2>1. reply[q] = "none" /\ reply'[q] \notin {"done", "replayed"}
      BY <1>1
      DEF Appends, Phase, TypeOK, Answer, Goto, Action, Begin, Step, Check, LoadSnapshot, LoadEvents,
          ReadVersion, AppendEvent, Conflict, Snapshot, Commit, Record, AppendFails, CommitFails
    <2> QED BY <1>1, <2>1, Locality DEF Answered, Same
  <1>5. pc[q] = "append" /\ Len(log[Target(q)]) = loaded[q].version
    BY DEF Appends
  <1>6. History' = [History EXCEPT ![Target(q)] =
                      Append(@, [req |-> q, saw |-> Len(loaded[q].state)])]
    BY <1>1, HistoryAppend
  <1>7. CASE ~Continues(q)
    <2>1. loaded[q].state = SubSeq(log[Target(q)], 1, Len(log[Target(q)]))
      BY <1>1, <1>5, <1>7 DEF Load, Prefix
    <2>2. Len(loaded[q].state) = Len(History[Target(q)])
      BY <1>2, <1>3, <2>1, SubSeqFull
    <2>3. Serial!Decide(q, Target(q))
      BY <1>4, <1>6, <2>2 DEF Serial!Decide
    <2> QED BY <1>2, <2>3 DEF Serial!Next
  <1>8. CASE Continues(q)
    <2> DEFINE k == at[q] - 1
    <2>1. k \in 1 .. Len(AppendsOf(q)) /\ k < at[q] /\ AppendsOf(q)[k] = Target(q)
      BY <1>1, <1>8 DEF Continues, TypeOK
    <2>2. Has(q, k)
      BY <1>1, <1>5, <2>1 DEF Made, Past
    <2>3. PICK i \in 1 .. Len(log[Target(q)]) : log[Target(q)][i].req = q
      BY <2>1, <2>2 DEF Has, IsEvent
    <2>4. Serial!Wrote(q, Target(q))
      BY <1>2, <1>3, <2>3 DEF Serial!Wrote
    <2>5. Len(loaded[q].state) \in 0 .. Len(History[Target(q)])
      <3>1. Len(loaded[q].state) \in Nat
        BY <1>1 DEF TypeOK, Rebuilt
      <3> QED BY <1>1, <1>3, <1>5, <3>1 DEF Load
    <2>6. Serial!Follow(q, Target(q))
      BY <1>4, <1>6, <2>4, <2>5 DEF Serial!Follow
    <2> QED BY <1>2, <2>6 DEF Serial!Next
  <1> QED BY <1>7, <1>8

\* A call that is done has written all its streams.
DoneWrote ==
  \A p \in Requests : reply[p] = "done" => \A s \in WritesOf(p) : Serial!Wrote(p, s)

LEMMA InvDone == IInv => DoneWrote
  <1> SUFFICES ASSUME IInv, NEW p \in Requests, reply[p] = "done", NEW s \in WritesOf(p)
               PROVE  Serial!Wrote(p, s)
    BY DEF DoneWrote
  <1>1. PICK k \in 1 .. Len(AppendsOf(p)) : s = AppendsOf(p)[k]
    BY DEF WritesOf
  <1>2. TypeOK /\ Made(p) /\ Phase(p) /\ s \in Streams
    BY <1>1, TargetType DEF IInv
  <1>3. Has(p, k)
    BY <1>2 DEF Made, Past, Phase
  <1>4. PICK i \in 1 .. Len(log[s]) : log[s][i].req = p
    BY <1>1, <1>3 DEF Has, IsEvent
  <1>5. History[s] = [j \in 1 .. Len(log[s]) |-> [req |-> log[s][j].req, saw |-> log[s][j].saw]]
        /\ Len(log[s]) \in Nat
    BY <1>2 DEF History, TypeOK
  <1>6. Len(History[s]) = Len(log[s])
    BY <1>5
  <1> QED BY <1>4, <1>5, <1>6 DEF Serial!Wrote

LEMMA InvDoneNext == IInv' => DoneWrote'
  BY InvDone, PTL

LEMMA SerialAnswer ==
  ASSUME IInv, IInv', NEW q \in Requests, Action(q), log' = log
  PROVE  Serial!Next \/ (History' = History /\ Answered' = Answered)
  <1>1. History' = History
    BY DEF History
  <1>2. CASE reply'[q] \notin {"done", "replayed"}
    <2>1. reply[q] \notin {"done", "replayed"}
      BY DEF IInv, Phase, Action, Begin, Step, Check, LoadSnapshot, LoadEvents, ReadVersion,
             AppendEvent, Snapshot, Commit, Record, AppendFails, CommitFails
    <2> QED BY <1>1, <1>2, <2>1, Locality DEF IInv, Answered, Same
  <1>3. CASE reply'[q] \in {"done", "replayed"}
    <2>1. Answered' = Answered \union {q}
      BY <1>3, Locality DEF IInv, Answered, Same
    <2>2. PICK p \in TwinsOf(q) : reply'[p] = "done"
      <3>1. CASE reply'[q] = "done"
        BY <3>1 DEF TwinsOf
      <3>2. CASE reply'[q] = "replayed"
        <4>1. PICK p \in record'[IdOf(q)] : TRUE
          BY <3>2 DEF IInv, RecordInv
        <4>2. IdOf(q) \in Ids /\ IdOf(q) # NoId
          BY <3>2, IdAssumption DEF IInv, RecordInv
        <4>3. record'[IdOf(q)] \in {NoRecord} \union {{r} : r \in Requests}
          BY <4>2 DEF IInv, TypeOK
        <4>4. p \in Requests
          BY <4>1, <4>3 DEF NoRecord
        <4>5. IdOf(p) = IdOf(q) /\ reply'[p] = "done"
          BY <4>1, <4>2 DEF IInv, RecordInv
        <4> QED BY <4>2, <4>4, <4>5 DEF TwinsOf
      <3> QED BY <1>3, <3>1, <3>2
    <2>3. p \in Requests
      BY DEF TwinsOf
    <2>4. \A s \in WritesOf(p) : Serial!Wrote(p, s)'
      BY <2>2, <2>3, InvDoneNext DEF DoneWrote
    <2>5. \A s \in WritesOf(p) : Serial!Wrote(p, s)
      BY <1>1, <2>4 DEF Serial!Wrote
    <2>6. Serial!Acknowledge(q)
      BY <1>1, <2>1, <2>5 DEF Serial!Acknowledge
    <2> QED BY <2>6 DEF Serial!Next
  <1> QED BY <1>2, <1>3

LEMMA SerialStep == IInv /\ IInv' /\ [Next]_vars => [Serial!Next]_<<History, Answered>>
  <1> SUFFICES ASSUME IInv, IInv', [Next]_vars
               PROVE  Serial!Next \/ (History' = History /\ Answered' = Answered)
    OBVIOUS
  <1>1. CASE UNCHANGED vars
    BY <1>1 DEF vars, History, Answered
  <1>2. CASE Crash
    <2>1. \A r \in Requests : reply'[r] \in {"done", "replayed"} <=> reply[r] \in {"done", "replayed"}
      BY <1>2 DEF Crash, IInv, Phase
    <2> QED BY <1>2, <2>1 DEF Crash, History, Answered
  <1>3. ASSUME NEW q \in Requests, Action(q)
        PROVE  Serial!Next \/ (History' = History /\ Answered' = Answered)
    BY <1>3, LogStep, SerialAppend, SerialAnswer
  <1> QED BY <1>1, <1>2, <1>3 DEF Next, Action

\* The write path implements SerialStreams: every append is a decision on all
\* that precedes it or follows its own command's events, and a success is
\* only answered when the events of a call with that command id are there.
THEOREM ImplementsSerial == Spec => SerialSpec
  <1>1. Init => Serial!Init
    BY SerialInit
  <1> QED BY <1>1, SerialStep, IInvHolds, PTL DEF Spec, SerialSpec, Serial!Spec
=============================================================================
