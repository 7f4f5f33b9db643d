---------------------------- MODULE StreamBroker ----------------------------
(***************************************************************************)
(* The in-memory stream broker (app/shared/in_memory_stream_broker.py) for *)
(* one stream key, with the threads that use it: the worker, finalizer and *)
(* stop-endpoint threads that publish, and the HTTP readers that resume a  *)
(* stream (app/features/agents/api.py and app/features/tasks/api.py).      *)
(*                                                                         *)
(* create_run replaces the broker object of the key.  The objects are      *)
(* numbered 1, 2, ... and run is the number of the one in the dictionary   *)
(* (0: none); an old object stays referenced by the reader it serves.  An  *)
(* event is its sequence number within its broker object.  A broker        *)
(* object's deque always holds the numbers first .. nextSeq - 1, because   *)
(* every append takes the next number and maxlen drops the oldest.         *)
(*                                                                         *)
(* publish_event appends under the lock and puts into the subscriber       *)
(* queues after releasing it, so those are separate steps here.            *)
(***************************************************************************)
EXTENDS Integers, Sequences, FiniteSets

CONSTANTS
  Publishers,   \* threads that can be inside publish_event at the same time
  Consumers,    \* resumed HTTP streams
  MaxEvents,    \* deque(maxlen=...)
  MaxRuns,      \* bound: broker objects created for the key
  MaxSeq        \* bound: events published to one broker object

\* Threads that publish: at least one, and finitely many.
ASSUME PublishersAssumption == IsFiniteSet(Publishers) /\ Publishers # {}
ASSUME MaxEventsAssumption == MaxEvents \in Nat \ {0}
ASSUME MaxRunsAssumption == MaxRuns \in Nat
ASSUME MaxSeqAssumption == MaxSeq \in Nat

Runs == 1 .. MaxRuns

VARIABLES
  run,       \* broker object currently stored under the key, 0 if none
  nextSeq,   \* [Runs -> next_seq]
  first,     \* [Runs -> oldest sequence number still in the deque]
  done,      \* [Runs -> done]
  subs,      \* [Runs -> set of consumers whose queue is registered]
  worker,    \* [Runs -> "none" | "live" | "final" | "over"], the run's producer
  finalSeq,  \* [Runs -> sequence numbers of the events of type "final"]
  puts,      \* [Publishers -> the event being put and the queues still to fill]
  cpc,       \* [Consumers -> "off" | "reading" | "checking"]
  want,      \* [Consumers -> the run the reader asked for]
  joined,    \* [Consumers -> whether subscribe_run registered the queue]
  base,      \* [Consumers -> the last event the subscription leaves out]
  replay,    \* [Consumers -> replayed events not yet yielded]
  queue,     \* [Consumers -> the subscriber queue]
  got        \* [Consumers -> events yielded since the subscription]

brokerVars == <<run, nextSeq, first, done, subs, finalSeq>>
readerVars == <<cpc, want, joined, base, replay, queue, got>>
vars == <<run, nextSeq, first, done, subs, worker, finalSeq, puts,
          cpc, want, joined, base, replay, queue, got>>

\* Fault variant: numbering from zero, as a list index would.
FirstSeqZero == 0

FirstSeq == 1   \* create_run's "next_seq"; since_seq = 0 asks for everything

NoPut == [run |-> 0, seq |-> 0, to |-> {}]

\* The types: sequence numbers start at 1, and brokers, publishers and readers
\* refer to runs by number, 0 for none (in_memory_stream_broker.py).
TypeOK ==
  /\ run \in 0 .. MaxRuns
  /\ nextSeq \in [Runs -> Nat \ {0}]
  /\ first \in [Runs -> Nat \ {0}]
  /\ done \in [Runs -> BOOLEAN]
  /\ subs \in [Runs -> SUBSET Consumers]
  /\ worker \in [Runs -> {"none", "live", "final", "over"}]
  /\ finalSeq \in [Runs -> SUBSET Nat]
  /\ puts \in [Publishers -> [run : 0 .. MaxRuns, seq : Nat, to : SUBSET Consumers]]
  /\ cpc \in [Consumers -> {"off", "reading", "checking"}]
  /\ want \in [Consumers -> 0 .. MaxRuns]
  /\ joined \in [Consumers -> BOOLEAN]
  /\ base \in [Consumers -> Nat]
  /\ replay \in [Consumers -> SUBSET Nat]
  /\ queue \in [Consumers -> Seq(Nat)]
  /\ got \in [Consumers -> SUBSET Nat]

Init ==
  /\ run = 0
  /\ nextSeq = [r \in Runs |-> FirstSeq]
  /\ first = [r \in Runs |-> 1]
  /\ done = [r \in Runs |-> FALSE]
  /\ subs = [r \in Runs |-> {}]
  /\ worker = [r \in Runs |-> "none"]
  /\ finalSeq = [r \in Runs |-> {}]
  /\ puts = [p \in Publishers |-> NoPut]
  /\ cpc = [c \in Consumers |-> "off"]
  /\ want = [c \in Consumers |-> 0]
  /\ joined = [c \in Consumers |-> FALSE]
  /\ base = [c \in Consumers |-> 0]
  /\ replay = [c \in Consumers |-> {}]
  /\ queue = [c \in Consumers |-> <<>>]
  /\ got = [c \in Consumers |-> {}]

-----------------------------------------------------------------------------
(* The producer side.                                                      *)

\* create_run: a new broker object takes the key; readers of the old object
\* keep their queues, and the old run's threads keep publishing by key.
CreateRun ==
  /\ run < MaxRuns
  /\ run' = run + 1
  /\ worker' = [worker EXCEPT ![run + 1] = "live"]
  /\ UNCHANGED <<nextSeq, first, done, subs, finalSeq, puts, readerVars>>

\* The locked part of publish_event: number and store the event in the
\* object currently under the key, copy its subscriber list.
Append1(p, isFinal) ==
  /\ puts[p] = NoPut
  /\ run # 0
  /\ nextSeq[run] <= MaxSeq
  /\ nextSeq' = [nextSeq EXCEPT ![run] = @ + 1]
  /\ first' = [first EXCEPT ![run] =
                 IF nextSeq[run] + 1 - @ > MaxEvents THEN @ + 1 ELSE @]
  /\ finalSeq' = [finalSeq EXCEPT ![run] =
                    IF isFinal THEN @ \union {nextSeq[run]} ELSE @]
  /\ puts' = [puts EXCEPT ![p] = [run |-> run, seq |-> nextSeq[run], to |-> subs[run]]]
  /\ UNCHANGED <<run, done, subs, readerVars>>

\* A run's worker thread, or a request to the stop endpoint, publishes.  The
\* stop endpoint publishes after it saw the run's cancel event, which may be
\* after the run has finished, or was replaced.
PublishEvent(p) ==
  /\ Append1(p, FALSE)
  /\ UNCHANGED worker

\* _finalize_once publishes the "final" event once per run.
PublishFinal(p, r) ==
  /\ worker[r] = "live"
  /\ Append1(p, TRUE)
  /\ worker' = [worker EXCEPT ![r] = "final"]

\* The unlocked part of publish_event: put_nowait into one copied queue.
PutOne(p, c) ==
  /\ c \in puts[p].to
  /\ queue' = [queue EXCEPT ![c] = Append(@, puts[p].seq)]
  /\ puts' = [puts EXCEPT ![p].to = @ \ {c}]
  /\ UNCHANGED <<brokerVars, worker, cpc, want, joined, base, replay, got>>

\* publish_event returns once every copied queue has the event.
PutEnd(p) ==
  /\ puts[p] # NoPut
  /\ puts[p].to = {}
  /\ puts' = [puts EXCEPT ![p] = NoPut]
  /\ UNCHANGED <<brokerVars, worker, readerVars>>

\* finish_run marks the object under the key as done, whoever's run ended;
\* it follows the publication of that run's final event.
FinishRun(r) ==
  /\ worker[r] = "final"
  /\ \A p \in Publishers : puts[p] # NoPut => puts[p].seq \notin finalSeq[puts[p].run]
  /\ worker' = [worker EXCEPT ![r] = "over"]
  /\ done' = [done EXCEPT ![run] = TRUE]
  /\ UNCHANGED <<run, nextSeq, first, subs, finalSeq, puts, readerVars>>

-----------------------------------------------------------------------------
(* The reader side.                                                        *)

MaxOf(a, b) == IF a > b THEN a ELSE b

\* The reader's queue object is dropped: late puts go to an orphan.
DropQueue(c) ==
  /\ subs' = [r \in Runs |-> subs[r] \ {c}]
  /\ puts' = [p \in Publishers |-> [puts[p] EXCEPT !.to = @ \ {c}]]
  /\ queue' = [queue EXCEPT ![c] = <<>>]

\* Fault variant: registers the queue in a later critical section than the
\* one that took the replay snapshot; one event can fall in between.
SubscribeLate(c, s) ==
  /\ cpc[c] = "off"
  /\ run # 0
  /\ s < nextSeq[run]
  /\ LET from == MaxOf(s + 1, first[run])
         missed == IF nextSeq[run] > from THEN {nextSeq[run] - 1} ELSE {}
         events == (from .. nextSeq[run] - 1) \ missed
     IN /\ ~(events = {} /\ done[run])
        /\ replay' = [replay EXCEPT ![c] = events]
        /\ base' = [base EXCEPT ![c] = from - 1]
  /\ cpc' = [cpc EXCEPT ![c] = "reading"]
  /\ want' = [want EXCEPT ![c] = run]
  /\ joined' = [joined EXCEPT ![c] = ~done[run]]
  /\ subs' = [subs EXCEPT ![run] = IF done[run] THEN @ ELSE @ \union {c}]
  /\ queue' = [queue EXCEPT ![c] = <<>>]
  /\ got' = [got EXCEPT ![c] = {}]
  /\ UNCHANGED <<run, nextSeq, first, done, finalSeq, worker, puts>>

\* Fault variant: publish_event iterates over the subscriber list itself
\* instead of a copy, so a queue registered during the puts is filled too.
SubscribeSharedList(c, s) ==
  /\ cpc[c] = "off"
  /\ run # 0
  /\ s < nextSeq[run]
  /\ LET from == MaxOf(s + 1, first[run])
         events == from .. nextSeq[run] - 1
     IN /\ ~(events = {} /\ done[run])
        /\ replay' = [replay EXCEPT ![c] = events]
        /\ base' = [base EXCEPT ![c] = from - 1]
  /\ cpc' = [cpc EXCEPT ![c] = "reading"]
  /\ want' = [want EXCEPT ![c] = run]
  /\ joined' = [joined EXCEPT ![c] = ~done[run]]
  /\ subs' = [subs EXCEPT ![run] = IF done[run] THEN @ ELSE @ \union {c}]
  /\ puts' = [p \in Publishers |-> IF puts[p].run = run /\ ~done[run]
                                  THEN [puts[p] EXCEPT !.to = @ \union {c}]
                                  ELSE puts[p]]
  /\ queue' = [queue EXCEPT ![c] = <<>>]
  /\ got' = [got EXCEPT ![c] = {}]
  /\ UNCHANGED <<run, nextSeq, first, done, finalSeq, worker>>

\* subscribe_run with since_seq = s for the run under the key: replay
\* snapshot and registration in one critical section.  A request for another
\* run, or with nothing to replay from a done one, ends in a 404 and changes
\* nothing.
Subscribe(c, s) ==
  /\ cpc[c] = "off"
  /\ run # 0
  /\ s < nextSeq[run]
  /\ LET from == MaxOf(s + 1, first[run])
         events == from .. nextSeq[run] - 1
     IN /\ ~(events = {} /\ done[run])
        /\ replay' = [replay EXCEPT ![c] = events]
        /\ base' = [base EXCEPT ![c] = from - 1]
  /\ cpc' = [cpc EXCEPT ![c] = "reading"]
  /\ want' = [want EXCEPT ![c] = run]
  /\ joined' = [joined EXCEPT ![c] = ~done[run]]
  /\ subs' = [subs EXCEPT ![run] = IF done[run] THEN @ ELSE @ \union {c}]
  /\ queue' = [queue EXCEPT ![c] = <<>>]
  /\ got' = [got EXCEPT ![c] = {}]
  /\ UNCHANGED <<run, nextSeq, first, done, finalSeq, worker, puts>>

\* The stream generator ends and its finally block unsubscribes.
Close(c) ==
  /\ cpc' = [cpc EXCEPT ![c] = "off"]
  /\ DropQueue(c)
  /\ UNCHANGED <<run, nextSeq, first, done, finalSeq, worker, want, joined, base>>

\* Yield the next replayed event.
YieldReplay(c) ==
  /\ cpc[c] = "reading"
  /\ \E n \in replay[c] :
       /\ \A m \in replay[c] : n <= m
       /\ replay' = [replay EXCEPT ![c] = @ \ {n}]
       /\ got' = [got EXCEPT ![c] = @ \union {n}]
  /\ UNCHANGED <<brokerVars, worker, puts, cpc, want, joined, base, queue>>

\* A finished run has nothing after the replay.
EndReplay(c) ==
  /\ cpc[c] = "reading"
  /\ replay[c] = {}
  /\ ~joined[c]
  /\ Close(c)
  /\ UNCHANGED <<replay, got>>

\* Fault variant: live events are yielded before the replay is finished.
YieldLiveEarly(c) ==
  /\ cpc[c] = "reading"
  /\ joined[c]
  /\ queue[c] # <<>>
  /\ got' = [got EXCEPT ![c] = @ \union {Head(queue[c])}]
  /\ IF Head(queue[c]) \in finalSeq[want[c]]
     THEN Close(c)
     ELSE /\ queue' = [queue EXCEPT ![c] = Tail(@)]
          /\ UNCHANGED <<brokerVars, worker, puts, cpc, want, joined, base>>
  /\ UNCHANGED replay

\* Get one live event from the queue and yield it; "final" ends the stream.
YieldLive(c) ==
  /\ cpc[c] = "reading"
  /\ replay[c] = {}
  /\ joined[c]
  /\ queue[c] # <<>>
  /\ got' = [got EXCEPT ![c] = @ \union {Head(queue[c])}]
  /\ IF Head(queue[c]) \in finalSeq[want[c]]
     THEN Close(c)
     ELSE /\ queue' = [queue EXCEPT ![c] = Tail(@)]
          /\ UNCHANGED <<brokerVars, worker, puts, cpc, want, joined, base>>
  /\ UNCHANGED replay

\* queue.get times out on an empty queue ...
TimeOut(c) ==
  /\ cpc[c] = "reading"
  /\ replay[c] = {}
  /\ joined[c]
  /\ queue[c] = <<>>
  /\ cpc' = [cpc EXCEPT ![c] = "checking"]
  /\ UNCHANGED <<brokerVars, worker, puts, want, joined, base, replay, queue, got>>

\* Fault variant: the reader of a replaced run is not told to stop.
CheckStateDoneOnly(c) ==
  /\ cpc[c] = "checking"
  /\ IF done[want[c]]
     THEN Close(c)
     ELSE /\ cpc' = [cpc EXCEPT ![c] = "reading"]
          /\ UNCHANGED <<brokerVars, worker, puts, want, joined, base, queue>>
  /\ UNCHANGED <<replay, got>>

\* ... and then current_state decides, in a critical section of its own.
CheckState(c) ==
  /\ cpc[c] = "checking"
  /\ IF want[c] # run \/ done[run]
     THEN Close(c)
     ELSE /\ cpc' = [cpc EXCEPT ![c] = "reading"]
          /\ UNCHANGED <<brokerVars, worker, puts, want, joined, base, queue>>
  /\ UNCHANGED <<replay, got>>

\* The client goes away in the middle of a stream.
Disconnect(c) ==
  /\ cpc[c] # "off"
  /\ Close(c)
  /\ UNCHANGED <<replay, got>>

Read(c) ==
  \/ YieldReplay(c)
  \/ EndReplay(c)
  \/ YieldLive(c)
  \/ TimeOut(c)
  \/ CheckState(c)

Next ==
  \/ CreateRun
  \/ \E p \in Publishers : PublishEvent(p)
  \/ \E p \in Publishers, r \in Runs : PublishFinal(p, r)
  \/ \E p \in Publishers, c \in Consumers : PutOne(p, c)
  \/ \E p \in Publishers : PutEnd(p)
  \/ \E r \in Runs : FinishRun(r)
  \/ \E c \in Consumers, s \in 0 .. MaxSeq : Subscribe(c, s)
  \/ \E c \in Consumers : Read(c)
  \/ \E c \in Consumers : Disconnect(c)

Spec == Init /\ [][Next]_vars

\* The server keeps iterating an open stream's generator.
FairSpec == Spec /\ \A c \in Consumers : WF_vars(Read(c))

-----------------------------------------------------------------------------
(* Properties.                                                             *)

\* A reader whose queue subscribe_run registered.
Live(c) == cpc[c] # "off" /\ joined[c]

Queued(c) == {queue[c][i] : i \in 1 .. Len(queue[c])}
InFlight(c) == {puts[p].seq : p \in {q \in Publishers : c \in puts[q].to}}

\* Every event of the run after the subscription's starting point has been
\* yielded, is still to be replayed, is in the queue, or is about to be put
\* there, and nothing else is.
HandoffComplete ==
  \A c \in Consumers : Live(c) =>
    replay[c] \union got[c] \union Queued(c) \union InFlight(c)
      = base[c] + 1 .. nextSeq[want[c]] - 1

\* No event is on its way twice, or comes again after it was yielded.
NoDuplicateDelivery ==
  \A c \in Consumers : Live(c) =>
    /\ replay[c] \intersect got[c] = {}
    /\ (replay[c] \union got[c]) \intersect (Queued(c) \union InFlight(c)) = {}
    /\ Queued(c) \intersect InFlight(c) = {}
    /\ \A i, j \in 1 .. Len(queue[c]) : queue[c][i] = queue[c][j] => i = j
    /\ \A p, q \in Publishers :
         (c \in puts[p].to /\ c \in puts[q].to /\ puts[p].seq = puts[q].seq) => p = q

\* Events of two publishing threads may reach a reader in the other order,
\* because they are put after the lock is released, but a reader never runs
\* ahead of more than the other publishers' events: with one publisher it
\* yields consecutive numbers, which is what resuming from the last number
\* relies on.
Overtaken(c) == {n \in base[c] + 1 .. nextSeq[want[c]] : n \notin got[c] /\ \E m \in got[c] : n < m}

OvertakingBounded ==
  \A c \in Consumers : Live(c) => Cardinality(Overtaken(c)) < Cardinality(Publishers)

\* Replay and live delivery join without a gap and without an overlap, which
\* is what subscribe_run's single critical section is for, and in an order in
\* which only concurrent publishers overtake each other.
DeliveryIsExact == HandoffComplete /\ NoDuplicateDelivery /\ OvertakingBounded

\* A stream does not outlive its run: once the run is done or replaced every
\* reader of it ends, although nobody puts a message into its queue.
StreamsEnd ==
  \A c \in Consumers :
    (cpc[c] # "off" /\ (want[c] # run \/ done[want[c]])) ~> (cpc[c] = "off")
=============================================================================
