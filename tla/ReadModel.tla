------------------------------ MODULE ReadModel ------------------------------
(***************************************************************************)
(* The SQL read model of one aggregate: the write-through projection of    *)
(* append_event (app/shared/eventing.py) and the persistent-subscription   *)
(* worker (app/shared/eventing_projections.py) both apply the aggregate's  *)
(* events to its row with project_event (app/shared/eventing_rebuild.py).  *)
(*                                                                         *)
(* An event is its version; log[n] is the set of fields event n touches,   *)
(* and a field of the row holds the version of the event that wrote it.    *)
(* Event 1 creates the row and writes every field.                         *)
(*                                                                         *)
(* The server side of the subscription (which events are delivered, acked  *)
(* or parked for a retry) is Kurrent's; it is modelled as the worker uses  *)
(* it: in order, except for events that were nacked, which come again.     *)
(***************************************************************************)
EXTENDS Integers, Sequences, FiniteSets

CONSTANTS
  Fields,
  Buffer,       \* PERSISTENT_SUBSCRIPTION_EVENT_BUFFER_SIZE
  MaxRetries,   \* PERSISTENT_SUBSCRIPTION_READ_MODEL_MAX_EVENT_RETRIES
  Overlap,      \* bound: whether calls that append to the aggregate overlap
  MaxLog,       \* bound: events of the aggregate
  MaxRestarts   \* bound: lost connections and restarts

ASSUME BufferAssumption == Buffer \in Nat \ {0}
ASSUME MaxRetriesAssumption == MaxRetries \in Nat \ {0}
ASSUME OverlapAssumption == Overlap \in BOOLEAN
ASSUME BoundsAssumption == MaxLog \in Nat /\ MaxRestarts \in Nat

VARIABLES
  log,        \* the stream: [fields touched] by version
  pending,    \* events whose write-through has not been committed yet
  columns,    \* the row: [Fields -> version], or the empty function: no row
  buffer,     \* delivered events the worker has still to take
  unflushed,  \* acks the worker has made that are not sent yet
  acked,      \* events the server has the ack of
  failed,     \* _projection_event_failures, by event
  dropped,    \* events acknowledged without being applied (history)
  overlapped, \* an event was appended before the commit of an earlier one (history)
  hasFailed,  \* a projection has failed in the worker (history)
  restarts    \* restarts so far

rowVars == <<log, pending, columns, buffer, unflushed, acked, failed, dropped, overlapped,
            hasFailed, restarts>>

Versions == 1 .. MaxLog
Appended == 1 .. Len(log)
EmptyRow == [f \in {} |-> 0]
InBuffer == {buffer[i] : i \in 1 .. Len(buffer)}

\* The types: failures are counted up to the retry limit of the worker, and
\* only stored events are delivered, projected or acknowledged.
RowTypeOK ==
  /\ log \in Seq((SUBSET Fields) \ {{}}) /\ Len(log) <= MaxLog
  /\ pending \subseteq Appended
  /\ columns \in {EmptyRow} \union [Fields -> Appended]
  /\ buffer \in Seq(Appended) /\ Len(buffer) <= Buffer
  /\ unflushed \subseteq Appended
  /\ acked \subseteq Appended
  /\ failed \in [Versions -> 0 .. MaxRetries - 1]
  /\ dropped \subseteq Appended
  /\ overlapped \in BOOLEAN
  /\ hasFailed \in BOOLEAN
  /\ restarts \in 0 .. MaxRestarts

RowInit ==
  /\ log = <<>>
  /\ pending = {}
  /\ columns = EmptyRow
  /\ buffer = <<>>
  /\ unflushed = {}
  /\ acked = {}
  /\ failed = [n \in Versions |-> 0]
  /\ dropped = {}
  /\ overlapped = FALSE
  /\ hasFailed = FALSE
  /\ restarts = 0

\* project_event: an upsert for the creating event, an update of the touched
\* fields of an existing row for the others.  It does not look at versions.
Apply(n, r) ==
  IF n = 1
  THEN [f \in Fields |-> 1]
  ELSE [f \in DOMAIN r |-> IF f \in log[n] THEN n ELSE r[f]]

-----------------------------------------------------------------------------
(* append_event and the commit of the call around it.                      *)

AppendToLog ==
  /\ Len(log) < MaxLog
  /\ Overlap \/ pending = {}
  /\ \E touched \in (SUBSET Fields) \ {{}} :
       log' = Append(log, IF log = <<>> THEN Fields ELSE touched)
  /\ pending' = pending \union {Len(log) + 1}
  /\ overlapped' = (overlapped \/ pending # {})
  /\ UNCHANGED <<columns, buffer, unflushed, acked, failed, dropped, hasFailed, restarts>>

\* The write-through projection takes effect with the commit.
WriteThrough(n) ==
  /\ n \in pending
  /\ columns' = Apply(n, columns)
  /\ pending' = pending \ {n}
  /\ UNCHANGED <<log, buffer, unflushed, acked, failed, dropped, overlapped, hasFailed, restarts>>

\* The call raises or dies after the append: the event stays, the SQL
\* transaction does not.
WriteLost(n) ==
  /\ n \in pending
  /\ pending' = pending \ {n}
  /\ UNCHANGED <<log, columns, buffer, unflushed, acked, failed, dropped, overlapped, hasFailed,
                 restarts>>

-----------------------------------------------------------------------------
(* The worker.                                                             *)

\* The server pushes the first event that is neither acked nor on its way.
\* (A nacked event is no longer on its way.)
Undelivered == Appended \ (acked \union unflushed \union InBuffer)

Deliver ==
  /\ Len(buffer) < Buffer
  /\ \E n \in Undelivered :
       /\ \A m \in Undelivered : n <= m
       /\ buffer' = Append(buffer, n)
  /\ UNCHANGED <<log, pending, columns, unflushed, acked, failed, dropped, overlapped,
                 hasFailed, restarts>>

\* Fault variant: the ack is made before the projection is committed, and
\* the commit does not happen when the connection is lost.
ProcessAckFirst ==
  /\ buffer # <<>>
  /\ buffer' = Tail(buffer)
  /\ \/ columns' = Apply(Head(buffer), columns) /\ UNCHANGED restarts
     \/ restarts < MaxRestarts /\ restarts' = restarts + 1 /\ UNCHANGED columns
  /\ failed' = [failed EXCEPT ![Head(buffer)] = 0]
  /\ unflushed' = unflushed \union {Head(buffer)}
  /\ UNCHANGED <<log, pending, acked, dropped, overlapped, hasFailed>>

\* project_event and commit, then ack.  A duplicate-key error means that the
\* write-through has inserted the row meanwhile, and counts as success.
Process ==
  /\ buffer # <<>>
  /\ columns' = Apply(Head(buffer), columns)
  /\ buffer' = Tail(buffer)
  /\ failed' = [failed EXCEPT ![Head(buffer)] = 0]
  /\ unflushed' = unflushed \union {Head(buffer)}
  /\ UNCHANGED <<log, pending, acked, dropped, overlapped, hasFailed, restarts>>

\* Fault variant: the failure count is not kept.
FailNoCount ==
  /\ buffer # <<>>
  /\ hasFailed' = TRUE
  /\ buffer' = Tail(buffer)
  /\ UNCHANGED <<log, pending, columns, unflushed, acked, failed, dropped, overlapped, restarts>>

\* Fault variant: one failure more than the limit is retried.
FailOneMore ==
  /\ buffer # <<>>
  /\ hasFailed' = TRUE
  /\ LET n == Head(buffer)
     IN IF failed[n] >= MaxRetries
        THEN /\ failed' = [failed EXCEPT ![n] = 0]
             /\ unflushed' = unflushed \union {n}
             /\ dropped' = dropped \union {n}
        ELSE /\ failed' = [failed EXCEPT ![n] = @ + 1]
             /\ UNCHANGED <<unflushed, dropped>>
  /\ buffer' = Tail(buffer)
  /\ UNCHANGED <<log, pending, columns, acked, overlapped, restarts>>

\* project_event or the commit raises, for an event that cannot be applied
\* every time: nack, or ack after too many failures.
Fail ==
  /\ buffer # <<>>
  /\ hasFailed' = TRUE
  /\ LET n == Head(buffer)
     IN IF failed[n] + 1 >= MaxRetries
        THEN /\ failed' = [failed EXCEPT ![n] = 0]
             /\ unflushed' = unflushed \union {n}
             /\ dropped' = dropped \union {n}
        ELSE /\ failed' = [failed EXCEPT ![n] = @ + 1]
             /\ UNCHANGED <<unflushed, dropped>>
  /\ buffer' = Tail(buffer)
  /\ UNCHANGED <<log, pending, columns, acked, overlapped, restarts>>

\* Acks are sent in batches.
Flush ==
  /\ unflushed # {}
  /\ acked' = acked \union unflushed
  /\ unflushed' = {}
  /\ UNCHANGED <<log, pending, columns, buffer, failed, dropped, overlapped, hasFailed, restarts>>

\* The subscription breaks or the process restarts: what was not acked is
\* delivered again.  A new process has no failure counts.
Restart ==
  /\ restarts < MaxRestarts
  /\ restarts' = restarts + 1
  /\ buffer' = <<>>
  /\ unflushed' = {}
  /\ failed' \in {failed, [n \in Versions |-> 0]}
  /\ UNCHANGED <<log, pending, columns, acked, dropped, overlapped, hasFailed>>

RowNext ==
  \/ AppendToLog
  \/ \E n \in Versions : WriteThrough(n) \/ WriteLost(n)
  \/ Deliver \/ Process \/ Fail \/ Flush
  \/ Restart

RowSpec == RowInit /\ [][RowNext]_rowVars

\* The worker keeps taking events from its subscription.
RowFairSpec == RowSpec /\ WF_rowVars(Deliver) /\ WF_rowVars(Process \/ Fail) /\ WF_rowVars(Flush)

-----------------------------------------------------------------------------
(* Properties.                                                             *)

\* The row that replaying the log in order gives.
Replayed ==
  IF log = <<>>
  THEN EmptyRow
  ELSE [f \in Fields |-> CHOOSE n \in Appended :
          f \in log[n] /\ \A m \in Appended : f \in log[m] => m <= n]

\* Nothing is under way: every call has ended, every event is acknowledged.
Settled == pending = {} /\ acked = Appended

\* As documented: when nothing is under way the read model is the replay of
\* the log, whatever failed on the way.
SettledRowIsReplay == Settled => columns = Replayed

\* As long as no projection has failed in the worker and no two calls have
\* overlapped on the aggregate this is so, even if calls died between the
\* append and the commit and the worker lost its connection in between: what
\* a lost write-through or a lost batch of acks leaves behind, the worker
\* repairs.
CleanRowIsReplay == ~hasFailed /\ ~overlapped => SettledRowIsReplay

\* No event blocks the subscription: one whose projection fails every time
\* is given up after MaxRetries failures and acknowledged, and so are those
\* behind it.
EveryEventIsAcked == \A n \in Versions : n \in Appended ~> n \in acked
=============================================================================
