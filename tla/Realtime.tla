------------------------------- MODULE Realtime -------------------------------
(***************************************************************************)
(* The wake-up path of the browser for one workspace: database sessions    *)
(* that queue its realtime channel (append_event, app/shared/eventing.py), *)
(* the session hooks and the subscription hub (app/shared/realtime.py),    *)
(* and the SSE streams of /api/notifications/stream                        *)
(* (app/features/notifications/api.py) with their two cursors.             *)
(*                                                                         *)
(* A signal carries no data: the stream wakes up, reads the Notification   *)
(* and ActivityLog rows after its two cursors and sends them; only if that *)
(* sends nothing does a commit's signal send an empty refresh event.  The  *)
(* client (useRealtimeEffects.ts) fetches its views for a refresh and for  *)
(* a row of the project it shows, but not for a notification, which it     *)
(* puts into its list, for a row of another project or for a provider's    *)
(* sign-in.                                                                *)
(*                                                                         *)
(* A change is an event's effect on the read model: with an ActivityLog    *)
(* row of the shown project ("view") or of another ("elsewhere"), a        *)
(* Notification row of the user ("notice"), or no row of either            *)
(* ("silent").  Changes are numbered in the order of insertion, which is   *)
(* the order of the cursors, and become visible when their transaction     *)
(* commits.                                                                *)
(*                                                                         *)
(* Left out: the refresh event after a change of the user's own row, which *)
(* only makes a client fetch once more; and that the client itself drops a *)
(* fetch within 1.2 s of its last: told is what the stream announces.      *)
(*                                                                         *)
(* The write-through projection of every event runs in a SAVEPOINT.        *)
(* SQLAlchemy fires the session's after_commit and after_rollback hooks    *)
(* for a SAVEPOINT as it does for the transaction.                         *)
(***************************************************************************)
EXTENDS Integers, Sequences, FiniteSets

CONSTANTS
  Sessions,       \* request threads with a database session of their own
  Readers,        \* clients with an SSE stream on the workspace
  QueueSize,      \* queue_size of a subscription
  ActivityLimit,  \* limit of a read of the ActivityLog
  NoticeLimit,    \* limit of a read of the notifications
  MaxChanges,     \* bound: changes ever made
  MaxAuth,        \* bound: signals of the sign-in of a provider
  MaxConnects,    \* bound: connections made
  WorkerRows      \* whether the projection worker makes changes too

ASSUME QueueSizeAssumption == QueueSize \in Nat \ {0}
ASSUME LimitAssumption == ActivityLimit \in Nat \ {0} /\ NoticeLimit \in Nat \ {0}
ASSUME RealtimeBoundsAssumption == MaxChanges \in Nat /\ MaxAuth \in Nat /\ MaxConnects \in Nat
ASSUME WorkerRowsAssumption == WorkerRows \in BOOLEAN

VARIABLES
  changes,    \* the changes by number: their kind, open, visible or gone, and
              \* whether the request that appended the event made it, or the worker,
              \* perhaps with the request still to come to it
  wpc,        \* [Sessions -> "idle" | "open" | "committed"]
  wrote,      \* [Sessions -> changes of the open transaction]
  pending,    \* [Sessions -> whether session.info holds the channel]
  rpc,        \* [Readers -> where the stream is]
  queue,      \* [Readers -> signals in the subscriber's queue]
  scheduled,  \* [Readers -> signals handed to the event loop]
  cursor,     \* [Readers -> [Feeds -> activity_cursor, notification_cursor]]
  page,       \* [Readers -> [Feeds -> rows read and not sent yet]]
  woken,      \* [Readers -> the signal received in this round, or "none"]
  found,      \* [Readers -> rows the reads could have returned] (history)
  sent,       \* [Readers -> rows sent on this connection] (history)
  told,       \* [Readers -> changes announced to the client] (history)
  hushed,     \* [Readers -> changes whose last signal sent other events, for which
              \*  the client fetches nothing, and so no refresh] (history)
  auths,      \* sign-in signals so far
  connects    \* connections made so far

writerVars == <<changes, wpc, wrote, pending>>
history == <<found, sent, told, hushed>>
bounds == <<auths, connects>>
vars == <<changes, wpc, wrote, pending, rpc, queue, scheduled, cursor, page, woken,
          found, sent, told, hushed, auths, connects>>

Changes == DOMAIN changes
Visible == {n \in Changes : changes[n].state = "visible"}
Feeds == {"activity", "notice"}
Signals == {"commit", "auth"}
Kinds == {"view", "elsewhere", "notice", "silent"}

\* The kinds of the changes whose rows a feed reads, and how many of them.
KindsOf(f) == IF f = "activity" THEN {"view", "elsewhere"} ELSE {"notice"}
Limit(f) == IF f = "activity" THEN ActivityLimit ELSE NoticeLimit

Rows(f) == {n \in Visible : changes[n].kind \in KindsOf(f)}
Last(S) == IF S = {} THEN 0 ELSE CHOOSE n \in S : \A m \in S : m <= n

\* The types: the queue of a subscriber never exceeds its bound, and cursors
\* stand on rows that exist (realtime.py, notifications/api.py).
TypeOK ==
  /\ changes \in Seq([kind : Kinds, state : {"open", "visible", "gone"},
                     by : {"request", "worker", "worker_first"}])
  /\ wpc \in [Sessions -> {"idle", "open", "committed"}]
  /\ wrote \in [Sessions -> SUBSET Changes]
  /\ pending \in [Sessions -> BOOLEAN]
  /\ rpc \in [Readers -> {"off", "connecting", "flush", "waiting", "sending"}]
  /\ queue \in [Readers -> Seq(Signals)]
  /\ \A r \in Readers : Len(queue[r]) <= QueueSize
  /\ scheduled \in [Readers -> Seq(Signals)]
  /\ cursor \in [Readers -> [Feeds -> 0 .. Len(changes)]]
  /\ page \in [Readers -> [Feeds -> SUBSET Changes]]
  /\ \A r \in Readers, f \in Feeds : Cardinality(page[r][f]) <= Limit(f)
  /\ woken \in [Readers -> Signals \union {"none"}]
  /\ found \in [Readers -> SUBSET Changes]
  /\ sent \in [Readers -> SUBSET Changes]
  /\ told \in [Readers -> SUBSET Changes]
  /\ hushed \in [Readers -> SUBSET Changes]
  /\ auths \in 0 .. MaxAuth
  /\ connects \in 0 .. MaxConnects

Init ==
  /\ changes = <<>>
  /\ wpc = [s \in Sessions |-> "idle"]
  /\ wrote = [s \in Sessions |-> {}]
  /\ pending = [s \in Sessions |-> FALSE]
  /\ rpc = [r \in Readers |-> "off"]
  /\ queue = [r \in Readers |-> <<>>]
  /\ scheduled = [r \in Readers |-> <<>>]
  /\ cursor = [r \in Readers |-> [f \in Feeds |-> 0]]
  /\ page = [r \in Readers |-> [f \in Feeds |-> {}]]
  /\ woken = [r \in Readers |-> "none"]
  /\ found = [r \in Readers |-> {}]
  /\ sent = [r \in Readers |-> {}]
  /\ told = [r \in Readers |-> {}]
  /\ hushed = [r \in Readers |-> {}]
  /\ auths = 0
  /\ connects = 0

-----------------------------------------------------------------------------
(* The hub.                                                                *)

Subscribed(r) == rpc[r] \in {"flush", "waiting", "sending"}

\* publish_many hands the signal to the event loop of every subscriber.
Publish(signal) ==
  scheduled' = [r \in Readers |->
    IF Subscribed(r) THEN Append(scheduled[r], signal) ELSE scheduled[r]]

\* Fault variant: a full queue drops its oldest signal and the new one.
EnqueueLosesBoth(r) ==
  /\ scheduled[r] # <<>>
  /\ scheduled' = [scheduled EXCEPT ![r] = Tail(@)]
  /\ queue' = [queue EXCEPT ![r] =
       IF Len(@) < QueueSize THEN Append(@, Head(scheduled[r])) ELSE Tail(@)]
  /\ UNCHANGED <<writerVars, rpc, cursor, page, woken, history, bounds>>

\* Fault variant: the queue has no bound.
EnqueueUnbounded(r) ==
  /\ scheduled[r] # <<>>
  /\ scheduled' = [scheduled EXCEPT ![r] = Tail(@)]
  /\ queue' = [queue EXCEPT ![r] = Append(@, Head(scheduled[r]))]
  /\ UNCHANGED <<writerVars, rpc, cursor, page, woken, history, bounds>>

\* _enqueue_signal, in the event loop: a full queue drops its oldest signal
\* for the new one.
Enqueue(r) ==
  /\ scheduled[r] # <<>>
  /\ scheduled' = [scheduled EXCEPT ![r] = Tail(@)]
  /\ queue' = [queue EXCEPT ![r] =
       Append(IF Len(@) < QueueSize THEN @ ELSE Tail(@), Head(scheduled[r]))]
  /\ UNCHANGED <<writerVars, rpc, cursor, page, woken, history, bounds>>

\* The sign-in of a provider makes progress: a signal to every stream.
AuthSignal ==
  /\ auths < MaxAuth
  /\ auths' = auths + 1
  /\ Publish("auth")
  /\ UNCHANGED <<writerVars, rpc, queue, cursor, page, woken, history, connects>>

-----------------------------------------------------------------------------
(* The writers.                                                            *)

Settle(S, state) ==
  changes' = [n \in Changes |->
    IF n \in S THEN [changes[n] EXCEPT !.state = state] ELSE changes[n]]

\* append_event: the write-through projection in its SAVEPOINT, whose
\* release runs _after_commit with the channel queued by an earlier event
\* of the transaction; then this event's channel is queued.
AppendEvent(s, kind) ==
  /\ wpc[s] \in {"idle", "open"}
  /\ Len(changes) < MaxChanges
  /\ changes' = Append(changes, [kind |-> kind, state |-> "open", by |-> "request"])
  /\ wrote' = [wrote EXCEPT ![s] = @ \union {Len(changes) + 1}]
  /\ IF pending[s] THEN Publish("commit") ELSE UNCHANGED scheduled
  /\ pending' = [pending EXCEPT ![s] = TRUE]
  /\ wpc' = [wpc EXCEPT ![s] = "open"]
  /\ UNCHANGED <<rpc, queue, cursor, page, woken, history, bounds>>

\* append_event when the projection worker was faster: what its projection
\* would insert is there.  It finds that out, and the SAVEPOINT is released
\* as usual, or it runs into the unique constraint, and the SAVEPOINT is
\* rolled back and _after_rollback forgets the channel queued so far.
AppendDuplicate(s, n) ==
  /\ wpc[s] \in {"idle", "open"}
  /\ changes[n].by = "worker_first"
  /\ changes' = [changes EXCEPT ![n].by = "worker"]
  /\ \/ pending[s] /\ Publish("commit")
     \/ UNCHANGED scheduled
  /\ pending' = [pending EXCEPT ![s] = TRUE]
  /\ wpc' = [wpc EXCEPT ![s] = "open"]
  /\ UNCHANGED <<wrote, rpc, queue, cursor, page, woken, history, bounds>>

\* The projection worker is faster than a request, or makes up for one that
\* failed after its append; it queues no channel.
WorkerRow(kind) ==
  /\ WorkerRows
  /\ Len(changes) < MaxChanges
  /\ changes' = Append(changes, [kind |-> kind, state |-> "visible", by |-> "worker_first"])
  /\ UNCHANGED <<wpc, wrote, pending, rpc, queue, scheduled, cursor, page, woken, history, bounds>>

\* The transaction commits ...
Commit(s) ==
  /\ wpc[s] = "open"
  /\ Settle(wrote[s], "visible")
  /\ wrote' = [wrote EXCEPT ![s] = {}]
  /\ wpc' = [wpc EXCEPT ![s] = "committed"]
  /\ UNCHANGED <<pending, rpc, queue, scheduled, cursor, page, woken, history, bounds>>

\* Fault variant: only the streams that are waiting are signalled.
AfterCommitWaitingOnly(s) ==
  /\ wpc[s] = "committed"
  /\ scheduled' = [r \in Readers |->
       IF pending[s] /\ rpc[r] = "waiting" THEN Append(scheduled[r], "commit") ELSE scheduled[r]]
  /\ pending' = [pending EXCEPT ![s] = FALSE]
  /\ wpc' = [wpc EXCEPT ![s] = "idle"]
  /\ UNCHANGED <<changes, wrote, rpc, queue, cursor, page, woken, history, bounds>>

\* ... and then _after_commit publishes the queued channel.
AfterCommit(s) ==
  /\ wpc[s] = "committed"
  /\ IF pending[s] THEN Publish("commit") ELSE UNCHANGED scheduled
  /\ pending' = [pending EXCEPT ![s] = FALSE]
  /\ wpc' = [wpc EXCEPT ![s] = "idle"]
  /\ UNCHANGED <<changes, wrote, rpc, queue, cursor, page, woken, history, bounds>>

\* The request fails: _after_rollback.
Rollback(s) ==
  /\ wpc[s] = "open"
  /\ Settle(wrote[s], "gone")
  /\ wrote' = [wrote EXCEPT ![s] = {}]
  /\ pending' = [pending EXCEPT ![s] = FALSE]
  /\ wpc' = [wpc EXCEPT ![s] = "idle"]
  /\ UNCHANGED <<rpc, queue, scheduled, cursor, page, woken, history, bounds>>

-----------------------------------------------------------------------------
(* The stream: notifications_stream and its event_generator.               *)

\* A cursor starts at the last row there is, or at the row that the client
\* names (last_id or Last-Event-ID, last_activity_id), ...
Connect(r) ==
  /\ rpc[r] = "off"
  /\ connects < MaxConnects
  /\ connects' = connects + 1
  /\ rpc' = [rpc EXCEPT ![r] = "connecting"]
  /\ \E start \in [Feeds -> 0 .. Len(changes)] :
       /\ \A f \in Feeds : start[f] \in Rows(f) \union {Last(Rows(f))}
       /\ cursor' = [cursor EXCEPT ![r] = start]
  /\ UNCHANGED <<writerVars, queue, scheduled, page, woken, history, auths>>

AfterCursor(r, f) == {n \in Rows(f) : n > cursor[r][f]}
Ahead(r) == UNION {AfterCursor(r, f) : f \in Feeds}

\* ... which is read before the subscription, so the stream first flushes.
\* What is visible by now and not after a cursor is left to the client's
\* own first fetch.
Subscribe(r) ==
  /\ rpc[r] = "connecting"
  /\ rpc' = [rpc EXCEPT ![r] = "flush"]
  /\ told' = [told EXCEPT ![r] = Visible \ Ahead(r)]
  /\ UNCHANGED <<writerVars, queue, scheduled, cursor, page, woken, found, sent, hushed, bounds>>

\* list_notifications_after_cursor_read_model and
\* list_workspace_activity_after_id_read_model: the rows after the cursors,
\* up to the limits.
Page(r, f) ==
  {n \in AfterCursor(r, f) : Cardinality({m \in AfterCursor(r, f) : m <= n}) <= Limit(f)}

Read(r) ==
  /\ page' = [page EXCEPT ![r] = [f \in Feeds |-> Page(r, f)]]
  /\ found' = [found EXCEPT ![r] = @ \union Ahead(r)]

Flush(r) ==
  /\ rpc[r] = "flush"
  /\ rpc' = [rpc EXCEPT ![r] = "sending"]
  /\ Read(r)
  /\ woken' = [woken EXCEPT ![r] = "none"]
  /\ UNCHANGED <<writerVars, queue, scheduled, cursor, sent, told, hushed, bounds>>

\* subscription.get returns: one signal is consumed, then the rows are read.
Wake(r) ==
  /\ rpc[r] = "waiting"
  /\ queue[r] # <<>>
  /\ queue' = [queue EXCEPT ![r] = Tail(@)]
  /\ rpc' = [rpc EXCEPT ![r] = "sending"]
  /\ Read(r)
  /\ woken' = [woken EXCEPT ![r] = Head(queue[r])]
  /\ UNCHANGED <<writerVars, scheduled, cursor, sent, told, hushed, bounds>>

Batch(r) == UNION {page[r][f] : f \in Feeds}

\* emitted: a row of either feed, or the auth_event of a sign-in.
Emits(r) == woken[r] = "auth" \/ Batch(r) # {}

\* The client fetches its views: for a row of the project it shows, or for
\* the refresh event, which a signal sends only if nothing else was emitted.
Refetches(r) ==
  \/ \E n \in page[r]["activity"] : changes[n].kind = "view"
  \/ woken[r] = "commit" /\ ~Emits(r)

\* No signal is on its way.
Quiet(r) ==
  /\ queue[r] = <<>> /\ scheduled[r] = <<>>
  /\ \A s \in Sessions : wpc[s] # "committed"

\* The events go out and the client reacts: a fetch shows it what is visible
\* now, any other event only what the event says.
Sent(r) ==
  /\ rpc[r] = "sending"
  /\ sent' = [sent EXCEPT ![r] = @ \union Batch(r)]
  /\ told' = [told EXCEPT ![r] =
       IF Refetches(r) THEN Visible ELSE @ \union Batch(r)]
  /\ hushed' = [hushed EXCEPT ![r] =
       IF Refetches(r) THEN {} ELSE IF Emits(r) /\ Quiet(r) THEN Visible ELSE @]
  /\ page' = [page EXCEPT ![r] = [f \in Feeds |-> {}]]
  /\ woken' = [woken EXCEPT ![r] = "none"]
  /\ rpc' = [rpc EXCEPT ![r] = "waiting"]
  /\ UNCHANGED <<writerVars, queue, scheduled, found, bounds>>

\* Fault variant: a cursor moves to the last row there is.
SendToLatest(r) ==
  /\ cursor' = [cursor EXCEPT ![r] =
       [f \in Feeds |-> IF page[r][f] = {} THEN @[f] ELSE Last(Rows(f))]]
  /\ Sent(r)

Send(r) ==
  /\ cursor' = [cursor EXCEPT ![r] =
       [f \in Feeds |-> IF page[r][f] = {} THEN @[f] ELSE Last(page[r][f])]]
  /\ Sent(r)

\* The client goes away; the generator's finally block unsubscribes.
Disconnect(r) ==
  /\ rpc[r] # "off"
  /\ rpc' = [rpc EXCEPT ![r] = "off"]
  /\ queue' = [queue EXCEPT ![r] = <<>>]
  /\ scheduled' = [scheduled EXCEPT ![r] = <<>>]
  /\ cursor' = [cursor EXCEPT ![r] = [f \in Feeds |-> 0]]
  /\ page' = [page EXCEPT ![r] = [f \in Feeds |-> {}]]
  /\ woken' = [woken EXCEPT ![r] = "none"]
  /\ found' = [found EXCEPT ![r] = {}]
  /\ sent' = [sent EXCEPT ![r] = {}]
  /\ told' = [told EXCEPT ![r] = {}]
  /\ hushed' = [hushed EXCEPT ![r] = {}]
  /\ UNCHANGED <<writerVars, bounds>>

-----------------------------------------------------------------------------
Writing(s) ==
  \/ \E kind \in Kinds : AppendEvent(s, kind)
  \/ \E n \in Changes : AppendDuplicate(s, n)
  \/ Commit(s) \/ AfterCommit(s) \/ Rollback(s)

Streaming(r) == Subscribe(r) \/ Flush(r) \/ Wake(r) \/ Send(r)

Next ==
  \/ \E s \in Sessions : Writing(s)
  \/ \E kind \in Kinds : WorkerRow(kind)
  \/ AuthSignal
  \/ \E r \in Readers : Connect(r) \/ Streaming(r) \/ Enqueue(r) \/ Disconnect(r)

Spec == Init /\ [][Next]_vars

\* The event loop runs its callbacks and the stream's coroutine, and a
\* commit is followed by its hook.
FairSpec ==
  /\ Spec
  /\ \A s \in Sessions : WF_vars(AfterCommit(s))
  /\ \A r \in Readers : WF_vars(Streaming(r)) /\ WF_vars(Enqueue(r))

-----------------------------------------------------------------------------
(* Properties.                                                             *)

\* The changes that requests made and committed.
Requested == {n \in Visible : changes[n].by = "request"}

\* A stream that waits with no signal on its way owes its client nothing but
\* a refresh that the code itself withholds: whatever commits between the
\* starting cursors, the subscription, the reads and the sends, however many
\* signals the bounded queue drops, and however SAVEPOINTs publish early or
\* forget the queued channel, the client has been sent the row of every change
\* that a request committed or an event for which it fetches its views, unless
\* the last signal after the change found other events to send (a notification,
\* another project's rows, a sign-in) and therefore sent no refresh.
NoLostWakeup ==
  \A r \in Readers :
    rpc[r] = "waiting" /\ Quiet(r) => Requested \subseteq told[r] \union hushed[r]

\* A cursor passes over no row that a read could have returned: with page
\* limits, commits between the read and the send, overlapping transactions
\* and the worker's rows, what was visible to a read is sent or still ahead.
NothingSkipped ==
  \A r \in Readers, f \in Feeds : rpc[r] # "off" =>
    {n \in found[r] : changes[n].kind \in KindsOf(f) /\ n <= cursor[r][f]} \subseteq sent[r]

\* A stream misses nothing: no wake-up and no row.
NothingMissed == NoLostWakeup /\ NothingSkipped

\* A change that a request has committed while a stream is open is announced on
\* it, or the stream ends, or the last signal after the change sent other
\* events and so no refresh.  (The projection worker's own changes need not
\* be: they queue no signal, and the stream has no timeout.)
ChangesAreTold ==
  \A r \in Readers, n \in 1 .. MaxChanges :
    (Subscribed(r) /\ n \in Requested) ~> (rpc[r] = "off" \/ n \in told[r] \union hushed[r])
=============================================================================
