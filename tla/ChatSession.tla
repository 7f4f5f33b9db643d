---------------------------- MODULE ChatSession ----------------------------
(***************************************************************************)
(* The chat stream of one session (agent_chat_stream, stop_agent_chat_     *)
(* stream and the cancel registry of app/features/agents/api.py): a POST   *)
(* creates a run under the session's stream key, a worker thread asks the  *)
(* agent, a finalizer thread and the thread that streams the response both *)
(* call _finalize_once, and a stop request cancels by run id or by key.    *)
(*                                                                         *)
(* The broker (StreamBroker has its detail) is kept to what the runs share *)
(* of it: whose run it is, whether it is done, and the final events.  The   *)
(* run id is the command id of the request, which the client always sends. *)
(***************************************************************************)
EXTENDS Integers, FiniteSets

CONSTANTS
  Runs,        \* 1 .. n: the runs of the session, in the order of their POSTs
  Stops,       \* stop requests
  Faults,      \* "worker", "persist", "link", "gone"
  MaxFaults    \* bound: faults

ASSUME RunsAssumption == \A r \in Runs : r \in Nat \ {0} /\ 1 .. r \subseteq Runs
ASSUME FaultsAssumption == Faults \subseteq {"worker", "persist", "link", "gone"}
ASSUME MaxFaultsAssumption == MaxFaults \in Nat

VARIABLES
  broker,    \* the broker entry of the stream key
  armed,     \* _CHAT_STREAM_CANCEL_EVENTS: runs whose event is registered
  byKey,     \* _CHAT_STREAM_CANCEL_BY_KEY: the run it names, or 0
  flag,      \* _CHAT_STREAM_STOP_REQUESTED_BY_KEY
  cancelled, \* runs whose cancel event is set
  run,       \* [Runs -> state of the run's threads]
  fin,       \* [Runs -> [Callers -> progress in _finalize_once]]
  stop,      \* [Stops -> progress of the stop request]
  saved,     \* [Runs -> assistant messages appended to the session]
  calm,      \* the client waits for the answer of a run before the next one
  faults

vars == <<broker, armed, byKey, flag, cancelled, run, fin, stop, saved, calm, faults>>

Callers == {"finalizer", "reader"}
Answers == {"none", "agent", "error", "missing", "stopped"}
Stages == {"none", "wait", "publish", "finish", "clear", "unflag", "over", "raised"}

NewRun == [post |-> "none", worker |-> "none", reader |-> "none", inbox |-> {},
           seen |-> "none", answer |-> "none", memo |-> FALSE]

RunStates ==
  [post : {"none", "created", "unflagged", "ready", "open", "abandoned"},
   worker : {"none", "working", "agent", "prebuilt", "error"},
   reader : {"none", "reading", "finalizing", "closing", "unflagging", "closed"},
   inbox : SUBSET Runs,              \* final events in the subscriber queue
   seen : {"none", "final", "error", "gone"},
   answer : Answers,                 \* the response _finalize_once decided on
   memo : BOOLEAN]                   \* finalized_response is filled

Idle == [at |-> "none", names |-> 0, ack |-> FALSE]

\* The types: the broker, the cancel registries and the threads speak of the
\* session's runs only (agents/api.py).
TypeOK ==
  /\ broker \in [run : Runs \union {0}, done : BOOLEAN, finals : SUBSET Runs,
                 subscribers : SUBSET Runs]
  /\ armed \subseteq Runs
  /\ byKey \in Runs \union {0}
  /\ flag \in BOOLEAN
  /\ cancelled \subseteq Runs
  /\ run \in [Runs -> RunStates]
  /\ fin \in [Runs -> [Callers -> Stages]]
  /\ stop \in [Stops -> [at : {"none", "flagged", "over"}, names : Runs \union {0}, ack : BOOLEAN]]
  /\ saved \in [Runs -> Nat]
  /\ calm \in BOOLEAN
  /\ faults \in 0 .. MaxFaults

Init ==
  /\ broker = [run |-> 0, done |-> TRUE, finals |-> {}, subscribers |-> {}]
  /\ armed = {}
  /\ byKey = 0
  /\ flag = FALSE
  /\ cancelled = {}
  /\ run = [r \in Runs |-> NewRun]
  /\ fin = [r \in Runs |-> [c \in Callers |-> "none"]]
  /\ stop = [s \in Stops |-> Idle]
  /\ saved = [r \in Runs |-> 0]
  /\ calm \in BOOLEAN
  /\ faults = 0

Happens(what) ==
  /\ what \in Faults
  /\ faults < MaxFaults
  /\ faults' = faults + 1

\* Fault variant: done_event is not set when the worker raises.
EndedWell(r) == run[r].worker \in {"agent", "prebuilt"}

Ended(r) == run[r].worker \in {"agent", "prebuilt", "error"}    \* done_event

-----------------------------------------------------------------------------
(* The POST.  A calm client waits for the answer; another tab, and the tab *)
(* that has just asked for a stop, send the next message without waiting,  *)
(* but not before the last one streams.                                    *)

MayPost(r) ==
  /\ run[r].post = "none"
  /\ \A q \in Runs : q < r => /\ run[q].post \in {"open", "abandoned"}
                              /\ calm => run[q].seen = "final" \/ run[q].post = "abandoned"
  /\ \A s \in Stops : stop[s].at # "flagged"

\* Fault variant: the run is numbered one too high.
PostAhead(r) ==
  /\ MayPost(r)
  /\ run' = [run EXCEPT ![r].post = "created"]
  /\ broker' = [run |-> r + 1, done |-> FALSE, finals |-> {}, subscribers |-> {}]
  /\ UNCHANGED <<armed, byKey, flag, cancelled, fin, stop, saved, calm, faults>>

Post(r) ==
  /\ MayPost(r)
  /\ run' = [run EXCEPT ![r].post = "created"]
  /\ broker' = [run |-> r, done |-> FALSE, finals |-> {}, subscribers |-> {}]
  /\ UNCHANGED <<armed, byKey, flag, cancelled, fin, stop, saved, calm, faults>>

\* Fault variant: the flag of the last run is kept.
KeepStop(r) ==
  /\ run[r].post = "created"
  /\ run' = [run EXCEPT ![r].post = "unflagged"]
  /\ UNCHANGED <<broker, armed, byKey, flag, cancelled, fin, stop, saved, calm, faults>>

ClearStop(r) ==
  /\ run[r].post = "created"
  /\ run' = [run EXCEPT ![r].post = "unflagged"]
  /\ flag' = FALSE
  /\ UNCHANGED <<broker, armed, byKey, cancelled, fin, stop, saved, calm, faults>>

Register(r) ==
  /\ run[r].post = "unflagged"
  /\ run' = [run EXCEPT ![r].post = "ready"]
  /\ armed' = armed \union {r}
  /\ byKey' = r
  /\ UNCHANGED <<broker, flag, cancelled, fin, stop, saved, calm, faults>>

\* The response is streamed: subscribe, start the worker and the finalizer.  A
\* final event among the replayed ones is passed on but does not end the loop.
Open(r) ==
  /\ run[r].post = "ready"
  /\ LET mine == broker.run = r
     IN /\ run' = [run EXCEPT ![r].post = "open", ![r].worker = "working", ![r].reader = "reading",
                              ![r].seen = IF mine /\ broker.finals # {} THEN "final" ELSE @]
        /\ broker' = IF mine /\ ~broker.done
                     THEN [broker EXCEPT !.subscribers = @ \union {r}] ELSE broker
  /\ fin' = [fin EXCEPT ![r] = [c \in Callers |-> "wait"]]
  /\ UNCHANGED <<armed, byKey, flag, cancelled, stop, saved, calm, faults>>

\* The client is gone before the response is streamed.
Abandon(r) ==
  /\ run[r].post = "ready"
  /\ Happens("gone")
  /\ run' = [run EXCEPT ![r].post = "abandoned", ![r].seen = "gone"]
  /\ UNCHANGED <<broker, armed, byKey, flag, cancelled, fin, stop, saved, calm>>

-----------------------------------------------------------------------------
(* The worker.                                                             *)

\* Fault variant: the assistant message is appended without a command id.
AppendedAgain(r) == [saved EXCEPT ![r] = @ + 1]

\* append_assistant_message goes through the command executor, with a command
\* id derived from the run's.
Appended(r) == [saved EXCEPT ![r] = IF @ = 0 THEN 1 ELSE @]

\* The agent's answer, or one of the answers prepared without it, whose
\* message the worker stores itself.
WorkerEnds(r, how) ==
  /\ run[r].worker = "working"
  /\ how \in {"agent", "prebuilt"}
  /\ run' = [run EXCEPT ![r].worker = how]
  /\ saved' = IF how = "prebuilt" THEN Appended(r) ELSE saved
  /\ UNCHANGED <<broker, armed, byKey, flag, cancelled, fin, stop, calm, faults>>

\* Whatever the worker raises is kept for the finalizers.
WorkerRaises(r) ==
  /\ run[r].worker = "working"
  /\ Happens("worker")
  /\ run' = [run EXCEPT ![r].worker = "error"]
  /\ UNCHANGED <<broker, armed, byKey, flag, cancelled, fin, stop, saved, calm>>

-----------------------------------------------------------------------------
(* _finalize_once, under the run's finalize_lock.                          *)

Calls(r, c) ==
  /\ fin[r][c] = "wait"
  /\ \A d \in Callers : fin[r][d] \in {"none", "wait", "over", "raised"}
  /\ CASE c = "finalizer" -> Ended(r) [] c = "reader" -> run[r].reader = "finalizing"

Goto(r, c, stage) == fin' = [fin EXCEPT ![r][c] = stage]

\* Answered before.
ReturnMemo(r, c) ==
  /\ Calls(r, c) /\ run[r].memo
  /\ Goto(r, c, "over")
  /\ UNCHANGED <<broker, armed, byKey, flag, cancelled, run, stop, saved, calm, faults>>

\* Fault variant: only the flag of the stream key is looked at.
AnswerByKey(r) ==
  IF flag THEN "stopped"
  ELSE CASE run[r].worker = "error" -> "error"
         [] run[r].worker \in {"agent", "prebuilt"} -> "agent"
         [] OTHER -> "missing"

\* What the worker left; "Stopped." if the run's cancel event or the flag of
\* the stream key is set.
Answer(r) ==
  IF r \in cancelled \/ flag THEN "stopped"
  ELSE CASE run[r].worker = "error" -> "error"
         [] run[r].worker \in {"agent", "prebuilt"} -> "agent"
         [] OTHER -> "missing"

\* Decide, then _persist_assistant_message_with_links, which is the session's
\* own and may be one step with the decision.
Decide(r, c) ==
  /\ Calls(r, c) /\ ~run[r].memo
  /\ run' = [run EXCEPT ![r].answer = Answer(r)]
  /\ saved' = Appended(r)
  /\ Goto(r, c, "publish")
  /\ UNCHANGED <<broker, armed, byKey, flag, cancelled, stop, calm, faults>>

\* It raises: before the append, or while the created resources are linked.
PersistRaises(r, c) ==
  /\ Calls(r, c) /\ ~run[r].memo
  /\ \/ Happens("persist") /\ UNCHANGED saved
     \/ Happens("link") /\ saved' = Appended(r)
  /\ run' = [run EXCEPT ![r].answer = Answer(r)]
  /\ Goto(r, c, "raised")
  /\ UNCHANGED <<broker, armed, byKey, flag, cancelled, stop, calm>>

\* The final event goes to the subscribers of the run the key holds now.
Publish(r, c) ==
  /\ fin[r][c] = "publish"
  /\ broker' = [broker EXCEPT !.finals = @ \union {r}]
  /\ run' = [q \in Runs |-> IF q \in broker.subscribers
                            THEN [run[q] EXCEPT !.inbox = @ \union {r}] ELSE run[q]]
  /\ Goto(r, c, "finish")
  /\ UNCHANGED <<armed, byKey, flag, cancelled, stop, saved, calm, faults>>

Finish(r, c) ==
  /\ fin[r][c] = "finish"
  /\ broker' = [broker EXCEPT !.done = TRUE]
  /\ Goto(r, c, "clear")
  /\ UNCHANGED <<armed, byKey, flag, cancelled, run, stop, saved, calm, faults>>

\* _clear_chat_stream_cancel_event
Disarm(r) ==
  /\ armed' = armed \ {r}
  /\ byKey' = IF byKey = r THEN 0 ELSE byKey

ClearCancel(r, c) ==
  /\ fin[r][c] = "clear"
  /\ Disarm(r)
  /\ Goto(r, c, "unflag")
  /\ UNCHANGED <<broker, flag, cancelled, run, stop, saved, calm, faults>>

\* The flag, and the response for the other caller.
Unflag(r, c) ==
  /\ fin[r][c] = "unflag"
  /\ flag' = FALSE
  /\ run' = [run EXCEPT ![r].memo = TRUE]
  /\ Goto(r, c, "over")
  /\ UNCHANGED <<broker, armed, byKey, cancelled, stop, saved, calm, faults>>

-----------------------------------------------------------------------------
(* The thread that streams the response.                                   *)

\* Any final event ends the loop, whichever run published it.
ReadFinal(r) ==
  /\ run[r].reader = "reading" /\ run[r].inbox # {}
  /\ run' = [run EXCEPT ![r].reader = "finalizing", ![r].seen = "final"]
  /\ UNCHANGED <<broker, armed, byKey, flag, cancelled, fin, stop, saved, calm, faults>>

\* Fault variant: done_event is not looked at.
ReadNothingYet(r) ==
  /\ run[r].reader = "reading" /\ run[r].inbox = {}
  /\ run' = [run EXCEPT ![r].reader = "finalizing"]
  /\ UNCHANGED <<broker, armed, byKey, flag, cancelled, fin, stop, saved, calm, faults>>

\* Nothing in the queue for a quarter of a second, and done_event is set.
ReadNothing(r) ==
  /\ run[r].reader = "reading" /\ run[r].inbox = {} /\ Ended(r)
  /\ run' = [run EXCEPT ![r].reader = "finalizing"]
  /\ UNCHANGED <<broker, armed, byKey, flag, cancelled, fin, stop, saved, calm, faults>>

\* The client goes away while the thread waits for an event.
Disconnect(r) ==
  /\ run[r].reader = "reading"
  /\ Happens("gone")
  /\ run' = [run EXCEPT ![r].reader = "closing", ![r].seen = "gone"]
  /\ UNCHANGED <<broker, armed, byKey, flag, cancelled, fin, stop, saved, calm>>

\* The response of _finalize_once, if no final event was streamed; an
\* exception ends the response.
Yield(r) ==
  /\ run[r].reader = "finalizing"
  /\ fin[r]["reader"] \in {"over", "raised"}
  /\ run' = [run EXCEPT ![r].reader = "closing",
                        ![r].seen = IF @ # "none" THEN @
                                    ELSE IF fin[r]["reader"] = "over" THEN "final" ELSE "error"]
  /\ UNCHANGED <<broker, armed, byKey, flag, cancelled, fin, stop, saved, calm, faults>>

\* The finally block: unsubscribe; when the worker has ended, clear the
\* cancel event and then the flag.
Close(r) ==
  /\ run[r].reader = "closing"
  /\ broker' = [broker EXCEPT !.subscribers = @ \ {r}]
  /\ IF Ended(r)
     THEN /\ Disarm(r)
          /\ run' = [run EXCEPT ![r].reader = "unflagging"]
     ELSE /\ run' = [run EXCEPT ![r].reader = "closed"]
          /\ UNCHANGED <<armed, byKey>>
  /\ UNCHANGED <<flag, cancelled, fin, stop, saved, calm, faults>>

CloseUnflag(r) ==
  /\ run[r].reader = "unflagging"
  /\ flag' = FALSE
  /\ run' = [run EXCEPT ![r].reader = "closed"]
  /\ UNCHANGED <<broker, armed, byKey, cancelled, fin, stop, saved, calm, faults>>

-----------------------------------------------------------------------------
(* Stop requests.  The calm client stops the run that streams, by its id or *)
(* by the stream key alone.  The stops of the other client are left out:   *)
(* they decide which answer a run gives, not whether.                      *)

AskStop(s, r) ==
  /\ calm
  /\ stop[s].at = "none"
  /\ broker.run # 0 /\ run[broker.run].post = "open"
  /\ r \in {0, broker.run}
  /\ flag' = TRUE
  /\ stop' = [stop EXCEPT ![s] = [at |-> "flagged", names |-> r, ack |-> FALSE]]
  /\ UNCHANGED <<broker, armed, byKey, cancelled, run, fin, saved, calm, faults>>

\* The run a stop request means: the one it names, or the current one.
Meant(s) == IF stop[s].names # 0 THEN stop[s].names ELSE broker.run

\* _request_chat_stream_cancel, and the answer.
Cancel(s) ==
  /\ stop[s].at = "flagged"
  /\ LET found == IF Meant(s) \in armed THEN Meant(s) ELSE byKey
     IN /\ cancelled' = IF found = 0 THEN cancelled ELSE cancelled \union {found}
        /\ stop' = [stop EXCEPT ![s] = [at |-> "over", names |-> Meant(s), ack |-> found # 0]]
  /\ UNCHANGED <<broker, armed, byKey, flag, run, fin, saved, calm, faults>>

-----------------------------------------------------------------------------
Finalize(r, c) ==
  \/ ReturnMemo(r, c) \/ Decide(r, c) \/ PersistRaises(r, c)
  \/ Publish(r, c) \/ Finish(r, c) \/ ClearCancel(r, c) \/ Unflag(r, c)

Read(r) == ReadFinal(r) \/ ReadNothing(r) \/ Yield(r) \/ Close(r) \/ CloseUnflag(r)

Work(r) == WorkerRaises(r) \/ \E how \in {"agent", "prebuilt"} : WorkerEnds(r, how)

Next ==
  \/ \E r \in Runs : \/ Post(r) \/ ClearStop(r) \/ Register(r) \/ Open(r) \/ Abandon(r)
                     \/ Work(r) \/ Read(r) \/ Disconnect(r)
                     \/ \E c \in Callers : Finalize(r, c)
  \/ \E s \in Stops : Cancel(s) \/ \E r \in Runs \union {0} : AskStop(s, r)

\* Threads run; the agent's execution ends, by itself or because the cancel
\* event ends it.
Fairness ==
  \A r \in Runs : /\ WF_vars(Work(r)) /\ WF_vars(Read(r))
                  /\ \A c \in Callers : WF_vars(Finalize(r, c))

Spec == Init /\ [][Next]_vars /\ Fairness

-----------------------------------------------------------------------------
(* Properties.                                                             *)

\* A client that stays gets an answer or an error, with whatever run the
\* broker holds by then (the reader loop of agent_chat_stream).
StreamsAnswer == \A r \in Runs : run[r].post = "open" ~> run[r].seen # "none"

\* When the client waits for each answer, a run is answered only after its
\* worker has ended (no final event of an earlier run reaches its reader), and
\* with "Stopped." only if it was stopped: neither the flag of the stream key
\* nor the cancel event of the key's current run is left over from an earlier
\* run.
AnswersMatchRuns ==
  calm => \A r \in Runs : run[r].answer # "none" =>
    /\ Ended(r)
    /\ run[r].answer = "stopped" => \E s \in Stops : stop[s].at # "none" /\ Meant(s) = r

\* One assistant message per run, although the worker, the finalizer thread
\* and the streaming thread may each store one, and one of them may fail half
\* way (_persist_assistant_message_with_links).
OneMessage == \A r \in Runs : saved[r] <= 1

\* What a client is shown is what its run did, and is stored once.
AnswersAreHonest == AnswersMatchRuns /\ OneMessage

\* A stop that was acknowledged before the run was answered is obeyed.
StopIsObeyed ==
  [][calm => \A r \in Runs :
       run[r].answer = "none" /\ run'[r].answer # "none"
       /\ (\E s \in Stops : stop[s].at = "over" /\ stop[s].ack /\ stop[s].names = r)
         => run'[r].answer = "stopped"]_vars
=============================================================================
