-------------------------- MODULE ChatSession_proofs --------------------------
(***************************************************************************)
(* Proofs about ChatSession, for any number of runs and stop requests and  *)
(* any faults: type correctness, AnswersAreHonest and StopIsObeyed.        *)
(*                                                                         *)
(* The threads of a run outlive it: they publish, clear and unflag under a *)
(* stream key that may belong to the next run by then.  With a calm client *)
(* the inductive invariant says why this is harmless: the client goes on   *)
(* only when the run is settled, and a settled run publishes nothing more  *)
(* and decides no answer; whatever is flagged or cancelled was meant for   *)
(* the run that it stops.                                                  *)
(***************************************************************************)
EXTENDS ChatSession, TLAPS

Busy == {"publish", "finish", "clear", "unflag"}

\* The final event is published, and there will be no other.
Settled(r) == run[r].memo \/ \E c \in Callers : fin[r][c] \in {"finish", "clear", "unflag"}

\* Some request asks to stop the run.
Asked(r) == \E s \in Stops : stop[s].at # "none" /\ Meant(s) = r

\* The runs are posted one after the other, the last of them under the key.
Prefix ==
  /\ \A r \in Runs : run[r].post # "none" <=> r <= broker.run
  /\ \A r \in Runs : r < broker.run => run[r].post \in {"open", "abandoned"}

Unopened(r) ==
  run[r].post # "open" =>
    /\ run[r].worker = "none" /\ run[r].reader = "none" /\ run[r].inbox = {}
    /\ run[r].seen # "final" /\ run[r].answer = "none" /\ ~run[r].memo
    /\ \A c \in Callers : fin[r][c] = "none"

\* finalize_lock: one caller at a time, and nothing after the response is kept.
OneCaller(r) ==
  /\ \A c, d \in Callers : fin[r][c] \in Busy /\ fin[r][d] \in Busy => c = d
  /\ run[r].memo => \A c \in Callers : fin[r][c] \notin Busy
  /\ \A c \in Callers : fin[r][c] = "over" => run[r].memo

AfterWorker(r) ==
  \/ run[r].memo \/ run[r].answer # "none" \/ run[r].reader = "finalizing"
  \/ \E c \in Callers : fin[r][c] \in Busy
  => Ended(r)

\* A run that its client believes over is settled ...
Known(r) == run[r].inbox # {} \/ run[r].seen = "final" => Settled(r)

Local(r) == Unopened(r) /\ OneCaller(r) /\ AfterWorker(r) /\ Known(r)

\* ... and so is one that it has left behind.
Past(r) == r < broker.run => run[r].post = "abandoned" \/ Settled(r)

StoppedInv(r) == run[r].answer = "stopped" => Asked(r)

BrokerInv ==
  /\ broker.subscribers \subseteq {broker.run}
  /\ broker.finals # {} => broker.run # 0 /\ Settled(broker.run)

StopInv(s) ==
  /\ stop[s].at = "flagged" =>
       broker.run # 0 /\ run[broker.run].post = "open" /\ stop[s].names \in {0, broker.run}
  /\ stop[s].at = "over" => stop[s].names # 0 /\ (stop[s].ack => stop[s].names \in cancelled)

\* The flag, the key and the cancel events speak of no run but the current one.
CancelInv ==
  /\ flag => broker.run # 0 /\ (run[broker.run].post = "created" \/ Asked(broker.run))
  /\ broker.run # 0 /\ run[broker.run].post \in {"ready", "open"} => byKey \in {0, broker.run}
  /\ \A r \in cancelled : Asked(r)

RunInv(r) == Local(r) /\ Past(r) /\ StoppedInv(r)

CalmInv == /\ Prefix /\ BrokerInv /\ CancelInv
           /\ \A r \in Runs : RunInv(r)
           /\ \A s \in Stops : StopInv(s)

IInv == TypeOK /\ (\A r \in Runs : saved[r] \in {0, 1}) /\ (calm => CalmInv)

-----------------------------------------------------------------------------
(* Types.                                                                  *)

Ids == Runs \union {0}

LEMMA RunIds == /\ 0 \notin Runs /\ Runs \subseteq Nat
                /\ \A r \in Runs, q \in Nat : 0 < q /\ q <= r => q \in Runs
<1>. SUFFICES ASSUME NEW r \in Runs, NEW q \in Nat, 0 < q, q <= r PROVE q \in Runs
  BY RunsAssumption
<1>1. r \in Nat /\ 1 .. r \subseteq Runs
  BY RunsAssumption
<1>. QED
  BY <1>1

LEMMA Numbers == TypeOK => broker.run \in Nat /\ \A r \in Runs : r \in Nat
<1>1. \A r \in Runs : r \in Nat
  BY RunsAssumption
<1>2. TypeOK => broker.run \in Runs \/ broker.run = 0
  BY DEF TypeOK
<1>. QED
  BY <1>1, <1>2

LEMMA TypeInit == Init => TypeOK
<1>. SUFFICES ASSUME Init PROVE TypeOK
  OBVIOUS
<1>1. NewRun \in RunStates
  BY DEF NewRun, RunStates, Answers
<1>2. broker \in [run : Ids, done : BOOLEAN, finals : SUBSET Runs, subscribers : SUBSET Runs]
  BY DEF Init, Ids
<1>3. run \in [Runs -> RunStates] /\ saved \in [Runs -> Nat] /\ faults \in 0 .. MaxFaults
  BY <1>1, MaxFaultsAssumption DEF Init
<1>4. fin \in [Runs -> [Callers -> Stages]]
  BY DEF Init, Stages
<1>5. stop \in [Stops -> [at : {"none", "flagged", "over"}, names : Ids, ack : BOOLEAN]]
  BY DEF Init, Idle, Ids
<1>. QED
  BY <1>2, <1>3, <1>4, <1>5 DEF Init, TypeOK, Ids

\* Steps change one run, or put a final event into the inboxes of some.
LEMMA RunTypes ==
  ASSUME TypeOK, [Next]_vars
  PROVE  run' \in [Runs -> RunStates]
<1>0. run \in [Runs -> RunStates] /\ broker.finals \subseteq Runs
  BY DEF TypeOK
<1>1. ASSUME NEW r \in Runs, NEW e \in RunStates, run' = [run EXCEPT ![r] = e]
      PROVE  run' \in [Runs -> RunStates]
  BY <1>0, <1>1
<1>2. ASSUME NEW r \in Runs,
             Post(r) \/ ClearStop(r) \/ Register(r) \/ Open(r) \/ Abandon(r)
      PROVE  \E e \in RunStates : run' = [run EXCEPT ![r] = e]
  <2>1. run[r] \in RunStates
    BY <1>0
  <2>2. CASE \E post \in {"created", "unflagged", "ready"} : run' = [run EXCEPT ![r].post = post]
    BY <2>1, <2>2 DEF RunStates
  <2>3. CASE Open(r)
    <3>. DEFINE seen == IF broker.run = r /\ broker.finals # {} THEN "final" ELSE run[r].seen
                e == [run[r] EXCEPT !.post = "open", !.worker = "working", !.reader = "reading", !.seen = seen]
    <3>1. run' = [run EXCEPT ![r] = e]
      BY <1>0, <2>3 DEF Open
    <3>2. seen \in {"none", "final", "error", "gone"}
      BY <2>1 DEF RunStates
    <3>3. e \in RunStates
      <4>. HIDE DEF seen
      <4>. QED
        BY <2>1, <3>2 DEF RunStates
    <3>. QED
      BY <3>1, <3>3
  <2>4. CASE Abandon(r)
    BY <1>0, <2>1, <2>4 DEF Abandon, RunStates
  <2>. QED
    BY <1>2, <2>2, <2>3, <2>4 DEF Post, ClearStop, Register
<1>3. ASSUME NEW r \in Runs, Work(r)
      PROVE  \E e \in RunStates : run' = [run EXCEPT ![r] = e]
  <2>1. run[r] \in RunStates
    BY <1>0
  <2>2. PICK how \in {"agent", "prebuilt", "error"} : run' = [run EXCEPT ![r].worker = how]
    BY <1>3 DEF Work, WorkerEnds, WorkerRaises
  <2>. QED
    BY <2>1, <2>2 DEF RunStates
<1>4. ASSUME NEW r \in Runs, Read(r) \/ Disconnect(r)
      PROVE  \E e \in RunStates : run' = [run EXCEPT ![r] = e]
  <2>1. run[r] \in RunStates
    BY <1>0
  <2>2. PICK reader \in {"finalizing", "closing", "unflagging", "closed"}, seen \in {"none", "final", "error", "gone"} :
          run' = [run EXCEPT ![r] = [run[r] EXCEPT !.reader = reader, !.seen = seen]]
    <3>0. run[r].seen \in {"none", "final", "error", "gone"} /\ [run[r] EXCEPT !.seen = run[r].seen] = run[r]
      BY <2>1 DEF RunStates
    <3>1. CASE ReadNothing(r) \/ Close(r) \/ CloseUnflag(r)
      <4>1. PICK reader \in {"finalizing", "unflagging", "closed"} : run' = [run EXCEPT ![r] = [run[r] EXCEPT !.reader = reader]]
        BY <1>0, <3>1 DEF ReadNothing, Close, CloseUnflag
      <4>2. [run[r] EXCEPT !.reader = reader] = [run[r] EXCEPT !.reader = reader, !.seen = run[r].seen]
        BY <2>1 DEF RunStates
      <4>. QED
        BY <3>0, <4>1, <4>2
    <3>2. CASE ReadFinal(r) \/ Disconnect(r)
      BY <1>0, <3>2 DEF ReadFinal, Disconnect
    <3>3. CASE Yield(r)
      BY <1>0, <3>0, <3>3 DEF Yield
    <3>. QED
      BY <1>4, <3>1, <3>2, <3>3 DEF Read
  <2>. QED
    BY <2>1, <2>2 DEF RunStates
<1>5. ASSUME NEW r \in Runs, NEW c \in Callers, Finalize(r, c), ~Publish(r, c), ~ReturnMemo(r, c),
             ~Finish(r, c), ~ClearCancel(r, c)
      PROVE  \E e \in RunStates : run' = [run EXCEPT ![r] = e]
  <2>1. run[r] \in RunStates /\ Answer(r) \in Answers
    BY <1>0 DEF Answer, Answers
  <2>2. CASE run' = [run EXCEPT ![r].answer = Answer(r)]
    BY <2>1, <2>2 DEF RunStates
  <2>3. CASE run' = [run EXCEPT ![r].memo = TRUE]
    BY <2>1, <2>3 DEF RunStates
  <2>. QED
    BY <1>5, <2>2, <2>3 DEF Finalize, Decide, PersistRaises, Unflag
<1>6. ASSUME NEW r \in Runs, NEW c \in Callers, Publish(r, c)
      PROVE  run' \in [Runs -> RunStates]
  <2>1. \A q \in Runs : [run[q] EXCEPT !.inbox = run[q].inbox \union {r}] \in RunStates
    BY <1>0 DEF RunStates
  <2>. QED
    BY <1>0, <1>6, <2>1 DEF Publish
<1>7. CASE UNCHANGED run
  BY <1>0, <1>7
<1>. QED
  BY <1>1, <1>2, <1>3, <1>4, <1>5, <1>6, <1>7
     DEF Next, Finalize, ReturnMemo, Finish, ClearCancel, Cancel, AskStop, vars

LEMMA FinTypes ==
  ASSUME TypeOK, [Next]_vars
  PROVE  fin' \in [Runs -> [Callers -> Stages]]
<1>0. fin \in [Runs -> [Callers -> Stages]]
  BY DEF TypeOK
<1>1. ASSUME NEW r \in Runs, NEW c \in Callers, NEW stage \in Stages, Goto(r, c, stage)
      PROVE  fin' \in [Runs -> [Callers -> Stages]]
  <2>1. [fin[r] EXCEPT ![c] = stage] \in [Callers -> Stages]
    BY <1>0
  <2>2. fin' = [fin EXCEPT ![r] = [fin[r] EXCEPT ![c] = stage]]
    BY <1>1 DEF Goto
  <2>. QED
    BY <1>0, <2>1, <2>2
<1>2. ASSUME NEW r \in Runs, Open(r)
      PROVE  fin' \in [Runs -> [Callers -> Stages]]
  BY <1>0, <1>2 DEF Open, Stages
<1>3. ASSUME NEW r \in Runs, NEW c \in Callers, Finalize(r, c)
      PROVE  \E stage \in Stages : Goto(r, c, stage)
  BY <1>3 DEF Finalize, ReturnMemo, Decide, PersistRaises, Publish, Finish, ClearCancel, Unflag, Stages
<1>. QED
  BY <1>0, <1>1, <1>2, <1>3
     DEF Next, Post, ClearStop, Register, Abandon, Work, WorkerEnds, WorkerRaises, Read, ReadFinal, ReadNothing,
         Yield, Close, CloseUnflag, Disconnect, Cancel, AskStop, vars

LEMMA StopTypes ==
  ASSUME TypeOK, [Next]_vars
  PROVE  /\ cancelled' \subseteq Runs
         /\ stop' \in [Stops -> [at : {"none", "flagged", "over"}, names : Ids, ack : BOOLEAN]]
<1>0. /\ stop \in [Stops -> [at : {"none", "flagged", "over"}, names : Ids, ack : BOOLEAN]]
      /\ cancelled \subseteq Runs /\ byKey \in Ids /\ broker.run \in Ids /\ armed \subseteq Runs
  BY DEF TypeOK, Ids
<1>1. ASSUME NEW s \in Stops, NEW r \in Ids, AskStop(s, r)
      PROVE  stop' \in [Stops -> [at : {"none", "flagged", "over"}, names : Ids, ack : BOOLEAN]]
  BY <1>0, <1>1 DEF AskStop
<1>2. ASSUME NEW s \in Stops, Cancel(s)
      PROVE  /\ cancelled' \subseteq Runs
             /\ stop' \in [Stops -> [at : {"none", "flagged", "over"}, names : Ids, ack : BOOLEAN]]
  <2>. DEFINE found == IF Meant(s) \in armed THEN Meant(s) ELSE byKey
  <2>1. Meant(s) \in Ids
    BY <1>0 DEF Meant
  <2>2. found \in Ids
    BY <1>0, <2>1
  <2>3. /\ cancelled' = IF found = 0 THEN cancelled ELSE cancelled \union {found}
        /\ stop' = [stop EXCEPT ![s] = [at |-> "over", names |-> Meant(s), ack |-> found # 0]]
    BY <1>2 DEF Cancel
  <2>. HIDE DEF found
  <2>4. [at |-> "over", names |-> Meant(s), ack |-> found # 0]
          \in [at : {"none", "flagged", "over"}, names : Ids, ack : BOOLEAN]
    BY <2>1
  <2>5. cancelled' \subseteq Runs
    BY <1>0, <2>2, <2>3 DEF Ids
  <2>. QED
    BY <1>0, <2>3, <2>4, <2>5
<1>3. CASE UNCHANGED <<stop, cancelled>>
  BY <1>0, <1>3
<1>. QED
  BY ZenonT(60), <1>0, <1>1, <1>2, <1>3
     DEF Next, Post, ClearStop, Register, Open, Abandon, Work, WorkerEnds, WorkerRaises, Read, ReadFinal, ReadNothing,
         Yield, Close, CloseUnflag, Disconnect, Finalize, ReturnMemo, Decide, PersistRaises, Publish, Finish,
         ClearCancel, Unflag, AskStop, Ids, vars

LEMMA BrokerTypes ==
  ASSUME TypeOK, [Next]_vars
  PROVE  broker' \in [run : Ids, done : BOOLEAN, finals : SUBSET Runs, subscribers : SUBSET Runs]
<1>0. broker \in [run : Ids, done : BOOLEAN, finals : SUBSET Runs, subscribers : SUBSET Runs]
  BY DEF TypeOK, Ids
<1>1. ASSUME NEW r \in Runs, Post(r)
      PROVE broker' \in [run : Ids, done : BOOLEAN, finals : SUBSET Runs, subscribers : SUBSET Runs]
  BY <1>0, <1>1 DEF Post, Ids
<1>2. CASE \E S \in SUBSET Runs : broker' = [broker EXCEPT !.subscribers = S]
  BY <1>0, <1>2
<1>3. CASE \E S \in SUBSET Runs : broker' = [broker EXCEPT !.finals = S]
  BY <1>0, <1>3
<1>4. CASE broker' = [broker EXCEPT !.done = TRUE]
  BY <1>0, <1>4
<1>5. CASE UNCHANGED broker
  BY <1>0, <1>5
<1>6. ASSUME NEW r \in Runs, Open(r)
      PROVE (UNCHANGED broker) \/ \E S \in SUBSET Runs : broker' = [broker EXCEPT !.subscribers = S]
  <2>1. broker.subscribers \union {r} \in SUBSET Runs
    BY <1>0
  <2>. QED
    BY <1>6, <2>1 DEF Open
<1>7. ASSUME NEW r \in Runs, Close(r)
      PROVE \E S \in SUBSET Runs : broker' = [broker EXCEPT !.subscribers = S]
  <2>1. broker.subscribers \ {r} \in SUBSET Runs
    BY <1>0
  <2>. QED
    BY <1>7, <2>1 DEF Close
<1>8. ASSUME NEW r \in Runs, NEW c \in Callers, Publish(r, c)
      PROVE \E S \in SUBSET Runs : broker' = [broker EXCEPT !.finals = S]
  <2>1. broker.finals \union {r} \in SUBSET Runs
    BY <1>0
  <2>. QED
    BY <1>8, <2>1 DEF Publish
<1>. QED
  BY ZenonT(60), <1>1, <1>2, <1>3, <1>4, <1>5, <1>6, <1>7, <1>8
     DEF Next, ClearStop, Register, Abandon, Work, WorkerEnds, WorkerRaises, Read, ReadFinal, ReadNothing,
         Yield, CloseUnflag, Disconnect, Finalize, ReturnMemo, Decide, PersistRaises, Finish,
         ClearCancel, Unflag, AskStop, Cancel, vars

LEMMA OtherTypes ==
  ASSUME TypeOK, [Next]_vars
  PROVE  /\ armed' \subseteq Runs /\ byKey' \in Ids /\ flag' \in BOOLEAN /\ calm' \in BOOLEAN
         /\ saved' \in [Runs -> Nat] /\ faults' \in 0 .. MaxFaults
<1>0. /\ armed \subseteq Runs /\ byKey \in Ids /\ flag \in BOOLEAN /\ calm \in BOOLEAN
      /\ saved \in [Runs -> Nat] /\ faults \in 0 .. MaxFaults
  BY DEF TypeOK, Ids
<1>1. calm' \in BOOLEAN /\ flag' \in BOOLEAN
  <2>1. UNCHANGED calm
    BY ZenonT(60) DEF Next, Post, ClearStop, Register, Open, Abandon, Work, WorkerEnds, WorkerRaises, Read, ReadFinal, ReadNothing,
         Yield, Close, CloseUnflag, Disconnect, Finalize, ReturnMemo, Decide, PersistRaises, Publish, Finish,
         ClearCancel, Unflag, AskStop, Cancel, vars
  <2>2. (UNCHANGED flag) \/ flag' = TRUE \/ flag' = FALSE
    BY ZenonT(60) DEF Next, Post, ClearStop, Register, Open, Abandon, Work, WorkerEnds, WorkerRaises, Read, ReadFinal, ReadNothing,
         Yield, Close, CloseUnflag, Disconnect, Finalize, ReturnMemo, Decide, PersistRaises, Publish, Finish,
         ClearCancel, Unflag, AskStop, Cancel, vars
  <2>. QED
    BY <1>0, <2>1, <2>2
<1>2. armed' \subseteq Runs /\ byKey' \in Ids
  <2>1. \/ armed' = armed /\ byKey' = byKey
        \/ \E r \in Runs : Register(r) \/ Close(r) \/ \E c \in Callers : ClearCancel(r, c)
    <3>1. ASSUME NEW r \in Runs, NEW c \in Callers, Finalize(r, c), ~ClearCancel(r, c)
          PROVE  armed' = armed /\ byKey' = byKey
      BY <3>1 DEF Finalize, ReturnMemo, Decide, PersistRaises, Publish, Finish, Unflag
    <3>2. ASSUME NEW r \in Runs, Read(r) \/ Work(r) \/ Disconnect(r), ~Close(r)
          PROVE  armed' = armed /\ byKey' = byKey
      BY <3>2 DEF Read, ReadFinal, ReadNothing, Yield, CloseUnflag, Disconnect, Work, WorkerEnds, WorkerRaises
    <3>3. ASSUME NEW r \in Runs, Post(r) \/ ClearStop(r) \/ Open(r) \/ Abandon(r)
          PROVE  armed' = armed /\ byKey' = byKey
      BY <3>3 DEF Post, ClearStop, Open, Abandon
    <3>4. ASSUME NEW s \in Stops, Cancel(s) \/ \E r \in Runs \union {0} : AskStop(s, r)
          PROVE  armed' = armed /\ byKey' = byKey
      BY <3>4 DEF Cancel, AskStop
    <3>. QED
      BY <3>1, <3>2, <3>3, <3>4 DEF Next, vars
  <2>2. ASSUME NEW r \in Runs, Register(r) \/ Close(r) \/ \E c \in Callers : ClearCancel(r, c)
        PROVE  \/ armed' = armed /\ byKey' = byKey
               \/ armed' = armed \ {r} /\ byKey' \in {0, byKey}
               \/ armed' = armed \union {r} /\ byKey' = r
    BY <2>2 DEF Register, Close, ClearCancel, Disarm
  <2>. QED
    BY <1>0, <2>1, <2>2 DEF Ids
<1>3. saved' \in [Runs -> Nat]
  <2>1. (UNCHANGED saved) \/ \E r \in Runs : saved' = Appended(r)
    BY ZenonT(60) DEF Next, Post, ClearStop, Register, Open, Abandon, Work, WorkerEnds, WorkerRaises, Read, ReadFinal, ReadNothing,
         Yield, Close, CloseUnflag, Disconnect, Finalize, ReturnMemo, Decide, PersistRaises, Publish, Finish,
         ClearCancel, Unflag, AskStop, Cancel, vars
  <2>. QED
    BY <1>0, <2>1 DEF Appended
<1>4. faults' \in 0 .. MaxFaults
  <2>1. (UNCHANGED faults) \/ \E what \in {"worker", "persist", "link", "gone"} : Happens(what)
    BY ZenonT(60) DEF Next, Post, ClearStop, Register, Open, Abandon, Work, WorkerEnds, WorkerRaises, Read, ReadFinal, ReadNothing,
         Yield, Close, CloseUnflag, Disconnect, Finalize, ReturnMemo, Decide, PersistRaises, Publish, Finish,
         ClearCancel, Unflag, AskStop, Cancel, vars
  <2>. QED
    BY <1>0, <2>1, MaxFaultsAssumption DEF Happens
<1>. QED
  BY <1>1, <1>2, <1>3, <1>4

LEMMA TypeStep == TypeOK /\ [Next]_vars => TypeOK'
<1>. SUFFICES ASSUME TypeOK, [Next]_vars PROVE TypeOK'
  OBVIOUS
<1>. QED
  BY RunTypes, FinTypes, StopTypes, BrokerTypes, OtherTypes DEF TypeOK, Ids

-----------------------------------------------------------------------------
(* One run.                                                                *)

Own(r) ==
  \/ Post(r) \/ ClearStop(r) \/ Register(r) \/ Open(r) \/ Abandon(r)
  \/ Work(r) \/ Read(r) \/ Disconnect(r) \/ \E c \in Callers : Finalize(r, c)

\* A final event goes out while its run has the key ...
LEMMA PublishOwn ==
  ASSUME TypeOK, CalmInv, NEW r \in Runs, NEW c \in Callers, Publish(r, c)
  PROVE  r = broker.run /\ broker.subscribers \subseteq {r} /\ run[r].post = "open" /\ ~Settled(r)
<1>1. fin[r][c] = "publish"
  BY DEF Publish
<1>2. run[r].post = "open"
  BY <1>1 DEF CalmInv, RunInv, Local, Unopened
<1>3. ~Settled(r)
  <2>1. ~run[r].memo
    BY <1>1 DEF CalmInv, RunInv, Local, OneCaller, Busy
  <2>2. ASSUME NEW d \in Callers, fin[r][d] \in {"finish", "clear", "unflag"} PROVE FALSE
    <3>1. c = d
      BY <1>1, <2>2 DEF CalmInv, RunInv, Local, OneCaller, Busy
    <3>. QED
      BY <1>1, <2>2, <3>1
  <2>. QED
    BY <2>1, <2>2 DEF Settled
<1>4. r <= broker.run /\ ~(r < broker.run) /\ r \in Nat /\ broker.run \in Nat
  <2>2. r \in Nat /\ broker.run \in Nat
    BY Numbers
  <2>3. r <= broker.run
    BY <1>2 DEF CalmInv, Prefix
  <2>4. ~(r < broker.run)
    BY <1>2, <1>3 DEF CalmInv, RunInv, Past
  <2>. QED
    BY <2>2, <2>3, <2>4
<1>5. r = broker.run
  BY <1>4
<1>. QED
  BY <1>2, <1>3, <1>5 DEF CalmInv, BrokerInv

\* ... so that no other run is concerned.
LEMMA OwnSteps ==
  ASSUME TypeOK, CalmInv, [Next]_vars, NEW q \in Runs, ~Own(q)
  PROVE  run'[q] = run[q] /\ fin'[q] = fin[q]
<1>0. run \in [Runs -> RunStates] /\ fin \in [Runs -> [Callers -> Stages]]
  BY DEF TypeOK
<1>1. ASSUME NEW r \in Runs, r # q, Post(r) \/ ClearStop(r) \/ Register(r) \/ Open(r) \/ Abandon(r)
      PROVE  run'[q] = run[q] /\ fin'[q] = fin[q]
  BY <1>0, <1>1 DEF Post, ClearStop, Register, Open, Abandon
<1>2. ASSUME NEW r \in Runs, r # q, Work(r) \/ Read(r) \/ Disconnect(r)
      PROVE  run'[q] = run[q] /\ fin'[q] = fin[q]
  BY <1>0, <1>2 DEF Work, WorkerEnds, WorkerRaises, Read, ReadFinal, ReadNothing, Yield, Close, CloseUnflag, Disconnect
<1>3. ASSUME NEW r \in Runs, r # q, NEW c \in Callers, Finalize(r, c)
      PROVE  run'[q] = run[q] /\ fin'[q] = fin[q]
  <2>1. CASE Publish(r, c)
    BY <1>0, <1>3, <2>1, PublishOwn DEF Publish, Goto
  <2>2. CASE ~Publish(r, c)
    BY <1>0, <1>3, <2>2 DEF Finalize, ReturnMemo, Decide, PersistRaises, Finish, ClearCancel, Unflag, Goto
  <2>. QED
    BY <2>1, <2>2
<1>4. ASSUME NEW s \in Stops, Cancel(s) \/ \E r \in Runs \union {0} : AskStop(s, r)
      PROVE  run'[q] = run[q] /\ fin'[q] = fin[q]
  BY <1>4 DEF Cancel, AskStop
<1>. QED
  BY <1>1, <1>2, <1>3, <1>4 DEF Next, Own, vars

\* Who has called _finalize_once alone, and nobody before: the run is not settled.
LEMMA CallsAlone ==
  ASSUME TypeOK, NEW r \in Runs, NEW c \in Callers, Local(r), Calls(r, c)
  PROVE  /\ run[r].post = "open" /\ Ended(r)
         /\ \A d \in Callers : fin[r][d] \notin Busy
         /\ ~run[r].memo => ~Settled(r) /\ run[r].seen # "final" /\ run[r].inbox = {}
<1>1. \A d \in Callers : fin[r][d] \notin Busy
  BY DEF Calls, Busy
<1>2. run[r].post = "open"
  BY DEF Calls, Local, Unopened
<1>3. Ended(r)
  BY DEF Calls, Local, AfterWorker, Callers
<1>. QED
  BY <1>1, <1>2, <1>3 DEF Local, Known, Settled, Busy

Finals == \A r \in Runs : broker.run = r /\ broker.finals # {} => Settled(r)

LEMMA LocalFinalize ==
  ASSUME TypeOK, NEW r \in Runs, NEW c \in Callers, Local(r), Finalize(r, c)
  PROVE  Local(r)' /\ (Settled(r) => Settled(r)') /\ (Ended(r) => Ended(r)')
<1>0. run \in [Runs -> RunStates] /\ fin \in [Runs -> [Callers -> Stages]]
  BY DEF TypeOK
<1>1. CASE ReturnMemo(r, c)
  <2>1. run' = run /\ fin'[r] = [fin[r] EXCEPT ![c] = "over"] /\ run[r].memo /\ run[r].post = "open"
    BY <1>0, <1>1, CallsAlone DEF ReturnMemo, Goto
  <2>. QED
    BY <1>0, <2>1 DEF Local, Unopened, OneCaller, AfterWorker, Known, Settled, Busy, Ended
<1>2. CASE Decide(r, c) \/ PersistRaises(r, c)
  <2>1. Calls(r, c) /\ ~run[r].memo
    BY <1>2 DEF Decide, PersistRaises
  <2>2. PICK stage \in {"publish", "raised"} :
          fin'[r] = [fin[r] EXCEPT ![c] = stage] /\ run'[r] = [run[r] EXCEPT !.answer = Answer(r)]
    BY <1>0, <1>2 DEF Decide, PersistRaises, Goto
  <2>3. /\ run[r].post = "open" /\ Ended(r) /\ \A d \in Callers : fin[r][d] \notin Busy
        /\ ~Settled(r) /\ run[r].seen # "final" /\ run[r].inbox = {}
    BY <2>1, CallsAlone
  <2>4. /\ run'[r].post = "open" /\ run'[r].worker = run[r].worker /\ run'[r].seen # "final" /\ run'[r].inbox = {}
        /\ ~run'[r].memo
    BY <1>0, <2>1, <2>2, <2>3 DEF RunStates
  <2>5. \A d \in Callers : fin'[r][d] = IF d = c THEN stage ELSE fin[r][d]
    BY <1>0, <2>2
  <2>6. fin[r][c] # "over" /\ \A d \in Callers : fin[r][d] = "over" => run[r].memo
    BY <2>1 DEF Calls, Local, OneCaller
  <2>7. Unopened(r)' /\ Known(r)' /\ Ended(r)' /\ AfterWorker(r)'
    BY <2>3, <2>4 DEF Unopened, Known, AfterWorker, Ended
  <2>8. OneCaller(r)'
    BY <2>1, <2>3, <2>4, <2>5, <2>6 DEF OneCaller, Busy
  <2>. QED
    BY <2>3, <2>7, <2>8 DEF Local
<1>3. ASSUME NEW from \in {"publish", "finish", "clear"}, NEW to \in {"finish", "clear", "unflag"},
             fin[r][c] = from, fin' = [fin EXCEPT ![r][c] = to],
             \/ run'[r] = run[r]
             \/ \E S : run'[r] = [run[r] EXCEPT !.inbox = S]
      PROVE  Local(r)' /\ (Settled(r) => Settled(r)') /\ (Ended(r) => Ended(r)')
  <2>1. /\ run'[r].post = run[r].post /\ run'[r].worker = run[r].worker /\ run'[r].reader = run[r].reader
        /\ run'[r].answer = run[r].answer /\ run'[r].memo = run[r].memo
    BY <1>0, <1>3 DEF RunStates
  <2>2. \A d \in Callers : fin'[r][d] = IF d = c THEN to ELSE fin[r][d]
    BY <1>0, <1>3
  <2>3. run[r].post = "open" /\ Ended(r) /\ ~run[r].memo
    BY <1>3 DEF Local, Unopened, AfterWorker, OneCaller, Busy
  <2>4. Settled(r)'
    BY <2>2 DEF Settled
  <2>5. Unopened(r)' /\ Ended(r)' /\ AfterWorker(r)' /\ Known(r)'
    BY <2>1, <2>3, <2>4 DEF Unopened, Ended, AfterWorker, Known
  <2>6. OneCaller(r)'
    BY <1>3, <2>1, <2>2, <2>3 DEF Local, OneCaller, Busy
  <2>. QED
    BY <2>4, <2>5, <2>6 DEF Local
<1>4. CASE Publish(r, c)
  <2>1. \/ run'[r] = run[r]
        \/ \E S : run'[r] = [run[r] EXCEPT !.inbox = S]
    BY <1>0, <1>4 DEF Publish
  <2>. QED
    BY <1>3, <1>4, <2>1 DEF Publish, Goto
<1>5. CASE Finish(r, c)
  BY <1>3, <1>5 DEF Finish, Goto
<1>6. CASE ClearCancel(r, c)
  BY <1>3, <1>6 DEF ClearCancel, Goto
<1>7. CASE Unflag(r, c)
  <2>1. fin[r][c] = "unflag" /\ fin'[r] = [fin[r] EXCEPT ![c] = "over"] /\ run'[r] = [run[r] EXCEPT !.memo = TRUE]
    BY <1>0, <1>7 DEF Unflag, Goto
  <2>2. /\ run'[r].post = run[r].post /\ run'[r].worker = run[r].worker /\ run'[r].reader = run[r].reader
        /\ run'[r].answer = run[r].answer /\ run'[r].memo
    BY <1>0, <2>1 DEF RunStates
  <2>3. \A d \in Callers : fin'[r][d] = IF d = c THEN "over" ELSE fin[r][d]
    BY <1>0, <2>1
  <2>4. run[r].post = "open" /\ Ended(r)
    BY <2>1 DEF Local, Unopened, AfterWorker, Busy
  <2>5. Settled(r)' /\ Unopened(r)' /\ Ended(r)' /\ AfterWorker(r)' /\ Known(r)'
    BY <2>2, <2>4 DEF Settled, Unopened, Ended, AfterWorker, Known
  <2>6. OneCaller(r)'
    BY <2>1, <2>2, <2>3 DEF Local, OneCaller, Busy
  <2>. QED
    BY <2>5, <2>6 DEF Local
<1>. QED
  BY <1>1, <1>2, <1>4, <1>5, <1>6, <1>7 DEF Finalize

LEMMA LocalRead ==
  ASSUME TypeOK, NEW r \in Runs, Local(r), Read(r) \/ Disconnect(r)
  PROVE  Local(r)' /\ (Settled(r) => Settled(r)') /\ (Ended(r) => Ended(r)')
<1>0. run \in [Runs -> RunStates] /\ fin' = fin
  BY DEF TypeOK, Read, ReadFinal, ReadNothing, Yield, Close, CloseUnflag, Disconnect
<1>1. run[r].reader # "none" /\ run[r].post = "open"
  BY DEF Local, Unopened, Read, ReadFinal, ReadNothing, Yield, Close, CloseUnflag, Disconnect
<1>2. /\ run'[r].post = "open" /\ run'[r].worker = run[r].worker /\ run'[r].inbox = run[r].inbox
      /\ run'[r].answer = run[r].answer /\ run'[r].memo = run[r].memo
  BY <1>0, <1>1 DEF Read, ReadFinal, ReadNothing, Yield, Close, CloseUnflag, Disconnect, RunStates
<1>3. (Settled(r) <=> Settled(r)') /\ (Ended(r) <=> Ended(r)')
  BY <1>0, <1>2 DEF Settled, Ended
<1>4. Unopened(r)' /\ OneCaller(r)'
  BY <1>0, <1>2 DEF Local, Unopened, OneCaller
<1>5. Settled(r) => Ended(r)
  BY DEF Local, AfterWorker, Settled, Busy
<1>6. CASE ReadFinal(r)
  <2>1. run[r].inbox # {}
    BY <1>6 DEF ReadFinal
  <2>2. Settled(r)
    BY <2>1 DEF Local, Known
  <2>. QED
    BY <1>3, <1>4, <1>5, <2>2 DEF Local, Known, AfterWorker
<1>7. CASE ReadNothing(r)
  <2>1. Ended(r) /\ run'[r].seen = run[r].seen
    BY <1>0, <1>7 DEF ReadNothing, RunStates
  <2>. QED
    BY <1>2, <1>3, <1>4, <2>1 DEF Local, Known, AfterWorker
<1>8. ASSUME run'[r].reader # "finalizing" PROVE AfterWorker(r)'
  BY <1>0, <1>2, <1>3, <1>8 DEF Local, AfterWorker
<1>9. CASE Yield(r)
  <2>1. /\ run'[r].reader = "closing"
        /\ run'[r].seen = "final" => run[r].seen = "final" \/ fin[r]["reader"] = "over"
    BY <1>0, <1>9 DEF Yield, RunStates
  <2>2. fin[r]["reader"] = "over" => Settled(r)
    BY DEF Local, OneCaller, Settled, Callers
  <2>. QED
    BY <1>2, <1>3, <1>4, <1>8, <2>1, <2>2 DEF Local, Known
<1>10. CASE Close(r) \/ CloseUnflag(r) \/ Disconnect(r)
  <2>1. /\ run'[r].reader \in {"closing", "unflagging", "closed"}
        /\ run'[r].seen = "final" => run[r].seen = "final"
    BY <1>0, <1>10 DEF Close, CloseUnflag, Disconnect, RunStates
  <2>. QED
    BY <1>2, <1>3, <1>4, <1>8, <2>1 DEF Local, Known
<1>. QED
  BY <1>6, <1>7, <1>9, <1>10 DEF Read

LEMMA LocalWork ==
  ASSUME TypeOK, NEW r \in Runs, Local(r), Work(r)
  PROVE  Local(r)' /\ (Settled(r) => Settled(r)') /\ (Ended(r) => Ended(r)')
<1>0. run \in [Runs -> RunStates] /\ fin' = fin
  BY DEF TypeOK, Work, WorkerEnds, WorkerRaises
<1>1. run[r].worker = "working" /\ run[r].post = "open"
  BY DEF Local, Unopened, Work, WorkerEnds, WorkerRaises
<1>2. PICK how \in {"agent", "prebuilt", "error"} : run' = [run EXCEPT ![r].worker = how]
  BY DEF Work, WorkerEnds, WorkerRaises
<1>3. /\ run'[r].post = "open" /\ run'[r].worker = how /\ run'[r].inbox = run[r].inbox
      /\ run'[r].answer = run[r].answer /\ run'[r].memo = run[r].memo /\ run'[r].seen = run[r].seen
  BY <1>0, <1>1, <1>2 DEF RunStates
<1>4. Ended(r)' /\ (Settled(r) <=> Settled(r)')
  BY <1>0, <1>3 DEF Ended, Settled
<1>. QED
  BY <1>0, <1>3, <1>4 DEF Local, Unopened, OneCaller, AfterWorker, Known

LEMMA LocalPost ==
  ASSUME TypeOK, NEW r \in Runs, Local(r), Finals,
         run[r].post \in {"created", "unflagged", "ready"} => broker.run = r,
         Post(r) \/ ClearStop(r) \/ Register(r) \/ Open(r) \/ Abandon(r)
  PROVE  Local(r)' /\ (Settled(r) => Settled(r)') /\ (Ended(r) => Ended(r)')
<1>0. run \in [Runs -> RunStates] /\ fin \in [Runs -> [Callers -> Stages]]
  BY DEF TypeOK
<1>1. run[r].post # "open"
  BY DEF Post, MayPost, ClearStop, Register, Open, Abandon
<1>2. /\ run[r].worker = "none" /\ run[r].reader = "none" /\ run[r].inbox = {}
      /\ run[r].seen # "final" /\ run[r].answer = "none" /\ ~run[r].memo
      /\ \A c \in Callers : fin[r][c] = "none"
  BY <1>1 DEF Local, Unopened
<1>3. ~Settled(r) /\ ~Ended(r)
  BY <1>2 DEF Settled, Ended
<1>4. CASE Open(r)
  <2>1. broker.run = r /\ broker.finals = {}
    BY <1>3, <1>4 DEF Open, Finals
  <2>2. /\ run'[r].post = "open" /\ run'[r].worker = "working" /\ run'[r].reader = "reading"
        /\ run'[r].inbox = {} /\ run'[r].seen # "final" /\ run'[r].answer = "none" /\ ~run'[r].memo
    BY <1>0, <1>2, <1>4, <2>1 DEF Open, RunStates
  <2>3. \A c \in Callers : fin'[r][c] = "wait"
    BY <1>0, <1>4 DEF Open
  <2>. QED
    BY <1>3, <2>2, <2>3 DEF Local, Unopened, OneCaller, AfterWorker, Known, Busy
<1>5. CASE ~Open(r)
  <2>1. fin' = fin /\ run'[r].post # "open"
    BY <1>0, <1>5 DEF Post, ClearStop, Register, Abandon, RunStates
  <2>2. /\ run'[r].worker = "none" /\ run'[r].reader = "none" /\ run'[r].inbox = {}
        /\ run'[r].seen # "final" /\ run'[r].answer = "none" /\ ~run'[r].memo
    <3>1. CASE \E post \in {"created", "unflagged", "ready"} : run' = [run EXCEPT ![r].post = post]
      BY <1>0, <1>2, <3>1 DEF RunStates
    <3>2. CASE Abandon(r)
      BY <1>0, <1>2, <3>2 DEF Abandon, RunStates
    <3>. QED
      BY <1>5, <3>1, <3>2 DEF Post, ClearStop, Register
  <2>. QED
    BY <1>2, <1>3, <2>1, <2>2 DEF Local, Unopened, OneCaller, AfterWorker, Known, Busy
<1>. QED
  BY <1>4, <1>5

LEMMA LocalStep ==
  ASSUME TypeOK, CalmInv, [Next]_vars, NEW r \in Runs
  PROVE  Local(r)' /\ (Settled(r) => Settled(r)') /\ (Ended(r) => Ended(r)')
<1>1. CASE ~Own(r)
  <2>1. run'[r] = run[r] /\ fin'[r] = fin[r]
    BY <1>1, OwnSteps
  <2>2. Local(r)
    BY DEF CalmInv, RunInv
  <2>. QED
    BY <2>1, <2>2 DEF Local, Unopened, OneCaller, AfterWorker, Known, Settled, Ended
<1>2. CASE Own(r)
  <2>1. Local(r) /\ Finals
    BY DEF CalmInv, RunInv, BrokerInv, Finals
  <2>2. run[r].post \in {"created", "unflagged", "ready"} => broker.run = r
    <3>1. broker.run \in Nat /\ r \in Nat
      BY Numbers
    <3>. QED
      BY <3>1 DEF CalmInv, Prefix
  <2>. QED
    BY <1>2, <2>1, <2>2, LocalFinalize, LocalRead, LocalWork, LocalPost DEF Own
<1>. QED
  BY <1>1, <1>2

-----------------------------------------------------------------------------
(* The key and the stop requests.                                          *)

\* Only a POST changes whose run the key holds.
LEMMA KeyChange ==
  ASSUME TypeOK, [Next]_vars
  PROVE  broker'.run = broker.run \/ \E r \in Runs : Post(r)
<1>0. broker \in [run : Ids, done : BOOLEAN, finals : SUBSET Runs, subscribers : SUBSET Runs]
  BY DEF TypeOK, Ids
<1>1. ASSUME NEW r \in Runs, NEW c \in Callers, Finalize(r, c) PROVE broker'.run = broker.run
  BY <1>0, <1>1 DEF Finalize, ReturnMemo, Decide, PersistRaises, Publish, Finish, ClearCancel, Unflag
<1>2. ASSUME NEW r \in Runs, Work(r) \/ Read(r) \/ Disconnect(r) PROVE broker'.run = broker.run
  BY <1>0, <1>2 DEF Work, WorkerEnds, WorkerRaises, Read, ReadFinal, ReadNothing, Yield, Close, CloseUnflag, Disconnect
<1>3. ASSUME NEW r \in Runs, ClearStop(r) \/ Register(r) \/ Open(r) \/ Abandon(r) PROVE broker'.run = broker.run
  BY <1>0, <1>3 DEF ClearStop, Register, Open, Abandon
<1>4. ASSUME NEW s \in Stops, Cancel(s) \/ \E r \in Runs \union {0} : AskStop(s, r)
      PROVE  broker'.run = broker.run
  BY <1>4 DEF Cancel, AskStop
<1>. QED
  BY <1>1, <1>2, <1>3, <1>4 DEF Next, vars

\* Requests change by AskStop and Cancel only.
LEMMA StopChange ==
  ASSUME [Next]_vars
  PROVE  \/ stop' = stop /\ cancelled' = cancelled
         \/ \E t \in Stops : Cancel(t)
         \/ \E t \in Stops, r \in Runs \union {0} : AskStop(t, r)
<1>1. ASSUME NEW r \in Runs, NEW c \in Callers, Finalize(r, c) PROVE stop' = stop /\ cancelled' = cancelled
  BY <1>1 DEF Finalize, ReturnMemo, Decide, PersistRaises, Publish, Finish, ClearCancel, Unflag
<1>2. ASSUME NEW r \in Runs, Work(r) \/ Read(r) \/ Disconnect(r) PROVE stop' = stop /\ cancelled' = cancelled
  BY <1>2 DEF Work, WorkerEnds, WorkerRaises, Read, ReadFinal, ReadNothing, Yield, Close, CloseUnflag, Disconnect
<1>3. ASSUME NEW r \in Runs, Post(r) \/ ClearStop(r) \/ Register(r) \/ Open(r) \/ Abandon(r)
      PROVE  stop' = stop /\ cancelled' = cancelled
  BY <1>3 DEF Post, ClearStop, Register, Open, Abandon
<1>. QED
  BY <1>1, <1>2, <1>3 DEF Next, vars

\* A request cancels the current run, or none.
LEMMA CancelFinds ==
  ASSUME TypeOK, CalmInv, NEW s \in Stops, Cancel(s)
  PROVE  /\ broker' = broker /\ broker.run \in Runs /\ Meant(s) = broker.run
         /\ stop'[s].at = "over" /\ stop'[s].names = broker.run
         /\ stop'[s].ack => broker.run \in cancelled'
         /\ cancelled \subseteq cancelled' /\ cancelled' \subseteq cancelled \union {broker.run}
         /\ \A t \in Stops \ {s} : stop'[t] = stop[t]
<1>0. /\ stop \in [Stops -> [at : {"none", "flagged", "over"}, names : Ids, ack : BOOLEAN]]
      /\ broker.run \in Ids
  BY DEF TypeOK, Ids
<1>1. broker.run # 0 /\ run[broker.run].post = "open" /\ stop[s].names \in {0, broker.run}
  BY DEF Cancel, CalmInv, StopInv
<1>2. Meant(s) = broker.run
  BY <1>1 DEF Meant
<1>3. byKey \in {0, broker.run}
  BY <1>1 DEF CalmInv, CancelInv
<1>. DEFINE found == IF Meant(s) \in armed THEN Meant(s) ELSE byKey
<1>4. found \in {0, broker.run}
  BY <1>2, <1>3
<1>5. /\ cancelled' = IF found = 0 THEN cancelled ELSE cancelled \union {found}
      /\ stop' = [stop EXCEPT ![s] = [at |-> "over", names |-> Meant(s), ack |-> found # 0]]
      /\ broker' = broker
  BY DEF Cancel
<1>. HIDE DEF found
<1>6. stop'[s] = [at |-> "over", names |-> Meant(s), ack |-> found # 0] /\ \A t \in Stops \ {s} : stop'[t] = stop[t]
  BY <1>0, <1>5
<1>7. stop'[s].at = "over" /\ stop'[s].names = broker.run /\ (stop'[s].ack => found # 0)
  <2>1. stop'[s].at = "over" /\ stop'[s].names = Meant(s)
    BY <1>6
  <2>2. stop'[s].ack = (found # 0)
    BY <1>6
  <2>. QED
    BY <1>2, <2>1, <2>2
<1>8. /\ found # 0 => broker.run \in cancelled'
      /\ cancelled \subseteq cancelled' /\ cancelled' \subseteq cancelled \union {broker.run}
  BY <1>4, <1>5
<1>9. broker.run \in Runs
  BY <1>0, <1>1 DEF Ids
<1>. QED
  BY <1>2, <1>5, <1>6, <1>7, <1>8, <1>9

LEMMA AskFlags ==
  ASSUME TypeOK, NEW s \in Stops, NEW r \in Runs \union {0}, AskStop(s, r)
  PROVE  /\ broker' = broker /\ run' = run /\ broker.run \in Runs /\ run[broker.run].post = "open"
         /\ stop[s].at = "none" /\ stop'[s].at = "flagged" /\ stop'[s].names \in {0, broker.run}
         /\ \A t \in Stops \ {s} : stop'[t] = stop[t]
         /\ UNCHANGED <<cancelled, byKey>>
<1>0. /\ stop \in [Stops -> [at : {"none", "flagged", "over"}, names : Ids, ack : BOOLEAN]]
      /\ broker.run \in Ids
  BY DEF TypeOK, Ids
<1>1. stop' = [stop EXCEPT ![s] = [at |-> "flagged", names |-> r, ack |-> FALSE]]
  BY DEF AskStop
<1>2. stop'[s] = [at |-> "flagged", names |-> r, ack |-> FALSE] /\ \A t \in Stops \ {s} : stop'[t] = stop[t]
  BY <1>0, <1>1
<1>. QED
  BY <1>0, <1>2 DEF AskStop, Ids

LEMMA AskedStable ==
  ASSUME TypeOK, CalmInv, [Next]_vars, NEW r \in Runs, Asked(r)
  PROVE  Asked(r)'
<1>1. PICK s \in Stops : stop[s].at # "none" /\ Meant(s) = r
  BY DEF Asked
<1>2. r # 0
  BY RunIds
<1>3. ASSUME NEW q \in Runs, Post(q) PROVE Asked(r)'
  <2>1. stop' = stop /\ stop[s].at # "flagged"
    BY <1>3 DEF Post, MayPost
  <2>2. stop[s].at = "over"
    BY <1>1, <2>1 DEF TypeOK
  <2>3. stop[s].names = r
    BY <1>1, <2>2 DEF CalmInv, StopInv, Meant
  <2>. QED
    BY <1>1, <1>2, <2>1, <2>3 DEF Asked, Meant
<1>4. ASSUME NEW t \in Stops, Cancel(t) PROVE Asked(r)'
  <2>1. /\ broker' = broker /\ Meant(t) = broker.run /\ stop'[t].at = "over" /\ stop'[t].names = broker.run
        /\ \A u \in Stops \ {t} : stop'[u] = stop[u]
    BY <1>4, CancelFinds
  <2>2. stop'[s].at # "none" /\ Meant(s)' = r
    BY <1>1, <1>2, <2>1 DEF Meant
  <2>. QED
    BY <2>2 DEF Asked
<1>5. ASSUME NEW t \in Stops, NEW q \in Runs \union {0}, AskStop(t, q) PROVE Asked(r)'
  <2>1. stop[t].at = "none" /\ broker' = broker /\ \A u \in Stops \ {t} : stop'[u] = stop[u]
    BY <1>5, AskFlags
  <2>2. stop'[s].at # "none" /\ Meant(s)' = r
    BY <1>1, <2>1 DEF Meant
  <2>. QED
    BY <2>2 DEF Asked
<1>6. CASE stop' = stop /\ broker'.run = broker.run
  BY <1>1, <1>6 DEF Asked, Meant
<1>. QED
  BY <1>3, <1>4, <1>5, <1>6, KeyChange, StopChange

\* The run of a POST is the next one.
LEMMA PostNext ==
  ASSUME TypeOK, CalmInv, NEW r \in Runs, Post(r)
  PROVE  /\ r = broker.run + 1 /\ broker' = [run |-> r, done |-> FALSE, finals |-> {}, subscribers |-> {}]
         /\ run'[r].post = "created" /\ \A q \in Runs \ {r} : run'[q] = run[q]
         /\ \A s \in Stops : stop[s].at # "flagged"
         /\ UNCHANGED <<stop, flag, byKey, cancelled, fin>>
<1>0. run \in [Runs -> RunStates] /\ broker.run \in Nat /\ \A q \in Runs : q \in Nat
  BY Numbers DEF TypeOK
<1>1. run[r].post = "none" /\ \A q \in Runs : q < r => run[q].post # "none"
  BY DEF Post, MayPost
<1>2. broker.run < r
  <2>1. ~(r <= broker.run)
    BY <1>1 DEF CalmInv, Prefix
  <2>. QED
    BY <2>1, <1>0
<1>3. ~(broker.run + 1 < r)
  <2>. SUFFICES ASSUME broker.run + 1 < r PROVE FALSE
    OBVIOUS
  <2>1. broker.run + 1 \in Nat /\ 0 < broker.run + 1 /\ broker.run + 1 <= r
    BY <1>0
  <2>2. broker.run + 1 \in Runs
    BY <2>1, RunIds
  <2>3. broker.run + 1 <= broker.run
    BY <1>1, <2>2 DEF CalmInv, Prefix
  <2>. QED
    BY <1>0, <2>3
<1>4. r = broker.run + 1
  BY <1>0, <1>2, <1>3
<1>5. run'[r].post = "created" /\ \A q \in Runs \ {r} : run'[q] = run[q]
  BY <1>0 DEF Post, RunStates
<1>. QED
  BY <1>4, <1>5 DEF Post, MayPost

-----------------------------------------------------------------------------
(* All runs.                                                               *)

\* What becomes of the posts of a run.
LEMMA PostChange ==
  ASSUME TypeOK, CalmInv, [Next]_vars, NEW r \in Runs
  PROVE  \/ Post(r)
         \/ ClearStop(r) /\ run[r].post = "created" /\ run'[r].post = "unflagged"
         \/ Register(r) /\ run[r].post = "unflagged" /\ run'[r].post = "ready"
         \/ run[r].post = "ready" /\ run'[r].post \in {"open", "abandoned"}
         \/ run'[r].post = run[r].post
<1>0. run \in [Runs -> RunStates]
  BY DEF TypeOK
<1>1. CASE ~Own(r)
  BY <1>1, OwnSteps
<1>2. CASE Work(r) \/ Read(r) \/ Disconnect(r)
  BY <1>0, <1>2
     DEF Work, WorkerEnds, WorkerRaises, Read, ReadFinal, ReadNothing, Yield, Close, CloseUnflag, Disconnect, RunStates
<1>3. CASE ClearStop(r) \/ Register(r) \/ Open(r) \/ Abandon(r)
  BY <1>0, <1>3 DEF ClearStop, Register, Open, Abandon, RunStates
<1>4. ASSUME NEW c \in Callers, Finalize(r, c) PROVE run'[r].post = run[r].post
  BY <1>0, <1>4 DEF Finalize, ReturnMemo, Decide, PersistRaises, Publish, Finish, ClearCancel, Unflag, RunStates
<1>. QED
  BY <1>1, <1>2, <1>3, <1>4 DEF Own

LEMMA PrefixStep ==
  ASSUME TypeOK, CalmInv, [Next]_vars
  PROVE  Prefix'
<1>0. Prefix /\ broker.run \in Nat /\ \A r \in Runs : r \in Nat
  BY Numbers DEF CalmInv
<1>1. ASSUME NEW r \in Runs, Post(r) PROVE Prefix'
  <2>1. /\ r = broker.run + 1 /\ broker'.run = r /\ run'[r].post = "created"
        /\ \A q \in Runs \ {r} : run'[q] = run[q]
    BY <1>1, PostNext
  <2>2. \A q \in Runs : q < r => run[q].post \in {"open", "abandoned"}
    BY <1>1 DEF Post, MayPost
  <2>3. \A q \in Runs : run'[q].post # "none" <=> q <= broker'.run
    BY <1>0, <2>1 DEF Prefix
  <2>4. \A q \in Runs : q < broker'.run => run'[q].post \in {"open", "abandoned"}
    BY <1>0, <2>1, <2>2
  <2>. QED
    BY <2>3, <2>4 DEF Prefix
<1>2. CASE broker'.run = broker.run /\ \A r \in Runs : ~Post(r)
  <2>1. \A r \in Runs : /\ run'[r].post # "none" <=> run[r].post # "none"
                        /\ run[r].post \in {"open", "abandoned"} => run'[r].post = run[r].post
    BY <1>2, PostChange
  <2>. QED
    BY <1>0, <1>2, <2>1 DEF Prefix
<1>. QED
  BY <1>1, <1>2, KeyChange

LEMMA PastStep ==
  ASSUME TypeOK, CalmInv, calm, [Next]_vars, NEW q \in Runs
  PROVE  Past(q)'
<1>1. /\ Past(q) /\ Local(q) /\ (Settled(q) => Settled(q)')
      /\ run[q].post = "abandoned" => run'[q].post = "abandoned"
  BY LocalStep, PostChange DEF CalmInv, RunInv, Post, MayPost
<1>2. ASSUME NEW r \in Runs, Post(r) PROVE Past(q)'
  <2>1. broker'.run = r /\ \A p \in Runs : p < r => run[p].seen = "final" \/ run[p].post = "abandoned"
    BY <1>2, PostNext DEF Post, MayPost
  <2>. QED
    BY <1>1, <2>1 DEF Past, Local, Known
<1>3. CASE broker'.run = broker.run
  BY <1>1, <1>3 DEF Past
<1>. QED
  BY <1>2, <1>3, KeyChange

LEMMA AnswerChange ==
  ASSUME TypeOK, CalmInv, [Next]_vars, NEW r \in Runs, run'[r].answer # run[r].answer
  PROVE  run'[r].answer = Answer(r) /\ \E c \in Callers : Calls(r, c) /\ ~run[r].memo
<1>0. run \in [Runs -> RunStates]
  BY DEF TypeOK
<1>1. Own(r)
  BY OwnSteps
<1>2. CASE Work(r) \/ Read(r) \/ Disconnect(r)
  BY <1>0, <1>2
     DEF Work, WorkerEnds, WorkerRaises, Read, ReadFinal, ReadNothing, Yield, Close, CloseUnflag, Disconnect, RunStates
<1>3. CASE Post(r) \/ ClearStop(r) \/ Register(r) \/ Open(r) \/ Abandon(r)
  BY <1>0, <1>3 DEF Post, ClearStop, Register, Open, Abandon, RunStates
<1>4. ASSUME NEW c \in Callers, Finalize(r, c)
      PROVE  run'[r].answer = Answer(r) /\ Calls(r, c) /\ ~run[r].memo
  <2>1. CASE Decide(r, c) \/ PersistRaises(r, c)
    BY <1>0, <2>1 DEF Decide, PersistRaises, RunStates
  <2>2. CASE ~Decide(r, c) /\ ~PersistRaises(r, c)
    BY <1>0, <1>4, <2>2 DEF Finalize, ReturnMemo, Publish, Finish, ClearCancel, Unflag, RunStates
  <2>. QED
    BY <2>1, <2>2
<1>. QED
  BY <1>1, <1>2, <1>3, <1>4 DEF Own

LEMMA StoppedStep ==
  ASSUME TypeOK, CalmInv, [Next]_vars, NEW r \in Runs
  PROVE  StoppedInv(r)'
<1>1. CASE run'[r].answer = run[r].answer
  BY <1>1, AskedStable DEF StoppedInv, CalmInv, RunInv
<1>2. CASE run'[r].answer # run[r].answer
  <2>1. PICK c \in Callers : run'[r].answer = Answer(r) /\ Calls(r, c) /\ ~run[r].memo
    BY <1>2, AnswerChange
  <2>2. Local(r) /\ Past(r) /\ Prefix /\ broker.run \in Nat /\ r \in Nat
    BY Numbers DEF CalmInv, RunInv
  <2>3. run[r].post = "open" /\ ~Settled(r)
    BY <2>1, <2>2, CallsAlone
  <2>4. r = broker.run
    BY <2>2, <2>3 DEF Past, Prefix
  <2>5. Answer(r) = "stopped" => r \in cancelled \/ flag
    BY DEF Answer
  <2>6. r \in cancelled \/ flag => Asked(r)
    BY <2>3, <2>4 DEF CalmInv, CancelInv
  <2>. QED
    BY <2>1, <2>5, <2>6, AskedStable DEF StoppedInv
<1>. QED
  BY <1>1, <1>2

LEMMA BrokerStep ==
  ASSUME TypeOK, CalmInv, [Next]_vars
  PROVE  BrokerInv'
<1>0. /\ broker \in [run : Ids, done : BOOLEAN, finals : SUBSET Runs, subscribers : SUBSET Runs]
      /\ broker.subscribers \subseteq {broker.run}
      /\ broker.finals # {} => broker.run \in Runs /\ Settled(broker.run)
  BY DEF TypeOK, Ids, CalmInv, BrokerInv
<1>1. ASSUME NEW r \in Runs, Post(r) PROVE BrokerInv'
  <2>1. broker'.finals = {} /\ broker'.subscribers = {}
    BY <1>1 DEF Post
  <2>. QED
    BY <2>1 DEF BrokerInv
<1>2. ASSUME broker'.run = broker.run, broker'.subscribers \subseteq broker.subscribers \union {broker.run},
             broker'.finals = broker.finals
      PROVE BrokerInv'
  <2>1. broker'.subscribers \subseteq {broker'.run}
    BY <1>0, <1>2
  <2>2. broker'.finals # {} => broker'.run # 0 /\ Settled(broker.run)'
    BY <1>0, <1>2, LocalStep, RunIds
  <2>. QED
    BY <1>2, <2>1, <2>2 DEF BrokerInv, Settled
<1>3. ASSUME NEW r \in Runs, NEW c \in Callers, Publish(r, c) PROVE BrokerInv'
  <2>1. r = broker.run
    BY <1>3, PublishOwn
  <2>2. broker'.run = r /\ broker'.subscribers = broker.subscribers
    BY <1>0, <1>3, <2>1 DEF Publish
  <2>3. fin'[r][c] = "finish"
    BY <1>3 DEF Publish, Goto, TypeOK
  <2>4. Settled(r)'
    BY <2>3 DEF Settled
  <2>. QED
    BY <1>0, <2>1, <2>2, <2>4, RunIds DEF BrokerInv, Settled
<1>4. ASSUME NEW r \in Runs, Open(r) \/ Close(r)
      PROVE  /\ broker'.run = broker.run /\ broker'.subscribers \subseteq broker.subscribers \union {broker.run}
             /\ broker'.finals = broker.finals
  BY <1>0, <1>4 DEF Open, Close
<1>5. ASSUME NEW r \in Runs, NEW c \in Callers, Finish(r, c)
      PROVE  /\ broker'.run = broker.run /\ broker'.subscribers = broker.subscribers
             /\ broker'.finals = broker.finals
  BY <1>0, <1>5 DEF Finish
<1>6. ASSUME NEW r \in Runs, NEW c \in Callers, Finalize(r, c), ~Publish(r, c), ~Finish(r, c)
      PROVE  broker' = broker
  BY <1>6 DEF Finalize, ReturnMemo, Decide, PersistRaises, ClearCancel, Unflag
<1>7. ASSUME NEW r \in Runs, ~Close(r), Work(r) \/ Read(r) \/ Disconnect(r) PROVE broker' = broker
  BY <1>7 DEF Work, WorkerEnds, WorkerRaises, Read, ReadFinal, ReadNothing, Yield, CloseUnflag, Disconnect
<1>8. ASSUME NEW r \in Runs, ClearStop(r) \/ Register(r) \/ Abandon(r) PROVE broker' = broker
  BY <1>8 DEF ClearStop, Register, Abandon
<1>9. ASSUME NEW s \in Stops, Cancel(s) \/ \E r \in Runs \union {0} : AskStop(s, r) PROVE broker' = broker
  BY <1>9 DEF Cancel, AskStop
<1>10. CASE broker' = broker
  BY <1>2, <1>10
<1>. QED
  BY <1>1, <1>2, <1>3, <1>4, <1>5, <1>6, <1>7, <1>8, <1>9, <1>10 DEF Next, vars

LEMMA StopStep ==
  ASSUME TypeOK, CalmInv, [Next]_vars, NEW s \in Stops
  PROVE  StopInv(s)'
<1>0. StopInv(s) /\ (broker.run # 0 => broker.run \in Runs)
  BY DEF CalmInv, TypeOK
<1>1. ASSUME NEW t \in Stops, Cancel(t) PROVE StopInv(s)'
  <2>1. /\ broker' = broker /\ broker.run \in Runs /\ run' = run
        /\ stop'[t].at = "over" /\ stop'[t].names = broker.run
        /\ stop'[t].ack => broker.run \in cancelled'
        /\ cancelled \subseteq cancelled'
        /\ \A u \in Stops \ {t} : stop'[u] = stop[u]
    BY <1>1, CancelFinds DEF Cancel
  <2>2. CASE s = t
    BY <2>1, <2>2, RunIds DEF StopInv
  <2>3. CASE s # t
    BY <1>0, <2>1, <2>3 DEF StopInv
  <2>. QED
    BY <2>2, <2>3
<1>2. ASSUME NEW t \in Stops, NEW r \in Runs \union {0}, AskStop(t, r) PROVE StopInv(s)'
  <2>1. /\ broker' = broker /\ run' = run /\ broker.run \in Runs /\ run[broker.run].post = "open"
        /\ stop'[t].at = "flagged" /\ stop'[t].names \in {0, broker.run}
        /\ \A u \in Stops \ {t} : stop'[u] = stop[u]
        /\ cancelled' = cancelled
    BY <1>2, AskFlags
  <2>2. CASE s = t
    BY <2>1, <2>2, RunIds DEF StopInv
  <2>3. CASE s # t
    BY <1>0, <2>1, <2>3 DEF StopInv
  <2>. QED
    BY <2>2, <2>3
<1>3. ASSUME stop' = stop, cancelled' = cancelled PROVE StopInv(s)'
  <2>1. CASE stop[s].at = "flagged"
    <3>1. \A r \in Runs : ~Post(r)
      BY <2>1 DEF Post, MayPost
    <3>2. broker'.run = broker.run
      BY <3>1, KeyChange
    <3>3. broker.run \in Runs /\ run[broker.run].post = "open"
      BY <1>0, <2>1 DEF StopInv
    <3>4. run'[broker.run].post = "open"
      BY <3>1, <3>3, PostChange
    <3>. QED
      BY <1>0, <1>3, <2>1, <3>2, <3>4 DEF StopInv
  <2>. QED
    BY <1>0, <1>3, <2>1 DEF StopInv
<1>. QED
  BY <1>1, <1>2, <1>3, StopChange

LEMMA FlagChange ==
  ASSUME TypeOK, [Next]_vars, flag', ~flag
  PROVE  \E s \in Stops, r \in Runs \union {0} : AskStop(s, r)
<1>1. ASSUME NEW r \in Runs, NEW c \in Callers, Finalize(r, c) PROVE ~flag'
  BY <1>1 DEF Finalize, ReturnMemo, Decide, PersistRaises, Publish, Finish, ClearCancel, Unflag
<1>2. ASSUME NEW r \in Runs, Work(r) \/ Read(r) \/ Disconnect(r) PROVE ~flag'
  BY <1>2 DEF Work, WorkerEnds, WorkerRaises, Read, ReadFinal, ReadNothing, Yield, Close, CloseUnflag, Disconnect
<1>3. ASSUME NEW r \in Runs, Post(r) \/ ClearStop(r) \/ Register(r) \/ Open(r) \/ Abandon(r) PROVE ~flag'
  BY <1>3 DEF Post, ClearStop, Register, Open, Abandon
<1>4. ASSUME NEW s \in Stops, Cancel(s) PROVE ~flag'
  BY <1>4 DEF Cancel
<1>. QED
  BY <1>1, <1>2, <1>3, <1>4 DEF Next, vars

LEMMA RegistryChange ==
  ASSUME [Next]_vars
  PROVE  byKey' \in {0, byKey} \/ \E r \in Runs : Register(r) /\ byKey' = r
<1>1. ASSUME NEW r \in Runs, NEW c \in Callers, Finalize(r, c) PROVE byKey' \in {0, byKey}
  BY <1>1 DEF Finalize, ReturnMemo, Decide, PersistRaises, Publish, Finish, ClearCancel, Unflag, Disarm
<1>2. ASSUME NEW r \in Runs, Work(r) \/ Read(r) \/ Disconnect(r) PROVE byKey' \in {0, byKey}
  BY <1>2
     DEF Work, WorkerEnds, WorkerRaises, Read, ReadFinal, ReadNothing, Yield, Close, CloseUnflag, Disconnect, Disarm
<1>3. ASSUME NEW r \in Runs, Post(r) \/ ClearStop(r) \/ Open(r) \/ Abandon(r) PROVE byKey' = byKey
  BY <1>3 DEF Post, ClearStop, Open, Abandon
<1>4. ASSUME NEW s \in Stops, Cancel(s) \/ \E r \in Runs \union {0} : AskStop(s, r) PROVE byKey' = byKey
  BY <1>4 DEF Cancel, AskStop
<1>5. ASSUME NEW r \in Runs, Register(r) PROVE byKey' = r
  BY <1>5 DEF Register
<1>. QED
  BY <1>1, <1>2, <1>3, <1>4, <1>5 DEF Next, vars

LEMMA CancelStep ==
  ASSUME TypeOK, CalmInv, [Next]_vars
  PROVE  CancelInv'
<1>0. CancelInv /\ (broker.run # 0 => broker.run \in Runs) /\ cancelled \subseteq Runs
  BY DEF CalmInv, TypeOK
<1>1. flag' => broker'.run # 0 /\ (run'[broker'.run].post = "created" \/ Asked(broker.run)')
  <2>. SUFFICES ASSUME flag'
                PROVE  broker'.run # 0 /\ (run'[broker'.run].post = "created" \/ Asked(broker.run)')
    OBVIOUS
  <2>1. ASSUME NEW r \in Runs, Post(r)
        PROVE  broker'.run # 0 /\ run'[broker'.run].post = "created"
    <3>1. broker' = [run |-> r, done |-> FALSE, finals |-> {}, subscribers |-> {}] /\ run'[r].post = "created"
      BY <2>1, PostNext, Zenon
    <3>. QED
      BY <3>1, RunIds
  <2>2. CASE ~flag
    <3>1. PICK s \in Stops, r \in Runs \union {0} : AskStop(s, r)
      BY <2>2, FlagChange
    <3>2. /\ broker' = broker /\ broker.run \in Runs
          /\ stop'[s].at = "flagged" /\ stop'[s].names \in {0, broker.run}
      BY <3>1, AskFlags
    <3>3. Meant(s)' = broker.run
      BY <3>2, RunIds DEF Meant
    <3>. QED
      BY <3>2, <3>3, RunIds DEF Asked
  <2>3. CASE flag /\ broker'.run = broker.run /\ \A r \in Runs : ~Post(r)
    <3>1. PICK b \in Runs : b = broker.run
      BY <1>0, <2>3 DEF CancelInv
    <3>2. run[b].post = "created" \/ Asked(b)
      BY <1>0, <2>3, <3>1 DEF CancelInv
    <3>3. ~ClearStop(b)
      BY DEF ClearStop
    <3>4. run[b].post = "created" => run'[b].post = "created"
      BY <2>3, <3>3, PostChange
    <3>5. Asked(b) => Asked(b)'
      BY AskedStable
    <3>. QED
      BY <2>3, <3>1, <3>2, <3>4, <3>5, RunIds
  <2>. QED
    BY <2>1, <2>2, <2>3, KeyChange
<1>2. broker'.run # 0 /\ run'[broker'.run].post \in {"ready", "open"} => byKey' \in {0, broker'.run}
  <2>1. ASSUME NEW r \in Runs, Post(r) PROVE run'[broker'.run].post = "created"
    BY <2>1, PostNext
  <2>2. CASE broker'.run = broker.run /\ (\A r \in Runs : ~Post(r)) /\ ~\E r \in Runs : Register(r)
    <3>1. byKey' \in {0, byKey}
      BY <2>2, RegistryChange
    <3>2. broker.run # 0 /\ run'[broker.run].post \in {"ready", "open"} => run[broker.run].post \in {"ready", "open"}
      BY <1>0, <2>2, PostChange
    <3>. QED
      BY <1>0, <2>2, <3>1, <3>2 DEF CancelInv
  <2>3. ASSUME NEW r \in Runs, Register(r) PROVE byKey' = broker'.run
    <3>1. run[r].post = "unflagged" /\ byKey' = r /\ broker' = broker
      BY <2>3 DEF Register
    <3>2. r <= broker.run /\ ~(r < broker.run) /\ r \in Nat /\ broker.run \in Nat
      BY <3>1, Numbers DEF CalmInv, Prefix
    <3>. QED
      BY <3>1, <3>2
  <2>. QED
    BY <2>1, <2>2, <2>3, KeyChange
<1>3. \A r \in cancelled' : Asked(r)'
  <2>1. ASSUME NEW s \in Stops, Cancel(s) PROVE \A r \in cancelled' : Asked(r)'
    <3>1. /\ broker.run \in Runs /\ Meant(s) = broker.run /\ stop[s].at = "flagged"
          /\ cancelled' \subseteq cancelled \union {broker.run}
      BY <2>1, CancelFinds DEF Cancel
    <3>2. Asked(broker.run)
      BY <3>1 DEF Asked
    <3>. QED
      BY <1>0, <3>1, <3>2, AskedStable DEF CancelInv
  <2>2. CASE cancelled' = cancelled
    BY <1>0, <2>2, AskedStable DEF CancelInv
  <2>3. ASSUME NEW s \in Stops, NEW r \in Runs \union {0}, AskStop(s, r) PROVE cancelled' = cancelled
    BY <2>3, AskFlags
  <2>. QED
    BY <1>0, <2>1, <2>2, <2>3, StopChange
<1>. QED
  BY <1>1, <1>2, <1>3 DEF CancelInv, Asked

-----------------------------------------------------------------------------
(* The theorems.                                                           *)

LEMMA SavedOnce ==
  ASSUME TypeOK, \A r \in Runs : saved[r] \in {0, 1}, [Next]_vars
  PROVE  \A r \in Runs : saved'[r] \in {0, 1}
<1>1. ASSUME NEW q \in Runs, saved' = Appended(q) PROVE \A r \in Runs : saved'[r] \in {0, 1}
  BY <1>1 DEF Appended, TypeOK
<1>2. ASSUME NEW r \in Runs, NEW c \in Callers, Finalize(r, c) PROVE saved' = saved \/ saved' = Appended(r)
  BY <1>2 DEF Finalize, ReturnMemo, Decide, PersistRaises, Publish, Finish, ClearCancel, Unflag
<1>3. ASSUME NEW r \in Runs, Work(r) \/ Read(r) \/ Disconnect(r) PROVE saved' = saved \/ saved' = Appended(r)
  BY <1>3 DEF Work, WorkerEnds, WorkerRaises, Read, ReadFinal, ReadNothing, Yield, Close, CloseUnflag, Disconnect
<1>4. ASSUME NEW r \in Runs, Post(r) \/ ClearStop(r) \/ Register(r) \/ Open(r) \/ Abandon(r) PROVE saved' = saved
  BY <1>4 DEF Post, ClearStop, Register, Open, Abandon
<1>5. ASSUME NEW s \in Stops, Cancel(s) \/ \E r \in Runs \union {0} : AskStop(s, r) PROVE saved' = saved
  BY <1>5 DEF Cancel, AskStop
<1>. QED
  BY <1>1, <1>2, <1>3, <1>4, <1>5 DEF Next, vars

LEMMA CalmStays == [Next]_vars => calm' = calm
<1>1. ASSUME NEW r \in Runs, NEW c \in Callers, Finalize(r, c) PROVE calm' = calm
  BY <1>1 DEF Finalize, ReturnMemo, Decide, PersistRaises, Publish, Finish, ClearCancel, Unflag
<1>2. ASSUME NEW r \in Runs, Work(r) \/ Read(r) \/ Disconnect(r) PROVE calm' = calm
  BY <1>2 DEF Work, WorkerEnds, WorkerRaises, Read, ReadFinal, ReadNothing, Yield, Close, CloseUnflag, Disconnect
<1>3. ASSUME NEW r \in Runs, Post(r) \/ ClearStop(r) \/ Register(r) \/ Open(r) \/ Abandon(r) PROVE calm' = calm
  BY <1>3 DEF Post, ClearStop, Register, Open, Abandon
<1>4. ASSUME NEW s \in Stops, Cancel(s) \/ \E r \in Runs \union {0} : AskStop(s, r) PROVE calm' = calm
  BY <1>4 DEF Cancel, AskStop
<1>. QED
  BY <1>1, <1>2, <1>3, <1>4 DEF Next, vars

LEMMA InvInit == Init => IInv
<1>. SUFFICES ASSUME Init PROVE IInv
  OBVIOUS
<1>0. TypeOK
  BY TypeInit
<1>1. broker.run = 0 /\ broker.finals = {} /\ broker.subscribers = {} /\ ~flag /\ cancelled = {}
  BY DEF Init
<1>2. ASSUME NEW r \in Runs PROVE RunInv(r) /\ run[r].post = "none"
  <2>1. run[r] = NewRun /\ \A c \in Callers : fin[r][c] = "none"
    BY DEF Init
  <2>2. ~(r < 0)
    BY Numbers, <1>0
  <2>. QED
    BY <1>1, <2>1, <2>2
       DEF NewRun, RunInv, Local, Unopened, OneCaller, AfterWorker, Known, Past, StoppedInv, Settled, Ended, Busy
<1>3. ASSUME NEW s \in Stops PROVE StopInv(s)
  BY DEF Init, Idle, StopInv
<1>4. Prefix
  <2>1. \A r \in Runs : ~(r <= 0) /\ ~(r < 0)
    BY RunsAssumption
  <2>. QED
    BY <1>1, <1>2, <2>1 DEF Prefix
<1>5. BrokerInv /\ CancelInv
  BY <1>1 DEF BrokerInv, CancelInv
<1>6. \A r \in Runs : saved[r] \in {0, 1}
  BY DEF Init
<1>. QED
  BY <1>0, <1>2, <1>3, <1>4, <1>5, <1>6 DEF IInv, CalmInv

LEMMA Inductive == Spec => []IInv
<1>1. IInv /\ [Next]_vars => IInv'
  <2>. SUFFICES ASSUME IInv, [Next]_vars PROVE IInv'
    OBVIOUS
  <2>1. TypeOK' /\ \A r \in Runs : saved'[r] \in {0, 1}
    BY TypeStep, SavedOnce DEF IInv
  <2>2. ASSUME calm' PROVE CalmInv'
    <3>1. TypeOK /\ calm /\ CalmInv
      BY <2>2, CalmStays DEF IInv
    <3>2. Prefix' /\ BrokerInv' /\ CancelInv'
      BY <3>1, PrefixStep, BrokerStep, CancelStep
    <3>3. \A r \in Runs : RunInv(r)'
      BY <3>1, LocalStep, PastStep, StoppedStep DEF RunInv
    <3>4. \A s \in Stops : StopInv(s)'
      BY <3>1, StopStep
    <3>. QED
      BY <3>2, <3>3, <3>4 DEF CalmInv
  <2>. QED
    BY <2>1, <2>2 DEF IInv
<1>. QED
  BY <1>1, InvInit, PTL DEF Spec

\* Type correctness: the broker, the cancel registries and the threads speak
\* of runs of the session (agents/api.py).
THEOREM TypeCorrect == Spec => []TypeOK
<1>1. IInv => TypeOK
  BY DEF IInv
<1>. QED
  BY <1>1, Inductive, PTL

\* For any runs, stop requests and faults: with a calm client a run is
\* answered after its own worker ended, and with "Stopped." only if it was
\* asked to stop, although the threads of earlier runs still clear flags and
\* cancel events under the same key; and no run stores two messages
\* (_finalize_once and agent_chat_stream).
THEOREM Honest == Spec => []AnswersAreHonest
<1>1. IInv => AnswersAreHonest
  <2>. SUFFICES ASSUME IInv PROVE AnswersAreHonest
    OBVIOUS
  <2>1. OneMessage
    BY DEF IInv, OneMessage
  <2>2. AnswersMatchRuns
    BY DEF IInv, CalmInv, RunInv, Local, AfterWorker, StoppedInv, Asked, AnswersMatchRuns
  <2>. QED
    BY <2>1, <2>2 DEF AnswersAreHonest
<1>. QED
  BY <1>1, Inductive, PTL

\* A stop that was acknowledged before its run was answered is obeyed,
\* however the threads of this run and of earlier ones interleave
\* (_request_chat_stream_cancel and _finalize_once).
THEOREM StopsObeyed == Spec => StopIsObeyed
<1>. DEFINE Obeyed ==
       calm => \A r \in Runs :
         run[r].answer = "none" /\ run'[r].answer # "none"
         /\ (\E s \in Stops : stop[s].at = "over" /\ stop[s].ack /\ stop[s].names = r)
           => run'[r].answer = "stopped"
<1>1. IInv /\ [Next]_vars => [Obeyed]_vars
  <2>. SUFFICES ASSUME IInv, [Next]_vars, calm, NEW r \in Runs, run[r].answer = "none", run'[r].answer # "none",
                       NEW s \in Stops, stop[s].at = "over", stop[s].ack, stop[s].names = r
                PROVE  run'[r].answer = "stopped"
    OBVIOUS
  <2>1. r \in cancelled
    BY DEF IInv, CalmInv, StopInv
  <2>2. run'[r].answer = Answer(r)
    BY AnswerChange DEF IInv
  <2>. QED
    BY <2>1, <2>2 DEF Answer
<1>2. Spec => [][Obeyed]_vars
  BY <1>1, Inductive, PTL DEF Spec
<1>. QED
  BY <1>2 DEF StopIsObeyed
=============================================================================
