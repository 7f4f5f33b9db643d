------------------------- MODULE StreamBroker_proofs -------------------------
(***************************************************************************)
(* Proofs about StreamBroker, for any publishers, readers and bounds: type *)
(* correctness and DeliveryIsExact.                                        *)
(*                                                                         *)
(* The inductive invariant adds to the property who is registered where    *)
(* (Registered), that the replay is older than anything live (ReplayFirst) *)
(* and, for the bound on overtaking, that the events a queued or yielded   *)
(* event was put ahead of are few (FifoBounded): they were in flight when  *)
(* it was put, each by another publisher, and a FIFO queue adds none.      *)
(***************************************************************************)
EXTENDS StreamBroker, FiniteSetTheorems, TLAPS

\* A reader's queue is in one subscriber list, its own run's, and only while
\* the reader is live; every put under way towards it is of its run.
Registered(c) ==
  /\ Live(c) => want[c] \in Runs /\ c \in subs[want[c]]
  /\ \A r \in Runs : c \in subs[r] => Live(c) /\ r = want[c]
  /\ \A p \in Publishers : c \in puts[p].to =>
       Live(c) /\ puts[p].run = want[c] /\ puts[p].seq < nextSeq[want[c]]

Pending(c) == Queued(c) \union InFlight(c)

Handoff(c) ==
  replay[c] \union got[c] \union Pending(c) = base[c] + 1 .. nextSeq[want[c]] - 1

OnceQueued(c) == \A i, j \in 1 .. Len(queue[c]) : queue[c][i] = queue[c][j] => i = j

OnceInFlight(c) ==
  \A p, q \in Publishers :
    (c \in puts[p].to /\ c \in puts[q].to /\ puts[p].seq = puts[q].seq) => p = q

Once(c) ==
  /\ replay[c] \intersect got[c] = {}
  /\ (replay[c] \union got[c]) \intersect Pending(c) = {}
  /\ Queued(c) \intersect InFlight(c) = {}
  /\ OnceQueued(c)
  /\ OnceInFlight(c)

\* What is replayed comes after what was yielded and before what is live.
ReplayFirst(c) ==
  \A n \in replay[c] :
    /\ \A m \in got[c] : m < n
    /\ \A m \in Pending(c) : n < m

HasTop(c) == got[c] = {} \/ \E m \in got[c] : \A n \in got[c] : n <= m

\* The events numbered before m that come after position i of the queue.
Behind(c, m, i) ==
  {n \in InFlight(c) \union {queue[c][j] : j \in i + 1 .. Len(queue[c])} : n < m}

Few(S) == IsFiniteSet(S) /\ Cardinality(S) < Cardinality(Publishers)

FifoBounded(c) ==
  /\ \A m \in got[c] : Few(Behind(c, m, 0))
  /\ \A i \in 1 .. Len(queue[c]) : Few(Behind(c, queue[c][i], i))

Started(c) == base[c] < nextSeq[want[c]]

Exact(c) == Started(c) /\ Handoff(c) /\ Once(c) /\ ReplayFirst(c) /\ HasTop(c) /\ FifoBounded(c)

CInv(c) == Registered(c) /\ (Live(c) => Exact(c))

Window == \A r \in Runs : first[r] <= nextSeq[r]

IInv == TypeOK /\ Window /\ \A c \in Consumers : CInv(c)

-----------------------------------------------------------------------------
(* Types.                                                                  *)

LEMMA TypeInit == Init => TypeOK
  BY MaxRunsAssumption DEF Init, TypeOK, Runs, FirstSeq, NoPut

LEMMA CloseType ==
  ASSUME TypeOK, NEW c \in Consumers, Close(c), UNCHANGED replay,
         got' \in [Consumers -> SUBSET Nat]
  PROVE  TypeOK'
  <1>1. puts' \in [Publishers -> [run : 0 .. MaxRuns, seq : Nat, to : SUBSET Consumers]]
    <2> SUFFICES ASSUME NEW p \in Publishers
                 PROVE  [puts[p] EXCEPT !.to = @ \ {c}]
                          \in [run : 0 .. MaxRuns, seq : Nat, to : SUBSET Consumers]
      BY DEF Close, DropQueue
    <2>1. puts[p] \in [run : 0 .. MaxRuns, seq : Nat, to : SUBSET Consumers]
      BY DEF TypeOK
    <2> QED BY <2>1
  <1>2. subs' \in [Runs -> SUBSET Consumers] /\ queue' \in [Consumers -> Seq(Nat)]
    BY DEF TypeOK, Close, DropQueue
  <1> QED BY <1>1, <1>2 DEF TypeOK, Close

LEMMA AppendType ==
  ASSUME TypeOK, NEW p \in Publishers, NEW f \in BOOLEAN, Append1(p, f),
         worker' \in [Runs -> {"none", "live", "final", "over"}]
  PROVE  TypeOK'
  <1>1. run \in Runs
    BY DEF Append1, TypeOK, Runs
  <1>2. nextSeq[run] \in Nat \ {0} /\ first[run] \in Nat \ {0} /\ finalSeq[run] \in SUBSET Nat
    BY <1>1 DEF TypeOK
  <1>3. nextSeq' \in [Runs -> Nat \ {0}] /\ first' \in [Runs -> Nat \ {0}]
    BY <1>1, <1>2, MaxEventsAssumption DEF TypeOK, Append1
  <1>4. finalSeq' \in [Runs -> SUBSET Nat]
    BY <1>1, <1>2 DEF TypeOK, Append1
  <1>5. puts' \in [Publishers -> [run : 0 .. MaxRuns, seq : Nat, to : SUBSET Consumers]]
    BY <1>1, <1>2 DEF TypeOK, Append1
  <1> QED BY <1>3, <1>4, <1>5 DEF TypeOK, Append1, readerVars

LEMMA TypeStep == TypeOK /\ [Next]_vars => TypeOK'
  <1> SUFFICES ASSUME TypeOK, [Next]_vars PROVE TypeOK'
    OBVIOUS
  <1>1. CASE UNCHANGED vars
    BY <1>1 DEF vars, TypeOK
  <1>2. CASE CreateRun
    BY <1>2, MaxRunsAssumption DEF CreateRun, TypeOK, readerVars, Runs
  <1>3. ASSUME NEW p \in Publishers, PublishEvent(p) PROVE TypeOK'
    BY <1>3, AppendType DEF PublishEvent, TypeOK
  <1>4. ASSUME NEW p \in Publishers, NEW r \in Runs, PublishFinal(p, r) PROVE TypeOK'
    <2>1. worker' \in [Runs -> {"none", "live", "final", "over"}]
      BY <1>4 DEF PublishFinal, TypeOK
    <2> QED BY <1>4, <2>1, AppendType DEF PublishFinal
  <1>5. ASSUME NEW p \in Publishers, NEW c \in Consumers, PutOne(p, c) PROVE TypeOK'
    <2>1. Append(queue[c], puts[p].seq) \in Seq(Nat)
      BY DEF TypeOK
    <2> QED BY ZenonT(60), <1>5, <2>1 DEF PutOne, TypeOK, brokerVars
  <1>6. ASSUME NEW p \in Publishers, PutEnd(p) PROVE TypeOK'
    BY <1>6, MaxRunsAssumption DEF PutEnd, TypeOK, NoPut, brokerVars, readerVars
  <1>7. ASSUME NEW r \in Runs, FinishRun(r) PROVE TypeOK'
    BY <1>7 DEF FinishRun, TypeOK, readerVars
  <1>8. ASSUME NEW c \in Consumers, NEW s \in 0 .. MaxSeq, Subscribe(c, s) PROVE TypeOK'
    <2>1. run \in Runs
      BY <1>8 DEF Subscribe, TypeOK, Runs
    <2>2. MaxOf(s + 1, first[run]) \in Nat \ {0} /\ nextSeq[run] \in Nat
      BY <2>1, MaxSeqAssumption DEF MaxOf, TypeOK
    <2>3. replay' \in [Consumers -> SUBSET Nat] /\ base' \in [Consumers -> Nat]
      BY <1>8, <2>2 DEF Subscribe, TypeOK
    <2>4. joined' \in [Consumers -> BOOLEAN] /\ subs' \in [Runs -> SUBSET Consumers]
      BY <1>8, <2>1 DEF Subscribe, TypeOK
    <2> QED BY SMTT(60), <1>8, <2>1, <2>3, <2>4 DEF Subscribe, TypeOK
  <1>9. ASSUME NEW c \in Consumers, YieldReplay(c) PROVE TypeOK'
    BY <1>9 DEF YieldReplay, TypeOK, brokerVars
  <1>10. ASSUME NEW c \in Consumers, EndReplay(c) PROVE TypeOK'
    BY <1>10, CloseType DEF EndReplay, TypeOK
  <1>11. ASSUME NEW c \in Consumers, YieldLive(c) PROVE TypeOK'
    <2>1. Head(queue[c]) \in Nat /\ Tail(queue[c]) \in Seq(Nat)
      BY <1>11 DEF YieldLive, TypeOK
    <2>2. got' \in [Consumers -> SUBSET Nat]
      BY <1>11, <2>1 DEF YieldLive, TypeOK
    <2>3. CASE Close(c)
      BY <1>11, <2>2, <2>3, CloseType DEF YieldLive
    <2>4. CASE ~Close(c)
      BY ZenonT(60), <1>11, <2>1, <2>2, <2>4 DEF YieldLive, TypeOK, brokerVars
    <2> QED BY <2>3, <2>4
  <1>12. ASSUME NEW c \in Consumers, TimeOut(c) PROVE TypeOK'
    BY <1>12 DEF TimeOut, TypeOK, brokerVars
  <1>13. ASSUME NEW c \in Consumers, CheckState(c) PROVE TypeOK'
    <2>1. CASE Close(c)
      BY <1>13, <2>1, CloseType DEF CheckState, TypeOK
    <2>2. CASE ~Close(c)
      BY <1>13, <2>2 DEF CheckState, TypeOK, brokerVars
    <2> QED BY <2>1, <2>2
  <1>14. ASSUME NEW c \in Consumers, Disconnect(c) PROVE TypeOK'
    BY <1>14, CloseType DEF Disconnect, TypeOK
  <1> QED
    BY <1>1, <1>2, <1>3, <1>4, <1>5, <1>6, <1>7, <1>8, <1>9, <1>10, <1>11, <1>12, <1>13, <1>14
    DEF Next, Read

\* Sequence numbers, runs and queues keep their types, whatever threads
\* publish and subscribe (in_memory_stream_broker.py).
THEOREM TypeCorrect == Spec => []TypeOK
  BY TypeInit, TypeStep, PTL DEF Spec

-----------------------------------------------------------------------------
(* Steps that leave a reader's view of the broker alone, and closing.      *)

SameEnds(c) ==
  /\ \A r \in Runs : c \in subs'[r] <=> c \in subs[r]
  /\ \A p \in Publishers : c \in puts'[p].to <=> c \in puts[p].to
  /\ \A p \in Publishers : c \in puts[p].to =>
       puts'[p].seq = puts[p].seq /\ puts'[p].run = puts[p].run

SameReader(c) ==
  /\ cpc'[c] = "off" <=> cpc[c] = "off"
  /\ joined'[c] = joined[c] /\ want'[c] = want[c] /\ base'[c] = base[c]
  /\ replay'[c] = replay[c] /\ queue'[c] = queue[c] /\ got'[c] = got[c]

LEMMA SameInFlight ==
  ASSUME NEW c \in Consumers, SameEnds(c)
  PROVE  /\ InFlight(c)' = InFlight(c)
         /\ OnceInFlight(c) => OnceInFlight(c)'
  BY DEF SameEnds, InFlight, OnceInFlight

LEMMA SameView ==
  ASSUME NEW c \in Consumers, CInv(c), SameEnds(c), SameReader(c),
         Live(c) => nextSeq'[want[c]] = nextSeq[want[c]]
  PROVE  CInv(c)'
  <1>1. InFlight(c)' = InFlight(c) /\ Queued(c)' = Queued(c) /\ Pending(c)' = Pending(c)
    BY SameInFlight DEF SameReader, Queued, Pending
  <1>2. Live(c)' <=> Live(c)
    BY DEF SameReader, Live
  <1>3. Registered(c)'
    BY <1>2 DEF CInv, Registered, SameEnds, SameReader
  <1>4. ASSUME Live(c) PROVE Exact(c)'
    <2>1. Handoff(c)'
      BY <1>1, <1>4 DEF CInv, Exact, Handoff, SameReader
    <2>6. Started(c)'
      BY <1>4 DEF CInv, Exact, Started, SameReader
    <2>2. Once(c)'
      BY <1>1, <1>4, SameInFlight DEF CInv, Exact, Once, OnceQueued, SameReader
    <2>3. ReplayFirst(c)' /\ HasTop(c)'
      BY <1>1, <1>4 DEF CInv, Exact, ReplayFirst, HasTop, SameReader
    <2>4. \A m, i : Behind(c, m, i)' = Behind(c, m, i)
      BY <1>1 DEF Behind, SameReader
    <2>5. FifoBounded(c)'
      BY <1>4, <2>4 DEF CInv, Exact, FifoBounded, Few, SameReader
    <2> QED BY <2>1, <2>2, <2>3, <2>5, <2>6 DEF Exact
  <1> QED BY <1>2, <1>3, <1>4 DEF CInv

LEMMA Closed ==
  ASSUME NEW c \in Consumers, TypeOK, Close(c)
  PROVE  CInv(c)'
  <1>1. cpc'[c] = "off" /\ \A r \in Runs : c \notin subs'[r]
    BY DEF Close, DropQueue, TypeOK
  <1>2. \A p \in Publishers : c \notin puts'[p].to
    BY DEF Close, DropQueue, TypeOK
  <1> QED BY <1>1, <1>2 DEF CInv, Registered, Live

LEMMA OtherClosed ==
  ASSUME NEW c \in Consumers, NEW d \in Consumers, d # c, TypeOK, CInv(c), Close(d),
         replay'[c] = replay[c], got'[c] = got[c]
  PROVE  CInv(c)'
  <1>1. SameReader(c)
    BY DEF Close, DropQueue, TypeOK, SameReader
  <1>2. SameEnds(c)
    BY DEF Close, DropQueue, TypeOK, SameEnds
  <1> QED BY <1>1, <1>2, SameView DEF Close

-----------------------------------------------------------------------------
(* Counting the events that are behind another one.                        *)

\* Numbers that all belong to publishers other than p are few.
LEMMA FewOthers ==
  ASSUME NEW S, NEW p \in Publishers,
         \A n \in S : \E q \in Publishers \ {p} : puts[q].seq = n
  PROVE  Few(S)
  <1> DEFINE Q == Publishers \ {p}
             owner == [n \in S |-> CHOOSE q \in Q : puts[q].seq = n]
  <1>1. IsFiniteSet(Q) /\ Cardinality(Q) = Cardinality(Publishers) - 1
    BY PublishersAssumption, FS_RemoveElement
  <1>2. \A n \in S : owner[n] \in Q /\ puts[owner[n]].seq = n
    OBVIOUS
  <1>3. owner \in Injection(S, Q)
    BY <1>2 DEF Injection, IsInjective
  <1>4. IsFiniteSet(S) /\ Cardinality(S) <= Cardinality(Q)
    BY <1>1, <1>3, FS_Injection
  <1>5. Cardinality(S) \in Nat /\ Cardinality(Publishers) \in Nat
    BY <1>4, PublishersAssumption, FS_CardinalityType
  <1> QED BY <1>1, <1>4, <1>5 DEF Few

LEMMA FewNone == Few({})
  BY PublishersAssumption, FS_EmptySet, FS_CardinalityType DEF Few

LEMMA FewSubset ==
  ASSUME NEW S, Few(S), NEW T \in SUBSET S
  PROVE  Few(T)
  <1>1. IsFiniteSet(T) /\ Cardinality(T) <= Cardinality(S)
    BY FS_Subset DEF Few
  <1>2. Cardinality(S) \in Nat /\ Cardinality(T) \in Nat /\ Cardinality(Publishers) \in Nat
    BY <1>1, PublishersAssumption, FS_CardinalityType DEF Few
  <1> QED BY <1>1, <1>2 DEF Few

-----------------------------------------------------------------------------
(* Publishing.                                                             *)

\* An event is numbered and copied for a reader that is registered.
LEMMA AppendToReader ==
  ASSUME TypeOK, NEW c \in Consumers, CInv(c), NEW p \in Publishers, NEW f \in BOOLEAN,
         Append1(p, f), c \in subs[run]
  PROVE  CInv(c)'
  <1> DEFINE n == nextSeq[run]
  <1>1. run \in Runs /\ puts[p] = NoPut
    BY DEF Append1, TypeOK, Runs
  <1>22. n \in Nat \ {0}
    BY <1>1 DEF TypeOK
  <1>2. Live(c) /\ run = want[c] /\ Exact(c) /\ Registered(c)
    BY <1>1 DEF CInv, Registered
  <1>3. SameReader(c) /\ subs' = subs
    BY DEF Append1, readerVars, SameReader
  <1>4. nextSeq'[run] = n + 1
    BY <1>1 DEF Append1, TypeOK
  <1>5. /\ puts'[p].run = run /\ puts'[p].seq = n /\ c \in puts'[p].to
        /\ \A q \in Publishers \ {p} : puts'[q] = puts[q]
    BY DEF Append1, TypeOK
  <1>6. c \notin puts[p].to
    BY <1>1 DEF NoPut
  <1>7. \A q \in Publishers : c \in puts[q].to => puts[q].seq < n /\ puts[q].seq \in Nat
    BY <1>2 DEF Registered, TypeOK
  <1>8. Live(c)' /\ want'[c] = run
    BY <1>2, <1>3 DEF Live, SameReader
  <1>9. Registered(c)'
    BY <1>1, <1>22, <1>2, <1>3, <1>4, <1>5, <1>7, <1>8 DEF Registered, SameReader
  <1>10. InFlight(c)' = InFlight(c) \union {n}
    BY <1>5, <1>6 DEF InFlight
  <1>11. Queued(c)' = Queued(c) /\ Pending(c)' = Pending(c) \union {n}
    BY <1>3, <1>10 DEF Queued, Pending, SameReader
  <1>12. base[c] \in Nat /\ base[c] < n
    BY <1>2 DEF Exact, Started, TypeOK
  <1>13. replay[c] \union got[c] \union Pending(c) = base[c] + 1 .. n - 1
    BY <1>2 DEF Exact, Handoff
  <1>14. Handoff(c)' /\ Started(c)'
    <2>1. base[c] + 1 .. n = (base[c] + 1 .. n - 1) \union {n}
      BY <1>12, <1>22
    <2> QED BY <1>3, <1>4, <1>8, <1>11, <1>12, <1>13, <2>1, <1>22 DEF Handoff, Started, SameReader
  <1>15. n \notin replay[c] /\ n \notin got[c] /\ n \notin Pending(c)
    BY <1>22, <1>12, <1>13
  <1>16. OnceInFlight(c)'
    <2>1. \A q \in Publishers \ {p} : c \in puts'[q].to => puts'[q].seq < n /\ puts'[q].seq \in Nat
      BY <1>5, <1>7
    <2> QED BY <1>2, <1>5, <2>1, <1>22 DEF Exact, Once, OnceInFlight
  <1>17. Once(c)'
    BY <1>2, <1>3, <1>10, <1>11, <1>15, <1>16
    DEF Exact, Once, OnceQueued, SameReader, Pending
  <1>18. \A m \in replay[c] : m < n
    BY <1>22, <1>12, <1>13
  <1>19. ReplayFirst(c)' /\ HasTop(c)'
    BY <1>2, <1>3, <1>11, <1>18 DEF Exact, ReplayFirst, HasTop, SameReader
  <1>20. \A i : \A m \in got[c] \union Queued(c) : Behind(c, m, i)' = Behind(c, m, i)
    <2>1. \A m \in got[c] \union Queued(c) : ~(n < m)
      BY <1>22, <1>12, <1>13 DEF Pending
    <2> QED BY <1>3, <1>10, <2>1 DEF Behind, SameReader
  <1>21. FifoBounded(c)'
    <2>1. \A i \in 1 .. Len(queue[c]) : queue[c][i] \in Queued(c)
      BY DEF Queued
    <2> QED BY <1>2, <1>3, <1>20, <2>1 DEF Exact, FifoBounded, Few, SameReader
  <1> QED BY <1>9, <1>14, <1>17, <1>19, <1>21 DEF CInv, Exact

\* An event is put into a reader's queue: it leaves the events in flight and
\* only other publishers' events can be numbered before it and come later.
LEMMA PutToReader ==
  ASSUME TypeOK, NEW c \in Consumers, CInv(c), NEW p \in Publishers, PutOne(p, c)
  PROVE  CInv(c)'
  <1> DEFINE n == puts[p].seq
             k == Len(queue[c]) + 1
  <1>1. /\ cpc' = cpc /\ joined' = joined /\ want' = want /\ base' = base
        /\ replay' = replay /\ got' = got /\ nextSeq' = nextSeq /\ subs' = subs
    BY DEF PutOne, brokerVars
  <1>2. c \in puts[p].to /\ n \in Nat /\ queue[c] \in Seq(Nat)
    BY DEF PutOne, TypeOK
  <1>3. Live(c) /\ Exact(c) /\ Registered(c)
    BY <1>2 DEF CInv, Registered
  <1>4. queue'[c] = Append(queue[c], n)
    BY DEF PutOne, TypeOK
  <1>5. /\ puts'[p].run = puts[p].run /\ puts'[p].seq = n /\ c \notin puts'[p].to
        /\ \A q \in Publishers \ {p} : puts'[q] = puts[q]
    BY DEF PutOne, TypeOK
  <1>6. \A q \in Publishers : (c \in puts[q].to /\ puts[q].seq = n) => q = p
    BY <1>2, <1>3 DEF Exact, Once, OnceInFlight
  <1>7. InFlight(c)' = InFlight(c) \ {n} /\ n \in InFlight(c)
    BY <1>2, <1>5, <1>6 DEF InFlight
  <1>8. /\ Len(queue'[c]) = k /\ k \in Nat /\ queue'[c][k] = n
        /\ \A i \in 1 .. Len(queue[c]) : queue'[c][i] = queue[c][i]
    BY <1>2, <1>4
  <1>9. Queued(c)' = Queued(c) \union {n}
    <2>1. 1 .. k = (1 .. Len(queue[c])) \union {k}
      BY <1>8
    <2> QED BY <1>8, <2>1 DEF Queued
  <1>10. Pending(c)' = Pending(c)
    BY <1>7, <1>9 DEF Pending
  <1>11. Live(c)' /\ Registered(c)'
    BY <1>1, <1>3, <1>5 DEF Live, Registered
  <1>12. Handoff(c)' /\ Started(c)' /\ ReplayFirst(c)' /\ HasTop(c)'
    BY <1>1, <1>3, <1>10 DEF Exact, Handoff, Started, ReplayFirst, HasTop
  <1>13. OnceQueued(c)'
    <2>1. \A i \in 1 .. Len(queue[c]) : queue[c][i] # n
      BY <1>3, <1>7 DEF Exact, Once, Queued
    <2>2. \A i \in 1 .. Len(queue'[c]) : i = k \/ i \in 1 .. Len(queue[c])
      BY <1>2, <1>8
    <2> QED BY <1>3, <1>8, <2>1, <2>2 DEF Exact, Once, OnceQueued
  <1>14. OnceInFlight(c)'
    BY <1>3, <1>5 DEF Exact, Once, OnceInFlight
  <1>15. Once(c)'
    BY <1>1, <1>3, <1>7, <1>9, <1>10, <1>13, <1>14 DEF Exact, Once
  <1>16. \A i \in 0 .. Len(queue[c]) : \A m : Behind(c, m, i)' = Behind(c, m, i)
    <2> SUFFICES ASSUME NEW i \in 0 .. Len(queue[c])
                 PROVE  InFlight(c)' \union {queue'[c][j] : j \in i + 1 .. Len(queue'[c])}
                          = InFlight(c) \union {queue[c][j] : j \in i + 1 .. Len(queue[c])}
      BY DEF Behind
    <2>1. i + 1 .. k = (i + 1 .. Len(queue[c])) \union {k}
      BY <1>2, <1>8
    <2>2. i + 1 .. Len(queue[c]) \subseteq 1 .. Len(queue[c])
      BY <1>2
    <2>3. {queue'[c][j] : j \in i + 1 .. Len(queue'[c])}
            = {queue[c][j] : j \in i + 1 .. Len(queue[c])} \union {n}
      BY SMTT(60), <1>8, <2>1, <2>2
    <2> QED BY <1>7, <2>3
  <1>17. ASSUME NEW m, m = n, NEW i, i = k PROVE Few(Behind(c, m, i)')
    <2>1. i + 1 .. Len(queue'[c]) = {}
      BY <1>8, <1>17
    <2>2. \A x \in Behind(c, m, i)' : x \in InFlight(c) \ {n}
      BY <1>7, <2>1 DEF Behind
    <2>3. \A x \in Behind(c, m, i)' : \E q \in Publishers \ {p} : puts[q].seq = x
      BY <2>2 DEF InFlight
    <2> QED BY <2>3, FewOthers
  <1>18. FifoBounded(c)'
    <2>1. \A m \in got[c] : Few(Behind(c, m, 0)')
      BY <1>2, <1>3, <1>16 DEF Exact, FifoBounded
    <2>2. \A i \in 1 .. Len(queue[c]) : \A m : m = queue[c][i] => Few(Behind(c, m, i)')
      BY <1>2, <1>3, <1>16 DEF Exact, FifoBounded
    <2>3. \A i \in 1 .. Len(queue'[c]) : i = k \/ i \in 1 .. Len(queue[c])
      BY <1>2, <1>8
    <2>4. \A i \in 1 .. Len(queue'[c]) : \A m : m = queue'[c][i] => Few(Behind(c, m, i)')
      BY <1>8, <1>17, <2>2, <2>3
    <2> QED BY <1>1, <2>1, <2>4 DEF FifoBounded, Few
  <1> QED BY <1>11, <1>12, <1>15, <1>18 DEF CInv, Exact

-----------------------------------------------------------------------------
(* Reading.                                                                *)

\* The replay snapshot and the registration meet at the next event.
LEMMA SubscribeReader ==
  ASSUME TypeOK, Window, NEW c \in Consumers, CInv(c), NEW s \in 0 .. MaxSeq, Subscribe(c, s)
  PROVE  CInv(c)'
  <1> DEFINE from == MaxOf(s + 1, first[run])
  <1>1. run \in Runs
    BY DEF Subscribe, TypeOK, Runs
  <1>2. /\ s \in Nat /\ from \in Nat \ {0} /\ from <= nextSeq[run]
        /\ nextSeq[run] \in Nat
    BY <1>1, MaxSeqAssumption DEF Subscribe, MaxOf, TypeOK, Window
  <1>3. /\ cpc'[c] = "reading" /\ want'[c] = run /\ joined'[c] = ~done[run]
        /\ queue'[c] = <<>> /\ got'[c] = {} /\ nextSeq' = nextSeq /\ puts' = puts
        /\ replay'[c] = from .. nextSeq[run] - 1 /\ base'[c] = from - 1
    BY DEF Subscribe, TypeOK
  <1>4. /\ \A r \in Runs : c \notin subs[r]
        /\ \A p \in Publishers : c \notin puts[p].to
    BY DEF Subscribe, CInv, Registered, Live
  <1>5. \A r \in Runs : c \in subs'[r] <=> r = run /\ ~done[run]
    BY <1>1, <1>4 DEF Subscribe, TypeOK
  <1>6. Registered(c)'
    BY <1>1, <1>3, <1>4, <1>5 DEF Registered, Live
  <1>7. Pending(c)' = {} /\ InFlight(c)' = {} /\ Queued(c)' = {}
    BY <1>3, <1>4 DEF Pending, Queued, InFlight
  <1>8. Handoff(c)' /\ Started(c)'
    BY <1>2, <1>3, <1>7 DEF Handoff, Started
  <1>9. Once(c)'
    BY <1>3, <1>4, <1>7 DEF Once, OnceQueued, OnceInFlight
  <1>10. ReplayFirst(c)' /\ HasTop(c)' /\ FifoBounded(c)'
    BY <1>3, <1>7 DEF ReplayFirst, HasTop, FifoBounded
  <1> QED BY <1>6, <1>8, <1>9, <1>10 DEF CInv, Exact

\* An added number has a greatest one.
LEMMA HasTopAdd ==
  ASSUME NEW c \in Consumers, got[c] \in SUBSET Nat, HasTop(c), NEW n \in Nat,
         got'[c] = got[c] \union {n}
  PROVE  HasTop(c)'
  <1>1. CASE got[c] = {}
    BY <1>1 DEF HasTop
  <1>2. ASSUME NEW m \in got[c], \A x \in got[c] : x <= m PROVE HasTop(c)'
    <2>1. CASE n <= m
      BY <1>2, <2>1 DEF HasTop
    <2>2. CASE ~(n <= m)
      BY <1>2, <2>2 DEF HasTop
    <2> QED BY <2>1, <2>2
  <1> QED BY <1>1, <1>2 DEF HasTop

\* The replay yields its lowest number, which nothing live is below.
LEMMA ReplayReader ==
  ASSUME TypeOK, NEW c \in Consumers, CInv(c), YieldReplay(c)
  PROVE  CInv(c)'
  <1>1. PICK n \in replay[c] :
          /\ \A m \in replay[c] : n <= m
          /\ replay' = [replay EXCEPT ![c] = @ \ {n}]
          /\ got' = [got EXCEPT ![c] = @ \union {n}]
    BY DEF YieldReplay
  <1>2. replay'[c] = replay[c] \ {n} /\ got'[c] = got[c] \union {n} /\ n \in Nat
    BY <1>1 DEF TypeOK
  <1>3. /\ cpc' = cpc /\ joined' = joined /\ want' = want /\ base' = base /\ queue' = queue
        /\ nextSeq' = nextSeq /\ subs' = subs /\ puts' = puts
    BY DEF YieldReplay, brokerVars
  <1>4. Registered(c)' /\ (Live(c)' <=> Live(c))
    BY <1>3 DEF Registered, CInv, Live
  <1>5. ASSUME Live(c) PROVE Exact(c)'
    <2>1. Exact(c)
      BY <1>5 DEF CInv
    <2>2. /\ InFlight(c)' = InFlight(c) /\ Queued(c)' = Queued(c) /\ Pending(c)' = Pending(c)
          /\ \A m, i : Behind(c, m, i)' = Behind(c, m, i)
      BY <1>3 DEF InFlight, Queued, Pending, Behind
    <2>3. Handoff(c)' /\ Started(c)'
      BY <1>2, <1>3, <2>1, <2>2 DEF Exact, Handoff, Started
    <2>4. Once(c)'
      BY <1>2, <1>3, <2>1, <2>2 DEF Exact, Once, OnceQueued, OnceInFlight
    <2>5. ReplayFirst(c)'
      <3>1. \A m \in replay[c] \ {n} : n < m
        BY <1>1, <1>2 DEF TypeOK
      <3> QED BY <1>2, <2>1, <2>2, <3>1 DEF Exact, ReplayFirst
    <2>6. HasTop(c)'
      BY <1>2, <2>1, HasTopAdd DEF Exact, TypeOK
    <2>7. Behind(c, n, 0) = {}
      <3>1. \A m \in Pending(c) : n < m /\ m \in Nat
        <4>1. n \in replay[c]
          OBVIOUS
        <4>2. Pending(c) \subseteq Nat
          BY DEF Pending, Queued, InFlight, TypeOK
        <4> QED BY <2>1, <4>1, <4>2 DEF Exact, ReplayFirst
      <3>2. \A m \in Behind(c, n, 0) : m \in Pending(c) /\ m < n
        BY DEF Behind, Pending, Queued
      <3> QED BY <1>2, <3>1, <3>2
    <2>8. FifoBounded(c)'
      <3>1. \A m \in got'[c] : Few(Behind(c, m, 0))
        BY <1>2, <2>1, <2>7, FewNone DEF Exact, FifoBounded
      <3> QED BY <1>3, <2>1, <2>2, <3>1 DEF Exact, FifoBounded, Few
    <2> QED BY <2>3, <2>4, <2>5, <2>6, <2>8 DEF Exact
  <1> QED BY <1>4, <1>5 DEF CInv

\* The first queued event is yielded.
LEMMA LiveReader ==
  ASSUME TypeOK, NEW c \in Consumers, CInv(c), YieldLive(c), ~Close(c)
  PROVE  CInv(c)'
  <1> DEFINE n == Head(queue[c])
             len == Len(queue[c])
  <1>1. queue[c] \in Seq(Nat) /\ queue[c] # <<>> /\ replay[c] = {} /\ n \in Nat
    BY DEF YieldLive, TypeOK
  <1>2. /\ cpc' = cpc /\ joined' = joined /\ want' = want /\ base' = base
        /\ nextSeq' = nextSeq /\ subs' = subs /\ puts' = puts /\ replay' = replay
    BY DEF YieldLive, brokerVars
  <1>3. queue'[c] = Tail(queue[c]) /\ got'[c] = got[c] \union {n}
    BY DEF YieldLive, TypeOK
  <1>4. Live(c) /\ Exact(c) /\ Live(c)' /\ Registered(c)'
    BY <1>2 DEF YieldLive, CInv, Live, Registered
  <1>5. /\ len \in Nat \ {0} /\ n = queue[c][1] /\ Len(queue'[c]) = len - 1
        /\ \A i \in 1 .. len - 1 : queue'[c][i] = queue[c][i + 1]
    BY <1>1, <1>3
  <1>6. InFlight(c)' = InFlight(c)
    BY <1>2 DEF InFlight
  <1>7. \A i \in 0 .. len - 1 :
          {queue'[c][j] : j \in i + 1 .. len - 1} = {queue[c][j] : j \in i + 2 .. len}
    <2> TAKE i \in 0 .. len - 1
    <2>1. \A j \in i + 1 .. len - 1 : j + 1 \in i + 2 .. len /\ queue'[c][j] = queue[c][j + 1]
      BY <1>5
    <2>2. \A j \in i + 2 .. len : j - 1 \in i + 1 .. len - 1 /\ queue'[c][j - 1] = queue[c][j]
      BY <1>5
    <2> QED BY SMTT(60), <2>1, <2>2
  <1>8. Queued(c) = Queued(c)' \union {n} /\ n \notin Queued(c)'
    <2>1. Queued(c)' = {queue[c][j] : j \in 2 .. len}
      <3>1. 0 \in 0 .. len - 1 /\ 0 + 1 = 1 /\ 0 + 2 = 2
        BY <1>5
      <3> QED BY <1>5, <1>7, <3>1 DEF Queued
    <2>2. 1 .. len = {1} \union (2 .. len)
      BY <1>5
    <2>3. Queued(c) = {queue[c][j] : j \in 2 .. len} \union {n}
      BY <1>5, <2>2 DEF Queued
    <2>4. \A j \in 2 .. len : queue[c][j] # n
      BY <1>4, <1>5 DEF Exact, Once, OnceQueued
    <2> QED BY <2>1, <2>3, <2>4
  <1>9. n \in Pending(c) /\ Pending(c)' = Pending(c) \ {n}
    BY <1>4, <1>6, <1>8 DEF Pending, Exact, Once
  <1>10. Handoff(c)' /\ Started(c)'
    BY <1>2, <1>3, <1>4, <1>9 DEF Exact, Handoff, Started
  <1>11. OnceQueued(c)'
    <2>1. \A i, j \in 1 .. len - 1 : queue[c][i + 1] = queue[c][j + 1] => i = j
      BY <1>4, <1>5 DEF Exact, Once, OnceQueued
    <2> QED BY <1>5, <2>1 DEF OnceQueued
  <1>12. Once(c)'
    BY <1>1, <1>2, <1>3, <1>4, <1>6, <1>8, <1>9, <1>11 DEF Exact, Once, OnceInFlight
  <1>13. ReplayFirst(c)' /\ HasTop(c)'
    BY <1>1, <1>2, <1>3, <1>4, HasTopAdd DEF Exact, ReplayFirst, TypeOK
  <1>14. \A i \in 0 .. len - 1 : \A m : Behind(c, m, i)' = Behind(c, m, i + 1)
    <2> TAKE i \in 0 .. len - 1
    <2>1. i + 1 + 1 = i + 2
      OBVIOUS
    <2>2. {queue'[c][j] : j \in i + 1 .. Len(queue'[c])} = {queue[c][j] : j \in i + 1 + 1 .. len}
      BY <1>5, <1>7, <2>1
    <2> QED BY <1>6, <2>2 DEF Behind
  <1>15. \A m : Behind(c, m, 1) \subseteq Behind(c, m, 0)
    BY <1>5 DEF Behind
  <1>16. \A m \in got'[c] : Few(Behind(c, m, 1))
    <2>1. ASSUME NEW m \in got[c] PROVE Few(Behind(c, m, 1))
      BY <1>4, <1>15, FewSubset DEF Exact, FifoBounded
    <2>2. Few(Behind(c, n, 1))
      BY <1>4, <1>5 DEF Exact, FifoBounded
    <2> QED BY <1>3, <2>1, <2>2
  <1>17. FifoBounded(c)'
    <2>1. \A m \in got'[c] : Few(Behind(c, m, 0)')
      BY <1>5, <1>14, <1>16
    <2>2. ASSUME NEW i \in 1 .. len - 1, NEW m, m = queue'[c][i]
          PROVE  Few(Behind(c, m, i)')
      <3>1. i + 1 \in 1 .. len /\ m = queue[c][i + 1] /\ i \in 0 .. len - 1
        BY <1>5, <2>2
      <3>2. Few(Behind(c, m, i + 1))
        BY <1>4, <3>1 DEF Exact, FifoBounded
      <3> QED BY <1>14, <3>1, <3>2
    <2> QED BY <1>5, <2>1, <2>2 DEF FifoBounded, Few
  <1> QED BY <1>4, <1>10, <1>12, <1>13, <1>17 DEF CInv, Exact

-----------------------------------------------------------------------------
(* Every step.                                                             *)

LEMMA WindowStep == TypeOK /\ Window /\ [Next]_vars => Window'
  <1> SUFFICES ASSUME TypeOK, Window, [Next]_vars PROVE Window'
    OBVIOUS
  <1>1. ASSUME NEW p \in Publishers, NEW f \in BOOLEAN, Append1(p, f) PROVE Window'
    <2>1. run \in Runs
      BY <1>1 DEF Append1, TypeOK, Runs
    <2>2. nextSeq[run] \in Nat \ {0} /\ first[run] \in Nat \ {0} /\ first[run] <= nextSeq[run]
      BY <2>1 DEF TypeOK, Window
    <2>3. first'[run] <= nextSeq'[run]
      BY <1>1, <2>1, <2>2, MaxEventsAssumption DEF Append1, TypeOK
    <2>4. \A r \in Runs \ {run} : first'[r] = first[r] /\ nextSeq'[r] = nextSeq[r]
      BY <1>1 DEF Append1, TypeOK
    <2> QED BY <2>3, <2>4 DEF Window
  <1>2. \/ UNCHANGED <<first, nextSeq>>
        \/ \E p \in Publishers, f \in BOOLEAN : Append1(p, f)
    BY DEF Next, Read, vars, CreateRun, PublishEvent, PublishFinal, PutOne, PutEnd, FinishRun,
           Subscribe, YieldReplay, EndReplay, YieldLive, TimeOut, CheckState, Disconnect, Close,
           brokerVars, readerVars
  <1> QED BY <1>1, <1>2 DEF Window

LEMMA InvInit == Init => Window /\ \A c \in Consumers : CInv(c)
  BY DEF Init, Window, CInv, Registered, Live, NoPut, FirstSeq, Runs

LEMMA AppendStep ==
  ASSUME TypeOK, NEW c \in Consumers, CInv(c), NEW p \in Publishers, NEW f \in BOOLEAN,
         Append1(p, f)
  PROVE  CInv(c)'
  <1>1. CASE c \in subs[run]
    BY <1>1, AppendToReader
  <1>2. CASE c \notin subs[run]
    <2>1. SameReader(c)
      BY DEF Append1, readerVars, SameReader
    <2>2. SameEnds(c)
      BY <1>2 DEF Append1, TypeOK, SameEnds, NoPut
    <2>3. Live(c) => nextSeq'[want[c]] = nextSeq[want[c]]
      BY <1>2 DEF CInv, Registered, Append1, TypeOK
    <2> QED BY <2>1, <2>2, <2>3, SameView
  <1> QED BY <1>1, <1>2

LEMMA InvStep ==
  ASSUME TypeOK, Window, NEW c \in Consumers, CInv(c), [Next]_vars
  PROVE  CInv(c)'
  <1>1. CASE UNCHANGED vars
    <2>1. SameReader(c) /\ SameEnds(c) /\ nextSeq' = nextSeq
      BY <1>1 DEF vars, SameReader, SameEnds
    <2> QED BY <2>1, SameView
  <1>2. CASE CreateRun
    <2>1. SameReader(c) /\ SameEnds(c) /\ nextSeq' = nextSeq
      BY <1>2 DEF CreateRun, readerVars, SameReader, SameEnds
    <2> QED BY <2>1, SameView
  <1>3. ASSUME NEW p \in Publishers, PublishEvent(p) PROVE CInv(c)'
    BY <1>3, AppendStep DEF PublishEvent
  <1>4. ASSUME NEW p \in Publishers, NEW r \in Runs, PublishFinal(p, r) PROVE CInv(c)'
    BY <1>4, AppendStep DEF PublishFinal
  <1>5. ASSUME NEW p \in Publishers, NEW d \in Consumers, PutOne(p, d) PROVE CInv(c)'
    <2>1. CASE d = c
      BY <1>5, <2>1, PutToReader
    <2>2. CASE d # c
      <3>1. SameReader(c) /\ nextSeq' = nextSeq
        BY <1>5, <2>2 DEF PutOne, brokerVars, TypeOK, SameReader
      <3>2. SameEnds(c)
        BY <1>5, <2>2 DEF PutOne, brokerVars, TypeOK, SameEnds
      <3> QED BY <3>1, <3>2, SameView
    <2> QED BY <2>1, <2>2
  <1>6. ASSUME NEW p \in Publishers, PutEnd(p) PROVE CInv(c)'
    <2>1. SameReader(c) /\ nextSeq' = nextSeq
      BY <1>6 DEF PutEnd, brokerVars, readerVars, SameReader
    <2>2. SameEnds(c)
      BY <1>6 DEF PutEnd, brokerVars, TypeOK, SameEnds, NoPut
    <2> QED BY <2>1, <2>2, SameView
  <1>7. ASSUME NEW r \in Runs, FinishRun(r) PROVE CInv(c)'
    <2>1. SameReader(c) /\ SameEnds(c) /\ nextSeq' = nextSeq
      BY <1>7 DEF FinishRun, readerVars, SameReader, SameEnds
    <2> QED BY <2>1, SameView
  <1>8. ASSUME NEW d \in Consumers, NEW s \in 0 .. MaxSeq, Subscribe(d, s) PROVE CInv(c)'
    <2>1. CASE d = c
      BY <1>8, <2>1, SubscribeReader
    <2>2. CASE d # c
      <3>1. SameReader(c) /\ nextSeq' = nextSeq
        BY <1>8, <2>2 DEF Subscribe, TypeOK, SameReader
      <3>2. SameEnds(c)
        BY <1>8, <2>2 DEF Subscribe, TypeOK, SameEnds
      <3> QED BY <3>1, <3>2, SameView
    <2> QED BY <2>1, <2>2
  <1>9. ASSUME NEW d \in Consumers, Read(d) PROVE CInv(c)'
    <2>1. CASE d # c /\ Close(d)
      <3>1. replay'[c] = replay[c] /\ got'[c] = got[c]
        BY <1>9, <2>1
        DEF Read, YieldReplay, EndReplay, YieldLive, TimeOut, CheckState, TypeOK
      <3> QED BY <2>1, <3>1, OtherClosed
    <2>2. CASE d # c /\ ~Close(d)
      <3>1. SameReader(c)
        BY <1>9, <2>2
        DEF Read, YieldReplay, EndReplay, YieldLive, TimeOut, CheckState, TypeOK, SameReader
      <3>2. SameEnds(c) /\ nextSeq' = nextSeq
        BY <1>9, <2>2
        DEF Read, YieldReplay, EndReplay, YieldLive, TimeOut, CheckState, brokerVars, SameEnds
      <3> QED BY <3>1, <3>2, SameView
    <2>3. CASE d = c /\ Close(d)
      BY <2>3, Closed
    <2>4. CASE d = c /\ ~Close(d)
      <3>1. CASE YieldReplay(c)
        BY <3>1, ReplayReader
      <3>2. CASE YieldLive(c)
        BY <2>4, <3>2, LiveReader
      <3>3. CASE TimeOut(c) \/ CheckState(c)
        <4>1. SameReader(c)
          BY <2>4, <3>3 DEF TimeOut, CheckState, TypeOK, SameReader
        <4>2. SameEnds(c) /\ nextSeq' = nextSeq
          BY <2>4, <3>3 DEF TimeOut, CheckState, brokerVars, SameEnds
        <4> QED BY <4>1, <4>2, SameView
      <3> QED BY <1>9, <2>4, <3>1, <3>2, <3>3 DEF Read, EndReplay
    <2> QED BY <2>1, <2>2, <2>3, <2>4
  <1>10. ASSUME NEW d \in Consumers, Disconnect(d) PROVE CInv(c)'
    <2>1. CASE d = c
      BY <1>10, <2>1, Closed DEF Disconnect
    <2>2. CASE d # c
      BY <1>10, <2>2, OtherClosed DEF Disconnect
    <2> QED BY <2>1, <2>2
  <1> QED
    BY <1>1, <1>2, <1>3, <1>4, <1>5, <1>6, <1>7, <1>8, <1>9, <1>10 DEF Next

\* The invariant gives the property: an event a reader was overtaken on is
\* behind the greatest event it has yielded.
LEMMA InvExact ==
  ASSUME TypeOK, \A c \in Consumers : CInv(c)
  PROVE  DeliveryIsExact
  <1>1. HandoffComplete
    BY DEF CInv, Exact, Handoff, Pending, HandoffComplete
  <1>2. NoDuplicateDelivery
    BY DEF CInv, Exact, Once, OnceQueued, OnceInFlight, Pending, NoDuplicateDelivery
  <1>3. ASSUME NEW c \in Consumers, Live(c)
        PROVE  Cardinality(Overtaken(c)) < Cardinality(Publishers)
    <2>1. Exact(c)
      BY <1>3 DEF CInv
    <2>2. CASE got[c] = {}
      <3>1. Overtaken(c) = {}
        BY <2>2 DEF Overtaken
      <3> QED BY <3>1, FewNone DEF Few
    <2>3. ASSUME NEW m \in got[c], \A n \in got[c] : n <= m
          PROVE  Cardinality(Overtaken(c)) < Cardinality(Publishers)
      <3>1. /\ got[c] \subseteq Nat /\ replay[c] \subseteq Nat /\ base[c] \in Nat
            /\ nextSeq[want[c]] \in Nat
        <4>1. want[c] \in Runs
          BY <1>3 DEF CInv, Registered
        <4> QED BY <4>1 DEF TypeOK
      <3>2. replay[c] \union got[c] \union Pending(c) = base[c] + 1 .. nextSeq[want[c]] - 1
        BY <2>1 DEF Exact, Handoff
      <3>3. ASSUME NEW n \in Overtaken(c) PROVE n \in Behind(c, m, 0)
        <4>1. n \notin got[c] /\ n < m /\ n \in base[c] + 1 .. nextSeq[want[c]]
          BY <2>3, <3>1 DEF Overtaken
        <4>2. n \in replay[c] \union got[c] \union Pending(c)
          BY <3>1, <3>2, <4>1
        <4>3. n \notin replay[c]
          BY <2>1, <3>1, <4>1 DEF Exact, ReplayFirst
        <4>4. Pending(c) = InFlight(c) \union {queue[c][j] : j \in 0 + 1 .. Len(queue[c])}
          BY DEF Pending, Queued
        <4> QED BY <4>1, <4>2, <4>3, <4>4 DEF Behind
      <3>4. Few(Behind(c, m, 0))
        BY <2>1 DEF Exact, FifoBounded
      <3> QED BY <3>3, <3>4, FewSubset DEF Few
    <2> QED BY <2>1, <2>2, <2>3 DEF Exact, HasTop
  <1> QED BY <1>1, <1>2, <1>3 DEF DeliveryIsExact, OvertakingBounded

LEMMA IInvHolds == Spec => []IInv
  <1>1. Init => IInv
    BY TypeInit, InvInit DEF IInv
  <1>2. IInv /\ [Next]_vars => IInv'
    BY TypeStep, WindowStep, InvStep DEF IInv
  <1> QED BY <1>1, <1>2, PTL DEF Spec

\* Replay and live delivery join exactly and only concurrent publishers
\* overtake each other, for any number of threads, readers, broker objects
\* and events (publish_event, subscribe_run and the stream generators).
THEOREM DeliveryExact == Spec => []DeliveryIsExact
  <1>1. IInv => DeliveryIsExact
    BY InvExact DEF IInv
  <1> QED BY <1>1, IInvHolds, PTL
=============================================================================
