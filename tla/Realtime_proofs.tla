---------------------------- MODULE Realtime_proofs ----------------------------
(***************************************************************************)
(* Proofs about Realtime, for any sessions, readers, queue size and page   *)
(* limit: type correctness and NothingMissed.                              *)
(*                                                                         *)
(* NothingMissed speaks of a stream that waits.  The inductive invariant   *)
(* says of every subscribed stream what will still tell its client of a    *)
(* change (Coming), which needs that an open or committed transaction      *)
(* holds the channel (WriterInv); and of its rows that a page leaves out   *)
(* none before its own (RowsInv), which needs that rows once visible stay  *)
(* so (WriterInv and Disjoint).                                            *)
(***************************************************************************)
EXTENDS Realtime, FiniteSetTheorems, WellFoundedInduction, TLAPS

\* An open transaction has its changes to itself and holds the channel from
\* its first event on; the channel leaves the session only with the commit's
\* publication or the rollback.
WriterInv(s) ==
  /\ \A n \in wrote[s] : changes[n].state = "open"
  /\ wpc[s] # "idle" => pending[s]

Disjoint == \A s, t \in Sessions : s # t => wrote[s] \intersect wrote[t] = {}

Fresh(r) == rpc[r] \in {"off", "connecting"} => found[r] = {} /\ Batch(r) = {}

\* Rows that were found once stay, those up to the cursor are sent, and a page
\* leaves out none that comes before one of its own.
Found(r, f) == {n \in found[r] : changes[n].kind \in KindsOf(f)}

RowsInv(r) ==
  /\ found[r] \subseteq Visible
  /\ \A f \in Feeds :
       /\ \A n \in Found(r, f) : n <= cursor[r][f] => n \in sent[r]
       /\ \A n \in Found(r, f), m \in page[r][f] : cursor[r][f] < n /\ n <= m => n \in page[r][f]

\* Something will lead to an event on the stream for change n.
Coming(r, n) ==
  \/ ~Quiet(r)
  \/ rpc[r] = "flush" /\ n \in Ahead(r)
  \/ rpc[r] = "sending" /\ (Batch(r) # {} \/ woken[r] # "none")

WakeInv(r) ==
  Subscribed(r) => \A n \in Requested \ (told[r] \union hushed[r]) : Coming(r, n)

IInv ==
  /\ TypeOK
  /\ \A s \in Sessions : WriterInv(s)
  /\ Disjoint
  /\ \A r \in Readers : Fresh(r) /\ RowsInv(r) /\ WakeInv(r)

-----------------------------------------------------------------------------
(* Finite sets of numbers.                                                 *)

LEMMA LeastBy ==
  ASSUME NEW R, NEW N, IsWellFoundedOn(R, N), N = Nat,
         \A x, y \in N : <<x, y>> \in R <=> x < y
  PROVE  \A S : S \subseteq N /\ S # {} => \E n \in S : \A m \in S : n <= m
<1>1. \A T : T \subseteq N /\ T # {} => \E x \in T : \A y \in T : ~ (<<y, x>> \in R)
  BY WFMin
<1>. SUFFICES ASSUME NEW S, S \subseteq N, S # {}
              PROVE  \E n \in S : \A m \in S : n <= m
  OBVIOUS
<1>2. PICK x \in S : \A y \in S : ~ (<<y, x>> \in R)
  BY <1>1
<1>3. x \in Nat /\ \A y \in S : y \in Nat /\ ~ (y < x)
  BY <1>2
<1>. QED
  BY <1>3

\* A set of natural numbers has a least element ...
LEMMA Least ==
  ASSUME NEW S \in SUBSET Nat, S # {}
  PROVE  \E n \in S : \A m \in S : n <= m
<1>1. \A x, y \in Nat : <<x, y>> \in OpToRel(<, Nat) <=> x < y
  BY DEF OpToRel
<1>. QED
  BY <1>1, NatLessThanWellFounded, LeastBy

\* ... and a bounded one a greatest, which Last finds.
LEMMA LastIsGreatest ==
  ASSUME NEW N \in Nat, NEW S \in SUBSET (1 .. N), S # {}
  PROVE  Last(S) \in S /\ \A m \in S : m <= Last(S)
<1>. DEFINE D == {N - n : n \in S}
<1>1. D \in SUBSET Nat /\ D # {}
  <2>1. \A n \in S : n \in 1 .. N /\ N - n \in Nat
    OBVIOUS
  <2>. QED
    BY <2>1
<1>2. PICK d \in D : \A e \in D : d <= e
  BY <1>1, Least
<1>3. PICK k \in S : d = N - k
  OBVIOUS
<1>4. \A m \in S : m <= k
  <2>. SUFFICES ASSUME NEW m \in S PROVE m <= k
    OBVIOUS
  <2>1. N - m \in D
    OBVIOUS
  <2>. QED
    BY <2>1, <1>2, <1>3
<1>. QED
  BY <1>4 DEF Last

\* A page of at most L rows, the first of A.
LEMMA PageFacts ==
  ASSUME NEW N \in Nat, NEW A \in SUBSET (1 .. N), NEW L \in Nat \ {0}, NEW P,
         P = {n \in A : Cardinality({m \in A : m <= n}) <= L}
  PROVE  /\ Cardinality(P) <= L
         /\ A # {} => P # {}
         /\ \A n \in A, m \in P : n <= m => n \in P
<1>. DEFINE Lower(n) == {m \in A : m <= n}
<1>1. IsFiniteSet(A)
  <2>1. IsFiniteSet(1 .. N)
    BY FS_Interval
  <2>. QED
    BY <2>1, FS_Subset
<1>. HIDE DEF Lower
<1>0. \A n, k : k \in Lower(n) <=> k \in A /\ k <= n
  BY DEF Lower
<1>6. \A n : n \in P <=> n \in A /\ Cardinality(Lower(n)) <= L
  BY DEF Lower
<1>2. \A n : IsFiniteSet(Lower(n)) /\ Cardinality(Lower(n)) \in Nat
  <2>1. \A n : Lower(n) \in SUBSET A
    BY <1>0
  <2>. QED
    BY <2>1, <1>1, FS_Subset, FS_CardinalityType
<1>3. ASSUME NEW n \in A, NEW m \in P, n <= m PROVE n \in P
  <2>1. Lower(n) \in SUBSET Lower(m)
    <3>1. n \in Nat /\ m \in Nat /\ \A k \in A : k \in Nat
      BY <1>3, <1>6
    <3>. SUFFICES ASSUME NEW k \in Lower(n) PROVE k \in Lower(m)
      OBVIOUS
    <3>2. k \in A /\ k <= n
      BY <1>0
    <3>3. k <= m
      BY <3>1, <3>2, <1>3
    <3>. QED
      BY <1>0, <3>2, <3>3
  <2>2. Cardinality(Lower(n)) <= Cardinality(Lower(m))
    BY <2>1, <1>2, FS_Subset
  <2>. QED
    BY <2>2, <1>2, <1>6, <1>3
<1>4. ASSUME A # {} PROVE P # {}
  <2>1. PICK k \in A : \A m \in A : k <= m
    BY <1>4, Least
  <2>2. Lower(k) = {k}
    <3>1. \A m \in A : m \in Nat
      OBVIOUS
    <3>2. \A m \in A : m <= k => m = k
      BY <2>1, <3>1
    <3>3. k <= k
      BY <3>1
    <3>4. \A m : m \in Lower(k) <=> m = k
      BY <1>0, <3>2, <3>3
    <3>. QED
      BY <3>4
  <2>3. Cardinality(Lower(k)) = 1
    BY <2>2, FS_Singleton
  <2>. QED
    <3>1. k \in P
      BY <2>3, <1>6
    <3>. QED
      BY <3>1
<1>5. Cardinality(P) <= L
  <2>1. CASE P = {}
    <3>1. Cardinality(P) = 0
      BY <2>1, FS_EmptySet
    <3>. QED
      BY <3>1
  <2>2. CASE P # {}
    <3>1. P \in SUBSET (1 .. N)
      BY <1>6
    <3>2. Last(P) \in P /\ \A m \in P : m <= Last(P)
      BY <2>2, <3>1, LastIsGreatest
    <3>3. P \in SUBSET Lower(Last(P))
      BY <3>2, <1>0, <1>6
    <3>4. Cardinality(P) <= Cardinality(Lower(Last(P)))
      BY <3>3, <1>2, FS_Subset
    <3>5. IsFiniteSet(P)
      BY <3>3, <1>2, FS_Subset
    <3>. QED
      BY <3>2, <3>4, <3>5, <1>2, <1>6, FS_CardinalityType
  <2>. QED
    BY <2>1, <2>2
<1>. QED
  BY <1>3, <1>4, <1>5

-----------------------------------------------------------------------------
(* The changes.                                                            *)

Records == [kind : Kinds, state : {"open", "visible", "gone"},
            by : {"request", "worker", "worker_first"}]

Kept ==
  /\ changes' \in Seq(Records) /\ Len(changes') >= Len(changes)
  /\ \A n \in Changes : n \in Visible => n \in Visible'
  /\ \A n \in Changes : changes'[n].kind = changes[n].kind

LEMMA DomainOf == TypeOK => Changes = 1 .. Len(changes) /\ Len(changes) \in Nat
  BY DEF TypeOK, Changes

LEMMA Appended ==
  ASSUME TypeOK, NEW e \in Records, changes' = Append(changes, e)
  PROVE  /\ changes' \in Seq(Records) /\ Len(changes') = Len(changes) + 1
         /\ Changes' = Changes \union {Len(changes) + 1}
         /\ \A n \in Changes : changes'[n] = changes[n]
         /\ changes'[Len(changes) + 1] = e
<1>1. changes \in Seq(Records) /\ Len(changes) \in Nat
  BY DEF TypeOK, Records
<1>2. /\ changes' \in Seq(Records) /\ Len(changes') = Len(changes) + 1
      /\ \A n \in 1 .. Len(changes) : changes'[n] = changes[n]
      /\ changes'[Len(changes) + 1] = e
  BY <1>1
<1>3. 1 .. Len(changes) + 1 = (1 .. Len(changes)) \union {Len(changes) + 1}
  BY <1>1
<1>. QED
  BY <1>1, <1>2, <1>3 DEF Changes

LEMMA Rewritten ==
  ASSUME TypeOK, NEW S, NEW state \in {"visible", "gone"},
         Settle(S, state)
  PROVE  /\ changes' \in Seq(Records) /\ Len(changes') = Len(changes)
         /\ Changes' = Changes
         /\ \A n \in Changes : changes'[n].kind = changes[n].kind /\ changes'[n].by = changes[n].by
         /\ \A n \in Changes \ S : changes'[n] = changes[n]
         /\ \A n \in Changes \intersect S : changes'[n].state = state
<1>1. changes \in Seq(Records) /\ Len(changes) \in Nat /\ Changes = 1 .. Len(changes)
  BY DEF TypeOK, Records, Changes
<1>2. \A n \in Changes : changes[n] \in Records
  BY <1>1
<1>3. \A n \in Changes : [changes[n] EXCEPT !.state = state] \in Records
  BY <1>2 DEF Records
<1>4. changes' \in [1 .. Len(changes) -> Records]
  BY <1>1, <1>2, <1>3 DEF Settle
<1>5. changes' \in Seq(Records) /\ Len(changes') = Len(changes)
  BY <1>1, <1>4
<1>6. Changes' = Changes
  BY <1>1, <1>4 DEF Changes
<1>7. \A n \in Changes : changes'[n] = IF n \in S THEN [changes[n] EXCEPT !.state = state] ELSE changes[n]
  BY DEF Settle
<1>. QED
  BY <1>2, <1>5, <1>6, <1>7 DEF Records

LEMMA DuplicateFound ==
  ASSUME TypeOK, NEW s \in Sessions, NEW n \in Changes, AppendDuplicate(s, n)
  PROVE  /\ changes' \in Seq(Records) /\ Len(changes') = Len(changes)
         /\ Changes' = Changes
         /\ \A m \in Changes : changes'[m].kind = changes[m].kind /\ changes'[m].state = changes[m].state
         /\ \A m \in Changes : changes'[m].by = "request" => changes[m].by = "request"
<1>1. changes \in Seq(Records) /\ Len(changes) \in Nat /\ Changes = 1 .. Len(changes)
  BY DEF TypeOK, Records, Changes
<1>2. \A m \in Changes : changes[m] \in Records
  BY <1>1
<1>3. [changes[n] EXCEPT !.by = "worker"] \in Records
  BY <1>2 DEF Records
<1>4. changes' = [changes EXCEPT ![n] = [changes[n] EXCEPT !.by = "worker"]]
  BY DEF AppendDuplicate
<1>5. changes' \in [1 .. Len(changes) -> Records]
  BY <1>1, <1>2, <1>3, <1>4
<1>6. changes' \in Seq(Records) /\ Len(changes') = Len(changes) /\ Changes' = Changes
  BY <1>1, <1>5 DEF Changes
<1>7. \A m \in Changes : changes'[m] = IF m = n THEN [changes[n] EXCEPT !.by = "worker"] ELSE changes[m]
  BY <1>1, <1>4
<1>. QED
  BY <1>2, <1>6, <1>7 DEF Records

Writers == (\A s \in Sessions : WriterInv(s)) /\ Disjoint

\* Rows that are visible stay so, and a request's change becomes visible with
\* the commit of a session.
LEMMA ChangesKept ==
  ASSUME TypeOK, Writers, [Next]_vars
  PROVE  /\ Kept
         /\ \A n \in Requested' : n \in Requested \/ \E s \in Sessions : wpc'[s] = "committed"
<1>1. changes \in Seq(Records) /\ Len(changes) \in Nat /\ Changes = 1 .. Len(changes)
  BY DEF TypeOK, Records, Changes
<1>2. CASE \E s \in Sessions, kind \in Kinds : AppendEvent(s, kind)
  <2>1. PICK e \in Records : changes' = Append(changes, e) /\ e.state = "open"
    BY <1>2 DEF AppendEvent, Records
  <2>. QED
    BY <2>1, <1>1, Appended DEF Kept, Visible, Requested
<1>3. CASE \E kind \in Kinds : WorkerRow(kind)
  <2>1. PICK e \in Records : changes' = Append(changes, e) /\ e.by = "worker_first"
    BY <1>3 DEF WorkerRow, Records
  <2>. QED
    BY <2>1, <1>1, Appended DEF Kept, Visible, Requested
<1>4. CASE \E s \in Sessions, n \in Changes : AppendDuplicate(s, n)
  BY <1>4, <1>1, DuplicateFound DEF Kept, Visible, Requested
<1>5. CASE \E s \in Sessions : Commit(s)
  <2>1. PICK s \in Sessions : Commit(s)
    BY <1>5
  <2>2. Settle(wrote[s], "visible") /\ wpc'[s] = "committed"
    BY <2>1 DEF Commit, TypeOK
  <2>. QED
    BY <2>2, <1>1, Rewritten DEF Kept, Visible, Requested
<1>6. CASE \E s \in Sessions : Rollback(s)
  <2>1. PICK s \in Sessions : Rollback(s)
    BY <1>6
  <2>2. Settle(wrote[s], "gone")
    BY <2>1 DEF Rollback
  <2>3. \A n \in Visible : n \notin wrote[s]
    BY DEF Writers, WriterInv, Visible
  <2>. QED
    BY <2>2, <2>3, <1>1, Rewritten DEF Kept, Visible, Requested
<1>7. CASE UNCHANGED changes
  BY <1>7, <1>1 DEF Kept, Visible, Requested, Changes
<1>. QED
  BY <1>2, <1>3, <1>4, <1>5, <1>6, <1>7
     DEF Next, Writing, Streaming, AfterCommit, Connect, Subscribe, Flush, Wake, Send, Sent, Enqueue, Disconnect, AuthSignal, bounds,
         writerVars, vars

-----------------------------------------------------------------------------
(* Types.                                                                  *)

LEMMA TypeInit == Init => TypeOK
<1>. SUFFICES ASSUME Init PROVE TypeOK
  OBVIOUS
<1>1. Len(changes) = 0 /\ changes \in Seq(Records)
  BY DEF Init
<1>2. Cardinality({}) = 0
  BY FS_EmptySet
<1>. QED
  BY <1>1, <1>2, QueueSizeAssumption, LimitAssumption, RealtimeBoundsAssumption
     DEF Init, TypeOK, Records, Limit

LEMMA LastInRange ==
  ASSUME TypeOK, NEW S \in SUBSET Changes
  PROVE  Last(S) \in 0 .. Len(changes)
<1>1. Len(changes) \in Nat /\ Changes = 1 .. Len(changes)
  BY DomainOf
<1>2. CASE S = {}
  BY <1>1, <1>2 DEF Last
<1>3. CASE S # {}
  <2>1. S \in SUBSET (1 .. Len(changes))
    BY <1>1
  <2>2. Last(S) \in S
    BY <1>1, <1>3, <2>1, LastIsGreatest
  <2>3. Last(S) \in 1 .. Len(changes)
    BY <2>1, <2>2
  <2>4. 1 .. Len(changes) \subseteq 0 .. Len(changes)
    BY <1>1
  <2>. QED
    BY <2>3, <2>4
<1>. QED
  BY <1>2, <1>3

LEMMA Limits == \A f \in Feeds : Limit(f) \in Nat \ {0}
  BY LimitAssumption DEF Limit

LEMMA PageOf ==
  ASSUME TypeOK, NEW r \in Readers, NEW f \in Feeds
  PROVE  /\ AfterCursor(r, f) \subseteq Changes
         /\ Page(r, f) \subseteq AfterCursor(r, f) /\ Cardinality(Page(r, f)) <= Limit(f)
         /\ AfterCursor(r, f) # {} => Page(r, f) # {}
         /\ \A n \in AfterCursor(r, f), m \in Page(r, f) : n <= m => n \in Page(r, f)
<1>. DEFINE A == AfterCursor(r, f)
            P == {n \in A : Cardinality({m \in A : m <= n}) <= Limit(f)}
<1>1. Len(changes) \in Nat /\ A \in SUBSET (1 .. Len(changes)) /\ A \in SUBSET Changes
  BY DomainOf DEF AfterCursor, Rows, Visible
<1>2. Page(r, f) = P
  BY DEF Page
<1>3. P \subseteq A
  OBVIOUS
<1>4. /\ Cardinality(P) <= Limit(f)
      /\ A # {} => P # {}
      /\ \A n \in A, m \in P : n <= m => n \in P
  <2>1. Limit(f) \in Nat \ {0}
    BY Limits
  <2>. HIDE DEF A
  <2>. QED
    BY <1>1, <2>1, PageFacts
<1>. HIDE DEF P
<1>. QED
  BY <1>1, <1>2, <1>3, <1>4

LEMMA ReadPage ==
  ASSUME TypeOK, NEW r \in Readers, Read(r)
  PROVE  /\ page' \in [Readers -> [Feeds -> SUBSET Changes]]
         /\ found' = [found EXCEPT ![r] = found[r] \union Ahead(r)]
         /\ found' \in [Readers -> SUBSET Changes]
         /\ \A q \in Readers : q # r => page'[q] = page[q]
         /\ \A f \in Feeds : page'[r][f] = Page(r, f)
<1>. DEFINE P == [f \in Feeds |-> Page(r, f)]
<1>1. P \in [Feeds -> SUBSET Changes] /\ Ahead(r) \in SUBSET Changes
  BY PageOf DEF Ahead
<1>2. page' = [page EXCEPT ![r] = P] /\ found' = [found EXCEPT ![r] = found[r] \union Ahead(r)]
  BY DEF Read
<1>3. \A f \in Feeds : P[f] = Page(r, f)
  OBVIOUS
<1>. HIDE DEF P
<1>4. page \in [Readers -> [Feeds -> SUBSET Changes]] /\ found \in [Readers -> SUBSET Changes]
  BY DEF TypeOK
<1>5. page'[r] = P /\ \A q \in Readers : q # r => page'[q] = page[q]
  BY <1>2, <1>4
<1>6. page' \in [Readers -> [Feeds -> SUBSET Changes]]
  BY <1>1, <1>2, <1>4
<1>7. found' \in [Readers -> SUBSET Changes]
  BY <1>1, <1>2, <1>4
<1>. QED
  BY <1>2, <1>3, <1>5, <1>6, <1>7

\* The conjuncts of TypeOK about the writers, and about one reader.
WriterTypes ==
  /\ changes \in Seq(Records)
  /\ wpc \in [Sessions -> {"idle", "open", "committed"}]
  /\ wrote \in [Sessions -> SUBSET Changes]
  /\ pending \in [Sessions -> BOOLEAN]

ReaderTypes ==
  /\ rpc \in [Readers -> {"off", "connecting", "flush", "waiting", "sending"}]
  /\ queue \in [Readers -> Seq(Signals)]
  /\ \A r \in Readers : Len(queue[r]) <= QueueSize
  /\ scheduled \in [Readers -> Seq(Signals)]
  /\ cursor \in [Readers -> [Feeds -> 0 .. Len(changes)]]
  /\ page \in [Readers -> [Feeds -> SUBSET Changes]]
  /\ \A r \in Readers, f \in Feeds : Cardinality(page[r][f]) <= Limit(f)
  /\ woken \in [Readers -> Signals \union {"none"}]
  /\ found \in [Readers -> SUBSET Changes]
  /\ sent \in [Readers -> SUBSET Changes]
  /\ told \in [Readers -> SUBSET Changes]
  /\ hushed \in [Readers -> SUBSET Changes]
  /\ auths \in 0 .. MaxAuth
  /\ connects \in 0 .. MaxConnects

LEMMA Typing == TypeOK <=> WriterTypes /\ ReaderTypes
  BY DEF TypeOK, WriterTypes, ReaderTypes, Records

LEMMA WriterTypesStep ==
  ASSUME TypeOK, Writers, [Next]_vars
  PROVE  WriterTypes'
<1>0. Kept
  BY ChangesKept
<1>1. Len(changes) \in Nat /\ Changes = 1 .. Len(changes) /\ WriterTypes
  BY DomainOf, Typing
<1>2. Changes' = 1 .. Len(changes') /\ Len(changes') \in Nat /\ changes' \in Seq(Records)
  BY <1>0 DEF Kept, Changes
<1>3. Changes \subseteq Changes'
  BY <1>0, <1>1, <1>2 DEF Kept
<1>4. wpc' \in [Sessions -> {"idle", "open", "committed"}] /\ pending' \in [Sessions -> BOOLEAN]
  BY <1>1
     DEF WriterTypes, Next, Writing, AppendEvent, AppendDuplicate, Commit, Rollback, WorkerRow, Streaming,
         AfterCommit, Connect, Subscribe, Flush, Wake, Send, Sent, Enqueue, Disconnect, AuthSignal, bounds, writerVars, vars
<1>5. wrote' \in [Sessions -> SUBSET Changes']
  <2>1. CASE \E s \in Sessions, kind \in Kinds : AppendEvent(s, kind)
    <3>1. PICK s \in Sessions, kind \in Kinds : AppendEvent(s, kind)
      BY <2>1
    <3>2. wrote' = [wrote EXCEPT ![s] = wrote[s] \union {Len(changes) + 1}]
      BY <3>1 DEF AppendEvent
    <3>3. Len(changes') = Len(changes) + 1
      BY <3>1, <1>1 DEF AppendEvent, WriterTypes
    <3>4. Len(changes) + 1 \in Changes'
      BY <3>3, <1>1, <1>2
    <3>. QED
      BY <3>2, <3>4, <1>3, <1>1 DEF WriterTypes
  <2>2. CASE \E s \in Sessions : Commit(s) \/ Rollback(s)
    BY <2>2, <1>3, <1>1 DEF Commit, Rollback, WriterTypes
  <2>3. CASE UNCHANGED wrote
    BY <2>3, <1>3, <1>1 DEF WriterTypes
  <2>. QED
    BY <2>1, <2>2, <2>3
     DEF Next, Writing, AppendDuplicate, WorkerRow, Streaming,
         AfterCommit, Connect, Subscribe, Flush, Wake, Send, Sent, Enqueue, Disconnect, AuthSignal, bounds, writerVars, vars
<1>. QED
  BY <1>2, <1>4, <1>5 DEF WriterTypes

LEMMA ReaderTypesStep ==
  ASSUME TypeOK, Writers, [Next]_vars
  PROVE  ReaderTypes'
<1>0. Kept
  BY ChangesKept
<1>1. Len(changes) \in Nat /\ Changes = 1 .. Len(changes) /\ ReaderTypes
  BY DomainOf, Typing
<1>2. Changes' = 1 .. Len(changes') /\ Len(changes') \in Nat /\ Len(changes) <= Len(changes')
  BY <1>0 DEF Kept, Changes
<1>3. Changes \subseteq Changes' /\ 0 .. Len(changes) \subseteq 0 .. Len(changes')
  BY <1>0, <1>1, <1>2 DEF Kept
<1>4. /\ Cardinality({}) = 0 /\ QueueSize \in Nat \ {0}
      /\ MaxConnects \in Nat /\ MaxAuth \in Nat /\ \A f \in Feeds : 0 <= Limit(f)
  BY FS_EmptySet, QueueSizeAssumption, RealtimeBoundsAssumption, Limits
<1>5. rpc' \in [Readers -> {"off", "connecting", "flush", "waiting", "sending"}]
  BY <1>1
     DEF ReaderTypes, Next, Writing, AppendEvent, AppendDuplicate, Commit, Rollback, WorkerRow, Streaming,
         AfterCommit, Connect, Subscribe, Flush, Wake, Send, Sent, Enqueue, Disconnect, AuthSignal, bounds, writerVars, vars
<1>6. woken' \in [Readers -> Signals \union {"none"}]
  <2>1. UNCHANGED woken \/ \E r \in Readers : Flush(r) \/ Wake(r) \/ Send(r) \/ Disconnect(r)
    BY DEF Next, Writing, AppendEvent, AppendDuplicate, Commit, Rollback, WorkerRow, Streaming, history,
       AfterCommit, Connect, Subscribe, Flush, Wake, Send, Sent, Enqueue, Disconnect, AuthSignal, bounds, writerVars, vars
  <2>2. ASSUME NEW r \in Readers, Flush(r) \/ Wake(r) \/ Send(r) \/ Disconnect(r)
        PROVE  \E b \in Signals \union {"none"} : woken' = [woken EXCEPT ![r] = b]
    <3>1. CASE Wake(r)
      <4>1. queue[r] \in Seq(Signals) /\ queue[r] # <<>>
        BY <1>1, <3>1 DEF ReaderTypes, Wake
      <4>2. Head(queue[r]) \in Signals
        BY <4>1
      <4>. QED
        BY <3>1, <4>2 DEF Wake
    <3>. QED
      BY <2>2, <3>1 DEF Flush, Send, Sent, Disconnect
  <2>. QED
    BY <2>1, <2>2, <1>1 DEF ReaderTypes
<1>13. connects' \in 0 .. MaxConnects /\ auths' \in 0 .. MaxAuth
  <2>1. UNCHANGED connects \/ \E r \in Readers : Connect(r)
    BY DEF Next, Writing, AppendEvent, AppendDuplicate, Commit, Rollback, WorkerRow, Streaming, history,
       AfterCommit, Connect, Subscribe, Flush, Wake, Send, Sent, Enqueue, Disconnect, AuthSignal, bounds, writerVars, vars
  <2>2. UNCHANGED auths \/ AuthSignal
    BY DEF Next, Writing, AppendEvent, AppendDuplicate, Commit, Rollback, WorkerRow, Streaming, history,
       AfterCommit, Connect, Subscribe, Flush, Wake, Send, Sent, Enqueue, Disconnect, AuthSignal, bounds, writerVars, vars
  <2>. QED
    BY <2>1, <2>2, <1>1, <1>4 DEF ReaderTypes, Connect, AuthSignal
<1>7. queue' \in [Readers -> Seq(Signals)] /\ \A r \in Readers : Len(queue'[r]) <= QueueSize
  <2>1. \/ UNCHANGED queue
        \/ \E r \in Readers : Enqueue(r) \/ Wake(r) \/ Disconnect(r)
    BY DEF Next, Writing, AppendEvent, AppendDuplicate, Commit, Rollback, WorkerRow, Streaming, history,
       AfterCommit, Connect, Subscribe, Flush, Wake, Send, Sent, Enqueue, Disconnect, AuthSignal, bounds, writerVars, vars
  <2>2. ASSUME NEW r \in Readers, Enqueue(r) \/ Wake(r) \/ Disconnect(r)
        PROVE  \E q \in Seq(Signals) : Len(q) <= QueueSize /\ queue' = [queue EXCEPT ![r] = q]
    <3>1. queue[r] \in Seq(Signals) /\ Len(queue[r]) <= QueueSize /\ scheduled[r] \in Seq(Signals)
      BY <1>1 DEF ReaderTypes
    <3>2. CASE Enqueue(r)
      <4>. DEFINE q == IF Len(queue[r]) < QueueSize THEN queue[r] ELSE Tail(queue[r])
      <4>1. Head(scheduled[r]) \in Signals
        BY <3>1, <3>2 DEF Enqueue
      <4>2. q \in Seq(Signals) /\ Len(q) < QueueSize
        BY <3>1, <1>4
      <4>3. queue' = [queue EXCEPT ![r] = Append(q, Head(scheduled[r]))]
        BY <3>2 DEF Enqueue
      <4>. HIDE DEF q
      <4>4. Append(q, Head(scheduled[r])) \in Seq(Signals) /\ Len(Append(q, Head(scheduled[r]))) <= QueueSize
        BY <4>1, <4>2, <1>4
      <4>. QED
        BY <4>3, <4>4
    <3>3. CASE Wake(r)
      <4>1. Tail(queue[r]) \in Seq(Signals) /\ Len(Tail(queue[r])) <= QueueSize
        BY <3>1, <3>3, <1>4 DEF Wake
      <4>. QED
        BY <3>3, <4>1 DEF Wake
    <3>4. CASE Disconnect(r)
      <4>1. <<>> \in Seq(Signals) /\ Len(<<>>) <= QueueSize
        BY <1>4
      <4>. QED
        BY <3>4, <4>1 DEF Disconnect
    <3>. QED
      BY <2>2, <3>2, <3>3, <3>4
  <2>. QED
    BY <2>1, <2>2, <1>1 DEF ReaderTypes
<1>8. scheduled' \in [Readers -> Seq(Signals)]
  <2>1. \/ UNCHANGED scheduled \/ Publish("commit") \/ Publish("auth")
        \/ \E r \in Readers : Enqueue(r) \/ Disconnect(r)
    BY DEF Next, Writing, AppendEvent, AppendDuplicate, Commit, Rollback, WorkerRow, Streaming, history,
       AfterCommit, Connect, Subscribe, Flush, Wake, Send, Sent, Enqueue, Disconnect, AuthSignal, bounds, writerVars, vars
  <2>2. ASSUME NEW r \in Readers, Enqueue(r) \/ Disconnect(r) PROVE scheduled' \in [Readers -> Seq(Signals)]
    <3>1. scheduled \in [Readers -> Seq(Signals)]
      BY <1>1 DEF ReaderTypes
    <3>2. Enqueue(r) => Tail(scheduled[r]) \in Seq(Signals)
      BY <3>1 DEF Enqueue
    <3>3. <<>> \in Seq(Signals)
      OBVIOUS
    <3>. QED
      BY <2>2, <3>1, <3>2, <3>3 DEF Enqueue, Disconnect
  <2>3. ASSUME NEW signal \in Signals, Publish(signal) PROVE scheduled' \in [Readers -> Seq(Signals)]
    <3>1. \A r \in Readers : scheduled[r] \in Seq(Signals) /\ Append(scheduled[r], signal) \in Seq(Signals)
      BY <1>1 DEF ReaderTypes
    <3>. QED
      BY <2>3, <3>1 DEF Publish
  <2>4. "commit" \in Signals /\ "auth" \in Signals
    BY DEF Signals
  <2>. QED
    BY <2>1, <2>2, <2>3, <2>4, <1>1 DEF ReaderTypes
<1>9. cursor' \in [Readers -> [Feeds -> 0 .. Len(changes')]]
  <2>1. \A r \in Readers, f \in Feeds : cursor[r][f] \in 0 .. Len(changes) /\ Last(page[r][f]) \in 0 .. Len(changes)
    <3>1. \A r \in Readers, f \in Feeds : page[r][f] \in SUBSET Changes /\ cursor[r][f] \in 0 .. Len(changes)
      BY <1>1 DEF ReaderTypes
    <3>. QED
      BY <3>1, LastInRange
  <2>2. UNCHANGED cursor \/ \E r \in Readers : Connect(r) \/ Send(r) \/ Disconnect(r)
    BY DEF Next, Writing, AppendEvent, AppendDuplicate, Commit, Rollback, WorkerRow, Streaming, history,
       AfterCommit, Connect, Subscribe, Flush, Wake, Send, Sent, Enqueue, Disconnect, AuthSignal, bounds, writerVars, vars
  <2>3. ASSUME NEW r \in Readers, Connect(r) \/ Send(r) \/ Disconnect(r)
        PROVE  \E c \in [Feeds -> 0 .. Len(changes)] : cursor' = [cursor EXCEPT ![r] = c]
    <3>1. CASE Connect(r)
      BY <3>1 DEF Connect
    <3>2. CASE Send(r)
      <4>. DEFINE c == [f \in Feeds |-> IF page[r][f] = {} THEN cursor[r][f] ELSE Last(page[r][f])]
      <4>1. c \in [Feeds -> 0 .. Len(changes)]
        BY <2>1
      <4>2. cursor' = [cursor EXCEPT ![r] = c]
        BY <3>2 DEF Send
      <4>. HIDE DEF c
      <4>. QED
        BY <4>1, <4>2
    <3>3. CASE Disconnect(r)
      <4>1. [f \in Feeds |-> 0] \in [Feeds -> 0 .. Len(changes)]
        BY <1>1
      <4>. QED
        BY <3>3, <4>1 DEF Disconnect
    <3>. QED
      BY <2>3, <3>1, <3>2, <3>3
  <2>4. cursor' \in [Readers -> [Feeds -> 0 .. Len(changes)]]
    BY <2>2, <2>3, <1>1 DEF ReaderTypes
  <2>. QED
    BY <2>4, <1>3
<1>10. /\ page' \in [Readers -> [Feeds -> SUBSET Changes']]
       /\ \A r \in Readers, f \in Feeds : Cardinality(page'[r][f]) <= Limit(f)
  <2>0. page \in [Readers -> [Feeds -> SUBSET Changes]] /\ \A r \in Readers, f \in Feeds : Cardinality(page[r][f]) <= Limit(f)
    BY <1>1 DEF ReaderTypes
  <2>5. SUFFICES /\ page' \in [Readers -> [Feeds -> SUBSET Changes]]
                 /\ \A r \in Readers, f \in Feeds : Cardinality(page'[r][f]) <= Limit(f)
    BY <1>3
  <2>1. CASE \E r \in Readers : Read(r)
    <3>1. PICK r \in Readers : Read(r)
      BY <2>1
    <3>2. \A f \in Feeds : Cardinality(page'[r][f]) <= Limit(f)
      BY <3>1, ReadPage, PageOf
    <3>. QED
      BY <3>1, <3>2, <2>0, ReadPage
  <2>2. CASE \E r \in Readers : page' = [page EXCEPT ![r] = [f \in Feeds |-> {}]]
    <3>1. PICK r \in Readers : page' = [page EXCEPT ![r] = [f \in Feeds |-> {}]]
      BY <2>2
    <3>2. \A f \in Feeds : page'[r][f] = {}
      BY <3>1, <2>0
    <3>3. page' \in [Readers -> [Feeds -> SUBSET Changes]]
      BY <3>1, <2>0
    <3>4. \A q \in Readers \ {r} : page'[q] = page[q]
      BY <3>1, <2>0
    <3>. QED
      BY <3>2, <3>3, <3>4, <2>0, <1>4
  <2>3. CASE UNCHANGED page
    BY <2>3, <2>0
  <2>. QED
    BY <2>1, <2>2, <2>3
     DEF Next, Writing, AppendEvent, AppendDuplicate, Commit, Rollback, WorkerRow, Streaming, history,
       AfterCommit, Connect, Subscribe, Flush, Wake, Send, Sent, Enqueue, Disconnect, AuthSignal, bounds, writerVars, vars
<1>11. found' \in [Readers -> SUBSET Changes']
  <2>1. CASE \E r \in Readers : Read(r)
    BY <2>1, ReadPage, <1>3
  <2>2. CASE \E r \in Readers : found' = [found EXCEPT ![r] = {}]
    BY <2>2, <1>1, <1>3 DEF ReaderTypes
  <2>3. CASE UNCHANGED found
    BY <2>3, <1>1, <1>3 DEF ReaderTypes
  <2>. QED
    BY <2>1, <2>2, <2>3
     DEF Next, Writing, AppendEvent, AppendDuplicate, Commit, Rollback, WorkerRow, Streaming, history,
         AfterCommit, Connect, Subscribe, Flush, Wake, Send, Sent, Enqueue, Disconnect, AuthSignal, bounds, writerVars, vars
<1>12. sent' \in [Readers -> SUBSET Changes'] /\ told' \in [Readers -> SUBSET Changes']
       /\ hushed' \in [Readers -> SUBSET Changes']
  <2>1. Visible \in SUBSET Changes /\ {} \in SUBSET Changes
    BY DEF Visible
  <2>2. \A q \in Readers : /\ sent[q] \in SUBSET Changes /\ told[q] \in SUBSET Changes
                           /\ hushed[q] \in SUBSET Changes /\ Batch(q) \in SUBSET Changes
    <3>1. \A q \in Readers, f \in Feeds : page[q][f] \in SUBSET Changes
      BY <1>1 DEF ReaderTypes
    <3>. QED
      BY <1>1, <3>1 DEF ReaderTypes, Batch
  <2>3. /\ sent \in [Readers -> SUBSET Changes] /\ told \in [Readers -> SUBSET Changes]
        /\ hushed \in [Readers -> SUBSET Changes]
    BY <1>1 DEF ReaderTypes
  <2>4. (UNCHANGED <<sent, told, hushed>>) \/ \E r \in Readers : Subscribe(r) \/ Send(r) \/ Disconnect(r)
    BY DEF Next, Writing, AppendEvent, AppendDuplicate, Commit, Rollback, WorkerRow, Streaming, history,
       AfterCommit, Connect, Subscribe, Flush, Wake, Send, Sent, Enqueue, Disconnect, AuthSignal, bounds, writerVars, vars
  <2>5. ASSUME NEW r \in Readers, Subscribe(r) \/ Send(r) \/ Disconnect(r)
        PROVE  \E S, T, H \in SUBSET Changes :
                 /\ sent' = [sent EXCEPT ![r] = S] /\ told' = [told EXCEPT ![r] = T]
                 /\ hushed' = [hushed EXCEPT ![r] = H]
    <3>2. sent = [sent EXCEPT ![r] = sent[r]] /\ hushed = [hushed EXCEPT ![r] = hushed[r]]
      BY <2>3
    <3>3. CASE Subscribe(r)
      <4>1. told' = [told EXCEPT ![r] = Visible \ Ahead(r)] /\ UNCHANGED <<sent, hushed>>
        BY <3>3 DEF Subscribe
      <4>2. Visible \ Ahead(r) \in SUBSET Changes
        BY <2>1
      <4>. QED
        BY <3>2, <4>1, <4>2, <2>2
    <3>4. CASE Send(r)
      <4>. DEFINE S == sent[r] \union Batch(r)
                  T == IF Refetches(r) THEN Visible ELSE told[r] \union Batch(r)
                  H == IF Refetches(r) THEN {} ELSE IF Emits(r) /\ Quiet(r) THEN Visible ELSE hushed[r]
      <4>1. S \in SUBSET Changes /\ T \in SUBSET Changes /\ H \in SUBSET Changes
        BY <2>1, <2>2
      <4>2. /\ sent' = [sent EXCEPT ![r] = S] /\ told' = [told EXCEPT ![r] = T]
            /\ hushed' = [hushed EXCEPT ![r] = H]
        BY <3>4 DEF Send, Sent
      <4>. HIDE DEF S, T, H
      <4>. QED
        BY <4>1, <4>2
    <3>5. CASE Disconnect(r)
      BY <2>1, <3>5 DEF Disconnect
    <3>. QED
      BY <2>5, <3>3, <3>4, <3>5
  <2>6. /\ sent' \in [Readers -> SUBSET Changes]
        /\ told' \in [Readers -> SUBSET Changes]
        /\ hushed' \in [Readers -> SUBSET Changes]
    <3>1. CASE UNCHANGED <<sent, told, hushed>>
      BY <3>1, <2>3
    <3>2. CASE \E r \in Readers : Subscribe(r) \/ Send(r) \/ Disconnect(r)
      <4>1. PICK r \in Readers, S \in SUBSET Changes, T \in SUBSET Changes, H \in SUBSET Changes :
               /\ sent' = [sent EXCEPT ![r] = S] /\ told' = [told EXCEPT ![r] = T]
               /\ hushed' = [hushed EXCEPT ![r] = H]
        BY <2>5, <3>2
      <4>. QED
        BY <2>3, <4>1
    <3>. QED
      BY <2>4, <3>1, <3>2
  <2>. QED
    BY <2>6, <1>3
<1>. QED
  BY <1>5, <1>6, <1>7, <1>8, <1>9, <1>10, <1>11, <1>12, <1>13 DEF ReaderTypes

-----------------------------------------------------------------------------
(* The writers.                                                            *)

LEMMA WritersStep ==
  ASSUME TypeOK, Writers, [Next]_vars
  PROVE  Writers'
<1>1. /\ Len(changes) \in Nat /\ Changes = 1 .. Len(changes)
      /\ wrote \in [Sessions -> SUBSET Changes] /\ wpc \in [Sessions -> {"idle", "open", "committed"}]
      /\ pending \in [Sessions -> BOOLEAN]
  BY DomainOf DEF TypeOK
<1>2. /\ \A s \in Sessions : \A n \in wrote[s] : n \in Changes /\ changes[n].state = "open"
      /\ \A s \in Sessions : wpc[s] # "idle" => pending[s]
      /\ \A s, t \in Sessions : s # t => wrote[s] \intersect wrote[t] = {}
  BY <1>1 DEF Writers, WriterInv, Disjoint
<1>3. ASSUME NEW s \in Sessions, NEW kind \in Kinds, AppendEvent(s, kind) PROVE Writers'
  <2>1. PICK e \in Records : changes' = Append(changes, e) /\ e.state = "open"
    BY <1>3 DEF AppendEvent, Records
  <2>2. /\ \A n \in Changes : changes'[n] = changes[n]
        /\ changes'[Len(changes) + 1] = e
    BY <2>1, Appended
  <2>3. Len(changes) + 1 \notin Changes
    BY <1>1
  <2>4. /\ wrote'[s] = wrote[s] \union {Len(changes) + 1} /\ pending'[s] = TRUE
        /\ \A t \in Sessions \ {s} : wrote'[t] = wrote[t] /\ pending'[t] = pending[t] /\ wpc'[t] = wpc[t]
    BY <1>1, <1>3 DEF AppendEvent
  <2>5. \A t \in Sessions : \A n \in wrote'[t] : changes'[n].state = "open"
    <3>1. \A t \in Sessions : \A n \in wrote[t] : changes'[n].state = "open"
      BY <1>2, <2>2
    <3>2. \A n \in wrote'[s] : changes'[n].state = "open"
      BY <2>1, <2>2, <2>4, <3>1
    <3>. QED
      BY <2>4, <3>1, <3>2
  <2>6. \A t \in Sessions : wpc'[t] # "idle" => pending'[t]
    BY <1>2, <2>4
  <2>7. \A t, u \in Sessions : t # u => wrote'[t] \intersect wrote'[u] = {}
    BY <1>1, <1>2, <2>3, <2>4
  <2>. QED
    BY <2>5, <2>6, <2>7 DEF Writers, WriterInv, Disjoint
<1>4. ASSUME NEW kind \in Kinds, WorkerRow(kind) PROVE Writers'
  <2>1. PICK e \in Records : changes' = Append(changes, e)
    BY <1>4 DEF WorkerRow, Records
  <2>2. \A n \in Changes : changes'[n] = changes[n]
    BY <2>1, Appended
  <2>3. UNCHANGED <<wpc, wrote, pending>>
    BY <1>4 DEF WorkerRow
  <2>. QED
    BY <1>2, <2>2, <2>3 DEF Writers, WriterInv, Disjoint
<1>5. ASSUME NEW s \in Sessions, NEW n \in Changes, AppendDuplicate(s, n) PROVE Writers'
  <2>1. \A m \in Changes : changes'[m].state = changes[m].state
    BY <1>5, DuplicateFound
  <2>2. /\ pending' = [pending EXCEPT ![s] = TRUE] /\ wpc' = [wpc EXCEPT ![s] = "open"]
        /\ UNCHANGED wrote
    BY <1>5 DEF AppendDuplicate
  <2>3. \A t \in Sessions : wpc'[t] # "idle" => pending'[t]
    BY <1>1, <1>2, <2>2
  <2>. QED
    BY <1>2, <2>1, <2>2, <2>3 DEF Writers, WriterInv, Disjoint
<1>6. ASSUME NEW s \in Sessions, Commit(s) \/ Rollback(s) PROVE Writers'
  <2>1. PICK state \in {"visible", "gone"} : Settle(wrote[s], state)
    BY <1>6 DEF Commit, Rollback
  <2>2. \A n \in Changes \ wrote[s] : changes'[n] = changes[n]
    BY <2>1, Rewritten
  <2>3. wrote' = [wrote EXCEPT ![s] = {}]
    BY <1>6 DEF Commit, Rollback
  <2>4. /\ wrote'[s] = {}
        /\ \A t \in Sessions \ {s} : wrote'[t] = wrote[t]
    BY <1>1, <2>3
  <2>5. \A t \in Sessions : \A n \in wrote'[t] : changes'[n].state = "open"
    <3>1. \A t \in Sessions \ {s} : \A n \in wrote[t] : n \in Changes \ wrote[s]
      BY <1>2
    <3>. QED
      BY <1>2, <2>2, <2>4, <3>1
  <2>6. \A t \in Sessions : wpc'[t] # "idle" => pending'[t]
    BY <1>1, <1>2, <1>6 DEF Commit, Rollback
  <2>7. \A t, u \in Sessions : t # u => wrote'[t] \intersect wrote'[u] = {}
    BY <1>2, <2>4
  <2>. QED
    BY <2>5, <2>6, <2>7 DEF Writers, WriterInv, Disjoint
<1>7. ASSUME NEW s \in Sessions, AfterCommit(s) PROVE Writers'
  <2>1. \A t \in Sessions : wpc'[t] # "idle" => pending'[t]
    BY <1>1, <1>2, <1>7 DEF AfterCommit
  <2>. QED
    BY <1>2, <1>7, <2>1 DEF AfterCommit, Writers, WriterInv, Disjoint
<1>8. CASE UNCHANGED <<changes, wpc, wrote, pending>>
  BY <1>2, <1>8 DEF Writers, WriterInv, Disjoint
<1>. QED
  BY <1>3, <1>4, <1>5, <1>6, <1>7, <1>8
     DEF Next, Writing, Streaming, Connect, Subscribe, Flush, Wake, Send, Sent, Enqueue, Disconnect, AuthSignal, bounds, writerVars, vars

-----------------------------------------------------------------------------
(* The rows.                                                               *)

LEMMA RowsStep ==
  ASSUME TypeOK, Writers, NEW r \in Readers, Fresh(r), RowsInv(r), [Next]_vars
  PROVE  Fresh(r)' /\ RowsInv(r)'
<1>0. /\ rpc \in [Readers -> {"off", "connecting", "flush", "waiting", "sending"}]
      /\ cursor \in [Readers -> [Feeds -> 0 .. Len(changes)]]
      /\ page \in [Readers -> [Feeds -> SUBSET Changes]]
      /\ found \in [Readers -> SUBSET Changes] /\ sent \in [Readers -> SUBSET Changes]
  BY DEF TypeOK
<1>1. Len(changes) \in Nat /\ Changes = 1 .. Len(changes)
  BY DomainOf
<1>2. Visible \subseteq Visible' /\ Visible \subseteq Changes /\ \A n \in Changes : changes'[n].kind = changes[n].kind
  BY ChangesKept DEF Kept, Visible
<1>3. CASE UNCHANGED <<rpc[r], cursor[r], page[r], found[r], sent[r]>>
  <2>1. \A f \in Feeds : Found(r, f)' = Found(r, f)
    BY <1>0, <1>2, <1>3 DEF Found
  <2>2. Batch(r)' = Batch(r)
    BY <1>3 DEF Batch
  <2>. QED
    BY <1>2, <1>3, <2>1, <2>2 DEF Fresh, RowsInv
<1>4. CASE Connect(r)
  <2>1. found[r] = {} /\ Batch(r) = {} /\ UNCHANGED <<found, page, sent>>
    BY <1>4 DEF Connect, Fresh, history
  <2>2. Batch(r)' = {}
    BY <2>1 DEF Batch
  <2>. QED
    BY <2>1, <2>2 DEF Fresh, RowsInv, Found
<1>5. CASE Subscribe(r)
  <2>1. UNCHANGED <<changes, cursor, page, found, sent>> /\ rpc'[r] = "flush"
    BY <1>0, <1>5 DEF Subscribe, writerVars
  <2>. QED
    BY <1>2, <2>1 DEF Fresh, RowsInv, Found
<1>6. CASE Flush(r) \/ Wake(r)
  <2>1. Read(r) /\ rpc'[r] = "sending" /\ UNCHANGED <<changes, cursor, sent>>
    BY <1>0, <1>6 DEF Flush, Wake, writerVars
  <2>2. found'[r] = found[r] \union Ahead(r) /\ \A f \in Feeds : page'[r][f] = Page(r, f)
    BY <1>0, <2>1, ReadPage
  <2>3. \A f \in Feeds : \A n \in AfterCursor(r, f), m \in page'[r][f] : n <= m => n \in page'[r][f]
    BY <2>2, PageOf
  <2>4. found[r] \subseteq Visible /\ Ahead(r) \subseteq Visible
    BY DEF RowsInv, Ahead, AfterCursor, Rows
  <2>5. \A f \in Feeds : \A n \in Found(r, f)' : n \in Found(r, f) \/ n \in AfterCursor(r, f)
    <3>1. SUFFICES ASSUME NEW f \in Feeds, NEW n \in Ahead(r), changes[n].kind \in KindsOf(f)
                   PROVE  n \in AfterCursor(r, f)
      BY <2>1, <2>2 DEF Found
    <3>2. PICK g \in Feeds : n \in AfterCursor(r, g)
      BY DEF Ahead
    <3>3. changes[n].kind \in KindsOf(g)
      BY <3>2 DEF AfterCursor, Rows
    <3>4. f = g
      BY <3>1, <3>3 DEF Feeds, KindsOf
    <3>. QED
      BY <3>2, <3>4
  <2>6. \A f \in Feeds : \A n \in AfterCursor(r, f) : ~ (n <= cursor[r][f])
    <3>. SUFFICES ASSUME NEW f \in Feeds, NEW n \in AfterCursor(r, f) PROVE ~ (n <= cursor[r][f])
      OBVIOUS
    <3>1. n > cursor[r][f] /\ n \in Nat /\ cursor[r][f] \in Nat
      BY <1>0, <1>1, <1>2 DEF AfterCursor, Rows
    <3>. QED
      BY <3>1
  <2>7. \A f \in Feeds : \A n \in Found(r, f) : cursor[r][f] < n => n \in AfterCursor(r, f)
    BY <2>4 DEF Found, AfterCursor, Rows
  <2>8. ASSUME NEW f \in Feeds
        PROVE  /\ \A n \in Found(r, f)' : n <= cursor'[r][f] => n \in sent'[r]
               /\ \A n \in Found(r, f)', m \in page'[r][f] : cursor'[r][f] < n /\ n <= m => n \in page'[r][f]
    <3>1. \A n \in Found(r, f) : n <= cursor[r][f] => n \in sent[r]
      BY DEF RowsInv
    <3>2. \A n \in Found(r, f)' : n <= cursor[r][f] => n \in sent[r]
      BY <3>1, <2>5, <2>6
    <3>3. \A n \in Found(r, f)' : cursor[r][f] < n => n \in AfterCursor(r, f)
      BY <2>5, <2>7
    <3>. QED
      BY <2>1, <2>3, <3>2, <3>3
  <2>9. found'[r] \subseteq Visible'
    BY <1>2, <2>2, <2>4
  <2>. QED
    BY <2>1, <2>8, <2>9 DEF Fresh, RowsInv
<1>7. CASE Send(r)
  <2>1. /\ rpc'[r] = "waiting" /\ found'[r] = found[r] /\ UNCHANGED changes
        /\ sent'[r] = sent[r] \union Batch(r)
        /\ \A f \in Feeds : /\ page'[r][f] = {}
                            /\ cursor'[r][f] = IF page[r][f] = {} THEN cursor[r][f] ELSE Last(page[r][f])
    BY <1>0, <1>7 DEF Send, Sent, writerVars
  <2>2. ASSUME NEW f \in Feeds, NEW n \in Found(r, f), n <= cursor'[r][f]
        PROVE  n \in sent'[r]
    <3>1. CASE page[r][f] = {}
      BY <2>1, <2>2, <3>1 DEF RowsInv
    <3>2. CASE page[r][f] # {}
      <4>0. page[r][f] \in SUBSET (1 .. Len(changes))
        BY <1>0, <1>1
      <4>1. Last(page[r][f]) \in page[r][f]
        BY <1>1, <3>2, <4>0, LastIsGreatest
      <4>2. n \in Nat /\ cursor[r][f] \in Nat /\ n <= Last(page[r][f])
        BY <1>0, <1>1, <2>1, <2>2, <3>2 DEF Found
      <4>3. CASE n <= cursor[r][f]
        BY <2>1, <4>3 DEF RowsInv
      <4>4. CASE cursor[r][f] < n
        <5>1. n \in page[r][f]
          BY <4>1, <4>2, <4>4 DEF RowsInv
        <5>. QED
          BY <2>1, <5>1 DEF Batch
      <4>. QED
        BY <4>2, <4>3, <4>4
    <3>. QED
      BY <3>1, <3>2
  <2>3. \A f \in Feeds : Found(r, f)' = Found(r, f)
    BY <2>1 DEF Found
  <2>4. found'[r] \subseteq Visible'
    BY <1>2, <2>1 DEF RowsInv
  <2>. QED
    BY <2>1, <2>2, <2>3, <2>4 DEF Fresh, RowsInv
<1>8. CASE Disconnect(r)
  <2>1. found'[r] = {} /\ \A f \in Feeds : page'[r][f] = {}
    BY <1>0, <1>8 DEF Disconnect
  <2>. QED
    BY <2>1 DEF Fresh, RowsInv, Batch, Found
<1>9. ASSUME NEW q \in Readers \ {r}, Connect(q) \/ Streaming(q) \/ Enqueue(q) \/ Disconnect(q)
      PROVE  UNCHANGED <<rpc[r], cursor[r], page[r], found[r], sent[r]>>
  <2>1. CASE Flush(q) \/ Wake(q)
    <3>1. Read(q)
      BY <2>1 DEF Flush, Wake
    <3>2. page'[r] = page[r] /\ found'[r] = found[r]
      BY <1>0, <3>1, ReadPage
    <3>. QED
      BY <1>0, <2>1, <3>2 DEF Flush, Wake
  <2>2. CASE Connect(q)
    BY <1>0, <2>2 DEF Connect, history
  <2>3. CASE Send(q)
    BY <1>0, <2>3 DEF Send, Sent
  <2>. QED
    BY <1>0, <1>9, <2>1, <2>2, <2>3 DEF Streaming, Subscribe, Enqueue, Disconnect, history
<1>10. CASE Enqueue(r) \/ AuthSignal \/ UNCHANGED vars \/ (\E s \in Sessions : Writing(s)) \/ \E kind \in Kinds : WorkerRow(kind)
  BY <1>3, <1>10
     DEF Enqueue, AuthSignal, Writing, AppendEvent, AppendDuplicate, Commit, AfterCommit, Rollback, WorkerRow, history, vars
<1>. QED
  BY <1>3, <1>4, <1>5, <1>6, <1>7, <1>8, <1>9, <1>10 DEF Next, Streaming

-----------------------------------------------------------------------------
(* The wake-ups.                                                           *)

LEMMA WakeStep ==
  ASSUME TypeOK, Writers, NEW r \in Readers, WakeInv(r), [Next]_vars
  PROVE  WakeInv(r)'
<1>. SUFFICES ASSUME Subscribed(r)', NEW n \in Requested', n \notin told'[r], n \notin hushed'[r],
                     \A s \in Sessions : wpc'[s] # "committed"
              PROVE  Coming(r, n)'
  BY DEF WakeInv, Coming, Quiet
<1>0. /\ rpc \in [Readers -> {"off", "connecting", "flush", "waiting", "sending"}]
      /\ queue \in [Readers -> Seq(Signals)] /\ scheduled \in [Readers -> Seq(Signals)]
      /\ cursor \in [Readers -> [Feeds -> 0 .. Len(changes)]]
      /\ page \in [Readers -> [Feeds -> SUBSET Changes]]
      /\ told \in [Readers -> SUBSET Changes] /\ hushed \in [Readers -> SUBSET Changes]
      /\ woken \in [Readers -> Signals \union {"none"}]
      /\ wpc \in [Sessions -> {"idle", "open", "committed"}]
      /\ QueueSize \in Nat \ {0}
  BY QueueSizeAssumption DEF TypeOK
<1>1. n \in Requested /\ n \in Visible
  BY ChangesKept DEF Requested
<1>3. Subscribed(r) /\ n \notin told[r] /\ n \notin hushed[r] => Coming(r, n)
  BY <1>1 DEF WakeInv
\* Nothing happens to the reader's own variables.
<1>4. ASSUME UNCHANGED <<rpc[r], queue[r], cursor[r], page[r], woken[r], told[r], hushed[r]>>,
             scheduled[r] # <<>> => scheduled'[r] # <<>>,
             \A s \in Sessions : wpc[s] = "committed" => scheduled'[r] # <<>>
      PROVE  Coming(r, n)'
  <2>1. Subscribed(r) /\ n \notin told[r] /\ n \notin hushed[r]
    BY <1>4 DEF Subscribed
  <2>2. Coming(r, n)
    BY <1>3, <2>1
  <2>3. CASE ~Quiet(r)
    BY <1>4, <2>3 DEF Coming, Quiet
  <2>4. CASE rpc[r] = "flush" /\ n \in Ahead(r)
    <3>1. PICK f \in Feeds : n \in AfterCursor(r, f)
      BY <2>4 DEF Ahead
    <3>2. n \in AfterCursor(r, f)'
      BY <1>4, <3>1, ChangesKept DEF Kept, AfterCursor, Rows, Visible
    <3>. QED
      BY <1>4, <2>4, <3>2 DEF Coming, Ahead
  <2>5. CASE rpc[r] = "sending" /\ (Batch(r) # {} \/ woken[r] # "none")
    BY <1>4, <2>5 DEF Coming, Batch
  <2>. QED
    BY <2>2, <2>3, <2>4, <2>5 DEF Coming
<1>20. ASSUME NEW signal, Publish(signal), Subscribed(r) PROVE scheduled'[r] # <<>>
  <2>1. scheduled'[r] = Append(scheduled[r], signal) /\ scheduled[r] \in Seq(Signals)
    BY <1>0, <1>20 DEF Publish
  <2>2. Len(Append(scheduled[r], signal)) = Len(scheduled[r]) + 1 /\ Len(scheduled[r]) \in Nat
    BY <2>1
  <2>3. Len(<<>>) = 0
    OBVIOUS
  <2>. QED
    BY <2>1, <2>2, <2>3
<1>5. ASSUME NEW s \in Sessions, Writing(s) PROVE Coming(r, n)'
  <2>1. UNCHANGED <<rpc, queue, cursor, page, woken, told, hushed>>
    BY <1>5 DEF Writing, AppendEvent, AppendDuplicate, Commit, AfterCommit, Rollback, history
  <2>2. Subscribed(r)
    BY <2>1 DEF Subscribed
  <2>3. Publish("commit") => scheduled'[r] # <<>>
    BY <1>20, <2>2
  <2>4. scheduled[r] # <<>> => scheduled'[r] # <<>>
    <3>1. Publish("commit") \/ UNCHANGED scheduled
      BY <1>5 DEF Writing, AppendEvent, AppendDuplicate, Commit, AfterCommit, Rollback
    <3>. QED
      BY <2>3, <3>1
  <2>5. ASSUME NEW t \in Sessions, wpc[t] = "committed" PROVE scheduled'[r] # <<>>
    <3>1. t = s
      BY <1>0, <1>5, <2>5 DEF Writing, AppendEvent, AppendDuplicate, Commit, AfterCommit, Rollback
    <3>2. AfterCommit(s) /\ pending[s]
      BY <1>5, <2>5, <3>1 DEF Writing, AppendEvent, AppendDuplicate, Commit, Rollback, Writers, WriterInv
    <3>3. Publish("commit")
      BY <3>2 DEF AfterCommit
    <3>. QED
      BY <2>3, <3>3
  <2>. QED
    BY <1>4, <2>1, <2>4, <2>5
<1>6. ASSUME NEW kind \in Kinds, WorkerRow(kind) PROVE Coming(r, n)'
  <2>1. UNCHANGED <<wpc, rpc, queue, scheduled, cursor, page, woken, told, hushed>>
    BY <1>6 DEF WorkerRow, history
  <2>. QED
    BY <1>0, <1>4, <2>1
<1>15. CASE AuthSignal
  <2>1. UNCHANGED <<wpc, rpc, queue, cursor, page, woken, told, hushed>> /\ Publish("auth")
    BY <1>15 DEF AuthSignal, history, writerVars
  <2>2. Subscribed(r)
    BY <2>1 DEF Subscribed
  <2>. QED
    BY <1>4, <1>20, <2>1, <2>2
<1>7. ASSUME NEW q \in Readers \ {r}, Connect(q) \/ Streaming(q) \/ Enqueue(q) \/ Disconnect(q)
      PROVE  Coming(r, n)'
  <2>1. UNCHANGED wpc
    BY <1>7 DEF Streaming, Connect, Subscribe, Flush, Wake, Send, Sent, Enqueue, Disconnect, writerVars
  <2>2. UNCHANGED page[r]
    <3>1. Read(q) => page'[r] = page[r]
      BY ReadPage
    <3>. QED
      BY <1>0, <1>7, <3>1 DEF Streaming, Connect, Subscribe, Flush, Wake, Send, Sent, Enqueue, Disconnect
  <2>3. UNCHANGED cursor[r]
    <3>1. CASE Connect(q)
      BY <1>0, <3>1 DEF Connect
    <3>2. CASE Send(q)
      BY <1>0, <3>2 DEF Send
    <3>. QED
      BY <1>0, <1>7, <3>1, <3>2 DEF Streaming, Subscribe, Flush, Wake, Enqueue, Disconnect
  <2>4. UNCHANGED <<rpc[r], queue[r], woken[r], scheduled[r]>>
    BY <1>0, <1>7 DEF Streaming, Connect, Subscribe, Flush, Wake, Send, Sent, Enqueue, Disconnect
  <2>5. UNCHANGED <<told[r], hushed[r]>>
    BY <1>0, <1>7 DEF Streaming, Connect, Subscribe, Flush, Wake, Send, Sent, Enqueue, Disconnect, history
  <2>6. scheduled[r] # <<>> => scheduled'[r] # <<>>
    BY <2>4
  <2>7. CASE \E s \in Sessions : wpc[s] = "committed"
    BY <2>1, <2>7
  <2>. QED
    BY <1>4, <2>1, <2>2, <2>3, <2>4, <2>5, <2>6, <2>7
<1>8. CASE Connect(r) \/ Disconnect(r)
  BY <1>0, <1>8 DEF Connect, Disconnect, Subscribed
<1>9. CASE Subscribe(r)
  <2>1. rpc'[r] = "flush" /\ told'[r] = Visible \ Ahead(r) /\ UNCHANGED <<changes, cursor>>
    BY <1>0, <1>9 DEF Subscribe, writerVars
  <2>2. n \in Ahead(r)
    BY <1>1, <2>1
  <2>3. Ahead(r)' = Ahead(r)
    BY <2>1 DEF Ahead, AfterCursor, Rows, Visible, Changes
  <2>. QED
    BY <2>1, <2>2, <2>3 DEF Coming
<1>10. CASE Flush(r)
  <2>1. rpc[r] = "flush" /\ rpc'[r] = "sending" /\ Read(r) /\ UNCHANGED <<wpc, queue, scheduled, told, hushed>>
    BY <1>0, <1>10 DEF Flush, writerVars
  <2>2. Ahead(r) # {} => Batch(r)' # {}
    <3>. SUFFICES ASSUME Ahead(r) # {} PROVE Batch(r)' # {}
      OBVIOUS
    <3>1. PICK f \in Feeds : AfterCursor(r, f) # {}
      BY DEF Ahead
    <3>2. page'[r][f] # {}
      BY <2>1, <3>1, ReadPage, PageOf
    <3>. QED
      BY <3>2 DEF Batch
  <2>3. Coming(r, n)
    BY <1>3, <2>1 DEF Subscribed
  <2>4. Quiet(r)' <=> Quiet(r)
    BY <2>1 DEF Quiet
  <2>. QED
    BY <2>1, <2>2, <2>3, <2>4 DEF Coming
<1>11. CASE Wake(r)
  <2>1. Head(queue[r]) \in Signals
    BY <1>0, <1>11 DEF Wake
  <2>2. woken'[r] # "none" /\ rpc'[r] = "sending"
    BY <1>0, <1>11, <2>1 DEF Wake, Signals
  <2>. QED
    BY <2>2 DEF Coming
<1>12. CASE Send(r)
  <2>1. rpc[r] = "sending" /\ UNCHANGED <<wpc, queue, scheduled>>
    BY <1>12 DEF Send, Sent, writerVars
  <2>2. /\ told'[r] = IF Refetches(r) THEN Visible ELSE told[r] \union Batch(r)
        /\ hushed'[r] = IF Refetches(r) THEN {} ELSE IF Emits(r) /\ Quiet(r) THEN Visible ELSE hushed[r]
    BY <1>0, <1>12 DEF Send, Sent
  <2>3. Quiet(r)' <=> Quiet(r)
    BY <2>1 DEF Quiet
  <2>4. ~Refetches(r) /\ n \notin told[r] /\ ~(Emits(r) /\ Quiet(r))
    BY <1>1, <2>2
  <2>5. CASE ~Quiet(r)
    BY <2>3, <2>5 DEF Coming
  <2>6. CASE Quiet(r)
    <3>1. ~Emits(r) /\ hushed'[r] = hushed[r]
      BY <2>2, <2>4, <2>6
    <3>2. Coming(r, n)
      BY <1>3, <2>1, <2>4, <3>1 DEF Subscribed
    <3>3. woken[r] \in {"commit", "auth"}
      BY <1>0, <2>1, <2>6, <3>1, <3>2 DEF Coming, Emits, Signals
    <3>. QED
      BY <2>4, <3>1, <3>3 DEF Emits, Refetches
  <2>. QED
    BY <2>5, <2>6
<1>13. CASE Enqueue(r)
  <2>. DEFINE q == IF Len(queue[r]) < QueueSize THEN queue[r] ELSE Tail(queue[r])
  <2>1. queue[r] \in Seq(Signals) /\ (queue[r] # <<>> \/ Len(queue[r]) < QueueSize)
    BY <1>0
  <2>2. q \in Seq(Signals)
    BY <1>0, <2>1
  <2>3. queue'[r] = Append(q, Head(scheduled[r]))
    BY <1>0, <1>13 DEF Enqueue
  <2>. HIDE DEF q
  <2>4. Len(Append(q, Head(scheduled[r]))) = Len(q) + 1 /\ Len(q) \in Nat /\ Len(<<>>) = 0
    BY <2>2
  <2>5. queue'[r] # <<>>
    BY <2>3, <2>4
  <2>. QED
    BY <2>5 DEF Coming, Quiet
<1>14. CASE UNCHANGED vars
  <2>1. CASE \E s \in Sessions : wpc[s] = "committed"
    BY <1>14, <2>1 DEF vars
  <2>. QED
    BY <1>4, <1>14, <2>1 DEF vars
<1>. QED
  BY <1>5, <1>6, <1>7, <1>8, <1>9, <1>10, <1>11, <1>12, <1>13, <1>14, <1>15 DEF Next, Streaming

-----------------------------------------------------------------------------
(* The theorems.                                                           *)

LEMMA Inductive == Spec => []IInv
<1>1. Init => IInv
  <2>. SUFFICES ASSUME Init PROVE IInv
    OBVIOUS
  <2>1. TypeOK
    BY TypeInit
  <2>2. (\A s \in Sessions : WriterInv(s)) /\ Disjoint
    BY DEF Init, WriterInv, Disjoint
  <2>3. \A r \in Readers : Fresh(r) /\ RowsInv(r) /\ WakeInv(r)
    BY DEF Init, Fresh, RowsInv, Found, Batch, WakeInv, Subscribed
  <2>. QED
    BY <2>1, <2>2, <2>3 DEF IInv
<1>2. IInv /\ [Next]_vars => IInv'
  <2>. SUFFICES ASSUME IInv, [Next]_vars PROVE IInv'
    OBVIOUS
  <2>1. TypeOK /\ Writers
    BY DEF IInv, Writers
  <2>2. TypeOK'
    BY <2>1, WriterTypesStep, ReaderTypesStep, Typing, PTL
  <2>3. Writers'
    BY <2>1, WritersStep
  <2>4. \A r \in Readers : Fresh(r)' /\ RowsInv(r)' /\ WakeInv(r)'
    BY <2>1, RowsStep, WakeStep DEF IInv
  <2>. QED
    BY <2>2, <2>3, <2>4 DEF IInv, Writers
<1>. QED
  BY <1>1, <1>2, PTL DEF Spec

\* Type correctness: subscriptions keep to their queue size, pages to their
\* limit, and cursors to rows that exist (realtime.py, notifications/api.py).
THEOREM TypeCorrect == Spec => []TypeOK
<1>1. IInv => TypeOK
  BY DEF IInv
<1>. QED
  BY <1>1, Inductive, PTL

\* For any number of sessions and streams, any queue size and page limits, a
\* stream that waits with no signal on its way owes its client nothing but a
\* refresh that the last signal withheld because it found other events to
\* send, and its cursors have passed over no row a read could have returned
\* (event_generator in notifications/api.py, the hooks and the hub in
\* realtime.py, the listeners of useRealtimeEffects.ts).
THEOREM MissesNothing == Spec => []NothingMissed
<1>1. IInv => NothingMissed
  <2>. SUFFICES ASSUME IInv PROVE NothingMissed
    OBVIOUS
  <2>1. NoLostWakeup
    <3>. SUFFICES ASSUME NEW r \in Readers, rpc[r] = "waiting", Quiet(r)
                  PROVE  Requested \subseteq told[r] \union hushed[r]
      BY DEF NoLostWakeup
    <3>1. \A n \in Requested \ (told[r] \union hushed[r]) : Coming(r, n)
      BY DEF IInv, WakeInv, Subscribed
    <3>. QED
      BY <3>1 DEF Coming
  <2>2. NothingSkipped
    BY DEF IInv, RowsInv, Found, NothingSkipped
  <2>. QED
    BY <2>1, <2>2 DEF NothingMissed
<1>. QED
  BY <1>1, Inductive, PTL
=============================================================================
