-------------------------- MODULE ProxyPoolProofs --------------------------
(* Proofs about one proxy pool, for every number of processes, requests and *)
(* generated proxies and every size of the pool and of a request.           *)
EXTENDS ProxyPool, FiniteSetTheorems, WellFoundedInduction, TLAPS

-----------------------------------------------------------------------------
(* The inductive invariant.                                                 *)

\* A process inside the transaction of a request, or of a reservation for a
\* waiting job.
Creating == {"stock", "pick", "commit"}
Serving == {"reserve", "issue", "update"}

\* What a process carries, and when it holds the pool's row.
WorkSound(q) ==
    /\ q.pc = "idle" => q = Idle
    /\ q.mine # {} => q.pc \in {"pick", "commit"} /\ dynamic
    /\ q.doomed # {} => q.pc \in Creating \cup {"remove", "removed"}
    /\ q.picked # {} => q.pc \in {"commit", "issue"} /\ q.locks
    /\ q.pc \in Creating /\ (dynamic \/ q.doomed # {}) => q.locks
    /\ q.pc = "fill" => q.locks
    /\ q.pc = "stock" => dynamic
    /\ q.pc \in Creating \cup Serving => q.job # 0
    /\ q.pc \notin Creating \cup Serving => q.job = 0
    /\ q.todo # {} => q.pc \in Serving \cup {"jobs"}

\* The row lock of the pool is exclusive.
Shape ==
    /\ \A w \in Workers : WorkSound(req[w])
    /\ \A v, w \in Workers : req[v].locks /\ req[w].locks => v = w

\* What a process is about to store or delete is still as it found it.
EntriesFit(q) ==
    /\ q.mine \subseteq InState("unborn")
    /\ q.picked \subseteq Available \cup q.mine
    /\ q.doomed \cap InState("unborn") = {}
    /\ q.picked \cap q.doomed = {}
    /\ q.pc \in Creating => q.doomed \cap InState("reserved") = {}

StockInv ==
    /\ \A w \in Workers : EntriesFit(req[w])
    /\ \A v, w \in Workers :
           req[v].pc = "removed" => req[v].doomed \cap req[w].picked = {}

\* A request works for a row of its own that is not stored yet, a refill for
\* rows that are, and what it counted was issued.
JobsFit(q) ==
    /\ q.pc \in Creating => job[q.job].status = "absent"
    /\ q.pc \in Serving => job[q.job].status # "absent"
    /\ \A j \in q.todo : job[j].status # "absent"
    /\ q.pc = "update" => q.count <= Cardinality(issued[q.job])

JobInv ==
    /\ \A w \in Workers : JobsFit(req[w])
    /\ \A v, w \in Workers :
           v # w /\ req[v].pc \in Creating /\ req[w].pc \in Creating =>
               req[v].job # req[w].job
    /\ \A j \in Jobs : job[j].status = "absent" => issued[j] = {}

\* The stock a request leaves once it commits.
Stock(q) == (Available \ q.doomed) \cup q.mine

Most == IF dynamic /\ Want > TargetCount THEN Want ELSE TargetCount

FillInv == \A w \in Workers : req[w].mine # {} => Cardinality(Stock(req[w])) <= Most

\* Where stock is made on demand and none is removed, a request that has stocked
\* up finds what it wants, and nobody waits for a refill.
Stocked(q) ==
    /\ q.todo = {} /\ q.pc \notin Serving \cup {"removed"}
    /\ q.pc = "pick" => Cardinality(Stock(q)) >= Want
    /\ q.pc = "commit" => Cardinality(q.picked) >= Want

StockedInv ==
    dynamic /\ ~removed => target.active /\ \A w \in Workers : Stocked(req[w])

PoolInv ==
    /\ TypeOK /\ Shape /\ StockInv
    /\ JobInv /\ IssuedOnce /\ ReadyMeansIssued
    /\ FillInv /\ NoOverfill
    /\ StockedInv /\ StockedRequestIsReady

-----------------------------------------------------------------------------
(* Sets of entries.                                                         *)

LEMMA EntriesFinite ==
  /\ IsFiniteSet(Entries) /\ Entries \subseteq Nat
  /\ \A S \in SUBSET Entries :
        /\ IsFiniteSet(S) /\ Cardinality(S) \in Nat
        /\ Cardinality(S) = 0 <=> S = {}
        /\ \A T \in SUBSET S : Cardinality(T) <= Cardinality(S)
  <1>1. IsFiniteSet(Entries) /\ Entries \subseteq Nat
    BY PoolAssumption, FS_Interval DEF Entries
  <1>2. ASSUME NEW S \in SUBSET Entries
        PROVE  /\ IsFiniteSet(S) /\ Cardinality(S) \in Nat
               /\ Cardinality(S) = 0 <=> S = {}
               /\ \A T \in SUBSET S : Cardinality(T) <= Cardinality(S)
    <2>1. IsFiniteSet(S)
      BY <1>1, FS_Subset
    <2>2. Cardinality(S) \in Nat
      BY <2>1, FS_CardinalityType
    <2>3. Cardinality(S) = 0 <=> S = {}
      BY <2>1, FS_EmptySet
    <2>4. \A T \in SUBSET S : Cardinality(T) <= Cardinality(S)
      BY <2>1, FS_Subset
    <2> QED
      BY <2>1, <2>2, <2>3, <2>4
  <1> QED
    BY <1>1, <1>2

LEMMA SmallestExists ==
  ASSUME NEW T \in SUBSET Nat, T # {}
  PROVE  \E m \in T : \A n \in T : m <= n
  <1>1. PICK m \in T : \A n \in T : ~ (<<n, m>> \in OpToRel(<, Nat))
    BY WFMin, NatLessThanWellFounded
  <1>2. \A n \in T : ~ (n < m)
    BY <1>1 DEF OpToRel
  <1> QED
    BY <1>2

LEMMA MinIsSmallest ==
  ASSUME NEW T \in SUBSET Nat, T # {}
  PROVE  Min(T) \in T
  BY SmallestExists DEF Min

\* The n oldest entries are at most n: the number of older ones tells them apart.
LEMMA OldestAtMost ==
  ASSUME NEW S \in SUBSET Entries, NEW n \in Nat
  PROVE  /\ Oldest(S, n) \subseteq S
         /\ Cardinality(Oldest(S, n)) <= n
  <1> DEFINE below(e) == {f \in S : f < e}
             rank == [e \in Oldest(S, n) |-> Cardinality(below(e))]
             ranks == 0 .. n - 1
  <1>1. Oldest(S, n) \subseteq S
    BY DEF Oldest
  <1>2. \A e \in Oldest(S, n) : Cardinality(below(e)) \in ranks
    BY EntriesFinite DEF Oldest
  <1>3. ASSUME NEW d \in Oldest(S, n), NEW e \in Oldest(S, n), d < e
        PROVE  rank[d] # rank[e]
    <2>1. below(d) \cup {d} \subseteq below(e) /\ d \notin below(d)
      <3>1. d \in S /\ S \subseteq Nat /\ e \in Nat
        BY <1>1, EntriesFinite
      <3>2. \A f \in S : f < d => f < e
        BY <1>3, <3>1
      <3>3. ~ (d < d)
        BY <3>1
      <3> QED
        BY <1>3, <3>1, <3>2, <3>3
    <2>2. below(d) \in SUBSET S /\ IsFiniteSet(below(d))
      BY EntriesFinite
    <2>3. Cardinality(below(d) \cup {d}) = Cardinality(below(d)) + 1
      BY <2>1, <2>2, FS_AddElement
    <2>4. Cardinality(below(d) \cup {d}) <= Cardinality(below(e))
      BY <2>1, EntriesFinite
    <2> QED
      BY <2>2, <2>3, <2>4, EntriesFinite
  <1>4. rank \in Injection(Oldest(S, n), ranks)
    <2>1. rank \in [Oldest(S, n) -> ranks]
      BY <1>2
    <2>2. ASSUME NEW d \in Oldest(S, n), NEW e \in Oldest(S, n), rank[d] = rank[e]
          PROVE  d = e
      <3>1. d \in Nat /\ e \in Nat
        BY <1>1, EntriesFinite
      <3> QED
        BY <1>3, <2>2, <3>1
    <2> QED
      BY <2>1, <2>2 DEF Injection, IsInjective
  <1>5. IsFiniteSet(ranks) /\ Cardinality(ranks) = n
    BY FS_Interval
  <1>6. Cardinality(Oldest(S, n)) <= n
    BY <1>4, <1>5, FS_Injection
  <1> QED
    BY <1>1, <1>6

\* They are n if there are so many: the oldest one left out has n older ones.
LEMMA OldestAtLeast ==
  ASSUME NEW S \in SUBSET Entries, NEW n \in Nat, n <= Cardinality(S)
  PROVE  n <= Cardinality(Oldest(S, n))
  <1> DEFINE rest == S \ Oldest(S, n)
  <1>1. CASE rest = {}
    BY <1>1, OldestAtMost
  <1>2. CASE rest # {}
    <2>1. rest \in SUBSET Nat
      BY EntriesFinite
    <2>2. PICK m \in rest : \A e \in rest : m <= e
      BY <1>2, <2>1, SmallestExists
    <2>3. {f \in S : f < m} \subseteq Oldest(S, n)
      <3>1. \A f \in S : f < m => f \notin rest
        BY <2>1, <2>2
      <3> QED
        BY <3>1
    <2>4. n <= Cardinality({f \in S : f < m})
      <3>1. Cardinality({f \in S : f < m}) \in Nat
        BY EntriesFinite
      <3> QED
        BY <2>2, <3>1 DEF Oldest
    <2>5. Oldest(S, n) \in SUBSET Entries
      BY DEF Oldest
    <2>6. Cardinality({f \in S : f < m}) <= Cardinality(Oldest(S, n))
      BY <2>3, <2>5, EntriesFinite
    <2>7. Cardinality({f \in S : f < m}) \in Nat /\ Cardinality(Oldest(S, n)) \in Nat
      BY <2>5, EntriesFinite
    <2> QED
      BY <2>4, <2>6, <2>7
  <1> QED
    BY <1>1, <1>2

-----------------------------------------------------------------------------
(* Types and locks.                                                         *)

\* Everything typed but the processes.
StoredTyped ==
    /\ dynamic \in BOOLEAN /\ autoGenerate \in BOOLEAN
    /\ target \in Target
    /\ entry \in [Entries -> {"unborn", "available", "reserved", "deleted"}]
    /\ issued \in [Jobs -> SUBSET Entries]
    /\ job \in [Jobs -> [status : Statuses, count : Nat]]
    /\ messages \in 0 .. MaxMessages
    /\ removed \in BOOLEAN
    /\ faults \in 0 .. MaxFaults /\ ops \in 0 .. MaxOps

\* w goes on with q, having taken the pool's row only if it was free.
WorkerMoves(w, q) ==
    /\ req' = [req EXCEPT ![w] = q]
    /\ q \in Work /\ WorkSound(q)
    /\ q.locks => req[w].locks \/ TargetFree(w)
    /\ UNCHANGED config

\* A process that carries nothing and asks for nothing from the stock.
Carefree(q) ==
    /\ q.mine = {} /\ q.doomed = {} /\ q.picked = {} /\ q.todo = {} /\ q.job = 0
    /\ q.pc \notin Creating \cup Serving \cup {"remove", "removed"}
    /\ q.pc = "idle" => q = Idle
    /\ q.pc = "fill" => q.locks

\* A step after which w is such a process, and that leaves entries and jobs alone.
Quiet(w, q) ==
    /\ WorkerMoves(w, q) /\ Carefree(q)
    /\ target.active => target'.active
    /\ UNCHANGED <<entry, issued, job, removed>>

Passing(w) ==
    \/ Rollback(w) \/ DeadlockVictim(w) \/ Crash(w) \/ RefillFails(w)
    \/ Maintain(w) \/ Queue(w) \/ Publish(w) \/ PublishFails(w)
    \/ StartRefill(w) \/ LockTarget(w) \/ Served(w) \/ FinishRefill(w)
    \/ Expand(w) \/ MobileLook(w) \/ MobileClaim(w) \/ CompatibilityRefill(w)

\* The steps that carry, store or issue entries, or write jobs.
Carrying(w) ==
    \/ \E j \in NextJob : BeginCreate(w, j)
    \/ StockUp(w) \/ Pick(w) \/ Commit(w)
    \/ RemoveLook(w) \/ RemoveEntries(w) \/ RemoveCommit(w)
    \/ Fill(w) \/ List(w) \/ CountIssued(w) \/ Reserve(w)
    \/ Issue(w) \/ Update(w) \/ FailJobs(w)

LEMMA NextCases == Next => (\E w \in Workers : Passing(w) \/ Carrying(w)) \/ Age
  BY DEF Next, Passing, Carrying, Request, Serve, Operate

LEMMA IdleIsSound ==
  /\ Idle \in Work /\ WorkSound(Idle) /\ Carefree(Idle) /\ ~Idle.locks /\ Idle.pc = "idle"
  /\ Idle.mine = {} /\ Idle.doomed = {} /\ Idle.picked = {} /\ Idle.todo = {}
  /\ Idle.job = 0
  BY DEF Idle, Work, WorkSound, Carefree, Creating, Serving

LEMMA CarefreeIsSound ==
  ASSUME NEW q, Carefree(q)
  PROVE  WorkSound(q)
  BY DEF Carefree, WorkSound, Creating, Serving

LEMMA MovesKeepShape ==
  ASSUME TypeOK, Shape, NEW w \in Workers, NEW q, WorkerMoves(w, q)
  PROVE  /\ req' \in [Workers -> Work] /\ Shape'
         /\ req'[w] = q /\ \A v \in Workers : v # w => req'[v] = req[v]
  <1>1. req' \in [Workers -> Work]
    BY DEF TypeOK, WorkerMoves
  <1>2. req'[w] = q /\ \A v \in Workers : v # w => req'[v] = req[v]
    BY DEF TypeOK, WorkerMoves
  <1>3. \A v \in Workers : WorkSound(req'[v])
    BY <1>2 DEF WorkerMoves, Shape
  <1>4. \A v \in Workers : WorkSound(req[v])'
    BY <1>3 DEF WorkSound, WorkerMoves, config
  <1>5. ASSUME NEW u \in Workers, NEW v \in Workers, req'[u].locks, req'[v].locks
        PROVE  u = v
    BY <1>2, <1>5 DEF WorkerMoves, Shape, TargetFree
  <1> QED
    BY <1>1, <1>2, <1>4, <1>5 DEF Shape

\* Another place in the code, with nothing in hand.
LEMMA GoesQuietly ==
  ASSUME NEW q \in Work, WorkSound(q), q.todo = {},
         q.pc \in {"idle", "queue", "publish", "mobile", "refill", "jobs", "fail"},
         NEW p \in {"queue", "publish", "mobile", "refill", "finish"}
  PROVE  /\ [q EXCEPT !.pc = p] \in Work /\ Carefree([q EXCEPT !.pc = p])
         /\ [q EXCEPT !.pc = p].locks = q.locks
  BY DEF Work, WorkSound, Carefree, Creating, Serving

LEMMA QuietMove ==
  ASSUME NEW w \in Workers, NEW q \in Work, Carefree(q),
         req' = [req EXCEPT ![w] = q], q.locks => req[w].locks \/ TargetFree(w),
         UNCHANGED config, target.active => target'.active,
         UNCHANGED <<entry, issued, job, removed>>
  PROVE  Quiet(w, q)
  BY CarefreeIsSound DEF Quiet, WorkerMoves

LEMMA PassingIsQuiet ==
  ASSUME TypeOK, Shape, NEW w \in Workers, Passing(w)
  PROVE  /\ target' \in Target /\ messages' \in 0 .. MaxMessages
         /\ faults' \in 0 .. MaxFaults /\ ops' \in 0 .. MaxOps
         /\ \E q \in Work : Quiet(w, q)
  <1> DEFINE Typed == /\ target' \in Target /\ messages' \in 0 .. MaxMessages
                      /\ faults' \in 0 .. MaxFaults /\ ops' \in 0 .. MaxOps
  <1> USE IdleIsSound
  <1>1. req[w] \in Work /\ WorkSound(req[w]) /\ req \in [Workers -> Work]
    BY DEF TypeOK, Shape
  <1>2. target \in Target /\ messages \in 0 .. MaxMessages
        /\ faults \in 0 .. MaxFaults /\ ops \in 0 .. MaxOps
    BY DEF TypeOK
  <1>3. ASSUME Fault PROVE faults' \in 0 .. MaxFaults
    BY <1>2, <1>3, PoolAssumption DEF Fault
  <1>4. ASSUME Operation(w)
        PROVE  ops' \in 0 .. MaxOps /\ req[w] = Idle /\ req[w].todo = {}
    BY <1>1, <1>2, <1>4, PoolAssumption DEF Operation, WorkSound
  <1>5. /\ [target EXCEPT !.pending = TRUE, !.stale = FALSE] \in Target
        /\ [target EXCEPT !.pending = FALSE, !.stale = FALSE] \in Target
        /\ [target EXCEPT !.active = TRUE] \in Target
        /\ [target EXCEPT !.pending = TRUE, !.stale = FALSE].active = target.active
        /\ [target EXCEPT !.pending = FALSE, !.stale = FALSE].active = target.active
        /\ [target EXCEPT !.active = TRUE].active
    BY <1>2 DEF Target
  <1>6. ASSUME NEW p \in {"queue", "publish", "mobile", "refill", "finish"},
               req[w].pc \in {"idle", "queue", "publish", "mobile", "refill", "jobs", "fail"},
               req[w].todo = {}, Goto(w, p),
               UNCHANGED config, target.active => target'.active,
               UNCHANGED <<entry, issued, job, removed>>
        PROVE  \E q \in Work : Quiet(w, q)
    <2> DEFINE q == [req[w] EXCEPT !.pc = p]
    <2>1. q \in Work /\ Carefree(q) /\ q.locks = req[w].locks
      BY <1>1, <1>6, GoesQuietly
    <2>2. req' = [req EXCEPT ![w] = q]
      BY <1>6 DEF Goto
    <2> HIDE DEF q
    <2> QED
      BY <1>6, <2>1, <2>2, QuietMove
  <1>7. ASSUME Leave(w), UNCHANGED config, target.active => target'.active,
               UNCHANGED <<entry, issued, job, removed>>
        PROVE  \E q \in Work : Quiet(w, q)
    BY <1>7, QuietMove DEF Leave
  <1>8. CASE Rollback(w) \/ DeadlockVictim(w) \/ Crash(w)
    BY <1>2, <1>3, <1>7, <1>8 DEF Rollback, DeadlockVictim, Crash
  <1>9. CASE RefillFails(w)
    <2>1. [Idle EXCEPT !.pc = "fail"] \in Work /\ Carefree([Idle EXCEPT !.pc = "fail"])
          /\ ~[Idle EXCEPT !.pc = "fail"].locks
      BY DEF Idle, Work, Carefree, Creating, Serving
    <2> QED
      BY <1>2, <1>3, <1>9, <2>1, QuietMove DEF RefillFails
  <1>10. CASE Maintain(w)
    <2>1. req[w].pc = "idle" /\ req[w].todo = {}
      BY <1>1, <1>10 DEF Maintain, WorkSound
    <2> QED
      BY <1>2, <1>6, <1>10, <2>1 DEF Maintain
  <1>11. CASE Queue(w)
    <2>1. req[w].pc = "queue" /\ req[w].todo = {}
      BY <1>1, <1>11 DEF Queue, WorkSound, Serving
    <2>2. CASE Claimable
      BY <1>2, <1>5, <1>6, <1>11, <2>1, <2>2 DEF Queue
    <2>3. CASE ~Claimable
      BY <1>2, <1>7, <1>11, <2>3 DEF Queue
    <2> QED
      BY <2>2, <2>3
  <1>12. CASE Publish(w)
    <2>1. messages' \in 0 .. MaxMessages
      BY <1>2, <1>12, PoolAssumption DEF Publish
    <2> QED
      BY <1>2, <1>7, <1>12, <2>1 DEF Publish
  <1>13. CASE PublishFails(w)
    BY <1>2, <1>3, <1>5, <1>7, <1>13 DEF PublishFails
  <1>14. CASE StartRefill(w)
    <2>1. req[w].pc = "idle" /\ req[w].todo = {}
      BY <1>1, <1>14 DEF StartRefill, WorkSound
    <2>2. messages' \in 0 .. MaxMessages
      BY <1>2, <1>14, PoolAssumption DEF StartRefill
    <2> QED
      BY <1>2, <1>6, <1>14, <2>1, <2>2 DEF StartRefill
  <1>15. CASE LockTarget(w)
    <2>1. PICK p \in {"fill", "finish"}, l \in BOOLEAN :
            /\ req' = [req EXCEPT ![w] = [@ EXCEPT !.pc = p, !.locks = l]]
            /\ p = "fill" => l
      <3>1. target.active \in BOOLEAN
        BY <1>2 DEF Target
      <3> QED
        BY <1>15, <3>1 DEF LockTarget
    <2> DEFINE q == [req[w] EXCEPT !.pc = p, !.locks = l]
    <2>2. req' = [req EXCEPT ![w] = q]
      BY <2>1
    <2>3. q \in Work /\ Carefree(q)
      <3>1. req[w].pc = "refill"
        BY <1>15 DEF LockTarget
      <3> QED
        BY <1>1, <2>1, <3>1 DEF Work, WorkSound, Carefree, Creating, Serving
    <2>4. TargetFree(w) /\ UNCHANGED <<config, target, entry, issued, job, messages,
                                       removed, faults, ops>>
      BY <1>15 DEF LockTarget
    <2> HIDE DEF q
    <2> QED
      BY <1>2, <2>2, <2>3, <2>4, QuietMove
  <1>16. CASE Served(w)
    BY <1>2, <1>6, <1>16 DEF Served
  <1>17. CASE FinishRefill(w)
    BY <1>2, <1>5, <1>7, <1>17 DEF FinishRefill
  <1>18. CASE Expand(w)
    BY <1>2, <1>4, <1>5, <1>6, <1>18 DEF Expand
  <1>19. CASE MobileLook(w)
    <2>1. /\ ops' \in 0 .. MaxOps /\ req[w] = Idle /\ req[w].todo = {}
          /\ target' = [target EXCEPT !.active = TRUE]
          /\ UNCHANGED <<config, entry, issued, job, messages, removed, faults>>
      BY <1>4, <1>19 DEF MobileLook
    <2>2. Goto(w, "mobile") \/ UNCHANGED req
      BY <1>19 DEF MobileLook
    <2>3. CASE Goto(w, "mobile")
      BY <1>2, <1>5, <1>6, <2>1, <2>3
    <2>4. CASE UNCHANGED req
      <3>1. req' = [req EXCEPT ![w] = Idle]
        BY <1>1, <2>1, <2>4
      <3> QED
        BY <1>2, <1>5, <2>1, <3>1, QuietMove
    <2> QED
      BY <2>2, <2>3, <2>4
  <1>20. CASE MobileClaim(w)
    <2>1. req[w].pc = "mobile" /\ req[w].todo = {}
      BY <1>1, <1>20 DEF MobileClaim, WorkSound, Serving
    <2> QED
      BY <1>2, <1>5, <1>6, <1>20, <2>1 DEF MobileClaim
  <1>21. CASE CompatibilityRefill(w)
    BY <1>2, <1>4, <1>6, <1>21 DEF CompatibilityRefill
  <1> QED
    BY <1>8, <1>9, <1>10, <1>11, <1>12, <1>13, <1>14, <1>15, <1>16, <1>17, <1>18,
       <1>19, <1>20, <1>21 DEF Passing

-----------------------------------------------------------------------------
(* What each step that carries something does, for w to go on with q.       *)

Seen(w) == (Available \ (HeldByOthers(w) \cup req[w].doomed)) \cup req[w].mine

Needed(w) == AtLeastZero(Want - Cardinality(Available \ req[w].doomed))

Begins(w, q) ==
    /\ req[w] = Idle /\ q.pc = IF dynamic THEN "stock" ELSE "pick"
    /\ q.job \in NextJob
    /\ q.mine = {} /\ q.picked = {} /\ q.todo = {} /\ q.doomed \subseteq Available
    /\ UNCHANGED <<target, entry, issued, job, removed>>

StocksUp(w, q) ==
    /\ req[w].pc = "stock" /\ q.pc = "pick" /\ q.job = req[w].job
    /\ q.doomed = req[w].doomed /\ q.picked = {} /\ q.todo = {}
    /\ q.mine = Oldest(InState("unborn"), Needed(w))
    /\ Needed(w) \in Nat /\ Needed(w) <= Cardinality(InState("unborn"))
    /\ UNCHANGED <<target, entry, issued, job, removed>>

Picks(w, q) ==
    /\ req[w].pc = "pick" /\ q.pc = "commit" /\ q.job = req[w].job
    /\ q.doomed = req[w].doomed /\ q.mine = req[w].mine /\ q.todo = {}
    /\ q.picked \subseteq Seen(w)
    /\ target.active /\ TargetFree(w) => q.picked = Oldest(Seen(w), Want)
    /\ UNCHANGED <<target, entry, issued, job, removed>>

Commits(w, q, row) ==
    /\ req[w].pc = "commit" /\ Carefree(q)
    /\ entry' = [e \in Entries |->
                   IF e \in req[w].doomed THEN "deleted"
                   ELSE IF e \in req[w].picked THEN "reserved"
                   ELSE IF e \in req[w].mine THEN "available" ELSE entry[e]]
    /\ issued' = [issued EXCEPT ![req[w].job] = req[w].picked]
    /\ job' = [job EXCEPT ![req[w].job] = row]
    /\ row.status # "absent" /\ row.count = Cardinality(req[w].picked)
    /\ row.status = "ready" <=> Cardinality(req[w].picked) >= Want
    /\ UNCHANGED <<target, removed>>

LooksForRemoval(w, q) ==
    /\ req[w] = Idle /\ q.pc = "remove" /\ q.doomed = Available
    /\ q.mine = {} /\ q.picked = {} /\ q.todo = {}
    /\ UNCHANGED <<target, entry, issued, job, removed>>

RemovesEntries(w, q) ==
    /\ req[w].pc = "remove" /\ q.pc = "removed" /\ q.doomed = req[w].doomed
    /\ q.mine = {} /\ q.picked = {} /\ q.todo = {}
    /\ q.doomed \cap HeldByOthers(w) = {} /\ removed'
    /\ UNCHANGED <<target, entry, issued, job>>

CommitsRemoval(w, q) ==
    /\ req[w].pc = "removed" /\ Carefree(q)
    /\ entry' = [e \in Entries |-> IF e \in req[w].doomed THEN "deleted" ELSE entry[e]]
    /\ UNCHANGED <<issued, job, removed>>

Fills(w, q) ==
    /\ req[w].pc = "fill" /\ Carefree(q)
    /\ entry' = [e \in Entries |->
                   IF e \in Oldest(InState("unborn"), Shortage) THEN "available"
                   ELSE entry[e]]
    /\ UNCHANGED <<target, issued, job, removed>>

Lists(w, q) ==
    /\ req[w].pc = "list" /\ q.pc = "jobs" /\ q.todo = Waiting
    /\ q.mine = {} /\ q.picked = {} /\ q.doomed = {}
    /\ UNCHANGED <<target, entry, issued, job, removed>>

CountsIssued(w, q) ==
    /\ req[w].pc = "jobs" /\ q.pc = "reserve"
    /\ q.job \in req[w].todo /\ q.todo = req[w].todo
    /\ q.mine = {} /\ q.picked = {} /\ q.doomed = {}
    /\ UNCHANGED <<target, entry, issued, job, removed>>

Reserves(w, q) ==
    /\ req[w].pc = "reserve" /\ q.pc = "issue"
    /\ q.job = req[w].job /\ q.todo = req[w].todo
    /\ q.mine = {} /\ q.doomed = {} /\ q.picked \subseteq Seen(w)
    /\ UNCHANGED <<target, entry, issued, job, removed>>

Issues(w, q) ==
    /\ req[w].pc = "issue" /\ q.pc = "update"
    /\ q.job = req[w].job /\ q.todo = req[w].todo
    /\ q.mine = {} /\ q.doomed = {} /\ q.picked = {}
    /\ entry' = [e \in Entries |-> IF e \in req[w].picked THEN "reserved" ELSE entry[e]]
    /\ issued' = [issued EXCEPT ![req[w].job] = issued[req[w].job] \cup req[w].picked]
    /\ q.count = Cardinality(issued[req[w].job] \cup req[w].picked)
    /\ UNCHANGED <<target, job, removed>>

Updates(w, q) ==
    /\ req[w].pc = "update" /\ q.pc = "jobs" /\ q.todo \subseteq req[w].todo
    /\ q.mine = {} /\ q.doomed = {} /\ q.picked = {}
    /\ job' = [job EXCEPT ![req[w].job] = JobRow(req[w].count)]
    /\ UNCHANGED <<target, entry, issued, removed>>

FailsJobs(w, q) ==
    /\ req[w].pc = "fail" /\ Carefree(q)
    /\ job' = [j \in Jobs |-> IF j \in Waiting /\ job[j].count = 0
                              THEN [job[j] EXCEPT !.status = "failed"] ELSE job[j]]
    /\ UNCHANGED <<target, entry, issued, removed>>

\* A reservation takes entries of the stock it may lock, and with them the row.
LEMMA ReservationFacts ==
  ASSUME TypeOK, NEW w \in Workers, NEW n \in Nat, NEW r \in Reservation(w, n)
  PROVE  /\ r.picked \subseteq Seen(w) /\ r.picked \in SUBSET Entries
         /\ r.locks \in BOOLEAN
         /\ r.picked # {} => r.locks
         /\ req[w].locks => r.locks
         /\ r.locks => req[w].locks \/ TargetFree(w)
         /\ n > 0 /\ target.active /\ TargetFree(w) => r.picked = Oldest(Seen(w), n)
  <1> DEFINE looks == n > 0 /\ target.active /\ TargetFree(w)
             found == IF looks THEN Oldest(Seen(w), n) ELSE {}
  <1>1. PICK held \in IF req[w].locks \/ found # {} THEN {TRUE}
                     ELSE IF looks THEN BOOLEAN ELSE {FALSE} :
           r = [picked |-> found, locks |-> held]
    BY DEF Reservation, Seen
  <1>2. found \subseteq Seen(w)
    BY DEF Oldest
  <1>3. Seen(w) \in SUBSET Entries
    BY DEF Seen, Available, InState, TypeOK, Work
  <1>4. req[w].locks \in BOOLEAN /\ target.active \in BOOLEAN
    BY DEF TypeOK, Work, Target
  <1>5. /\ held \in BOOLEAN
        /\ found # {} \/ req[w].locks => held
        /\ held => req[w].locks \/ looks
    <2>1. found # {} => looks
      OBVIOUS
    <2> HIDE DEF looks, found
    <2> QED
      BY <1>1, <2>1
  <1>6. r.picked = found /\ r.locks = held
    BY <1>1
  <1> QED
    BY <1>2, <1>3, <1>5, <1>6

LEMMA JobRowFacts ==
  ASSUME NEW n \in Nat
  PROVE  /\ JobRow(n) \in [status : Statuses, count : Nat]
         /\ JobRow(n).status # "absent" /\ JobRow(n).count = n
         /\ JobRow(n).status = "ready" <=> n >= Want
         /\ [JobRow(n) EXCEPT !.status = "failed"] \in [status : Statuses, count : Nat]
         /\ [JobRow(n) EXCEPT !.status = "failed"].count = n
         /\ [JobRow(n) EXCEPT !.status = "failed"].status = "failed"
  BY PoolAssumption DEF JobRow, Statuses

LEMMA CountsAreNatural ==
  ASSUME TypeOK
  PROVE  /\ Cardinality(Available) \in Nat /\ Shortage \in Nat
         /\ Available \in SUBSET Entries /\ InState("unborn") \in SUBSET Entries
         /\ \A w \in Workers : Needed(w) \in Nat
  <1>1. Available \in SUBSET Entries /\ InState("unborn") \in SUBSET Entries
    BY DEF Available, InState
  <1>2. Cardinality(Available) \in Nat
        /\ \A w \in Workers : Cardinality(Available \ req[w].doomed) \in Nat
    BY <1>1, EntriesFinite
  <1> QED
    BY <1>1, <1>2, PoolAssumption DEF Shortage, Needed, AtLeastZero

-----------------------------------------------------------------------------
(* Each such step moves one process, and leaves everything typed.           *)

LEMMA BeginCreateDoes ==
  ASSUME TypeOK, Shape, NEW w \in Workers, NEW j \in NextJob, BeginCreate(w, j)
  PROVE  StoredTyped' /\ \E q \in Work : WorkerMoves(w, q) /\ Begins(w, q)
  <1>1. req[w] = Idle
    BY DEF BeginCreate, Shape, WorkSound
  <1>2. j \in Jobs /\ j # 0
    BY DEF NextJob, Jobs
  <1>3. Available \in SUBSET Entries
    BY CountsAreNatural
  <1>4. StoredTyped'
    BY DEF TypeOK, StoredTyped, BeginCreate, config
  <1>5. CASE dynamic
    <2>1. PICK d \in {Available, {}} :
            req' = [req EXCEPT ![w] =
                      [Idle EXCEPT !.pc = "stock", !.job = j, !.locks = TRUE, !.doomed = d]]
      BY <1>5 DEF BeginCreate
    <2> DEFINE q == [Idle EXCEPT !.pc = "stock", !.job = j, !.locks = TRUE, !.doomed = d]
    <2>2. /\ q \in Work /\ WorkSound(q) /\ q.pc = "stock" /\ q.job = j
          /\ q.mine = {} /\ q.picked = {} /\ q.todo = {} /\ q.doomed = d
      BY <1>2, <1>3, <1>5, <2>1 DEF Idle, Work, WorkSound, Creating, Serving
    <2>3. req' = [req EXCEPT ![w] = q]
      BY <2>1
    <2> HIDE DEF q
    <2> QED
      BY <1>1, <1>4, <1>5, <2>1, <2>2, <2>3 DEF BeginCreate, WorkerMoves, Begins, config
  <1>6. CASE ~dynamic
    <2> DEFINE q == [Idle EXCEPT !.pc = "pick", !.job = j]
    <2>1. /\ q \in Work /\ WorkSound(q) /\ q.pc = "pick" /\ q.job = j /\ ~q.locks
          /\ q.mine = {} /\ q.picked = {} /\ q.todo = {} /\ q.doomed = {}
      BY <1>2, <1>6 DEF Idle, Work, WorkSound, Creating, Serving
    <2>2. req' = [req EXCEPT ![w] = q]
      BY <1>6 DEF BeginCreate
    <2> HIDE DEF q
    <2> QED
      BY <1>1, <1>4, <1>6, <2>1, <2>2 DEF BeginCreate, WorkerMoves, Begins, config
  <1> QED
    BY <1>5, <1>6 DEF TypeOK

LEMMA StockUpDoes ==
  ASSUME TypeOK, Shape, NEW w \in Workers, StockUp(w)
  PROVE  StoredTyped' /\ \E q \in Work : WorkerMoves(w, q) /\ StocksUp(w, q)
  <1> DEFINE mine == Oldest(InState("unborn"), Needed(w))
             q == [req[w] EXCEPT !.pc = "pick", !.mine = mine]
  <1>1. req[w] \in Work /\ WorkSound(req[w]) /\ req[w].pc = "stock"
    BY DEF TypeOK, Shape, StockUp
  <1>2. mine \in SUBSET Entries /\ Needed(w) \in Nat
    BY CountsAreNatural, OldestAtMost
  <1>3. /\ q \in Work /\ WorkSound(q) /\ q.pc = "pick" /\ q.job = req[w].job
        /\ q.mine = mine /\ q.doomed = req[w].doomed /\ q.picked = {} /\ q.todo = {}
        /\ q.locks = req[w].locks
    <2> HIDE DEF mine
    <2> QED
      BY <1>1, <1>2 DEF Work, WorkSound, Creating, Serving
  <1>4. req' = [req EXCEPT ![w] = q] /\ Needed(w) <= Cardinality(InState("unborn"))
    BY DEF StockUp, Needed
  <1>5. StoredTyped'
    BY DEF TypeOK, StoredTyped, StockUp, config
  <1> HIDE DEF q
  <1> QED
    BY <1>1, <1>2, <1>3, <1>4, <1>5 DEF StockUp, WorkerMoves, StocksUp, config

LEMMA PickDoes ==
  ASSUME TypeOK, Shape, NEW w \in Workers, Pick(w)
  PROVE  StoredTyped' /\ \E q \in Work : WorkerMoves(w, q) /\ Picks(w, q)
  <1>1. req[w] \in Work /\ WorkSound(req[w]) /\ req[w].pc = "pick" /\ Want \in Nat /\ Want > 0
    BY PoolAssumption DEF TypeOK, Shape, Pick
  <1>2. PICK r \in Reservation(w, Want) :
          req' = [req EXCEPT ![w] = [@ EXCEPT !.pc = "commit", !.picked = r.picked,
                                              !.locks = r.locks]]
    BY DEF Pick
  <1>3. PICK p \in SUBSET Entries, l \in BOOLEAN : p = r.picked /\ l = r.locks
    BY <1>1, ReservationFacts
  <1>5. /\ p \subseteq Seen(w)
        /\ p # {} => l
        /\ req[w].locks => l
        /\ l => req[w].locks \/ TargetFree(w)
        /\ target.active /\ TargetFree(w) => p = Oldest(Seen(w), Want)
    BY <1>1, <1>3, ReservationFacts
  <1> DEFINE q == [req[w] EXCEPT !.pc = "commit", !.picked = p, !.locks = l]
  <1>6. /\ q \in Work /\ WorkSound(q) /\ q.pc = "commit" /\ q.job = req[w].job
        /\ q.mine = req[w].mine /\ q.doomed = req[w].doomed
        /\ q.picked = p /\ q.todo = {} /\ q.locks = l
    BY <1>1, <1>5 DEF Work, WorkSound, Creating, Serving
  <1>7. req' = [req EXCEPT ![w] = q]
    BY <1>2, <1>3
  <1>8. StoredTyped'
    BY DEF TypeOK, StoredTyped, Pick, config
  <1> HIDE DEF q
  <1> QED
    BY <1>1, <1>5, <1>6, <1>7, <1>8 DEF Pick, WorkerMoves, Picks, config

LEMMA CommitDoes ==
  ASSUME TypeOK, Shape, NEW w \in Workers, Commit(w)
  PROVE  StoredTyped' /\ \E q \in Work, row \in [status : Statuses, count : Nat] :
                            WorkerMoves(w, q) /\ Commits(w, q, row)
  <1> DEFINE n == Cardinality(req[w].picked)
  <1>1. req[w] \in Work /\ WorkSound(req[w]) /\ req[w].pc = "commit" /\ req[w].job \in Jobs
    BY DEF TypeOK, Shape, Commit, WorkSound, Creating, Work
  <1>2. req[w].picked \in SUBSET Entries
    BY <1>1 DEF Work
  <1>4. n \in Nat
    BY <1>2, EntriesFinite
  <1>5. PICK row \in {JobRow(n), [JobRow(n) EXCEPT !.status = "failed"]} :
          /\ job' = [job EXCEPT ![req[w].job] = row]
          /\ row # JobRow(n) => n = 0
    BY DEF Commit
  <1>6. /\ row \in [status : Statuses, count : Nat] /\ row.status # "absent"
        /\ row.count = n /\ (row.status = "ready" <=> n >= Want)
    <2> HIDE DEF n
    <2>1. Want \in Nat /\ 0 < Want
      BY PoolAssumption
    <2>2. CASE row = JobRow(n)
      BY <1>4, <2>2, JobRowFacts
    <2>3. CASE row # JobRow(n)
      <3>1. row = [JobRow(n) EXCEPT !.status = "failed"] /\ n = 0
        BY <1>5, <2>3
      <3>2. /\ [JobRow(n) EXCEPT !.status = "failed"] \in [status : Statuses, count : Nat]
            /\ [JobRow(n) EXCEPT !.status = "failed"].count = n
            /\ [JobRow(n) EXCEPT !.status = "failed"].status = "failed"
        BY <1>4, JobRowFacts
      <3> QED
        BY <2>1, <3>1, <3>2
    <2> QED
      BY <2>2, <2>3
  <1>7. PICK q \in {[Idle EXCEPT !.pc = "queue"], Idle} : req' = [req EXCEPT ![w] = q]
    BY DEF Commit
  <1>8. [Idle EXCEPT !.pc = "queue"] \in Work /\ Carefree([Idle EXCEPT !.pc = "queue"])
        /\ ~[Idle EXCEPT !.pc = "queue"].locks
    BY DEF Idle, Work, Carefree, Creating, Serving
  <1>9. q \in Work /\ Carefree(q) /\ ~q.locks
    BY <1>7, <1>8, IdleIsSound
  <1>10. WorkerMoves(w, q)
    BY <1>7, <1>9, CarefreeIsSound DEF WorkerMoves, Commit, config
  <1>11. Commits(w, q, row)
    <2> HIDE DEF n
    <2>1. /\ row.status # "absent" /\ row.count = Cardinality(req[w].picked)
          /\ row.status = "ready" <=> Cardinality(req[w].picked) >= Want
      BY <1>6 DEF n
    <2> QED
      BY <1>1, <1>5, <1>9, <2>1 DEF Commits, Commit
  <1>12. StoredTyped'
    <2>1. issued' \in [Jobs -> SUBSET Entries]
      BY <1>1, <1>2, <1>11 DEF Commits, TypeOK
    <2>2. job' \in [Jobs -> [status : Statuses, count : Nat]]
      BY <1>1, <1>5, <1>6 DEF TypeOK
    <2>3. entry' \in [Entries -> {"unborn", "available", "reserved", "deleted"}]
      BY DEF Commit, TypeOK
    <2> QED
      BY <2>1, <2>2, <2>3 DEF TypeOK, StoredTyped, Commit, config
  <1> QED
    BY <1>6, <1>9, <1>10, <1>11, <1>12

LEMMA RemovalDoes ==
  ASSUME TypeOK, Shape, NEW w \in Workers
  PROVE  /\ RemoveLook(w) =>
                StoredTyped' /\ \E q \in Work : WorkerMoves(w, q) /\ LooksForRemoval(w, q)
         /\ RemoveEntries(w) =>
                StoredTyped' /\ \E q \in Work : WorkerMoves(w, q) /\ RemovesEntries(w, q)
         /\ RemoveCommit(w) =>
                StoredTyped' /\ \E q \in Work : WorkerMoves(w, q) /\ CommitsRemoval(w, q)
  <1>1. req[w] \in Work /\ WorkSound(req[w])
    BY DEF TypeOK, Shape
  <1>2. ASSUME RemoveLook(w)
        PROVE  StoredTyped' /\ \E q \in Work : WorkerMoves(w, q) /\ LooksForRemoval(w, q)
    <2> DEFINE q == [Idle EXCEPT !.pc = "remove", !.doomed = Available]
    <2>1. /\ q \in Work /\ WorkSound(q) /\ q.pc = "remove" /\ q.doomed = Available
          /\ q.mine = {} /\ q.picked = {} /\ q.todo = {} /\ ~q.locks
      BY CountsAreNatural DEF Idle, Work, WorkSound, Creating, Serving
    <2>2. ops' \in 0 .. MaxOps
      BY <1>2, PoolAssumption DEF RemoveLook, Operation, TypeOK
    <2>3. StoredTyped'
      BY <1>2, <2>2 DEF TypeOK, StoredTyped, RemoveLook, config
    <2>4. req' = [req EXCEPT ![w] = q] /\ req[w] = Idle
      BY <1>1, <1>2 DEF RemoveLook, Operation, WorkSound
    <2> HIDE DEF q
    <2> QED
      BY <1>2, <2>1, <2>3, <2>4 DEF RemoveLook, WorkerMoves, LooksForRemoval, config
  <1>3. ASSUME RemoveEntries(w)
        PROVE  StoredTyped' /\ \E q \in Work : WorkerMoves(w, q) /\ RemovesEntries(w, q)
    <2> DEFINE q == [req[w] EXCEPT !.pc = "removed"]
    <2>1. req[w].pc = "remove"
      BY <1>3 DEF RemoveEntries
    <2>2. /\ q \in Work /\ WorkSound(q) /\ q.pc = "removed" /\ q.doomed = req[w].doomed
          /\ q.mine = {} /\ q.picked = {} /\ q.todo = {} /\ q.locks = req[w].locks
      BY <1>1, <2>1 DEF Work, WorkSound, Creating, Serving
    <2>3. StoredTyped'
      BY <1>3 DEF TypeOK, StoredTyped, RemoveEntries, config
    <2>4. req' = [req EXCEPT ![w] = q]
      BY <1>3 DEF RemoveEntries, Goto
    <2> HIDE DEF q
    <2> QED
      BY <1>3, <2>1, <2>2, <2>3, <2>4 DEF RemoveEntries, WorkerMoves, RemovesEntries, config
  <1>4. ASSUME RemoveCommit(w)
        PROVE  StoredTyped' /\ \E q \in Work : WorkerMoves(w, q) /\ CommitsRemoval(w, q)
    <2>1. target' \in Target
      BY <1>4 DEF RemoveCommit, TypeOK, Target
    <2>2. entry' \in [Entries -> {"unborn", "available", "reserved", "deleted"}]
      BY <1>4 DEF RemoveCommit, TypeOK
    <2>3. StoredTyped'
      BY <1>4, <2>1, <2>2 DEF TypeOK, StoredTyped, RemoveCommit, config
    <2> QED
      BY <1>4, <2>3, IdleIsSound DEF RemoveCommit, Leave, WorkerMoves, CommitsRemoval, config
  <1> QED
    BY <1>2, <1>3, <1>4

LEMMA RefillDoes ==
  ASSUME TypeOK, Shape, NEW w \in Workers
  PROVE  /\ Fill(w) => StoredTyped' /\ \E q \in Work : WorkerMoves(w, q) /\ Fills(w, q)
         /\ List(w) => StoredTyped' /\ \E q \in Work : WorkerMoves(w, q) /\ Lists(w, q)
         /\ FailJobs(w) =>
                StoredTyped' /\ \E q \in Work : WorkerMoves(w, q) /\ FailsJobs(w, q)
  <1>1. req[w] \in Work /\ WorkSound(req[w])
    BY DEF TypeOK, Shape
  <1>2. ASSUME Fill(w)
        PROVE  StoredTyped' /\ \E q \in Work : WorkerMoves(w, q) /\ Fills(w, q)
    <2> DEFINE q == [req[w] EXCEPT !.pc = "list", !.locks = FALSE]
    <2>1. req[w].pc = "fill"
      BY <1>2 DEF Fill
    <2>2. q \in Work /\ Carefree(q) /\ ~q.locks
      BY <1>1, <2>1 DEF Work, WorkSound, Carefree, Creating, Serving
    <2>3. entry' \in [Entries -> {"unborn", "available", "reserved", "deleted"}]
      BY <1>2 DEF Fill, TypeOK
    <2>4. StoredTyped'
      BY <1>2, <2>3 DEF TypeOK, StoredTyped, Fill, config
    <2>5. req' = [req EXCEPT ![w] = q]
      BY <1>2 DEF Fill
    <2> HIDE DEF q
    <2> QED
      BY <1>2, <2>1, <2>2, <2>4, <2>5, CarefreeIsSound DEF Fill, WorkerMoves, Fills, config
  <1>3. ASSUME List(w)
        PROVE  StoredTyped' /\ \E q \in Work : WorkerMoves(w, q) /\ Lists(w, q)
    <2> DEFINE q == [req[w] EXCEPT !.pc = "jobs", !.todo = Waiting]
    <2>1. req[w].pc = "list" /\ Waiting \in SUBSET Jobs
      BY <1>3 DEF List, Waiting
    <2>2. /\ q \in Work /\ WorkSound(q) /\ q.pc = "jobs" /\ q.todo = Waiting
          /\ q.mine = {} /\ q.picked = {} /\ q.doomed = {} /\ q.locks = req[w].locks
      BY <1>1, <2>1 DEF Work, WorkSound, Creating, Serving
    <2>3. StoredTyped'
      BY <1>3 DEF TypeOK, StoredTyped, List, config
    <2>4. req' = [req EXCEPT ![w] = q]
      BY <1>3 DEF List
    <2> HIDE DEF q
    <2> QED
      BY <1>3, <2>1, <2>2, <2>3, <2>4 DEF List, WorkerMoves, Lists, config
  <1>4. ASSUME FailJobs(w)
        PROVE  StoredTyped' /\ \E q \in Work : WorkerMoves(w, q) /\ FailsJobs(w, q)
    <2> DEFINE q == [req[w] EXCEPT !.pc = "finish"]
    <2>1. req[w].pc = "fail"
      BY <1>4 DEF FailJobs
    <2>2. q \in Work /\ Carefree(q) /\ q.locks = req[w].locks
      BY <1>1, <2>1 DEF Work, WorkSound, Carefree, Creating, Serving
    <2>3. job' \in [Jobs -> [status : Statuses, count : Nat]]
      BY <1>4 DEF FailJobs, TypeOK, Statuses
    <2>4. StoredTyped'
      BY <1>4, <2>3 DEF TypeOK, StoredTyped, FailJobs, config
    <2>5. req' = [req EXCEPT ![w] = q]
      BY <1>4 DEF FailJobs, Goto
    <2> HIDE DEF q
    <2> QED
      BY <1>4, <2>1, <2>2, <2>4, <2>5, CarefreeIsSound
      DEF FailJobs, WorkerMoves, FailsJobs, config
  <1> QED
    BY <1>2, <1>3, <1>4

LEMMA ServeDoes ==
  ASSUME TypeOK, Shape, NEW w \in Workers
  PROVE  /\ CountIssued(w) =>
                StoredTyped' /\ \E q \in Work : WorkerMoves(w, q) /\ CountsIssued(w, q)
         /\ Reserve(w) =>
                StoredTyped' /\ \E q \in Work : WorkerMoves(w, q) /\ Reserves(w, q)
         /\ Issue(w) =>
                StoredTyped' /\ \E q \in Work : WorkerMoves(w, q) /\ Issues(w, q)
         /\ Update(w) =>
                StoredTyped' /\ \E q \in Work : WorkerMoves(w, q) /\ Updates(w, q)
  <1>1. req[w] \in Work /\ WorkSound(req[w])
    BY DEF TypeOK, Shape
  <1>2. ASSUME CountIssued(w)
        PROVE  StoredTyped' /\ \E q \in Work : WorkerMoves(w, q) /\ CountsIssued(w, q)
    <2>1. req[w].pc = "jobs" /\ req[w].todo # {} /\ req[w].todo \in SUBSET Jobs
      BY <1>1, <1>2 DEF CountIssued, Work
    <2>2. PICK j \in req[w].todo : j = Min(req[w].todo)
      BY <2>1, MinIsSmallest DEF Jobs
    <2>3. j \in Jobs /\ j # 0
      BY <2>1, <2>2 DEF Jobs
    <2>4. PICK n \in Nat : n = AtLeastZero(Want - Cardinality(issued[j]))
      <3>1. Cardinality(issued[j]) \in Nat
        BY <2>3, EntriesFinite DEF TypeOK
      <3> QED
        BY <3>1, PoolAssumption DEF AtLeastZero
    <2> DEFINE q == [req[w] EXCEPT !.pc = "reserve", !.job = j, !.count = n]
    <2>5. /\ q \in Work /\ WorkSound(q) /\ q.pc = "reserve" /\ q.todo = req[w].todo
          /\ q.job = j /\ q.mine = {} /\ q.picked = {} /\ q.doomed = {}
          /\ q.locks = req[w].locks
      BY <1>1, <2>1, <2>3 DEF Work, WorkSound, Creating, Serving
    <2>6. StoredTyped'
      BY <1>2 DEF TypeOK, StoredTyped, CountIssued, config
    <2>7. req' = [req EXCEPT ![w] = q]
      BY <1>2, <2>2, <2>4 DEF CountIssued
    <2> HIDE DEF q
    <2> QED
      BY <1>2, <2>1, <2>2, <2>5, <2>6, <2>7 DEF CountIssued, WorkerMoves, CountsIssued, config
  <1>3. ASSUME Reserve(w)
        PROVE  StoredTyped' /\ \E q \in Work : WorkerMoves(w, q) /\ Reserves(w, q)
    <2>1. req[w].pc = "reserve" /\ req[w].count \in Nat
      BY <1>1, <1>3 DEF Reserve, Work
    <2>2. PICK r \in Reservation(w, req[w].count) :
            req' = [req EXCEPT ![w] = [@ EXCEPT !.pc = "issue", !.picked = r.picked,
                                                !.locks = r.locks]]
      BY <1>3 DEF Reserve
    <2>3. PICK p \in SUBSET Entries, l \in BOOLEAN : p = r.picked /\ l = r.locks
      BY <2>1, ReservationFacts
    <2>4. /\ p \subseteq Seen(w)
          /\ p # {} => l
          /\ l => req[w].locks \/ TargetFree(w)
      BY <2>1, <2>3, ReservationFacts
    <2> DEFINE q == [req[w] EXCEPT !.pc = "issue", !.picked = p, !.locks = l]
    <2>5. /\ q \in Work /\ WorkSound(q) /\ q.pc = "issue" /\ q.todo = req[w].todo
          /\ q.job = req[w].job /\ q.mine = {} /\ q.picked = p /\ q.doomed = {}
          /\ q.locks = l
      BY <1>1, <2>1, <2>4 DEF Work, WorkSound, Creating, Serving
    <2>6. StoredTyped'
      BY <1>3 DEF TypeOK, StoredTyped, Reserve, config
    <2>7. req' = [req EXCEPT ![w] = q]
      BY <2>2, <2>3
    <2> HIDE DEF q
    <2> QED
      BY <1>3, <2>1, <2>4, <2>5, <2>6, <2>7 DEF Reserve, WorkerMoves, Reserves, config
  <1>4. ASSUME Issue(w)
        PROVE  StoredTyped' /\ \E q \in Work : WorkerMoves(w, q) /\ Issues(w, q)
    <2>1. req[w].pc = "issue" /\ req[w].job \in Jobs /\ req[w].picked \in SUBSET Entries
      BY <1>1, <1>4 DEF Issue, Work, WorkSound, Serving
    <2>2. issued' = [issued EXCEPT ![req[w].job] = issued[req[w].job] \cup req[w].picked]
      BY <1>4, <2>1 DEF Issue, TypeOK
    <2>3. issued'[req[w].job] = issued[req[w].job] \cup req[w].picked
          /\ issued' \in [Jobs -> SUBSET Entries]
      BY <2>1, <2>2 DEF TypeOK
    <2>4. PICK n \in Nat : n = Cardinality(issued[req[w].job] \cup req[w].picked)
      BY <2>1, EntriesFinite DEF TypeOK
    <2> DEFINE q == [req[w] EXCEPT !.pc = "update", !.picked = {}, !.locks = FALSE,
                                   !.count = n]
    <2>5. /\ q \in Work /\ WorkSound(q) /\ q.pc = "update" /\ q.todo = req[w].todo
          /\ q.job = req[w].job /\ q.mine = {} /\ q.picked = {} /\ q.doomed = {}
          /\ ~q.locks /\ q.count = n
      BY <1>1, <2>1 DEF Work, WorkSound, Creating, Serving
    <2>6. entry' \in [Entries -> {"unborn", "available", "reserved", "deleted"}]
      BY <1>4 DEF Issue, TypeOK
    <2>7. StoredTyped'
      BY <1>4, <2>3, <2>6 DEF TypeOK, StoredTyped, Issue, config
    <2>8. req' = [req EXCEPT ![w] = q]
      BY <1>4, <2>3, <2>4 DEF Issue
    <2> HIDE DEF q
    <2> QED
      BY <1>4, <2>1, <2>2, <2>4, <2>5, <2>7, <2>8 DEF Issue, WorkerMoves, Issues, config
  <1>5. ASSUME Update(w)
        PROVE  StoredTyped' /\ \E q \in Work : WorkerMoves(w, q) /\ Updates(w, q)
    <2>1. /\ req[w].pc = "update" /\ req[w].job \in Jobs /\ req[w].count \in Nat
          /\ req[w].todo \in SUBSET Jobs
      BY <1>1, <1>5 DEF Update, Work, WorkSound, Serving
    <2>2. PICK S \in SUBSET req[w].todo : req' = [req EXCEPT ![w] =
                                              [Idle EXCEPT !.pc = "jobs", !.todo = S]]
      BY <1>5 DEF Update
    <2> DEFINE q == [Idle EXCEPT !.pc = "jobs", !.todo = S]
    <2>3. /\ q \in Work /\ WorkSound(q) /\ q.pc = "jobs" /\ q.todo = S
          /\ q.mine = {} /\ q.picked = {} /\ q.doomed = {} /\ ~q.locks
      BY <2>1 DEF Idle, Work, WorkSound, Creating, Serving
    <2>4. job' \in [Jobs -> [status : Statuses, count : Nat]]
      BY <1>5, <2>1, JobRowFacts DEF Update, TypeOK
    <2>5. StoredTyped'
      BY <1>5, <2>4 DEF TypeOK, StoredTyped, Update, config
    <2>6. req' = [req EXCEPT ![w] = q]
      BY <2>2
    <2> HIDE DEF q
    <2> QED
      BY <1>5, <2>1, <2>3, <2>5, <2>6 DEF Update, WorkerMoves, Updates, config
  <1> QED
    BY <1>2, <1>3, <1>4, <1>5

\* All that a step may be, for w to go on with q.
Carries(w, q) ==
    \/ Begins(w, q) \/ StocksUp(w, q) \/ Picks(w, q)
    \/ \E row \in [status : Statuses, count : Nat] : Commits(w, q, row)
    \/ LooksForRemoval(w, q) \/ RemovesEntries(w, q) \/ CommitsRemoval(w, q)
    \/ Fills(w, q) \/ Lists(w, q) \/ CountsIssued(w, q) \/ Reserves(w, q)
    \/ Issues(w, q) \/ Updates(w, q) \/ FailsJobs(w, q)

LEMMA CarryingMoves ==
  ASSUME TypeOK, Shape, NEW w \in Workers, Carrying(w)
  PROVE  StoredTyped' /\ \E q \in Work : WorkerMoves(w, q) /\ Carries(w, q)
  <1>1. CASE \E j \in NextJob : BeginCreate(w, j)
    BY <1>1, BeginCreateDoes DEF Carries
  <1>2. CASE StockUp(w)
    BY <1>2, StockUpDoes DEF Carries
  <1>3. CASE Pick(w)
    BY <1>3, PickDoes DEF Carries
  <1>4. CASE Commit(w)
    BY <1>4, CommitDoes DEF Carries
  <1>5. CASE RemoveLook(w) \/ RemoveEntries(w) \/ RemoveCommit(w)
    BY <1>5, RemovalDoes DEF Carries
  <1>6. CASE Fill(w) \/ List(w) \/ FailJobs(w)
    BY <1>6, RefillDoes DEF Carries
  <1>7. CASE CountIssued(w) \/ Reserve(w) \/ Issue(w) \/ Update(w)
    BY <1>7, ServeDoes DEF Carries
  <1> QED
    BY <1>1, <1>2, <1>3, <1>4, <1>5, <1>6, <1>7 DEF Carrying

\* A step that moves nobody: the claim of the pool ages.
Rests ==
    /\ UNCHANGED <<config, entry, issued, job, req, removed>>
    /\ target'.active = target.active

LEMMA StepMoves ==
  ASSUME TypeOK, Shape, [Next]_vars
  PROVE  /\ TypeOK' /\ Shape'
         /\ \/ Rests
            \/ \E w \in Workers, q \in Work :
                 WorkerMoves(w, q) /\ (Quiet(w, q) \/ Carries(w, q))
  <1>1. CASE UNCHANGED vars
    <2>1. Rests
      BY <1>1 DEF vars, Rests
    <2>2. TypeOK'
      BY <1>1 DEF vars, config, TypeOK
    <2>3. Shape'
      BY <1>1 DEF vars, config, Shape, WorkSound
    <2> QED
      BY <2>1, <2>2, <2>3
  <1>2. CASE Age
    <2>1. target' \in Target /\ target'.active = target.active
      BY <1>2 DEF Age, TypeOK, Target
    <2>2. TypeOK'
      BY <1>2, <2>1 DEF Age, config, TypeOK
    <2>3. Shape'
      BY <1>2 DEF Age, config, Shape, WorkSound
    <2> QED
      BY <1>2, <2>1, <2>2, <2>3 DEF Age, Rests
  <1>3. ASSUME NEW w \in Workers, Passing(w)
        PROVE  /\ TypeOK' /\ Shape'
               /\ \E q \in Work : WorkerMoves(w, q) /\ Quiet(w, q)
    <2>1. PICK q \in Work : Quiet(w, q)
      BY <1>3, PassingIsQuiet
    <2>2. WorkerMoves(w, q) /\ UNCHANGED <<config, entry, issued, job, removed>>
      BY <2>1 DEF Quiet, WorkerMoves
    <2>3. req' \in [Workers -> Work] /\ Shape'
      BY <2>2, MovesKeepShape
    <2>4. /\ target' \in Target /\ messages' \in 0 .. MaxMessages
          /\ faults' \in 0 .. MaxFaults /\ ops' \in 0 .. MaxOps
      BY <1>3, PassingIsQuiet
    <2>5. TypeOK'
      BY <2>2, <2>3, <2>4 DEF TypeOK, config
    <2> QED
      BY <2>1, <2>2, <2>3, <2>5
  <1>4. ASSUME NEW w \in Workers, Carrying(w)
        PROVE  /\ TypeOK' /\ Shape'
               /\ \E q \in Work : WorkerMoves(w, q) /\ Carries(w, q)
    <2>1. PICK q \in Work : WorkerMoves(w, q) /\ Carries(w, q)
      BY <1>4, CarryingMoves
    <2>2. req' \in [Workers -> Work] /\ Shape'
      BY <2>1, MovesKeepShape
    <2>3. TypeOK'
      BY <1>4, <2>2, CarryingMoves DEF TypeOK, StoredTyped
    <2> QED
      BY <2>1, <2>2, <2>3
  <1> QED
    BY <1>1, <1>2, <1>3, <1>4, NextCases

LEMMA PoolInit == Init => TypeOK /\ Shape
  <1> SUFFICES ASSUME Init PROVE TypeOK /\ Shape
    OBVIOUS
  <1>1. \A w \in Workers : req[w] = Idle
    BY DEF Init
  <1>2. TypeOK
    <2>1. req \in [Workers -> Work]
      BY IdleIsSound DEF Init
    <2>2. /\ target \in Target /\ messages \in 0 .. MaxMessages
          /\ faults \in 0 .. MaxFaults /\ ops \in 0 .. MaxOps
          /\ job \in [Jobs -> [status : Statuses, count : Nat]]
      BY PoolAssumption DEF Init, Target, Statuses
    <2> QED
      BY <2>1, <2>2 DEF Init, TypeOK
  <1>3. Shape
    BY <1>1, IdleIsSound DEF Shape
  <1> QED
    BY <1>2, <1>3

\* Type correctness of the pool, for every size of it.
THEOREM PoolIsTyped == Spec => []TypeOK
  <1>1. Init => TypeOK /\ Shape
    BY PoolInit
  <1>2. TypeOK /\ Shape /\ [Next]_vars => TypeOK' /\ Shape'
    BY StepMoves
  <1> QED
    BY <1>1, <1>2, PTL DEF Spec

-----------------------------------------------------------------------------
(* Reservations: what is picked, made or doomed is as it was found.         *)

\* Whoever creates stock, rotates it or has picked from it holds the pool's row,
\* so at most one process does.
LEMMA OneTakes ==
  ASSUME TypeOK, Shape, NEW v \in Workers, NEW w \in Workers, v # w, req[w].locks
  PROVE  /\ req[v].mine = {} /\ req[v].picked = {}
         /\ req[v].pc \in Creating => req[v].doomed = {} /\ ~dynamic
         /\ req[v].pc # "fill"
  <1>1. ~req[v].locks /\ WorkSound(req[v])
    BY DEF Shape
  <1> QED
    BY <1>1 DEF WorkSound, Creating

LEMMA SameEntries ==
  ASSUME TypeOK, Shape, StockInv, NEW w \in Workers, NEW q, WorkerMoves(w, q),
         UNCHANGED entry, EntriesFit(q),
         \A v \in Workers : v # w =>
            /\ q.pc = "removed" => q.doomed \cap req[v].picked = {}
            /\ req[v].pc = "removed" => req[v].doomed \cap q.picked = {},
         q.pc = "removed" => q.picked = {}
  PROVE  StockInv'
  <1>1. req'[w] = q /\ \A v \in Workers : v # w => req'[v] = req[v]
    BY MovesKeepShape
  <1>2. \A v \in Workers : EntriesFit(req[v])'
    BY <1>1 DEF StockInv, EntriesFit, Available, InState
  <1>3. \A u, v \in Workers : req'[u].pc = "removed" => req'[u].doomed \cap req'[v].picked = {}
    BY <1>1 DEF StockInv
  <1> QED
    BY <1>2, <1>3 DEF StockInv

\* The stock changes under the others in ways they do not notice.
LEMMA OtherEntries ==
  ASSUME TypeOK, Shape, StockInv, NEW w \in Workers, NEW q, WorkerMoves(w, q),
         q.mine = {}, q.doomed = {}, q.picked = {},
         entry' \in [Entries -> {"unborn", "available", "reserved", "deleted"}],
         \A e \in Entries : entry'[e] = "unborn" => entry[e] = "unborn",
         \A v \in Workers : v # w =>
            /\ \A e \in req[v].mine : entry'[e] = "unborn"
            /\ \A e \in req[v].picked : entry'[e] = entry[e]
            /\ req[v].pc \in Creating =>
                  \A e \in req[v].doomed : entry'[e] # "reserved"
  PROVE  StockInv'
  <1>1. req'[w] = q /\ \A v \in Workers : v # w => req'[v] = req[v]
    BY MovesKeepShape
  <1>2. ASSUME NEW v \in Workers PROVE EntriesFit(req[v])'
    <2>1. CASE v = w
      BY <1>1, <2>1 DEF EntriesFit
    <2>2. CASE v # w
      <3>1. req'[v] = req[v] /\ EntriesFit(req[v]) /\ req[v] \in Work
        BY <1>1, <2>2 DEF StockInv, TypeOK
      <3>2. req[v].mine \subseteq InState("unborn")'
        BY <2>2, <3>1 DEF Work, InState
      <3>3. req[v].picked \subseteq Available' \cup req[v].mine
        BY <2>2, <3>1 DEF EntriesFit, Work, Available, InState
      <3>4. req[v].doomed \cap InState("unborn")' = {}
        BY <3>1 DEF EntriesFit, Work, InState
      <3>5. req[v].pc \in Creating => req[v].doomed \cap InState("reserved")' = {}
        BY <2>2, <3>1 DEF EntriesFit, Work, InState
      <3> QED
        BY <3>1, <3>2, <3>3, <3>4, <3>5 DEF EntriesFit
    <2> QED
      BY <2>1, <2>2
  <1>3. \A u, v \in Workers : req'[u].pc = "removed" => req'[u].doomed \cap req'[v].picked = {}
    BY <1>1 DEF StockInv
  <1> QED
    BY <1>2, <1>3 DEF StockInv

LEMMA StockKept ==
  ASSUME TypeOK, TypeOK', Shape, StockInv, NEW w \in Workers, NEW q \in Work,
         WorkerMoves(w, q), Quiet(w, q) \/ Carries(w, q)
  PROVE  StockInv'
  <1>1. /\ req[w] \in Work /\ WorkSound(req[w]) /\ EntriesFit(req[w])
        /\ WorkSound(q)
        /\ \A v \in Workers : req[v] \in Work /\ WorkSound(req[v]) /\ EntriesFit(req[v])
        /\ entry' \in [Entries -> {"unborn", "available", "reserved", "deleted"}]
        /\ entry \in [Entries -> {"unborn", "available", "reserved", "deleted"}]
    BY DEF TypeOK, Shape, StockInv, WorkerMoves
  <1>2. \A v \in Workers : req[v].pc = "removed" => req[v].doomed \cap req[w].picked = {}
    BY DEF StockInv
  <1>3. ASSUME UNCHANGED entry, q.mine = {}, q.picked = {},
               q.doomed \cap InState("unborn") = {},
               q.pc \in Creating => q.doomed \cap InState("reserved") = {},
               q.pc # "removed"
        PROVE  StockInv'
    <2>1. EntriesFit(q)
      BY <1>3 DEF EntriesFit
    <2> QED
      BY <1>3, <2>1, SameEntries
  <1>4. CASE Quiet(w, q)
    BY <1>3, <1>4 DEF Quiet, Carefree
  <1>5. CASE Begins(w, q)
    <2>1. /\ q.doomed \cap InState("unborn") = {} /\ q.doomed \cap InState("reserved") = {}
          /\ q.pc # "removed"
      BY <1>5 DEF Begins, Available, InState
    <2> QED
      BY <1>3, <1>5, <2>1 DEF Begins
  <1>6. CASE StocksUp(w, q)
    <2>1. q.mine \subseteq InState("unborn")
      BY <1>6 DEF StocksUp, Oldest
    <2>2. EntriesFit(q)
      BY <1>1, <1>6, <2>1 DEF StocksUp, EntriesFit, Creating
    <2> QED
      BY <1>6, <2>2, SameEntries DEF StocksUp
  <1>7. ASSUME q.picked \subseteq Seen(w), NEW v \in Workers, v # w, req[v].pc = "removed"
        PROVE  req[v].doomed \cap q.picked = {}
    <2>1. req[v].doomed \subseteq HeldByOthers(w)
      BY <1>7 DEF HeldByOthers, Held
    <2>2. req[v].doomed \cap req[w].mine = {}
      BY <1>1, <1>7 DEF EntriesFit
    <2> QED
      BY <1>7, <2>1, <2>2 DEF Seen
  <1>8. CASE Picks(w, q)
    <2>1. q.picked \subseteq Available \cup q.mine /\ q.picked \cap q.doomed = {}
      BY <1>1, <1>8 DEF Picks, Seen, EntriesFit
    <2>2. EntriesFit(q)
      BY <1>1, <1>8, <2>1 DEF Picks, EntriesFit, Creating
    <2> QED
      BY <1>7, <1>8, <2>2, SameEntries DEF Picks
  <1>9. ASSUME NEW row \in [status : Statuses, count : Nat], Commits(w, q, row)
        PROVE  StockInv'
    <2>1. \A e \in Entries :
             entry'[e] = IF e \in req[w].doomed THEN "deleted"
                         ELSE IF e \in req[w].picked THEN "reserved"
                         ELSE IF e \in req[w].mine THEN "available" ELSE entry[e]
      BY <1>9 DEF Commits
    <2>2. q.mine = {} /\ q.doomed = {} /\ q.picked = {}
      BY <1>9 DEF Commits, Carefree
    <2>3. \A e \in Entries : entry'[e] = "unborn" => entry[e] = "unborn"
      BY <2>1
    <2>4. req[w].pc = "commit"
      BY <1>9 DEF Commits
    <2>5. ASSUME NEW v \in Workers, v # w
          PROVE  /\ \A e \in req[v].mine : entry'[e] = "unborn"
                 /\ \A e \in req[v].picked : entry'[e] = entry[e]
                 /\ req[v].pc \in Creating =>
                       \A e \in req[v].doomed : entry'[e] # "reserved"
      <3>1. CASE req[w].locks
        <4>1. req[v].mine = {} /\ req[v].picked = {}
              /\ (req[v].pc \in Creating => req[v].doomed = {})
          BY <2>5, <3>1, OneTakes
        <4> QED
          BY <4>1
      <3>2. CASE ~req[w].locks
        <4>1. req[w].doomed = {} /\ req[w].picked = {} /\ req[w].mine = {}
          BY <1>1, <2>4, <3>2 DEF WorkSound, Creating
        <4>2. \A e \in Entries : entry'[e] = entry[e]
          BY <2>1, <4>1
        <4>3. req[v] \in Work /\ EntriesFit(req[v])
          BY <1>1
        <4> QED
          BY <4>2, <4>3 DEF EntriesFit, InState, Work
      <3> QED
        BY <3>1, <3>2
    <2> QED
      BY <1>1, <2>2, <2>3, <2>5, OtherEntries
  <1>10. CASE LooksForRemoval(w, q)
    <2>1. q.doomed \cap InState("unborn") = {} /\ q.pc \notin Creating /\ q.pc # "removed"
      BY <1>10 DEF LooksForRemoval, Available, InState, Creating
    <2> QED
      BY <1>3, <1>10, <2>1 DEF LooksForRemoval
  <1>11. CASE RemovesEntries(w, q)
    <2>1. EntriesFit(q)
      BY <1>1, <1>11 DEF RemovesEntries, EntriesFit, Creating
    <2>2. ASSUME NEW v \in Workers, v # w
          PROVE  q.doomed \cap req[v].picked = {}
      <3>1. CASE req[v].picked = {}
        BY <3>1
      <3>2. CASE req[v].picked # {}
        <4>1. req[v].pc \in {"commit", "issue"}
          BY <1>1, <3>2 DEF WorkSound
        <4>2. req[v].picked \subseteq Held(v)
          BY <4>1 DEF Held
        <4>3. req[v].picked \subseteq HeldByOthers(w)
          BY <2>2, <4>2 DEF HeldByOthers
        <4> QED
          BY <1>11, <4>3 DEF RemovesEntries
      <3> QED
        BY <3>1, <3>2
    <2> QED
      BY <1>11, <2>1, <2>2, SameEntries DEF RemovesEntries
  <1>12. CASE CommitsRemoval(w, q)
    <2>1. \A e \in Entries : entry'[e] = IF e \in req[w].doomed THEN "deleted" ELSE entry[e]
      BY <1>12 DEF CommitsRemoval
    <2>2. q.mine = {} /\ q.doomed = {} /\ q.picked = {} /\ req[w].pc = "removed"
      BY <1>12 DEF CommitsRemoval, Carefree
    <2>3. \A e \in Entries : entry'[e] = "unborn" => entry[e] = "unborn"
      BY <2>1
    <2>4. ASSUME NEW v \in Workers, v # w
          PROVE  /\ \A e \in req[v].mine : entry'[e] = "unborn"
                 /\ \A e \in req[v].picked : entry'[e] = entry[e]
                 /\ req[v].pc \in Creating =>
                       \A e \in req[v].doomed : entry'[e] # "reserved"
      <3>1. req[v] \in Work /\ EntriesFit(req[v]) /\ EntriesFit(req[w])
        BY <1>1
      <3>2. req[w].doomed \cap req[v].picked = {}
        BY <2>2 DEF StockInv
      <3> QED
        BY <2>1, <3>1, <3>2 DEF EntriesFit, InState, Work
    <2> QED
      BY <1>1, <2>2, <2>3, <2>4, OtherEntries
  <1>13. CASE Fills(w, q)
    <2>1. \A e \in Entries :
             entry'[e] = IF e \in Oldest(InState("unborn"), Shortage) THEN "available"
                         ELSE entry[e]
      BY <1>13 DEF Fills
    <2>2. q.mine = {} /\ q.doomed = {} /\ q.picked = {} /\ req[w].pc = "fill"
      BY <1>13 DEF Fills, Carefree
    <2>3. \A e \in Entries : entry'[e] = "unborn" => entry[e] = "unborn"
      BY <2>1
    <2>4. ASSUME NEW v \in Workers, v # w
          PROVE  /\ \A e \in req[v].mine : entry'[e] = "unborn"
                 /\ \A e \in req[v].picked : entry'[e] = entry[e]
                 /\ req[v].pc \in Creating =>
                       \A e \in req[v].doomed : entry'[e] # "reserved"
      <3>1. req[w].locks
        BY <1>1, <2>2 DEF WorkSound
      <3>2. req[v].mine = {} /\ req[v].picked = {}
            /\ (req[v].pc \in Creating => req[v].doomed = {})
        BY <2>4, <3>1, OneTakes
      <3> QED
        BY <3>2
    <2> QED
      BY <1>1, <2>2, <2>3, <2>4, OtherEntries
  <1>14. CASE Lists(w, q) \/ CountsIssued(w, q) \/ Updates(w, q)
    <2>1. UNCHANGED entry /\ q.mine = {} /\ q.picked = {} /\ q.doomed = {} /\ q.pc # "removed"
      BY <1>14 DEF Lists, CountsIssued, Updates
    <2> QED
      BY <1>3, <2>1
  <1>15. CASE Reserves(w, q)
    <2>1. req[w].mine = {}
      BY <1>1, <1>15 DEF Reserves, WorkSound
    <2>2. EntriesFit(q)
      BY <1>15, <2>1 DEF Reserves, EntriesFit, Seen, Creating
    <2> QED
      BY <1>7, <1>15, <2>2, SameEntries DEF Reserves
  <1>16. CASE Issues(w, q)
    <2>1. \A e \in Entries : entry'[e] = IF e \in req[w].picked THEN "reserved" ELSE entry[e]
      BY <1>16 DEF Issues
    <2>2. q.mine = {} /\ q.doomed = {} /\ q.picked = {} /\ req[w].pc = "issue"
      BY <1>16 DEF Issues
    <2>3. \A e \in Entries : entry'[e] = "unborn" => entry[e] = "unborn"
      BY <2>1
    <2>4. ASSUME NEW v \in Workers, v # w
          PROVE  /\ \A e \in req[v].mine : entry'[e] = "unborn"
                 /\ \A e \in req[v].picked : entry'[e] = entry[e]
                 /\ req[v].pc \in Creating =>
                       \A e \in req[v].doomed : entry'[e] # "reserved"
      <3>1. CASE req[w].picked # {}
        <4>1. req[w].locks
          BY <1>1, <3>1 DEF WorkSound
        <4>2. req[v].mine = {} /\ req[v].picked = {}
              /\ (req[v].pc \in Creating => req[v].doomed = {})
          BY <2>4, <4>1, OneTakes
        <4> QED
          BY <4>2
      <3>2. CASE req[w].picked = {}
        <4>1. req[v] \in Work /\ EntriesFit(req[v])
          BY <1>1
        <4> QED
          BY <2>1, <3>2, <4>1 DEF EntriesFit, InState, Work
      <3> QED
        BY <3>1, <3>2
    <2> QED
      BY <1>1, <2>2, <2>3, <2>4, OtherEntries
  <1>17. CASE FailsJobs(w, q)
    BY <1>3, <1>17 DEF FailsJobs, Carefree
  <1> QED
    BY <1>4, <1>5, <1>6, <1>8, <1>9, <1>10, <1>11, <1>12, <1>13, <1>14, <1>15, <1>16,
       <1>17 DEF Carries

LEMMA StockRests ==
  ASSUME StockInv, Rests
  PROVE  StockInv'
  BY DEF StockInv, Rests, EntriesFit, Available, InState

\* What a request for fresh stock deletes was not reserved after it looked.
LEMMA CommitKeepsReserved ==
  ASSUME TypeOK, StockInv, NEW w \in Workers, Commit(w),
         NEW e \in Entries, entry[e] = "reserved"
  PROVE  entry'[e] = "reserved"
  <1>1. EntriesFit(req[w]) /\ req[w].pc \in Creating
    BY DEF StockInv, Commit, Creating
  <1>2. e \notin req[w].doomed /\ e \notin req[w].mine
    BY <1>1 DEF EntriesFit, InState
  <1> QED
    BY <1>2 DEF Commit

\* A request for fresh stock never deletes what was reserved after it looked,
\* whatever the number of processes.
THEOREM RotationKeeps == Spec => RotationKeepsReserved
  <1> DEFINE Inv == TypeOK /\ Shape /\ StockInv
  <1>1. Init => Inv
    <2> SUFFICES ASSUME Init PROVE StockInv
      BY PoolInit
    <2>1. \A w \in Workers : req[w] = Idle
      BY DEF Init
    <2> QED
      BY <2>1, IdleIsSound DEF StockInv, EntriesFit, Creating
  <1>2. Inv /\ [Next]_vars => Inv'
    <2> SUFFICES ASSUME Inv, [Next]_vars PROVE Inv'
      OBVIOUS
    <2>1. TypeOK' /\ Shape'
      BY StepMoves
    <2>2. CASE Rests
      BY <2>1, <2>2, StockRests
    <2>3. CASE \E w \in Workers, q \in Work :
                 WorkerMoves(w, q) /\ (Quiet(w, q) \/ Carries(w, q))
      BY <2>1, <2>3, StockKept
    <2> QED
      BY <2>2, <2>3, StepMoves
  <1>3. Inv => \A w \in Workers : Commit(w) =>
                 \A e \in Entries : entry[e] = "reserved" => entry'[e] = "reserved"
    BY CommitKeepsReserved
  <1>4. Inv /\ [Next]_vars => [\A w \in Workers : Commit(w) =>
                 \A e \in Entries : entry[e] = "reserved" => entry'[e] = "reserved"]_vars
    BY <1>3
  <1> QED
    BY <1>1, <1>2, <1>4, PTL DEF Spec, RotationKeepsReserved

-----------------------------------------------------------------------------
(* Jobs: every proxy goes to one request, and a job says what was issued.   *)

LEMMA JobsMove ==
  ASSUME TypeOK, TypeOK', Shape, JobInv, NEW w \in Workers, NEW q, WorkerMoves(w, q),
         \A j \in Jobs :
            /\ issued[j] \subseteq issued'[j]
            /\ job[j].status # "absent" => job'[j].status # "absent"
            /\ job'[j].status = "absent" => issued'[j] = issued[j]
            /\ job[j].status = "absent" /\ job'[j].status # "absent" =>
                  \A v \in Workers : v # w /\ req[v].pc \in Creating => req[v].job # j,
         JobsFit(q)',
         q.pc \in Creating =>
            \A v \in Workers : v # w /\ req[v].pc \in Creating => req[v].job # q.job
  PROVE  JobInv'
  <1>1. req'[w] = q /\ \A v \in Workers : v # w => req'[v] = req[v]
    BY MovesKeepShape
  <1>2. ASSUME NEW v \in Workers, v # w PROVE JobsFit(req[v])'
    <2>1. req'[v] = req[v] /\ req[v] \in Work /\ JobsFit(req[v])
      BY <1>1, <1>2 DEF TypeOK, JobInv
    <2>2. req[v].pc \in Creating \cup Serving => req[v].job \in Jobs
      BY <2>1 DEF Shape, WorkSound, Work
    <2>3. req[v].pc \in Creating => job'[req[v].job].status = "absent"
      BY <1>2, <2>1, <2>2 DEF JobsFit
    <2>4. req[v].pc \in Serving => job'[req[v].job].status # "absent"
      BY <2>1, <2>2 DEF JobsFit
    <2>5. \A j \in req[v].todo : job'[j].status # "absent"
      BY <2>1 DEF JobsFit, Work
    <2>6. req[v].pc = "update" => req[v].count <= Cardinality(issued'[req[v].job])
      <3> SUFFICES ASSUME req[v].pc = "update"
                   PROVE  req[v].count <= Cardinality(issued'[req[v].job])
        OBVIOUS
      <3>1. PICK k \in Jobs : k = req[v].job
        BY <2>2 DEF Serving
      <3>2. req[v].count \in Nat /\ req[v].count <= Cardinality(issued[k])
        BY <2>1, <3>1 DEF JobsFit, Work
      <3>3. issued[k] \in SUBSET Entries /\ issued'[k] \in SUBSET Entries
            /\ issued[k] \subseteq issued'[k]
        BY DEF TypeOK
      <3>4. /\ Cardinality(issued[k]) \in Nat /\ Cardinality(issued'[k]) \in Nat
            /\ Cardinality(issued[k]) <= Cardinality(issued'[k])
        BY <3>3, EntriesFinite
      <3> QED
        BY <3>1, <3>2, <3>4
    <2> QED
      BY <2>1, <2>3, <2>4, <2>5, <2>6 DEF JobsFit
  <1>3. \A v \in Workers : JobsFit(req[v])'
    <2>1. JobsFit(req[w])'
      BY <1>1 DEF JobsFit
    <2> QED
      BY <1>2, <2>1
  <1>4. \A u, v \in Workers :
           u # v /\ req'[u].pc \in Creating /\ req'[v].pc \in Creating =>
               req'[u].job # req'[v].job
    BY <1>1 DEF JobInv
  <1>5. \A j \in Jobs : job'[j].status = "absent" => issued'[j] = {}
    BY DEF JobInv
  <1> QED
    BY <1>3, <1>4, <1>5 DEF JobInv

LEMMA SameJobs ==
  ASSUME TypeOK, TypeOK', Shape, JobInv, NEW w \in Workers, NEW q, WorkerMoves(w, q),
         UNCHANGED <<issued, job>>, JobsFit(q),
         q.pc \in Creating =>
            \A v \in Workers : v # w /\ req[v].pc \in Creating => req[v].job # q.job
  PROVE  JobInv'
  <1>1. JobsFit(q)'
    BY DEF JobsFit
  <1> QED
    BY <1>1, JobsMove

LEMMA JobsKept ==
  ASSUME TypeOK, TypeOK', Shape, JobInv, NEW w \in Workers, NEW q \in Work,
         WorkerMoves(w, q), Quiet(w, q) \/ Carries(w, q)
  PROVE  JobInv'
  <1>1. /\ req[w] \in Work /\ WorkSound(req[w]) /\ JobsFit(req[w])
        /\ req[w].pc \in Creating \cup Serving => req[w].job \in Jobs
    BY DEF TypeOK, Shape, JobInv, WorkSound, Work
  <1>2. ASSUME q.todo = {}, q.pc \notin Creating \cup Serving, UNCHANGED <<issued, job>>
        PROVE  JobInv'
    <2>1. JobsFit(q)
      BY <1>2 DEF JobsFit, Serving
    <2> QED
      BY <1>2, <2>1, SameJobs
  <1>3. CASE Quiet(w, q)
    BY <1>2, <1>3 DEF Quiet, Carefree
  <1>4. CASE Begins(w, q)
    <2>1. q.job \in Jobs /\ job[q.job].status = "absent"
          /\ \A v \in Workers : req[v].job # q.job
      BY <1>4 DEF Begins, NextJob
    <2>2. JobsFit(q)
      BY <1>4, <2>1 DEF Begins, JobsFit, Serving
    <2> QED
      BY <1>4, <2>1, <2>2, SameJobs DEF Begins
  <1>5. CASE StocksUp(w, q) \/ Picks(w, q)
    <2>1. /\ req[w].pc \in Creating /\ q.pc \in {"pick", "commit"} /\ q.job = req[w].job
          /\ q.todo = {} /\ UNCHANGED <<issued, job>>
      BY <1>5 DEF StocksUp, Picks, Creating
    <2>2. JobsFit(q)
      BY <1>1, <2>1 DEF JobsFit, Serving
    <2>3. \A v \in Workers : v # w /\ req[v].pc \in Creating => req[v].job # q.job
      BY <2>1 DEF JobInv
    <2> QED
      BY <2>1, <2>2, <2>3, SameJobs
  <1>6. ASSUME NEW row \in [status : Statuses, count : Nat], Commits(w, q, row)
        PROVE  JobInv'
    <2>1. PICK k \in Jobs : k = req[w].job
      BY <1>1, <1>6 DEF Commits, Creating
    <2>2. /\ issued' = [issued EXCEPT ![k] = req[w].picked]
          /\ job' = [job EXCEPT ![k] = row] /\ row.status # "absent"
          /\ Carefree(q) /\ req[w].pc = "commit"
      BY <1>6, <2>1 DEF Commits
    <2>3. issued[k] = {} /\ job[k].status = "absent"
      BY <1>1, <2>1, <2>2 DEF JobInv, JobsFit, Creating
    <2>4. /\ issued'[k] = req[w].picked /\ job'[k] = row
          /\ \A j \in Jobs : j # k => issued'[j] = issued[j] /\ job'[j] = job[j]
      BY <2>2 DEF TypeOK
    <2>5. \A v \in Workers : v # w /\ req[v].pc \in Creating => req[v].job # k
      BY <2>1, <2>2 DEF JobInv, Creating
    <2>6. q.todo = {} /\ q.pc \notin Creating \cup Serving
      BY <2>2 DEF Carefree
    <2>7. JobsFit(q)'
      BY <2>6 DEF JobsFit, Serving
    <2>8. \A j \in Jobs :
            /\ issued[j] \subseteq issued'[j]
            /\ job[j].status # "absent" => job'[j].status # "absent"
            /\ job'[j].status = "absent" => issued'[j] = issued[j]
            /\ job[j].status = "absent" /\ job'[j].status # "absent" =>
                  \A v \in Workers : v # w /\ req[v].pc \in Creating => req[v].job # j
      BY <2>2, <2>3, <2>4, <2>5
    <2> QED
      BY <2>6, <2>7, <2>8, JobsMove
  <1>7. CASE LooksForRemoval(w, q) \/ RemovesEntries(w, q)
    <2>1. q.todo = {} /\ q.pc \in {"remove", "removed"} /\ UNCHANGED <<issued, job>>
      BY <1>7 DEF LooksForRemoval, RemovesEntries
    <2> QED
      BY <1>2, <2>1 DEF Creating, Serving
  <1>8. CASE CommitsRemoval(w, q) \/ Fills(w, q)
    BY <1>2, <1>8 DEF CommitsRemoval, Fills, Carefree
  <1>9. CASE Lists(w, q)
    <2>1. JobsFit(q)
      BY <1>9 DEF Lists, JobsFit, Waiting, Creating, Serving
    <2> QED
      BY <1>9, <2>1, SameJobs DEF Lists, Creating
  <1>10. CASE CountsIssued(w, q)
    <2>1. JobsFit(q)
      BY <1>1, <1>10 DEF CountsIssued, JobsFit, Creating
    <2> QED
      BY <1>10, <2>1, SameJobs DEF CountsIssued, Creating
  <1>11. CASE Reserves(w, q)
    <2>1. JobsFit(q)
      BY <1>1, <1>11 DEF Reserves, JobsFit, Creating, Serving
    <2> QED
      BY <1>11, <2>1, SameJobs DEF Reserves, Creating
  <1>12. CASE Issues(w, q)
    <2>1. PICK k \in Jobs : k = req[w].job
      BY <1>1, <1>12 DEF Issues, Serving
    <2>2. /\ issued'[k] = issued[k] \cup req[w].picked
          /\ \A j \in Jobs : j # k => issued'[j] = issued[j]
          /\ UNCHANGED job /\ job[k].status # "absent"
      BY <1>1, <1>12, <2>1 DEF Issues, TypeOK, JobsFit, Serving
    <2>3. /\ q.pc = "update" /\ q.job = k /\ q.todo = req[w].todo
          /\ q.count = Cardinality(issued'[k]) /\ q.count \in Nat
      BY <1>12, <2>1, <2>2 DEF Issues, Work
    <2>4. JobsFit(q)'
      <3>1. q.count <= Cardinality(issued'[q.job])
        BY <2>3
      <3>2. \A j \in q.todo : job'[j].status # "absent"
        BY <1>1, <2>2, <2>3 DEF JobsFit
      <3>3. job'[q.job].status # "absent" /\ q.pc \notin Creating
        BY <2>2, <2>3 DEF Creating
      <3> QED
        BY <3>1, <3>2, <3>3 DEF JobsFit
    <2> QED
      BY <2>2, <2>3, <2>4, JobsMove DEF Creating
  <1>13. CASE Updates(w, q)
    <2>1. PICK k \in Jobs : k = req[w].job
      BY <1>1, <1>13 DEF Updates, Serving
    <2>2. req[w].count \in Nat /\ job[k].status # "absent" /\ UNCHANGED issued
      BY <1>1, <1>13, <2>1 DEF Updates, JobsFit, Serving, Work
    <2>3. /\ job'[k].status # "absent"
          /\ \A j \in Jobs : j # k => job'[j] = job[j]
      BY <1>13, <2>1, <2>2, JobRowFacts DEF Updates, TypeOK
    <2>4. q.pc = "jobs" /\ \A j \in q.todo : job'[j].status # "absent"
      BY <1>1, <1>13, <2>3 DEF Updates, JobsFit, Work
    <2>5. JobsFit(q)'
      BY <2>4 DEF JobsFit, Creating, Serving
    <2> QED
      BY <2>2, <2>3, <2>4, <2>5, JobsMove DEF Creating
  <1>14. CASE FailsJobs(w, q)
    <2>1. \A j \in Jobs : job'[j].status = "absent" <=> job[j].status = "absent"
      BY <1>14 DEF FailsJobs, Waiting, TypeOK
    <2>2. q.todo = {} /\ q.pc \notin Creating \cup Serving /\ UNCHANGED issued
      BY <1>14 DEF FailsJobs, Carefree
    <2>3. JobsFit(q)'
      BY <2>2 DEF JobsFit, Serving
    <2> QED
      BY <2>1, <2>2, <2>3, JobsMove
  <1> QED
    BY <1>3, <1>4, <1>5, <1>6, <1>7, <1>8, <1>9, <1>10, <1>11, <1>12, <1>13, <1>14
    DEF Carries

LEMMA OnceKept ==
  ASSUME TypeOK, TypeOK', IssuedOnce, NEW k \in Jobs, NEW P \in SUBSET Entries,
         issued' = [issued EXCEPT ![k] = issued[k] \cup P],
         \A e \in P : entry[e] \in {"unborn", "available"} /\ entry'[e] = "reserved",
         \A e \in Entries \ P :
            /\ entry'[e] \in {"unborn", "available"} => entry[e] \in {"unborn", "available"}
            /\ entry'[e] = "reserved" => entry[e] = "reserved"
  PROVE  IssuedOnce'
  <1>1. /\ issued'[k] = issued[k] \cup P
        /\ \A j \in Jobs : j # k => issued'[j] = issued[j]
    BY DEF TypeOK
  <1>2. \A j \in Jobs : P \cap issued[j] = {}
    BY DEF IssuedOnce
  <1>3. ASSUME NEW i \in Jobs, NEW j \in Jobs, i # j
        PROVE  issued'[i] \cap issued'[j] = {}
    BY <1>1, <1>2, <1>3 DEF IssuedOnce
  <1>4. ASSUME NEW e \in Entries, entry'[e] \in {"unborn", "available"}
        PROVE  \A j \in Jobs : e \notin issued'[j]
    BY <1>1, <1>4 DEF IssuedOnce
  <1>5. ASSUME NEW e \in Entries, entry'[e] = "reserved"
        PROVE  \E j \in Jobs : e \in issued'[j]
    <2>1. CASE e \in P
      BY <1>1, <2>1
    <2>2. CASE e \notin P
      <3>1. PICK j \in Jobs : e \in issued[j]
        BY <1>5, <2>2 DEF IssuedOnce
      <3> QED
        BY <1>1, <3>1
    <2> QED
      BY <2>1, <2>2
  <1> QED
    BY <1>3, <1>4, <1>5 DEF IssuedOnce

LEMMA SameIssued ==
  ASSUME TypeOK, TypeOK', IssuedOnce, UNCHANGED issued,
         \A e \in Entries :
            /\ entry'[e] \in {"unborn", "available"} => entry[e] \in {"unborn", "available"}
            /\ entry'[e] = "reserved" => entry[e] = "reserved"
  PROVE  IssuedOnce'
  BY DEF IssuedOnce

LEMMA IssuedOnceKept ==
  ASSUME TypeOK, TypeOK', Shape, StockInv, JobInv, IssuedOnce,
         NEW w \in Workers, NEW q \in Work,
         WorkerMoves(w, q), Quiet(w, q) \/ Carries(w, q)
  PROVE  IssuedOnce'
  <1>1. /\ req[w] \in Work /\ WorkSound(req[w]) /\ EntriesFit(req[w]) /\ JobsFit(req[w])
        /\ req[w].pc \in Creating \cup Serving => req[w].job \in Jobs
    BY DEF TypeOK, Shape, StockInv, JobInv, WorkSound, Work
  <1>2. /\ req[w].mine \in SUBSET Entries /\ req[w].picked \in SUBSET Entries
        /\ req[w].doomed \in SUBSET Entries
        /\ \A e \in req[w].mine : entry[e] = "unborn"
        /\ \A e \in req[w].picked : entry[e] = "available" \/ e \in req[w].mine
        /\ req[w].picked \cap req[w].doomed = {}
    BY <1>1 DEF EntriesFit, Work, Available, InState
  <1>3. CASE UNCHANGED <<entry, issued>>
    BY <1>3, SameIssued
  <1>4. ASSUME NEW row \in [status : Statuses, count : Nat], Commits(w, q, row)
        PROVE  IssuedOnce'
    <2>1. PICK k \in Jobs : k = req[w].job
      BY <1>1, <1>4 DEF Commits, Creating
    <2>2. issued[k] = {}
      BY <1>1, <1>4, <2>1 DEF Commits, JobInv, JobsFit, Creating
    <2>3. issued' = [issued EXCEPT ![k] = issued[k] \cup req[w].picked]
      BY <1>4, <2>1, <2>2 DEF Commits
    <2>4. \A e \in Entries :
             entry'[e] = IF e \in req[w].doomed THEN "deleted"
                         ELSE IF e \in req[w].picked THEN "reserved"
                         ELSE IF e \in req[w].mine THEN "available" ELSE entry[e]
      BY <1>4 DEF Commits
    <2>5. \A e \in req[w].picked :
             entry[e] \in {"unborn", "available"} /\ entry'[e] = "reserved"
      BY <1>2, <2>4
    <2>6. \A e \in Entries \ req[w].picked :
            /\ entry'[e] \in {"unborn", "available"} => entry[e] \in {"unborn", "available"}
            /\ entry'[e] = "reserved" => entry[e] = "reserved"
      BY <1>2, <2>4
    <2> QED
      BY <1>2, <2>3, <2>5, <2>6, OnceKept
  <1>5. CASE CommitsRemoval(w, q)
    BY <1>5, SameIssued DEF CommitsRemoval
  <1>6. CASE Fills(w, q)
    <2>1. \A e \in Oldest(InState("unborn"), Shortage) : entry[e] = "unborn"
      BY DEF Oldest, InState
    <2> QED
      BY <1>6, <2>1, SameIssued DEF Fills
  <1>7. CASE Issues(w, q)
    <2>1. PICK k \in Jobs : k = req[w].job
      BY <1>1, <1>7 DEF Issues, Serving
    <2>2. req[w].mine = {}
      BY <1>1, <1>7 DEF Issues, WorkSound
    <2>3. /\ issued' = [issued EXCEPT ![k] = issued[k] \cup req[w].picked]
          /\ \A e \in Entries : entry'[e] = IF e \in req[w].picked THEN "reserved" ELSE entry[e]
      BY <1>7, <2>1 DEF Issues
    <2>4. \A e \in req[w].picked :
             entry[e] \in {"unborn", "available"} /\ entry'[e] = "reserved"
      BY <1>2, <2>2, <2>3
    <2>5. \A e \in Entries \ req[w].picked :
            /\ entry'[e] \in {"unborn", "available"} => entry[e] \in {"unborn", "available"}
            /\ entry'[e] = "reserved" => entry[e] = "reserved"
      BY <2>3
    <2> QED
      BY <1>2, <2>3, <2>4, <2>5, OnceKept
  <1>8. \/ UNCHANGED <<entry, issued>>
        \/ \E row \in [status : Statuses, count : Nat] : Commits(w, q, row)
        \/ CommitsRemoval(w, q) \/ Fills(w, q) \/ Issues(w, q)
    BY DEF Quiet, Carries, Begins, StocksUp, Picks, LooksForRemoval, RemovesEntries,
           Lists, CountsIssued, Reserves, Updates, FailsJobs
  <1> QED
    BY <1>3, <1>4, <1>5, <1>6, <1>7, <1>8

LEMMA ReadyMoves ==
  ASSUME TypeOK, TypeOK', ReadyMeansIssued,
         \A j \in Jobs :
            \/ /\ issued[j] \subseteq issued'[j]
               /\ job'[j].status = "ready" => job[j].status = "ready"
               /\ job'[j].count = job[j].count
            \/ /\ job'[j].status = "ready" => Cardinality(issued'[j]) >= Want
               /\ job'[j].count <= Cardinality(issued'[j])
  PROVE  ReadyMeansIssued'
  <1> SUFFICES ASSUME NEW j \in Jobs
               PROVE  /\ job'[j].status = "ready" => Cardinality(issued'[j]) >= Want
                      /\ job'[j].count <= Cardinality(issued'[j])
    BY DEF ReadyMeansIssued
  <1>1. issued[j] \in SUBSET Entries /\ issued'[j] \in SUBSET Entries
        /\ job[j].count \in Nat /\ Want \in Nat
    BY PoolAssumption DEF TypeOK
  <1>2. Cardinality(issued[j]) \in Nat /\ Cardinality(issued'[j]) \in Nat
    BY <1>1, EntriesFinite
  <1>3. issued[j] \subseteq issued'[j] => Cardinality(issued[j]) <= Cardinality(issued'[j])
    BY <1>1, EntriesFinite
  <1> QED
    BY <1>1, <1>2, <1>3 DEF ReadyMeansIssued

LEMMA ReadyKept ==
  ASSUME TypeOK, TypeOK', Shape, JobInv, ReadyMeansIssued,
         NEW w \in Workers, NEW q \in Work,
         WorkerMoves(w, q), Quiet(w, q) \/ Carries(w, q)
  PROVE  ReadyMeansIssued'
  <1>1. /\ req[w] \in Work /\ WorkSound(req[w]) /\ JobsFit(req[w])
        /\ req[w].pc \in Creating \cup Serving => req[w].job \in Jobs
    BY DEF TypeOK, Shape, JobInv, WorkSound, Work
  <1>2. CASE UNCHANGED <<issued, job>>
    BY <1>2, ReadyMoves
  <1>3. ASSUME NEW row \in [status : Statuses, count : Nat], Commits(w, q, row)
        PROVE  ReadyMeansIssued'
    <2>1. PICK k \in Jobs : k = req[w].job
      BY <1>1, <1>3 DEF Commits, Creating
    <2>2. /\ issued'[k] = req[w].picked /\ job'[k] = row
          /\ \A j \in Jobs : j # k => issued'[j] = issued[j] /\ job'[j] = job[j]
      BY <1>3, <2>1 DEF Commits, TypeOK
    <2>3. /\ row.status = "ready" => Cardinality(req[w].picked) >= Want
          /\ row.count <= Cardinality(req[w].picked)
      <3>1. row.count \in Nat /\ row.count = Cardinality(req[w].picked)
        BY <1>3 DEF Commits
      <3> QED
        BY <1>3, <3>1 DEF Commits
    <2> QED
      BY <2>2, <2>3, ReadyMoves
  <1>4. CASE Issues(w, q)
    <2>1. \A j \in Jobs : issued[j] \subseteq issued'[j] /\ job'[j] = job[j]
      BY <1>1, <1>4 DEF Issues, TypeOK
    <2> QED
      BY <2>1, ReadyMoves
  <1>5. CASE Updates(w, q)
    <2>1. PICK k \in Jobs : k = req[w].job
      BY <1>1, <1>5 DEF Updates, Serving
    <2>2. /\ job'[k] = JobRow(req[w].count) /\ UNCHANGED issued
          /\ \A j \in Jobs : j # k => job'[j] = job[j]
      BY <1>5, <2>1 DEF Updates, TypeOK
    <2>3. req[w].count \in Nat /\ req[w].count <= Cardinality(issued[k])
      BY <1>1, <1>5, <2>1 DEF Updates, JobsFit, Work
    <2>4. Cardinality(issued[k]) \in Nat /\ Want \in Nat
      BY EntriesFinite, PoolAssumption DEF TypeOK
    <2>5. /\ job'[k].status = "ready" => Cardinality(issued'[k]) >= Want
          /\ job'[k].count <= Cardinality(issued'[k])
      <3>1. job'[k].status = "ready" => req[w].count >= Want
        BY <2>2, <2>3, JobRowFacts
      <3>2. job'[k].count = req[w].count
        BY <2>2, <2>3, JobRowFacts
      <3> QED
        BY <2>2, <2>3, <2>4, <3>1, <3>2
    <2> QED
      BY <2>2, <2>5, ReadyMoves
  <1>6. CASE FailsJobs(w, q)
    <2>1. \A j \in Jobs : /\ job'[j].status = "ready" => job[j].status = "ready"
                          /\ job'[j].count = job[j].count
      BY <1>6 DEF FailsJobs, TypeOK
    <2> QED
      BY <1>6, <2>1, ReadyMoves DEF FailsJobs
  <1>7. \/ UNCHANGED <<issued, job>>
        \/ \E row \in [status : Statuses, count : Nat] : Commits(w, q, row)
        \/ Issues(w, q) \/ Updates(w, q) \/ FailsJobs(w, q)
    BY DEF Quiet, Carries, Begins, StocksUp, Picks, LooksForRemoval, RemovesEntries,
           CommitsRemoval, Fills, Lists, CountsIssued, Reserves
  <1> QED
    BY <1>2, <1>3, <1>4, <1>5, <1>6, <1>7

-----------------------------------------------------------------------------
(* The size of the stock.                                                   *)

LEMMA MostFacts ==
  /\ Most \in Nat /\ TargetCount <= Most /\ Want \in Nat /\ TargetCount \in Nat
  /\ dynamic => Want <= Most
  BY PoolAssumption DEF Most

LEMMA StockSizes ==
  ASSUME TypeOK, NEW w \in Workers
  PROVE  /\ Stock(req[w]) \in SUBSET Entries /\ Cardinality(Stock(req[w])) \in Nat
         /\ Available \in SUBSET Entries /\ Cardinality(Available) \in Nat
  <1>1. req[w].mine \in SUBSET Entries /\ Available \in SUBSET Entries
    BY DEF TypeOK, Work, Available, InState
  <1> QED
    BY <1>1, EntriesFinite DEF Stock

\* What a request stores, under the row lock, leaves it with what it wants.
LEMMA StockedUp ==
  ASSUME TypeOK, StockInv, NEW w \in Workers, NEW q \in Work, StocksUp(w, q)
  PROVE  /\ Cardinality(Stock(q)) >= Want
         /\ q.mine # {} => Cardinality(Stock(q)) <= Want
  <1> DEFINE kept == Available \ req[w].doomed
             unborn == InState("unborn")
             n == Needed(w)
  <1>1. /\ q.mine = Oldest(unborn, n) /\ q.doomed = req[w].doomed
        /\ n \in Nat /\ n <= Cardinality(unborn)
    BY DEF StocksUp
  <1>2. /\ kept \in SUBSET Entries /\ unborn \in SUBSET Entries
        /\ IsFiniteSet(kept) /\ Cardinality(kept) \in Nat
    BY EntriesFinite DEF Available, InState
  <1>3. n = AtLeastZero(Want - Cardinality(kept))
    BY DEF Needed
  <1>4. /\ q.mine \in SUBSET Entries /\ q.mine \subseteq unborn
        /\ Cardinality(q.mine) <= n
    BY <1>1, <1>2, OldestAtMost
  <1>5. n <= Cardinality(q.mine)
    BY <1>1, <1>2, OldestAtLeast
  <1>6. /\ IsFiniteSet(q.mine) /\ Cardinality(q.mine) \in Nat
        /\ Cardinality(q.mine) = 0 <=> q.mine = {}
    BY <1>4, EntriesFinite
  <1>7. Cardinality(q.mine) = n
    BY <1>1, <1>4, <1>5, <1>6
  <1>8. kept \cap q.mine = {}
    BY <1>4 DEF Available, InState
  <1>9. Stock(q) = kept \cup q.mine
    BY <1>1 DEF Stock
  <1>10. Cardinality(Stock(q)) = Cardinality(kept) + Cardinality(q.mine)
    BY <1>2, <1>6, <1>8, <1>9, FS_Union, FS_EmptySet
  <1> HIDE DEF kept, unborn, n
  <1>11. Want \in Nat
    BY PoolAssumption
  <1> QED
    BY <1>2, <1>3, <1>6, <1>7, <1>10, <1>11 DEF AtLeastZero

\* A refill generates no more than the pool lacks.
LEMMA FilledUp ==
  ASSUME TypeOK, TypeOK', NEW w \in Workers, NEW q, Fills(w, q), NoOverfill
  PROVE  Cardinality(Available') <= Most
  <1> DEFINE new == Oldest(InState("unborn"), Shortage)
  <1>1. /\ Shortage \in Nat /\ InState("unborn") \in SUBSET Entries
        /\ Available \in SUBSET Entries /\ Cardinality(Available) \in Nat
    BY CountsAreNatural
  <1>2. new \in SUBSET Entries /\ Cardinality(new) <= Shortage
    BY <1>1, OldestAtMost
  <1>3. /\ IsFiniteSet(new) /\ Cardinality(new) \in Nat /\ IsFiniteSet(Available)
        /\ Cardinality(new) = 0 <=> new = {}
    BY <1>1, <1>2, EntriesFinite
  <1>4. Available' = Available \cup new
    BY <1>2 DEF Fills, Available, InState, TypeOK
  <1>5. /\ Cardinality(Available \cup new) =
             Cardinality(Available) + Cardinality(new) - Cardinality(Available \cap new)
        /\ Cardinality(Available \cap new) \in Nat
    BY <1>1, <1>2, <1>3, FS_Union, EntriesFinite
  <1> HIDE DEF new
  <1>6. Shortage = AtLeastZero(TargetCount - Cardinality(Available))
    BY DEF Shortage
  <1>7. Cardinality(Available) <= Most
    BY DEF NoOverfill, Most
  <1>8. CASE new = {}
    BY <1>4, <1>7, <1>8
  <1>9. CASE new # {}
    <2>1. Cardinality(new) <= TargetCount - Cardinality(Available)
      BY <1>1, <1>2, <1>3, <1>6, <1>9, MostFacts DEF AtLeastZero
    <2> QED
      BY <1>1, <1>3, <1>4, <1>5, <2>1, MostFacts
  <1> QED
    BY <1>8, <1>9

\* A step that adds nothing to the stock.
LEMMA NothingAdded ==
  ASSUME TypeOK, TypeOK', Shape, FillInv, NoOverfill, NEW w \in Workers, NEW q,
         WorkerMoves(w, q), Available' \subseteq Available,
         q.mine # {} => q.mine = req[w].mine /\ q.doomed = req[w].doomed
  PROVE  FillInv' /\ NoOverfill'
  <1>1. req'[w] = q /\ \A v \in Workers : v # w => req'[v] = req[v]
    BY MovesKeepShape
  <1>2. Most' = Most
    BY DEF Most, WorkerMoves, config
  <1>3. Available \in SUBSET Entries /\ Available' \in SUBSET Entries
    BY DEF Available, InState
  <1>4. /\ Cardinality(Available) \in Nat /\ Cardinality(Available') \in Nat
        /\ Cardinality(Available') <= Cardinality(Available)
    BY <1>3, EntriesFinite
  <1>5. NoOverfill'
    BY <1>2, <1>4, MostFacts DEF NoOverfill, Most
  <1>6. ASSUME NEW v \in Workers, req'[v].mine # {}
        PROVE  Cardinality(Stock(req[v])') <= Most
    <2>1. req'[v].mine = req[v].mine /\ req'[v].doomed = req[v].doomed
      BY <1>1, <1>6
    <2>2. Stock(req[v])' \in SUBSET Stock(req[v])
      BY <2>1 DEF Stock
    <2>3. /\ Stock(req[v]) \in SUBSET Entries /\ Cardinality(Stock(req[v])) \in Nat
      BY StockSizes
    <2>4. Cardinality(Stock(req[v])) <= Most
      BY <1>6, <2>1 DEF FillInv
    <2>5. /\ Cardinality(Stock(req[v])') \in Nat
          /\ Cardinality(Stock(req[v])') <= Cardinality(Stock(req[v]))
      BY <2>2, <2>3, EntriesFinite
    <2> QED
      BY <2>3, <2>4, <2>5, MostFacts
  <1>7. FillInv'
    BY <1>2, <1>6 DEF FillInv
  <1> QED
    BY <1>5, <1>7

LEMMA FillKept ==
  ASSUME TypeOK, TypeOK', Shape, StockInv, FillInv, NoOverfill,
         NEW w \in Workers, NEW q \in Work,
         WorkerMoves(w, q), Quiet(w, q) \/ Carries(w, q)
  PROVE  FillInv' /\ NoOverfill'
  <1>1. /\ req[w] \in Work /\ WorkSound(req[w]) /\ EntriesFit(req[w])
        /\ req'[w] = q /\ \A v \in Workers : v # w => req'[v] = req[v]
    BY MovesKeepShape DEF TypeOK, Shape, StockInv
  <1>2. Most' = Most
    BY DEF Most, WorkerMoves, config
  <1>3. CASE UNCHANGED entry /\ q.mine = {}
    <2>1. Available' = Available
      BY <1>3 DEF Available, InState
    <2> QED
      BY <1>3, <2>1, NothingAdded
  <1>4. CASE Picks(w, q)
    <2>1. Available' = Available
      BY <1>4 DEF Picks, Available, InState
    <2> QED
      BY <1>4, <2>1, NothingAdded DEF Picks
  <1>5. CASE StocksUp(w, q)
    <2>1. Available' = Available /\ UNCHANGED entry
      BY <1>5 DEF StocksUp, Available, InState
    <2>2. NoOverfill'
      BY <1>2, <2>1 DEF NoOverfill, Most, WorkerMoves, config
    <2>3. ASSUME NEW v \in Workers, req'[v].mine # {}
          PROVE  Cardinality(Stock(req[v])') <= Most
      <3>1. CASE v = w
        <4>1. Stock(req[v])' = Stock(q) /\ q.mine # {}
          BY <1>1, <2>1, <2>3, <3>1 DEF Stock
        <4>2. Cardinality(Stock(q)) <= Want
          BY <1>5, <4>1, StockedUp
        <4>3. dynamic
          BY <1>1, <1>5 DEF StocksUp, WorkSound
        <4>4. Stock(q) \in SUBSET Entries
          BY DEF Stock, Work, Available, InState
        <4> QED
          BY <4>1, <4>2, <4>3, <4>4, EntriesFinite, MostFacts
      <3>2. CASE v # w
        BY <1>1, <2>1, <2>3, <3>2 DEF Stock, FillInv
      <3> QED
        BY <3>1, <3>2
    <2> QED
      BY <1>2, <2>2, <2>3 DEF FillInv
  <1>6. ASSUME NEW row \in [status : Statuses, count : Nat], Commits(w, q, row)
        PROVE  FillInv' /\ NoOverfill'
    <2>1. \A e \in Entries :
             entry'[e] = IF e \in req[w].doomed THEN "deleted"
                         ELSE IF e \in req[w].picked THEN "reserved"
                         ELSE IF e \in req[w].mine THEN "available" ELSE entry[e]
      BY <1>6 DEF Commits
    <2>2. q.mine = {} /\ req[w].pc = "commit"
      BY <1>6 DEF Commits, Carefree
    <2>3. CASE req[w].mine = {}
      <3>1. Available' \subseteq Available
        BY <2>1, <2>3 DEF Available, InState
      <3> QED
        BY <2>2, <3>1, NothingAdded
    <2>4. CASE req[w].mine # {}
      <3>1. Available' \in SUBSET Stock(req[w])
        BY <2>1 DEF Available, InState, Stock
      <3>2. Cardinality(Stock(req[w])) <= Most
        BY <2>4 DEF FillInv
      <3>3. Stock(req[w]) \in SUBSET Entries /\ Cardinality(Stock(req[w])) \in Nat
        BY StockSizes
      <3>4. /\ Cardinality(Available') \in Nat
            /\ Cardinality(Available') <= Cardinality(Stock(req[w]))
        BY <3>1, <3>3, EntriesFinite
      <3>5. Cardinality(Available') <= Most
        BY <3>2, <3>3, <3>4, MostFacts
      <3>6. NoOverfill'
        BY <1>2, <3>5 DEF NoOverfill, Most
      <3>7. req[w].locks
        BY <1>1, <2>2, <2>4 DEF WorkSound, Creating
      <3>8. \A v \in Workers : v # w => req[v].mine = {}
        BY <3>7, OneTakes
      <3>9. \A v \in Workers : req'[v].mine = {}
        BY <1>1, <2>2, <3>8
      <3> QED
        BY <3>6, <3>9 DEF FillInv
    <2> QED
      BY <2>3, <2>4
  <1>7. CASE CommitsRemoval(w, q)
    <2>1. Available' \subseteq Available
      BY <1>7 DEF CommitsRemoval, Available, InState
    <2> QED
      BY <1>7, <2>1, NothingAdded DEF CommitsRemoval, Carefree
  <1>8. CASE Issues(w, q)
    <2>1. Available' \subseteq Available
      BY <1>8 DEF Issues, Available, InState
    <2> QED
      BY <1>8, <2>1, NothingAdded DEF Issues
  <1>9. CASE Fills(w, q)
    <2>1. Cardinality(Available') <= Most
      BY <1>9, FilledUp
    <2>2. NoOverfill'
      BY <1>2, <2>1 DEF NoOverfill, Most
    <2>3. req[w].locks /\ q.mine = {}
      BY <1>1, <1>9 DEF Fills, WorkSound, Carefree
    <2>4. \A v \in Workers : v # w => req[v].mine = {}
      BY <2>3, OneTakes
    <2>5. \A v \in Workers : req'[v].mine = {}
      BY <1>1, <2>3, <2>4
    <2> QED
      BY <2>2, <2>5 DEF FillInv
  <1>10. \/ UNCHANGED entry /\ q.mine = {}
         \/ Picks(w, q) \/ StocksUp(w, q)
         \/ \E row \in [status : Statuses, count : Nat] : Commits(w, q, row)
         \/ CommitsRemoval(w, q) \/ Issues(w, q) \/ Fills(w, q)
    BY DEF Quiet, Carries, Carefree, Begins, LooksForRemoval, RemovesEntries,
           Lists, CountsIssued, Reserves, Updates, FailsJobs
  <1> QED
    BY <1>3, <1>4, <1>5, <1>6, <1>7, <1>8, <1>9, <1>10

-----------------------------------------------------------------------------
(* Where requests stock the pool themselves, none is left waiting.          *)

\* On demand, a process between its count and its commit is the only one to
\* change the stock.
LEMMA StockerAlone ==
  ASSUME TypeOK, Shape, dynamic, NEW v \in Workers, NEW w \in Workers, v # w,
         req[v].pc \in Creating
  PROVE  req[v].locks /\ ~req[w].locks /\ req[w].pc \notin Creating \cup {"fill"}
  <1>1. WorkSound(req[v]) /\ WorkSound(req[w])
    BY DEF Shape
  <1>2. req[v].locks
    BY <1>1 DEF WorkSound
  <1>3. ~req[w].locks
    BY <1>2 DEF Shape
  <1> QED
    BY <1>1, <1>2, <1>3 DEF WorkSound

LEMMA PickedEnough ==
  ASSUME TypeOK, Shape, StockInv, dynamic, target.active,
         \A v \in Workers : Stocked(req[v]),
         NEW w \in Workers, NEW q \in Work, Picks(w, q)
  PROVE  Cardinality(q.picked) >= Want
  <1>1. req[w].pc = "pick" /\ req[w].pc \in Creating
    BY DEF Picks, Creating
  <1>2. TargetFree(w)
    BY <1>1, StockerAlone DEF TargetFree
  <1>3. \A v \in Workers \ {w} : Held(v) = {}
    <2> TAKE v \in Workers \ {w}
    <2>1. req[v].pc \notin Creating
      BY <1>1, StockerAlone
    <2>2. req[v].pc \notin Serving \cup {"removed"}
      BY DEF Stocked
    <2> QED
      BY <2>1, <2>2 DEF Held, Creating, Serving
  <1>4. Seen(w) = Stock(req[w])
    BY <1>3 DEF Seen, Stock, HeldByOthers
  <1>5. q.picked = Oldest(Stock(req[w]), Want)
    BY <1>2, <1>4 DEF Picks
  <1>6. Cardinality(Stock(req[w])) >= Want /\ Stock(req[w]) \in SUBSET Entries
    BY <1>1, StockSizes DEF Stocked
  <1>7. Want \in Nat /\ Cardinality(Stock(req[w])) \in Nat
    BY PoolAssumption, StockSizes
  <1>8. Want <= Cardinality(Oldest(Stock(req[w]), Want))
    BY <1>6, <1>7, OldestAtLeast
  <1>9. q.picked \in SUBSET Entries
    BY DEF Work
  <1> QED
    BY <1>5, <1>7, <1>8, <1>9, EntriesFinite

LEMMA StockedKept ==
  ASSUME TypeOK, TypeOK', Shape, StockInv, StockedInv, StockedRequestIsReady,
         NEW w \in Workers, NEW q \in Work,
         WorkerMoves(w, q), Quiet(w, q) \/ Carries(w, q)
  PROVE  StockedInv' /\ StockedRequestIsReady'
  <1> SUFFICES ASSUME dynamic', ~removed'
               PROVE  /\ target'.active /\ \A v \in Workers : Stocked(req[v])'
                      /\ \A j \in Jobs : job'[j].status \in {"absent", "ready"}
    BY DEF StockedInv, StockedRequestIsReady
  <1>1. dynamic /\ ~removed
    <2>1. dynamic
      BY DEF WorkerMoves, config
    <2>2. removed => removed'
      BY DEF Quiet, Carries, Begins, StocksUp, Picks, Commits, LooksForRemoval,
             RemovesEntries, CommitsRemoval, Fills, Lists, CountsIssued, Reserves,
             Issues, Updates, FailsJobs
    <2> QED
      BY <2>1, <2>2
  <1>2. /\ target.active /\ \A v \in Workers : Stocked(req[v])
        /\ \A j \in Jobs : job[j].status \in {"absent", "ready"}
    BY <1>1 DEF StockedInv, StockedRequestIsReady
  <1>3. /\ req'[w] = q /\ \A v \in Workers : v # w => req'[v] = req[v]
        /\ req[w] \in Work /\ WorkSound(req[w])
    BY MovesKeepShape DEF TypeOK, Shape
  <1>4. Waiting = {}
    BY <1>2 DEF Waiting
  <1>5. \/ Quiet(w, q) \/ Begins(w, q) \/ StocksUp(w, q) \/ Picks(w, q)
        \/ \E row \in [status : Statuses, count : Nat] : Commits(w, q, row)
        \/ LooksForRemoval(w, q) \/ Fills(w, q) \/ Lists(w, q) \/ FailsJobs(w, q)
    <2>1. /\ req[w].todo = {}
          /\ req[w].pc \notin {"reserve", "issue", "update", "removed"}
      BY <1>2 DEF Stocked, Serving
    <2>2. ~RemovesEntries(w, q)
      BY DEF RemovesEntries
    <2>3. ~CommitsRemoval(w, q) /\ ~CountsIssued(w, q) /\ ~Reserves(w, q)
          /\ ~Issues(w, q) /\ ~Updates(w, q)
      BY <2>1 DEF CommitsRemoval, CountsIssued, Reserves, Issues, Updates
    <2> QED
      BY <2>2, <2>3 DEF Carries
  <1>6. target'.active
    BY <1>2, <1>5 DEF Quiet, Begins, StocksUp, Picks, Commits, LooksForRemoval, Fills,
                      Lists, FailsJobs
  <1>7. \A j \in Jobs : job'[j].status \in {"absent", "ready"}
    <2>1. CASE UNCHANGED job
      BY <1>2, <2>1
    <2>2. ASSUME NEW row \in [status : Statuses, count : Nat], Commits(w, q, row)
          PROVE  \A j \in Jobs : job'[j].status \in {"absent", "ready"}
      <3>1. row.status = "ready"
        BY <1>2, <2>2 DEF Commits, Stocked
      <3>2. job' = [job EXCEPT ![req[w].job] = row]
        BY <2>2 DEF Commits
      <3> QED
        BY <1>2, <3>1, <3>2 DEF TypeOK
    <2>3. CASE FailsJobs(w, q)
      BY <1>2, <1>4, <2>3 DEF FailsJobs
    <2> QED
      BY <1>5, <2>1, <2>2, <2>3 DEF Quiet, Begins, StocksUp, Picks, LooksForRemoval, Fills,
                                    Lists
  <1>8. ASSUME NEW v \in Workers, v # w
        PROVE  Stocked(req[v])'
    <2>1. Stocked(req[v]) /\ req'[v] = req[v]
      BY <1>2, <1>3, <1>8
    <2>2. req[v].pc = "pick" => UNCHANGED entry
      <3> SUFFICES ASSUME req[v].pc = "pick" PROVE UNCHANGED entry
        OBVIOUS
      <3>1. req[w].pc \notin Creating \cup {"fill"}
        BY <1>1, <1>8, StockerAlone DEF Creating
      <3>2. ~Fills(w, q) /\ \A row \in [status : Statuses, count : Nat] : ~Commits(w, q, row)
        BY <3>1 DEF Fills, Commits, Creating
      <3> QED
        BY <1>5, <3>2 DEF Quiet, Begins, StocksUp, Picks, LooksForRemoval, Lists, FailsJobs
    <2>3. req[v].pc = "pick" => Stock(req[v])' = Stock(req[v])
      BY <2>1, <2>2 DEF Stock, Available, InState
    <2> QED
      BY <2>1, <2>3 DEF Stocked
  <1>9. Stocked(req[w])'
    <2>1. CASE Carefree(q)
      BY <1>3, <2>1 DEF Stocked, Carefree, Creating
    <2>2. CASE Begins(w, q) \/ LooksForRemoval(w, q) \/ Lists(w, q)
      <3>1. q.todo = {} /\ q.pc \in {"stock", "remove", "jobs"}
        BY <1>1, <1>4, <2>2 DEF Begins, LooksForRemoval, Lists
      <3> QED
        BY <1>3, <3>1 DEF Stocked, Serving
    <2>3. CASE StocksUp(w, q)
      <3>1. Stock(req[w])' = Stock(q)
        BY <1>3, <2>3 DEF StocksUp, Stock, Available, InState
      <3>2. Cardinality(Stock(q)) >= Want
        BY <2>3, StockedUp
      <3>3. q.todo = {} /\ q.pc = "pick"
        BY <2>3 DEF StocksUp
      <3> QED
        BY <1>3, <3>1, <3>2, <3>3 DEF Stocked, Serving
    <2>4. CASE Picks(w, q)
      <3>1. Cardinality(q.picked) >= Want
        BY <1>1, <1>2, <2>4, PickedEnough
      <3>2. q.todo = {} /\ q.pc = "commit"
        BY <2>4 DEF Picks
      <3> QED
        BY <1>3, <3>1, <3>2 DEF Stocked, Serving
    <2> QED
      BY <1>5, <2>1, <2>2, <2>3, <2>4 DEF Quiet, Commits, Fills, FailsJobs
  <1> QED
    BY <1>6, <1>7, <1>8, <1>9

-----------------------------------------------------------------------------
(* The invariant as a whole.                                                *)

LEMMA PoolStarts == Init => PoolInv
  <1> SUFFICES ASSUME Init PROVE PoolInv
    OBVIOUS
  <1>1. TypeOK /\ Shape
    BY PoolInit
  <1>2. \A w \in Workers : req[w] = Idle
    BY DEF Init
  <1>3. /\ Available = {} /\ \A e \in Entries : entry[e] = "unborn"
        /\ \A j \in Jobs : issued[j] = {} /\ job[j].status = "absent" /\ job[j].count = 0
    BY DEF Init, Available, InState
  <1>4. StockInv
    BY <1>2, IdleIsSound DEF StockInv, EntriesFit, Creating
  <1>5. JobInv
    BY <1>2, <1>3, IdleIsSound DEF JobInv, JobsFit, Creating, Serving
  <1>6. IssuedOnce
    BY <1>3 DEF IssuedOnce
  <1>7. ReadyMeansIssued
    BY <1>3, FS_EmptySet DEF ReadyMeansIssued
  <1>8. FillInv /\ NoOverfill
    <2>1. FillInv
      BY <1>2, IdleIsSound DEF FillInv
    <2>2. 0 <= Most /\ Cardinality(Available) = 0
      BY <1>3, MostFacts, FS_EmptySet
    <2> QED
      BY <2>1, <2>2 DEF NoOverfill, Most
  <1>9. StockedInv /\ StockedRequestIsReady
    BY <1>2, <1>3, IdleIsSound DEF StockedInv, Stocked, StockedRequestIsReady, Serving, Init
  <1> QED
    BY <1>1, <1>4, <1>5, <1>6, <1>7, <1>8, <1>9 DEF PoolInv

LEMMA PoolRests ==
  ASSUME PoolInv, TypeOK', Shape', Rests
  PROVE  PoolInv'
  <1>1. UNCHANGED <<dynamic, entry, issued, job, req, removed>>
        /\ target'.active = target.active
    BY DEF Rests, config
  <1>2. StockInv'
    BY StockRests DEF PoolInv
  <1>3. JobInv' /\ IssuedOnce' /\ ReadyMeansIssued'
    BY <1>1 DEF PoolInv, JobInv, JobsFit, IssuedOnce, ReadyMeansIssued
  <1>4. FillInv' /\ NoOverfill'
    BY <1>1 DEF PoolInv, FillInv, NoOverfill, Stock, Most, Available, InState
  <1>5. StockedInv' /\ StockedRequestIsReady'
    BY <1>1 DEF PoolInv, StockedInv, Stocked, StockedRequestIsReady, Stock, Available, InState
  <1> QED
    BY <1>2, <1>3, <1>4, <1>5 DEF PoolInv

LEMMA PoolKept == PoolInv /\ [Next]_vars => PoolInv'
  <1> SUFFICES ASSUME PoolInv, [Next]_vars PROVE PoolInv'
    OBVIOUS
  <1>1. TypeOK /\ Shape /\ TypeOK' /\ Shape'
    BY StepMoves DEF PoolInv
  <1>2. CASE Rests
    BY <1>1, <1>2, PoolRests
  <1>3. ASSUME NEW w \in Workers, NEW q \in Work,
               WorkerMoves(w, q), Quiet(w, q) \/ Carries(w, q)
        PROVE  PoolInv'
    <2>1. StockInv'
      BY <1>1, <1>3, StockKept DEF PoolInv
    <2>2. JobInv'
      BY <1>1, <1>3, JobsKept DEF PoolInv
    <2>3. IssuedOnce'
      BY <1>1, <1>3, IssuedOnceKept DEF PoolInv
    <2>4. ReadyMeansIssued'
      BY <1>1, <1>3, ReadyKept DEF PoolInv
    <2>5. FillInv' /\ NoOverfill'
      BY <1>1, <1>3, FillKept DEF PoolInv
    <2>6. StockedInv' /\ StockedRequestIsReady'
      BY <1>1, <1>3, StockedKept DEF PoolInv
    <2> QED
      BY <1>1, <2>1, <2>2, <2>3, <2>4, <2>5, <2>6 DEF PoolInv
  <1> QED
    BY <1>1, <1>2, <1>3, StepMoves

LEMMA PoolAlways == Spec => []PoolInv
  BY PoolStarts, PoolKept, PTL DEF Spec

\* No proxy is issued to two requests, what is available was issued to nobody and
\* what is reserved to somebody, whatever requests, refills and removals overlap.
THEOREM PoolIssuesOnce == Spec => []IssuedOnce
  <1>1. PoolInv => IssuedOnce
    BY DEF PoolInv
  <1> QED
    BY <1>1, PoolAlways, PTL

\* A job that reads "ready" has the reservations it asked for, and no job fewer
\* than its count says.
THEOREM PoolReadyIsIssued == Spec => []ReadyMeansIssued
  <1>1. PoolInv => ReadyMeansIssued
    BY DEF PoolInv
  <1> QED
    BY <1>1, PoolAlways, PTL

\* Overlapping requests and refills never generate the same shortage twice.
THEOREM PoolNotOverfilled == Spec => []NoOverfill
  <1>1. PoolInv => NoOverfill
    BY DEF PoolInv
  <1> QED
    BY <1>1, PoolAlways, PTL

\* Where requests stock the pool on demand and no stock is removed, every request
\* leaves with all it asked for.
THEOREM PoolServesDemand == Spec => []StockedRequestIsReady
  <1>1. PoolInv => StockedRequestIsReady
    BY DEF PoolInv
  <1> QED
    BY <1>1, PoolAlways, PTL

=============================================================================
