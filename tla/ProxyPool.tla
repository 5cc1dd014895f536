----------------------------- MODULE ProxyPool ------------------------------
(***************************************************************************)
(* One proxy pool: the stock of generated proxies for one bundle, provider *)
(* and location, the desktop requests that reserve from it                 *)
(* (views.create_proxy_job), and the refills that restock it and serve the *)
(* requests left waiting (tasks.refill_proxy_pool).  Web workers, Celery   *)
(* workers and panel sessions run as interleaved processes; each step is   *)
(* one statement or one transaction that no other process can observe half *)
(* done.                                                                   *)
(*                                                                         *)
(* Row locks: a request for P1-P3 and a refill's stocking hold the pool's  *)
(* row.  A reservation selects the entries joined with the pool FOR UPDATE *)
(* SKIP LOCKED, so the database locks the pool's row with the entries, and *)
(* the reservation finds nothing while another session holds that row.     *)
(* When there is no entry to find, the join order decides whether the      *)
(* pool's row stays locked.                                                *)
(*                                                                         *)
(* Ciphertexts, fingerprints, audit columns and error texts are left out,  *)
(* and all requests want the same number of candidates.                    *)
(***************************************************************************)
EXTENDS Integers, FiniteSets, FiniteSetsExt

CONSTANTS
    Workers,        \* processes: web, Celery and panel
    MaxJobs,        \* bound: requests
    MaxEntries,     \* bound: proxies ever generated
    Want,           \* reservation_target: candidates a request asks for
    TargetCount,    \* target_count of the pool
    ReplenishBelow, \* the maintainer's threshold
    MaxMessages,    \* bound: duplicates of a refill in the broker
    MaxFaults,      \* bound: kills, rollbacks, broker outages, refill errors
    MaxOps          \* bound: panel, mobile and compatibility operations

ASSUME PoolAssumption ==
    /\ MaxJobs \in Nat /\ MaxEntries \in Nat /\ MaxMessages \in Nat
    /\ MaxFaults \in Nat /\ MaxOps \in Nat /\ ReplenishBelow \in Nat
    /\ Want \in Nat \ {0} /\ TargetCount \in Nat \ {0}

Entries == 1 .. MaxEntries     \* in order of creation
Jobs == 1 .. MaxJobs

VARIABLES
    dynamic,        \* P1-P3 stock themselves on demand; P4 does not
    autoGenerate,   \* AUTO_GENERATE_PROXY_ON_DEMAND with a broker
    target,         \* the committed ProxyPoolTarget row
    entry,          \* the committed state of each ProxyPoolEntry
    issued,         \* the proxies of each job's committed reservations
    job,            \* the committed ProxyGenerationJob rows
    messages,       \* refill_proxy_pool messages in the broker
    req,            \* what each worker is doing
    removed,        \* history: a removal of stock has begun
    faults, ops    \* how often the bounded events happened

config == <<dynamic, autoGenerate>>
vars == <<config, target, entry, issued, job, messages, req, removed, faults, ops>>

Target == [active : BOOLEAN, pending : BOOLEAN, stale : BOOLEAN]
Statuses == {"absent", "waiting", "partial", "ready", "failed"}
Work == [pc : {"idle", "stock", "pick", "commit", "queue", "publish", "refill",
               "fill", "list", "jobs", "reserve", "issue", "update", "fail",
               "finish", "mobile", "remove", "removed"},
         job : Jobs \cup {0}, doomed : SUBSET Entries, mine : SUBSET Entries,
         picked : SUBSET Entries, todo : SUBSET Jobs, count : Nat,
         locks : BOOLEAN]     \* it holds the pool's row

Idle == [pc |-> "idle", job |-> 0, doomed |-> {}, mine |-> {}, picked |-> {},
         todo |-> {}, count |-> 0, locks |-> FALSE]

Init ==
    /\ dynamic \in BOOLEAN /\ autoGenerate \in BOOLEAN
    /\ target = [active |-> TRUE, pending |-> FALSE, stale |-> FALSE]
    /\ entry = [e \in Entries |-> "unborn"]
    /\ issued = [j \in Jobs |-> {}]
    /\ job = [j \in Jobs |-> [status |-> "absent", count |-> 0]]
    /\ messages = 0 /\ removed = FALSE /\ faults = 0 /\ ops = 0
    /\ req = [w \in Workers |-> Idle]

-----------------------------------------------------------------------------
(* Stock, locks and waiting jobs.                                          *)

InState(s) == {e \in Entries : entry[e] = s}
Available == InState("available")
Oldest(S, n) == {e \in S : Cardinality({f \in S : f < e}) < n}
AtLeastZero(n) == IF n < 0 THEN 0 ELSE n

\* The row locks of w on entries that others can see.
Held(w) ==
    CASE req[w].pc \in {"pick", "commit"} -> req[w].doomed \cup req[w].picked
      [] req[w].pc = "issue" -> req[w].picked
      [] req[w].pc = "removed" -> req[w].doomed
      [] OTHER -> {}
HeldByOthers(w) == UNION {Held(v) : v \in Workers \ {w}}

\* A fault: the pool's row is never locked.
TargetFreeAlways(w) == TRUE

\* Nobody else holds the pool's row.
TargetFree(w) == \A v \in Workers \ {w} : ~req[v].locks

\* A fault: the available entries are selected without select_for_update.
ReservationUnlocked(w, n) ==
    {[picked |-> IF target.active THEN Oldest(Available \cup req[w].mine, n) ELSE {},
      locks |-> req[w].locks]}

\* What a reservation of n may lock: the oldest available entries that nobody
\* else locks, with the pool's row.
Reservation(w, n) ==
    LET q == req[w]
        looks == n > 0 /\ target.active /\ TargetFree(w)
        seen == (Available \ (HeldByOthers(w) \cup q.doomed)) \cup q.mine
        found == IF looks THEN Oldest(seen, n) ELSE {}
    IN  {[picked |-> found, locks |-> held] :
           held \in IF q.locks \/ found # {} THEN {TRUE}
                    ELSE IF looks THEN BOOLEAN ELSE {FALSE}}

Waiting == {j \in Jobs : job[j].status \in {"waiting", "partial"}}

Goto(w, pc) == req' = [req EXCEPT ![w].pc = pc]
Leave(w) == req' = [req EXCEPT ![w] = Idle]

\* A fault: what is not ready keeps the status it was created with.
JobRowKeepsQueued(n) ==
    [count |-> n, status |-> IF n >= Want THEN "ready" ELSE "queued"]

\* A fault: one reservation is enough.
JobRowReadyWithOne(n) ==
    [count |-> n, status |-> IF n > 0 THEN "ready" ELSE "waiting"]

JobRow(n) == [count |-> n,
              status |-> IF n >= Want THEN "ready"
                         ELSE IF n > 0 THEN "partial" ELSE "waiting"]

-----------------------------------------------------------------------------
(* A request: create_proxy_job.                                            *)

NextJob ==
    {j \in Jobs : /\ job[j].status = "absent" /\ \A w \in Workers : req[w].job # j
                  /\ \A i \in 1 .. j - 1 : \/ job[i].status # "absent"
                                           \/ \E w \in Workers : req[w].job = i}

\* P1-P3 lock the pool's row; a request for fresh stock collects the ids of
\* the entries it is going to delete.
BeginCreate(w, j) ==
    /\ req[w].pc = "idle"
    /\ IF dynamic
       THEN /\ TargetFree(w) /\ target.active
            /\ \E rotate \in BOOLEAN :
                 req' = [req EXCEPT ![w] =
                           [Idle EXCEPT !.pc = "stock", !.job = j, !.locks = TRUE,
                              !.doomed = IF rotate THEN Available ELSE {}]]
       ELSE req' = [req EXCEPT ![w] = [Idle EXCEPT !.pc = "pick", !.job = j]]
    /\ UNCHANGED <<config, target, entry, issued, job, messages, removed, faults, ops>>

\* Deletes what was collected, once nobody else locks it, and generates what
\* the stock lacks of this request.
StockUp(w) ==
    LET needed == AtLeastZero(Want - Cardinality(Available \ req[w].doomed)) IN
    /\ req[w].pc = "stock"
    /\ req[w].doomed \cap HeldByOthers(w) = {}
    /\ needed <= Cardinality(InState("unborn"))
    /\ req' = [req EXCEPT ![w] = [@ EXCEPT !.pc = "pick",
                                           !.mine = Oldest(InState("unborn"), needed)]]
    /\ UNCHANGED <<config, target, entry, issued, job, messages, removed, faults, ops>>

\* reserve_pool_proxies inside the request's transaction.
Pick(w) ==
    /\ req[w].pc = "pick"
    /\ \E r \in Reservation(w, Want) :
         req' = [req EXCEPT ![w] = [@ EXCEPT !.pc = "commit", !.picked = r.picked,
                                             !.locks = r.locks]]
    /\ UNCHANGED <<config, target, entry, issued, job, messages, removed, faults, ops>>

\* Deleting an entry clears the link of its reservations, not the reservations.
Commit(w) ==
    LET q == req[w]
        n == Cardinality(q.picked)
        row == JobRow(n)
    IN  /\ q.pc = "commit"
        /\ entry' = [e \in Entries |->
                       IF e \in q.doomed THEN "deleted"
                       ELSE IF e \in q.picked THEN "reserved"
                       ELSE IF e \in q.mine THEN "available" ELSE entry[e]]
        /\ issued' = [issued EXCEPT ![q.job] = q.picked]
        /\ job' = [job EXCEPT ![q.job] =
                     IF n = 0 /\ ~autoGenerate
                     THEN [row EXCEPT !.status = "failed"] ELSE row]
        /\ req' = [req EXCEPT ![w] =
                     IF autoGenerate /\ n < Want
                     THEN [Idle EXCEPT !.pc = "queue"] ELSE Idle]
        /\ UNCHANGED <<config, target, messages, removed, faults, ops>>

Fault == faults < MaxFaults /\ faults' = faults + 1

\* A generator error, a foreign key that a late reservation broke, a deadlock
\* victim, a killed worker: the whole request is rolled back.
Rollback(w) ==
    /\ req[w].pc \in {"stock", "pick", "commit"}
    /\ Fault
    /\ Leave(w)
    /\ UNCHANGED <<config, target, entry, issued, job, messages, removed, ops>>

-----------------------------------------------------------------------------
(* Asking for a refill: queue_refill_proxy_pool and its callers.           *)

\* A fault: an abandoned flag is never taken over.
ClaimableUnlessPending == target.active /\ ~target.pending

Claimable == target.active /\ (~target.pending \/ target.stale)

Queue(w) ==
    /\ req[w].pc = "queue"
    /\ TargetFree(w)
    /\ IF Claimable
       THEN /\ target' = [target EXCEPT !.pending = TRUE, !.stale = FALSE]
            /\ Goto(w, "publish")
       ELSE Leave(w) /\ UNCHANGED target
    /\ UNCHANGED <<config, entry, issued, job, messages, removed, faults, ops>>

Publish(w) ==
    /\ req[w].pc = "publish"
    /\ messages' = IF messages < MaxMessages THEN messages + 1 ELSE messages
    /\ Leave(w)
    /\ UNCHANGED <<config, target, entry, issued, job, removed, faults, ops>>

\* The broker is down: the claim is given back.
PublishFails(w) ==
    /\ req[w].pc = "publish"
    /\ TargetFree(w)
    /\ Fault
    /\ target' = [target EXCEPT !.pending = FALSE, !.stale = FALSE]
    /\ Leave(w)
    /\ UNCHANGED <<config, entry, issued, job, messages, removed, ops>>

LowStock == target.active /\ Cardinality(Available) <= ReplenishBelow

\* maintain_proxy_pools, run by the beat.
Maintain(w) ==
    /\ req[w].pc = "idle"
    /\ LowStock
    /\ Goto(w, "queue")
    /\ UNCHANGED <<config, target, entry, issued, job, messages, removed, faults, ops>>

Operation(w) == req[w].pc = "idle" /\ ops < MaxOps /\ ops' = ops + 1

\* The panel's generate (expand_proxy_pool_scope) activates the pool, then
\* asks for a refill.
Expand(w) ==
    /\ Operation(w)
    /\ TargetFree(w)
    /\ target' = [target EXCEPT !.active = TRUE]
    /\ Goto(w, "queue")
    /\ UNCHANGED <<config, entry, issued, job, messages, removed, faults>>

\* The mobile app activates the pool and looks at the stock and at the claim;
\* it takes the claim later, unconditionally.
MobileLook(w) ==
    /\ Operation(w)
    /\ TargetFree(w)
    /\ target' = [target EXCEPT !.active = TRUE]
    /\ IF Cardinality(Available) < TargetCount /\ (~target.pending \/ target.stale)
       THEN Goto(w, "mobile")
       ELSE UNCHANGED req
    /\ UNCHANGED <<config, entry, issued, job, messages, removed, faults>>

MobileClaim(w) ==
    /\ req[w].pc = "mobile"
    /\ TargetFree(w)
    /\ target' = [target EXCEPT !.pending = TRUE, !.stale = FALSE]
    /\ Goto(w, "refill")
    /\ UNCHANGED <<config, entry, issued, job, messages, removed, faults, ops>>

\* remove_available collects the ids, deletes those rows once nobody else
\* locks them, whatever became of them, and then writes the pool's row.
RemoveLook(w) ==
    /\ Operation(w)
    /\ req' = [req EXCEPT ![w] = [Idle EXCEPT !.pc = "remove", !.doomed = Available]]
    /\ UNCHANGED <<config, target, entry, issued, job, messages, removed, faults>>

RemoveEntries(w) ==
    /\ req[w].pc = "remove"
    /\ req[w].doomed \cap HeldByOthers(w) = {}
    /\ removed' = TRUE
    /\ Goto(w, "removed")
    /\ UNCHANGED <<config, target, entry, issued, job, messages, faults, ops>>

RemoveCommit(w) ==
    /\ req[w].pc = "removed"
    /\ TargetFree(w)
    /\ entry' = [e \in Entries |-> IF e \in req[w].doomed THEN "deleted" ELSE entry[e]]
    /\ target' = [target EXCEPT !.active = FALSE, !.pending = FALSE]
    /\ Leave(w)
    /\ UNCHANGED <<config, issued, job, messages, removed, faults, ops>>

\* A request that rotates holds the pool's row and waits for the entries, a
\* removal holds the entries and waits for the row: the database kills one.
Deadlocked(w, v) ==
    /\ req[w].pc = "stock" /\ req[v].pc = "removed"
    /\ req[w].doomed \cap req[v].doomed # {}

DeadlockVictim(w) ==
    /\ \E v \in Workers : Deadlocked(w, v) \/ Deadlocked(v, w)
    /\ Leave(w)
    /\ UNCHANGED <<config, target, entry, issued, job, messages, removed, faults, ops>>

-----------------------------------------------------------------------------
(* A refill: refill_proxy_pool and fulfill_waiting_jobs.                   *)

\* The broker forgets a message when a worker takes it.
StartRefill(w) ==
    /\ req[w].pc = "idle"
    /\ messages > 0
    /\ messages' = messages - 1
    /\ Goto(w, "refill")
    /\ UNCHANGED <<config, target, entry, issued, job, removed, faults, ops>>

\* An old generate_proxy_job message runs a refill without any claim.
CompatibilityRefill(w) ==
    /\ Operation(w)
    /\ Waiting # {}
    /\ Goto(w, "refill")
    /\ UNCHANGED <<config, target, entry, issued, job, messages, removed, faults>>

LockTarget(w) ==
    /\ req[w].pc = "refill"
    /\ TargetFree(w)
    /\ req' = [req EXCEPT ![w] = [@ EXCEPT
           !.pc = IF target.active THEN "fill" ELSE "finish", !.locks = target.active]]
    /\ UNCHANGED <<config, target, entry, issued, job, messages, removed, faults, ops>>

\* A fault: the whole target is generated, whatever is in stock.
ShortageIgnoresStock == TargetCount

Shortage == AtLeastZero(TargetCount - Cardinality(Available))

\* Stores what it generated, less what collides with stored proxies (here: at
\* the bound on entries), and releases the row.
Fill(w) ==
    LET new == Oldest(InState("unborn"), Shortage) IN
    /\ req[w].pc = "fill"
    /\ entry' = [e \in Entries |-> IF e \in new THEN "available" ELSE entry[e]]
    /\ req' = [req EXCEPT ![w] = [@ EXCEPT !.pc = "list", !.locks = FALSE]]
    /\ UNCHANGED <<config, target, issued, job, messages, removed, faults, ops>>

\* The jobs to serve are listed once, when the loop over them starts.
List(w) ==
    /\ req[w].pc = "list"
    /\ req' = [req EXCEPT ![w] = [@ EXCEPT !.pc = "jobs", !.todo = Waiting]]
    /\ UNCHANGED <<config, target, entry, issued, job, messages, removed, faults, ops>>

\* reserve_pool_proxies for the oldest listed job, in its own transaction:
\* counts what the job has, then locks and issues what it lacks.
CountIssued(w) ==
    LET j == Min(req[w].todo) IN
    /\ req[w].pc = "jobs"
    /\ req[w].todo # {}
    /\ req' = [req EXCEPT ![w] = [@ EXCEPT
           !.pc = "reserve", !.job = j,
           !.count = AtLeastZero(Want - Cardinality(issued[j]))]]
    /\ UNCHANGED <<config, target, entry, issued, job, messages, removed, faults, ops>>

Reserve(w) ==
    /\ req[w].pc = "reserve"
    /\ \E r \in Reservation(w, req[w].count) :
         req' = [req EXCEPT ![w] = [@ EXCEPT !.pc = "issue", !.picked = r.picked,
                                             !.locks = r.locks]]
    /\ UNCHANGED <<config, target, entry, issued, job, messages, removed, faults, ops>>

Issue(w) ==
    LET q == req[w] IN
    /\ q.pc = "issue"
    /\ entry' = [e \in Entries |-> IF e \in q.picked THEN "reserved" ELSE entry[e]]
    /\ issued' = [issued EXCEPT ![q.job] = @ \cup q.picked]
    /\ req' = [req EXCEPT ![w] = [@ EXCEPT !.pc = "update", !.picked = {}, !.locks = FALSE,
                                           !.count = Cardinality(issued'[q.job])]]
    /\ UNCHANGED <<config, target, job, messages, removed, faults, ops>>

\* Writes the count it read, whatever the job became meanwhile, and stops
\* when the stock is used up.
Update(w) ==
    LET q == req[w] IN
    /\ q.pc = "update"
    /\ job' = [job EXCEPT ![q.job] = JobRow(q.count)]
    /\ req' = [req EXCEPT ![w] =
                 [Idle EXCEPT !.pc = "jobs",
                    !.todo = IF Available = {} THEN {} ELSE q.todo \ {q.job}]]
    /\ UNCHANGED <<config, target, entry, issued, messages, removed, faults, ops>>

Served(w) ==
    /\ req[w].pc = "jobs"
    /\ req[w].todo = {}
    /\ Goto(w, "finish")
    /\ UNCHANGED <<config, target, entry, issued, job, messages, removed, faults, ops>>

\* Missing credentials, a generator or a database error, at any point.
RefillFails(w) ==
    /\ req[w].pc \in {"refill", "fill", "list", "jobs", "reserve", "issue", "update"}
    /\ Fault
    /\ req' = [req EXCEPT ![w] = [Idle EXCEPT !.pc = "fail"]]
    /\ UNCHANGED <<config, target, entry, issued, job, messages, removed, ops>>

\* _mark_target_jobs_failed
FailJobs(w) ==
    /\ req[w].pc = "fail"
    /\ job' = [j \in Jobs |-> IF j \in Waiting /\ job[j].count = 0
                             THEN [job[j] EXCEPT !.status = "failed"] ELSE job[j]]
    /\ Goto(w, "finish")
    /\ UNCHANGED <<config, target, entry, issued, messages, removed, faults, ops>>

\* The finally clause, whoever claimed the pool meanwhile.
FinishRefill(w) ==
    /\ req[w].pc = "finish"
    /\ TargetFree(w)
    /\ target' = [target EXCEPT !.pending = FALSE, !.stale = FALSE]
    /\ Leave(w)
    /\ UNCHANGED <<config, entry, issued, job, messages, removed, faults, ops>>

-----------------------------------------------------------------------------
(* A killed worker, and time: PROXY_REFILL_STALE_SECONDS after the claim.  *)

Crash(w) ==
    /\ req[w].pc \notin {"idle", "stock", "pick", "commit"}
    /\ Fault
    /\ Leave(w)
    /\ UNCHANGED <<config, target, entry, issued, job, messages, removed, ops>>

Age ==
    /\ target.pending /\ ~target.stale
    /\ target' = [target EXCEPT !.stale = TRUE]
    /\ UNCHANGED <<config, entry, issued, job, messages, req, removed, faults, ops>>

Request(w) == StockUp(w) \/ Pick(w) \/ Commit(w) \/ DeadlockVictim(w)

Serve(w) ==
    \/ LockTarget(w) \/ Fill(w) \/ List(w) \/ CountIssued(w) \/ Reserve(w)
    \/ Issue(w) \/ Update(w) \/ Served(w) \/ FailJobs(w) \/ FinishRefill(w)

Operate(w) ==
    \/ Expand(w) \/ MobileLook(w) \/ MobileClaim(w) \/ CompatibilityRefill(w)
    \/ RemoveLook(w) \/ RemoveEntries(w) \/ RemoveCommit(w)

Next ==
    \/ \E w \in Workers :
         \/ \E j \in NextJob : BeginCreate(w, j)
         \/ Request(w) \/ Rollback(w)
         \/ Maintain(w) \/ Queue(w) \/ Publish(w) \/ PublishFails(w)
         \/ StartRefill(w) \/ Serve(w) \/ RefillFails(w)
         \/ Operate(w) \/ Crash(w)
    \/ Age

Spec == Init /\ [][Next]_vars

\* Processes that are not killed finish what they started; with AUTO_REFILL on,
\* the beat keeps running the maintainer, and Celery workers take messages.
Fairness ==
    /\ \A w \in Workers :
         /\ WF_vars(Request(w) \/ Serve(w) \/ Queue(w) \/ Publish(w)
                      \/ MobileClaim(w) \/ RemoveEntries(w) \/ RemoveCommit(w))
    /\ SF_vars(\E w \in Workers : Maintain(w))
    /\ WF_vars(\E w \in Workers : StartRefill(w))
    /\ WF_vars(Age)

FairSpec == Spec /\ Fairness
-----------------------------------------------------------------------------
(* Properties.                                                             *)

\* Type invariant of the pool, its jobs and its processes.
TypeOK ==
    /\ dynamic \in BOOLEAN /\ autoGenerate \in BOOLEAN
    /\ target \in Target
    /\ entry \in [Entries -> {"unborn", "available", "reserved", "deleted"}]
    /\ issued \in [Jobs -> SUBSET Entries]
    /\ job \in [Jobs -> [status : Statuses, count : Nat]]
    /\ messages \in 0 .. MaxMessages
    /\ req \in [Workers -> Work]
    /\ removed \in BOOLEAN
    /\ faults \in 0 .. MaxFaults /\ ops \in 0 .. MaxOps

\* "Atomically issue unused, pre-generated pool entries exactly once": no proxy
\* is issued to two requests, what is still available was issued to nobody and
\* what is reserved was issued to somebody, whatever refills, requests and
\* removals overlap.
IssuedOnce ==
    /\ \A i, j \in Jobs : i # j => issued[i] \cap issued[j] = {}
    /\ \A e \in Entries :
         /\ entry[e] \in {"unborn", "available"} => \A j \in Jobs : e \notin issued[j]
         /\ entry[e] = "reserved" => \E j \in Jobs : e \in issued[j]

\* A desktop that polls its job and reads "ready" finds as many reservations as
\* it asked for, and never fewer than the count it reads, although the status
\* is written after the reservations and by several refills.
ReadyMeansIssued ==
    \A j \in Jobs :
        /\ job[j].status = "ready" => Cardinality(issued[j]) >= Want
        /\ job[j].count <= Cardinality(issued[j])

\* Refills and requests that stock the pool count under the lock of its row,
\* so overlapping ones never generate the same shortage twice.
NoOverfill ==
    Cardinality(Available) <= IF dynamic /\ Want > TargetCount THEN Want ELSE TargetCount

\* "Ensure one P1/P2/P3 scope has enough candidates for the current request":
\* such a request leaves with all it asked for, however it overlaps with other
\* requests, rotations, refills and served jobs, unless stock is being removed.
StockedRequestIsReady ==
    dynamic /\ ~removed => \A j \in Jobs : job[j].status \in {"absent", "ready"}

\* "Keep reserved rows/history intact, but discard the stale unissued sessions":
\* a request for fresh stock never deletes what was reserved after it looked.
RotationKeepsReserved ==
    [][\A w \in Workers : Commit(w) =>
         \A e \in Entries : entry[e] = "reserved" => entry'[e] = "reserved"]_vars

\* "Reserved history was retained", says the panel after removing stock.
ReservedHistoryKept ==
    [][\A e \in Entries : entry[e] = "reserved" => entry'[e] = "reserved"]_vars

\* A refill is asked for and nothing is left to carry it out.
Abandoned ==
    /\ target.pending
    /\ messages = 0
    /\ \A w \in Workers : req[w].pc \in {"idle", "stock", "pick", "commit", "queue",
                                        "remove", "removed"}

\* "Queue one refill and automatically recover abandoned pending flags": while
\* the stock is low, a killed worker or a lost message does not stop refills
\* for ever.
AbandonedFlagRecovers ==
    (Abandoned /\ LowStock) ~> ~(Abandoned /\ LowStock)

\* "Fill one pool to its target and satisfy queued app jobs from that pool": a
\* job left waiting is served, or told that its refill failed.
WaitingJobServed ==
    \A j \in Jobs : (j \in Waiting) ~> (j \notin Waiting)

=============================================================================
