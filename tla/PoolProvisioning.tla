-------------------------- MODULE PoolProvisioning --------------------------
(***************************************************************************)
(* How the pools of one bundle, provider and country come to be: from the  *)
(* provider's geography, over the catalog of states and cities, to pools   *)
(* of a planned size at the country, its states and its cities.  A prefill *)
(* command creates them and fills them, by itself or through the workers;  *)
(* panels, the expansion task and other commands change the same rows.     *)
(*                                                                         *)
(* Most of this runs without locks: rows are read, and written statements  *)
(* later.  Each action is a statement or a transaction, and takes place    *)
(* between the others.  Stock is a number here; who gets it, and what the  *)
(* locks on its rows do, is in ProxyPool.                                  *)
(***************************************************************************)
EXTENDS Integers, FiniteSets, FiniteSetsExt

CONSTANTS
    Country, States, Cities,    \* the pools' locations
    PlannedCount(_),            \* sizes and thresholds
    PlannedThreshold(_),        \* the prefill command is given
    OfficeCount, OfficeBelow,   \* sizes the panel and other commands give
    CityCount, CityBelow,       \* EXPANDED_CITY_TARGET, EXPANDED_CITY_THRESHOLD
    Touched,                    \* bound: pools that others work on one by one
    Resizes,                    \* sizes an administrator changes a pool to
    Demands,                    \* proxies that the jobs waiting for a pool may take
    BatchSize,                  \* pools filled together
    MaxProvisionOps             \* bound: what others do while a prefill runs

Places == {Country} \cup States \cup Cities

ASSUME ProvisionAssumption ==
    /\ IsFiniteSet(Places) /\ Country \notin States \cup Cities
    /\ \A p \in Places : PlannedCount(p) \in Nat \ {0} /\ PlannedThreshold(p) \in Nat
    /\ Touched \subseteq Places /\ Demands \subseteq Nat
    /\ {OfficeCount, CityCount, BatchSize} \cup Resizes \subseteq Nat \ {0}
    /\ OfficeBelow \in 0 .. OfficeCount /\ CityBelow \in Nat /\ MaxProvisionOps \in Nat

VARIABLES
    geo,            \* whose pools these are: "P2" or "P3"
    live,           \* the states and cities the provider has
    catalog,        \* the states and cities that can be selected
    pool,           \* the ProxyPoolTarget rows, and their stock
    refills,        \* refill messages at the broker
    run,            \* the prefill command
    others,         \* an operation of somebody else that is half done
    peak,           \* history: the largest size each pool was given
    meddled,        \* history: locations others changed
    ready,          \* history: pools the command saw, or made, ready
    provisionOps

provisionVars == <<geo, live, catalog, pool, refills, run, others,
                   peak, meddled, ready, provisionOps>>

Pool == [exists : BOOLEAN, active : BOOLEAN, target : Nat, below : Nat, stock : Nat,
         claim : {"none", "fresh", "stale"}]
NoPool == [exists |-> FALSE, active |-> FALSE, target |-> 0, below |-> 0,
           stock |-> 0, claim |-> "none"]
NewPool(target, below) ==
    [NoPool EXCEPT !.exists = TRUE, !.active = TRUE, !.target = target, !.below = below]

Prefill == [pc : {"idle", "list", "regions", "cities", "deactivate", "create", "read",
                  "size", "fill", "wait", "done", "failed"},
            mode : {"queue", "direct", "catalog"}, cities : BOOLEAN,
            places : SUBSET Places, wanted : SUBSET Places, listed : SUBSET Places,
            stale : SUBSET Places, changed : SUBSET Places, seen : [Places -> Nat],
            todo : SUBSET Places, batch : SUBSET Places, missing : SUBSET Places,
            late : BOOLEAN, failures : SUBSET Places]
NoRun == [pc |-> "idle", mode |-> "queue", cities |-> FALSE, places |-> {}, wanted |-> {},
          listed |-> {}, stale |-> {}, changed |-> {}, seen |-> [p \in Places |-> 0],
          todo |-> {}, batch |-> {}, missing |-> {}, late |-> FALSE, failures |-> {}]
OthersWork == [op : {"none", "resize", "asked", "expand", "bulk", "fill"},
               places : SUBSET Places, size : Nat, below : Nat, excess : Nat,
               seen : [Places -> Pool]]
NoOthers == [op |-> "none", places |-> {}, size |-> 0, below |-> 0, excess |-> 0,
             seen |-> [p \in Places |-> NoPool]]

\* The country and one state have a pool, the state's with stock in it.
ProvisionInit ==
    /\ geo \in {"P2", "P3"}
    /\ live = States \cup Cities
    /\ catalog = IF geo = "P2" THEN {} ELSE live
    /\ pool = [p \in Places |->
           CASE p = Country -> NewPool(OfficeCount, OfficeBelow)
             [] p \in States /\ p = CHOOSE s \in States : TRUE ->
                    [NewPool(OfficeCount, OfficeBelow) EXCEPT !.stock = 1]
             [] OTHER -> NoPool]
    /\ refills = {}
    /\ run = NoRun /\ others = NoOthers
    /\ peak = [p \in Places |-> pool[p].target]
    /\ meddled = {} /\ ready = {} /\ provisionOps = 0

Larger(m, n) == IF m > n THEN m ELSE n
Smaller(m, n) == IF m < n THEN m ELSE n

\* thresholds: below the size, and not below zero.
Below(p) == Larger(0, Smaller(PlannedThreshold(p), PlannedCount(p) - 1))

\* A fault: a threshold of zero leaves a pool empty.
BareThreshold(p) == Below(p)

ReadyAt(p) == Larger(1, Below(p))

\* The pools become rows', and their sizes are remembered.
Pools(rows) ==
    /\ pool' = rows
    /\ peak' = [p \in Places |-> Larger(peak[p], rows[p].target)]

Sized(S, target, below) ==
    [p \in Places |-> IF p \in S
        THEN [pool[p] EXCEPT !.target = target, !.below = below, !.active = TRUE]
        ELSE pool[p]]

\* A fault: every location is taken to have its row.
TakenForGranted == Places

Existing == {p \in Places : pool[p].exists}

\* What others do before and while the command runs is bounded.
ByOthers(S) ==
    /\ provisionOps < MaxProvisionOps
    /\ provisionOps' = provisionOps + 1
    /\ meddled' = meddled \cup S

-----------------------------------------------------------------------------
(* Refills: queue_refill_proxy_pool and refill_proxy_pool.                 *)

Claimable(rows) == {p \in Places : rows[p].exists /\ rows[p].active /\ rows[p].claim # "fresh"}

\* Those of S that can be are claimed, in rows, and their refills published.
QueueRefills(S, rows) ==
    LET claimed == S \cap Claimable(rows) IN
    /\ Pools([p \in Places |-> IF p \in claimed THEN [rows[p] EXCEPT !.claim = "fresh"]
                               ELSE rows[p]])
    /\ refills' = refills \cup claimed

Filled(p, have) ==
    [pool[p] EXCEPT !.stock = @ + Larger(0, pool[p].target - have)]

\* The refill counts and fills under the row's lock, if the pool is active, and
\* clears the claim; what may happen in between is in ProxyPool.
Refill(p) ==
    /\ p \in refills
    /\ refills' = refills \ {p}
    /\ Pools([pool EXCEPT ![p] =
           [IF pool[p].active THEN Filled(p, pool[p].stock) ELSE pool[p] EXCEPT !.claim = "none"]])
    /\ UNCHANGED <<geo, live, catalog, run, others, meddled, ready, provisionOps>>

\* The worker cannot generate, or is killed: the pool stays as it is, in the
\* second case with its claim, which grows stale.
RefillFails(p) ==
    /\ p \in refills /\ ByOthers({})
    /\ refills' = refills \ {p}
    /\ \E left \in {"none", "stale"} : Pools([pool EXCEPT ![p].claim = left])
    /\ UNCHANGED <<geo, live, catalog, run, others, ready>>

\* A desktop takes a proxy.
Consume(p) ==
    /\ pool[p].active /\ pool[p].stock > 0 /\ ByOthers({})
    /\ Pools([pool EXCEPT ![p].stock = @ - 1])
    /\ UNCHANGED <<geo, live, catalog, refills, run, others, ready>>

-----------------------------------------------------------------------------
(* Geography: the provider's, and the catalog's.                           *)

\* The provider withdraws or restores a location; some remain.
GeographyChanges(p) ==
    /\ ByOthers({})
    /\ live' = IF p \in live THEN live \ {p} ELSE live \cup {p}
    /\ live' \cap States # {} /\ live' \cap Cities # {}
    /\ Pools(pool)
    /\ UNCHANGED <<geo, catalog, refills, run, others, ready>>

\* The regions that sync_p2_live_regions finds, and the ISO subdivisions that
\* ensure_p3_region_catalog enables, whatever the provider has.
LiveRegions == live \cap States
IsoRegions == States

\* sync_provider_geography adds regions and never takes any away.
SyncRegionsOnly ==
    /\ ByOthers({})
    /\ catalog' = catalog \cup (IF geo = "P2" THEN LiveRegions ELSE IsoRegions)
    /\ Pools(pool)
    /\ UNCHANGED <<geo, live, refills, run, others, ready>>

\* The file that sync_p3_geo_catalog imports is the provider's geography.
Imported == live

\* One transaction makes the country's catalog what the file says; what it does
\* not mention is disabled.
ImportGeography ==
    /\ geo = "P3" /\ ByOthers(States \cup Cities)
    /\ catalog' = Imported
    /\ Pools(pool)
    /\ UNCHANGED <<geo, live, refills, run, others, ready>>

-----------------------------------------------------------------------------
(* The prefill commands: prefill_p2_geo_pools and prefill_p3_geo_pools.    *)

Go(pc) == run' = [run EXCEPT !.pc = pc]

\* The command changes nothing but its own state and the pools.
OwnStep == UNCHANGED <<geo, live, catalog, refills, others, meddled, ready, provisionOps>>

\* P2 asks the provider for its geography; P3 reads it from the catalog.
Geography == IF geo = "P2" THEN live ELSE catalog

\* P2 leaves the cities out unless told otherwise.
Wanted(places, cities) == {Country} \cup (IF cities THEN places ELSE places \ Cities)

\* Without a state or city the command fails.
Begin(mode, cities) ==
    /\ run.pc = "idle"
    /\ geo = "P3" => mode # "catalog" /\ cities
    /\ mode = "catalog" => cities
    /\ run' = [NoRun EXCEPT !.mode = mode, !.cities = cities,
                            !.wanted = Wanted(Geography, cities),
                            !.pc = CASE Geography = {} -> "failed"
                                     [] Geography # {} /\ mode = "catalog" -> "regions"
                                     [] OTHER -> "list",
                            !.places = Geography]
    /\ Pools(pool)
    /\ meddled' = {} /\ ready' = {}
    /\ UNCHANGED <<geo, live, catalog, refills, others, provisionOps>>

\* The pools are listed; P2 finds the ones whose location is gone.
ListPools ==
    /\ run.pc = "list"
    /\ run' = [run EXCEPT
           !.pc = IF geo = "P2" THEN "regions" ELSE "create",
           !.listed = Existing \cap run.wanted,
           !.stale = IF geo = "P3" THEN {}
                     ELSE {p \in Existing \ run.wanted :
                              pool[p].active /\ (run.cities \/ p \notin Cities)}]
    /\ Pools(pool)
    /\ OwnStep

\* _sync_region_catalog: regions are added and never disabled.
SyncRegions ==
    /\ run.pc = "regions" /\ Go("cities")
    /\ catalog' = catalog \cup (run.places \cap States)
    /\ Pools(pool)
    /\ UNCHANGED <<geo, live, refills, others, meddled, ready, provisionOps>>

\* _sync_city_catalog: cities that are gone are disabled.
SyncCities ==
    /\ run.pc = "cities" /\ Go(IF run.mode = "catalog" THEN "done" ELSE "deactivate")
    /\ catalog' = (catalog \ Cities) \cup (run.places \cap Cities)
    /\ Pools(pool)
    /\ UNCHANGED <<geo, live, refills, others, meddled, ready, provisionOps>>

\* The pools of locations that are gone are switched off, claimed or not.
Deactivate ==
    /\ run.pc = "deactivate" /\ Go("create")
    /\ Pools([p \in Places |-> IF p \in run.stale
                  THEN [pool[p] EXCEPT !.active = FALSE, !.claim = "none"] ELSE pool[p]])
    /\ OwnStep

\* The pools that were missing are created; one that appeared since is left alone.
CreatePools ==
    /\ run.pc = "create"
    /\ run' = [run EXCEPT !.pc = "read", !.listed = {}, !.stale = {}, !.places = {}]
    /\ Pools([p \in Places |->
           IF p \in run.wanted \ (run.listed \cup Existing) THEN NewPool(PlannedCount(p), Below(p))
           ELSE pool[p]])
    /\ OwnStep

Targets == Existing \cap run.wanted

\* The pools are read again: which have another size, which need stock.
ReadPools ==
    /\ run.pc = "read"
    /\ run' = [run EXCEPT
           !.pc = "size",
           !.changed = {p \in Targets : \/ pool[p].target # PlannedCount(p) \/ ~pool[p].active
                                        \/ pool[p].below # Below(p)},
           !.seen = [p \in Places |-> pool[p].stock],
           !.todo = {p \in Targets : pool[p].stock < ReadyAt(p)}]
    /\ ready' = ready \cup {p \in Targets : pool[p].stock >= Larger(1, Below(p))}
    /\ Pools(pool)
    /\ UNCHANGED <<geo, live, catalog, refills, others, meddled, provisionOps>>

SizePools ==
    /\ run.pc = "size" /\ run' = [run EXCEPT !.pc = "fill", !.changed = {}]
    /\ Pools([p \in Places |-> IF p \in run.changed
                  THEN Sized({p}, PlannedCount(p), Below(p))[p] ELSE pool[p]])
    /\ OwnStep

\* The next pools in the order they were listed in.
Batch == CHOOSE b \in kSubset(Smaller(BatchSize, Cardinality(run.todo)), run.todo) : TRUE

\* A fault: the stock is the one that was read when the pools were listed.
CountedBefore(p) == run.seen[p]

Counted(p) == pool[p].stock

\* The stock is brought to the target; then the waiting jobs take from it.
FilledFor(p, demand) ==
    [Filled(p, Counted(p)) EXCEPT !.stock = Larger(0, @ - demand), !.claim = "none"]

\* fill_targets_direct: one transaction per batch.  A pool that is gone or
\* switched off, or that a refill has claimed, ends the command, and so does a
\* proxy that cannot be generated.
FillDirect ==
    /\ run.pc = "fill" /\ run.mode = "direct" /\ run.todo # {}
    /\ \/ /\ \A p \in Batch : pool[p].active /\ pool[p].claim # "fresh"
          /\ \E demand \in [Batch -> Demands] :
                 Pools([p \in Places |-> IF p \in Batch THEN FilledFor(p, demand[p])
                                         ELSE pool[p]])
          /\ ready' = ready \cup Batch
          /\ run' = [run EXCEPT !.todo = @ \ Batch]
       \/ /\ \E p \in Batch : \/ ~pool[p].active \/ pool[p].claim = "fresh"
                               \/ pool[p].stock < pool[p].target
          /\ Go("failed") /\ Pools(pool) /\ UNCHANGED ready
    /\ UNCHANGED <<geo, live, catalog, refills, others, meddled, provisionOps>>

\* Or the batch's refills are queued, and the command waits for the workers.
QueueBatch ==
    /\ run.pc = "fill" /\ run.mode = "queue" /\ run.todo # {}
    /\ run' = [run EXCEPT !.pc = "wait", !.batch = Batch, !.missing = Batch, !.late = FALSE]
    /\ QueueRefills(Batch, pool)
    /\ UNCHANGED <<geo, live, catalog, others, meddled, ready, provisionOps>>

\* A fault: the command waits as long as it takes.
Patient == FALSE

TimeUp == run.late

\* The batch's deadline passes.
DeadlinePasses ==
    /\ run.pc = "wait" /\ ~run.late
    /\ run' = [run EXCEPT !.late = TRUE]
    /\ Pools(pool)
    /\ OwnStep

\* Every two seconds the stock is read; what nobody refills is queued again.
PollBatch ==
    LET missing == {p \in run.batch : pool[p].stock < ReadyAt(p)} IN
    /\ run.pc = "wait" /\ run.missing # {} /\ ~TimeUp
    /\ run' = [run EXCEPT !.missing = missing]
    /\ ready' = ready \cup (run.batch \ missing)
    /\ QueueRefills({p \in missing : pool[p].claim = "none"}, pool)
    /\ UNCHANGED <<geo, live, catalog, others, meddled, provisionOps>>

BatchEnds ==
    /\ run.pc = "wait" /\ (run.missing = {} \/ TimeUp)
    /\ run' = [run EXCEPT !.pc = "fill", !.todo = @ \ run.batch,
                          !.failures = @ \cup run.missing]
    /\ Pools(pool)
    /\ OwnStep

Finish ==
    /\ run.pc = "fill" /\ run.todo = {}
    /\ run' = [NoRun EXCEPT !.pc = "done", !.mode = run.mode, !.wanted = run.wanted,
                            !.failures = run.failures]
    /\ Pools(pool)
    /\ OwnStep

RunStep == \/ ListPools \/ SyncRegions \/ SyncCities \/ Deactivate \/ CreatePools \/ ReadPools
           \/ SizePools \/ FillDirect \/ QueueBatch \/ PollBatch \/ BatchEnds \/ Finish

-----------------------------------------------------------------------------
(* What others do to the pools meanwhile.                                  *)

\* The panel's buttons on one pool: refill, pause, resume, clear.
PanelRefill(p) ==
    /\ pool[p].active /\ ByOthers({})
    /\ QueueRefills({p}, pool)
    /\ UNCHANGED <<geo, live, catalog, run, others, ready>>

PanelPause(p) ==
    /\ pool[p].exists /\ ByOthers({p})
    /\ Pools([pool EXCEPT ![p].active = FALSE])
    /\ UNCHANGED <<geo, live, catalog, refills, run, others, ready>>

PanelResume(p) ==
    /\ pool[p].exists /\ ByOthers({p})
    /\ QueueRefills({p}, [pool EXCEPT ![p].active = TRUE])
    /\ UNCHANGED <<geo, live, catalog, run, others, ready>>

PanelClear(p) ==
    /\ pool[p].exists /\ ByOthers({p})
    /\ Pools([pool EXCEPT ![p] = [pool[p] EXCEPT !.active = FALSE, !.stock = 0,
                                                 !.claim = "none"]])
    /\ UNCHANGED <<geo, live, catalog, refills, run, others, ready>>

\* The country's pool is created or sized.
Prepared == [Sized({Country}, OfficeCount, OfficeBelow) EXCEPT ![Country].exists = TRUE]

\* generate_office and queue_office_proxy_pools queue its refill unless it is full.
GenerateCountry ==
    /\ ByOthers({Country})
    /\ QueueRefills({p \in {Country} : pool[p].stock < OfficeCount}, Prepared)
    /\ UNCHANGED <<geo, live, catalog, run, others, ready>>

\* The admin's form queues it in any case, and may delete the stock of the country
\* and of all its states and cities first.
GenerateForm(purge) ==
    /\ ByOthers({Country})
    /\ QueueRefills({Country},
           [p \in Places |-> IF purge THEN [Prepared[p] EXCEPT !.stock = 0] ELSE Prepared[p]])
    /\ UNCHANGED <<geo, live, catalog, run, others, ready>>

\* resize: one transaction.  It lists the newest of the stock that is too much;
ResizeCount(p, size) ==
    /\ others.op = "none" /\ pool[p].exists /\ ByOthers({})
    /\ \E below \in 1 .. size :
           others' = [NoOthers EXCEPT !.op = "resize", !.places = {p}, !.size = size,
                          !.below = below, !.excess = Larger(0, pool[p].stock - size)]
    /\ Pools(pool)
    /\ UNCHANGED <<geo, live, catalog, refills, run, ready>>

\* then deletes what is left of that, and waits for the row to write the sizes.
ResizeWrite ==
    /\ others.op = "resize"
    /\ \E p \in others.places, dropped \in 0 .. others.excess :
         LET row == [pool[p] EXCEPT !.target = others.size, !.below = others.below,
                                    !.active = TRUE, !.stock = @ - dropped] IN
         /\ dropped <= pool[p].stock
         /\ QueueRefills({q \in {p} : row.stock < others.below}, [pool EXCEPT ![p] = row])
    /\ others' = NoOthers /\ meddled' = meddled \cup others.places
    /\ UNCHANGED <<geo, live, catalog, run, ready, provisionOps>>

\* proxy_location_specs: P3's country stands for all that the catalog has, and a
\* state or city must be in it - P3's cities are listed without a region, so that
\* a state has none of them; P2 is not expanded.
LocationSpecs(p) ==
    CASE geo = "P2" -> {p}
      [] geo # "P2" /\ p = Country -> {Country} \cup catalog
      [] OTHER -> {p} \cap catalog

\* location_stock_settings: cities are stocked with less.
StockSettings(p) ==
    IF geo = "P3" /\ p \in Cities
    THEN <<Smaller(OfficeCount, CityCount),
           Larger(1, Smaller(OfficeBelow, Smaller(CityBelow, CityCount)))>>
    ELSE <<OfficeCount, OfficeBelow>>

\* The panel asks for the expansion of a location it finds.
ExpandAsk(p) ==
    /\ others.op = "none" /\ LocationSpecs(p) # {} /\ ByOthers({})
    /\ others' = [NoOthers EXCEPT !.op = "asked", !.places = {p}]
    /\ Pools(pool)
    /\ UNCHANGED <<geo, live, catalog, refills, run, ready>>

\* expand_proxy_pool_scope looks again: missing pools are created and the rows
\* read; then sizes are raised from what was read, and refills queued.
ExpandCreate ==
    LET places == UNION {LocationSpecs(p) : p \in others.places}
        rows == [q \in Places |-> IF q \in places \ Existing
                    THEN NewPool(StockSettings(q)[1], StockSettings(q)[2])
                    ELSE pool[q]] IN
    /\ others.op = "asked"
    /\ Pools(rows)
    /\ others' = [NoOthers EXCEPT !.op = "expand", !.places = places, !.seen = rows]
    /\ meddled' = meddled \cup places
    /\ UNCHANGED <<geo, live, catalog, refills, run, ready, provisionOps>>

ExpandWrite ==
    /\ others.op = "expand"
    /\ QueueRefills(others.places,
           [p \in Places |-> IF p \in others.places
               THEN [pool[p] EXCEPT
                        !.target = Larger(others.seen[p].target, StockSettings(p)[1]),
                        !.below = Larger(others.seen[p].below, StockSettings(p)[2]),
                        !.active = TRUE]
               ELSE pool[p]])
    /\ others' = NoOthers /\ meddled' = meddled \cup others.places
    /\ UNCHANGED <<geo, live, catalog, run, ready, provisionOps>>

\* ensure_pool_targets creates the country's pool, and with regions the states' of
\* P2; when one was missing every smaller pool of the provider gets the size as well.
\* prefill_proxy_pools goes on to size and fill every active pool, in order.
EnsurePools(regions) ==
    LET states == IF regions /\ geo = "P2" THEN catalog \cap States ELSE {}
        missing == ({Country} \cup states) \ Existing
        smaller == {p \in Existing : pool[p].target < OfficeCount \/ pool[p].below < OfficeBelow}
        rows == [p \in Places |->
                    CASE p \in missing -> NewPool(OfficeCount, OfficeBelow)
                      [] missing # {} /\ p \in smaller ->
                            [pool[p] EXCEPT !.target = OfficeCount, !.below = OfficeBelow]
                      [] OTHER -> pool[p]]
        active == {p \in Places : rows[p].active} IN
    /\ others.op = "none" /\ ByOthers(missing \cup smaller)
    /\ Pools(rows)
    /\ \/ others' = NoOthers
       \/ /\ active # {}
          /\ others' = [NoOthers EXCEPT !.op = "bulk", !.places = active, !.seen = rows]
    /\ UNCHANGED <<geo, live, catalog, refills, run, ready>>

NextOf(S) == CHOOSE p \in S : TRUE

\* A pool that had another size when they were listed is given this one;
BulkSize ==
    LET p == NextOf(others.places)
        sized == [pool[p] EXCEPT !.target = OfficeCount, !.below = OfficeBelow] IN
    /\ others.op = "bulk"
    /\ others' = [others EXCEPT !.op = "fill"]
    /\ IF others.seen[p].target # OfficeCount \/ others.seen[p].below # OfficeBelow
       THEN Pools([pool EXCEPT ![p] = sized]) /\ meddled' = meddled \cup {p}
       ELSE Pools(pool) /\ UNCHANGED meddled
    /\ UNCHANGED <<geo, live, catalog, refills, run, ready, provisionOps>>

\* then the task is run on it (what a failing one leaves is in RefillFails), and the
\* command goes on to the next.
BulkFill ==
    LET p == NextOf(others.places)
        row == IF pool[p].active THEN Filled(p, pool[p].stock) ELSE pool[p] IN
    /\ others.op = "fill"
    /\ Pools([pool EXCEPT ![p] = [row EXCEPT !.claim = "none"]])
    /\ others' = IF others.places = {p} THEN NoOthers
                 ELSE [others EXCEPT !.op = "bulk", !.places = @ \ {p}]
    /\ UNCHANGED <<geo, live, catalog, refills, run, ready, meddled, provisionOps>>

ProvisionNext ==
    \/ \E p \in Places :
           \/ Refill(p) \/ RefillFails(p) \/ Consume(p) \/ ExpandAsk(p)
           \/ PanelRefill(p) \/ PanelPause(p) \/ PanelResume(p) \/ PanelClear(p)
           \/ \E size \in Resizes : ResizeCount(p, size)
    \/ \E p \in States \cup Cities : GeographyChanges(p)
    \/ \E mode \in {"queue", "direct", "catalog"}, cities \in BOOLEAN : Begin(mode, cities)
    \/ \E flag \in BOOLEAN : GenerateForm(flag) \/ EnsurePools(flag)
    \/ SyncRegionsOnly \/ ImportGeography
    \/ RunStep \/ DeadlinePasses
    \/ ResizeWrite \/ GenerateCountry \/ ExpandCreate \/ ExpandWrite
    \/ BulkSize \/ BulkFill

ProvisionSpec == ProvisionInit /\ [][ProvisionNext]_provisionVars

-----------------------------------------------------------------------------
(* What provisioning must guarantee.                                       *)

ProvisionTypeOK ==
    /\ geo \in {"P2", "P3"} /\ live \cup catalog \subseteq States \cup Cities
    /\ pool \in [Places -> Pool] /\ peak \in [Places -> Nat]
    /\ \A p \in Places : pool[p].active => pool[p].exists
    /\ refills \cup meddled \cup ready \subseteq Places
    /\ run \in Prefill /\ others \in OthersWork
    /\ run.missing \subseteq run.batch /\ run.batch \subseteq run.wanted
    /\ provisionOps \in 0 .. MaxProvisionOps

\* However refills, prefills and resizes overlap, no pool ever holds more than
\* the largest size it was given: whoever adds to a stock counts it under the
\* row's lock (refill_proxy_pool, fill_targets_direct).
NoOverstock == \A p \in Places : pool[p].stock <= peak[p]

\* PREFILL_DONE failures=0 is true: every location the command set out to prepare
\* can be selected, and its pool is there, active, of the planned size, and was
\* found or made ready, that is, filled before the waiting jobs took from it; only
\* what others changed meanwhile is excepted
\* (Command.handle of the two prefill commands).
PrefillReadied ==
    run.pc = "done" /\ run.mode # "catalog" =>
        \A p \in run.wanted \ (run.failures \cup meddled) :
            /\ p \in {Country} \cup catalog
            /\ pool[p].active /\ pool[p].target = PlannedCount(p) /\ pool[p].below = Below(p)
            /\ p \in ready

\* A prefill ends, whether or not any worker or broker still works: it waits for
\* each batch no longer than its deadline (Command.handle).
PrefillEnds == run.pc # "idle" ~> run.pc \in {"done", "failed"}
=============================================================================
