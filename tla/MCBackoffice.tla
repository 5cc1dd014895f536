---------------------------- MODULE MCBackoffice ----------------------------
(***************************************************************************)
(* Small instances of the back office's own jobs: the YS bridge, catalog   *)
(* synchronisation, inventory alerts, domain reports and the provisioning  *)
(* of pools.  They keep separate rows and take none of each other's locks, *)
(* so a behaviour exercises one of them.                                   *)
(***************************************************************************)
EXTENDS YSBridge, CatalogSync, InventoryAlert, DomainReports, PoolProvisioning

CONSTANTS us, st1, st2, la      \* a country, two states, a city

VARIABLE part                   \* the component this behaviour exercises

vars == <<part, bridgeVars, syncVars, alertVars, reportVars, provisionVars>>

\* The country is planned larger than the others; the others' threshold is
\* larger than their size, which the commands allow for.
PlanCount(p) == IF p = us THEN 2 ELSE 1
PlanThreshold(p) == IF p = us THEN 1 ELSE 3

\* Three reports that list what they share in different orders.
ListedOrder(r) == CASE r = 1 -> <<"a", "b", "reservation">>
                    [] r = 2 -> <<"b", "c", "a">>
                    [] OTHER -> <<"c", "a", "reservation">>

InBridge == /\ part = "bridge"
            /\ UNCHANGED <<part, syncVars, alertVars, reportVars, provisionVars>>
InSync == /\ part = "sync"
          /\ UNCHANGED <<part, bridgeVars, alertVars, reportVars, provisionVars>>
InAlerts == /\ part = "alerts"
            /\ UNCHANGED <<part, bridgeVars, syncVars, reportVars, provisionVars>>
InReports == /\ part = "reports"
             /\ UNCHANGED <<part, bridgeVars, syncVars, alertVars, provisionVars>>
\* What becomes of the pools after the command ended is not followed.
InProvisioning == /\ part = "provisioning" /\ run.pc \notin {"done", "failed"}
                  /\ UNCHANGED <<part, bridgeVars, syncVars, alertVars, reportVars>>

Init ==
    /\ part \in {"bridge", "sync", "alerts", "reports", "provisioning"}
    /\ BridgeInit /\ SyncInit /\ AlertInit /\ ReportInit /\ ProvisionInit
    \* One initial state of the part when it rests.
    /\ part # "provisioning" => geo = "P2"

BridgeRuns ==
    \/ \E c \in Commands :
           \/ InBridge /\ QueueCommand(c)
           \/ InBridge /\ FifteenMinutes(c)
    \/ \E o \in Operators, c \in Commands : InBridge /\ RetryRead(o, c)
    \/ \E o \in Operators : InBridge /\ RetryWrite(o)
    \/ \E a \in answers :
           \/ InBridge /\ Complete(a)
           \/ InBridge /\ LoseAnswer(a)
    \/ InBridge /\ Poll
    \/ InBridge /\ Execute
    \/ InBridge /\ Report
    \/ InBridge /\ Reboot

SyncRuns ==
    \/ \E s \in Syncers :
           \/ InSync /\ Acquire(s)
           \/ InSync /\ ReadOwned(s)
           \/ InSync /\ Fetch(s)
           \/ InSync /\ Store(s)
           \/ InSync /\ Fail(s)
           \/ InSync /\ KillSync(s)
    \/ \E k \in Keys : InSync /\ Publish(k)
    \/ InSync /\ LeaseRunsOut
    \/ InSync /\ ShowRevision
    \/ InSync /\ Download

AlertRuns ==
    \/ \E r \in Requests :
           \/ InAlerts /\ Insert(r)
           \/ InAlerts /\ Count(r)
           \/ InAlerts /\ Commit(r)
           \/ InAlerts /\ Rollback(r)
           \/ InAlerts /\ Enqueue(r)
           \/ InAlerts /\ WebKilled(r)
    \/ \E w \in Windows :
           \/ InAlerts /\ TaskBegins(w)
           \/ InAlerts /\ SendOne(w)
           \/ InAlerts /\ SendFails(w)
           \/ InAlerts /\ MarkSent(w)
           \/ InAlerts /\ SenderKilled(w)
    \/ InAlerts /\ NextWindow
    \/ InAlerts /\ ChangeSetting

ReportRuns ==
    \E r \in Reports :
        \/ InReports /\ ReportBegins(r)
        \/ InReports /\ WriteRow(r)
        \/ InReports /\ ReportCommits(r)
        \/ InReports /\ ReportFails(r)

ProvisionRuns ==
    \/ \E p \in Places :
           \/ InProvisioning /\ Refill(p)
           \/ InProvisioning /\ RefillFails(p)
    \/ \E p \in States \cup Cities : InProvisioning /\ GeographyChanges(p)
    \/ \E p \in Touched :
           \/ InProvisioning /\ Consume(p)
           \/ InProvisioning /\ ExpandAsk(p)
           \/ InProvisioning /\ PanelRefill(p)
           \/ InProvisioning /\ PanelPause(p)
           \/ InProvisioning /\ PanelResume(p)
           \/ InProvisioning /\ PanelClear(p)
           \/ \E size \in Resizes : InProvisioning /\ ResizeCount(p, size)
    \/ \E mode \in {"queue", "direct", "catalog"}, cities \in BOOLEAN :
           InProvisioning /\ Begin(mode, cities)
    \/ \E purge \in BOOLEAN : InProvisioning /\ GenerateForm(purge)
    \/ \E regions \in BOOLEAN : InProvisioning /\ EnsurePools(regions)
    \/ InProvisioning /\ SyncRegionsOnly
    \/ InProvisioning /\ ImportGeography
    \/ InProvisioning /\ RunStep
    \/ InProvisioning /\ DeadlinePasses
    \/ InProvisioning /\ ResizeWrite
    \/ InProvisioning /\ GenerateCountry
    \/ InProvisioning /\ ExpandCreate
    \/ InProvisioning /\ ExpandWrite
    \/ InProvisioning /\ BulkSize
    \/ InProvisioning /\ BulkFill

Next == BridgeRuns \/ SyncRuns \/ AlertRuns \/ ReportRuns \/ ProvisionRuns

Fairness ==
    /\ WF_bridgeVars(InBridge /\ Poll)
    /\ WF_bridgeVars(InBridge /\ Execute)
    /\ WF_bridgeVars(InBridge /\ Report)
    /\ WF_bridgeVars(InBridge /\ Delivery)
    /\ \A c \in Commands : WF_bridgeVars(InBridge /\ FifteenMinutes(c))
    /\ \A r \in Requests : WF_alertVars(InAlerts /\ RequestStep(r))
    /\ \A w \in Windows : WF_alertVars(InAlerts /\ SenderStep(w))
    /\ WF_provisionVars(InProvisioning /\ RunStep)
    /\ WF_provisionVars(InProvisioning /\ DeadlinePasses)

Spec == Init /\ [][Next]_vars /\ Fairness

\* Every row, message and process of the five components has its type.
BackofficeTypeOK ==
    BridgeTypeOK /\ SyncTypeOK /\ AlertTypeOK /\ ReportTypeOK /\ ProvisionTypeOK
=============================================================================
