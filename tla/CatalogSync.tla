---------------------------- MODULE CatalogSync ----------------------------
(***************************************************************************)
(* The synchronisation of one catalog from YS into its snapshot row.       *)
(* Scheduled and manual runs may overlap, so a run first takes the row's   *)
(* lease, reads the stored payload, fetches, merges, and writes only if    *)
(* the lease still is its own.  A slow or killed run loses its lease after *)
(* fifteen minutes.  Desktops compare the revision they are shown at       *)
(* bootstrap with the one they have and download the catalog.              *)
(*                                                                         *)
(* A payload maps each allowlisted key to the edition of its data, 0 for a *)
(* key it lacks; the revision, a digest, is the payload itself.  What the  *)
(* validators look at is reduced to data they accept or refuse.            *)
(***************************************************************************)
EXTENDS Integers, FiniteSets

CONSTANTS
    Syncers,        \* runs of sync_ys_catalogs: beat, cron, by hand
    Keys,           \* COMMON_KEYS
    Required,       \* REQUIRED_KEYS, without which an answer is refused
    MaxEdition,     \* bound: editions YS publishes
    MaxSyncOps      \* bound: runs started

ASSUME SyncAssumption ==
    /\ Required \subseteq Keys /\ Required # {}
    /\ MaxEdition \in Nat \ {0} /\ MaxSyncOps \in Nat

VARIABLES
    upstream,       \* the edition of each key at YS
    snapshot,       \* the BrowserCatalogSnapshot row
    syncer,         \* what each run is doing
    shown,          \* the desktop: revision offered, and payload it has
    syncOps

syncVars == <<upstream, snapshot, syncer, shown, syncOps>>

Payloads == [Keys -> 0 .. MaxEdition]
Empty == [k \in Keys |-> 0]
Leases == 0 .. MaxSyncOps       \* tokens, numbered as they are taken; 0 for none

Snapshot == [payload : Payloads, lease : Leases, expired : BOOLEAN,
             by : Leases]       \* history: the lease under which it was written
Syncer == [pc : {"idle", "read", "fetch", "write", "fail"}, lease : Leases,
           seen : Payloads, data : Payloads]
IdleSyncer == [pc |-> "idle", lease |-> 0, seen |-> Empty, data |-> Empty]

SyncInit ==
    /\ upstream = [k \in Keys |-> 1]
    /\ snapshot = [payload |-> Empty, lease |-> 0, expired |-> FALSE, by |-> 0]
    /\ syncer = [s \in Syncers |-> IdleSyncer]
    /\ shown = [offer |-> Empty, has |-> Empty]
    /\ syncOps = 0

-----------------------------------------------------------------------------
(* The lease.                                                              *)

Leave(s) == syncer' = [syncer EXCEPT ![s] = IdleSyncer]

\* sync_resource takes the lease if there is none or it ran out, in one update.
Acquire(s) ==
    /\ syncer[s].pc = "idle" /\ syncOps < MaxSyncOps
    /\ syncOps' = syncOps + 1
    /\ IF snapshot.lease = 0 \/ snapshot.expired
       THEN /\ snapshot' = [snapshot EXCEPT !.lease = syncOps', !.expired = FALSE]
            /\ syncer' = [syncer EXCEPT ![s] =
                  [IdleSyncer EXCEPT !.pc = "read", !.lease = syncOps']]
       ELSE UNCHANGED <<snapshot, syncer>>
    /\ UNCHANGED <<upstream, shown>>

\* Fifteen minutes pass.
LeaseRunsOut ==
    /\ snapshot.lease # 0 /\ ~snapshot.expired
    /\ snapshot' = [snapshot EXCEPT !.expired = TRUE]
    /\ UNCHANGED <<upstream, syncer, shown, syncOps>>

\* A fault: a run does not notice that its lease was taken over.
Unowned(s) == TRUE

Owned(s) == snapshot.lease = syncer[s].lease

\* The row is read again under the token; without it the run fails.
ReadOwned(s) ==
    /\ syncer[s].pc = "read"
    /\ IF Owned(s)
       THEN syncer' = [syncer EXCEPT ![s].pc = "fetch", ![s].seen = snapshot.payload]
       ELSE syncer' = [syncer EXCEPT ![s].pc = "fail"]
    /\ UNCHANGED <<upstream, snapshot, shown, syncOps>>

-----------------------------------------------------------------------------
(* Fetching, merging and storing.                                          *)

\* A fault: what YS leaves out is forgotten.
Replaced(seen, data) == data

\* A partial answer keeps the stored keys it does not mention.
Merged(seen, data) == [k \in Keys |-> IF data[k] = 0 THEN seen[k] ELSE data[k]]

\* YS answers with the required keys and some others, or with something that is
\* refused: validate_common before and after the merge.
Fetch(s) ==
    /\ syncer[s].pc = "fetch"
    /\ \/ \E given \in SUBSET Keys :
              LET data == [k \in Keys |-> IF k \in given THEN upstream[k] ELSE 0] IN
              /\ Required \subseteq given
              /\ syncer' = [syncer EXCEPT ![s].pc = "write",
                                          ![s].data = Merged(syncer[s].seen, data)]
       \/ syncer' = [syncer EXCEPT ![s].pc = "fail"]
    /\ UNCHANGED <<upstream, snapshot, shown, syncOps>>

\* owned.update: the payload and its revision, and the lease is given back.
Store(s) ==
    /\ syncer[s].pc = "write"
    /\ snapshot' = IF Owned(s)
                   THEN [payload |-> syncer[s].data, lease |-> 0, expired |-> FALSE,
                         by |-> syncer[s].lease]
                   ELSE snapshot
    /\ Leave(s)
    /\ UNCHANGED <<upstream, shown, syncOps>>

\* A failure is noted and the lease given back; the payload stays.
Fail(s) ==
    /\ syncer[s].pc = "fail"
    /\ snapshot' = IF Owned(s) THEN [snapshot EXCEPT !.lease = 0, !.expired = FALSE]
                   ELSE snapshot
    /\ Leave(s)
    /\ UNCHANGED <<upstream, shown, syncOps>>

\* The run is killed: the task's time limit, run_ys_catalog_sync.sh's timeout.
KillSync(s) ==
    /\ syncer[s].pc # "idle"
    /\ Leave(s)
    /\ UNCHANGED <<upstream, snapshot, shown, syncOps>>

\* YS publishes a new edition of a key.
Publish(k) ==
    /\ upstream[k] < MaxEdition
    /\ upstream' = [upstream EXCEPT ![k] = @ + 1]
    /\ UNCHANGED <<snapshot, syncer, shown, syncOps>>

-----------------------------------------------------------------------------
(* The desktop: current_catalog at bootstrap, and the download.            *)

ShowRevision ==
    /\ snapshot.payload # Empty
    /\ shown' = [shown EXCEPT !.offer = snapshot.payload]
    /\ UNCHANGED <<upstream, snapshot, syncer, syncOps>>

Download ==
    /\ shown.offer # shown.has
    /\ shown' = [shown EXCEPT !.has = snapshot.payload, !.offer = snapshot.payload]
    /\ UNCHANGED <<upstream, snapshot, syncer, syncOps>>

SyncNext ==
    \/ \E s \in Syncers :
           \/ Acquire(s) \/ ReadOwned(s) \/ Fetch(s) \/ Store(s) \/ Fail(s) \/ KillSync(s)
    \/ \E k \in Keys : Publish(k)
    \/ LeaseRunsOut \/ ShowRevision \/ Download

SyncSpec == SyncInit /\ [][SyncNext]_syncVars

-----------------------------------------------------------------------------
(* What the synchronisation must guarantee.                                *)

SyncTypeOK ==
    /\ upstream \in Payloads
    /\ snapshot \in Snapshot
    /\ syncer \in [Syncers -> Syncer]
    /\ shown \in [offer : Payloads, has : Payloads]
    /\ syncOps \in 0 .. MaxSyncOps

\* A run that lost its lease never overwrites or unlocks what a later run has:
\* snapshots are written in the order their leases were taken, and only the
\* run that holds the lease gives it back (sync_resource).
LeaseOrderKept ==
    [][/\ snapshot'.by # snapshot.by =>
              snapshot'.by = snapshot.lease /\ snapshot'.by > snapshot.by
       /\ snapshot.lease # 0 /\ snapshot'.lease = 0 =>
              \E s \in Syncers : /\ syncer[s].lease = snapshot.lease
                                 /\ syncer'[s].pc = "idle"]_syncVars

\* Nothing that desktops were given is forgotten or goes back to an older
\* edition, whatever YS leaves out of an answer and whichever runs overlap, fail
\* or are killed (sync_resource, current_catalog).
CatalogNeverRegresses ==
    [][\A k \in Keys : /\ snapshot'.payload[k] >= snapshot.payload[k]
                       /\ shown'.has[k] >= shown.has[k]]_syncVars
=============================================================================
