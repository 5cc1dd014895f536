-------------------------- MODULE BackofficeProofs --------------------------
(* Proofs about the back office's jobs, for every number of commands, runs,  *)
(* requests and reports: each component by its own specification, and the    *)
(* types of all five by the specification that exercises one at a time.      *)
EXTENDS MCBackoffice, FiniteSetTheorems, WellFoundedInduction, TLAPS

-----------------------------------------------------------------------------
(* Catalog synchronisation.                                                  *)

\* What each run read and means to write: under its lease nothing else was
\* stored, and no data is newer than what YS has published.
RunFollowsLease(s) ==
    LET q == syncer[s] IN
    /\ q.lease \in 1 .. syncOps
    /\ \A k \in Keys : q.seen[k] <= upstream[k] /\ q.data[k] <= upstream[k]
    /\ q.pc \in {"fetch", "write"} /\ q.lease = snapshot.lease =>
           q.seen = snapshot.payload
    /\ q.pc = "write" /\ q.lease = snapshot.lease =>
           \A k \in Keys : q.data[k] >= snapshot.payload[k]

\* The inductive invariant: leases are handed out once each, in order.
SyncInv ==
    /\ SyncTypeOK
    /\ snapshot.lease <= syncOps /\ snapshot.by <= syncOps
    /\ snapshot.lease # 0 => snapshot.by < snapshot.lease
    /\ \A k \in Keys : /\ snapshot.payload[k] <= upstream[k]
                       /\ shown.has[k] <= snapshot.payload[k]
    /\ \A s \in Syncers : syncer[s].pc # "idle" => RunFollowsLease(s)
    /\ \A s, t \in Syncers :
           /\ s # t /\ syncer[s].pc # "idle" /\ syncer[t].pc # "idle"
           => syncer[s].lease # syncer[t].lease

\* A run that has done nothing yet.
LEMMA IdleTypes == Empty \in Payloads /\ IdleSyncer \in Syncer
  BY SyncAssumption DEF Empty, Payloads, IdleSyncer, Syncer, Leases

\* Taking the lease, and giving it back.
LEMMA LeaseFieldTypes ==
  ASSUME snapshot \in Snapshot, NEW l \in Leases,
         snapshot' = [snapshot EXCEPT !.lease = l, !.expired = FALSE]
  PROVE  /\ snapshot' \in Snapshot /\ snapshot'.lease = l
         /\ snapshot'.payload = snapshot.payload /\ snapshot'.by = snapshot.by
  BY DEF Snapshot

LEMMA SyncInitInv == SyncInit => SyncInv
  BY SyncAssumption
     DEF SyncInit, SyncInv, SyncTypeOK, Payloads, Empty, Leases, Snapshot, Syncer, IdleSyncer

\* A run that ends frees nothing but its own place.
LEMMA LeaveTypes ==
  ASSUME SyncTypeOK, NEW s \in Syncers, Leave(s)
  PROVE  /\ syncer' \in [Syncers -> Syncer]
         /\ syncer'[s].pc = "idle"
         /\ \A t \in Syncers : t # s => syncer'[t] = syncer[t]
  BY SyncAssumption DEF SyncTypeOK, Leave, IdleSyncer, Syncer, Payloads, Empty, Leases

LEMMA SyncStepInv ==
  ASSUME SyncInv, [SyncNext]_syncVars
  PROVE  SyncInv'
  <1> USE SyncAssumption
  <1>0. SyncTypeOK
    BY DEF SyncInv
  <1>1. ASSUME NEW s \in Syncers, Acquire(s)
        PROVE  SyncInv'
    <2>1. CASE snapshot.lease = 0 \/ snapshot.expired
      <3>1. /\ snapshot' = [snapshot EXCEPT !.lease = syncOps + 1, !.expired = FALSE]
            /\ syncer' = [syncer EXCEPT ![s] =
                  [IdleSyncer EXCEPT !.pc = "read", !.lease = syncOps + 1]]
            /\ syncOps' = syncOps + 1 /\ syncOps + 1 \in 0 .. MaxSyncOps
            /\ UNCHANGED <<upstream, shown>>
        BY <1>1, <2>1, <1>0 DEF Acquire, SyncTypeOK
      <3>2. SyncTypeOK'
        <4>1. snapshot' \in Snapshot
          BY <3>1, <1>0 DEF SyncTypeOK, Snapshot, Leases
        <4>2. [IdleSyncer EXCEPT !.pc = "read", !.lease = syncOps + 1] \in Syncer
          BY <3>1, IdleTypes DEF Syncer, Leases
        <4>3. syncer' \in [Syncers -> Syncer]
          BY <3>1, <4>2, <1>0 DEF SyncTypeOK
        <4> QED
          BY <3>1, <4>1, <4>3, <1>0 DEF SyncTypeOK
      <3>3. \A t \in Syncers : syncer'[t].pc # "idle" => RunFollowsLease(t)'
        BY <3>1, <1>0 DEF SyncInv, SyncTypeOK, RunFollowsLease, Snapshot, Syncer,
             IdleSyncer, Payloads, Empty, Leases
      <3>4. \A t, u \in Syncers :
              /\ t # u /\ syncer'[t].pc # "idle" /\ syncer'[u].pc # "idle"
              => syncer'[t].lease # syncer'[u].lease
        BY <3>1, <1>0 DEF SyncInv, SyncTypeOK, RunFollowsLease, Syncer, IdleSyncer, Leases
      <3> QED
        BY <3>1, <3>2, <3>3, <3>4, <1>0 DEF SyncInv, SyncTypeOK, Snapshot, Leases
    <2>2. CASE ~(snapshot.lease = 0 \/ snapshot.expired)
      BY <1>1, <2>2 DEF Acquire, SyncInv, SyncTypeOK, RunFollowsLease, Snapshot, Leases
    <2> QED
      BY <2>1, <2>2
  <1>2. ASSUME NEW s \in Syncers, ReadOwned(s)
        PROVE  SyncInv'
    <2>0. /\ syncer[s] \in Syncer /\ syncer[s].pc = "read" /\ RunFollowsLease(s)
          /\ snapshot.payload \in Payloads
          /\ UNCHANGED <<upstream, snapshot, shown, syncOps>>
      BY <1>2, <1>0 DEF ReadOwned, SyncInv, SyncTypeOK, Snapshot
    <2>1. CASE Owned(s)
      <3>1. syncer' = [syncer EXCEPT ![s] =
                [syncer[s] EXCEPT !.pc = "fetch", !.seen = snapshot.payload]]
        BY <1>2, <2>1 DEF ReadOwned
      <3>2. SyncTypeOK'
        BY <2>0, <3>1, <1>0 DEF SyncTypeOK, Syncer
      <3> QED
        BY <2>0, <3>1, <3>2, <1>0 DEF SyncInv, SyncTypeOK, RunFollowsLease, Syncer
    <2>2. CASE ~Owned(s)
      <3>1. syncer' = [syncer EXCEPT ![s] = [syncer[s] EXCEPT !.pc = "fail"]]
        BY <1>2, <2>2 DEF ReadOwned
      <3>2. SyncTypeOK'
        BY <2>0, <3>1, <1>0 DEF SyncTypeOK, Syncer
      <3> QED
        BY <2>0, <3>1, <3>2, <1>0 DEF SyncInv, SyncTypeOK, RunFollowsLease, Syncer
    <2> QED
      BY <2>1, <2>2
  <1>3. ASSUME NEW s \in Syncers, Fetch(s)
        PROVE  SyncInv'
    <2>1. CASE syncer' = [syncer EXCEPT ![s].pc = "fail"]
      BY <1>3, <2>1 DEF Fetch, SyncInv, SyncTypeOK, RunFollowsLease, Snapshot,
           Syncer, Payloads, Leases
    <2>2. ASSUME NEW given \in SUBSET Keys, NEW data,
                 data = [k \in Keys |-> IF k \in given THEN upstream[k] ELSE 0],
                 syncer' = [syncer EXCEPT ![s].pc = "write",
                                          ![s].data = Merged(syncer[s].seen, data)]
          PROVE  SyncInv'
      <3>1. PICK merged : merged = Merged(syncer[s].seen, data)
        OBVIOUS
      <3>2. /\ syncer[s].pc = "fetch" /\ RunFollowsLease(s)
            /\ syncer[s] \in Syncer /\ upstream \in Payloads
            /\ snapshot \in Snapshot
        BY <1>3 DEF Fetch, SyncInv, SyncTypeOK
      <3>3. /\ merged \in Payloads
            /\ \A k \in Keys : merged[k] <= upstream[k] /\ merged[k] >= 0
            /\ syncer[s].lease = snapshot.lease =>
                   \A k \in Keys : merged[k] >= snapshot.payload[k]
        BY <2>2, <3>1, <3>2 DEF Merged, RunFollowsLease, SyncInv, Payloads, Syncer, Snapshot
      <3>4. /\ syncer' = [syncer EXCEPT ![s].pc = "write", ![s].data = merged]
            /\ UNCHANGED <<upstream, snapshot, shown, syncOps>>
        BY <1>3, <2>2, <3>1 DEF Fetch
      <3> QED
        BY <3>2, <3>3, <3>4 DEF SyncInv, SyncTypeOK, RunFollowsLease, Syncer
    <2> QED
      BY <1>3, <2>1, <2>2 DEF Fetch
  <1>4. ASSUME NEW s \in Syncers, Store(s)
        PROVE  SyncInv'
    <2>1. /\ syncer' \in [Syncers -> Syncer]
          /\ syncer'[s].pc = "idle"
          /\ \A t \in Syncers : t # s => syncer'[t] = syncer[t]
      BY <1>4, <1>0, LeaveTypes DEF Store
    <2>2. CASE Owned(s)
      <3>1. /\ snapshot' = [payload |-> syncer[s].data, lease |-> 0, expired |-> FALSE,
                            by |-> syncer[s].lease]
            /\ UNCHANGED <<upstream, shown, syncOps>>
            /\ syncer[s] \in Syncer /\ syncer[s].pc = "write" /\ RunFollowsLease(s)
            /\ syncer[s].lease = snapshot.lease
        BY <1>4, <2>2, <1>0 DEF Store, Owned, SyncInv, SyncTypeOK
      <3>2. SyncTypeOK'
        BY <2>1, <3>1, <1>0 DEF SyncTypeOK, Snapshot, Syncer, Leases
      <3>3. \A k \in Keys : /\ snapshot'.payload[k] <= upstream[k]
                            /\ shown.has[k] <= snapshot'.payload[k]
        <4> SUFFICES ASSUME NEW k \in Keys
                     PROVE  /\ snapshot'.payload[k] <= upstream[k]
                            /\ shown.has[k] <= snapshot'.payload[k]
          OBVIOUS
        <4>1. /\ syncer[s].data[k] \in Int /\ snapshot.payload[k] \in Int
              /\ shown.has[k] \in Int
          BY <3>1, <1>0 DEF SyncTypeOK, Syncer, Snapshot, Payloads
        <4>2. /\ syncer[s].data[k] <= upstream[k]
              /\ syncer[s].data[k] >= snapshot.payload[k]
              /\ shown.has[k] <= snapshot.payload[k]
          BY <3>1 DEF SyncInv, RunFollowsLease
        <4> QED
          BY <3>1, <4>1, <4>2
      <3>4. \A t \in Syncers : syncer'[t].pc # "idle" => RunFollowsLease(t)'
        BY <2>1, <3>1 DEF SyncInv, RunFollowsLease
      <3>5. snapshot'.lease = 0 /\ snapshot'.by <= syncOps
        BY <3>1, <1>0 DEF RunFollowsLease, SyncTypeOK
      <3>6. \A t, u \in Syncers :
              /\ t # u /\ syncer'[t].pc # "idle" /\ syncer'[u].pc # "idle"
              => syncer'[t].lease # syncer'[u].lease
        BY <2>1 DEF SyncInv
      <3> QED
        BY <3>1, <3>2, <3>3, <3>4, <3>5, <3>6, <1>0 DEF SyncInv, SyncTypeOK
    <2>3. CASE ~Owned(s)
      BY <1>4, <2>1, <2>3 DEF Store, SyncInv, SyncTypeOK, RunFollowsLease
    <2> QED
      BY <2>2, <2>3
  <1>5. ASSUME NEW s \in Syncers, Fail(s) \/ KillSync(s)
        PROVE  SyncInv'
    <2>1. /\ syncer' \in [Syncers -> Syncer]
          /\ syncer'[s].pc = "idle"
          /\ \A t \in Syncers : t # s => syncer'[t] = syncer[t]
      BY <1>5, <1>0, LeaveTypes DEF Fail, KillSync
    <2>2. CASE snapshot' = [snapshot EXCEPT !.lease = 0, !.expired = FALSE] /\ Fail(s)
      <3>1. /\ snapshot' \in Snapshot
            /\ snapshot'.payload = snapshot.payload /\ snapshot'.by = snapshot.by
            /\ snapshot'.lease = 0
        <4>1. 0 \in Leases /\ snapshot \in Snapshot
          BY <1>0 DEF SyncTypeOK, Leases
        <4> QED
          BY <2>2, <4>1, LeaseFieldTypes
      <3>2. UNCHANGED <<upstream, shown, syncOps>> /\ SyncTypeOK'
        BY <2>1, <2>2, <3>1, <1>0 DEF Fail, SyncTypeOK
      <3> QED
        BY <2>1, <3>1, <3>2, <1>0 DEF SyncInv, SyncTypeOK, RunFollowsLease
    <2>3. CASE UNCHANGED snapshot
      BY <1>5, <2>1, <2>3 DEF Fail, KillSync, SyncInv, SyncTypeOK, RunFollowsLease
    <2> QED
      BY <1>5, <2>2, <2>3 DEF Fail, KillSync
  <1>6. ASSUME NEW k \in Keys, Publish(k)
        PROVE  SyncInv'
    <2>1. /\ upstream' \in Payloads
          /\ \A j \in Keys : upstream[j] <= upstream'[j]
      BY <1>6, <1>0 DEF Publish, SyncTypeOK, Payloads
    <2> QED
      BY <1>6, <2>1 DEF Publish, SyncInv, SyncTypeOK, RunFollowsLease, Payloads, Syncer, Snapshot
  <1>7. CASE LeaseRunsOut
    BY <1>7 DEF LeaseRunsOut, SyncInv, SyncTypeOK, RunFollowsLease, Snapshot
  <1>8. CASE ShowRevision \/ Download
    <2>1. /\ UNCHANGED <<upstream, snapshot, syncer, syncOps>>
          /\ shown'.has \in {shown.has, snapshot.payload}
          /\ shown' \in [offer : Payloads, has : Payloads]
      BY <1>8, <1>0 DEF ShowRevision, Download, SyncTypeOK, Snapshot
    <2>2. \A k \in Keys : shown'.has[k] <= snapshot.payload[k]
      BY <2>1, <1>0 DEF SyncInv, SyncTypeOK, Snapshot, Payloads
    <2> QED
      BY <2>1, <2>2 DEF SyncInv, SyncTypeOK, RunFollowsLease
  <1>9. CASE UNCHANGED syncVars
    BY <1>9 DEF syncVars, SyncInv, SyncTypeOK, RunFollowsLease
  <1> QED
    BY <1>1, <1>2, <1>3, <1>4, <1>5, <1>6, <1>7, <1>8, <1>9 DEF SyncNext

\* A run's snapshot is written under the lease the row still names, which is
\* later than every lease a snapshot was written under; and the lease is only
\* given back by its run (sync_resource).
THEOREM SyncLeaseOrder == SyncSpec => LeaseOrderKept
  <1>1. ASSUME SyncInv, [SyncNext]_syncVars
        PROVE  /\ snapshot'.by # snapshot.by =>
                      snapshot'.by = snapshot.lease /\ snapshot'.by > snapshot.by
               /\ snapshot.lease # 0 /\ snapshot'.lease = 0 =>
                      \E s \in Syncers : /\ syncer[s].lease = snapshot.lease
                                         /\ syncer'[s].pc = "idle"
    <2> USE <1>1
    <2>0. SyncTypeOK /\ snapshot \in Snapshot /\ syncOps \in Nat
      BY DEF SyncInv, SyncTypeOK
    <2>1. ASSUME NEW s \in Syncers, Acquire(s)
          PROVE  snapshot'.by = snapshot.by /\ (snapshot.lease = 0 \/ snapshot'.lease # 0)
      <3>1. syncOps + 1 \in Leases /\ syncOps + 1 # 0
        BY <2>0, <2>1, SyncAssumption DEF Acquire, Leases
      <3>2. \/ snapshot' = [snapshot EXCEPT !.lease = syncOps + 1, !.expired = FALSE]
            \/ UNCHANGED snapshot
        BY <2>1 DEF Acquire
      <3>3. CASE snapshot' = [snapshot EXCEPT !.lease = syncOps + 1, !.expired = FALSE]
        <4>1. snapshot'.by = snapshot.by /\ snapshot'.lease = syncOps + 1
          BY <2>0, <3>1, <3>3, LeaseFieldTypes
        <4> QED
          BY <3>1, <4>1
      <3> QED
        BY <3>2, <3>3
    <2>2. ASSUME NEW s \in Syncers, Store(s) \/ Fail(s), Owned(s)
          PROVE  /\ syncer[s].lease = snapshot.lease /\ syncer'[s].pc = "idle"
                 /\ snapshot'.by # snapshot.by =>
                        snapshot'.by = snapshot.lease /\ snapshot'.by > snapshot.by
      <3>1. /\ syncer[s].lease = snapshot.lease /\ snapshot.lease \in 1 .. syncOps
            /\ syncer'[s].pc = "idle"
        BY <2>0, <2>2, LeaveTypes DEF Store, Fail, Owned, SyncInv, RunFollowsLease
      <3>2. snapshot'.by = snapshot.lease \/ snapshot'.by = snapshot.by
        <4>1. CASE Store(s)
          BY <2>2, <4>1 DEF Store, Owned
        <4>2. CASE Fail(s)
          <5>1. snapshot' = [snapshot EXCEPT !.lease = 0, !.expired = FALSE]
            BY <2>2, <4>2 DEF Fail
          <5>2. 0 \in Leases
            BY SyncAssumption DEF Leases
          <5> QED
            BY <2>0, <5>1, <5>2, LeaseFieldTypes
        <4> QED
          BY <2>2, <4>1, <4>2
      <3> QED
        BY <2>0, <3>1, <3>2 DEF SyncInv, Snapshot, Leases
    <2>3. ASSUME NEW s \in Syncers,
                 \/ (Store(s) \/ Fail(s)) /\ ~Owned(s)
                 \/ ReadOwned(s) \/ Fetch(s) \/ KillSync(s)
          PROVE  UNCHANGED snapshot
      BY <2>3 DEF Store, Fail, ReadOwned, Fetch, KillSync
    <2>4. ASSUME LeaseRunsOut
          PROVE  snapshot'.by = snapshot.by /\ snapshot'.lease = snapshot.lease
      BY <2>0, <2>4 DEF LeaseRunsOut, Snapshot
    <2>5. ASSUME \/ \E k \in Keys : Publish(k)
                 \/ ShowRevision \/ Download \/ UNCHANGED syncVars
          PROVE  UNCHANGED snapshot
      BY <2>5 DEF Publish, ShowRevision, Download, syncVars
    <2> QED
      BY <2>1, <2>2, <2>3, <2>4, <2>5 DEF SyncNext
  <1> QED
    BY <1>1, SyncInitInv, SyncStepInv, PTL DEF SyncSpec, LeaseOrderKept

\* No stored or downloaded edition of a key ever goes back (sync_resource,
\* current_catalog).
THEOREM SyncNeverRegresses == SyncSpec => CatalogNeverRegresses
  <1>1. ASSUME SyncInv, [SyncNext]_syncVars
        PROVE  \A k \in Keys : /\ snapshot'.payload[k] >= snapshot.payload[k]
                               /\ shown'.has[k] >= shown.has[k]
    <2> USE <1>1
    <2> SUFFICES ASSUME NEW k \in Keys
                 PROVE  /\ snapshot'.payload[k] >= snapshot.payload[k]
                        /\ shown'.has[k] >= shown.has[k]
      OBVIOUS
    <2>0. /\ snapshot \in Snapshot /\ shown \in [offer : Payloads, has : Payloads]
          /\ snapshot.payload[k] \in Nat /\ shown.has[k] \in Nat
          /\ shown.has[k] <= snapshot.payload[k]
      BY SyncAssumption DEF SyncInv, SyncTypeOK, Snapshot, Payloads
    <2>1. ASSUME NEW s \in Syncers, Store(s), Owned(s)
          PROVE  snapshot'.payload[k] >= snapshot.payload[k] /\ UNCHANGED shown
      BY <2>1 DEF Store, Owned, SyncInv, RunFollowsLease
    <2>2. ASSUME \E s \in Syncers :
                     \/ Acquire(s) \/ ReadOwned(s) \/ Fetch(s) \/ Fail(s) \/ KillSync(s)
                     \/ Store(s) /\ ~Owned(s)
          PROVE  snapshot'.payload = snapshot.payload /\ UNCHANGED shown
      BY <2>0, <2>2 DEF Acquire, ReadOwned, Fetch, Fail, KillSync, Store, Snapshot
    <2>3. ASSUME LeaseRunsOut \/ (\E j \in Keys : Publish(j)) \/ UNCHANGED syncVars
          PROVE  snapshot'.payload = snapshot.payload /\ UNCHANGED shown
      BY <2>0, <2>3 DEF LeaseRunsOut, Publish, syncVars, Snapshot
    <2>4. ASSUME ShowRevision \/ Download
          PROVE  UNCHANGED snapshot /\ shown'.has \in {shown.has, snapshot.payload}
      BY <2>0, <2>4 DEF ShowRevision, Download
    <2> QED
      BY <2>0, <2>1, <2>2, <2>3, <2>4 DEF SyncNext
  <1> QED
    BY <1>1, SyncInitInv, SyncStepInv, PTL DEF SyncSpec, CatalogNeverRegresses

-----------------------------------------------------------------------------
(* The YS bridge.                                                            *)

LEMMA SmallestExists ==
  ASSUME NEW T \in SUBSET Nat, T # {}
  PROVE  \E m \in T : \A n \in T : m <= n
  <1>1. PICK m \in T : \A n \in T : ~ (<<n, m>> \in OpToRel(<, Nat))
    BY WFMin, NatLessThanWellFounded
  <1>2. \A n \in T : ~ (n < m)
    BY <1>1 DEF OpToRel
  <1> QED
    BY <1>2

LEMMA CommandsAreNumbered == Commands \subseteq Nat \ {0}
  <1>1. Cardinality(Commands) \in Nat
    BY BridgeAssumption, FS_CardinalityType
  <1> QED
    BY <1>1, BridgeAssumption

\* Every command that was queued once and not again is later than c, and c
\* itself was queued.
Passed(c) ==
    c # 0 => /\ ys[c].status # "absent"
             /\ \A d \in Commands : ys[d].status = "queued" /\ d \notin again => d > c

\* The inductive invariant: what the agent has, and what changed YSBrowser, came
\* before everything that waits for its first turn.
BridgeInv ==
    /\ BridgeTypeOK
    /\ bridge.pc = "poll" <=> bridge.command = 0
    /\ \A c, d \in Commands :
           c < d /\ ys[d].status # "absent" => ys[c].status # "absent"
    /\ \A o \in Operators : operator[o] # 0 => ys[operator[o]].status # "absent"
    /\ Passed(bridge.command) /\ Passed(effect)
    /\ bridge.command # 0 /\ bridge.command \notin again => effect <= bridge.command

LEMMA BridgeInitInv == BridgeInit => BridgeInv
  BY BridgeAssumption, CommandsAreNumbered
     DEF BridgeInit, BridgeInv, BridgeTypeOK, Row, IdleBridge, Passed

\* What a poll does to the rows: it claims one command, the oldest of those that
\* wait or are overdue.
LEMMA PollClaims ==
  ASSUME BridgeTypeOK, Poll
  PROVE  \E c \in Commands :
           /\ ys[c].status \in {"queued", "running"}
           /\ c \notin Overdue => ys[c].status = "queued"
           /\ \A d \in Commands : ys[d].status = "queued" \/ d \in Overdue => c <= d
           /\ ys' = [d \in Commands |->
                        IF d = c THEN [status |-> "running", overdue |-> FALSE]
                        ELSE IF d \in Overdue THEN [status |-> "queued", overdue |-> FALSE]
                        ELSE ys[d]]
           /\ \/ bridge' = [pc |-> "execute", command |-> c, success |-> FALSE]
              \/ UNCHANGED bridge
           /\ bridgeOps' \in 0 .. MaxBridgeOps
           /\ ys' \in [Commands -> Row]
  <1> DEFINE queued == InStatus("queued") \cup Overdue
  <1>1. queued \subseteq Commands /\ queued # {}
    BY DEF Poll, InStatus, Overdue
  <1>2. PICK c \in queued : \A d \in queued : c <= d
    BY <1>1, SmallestExists, CommandsAreNumbered
  <1>3. Oldest(queued) = {c}
    <2>1. c \in Oldest(queued)
      BY <1>2 DEF Oldest
    <2>2. \A d \in Oldest(queued) : d \in Nat /\ d <= c /\ c <= d
      BY <1>1, <1>2, CommandsAreNumbered DEF Oldest
    <2>3. c \in Nat
      BY <1>1, <1>2, CommandsAreNumbered
    <2>4. \A d \in Oldest(queued) : d = c
      BY <2>2, <2>3
    <2> QED
      BY <2>1, <2>4
  <1>4. (CHOOSE d \in Oldest(queued) : TRUE) = c
    BY <1>3
  <1>5. ys' = [d \in Commands |->
                  IF d = c THEN [status |-> "running", overdue |-> FALSE]
                  ELSE IF d \in Overdue THEN [status |-> "queued", overdue |-> FALSE]
                  ELSE ys[d]]
    BY <1>3 DEF Poll
  <1>6. \/ bridge' = [pc |-> "execute", command |-> c, success |-> FALSE]
        \/ UNCHANGED bridge
    BY <1>4 DEF Poll
  <1>7. bridgeOps' \in 0 .. MaxBridgeOps
    BY BridgeAssumption DEF Poll, BridgeUsed, BridgeTypeOK
  <1>8. ys' \in [Commands -> Row]
    BY <1>5 DEF BridgeTypeOK, Row
  <1> QED
    BY <1>1, <1>2, <1>5, <1>6, <1>7, <1>8 DEF InStatus, Overdue

\* A row that becomes overdue is still the same otherwise.
LEMMA OverdueRow ==
  \A row \in Row : /\ [row EXCEPT !.overdue = TRUE] \in Row
                   /\ [row EXCEPT !.overdue = TRUE].status = row.status
  BY DEF Row

LEMMA BridgeStepInv ==
  ASSUME BridgeInv, [BridgeNext]_bridgeVars
  PROVE  BridgeInv'
  <1> USE BridgeAssumption, CommandsAreNumbered
  <1>0. BridgeTypeOK
    BY DEF BridgeInv
  <1>1. ASSUME NEW c \in Commands, QueueCommand(c)
        PROVE  BridgeInv'
    <2>1. /\ ys' \in [Commands -> Row]
          /\ ys'[c].status = "queued" /\ ys[c].status = "absent"
          /\ \A d \in Commands : d # c => ys'[d] = ys[d]
          /\ \A d \in Commands : d < c => ys[d].status # "absent"
          /\ UNCHANGED <<bridge, answers, operator, effect, again, bridgeOps>>
      BY <1>0, <1>1 DEF QueueCommand, InStatus, BridgeTypeOK, Row
    <2>2. ASSUME NEW e \in Commands \cup {0}, Passed(e)
          PROVE  Passed(e)'
      <3>1. e # 0 => e < c
        BY <2>1, <2>2 DEF BridgeInv, Passed
      <3> QED
        BY <2>1, <2>2, <3>1 DEF Passed
    <2>3. BridgeTypeOK'
      BY <2>1, <1>0 DEF BridgeTypeOK
    <2>4. Passed(bridge.command)' /\ Passed(effect)'
      BY <2>1, <2>2, <1>0 DEF BridgeInv, BridgeTypeOK, Passed
    <2>5. \A b, d \in Commands :
             b < d /\ ys'[d].status # "absent" => ys'[b].status # "absent"
      BY <2>1 DEF BridgeInv
    <2> QED
      BY <2>1, <2>3, <2>4, <2>5, <1>0 DEF BridgeInv, BridgeTypeOK
  <1>2. ASSUME NEW o \in Operators, NEW c \in Commands, RetryRead(o, c)
        PROVE  BridgeInv'
    BY <1>0, <1>2 DEF RetryRead, BridgeUsed, InStatus, BridgeInv, BridgeTypeOK, Passed
  <1>3. ASSUME NEW o \in Operators, RetryWrite(o)
        PROVE  BridgeInv'
    <2>1. /\ operator[o] \in Commands /\ ys[operator[o]].status # "absent"
          /\ ys' \in [Commands -> Row] /\ ys'[operator[o]].status = "queued"
          /\ \A d \in Commands : d # operator[o] => ys'[d] = ys[d]
          /\ again' = again \cup {operator[o]}
          /\ operator' = [operator EXCEPT ![o] = 0]
          /\ UNCHANGED <<bridge, answers, effect, bridgeOps>>
      BY <1>0, <1>3 DEF RetryWrite, BridgeInv, BridgeTypeOK, Row
    <2>2. BridgeTypeOK'
      BY <2>1, <1>0 DEF BridgeTypeOK
    <2>3. \A d \in Commands : ys'[d].status = "absent" <=> ys[d].status = "absent"
      BY <2>1
    <2>4. Passed(bridge.command)' /\ Passed(effect)'
      BY <2>1, <2>3, <1>0 DEF BridgeInv, BridgeTypeOK, Passed
    <2>5. \A p \in Operators : operator'[p] # 0 => ys'[operator'[p]].status # "absent"
      BY <2>1, <2>3, <1>0 DEF BridgeInv, BridgeTypeOK
    <2> QED
      BY <2>1, <2>2, <2>3, <2>4, <2>5, <1>0 DEF BridgeInv, BridgeTypeOK
  <1>4. ASSUME NEW c \in Commands, FifteenMinutes(c)
        PROVE  BridgeInv'
    <2>1. /\ ys' \in [Commands -> Row] /\ bridgeOps' \in 0 .. MaxBridgeOps
          /\ \A d \in Commands : ys'[d].status = ys[d].status
          /\ UNCHANGED <<bridge, answers, operator, effect, again>>
      <3>1. ys' = [ys EXCEPT ![c].overdue = TRUE]
        BY <1>4 DEF FifteenMinutes
      <3>2. bridgeOps' \in 0 .. MaxBridgeOps
        BY <1>0, <1>4 DEF FifteenMinutes, BridgeUsed, BridgeTypeOK
      <3> QED
        <4>1. /\ ys' \in [Commands -> Row]
              /\ \A d \in Commands : ys'[d].status = ys[d].status
          <5>1. /\ [ys[c] EXCEPT !.overdue = TRUE] \in Row
                /\ [ys[c] EXCEPT !.overdue = TRUE].status = ys[c].status
            BY <1>0, OverdueRow DEF BridgeTypeOK
          <5>2. ys' = [ys EXCEPT ![c] = [ys[c] EXCEPT !.overdue = TRUE]]
            BY <3>1
          <5> QED
            BY <1>0, <5>1, <5>2 DEF BridgeTypeOK
        <4> QED
          BY <1>4, <3>2, <4>1 DEF FifteenMinutes
    <2> QED
      BY <2>1, <1>0 DEF BridgeInv, BridgeTypeOK, Passed
  <1>5. CASE Poll
    <2>1. PICK c \in Commands :
           /\ ys[c].status \in {"queued", "running"}
           /\ c \notin Overdue => ys[c].status = "queued"
           /\ \A d \in Commands : ys[d].status = "queued" \/ d \in Overdue => c <= d
           /\ ys' = [d \in Commands |->
                        IF d = c THEN [status |-> "running", overdue |-> FALSE]
                        ELSE IF d \in Overdue THEN [status |-> "queued", overdue |-> FALSE]
                        ELSE ys[d]]
           /\ \/ bridge' = [pc |-> "execute", command |-> c, success |-> FALSE]
              \/ UNCHANGED bridge
           /\ bridgeOps' \in 0 .. MaxBridgeOps
           /\ ys' \in [Commands -> Row]
      BY <1>0, <1>5, PollClaims
    <2>2. /\ again' = again \cup Overdue /\ Overdue \subseteq Commands
          /\ \A d \in Overdue : ys[d].status = "running"
          /\ bridge.pc = "poll"
          /\ UNCHANGED <<answers, operator, effect>>
      BY <1>5 DEF Poll, Overdue, InStatus
    <2> HIDE DEF Overdue
    <2>3. \A d \in Commands : ys'[d].status = "absent" <=> ys[d].status = "absent"
      BY <2>1, <2>2
    <2>4. \A d \in Commands : ys'[d].status = "queued" /\ d \notin again' =>
             ys[d].status = "queued" /\ d \notin again /\ c < d
      BY <2>1, <2>2
    <2>5. BridgeTypeOK'
      <3>1. bridge' \in [pc : {"poll", "execute", "report"}, command : Commands \cup {0},
                         success : BOOLEAN]
        <4>1. [pc |-> "execute", command |-> c, success |-> FALSE] \in
                [pc : {"poll", "execute", "report"}, command : Commands \cup {0},
                 success : BOOLEAN]
          OBVIOUS
        <4>2. bridge \in [pc : {"poll", "execute", "report"}, command : Commands \cup {0},
                          success : BOOLEAN]
          BY <1>0 DEF BridgeTypeOK
        <4> QED
          BY <2>1, <4>1, <4>2
      <3> QED
        BY <2>1, <2>2, <3>1, <1>0 DEF BridgeTypeOK
    <2>6. Passed(effect)'
      BY <2>2, <2>3, <2>4, <1>0 DEF BridgeInv, BridgeTypeOK, Passed
    <2>7. CASE bridge' = [pc |-> "execute", command |-> c, success |-> FALSE]
      <3>1. Passed(bridge.command)'
        BY <2>1, <2>3, <2>4, <2>7 DEF Passed
      <3>2. c \notin again' => effect <= c
        BY <2>1, <2>2, <1>0 DEF BridgeInv, BridgeTypeOK, Passed
      <3> QED
        BY <2>2, <2>3, <2>5, <2>6, <2>7, <3>1, <3>2, <1>0 DEF BridgeInv, BridgeTypeOK
    <2>8. CASE UNCHANGED bridge
      <3>1. bridge.command = 0
        BY <2>2 DEF BridgeInv
      <3>2. Passed(bridge.command)'
        BY <2>8, <3>1 DEF Passed
      <3> QED
        BY <2>2, <2>3, <2>5, <2>6, <2>8, <3>1, <3>2, <1>0 DEF BridgeInv, BridgeTypeOK
    <2> QED
      BY <2>1, <2>7, <2>8
  <1>6. ASSUME NEW a \in answers, Complete(a)
        PROVE  BridgeInv'
    <2>1. /\ ys' \in [Commands -> Row]
          /\ \A d \in Commands : ys'[d].status # ys[d].status =>
                /\ ys[d].status = "running" /\ ys'[d].status \in {"succeeded", "failed"}
      BY <1>0, <1>6 DEF Complete, Answerable, InStatus, BridgeTypeOK, Row
    <2>2. answers' \subseteq answers /\ UNCHANGED <<bridge, operator, effect, again, bridgeOps>>
      BY <1>6 DEF Complete
    <2>3. BridgeTypeOK'
      BY <2>1, <2>2, <1>0 DEF BridgeTypeOK
    <2>4. \A d \in Commands : /\ ys'[d].status = "absent" <=> ys[d].status = "absent"
                              /\ ys'[d].status = "queued" => ys[d].status = "queued"
      BY <2>1
    <2>5. Passed(bridge.command)' /\ Passed(effect)'
      BY <2>2, <2>4, <1>0 DEF BridgeInv, BridgeTypeOK, Passed
    <2> QED
      BY <2>2, <2>3, <2>4, <2>5, <1>0 DEF BridgeInv, BridgeTypeOK
  <1>7. CASE Execute
    <2>1. /\ bridge.command \in Commands /\ bridge'.command = bridge.command
          /\ bridge' \in [pc : {"poll", "execute", "report"}, command : Commands \cup {0},
                          success : BOOLEAN]
          /\ bridge'.pc = "report"
          /\ effect' \in {effect, bridge.command}
          /\ bridgeOps' \in 0 .. MaxBridgeOps
          /\ UNCHANGED <<ys, answers, operator, again>>
      <3>1. bridge.command \in Commands
        BY <1>0, <1>7 DEF Execute, BridgeInv, BridgeTypeOK
      <3>2. \/ bridge' = [bridge EXCEPT !.pc = "report", !.success = TRUE]
            \/ bridge' = [bridge EXCEPT !.pc = "report"]
        BY <1>7 DEF Execute
      <3>3. bridgeOps' \in 0 .. MaxBridgeOps /\ effect' \in {effect, bridge.command}
        BY <1>0, <1>7 DEF Execute, BridgeUsed, BridgeTypeOK
      <3>4. /\ bridge'.command = bridge.command /\ bridge'.pc = "report"
            /\ bridge' \in [pc : {"poll", "execute", "report"},
                            command : Commands \cup {0}, success : BOOLEAN]
        BY <1>0, <3>2 DEF BridgeTypeOK
      <3> QED
        BY <1>7, <3>1, <3>3, <3>4 DEF Execute
    <2> QED
      BY <2>1, <1>0 DEF BridgeInv, BridgeTypeOK, Passed
  <1>8. CASE Report
    <2>1. /\ bridge.command \in Commands /\ bridge.success \in BOOLEAN
          /\ bridge' = IdleBridge
          /\ answers' = answers \cup
                 {[command |-> bridge.command, success |-> bridge.success]}
          /\ UNCHANGED <<ys, operator, effect, again, bridgeOps>>
      BY <1>0, <1>8 DEF Report, BridgeInv, BridgeTypeOK
    <2> QED
      BY <2>1, <1>0 DEF BridgeInv, BridgeTypeOK, Passed, IdleBridge
  <1>9. ASSUME NEW a \in answers, LoseAnswer(a)
        PROVE  BridgeInv'
    BY <1>0, <1>9 DEF LoseAnswer, BridgeUsed, BridgeInv, BridgeTypeOK, Passed
  <1>10. CASE Reboot
    BY <1>0, <1>10 DEF Reboot, BridgeUsed, IdleBridge, BridgeInv, BridgeTypeOK, Passed
  <1>11. CASE UNCHANGED bridgeVars
    BY <1>11 DEF bridgeVars, BridgeInv, BridgeTypeOK, Passed
  <1> QED
    BY <1>1, <1>2, <1>3, <1>4, <1>5, <1>6, <1>7, <1>8, <1>9, <1>10, <1>11 DEF BridgeNext

\* Only an operator's retry makes a succeeded command run again: no late,
\* repeated or lost answer and no overdue claim does (bridge_complete,
\* bridge_poll, retry_command).
THEOREM BridgeSuccessIsFinal == BridgeSpec => SuccessIsFinal
  <1>1. ASSUME BridgeInv, [BridgeNext]_bridgeVars
        PROVE  \A c \in Commands :
                 ys[c].status = "succeeded" =>
                   \/ ys'[c].status = "succeeded"
                   \/ \E o \in Operators : operator[o] = c /\ operator'[o] = 0
    <2> SUFFICES ASSUME NEW c \in Commands, ys[c].status = "succeeded"
                 PROVE  \/ ys'[c].status = "succeeded"
                        \/ \E o \in Operators : operator[o] = c /\ operator'[o] = 0
      OBVIOUS
    <2>0. BridgeTypeOK
      BY <1>1 DEF BridgeInv
    <2>1. ASSUME NEW d \in Commands, QueueCommand(d) \/ FifteenMinutes(d)
          PROVE  ys'[c].status = "succeeded"
      BY <2>0, <2>1 DEF QueueCommand, FifteenMinutes, InStatus, BridgeTypeOK, Row
    <2>2. CASE Poll
      <3>1. c \notin Overdue
        BY DEF Overdue, InStatus
      <3> QED
        BY <2>0, <2>2, <3>1, PollClaims
    <2>3. ASSUME NEW a \in answers, Complete(a)
          PROVE  ys'[c].status = "succeeded"
      BY <2>0, <2>3 DEF Complete, Answerable, InStatus, BridgeTypeOK, Row
    <2>4. ASSUME NEW o \in Operators, RetryWrite(o)
          PROVE  \/ ys'[c].status = "succeeded"
                 \/ operator[o] = c /\ operator'[o] = 0
      BY <2>0, <2>4 DEF RetryWrite, BridgeTypeOK, Row
    <2>5. ASSUME \/ \E o \in Operators, d \in Commands : RetryRead(o, d)
                 \/ \E a \in answers : LoseAnswer(a)
                 \/ Execute \/ Report \/ Reboot \/ UNCHANGED bridgeVars
          PROVE  UNCHANGED ys
      BY <2>5 DEF RetryRead, LoseAnswer, Execute, Report, Reboot, bridgeVars
    <2> QED
      BY <1>1, <2>1, <2>2, <2>3, <2>4, <2>5 DEF BridgeNext
  <1> QED
    BY <1>1, BridgeInitInv, BridgeStepInv, PTL DEF BridgeSpec, SuccessIsFinal

\* YSBrowser is changed in the order of the requests, except by commands that
\* were queued again (bridge_poll, YSBridgeAgent.ps1).
THEOREM BridgeEffectsInOrder == BridgeSpec => EffectsInOrder
  <1>1. ASSUME BridgeInv, [BridgeNext]_bridgeVars
        PROVE  effect' # effect => effect' > effect \/ effect' \in again'
    <2>1. CASE Execute
      <3>1. /\ effect' \in {effect, bridge.command} /\ again' = again
            /\ bridge.command # 0 /\ bridge.command \in Nat /\ effect \in Nat
        BY <1>1, <2>1, CommandsAreNumbered DEF Execute, BridgeInv, BridgeTypeOK
      <3> QED
        BY <1>1, <3>1 DEF BridgeInv
    <2>2. CASE ~Execute
      BY <1>1, <2>2 DEF BridgeNext, Poll, Report, Reboot, QueueCommand, FifteenMinutes,
           RetryWrite, RetryRead, Complete, LoseAnswer, bridgeVars
    <2> QED
      BY <2>1, <2>2
  <1> QED
    BY <1>1, BridgeInitInv, BridgeStepInv, PTL DEF BridgeSpec, EffectsInOrder

-----------------------------------------------------------------------------
(* Inventory alerts.                                                         *)

\* The request has changed the row of window w and not committed: it knows what
\* the row was, and its shortage is the only one counted that is not committed.
Holds(r, w) ==
    LET q == request[r] IN
    /\ q.pc \in {"inserted", "counted"} /\ q.window = w
    /\ alert[w].holder = {r}
    /\ alert[w].count = shortages[w] + 1 /\ q.was.count = shortages[w]
    /\ q.was.status = IF q.pc = "inserted" THEN "absent" ELSE alert[w].status
    /\ q.pc = "inserted" => shortages[w] = 0

\* The inductive invariant: a row is either settled, or held by the one request
\* that changed it, and it is not taken away from a request that found it.
AlertInv ==
    /\ AlertTypeOK
    /\ \A w \in Windows :
           /\ alert[w].status = "absent" => alert[w].holder = {} /\ alert[w].count = 0
           /\ alert[w].status = "sent" => heard[w] = Recipients
           /\ sender[w].told \subseteq heard[w]
           /\ \/ alert[w].holder = {} /\ alert[w].count = shortages[w]
              \/ \E r \in Requests : Holds(r, w)
    /\ \A r \in Requests : request[r].pc # "idle" => request[r].window \in Windows
    /\ \A r \in Requests, w \in Windows : request[r].window = w =>
           /\ request[r].pc \in {"inserted", "counted"} => Holds(r, w)
           /\ request[r].pc = "count" =>
                  /\ alert[w].status # "absent"
                  /\ \A o \in Requests : request[o].pc = "inserted" =>
                         request[o].window # w

LEMMA AlertInitInv == AlertInit => AlertInv
  <1>1. 1 \in Windows
    <2>1. Cardinality(Windows) \in Nat
      BY AlertAssumption, FS_CardinalityType
    <2> QED
      BY <2>1, AlertAssumption
  <1>2. NoAlert \in AlertRow
    BY DEF NoAlert, AlertRow, AlertStatus
  <1>3. IdleRequest \in AlertRequest
    BY <1>2 DEF IdleRequest, AlertRequest
  <1>4. NoTask \in AlertTask
    BY AlertAssumption DEF NoTask, AlertTask
  <1>5. AlertInit => AlertTypeOK
    BY <1>1, <1>2, <1>3, <1>4, AlertAssumption DEF AlertInit, AlertTypeOK
  <1> QED
    BY <1>5 DEF AlertInit, AlertInv, NoAlert, IdleRequest, NoTask

\* One request and the row of one window change, and the rest stays.
RowStep(w, r, row, q) ==
    /\ alert' = [alert EXCEPT ![w] = row] /\ request' = [request EXCEPT ![r] = q]
    /\ UNCHANGED <<alertSetting, window, sender, heard, lost>>
    /\ alertOps' \in 0 .. MaxAlertOps
    /\ shortages' \in [Windows -> Nat]
    /\ \A v \in Windows : v # w => shortages'[v] = shortages[v]
    /\ request[r].pc \in {"inserted", "counted"} => request[r].window = w
    /\ alert[w].holder \subseteq {r}
    /\ row.status = "absent" => row.holder = {} /\ row.count = 0
    /\ row.status = "sent" => alert[w].status = "sent"
    /\ \/ row.holder = {} /\ row.count = shortages'[w]
       \/ Holds(r, w)'
    /\ q.pc # "idle" => q.window = w
    /\ q.pc \in {"inserted", "counted"} => Holds(r, w)'
    /\ \A o \in Requests : o # r /\ request[o].pc = "count" /\ request[o].window = w =>
           row.status # "absent" /\ q.pc # "inserted"
    /\ q.pc = "count" => /\ row.status # "absent"
                         /\ \A o \in Requests \ {r} : request[o].pc = "inserted" =>
                                request[o].window # w

LEMMA AlertRowStep ==
  ASSUME AlertInv, NEW w \in Windows, NEW r \in Requests, NEW row \in AlertRow,
         NEW q \in AlertRequest, RowStep(w, r, row, q)
  PROVE  AlertInv'
  <1> USE DEF RowStep
  <1>1. AlertTypeOK'
    BY DEF AlertInv, AlertTypeOK
  <1>2. /\ \A v \in Windows : v # w => alert'[v] = alert[v]
        /\ \A o \in Requests : o # r => request'[o] = request[o]
        /\ alert'[w] = row /\ request'[r] = q
    BY DEF AlertInv, AlertTypeOK
  <1>3. ASSUME NEW v \in Windows, v # w, NEW o \in Requests, Holds(o, v)
        PROVE  Holds(o, v)'
    <2>1. o # r
      BY <1>3 DEF Holds
    <2> QED
      BY <1>2, <1>3, <2>1 DEF Holds
  <1>4. ASSUME NEW o \in Requests, o # r, NEW v \in Windows, request[o].window = v,
               request[o].pc \in {"inserted", "counted"}
        PROVE  Holds(o, v)'
    <2>1. Holds(o, v)
      BY <1>4 DEF AlertInv
    <2>2. v # w
      BY <1>4, <2>1 DEF Holds
    <2> QED
      BY <1>3, <1>4, <2>1, <2>2
  <1>5. ASSUME NEW v \in Windows
        PROVE  /\ alert'[v].status = "absent" => alert'[v].holder = {} /\ alert'[v].count = 0
               /\ alert'[v].status = "sent" => heard'[v] = Recipients
               /\ sender'[v].told \subseteq heard'[v]
               /\ \/ alert'[v].holder = {} /\ alert'[v].count = shortages'[v]
                  \/ \E o \in Requests : Holds(o, v)'
    BY <1>2, <1>3 DEF AlertInv
  <1>6. ASSUME NEW o \in Requests, NEW v \in Windows, request'[o].window = v
        PROVE  /\ request'[o].pc \in {"inserted", "counted"} => Holds(o, v)'
               /\ request'[o].pc = "count" =>
                      /\ alert'[v].status # "absent"
                      /\ \A p \in Requests : request'[p].pc = "inserted" =>
                             request'[p].window # v
    <2>1. CASE o = r
      <3>1. q.window = v
        BY <1>2, <1>6, <2>1
      <3>2. \A p \in Requests \ {r} : request'[p] = request[p]
        BY <1>2
      <3> QED
        BY <1>2, <2>1, <3>1, <3>2
    <2>2. CASE o # r
      <3>1. request'[o] = request[o]
        BY <1>2, <2>2
      <3>2. request'[o].pc \in {"inserted", "counted"} => Holds(o, v)'
        BY <1>4, <1>6, <2>2, <3>1
      <3>3. ASSUME request[o].pc = "count"
            PROVE  /\ alert'[v].status # "absent"
                   /\ \A p \in Requests : request'[p].pc = "inserted" =>
                          request'[p].window # v
        BY <1>2, <1>6, <2>2, <3>1, <3>3 DEF AlertInv
      <3> QED
        BY <3>1, <3>2, <3>3
    <2> QED
      BY <2>1, <2>2
  <1>7. \A o \in Requests : request'[o].pc # "idle" => request'[o].window \in Windows
    BY <1>2 DEF AlertInv
  <1> QED
    BY <1>1, <1>5, <1>6, <1>7 DEF AlertInv

\* Messages go their way, and a row that nobody holds is given another status.
MessagesMove ==
    /\ AlertTypeOK'
    /\ \A v \in Windows : heard[v] \subseteq heard'[v] /\ sender'[v].told \subseteq heard'[v]
    /\ UNCHANGED shortages
    /\ \A o \in Requests : \/ request'[o] = request[o]
                           \/ request[o].pc = "enqueue" /\ request'[o].pc = "idle"

StatusStep(w, row) ==
    /\ alert' = [alert EXCEPT ![w] = row]
    /\ row.holder = alert[w].holder /\ row.count = alert[w].count
    /\ \/ row.status = alert[w].status
       \/ alert[w].holder = {} /\ row.status # "absent"
    /\ row.status = "sent" => alert[w].status = "sent" \/ heard'[w] = Recipients

LEMMA AlertStatusStep ==
  ASSUME AlertInv, NEW w \in Windows, NEW row \in AlertRow, StatusStep(w, row),
         MessagesMove
  PROVE  AlertInv'
  <1> USE DEF StatusStep, MessagesMove
  <1>1. /\ \A v \in Windows : v # w => alert'[v] = alert[v]
        /\ alert'[w] = row
    BY DEF AlertInv, AlertTypeOK
  <1>2. \A v \in Windows : heard[v] = Recipients => heard'[v] = Recipients
    <2>1. \A v \in Windows : heard'[v] \subseteq Recipients
      BY DEF AlertTypeOK
    <2> QED
      BY <2>1
  <1>3. ASSUME NEW v \in Windows, NEW o \in Requests, Holds(o, v)
        PROVE  Holds(o, v)'
    <2>1. request'[o] = request[o] /\ alert[v].holder # {}
      BY <1>3 DEF Holds
    <2>2. /\ alert'[v].holder = alert[v].holder /\ alert'[v].count = alert[v].count
          /\ alert'[v].status = alert[v].status
      BY <1>1, <2>1
    <2> QED
      BY <1>3, <2>1, <2>2 DEF Holds
  <1>4. ASSUME NEW v \in Windows
        PROVE  /\ alert'[v].status = "absent" => alert'[v].holder = {} /\ alert'[v].count = 0
               /\ alert'[v].status = "sent" => heard'[v] = Recipients
               /\ sender'[v].told \subseteq heard'[v]
               /\ \/ alert'[v].holder = {} /\ alert'[v].count = shortages'[v]
                  \/ \E o \in Requests : Holds(o, v)'
    BY <1>1, <1>2, <1>3 DEF AlertInv
  <1>5. ASSUME NEW o \in Requests, NEW v \in Windows, request'[o].window = v
        PROVE  /\ request'[o].pc \in {"inserted", "counted"} => Holds(o, v)'
               /\ request'[o].pc = "count" =>
                      /\ alert'[v].status # "absent"
                      /\ \A p \in Requests : request'[p].pc = "inserted" =>
                             request'[p].window # v
    BY <1>1, <1>3, <1>5 DEF AlertInv
  <1>6. \A o \in Requests : request'[o].pc # "idle" => request'[o].window \in Windows
    BY DEF AlertInv
  <1> QED
    BY <1>4, <1>5, <1>6 DEF AlertInv

LEMMA AlertQuietStep ==
  ASSUME AlertInv, UNCHANGED alert, MessagesMove
  PROVE  AlertInv'
  <1>1. PICK w \in Windows : w = window
    BY DEF AlertInv, AlertTypeOK
  <1>2. PICK row \in AlertRow : row = alert[w]
    BY DEF AlertInv, AlertTypeOK
  <1>3. alert' = [alert EXCEPT ![w] = row]
    BY <1>2 DEF AlertInv, AlertTypeOK
  <1>4. StatusStep(w, row)
    BY <1>2, <1>3 DEF StatusStep
  <1> QED
    BY <1>4, AlertStatusStep

LEMMA AlertStepInv ==
  ASSUME AlertInv, [AlertNext]_alertVars
  PROVE  AlertInv'
  <1>0. /\ AlertTypeOK /\ alert \in [Windows -> AlertRow]
        /\ request \in [Requests -> AlertRequest]
        /\ shortages \in [Windows -> Nat] /\ sender \in [Windows -> AlertTask]
    BY DEF AlertInv, AlertTypeOK
  <1>a. NoAlert \in AlertRow /\ IdleRequest \in AlertRequest /\ NoTask \in AlertTask
    BY AlertAssumption DEF NoAlert, AlertRow, AlertStatus, IdleRequest, AlertRequest, NoTask, AlertTask
  <1>b. /\ IdleRequest.pc = "idle" /\ NoTask.told = {}
        /\ \A k \in {"insert", "commit"}, w \in Windows :
               Queued(k, w) \in [Windows -> AlertTask]
    BY <1>0, <1>a DEF IdleRequest, NoTask, Queued, AlertTask
  <1>c. /\ AlertUsed => alertOps' \in 0 .. MaxAlertOps
        /\ alertOps' = alertOps => alertOps' \in 0 .. MaxAlertOps
        /\ UNCHANGED shortages => shortages' \in [Windows -> Nat]
    BY <1>0, AlertAssumption DEF AlertUsed, AlertTypeOK
  <1>1. ASSUME NEW r \in Requests, Insert(r)
        PROVE  AlertInv'
    <2>0. PICK w \in Windows : w = window
      BY <1>0 DEF AlertTypeOK
    <2>1. /\ request[r].pc = "idle" /\ alertOps' \in 0 .. MaxAlertOps
          /\ shortages' \in [Windows -> Nat]
          /\ UNCHANGED <<alertSetting, window, heard, shortages, lost>>
      BY <1>1, <1>c DEF Insert
    <2>2. CASE alert[w].status = "absent"
      <3>1. PICK row \in AlertRow :
              /\ alert' = [alert EXCEPT ![w] = row]
              /\ row.status \in {"pending", "disabled"} /\ row.count = 1 /\ row.holder = {r}
        <4>1. \A s \in {"pending", "disabled"} :
                [status |-> s, count |-> 1, holder |-> {r}] \in AlertRow
          BY DEF AlertRow, AlertStatus
        <4> QED
          BY <1>1, <2>0, <2>2, <4>1 DEF Insert
      <3>2. PICK q \in AlertRequest :
              /\ request' = [request EXCEPT ![r] = q]
              /\ q.pc = "inserted" /\ q.window = w /\ q.was = alert[w]
        <4>1. [pc |-> "inserted", window |-> w, seen |-> 0, was |-> alert[w]] \in AlertRequest
          BY <1>0 DEF AlertRequest
        <4> QED
          BY <1>1, <2>0, <2>2, <4>1 DEF Insert
      <3>3. UNCHANGED sender
        BY <1>1, <2>0, <2>2 DEF Insert, Queued, EnqueuedAt
      <3>4. alert[w].holder = {} /\ alert[w].count = 0 /\ shortages[w] = 0
        BY <2>2 DEF AlertInv, Holds
      <3>5. Holds(r, w)'
        BY <1>0, <2>1, <2>2, <3>1, <3>2, <3>4 DEF Holds
      <3>6. \A o \in Requests : request[o].pc = "count" => request[o].window # w
        BY <2>2 DEF AlertInv
      <3>7. RowStep(w, r, row, q)
        BY <2>1, <3>1, <3>2, <3>3, <3>4, <3>5, <3>6 DEF RowStep
      <3> QED
        BY <3>7, AlertRowStep
    <2>3. CASE alert[w].status # "absent"
      <3>1. PICK q \in AlertRequest :
              /\ request' = [request EXCEPT ![r] = q] /\ q.pc = "count" /\ q.window = w
        <4>1. alert[w].count \in Nat
          BY <1>0 DEF AlertRow
        <4>2. [pc |-> "count", window |-> w, seen |-> alert[w].count, was |-> alert[w]]
                \in AlertRequest
          BY <1>0, <4>1 DEF AlertRequest
        <4> QED
          BY <1>1, <2>0, <2>3, <4>2 DEF Insert
      <3>2. PICK row \in AlertRow : row = alert[w]
        BY <1>0
      <3>3. alert' = [alert EXCEPT ![w] = row] /\ UNCHANGED sender /\ row.holder = {}
        BY <1>0, <1>1, <2>0, <2>3, <3>2 DEF Insert
      <3>4. \A o \in Requests : request[o].pc = "inserted" => request[o].window # w
        BY <3>2, <3>3 DEF AlertInv, Holds
      <3>5. row.count = shortages[w]
        BY <3>2, <3>3 DEF AlertInv, Holds
      <3>6. RowStep(w, r, row, q)
        BY <2>1, <2>3, <3>1, <3>2, <3>3, <3>4, <3>5 DEF RowStep
      <3> QED
        BY <3>6, AlertRowStep
    <2> QED
      BY <2>2, <2>3
  <1>2. ASSUME NEW r \in Requests, Count(r)
        PROVE  AlertInv'
    <2>0. PICK w \in Windows : w = request[r].window
      BY <1>2 DEF Count, AlertInv
    <2>1. /\ request[r].pc = "count" /\ alert[w].holder = {} /\ alert[w].status # "absent"
          /\ UNCHANGED <<alertSetting, window, sender, heard, shortages, lost, alertOps>>
      BY <1>2, <2>0 DEF Count, AlertInv
    <2>2. PICK row \in AlertRow :
            /\ alert' = [alert EXCEPT ![w] = row]
            /\ row.status = alert[w].status /\ row.holder = {r}
            /\ row.count = alert[w].count + 1
      <3>1. alert[w] \in AlertRow /\ Occurrences(request[r].seen, alert[w].count)
                                       = alert[w].count + 1
        BY <1>0 DEF Occurrences
      <3>2. [alert[w] EXCEPT !.count = alert[w].count + 1, !.holder = {r}] \in AlertRow
        <4>1. alert[w].count + 1 \in Nat
          BY <3>1 DEF AlertRow
        <4> QED
          BY <3>1, <4>1 DEF AlertRow
      <3>3. alert' = [alert EXCEPT ![w] =
                        [alert[w] EXCEPT !.count = alert[w].count + 1, !.holder = {r}]]
        BY <1>0, <1>2, <2>0, <3>1 DEF Count
      <3> QED
        BY <3>1, <3>2, <3>3 DEF AlertRow
    <2>3. PICK q \in AlertRequest :
            /\ request' = [request EXCEPT ![r] = q]
            /\ q.pc = "counted" /\ q.window = w /\ q.was = alert[w]
      <3>1. request[r] \in AlertRequest /\ alert[w] \in AlertRow
        BY <1>0
      <3>2. [request[r] EXCEPT !.pc = "counted", !.was = alert[w]] \in AlertRequest
        BY <3>1 DEF AlertRequest
      <3>3. request' = [request EXCEPT ![r] =
                          [request[r] EXCEPT !.pc = "counted", !.was = alert[w]]]
        BY <1>0, <1>2, <2>0 DEF Count
      <3> QED
        BY <2>0, <3>1, <3>2, <3>3 DEF AlertRequest
    <2>4. alert[w].count = shortages[w]
      BY <2>1 DEF AlertInv, Holds
    <2>5. Holds(r, w)'
      BY <1>0, <2>1, <2>2, <2>3, <2>4 DEF Holds
    <2>6. RowStep(w, r, row, q)
      BY <1>c, <2>0, <2>1, <2>2, <2>3, <2>4, <2>5 DEF RowStep
    <2> QED
      BY <2>6, AlertRowStep
  <1>3. ASSUME NEW r \in Requests, Commit(r)
        PROVE  AlertInv'
    <2>0. PICK w \in Windows : w = request[r].window
      BY <1>3 DEF Commit, AlertInv
    <2>1. /\ request[r].pc \in {"inserted", "counted"} /\ Holds(r, w)
          /\ shortages' = [shortages EXCEPT ![w] = @ + 1]
          /\ UNCHANGED <<alertSetting, window, sender, heard, lost, alertOps>>
      BY <1>3, <2>0 DEF Commit, AlertInv
    <2>2. PICK row \in AlertRow :
            /\ alert' = [alert EXCEPT ![w] = row]
            /\ row.status = alert[w].status /\ row.holder = {} /\ row.count = alert[w].count
      <3>1. [alert[w] EXCEPT !.holder = {}] \in AlertRow
        BY <1>0 DEF AlertRow
      <3> QED
        BY <1>0, <1>3, <2>0, <3>1 DEF Commit, AlertRow
    <2>3. PICK q \in AlertRequest :
            /\ request' = [request EXCEPT ![r] = q]
            /\ q.pc \in {"idle", "enqueue"} /\ (q.pc # "idle" => q.window = w)
      <3>1. request[r] \in AlertRequest
        BY <1>0
      <3>2. /\ [request[r] EXCEPT !.pc = "enqueue"] \in AlertRequest
            /\ [request[r] EXCEPT !.pc = "enqueue"].pc = "enqueue"
            /\ [request[r] EXCEPT !.pc = "enqueue"].window = w
        BY <2>0, <3>1 DEF AlertRequest
      <3>3. \/ request' = [request EXCEPT ![r] = [request[r] EXCEPT !.pc = "enqueue"]]
            \/ request' = [request EXCEPT ![r] = IdleRequest]
        BY <1>3 DEF Commit
      <3> QED
        BY <1>a, <1>b, <3>2, <3>3
    <2>4. /\ shortages' \in [Windows -> Nat] /\ shortages'[w] = shortages[w] + 1
          /\ \A v \in Windows : v # w => shortages'[v] = shortages[v]
      BY <1>0, <2>1
    <2>5. /\ alert[w].count = shortages[w] + 1 /\ alert[w].holder = {r}
          /\ alert[w].status # "absent"
      BY <2>1 DEF Holds, AlertInv
    <2>6. RowStep(w, r, row, q)
      BY <1>c, <2>0, <2>1, <2>2, <2>3, <2>4, <2>5 DEF RowStep
    <2> QED
      BY <2>6, AlertRowStep
  <1>4. ASSUME NEW r \in Requests, Rollback(r)
        PROVE  AlertInv'
    <2>0. PICK w \in Windows : w = request[r].window
      BY <1>4 DEF Rollback, AlertInv
    <2>1. /\ request[r].pc \in {"inserted", "counted"} /\ Holds(r, w)
          /\ request' = [request EXCEPT ![r] = IdleRequest]
          /\ UNCHANGED <<alertSetting, window, sender, heard, shortages, lost>>
          /\ alertOps' \in 0 .. MaxAlertOps
      BY <1>4, <1>c, <2>0 DEF Rollback, AlertInv
    <2>2. PICK row \in AlertRow :
            /\ alert' = [alert EXCEPT ![w] = row]
            /\ row.status = request[r].was.status /\ row.holder = {}
            /\ row.count = request[r].was.count
      <3>1. alert[w] \in AlertRow /\ request[r].was \in AlertRow
        BY <1>0 DEF AlertRequest
      <3>2. [alert[w] EXCEPT !.holder = {}, !.count = request[r].was.count,
                             !.status = request[r].was.status] \in AlertRow
        BY <3>1 DEF AlertRow
      <3>3. alert' = [alert EXCEPT ![w] =
               [alert[w] EXCEPT !.holder = {}, !.count = request[r].was.count,
                                !.status = request[r].was.status]]
        BY <1>0, <1>4, <2>0 DEF Rollback
      <3> QED
        BY <3>1, <3>2, <3>3 DEF AlertRow
    <2>3. /\ alert[w].holder = {r} /\ row.count = shortages[w]
          /\ alert[w].status # "absent"
          /\ request[r].pc = "inserted" => row.status = "absent" /\ row.count = 0
          /\ request[r].pc = "counted" => row.status = alert[w].status
      BY <2>1, <2>2 DEF Holds, AlertInv
    <2>4. request[r].pc = "inserted" =>
            \A o \in Requests : request[o].pc = "count" => request[o].window # w
      BY <2>0 DEF AlertInv
    <2>5. RowStep(w, r, row, IdleRequest)
      BY <1>b, <1>c, <2>0, <2>1, <2>2, <2>3, <2>4 DEF RowStep
    <2> QED
      BY <1>a, <2>5, AlertRowStep
  <1>d. ASSUME NEW w \in Windows, NEW s \in AlertStatus \ {"absent"},
               alert' = [alert EXCEPT ![w].status = s]
        PROVE  \E row \in AlertRow :
                 /\ alert' = [alert EXCEPT ![w] = row]
                 /\ row.holder = alert[w].holder /\ row.count = alert[w].count
                 /\ row.status = s
    <2>1. alert[w] \in AlertRow
      BY <1>0
    <2>2. /\ [alert[w] EXCEPT !.status = s] \in AlertRow
          /\ [alert[w] EXCEPT !.status = s].holder = alert[w].holder
          /\ [alert[w] EXCEPT !.status = s].count = alert[w].count
          /\ [alert[w] EXCEPT !.status = s].status = s
      BY <2>1 DEF AlertRow
    <2>3. alert' = [alert EXCEPT ![w] = [alert[w] EXCEPT !.status = s]]
      BY <1>d
    <2> QED
      BY <2>2, <2>3
  <1>5. ASSUME NEW r \in Requests, Enqueue(r)
        PROVE  AlertInv'
    <2>0. PICK w \in Windows : w = request[r].window
      BY <1>5 DEF Enqueue, AlertInv
    <2>1. /\ request[r].pc = "enqueue"
          /\ request' = [request EXCEPT ![r] = IdleRequest]
          /\ UNCHANGED <<alertSetting, window, heard, shortages, lost>>
      BY <1>5 DEF Enqueue
    <2>2. /\ request' \in [Requests -> AlertRequest]
          /\ \A o \in Requests : \/ request'[o] = request[o]
                                 \/ request[o].pc = "enqueue" /\ request'[o].pc = "idle"
      BY <1>0, <1>a, <1>b, <2>1
    <2>3. CASE sender' = Queued("commit", w) /\ UNCHANGED <<alert, alertOps>>
      <3>1. sender' \in [Windows -> AlertTask]
        BY <1>b, <2>3
      <3>2. \A v \in Windows : sender'[v].told \subseteq heard[v]
        BY <1>0, <1>b, <2>3 DEF Queued, EnqueuedAt, NoTask, AlertInv
      <3>3. AlertTypeOK'
        BY <1>0, <2>1, <2>2, <2>3, <3>1 DEF AlertTypeOK
      <3>4. MessagesMove
        BY <2>1, <2>2, <3>2, <3>3 DEF MessagesMove
      <3> QED
        BY <2>3, <3>4, AlertQuietStep
    <2>4. CASE /\ alert[w].holder = {} /\ AlertUsed /\ UNCHANGED sender
               /\ alert' = [alert EXCEPT ![w].status = "queue_failed"]
      <3>1. PICK row \in AlertRow :
              /\ alert' = [alert EXCEPT ![w] = row]
              /\ row.holder = alert[w].holder /\ row.count = alert[w].count
              /\ row.status = "queue_failed"
        BY <1>d, <2>4 DEF AlertStatus
      <3>2. AlertTypeOK'
        BY <1>0, <1>c, <2>1, <2>2, <2>4, <3>1 DEF AlertTypeOK
      <3>3. StatusStep(w, row)
        BY <2>4, <3>1 DEF StatusStep
      <3>4. MessagesMove
        BY <2>1, <2>2, <2>4, <3>2 DEF MessagesMove, AlertInv
      <3> QED
        BY <3>3, <3>4, AlertStatusStep
    <2> QED
      BY <1>5, <2>0, <2>3, <2>4 DEF Enqueue
  <1>6. ASSUME NEW r \in Requests, WebKilled(r)
        PROVE  AlertInv'
    <2>1. /\ request[r].pc = "enqueue" /\ request[r].window \in Windows
          /\ request' = [request EXCEPT ![r] = IdleRequest]
          /\ lost' = lost \cup {request[r].window}
          /\ UNCHANGED <<alertSetting, window, alert, sender, heard, shortages>>
          /\ alertOps' \in 0 .. MaxAlertOps
      BY <1>6, <1>c DEF WebKilled, AlertInv
    <2>2. /\ request' \in [Requests -> AlertRequest]
          /\ \A o \in Requests : \/ request'[o] = request[o]
                                 \/ request[o].pc = "enqueue" /\ request'[o].pc = "idle"
      BY <1>0, <1>a, <1>b, <2>1
    <2>3. AlertTypeOK'
      BY <1>0, <2>1, <2>2 DEF AlertTypeOK
    <2>4. MessagesMove
      BY <2>1, <2>2, <2>3 DEF MessagesMove, AlertInv
    <2> QED
      BY <2>1, <2>4, AlertQuietStep
  <1>e. ASSUME NEW w \in Windows, TaskEnds(w)
        PROVE  /\ sender' \in [Windows -> AlertTask]
               /\ \A v \in Windows : sender'[v].told \subseteq heard[v]
    BY <1>0, <1>a, <1>b, <1>e DEF TaskEnds, AlertInv
  <1>7. ASSUME NEW w \in Windows, TaskBegins(w)
        PROVE  AlertInv'
    <2>1. UNCHANGED <<alertSetting, window, request, heard, shortages, lost, alertOps>>
      BY <1>7 DEF TaskBegins
    <2>2. /\ sender' \in [Windows -> AlertTask]
          /\ \A v \in Windows : sender'[v].told \subseteq heard[v]
      <3>1. CASE TaskEnds(w)
        BY <1>e, <3>1
      <3>2. CASE sender' = [sender EXCEPT ![w].pc = "sending"]
        <4>1. /\ [sender[w] EXCEPT !.pc = "sending"] \in AlertTask
              /\ [sender[w] EXCEPT !.pc = "sending"].told = sender[w].told
          BY <1>0 DEF AlertTask
        <4>2. sender' = [sender EXCEPT ![w] = [sender[w] EXCEPT !.pc = "sending"]]
          BY <3>2
        <4> QED
          BY <1>0, <4>1, <4>2 DEF AlertInv
      <3> QED
        BY <1>7, <3>1, <3>2 DEF TaskBegins
    <2>3. CASE UNCHANGED alert
      <3>1. AlertTypeOK'
        BY <1>0, <2>1, <2>2, <2>3 DEF AlertTypeOK
      <3>2. MessagesMove
        BY <2>1, <2>2, <3>1 DEF MessagesMove
      <3> QED
        BY <2>3, <3>2, AlertQuietStep
    <2>4. CASE ~ UNCHANGED alert
      <3>1. PICK s \in {"disabled", "config_error"} :
              alert[w].holder = {} /\ alert' = [alert EXCEPT ![w].status = s]
        BY <1>7, <2>4 DEF TaskBegins
      <3>2. PICK row \in AlertRow :
              /\ alert' = [alert EXCEPT ![w] = row]
              /\ row.holder = alert[w].holder /\ row.count = alert[w].count
              /\ row.status = s
        <4>1. s \in AlertStatus \ {"absent"}
          BY DEF AlertStatus
        <4> QED
          BY <1>d, <3>1, <4>1
      <3>3. AlertTypeOK'
        BY <1>0, <2>1, <2>2, <3>2 DEF AlertTypeOK
      <3>4. MessagesMove /\ StatusStep(w, row)
        BY <2>1, <2>2, <3>1, <3>2, <3>3 DEF MessagesMove, StatusStep
      <3> QED
        BY <3>4, AlertStatusStep
    <2> QED
      BY <2>3, <2>4
  <1>8. ASSUME NEW w \in Windows, SendOne(w)
        PROVE  AlertInv'
    <2>1. PICK p \in Recipients \ sender[w].told :
            /\ sender' = [sender EXCEPT ![w].told = @ \cup {p}]
            /\ heard' = [heard EXCEPT ![w] = @ \cup {p}]
      BY <1>8 DEF SendOne
    <2>2. UNCHANGED <<alertSetting, window, alert, request, shortages, lost, alertOps>>
      BY <1>8 DEF SendOne
    <2>3. heard' \in [Windows -> SUBSET Recipients] /\ heard'[w] = heard[w] \cup {p}
          /\ \A v \in Windows : heard[v] \subseteq heard'[v]
      BY <1>0, <2>1 DEF AlertTypeOK
    <2>4. /\ sender' \in [Windows -> AlertTask] /\ sender'[w].told = sender[w].told \cup {p}
          /\ \A v \in Windows : v # w => sender'[v] = sender[v]
      <3>1. /\ [sender[w] EXCEPT !.told = sender[w].told \cup {p}] \in AlertTask
            /\ [sender[w] EXCEPT !.told = sender[w].told \cup {p}].told
                 = sender[w].told \cup {p}
        BY <1>0 DEF AlertTask
      <3>2. sender' = [sender EXCEPT ![w] =
                         [sender[w] EXCEPT !.told = sender[w].told \cup {p}]]
        BY <1>0, <2>1
      <3> QED
        BY <1>0, <3>1, <3>2
    <2>5. AlertTypeOK'
      BY <1>0, <2>2, <2>3, <2>4 DEF AlertTypeOK
    <2>6. \A v \in Windows : sender'[v].told \subseteq heard'[v]
      BY <2>3, <2>4 DEF AlertInv
    <2>7. MessagesMove
      BY <2>2, <2>3, <2>5, <2>6 DEF MessagesMove
    <2> QED
      BY <2>2, <2>7, AlertQuietStep
  <1>9. ASSUME NEW w \in Windows, SendFails(w) \/ MarkSent(w)
        PROVE  AlertInv'
    <2>1. /\ alert[w].holder = {}
          /\ UNCHANGED <<alertSetting, window, request, heard, shortages, lost, alertOps>>
      BY <1>9 DEF SendFails, MarkSent
    <2>2. /\ sender' \in [Windows -> AlertTask]
          /\ \A v \in Windows : sender'[v].told \subseteq heard[v]
      <3>1. CASE TaskEnds(w)
        BY <1>e, <3>1
      <3>2. CASE /\ sender[w].tries < AlertRetries
                 /\ sender' = [sender EXCEPT ![w] =
                        [pc |-> "queued", told |-> {}, tries |-> sender[w].tries + 1]]
        <4>1. [pc |-> "queued", told |-> {}, tries |-> sender[w].tries + 1] \in AlertTask
          <5>1. sender[w].tries \in 0 .. AlertRetries
            BY <1>0 DEF AlertTask
          <5>2. sender[w].tries + 1 \in 0 .. AlertRetries
            BY <3>2, <5>1, AlertAssumption
          <5> QED
            BY <5>2 DEF AlertTask
        <4> QED
          BY <1>0, <3>2, <4>1 DEF AlertInv
      <3> QED
        BY <1>9, <3>1, <3>2 DEF SendFails, MarkSent
    <2>3. PICK s \in {"failed", "sent"} :
            /\ alert' = [alert EXCEPT ![w].status = s]
            /\ s = "sent" => sender[w].told = Recipients
      BY <1>9 DEF SendFails, MarkSent, EveryoneTold
    <2>4. PICK row \in AlertRow :
            /\ alert' = [alert EXCEPT ![w] = row]
            /\ row.holder = alert[w].holder /\ row.count = alert[w].count
            /\ row.status = s
      <3>1. s \in AlertStatus \ {"absent"}
        BY DEF AlertStatus
      <3> QED
        BY <1>d, <2>3, <3>1
    <2>5. AlertTypeOK'
      BY <1>0, <2>1, <2>2, <2>4 DEF AlertTypeOK
    <2>6. s = "sent" => heard[w] = Recipients
      BY <2>3 DEF AlertInv, AlertTypeOK
    <2>7. MessagesMove /\ StatusStep(w, row)
      BY <2>1, <2>2, <2>4, <2>5, <2>6 DEF MessagesMove, StatusStep
    <2> QED
      BY <2>7, AlertStatusStep
  <1>10. ASSUME NEW w \in Windows, SenderKilled(w)
         PROVE  AlertInv'
    <2>1. /\ UNCHANGED <<alertSetting, window, alert, request, heard, shortages>>
          /\ alertOps' \in 0 .. MaxAlertOps /\ lost' = lost \cup {w} /\ TaskEnds(w)
      BY <1>10, <1>c DEF SenderKilled
    <2>2. AlertTypeOK'
      BY <1>0, <1>e, <2>1 DEF AlertTypeOK
    <2>3. MessagesMove
      BY <1>e, <2>1, <2>2 DEF MessagesMove
    <2> QED
      BY <2>1, <2>3, AlertQuietStep
  <1>11. CASE NextWindow \/ ChangeSetting \/ UNCHANGED alertVars
    <2>1. /\ UNCHANGED <<alert, request, sender, heard, shortages, lost>>
          /\ alertOps' \in 0 .. MaxAlertOps /\ window' \in Windows
          /\ alertSetting' \in {"enabled", "disabled", "unconfigured"}
      BY <1>11, <1>0, <1>c DEF NextWindow, ChangeSetting, alertVars, AlertTypeOK
    <2>2. AlertTypeOK'
      BY <1>0, <2>1 DEF AlertTypeOK
    <2>3. MessagesMove
      BY <2>1, <2>2 DEF MessagesMove, AlertInv
    <2> QED
      BY <2>1, <2>3, AlertQuietStep
  <1> QED
    BY <1>1, <1>2, <1>3, <1>4, <1>5, <1>6, <1>7, <1>8, <1>9, <1>10, <1>11 DEF AlertNext

\* Once no transaction holds it, the row of a window counts every shortage that
\* was committed, and says "sent" only when every recipient has the alert
\* (record_proxy_inventory_shortage, send_proxy_inventory_alert).
THEOREM AlertCountsAndTells == AlertSpec => []AlertIsTrue
  <1>1. AlertInv => AlertIsTrue
    BY DEF AlertInv, AlertIsTrue, Holds
  <1> QED
    BY <1>1, AlertInitInv, AlertStepInv, PTL DEF AlertSpec

-----------------------------------------------------------------------------
(* Domain reports.                                                           *)

Lists(r, d) == \E i \in 1 .. Len(Order(r)) : Order(r)[i] = d
Wrote(r, d) == \E i \in 1 .. Len(Order(r)) : i < report[r].next /\ Order(r)[i] = d

\* The inductive invariant: a report holds exactly the rows it has written and
\* knows what each was when it was settled.
ReportInv ==
    /\ ReportTypeOK
    /\ \A r \in Reports : report[r].pc = "idle" => report[r].next = 1
    /\ \A d \in Listed :
           \/ domainRow[d].holder = {} /\ domainRow[d].from = LastAccepted(d)
           \/ \E r \in Reports : domainRow[d].holder = {r} /\ Wrote(r, d)
    /\ \A d \in Listed, r \in Reports : Wrote(r, d) =>
           /\ domainRow[d].holder = {r} /\ domainRow[d].from = {r}
           /\ report[r].was[d] = LastAccepted(d)

LEMMA ListedRows ==
  /\ \A r \in Reports : \A d : d \in ToSet(Order(r)) <=> Lists(r, d)
  /\ \A r \in Reports : \A d : Lists(r, d) => d \in Listed
  /\ \A r \in Reports : Len(Order(r)) \in Nat
  BY ReportAssumption DEF Lists, Listed, ToSet

LEMMA ReportInitInv == ReportInit => ReportInv
  <1> SUFFICES ASSUME ReportInit
               PROVE  ReportInv
    OBVIOUS
  <1>1. AbsentRow \in DomainRow /\ IdleReport \in ReportState
    BY DEF AbsentRow, DomainRow, IdleReport, ReportState
  <1>2. ReportTypeOK
    BY <1>1, ListedRows, ReportAssumption DEF ReportInit, ReportTypeOK, IdleReport
  <1>3. \A d : LastAccepted(d) = {}
    BY DEF ReportInit, LastAccepted
  <1>4. \A r \in Reports : \A d : ~ Wrote(r, d)
    BY DEF ReportInit, IdleReport, Wrote
  <1> QED
    BY <1>2, <1>3, <1>4 DEF ReportInit, ReportInv, IdleReport, AbsentRow

\* What a commit, and nothing else, does to what counts as the last report.
LEMMA AcceptedSame ==
  ASSUME UNCHANGED committed, NEW d
  PROVE  LastAccepted(d)' = LastAccepted(d)
  BY DEF LastAccepted

LEMMA AcceptedNext ==
  ASSUME committed \in Seq(Reports), NEW r \in Reports, committed' = Append(committed, r),
         NEW d
  PROVE  LastAccepted(d)' = IF Lists(r, d) THEN {r} ELSE LastAccepted(d)
  <1> DEFINE n == Len(committed)
  <1>1. /\ n \in Nat /\ DOMAIN committed = 1 .. n /\ DOMAIN committed' = 1 .. n + 1
        /\ committed'[n + 1] = r
        /\ \A i \in 1 .. n : committed'[i] = committed[i]
    OBVIOUS
  <1> HIDE DEF n
  <1>2. CASE Lists(r, d)
    <2>1. d \in ToSet(Order(r))
      BY <1>2, ListedRows
    <2>2. r \in LastAccepted(d)'
      BY <1>1, <2>1 DEF LastAccepted
    <2>3. ASSUME NEW o \in LastAccepted(d)'
          PROVE  o = r
      <3>1. PICK i \in 1 .. n + 1 :
              /\ committed'[i] = o
              /\ \A j \in 1 .. n + 1 : j > i => d \notin ToSet(Order(committed'[j]))
        BY <1>1, <2>3 DEF LastAccepted
      <3>2. ~ (n + 1 > i)
        BY <1>1, <2>1, <3>1
      <3> QED
        BY <1>1, <3>1, <3>2
    <2> QED
      BY <1>2, <2>2, <2>3
  <1>3. CASE ~ Lists(r, d)
    <2>1. d \notin ToSet(Order(r))
      BY <1>3, ListedRows
    <2>2. LastAccepted(d) \subseteq LastAccepted(d)'
      BY <1>1, <2>1 DEF LastAccepted
    <2>3. ASSUME NEW o \in LastAccepted(d)'
          PROVE  o \in LastAccepted(d)
      <3>1. PICK i \in 1 .. n + 1 :
              /\ committed'[i] = o /\ d \in ToSet(Order(o)) /\ o \in Reports
              /\ \A j \in 1 .. n + 1 : j > i => d \notin ToSet(Order(committed'[j]))
        BY <1>1, <2>3 DEF LastAccepted
      <3>2. i # n + 1
        BY <1>1, <2>1, <3>1
      <3> QED
        BY <1>1, <3>1, <3>2 DEF LastAccepted
    <2> QED
      BY <1>3, <2>2, <2>3
  <1> QED
    BY <1>2, <1>3

\* A report that ends lets go of the rows it wrote and of no others; each of them
\* is left as v says.
LEMMA ReportEnds ==
  ASSUME ReportInv, NEW r \in Reports, NEW v \in [Listed -> SUBSET Reports],
         domainRow' = [d \in Listed |->
             IF domainRow[d].holder = {r} THEN [from |-> v[d], holder |-> {}]
             ELSE domainRow[d]],
         report' = [report EXCEPT ![r] = IdleReport],
         committed' \in Seq(Reports), reportOps' \in 0 .. MaxReportOps,
         \A d \in Listed : Wrote(r, d) => v[d] = LastAccepted(d)',
         \A d \in Listed : ~ Wrote(r, d) => LastAccepted(d)' = LastAccepted(d)
  PROVE  ReportInv'
  <1>1. IdleReport \in ReportState /\ IdleReport.next = 1
    BY DEF IdleReport, ReportState
  <1>2. ReportTypeOK'
    <2>1. domainRow' \in [Listed -> DomainRow]
      BY DEF ReportInv, ReportTypeOK, DomainRow
    <2>2. report' \in [Reports -> ReportState]
      BY <1>1 DEF ReportInv, ReportTypeOK
    <2>3. \A o \in Reports : report'[o].next \in 1 .. Len(Order(o)) + 1
      BY <1>1, ListedRows DEF ReportInv, ReportTypeOK
    <2> QED
      BY <2>1, <2>2, <2>3 DEF ReportTypeOK
  <1>3. /\ report'[r].next = 1
        /\ \A o \in Reports : o # r => report'[o] = report[o]
    BY <1>1 DEF ReportInv, ReportTypeOK
  <1>4. /\ \A d : ~ Wrote(r, d)'
        /\ \A o \in Reports : \A d : o # r => (Wrote(o, d)' <=> Wrote(o, d))
    BY <1>3 DEF Wrote
  <1>5. ASSUME NEW d \in Listed, Wrote(r, d)
        PROVE  /\ domainRow'[d].holder = {} /\ domainRow'[d].from = LastAccepted(d)'
               /\ \A o \in Reports : ~ Wrote(o, d)'
    <2>1. domainRow[d].holder = {r}
      BY <1>5 DEF ReportInv
    <2>2. \A o \in Reports : Wrote(o, d) => o = r
      BY <2>1 DEF ReportInv
    <2>3. /\ domainRow'[d] = [from |-> v[d], holder |-> {}]
          /\ v[d] = LastAccepted(d)'
      BY <1>5, <2>1
    <2> QED
      BY <1>4, <1>5, <2>2, <2>3
  <1>6. ASSUME NEW d \in Listed, ~ Wrote(r, d)
        PROVE  domainRow'[d] = domainRow[d] /\ LastAccepted(d)' = LastAccepted(d)
    <2>1. domainRow[d].holder # {r}
      BY <1>6 DEF ReportInv
    <2> QED
      BY <1>6, <2>1
  <1>7. ASSUME NEW d \in Listed
        PROVE  /\ \/ domainRow'[d].holder = {} /\ domainRow'[d].from = LastAccepted(d)'
                  \/ \E o \in Reports : domainRow'[d].holder = {o} /\ Wrote(o, d)'
               /\ \A o \in Reports : Wrote(o, d)' =>
                      /\ domainRow'[d].holder = {o} /\ domainRow'[d].from = {o}
                      /\ report'[o].was[d] = LastAccepted(d)'
    <2>1. CASE Wrote(r, d)
      BY <1>5, <2>1
    <2>2. CASE ~ Wrote(r, d)
      <3>1. domainRow'[d] = domainRow[d] /\ LastAccepted(d)' = LastAccepted(d)
        BY <1>6, <2>2
      <3>2. \A o \in Reports : Wrote(o, d)' <=> Wrote(o, d)
        BY <1>4, <2>2
      <3>3. \A o \in Reports : Wrote(o, d) => report'[o] = report[o]
        BY <1>3, <2>2
      <3> QED
        BY <3>1, <3>2, <3>3 DEF ReportInv
    <2> QED
      BY <2>1, <2>2
  <1>8. \A o \in Reports : report'[o].pc = "idle" => report'[o].next = 1
    BY <1>3 DEF ReportInv
  <1> QED
    BY <1>2, <1>7, <1>8 DEF ReportInv

LEMMA ReportStepInv ==
  ASSUME ReportInv, [ReportNext]_reportVars
  PROVE  ReportInv'
  <1>0. ReportTypeOK
    BY DEF ReportInv
  <1>1. ASSUME NEW r \in Reports, ReportBegins(r)
        PROVE  ReportInv'
    <2>1. /\ report' = [report EXCEPT ![r] = [report[r] EXCEPT !.pc = "write"]]
          /\ UNCHANGED <<domainRow, committed>> /\ reportOps' \in 0 .. MaxReportOps
      BY <1>0, <1>1, ReportAssumption DEF ReportBegins, ReportTypeOK
    <2>2. /\ [report[r] EXCEPT !.pc = "write"] \in ReportState
          /\ [report[r] EXCEPT !.pc = "write"].next = report[r].next
          /\ [report[r] EXCEPT !.pc = "write"].was = report[r].was
          /\ [report[r] EXCEPT !.pc = "write"].pc = "write"
      BY <1>0 DEF ReportTypeOK, ReportState
    <2>3. /\ report' \in [Reports -> ReportState]
          /\ \A o \in Reports : /\ report'[o].next = report[o].next
                                /\ report'[o].was = report[o].was
                                /\ report'[o].pc = "idle" => report[o].pc = "idle"
      BY <1>0, <2>1, <2>2 DEF ReportTypeOK
    <2>4. \A o \in Reports : \A d : Wrote(o, d)' <=> Wrote(o, d)
      BY <2>3 DEF Wrote
    <2>5. \A d : LastAccepted(d)' = LastAccepted(d)
      BY <2>1, AcceptedSame
    <2>6. ReportTypeOK'
      BY <1>0, <2>1, <2>3 DEF ReportTypeOK
    <2> QED
      BY <2>1, <2>3, <2>4, <2>5, <2>6 DEF ReportInv
  <1>2. ASSUME NEW r \in Reports, WriteRow(r)
        PROVE  ReportInv'
    <2>0. PICK d : d = Current(r)
      OBVIOUS
    <2>1. /\ report[r].pc = "write" /\ report[r].next \in 1 .. Len(Order(r))
          /\ Order(r)[report[r].next] = d /\ d \in Listed
          /\ domainRow[d].holder \in {{}, {r}}
          /\ UNCHANGED <<committed, reportOps>>
      <3>1. report[r].next \in 1 .. Len(Order(r))
        BY <1>0, <1>2, ListedRows DEF WriteRow, ReportTypeOK
      <3>2. Order(r)[report[r].next] = d
        BY <2>0 DEF Current
      <3>3. d \in Listed
        BY <3>1, <3>2, ListedRows DEF Lists
      <3> QED
        BY <1>2, <2>0, <3>1, <3>2, <3>3 DEF WriteRow, Waits
    <2>2. ~ Wrote(r, d)
      BY <1>0, <2>1, ReportAssumption, ListedRows DEF Wrote, ReportTypeOK
    <2>3. /\ domainRow[d].holder = {} /\ domainRow[d].from = LastAccepted(d)
          /\ \A o \in Reports : ~ Wrote(o, d)
      <3>1. \A o \in Reports : Wrote(o, d) => domainRow[d].holder = {o}
        BY <2>1 DEF ReportInv
      <3>2. \A o \in Reports : ~ Wrote(o, d)
        BY <2>1, <2>2, <3>1
      <3> QED
        BY <2>1, <3>2 DEF ReportInv
    <2>4. PICK q \in ReportState :
            /\ report' = [report EXCEPT ![r] = q]
            /\ q.pc = "write" /\ q.next = report[r].next + 1
            /\ q.was[d] = LastAccepted(d)
            /\ \A e \in Listed : e # d => q.was[e] = report[r].was[e]
      <3>1. report[r] \in ReportState /\ domainRow[d].from \in SUBSET Reports
        BY <1>0, <2>1 DEF ReportTypeOK, DomainRow
      <3>0. PICK old \in ReportState : old = report[r]
        BY <3>1
      <3>2. PICK was \in [Listed -> SUBSET Reports] :
              was = [old.was EXCEPT ![d] = domainRow[d].from]
        BY <3>1 DEF ReportState
      <3>3. PICK n \in Nat : n = old.next + 1
        BY DEF ReportState
      <3>4. PICK q \in ReportState :
              /\ q = [old EXCEPT !.next = n, !.was = was]
              /\ q.pc = old.pc /\ q.next = n /\ q.was = was
        <4>1. /\ [old EXCEPT !.next = n, !.was = was] \in ReportState
              /\ [old EXCEPT !.next = n, !.was = was].pc = old.pc
              /\ [old EXCEPT !.next = n, !.was = was].next = n
              /\ [old EXCEPT !.next = n, !.was = was].was = was
          BY DEF ReportState
        <4> QED
          BY <4>1
      <3>5. report' = [report EXCEPT ![r].next = n, ![r].was = was]
        <4>1. /\ report[r].next + 1 = n
              /\ [report[r].was EXCEPT ![d] = domainRow[d].from] = was
          BY <3>0, <3>2, <3>3
        <4>2. report' = [report EXCEPT ![r].next = report[r].next + 1,
                              ![r].was = [report[r].was EXCEPT ![d] = domainRow[d].from]]
          BY <1>0, <1>2, <2>0 DEF WriteRow, ReportTypeOK
        <4> QED
          BY <4>1, <4>2
      <3>6. report' = [report EXCEPT ![r] = q]
        BY <1>0, <3>0, <3>4, <3>5 DEF ReportTypeOK
      <3>7. was[d] = LastAccepted(d) /\ \A e \in Listed : e # d => was[e] = report[r].was[e]
        BY <2>1, <2>3, <3>0, <3>1, <3>2 DEF ReportState
      <3> QED
        <4>1. q.pc = "write" /\ q.next = report[r].next + 1
          BY <2>1, <3>0, <3>3, <3>4
        <4>2. /\ q.was[d] = LastAccepted(d)
              /\ \A e \in Listed : e # d => q.was[e] = report[r].was[e]
          BY <3>4, <3>7
        <4> QED
          BY <3>6, <4>1, <4>2
    <2>5. domainRow' = [domainRow EXCEPT ![d] = [from |-> {r}, holder |-> {r}]]
      BY <1>2, <2>0 DEF WriteRow, HeldBy
    <2>6. /\ domainRow' \in [Listed -> DomainRow]
          /\ domainRow'[d].from = {r} /\ domainRow'[d].holder = {r}
          /\ \A e \in Listed : e # d => domainRow'[e] = domainRow[e]
      BY <1>0, <2>1, <2>5 DEF ReportTypeOK, DomainRow
    <2>7. /\ report' \in [Reports -> ReportState] /\ report'[r] = q
          /\ \A o \in Reports : o # r => report'[o] = report[o]
      BY <1>0, <2>4 DEF ReportTypeOK
    <2>8. report'[r].next \in 1 .. Len(Order(r)) + 1
      BY <2>1, <2>4, <2>7, ListedRows
    <2>9. ReportTypeOK'
      BY <1>0, <2>1, <2>6, <2>7, <2>8 DEF ReportTypeOK
    <2>10. /\ Wrote(r, d)'
           /\ \A e : e # d => (Wrote(r, e)' <=> Wrote(r, e))
           /\ \A o \in Reports : \A e : o # r => (Wrote(o, e)' <=> Wrote(o, e))
      <3>1. \A i \in 1 .. Len(Order(r)) :
              i < report'[r].next <=> i < report[r].next \/ i = report[r].next
        BY <2>1, <2>4, <2>7, ListedRows
      <3> QED
        BY <2>1, <2>7, <3>1 DEF Wrote
    <2>11. \A e : LastAccepted(e)' = LastAccepted(e)
      BY <2>1, AcceptedSame
    <2>12. ASSUME NEW e \in Listed
           PROVE  /\ \/ domainRow'[e].holder = {} /\ domainRow'[e].from = LastAccepted(e)'
                     \/ \E o \in Reports : domainRow'[e].holder = {o} /\ Wrote(o, e)'
                  /\ \A o \in Reports : Wrote(o, e)' =>
                         /\ domainRow'[e].holder = {o} /\ domainRow'[e].from = {o}
                         /\ report'[o].was[e] = LastAccepted(e)'
      <3>1. CASE e = d
        BY <2>3, <2>4, <2>6, <2>7, <2>10, <2>11, <3>1
      <3>2. CASE e # d
        BY <2>4, <2>6, <2>7, <2>10, <2>11, <3>2 DEF ReportInv
      <3> QED
        BY <3>1, <3>2
    <2> QED
      BY <2>4, <2>7, <2>9, <2>12 DEF ReportInv
  <1>3. ASSUME NEW r \in Reports, ReportCommits(r)
        PROVE  ReportInv'
    <2> DEFINE v == [d \in Listed |-> {r}]
    <2>1. /\ report[r].next = Len(Order(r)) + 1 /\ UNCHANGED reportOps
          /\ committed' = Append(committed, r)
          /\ report' = [report EXCEPT ![r] = IdleReport]
      BY <1>3 DEF ReportCommits
    <2>2. \A d : Wrote(r, d) <=> Lists(r, d)
      BY <2>1, ListedRows DEF Wrote, Lists
    <2>3. ASSUME NEW d \in Listed, domainRow[d].holder = {r}
          PROVE  [domainRow[d] EXCEPT !.holder = {}] = [from |-> v[d], holder |-> {}]
      <3>1. Wrote(r, d)
        BY <2>3 DEF ReportInv
      <3>2. domainRow[d].from = {r} /\ domainRow[d] \in DomainRow
        BY <1>0, <3>1 DEF ReportInv, ReportTypeOK
      <3> QED
        BY <3>2 DEF DomainRow
    <2>4. domainRow' = [d \in Listed |->
             IF domainRow[d].holder = {r} THEN [from |-> v[d], holder |-> {}]
             ELSE domainRow[d]]
      BY <1>3, <2>3 DEF ReportCommits
    <2>5. committed \in Seq(Reports) /\ committed' \in Seq(Reports)
      BY <1>0, <2>1 DEF ReportTypeOK
    <2>6. \A d : LastAccepted(d)' = IF Lists(r, d) THEN {r} ELSE LastAccepted(d)
      BY <2>1, <2>5, AcceptedNext
    <2>7. reportOps' \in 0 .. MaxReportOps
      BY <1>0, <2>1 DEF ReportTypeOK
    <2>8. v \in [Listed -> SUBSET Reports] /\ \A d \in Listed : v[d] = {r}
      OBVIOUS
    <2> HIDE DEF v
    <2>9. \A d \in Listed : Wrote(r, d) => v[d] = LastAccepted(d)'
      BY <2>2, <2>6, <2>8
    <2>10. \A d \in Listed : ~ Wrote(r, d) => LastAccepted(d)' = LastAccepted(d)
      BY <2>2, <2>6
    <2> QED
      BY <2>1, <2>4, <2>5, <2>7, <2>8, <2>9, <2>10, ReportEnds
  <1>4. ASSUME NEW r \in Reports, ReportFails(r)
        PROVE  ReportInv'
    <2> DEFINE v == report[r].was
    <2>1. /\ report' = [report EXCEPT ![r] = IdleReport] /\ UNCHANGED committed
          /\ domainRow' = [d \in Listed |->
                IF domainRow[d].holder = {r} THEN [from |-> v[d], holder |-> {}]
                ELSE domainRow[d]]
          /\ committed' \in Seq(Reports)
      BY <1>0, <1>4 DEF ReportFails, ReportTypeOK
    <2>2. reportOps' \in 0 .. MaxReportOps
      BY <1>0, <1>4, ReportAssumption DEF ReportFails, ReportTypeOK
    <2>3. \A d : LastAccepted(d)' = LastAccepted(d)
      BY <2>1, AcceptedSame
    <2>4. v \in [Listed -> SUBSET Reports]
      BY <1>0 DEF ReportTypeOK, ReportState
    <2>5. \A d \in Listed : Wrote(r, d) => v[d] = LastAccepted(d)'
      BY <2>3 DEF ReportInv
    <2> QED
      BY <2>1, <2>2, <2>3, <2>4, <2>5, ReportEnds
  <1>5. CASE UNCHANGED reportVars
    <2>1. \A d : LastAccepted(d)' = LastAccepted(d)
      BY <1>5, AcceptedSame DEF reportVars
    <2> QED
      BY <1>5, <2>1 DEF reportVars, ReportInv, ReportTypeOK, Wrote
  <1> QED
    BY <1>1, <1>2, <1>3, <1>4, <1>5 DEF ReportNext

\* Every settled row is from the last accepted report that lists its domain,
\* whatever orders overlapping reports write in and whichever fail
\* (profile_domains).
THEOREM ReportsNotTorn == ReportSpec => []ReportNotTorn
  <1>1. ReportInv => ReportNotTorn
    BY DEF ReportInv, ReportNotTorn
  <1> QED
    BY <1>1, ReportInitInv, ReportStepInv, PTL DEF ReportSpec

-----------------------------------------------------------------------------
(* Provisioning.                                                             *)

\* Pools are of the sizes they were given, and no fuller.
PoolsSound ==
    /\ pool \in [Places -> Pool] /\ peak \in [Places -> Nat]
    /\ \A p \in Places : /\ pool[p].active => pool[p].exists
                         /\ pool[p].target <= peak[p] /\ pool[p].stock <= peak[p]

\* What others are halfway through is about pools that exist.
OthersSound ==
    /\ others \in OthersWork
    /\ others.op \in {"resize", "expand", "bulk", "fill"} => others.places \subseteq Existing
    /\ others.op \in {"bulk", "fill"} => others.places # {}

Planned(p) ==
    pool[p].active /\ pool[p].target = PlannedCount(p) /\ pool[p].below = Below(p)

\* Where the command has the pools it wants: every one of them created.
Created == {"read", "size", "fill", "wait", "done"}

\* What the command knows of the pools, whatever others change meanwhile.
RunSound ==
    /\ run \in Prefill
    /\ run.missing \subseteq run.batch /\ run.batch \subseteq run.wanted
    /\ run.todo \cup run.changed \cup run.failures \subseteq run.wanted
    /\ run.listed \cup run.changed \subseteq Existing
    /\ run.stale \cap run.wanted = {}
    /\ geo = "P3" => run.mode # "catalog" /\ run.pc \notin {"regions", "cities", "deactivate"}
    /\ run.pc \in {"list", "regions", "cities"} => run.wanted \subseteq {Country} \cup run.places
    /\ run.pc = "cities" => run.places \cap States \subseteq catalog
    /\ geo = "P3" \/ run.pc \in {"deactivate", "create"} \cup Created =>
           run.wanted \ meddled \subseteq {Country} \cup catalog
    /\ run.mode # "catalog" /\ run.pc \in Created => run.wanted \subseteq Existing
    /\ run.mode # "catalog" /\ run.pc \in Created \ {"read"} =>
           /\ \A p \in run.wanted \ (meddled \cup run.changed) : Planned(p)
           /\ run.wanted \subseteq run.todo \cup ready \cup run.failures
    /\ run.pc \notin {"read", "size"} => run.changed = {}
    /\ run.pc = "wait" => run.batch \subseteq run.missing \cup ready
    /\ run.pc = "done" /\ run.mode # "catalog" => run.todo = {}

ProvisionInv ==
    /\ PoolsSound /\ OthersSound /\ RunSound
    /\ geo \in {"P2", "P3"} /\ live \cup catalog \subseteq States \cup Cities
    /\ refills \cup meddled \cup ready \subseteq Places
    /\ provisionOps \in 0 .. MaxProvisionOps

LEMMA LargerFacts ==
  ASSUME NEW m \in Nat, NEW n \in Nat
  PROVE  /\ Larger(m, n) \in Nat /\ Larger(m, n) >= m /\ Larger(m, n) >= n
         /\ Smaller(m, n) \in Nat /\ Smaller(m, n) <= m /\ Smaller(m, n) <= n
         /\ Larger(m, n) \in {m, n}
  BY DEF Larger, Smaller

\* What a row may become: it stays, and is no fuller than it was ever meant to be.
RowOk(p, r) ==
    /\ r \in Pool /\ (r.active => r.exists) /\ (pool[p].exists => r.exists)
    /\ r.stock <= Larger(peak[p], r.target)

RowsOk(rows) == rows \in [Places -> Pool] /\ \A p \in Places : RowOk(p, rows[p])

\* The pools are those rows now, perhaps claimed.
PoolsFollow(rows) ==
    /\ PoolsSound' /\ refills' \subseteq Places
    /\ \A p \in Places : /\ pool[p].exists => pool'[p].exists
                         /\ rows[p].exists => pool'[p].exists
                         /\ rows[p].active => pool'[p].active
                         /\ pool'[p].target = rows[p].target
                         /\ pool'[p].below = rows[p].below

LEMMA PoolFacts ==
  ASSUME PoolsSound, NEW p \in Places
  PROVE  /\ pool[p] \in Pool /\ peak[p] \in Nat /\ pool[p].target \in Nat
         /\ pool[p].below \in Nat /\ pool[p].stock \in Nat
         /\ pool[p].active => pool[p].exists
         /\ pool[p].target <= peak[p] /\ pool[p].stock <= peak[p]
         /\ Larger(peak[p], pool[p].target) = peak[p]
         /\ RowOk(p, pool[p])
  <1>1. /\ pool[p] \in Pool /\ peak[p] \in Nat /\ pool[p].target \in Nat
        /\ pool[p].below \in Nat /\ pool[p].stock \in Nat
        /\ pool[p].active => pool[p].exists
        /\ pool[p].target <= peak[p] /\ pool[p].stock <= peak[p]
    BY DEF PoolsSound, Pool
  <1>2. Larger(peak[p], pool[p].target) = peak[p]
    BY <1>1 DEF Larger
  <1> QED
    BY <1>1, <1>2 DEF RowOk

LEMMA PoolsWritten ==
  ASSUME PoolsSound, NEW rows, RowsOk(rows), Pools(rows), refills' \subseteq Places
  PROVE  PoolsFollow(rows) /\ pool' = rows
  <1>1. pool' = rows /\ peak' = [p \in Places |-> Larger(peak[p], rows[p].target)]
    BY DEF Pools
  <1>2. \A p \in Places : /\ RowOk(p, rows[p]) /\ rows[p] \in Pool /\ rows[p].target \in Nat
                          /\ rows[p].stock \in Nat /\ peak[p] \in Nat
    BY PoolFacts DEF RowsOk, Pool
  <1>3. \A p \in Places : /\ peak'[p] \in Nat /\ rows[p].target <= peak'[p]
                          /\ peak'[p] = Larger(peak[p], rows[p].target)
    BY <1>1, <1>2, LargerFacts
  <1>4. peak' \in [Places -> Nat]
    BY <1>1, <1>3
  <1>5. PoolsSound'
    BY <1>1, <1>2, <1>3, <1>4 DEF PoolsSound, RowsOk, RowOk
  <1> QED
    BY <1>1, <1>2, <1>5 DEF PoolsFollow, RowOk

LEMMA RefillsQueued ==
  ASSUME PoolsSound, NEW S, NEW rows, RowsOk(rows), QueueRefills(S, rows),
         refills \subseteq Places
  PROVE  PoolsFollow(rows)
  <1>1. PICK claimed \in SUBSET Places :
           /\ Pools([p \in Places |-> IF p \in claimed THEN [rows[p] EXCEPT !.claim = "fresh"]
                                      ELSE rows[p]])
           /\ refills' = refills \cup claimed
    BY DEF QueueRefills, Claimable
  <1>2. PICK after : after = [p \in Places |-> IF p \in claimed
                                               THEN [rows[p] EXCEPT !.claim = "fresh"]
                                               ELSE rows[p]]
    OBVIOUS
  <1>3. ASSUME NEW p \in Places
        PROVE  /\ RowOk(p, after[p]) /\ after[p] \in Pool
               /\ rows[p].exists => after[p].exists
               /\ rows[p].active => after[p].active
               /\ after[p].target = rows[p].target /\ after[p].below = rows[p].below
    <2>1. RowOk(p, rows[p]) /\ rows[p] \in Pool
      BY DEF RowsOk
    <2>2. CASE p \in claimed
      <3>1. after[p] = [rows[p] EXCEPT !.claim = "fresh"]
        BY <1>2, <2>2
      <3> QED
        BY <2>1, <3>1 DEF RowOk, Pool
    <2>3. CASE p \notin claimed
      BY <1>2, <2>1, <2>3
    <2> QED
      BY <2>2, <2>3
  <1>4. RowsOk(after)
    BY <1>2, <1>3 DEF RowsOk
  <1>5. PoolsFollow(after)
    BY <1>1, <1>2, <1>4, PoolsWritten
  <1> QED
    BY <1>3, <1>5 DEF PoolsFollow

LEMMA OneRowOk ==
  ASSUME PoolsSound, NEW p \in Places, NEW r, RowOk(p, r)
  PROVE  /\ RowsOk([pool EXCEPT ![p] = r]) /\ [pool EXCEPT ![p] = r][p] = r
         /\ \A q \in Places \ {p} : [pool EXCEPT ![p] = r][q] = pool[q]
  BY PoolFacts DEF RowsOk, PoolsSound, RowOk

\* What others change the command excepts.
SizesKept(rows) ==
    \A p \in Places \ meddled' : /\ pool[p].active => rows[p].active
                                 /\ rows[p].target = pool[p].target
                                 /\ rows[p].below = pool[p].below

LEMMA OthersKeep ==
  ASSUME ProvisionInv, NEW rows, PoolsFollow(rows), SizesKept(rows), OthersSound',
         UNCHANGED <<geo, run, ready>>, meddled \subseteq meddled', meddled' \subseteq Places,
         live' \cup catalog' \subseteq States \cup Cities,
         catalog \subseteq catalog' \/ (geo = "P3" /\ States \cup Cities \subseteq meddled'),
         provisionOps' \in 0 .. MaxProvisionOps
  PROVE  ProvisionInv'
  <1>1. /\ PoolsSound /\ RunSound /\ PoolsSound' /\ refills' \subseteq Places
        /\ geo' = geo /\ run' = run /\ ready' = ready
    BY DEF ProvisionInv, PoolsFollow
  <1>2. Existing \subseteq Existing'
    BY <1>1 DEF PoolsFollow, Existing
  <1>3. ASSUME NEW p \in Places \ meddled', Planned(p)
        PROVE  Planned(p)'
    BY <1>3 DEF PoolsFollow, SizesKept, Planned
  <1>4. geo \in {"P2", "P3"} /\ (geo # "P3" => catalog \subseteq catalog')
    BY DEF ProvisionInv
  <1>5. RunSound'
    <2>1. /\ (geo = "P3" => run.mode # "catalog" /\ run.pc \notin {"regions", "cities", "deactivate"})
          /\ run.pc = "cities" => run.places \cap States \subseteq catalog'
      BY <1>1, <1>4 DEF RunSound
    <2>2. geo = "P3" \/ run.pc \in {"deactivate", "create"} \cup Created =>
             run.wanted \ meddled' \subseteq {Country} \cup catalog'
      <3>1. run.wanted \subseteq {Country} \cup States \cup Cities
        BY <1>1 DEF RunSound, Prefill, Places
      <3> QED
        BY <1>1, <3>1 DEF RunSound
    <2>3. run.mode # "catalog" /\ run.pc \in Created \ {"read"} =>
             \A p \in run.wanted \ (meddled' \cup run.changed) : Planned(p)'
      <3>1. run.wanted \subseteq Places
        BY <1>1 DEF RunSound, Prefill
      <3> QED
        BY <1>1, <1>3, <3>1 DEF RunSound
    <2> QED
      BY <1>1, <1>2, <2>1, <2>2, <2>3 DEF RunSound
  <1> QED
    BY <1>1, <1>5 DEF ProvisionInv

LEMMA ByOthersFacts ==
  ASSUME ProvisionInv, NEW S \in SUBSET Places, ByOthers(S)
  PROVE  /\ provisionOps' \in 0 .. MaxProvisionOps
         /\ meddled' = meddled \cup S /\ meddled' \subseteq Places
  BY ProvisionAssumption DEF ProvisionInv, ByOthers

LEMMA ProvisionFacts ==
  ASSUME ProvisionInv
  PROVE  /\ PoolsSound /\ OthersSound /\ RunSound /\ refills \subseteq Places
         /\ meddled \subseteq Places /\ catalog \subseteq Places /\ ready \subseteq Places
         /\ live \subseteq Places /\ Country \in Places
         /\ live \cup catalog \subseteq States \cup Cities
         /\ provisionOps \in 0 .. MaxProvisionOps
         /\ OfficeCount \in Nat /\ OfficeBelow \in Nat /\ CityCount \in Nat
         /\ CityBelow \in Nat
  BY ProvisionAssumption DEF ProvisionInv, Places

LEMMA OthersStay ==
  ASSUME OthersSound, NEW rows, PoolsFollow(rows), others' = others
  PROVE  OthersSound'
  BY DEF OthersSound, PoolsFollow, Existing

\* One row changes, and what others are doing does not.
LEMMA OneRowKeeps ==
  ASSUME ProvisionInv, NEW p \in Places, NEW r, RowOk(p, r),
         PoolsFollow([pool EXCEPT ![p] = r]),
         p \in meddled' \/ (/\ pool[p].active => r.active
                            /\ r.target = pool[p].target /\ r.below = pool[p].below),
         UNCHANGED <<geo, live, catalog, run, others, ready>>,
         meddled \subseteq meddled', meddled' \subseteq Places,
         provisionOps' \in 0 .. MaxProvisionOps
  PROVE  ProvisionInv'
  <1>1. PICK rows : rows = [pool EXCEPT ![p] = r]
    OBVIOUS
  <1>2. /\ rows[p] = r /\ \A q \in Places \ {p} : rows[q] = pool[q]
    BY <1>1, ProvisionFacts, OneRowOk
  <1>3. SizesKept(rows)
    BY <1>2 DEF SizesKept
  <1>4. PoolsFollow(rows) /\ OthersSound'
    BY <1>1, ProvisionFacts, OthersStay
  <1>5. live' \cup catalog' \subseteq States \cup Cities /\ catalog \subseteq catalog'
    BY ProvisionFacts
  <1> QED
    BY <1>3, <1>4, <1>5, OthersKeep

LEMMA RefillKeeps ==
  ASSUME ProvisionInv, NEW p \in Places, Refill(p)
  PROVE  ProvisionInv'
  <1>1. /\ pool[p] \in Pool /\ pool[p].target \in Nat /\ pool[p].stock \in Nat
        /\ peak[p] \in Nat /\ pool[p].target <= peak[p] /\ pool[p].stock <= peak[p]
        /\ Larger(peak[p], pool[p].target) = peak[p]
        /\ pool[p].active => pool[p].exists
    BY ProvisionFacts, PoolFacts
  <1>2. PICK n \in Nat : n = pool[p].stock + Larger(0, pool[p].target - pool[p].stock)
    BY <1>1 DEF Larger
  <1>3. n <= peak[p]
    BY <1>1, <1>2 DEF Larger
  <1>4. PICK m \in Nat : m = IF pool[p].active THEN n ELSE pool[p].stock
    BY <1>1
  <1>5. PICK r : r = [pool[p] EXCEPT !.stock = m, !.claim = "none"]
    OBVIOUS
  <1>6. [IF pool[p].active THEN Filled(p, pool[p].stock) ELSE pool[p] EXCEPT !.claim = "none"] = r
    <2>1. CASE pool[p].active
      <3>1. Filled(p, pool[p].stock) = [pool[p] EXCEPT !.stock = n]
        BY <1>1, <1>2 DEF Filled, Pool
      <3> QED
        BY <1>1, <1>4, <1>5, <2>1, <3>1 DEF Pool
    <2>2. CASE ~pool[p].active
      BY <1>1, <1>4, <1>5, <2>2 DEF Pool
    <2> QED
      BY <2>1, <2>2
  <1>7. /\ RowOk(p, r) /\ (pool[p].active => r.active)
        /\ r.target = pool[p].target /\ r.below = pool[p].below
    <2>1. m <= peak[p]
      BY <1>1, <1>3, <1>4
    <2> QED
      BY <1>1, <1>5, <2>1 DEF RowOk, Pool
  <1>8. Pools([pool EXCEPT ![p] = r]) /\ refills' \subseteq Places
    BY <1>6, ProvisionFacts DEF Refill
  <1>9. PoolsFollow([pool EXCEPT ![p] = r])
    BY <1>7, <1>8, ProvisionFacts, OneRowOk, PoolsWritten
  <1>10. /\ UNCHANGED <<geo, live, catalog, run, others, ready>>
         /\ meddled \subseteq meddled' /\ meddled' \subseteq Places
         /\ provisionOps' \in 0 .. MaxProvisionOps
    BY ProvisionFacts DEF Refill
  <1> QED
    BY <1>7, <1>9, <1>10, OneRowKeeps

LEMMA StockTaken ==
  ASSUME ProvisionInv, NEW p \in Places, RefillFails(p) \/ Consume(p)
  PROVE  ProvisionInv'
  <1>1. /\ pool[p] \in Pool /\ pool[p].target \in Nat /\ pool[p].stock \in Nat
        /\ peak[p] \in Nat /\ pool[p].stock <= peak[p]
        /\ Larger(peak[p], pool[p].target) = peak[p]
        /\ pool[p].active => pool[p].exists
        /\ pool \in [Places -> Pool]
    BY ProvisionFacts, PoolFacts DEF PoolsSound
  <1>2. /\ ByOthers({}) /\ refills' \subseteq Places
        /\ UNCHANGED <<geo, live, catalog, run, others, ready>>
    BY ProvisionFacts DEF RefillFails, Consume
  <1>3. PICK c \in {"none", "stale", pool[p].claim}, n \in Nat :
           /\ n <= pool[p].stock
           /\ Pools([pool EXCEPT ![p] = [pool[p] EXCEPT !.stock = n, !.claim = c]])
    <2>1. CASE RefillFails(p)
      <3>1. PICK c \in {"none", "stale"} : Pools([pool EXCEPT ![p].claim = c])
        BY <2>1 DEF RefillFails
      <3>2. PICK n \in Nat : n = pool[p].stock /\ n <= pool[p].stock
        BY <1>1
      <3>3. [pool EXCEPT ![p].claim = c]
               = [pool EXCEPT ![p] = [pool[p] EXCEPT !.stock = n, !.claim = c]]
        BY <1>1, <3>2 DEF Pool
      <3> QED
        BY <3>1, <3>2, <3>3
    <2>2. CASE Consume(p)
      <3>1. PICK n \in Nat : n = pool[p].stock - 1 /\ n <= pool[p].stock
        BY <1>1, <2>2 DEF Consume
      <3>2. Pools([pool EXCEPT ![p].stock = pool[p].stock - 1])
        BY <1>1, <2>2 DEF Consume
      <3>3. [pool EXCEPT ![p].stock = n]
               = [pool EXCEPT ![p] = [pool[p] EXCEPT !.stock = n, !.claim = pool[p].claim]]
        BY <1>1 DEF Pool
      <3> QED
        BY <1>1, <3>1, <3>2, <3>3
    <2> QED
      BY <2>1, <2>2
  <1>4. PICK r : r = [pool[p] EXCEPT !.stock = n, !.claim = c]
    OBVIOUS
  <1>5. /\ RowOk(p, r) /\ (pool[p].active => r.active)
        /\ r.target = pool[p].target /\ r.below = pool[p].below
    <2>1. /\ r \in Pool /\ r.stock = n /\ r.target = pool[p].target
          /\ r.below = pool[p].below /\ (r.active <=> pool[p].active)
          /\ (r.exists <=> pool[p].exists)
      BY <1>1, <1>3, <1>4 DEF Pool
    <2>2. n <= peak[p]
      BY <1>1, <1>3
    <2> QED
      BY <1>1, <2>1, <2>2 DEF RowOk
  <1>6. PoolsFollow([pool EXCEPT ![p] = r])
    BY <1>2, <1>3, <1>4, <1>5, ProvisionFacts, OneRowOk, PoolsWritten
  <1>7. /\ meddled \subseteq meddled' /\ meddled' \subseteq Places
        /\ provisionOps' \in 0 .. MaxProvisionOps
    BY <1>2, ProvisionFacts, ByOthersFacts
  <1> QED
    BY <1>2, <1>5, <1>6, <1>7, OneRowKeeps

\* The pools are written as they are.
LEMMA PoolsAsTheyAre ==
  ASSUME ProvisionInv, Pools(pool), refills' = refills
  PROVE  PoolsFollow(pool) /\ pool' = pool /\ SizesKept(pool)
  <1>1. RowsOk(pool)
    BY ProvisionFacts, PoolFacts DEF RowsOk, PoolsSound
  <1> QED
    BY <1>1, ProvisionFacts, PoolsWritten DEF SizesKept

LEMMA GeographyKeeps ==
  ASSUME ProvisionInv,
         (\E p \in States \cup Cities : GeographyChanges(p)) \/ SyncRegionsOnly \/ ImportGeography
  PROVE  ProvisionInv'
  <1>1. PICK S \in SUBSET Places : ByOthers(S) /\ (ImportGeography => S = States \cup Cities)
    BY DEF GeographyChanges, SyncRegionsOnly, ImportGeography, Places
  <1>2. Pools(pool) /\ UNCHANGED <<geo, refills, run, others, ready>>
    BY DEF GeographyChanges, SyncRegionsOnly, ImportGeography
  <1>3. /\ live' \cup catalog' \subseteq States \cup Cities
        /\ catalog \subseteq catalog' \/ (geo = "P3" /\ ImportGeography)
    BY ProvisionFacts DEF GeographyChanges, SyncRegionsOnly, ImportGeography, LiveRegions,
       IsoRegions, Imported
  <1>4. PoolsFollow(pool) /\ SizesKept(pool) /\ OthersSound'
    BY <1>2, ProvisionFacts, PoolsAsTheyAre, OthersStay
  <1>5. /\ provisionOps' \in 0 .. MaxProvisionOps
        /\ meddled \subseteq meddled' /\ meddled' \subseteq Places /\ S \subseteq meddled'
    BY <1>1, ByOthersFacts
  <1> QED
    BY <1>1, <1>2, <1>3, <1>4, <1>5, OthersKeep

LEMMA PanelKeeps ==
  ASSUME ProvisionInv, NEW p \in Places,
         PanelRefill(p) \/ PanelPause(p) \/ PanelResume(p) \/ PanelClear(p)
  PROVE  ProvisionInv'
  <1>1. /\ pool[p] \in Pool /\ pool[p].target \in Nat /\ pool[p].stock \in Nat
        /\ peak[p] \in Nat /\ pool[p].stock <= peak[p]
        /\ Larger(peak[p], pool[p].target) = peak[p]
        /\ pool[p].active => pool[p].exists
        /\ pool \in [Places -> Pool] /\ RowOk(p, pool[p])
        /\ PoolsSound /\ refills \subseteq Places
    BY ProvisionFacts, PoolFacts DEF PoolsSound
  <1>2. UNCHANGED <<geo, live, catalog, run, others, ready>>
    BY DEF PanelRefill, PanelPause, PanelResume, PanelClear
  <1>3. /\ ByOthers({}) \/ ByOthers({p})
        /\ ~PanelRefill(p) => ByOthers({p})
    BY DEF PanelRefill, PanelPause, PanelResume, PanelClear
  <1>4. /\ meddled \subseteq meddled' /\ meddled' \subseteq Places
        /\ provisionOps' \in 0 .. MaxProvisionOps
        /\ ~PanelRefill(p) => p \in meddled'
    BY <1>3, ProvisionFacts, ByOthersFacts
  <1>5. CASE PanelRefill(p)
    <2>1. PICK r : r = pool[p]
      OBVIOUS
    <2>2. pool = [pool EXCEPT ![p] = r]
      BY <1>1, <2>1
    <2>3. PoolsFollow(pool)
      BY <1>1, <1>5, <2>1, <2>2, OneRowOk, RefillsQueued DEF PanelRefill
    <2> QED
      BY <1>1, <1>2, <1>4, <2>1, <2>2, <2>3, OneRowKeeps
  <1>6. CASE PanelPause(p)
    <2>1. PICK r : r = [pool[p] EXCEPT !.active = FALSE]
      OBVIOUS
    <2>2. RowOk(p, r)
      BY <1>1, <2>1 DEF RowOk, Pool
    <2>3. Pools([pool EXCEPT ![p] = r]) /\ refills' \subseteq Places
      BY <1>1, <1>6, <2>1 DEF PanelPause
    <2>4. PoolsFollow([pool EXCEPT ![p] = r])
      BY <1>1, <2>2, <2>3, OneRowOk, PoolsWritten
    <2> QED
      BY <1>2, <1>4, <1>6, <2>2, <2>4, OneRowKeeps, ByOthersFacts DEF PanelPause
  <1>7. CASE PanelResume(p)
    <2>1. PICK r : r = [pool[p] EXCEPT !.active = TRUE]
      OBVIOUS
    <2>2. RowOk(p, r)
      BY <1>1, <1>7, <2>1 DEF RowOk, Pool, PanelResume
    <2>3. QueueRefills({p}, [pool EXCEPT ![p] = r])
      BY <1>1, <1>7, <2>1 DEF PanelResume
    <2>4. PoolsFollow([pool EXCEPT ![p] = r])
      BY <1>1, <2>2, <2>3, OneRowOk, RefillsQueued
    <2> QED
      BY <1>2, <1>4, <1>7, <2>2, <2>4, OneRowKeeps, ByOthersFacts DEF PanelResume
  <1>8. CASE PanelClear(p)
    <2>1. PICK r : r = [pool[p] EXCEPT !.active = FALSE, !.stock = 0, !.claim = "none"]
      OBVIOUS
    <2>2. RowOk(p, r)
      <3>1. /\ r \in Pool /\ r.stock = 0 /\ r.target = pool[p].target /\ ~r.active
            /\ (r.exists <=> pool[p].exists)
        BY <1>1, <2>1 DEF Pool
      <3> QED
        BY <1>1, <3>1 DEF RowOk
    <2>3. Pools([pool EXCEPT ![p] = r]) /\ refills' \subseteq Places
      BY <1>1, <1>8, <2>1 DEF PanelClear
    <2>4. PoolsFollow([pool EXCEPT ![p] = r])
      BY <1>1, <2>2, <2>3, OneRowOk, PoolsWritten
    <2> QED
      BY <1>2, <1>4, <1>8, <2>2, <2>4, OneRowKeeps, ByOthersFacts DEF PanelClear
  <1> QED
    BY <1>5, <1>6, <1>7, <1>8

\* A row that is given a size.
IsSized(p, r, t, b) ==
    /\ r \in Pool /\ r.target = t /\ r.below = b /\ r.active
    /\ (r.exists <=> pool[p].exists) /\ r.stock = pool[p].stock
    /\ r.stock <= Larger(peak[p], t)
    /\ pool[p].exists => RowOk(p, r)

LEMMA RowSized ==
  ASSUME PoolsSound, NEW p \in Places, NEW t \in Nat, NEW b \in Nat, NEW r,
         r = [pool[p] EXCEPT !.target = t, !.below = b, !.active = TRUE]
  PROVE  IsSized(p, r, t, b)
  <1>1. /\ pool[p] \in Pool /\ peak[p] \in Nat /\ pool[p].stock \in Nat
        /\ pool[p].stock <= peak[p]
    BY PoolFacts
  <1>2. /\ r \in Pool /\ r.target = t /\ r.below = b /\ r.active
        /\ (r.exists <=> pool[p].exists) /\ r.stock = pool[p].stock
    BY <1>1 DEF Pool
  <1>3. r.stock <= Larger(peak[p], t)
    BY <1>1, <1>2 DEF Larger
  <1> QED
    BY <1>2, <1>3 DEF RowOk, IsSized

LEMMA NewRowOk ==
  ASSUME PoolsSound, NEW p \in Places, NEW t \in Nat, NEW b \in Nat
  PROVE  /\ RowOk(p, NewPool(t, b)) /\ NewPool(t, b).exists /\ NewPool(t, b).active
         /\ NewPool(t, b).target = t /\ NewPool(t, b).below = b
  <1>1. peak[p] \in Nat
    BY PoolFacts
  <1>2. PICK r : r = NewPool(t, b)
    OBVIOUS
  <1>3. /\ r \in Pool /\ r.exists /\ r.active /\ r.target = t /\ r.below = b /\ r.stock = 0
    BY <1>2 DEF NewPool, NoPool, Pool
  <1>4. 0 <= Larger(peak[p], t)
    BY <1>1 DEF Larger
  <1> QED
    BY <1>2, <1>3, <1>4 DEF RowOk

\* Others write rows, and change the sizes of those they are known to change.
LEMMA RowsKeep ==
  ASSUME ProvisionInv, NEW rows, PoolsFollow(rows), OthersSound',
         \A p \in Places \ meddled' : rows[p] = pool[p],
         UNCHANGED <<geo, live, catalog, run, ready>>,
         meddled \subseteq meddled', meddled' \subseteq Places,
         provisionOps' \in 0 .. MaxProvisionOps
  PROVE  ProvisionInv'
  <1>1. SizesKept(rows)
    BY DEF SizesKept
  <1>2. live' \cup catalog' \subseteq States \cup Cities /\ catalog \subseteq catalog'
    BY ProvisionFacts
  <1> QED
    BY <1>1, <1>2, OthersKeep

LEMMA PreparedRows ==
  ASSUME ProvisionInv
  PROVE  /\ RowsOk(Prepared)
         /\ \A p \in Places \ {Country} : Prepared[p] = pool[p]
  <1>1. Country \in Places /\ OfficeCount \in Nat /\ OfficeBelow \in Nat /\ PoolsSound
    BY ProvisionFacts
  <1>2. PICK r : r = [pool[Country] EXCEPT !.target = OfficeCount, !.below = OfficeBelow,
                                           !.active = TRUE]
    OBVIOUS
  <1>3. /\ r \in Pool /\ r.target = OfficeCount
        /\ r.stock <= Larger(peak[Country], OfficeCount)
    <2>1. PICK p \in Places : p = Country
      BY <1>1
    <2>2. PICK t \in Nat, b \in Nat : t = OfficeCount /\ b = OfficeBelow
      BY <1>1
    <2>3. r = [pool[p] EXCEPT !.target = t, !.below = b, !.active = TRUE]
      BY <1>2, <2>1, <2>2
    <2>4. r \in Pool /\ r.target = t /\ r.stock <= Larger(peak[p], t)
      <3>1. IsSized(p, r, t, b)
        BY <1>1, <2>3, RowSized
      <3> QED
        BY <3>1 DEF IsSized
    <2> QED
      BY <2>1, <2>2, <2>4
  <1>4. PICK s : s = [r EXCEPT !.exists = TRUE]
    OBVIOUS
  <1>5. RowOk(Country, s) /\ s \in Pool
    BY <1>3, <1>4 DEF RowOk, Pool
  <1>6. PICK rows : rows = Sized({Country}, OfficeCount, OfficeBelow)
    OBVIOUS
  <1>7. rows[Country] = r /\ \A p \in Places \ {Country} : rows[p] = pool[p]
    BY <1>1, <1>2, <1>6 DEF Sized
  <1>8. rows \in [Places -> Pool]
    BY <1>3, <1>1, <1>2, <1>6, PoolFacts DEF Sized
  <1>9. Prepared = [rows EXCEPT ![Country] = s]
    BY <1>1, <1>4, <1>6, <1>7, <1>8 DEF Prepared
  <1>10. Prepared[Country] = s /\ \A p \in Places \ {Country} : Prepared[p] = pool[p]
    BY <1>1, <1>7, <1>8, <1>9
  <1>11. Prepared \in [Places -> Pool]
    BY <1>1, <1>5, <1>8, <1>9
  <1> QED
    BY <1>1, <1>5, <1>10, <1>11, PoolFacts DEF RowsOk

LEMMA GenerateKeeps ==
  ASSUME ProvisionInv, GenerateCountry \/ (\E purge \in BOOLEAN : GenerateForm(purge))
  PROVE  ProvisionInv'
  <1>1. /\ ByOthers({Country}) /\ UNCHANGED <<geo, live, catalog, run, others, ready>>
    BY DEF GenerateCountry, GenerateForm
  <1>2. /\ meddled \subseteq meddled' /\ meddled' \subseteq Places /\ Country \in meddled'
        /\ provisionOps' \in 0 .. MaxProvisionOps
    BY <1>1, ProvisionFacts, ByOthersFacts
  <1>3. PICK S, rows : /\ QueueRefills(S, rows)
                       /\ \/ rows = Prepared
                          \/ rows = [p \in Places |-> [Prepared[p] EXCEPT !.stock = 0]]
    <2>1. CASE GenerateCountry
      BY <2>1 DEF GenerateCountry
    <2>2. CASE \E purge \in BOOLEAN : GenerateForm(purge)
      <3>1. PICK purge \in BOOLEAN : GenerateForm(purge)
        BY <2>2
      <3>2. CASE purge
        <4>1. QueueRefills({Country}, [p \in Places |-> [Prepared[p] EXCEPT !.stock = 0]])
          BY <3>1, <3>2 DEF GenerateForm
        <4> QED
          BY <4>1
      <3>3. CASE ~purge
        <4>1. QueueRefills({Country}, [p \in Places |-> Prepared[p]])
          BY <3>1, <3>3 DEF GenerateForm
        <4>2. [p \in Places |-> Prepared[p]] = Prepared
          BY PreparedRows DEF RowsOk
        <4> QED
          BY <4>1, <4>2
      <3> QED
        BY <3>2, <3>3
    <2> QED
      BY <2>1, <2>2
  <1>4. ASSUME NEW p \in Places
        PROVE  /\ RowOk(p, rows[p]) /\ rows[p] \in Pool
               /\ p # Country => /\ pool[p].active => rows[p].active
                                 /\ rows[p].target = pool[p].target
                                 /\ rows[p].below = pool[p].below
    <2>1. /\ RowOk(p, Prepared[p]) /\ Prepared[p] \in Pool
          /\ p # Country => Prepared[p] = pool[p]
          /\ pool[p] \in Pool /\ peak[p] \in Nat
      BY PreparedRows, ProvisionFacts, PoolFacts DEF RowsOk, RowOk
    <2>2. CASE rows = Prepared
      BY <2>1, <2>2
    <2>3. CASE rows = [q \in Places |-> [Prepared[q] EXCEPT !.stock = 0]]
      <3>1. rows[p] = [Prepared[p] EXCEPT !.stock = 0]
        BY <2>3
      <3>2. /\ rows[p] \in Pool /\ rows[p].stock = 0
            /\ rows[p].target = Prepared[p].target /\ rows[p].below = Prepared[p].below
            /\ (rows[p].active <=> Prepared[p].active)
            /\ (rows[p].exists <=> Prepared[p].exists)
        BY <2>1, <3>1 DEF Pool
      <3>3. 0 <= Larger(peak[p], Prepared[p].target)
        BY <2>1 DEF Larger, Pool
      <3> QED
        BY <2>1, <3>2, <3>3 DEF RowOk
    <2> QED
      BY <1>3, <2>2, <2>3
  <1>5. rows \in [Places -> Pool]
    <2>1. CASE rows = Prepared
      BY <2>1, PreparedRows DEF RowsOk
    <2>2. CASE rows = [q \in Places |-> [Prepared[q] EXCEPT !.stock = 0]]
      BY <1>4, <2>2
    <2> QED
      BY <1>3, <2>1, <2>2
  <1>6. PoolsFollow(rows)
    BY <1>3, <1>4, <1>5, ProvisionFacts, RefillsQueued DEF RowsOk
  <1>7. SizesKept(rows)
    BY <1>2, <1>4 DEF SizesKept
  <1>8. OthersSound'
    BY <1>1, <1>6, ProvisionFacts, OthersStay
  <1>9. live' \cup catalog' \subseteq States \cup Cities /\ catalog \subseteq catalog'
    BY <1>1, ProvisionFacts
  <1> QED
    BY <1>1, <1>2, <1>6, <1>7, <1>8, <1>9, OthersKeep

LEMMA NoOthersOk ==
  NoOthers \in OthersWork /\ NoOthers.op = "none" /\ NoOthers.places = {}
  <1>1. NoPool \in Pool
    BY DEF NoPool, Pool
  <1> QED
    BY <1>1 DEF NoOthers, OthersWork

LEMMA ResizeKeeps ==
  ASSUME ProvisionInv, (\E p \in Places, size \in Resizes : ResizeCount(p, size)) \/ ResizeWrite
  PROVE  ProvisionInv'
  <1>1. CASE \E p \in Places, size \in Resizes : ResizeCount(p, size)
    <2>1. PICK p \in Places, size \in Resizes : ResizeCount(p, size)
      BY <1>1
    <2>2. /\ size \in Nat /\ pool[p].stock \in Nat /\ Larger(0, pool[p].stock - size) \in Nat
      <3>1. size \in Nat /\ pool[p].stock \in Nat
        BY ProvisionAssumption, ProvisionFacts, PoolFacts
      <3> QED
        BY <3>1 DEF Larger
    <2>3. PICK below \in 1 .. size :
             others' = [NoOthers EXCEPT !.op = "resize", !.places = {p}, !.size = size,
                            !.below = below, !.excess = Larger(0, pool[p].stock - size)]
      BY <2>1 DEF ResizeCount
    <2>4. /\ Pools(pool) /\ ByOthers({}) /\ pool[p].exists
          /\ UNCHANGED <<geo, live, catalog, refills, run, ready>>
      BY <2>1 DEF ResizeCount
    <2>5. PoolsFollow(pool) /\ pool' = pool /\ SizesKept(pool)
      BY <2>4, PoolsAsTheyAre
    <2>6. OthersSound'
      <3>1. below \in Nat
        BY <2>2
      <3>2. others' \in OthersWork /\ others'.op = "resize" /\ others'.places = {p}
        BY <2>2, <2>3, <3>1, NoOthersOk DEF OthersWork
      <3>3. p \in Existing'
        BY <2>4, <2>5 DEF Existing
      <3> QED
        BY <3>2, <3>3 DEF OthersSound
    <2>7. /\ meddled \subseteq meddled' /\ meddled' \subseteq Places
          /\ provisionOps' \in 0 .. MaxProvisionOps
      BY <2>4, ByOthersFacts
    <2>8. live' \cup catalog' \subseteq States \cup Cities /\ catalog \subseteq catalog'
      BY <2>4, ProvisionFacts
    <2> QED
      BY <2>4, <2>5, <2>6, <2>7, <2>8, OthersKeep
  <1>2. CASE ResizeWrite
    <2>1. /\ others \in OthersWork /\ others.places \subseteq Existing
          /\ others.size \in Nat /\ others.below \in Nat /\ others.excess \in Nat
          /\ others.places \subseteq Places /\ PoolsSound
          /\ refills \subseteq Places /\ pool \in [Places -> Pool]
      BY <1>2, ProvisionFacts DEF ResizeWrite, OthersSound, OthersWork, PoolsSound
    <2>2. PICK p \in others.places : \E dropped \in 0 .. others.excess :
             LET row == [pool[p] EXCEPT !.target = others.size, !.below = others.below,
                                        !.active = TRUE, !.stock = @ - dropped] IN
             /\ dropped <= pool[p].stock
             /\ QueueRefills({q \in {p} : row.stock < others.below}, [pool EXCEPT ![p] = row])
      BY <1>2 DEF ResizeWrite
    <2>3. p \in Places /\ pool[p].exists
      BY <2>1, <2>2 DEF Existing
    <2>4. /\ pool[p] \in Pool /\ pool[p].stock \in Nat /\ peak[p] \in Nat
          /\ pool[p].stock <= peak[p]
      BY <2>1, <2>3, PoolFacts
    <2>5. PICK dropped \in 0 .. others.excess :
             LET row == [pool[p] EXCEPT !.target = others.size, !.below = others.below,
                                        !.active = TRUE, !.stock = pool[p].stock - dropped] IN
             /\ dropped <= pool[p].stock
             /\ QueueRefills({q \in {p} : row.stock < others.below}, [pool EXCEPT ![p] = row])
      BY <2>2, <2>4 DEF Pool
    <2>6. PICK n \in Nat : n = pool[p].stock - dropped /\ n <= peak[p]
      BY <2>1, <2>4, <2>5
    <2>7. PICK row : row = [pool[p] EXCEPT !.target = others.size, !.below = others.below,
                                           !.active = TRUE, !.stock = n]
      OBVIOUS
    <2>8. RowOk(p, row)
      <3>1. /\ row \in Pool /\ row.stock = n /\ row.target = others.size
            /\ (row.exists <=> pool[p].exists)
        BY <2>1, <2>4, <2>6, <2>7 DEF Pool
      <3>2. n <= Larger(peak[p], others.size)
        BY <2>1, <2>4, <2>6 DEF Larger
      <3> QED
        BY <2>3, <3>1, <3>2 DEF RowOk
    <2>9. PICK rows : rows = [pool EXCEPT ![p] = row]
      OBVIOUS
    <2>10. RowsOk(rows) /\ \A q \in Places \ {p} : rows[q] = pool[q]
      BY <2>1, <2>3, <2>8, <2>9, OneRowOk
    <2>11. PoolsFollow(rows)
      <3>1. PICK S : QueueRefills(S, rows)
        BY <2>5, <2>6, <2>7, <2>9
      <3> QED
        BY <2>1, <2>10, <3>1, RefillsQueued
    <2>12. /\ others' = NoOthers /\ meddled' = meddled \cup others.places
           /\ UNCHANGED <<geo, live, catalog, run, ready, provisionOps>>
      BY <1>2 DEF ResizeWrite
    <2>13. OthersSound'
      BY <2>12, NoOthersOk DEF OthersSound
    <2>14. meddled' \subseteq Places /\ \A q \in Places \ meddled' : rows[q] = pool[q]
      BY <2>1, <2>2, <2>10, <2>12, ProvisionFacts
    <2>15. SizesKept(rows)
      BY <2>14 DEF SizesKept
    <2>16. /\ live' \cup catalog' \subseteq States \cup Cities /\ catalog \subseteq catalog'
           /\ provisionOps' \in 0 .. MaxProvisionOps
      BY <2>12, ProvisionFacts
    <2> QED
      BY <2>11, <2>12, <2>13, <2>14, <2>15, <2>16, OthersKeep
  <1> QED
    BY <1>1, <1>2

LEMMA ExpansionTypes ==
  ASSUME ProvisionInv, NEW p \in Places
  PROVE  /\ LocationSpecs(p) \subseteq Places
         /\ StockSettings(p)[1] \in Nat /\ StockSettings(p)[2] \in Nat
  <1>1. /\ catalog \subseteq Places /\ Country \in Places
        /\ OfficeCount \in Nat /\ OfficeBelow \in Nat /\ CityCount \in Nat /\ CityBelow \in Nat
    BY ProvisionFacts
  <1>2. LocationSpecs(p) \subseteq Places
    <2>1. CASE geo = "P2"
      <3>1. LocationSpecs(p) = {p}
        BY <2>1 DEF LocationSpecs
      <3> QED
        BY <3>1
    <2>2. CASE geo # "P2" /\ p = Country
      <3>1. LocationSpecs(p) = {Country} \cup catalog
        BY <2>2 DEF LocationSpecs
      <3> QED
        BY <1>1, <3>1
    <2>3. CASE geo # "P2" /\ p # Country
      <3>1. LocationSpecs(p) = {p} \cap catalog
        BY <2>3 DEF LocationSpecs
      <3> QED
        BY <3>1
    <2> QED
      BY <2>1, <2>2, <2>3
  <1>3. PICK n \in Nat : n = Smaller(OfficeCount, CityCount)
    BY <1>1, LargerFacts
  <1>4. PICK k \in Nat : k = Smaller(CityBelow, CityCount)
    BY <1>1, LargerFacts
  <1>5. PICK l \in Nat : l = Smaller(OfficeBelow, k)
    BY <1>1, LargerFacts
  <1>6. PICK m \in Nat : m = Larger(1, l)
    BY LargerFacts
  <1>7. StockSettings(p) = <<n, m>> \/ StockSettings(p) = <<OfficeCount, OfficeBelow>>
    BY <1>3, <1>4, <1>5, <1>6 DEF StockSettings
  <1> QED
    BY <1>1, <1>2, <1>7

LEMMA ExpandKeeps ==
  ASSUME ProvisionInv, (\E p \in Places : ExpandAsk(p)) \/ ExpandCreate \/ ExpandWrite
  PROVE  ProvisionInv'
  <1>1. /\ PoolsSound /\ OthersSound /\ refills \subseteq Places /\ meddled \subseteq Places
        /\ pool \in [Places -> Pool] /\ others \in OthersWork
        /\ others.places \subseteq Places /\ others.seen \in [Places -> Pool]
        /\ provisionOps \in 0 .. MaxProvisionOps
    BY ProvisionFacts DEF PoolsSound, OthersSound, OthersWork
  <1>2. CASE \E p \in Places : ExpandAsk(p)
    <2>1. PICK p \in Places : ExpandAsk(p)
      BY <1>2
    <2>2. PoolsFollow(pool) /\ pool' = pool
      BY <2>1, PoolsAsTheyAre DEF ExpandAsk
    <2>3. OthersSound'
      <3>1. others' = [NoOthers EXCEPT !.op = "asked", !.places = {p}]
        BY <2>1 DEF ExpandAsk
      <3>2. others' \in OthersWork /\ others'.op = "asked"
        BY <3>1, NoOthersOk DEF OthersWork
      <3> QED
        BY <3>2 DEF OthersSound
    <2>4. UNCHANGED <<geo, live, catalog, run, ready>> /\ ByOthers({})
      BY <2>1 DEF ExpandAsk
    <2>5. /\ provisionOps' \in 0 .. MaxProvisionOps
          /\ meddled \subseteq meddled' /\ meddled' \subseteq Places
      BY <2>4, ByOthersFacts
    <2> QED
      BY <2>2, <2>3, <2>4, <2>5, RowsKeep
  <1>3. CASE ExpandCreate
    <2>1. PICK places \in SUBSET Places :
             places = UNION {LocationSpecs(p) : p \in others.places}
      BY <1>1, ExpansionTypes
    <2>2. PICK rows : rows = [q \in Places |-> IF q \in places \ Existing
                    THEN NewPool(StockSettings(q)[1], StockSettings(q)[2])
                    ELSE pool[q]]
      OBVIOUS
    <2>3. /\ Pools(rows) /\ meddled' = meddled \cup places
          /\ others' = [NoOthers EXCEPT !.op = "expand", !.places = places, !.seen = rows]
          /\ UNCHANGED <<geo, live, catalog, refills, run, ready, provisionOps>>
      BY <1>3, <2>1, <2>2 DEF ExpandCreate
    <2>4. ASSUME NEW q \in Places
          PROVE  /\ RowOk(q, rows[q]) /\ rows[q] \in Pool
                 /\ (q \notin places => rows[q] = pool[q])
                 /\ (q \in places => rows[q].exists)
      <3>1. CASE q \in places \ Existing
        <4>1. rows[q] = NewPool(StockSettings(q)[1], StockSettings(q)[2])
          BY <2>2, <3>1
        <4>2. RowOk(q, rows[q]) /\ rows[q].exists
          BY <1>1, <4>1, ExpansionTypes, NewRowOk
        <4> QED
          BY <3>1, <4>2 DEF RowOk
      <3>2. CASE q \notin places \ Existing
        <4>1. rows[q] = pool[q]
          BY <2>2, <3>2
        <4>2. q \in places => pool[q].exists
          BY <3>2 DEF Existing
        <4> QED
          BY <1>1, <4>1, <4>2, PoolFacts
      <3> QED
        BY <3>1, <3>2
    <2>5. rows \in [Places -> Pool]
      BY <2>2, <2>4
    <2>6. PoolsFollow(rows) /\ pool' = rows
      BY <1>1, <2>3, <2>4, <2>5, PoolsWritten DEF RowsOk
    <2>7. OthersSound'
      <3>1. others' \in OthersWork /\ others'.op = "expand" /\ others'.places = places
        BY <2>3, <2>5, NoOthersOk DEF OthersWork
      <3>2. places \subseteq Existing'
        BY <2>4, <2>6 DEF Existing
      <3> QED
        BY <3>1, <3>2 DEF OthersSound
    <2> QED
      BY <1>1, <2>3, <2>4, <2>6, <2>7, RowsKeep
  <1>4. CASE ExpandWrite
    <2>1. PICK rows : rows = [p \in Places |-> IF p \in others.places
               THEN [pool[p] EXCEPT
                        !.target = Larger(others.seen[p].target, StockSettings(p)[1]),
                        !.below = Larger(others.seen[p].below, StockSettings(p)[2]),
                        !.active = TRUE]
               ELSE pool[p]]
      OBVIOUS
    <2>2. /\ QueueRefills(others.places, rows)
          /\ others' = NoOthers /\ meddled' = meddled \cup others.places
          /\ UNCHANGED <<geo, live, catalog, run, ready, provisionOps>>
      BY <1>4, <2>1 DEF ExpandWrite
    <2>3. ASSUME NEW p \in Places
          PROVE  RowOk(p, rows[p]) /\ rows[p] \in Pool /\ (p \notin others.places => rows[p] = pool[p])
      <3>1. CASE p \in others.places
        <4>1. /\ others.seen[p].target \in Nat /\ others.seen[p].below \in Nat
              /\ StockSettings(p)[1] \in Nat /\ StockSettings(p)[2] \in Nat
          BY <1>1, ExpansionTypes DEF Pool
        <4>2. PICK t \in Nat : t = Larger(others.seen[p].target, StockSettings(p)[1])
          BY <4>1, LargerFacts
        <4>3. PICK b \in Nat : b = Larger(others.seen[p].below, StockSettings(p)[2])
          BY <4>1, LargerFacts
        <4>4. rows[p] = [pool[p] EXCEPT !.target = t, !.below = b, !.active = TRUE]
          BY <2>1, <3>1, <4>2, <4>3
        <4>5. pool[p].exists
          BY <1>1, <1>4, <3>1 DEF ExpandWrite, OthersSound, Existing
        <4>6. PICK r : r = rows[p]
          OBVIOUS
        <4>7. IsSized(p, r, t, b)
          BY <1>1, <4>4, <4>6, RowSized
        <4> QED
          BY <3>1, <4>5, <4>6, <4>7 DEF IsSized
      <3>2. CASE p \notin others.places
        <4>1. rows[p] = pool[p]
          BY <2>1, <3>2
        <4> QED
          BY <1>1, <3>2, <4>1, PoolFacts
      <3> QED
        BY <3>1, <3>2
    <2>4. rows \in [Places -> Pool]
      BY <2>1, <2>3
    <2>5. PoolsFollow(rows)
      BY <1>1, <2>2, <2>3, <2>4, RefillsQueued DEF RowsOk
    <2>6. OthersSound'
      BY <2>2, NoOthersOk DEF OthersSound
    <2> QED
      BY <1>1, <2>2, <2>3, <2>5, <2>6, RowsKeep
  <1> QED
    BY <1>2, <1>3, <1>4

LEMMA EnsureKeeps ==
  ASSUME ProvisionInv, NEW regions \in BOOLEAN, EnsurePools(regions)
  PROVE  ProvisionInv'
  <1>1. /\ PoolsSound /\ refills \subseteq Places /\ meddled \subseteq Places
        /\ pool \in [Places -> Pool] /\ OfficeCount \in Nat /\ OfficeBelow \in Nat
        /\ Country \in Places /\ catalog \subseteq Places
    BY ProvisionFacts DEF PoolsSound
  <1>2. PICK missing \in SUBSET Places :
           missing = ({Country} \cup (IF regions /\ geo = "P2" THEN catalog \cap States
                                                              ELSE {})) \ Existing
    BY <1>1
  <1>3. PICK smaller \in SUBSET Places :
           smaller = {p \in Existing : pool[p].target < OfficeCount \/ pool[p].below < OfficeBelow}
    BY DEF Existing
  <1> DEFINE entry(p) ==
                    CASE p \in missing -> NewPool(OfficeCount, OfficeBelow)
                      [] missing # {} /\ p \in smaller ->
                            [pool[p] EXCEPT !.target = OfficeCount, !.below = OfficeBelow]
                      [] OTHER -> pool[p]
  <1>4. PICK rows : rows = [p \in Places |-> entry(p)]
    OBVIOUS
  <1>5. PICK active \in SUBSET Places : active = {p \in Places : rows[p].active}
    OBVIOUS
  <1>6. /\ ByOthers(missing \cup smaller) /\ Pools(rows)
        /\ \/ others' = NoOthers
           \/ /\ active # {}
              /\ others' = [NoOthers EXCEPT !.op = "bulk", !.places = active, !.seen = rows]
        /\ UNCHANGED <<geo, live, catalog, refills, run, ready>>
    BY <1>2, <1>3, <1>4, <1>5 DEF EnsurePools
  <1>7. ASSUME NEW p \in Places
        PROVE  /\ RowOk(p, rows[p]) /\ rows[p] \in Pool
               /\ (p \notin missing \cup smaller => rows[p] = pool[p])
    <2>1. p \in missing => p \notin smaller
      BY <1>2, <1>3
    <2>2. CASE p \in missing
      <3>1. rows[p] = NewPool(OfficeCount, OfficeBelow)
        BY <1>4, <2>1, <2>2
      <3>2. RowOk(p, rows[p])
        BY <1>1, <3>1, NewRowOk
      <3> QED
        BY <2>2, <3>2 DEF RowOk
    <2>3. CASE missing # {} /\ p \in smaller
      <3>1. rows[p] = [pool[p] EXCEPT !.target = OfficeCount, !.below = OfficeBelow]
        BY <1>4, <2>1, <2>3
      <3>2. PICK r : r = rows[p]
        OBVIOUS
      <3>3. /\ pool[p] \in Pool /\ peak[p] \in Nat /\ pool[p].stock \in Nat
            /\ pool[p].stock <= peak[p] /\ (pool[p].active => pool[p].exists)
        BY <1>1, PoolFacts
      <3>4. /\ r \in Pool /\ r.target = OfficeCount /\ r.stock = pool[p].stock
            /\ (r.exists <=> pool[p].exists) /\ (r.active <=> pool[p].active)
        BY <1>1, <3>1, <3>2, <3>3 DEF Pool
      <3>5. r.stock <= Larger(peak[p], r.target)
        BY <1>1, <3>3, <3>4 DEF Larger
      <3> QED
        BY <2>3, <3>2, <3>3, <3>4, <3>5 DEF RowOk
    <2>4. CASE p \notin missing /\ ~(missing # {} /\ p \in smaller)
      <3>1. rows[p] = pool[p]
        BY <1>4, <2>4
      <3> QED
        BY <1>1, <3>1, PoolFacts
    <2> QED
      BY <2>2, <2>3, <2>4
  <1>8. rows \in [Places -> Pool]
    <2> HIDE DEF entry
    <2>1. rows = [p \in Places |-> rows[p]]
      BY <1>4
    <2> QED
      BY <1>7, <2>1
  <1>9. PoolsFollow(rows) /\ pool' = rows
    BY <1>1, <1>6, <1>7, <1>8, PoolsWritten DEF RowsOk
  <1>10. OthersSound'
    <2>1. CASE others' = NoOthers
      BY <2>1, NoOthersOk DEF OthersSound
    <2>2. CASE /\ active # {}
               /\ others' = [NoOthers EXCEPT !.op = "bulk", !.places = active, !.seen = rows]
      <3>1. others' \in OthersWork /\ others'.op = "bulk" /\ others'.places = active
        BY <1>8, <2>2, NoOthersOk DEF OthersWork
      <3>2. active \subseteq Existing'
        BY <1>5, <1>7, <1>9 DEF Existing, RowOk
      <3> QED
        BY <2>2, <3>1, <3>2 DEF OthersSound
    <2> QED
      BY <1>6, <2>1, <2>2
  <1>11. /\ provisionOps' \in 0 .. MaxProvisionOps
         /\ meddled' = meddled \cup (missing \cup smaller) /\ meddled' \subseteq Places
    BY <1>6, ByOthersFacts
  <1> QED
    BY <1>6, <1>7, <1>9, <1>10, <1>11, RowsKeep

\* What the other prefill command knows between two of its pools.
LEMMA BulkFacts ==
  ASSUME ProvisionInv, NEW p, others.op \in {"bulk", "fill"}, p = NextOf(others.places)
  PROVE  /\ p \in others.places /\ p \in Places /\ others \in OthersWork
         /\ others.places \subseteq Existing /\ others.places # {}
         /\ PoolsSound /\ refills \subseteq Places /\ pool \in [Places -> Pool]
         /\ pool[p] \in Pool /\ pool[p].target \in Nat /\ pool[p].stock \in Nat
         /\ peak[p] \in Nat /\ pool[p].target <= peak[p] /\ pool[p].stock <= peak[p]
         /\ (pool[p].active => pool[p].exists) /\ Larger(peak[p], pool[p].target) = peak[p]
  <1>1. /\ others.places \subseteq Existing /\ others.places # {} /\ others \in OthersWork
        /\ PoolsSound /\ refills \subseteq Places /\ pool \in [Places -> Pool]
    BY ProvisionFacts DEF OthersSound, PoolsSound
  <1>2. p \in others.places /\ p \in Places
    BY <1>1 DEF NextOf, Existing
  <1> QED
    BY <1>1, <1>2, PoolFacts

LEMMA BulkSizeKeeps ==
  ASSUME ProvisionInv, BulkSize
  PROVE  ProvisionInv'
  <1>1. PICK p : p = NextOf(others.places)
    OBVIOUS
  <1>2. PICK sized : sized = [pool[p] EXCEPT !.target = OfficeCount, !.below = OfficeBelow]
    OBVIOUS
  <1>3. /\ others.op = "bulk" /\ others' = [others EXCEPT !.op = "fill"]
        /\ \/ Pools([pool EXCEPT ![p] = sized]) /\ meddled' = meddled \cup {p}
           \/ Pools(pool) /\ UNCHANGED meddled
        /\ UNCHANGED <<geo, live, catalog, refills, run, ready, provisionOps>>
    BY <1>1, <1>2 DEF BulkSize
  <1>4. /\ p \in Places /\ others \in OthersWork
        /\ others.places \subseteq Existing /\ others.places # {}
        /\ PoolsSound /\ refills \subseteq Places
    BY <1>1, <1>3, BulkFacts
  <1>5. RowOk(p, sized)
    <2>1. /\ pool[p] \in Pool /\ peak[p] \in Nat /\ pool[p].stock \in Nat
          /\ pool[p].stock <= peak[p] /\ (pool[p].active => pool[p].exists)
          /\ OfficeCount \in Nat /\ OfficeBelow \in Nat
      BY <1>1, <1>3, BulkFacts, ProvisionFacts
    <2>2. /\ sized \in Pool /\ sized.target = OfficeCount /\ sized.stock = pool[p].stock
          /\ (sized.exists <=> pool[p].exists) /\ (sized.active <=> pool[p].active)
      BY <1>2, <2>1 DEF Pool
    <2>3. pool[p].stock <= Larger(peak[p], OfficeCount)
      BY <2>1 DEF Larger
    <2> QED
      BY <2>1, <2>2, <2>3 DEF RowOk
  <1>6. PICK rows : /\ RowsOk(rows) /\ Pools(rows)
                    /\ \A q \in Places \ meddled' : rows[q] = pool[q]
                    /\ meddled' \in {meddled, meddled \cup {p}}
    <2>1. CASE Pools([pool EXCEPT ![p] = sized]) /\ meddled' = meddled \cup {p}
      <3>1. PICK rows : rows = [pool EXCEPT ![p] = sized]
        OBVIOUS
      <3>2. RowsOk(rows) /\ \A q \in Places \ {p} : rows[q] = pool[q]
        BY <1>4, <1>5, <3>1, OneRowOk DEF PoolsSound
      <3>3. Pools(rows)
        BY <2>1, <3>1
      <3> QED
        BY <2>1, <3>2, <3>3
    <2>2. CASE Pools(pool) /\ UNCHANGED meddled
      <3>1. RowsOk(pool)
        BY <1>4, PoolFacts DEF RowsOk, PoolsSound
      <3> QED
        BY <2>2, <3>1
    <2> QED
      BY <1>3, <2>1, <2>2
  <1>7. PoolsFollow(rows) /\ SizesKept(rows)
    BY <1>3, <1>4, <1>6, PoolsWritten DEF SizesKept
  <1>8. OthersSound'
    <2>1. others' \in OthersWork /\ others'.op = "fill" /\ others'.places = others.places
      BY <1>3, <1>4 DEF OthersWork
    <2>2. Existing \subseteq Existing'
      BY <1>7 DEF PoolsFollow, Existing
    <2> QED
      BY <1>4, <2>1, <2>2 DEF OthersSound
  <1>9. /\ meddled \subseteq meddled' /\ meddled' \subseteq Places
        /\ provisionOps' \in 0 .. MaxProvisionOps
        /\ live' \cup catalog' \subseteq States \cup Cities /\ catalog \subseteq catalog'
    BY <1>3, <1>4, <1>6, ProvisionFacts
  <1> QED
    BY <1>3, <1>7, <1>8, <1>9, OthersKeep

LEMMA BulkFillKeeps ==
  ASSUME ProvisionInv, BulkFill
  PROVE  ProvisionInv'
  <1>1. PICK p : p = NextOf(others.places)
    OBVIOUS
  <1>2. others.op = "fill"
    BY DEF BulkFill
  <1>3. /\ p \in Places /\ p \in others.places /\ others \in OthersWork
        /\ others.places \subseteq Existing
        /\ PoolsSound /\ refills \subseteq Places
        /\ pool[p] \in Pool /\ pool[p].target \in Nat /\ pool[p].stock \in Nat
        /\ peak[p] \in Nat /\ pool[p].target <= peak[p] /\ pool[p].stock <= peak[p]
        /\ (pool[p].active => pool[p].exists) /\ Larger(peak[p], pool[p].target) = peak[p]
    BY <1>1, <1>2, BulkFacts
  <1>4. PICK n \in Nat : n = pool[p].stock + Larger(0, pool[p].target - pool[p].stock)
    BY <1>3 DEF Larger
  <1>5. n <= peak[p]
    BY <1>3, <1>4 DEF Larger
  <1>6. PICK m \in Nat : m = IF pool[p].active THEN n ELSE pool[p].stock
    BY <1>3
  <1>7. PICK r : r = [pool[p] EXCEPT !.stock = m, !.claim = "none"]
    OBVIOUS
  <1>8. [IF pool[p].active THEN Filled(p, pool[p].stock) ELSE pool[p] EXCEPT !.claim = "none"] = r
    <2>1. CASE pool[p].active
      <3>1. Filled(p, pool[p].stock) = [pool[p] EXCEPT !.stock = n]
        BY <1>3, <1>4 DEF Filled, Pool
      <3> QED
        BY <1>3, <1>6, <1>7, <2>1, <3>1 DEF Pool
    <2>2. CASE ~pool[p].active
      BY <1>3, <1>6, <1>7, <2>2 DEF Pool
    <2> QED
      BY <2>1, <2>2
  <1>9. /\ RowOk(p, r) /\ (pool[p].active => r.active)
        /\ r.target = pool[p].target /\ r.below = pool[p].below
    <2>1. m <= peak[p]
      BY <1>3, <1>5, <1>6
    <2> QED
      BY <1>3, <1>7, <2>1 DEF RowOk, Pool
  <1>10. /\ Pools([pool EXCEPT ![p] = r])
         /\ others' = IF others.places = {p} THEN NoOthers
                      ELSE [others EXCEPT !.op = "bulk", !.places = others.places \ {p}]
         /\ UNCHANGED <<geo, live, catalog, refills, run, ready, meddled, provisionOps>>
    BY <1>1, <1>8 DEF BulkFill
  <1>11. PICK rows : rows = [pool EXCEPT ![p] = r]
    OBVIOUS
  <1>12. /\ RowsOk(rows) /\ rows[p] = r /\ \A q \in Places \ {p} : rows[q] = pool[q]
    <2>1. PoolsSound /\ pool \in [Places -> Pool] /\ p \in Places /\ RowOk(p, r)
      BY <1>3, <1>9 DEF PoolsSound
    <2> QED
      BY <1>11, <2>1, OneRowOk
  <1>13. PoolsFollow(rows) /\ SizesKept(rows)
    <2>1. PoolsFollow(rows)
      BY <1>3, <1>10, <1>11, <1>12, PoolsWritten
    <2>2. SizesKept(rows)
      BY <1>9, <1>12 DEF SizesKept
    <2> QED
      BY <2>1, <2>2
  <1>14. OthersSound'
    <2>1. Existing \subseteq Existing'
      BY <1>13 DEF PoolsFollow, Existing
    <2>2. CASE others.places = {p}
      BY <1>10, <2>2, NoOthersOk DEF OthersSound
    <2>3. CASE others.places # {p}
      <3>1. /\ others' \in OthersWork /\ others'.op = "bulk"
            /\ others'.places = others.places \ {p}
        BY <1>3, <1>10, <2>3 DEF OthersWork
      <3> QED
        BY <1>3, <2>1, <2>3, <3>1 DEF OthersSound
    <2> QED
      BY <2>2, <2>3
  <1>15. /\ provisionOps' \in 0 .. MaxProvisionOps
         /\ meddled \subseteq meddled' /\ meddled' \subseteq Places
         /\ live' \cup catalog' \subseteq States \cup Cities /\ catalog \subseteq catalog'
    BY <1>10, ProvisionFacts
  <1> QED
    BY <1>10, <1>13, <1>14, <1>15, OthersKeep

LEMMA SubsetOfSize ==
  ASSUME NEW S, IsFiniteSet(S), NEW k \in Nat, k <= Cardinality(S)
  PROVE  \E b \in SUBSET S : Cardinality(b) = k
  <1>1. PICK T \in SUBSET Nat :
           T = {n \in Nat : n >= k /\ \E b \in SUBSET S : Cardinality(b) = n}
    OBVIOUS
  <1>2. Cardinality(S) \in T
    BY <1>1, FS_CardinalityType
  <1>3. PICK m \in T : \A n \in T : m <= n
    BY <1>2, SmallestExists
  <1>4. PICK b \in SUBSET S : Cardinality(b) = m
    BY <1>1, <1>3
  <1>5. IsFiniteSet(b) /\ m \in Nat /\ m >= k
    BY <1>1, <1>3, <1>4, FS_Subset
  <1>6. CASE m = k
    BY <1>4, <1>6
  <1>7. CASE m # k
    <2>1. b # {}
      BY <1>4, <1>5, <1>7, FS_EmptySet
    <2>2. PICK x \in b : TRUE
      BY <2>1
    <2>3. Cardinality(b \ {x}) = m - 1
      BY <1>4, <1>5, <2>2, FS_RemoveElement
    <2>4. m - 1 \in T
      BY <1>1, <1>5, <1>7, <2>3
    <2> QED
      BY <1>3, <1>5, <2>4
  <1> QED
    BY <1>6, <1>7

LEMMA BatchIsTodo ==
  ASSUME ProvisionInv
  PROVE  Batch \subseteq run.todo /\ Batch \subseteq Places
  <1>1. run.todo \subseteq Places /\ IsFiniteSet(run.todo)
    <2>1. run.todo \subseteq Places
      BY ProvisionFacts DEF RunSound, Prefill
    <2> QED
      BY <2>1, ProvisionAssumption, FS_Subset
  <1>2. PICK n \in Nat : n = Cardinality(run.todo)
    BY <1>1, FS_CardinalityType
  <1>3. BatchSize \in Nat
    BY ProvisionAssumption
  <1>4. PICK k \in Nat : k = Smaller(BatchSize, n) /\ k <= n
    BY <1>2, <1>3 DEF Smaller
  <1>5. \E b \in SUBSET run.todo : Cardinality(b) = k
    BY <1>1, <1>2, <1>4, SubsetOfSize
  <1>6. Batch = CHOOSE b \in kSubset(k, run.todo) : TRUE
    BY <1>2, <1>4 DEF Batch
  <1>7. \E b : b \in kSubset(k, run.todo)
    BY <1>5 DEF kSubset
  <1>8. Batch \in kSubset(k, run.todo)
    BY <1>6, <1>7
  <1> QED
    BY <1>1, <1>8 DEF kSubset

LEMMA PlannedTypes ==
  ASSUME NEW p \in Places
  PROVE  PlannedCount(p) \in Nat /\ Below(p) \in Nat /\ ReadyAt(p) = Larger(1, Below(p))
  <1>1. PlannedCount(p) \in Nat \ {0} /\ PlannedThreshold(p) \in Nat
    BY ProvisionAssumption
  <1>2. PICK m \in Nat, n \in Nat : m = PlannedCount(p) - 1 /\ n = PlannedThreshold(p)
    BY <1>1
  <1>3. Smaller(n, m) \in Nat
    BY LargerFacts
  <1>4. Larger(0, Smaller(n, m)) \in Nat
    BY <1>3, LargerFacts
  <1> QED
    BY <1>1, <1>2, <1>4 DEF Below, ReadyAt

\* The command goes on.
LEMMA RunKeeps ==
  ASSUME ProvisionInv, NEW rows, PoolsFollow(rows), RunSound',
         UNCHANGED <<geo, live, others>>, catalog' \subseteq States \cup Cities,
         meddled' \subseteq Places, ready' \subseteq Places,
         provisionOps' \in 0 .. MaxProvisionOps
  PROVE  ProvisionInv'
  <1>1. OthersSound' /\ PoolsSound' /\ refills' \subseteq Places
    BY ProvisionFacts, OthersStay DEF PoolsFollow
  <1> QED
    BY <1>1, ProvisionFacts DEF ProvisionInv

LEMMA BeginKeeps ==
  ASSUME ProvisionInv, NEW mode \in {"queue", "direct", "catalog"}, NEW cities \in BOOLEAN,
         Begin(mode, cities)
  PROVE  ProvisionInv'
  <1>1. PICK G \in SUBSET (States \cup Cities) :
           G = Geography /\ (geo = "P3" => G = catalog)
    BY ProvisionFacts DEF Geography, ProvisionInv
  <1>2. PICK W \in SUBSET Places : /\ W = Wanted(G, cities)
                                   /\ W \subseteq {Country} \cup G
    BY <1>1 DEF Wanted, Places
  <1>3. PICK s \in {"failed", "regions", "list"} :
           /\ s = CASE G = {} -> "failed"
                    [] G # {} /\ mode = "catalog" -> "regions"
                    [] OTHER -> "list"
           /\ mode # "catalog" => s # "regions"
    <2>1. CASE G = {}
      BY <2>1
    <2>2. CASE G # {} /\ mode = "catalog"
      BY <2>2
    <2>3. CASE G # {} /\ mode # "catalog"
      BY <2>3
    <2> QED
      BY <2>1, <2>2, <2>3
  <1>4. PICK q : q = [NoRun EXCEPT !.mode = mode, !.cities = cities, !.wanted = W, !.pc = s,
                                   !.places = G]
    OBVIOUS
  <1>5. /\ q \in Prefill /\ q.mode = mode /\ q.wanted = W /\ q.pc = s /\ q.places = G
        /\ q.listed = {} /\ q.stale = {} /\ q.changed = {} /\ q.todo = {}
        /\ q.batch = {} /\ q.missing = {} /\ q.failures = {}
    <2>1. G \in SUBSET Places
      BY <1>1 DEF Places
    <2> QED
      BY <1>4, <2>1 DEF NoRun, Prefill
  <1>6. /\ run' = q /\ (geo = "P3" => mode # "catalog")
        /\ meddled' = {} /\ ready' = {} /\ Pools(pool) /\ refills' = refills
        /\ UNCHANGED <<geo, live, catalog, others, provisionOps>>
    BY <1>1, <1>2, <1>3, <1>4 DEF Begin
  <1>7. PoolsFollow(pool)
    BY <1>6, PoolsAsTheyAre
  <1>8. RunSound'
    BY <1>1, <1>2, <1>3, <1>5, <1>6 DEF RunSound, Created
  <1> QED
    BY <1>6, <1>7, <1>8, ProvisionFacts, RunKeeps

LEMMA ListKeeps ==
  ASSUME ProvisionInv, ListPools
  PROVE  ProvisionInv'
  <1>1. /\ RunSound /\ run \in Prefill /\ run.pc = "list"
    BY ProvisionFacts DEF ListPools, RunSound
  <1>2. PICK s \in {"regions", "create"} : s = IF geo = "P2" THEN "regions" ELSE "create"
    OBVIOUS
  <1>3. PICK L \in SUBSET Places : L = Existing \cap run.wanted
    BY DEF Existing
  <1>4. PICK T \in SUBSET Places :
           /\ T = IF geo = "P3" THEN {}
                  ELSE {p \in Existing \ run.wanted :
                           pool[p].active /\ (run.cities \/ p \notin Cities)}
           /\ T \cap run.wanted = {}
    <2>1. CASE geo = "P3"
      <3>1. PICK T \in SUBSET Places : T = {}
        OBVIOUS
      <3> QED
        BY <2>1, <3>1
    <2>2. CASE geo # "P3"
      <3>1. PICK T \in SUBSET Places :
               T = {p \in Existing \ run.wanted :
                       pool[p].active /\ (run.cities \/ p \notin Cities)}
        BY DEF Existing
      <3> QED
        BY <2>2, <3>1
    <2> QED
      BY <2>1, <2>2
  <1>5. PICK q : q = [run EXCEPT !.pc = s, !.listed = L, !.stale = T]
    OBVIOUS
  <1>6. /\ q \in Prefill /\ q.pc = s /\ q.listed = L /\ q.stale = T
        /\ q.mode = run.mode /\ q.wanted = run.wanted /\ q.places = run.places
        /\ q.changed = run.changed /\ q.todo = run.todo /\ q.batch = run.batch
        /\ q.missing = run.missing /\ q.failures = run.failures
    BY <1>1, <1>5 DEF Prefill
  <1>7. /\ run' = q /\ Pools(pool)
        /\ UNCHANGED <<geo, live, catalog, refills, others, meddled, ready, provisionOps>>
    BY <1>2, <1>3, <1>4, <1>5 DEF ListPools, OwnStep
  <1>8. PoolsFollow(pool) /\ pool' = pool
    BY <1>7, PoolsAsTheyAre
  <1>9. geo \in {"P2", "P3"}
    BY DEF ProvisionInv
  <1>10. RunSound'
    BY <1>1, <1>2, <1>3, <1>4, <1>6, <1>7, <1>8, <1>9 DEF RunSound, Created, Existing
  <1> QED
    BY <1>7, <1>8, <1>10, ProvisionFacts, RunKeeps

LEMMA CatalogSyncs ==
  ASSUME ProvisionInv, SyncRegions \/ SyncCities
  PROVE  ProvisionInv'
  <1>1. /\ RunSound /\ run \in Prefill /\ run.pc \in {"regions", "cities"}
        /\ run.places \subseteq Places /\ geo # "P3"
    BY ProvisionFacts DEF SyncRegions, SyncCities, RunSound, Prefill
  <1>2. PICK s \in {"cities", "done", "deactivate"} :
           /\ run' = [run EXCEPT !.pc = s]
           /\ s = "cities" => SyncRegions
           /\ s = "done" => run.mode = "catalog"
           /\ s # "cities" => SyncCities
    <2>1. CASE SyncRegions
      BY <2>1 DEF SyncRegions, Go
    <2>2. CASE SyncCities /\ run.mode = "catalog"
      BY <2>2 DEF SyncCities, Go
    <2>3. CASE SyncCities /\ run.mode # "catalog"
      BY <2>3 DEF SyncCities, Go
    <2> QED
      BY <2>1, <2>2, <2>3
  <1>3. PICK q : q = [run EXCEPT !.pc = s]
    OBVIOUS
  <1>4. /\ q \in Prefill /\ q.pc = s /\ q.listed = run.listed /\ q.stale = run.stale
        /\ q.mode = run.mode /\ q.wanted = run.wanted /\ q.places = run.places
        /\ q.changed = run.changed /\ q.todo = run.todo /\ q.batch = run.batch
        /\ q.missing = run.missing /\ q.failures = run.failures
    BY <1>1, <1>3 DEF Prefill
  <1>5. /\ run' = q /\ Pools(pool)
        /\ UNCHANGED <<geo, live, refills, others, meddled, ready, provisionOps>>
    BY <1>2, <1>3 DEF SyncRegions, SyncCities
  <1>6. PoolsFollow(pool) /\ pool' = pool
    BY <1>5, PoolsAsTheyAre
  <1>7. catalog' \subseteq States \cup Cities
    BY ProvisionFacts DEF SyncRegions, SyncCities
  <1>8. /\ s = "cities" => run.places \cap States \subseteq catalog'
        /\ s # "cities" => run.wanted \subseteq {Country} \cup catalog'
    <2>1. s = "cities" => run.places \cap States \subseteq catalog'
      BY <1>2 DEF SyncRegions
    <2>2. s # "cities" => run.wanted \subseteq {Country} \cup catalog'
      <3> SUFFICES ASSUME s # "cities" PROVE run.wanted \subseteq {Country} \cup catalog'
        OBVIOUS
      <3>1. /\ catalog' = (catalog \ Cities) \cup (run.places \cap Cities)
            /\ run.places \cap States \subseteq catalog
            /\ run.wanted \subseteq {Country} \cup run.places
        BY <1>1, <1>2 DEF SyncCities, RunSound
      <3> QED
        BY <1>1, <3>1 DEF Places
    <2> QED
      BY <2>1, <2>2
  <1>9. RunSound'
    BY <1>1, <1>2, <1>4, <1>5, <1>6, <1>8 DEF RunSound, Created, Existing
  <1> QED
    BY <1>5, <1>6, <1>7, <1>9, ProvisionFacts, RunKeeps

LEMMA DeactivateKeeps ==
  ASSUME ProvisionInv, Deactivate
  PROVE  ProvisionInv'
  <1>1. /\ RunSound /\ run \in Prefill /\ run.pc = "deactivate" /\ PoolsSound
        /\ run.stale \cap run.wanted = {}
    <2>1. run.pc = "deactivate"
      BY Zenon DEF Deactivate
    <2> QED
      BY <2>1, ProvisionFacts DEF RunSound
  <1>2. PICK q : q = [run EXCEPT !.pc = "create"]
    OBVIOUS
  <1>3. /\ q \in Prefill /\ q.pc = "create" /\ q.listed = run.listed /\ q.stale = run.stale
        /\ q.mode = run.mode /\ q.wanted = run.wanted /\ q.places = run.places
        /\ q.changed = run.changed /\ q.todo = run.todo /\ q.batch = run.batch
        /\ q.missing = run.missing /\ q.failures = run.failures
    BY <1>1, <1>2 DEF Prefill
  <1>4. PICK rows : rows = [p \in Places |-> IF p \in run.stale
                  THEN [pool[p] EXCEPT !.active = FALSE, !.claim = "none"] ELSE pool[p]]
    BY Zenon
  <1>5. /\ run' = q /\ Pools(rows)
        /\ UNCHANGED <<geo, live, catalog, refills, others, meddled, ready, provisionOps>>
    BY <1>2, <1>4, Zenon DEF Deactivate, Go, OwnStep
  <1>6. ASSUME NEW p \in Places
        PROVE  RowOk(p, rows[p]) /\ rows[p] \in Pool
    <2>1. /\ pool[p] \in Pool /\ RowOk(p, pool[p])
          /\ pool[p].active => pool[p].exists
      BY <1>1, PoolFacts
    <2>2. CASE p \in run.stale
      <3>1. rows[p] = [pool[p] EXCEPT !.active = FALSE, !.claim = "none"]
        BY <1>4, <2>2, Zenon
      <3>2. PICK r : r = rows[p]
        OBVIOUS
      <3>3. /\ r \in Pool /\ r.stock = pool[p].stock /\ r.target = pool[p].target
            /\ ~r.active /\ (r.exists <=> pool[p].exists)
        BY <2>1, <3>1, <3>2 DEF Pool
      <3>4. RowOk(p, r)
        BY <2>1, <3>3 DEF RowOk
      <3> QED
        BY <3>2, <3>3, <3>4
    <2>3. CASE p \notin run.stale
      <3>1. rows[p] = pool[p]
        BY <1>4, <2>3, Zenon
      <3> QED
        BY <2>1, <3>1
    <2> QED
      BY <2>2, <2>3
  <1>7. rows \in [Places -> Pool]
    <2>1. rows = [p \in Places |-> rows[p]]
      BY <1>4, Zenon
    <2> QED
      BY <1>6, <2>1
  <1>8. PoolsFollow(rows)
    BY <1>1, <1>5, <1>6, <1>7, ProvisionFacts, PoolsWritten DEF RowsOk
  <1>9. Existing \subseteq Existing'
    BY <1>8 DEF PoolsFollow, Existing
  <1>10. RunSound'
    BY <1>1, <1>3, <1>5, <1>9 DEF RunSound, Created
  <1> QED
    BY <1>5, <1>8, <1>10, ProvisionFacts, RunKeeps

LEMMA CreateKeeps ==
  ASSUME ProvisionInv, CreatePools
  PROVE  ProvisionInv'
  <1>1. /\ RunSound /\ run \in Prefill /\ run.pc = "create" /\ PoolsSound
        /\ run.listed \subseteq Existing /\ run.wanted \subseteq Places
    BY ProvisionFacts DEF CreatePools, RunSound, Prefill
  <1>2. PICK q : q = [run EXCEPT !.pc = "read", !.listed = {}, !.stale = {}, !.places = {}]
    OBVIOUS
  <1>3. /\ q \in Prefill /\ q.pc = "read" /\ q.listed = {} /\ q.stale = {}
        /\ q.mode = run.mode /\ q.wanted = run.wanted /\ q.places = {}
        /\ q.changed = run.changed /\ q.todo = run.todo /\ q.batch = run.batch
        /\ q.missing = run.missing /\ q.failures = run.failures
    BY <1>1, <1>2 DEF Prefill
  <1>4. PICK rows : rows = [p \in Places |->
           IF p \in run.wanted \ (run.listed \cup Existing) THEN NewPool(PlannedCount(p), Below(p))
           ELSE pool[p]]
    OBVIOUS
  <1>5. /\ run' = q /\ Pools(rows)
        /\ UNCHANGED <<geo, live, catalog, refills, others, meddled, ready, provisionOps>>
    BY <1>2, <1>4 DEF CreatePools, OwnStep
  <1>6. ASSUME NEW p \in Places
        PROVE  /\ RowOk(p, rows[p]) /\ rows[p] \in Pool
               /\ p \in run.wanted => rows[p].exists
    <2>1. CASE p \in run.wanted \ (run.listed \cup Existing)
      <3>1. rows[p] = NewPool(PlannedCount(p), Below(p))
        BY <1>4, <2>1
      <3>2. RowOk(p, rows[p]) /\ rows[p].exists
        BY <1>1, <3>1, PlannedTypes, NewRowOk
      <3> QED
        BY <3>2 DEF RowOk
    <2>2. CASE p \notin run.wanted \ (run.listed \cup Existing)
      <3>1. rows[p] = pool[p]
        BY <1>4, <2>2
      <3>2. p \in run.wanted => pool[p].exists
        BY <1>1, <2>2 DEF Existing
      <3> QED
        BY <1>1, <3>1, <3>2, PoolFacts
    <2> QED
      BY <2>1, <2>2
  <1>7. rows \in [Places -> Pool]
    BY <1>4, <1>6
  <1>8. PoolsFollow(rows)
    BY <1>1, <1>5, <1>6, <1>7, ProvisionFacts, PoolsWritten DEF RowsOk
  <1>9. Existing \subseteq Existing' /\ run.wanted \subseteq Existing'
    BY <1>1, <1>6, <1>8 DEF PoolsFollow, Existing
  <1>10. RunSound'
    BY <1>1, <1>3, <1>5, <1>9 DEF RunSound, Created
  <1> QED
    BY <1>5, <1>8, <1>10, ProvisionFacts, RunKeeps

LEMMA ReadKeeps ==
  ASSUME ProvisionInv, ReadPools
  PROVE  ProvisionInv'
  <1>1. /\ RunSound /\ run \in Prefill /\ run.pc = "read" /\ PoolsSound
        /\ run.wanted \subseteq Places /\ ready \subseteq Places
        /\ run.mode # "catalog" => run.wanted \subseteq Existing
    BY ProvisionFacts DEF ReadPools, RunSound, Prefill, Created
  <1>2. PICK C \in SUBSET Places :
           C = {p \in Targets : \/ pool[p].target # PlannedCount(p) \/ ~pool[p].active
                                \/ pool[p].below # Below(p)}
    BY <1>1 DEF Targets
  <1>3. PICK seen \in [Places -> Nat] : seen = [p \in Places |-> pool[p].stock]
    BY <1>1, PoolFacts
  <1>4. PICK T \in SUBSET Places : T = {p \in Targets : pool[p].stock < ReadyAt(p)}
    BY <1>1 DEF Targets
  <1>5. PICK R \in SUBSET Places : R = {p \in Targets : pool[p].stock >= Larger(1, Below(p))}
    BY <1>1 DEF Targets
  <1>6. PICK q : q = [run EXCEPT !.pc = "size", !.changed = C, !.seen = seen, !.todo = T]
    OBVIOUS
  <1>7. /\ q \in Prefill /\ q.pc = "size" /\ q.listed = run.listed /\ q.stale = run.stale
        /\ q.mode = run.mode /\ q.wanted = run.wanted /\ q.places = run.places
        /\ q.changed = C /\ q.todo = T /\ q.batch = run.batch
        /\ q.missing = run.missing /\ q.failures = run.failures
    BY <1>1, <1>6 DEF Prefill
  <1>8. /\ run' = q /\ Pools(pool) /\ ready' = ready \cup R
        /\ UNCHANGED <<geo, live, catalog, refills, others, meddled, provisionOps>>
    BY <1>2, <1>3, <1>4, <1>5, <1>6 DEF ReadPools
  <1>9. PoolsFollow(pool) /\ pool' = pool
    BY <1>8, PoolsAsTheyAre
  <1>10. Targets = Existing \cap run.wanted /\ Existing' = Existing
    BY <1>9 DEF Targets, Existing
  <1>11. ASSUME NEW p \in Targets
         PROVE  p \in T \cup R
    <2>1. p \in Places
      BY <1>1 DEF Targets
    <2>2. pool[p].stock \in Nat /\ Below(p) \in Nat /\ ReadyAt(p) = Larger(1, Below(p))
      BY <1>1, <2>1, PoolFacts, PlannedTypes
    <2>3. ReadyAt(p) \in Nat
      BY <2>2, LargerFacts
    <2>4. pool[p].stock < ReadyAt(p) \/ pool[p].stock >= Larger(1, Below(p))
      BY <2>2, <2>3
    <2> QED
      BY <1>4, <1>5, <2>4
  <1>12. \A p \in Targets \ C : Planned(p)'
    BY <1>2, <1>9 DEF Planned
  <1>13. C \cup T \subseteq Existing \cap run.wanted
    BY <1>2, <1>4, <1>10
  <1>14. run.mode # "catalog" =>
             /\ \A p \in run.wanted \ (meddled' \cup C) : Planned(p)'
             /\ run.wanted \subseteq T \cup ready'
    BY <1>1, <1>8, <1>10, <1>11, <1>12
  <1>15. RunSound'
    BY <1>1, <1>7, <1>8, <1>10, <1>13, <1>14 DEF RunSound, Created
  <1> QED
    BY <1>1, <1>8, <1>9, <1>15, ProvisionFacts, RunKeeps

LEMMA SizeKeeps ==
  ASSUME ProvisionInv, SizePools
  PROVE  ProvisionInv'
  <1>1. /\ RunSound /\ run \in Prefill /\ run.pc = "size" /\ PoolsSound
        /\ run.changed \subseteq Existing /\ run.wanted \subseteq Places
    BY ProvisionFacts DEF SizePools, RunSound, Prefill
  <1>2. PICK q : q = [run EXCEPT !.pc = "fill", !.changed = {}]
    OBVIOUS
  <1>3. /\ q \in Prefill /\ q.pc = "fill" /\ q.listed = run.listed /\ q.stale = run.stale
        /\ q.mode = run.mode /\ q.wanted = run.wanted /\ q.places = run.places
        /\ q.changed = {} /\ q.todo = run.todo /\ q.batch = run.batch
        /\ q.missing = run.missing /\ q.failures = run.failures
    BY <1>1, <1>2 DEF Prefill
  <1>4. PICK rows : rows = [p \in Places |-> IF p \in run.changed
                  THEN Sized({p}, PlannedCount(p), Below(p))[p] ELSE pool[p]]
    BY Zenon
  <1>5. /\ run' = q /\ Pools(rows)
        /\ UNCHANGED <<geo, live, catalog, refills, others, meddled, ready, provisionOps>>
    BY <1>2, <1>4, Zenon DEF SizePools, OwnStep
  <1>6. ASSUME NEW p \in Places
        PROVE  /\ RowOk(p, rows[p]) /\ rows[p] \in Pool
               /\ p \notin run.changed => rows[p] = pool[p]
               /\ p \in run.changed => /\ rows[p].active /\ rows[p].target = PlannedCount(p)
                                        /\ rows[p].below = Below(p)
    <2>1. CASE p \in run.changed
      <3>1. PICK t \in Nat, b \in Nat : t = PlannedCount(p) /\ b = Below(p)
        BY PlannedTypes
      <3>2. PICK r : r = [pool[p] EXCEPT !.target = t, !.below = b, !.active = TRUE]
        BY Zenon
      <3>3. rows[p] = r
        BY <1>4, <2>1, <3>1, <3>2, Zenon DEF Sized
      <3>4. IsSized(p, r, t, b)
        BY <1>1, <3>2, RowSized, Zenon
      <3>5. pool[p].exists
        BY <1>1, <2>1 DEF Existing
      <3> QED
        BY <2>1, <3>1, <3>3, <3>4, <3>5 DEF IsSized
    <2>2. CASE p \notin run.changed
      <3>1. rows[p] = pool[p]
        BY <1>4, <2>2
      <3> QED
        BY <1>1, <2>2, <3>1, PoolFacts
    <2> QED
      BY <2>1, <2>2
  <1>7. rows \in [Places -> Pool]
    <2>1. rows = [p \in Places |-> rows[p]]
      BY <1>4
    <2> QED
      BY <1>6, <2>1
  <1>8. PoolsFollow(rows) /\ pool' = rows
    BY <1>1, <1>5, <1>6, <1>7, ProvisionFacts, PoolsWritten DEF RowsOk
  <1>9. Existing \subseteq Existing'
    BY <1>8 DEF PoolsFollow, Existing
  <1>10. ASSUME NEW p \in Places, p \in run.changed \/ Planned(p)
         PROVE  Planned(p)'
    BY <1>6, <1>8, <1>10 DEF Planned
  <1>11. RunSound'
    <2>1. run.mode # "catalog" => \A p \in run.wanted \ meddled : Planned(p)'
      BY <1>1, <1>10 DEF RunSound, Created
    <2> QED
      BY <1>1, <1>3, <1>5, <1>9, <2>1 DEF RunSound, Created
  <1> QED
    BY <1>5, <1>8, <1>11, ProvisionFacts, RunKeeps

\* A pool that is filled under its lock keeps its size.
IsFilled(p, r) ==
    /\ r \in Pool /\ RowOk(p, r) /\ r.target = pool[p].target /\ r.below = pool[p].below
    /\ (r.active <=> pool[p].active)

LEMMA FilledRow ==
  ASSUME PoolsSound, NEW p \in Places, NEW demand \in Nat, NEW r, r = FilledFor(p, demand)
  PROVE  IsFilled(p, r)
  <1>1. /\ pool[p] \in Pool /\ pool[p].target \in Nat /\ pool[p].stock \in Nat
        /\ peak[p] \in Nat /\ pool[p].target <= peak[p] /\ pool[p].stock <= peak[p]
        /\ Larger(peak[p], pool[p].target) = peak[p]
        /\ pool[p].active => pool[p].exists
    BY PoolFacts
  <1>2. PICK n \in Nat : n = pool[p].stock + Larger(0, pool[p].target - pool[p].stock)
    BY <1>1 DEF Larger
  <1>3. n <= peak[p]
    BY <1>1, <1>2 DEF Larger
  <1>4. Filled(p, Counted(p)) = [pool[p] EXCEPT !.stock = n]
    BY <1>1, <1>2 DEF Filled, Counted, Pool
  <1>a. PICK m \in Nat : m = Larger(0, n - demand) /\ m <= peak[p]
    BY <1>1, <1>3 DEF Larger
  <1>b. r = [pool[p] EXCEPT !.stock = m, !.claim = "none"]
    BY <1>1, <1>4, <1>a DEF FilledFor, Pool
  <1>5. /\ r \in Pool /\ r.stock = m /\ r.target = pool[p].target
        /\ r.below = pool[p].below /\ (r.active <=> pool[p].active)
        /\ (r.exists <=> pool[p].exists)
    BY <1>1, <1>b DEF Pool
  <1>6. RowOk(p, r)
    BY <1>1, <1>a, <1>5 DEF RowOk
  <1> QED
    BY <1>5, <1>6 DEF IsFilled

LEMMA FillKeeps ==
  ASSUME ProvisionInv, FillDirect
  PROVE  ProvisionInv'
  <1>1. /\ RunSound /\ run \in Prefill /\ PoolsSound
        /\ run.wanted \subseteq Places /\ ready \subseteq Places /\ meddled \subseteq Places
        /\ Batch \subseteq run.todo /\ Batch \subseteq Places /\ run.todo \subseteq Places
    BY ProvisionFacts, BatchIsTodo DEF RunSound, Prefill
  <1>2. PICK B \in SUBSET Places : B = Batch
    BY <1>1
  <1>3. /\ run.pc = "fill" /\ run.mode = "direct"
        /\ UNCHANGED <<geo, live, catalog, refills, others, meddled, provisionOps>>
    BY Zenon DEF FillDirect
  <1>4. \/ /\ \E demand \in [B -> Demands] :
                 Pools([p \in Places |-> IF p \in B THEN FilledFor(p, demand[p]) ELSE pool[p]])
           /\ ready' = ready \cup B
           /\ run' = [run EXCEPT !.todo = run.todo \ B]
        \/ Go("failed") /\ Pools(pool) /\ UNCHANGED ready
    BY <1>2, Zenon DEF FillDirect
  <1>5. ASSUME NEW demand \in [B -> Demands], NEW rows,
               rows = [p \in Places |-> IF p \in B THEN FilledFor(p, demand[p]) ELSE pool[p]],
               Pools(rows), ready' = ready \cup B, run' = [run EXCEPT !.todo = run.todo \ B]
        PROVE  ProvisionInv'
    <2>1. PICK q : q = [run EXCEPT !.todo = run.todo \ B]
      OBVIOUS
    <2>2. /\ q \in Prefill /\ q.pc = "fill" /\ q.listed = run.listed /\ q.stale = run.stale
          /\ q.mode = run.mode /\ q.wanted = run.wanted /\ q.places = run.places
          /\ q.changed = run.changed /\ q.todo = run.todo \ B /\ q.batch = run.batch
          /\ q.missing = run.missing /\ q.failures = run.failures
      BY <1>1, <1>3, <2>1 DEF Prefill
    <2>3. run' = q
      BY <1>5, <2>1
    <2>4. ASSUME NEW p \in Places
          PROVE  /\ RowOk(p, rows[p]) /\ rows[p] \in Pool
                 /\ Planned(p) => /\ rows[p].active /\ rows[p].target = PlannedCount(p)
                                  /\ rows[p].below = Below(p)
      <3>1. /\ pool[p] \in Pool /\ RowOk(p, pool[p]) /\ peak[p] \in Nat
            /\ Larger(peak[p], pool[p].target) = peak[p]
            /\ pool[p].active => pool[p].exists
        BY <1>1, PoolFacts
      <3>2. CASE p \in B
        <4>1. PICK r : r = FilledFor(p, demand[p])
          BY Zenon
        <4>2. rows[p] = r
          BY <1>5, <3>2, <4>1, Zenon
        <4>3. demand[p] \in Nat
          BY <1>5, <3>2, ProvisionAssumption
        <4>4. IsFilled(p, r)
          BY <1>1, <4>1, <4>3, FilledRow, Zenon
        <4> QED
          BY <4>2, <4>4 DEF IsFilled, Planned
      <3>3. CASE p \notin B
        <4>1. rows[p] = pool[p]
          BY <1>5, <3>3, Zenon
        <4> QED
          BY <3>1, <4>1 DEF Planned
      <3> QED
        BY <3>2, <3>3
    <2>5. rows \in [Places -> Pool]
      <3>1. rows = [p \in Places |-> rows[p]]
        BY <1>5, Zenon
      <3> QED
        BY <2>4, <3>1
    <2>6. PoolsFollow(rows) /\ pool' = rows
      BY <1>1, <1>3, <1>5, <2>4, <2>5, ProvisionFacts, PoolsWritten DEF RowsOk
    <2>7. Existing \subseteq Existing'
      BY <2>6 DEF PoolsFollow, Existing
    <2>8. \A p \in Places : Planned(p) => Planned(p)'
      BY <2>4, <2>6 DEF Planned
    <2>9. RunSound'
      BY <1>1, <1>2, <1>3, <1>5, <2>2, <2>3, <2>7, <2>8 DEF RunSound, Created
    <2>10. ready' \subseteq Places
      BY <1>1, <1>5
    <2> QED
      BY <1>3, <2>6, <2>9, <2>10, ProvisionFacts, RunKeeps
  <1>6. CASE Go("failed") /\ Pools(pool) /\ UNCHANGED ready
    <2>1. PICK q : q = [run EXCEPT !.pc = "failed"]
      OBVIOUS
    <2>2. /\ q \in Prefill /\ q.pc = "failed" /\ q.listed = run.listed /\ q.stale = run.stale
          /\ q.mode = run.mode /\ q.wanted = run.wanted /\ q.places = run.places
          /\ q.changed = run.changed /\ q.todo = run.todo /\ q.batch = run.batch
          /\ q.missing = run.missing /\ q.failures = run.failures
      BY <1>1, <2>1 DEF Prefill
    <2>3. run' = q
      BY <1>6, <2>1 DEF Go
    <2>4. PoolsFollow(pool) /\ pool' = pool
      BY <1>3, <1>6, PoolsAsTheyAre
    <2>5. RunSound'
      BY <1>1, <1>3, <1>6, <2>2, <2>3, <2>4 DEF RunSound, Created, Existing
    <2> QED
      BY <1>1, <1>3, <1>6, <2>4, <2>5, ProvisionFacts, RunKeeps
  <1> QED
    BY <1>4, <1>5, <1>6

\* The command has q to do when it has published a batch's refills, or waited for them.
NextWait(q) ==
    /\ q \in Prefill /\ q.pc \in {"fill", "wait"}
    /\ q.listed = run.listed /\ q.stale = run.stale /\ q.mode = run.mode
    /\ q.wanted = run.wanted /\ q.places = run.places /\ q.changed = run.changed
    /\ q.missing \subseteq q.batch /\ q.batch \subseteq run.wanted
    /\ q.todo \cup q.failures \subseteq run.wanted
    /\ ready \subseteq ready' /\ ready' \subseteq Places
    /\ run.todo \cup ready \cup run.failures \subseteq q.todo \cup ready' \cup q.failures
    /\ q.pc = "wait" => q.batch \subseteq q.missing \cup ready'

LEMMA WaitKeeps ==
  ASSUME ProvisionInv, QueueBatch \/ PollBatch \/ DeadlinePasses \/ BatchEnds
  PROVE  ProvisionInv'
  <1>1. /\ RunSound /\ run \in Prefill /\ PoolsSound /\ refills \subseteq Places
        /\ run.wanted \subseteq Places /\ ready \subseteq Places /\ meddled \subseteq Places
        /\ Batch \subseteq run.todo /\ Batch \subseteq Places /\ run.todo \subseteq Places
        /\ run.batch \subseteq Places /\ run.missing \subseteq run.batch
        /\ run.failures \subseteq run.wanted /\ run.todo \subseteq run.wanted
        /\ run.batch \subseteq run.wanted
        /\ run.pc = "wait" => run.batch \subseteq run.missing \cup ready
    BY ProvisionFacts, BatchIsTodo DEF RunSound, Prefill
  <1>2. /\ run.pc \in {"fill", "wait"}
        /\ UNCHANGED <<geo, live, catalog, others, meddled, provisionOps>>
    BY DEF QueueBatch, PollBatch, DeadlinePasses, BatchEnds, OwnStep
  <1>3. PICK q : run' = q /\ NextWait(q)
    <2>1. CASE QueueBatch
      <3>1. PICK B \in SUBSET run.todo : B = Batch
        BY <1>1
      <3>2. PICK q : q = [run EXCEPT !.pc = "wait", !.batch = B, !.missing = B, !.late = FALSE]
        OBVIOUS
      <3>3. run' = q /\ ready' = ready
        BY <2>1, <3>1, <3>2 DEF QueueBatch
      <3>4. /\ q \in Prefill /\ q.pc = "wait" /\ q.listed = run.listed
            /\ q.stale = run.stale /\ q.mode = run.mode /\ q.wanted = run.wanted
            /\ q.places = run.places /\ q.changed = run.changed /\ q.todo = run.todo
            /\ q.batch = B /\ q.missing = B /\ q.failures = run.failures
        BY <1>1, <3>1, <3>2 DEF Prefill
      <3>5. NextWait(q)
        BY <1>1, <3>1, <3>3, <3>4 DEF NextWait
      <3> QED
        BY <3>3, <3>5
    <2>2. CASE PollBatch
      <3>1. PICK M \in SUBSET run.batch : M = {p \in run.batch : pool[p].stock < ReadyAt(p)}
        OBVIOUS
      <3>2. PICK q : q = [run EXCEPT !.missing = M]
        OBVIOUS
      <3>3. run' = q /\ ready' = ready \cup (run.batch \ M) /\ run.pc = "wait"
        BY <2>2, <3>1, <3>2 DEF PollBatch
      <3>4. /\ q \in Prefill /\ q.pc = "wait" /\ q.listed = run.listed
            /\ q.stale = run.stale /\ q.mode = run.mode /\ q.wanted = run.wanted
            /\ q.places = run.places /\ q.changed = run.changed /\ q.todo = run.todo
            /\ q.batch = run.batch /\ q.missing = M /\ q.failures = run.failures
        BY <1>1, <3>1, <3>2, <3>3 DEF Prefill
      <3>5. NextWait(q)
        BY <1>1, <3>1, <3>3, <3>4 DEF NextWait
      <3> QED
        BY <3>3, <3>5
    <2>3. CASE DeadlinePasses
      <3>1. PICK q : q = [run EXCEPT !.late = TRUE]
        OBVIOUS
      <3>2. run' = q /\ ready' = ready /\ run.pc = "wait"
        BY <2>3, <3>1 DEF DeadlinePasses, OwnStep
      <3>3. /\ q \in Prefill /\ q.pc = "wait" /\ q.listed = run.listed
            /\ q.stale = run.stale /\ q.mode = run.mode /\ q.wanted = run.wanted
            /\ q.places = run.places /\ q.changed = run.changed /\ q.todo = run.todo
            /\ q.batch = run.batch /\ q.missing = run.missing /\ q.failures = run.failures
        BY <1>1, <3>1, <3>2 DEF Prefill
      <3>4. NextWait(q)
        BY <1>1, <3>2, <3>3 DEF NextWait
      <3> QED
        BY <3>2, <3>4
    <2>4. CASE BatchEnds
      <3>1. PICK q : q = [run EXCEPT !.pc = "fill", !.todo = run.todo \ run.batch,
                                     !.failures = run.failures \cup run.missing]
        OBVIOUS
      <3>2. run' = q /\ ready' = ready /\ run.pc = "wait"
        BY <2>4, <3>1 DEF BatchEnds, OwnStep
      <3>3. /\ q \in Prefill /\ q.pc = "fill" /\ q.listed = run.listed
            /\ q.stale = run.stale /\ q.mode = run.mode /\ q.wanted = run.wanted
            /\ q.places = run.places /\ q.changed = run.changed
            /\ q.todo = run.todo \ run.batch /\ q.batch = run.batch
            /\ q.missing = run.missing /\ q.failures = run.failures \cup run.missing
        BY <1>1, <3>1 DEF Prefill
      <3>4. NextWait(q)
        BY <1>1, <3>2, <3>3 DEF NextWait
      <3> QED
        BY <3>2, <3>4
    <2> QED
      BY <2>1, <2>2, <2>3, <2>4
  <1>4. PoolsFollow(pool)
    <2>1. RowsOk(pool)
      BY <1>1, PoolFacts DEF RowsOk, PoolsSound
    <2>2. (\E S : QueueRefills(S, pool)) \/ (Pools(pool) /\ refills' = refills)
      BY DEF QueueBatch, PollBatch, DeadlinePasses, BatchEnds, OwnStep
    <2> QED
      BY <1>1, <2>1, <2>2, RefillsQueued, PoolsWritten
  <1>5. Existing \subseteq Existing' /\ \A p \in Places : Planned(p) => Planned(p)'
    BY <1>4 DEF PoolsFollow, Existing, Planned
  <1>6. RunSound'
    BY <1>1, <1>2, <1>3, <1>5 DEF RunSound, Created, NextWait
  <1>7. ready' \subseteq Places
    BY <1>3 DEF NextWait
  <1> QED
    BY <1>1, <1>2, <1>4, <1>6, <1>7, ProvisionFacts, RunKeeps

LEMMA FinishKeeps ==
  ASSUME ProvisionInv, Finish
  PROVE  ProvisionInv'
  <1>1. /\ RunSound /\ run \in Prefill /\ run.pc = "fill" /\ run.todo = {}
    BY ProvisionFacts DEF RunSound, Finish
  <1>2. PICK q : q = [NoRun EXCEPT !.pc = "done", !.mode = run.mode, !.wanted = run.wanted,
                            !.failures = run.failures]
    OBVIOUS
  <1>3. /\ q \in Prefill /\ q.pc = "done" /\ q.listed = {} /\ q.stale = {}
        /\ q.mode = run.mode /\ q.wanted = run.wanted /\ q.places = {}
        /\ q.changed = {} /\ q.todo = {} /\ q.batch = {}
        /\ q.missing = {} /\ q.failures = run.failures
    BY <1>1, <1>2 DEF Prefill, NoRun
  <1>4. /\ run' = q /\ Pools(pool)
        /\ UNCHANGED <<geo, live, catalog, refills, others, meddled, ready, provisionOps>>
    BY <1>2 DEF Finish, OwnStep
  <1>5. PoolsFollow(pool) /\ pool' = pool
    BY <1>4, PoolsAsTheyAre
  <1>6. RunSound'
    BY <1>1, <1>3, <1>4, <1>5 DEF RunSound, Created, Existing, Planned
  <1> QED
    BY <1>4, <1>5, <1>6, ProvisionFacts, RunKeeps

LEMMA ProvisionStarts ==
  ASSUME ProvisionInit
  PROVE  ProvisionInv
  <1>1. /\ OfficeCount \in Nat \ {0} /\ OfficeBelow \in Nat /\ Country \notin States
        /\ MaxProvisionOps \in Nat
    BY ProvisionAssumption
  <1>2. PICK fresh : fresh = NewPool(OfficeCount, OfficeBelow)
    OBVIOUS
  <1>3. /\ fresh \in Pool /\ fresh.exists /\ fresh.target = OfficeCount /\ fresh.stock = 0
    BY <1>1, <1>2 DEF NewPool, NoPool, Pool
  <1>4. PICK one : one = [fresh EXCEPT !.stock = 1]
    OBVIOUS
  <1>5. one \in Pool /\ one.exists /\ one.target = OfficeCount /\ one.stock = 1
    BY <1>3, <1>4 DEF Pool
  <1>6. PICK none : none = NoPool
    OBVIOUS
  <1>7. none \in Pool /\ ~none.active /\ none.target = 0 /\ none.stock = 0
    BY <1>6 DEF NoPool, Pool
  <1>8. ASSUME NEW p \in Places
        PROVE  pool[p] \in {fresh, one, none}
    <2>1. pool[p] = CASE p = Country -> fresh
                      [] p \in States /\ p = CHOOSE s \in States : TRUE -> one
                      [] OTHER -> none
      BY <1>2, <1>4, <1>6, Zenon DEF ProvisionInit
    <2>2. PICK chosen : chosen = CHOOSE s \in States : TRUE
      OBVIOUS
    <2>3. CASE p = Country
      BY <1>1, <2>1, <2>2, <2>3
    <2>4. CASE p # Country /\ p \in States /\ p = chosen
      BY <2>1, <2>2, <2>4
    <2>5. CASE p # Country /\ ~(p \in States /\ p = chosen)
      BY <2>1, <2>2, <2>5
    <2> QED
      BY <2>3, <2>4, <2>5
  <1>9. /\ peak = [p \in Places |-> pool[p].target]
        /\ live = States \cup Cities /\ catalog \subseteq live /\ geo \in {"P2", "P3"}
        /\ refills = {} /\ run = NoRun /\ others = NoOthers
        /\ meddled = {} /\ ready = {} /\ provisionOps = 0
    BY Zenon DEF ProvisionInit
  <1>10. PoolsSound
    <2>1. \A p \in Places : /\ pool[p] \in Pool /\ (pool[p].active => pool[p].exists)
                            /\ pool[p].target \in Nat /\ pool[p].stock <= pool[p].target
      BY <1>1, <1>3, <1>5, <1>7, <1>8
    <2>2. pool \in [Places -> Pool]
      <3> DEFINE entry(p) ==
           CASE p = Country -> NewPool(OfficeCount, OfficeBelow)
             [] p \in States /\ p = CHOOSE s \in States : TRUE ->
                    [NewPool(OfficeCount, OfficeBelow) EXCEPT !.stock = 1]
             [] OTHER -> NoPool
      <3>0. pool = [p \in Places |-> entry(p)]
        BY Zenon DEF ProvisionInit
      <3> HIDE DEF entry
      <3>1. pool = [p \in Places |-> pool[p]]
        BY <3>0
      <3> QED
        BY <2>1, <3>1
    <2> QED
      BY <1>9, <2>1, <2>2 DEF PoolsSound
  <1>11. OthersSound
    BY <1>9, NoOthersOk DEF OthersSound
  <1>12. RunSound
    <2>1. /\ run \in Prefill /\ run.pc = "idle" /\ run.mode = "queue" /\ run.wanted = {}
          /\ run.listed = {} /\ run.stale = {} /\ run.changed = {} /\ run.todo = {}
          /\ run.batch = {} /\ run.missing = {} /\ run.failures = {}
      BY <1>9 DEF NoRun, Prefill
    <2> QED
      BY <2>1 DEF RunSound, Created
  <1> QED
    BY <1>1, <1>9, <1>10, <1>11, <1>12 DEF ProvisionInv

LEMMA ProvisionStepInv ==
  ASSUME ProvisionInv, [ProvisionNext]_provisionVars
  PROVE  ProvisionInv'
  <1>1. CASE \E p \in Places :
                \/ Refill(p) \/ RefillFails(p) \/ Consume(p) \/ ExpandAsk(p)
                \/ PanelRefill(p) \/ PanelPause(p) \/ PanelResume(p) \/ PanelClear(p)
                \/ \E size \in Resizes : ResizeCount(p, size)
    BY <1>1, RefillKeeps, StockTaken, ExpandKeeps, PanelKeeps, ResizeKeeps
  <1>2. CASE (\E p \in States \cup Cities : GeographyChanges(p)) \/ SyncRegionsOnly
             \/ ImportGeography
    BY <1>2, GeographyKeeps
  <1>3. CASE \E mode \in {"queue", "direct", "catalog"}, cities \in BOOLEAN : Begin(mode, cities)
    BY <1>3, BeginKeeps
  <1>4. CASE \E flag \in BOOLEAN : GenerateForm(flag) \/ EnsurePools(flag)
    BY <1>4, GenerateKeeps, EnsureKeeps
  <1>5. CASE RunStep \/ DeadlinePasses
    BY <1>5, ListKeeps, CatalogSyncs, DeactivateKeeps, CreateKeeps, ReadKeeps, SizeKeeps,
       FillKeeps, WaitKeeps, FinishKeeps DEF RunStep
  <1>6. CASE \/ ResizeWrite \/ GenerateCountry \/ ExpandCreate \/ ExpandWrite
             \/ BulkSize \/ BulkFill
    BY <1>6, ResizeKeeps, GenerateKeeps, ExpandKeeps, BulkSizeKeeps, BulkFillKeeps
  <1>7. CASE UNCHANGED provisionVars
    BY <1>7 DEF provisionVars, ProvisionInv, PoolsSound, OthersSound, RunSound, Existing,
       Planned
  <1> QED
    BY <1>1, <1>2, <1>3, <1>4, <1>5, <1>6, <1>7 DEF ProvisionNext

LEMMA ProvisionAlways == ProvisionSpec => []ProvisionInv
  BY ProvisionStarts, ProvisionStepInv, PTL DEF ProvisionSpec

\* Every pool, message and operation of provisioning always has its type.
THEOREM ProvisionIsTyped == ProvisionSpec => []ProvisionTypeOK
  <1>1. ProvisionInv => ProvisionTypeOK
    BY DEF ProvisionInv, ProvisionTypeOK, PoolsSound, OthersSound, RunSound
  <1> QED
    BY <1>1, ProvisionAlways, PTL

\* No pool ever holds more than the largest size it was given, whatever
\* refills, prefills, resizes, expansions and panels overlap
\* (refill_proxy_pool, fill_targets_direct).
THEOREM PoolsNotOverstocked == ProvisionSpec => []NoOverstock
  <1>1. ProvisionInv => NoOverstock
    BY DEF ProvisionInv, PoolsSound, NoOverstock
  <1> QED
    BY <1>1, ProvisionAlways, PTL

\* A prefill that reports no failure has readied every pool it wanted, except
\* what others changed meanwhile (the two prefill commands).
THEOREM PrefillTellsTruth == ProvisionSpec => []PrefillReadied
  <1>1. ProvisionInv => PrefillReadied
    <2> SUFFICES ASSUME ProvisionInv, run.pc = "done", run.mode # "catalog",
                        NEW p \in run.wanted \ (run.failures \cup meddled)
                 PROVE  /\ p \in {Country} \cup catalog /\ Planned(p) /\ p \in ready
      BY DEF PrefillReadied, Planned
    <2>1. RunSound /\ run.changed = {} /\ run.todo = {}
      BY DEF ProvisionInv, RunSound
    <2> QED
      BY <2>1 DEF RunSound, Created
  <1> QED
    BY <1>1, ProvisionAlways, PTL

-----------------------------------------------------------------------------
(* The five together.                                                        *)

LEMMA BackofficeStarts ==
  Init => BridgeInit /\ SyncInit /\ AlertInit /\ ReportInit /\ ProvisionInit
  BY DEF Init

\* A step of one part leaves the others alone.
LEMMA BackofficeSteps ==
  [Next]_vars => /\ [BridgeNext]_bridgeVars
                 /\ [SyncNext]_syncVars
                 /\ [AlertNext]_alertVars
                 /\ [ReportNext]_reportVars
                 /\ [ProvisionNext]_provisionVars
  <1> SUFFICES ASSUME [Next]_vars
               PROVE  /\ [BridgeNext]_bridgeVars
                      /\ [SyncNext]_syncVars
                      /\ [AlertNext]_alertVars
                      /\ [ReportNext]_reportVars
                      /\ [ProvisionNext]_provisionVars
    OBVIOUS
  <1>1. CASE BridgeRuns
    <2>1. BridgeNext
      BY <1>1 DEF BridgeRuns, BridgeNext
    <2>2. UNCHANGED <<syncVars, alertVars, reportVars, provisionVars>>
      BY <1>1 DEF BridgeRuns, InBridge
    <2> QED
      BY <2>1, <2>2
  <1>2. CASE SyncRuns
    <2>1. SyncNext
      BY <1>2 DEF SyncRuns, SyncNext
    <2>2. UNCHANGED <<bridgeVars, alertVars, reportVars, provisionVars>>
      BY <1>2 DEF SyncRuns, InSync
    <2> QED
      BY <2>1, <2>2
  <1>3. CASE AlertRuns
    <2>1. AlertNext
      BY <1>3 DEF AlertRuns, AlertNext
    <2>2. UNCHANGED <<bridgeVars, syncVars, reportVars, provisionVars>>
      BY <1>3 DEF AlertRuns, InAlerts
    <2> QED
      BY <2>1, <2>2
  <1>4. CASE ReportRuns
    <2>1. ReportNext
      BY <1>4 DEF ReportRuns, ReportNext
    <2>2. UNCHANGED <<bridgeVars, syncVars, alertVars, provisionVars>>
      BY <1>4 DEF ReportRuns, InReports
    <2> QED
      BY <2>1, <2>2
  <1>5. CASE ProvisionRuns
    <2>1. ProvisionNext
      <3>1. Touched \subseteq Places
        BY ProvisionAssumption
      <3> QED
        BY <1>5, <3>1 DEF ProvisionRuns, ProvisionNext
    <2>2. UNCHANGED <<bridgeVars, syncVars, alertVars, reportVars>>
      BY <1>5 DEF ProvisionRuns, InProvisioning
    <2> QED
      BY <2>1, <2>2
  <1>6. CASE UNCHANGED vars
    BY <1>6 DEF vars
  <1> QED
    BY <1>1, <1>2, <1>3, <1>4, <1>5, <1>6 DEF Next

\* Together, the five parts behave as each does alone: nothing one of them does
\* is outside the specification of another.
THEOREM BackofficeImplementsParts ==
  Spec => BridgeSpec /\ SyncSpec /\ AlertSpec /\ ReportSpec /\ ProvisionSpec
  BY BackofficeStarts, BackofficeSteps, PTL
  DEF Spec, BridgeSpec, SyncSpec, AlertSpec, ReportSpec, ProvisionSpec

\* Every row, message and process of the five parts always has its type.
THEOREM BackofficeIsTyped == Spec => []BackofficeTypeOK
  <1>1. BridgeSpec => []BridgeTypeOK
    BY BridgeInitInv, BridgeStepInv, PTL DEF BridgeSpec, BridgeInv
  <1>2. SyncSpec => []SyncTypeOK
    BY SyncInitInv, SyncStepInv, PTL DEF SyncSpec, SyncInv
  <1>3. AlertSpec => []AlertTypeOK
    BY AlertInitInv, AlertStepInv, PTL DEF AlertSpec, AlertInv
  <1>4. ReportSpec => []ReportTypeOK
    BY ReportInitInv, ReportStepInv, PTL DEF ReportSpec, ReportInv
  <1>5. BridgeTypeOK /\ SyncTypeOK /\ AlertTypeOK /\ ReportTypeOK /\ ProvisionTypeOK
           => BackofficeTypeOK
    BY DEF BackofficeTypeOK
  <1> QED
    BY <1>1, <1>2, <1>3, <1>4, <1>5, ProvisionIsTyped, BackofficeImplementsParts, PTL

\* And what is proved of each part alone holds of the five together.
THEOREM BackofficeKeepsItsWord ==
  Spec => /\ SuccessIsFinal /\ EffectsInOrder
          /\ LeaseOrderKept /\ CatalogNeverRegresses
          /\ []AlertIsTrue /\ []ReportNotTorn /\ []NoOverstock /\ []PrefillReadied
  BY BackofficeImplementsParts, BridgeSuccessIsFinal, BridgeEffectsInOrder, SyncLeaseOrder,
     SyncNeverRegresses, AlertCountsAndTells, ReportsNotTorn, PoolsNotOverstocked,
     PrefillTellsTruth, PTL

=============================================================================
