# Verification of the automation control server

The server (Django, MySQL, Celery with Redis) issues proxies to a fleet of desktops,
guards exit addresses and browser groups against double use, and steers the desktops with
releases and commands. Web workers, Celery workers, panel sessions and desktops run
concurrently and meet in database rows; the server's correctness is in which row is locked
when, which value is read before a lock and used after it, and what a lost reply or a killed
process leaves behind. These modules model that, and leave ciphertexts, wording, audit
columns and page layout out.

Paths below are relative to `src/control/` unless they start with `src/`.

## 1. Inventory

### Exit-IP cooldown and its policy (modelled)
- *State*: one `ProxyExitIPCooldown` row per normalized exit address (owner reservation,
  `claimed_at`, `available_after`), the singleton `ProxyCooldownPolicy` (switch, revision).
- *Operations*: `check_exit_ip`, `claim_exit_ip` (create, retry, duplicate, take over),
  `set_cooldown_policy` with a revision check, deletion of a reservation (SET NULL).
- *Interaction*: desktops call `proxy_exit_ip_claim` with a reservation of the proxy pool;
  the OPTIX bridge reaches the same functions; two panels write one policy.
- *Hard*: racing claims on absent and existing rows, clock and policy read before the lock,
  lost replies, the policy changing under way.
- *Correct when*: an enforced claim waits for the window before it, replays are
  idempotent, the early check agrees with the claim.

### Proxy pools, jobs and refills (modelled in part)
- *State*: `ProxyPoolTarget` (active, `refill_pending`, time of the claim, sizes),
  `ProxyPoolEntry` (available, reserved), `ProxyGenerationJob` (status, ready count),
  `ProxyReservation`, messages in the broker.
- *Operations*: `create_proxy_job` (stock, rotate, reserve), `refill_proxy_pool` and
  `fulfill_waiting_jobs`, `queue_refill_proxy_pool`, `maintain_proxy_pools`,
  `expand_proxy_pool_scope`, the panel's generate, remove, pause, clear and resize, the mobile
  refill, the compatibility task, direct prefill.
- *Hard*: SKIP LOCKED, several transactions in one refill, a claim flag that outlives its
  worker, check-then-act claims, delete by collected ids.
- *Correct when*: no proxy is issued twice, a job's status tells what was reserved, stock
  is not generated twice, refills are not blocked for ever, reserved history stays.

### Geography, expansion and prefill of pools (modelled in part)
- *State*: the provider's states and cities, the catalog of selectable ones, the pools of a
  country, its states and cities, the running prefill command.
- *Operations*: the two geo prefills (catalog, deactivation, creation, sizing, filling by
  itself or through the workers), `expand_proxy_pool_scope`, `sync_provider_geography`,
  `sync_p3_geo_catalog`, `ensure_pool_targets`, `prefill_proxy_pools`, the panel's buttons.
- *Interaction*: refills, desktops, panels and other commands change the same rows.
- *Hard*: rows read and written statements later, dead workers, stale claims, deadlines,
  fills that generate outside the lock.
- *Correct when*: no stock exceeds what was asked for, a prefill ends, and what it reports
  as done is done.

### Profile-create lease and its queue (modelled)
- *State*: one `ProfileCreateLease` per account and group, `ProfileCreateQueue` rows.
- *Operations*: `acquire_profile_lease` (expire, poll, supersede, insert, evict, grant; the
  direct mode), `release_profile_lease` (cancel, release).
- *Hard*: crashed holders, abandoned places, stale clocks, unlocked poll reads, a release in two
  transactions, two requests of one desktop.
- *Correct when*: a live lease is ended by its holder only, grants are first come first
  served, a poller is answered.

### YS bridge (modelled)
- *State*: `YSBridgeCommand` (queued, running, succeeded, failed; `claimed_at`), the agent.
- *Operations*: `mobile_ops.py` queue, retry, `bridge_poll`, `bridge_complete`; the loop in
  `src/tools/YSBridgeAgent.ps1`.
- *Hard*: delivery at least once, re-queue after fifteen minutes, a completion without a
  claim token, an unlocked retry.
- *Correct when*: a success is final, YSBrowser changes in the order of the requests unless
  a command was queued again, no command stays unfinished.

### Remote desktop commands (modelled)
- *State*: the command, revision, acknowledgement and phase columns of `ClientAccess`.
- *Operations*: schedule removal or migration and cancel (`panel_operations.py`), delivery at
  bootstrap, `desktop_command_ack`, `desktop_command_status`, the installer's download.
- *Hard*: requests checked on the row as it was read and written unconditionally, a cancel
  that does not raise the revision, a migration that fails after it changed the desktop.
- *Correct when*: an acknowledgement is of the command it is shown with; no removal waits
  behind the acknowledgement of the command before it.

### Activation, tokens, access and whitelists (modelled in part)
- *State*: `DesktopSecurityConfiguration` (key, revision, global switch), `ClientAccess`
  (active, activation rule, primary address), `ClientAccessIP`, `BootstrapAudit`, the version
  of the configuration bundle, signed bearer tokens.
- *Operations*: bootstrap, `_authenticated_client`, `_validate_activation_revision`; forms
  and buttons that rotate the key, approve and reject addresses, edit lists, switch PCs.
- *Hard*: sessions that outlive a rotation, global and per-desktop rules that disagree,
  forms saved over one another, the primary address compared as it was read.
- *Correct when*: a rotated key ends the sessions it must end; addresses admitted are those
  staff decided on.

### Desktop and component releases (modelled)
- *State*: `DesktopRelease`, `DesktopComponentRelease` (draft, published, revoked; build,
  artifact, signature, targets), private storage.
- *Operations*: the admin's forms and deletion, publish and revoke from admin and panel,
  rollouts, artifact clean-up, `select_desktop_update`, `select_component_updates`.
- *Hard*: save() validates what it reads and writes all columns later; the test for a higher
  build takes no lock; revoking a component falls back to an older build.
- *Correct when*: live releases are signed as they are, go one way, come in build order, and
  every desktop comes to run the newest meant for it.

### Browser catalog sync (modelled)
- *State*: `BrowserCatalogSnapshot` with a lease token; *operations*: `sync_resource`,
  `current_catalog` and the download.
- *Hard*: runs that outlive their fifteen-minute lease, partial answers.
- *Correct when*: snapshots are written in the order of their leases and nothing desktops
  were given is lost.

### Inventory alerts (modelled)
- *State*: `ProxyInventoryAlert` by deduplication key; *operations*:
  `record_proxy_inventory_shortage`, `send_proxy_inventory_alert` with retries.
- *Hard*: concurrent first shortages, rollbacks, the message sent on commit, half-told
  recipients, lost messages.
- *Correct when*: the row tells how many shortages there were and whether everyone was told.

### Domain reports (modelled; profile activity is not)
- *State*: `ProfileDomainActivity`, the profile's name in the reservation.
- *Operations*: `profile_domains`. *Hard*: two reports of a session in opposite orders.
- *Correct when*: reports count as if they had come one after the other.

### Not modelled
- OPTIX bridge (an HMAC gate to operations modelled above), cryptography, storage,
  admin and panel pages, reporting, settings, migrations, deployment scripts, tests: queries,
  I/O, layout or configuration.
- Of the components modelled in part: static catalog lines and deletion of a pool, on-demand
  generation without a broker; rate limits, the B1 key, local testing mode; new
  `ClientAccess` rows and the filters that limit a sub-administrator to an office;
  profile-activity rows, which are single inserts; parsing and naming of locations and the
  routing of P3 sessions, which are pure lookups; commands that import catalogs or
  configurations.

`PROJECT.json` lists the hazards of this code at the line where each bites, with the
properties that would notice it going wrong.

## 2. Modules

| Module | Models | Role |
|---|---|---|
| `ExclusiveUse` | what the shared exit-IP check promises | abstract specification |
| `ExitIpCooldown` | `exit_ip_cooldown.py`, `views.proxy_exit_ip_claim` | refines `ExclusiveUse` |
| `ProxyPool` | `proxy_jobs.py`, `tasks.py`, `views.create_proxy_job` and the pool operations of panel and mobile app | one pool with its locks |
| `PoolProvisioning` | the geo prefill commands, `prefill.py`, `proxy_expansion.py`, the catalogs, panel and admin operations on pools | many pools, stock as numbers |
| `ProfileLease` | `views.acquire_profile_lease`, `release_profile_lease` | |
| `Releases` | `DesktopRelease`, `DesktopComponentRelease`, their admin and panel operations, `release_updates.py`, the downloads | |
| `RemoteCommand` | commands in `panel_operations.py`, `views.desktop_command_*`, `migration_updates.py` | |
| `DesktopAccess` | bootstrap, tokens, `DesktopSecurityConfiguration`, address editing in panel, admin, mobile and sub-admin pages | |
| `YSBridge` | `mobile_ops.py` bridge and commands, `YSBridgeAgent.ps1` | |
| `CatalogSync` | `browser_catalog.py` | |
| `InventoryAlert` | `inventory_alerts.py`, `alerts.py`, the sending task | |
| `DomainReports` | `views.profile_domains` | |
| `MCFleet` | `Releases`, `RemoteCommand`, `DesktopAccess` side by side | instance for TLC |
| `MCBackoffice` | `YSBridge`, `CatalogSync`, `InventoryAlert`, `DomainReports`, `PoolProvisioning` side by side | instance for TLC |
| other `MC...` | | symmetry for TLC |
| `ExitIpCooldownProofs`, `ProxyPoolProofs`, `ProfileLeaseProofs`, `ReleasesProofs`, `RemoteCommandProofs`, `DesktopAccessProofs` | | theorems about the module each is named after |
| `BackofficeProofs` | | theorems about the five components of `MCBackoffice`, and about the five together |
| `FleetProofs` | | theorems about `MCFleet`, from those of its three components |

Every module's actions are steps that no other session can see half done: a statement, or
the part of a transaction between two row locks it may wait for. Writes that become visible
at commit change the tables in the action that commits, or put the session into the row's
`holder` until it commits. Lock waits are guards; sessions that wait for each other are broken
up by `DeadlockVictim`, or `ReportFails`, as the database does. Killed processes roll their
open transaction back. Where the code reads a row and saves it later without a lock, the
reading and the writing are two actions and the session carries what it read.
Operators whose comment starts with "A fault:" are deliberate mistakes, one for each
property; they are not part of the specifications and show that each property can fail.

### ExitIpCooldown
`Receive` is the view up to the call, and fixes `now`; `ReadPolicy`, `LockRow`, `Insert` follow
`claim_exit_ip` statement by statement; `Outcome` is its decision, `Accept` and `Answer`
commit it. The uncommitted insert of the unique key and a row lock are one thing here: they make
the other session wait, which then finds the committed row. `SavePolicy` is
`set_cooldown_policy`, `DeleteReservation` the SET NULL of the foreign key, `ForeignKeyFails`
the claim whose reservation vanished. `accepted` is history: the accepted fresh uses of an
address in commit order.

### ProxyPool
One pool. A request is `BeginCreate`, `StockUp`, `Pick`, `Commit` (one transaction, cut
at its locks), then `Queue` and `Publish` after the commit. A refill is `StartRefill`,
`LockTarget`, `Fill`, `List`, then `CountIssued`, `Reserve`, `Issue`, `Update` for each listed job, and
`FinishRefill` for the `finally` clause; each of these is a separate transaction or statement
in the code. The reservation's query joins entries with their pool FOR UPDATE SKIP LOCKED; the
database locks both rows, so `Reservation` finds nothing while another session holds the
pool's row. Generated proxies are assumed fresh (`unborn` entries are not reused). `stale`
says that `PROXY_REFILL_STALE_SECONDS` have passed since the claim.

### ProfileLease
One account and group. Time is abstracted to the deadlines that have passed; a session carries
those that had passed when it read its clock, so a stale clock is a smaller set. Queue rows are
numbered in order of creation and a lease is named by the row it was granted to.
`WantedRows` and `WantsLease` say what the next statement locks; the ordered scan for the head of the
queue also meets uncommitted inserts. Desktops keep the token they poll with and the lease
they work under; a lost reply leaves both as they were.

### Releases
`FormOpen` and `FormAdd` are a posted form that Django has applied to the row it read;
`FormCheck` is `save()` up to the UPDATE (the row read again, the transitions of
`TransitionAllowed`, the artifact hashed, `Publishable` for a draft that goes live);
`FormWrite` stores the upload and writes every column, and `CleanArtifact` removes the replaced
file after the commit. `PublishBegin` and `PublishCommit` are the row lock of
`publish_releases` and of the panel's rollout; `NewestBuild` reads other rows without one.
`Selected` is `select_desktop_update` or `select_component_updates`, which differ: the
application never goes back, a component follows the newest that is left. `Offer` and
`Download` are a desktop that asks and fetches. One channel; two properties name the window the
code leaves open (`Overtaken`, the builds a publication has seen) and hold outside of it.

### RemoteCommand
`Ask...` read the rows a panel request is about, `PanelWrite` writes the columns the
request names. `AgentRead` is an endpoint's check of the row it read, `AckWrite` and
`ReportWrite` its unconditional update. `StillPending` and `StillCurrent` keep apart what
`desktop_command_ack` and `desktop_command_status` ask. `crossed` is history: the
desktops whose row changed under a writer; the properties are about all the others, and
`accepted` records the acknowledgements they are compared with.

### DesktopAccess
`Bootstrap` refuses (leaving an audit row), asks for the key, or issues a token;
`TokenAccepted` is `_authenticated_client`, checked at every request. `SecurityOpen` and
`SecurityWrite` are the admin's and the panel's form and their buttons over one row;
`overlapped` says that one of these saves was lost under another.

Requests about addresses are transactions of several statements. `AddOpen`, `AddRow` for
each computer and `AddCommit` are the approvals and additions for a PC or an office;
`GrantOpen` and `GrantEnable`, which enables the row first, the admin's grant. `ListOpen`
reads the computers, `ListClear` is the first part of `_save_client_ip_values` for one of
them (the primary address if it is another than the one read, and the UPDATE that switches
off all entries not in the list), `ListRow` each address it switches on, `ListCommit` the
end of the transaction. What a statement writes is in the session (`on`, `off`, `led`) until
it commits: others do not see it and wait for its row (`RowFree`, `ComputerFree`; a new entry
also keeps the computer's row, which it refers to, from being written). A request that waits
too long, or whose address `full_clean` refuses, rolls back (`RequestFails`). Where the
primary address is unchanged nothing locks the computer's row, and two lists interleave.

`granted` and `denied` are history: the decisions about each entry that still count. A request
that commits replaces the decisions made before it read the computers and stands beside
those made since; both are then allowed for by `AdmittedAsDecided`, which so holds of each
address. That the *whole* list of a computer is one that was saved does not hold (see "Seen
while modelling"). A list that leads with what was the primary address when it was read
does not write it, and leaves that address out if another list has changed it since:
`Refuses` says so.

### YSBridge
`Poll` is `bridge_poll`, one transaction: overdue claims are queued again and the oldest
is claimed; its reply may be lost. `Execute` changes YSBrowser and may fail before or after
it did; `Report` posts the completion, which stays under way until `Complete` or `LoseAnswer`.
An execution takes longer than fifteen minutes only as a bounded event; a command
nobody works on grows overdue by time alone. `effect` and `again` are history.

### CatalogSync
`Acquire`, `ReadOwned`, `Fetch`, `Store`, `Fail` are the statements of `sync_resource`;
`KillSync` leaves the lease to run out. An answer carries the required keys and some of the
others, or is refused. `ShowRevision` and `Download` are a desktop at bootstrap and after.

### InventoryAlert
`Insert`, `Count`, `Commit` are one request's transaction, `Enqueue` its `on_commit` hook.
`TaskBegins`, `SendOne`, `SendFails`, `MarkSent` are the sending task, which tells one
recipient at a time and retries all of them. A window is a row, as it is part of the key.

### DomainReports
`WriteRow` is one `update_or_create` of `profile_domains` in the order the desktop listed;
the row stays held until `ReportCommits` or `ReportFails`. `InDeadlock` finds the cycles
the database breaks up.

### PoolProvisioning
`Begin` to `Finish` are the `handle` of the two prefill commands, statement by statement:
`ListPools`, `SyncRegions`, `SyncCities`, `Deactivate`, `CreatePools`, `ReadPools`, `SizePools`,
then `FillDirect`, or `QueueBatch`, `PollBatch` and `BatchEnds` for each batch. P2 takes its
geography from the provider and maintains the catalog; P3 takes it from the catalog. The
`FilledFor` is a pool that is filled to its target and from which the jobs that wait for it
then take, in the same transaction; so a pool that is `ready` was filled, and may hold less
when the transaction commits. The operations of others follow: buttons of the panel,
generation, resize (one transaction: the excess is counted before the row is waited for,
`ResizeCount`, and what is left of it deleted and the sizes written after, `ResizeWrite`),
expansion in three steps, and `ensure_pool_targets`, after which `prefill_proxy_pools`
sizes (`BulkSize`) and refills (`BulkFill`) one active pool after another.
A refill is one action here; what happens inside it is `ProxyPool`'s subject. `peak`,
`meddled` and `ready` are history.

Three operations stay one action although the code has several statements: `GenerateForm`,
`GenerateCountry` and `EnsurePools`. Each reads a pool and writes sizes that do not depend on what it
read, then asks for refills, which `QueueRefills` tests again in any case; a step of another in
between would only change which of the two sizes stands, and both are in `peak` and
`meddled`. The geography sync with which `prefill_proxy_pools` begins is an action of its own
(`SyncRegionsOnly`), as it may be skipped.

In `YSBridge` a retry is not refused for the status `cancelled` (`mobile_ops.py:393-396`), which
nothing in the repository sets. In `ProxyPool` the ready count is read with the commit that
reserved, where `proxy_jobs.py:261` counts in the next statement: reservations are only added.

### Why several components share a run
`MCFleet` and `MCBackoffice` put components side by side that keep separate rows and take
none of each other's locks, so interleaving them adds no behaviour of any one; a behaviour
picks its `part` and exercises it, the others rest.

## 3. Runs

| Run | Question | Bounds | Result |
|---|---|---|---|
| `Cooldown` | do claims keep the windows, with both kinds of token and a changing policy? | 2 workers, 2 panels, 1 address, 1 reservation, clock 0-2, cooldown 1, 3 uses, 1 policy change | holds |
| `RetryAlwaysIdempotent` | is a replay idempotent whatever the policy did? | 2 workers, 2 reservations, cooldown 2 | violated |
| `ProxyPool` | are proxies issued once, counted right and kept? | 2 processes, 2 requests for 2, pool of 1, 4 entries, 1 fault, 1 operation | holds |
| `RefillRecovery` | do refills recover from lost ones? | 1 request, 3 entries, 2 faults, fairness | holds |
| `WaitingJobServed` | is a waiting job served? | 2 requests for 1, no fault, fairness | violated |
| `ReservedHistoryKept` | does removing stock keep what is reserved? | 2 requests for 1, 1 operation | violated |
| `ProfileLease` | is the lease exclusive, in order and backed? | 2 sessions, 2 desktops, 3 requests, 1 event | holds |
| `LeaseLiveness` | is a polling desktop answered? | 1 session, 2 desktops, 3 requests, 2 events, fairness | holds |
| `OneQueuedRequest` | has a desktop one queued request at most? | 2 sessions, 2 desktops | violated |
| `Fleet` | do releases, commands and access survive overlapping forms? | releases: 2 releases, 2 administrators, 1 desktop that asks and 1 that does not; commands: 2 panels, 1 desktop; access: 2 staff sessions, 1 computer, 3 addresses; 3 operations each, 2 for access; fairness | holds |
| `Backoffice` | do the server's jobs survive kills, lost messages and overlap? | bridge: 2 commands, 2 operators, 3 faults; catalog: 2 runs at a time, 3 in all, 2 keys, 2 editions; alerts: 2 requests, 2 windows, 2 recipients, 1 retry, 3 events; reports: 3 in different orders, 4 events; pools: 1 country, 2 states, 1 city, batches of 2, 0 or 2 proxies taken by waiting jobs, 1 outside operation; fairness | holds |
| `RotationInvalidatesTokens` | does a rotation end all tokens issued for the old key? | 1 staff session, 1 computer, 3 operations | violated |

**Why the bounds are enough.** Every hazard listed is a conflict of two sessions on one row, so
two sessions, one row of each table, and enough history for a second and third use are what it takes:
three uses of an address make a non-neighbouring pair, a third queue row makes somebody wait
behind an abandoned one, an instant after the end of a window makes a boundary, a request
that wants more than the pool's target makes partial jobs and on-demand stock. One fault or
operation per run is enough to meet each of them in every state; two are used where recovery
is the question. Addresses, pools and groups do not interact, so one of each is checked.
For `Fleet`: two releases make an order of builds and a fall-back, two administrators
overlap on one row or on two, and three operations are an edit, a publication and a
revocation, or a command, a cancel and another command, or a key, its use and its rotation.
Three addresses make two lists with the same primary address that differ; two operations are two
requests about it that overlap, one after the other, or both under a move of the desktop. What a
third request makes of what two left was checked once (three operations, 2.2 million states without
the other parts) and is covered by the proof, as are several computers.
For `Backoffice`: two commands make an order, three faults a lost answer, a re-queue and a
late answer; three runs a slow one, its successor and one after; three reports a cycle of
waits without a pair; a country, a live and a withdrawn state and a city every branch of a prefill, whose pools
need two batches. An operation of somebody else falls at every point of a
prefill, its later steps at every later point; how two of them meet while a prefill runs is not covered.
`CHECK_DEADLOCK FALSE` is set because bounded counters let a run end; the liveness runs show
that nothing that is waited for is stuck. Symmetry is used only in runs without liveness
properties.

**Fairness.** `ProxyPool`: processes that are not killed go on (weak fairness per process);
Celery workers take messages; time passes (`Age`); the beat keeps running
`maintain_proxy_pools` (strong fairness: it looks again and again while the stock may be low
only at times), which holds where `AUTO_REFILL_PROXY_POOLS` is on, an operator's choice
whose default is off; without it a lost refill is recovered only by the next request.
`ProfileLease`: sessions that are not killed finish; five-minute leases run out; a desktop that
has a token goes on polling (strong fairness, as a session is not always free); the twelve hours of a place that nobody polls
run out, those of the desktop itself need not. Nothing is assumed about faults, operators,
new requests or releases. `Fleet`: a started form, deletion or publication goes on to its
end; a desktop keeps asking for updates and carries out what it was told, as the desktop polls at every start.
Nothing makes a panel request complete: `RemovalIsAcknowledged` does not need it. `Backoffice`: the
agent's loop polls, executes and reports; a completion that is not lost arrives; fifteen
minutes pass; requests that are not killed commit and queue their message, and Celery takes
it; a prefill command goes on and its deadline passes (`time.monotonic`). No fairness of
refills is assumed: `PrefillEnds` holds with every worker dead.

**What the violated runs show.**
- `RetryAlwaysIdempotent`: `src/docs/global-ip-cooldown.md` promises idempotent retries
  without condition; a use under OFF by another reservation takes the row over, and the first owner's
  replay is then refused inside its own window. `RetryIsIdempotent` is the promise
  that holds: while all uses of the address were enforced.
- `WaitingJobServed`: a request that becomes waiting after the running refill listed its jobs
  is refused a refill of its own (the flag is still set) and is left beside available stock.
- `ReservedHistoryKept`: removing stock deletes by the primary keys it collected, and with
  them what was reserved since.
- `OneQueuedRequest`: superseding and inserting are not serialized between two requests of one
  desktop.
- `RotationInvalidatesTokens`: the docstring of `_validate_activation_revision` promises that
  all existing tokens end when activation rotates (`views.py:1098`). The revision is
  compared only while activation is required of all; a desktop that must be activated by its
  own rule keeps the session it opened with the old key. `RotationEndsSessions` is what
  holds.

**Seen while modelling, not stated as properties.**
- A YS command that was claimed and lost is queued again after fifteen minutes and may take
  effect after a later one; two operators' crossing retries run a succeeded command again.
- `ensure_pool_targets` and `prefill_proxy_pools` give city pools the office-wide size,
  although the panel says that "City pools use the safe 40/8 stock level"
  (`panel_operations.py`); a pool that is larger, with a smaller threshold, is shrunk.
- Resizing counts the excess before it waits for the row, so a refill that counted the old
  size may leave more than the new one.
- The sub-admin page says that a list "replaces the primary IP and optional additional IPs"
  (`src/control/templates/control/subadmin_devices.html:45`). Two lists with the computer's
  primary address that are saved at once each switch off what they find and then add their
  own, and the computer is admitted from both together (`subadmin_views.py:171-190` locks its
  row only when the primary address changes). TLC shows it with three addresses and two
  lists: `[p, b]` and `[p, c]` leave `p`, `b` and `c`.
- A list that leads with the primary address it read does not write it; if another list has
  changed that since, the save succeeds and its first address is not admitted.
- `ensure_p3_region_catalog` enables again the subdivisions that the P3 import disabled.
- An alert left `pending` or `queue_failed` is not queued again within its window, and two
  windows' alerts may be seconds apart.
- Extending a rollout to all desktops by one office narrows it to that office.

## 4. Proofs

Every safety invariant and every action property that a passing run checks is also proved by
TLAPS, for every value of the constants: any number of sessions, workers, desktops,
releases, commands, rows and places, and any bound on the counters. Only what the
assumptions of the modules say is taken for granted:

- `CooldownAssumption`: the cooldown is positive, and Null is none of the values.
- `PoolAssumption`: the bounds are numbers, and the pool's target and what a request wants
  are positive (`tasks.py` and `views.py` raise both to at least one).
- `LeaseAssumption`, `AccessAssumption`, `CommandAssumption`: bounds are numbers, Null is no
  desktop, there is an address.
- `ReleaseAssumption` and `BridgeAssumption`: releases and commands are numbered from one, as
  primary keys are.
- `SyncAssumption`: the required keys are some of the keys; YS has published an edition.
- `AlertAssumption`: windows are numbered, recipients are finitely many.
- `ReportAssumption`: a report lists a domain once (`profile_domains` merges repeated ones).
- `ProvisionAssumption`: finitely many locations, the country is no state or city; planned
  sizes are positive, and the threshold others give does not exceed the size they give (the
  panel's validation).

| Component | Theorem | States |
|---|---|---|
| `ExitIpCooldown` | `RowsGuardWindowsHolds` | `Spec => []RowsGuardWindows`, the inductive invariant |
| | `TypeCorrect` | `Spec => []TypeOK` |
| | `ClaimsWait` | `Spec => []EnforcedClaimWaits` |
| | `RetriesAreIdempotent` | `Spec => []RetryIsIdempotent` |
| | `CheckAgrees` | `Spec => []CheckAgreesWithClaim` |
| | `ImplementsExclusiveUse` | `Spec => ExclusiveSpec` (refinement) |
| `ProxyPool` | `PoolIsTyped` | `Spec => []TypeOK` |
| | `PoolIssuesOnce` | `Spec => []IssuedOnce` |
| | `PoolReadyIsIssued` | `Spec => []ReadyMeansIssued` |
| | `PoolNotOverfilled` | `Spec => []NoOverfill` |
| | `PoolServesDemand` | `Spec => []StockedRequestIsReady` |
| | `RotationKeeps` | `Spec => RotationKeepsReserved` |
| `ProfileLease` | `LeaseIsTyped` | `Spec => []TypeOK` |
| | `LeaseNamesActive` | `Spec => []LeaseIsActive` |
| | `LiveLeaseStays` | `Spec => LiveLeaseKept` |
| | `GroupGoesInOrder` | `Spec => GrantsInOrder` |
| | `AllowedHasLease` | `Spec => AllowedIsBacked` |
| `Releases` | `ReleasesAreTyped` | `ReleaseSpec => []ReleaseTypeOK` |
| | `ReleasesAreSigned` | `ReleaseSpec => []PublishedIsSigned` |
| | `ReleasesLiveOnce` | `ReleaseSpec => ReleaseLifecycle` |
| | `BuildsGoUp` | `ReleaseSpec => BuildsInOrder` |
| `RemoteCommand` | `CommandsAreTyped` | `CommandSpec => []CommandTypeOK` |
| | `AcksAreForThisCommand` | `CommandSpec => []AckIsForThisCommand` |
| `DesktopAccess` | `AccessIsTyped` | `AccessSpec => []AccessTypeOK` |
| | `RotationEnds` | `AccessSpec => []RotationEndsSessions` |
| | `DecisionsAdmit` | `AccessSpec => []AdmittedAsDecided` |
| `YSBridge` | `BridgeSuccessIsFinal` | `BridgeSpec => SuccessIsFinal` |
| | `BridgeEffectsInOrder` | `BridgeSpec => EffectsInOrder` |
| `CatalogSync` | `SyncLeaseOrder` | `SyncSpec => LeaseOrderKept` |
| | `SyncNeverRegresses` | `SyncSpec => CatalogNeverRegresses` |
| `InventoryAlert` | `AlertCountsAndTells` | `AlertSpec => []AlertIsTrue` |
| `DomainReports` | `ReportsNotTorn` | `ReportSpec => []ReportNotTorn` |
| `PoolProvisioning` | `ProvisionIsTyped` | `ProvisionSpec => []ProvisionTypeOK` |
| | `PoolsNotOverstocked` | `ProvisionSpec => []NoOverstock` |
| | `PrefillTellsTruth` | `ProvisionSpec => []PrefillReadied` |
| `MCFleet` | `FleetImplementsParts` | the composition implements the specification of each part |
| | `FleetIsTyped`, `FleetKeepsItsWord` | its types, and the properties of its parts |
| `MCBackoffice` | `BackofficeImplementsParts` | the composition implements the specification of each part |
| | `BackofficeIsTyped`, `BackofficeKeepsItsWord` | its types, and the properties of its parts |

None of these properties is inductive alone: each says what must not happen and nothing of what
a session that has read a row, or locked it, is about to do. The inductive invariants add that;
TLC checked each on the instances of the runs before it was proved.

**`ExitIpCooldown`.** `RowsGuardWindows` adds that a deciding session holds the lock of its row
and has seen what is committed (`DecidesUnderLock`), that the row is the last accepted use
(`RowRecordsLastUse`), that clocks read earlier are not ahead of the clock
(`NothingFromTheFuture`), and that legacy tokens are enforced under any policy
(`LegacyIsEnforced`). Then the only step that adds a use, `Accept`, adds it after the window of
the last one whenever it is enforced. For the refinement this has to reach *all* earlier uses,
not only the neighbour: while every use was enforced the last one is later than all others
(`EarlierUsesAreOver`). `CheckAgrees` is about two functions of one row: it needs the types
and nothing of the behaviour.

**`ProxyPool`.** `Shape` says where a process may hold the pool's row and that one process does.
`StockInv`: what a process has picked or generated is still as it found it, and what a removal
is about to delete nobody has picked, because entries are picked under locks that a second
reservation skips. `JobInv`: a request works for a job that is not stored yet and nobody
else's, a refill for stored ones, and what a refill counted was issued before it writes it;
reservations are only added. `FillInv`: what a process is about to leave in stock is within
the target; nobody else adds any, since adding takes the row. `StockedInv`: where requests stock
the pool, a stocked request still finds what it counted, and nobody waits for a refill.

**`ProfileLease`.** `WorkSound` says which row a session has locked at each of its steps,
`RowSound` and `LeaseSound` that the rows and the lease are as it found them, although its clock
may be behind, `LocksExclusive` that no two sessions lock one row or insert one, and
`Ahead` that a session about to grant has nobody in time before it and nobody will come
before it. The last needs that numbers are handed out in order and not again, which
is how the database numbers rows, and which `Insert` says (`Fresh`, `Inserted`).
`AllowedIsBacked` is the subtle one: a poll reads without a lock, and what backs its answer is
that its own queue row is locked, so that nobody can end its lease meanwhile.

**`Releases`, `RemoteCommand`, `DesktopAccess`.** Nothing here is locked for long, so the
invariants of the forms say what each knows of its own work whatever others do: what `save()` let
through still verifies when it is written (`EditorSound`), a publication's row cannot change
while it holds its lock (`LocksHold`); a save of the key either keeps it or raises the revision
(`SavesSucceed`), so while no save was lost a token's revision tells its key
(`TokensFollowKeys`). For addresses, `RequestsReach` says what a transaction that is under way
knows and has done: the primary address it read is still admitted, or the session was told of
the decision that refused it (`KnownToldOf`); an addition has its address still to see to,
switched on, or found admitted (`AddsReach`); where a list has been, its addresses are or will be
on, and of the others only those stay active that were allowed since it read the computers
(`ListReaches`). A commit then admits and refuses what it decided, or what a decision made
meanwhile, which it was told of, allows (`CommitAdmits`); and what it writes breaks none of this for
sessions still under way, because it tells them (`CommitReaches`). Further, revisions of commands count up even in the requests that have not been
written (`RevisionsFollow`), and a removal about to run is the acknowledged one
or the row has gone on (`RemovalsStand`).

**`BackofficeProofs`.** `SyncInv`: leases are handed out once each and in order; a run whose lease
is still in the row has read what is stored, and has nothing older to write. `BridgeInv`: all
that was claimed or took effect came before whatever waits for its first turn. `AlertInv`: a
row is settled or held by the one request that changed it, which knows what it was. `ReportInv`:
a report holds exactly the rows it wrote and knows what each was when it was settled, so a
sacrificed one puts back what the last accepted report said. `ProvisionInv`: no stock exceeds the
largest size (`PoolsSound`); what others are halfway through is about pools that exist
(`OthersSound`); and, in `RunSound`, what the command has achieved at each of its steps for
every location nobody else changed: selectable from the catalog step on, existing from creation
on, of the planned size from sizing on, and either still to do, ready, or reported as failed.

**The compositions** implement the specification of each of their parts: a step of one leaves the
variables of the others alone. So what is proved of each part holds of what TLC runs.

**What the proofs changed in the model.** Attempting them showed four places where it was wrong or
said less than it meant. `CASE` expressions of `Reservation`, `Commit` and `EnsurePools`
had overlapping arms, so their value was not determined where both applied; they now say
which arm wins. `EnsurePools` could begin a bulk fill of no pool at all, and `BulkFill` would then
choose a location from the empty set. `ProfileLease` let a session insert a row whose number
had been used and rolled back, or that another session was inserting, so that order of
creation and order of numbers could part. `LeaseOrderKept` did not say that a lease
is given back only by the run that holds it, which is what its comment promised;
`BuildsInOrder` and `ReportNotTorn` are stated of what was checked and accepted,
where they had relied on the size of the instance.

**Left to TLC**, because the prover cannot do it: all liveness (`AbandonedFlagRecovers`,
`PollingIsAnswered`, `DesktopsCatchUp`, `RemovalIsAcknowledged`, `CommandsFinish`, `AlertSettles`,
`PrefillEnds`), with the fairness it rests on, and the runs that are violated, which are
counterexamples. `Batch` is any subset of its size: the order in which locations are listed is
not modelled, and no property depends on it.

## 5. Plan

1. *Done*: the modules and runs above; proofs of every safety and action property of a passing
   run, and of one refinement.
2. *Next*: abstract specifications and their refinements: a lock service for the lease (granted to
   one, ended by its holder or by time), a stock that is issued once for the pool, a
   register with ordered writers for the catalog; each checked by TLC and then proved from
   the invariants above.
3. *Model next*: static catalog lines and deletion of a pool in `ProxyPool`, creation of
   `ClientAccess` rows.

Not covered by what is modelled so far, though part of the modelled components: one policy write
silently lost, how far a row may lag behind the latest use under OFF, reservations beyond the
candidates asked for when two refills serve one job, the latency of SKIP LOCKED, and the
desktop's own view of the lease's time; they are listed as hazards with the reason.
