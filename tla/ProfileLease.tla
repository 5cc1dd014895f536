---------------------------- MODULE ProfileLease ----------------------------
(***************************************************************************)
(* The lease of one browser group and its waiting list                     *)
(* (views.acquire_profile_lease and release_profile_lease): desktops that  *)
(* share a YS account and group queue up, poll with the token of their     *)
(* request, and one at a time is given the group.  Each transaction is cut *)
(* where it waits for a row lock that another session holds; its writes    *)
(* become visible when it commits.                                         *)
(*                                                                         *)
(* Time is abstracted to the deadlines that have passed.  A request reads  *)
(* the clock before its transaction, so it carries the deadlines that had  *)
(* passed then.  Group ids, counts, and positions in the queue are left    *)
(* out; a lease is named by the queue row it was granted to.               *)
(***************************************************************************)
EXTENDS Integers, FiniteSets, FiniteSetsExt

CONSTANTS
    Workers,    \* database sessions that serve requests
    Clients,    \* desktops that share the group
    MaxRows,    \* bound: requests ever queued
    MaxEvents,  \* bound: killed sessions, lost replies, restarts, deployments
    Null

ASSUME LeaseAssumption ==
    /\ MaxRows \in Nat /\ MaxEvents \in Nat
    /\ Null \notin Clients

Rows == 1 .. MaxRows        \* in order of creation

VARIABLES
    serialized, \* PROFILE_CREATE_SERIALIZATION_ENABLED
    row,        \* the committed ProfileCreateQueue rows
    lease,      \* the row the ProfileCreateLease was granted to, 0 if none
    late,       \* queued rows whose twelve hours are over
    over,       \* rows whose lease, five minutes long, is over
    req,        \* what each session is doing
    token,      \* the request token each desktop polls with, 0 if none
    holds,      \* the lease each desktop works under, 0 if none
    returned,   \* history: leases their holder gave back
    events

vars == <<serialized, row, lease, late, over, req, token, holds, returned, events>>

Statuses == {"unborn", "queued", "active", "completed", "expired"}
QueueRow == [status : Statuses, client : Clients \cup {Null}]
Work == [pc : {"idle", "expire", "own", "insert", "poll", "allow", "drop", "lease",
               "evict", "head", "grant", "cancel", "release", "completed",
               "clear", "sweep"},
         client : Clients \cup {Null}, row : 0 .. MaxRows,
         late : SUBSET Rows, over : SUBSET Rows,  \* as of its clock
         doomed : SUBSET Rows,                    \* rows it sets to expired
         rows : SUBSET Rows, lease : BOOLEAN,     \* its row locks
         evicts : BOOLEAN,                        \* it deletes the lease it locked
         taken : BOOLEAN]                         \* it found a live lease

Idle == [pc |-> "idle", client |-> Null, row |-> 0, late |-> {}, over |-> {},
         doomed |-> {}, rows |-> {}, lease |-> FALSE, evicts |-> FALSE,
         taken |-> FALSE]

Init ==
    /\ serialized = TRUE
    /\ row = [i \in Rows |-> [status |-> "unborn", client |-> Null]]
    /\ lease = 0 /\ late = {} /\ over = {} /\ returned = {} /\ events = 0
    /\ req = [w \in Workers |-> Idle]
    /\ token = [c \in Clients |-> 0] /\ holds = [c \in Clients |-> 0]

-----------------------------------------------------------------------------
(* Rows, locks and waiting.                                                *)

InStatus(s) == {i \in Rows : row[i].status = s}

\* The queued rows a request finds past their deadline.
PastDeadline(w) == InStatus("queued") \cap req[w].late

\* "A desktop retry supersedes its own abandoned queued request."
Superseded(w) == {i \in InStatus("queued") : row[i].client = req[w].client} \ req[w].doomed

\* A fault: the head of the queue is the youngest request.
HeadIsYoungest(w) ==
    Max((InStatus("queued") \ (req[w].doomed \cup req[w].late)) \cup {req[w].row})

\* The first row in the queue, the request's own insert included.
HeadOf(w) ==
    Min((InStatus("queued") \ (req[w].doomed \cup req[w].late)) \cup {req[w].row})

\* The inserts that are not committed, still unborn in the table.
Inserted == {req[v].row : v \in Workers} \cap InStatus("unborn")

\* The rows the next statement of w locks, its own polled row aside; the ordered
\* scan for the head meets the inserts of other sessions.
ScannedRows(w) ==
    CASE req[w].pc = "expire" -> PastDeadline(w)
      [] req[w].pc = "own" /\ req[w].row = 0 -> Superseded(w)
      [] req[w].pc = "evict" -> {lease} \cap InStatus("active")
      [] req[w].pc = "head" ->
             {i \in InStatus("queued") \cup Inserted : i <= HeadOf(w)}
      [] req[w].pc \in {"cancel", "completed"} -> {req[w].row}
      [] req[w].pc = "sweep" -> InStatus("queued") \cup InStatus("active")
      [] OTHER -> {}

WantedRows(w) ==
    ScannedRows(w) \cup (IF req[w].pc = "own" THEN {req[w].row} \cap Rows ELSE {})

WantsLease(w) == req[w].pc \in {"drop", "lease", "grant", "release", "clear"}

\* The sessions w waits for.
Blockers(w) ==
    {v \in Workers \ {w} : \/ req[v].rows \cap WantedRows(w) # {}
                           \/ req[v].lease /\ WantsLease(w)}

At(w, pc) == req[w].pc = pc /\ Blockers(w) = {}

\* w goes on with the rows it wanted locked.
Step(w, change) == req' = [req EXCEPT ![w] = [change EXCEPT !.rows = @ \cup WantedRows(w)]]

\* What the table holds once w commits.
Committed(w) ==
    [i \in Rows |->
       IF i \in req[w].doomed THEN [row[i] EXCEPT !.status = "expired"]
       ELSE IF i = req[w].row /\ row[i].status = "unborn"
            THEN [status |-> "queued", client |-> req[w].client] ELSE row[i]]

Event == events < MaxEvents /\ events' = events + 1

\* The reply reaches the desktop, which then polls with t and holds h, or is
\* lost, and the desktop goes on with what it knew.
Reply(w, t, h) ==
    /\ req' = [req EXCEPT ![w] = Idle]
    /\ \/ /\ token' = [token EXCEPT ![req[w].client] = t]
          /\ holds' = [holds EXCEPT ![req[w].client] = h]
          /\ UNCHANGED events
       \/ Event /\ UNCHANGED <<token, holds>>

Working(w) == holds[req[w].client]

-----------------------------------------------------------------------------
(* acquire_profile_lease                                                   *)

\* Sessions that will insert a row, and the rows that come after all others.
Inserting == {v \in Workers : req[v].pc \in {"expire", "own", "insert"} /\ req[v].row = 0}
Fresh == {i \in InStatus("unborn") :
            \A j \in (Rows \ InStatus("unborn")) \cup Inserted : j < i}

\* A desktop without a lease asks, with the token of its request if it has one.
Ask(w, c) ==
    /\ req[w].pc = "idle" /\ serialized
    /\ holds[c] = 0
    /\ token[c] # 0 \/ Cardinality(Inserting) < Cardinality(Fresh)
    /\ req' = [req EXCEPT ![w] = [Idle EXCEPT !.pc = "expire", !.client = c,
                                    !.row = token[c], !.late = late, !.over = over]]
    /\ UNCHANGED <<serialized, row, lease, late, over, token, holds, returned, events>>

Expire(w) ==
    /\ At(w, "expire")
    /\ Step(w, [req[w] EXCEPT !.pc = "own", !.doomed = PastDeadline(w)])
    /\ UNCHANGED <<serialized, row, lease, late, over, token, holds, returned, events>>

\* A token that is not queued or active any more is answered with 410.
Gone(w) ==
    /\ At(w, "own") /\ req[w].row # 0
    /\ \/ req[w].row \in req[w].doomed
       \/ row[req[w].row].status \in {"completed", "expired"}
    /\ row' = Committed(w)
    /\ Reply(w, 0, Working(w))
    /\ UNCHANGED <<serialized, lease, late, over, returned>>

LockOwn(w) ==
    /\ At(w, "own") /\ req[w].row # 0
    /\ req[w].row \notin req[w].doomed
    /\ \/ row[req[w].row].status = "active" /\ Step(w, [req[w] EXCEPT !.pc = "poll"])
       \/ row[req[w].row].status = "queued" /\ Step(w, [req[w] EXCEPT !.pc = "lease"])
    /\ UNCHANGED <<serialized, row, lease, late, over, token, holds, returned, events>>

Supersede(w) ==
    /\ At(w, "own") /\ req[w].row = 0
    /\ Step(w, [req[w] EXCEPT !.pc = "insert", !.doomed = @ \cup Superseded(w)])
    /\ UNCHANGED <<serialized, row, lease, late, over, token, holds, returned, events>>

Insert(w) ==
    /\ At(w, "insert") /\ Fresh # {}
    /\ req' = [req EXCEPT ![w] = [req[w] EXCEPT !.pc = "lease", !.row = Min(Fresh),
                                                !.rows = @ \cup {Min(Fresh)}]]
    /\ UNCHANGED <<serialized, row, lease, late, over, token, holds, returned, events>>

\* An active request reads its lease without locking it.
Poll(w) ==
    LET i == req[w].row IN
    /\ At(w, "poll")
    /\ \/ /\ lease = i
          /\ req' = [req EXCEPT ![w].pc = IF i \in req[w].over THEN "drop" ELSE "allow"]
          /\ UNCHANGED <<row, token, holds, events>>
       \/ /\ lease # i
          /\ row' = [Committed(w) EXCEPT ![i].status = "expired"]
          /\ Reply(w, 0, Working(w))
    /\ UNCHANGED <<serialized, lease, late, over, returned>>

Allow(w) ==
    /\ At(w, "allow")
    /\ row' = Committed(w)
    /\ Reply(w, 0, req[w].row)
    /\ UNCHANGED <<serialized, lease, late, over, returned>>

Drop(w) ==
    LET i == req[w].row IN
    /\ At(w, "drop")
    /\ lease' = IF lease = i THEN 0 ELSE lease
    /\ row' = [Committed(w) EXCEPT ![i].status = "expired"]
    /\ Reply(w, 0, Working(w))
    /\ UNCHANGED <<serialized, late, over, returned>>

\* A fault: a lease is never found expired.
LockLeaseForEver(w) ==
    /\ At(w, "lease")
    /\ Step(w, [req[w] EXCEPT !.pc = "head", !.lease = lease # 0, !.taken = lease # 0])
    /\ UNCHANGED <<serialized, row, lease, late, over, token, holds, returned, events>>

LockLease(w) ==
    /\ At(w, "lease")
    /\ Step(w, [req[w] EXCEPT
                  !.pc = IF lease \in req[w].over THEN "evict" ELSE "head",
                  !.lease = lease # 0,
                  !.taken = lease # 0 /\ lease \notin req[w].over])
    /\ UNCHANGED <<serialized, row, lease, late, over, token, holds, returned, events>>

\* The request of an expired lease leaves the queue with it.
Evict(w) ==
    /\ At(w, "evict")
    /\ Step(w, [req[w] EXCEPT !.pc = "head", !.evicts = TRUE,
                              !.doomed = @ \cup WantedRows(w)])
    /\ UNCHANGED <<serialized, row, lease, late, over, token, holds, returned, events>>

\* Not first, or the group is taken: the request stays queued.
Queued(w) ==
    /\ At(w, "head")
    /\ req[w].taken \/ HeadOf(w) # req[w].row
    /\ row' = Committed(w)
    /\ lease' = IF req[w].evicts THEN 0 ELSE lease
    /\ Reply(w, req[w].row, Working(w))
    /\ UNCHANGED <<serialized, late, over, returned>>

First(w) ==
    /\ At(w, "head")
    /\ ~req[w].taken /\ HeadOf(w) = req[w].row
    /\ Step(w, [req[w] EXCEPT !.pc = "grant"])
    /\ UNCHANGED <<serialized, row, lease, late, over, token, holds, returned, events>>

Grant(w) ==
    LET i == req[w].row IN
    /\ At(w, "grant")
    /\ lease = 0 \/ req[w].evicts
    /\ lease' = i
    /\ row' = [Committed(w) EXCEPT ![i].status = "active"]
    /\ Reply(w, 0, i)
    /\ UNCHANGED <<serialized, late, over, returned>>

\* Another session created the lease since this one found none: the unique
\* key refuses the insert, and the request ends with a server error.
GrantRefused(w) ==
    /\ At(w, "grant")
    /\ lease # 0 /\ ~req[w].evicts
    /\ req' = [req EXCEPT ![w] = Idle]
    /\ UNCHANGED <<serialized, row, lease, late, over, token, holds, returned, events>>

-----------------------------------------------------------------------------
(* release_profile_lease, and requests when serialization is off.          *)

\* A desktop gives up its place in the queue.
AskCancel(w, c) ==
    /\ req[w].pc = "idle" /\ serialized
    /\ token[c] # 0
    /\ req' = [req EXCEPT ![w] = [Idle EXCEPT !.pc = "cancel", !.client = c,
                                              !.row = token[c]]]
    /\ token' = [token EXCEPT ![c] = 0]
    /\ UNCHANGED <<serialized, row, lease, late, over, holds, returned, events>>

\* A fault: whatever the request became is cancelled.
CancelAnyStatus(w) ==
    /\ At(w, "cancel")
    /\ row' = [row EXCEPT ![req[w].row].status = "expired"]
    /\ req' = [req EXCEPT ![w] = Idle]
    /\ UNCHANGED <<serialized, lease, late, over, token, holds, returned, events>>

Cancel(w) ==
    LET i == req[w].row IN
    /\ At(w, "cancel")
    /\ row' = [row EXCEPT ![i].status = IF @ = "queued" THEN "expired" ELSE @]
    /\ req' = [req EXCEPT ![w] = Idle]
    /\ UNCHANGED <<serialized, lease, late, over, token, holds, returned, events>>

\* With serialization off, giving back a lease changes nothing here.
AskRelease(w, c) ==
    /\ req[w].pc = "idle"
    /\ holds[c] # 0
    /\ req' = IF serialized
              THEN [req EXCEPT ![w] = [Idle EXCEPT !.pc = "release", !.client = c,
                                                   !.row = holds[c]]]
              ELSE req
    /\ holds' = [holds EXCEPT ![c] = 0]
    /\ UNCHANGED <<serialized, row, lease, late, over, token, returned, events>>

\* A fault: the lease of the group is deleted, whoever owns it.
ReleaseAnyLease(w) ==
    /\ At(w, "release")
    /\ lease' = 0
    /\ returned' = returned \cup {req[w].row}
    /\ req' = [req EXCEPT ![w].pc = "completed"]
    /\ UNCHANGED <<serialized, row, late, over, token, holds, events>>

\* The lease and the queue row are written in two transactions.
Release(w) ==
    /\ At(w, "release")
    /\ lease' = IF lease = req[w].row THEN 0 ELSE lease
    /\ returned' = returned \cup {req[w].row}
    /\ req' = [req EXCEPT ![w].pc = "completed"]
    /\ UNCHANGED <<serialized, row, late, over, token, holds, events>>

\* A fault: a status the model does not list.
CompleteAsReleased(w) ==
    LET i == req[w].row IN
    /\ At(w, "completed")
    /\ row' = [row EXCEPT ![i].status = IF @ = "active" THEN "released" ELSE @]
    /\ req' = [req EXCEPT ![w] = Idle]
    /\ UNCHANGED <<serialized, lease, late, over, token, holds, returned, events>>

Complete(w) ==
    LET i == req[w].row IN
    /\ At(w, "completed")
    /\ row' = [row EXCEPT ![i].status = IF @ = "active" THEN "completed" ELSE @]
    /\ req' = [req EXCEPT ![w] = Idle]
    /\ UNCHANGED <<serialized, lease, late, over, token, holds, returned, events>>

\* A deployment turns serialization off; requests under way go on as before.
SwitchOff ==
    /\ serialized
    /\ Event
    /\ serialized' = FALSE
    /\ UNCHANGED <<row, lease, late, over, req, token, holds, returned>>

AskDirect(w, c) ==
    /\ req[w].pc = "idle" /\ ~serialized
    /\ holds[c] = 0
    /\ req' = [req EXCEPT ![w] = [Idle EXCEPT !.pc = "clear", !.client = c]]
    /\ UNCHANGED <<serialized, row, lease, late, over, token, holds, returned, events>>

\* The group's lease goes, then its requests, and the desktop may create at once.
ClearLease(w) ==
    /\ At(w, "clear")
    /\ lease' = 0
    /\ req' = [req EXCEPT ![w].pc = "sweep"]
    /\ UNCHANGED <<serialized, row, late, over, token, holds, returned, events>>

Sweep(w) ==
    /\ At(w, "sweep")
    /\ row' = [i \in Rows |-> IF i \in WantedRows(w)
                             THEN [row[i] EXCEPT !.status = "expired"] ELSE row[i]]
    /\ Reply(w, 0, Working(w))
    /\ UNCHANGED <<serialized, lease, late, over, returned>>

-----------------------------------------------------------------------------
(* Sessions that die, desktops that forget, and time.                      *)

\* Two sessions that wait for each other: the database rolls one back.
DeadlockVictim(w) ==
    /\ \E v \in Blockers(w) : w \in Blockers(v)
    /\ req' = [req EXCEPT ![w] = Idle]
    /\ UNCHANGED <<serialized, row, lease, late, over, token, holds, returned, events>>

Crash(w) ==
    /\ req[w].pc # "idle"
    /\ Event
    /\ req' = [req EXCEPT ![w] = Idle]
    /\ UNCHANGED <<serialized, row, lease, late, over, token, holds, returned>>

\* A desktop is closed or crashes, and starts afresh.
Restart(c) ==
    /\ token[c] # 0 \/ holds[c] # 0
    /\ Event
    /\ token' = [token EXCEPT ![c] = 0] /\ holds' = [holds EXCEPT ![c] = 0]
    /\ UNCHANGED <<serialized, row, lease, late, over, req, returned>>

QueueDeadline(i) ==
    /\ row[i].status = "queued" /\ i \notin late
    /\ late' = late \cup {i}
    /\ UNCHANGED <<serialized, row, lease, over, req, token, holds, returned, events>>

LeaseDeadline ==
    /\ lease \notin over \cup {0}
    /\ over' = over \cup {lease}
    /\ UNCHANGED <<serialized, row, lease, late, req, token, holds, returned, events>>

Acquire(w) ==
    \/ Expire(w) \/ Gone(w) \/ LockOwn(w) \/ Supersede(w) \/ Insert(w)
    \/ Poll(w) \/ Allow(w) \/ Drop(w) \/ LockLease(w) \/ Evict(w)
    \/ Queued(w) \/ First(w) \/ Grant(w) \/ GrantRefused(w)

Serve(w) ==
    \/ Acquire(w) \/ Cancel(w) \/ Release(w) \/ Complete(w)
    \/ ClearLease(w) \/ Sweep(w) \/ DeadlockVictim(w)

Next ==
    \/ \E w \in Workers :
         \/ Serve(w) \/ Crash(w)
         \/ \E c \in Clients : \/ Ask(w, c) \/ AskCancel(w, c)
                               \/ AskRelease(w, c) \/ AskDirect(w, c)
    \/ \E c \in Clients : Restart(c)
    \/ \E i \in Rows : QueueDeadline(i)
    \/ LeaseDeadline \/ SwitchOff

Spec == Init /\ [][Next]_vars

\* Sessions that are not killed finish, leases and the places of desktops that
\* stopped polling run out, and a desktop that has a token polls with it until
\* it is answered.  Its own twelve hours need not run out.
Fairness ==
    /\ \A w \in Workers : WF_vars(Serve(w))
    /\ \A c \in Clients :
         SF_vars(\E w \in Workers : token[c] # 0 /\ (Ask(w, c) \/ AskDirect(w, c)))
    /\ \A i \in Rows : WF_vars(QueueDeadline(i) /\ \A c \in Clients : token[c] # i)
    /\ WF_vars(LeaseDeadline)

FairSpec == Spec /\ Fairness
-----------------------------------------------------------------------------
(* Properties.                                                             *)

\* Type invariant of the tables, the sessions and the desktops.
TypeOK ==
    /\ serialized \in BOOLEAN
    /\ row \in [Rows -> QueueRow]
    /\ lease \in 0 .. MaxRows
    /\ late \subseteq Rows /\ over \subseteq Rows /\ returned \subseteq Rows
    /\ req \in [Workers -> Work]
    /\ token \in [Clients -> 0 .. MaxRows] /\ holds \in [Clients -> 0 .. MaxRows]
    /\ events \in 0 .. MaxEvents

\* The lease and the waiting list are two tables written together: whoever the
\* lease names is active in the queue, so it can learn of its lease by polling
\* and leaves the queue with it.
LeaseIsActive == serialized /\ lease # 0 => row[lease].status = "active"

\* "A database-backed lease prevents two desktop clients from taking each
\* other's before/after profile snapshot": while its five minutes last, only
\* its holder ends a lease, whatever stale clocks, polls, late releases and
\* takeovers of other requests do.
LiveLeaseKept ==
    [][serialized /\ lease # 0 /\ lease' # lease
         => lease \in over \cup returned']_vars

\* "FIFO wait list": the group is never given to a request while an older one
\* is queued and still in time.
GrantsInOrder ==
    [][lease' \notin {0, lease}
         => ~\E j \in Rows : j < lease' /\ row'[j].status = "queued" /\ j \notin late]_vars

\* A poll that is told "allowed" names the lease that is in the table when the
\* reply leaves, although it read the lease without a lock: it was not taken
\* over in between, and only its own desktop may have given it back.
AllowedIsBacked ==
    [][\A w \in Workers :
         serialized /\ Allow(w) => lease = req[w].row \/ req[w].row \in returned]_vars

\* "A crashed client must leave the queue completely": a desktop that keeps
\* polling is given the group or told to start again, whatever others abandon.
Waits(c) == token[c] # 0 /\ holds[c] = 0

PollingIsAnswered == \A c \in Clients : Waits(c) ~> ~Waits(c)

\* "A crashed/closed app must not leave an invisible FIFO blocker for the same
\* device and group until the long queue expiry": a desktop has one request in
\* the queue at most.
OneQueuedRequest ==
    \A i, j \in InStatus("queued") : row[i].client = row[j].client => i = j

=============================================================================
