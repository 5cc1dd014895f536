--------------------------- MODULE ExitIpCooldown ---------------------------
(***************************************************************************)
(* The shared exit-IP cooldown (control/exit_ip_cooldown.py and the view   *)
(* proxy_exit_ip_claim).  Web workers serve claims concurrently; a claim   *)
(* reads the clock, then the policy, then locks the row of its address,    *)
(* and commits what it decided from the row it locked.  Administrators of  *)
(* two panels switch the policy under a revision check, and reservations   *)
(* can be deleted meanwhile (ON DELETE SET NULL on the row).               *)
(*                                                                         *)
(* Audit data that no decision reads (client, job, provider, fraud score,  *)
(* duplicate counter, the test result noted on the pool entry) is left     *)
(* out; the owner of a row is its reservation.                             *)
(***************************************************************************)
EXTENDS Integers, Sequences, FiniteSets

CONSTANTS
    Workers,        \* database sessions that serve claims
    Admins,         \* panel sessions that may change the policy
    IPs,            \* normalized exit addresses
    Reservations,   \* primary keys of ProxyReservation
    Sessions,       \* kinds of token in use: "legacy", "optix"
    Cooldown,       \* cooldown_seconds(), at least 1
    MaxClock,       \* bound: last instant
    MaxClaims,      \* bound: accepted claims per address
    MaxRevision,    \* bound: policy changes
    Null            \* SQL NULL, an absent row, no lock

Row == [reservation : Reservations \cup {Null},
        claimedAt : Nat, availableAfter : Nat]

ASSUME CooldownAssumption ==
    /\ Cooldown \in Nat \ {0}
    /\ MaxClock \in Nat /\ MaxClaims \in Nat /\ MaxRevision \in Nat
    /\ Sessions \subseteq {"legacy", "optix"}
    /\ Null \notin Reservations /\ Null \notin Workers /\ Null \notin Row
    /\ Null \notin IPs /\ Null \notin Nat

VARIABLES
    clock,      \* timezone.now()
    policy,     \* the singleton ProxyCooldownPolicy row
    seenRev,    \* the policy revision each panel session has on screen
    rows,       \* committed ProxyExitIPCooldown rows
    locked,     \* the session that holds the row lock of an address
    live,       \* reservations that still exist
    req,        \* the claim each worker is serving
    accepted    \* history: accepted fresh claims per address, commit order

vars == <<clock, policy, seenRev, rows, locked, live, req, accepted>>

Policy == [enabled : BOOLEAN, revision : Nat]
Grant == [reservation : Reservations \cup {Null}, at : Nat,
          session : {"legacy", "optix"}, enforced : BOOLEAN]
Request == [pc : {"idle", "policy", "lock", "insert", "decide"},
            ip : IPs \cup {Null}, reservation : Reservations \cup {Null},
            session : {"legacy", "optix"}, now : Nat,
            enabled : BOOLEAN, seen : Row \cup {Null}]

Idle == [pc |-> "idle", ip |-> Null, reservation |-> Null,
         session |-> "legacy", now |-> 0, enabled |-> TRUE, seen |-> Null]

Init ==
    /\ clock = 0
    /\ policy = [enabled |-> TRUE, revision |-> 0]
    /\ seenRev = [a \in Admins |-> Null]
    /\ rows = [ip \in IPs |-> Null]
    /\ locked = [ip \in IPs |-> Null]
    /\ live = Reservations
    /\ req = [w \in Workers |-> Idle]
    /\ accepted = [ip \in IPs |-> <<>>]

-----------------------------------------------------------------------------
(* What a claim decides from the row it sees; check_exit_ip must agree.    *)

OwnLiveRow(row, reservation, now) ==
    /\ reservation # Null
    /\ row.reservation = reservation
    /\ row.availableAfter > now

\* A fault: the duplicate test comes before the owner's retry.
OutcomeDuplicateFirst(row, enabled, reservation, now) ==
    IF row = Null THEN "created"
    ELSE IF enabled /\ row.availableAfter > now THEN "duplicate"
    ELSE IF OwnLiveRow(row, reservation, now) THEN "retry"
    ELSE "takeover"

Outcome(row, enabled, reservation, now) ==
    IF row = Null THEN "created"
    ELSE IF OwnLiveRow(row, reservation, now) THEN "retry"
    ELSE IF enabled /\ row.availableAfter > now THEN "duplicate"
    ELSE "takeover"

\* A fault: the last instant of a window counts as inside it.
CheckDuplicateAtBoundary(row, enabled, reservation, now) ==
    /\ enabled
    /\ row # Null
    /\ row.availableAfter >= now
    /\ reservation = Null \/ row.reservation # reservation

CheckDuplicate(row, enabled, reservation, now) ==
    /\ enabled
    /\ row # Null
    /\ row.availableAfter > now
    /\ reservation = Null \/ row.reservation # reservation

Enforced(session) == session = "legacy" \/ policy.enabled

Decision(w) ==
    Outcome(req[w].seen, req[w].enabled, req[w].reservation, req[w].now)

-----------------------------------------------------------------------------
(* One claim, step by step.                                                *)

Receive(w) ==
    /\ req[w].pc = "idle"
    /\ \E ip \in IPs, r \in live \cup {Null}, s \in Sessions :
        /\ Len(accepted[ip])
             + Cardinality({v \in Workers : req[v].ip = ip}) < MaxClaims
        /\ req' = [req EXCEPT ![w] =
                     [Idle EXCEPT !.pc = "policy", !.ip = ip, !.reservation = r,
                                  !.session = s, !.now = clock]]
    /\ UNCHANGED <<clock, policy, seenRev, rows, locked, live, accepted>>

ReadPolicy(w) ==
    /\ req[w].pc = "policy"
    /\ req' = [req EXCEPT ![w].pc = "lock",
                          ![w].enabled = Enforced(req[w].session)]
    /\ UNCHANGED <<clock, policy, seenRev, rows, locked, live, accepted>>

\* A fault: the row is read without select_for_update.
FreeAlways(ip) == TRUE

\* A lock, or the uncommitted insert of the same key, makes others wait.
Free(ip) == locked[ip] = Null

LockRow(w) ==
    LET ip == req[w].ip IN
    /\ req[w].pc = "lock"
    /\ Free(ip)
    /\ IF rows[ip] = Null
       THEN /\ req' = [req EXCEPT ![w].pc = "insert"]
            /\ UNCHANGED locked
       ELSE /\ req' = [req EXCEPT ![w].pc = "decide", ![w].seen = rows[ip]]
            /\ locked' = [locked EXCEPT ![ip] = w]
    /\ UNCHANGED <<clock, policy, seenRev, rows, live, accepted>>

\* A fault: the loser of the unique key decides on its first, empty look.
InsertTrustsFirstLook(w) ==
    LET ip == req[w].ip IN
    /\ req[w].pc = "insert"
    /\ Free(ip)
    /\ locked' = [locked EXCEPT ![ip] = w]
    /\ req' = [req EXCEPT ![w].pc = "decide"]
    /\ UNCHANGED <<clock, policy, seenRev, rows, live, accepted>>

\* The insert either creates the row (seen stays Null) or loses to the unique
\* key and locks the winner's row; both leave this session holding the lock.
Insert(w) ==
    LET ip == req[w].ip IN
    /\ req[w].pc = "insert"
    /\ Free(ip)
    /\ locked' = [locked EXCEPT ![ip] = w]
    /\ req' = [req EXCEPT ![w].pc = "decide", ![w].seen = rows[ip]]
    /\ UNCHANGED <<clock, policy, seenRev, rows, live, accepted>>

Finish(w) ==
    /\ req' = [req EXCEPT ![w] = Idle]
    /\ locked' = [ip \in IPs |-> IF locked[ip] = w THEN Null ELSE locked[ip]]

\* Created and taken-over rows carry this claim; the foreign key to the
\* reservation must still hold when they are written.
Accept(w) ==
    LET q == req[w] IN
    /\ q.pc = "decide"
    /\ Decision(w) \in {"created", "takeover"}
    /\ q.reservation \in live \cup {Null}
    /\ rows' = [rows EXCEPT ![q.ip] =
                  [reservation |-> q.reservation, claimedAt |-> q.now,
                   availableAfter |-> q.now + Cooldown]]
    /\ accepted' = [accepted EXCEPT ![q.ip] =
                      Append(@, [reservation |-> q.reservation, at |-> q.now,
                                 session |-> q.session, enforced |-> q.enabled])]
    /\ Finish(w)
    /\ UNCHANGED <<clock, policy, seenRev, live>>

\* A retry of the owner and a rejected duplicate leave the window alone.
Answer(w) ==
    /\ req[w].pc = "decide"
    /\ Decision(w) \in {"retry", "duplicate"}
    /\ Finish(w)
    /\ UNCHANGED <<clock, policy, seenRev, rows, live, accepted>>

\* The reservation was deleted after the view looked it up.
ForeignKeyFails(w) ==
    /\ req[w].pc = "decide"
    /\ Decision(w) \in {"created", "takeover"}
    /\ req[w].reservation \notin live \cup {Null}
    /\ Finish(w)
    /\ UNCHANGED <<clock, policy, seenRev, rows, live, accepted>>

\* Lost connection, lock timeout, deadlock victim, killed worker: the
\* transaction rolls back and the caller sees an error or nothing.
Abort(w) ==
    /\ req[w].pc # "idle"
    /\ Finish(w)
    /\ UNCHANGED <<clock, policy, seenRev, rows, live, accepted>>

-----------------------------------------------------------------------------
(* The policy, the reservations and the clock.                             *)

LoadPolicy(a) ==
    /\ seenRev' = [seenRev EXCEPT ![a] = policy.revision]
    /\ UNCHANGED <<clock, policy, rows, locked, live, req, accepted>>

SavePolicy(a, enabled) ==
    /\ seenRev[a] # Null
    /\ \/ /\ seenRev[a] = policy.revision /\ policy.revision < MaxRevision
          /\ policy' = [enabled |-> enabled, revision |-> policy.revision + 1]
       \/ /\ seenRev[a] # policy.revision
          /\ UNCHANGED policy
    /\ seenRev' = [seenRev EXCEPT ![a] = Null]
    /\ UNCHANGED <<clock, rows, locked, live, req, accepted>>

\* A fault: a deleted reservation stays the owner of its row.
DeleteKeepsOwner(r) ==
    /\ r \in live
    /\ live' = live \ {r}
    /\ UNCHANGED <<clock, policy, seenRev, rows, locked, req, accepted>>

DeleteReservation(r) ==
    /\ r \in live
    /\ \A ip \in IPs : rows[ip] # Null /\ rows[ip].reservation = r => Free(ip)
    /\ live' = live \ {r}
    /\ rows' = [ip \in IPs |->
                  IF rows[ip] # Null /\ rows[ip].reservation = r
                  THEN [rows[ip] EXCEPT !.reservation = Null] ELSE rows[ip]]
    /\ UNCHANGED <<clock, policy, seenRev, locked, req, accepted>>

Tick ==
    /\ clock < MaxClock
    /\ clock' = clock + 1
    /\ UNCHANGED <<policy, seenRev, rows, locked, live, req, accepted>>

Serve(w) ==
    \/ ReadPolicy(w) \/ LockRow(w) \/ Insert(w)
    \/ Accept(w) \/ Answer(w) \/ ForeignKeyFails(w)

Next ==
    \/ \E w \in Workers : Receive(w) \/ Serve(w) \/ Abort(w)
    \/ \E a \in Admins : LoadPolicy(a) \/ \E e \in BOOLEAN : SavePolicy(a, e)
    \/ \E r \in Reservations : DeleteReservation(r)
    \/ Tick

Spec == Init /\ [][Next]_vars

-----------------------------------------------------------------------------
(* Properties.                                                             *)

\* Type invariant of every table, lock and request; a row is owned by a
\* reservation that exists, or by none (ON DELETE SET NULL).
TypeOK ==
    /\ clock \in Nat
    /\ policy \in Policy
    /\ seenRev \in [Admins -> Nat \cup {Null}]
    /\ rows \in [IPs -> Row \cup {Null}]
    /\ \A ip \in IPs : rows[ip] # Null => rows[ip].reservation \in live \cup {Null}
    /\ locked \in [IPs -> Workers \cup {Null}]
    /\ live \subseteq Reservations
    /\ req \in [Workers -> Request]
    /\ accepted \in [IPs -> Seq(Grant)]

\* claim_exit_ip promises that a claim which is enforced (the policy it read
\* was ON, or its token is a legacy one, whatever the master switch says) is
\* accepted only once the window of the use accepted just before it is over,
\* with workers racing on absent and existing rows and with stale clocks.
EnforcedClaimWaits ==
    \A ip \in IPs : \A k \in 2 .. Len(accepted[ip]) :
        LET g == accepted[ip][k] IN
        g.enforced \/ g.session = "legacy"
            => g.at >= accepted[ip][k - 1].at + Cooldown

\* The first k accepted uses of an address were all enforced.
EnforcedUpTo(ip, k) == \A j \in 1 .. k : accepted[ip][j].enforced

\* q asks again for a window that was granted to its own reservation.
Replays(q) ==
    /\ q.pc = "decide"
    /\ q.reservation \in live
    /\ \E k \in DOMAIN accepted[q.ip] :
           /\ accepted[q.ip][k].reservation = q.reservation
           /\ clock < accepted[q.ip][k].at + Cooldown

\* "Replaying the same non-null reservation is idempotent so a lost response
\* does not make the desktop discard an otherwise successful claim": while no
\* use of the address was accepted under OFF, the replay of a claim by its
\* existing reservation inside the window is answered as a retry, never as a
\* duplicate and never as a new use.
RetryIsIdempotent ==
    \A w \in Workers :
        /\ Replays(req[w])
        /\ EnforcedUpTo(req[w].ip, Len(accepted[req[w].ip]))
        => Decision(w) = "retry"

\* The document says the same without the condition: "Same-reservation
\* retries are idempotent", ON or OFF.
RetryAlwaysIdempotent ==
    \A w \in Workers : Replays(req[w]) => Decision(w) = "retry"

\* The early check (check_exit_ip) and the authoritative claim read the same
\* row differently; asked at one instant under one policy they must agree on
\* what a duplicate is, or the desktop wastes or loses good candidates.
CheckAgreesWithClaim ==
    \A ip \in IPs, r \in live \cup {Null}, e \in BOOLEAN :
        CheckDuplicate(rows[ip], e, r, clock)
            <=> Outcome(rows[ip], e, r, clock) = "duplicate"

\* Until an address is first used under OFF, and so for ever when tokens are
\* legacy ones, claims implement exclusive windows: no two of all its uses are
\* closer than the cooldown, not only neighbouring ones.
UsesOf(ip) ==
    [k \in {j \in DOMAIN accepted[ip] : EnforcedUpTo(ip, j)} |-> accepted[ip][k].at]

Exclusive == INSTANCE ExclusiveUse
    WITH Window <- Cooldown, Instants <- 0 .. MaxClock,
         uses <- [ip \in IPs |-> UsesOf(ip)]

ExclusiveSpec == Exclusive!Spec

-----------------------------------------------------------------------------
(* Why the windows hold: the facts every step preserves together, from     *)
(* which the properties follow.                                            *)

\* A session that decides holds its row and decides on what is committed.
DecidesUnderLock ==
    \A w \in Workers :
        /\ req[w].pc # "idle" => req[w].ip \in IPs
        /\ req[w].pc = "decide" =>
               locked[req[w].ip] = w /\ req[w].seen = rows[req[w].ip]

NothingFromTheFuture ==
    /\ clock <= MaxClock
    /\ \A w \in Workers : req[w].now <= clock
    /\ \A ip \in IPs : \A k \in 1 .. Len(accepted[ip]) : accepted[ip][k].at <= clock

LegacyIsEnforced ==
    /\ \A w \in Workers :
           /\ req[w].pc \in {"lock", "insert", "decide"}
           /\ req[w].session = "legacy"
           => req[w].enabled
    /\ \A ip \in IPs : \A k \in 1 .. Len(accepted[ip]) :
           accepted[ip][k].session = "legacy" => accepted[ip][k].enforced

LastOf(ip) == accepted[ip][Len(accepted[ip])]

RowRecordsLastUse ==
    \A ip \in IPs :
        /\ rows[ip] = Null <=> Len(accepted[ip]) = 0
        /\ rows[ip] # Null =>
               /\ rows[ip].availableAfter = LastOf(ip).at + Cooldown
               /\ LastOf(ip).reservation \in live =>
                      rows[ip].reservation = LastOf(ip).reservation

EarlierUsesAreOver ==
    \A ip \in IPs :
        EnforcedUpTo(ip, Len(accepted[ip])) =>
            \A k \in 1 .. Len(accepted[ip]) - 1 :
                accepted[ip][k].at + Cooldown <= LastOf(ip).at

\* The inductive invariant: a row under lock is the last accepted use, and
\* that use is later than all the others while every use was enforced.
RowsGuardWindows ==
    /\ TypeOK
    /\ DecidesUnderLock
    /\ NothingFromTheFuture
    /\ LegacyIsEnforced
    /\ RowRecordsLastUse
    /\ EarlierUsesAreOver
    /\ EnforcedClaimWaits

=============================================================================
