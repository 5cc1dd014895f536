------------------------ MODULE ExitIpCooldownProofs ------------------------
(* Proofs about the exit-IP cooldown, for every number of workers,          *)
(* addresses and reservations and every length of the cooldown.             *)
EXTENDS ExitIpCooldown, TLAPS

LEMMA InitTypes == Init => TypeOK
  BY CooldownAssumption
     DEF Init, TypeOK, Policy, Request, Idle

\* What finishing a request leaves behind is well typed.
LEMMA FinishTypes ==
  ASSUME TypeOK, NEW w \in Workers, Finish(w)
  PROVE  /\ req' \in [Workers -> Request]
         /\ locked' \in [IPs -> Workers \cup {Null}]
  <1>1. Idle \in Request
    BY DEF Idle, Request
  <1> QED
    BY <1>1 DEF TypeOK, Finish

\* A request that reads the policy or its row stays well typed.
LEMMA RequestTypes ==
  ASSUME req \in [Workers -> Request], NEW w \in Workers
  PROVE  /\ [req EXCEPT ![w].pc = "insert"] \in [Workers -> Request]
         /\ \A b \in BOOLEAN :
              [req EXCEPT ![w].pc = "lock", ![w].enabled = b] \in [Workers -> Request]
         /\ \A row \in Row \cup {Null} :
              [req EXCEPT ![w].pc = "decide", ![w].seen = row] \in [Workers -> Request]
  <1>1. [req[w] EXCEPT !.pc = "insert"] \in Request
    BY DEF Request
  <1>2. \A b \in BOOLEAN : [req[w] EXCEPT !.pc = "lock", !.enabled = b] \in Request
    BY DEF Request
  <1>3. \A row \in Row \cup {Null} :
          [req[w] EXCEPT !.pc = "decide", !.seen = row] \in Request
    BY DEF Request
  <1>4. [req EXCEPT ![w].pc = "insert"] \in [Workers -> Request]
    BY <1>1
  <1>5. \A b \in BOOLEAN :
          [req EXCEPT ![w].pc = "lock", ![w].enabled = b] \in [Workers -> Request]
    BY <1>2
  <1>6. \A row \in Row \cup {Null} :
          [req EXCEPT ![w].pc = "decide", ![w].seen = row] \in [Workers -> Request]
    BY <1>3
  <1> QED
    BY <1>4, <1>5, <1>6

\* Every claim has a well-typed place in its request.
LEMMA AcceptTypes ==
  ASSUME TypeOK, NEW w \in Workers, Accept(w), req[w].ip \in IPs
  PROVE  TypeOK'
  <1> DEFINE q == req[w]
  <1> DEFINE row == [reservation |-> q.reservation, claimedAt |-> q.now,
                     availableAfter |-> q.now + Cooldown]
  <1> DEFINE g == [reservation |-> q.reservation, at |-> q.now,
                   session |-> q.session, enforced |-> q.enabled]
  <1>1. q \in Request
    BY DEF TypeOK
  <1>2. row \in Row /\ row.reservation \in live \cup {Null}
    BY <1>1, CooldownAssumption DEF Request, Row, Accept
  <1>3. g \in Grant
    BY <1>1 DEF Request, Grant
  <1> HIDE DEF row, g
  <1>4. rows' = [rows EXCEPT ![q.ip] = row]
    BY DEF Accept, row
  <1>5. accepted' = [accepted EXCEPT ![q.ip] = Append(@, g)]
    BY DEF Accept, g
  <1>6. rows' \in [IPs -> Row \cup {Null}]
    BY <1>2, <1>4 DEF TypeOK
  <1>7. \A ip \in IPs : rows'[ip] # Null => rows'[ip].reservation \in live' \cup {Null}
    BY <1>2, <1>4 DEF TypeOK, Accept
  <1>8. accepted' \in [IPs -> Seq(Grant)]
    BY <1>3, <1>5 DEF TypeOK
  <1>9. Finish(w) /\ UNCHANGED <<clock, policy, seenRev, live>>
    BY DEF Accept
  <1> HIDE DEF q
  <1> QED
    BY <1>6, <1>7, <1>8, <1>9, FinishTypes DEF TypeOK

LEMMA NextTypes ==
  ASSUME TypeOK, DecidesUnderLock, [Next]_vars
  PROVE  TypeOK'
  <1> USE CooldownAssumption
  <1>1. ASSUME NEW w \in Workers, Receive(w)
        PROVE  TypeOK'
    <2>1. PICK ip \in IPs, r \in live \cup {Null}, s \in Sessions :
            req' = [req EXCEPT ![w] =
                      [Idle EXCEPT !.pc = "policy", !.ip = ip, !.reservation = r,
                                   !.session = s, !.now = clock]]
      BY <1>1 DEF Receive
    <2>2. [Idle EXCEPT !.pc = "policy", !.ip = ip, !.reservation = r,
                       !.session = s, !.now = clock] \in Request
      BY DEF TypeOK, Idle, Request
    <2>3. req' \in [Workers -> Request]
      BY <2>1, <2>2 DEF TypeOK
    <2> QED
      BY <1>1, <2>3 DEF Receive, TypeOK
  <1>2. ASSUME NEW w \in Workers, ReadPolicy(w)
        PROVE  TypeOK'
    <2>1. Enforced(req[w].session) \in BOOLEAN
      BY DEF TypeOK, Policy, Enforced
    <2> QED
      BY <1>2, <2>1, RequestTypes DEF ReadPolicy, TypeOK
  <1>3. ASSUME NEW w \in Workers, LockRow(w)
        PROVE  TypeOK'
    <2>1. req[w].ip \in IPs
      BY <1>3 DEF DecidesUnderLock, LockRow
    <2>2. rows[req[w].ip] \in Row \cup {Null}
      BY <2>1 DEF TypeOK
    <2>3. req' \in [Workers -> Request]
      <3>1. \/ req' = [req EXCEPT ![w].pc = "insert"]
            \/ req' = [req EXCEPT ![w].pc = "decide", ![w].seen = rows[req[w].ip]]
        BY <1>3 DEF LockRow
      <3>2. req \in [Workers -> Request]
        BY DEF TypeOK
      <3>3. /\ [req EXCEPT ![w].pc = "insert"] \in [Workers -> Request]
            /\ [req EXCEPT ![w].pc = "decide", ![w].seen = rows[req[w].ip]]
                 \in [Workers -> Request]
        BY <2>2, <3>2, RequestTypes
      <3> QED
        BY <3>1, <3>3
    <2>4. locked' \in [IPs -> Workers \cup {Null}]
      BY <1>3 DEF LockRow, TypeOK
    <2> QED
      BY <1>3, <2>3, <2>4 DEF LockRow, TypeOK
  <1>4. ASSUME NEW w \in Workers, Insert(w)
        PROVE  TypeOK'
    <2>1. req[w].ip \in IPs
      BY <1>4 DEF DecidesUnderLock, Insert
    <2> QED
      BY <1>4, <2>1, RequestTypes DEF Insert, TypeOK
  <1>5. ASSUME NEW w \in Workers, Accept(w)
        PROVE  TypeOK'
    <2>1. req[w].ip \in IPs
      BY <1>5 DEF DecidesUnderLock, Accept
    <2> QED
      BY <1>5, <2>1, AcceptTypes
  <1>6. ASSUME NEW w \in Workers, Answer(w) \/ ForeignKeyFails(w) \/ Abort(w)
        PROVE  TypeOK'
    <2>1. Finish(w) /\ UNCHANGED <<clock, policy, seenRev, rows, live, accepted>>
      BY <1>6 DEF Answer, ForeignKeyFails, Abort
    <2> QED
      BY <2>1, FinishTypes DEF TypeOK
  <1>7. ASSUME NEW a \in Admins, LoadPolicy(a)
        PROVE  TypeOK'
    BY <1>7 DEF LoadPolicy, TypeOK, Policy
  <1>8. ASSUME NEW a \in Admins, NEW e \in BOOLEAN, SavePolicy(a, e)
        PROVE  TypeOK'
    BY <1>8 DEF SavePolicy, TypeOK, Policy
  <1>9. ASSUME NEW r \in Reservations, DeleteReservation(r)
        PROVE  TypeOK'
    <2>1. rows' \in [IPs -> Row \cup {Null}]
      <3>1. \A row \in Row : [row EXCEPT !.reservation = Null] \in Row
        BY DEF Row
      <3> QED
        BY <1>9, <3>1 DEF DeleteReservation, TypeOK
    <2>2. \A ip \in IPs :
            rows'[ip] # Null => rows'[ip].reservation \in live' \cup {Null}
      BY <1>9 DEF DeleteReservation, TypeOK, Row
    <2> QED
      BY <1>9, <2>1, <2>2 DEF DeleteReservation, TypeOK
  <1>10. CASE Tick
    BY <1>10 DEF Tick, TypeOK
  <1>11. CASE UNCHANGED vars
    BY <1>11 DEF vars, TypeOK
  <1> QED
    BY <1>1, <1>2, <1>3, <1>4, <1>5, <1>6, <1>7, <1>8, <1>9, <1>10, <1>11
       DEF Next, Serve

-----------------------------------------------------------------------------
(* The lock: a session that decides sees what is committed.                *)

LEMMA DecidesUnderLockStep ==
  ASSUME TypeOK, DecidesUnderLock, [Next]_vars
  PROVE  DecidesUnderLock'
  <1> USE CooldownAssumption
  <1> DEFINE Holds(v) == /\ req[v].pc # "idle" => req[v].ip \in IPs
                         /\ req[v].pc = "decide" =>
                               /\ locked[req[v].ip] = v
                               /\ req[v].seen = rows[req[v].ip]
  <1> SUFFICES ASSUME NEW v \in Workers
               PROVE  Holds(v)'
    BY DEF DecidesUnderLock
  <1>v. Holds(v)
    BY DEF DecidesUnderLock
  <1>t. /\ req \in [Workers -> Request]
        /\ locked \in [IPs -> Workers \cup {Null}]
        /\ rows \in [IPs -> Row \cup {Null}]
    BY DEF TypeOK
  <1>1. ASSUME NEW w \in Workers, Receive(w)
        PROVE  Holds(v)'
    BY <1>1, <1>v, <1>t DEF Receive, Idle, Request
  <1>2. ASSUME NEW w \in Workers, ReadPolicy(w)
        PROVE  Holds(v)'
    BY <1>2, <1>v, <1>t DEF ReadPolicy, Request
  <1>3. ASSUME NEW w \in Workers, LockRow(w)
        PROVE  Holds(v)'
    BY <1>3, <1>v, <1>t DEF LockRow, Free, Request
  <1>4. ASSUME NEW w \in Workers, Insert(w)
        PROVE  Holds(v)'
    BY <1>4, <1>v, <1>t DEF Insert, Free, Request
  <1>5. ASSUME NEW w \in Workers, Finish(w), UNCHANGED rows
        PROVE  Holds(v)'
    BY <1>5, <1>v, <1>t DEF Finish, Idle, Request
  <1>6. ASSUME NEW w \in Workers, Accept(w)
        PROVE  Holds(v)'
    <2>1. locked[req[w].ip] = w
      BY <1>6 DEF DecidesUnderLock, Accept
    <2>2. Finish(w) /\ \A ip \in IPs \ {req[w].ip} : rows'[ip] = rows[ip]
      BY <1>6, <1>t DEF Accept
    <2> QED
      BY <2>1, <2>2, <1>v, <1>t DEF Finish, Idle, Request
  <1>7. ASSUME NEW w \in Workers, Answer(w) \/ ForeignKeyFails(w) \/ Abort(w)
        PROVE  Holds(v)'
    BY <1>5, <1>7 DEF Answer, ForeignKeyFails, Abort
  <1>8. ASSUME NEW r \in Reservations, DeleteReservation(r)
        PROVE  Holds(v)'
    <2>1. \A ip \in IPs : locked[ip] # Null => rows'[ip] = rows[ip]
      BY <1>8 DEF DeleteReservation, Free
    <2> QED
      BY <1>8, <2>1, <1>v, <1>t DEF DeleteReservation
  <1>9. CASE UNCHANGED <<rows, locked, req>>
    BY <1>9, <1>v
  <1> QED
    BY <1>1, <1>2, <1>3, <1>4, <1>6, <1>7, <1>8, <1>9
       DEF Next, Serve, LoadPolicy, SavePolicy, Tick, vars

-----------------------------------------------------------------------------
(* The history: only accepting a claim extends it, by that claim.          *)

GrantOf(q) == [reservation |-> q.reservation, at |-> q.now,
               session |-> q.session, enforced |-> q.enabled]

LEMMA AcceptEffect ==
  ASSUME TypeOK, DecidesUnderLock, NEW w \in Workers, Accept(w)
  PROVE  LET q == req[w]
             n == Len(accepted[q.ip])
         IN  /\ q.ip \in IPs /\ q \in Request /\ n \in Nat
             /\ rows[q.ip] = Null \/ ~(q.enabled /\ rows[q.ip].availableAfter > q.now)
             /\ rows'[q.ip] # Null
             /\ rows'[q.ip].reservation = q.reservation
             /\ rows'[q.ip].availableAfter = q.now + Cooldown
             /\ Len(accepted'[q.ip]) = n + 1
             /\ accepted'[q.ip][n + 1] = GrantOf(q)
             /\ \A k \in 1 .. n : accepted'[q.ip][k] = accepted[q.ip][k]
             /\ \A ip \in IPs \ {q.ip} : /\ accepted'[ip] = accepted[ip]
                                         /\ rows'[ip] = rows[ip]
             /\ UNCHANGED <<clock, live>>
  <1> DEFINE q == req[w]
             n == Len(accepted[q.ip])
             g == GrantOf(q)
             row == [reservation |-> q.reservation, claimedAt |-> q.now,
                     availableAfter |-> q.now + Cooldown]
  <1>1. q.ip \in IPs /\ q.seen = rows[q.ip] /\ q \in Request
    BY DEF Accept, DecidesUnderLock, TypeOK
  <1>2. accepted[q.ip] \in Seq(Grant) /\ n \in Nat
    BY <1>1 DEF TypeOK
  <1>3. rows[q.ip] = Null \/ ~(q.enabled /\ rows[q.ip].availableAfter > q.now)
    BY <1>1 DEF Accept, Decision, Outcome
  <1>4. rows' = [rows EXCEPT ![q.ip] = row] /\ UNCHANGED <<clock, live>>
    BY DEF Accept
  <1>5. g \in Grant
    BY <1>1 DEF GrantOf, Grant, Request
  <1>6. row \in Row
    BY <1>1, CooldownAssumption DEF Row, Request
  <1>7. accepted' = [accepted EXCEPT ![q.ip] = Append(@, g)]
    BY DEF Accept, GrantOf
  <1> HIDE DEF g, row
  <1>8. accepted'[q.ip] = Append(accepted[q.ip], g)
    BY <1>1, <1>7 DEF TypeOK
  <1>9. /\ Len(accepted'[q.ip]) = n + 1
        /\ accepted'[q.ip][n + 1] = g
        /\ \A k \in 1 .. n : accepted'[q.ip][k] = accepted[q.ip][k]
    BY <1>2, <1>5, <1>8
  <1>10. /\ rows'[q.ip] = row /\ row # Null
         /\ row.reservation = q.reservation
         /\ row.availableAfter = q.now + Cooldown
    BY <1>1, <1>4, <1>6, CooldownAssumption DEF TypeOK, row
  <1>11. \A ip \in IPs \ {q.ip} : /\ accepted'[ip] = accepted[ip]
                                  /\ rows'[ip] = rows[ip]
    BY <1>4, <1>7 DEF TypeOK
  <1> QED
    BY <1>1, <1>2, <1>3, <1>4, <1>9, <1>10, <1>11 DEF g

\* Every other step leaves the history alone.
LEMMA HistoryStep ==
  ASSUME [Next]_vars
  PROVE  accepted' = accepted \/ \E w \in Workers : Accept(w)
  BY DEF Next, Serve, Receive, ReadPolicy, LockRow, Insert, Answer, Abort,
         ForeignKeyFails, LoadPolicy, SavePolicy, DeleteReservation, Tick, vars

\* A quantified claim about every accepted use needs proof for the new one only.
LEMMA AcceptedStep ==
  ASSUME TypeOK, DecidesUnderLock, NEW w \in Workers, Accept(w),
         NEW ip \in IPs, NEW k \in 1 .. Len(accepted'[ip])
  PROVE  \/ k \in 1 .. Len(accepted[ip]) /\ accepted'[ip][k] = accepted[ip][k]
         \/ /\ ip = req[w].ip /\ k = Len(accepted[ip]) + 1
            /\ accepted'[ip][k] = GrantOf(req[w])
  <1>1. CASE ip = req[w].ip
    <2> DEFINE n == Len(accepted[ip])
    <2>1. n \in Nat /\ Len(accepted'[ip]) = n + 1
      BY <1>1, AcceptEffect
    <2>2. CASE k = n + 1
      BY <1>1, <2>2, AcceptEffect
    <2>3. CASE k \in 1 .. n
      BY <1>1, <2>3, AcceptEffect
    <2> HIDE DEF n
    <2>4. k = n + 1 \/ k \in 1 .. n
      BY <2>1
    <2> QED
      BY <2>2, <2>3, <2>4
  <1>2. CASE ip # req[w].ip
    <2>1. accepted'[ip] = accepted[ip]
      BY <1>2, AcceptEffect
    <2> QED
      BY <2>1
  <1> QED
    BY <1>1, <1>2

LEMMA ClockStep ==
  ASSUME [Next]_vars
  PROVE  clock' = clock \/ (clock < MaxClock /\ clock' = clock + 1)
  BY DEF Next, Serve, Receive, ReadPolicy, LockRow, Insert, Accept, Answer, Abort,
         ForeignKeyFails, LoadPolicy, SavePolicy, DeleteReservation, Tick, vars

\* A request takes its clock when it is received and keeps it.
LEMMA NowStep ==
  ASSUME TypeOK, [Next]_vars, NEW v \in Workers
  PROVE  req'[v].now \in {req[v].now, clock, 0}
  <1>t. req \in [Workers -> Request]
    BY DEF TypeOK
  <1>1. ASSUME NEW w \in Workers, Receive(w)
        PROVE  req'[v].now \in {req[v].now, clock, 0}
    BY <1>1, <1>t DEF Receive, Idle, Request
  <1>2. ASSUME NEW w \in Workers, ReadPolicy(w) \/ LockRow(w) \/ Insert(w)
        PROVE  req'[v].now \in {req[v].now, clock, 0}
    BY <1>2, <1>t DEF ReadPolicy, LockRow, Insert, Request
  <1>3. ASSUME NEW w \in Workers, Finish(w)
        PROVE  req'[v].now \in {req[v].now, clock, 0}
    BY <1>3, <1>t DEF Finish, Idle, Request
  <1>4. CASE req' = req
    BY <1>4
  <1> QED
    BY <1>1, <1>2, <1>3, <1>4
       DEF Next, Serve, Accept, Answer, ForeignKeyFails, Abort, LoadPolicy,
           SavePolicy, DeleteReservation, Tick, vars

LEMMA FutureStep ==
  ASSUME TypeOK, DecidesUnderLock, NothingFromTheFuture, [Next]_vars
  PROVE  NothingFromTheFuture'
  <1> USE CooldownAssumption
  <1>1. /\ clock \in Nat /\ clock' \in Nat
        /\ clock <= clock' /\ clock' <= MaxClock
    BY ClockStep DEF NothingFromTheFuture, TypeOK
  <1>2. ASSUME NEW v \in Workers
        PROVE  req'[v].now <= clock'
    <2>1. req[v].now \in Nat /\ req[v].now <= clock
      BY DEF NothingFromTheFuture, TypeOK, Request
    <2> QED
      BY <1>1, <2>1, NowStep
  <1>3. ASSUME NEW ip \in IPs, NEW k \in 1 .. Len(accepted[ip])
        PROVE  accepted[ip][k].at <= clock'
    <2>1. accepted[ip][k].at \in Nat
      <3>1. accepted[ip] \in Seq(Grant)
        BY DEF TypeOK
      <3>2. accepted[ip][k] \in Grant
        BY <3>1
      <3> QED
        BY <3>2 DEF Grant
    <2>2. accepted[ip][k].at <= clock
      BY DEF NothingFromTheFuture
    <2> QED
      BY <1>1, <2>1, <2>2
  <1>4. ASSUME NEW w \in Workers, Accept(w),
               NEW ip \in IPs, NEW k \in 1 .. Len(accepted'[ip])
        PROVE  accepted'[ip][k].at <= clock'
    <2>1. req[w].now <= clock' /\ GrantOf(req[w]).at = req[w].now
      <3>1. clock' = clock
        BY <1>4 DEF Accept
      <3> QED
        BY <3>1 DEF NothingFromTheFuture, GrantOf
    <2>2. \/ k \in 1 .. Len(accepted[ip]) /\ accepted'[ip][k] = accepted[ip][k]
          \/ accepted'[ip][k] = GrantOf(req[w])
      BY <1>4, AcceptedStep
    <2> QED
      BY <1>3, <2>1, <2>2
  <1>5. \A ip \in IPs : \A k \in 1 .. Len(accepted'[ip]) : accepted'[ip][k].at <= clock'
    BY <1>3, <1>4, HistoryStep
  <1> QED
    BY <1>1, <1>2, <1>5 DEF NothingFromTheFuture

LEMMA LegacyStep ==
  ASSUME TypeOK, DecidesUnderLock, LegacyIsEnforced, [Next]_vars
  PROVE  LegacyIsEnforced'
  <1> DEFINE Holds(v) == /\ req[v].pc \in {"lock", "insert", "decide"}
                         /\ req[v].session = "legacy"
                         => req[v].enabled
  <1>1. ASSUME NEW v \in Workers
        PROVE  Holds(v)'
    <2>v. Holds(v)
      BY DEF LegacyIsEnforced
    <2>t. req \in [Workers -> Request]
      BY DEF TypeOK
    <2>1. ASSUME NEW w \in Workers, Receive(w)
          PROVE  Holds(v)'
      BY <2>1, <2>v, <2>t DEF Receive, Idle, Request
    <2>2. ASSUME NEW w \in Workers, ReadPolicy(w)
          PROVE  Holds(v)'
      BY <2>2, <2>v, <2>t DEF ReadPolicy, Enforced, Request
    <2>3. ASSUME NEW w \in Workers, LockRow(w) \/ Insert(w)
          PROVE  Holds(v)'
      BY <2>3, <2>v, <2>t DEF LockRow, Insert, Request
    <2>4. ASSUME NEW w \in Workers, Finish(w)
          PROVE  Holds(v)'
      BY <2>4, <2>v, <2>t DEF Finish, Idle, Request
    <2>5. CASE req' = req
      BY <2>5, <2>v
    <2> QED
      BY <2>1, <2>2, <2>3, <2>4, <2>5
         DEF Next, Serve, Accept, Answer, ForeignKeyFails, Abort, LoadPolicy,
             SavePolicy, DeleteReservation, Tick, vars
  <1>2. ASSUME NEW ip \in IPs, NEW k \in 1 .. Len(accepted'[ip]),
               accepted'[ip][k].session = "legacy"
        PROVE  accepted'[ip][k].enforced
    <2>1. CASE accepted' = accepted
      BY <1>2, <2>1 DEF LegacyIsEnforced
    <2>2. ASSUME NEW w \in Workers, Accept(w)
          PROVE  accepted'[ip][k].enforced
      <3>1. CASE k \in 1 .. Len(accepted[ip]) /\ accepted'[ip][k] = accepted[ip][k]
        BY <1>2, <3>1 DEF LegacyIsEnforced
      <3>2. CASE accepted'[ip][k] = GrantOf(req[w])
        BY <1>2, <2>2, <3>2 DEF LegacyIsEnforced, GrantOf, Accept
      <3> QED
        BY <2>2, <3>1, <3>2, AcceptedStep
    <2> QED
      BY <2>1, <2>2, HistoryStep
  <1> QED
    BY <1>1, <1>2 DEF LegacyIsEnforced

LEMMA RowRecordsStep ==
  ASSUME TypeOK, DecidesUnderLock, RowRecordsLastUse, [Next]_vars
  PROVE  RowRecordsLastUse'
  <1> USE CooldownAssumption
  <1> DEFINE Records(ip) ==
        /\ rows[ip] = Null <=> Len(accepted[ip]) = 0
        /\ rows[ip] # Null =>
              /\ rows[ip].availableAfter = LastOf(ip).at + Cooldown
              /\ LastOf(ip).reservation \in live =>
                     rows[ip].reservation = LastOf(ip).reservation
  <1> SUFFICES ASSUME NEW ip \in IPs
               PROVE  Records(ip)'
    BY DEF RowRecordsLastUse
  <1>r. Records(ip)
    BY DEF RowRecordsLastUse
  <1>1. ASSUME NEW w \in Workers, Accept(w)
        PROVE  Records(ip)'
    <2>1. CASE ip = req[w].ip
      <3> DEFINE n == Len(accepted[ip])
      <3>1. /\ n \in Nat /\ Len(accepted'[ip]) = n + 1
            /\ accepted'[ip][n + 1] = GrantOf(req[w])
            /\ rows'[ip] # Null
            /\ rows'[ip].availableAfter = req[w].now + Cooldown
            /\ rows'[ip].reservation = req[w].reservation
        BY <1>1, <2>1, AcceptEffect
      <3> QED
        BY <3>1 DEF LastOf, GrantOf
    <2>2. CASE ip # req[w].ip
      <3>1. /\ accepted'[ip] = accepted[ip] /\ rows'[ip] = rows[ip]
            /\ live' = live
        BY <1>1, <2>2, AcceptEffect
      <3> QED
        BY <1>r, <3>1 DEF LastOf
    <2> QED
      BY <2>1, <2>2
  <1>2. ASSUME NEW r \in Reservations, DeleteReservation(r)
        PROVE  Records(ip)'
    <2>1. accepted' = accepted /\ live' = live \ {r} /\ LastOf(ip)' = LastOf(ip)
      BY <1>2 DEF DeleteReservation, LastOf
    <2>2. CASE rows[ip] # Null /\ rows[ip].reservation = r
      <3>1. /\ rows'[ip] = [rows[ip] EXCEPT !.reservation = Null]
            /\ rows[ip] \in Row
        BY <1>2, <2>2 DEF DeleteReservation, TypeOK
      <3>2. rows'[ip] \in Row /\ rows'[ip].availableAfter = rows[ip].availableAfter
        BY <3>1 DEF Row
      <3> QED
        BY <1>r, <2>1, <2>2, <3>2
    <2>3. CASE ~(rows[ip] # Null /\ rows[ip].reservation = r)
      <3>1. rows'[ip] = rows[ip]
        BY <1>2, <2>3 DEF DeleteReservation
      <3> QED
        BY <1>r, <2>1, <3>1
    <2> QED
      BY <2>2, <2>3
  <1>3. CASE UNCHANGED <<rows, live, accepted>>
    BY <1>r, <1>3 DEF LastOf
  <1> QED
    BY <1>1, <1>2, <1>3
       DEF Next, Serve, Receive, ReadPolicy, LockRow, Insert, Answer, Abort,
           ForeignKeyFails, LoadPolicy, SavePolicy, Tick, vars

-----------------------------------------------------------------------------
(* The windows.                                                            *)

\* The use being accepted, when enforced, waited for the last one to be over:
\* the row under lock is that last use.
LEMMA AcceptWaits ==
  ASSUME TypeOK, DecidesUnderLock, LegacyIsEnforced, RowRecordsLastUse,
         NEW w \in Workers, Accept(w),
         req[w].enabled \/ req[w].session = "legacy",
         Len(accepted[req[w].ip]) > 0
  PROVE  LastOf(req[w].ip).at + Cooldown <= req[w].now
  <1> DEFINE ip == req[w].ip
  <1>1. /\ ip \in IPs /\ req[w].now \in Nat
        /\ rows[ip] = Null \/ ~(req[w].enabled /\ rows[ip].availableAfter > req[w].now)
    <2>1. req[w] \in Request
      BY DEF TypeOK
    <2> QED
      BY <2>1, AcceptEffect DEF Request
  <1>2. req[w].enabled
    BY DEF LegacyIsEnforced, Accept
  <1>3. rows[ip] # Null /\ rows[ip].availableAfter = LastOf(ip).at + Cooldown
    BY <1>1 DEF RowRecordsLastUse
  <1>4. rows[ip].availableAfter \in Nat
    BY <1>1, <1>3 DEF TypeOK, Row
  <1> QED
    BY <1>1, <1>2, <1>3, <1>4

\* The instants of accepted uses are numbers.
LEMMA InstantsAreNumbers ==
  ASSUME TypeOK, NEW ip \in IPs
  PROVE  /\ Len(accepted[ip]) \in Nat
         /\ \A k \in 1 .. Len(accepted[ip]) : accepted[ip][k].at \in Nat
  <1>1. accepted[ip] \in Seq(Grant)
    BY DEF TypeOK
  <1>2. \A k \in 1 .. Len(accepted[ip]) : accepted[ip][k] \in Grant
    BY <1>1
  <1> QED
    BY <1>1, <1>2 DEF Grant

\* What a step that accepts nothing, or accepts for another address, leaves.
LEMMA SameHistory ==
  ASSUME NEW ip \in IPs, accepted'[ip] = accepted[ip]
  PROVE  /\ LastOf(ip)' = LastOf(ip)
         /\ \A k : EnforcedUpTo(ip, k)' <=> EnforcedUpTo(ip, k)
         /\ UsesOf(ip)' = UsesOf(ip)
  BY DEF LastOf, EnforcedUpTo, UsesOf

LEMMA EarlierUsesStep ==
  ASSUME TypeOK, DecidesUnderLock, LegacyIsEnforced, RowRecordsLastUse,
         EarlierUsesAreOver, [Next]_vars
  PROVE  EarlierUsesAreOver'
  <1> USE CooldownAssumption
  <1> SUFFICES ASSUME NEW ip \in IPs,
                      \A j \in 1 .. Len(accepted'[ip]) : accepted'[ip][j].enforced,
                      NEW k \in 1 .. Len(accepted'[ip]) - 1
               PROVE  accepted'[ip][k].at + Cooldown <= LastOf(ip)'.at
    BY DEF EarlierUsesAreOver, EnforcedUpTo
  <1>1. CASE accepted'[ip] = accepted[ip]
    BY <1>1, SameHistory DEF EarlierUsesAreOver, EnforcedUpTo
  <1>2. ASSUME NEW w \in Workers, Accept(w), ip = req[w].ip
        PROVE  accepted'[ip][k].at + Cooldown <= LastOf(ip)'.at
    <2> DEFINE n == Len(accepted[ip])
    <2>1. n \in Nat /\ \A j \in 1 .. n : accepted[ip][j].at \in Nat
      BY InstantsAreNumbers
    <2>2. /\ Len(accepted'[ip]) = n + 1
          /\ accepted'[ip][n + 1] = GrantOf(req[w])
          /\ \A j \in 1 .. n : accepted'[ip][j] = accepted[ip][j]
      BY <1>2, AcceptEffect
    <2> HIDE DEF n
    <2>3. LastOf(ip)' = GrantOf(req[w]) /\ k \in 1 .. n
      BY <2>1, <2>2 DEF LastOf
    <2>4. req[w].enabled /\ EnforcedUpTo(ip, n)
      <3>1. \A j \in 1 .. n + 1 : accepted'[ip][j].enforced
        BY <2>2
      <3>2. \A j \in 1 .. n : accepted[ip][j].enforced
        BY <2>1, <2>2, <3>1
      <3>3. GrantOf(req[w]).enforced
        BY <2>1, <2>2, <3>1
      <3> QED
        BY <3>2, <3>3 DEF EnforcedUpTo, GrantOf
    <2>5. LastOf(ip).at + Cooldown <= req[w].now
      BY <1>2, <2>3, <2>4, <2>1, AcceptWaits DEF n
    <2>6. k < n => accepted[ip][k].at + Cooldown <= LastOf(ip).at
      BY <2>1, <2>3, <2>4 DEF EarlierUsesAreOver, n
    <2>7. LastOf(ip).at \in Nat /\ (k = n => accepted[ip][k] = LastOf(ip))
      BY <2>1, <2>3 DEF LastOf, n
    <2>8. req[w].now \in Nat
      BY DEF TypeOK, Request
    <2>9. /\ accepted'[ip][k] = accepted[ip][k] /\ accepted[ip][k].at \in Nat
          /\ LastOf(ip)'.at = req[w].now
      BY <2>1, <2>2, <2>3 DEF GrantOf
    <2>10. CASE k = n
      BY <2>5, <2>7, <2>9, <2>10
    <2>11. CASE k < n
      BY <2>5, <2>6, <2>7, <2>8, <2>9, <2>11
    <2> QED
      BY <2>1, <2>3, <2>10, <2>11
  <1>3. ASSUME NEW w \in Workers, Accept(w), ip # req[w].ip
        PROVE  accepted'[ip] = accepted[ip]
    BY <1>3, AcceptEffect
  <1> QED
    BY <1>1, <1>2, <1>3, HistoryStep

LEMMA EnforcedClaimStep ==
  ASSUME TypeOK, DecidesUnderLock, LegacyIsEnforced, RowRecordsLastUse,
         EnforcedClaimWaits, [Next]_vars
  PROVE  EnforcedClaimWaits'
  <1> SUFFICES ASSUME NEW ip \in IPs, NEW k \in 2 .. Len(accepted'[ip]),
                      \/ accepted'[ip][k].enforced
                      \/ accepted'[ip][k].session = "legacy"
               PROVE  accepted'[ip][k].at >= accepted'[ip][k - 1].at + Cooldown
    BY DEF EnforcedClaimWaits
  <1>1. CASE accepted'[ip] = accepted[ip]
    BY <1>1 DEF EnforcedClaimWaits
  <1>2. ASSUME NEW w \in Workers, Accept(w), ip = req[w].ip
        PROVE  accepted'[ip][k].at >= accepted'[ip][k - 1].at + Cooldown
    <2> DEFINE n == Len(accepted[ip])
    <2>1. n \in Nat /\ \A j \in 1 .. n : accepted[ip][j].at \in Nat
      BY InstantsAreNumbers
    <2>2. /\ Len(accepted'[ip]) = n + 1
          /\ accepted'[ip][n + 1] = GrantOf(req[w])
          /\ \A j \in 1 .. n : accepted'[ip][j] = accepted[ip][j]
      BY <1>2, AcceptEffect
    <2> HIDE DEF n
    <2>3. CASE k \in 2 .. n
      <3>1. /\ accepted'[ip][k] = accepted[ip][k]
            /\ accepted'[ip][k - 1] = accepted[ip][k - 1]
        BY <2>1, <2>2, <2>3
      <3> QED
        BY <2>3, <3>1 DEF EnforcedClaimWaits, n
    <2>4. CASE k = n + 1
      <3>1. n > 0 /\ (req[w].enabled \/ req[w].session = "legacy")
        BY <2>1, <2>2, <2>4 DEF GrantOf
      <3>2. LastOf(ip).at + Cooldown <= req[w].now
        BY <1>2, <3>1, AcceptWaits DEF n
      <3>3. accepted'[ip][k - 1] = LastOf(ip) /\ accepted'[ip][k].at = req[w].now
        BY <2>1, <2>2, <2>4, <3>1 DEF LastOf, GrantOf, n
      <3>4. req[w].now \in Nat /\ LastOf(ip).at \in Nat
        BY <2>1, <3>1 DEF LastOf, TypeOK, Request, n
      <3> QED
        BY <3>2, <3>3, <3>4, CooldownAssumption
    <2> QED
      BY <2>1, <2>2, <2>3, <2>4
  <1>3. ASSUME NEW w \in Workers, Accept(w), ip # req[w].ip
        PROVE  accepted'[ip] = accepted[ip]
    BY <1>3, AcceptEffect
  <1> QED
    BY <1>1, <1>2, <1>3, HistoryStep

-----------------------------------------------------------------------------
(* The theorems.                                                           *)

\* The inductive invariant holds of every behaviour of claim_exit_ip, the
\* policy panels, deleted reservations and the clock.
THEOREM RowsGuardWindowsHolds == Spec => []RowsGuardWindows
  <1>1. Init => RowsGuardWindows
    <2> SUFFICES ASSUME Init PROVE RowsGuardWindows
      OBVIOUS
    <2>1. \A ip \in IPs : rows[ip] = Null /\ accepted[ip] = <<>>
      BY DEF Init
    <2>2. clock = 0 /\ \A w \in Workers : req[w] = Idle
      BY DEF Init
    <2> QED
      BY <2>1, <2>2, InitTypes, CooldownAssumption
         DEF RowsGuardWindows, DecidesUnderLock, NothingFromTheFuture, Idle,
             LegacyIsEnforced, RowRecordsLastUse, EarlierUsesAreOver,
             EnforcedClaimWaits
  <1>2. RowsGuardWindows /\ [Next]_vars => RowsGuardWindows'
    BY NextTypes, DecidesUnderLockStep, FutureStep, LegacyStep, RowRecordsStep,
       EarlierUsesStep, EnforcedClaimStep
       DEF RowsGuardWindows
  <1> QED
    BY <1>1, <1>2, PTL DEF Spec

\* Every table, lock and request has its type; no row is owned by a deleted
\* reservation.
THEOREM TypeCorrect == Spec => []TypeOK
  <1>1. RowsGuardWindows => TypeOK
    BY DEF RowsGuardWindows
  <1> QED
    BY <1>1, RowsGuardWindowsHolds, PTL

\* An enforced claim of claim_exit_ip is accepted only after the window of
\* the use before it, however workers interleave and however long they wait.
THEOREM ClaimsWait == Spec => []EnforcedClaimWaits
  <1>1. RowsGuardWindows => EnforcedClaimWaits
    BY DEF RowsGuardWindows
  <1> QED
    BY <1>1, RowsGuardWindowsHolds, PTL

\* A reservation that replays its claim inside its window is answered as a
\* retry, while no use of the address was accepted with the policy OFF.
THEOREM RetriesAreIdempotent == Spec => []RetryIsIdempotent
  <1>1. RowsGuardWindows => RetryIsIdempotent
    <2> SUFFICES ASSUME RowsGuardWindows, NEW w \in Workers, Replays(req[w]),
                        EnforcedUpTo(req[w].ip, Len(accepted[req[w].ip]))
                 PROVE  Decision(w) = "retry"
      BY DEF RetryIsIdempotent
    <2> USE CooldownAssumption
    <2> DEFINE q == req[w]
               ip == q.ip
               n == Len(accepted[ip])
    <2>1. /\ q.pc = "decide" /\ q.reservation \in live /\ q.reservation # Null
          /\ ip \in IPs /\ q.seen = rows[ip] /\ q.now \in Nat /\ q.now <= clock
      BY DEF Replays, RowsGuardWindows, DecidesUnderLock, NothingFromTheFuture,
             TypeOK, Request
    <2>2. /\ n \in Nat /\ DOMAIN accepted[ip] = 1 .. n
          /\ \A k \in 1 .. n : accepted[ip][k].at \in Nat
                             /\ accepted[ip][k].at <= clock
      <3>1. accepted[ip] \in Seq(Grant)
        BY <2>1 DEF RowsGuardWindows, TypeOK
      <3> QED
        BY <2>1, <3>1, InstantsAreNumbers DEF RowsGuardWindows, NothingFromTheFuture
    <2>3. PICK k \in 1 .. n : /\ accepted[ip][k].reservation = q.reservation
                             /\ clock < accepted[ip][k].at + Cooldown
      BY <2>2 DEF Replays
    <2>4. clock \in Nat
      BY DEF RowsGuardWindows, TypeOK
    <2>5. k = n
      <3>1. SUFFICES ASSUME k \in 1 .. n - 1 PROVE FALSE
        BY <2>2, <2>3
      <3>2. accepted[ip][k].at + Cooldown <= LastOf(ip).at
        BY <2>1, <3>1 DEF RowsGuardWindows, EarlierUsesAreOver
      <3>3. LastOf(ip).at \in Nat /\ LastOf(ip).at <= clock
        BY <2>2, <3>1 DEF LastOf
      <3> QED
        BY <2>2, <2>3, <2>4, <3>2, <3>3
    <2>6. LastOf(ip) = accepted[ip][k] /\ n # 0
      BY <2>2, <2>3, <2>5 DEF LastOf
    <2>7. /\ rows[ip] # Null
          /\ rows[ip].reservation = q.reservation
          /\ rows[ip].availableAfter = accepted[ip][k].at + Cooldown
      BY <2>1, <2>3, <2>6 DEF RowsGuardWindows, RowRecordsLastUse
    <2>8. rows[ip].availableAfter > q.now
      BY <2>1, <2>2, <2>3, <2>4, <2>7
    <2> QED
      BY <2>1, <2>7, <2>8 DEF Decision, Outcome, OwnLiveRow
  <1> QED
    BY <1>1, RowsGuardWindowsHolds, PTL

\* The early check and the authoritative claim agree on what a duplicate is.
THEOREM CheckAgrees == Spec => []CheckAgreesWithClaim
  <1>1. CheckAgreesWithClaim
    BY DEF CheckAgreesWithClaim, CheckDuplicate, Outcome, OwnLiveRow
  <1> QED
    BY <1>1, PTL

-----------------------------------------------------------------------------
(* Claims implement exclusive windows.                                     *)

\* Accepting a claim appends its instant to the uses when it and all before it
\* were enforced, and then that instant is clear of every one of them.
LEMMA UsesStep ==
  ASSUME RowsGuardWindows, NEW w \in Workers, Accept(w),
         NEW ip \in IPs, ip = req[w].ip
  PROVE  \/ UsesOf(ip)' = UsesOf(ip)
         \/ /\ UsesOf(ip)' = Append(UsesOf(ip), req[w].now)
            /\ \A k \in DOMAIN UsesOf(ip) : req[w].now >= UsesOf(ip)[k] + Cooldown
  <1> USE CooldownAssumption
  <1> USE DEF RowsGuardWindows
  <1>n. PICK n \in Nat : n = Len(accepted[ip])
    BY InstantsAreNumbers
  <1>1. /\ ip \in IPs /\ n \in Nat /\ req[w].now \in Nat
        /\ DOMAIN accepted[ip] = 1 .. n
        /\ \A k \in 1 .. n : accepted[ip][k].at \in Nat
    <2>1. accepted[ip] \in Seq(Grant) /\ req[w] \in Request
      BY DEF TypeOK
    <2> QED
      BY <1>n, <2>1, InstantsAreNumbers DEF Request
  <1>2. /\ accepted'[ip][n + 1] = GrantOf(req[w])
        /\ \A k \in 1 .. n : accepted'[ip][k] = accepted[ip][k]
    BY <1>n, AcceptEffect
  <1>3. DOMAIN accepted'[ip] = 1 .. n + 1
    <2>1. accepted'[ip] \in Seq(Grant)
      BY <1>1, NextTypes DEF TypeOK, Next, Serve
    <2>2. Len(accepted'[ip]) = n + 1
      BY <1>n, AcceptEffect
    <2> QED
      BY <2>1, <2>2
  <1>4. ASSUME NEW k \in 1 .. n
        PROVE  EnforcedUpTo(ip, k)' <=> EnforcedUpTo(ip, k)
    <2>1. \A j \in 1 .. k : accepted'[ip][j] = accepted[ip][j]
      BY <1>2
    <2> QED
      BY <2>1 DEF EnforcedUpTo
  <1>5. CASE ~EnforcedUpTo(ip, n + 1)'
    <2>1. {j \in 1 .. n + 1 : EnforcedUpTo(ip, j)'} = {j \in 1 .. n : EnforcedUpTo(ip, j)}
      BY <1>1, <1>4, <1>5
    <2>2. UsesOf(ip)' = UsesOf(ip)
      BY <1>1, <1>2, <1>3, <2>1 DEF UsesOf
    <2> QED
      BY <2>2
  <1>6. CASE EnforcedUpTo(ip, n + 1)'
    <2>1. req[w].enabled /\ EnforcedUpTo(ip, n)
      BY <1>1, <1>2, <1>6 DEF EnforcedUpTo, GrantOf
    <2>2. UsesOf(ip) = [k \in 1 .. n |-> accepted[ip][k].at]
      <3>1. {j \in 1 .. n : EnforcedUpTo(ip, j)} = 1 .. n
        BY <1>1, <2>1 DEF EnforcedUpTo
      <3> QED
        BY <1>1, <3>1 DEF UsesOf
    <2>3. UsesOf(ip)' = [k \in 1 .. n + 1 |-> accepted'[ip][k].at]
      <3>1. {j \in 1 .. n + 1 : EnforcedUpTo(ip, j)'} = 1 .. n + 1
        BY <1>1, <1>6 DEF EnforcedUpTo
      <3> QED
        BY <1>3, <3>1 DEF UsesOf
    <2>4. UsesOf(ip)' = Append(UsesOf(ip), req[w].now)
      <3>1. /\ UsesOf(ip) \in Seq(Nat)
            /\ Len(UsesOf(ip)) = n
        BY <1>1, <2>2
      <3>2. /\ accepted'[ip][n + 1].at = req[w].now
            /\ \A k \in 1 .. n : accepted'[ip][k].at = accepted[ip][k].at
        BY <1>2 DEF GrantOf
      <3>3. UsesOf(ip)' \in Seq(Nat) /\ Len(UsesOf(ip)') = n + 1
        BY <1>1, <2>3, <3>2
      <3> QED
        BY <1>1, <2>2, <2>3, <3>1, <3>2, <3>3
    <2>5. ASSUME NEW k \in DOMAIN UsesOf(ip)
          PROVE  req[w].now >= UsesOf(ip)[k] + Cooldown
      <3>1. k \in 1 .. n /\ UsesOf(ip)[k] = accepted[ip][k].at
        BY <1>1, <2>2, <2>5
      <3>2. LastOf(ip).at \in Nat /\ (k = n => LastOf(ip).at = UsesOf(ip)[k])
        BY <1>1, <1>n, <3>1 DEF LastOf
      <3>3. LastOf(ip).at + Cooldown <= req[w].now
        BY <1>1, <1>n, <2>1, <3>1, AcceptWaits
      <3>4. k < n => UsesOf(ip)[k] + Cooldown <= LastOf(ip).at
        <4>1. \A j \in 1 .. n - 1 : accepted[ip][j].at + Cooldown <= LastOf(ip).at
          BY <1>n, <2>1 DEF EarlierUsesAreOver
        <4> QED
          BY <3>1, <4>1
      <3>5. UsesOf(ip)[k] \in Nat
        BY <1>1, <3>1
      <3>6. CASE k = n
        BY <3>2, <3>3, <3>6
      <3>7. CASE k < n
        BY <1>1, <3>2, <3>3, <3>4, <3>5, <3>7
      <3> QED
        BY <3>1, <3>6, <3>7
    <2> QED
      BY <2>4, <2>5
  <1> QED
    BY <1>5, <1>6

\* While every use of an address is enforced, claims implement exclusive
\* windows: no two uses of it, by anyone, begin closer than the cooldown.
THEOREM ImplementsExclusiveUse == Spec => ExclusiveSpec
  <1> DEFINE uses == [ip \in IPs |-> UsesOf(ip)]
  <1>1. Init => Exclusive!Init
    <2> SUFFICES ASSUME Init, NEW ip \in IPs PROVE UsesOf(ip) = <<>>
      BY DEF Exclusive!Init
    <2>1. accepted[ip] = <<>>
      BY DEF Init
    <2> QED
      BY <2>1 DEF UsesOf
  <1>2. RowsGuardWindows /\ [Next]_vars => [Exclusive!Next]_uses
    <2> SUFFICES ASSUME RowsGuardWindows, [Next]_vars
                 PROVE  Exclusive!Next \/ uses' = uses
      OBVIOUS
    <2>1. CASE accepted' = accepted
      BY <2>1, SameHistory
    <2>2. ASSUME NEW w \in Workers, Accept(w)
          PROVE  Exclusive!Next \/ uses' = uses
      <3>1. PICK ip \in IPs : ip = req[w].ip
        BY <2>2, AcceptEffect DEF RowsGuardWindows
      <3>2. req[w].now \in 0 .. MaxClock
        BY CooldownAssumption
           DEF RowsGuardWindows, NothingFromTheFuture, TypeOK, Request
      <3>3. \A i \in IPs \ {ip} : UsesOf(i)' = UsesOf(i)
        BY <2>2, <3>1, AcceptEffect, SameHistory DEF RowsGuardWindows
      <3>4. CASE UsesOf(ip)' = UsesOf(ip)
        BY <3>3, <3>4
      <3>5. CASE /\ UsesOf(ip)' = Append(UsesOf(ip), req[w].now)
                 /\ \A k \in DOMAIN UsesOf(ip) : req[w].now >= UsesOf(ip)[k] + Cooldown
        <4>1. uses' = [uses EXCEPT ![ip] = Append(@, req[w].now)]
          BY <3>1, <3>3, <3>5
        <4>2. Exclusive!Accept(ip, req[w].now)
          BY <3>1, <3>5, <4>1 DEF Exclusive!Accept, Exclusive!Apart
        <4> QED
          BY <3>2, <4>2 DEF Exclusive!Next
      <3> QED
        BY <2>2, <3>1, <3>4, <3>5, UsesStep
    <2> QED
      BY <2>1, <2>2, HistoryStep
  <1> QED
    BY <1>1, <1>2, RowsGuardWindowsHolds, PTL
       DEF Spec, ExclusiveSpec, Exclusive!Spec

=============================================================================
