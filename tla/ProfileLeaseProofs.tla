------------------------- MODULE ProfileLeaseProofs -------------------------
(* Proofs about the lease of a browser group and its waiting list, for every *)
(* number of sessions, desktops and requests.                                *)
EXTENDS ProfileLease, FiniteSetTheorems, WellFoundedInduction, TLAPS

-----------------------------------------------------------------------------
(* The inductive invariant.                                                  *)

\* Where a session has its own queue row locked, and where that row waits.
Holding == {"poll", "allow", "drop", "lease", "evict", "head", "grant"}
Queueing == {"lease", "evict", "head", "grant"}

\* A request that was given the group, or that is over.
Past == {"active", "completed", "expired"}

\* What a session carries and has locked.
WorkSound(q) ==
    /\ q.pc = "idle" => q = Idle
    /\ q.pc # "idle" => q.client \in Clients
    /\ q.pc \in {"cancel", "release", "completed"} \cup Holding => q.row # 0
    /\ q.pc \in Holding => q.row \in q.rows \ q.doomed
    /\ q.pc \in {"insert", "clear", "sweep"} => q.row = 0
    /\ q.doomed \subseteq q.rows
    /\ q.evicts => q.pc \in {"head", "grant"}
    /\ q.evicts \/ q.pc = "evict" => q.lease
    /\ q.pc = "drop" => q.row \in q.over

\* The queue rows of a session are as it found them.
RowSound(q) ==
    /\ q.pc \in {"poll", "allow", "drop"} => row[q.row].status = "active"
    /\ q.pc \in Queueing => row[q.row].status \in {"queued", "unborn"}
    /\ q.pc \in {"expire", "own", "cancel"} /\ q.row # 0 => row[q.row].status # "unborn"
    /\ q.pc \in {"release", "completed"} => row[q.row].status \in Past
    /\ \A i \in q.rows : row[i].status = "unborn" => i = q.row
    /\ \A i \in q.doomed : row[i].status = "queued" \/ (q.evicts /\ i = lease)

\* The lease is as the session found it: still over if it is about to end it,
\* still its own, or given back by its desktop, if it is about to report it.
LeaseSound(q) ==
    /\ q.late \subseteq late /\ q.over \subseteq over
    /\ q.pc = "completed" => lease # q.row
    /\ q.evicts \/ q.pc = "evict" => lease \in q.over
    /\ serialized /\ q.evicts => lease \in q.rows
    /\ serialized /\ q.pc = "allow" => lease = q.row \/ q.row \in returned
    /\ serialized => q.pc \notin {"clear", "sweep"}

\* Whoever is about to be granted the group has nobody in time before it, and
\* nobody will come before it.
Ahead(q) ==
    q.pc = "grant" => \A j \in Rows : j < q.row =>
        /\ row[j].status = "queued" => j \in q.doomed \cup q.late
        /\ j \notin Inserted

SessionsSound ==
    \A w \in Workers : /\ WorkSound(req[w]) /\ RowSound(req[w])
                       /\ LeaseSound(req[w]) /\ Ahead(req[w])

\* Row locks are exclusive, and so are inserts.
LocksExclusive ==
    \A v, w \in Workers : v # w =>
        /\ req[v].rows \cap req[w].rows = {}
        /\ ~(req[v].lease /\ req[w].lease)
        /\ req[v].row = req[w].row /\ req[v].row # 0 => row[req[v].row].status # "unborn"

DesktopsInformed ==
    \A c \in Clients : /\ token[c] # 0 => row[token[c]].status # "unborn"
                       /\ holds[c] # 0 => row[holds[c]].status \in Past

LeaseInv ==
    /\ TypeOK /\ SessionsSound /\ LocksExclusive /\ DesktopsInformed
    /\ lease # 0 => row[lease].status \in Past
    /\ LeaseIsActive

-----------------------------------------------------------------------------
(* What a step of a session may do to what the others rely on.               *)

\* It writes the rows it has locked, inserts its own, and no request goes back.
RowsWritten(w) ==
    /\ row' \in [Rows -> QueueRow]
    /\ \A v \in Workers \ {w} : \A i \in req[v].rows : row'[i] = row[i]
    /\ \A i \in Rows :
          /\ row[i].status \in Past => row'[i].status \in Past
          /\ row[i].status = "queued" => row'[i].status # "unborn"
          /\ row[i].status = "unborn" => row'[i] = row[i] \/ i = req[w].row
          /\ row'[i].status = "queued" /\ row[i].status # "queued" =>
                row[i].status = "unborn"

\* It ends or grants the lease only when nobody else has it locked.
LeaseWritten(w) ==
    /\ lease' \in 0 .. MaxRows
    /\ lease' # lease => \A v \in Workers \ {w} : ~req[v].lease
    /\ lease' \notin {0, lease} =>
          row[lease'].status \in {"queued", "unborn"} /\ row'[lease'].status = "active"
    /\ serialized /\ lease # 0 /\ lease' # lease =>
          /\ lease \in over \cup returned'
          /\ lease \in req[w].rows \cup returned'
    /\ serialized /\ lease # 0 /\ lease' = lease => row'[lease].status = "active"

DesktopsTold ==
    /\ token' \in [Clients -> 0 .. MaxRows] /\ holds' \in [Clients -> 0 .. MaxRows]
    /\ \A c \in Clients :
          /\ token'[c] \in {0, token[c]} \/ row'[token'[c]].status # "unborn"
          /\ holds'[c] \in {0, holds[c]} \/ row'[holds'[c]].status \in Past

\* It locks nothing that others have, and inserts after all others.
SessionMoves(w, q) ==
    /\ req' = [req EXCEPT ![w] = q] /\ q \in Work /\ WorkSound(q)
    /\ \A v \in Workers \ {w} :
          q.rows \cap req[v].rows = {} /\ ~(q.lease /\ req[v].lease)
    /\ \/ q.row = 0 \/ q.row = req[w].row
       \/ row[q.row].status # "unborn" \/ q.row \in Fresh

SessionSteps(w, q) ==
    /\ SessionMoves(w, q) /\ RowsWritten(w) /\ LeaseWritten(w) /\ DesktopsTold
    /\ UNCHANGED <<serialized, late, over>>
    /\ returned \subseteq returned' /\ returned' \subseteq Rows
    /\ events' \in 0 .. MaxEvents

LEMMA IdleIsSound ==
  /\ Idle \in Work /\ WorkSound(Idle) /\ Idle.row = 0 /\ Idle.rows = {} /\ ~Idle.lease
  /\ Idle.pc = "idle" /\ Idle.doomed = {} /\ Idle.late = {} /\ Idle.over = {}
  /\ ~Idle.evicts
  BY LeaseAssumption DEF Idle, Work, WorkSound, Holding

LEMMA RowsAreNatural == Rows \subseteq Nat \ {0} /\ Rows \subseteq 0 .. MaxRows
                        /\ 0 .. MaxRows = Rows \cup {0}
  BY LeaseAssumption DEF Rows

LEMMA SmallestExists ==
  ASSUME NEW T \in SUBSET Nat, T # {}
  PROVE  \E m \in T : \A n \in T : m <= n
  <1>1. PICK m \in T : \A n \in T : ~ (<<n, m>> \in OpToRel(<, Nat))
    BY WFMin, NatLessThanWellFounded
  <1>2. \A n \in T : ~ (n < m)
    BY <1>1 DEF OpToRel
  <1> QED
    BY <1>2

LEMMA MinIsSmallest ==
  ASSUME NEW T \in SUBSET Nat, T # {}
  PROVE  Min(T) \in T /\ \A n \in T : Min(T) <= n
  BY SmallestExists DEF Min

\* Each session sees that the others do not disturb it.
LEMMA OthersUndisturbed ==
  ASSUME LeaseInv, NEW w \in Workers, NEW q, SessionSteps(w, q),
         NEW v \in Workers, v # w
  PROVE  /\ req'[v] = req[v] /\ WorkSound(req[v]) /\ RowSound(req[v])'
         /\ LeaseSound(req[v])' /\ Ahead(req[v])'
  <1>1. req'[v] = req[v]
    BY DEF SessionSteps, SessionMoves, LeaseInv, TypeOK
  <1>2. /\ WorkSound(req[v]) /\ RowSound(req[v]) /\ LeaseSound(req[v]) /\ Ahead(req[v])
        /\ req[v] \in Work
    BY DEF LeaseInv, SessionsSound, TypeOK
  <1>3. /\ RowsWritten(w) /\ LeaseWritten(w) /\ UNCHANGED <<serialized, late, over>>
        /\ returned \subseteq returned'
        /\ \A i \in req[v].rows : row'[i] = row[i]
        /\ row \in [Rows -> QueueRow] /\ lease \in 0 .. MaxRows
    BY DEF SessionSteps, RowsWritten, LeaseInv, TypeOK
  <1>4. req[v].lease => lease' = lease
    BY <1>3 DEF LeaseWritten
  <1>5. req[v].pc \in Holding => row'[req[v].row] = row[req[v].row]
    BY <1>2, <1>3 DEF WorkSound
  <1>6. req[v].row \in Rows \cup {0} /\ req[v].rows \subseteq Rows
    BY <1>2, RowsAreNatural DEF Work
  <1>7. \A i \in Rows : /\ row[i].status \in Past => row'[i].status \in Past
                        /\ row[i].status # "unborn" => row'[i].status # "unborn"
    BY <1>3 DEF RowsWritten, QueueRow, Statuses, Past
  <1>8. RowSound(req[v])'
    <2>1. req[v].pc \in {"poll", "allow", "drop"} => row'[req[v].row].status = "active"
      BY <1>2, <1>5 DEF RowSound, Holding
    <2>2. req[v].pc \in Queueing => row'[req[v].row].status \in {"queued", "unborn"}
      BY <1>2, <1>5 DEF RowSound, Holding, Queueing
    <2>3. req[v].pc \in {"expire", "own", "cancel"} /\ req[v].row # 0 =>
              row'[req[v].row].status # "unborn"
      BY <1>2, <1>6, <1>7 DEF RowSound
    <2>4. req[v].pc \in {"release", "completed"} => row'[req[v].row].status \in Past
      BY <1>2, <1>6, <1>7 DEF RowSound, WorkSound
    <2>5. \A i \in req[v].rows : row'[i].status = "unborn" => i = req[v].row
      BY <1>2, <1>3 DEF RowSound
    <2>6. \A i \in req[v].doomed : row'[i].status = "queued" \/ (req[v].evicts /\ i = lease')
      BY <1>2, <1>3, <1>4 DEF RowSound, WorkSound
    <2> QED
      BY <1>1, <2>1, <2>2, <2>3, <2>4, <2>5, <2>6 DEF RowSound
  <1>9. LeaseSound(req[v])'
    <2>1. req[v].pc = "completed" => lease' # req[v].row
      <3> SUFFICES ASSUME req[v].pc = "completed" PROVE lease' # req[v].row
        OBVIOUS
      <3>1. /\ lease # req[v].row /\ req[v].row # 0 /\ row[req[v].row].status \in Past
        BY <1>2 DEF LeaseSound, WorkSound, RowSound
      <3>2. lease' \notin {0, lease} => row[lease'].status \in {"queued", "unborn"}
        BY <1>3 DEF LeaseWritten
      <3> QED
        BY <3>1, <3>2 DEF Past
    <2>2. serialized /\ req[v].pc = "allow" => lease' = req[v].row \/ req[v].row \in returned'
      <3> SUFFICES ASSUME serialized, req[v].pc = "allow", lease' # req[v].row
                   PROVE  req[v].row \in returned'
        OBVIOUS
      <3>1. CASE req[v].row \in returned
        BY <1>3, <3>1
      <3>2. CASE lease = req[v].row
        <4>1. lease # 0 /\ lease \in req[v].rows
          BY <1>2, <3>2 DEF WorkSound, Holding
        <4>2. lease \in req[w].rows \cup returned'
          BY <1>3, <3>2, <4>1 DEF LeaseWritten
        <4>3. req[v].rows \cap req[w].rows = {}
          BY DEF LeaseInv, LocksExclusive
        <4> QED
          BY <3>2, <4>1, <4>2, <4>3
      <3> QED
        BY <1>2, <3>1, <3>2 DEF LeaseSound
    <2>3. /\ req[v].evicts \/ req[v].pc = "evict" => lease' \in req[v].over
          /\ serialized /\ req[v].evicts => lease' \in req[v].rows
      BY <1>2, <1>4 DEF LeaseSound, WorkSound
    <2> QED
      BY <1>1, <1>2, <1>3, <2>1, <2>2, <2>3 DEF LeaseSound
  <1>10. Ahead(req[v])'
    <2> SUFFICES ASSUME req[v].pc = "grant", NEW j \in Rows, j < req[v].row
                 PROVE  /\ row'[j].status = "queued" => j \in req[v].doomed \cup req[v].late
                        /\ j \notin Inserted'
      BY <1>1 DEF Ahead
    <2>1. /\ row[j].status = "queued" => j \in req[v].doomed \cup req[v].late
          /\ j \notin Inserted
      BY <1>2 DEF Ahead
    <2>2. row[j].status = "unborn" => j # req[w].row
      BY <2>1 DEF Inserted, InStatus
    <2>3. row'[j].status = "queued" => row[j].status = "queued"
      BY <1>3, <2>2 DEF RowsWritten, QueueRow
    <2>4. row'[j].status = "unborn" => row[j].status = "unborn"
      BY <1>3, <1>7
    <2>5. ASSUME NEW u \in Workers, j = req'[u].row, row'[j].status = "unborn"
          PROVE  FALSE
      <3>1. CASE u # w
        <4>1. req'[u] = req[u]
          BY <3>1 DEF SessionSteps, SessionMoves, LeaseInv, TypeOK
        <4> QED
          BY <2>1, <2>4, <2>5, <4>1 DEF Inserted, InStatus
      <3>2. CASE u = w
        <4>1. req'[u] = q
          BY <3>2 DEF SessionSteps, SessionMoves, LeaseInv, TypeOK
        <4>2. j # 0 /\ row[j].status = "unborn" /\ j = q.row
          BY <2>4, <2>5, <4>1, RowsAreNatural
        <4>3. j = req[w].row \/ j \in Fresh
          BY <4>2 DEF SessionSteps, SessionMoves
        <4>4. CASE j = req[w].row
          BY <2>2, <4>2, <4>4
        <4>5. CASE j \in Fresh
          <5>1. req[v].row \in Rows /\ req[v].row \in Nat /\ j \in Nat
            BY <1>2, <1>6, RowsAreNatural DEF WorkSound, Holding
          <5>2. req[v].row \in (Rows \ InStatus("unborn")) \cup Inserted
            BY <5>1 DEF Inserted
          <5>3. req[v].row < j
            BY <4>5, <5>2 DEF Fresh
          <5> QED
            BY <5>1, <5>3
        <4> QED
          BY <4>3, <4>4, <4>5
      <3> QED
        BY <3>1, <3>2
    <2> QED
      BY <2>1, <2>3, <2>5 DEF Inserted, InStatus
  <1> QED
    BY <1>1, <1>2, <1>8, <1>9, <1>10

\* With its own work in order, such a step keeps the invariant.
LEMMA SessionKeeps ==
  ASSUME LeaseInv, NEW w \in Workers, NEW q, SessionSteps(w, q),
         RowSound(q)', LeaseSound(q)', Ahead(q)'
  PROVE  LeaseInv'
  <1>1. /\ req'[w] = q /\ req' \in [Workers -> Work] /\ WorkSound(q)
        /\ \A v \in Workers \ {w} : req'[v] = req[v]
    BY DEF SessionSteps, SessionMoves, LeaseInv, TypeOK
  <1>2. /\ RowsWritten(w) /\ LeaseWritten(w) /\ DesktopsTold
        /\ UNCHANGED <<serialized, late, over>> /\ returned' \subseteq Rows
        /\ events' \in 0 .. MaxEvents
        /\ row \in [Rows -> QueueRow] /\ lease \in 0 .. MaxRows
        /\ token \in [Clients -> 0 .. MaxRows] /\ holds \in [Clients -> 0 .. MaxRows]
    BY DEF SessionSteps, LeaseInv, TypeOK
  <1>3. TypeOK'
    BY <1>1, <1>2 DEF LeaseInv, TypeOK, RowsWritten, LeaseWritten, DesktopsTold
  <1>4. SessionsSound'
    <2>1. /\ RowSound(req[w])' /\ LeaseSound(req[w])' /\ Ahead(req[w])'
          /\ WorkSound(req[w])'
      BY <1>1 DEF RowSound, LeaseSound, Ahead, WorkSound
    <2>2. \A v \in Workers : v # w =>
             /\ RowSound(req[v])' /\ LeaseSound(req[v])' /\ Ahead(req[v])'
             /\ WorkSound(req[v])'
      BY OthersUndisturbed DEF WorkSound
    <2> QED
      BY <2>1, <2>2 DEF SessionsSound
  <1>5. \A i \in Rows : row[i].status # "unborn" => row'[i].status # "unborn"
    BY <1>2 DEF RowsWritten, QueueRow, Statuses, Past
  <1>6. \A v \in Workers \ {w} : q.row = req[v].row /\ q.row # 0 =>
            row'[q.row].status # "unborn"
    <2> SUFFICES ASSUME NEW v \in Workers \ {w}, q.row = req[v].row, q.row # 0,
                        row'[q.row].status = "unborn"
                 PROVE  FALSE
      OBVIOUS
    <2>1. q.row \in Rows
      BY RowsAreNatural DEF SessionSteps, SessionMoves, Work
    <2>2. row[q.row].status = "unborn"
      BY <1>5, <2>1
    <2>3. q.row \in (Rows \ InStatus("unborn")) \cup Inserted
      BY <2>1 DEF Inserted
    <2>4. CASE q.row \in Fresh
      <3>1. q.row < q.row
        BY <2>3, <2>4 DEF Fresh
      <3> QED
        BY <2>1, <3>1, RowsAreNatural
    <2>5. CASE q.row = req[w].row
      BY <2>2, <2>5 DEF LeaseInv, LocksExclusive
    <2> QED
      BY <2>2, <2>4, <2>5 DEF SessionSteps, SessionMoves
  <1>7. LocksExclusive'
    <2> SUFFICES ASSUME NEW u \in Workers, NEW v \in Workers, u # v
                 PROVE  /\ req'[u].rows \cap req'[v].rows = {}
                        /\ ~(req'[u].lease /\ req'[v].lease)
                        /\ req'[u].row = req'[v].row /\ req'[u].row # 0 =>
                               row'[req'[u].row].status # "unborn"
      BY DEF LocksExclusive
    <2>1. CASE u = w
      BY <1>1, <1>6, <2>1 DEF SessionSteps, SessionMoves
    <2>2. CASE v = w
      BY <1>1, <1>6, <2>2 DEF SessionSteps, SessionMoves
    <2>3. CASE u # w /\ v # w
      <3>1. req'[u] = req[u] /\ req'[v] = req[v] /\ req[u] \in Work
        BY <1>1, <2>3 DEF LeaseInv, TypeOK
      <3>2. req[u].row \in Rows \cup {0}
        BY <3>1, RowsAreNatural DEF Work
      <3> QED
        BY <1>5, <3>1, <3>2 DEF LeaseInv, LocksExclusive
    <2> QED
      BY <2>1, <2>2, <2>3
  <1>8. DesktopsInformed'
    <2> SUFFICES ASSUME NEW c \in Clients
                 PROVE  /\ token'[c] # 0 => row'[token'[c]].status # "unborn"
                        /\ holds'[c] # 0 => row'[holds'[c]].status \in Past
      BY DEF DesktopsInformed
    <2>1. /\ token[c] # 0 => row[token[c]].status # "unborn"
          /\ holds[c] # 0 => row[holds[c]].status \in Past
          /\ token[c] \in Rows \cup {0} /\ holds[c] \in Rows \cup {0}
      BY <1>2, RowsAreNatural DEF LeaseInv, DesktopsInformed
    <2>2. /\ token'[c] \in {0, token[c]} \/ row'[token'[c]].status # "unborn"
          /\ holds'[c] \in {0, holds[c]} \/ row'[holds'[c]].status \in Past
      BY <1>2 DEF DesktopsTold
    <2>3. \A i \in Rows : row[i].status \in Past => row'[i].status \in Past
      BY <1>2 DEF RowsWritten
    <2> QED
      BY <1>5, <2>1, <2>2, <2>3
  <1>9. /\ lease' # 0 => row'[lease'].status \in Past
        /\ LeaseIsActive'
    <2>1. CASE lease' = lease
      <3>1. lease \in Rows \cup {0}
        BY <1>2, RowsAreNatural
      <3>2. lease # 0 => row'[lease].status \in Past
        BY <1>2, <3>1 DEF RowsWritten, LeaseInv
      <3>3. serialized' /\ lease' # 0 => row'[lease'].status = "active"
        BY <1>2, <2>1 DEF LeaseWritten
      <3> QED
        BY <2>1, <3>2, <3>3 DEF LeaseIsActive
    <2>2. CASE lease' # lease
      BY <1>2, <2>2 DEF LeaseWritten, LeaseIsActive, Past
    <2> QED
      BY <2>1, <2>2
  <1> QED
    BY <1>3, <1>4, <1>7, <1>8, <1>9 DEF LeaseInv

LEMMA EndKeeps ==
  ASSUME LeaseInv, NEW w \in Workers, req' = [req EXCEPT ![w] = Idle],
         RowsWritten(w), LeaseWritten(w), DesktopsTold,
         UNCHANGED <<serialized, late, over>>,
         returned' = returned, events' \in 0 .. MaxEvents
  PROVE  LeaseInv'
  <1>1. SessionSteps(w, Idle)
    BY IdleIsSound DEF SessionSteps, SessionMoves, LeaseInv, TypeOK
  <1>2. RowSound(Idle)' /\ LeaseSound(Idle)' /\ Ahead(Idle)'
    BY IdleIsSound DEF RowSound, LeaseSound, Ahead, Queueing
  <1> QED
    BY <1>1, <1>2, SessionKeeps

\* A step that writes nothing but the session and what desktops forget.
LEMMA MoveKeeps ==
  ASSUME LeaseInv, NEW w \in Workers, NEW q, SessionMoves(w, q),
         UNCHANGED <<serialized, row, lease, late, over, returned, events>>,
         token' \in [Clients -> 0 .. MaxRows], holds' \in [Clients -> 0 .. MaxRows],
         \A c \in Clients : token'[c] \in {0, token[c]} /\ holds'[c] \in {0, holds[c]},
         RowSound(q), LeaseSound(q), Ahead(q)'
  PROVE  LeaseInv'
  <1>1. RowsWritten(w)
    BY DEF RowsWritten, LeaseInv, TypeOK
  <1>2. LeaseWritten(w)
    BY DEF LeaseWritten, LeaseInv, LeaseIsActive, TypeOK
  <1>3. SessionSteps(w, q)
    BY <1>1, <1>2 DEF SessionSteps, DesktopsTold, LeaseInv, TypeOK
  <1>4. RowSound(q)' /\ LeaseSound(q)'
    BY DEF RowSound, LeaseSound
  <1> QED
    BY <1>3, <1>4, SessionKeeps

-----------------------------------------------------------------------------
(* What the operators of the actions give.                                   *)

LEMMA SessionFacts ==
  ASSUME LeaseInv, NEW w \in Workers
  PROVE  /\ req[w] \in Work /\ WorkSound(req[w]) /\ RowSound(req[w])
         /\ LeaseSound(req[w]) /\ Ahead(req[w])
         /\ req[w].row \in Rows \cup {0} /\ req[w].rows \subseteq Rows
         /\ req[w].doomed \subseteq Rows
         /\ row \in [Rows -> QueueRow] /\ lease \in Rows \cup {0}
         /\ \A v \in Workers \ {w} : req[w].rows \cap req[v].rows = {}
  BY RowsAreNatural DEF LeaseInv, SessionsSound, LocksExclusive, TypeOK, Work

\* Nobody else has what the statement at hand waits for.
LEMMA AtFacts ==
  ASSUME NEW w \in Workers, NEW pc, At(w, pc)
  PROVE  /\ req[w].pc = pc
         /\ \A v \in Workers \ {w} : /\ WantedRows(w) \cap req[v].rows = {}
                                     /\ WantsLease(w) => ~req[v].lease
  BY DEF At, Blockers

\* Rows that nobody else has locked move forward.
LEMMA OwnRowsWritten ==
  ASSUME LeaseInv, NEW w \in Workers, NEW S \in SUBSET Rows,
         \A v \in Workers \ {w} : S \cap req[v].rows = {},
         \A i \in S : row[i].status = "unborn" => i = req[w].row,
         row' \in [Rows -> QueueRow],
         \A i \in Rows \ S : row'[i] = row[i],
         \A i \in S : \/ row'[i].status \in Past \/ row'[i] = row[i]
                      \/ row[i].status = "unborn" /\ row'[i].status = "queued"
  PROVE  RowsWritten(w)
  <1>1. ASSUME NEW v \in Workers \ {w}, NEW i \in req[v].rows
        PROVE  row'[i] = row[i]
    <2>1. i \in Rows \ S
      BY SessionFacts
    <2> QED
      BY <2>1
  <1>2. ASSUME NEW i \in Rows
        PROVE  /\ row[i].status \in Past => row'[i].status \in Past
               /\ row[i].status = "queued" => row'[i].status # "unborn"
               /\ row[i].status = "unborn" => row'[i] = row[i] \/ i = req[w].row
               /\ row'[i].status = "queued" /\ row[i].status # "queued" =>
                     row[i].status = "unborn"
    BY DEF Past
  <1> QED
    BY <1>1, <1>2 DEF RowsWritten

LEMMA CommittedFacts ==
  ASSUME LeaseInv, NEW w \in Workers
  PROVE  /\ Committed(w) \in [Rows -> QueueRow]
         /\ \A i \in Rows \ req[w].rows : Committed(w)[i] = row[i]
         /\ \A i \in req[w].rows :
               \/ Committed(w)[i].status \in Past \/ Committed(w)[i] = row[i]
               \/ row[i].status = "unborn" /\ Committed(w)[i].status = "queued"
         /\ \A i \in req[w].rows : row[i].status = "unborn" => i = req[w].row
         /\ serialized /\ lease # 0 /\ ~req[w].evicts => Committed(w)[lease] = row[lease]
         /\ req[w].row # 0 /\ req[w].row \notin req[w].doomed =>
               Committed(w)[req[w].row].status # "unborn"
  <1>1. /\ req[w] \in Work /\ WorkSound(req[w]) /\ RowSound(req[w])
        /\ req[w].row \in Rows \cup {0} /\ req[w].doomed \subseteq req[w].rows
        /\ req[w].rows \subseteq Rows /\ row \in [Rows -> QueueRow] /\ lease \in Rows \cup {0}
    BY SessionFacts DEF WorkSound
  <1>2. \A i \in Rows : Committed(w)[i] =
           IF i \in req[w].doomed THEN [row[i] EXCEPT !.status = "expired"]
           ELSE IF i = req[w].row /\ row[i].status = "unborn"
                THEN [status |-> "queued", client |-> req[w].client] ELSE row[i]
    BY DEF Committed
  <1>3. \A i \in Rows : /\ [row[i] EXCEPT !.status = "expired"] \in QueueRow
                        /\ [row[i] EXCEPT !.status = "expired"].status = "expired"
                        /\ row[i] \in QueueRow
    BY <1>1 DEF QueueRow, Statuses
  <1>4. [status |-> "queued", client |-> req[w].client] \in QueueRow
    BY <1>1 DEF QueueRow, Statuses, Work
  <1>5. Committed(w) \in [Rows -> QueueRow]
    BY <1>3, <1>4 DEF Committed
  <1>6. req[w].row # 0 /\ row[req[w].row].status = "unborn" => req[w].row \in req[w].rows
    <2> SUFFICES ASSUME req[w].row # 0, row[req[w].row].status = "unborn"
                 PROVE  req[w].pc \in Holding
      BY <1>1 DEF WorkSound
    <2>1. req[w].pc # "idle"
      BY IdleIsSound, <1>1 DEF WorkSound
    <2> QED
      BY <1>1, <2>1 DEF WorkSound, RowSound, Work, Holding, Past
  <1>7. \A i \in Rows \ req[w].rows : Committed(w)[i] = row[i]
    BY <1>1, <1>2, <1>6, RowsAreNatural
  <1>8. \A i \in req[w].rows :
               \/ Committed(w)[i].status \in Past \/ Committed(w)[i] = row[i]
               \/ row[i].status = "unborn" /\ Committed(w)[i].status = "queued"
    <2> SUFFICES ASSUME NEW i \in req[w].rows
                 PROVE  \/ Committed(w)[i].status \in Past \/ Committed(w)[i] = row[i]
                        \/ row[i].status = "unborn" /\ Committed(w)[i].status = "queued"
      OBVIOUS
    <2>1. i \in Rows
      BY <1>1
    <2>2. CASE i \in req[w].doomed
      BY <1>2, <1>3, <2>1, <2>2 DEF Past
    <2>3. CASE i \notin req[w].doomed /\ i = req[w].row /\ row[i].status = "unborn"
      <3>1. Committed(w)[i] = [status |-> "queued", client |-> req[w].client]
        BY <1>2, <2>1, <2>3
      <3> QED
        BY <2>3, <3>1
    <2>4. CASE i \notin req[w].doomed /\ ~(i = req[w].row /\ row[i].status = "unborn")
      BY <1>2, <2>1, <2>4
    <2> QED
      BY <2>2, <2>3, <2>4
  <1>9. \A i \in req[w].rows : row[i].status = "unborn" => i = req[w].row
    BY <1>1 DEF RowSound
  <1>10. serialized /\ lease # 0 /\ ~req[w].evicts => Committed(w)[lease] = row[lease]
    <2> SUFFICES ASSUME serialized, lease # 0, ~req[w].evicts
                 PROVE  Committed(w)[lease] = row[lease]
      OBVIOUS
    <2>1. lease \in Rows /\ row[lease].status = "active"
      BY <1>1 DEF LeaseInv, LeaseIsActive
    <2>2. lease \notin req[w].doomed
      BY <1>1, <2>1 DEF RowSound
    <2> QED
      BY <1>2, <2>1, <2>2
  <1>11. req[w].row # 0 /\ req[w].row \notin req[w].doomed =>
             Committed(w)[req[w].row].status # "unborn"
    <2> SUFFICES ASSUME req[w].row # 0, req[w].row \notin req[w].doomed
                 PROVE  Committed(w)[req[w].row].status # "unborn"
      OBVIOUS
    <2>1. req[w].row \in Rows
      BY <1>1
    <2>2. CASE row[req[w].row].status = "unborn"
      <3>1. Committed(w)[req[w].row] = [status |-> "queued", client |-> req[w].client]
        BY <1>2, <2>1, <2>2
      <3> QED
        BY <3>1
    <2>3. CASE row[req[w].row].status # "unborn"
      BY <1>2, <2>1, <2>3
    <2> QED
      BY <2>2, <2>3
  <1> QED
    BY <1>5, <1>7, <1>8, <1>9, <1>10, <1>11

\* What a session commits at the end.
LEMMA CommitWritten ==
  ASSUME LeaseInv, NEW w \in Workers, row' = Committed(w)
  PROVE  RowsWritten(w)
  <1>1. /\ req[w].rows \in SUBSET Rows
        /\ \A v \in Workers \ {w} : req[w].rows \cap req[v].rows = {}
    BY SessionFacts
  <1>2. /\ row' \in [Rows -> QueueRow]
        /\ \A i \in Rows \ req[w].rows : row'[i] = row[i]
        /\ \A i \in req[w].rows : row[i].status = "unborn" => i = req[w].row
        /\ \A i \in req[w].rows :
             \/ row'[i].status \in Past \/ row'[i] = row[i]
             \/ row[i].status = "unborn" /\ row'[i].status = "queued"
    BY CommittedFacts
  <1> QED
    BY <1>1, <1>2, OwnRowsWritten

LEMMA CommitAndSet ==
  ASSUME LeaseInv, NEW w \in Workers, NEW s \in {"expired", "active"},
         req[w].row \in req[w].rows,
         row' = [Committed(w) EXCEPT ![req[w].row].status = s]
  PROVE  /\ RowsWritten(w) /\ row'[req[w].row].status = s
         /\ \A i \in Rows : i # req[w].row => row'[i] = Committed(w)[i]
  <1>1. /\ req[w].rows \in SUBSET Rows
        /\ \A v \in Workers \ {w} : req[w].rows \cap req[v].rows = {}
    BY SessionFacts
  <1>2. /\ row' \in [Rows -> QueueRow] /\ row'[req[w].row].status = s
        /\ \A i \in Rows : i # req[w].row => row'[i] = Committed(w)[i]
    BY <1>1, CommittedFacts DEF QueueRow, Statuses
  <1>3. \A i \in req[w].rows :
           \/ row'[i].status \in Past \/ row'[i] = row[i]
           \/ row[i].status = "unborn" /\ row'[i].status = "queued"
    BY <1>1, <1>2, CommittedFacts DEF Past
  <1>4. /\ \A i \in Rows \ req[w].rows : row'[i] = row[i]
        /\ \A i \in req[w].rows : row[i].status = "unborn" => i = req[w].row
    BY <1>1, <1>2, CommittedFacts
  <1>5. RowsWritten(w)
    BY <1>1, <1>2, <1>3, <1>4, OwnRowsWritten
  <1> QED
    BY <1>2, <1>5

LEMMA ReplyTells ==
  ASSUME LeaseInv, NEW w \in Workers, NEW t \in 0 .. MaxRows, NEW h \in 0 .. MaxRows,
         Reply(w, t, h), req[w].pc # "idle",
         t = 0 \/ row'[t].status # "unborn",
         h \in {0, Working(w)} \/ row'[h].status \in Past
  PROVE  DesktopsTold /\ events' \in 0 .. MaxEvents /\ req' = [req EXCEPT ![w] = Idle]
  <1>1. /\ req[w].client \in Clients
        /\ token \in [Clients -> 0 .. MaxRows] /\ holds \in [Clients -> 0 .. MaxRows]
        /\ events \in 0 .. MaxEvents /\ MaxEvents \in Nat
    BY SessionFacts, LeaseAssumption DEF WorkSound, LeaseInv, TypeOK
  <1>2. CASE /\ token' = [token EXCEPT ![req[w].client] = t]
             /\ holds' = [holds EXCEPT ![req[w].client] = h]
             /\ UNCHANGED events
    BY <1>1, <1>2 DEF DesktopsTold, Working, Reply
  <1>3. CASE Event /\ UNCHANGED <<token, holds>>
    BY <1>1, <1>3 DEF DesktopsTold, Event, Reply
  <1> QED
    BY <1>2, <1>3 DEF Reply

-----------------------------------------------------------------------------
(* Steps of a session that goes on.                                          *)

\* A row that is not in the table yet is locked by the session that inserts it.
LEMMA InsertIsLocked ==
  ASSUME LeaseInv, NEW v \in Workers, req[v].row # 0, row[req[v].row].status = "unborn"
  PROVE  req[v].row \in req[v].rows
  <1>1. req[v] \in Work /\ WorkSound(req[v]) /\ RowSound(req[v])
    BY SessionFacts
  <1>2. req[v].pc # "idle"
    BY IdleIsSound, <1>1 DEF WorkSound
  <1>3. req[v].pc \in Holding
    BY <1>1, <1>2 DEF WorkSound, RowSound, Work, Holding, Past
  <1> QED
    BY <1>1, <1>3 DEF WorkSound

LEMMA InsertedAreOthers ==
  ASSUME LeaseInv, NEW i \in Inserted
  PROVE  i \in Rows /\ row[i].status = "unborn" /\ \E v \in Workers : i = req[v].row /\ i \in req[v].rows
  <1>1. PICK v \in Workers : i = req[v].row
    BY DEF Inserted
  <1>2. i \in Rows /\ row[i].status = "unborn"
    BY DEF Inserted, InStatus
  <1>3. i \in req[v].rows
    BY <1>1, <1>2, InsertIsLocked, RowsAreNatural
  <1> QED
    BY <1>1, <1>2, <1>3

LEMMA WantedAreRows ==
  ASSUME LeaseInv, NEW w \in Workers
  PROVE  WantedRows(w) \subseteq Rows
  <1>1. req[w].pc \in {"cancel", "completed"} => req[w].row \in Rows
    BY SessionFacts DEF WorkSound
  <1>2. ScannedRows(w) \subseteq Rows
    BY <1>1 DEF ScannedRows, PastDeadline, Superseded, InStatus, Inserted
  <1> QED
    BY <1>2 DEF WantedRows

\* A statement that locks what it waited for.
LEMMA StatementMoves ==
  ASSUME LeaseInv, NEW w \in Workers, NEW pc, At(w, pc), NEW q \in Work,
         req' = [req EXCEPT ![w] = q], WorkSound(q),
         q.rows \subseteq req[w].rows \cup WantedRows(w), q.row = req[w].row,
         q.lease => req[w].lease \/ WantsLease(w)
  PROVE  SessionMoves(w, q)
  <1>1. \A v \in Workers \ {w} :
            /\ WantedRows(w) \cap req[v].rows = {} /\ (WantsLease(w) => ~req[v].lease)
            /\ req[w].rows \cap req[v].rows = {} /\ ~(req[w].lease /\ req[v].lease)
    BY AtFacts DEF LeaseInv, LocksExclusive
  <1> QED
    BY <1>1 DEF SessionMoves

LEMMA ExpireKeeps ==
  ASSUME LeaseInv, NEW w \in Workers, Expire(w)
  PROVE  LeaseInv'
  <1>1. /\ req[w] \in Work /\ WorkSound(req[w]) /\ RowSound(req[w]) /\ LeaseSound(req[w])
        /\ req[w].pc = "expire" /\ WantedRows(w) \subseteq Rows /\ req \in [Workers -> Work]
    BY SessionFacts, WantedAreRows DEF Expire, At, LeaseInv, TypeOK
  <1>2. WantedRows(w) = PastDeadline(w)
    BY <1>1 DEF WantedRows, ScannedRows
  <1>3. PICK q : q = [req[w] EXCEPT !.pc = "own", !.doomed = PastDeadline(w),
                                    !.rows = @ \cup WantedRows(w)]
    OBVIOUS
  <1>4. /\ q.pc = "own" /\ q.doomed = PastDeadline(w) /\ q.rows = req[w].rows \cup WantedRows(w)
        /\ q.client = req[w].client /\ q.row = req[w].row /\ q.late = req[w].late
        /\ q.over = req[w].over /\ q.lease = req[w].lease /\ q.evicts = req[w].evicts
        /\ q \in Work
    BY <1>1, <1>2, <1>3 DEF Work
  <1>5. req' = [req EXCEPT ![w] = q]
    BY <1>1, <1>3 DEF Expire, Step, Work
  <1>6. WorkSound(q)
    BY <1>1, <1>2, <1>4 DEF WorkSound, Holding
  <1>7. SessionMoves(w, q)
    BY <1>4, <1>5, <1>6, StatementMoves DEF Expire
  <1>8. \A i \in PastDeadline(w) : row[i].status = "queued"
    BY DEF PastDeadline, InStatus
  <1>9. RowSound(q)
    BY <1>1, <1>2, <1>4, <1>8 DEF RowSound, WorkSound, Queueing
  <1>10. LeaseSound(q) /\ Ahead(q)'
    BY <1>1, <1>4 DEF LeaseSound, Ahead, WorkSound
  <1> QED
    BY <1>7, <1>9, <1>10, MoveKeeps DEF Expire, LeaseInv, TypeOK

LEMMA SupersedeKeeps ==
  ASSUME LeaseInv, NEW w \in Workers, Supersede(w)
  PROVE  LeaseInv'
  <1>1. /\ req[w] \in Work /\ WorkSound(req[w]) /\ RowSound(req[w]) /\ LeaseSound(req[w])
        /\ req[w].pc = "own" /\ req[w].row = 0
        /\ WantedRows(w) \subseteq Rows /\ req \in [Workers -> Work]
    BY SessionFacts, WantedAreRows DEF Supersede, At, LeaseInv, TypeOK
  <1>2. WantedRows(w) = Superseded(w)
    BY <1>1, RowsAreNatural DEF WantedRows, ScannedRows
  <1>a. PICK D \in SUBSET Rows : D = req[w].doomed \cup Superseded(w)
    BY <1>1, <1>2, SessionFacts
  <1>b. PICK R \in SUBSET Rows : R = req[w].rows \cup WantedRows(w)
    BY <1>1, SessionFacts
  <1>3. PICK q : q = [req[w] EXCEPT !.pc = "insert", !.doomed = D, !.rows = R]
    OBVIOUS
  <1>4. /\ q.pc = "insert" /\ q.doomed = req[w].doomed \cup Superseded(w)
        /\ q.rows = req[w].rows \cup WantedRows(w)
        /\ q.client = req[w].client /\ q.row = req[w].row /\ q.late = req[w].late
        /\ q.over = req[w].over /\ q.lease = req[w].lease /\ q.evicts = req[w].evicts
        /\ q \in Work
    BY <1>1, <1>a, <1>b, <1>3 DEF Work
  <1>5. req' = [req EXCEPT ![w] = q]
    <2>1. q = [[req[w] EXCEPT !.pc = "insert", !.doomed = @ \cup Superseded(w)]
                  EXCEPT !.rows = @ \cup WantedRows(w)]
      BY <1>1, <1>a, <1>b, <1>3 DEF Work
    <2> QED
      BY <2>1 DEF Supersede, Step
  <1>6. WorkSound(q)
    BY <1>1, <1>2, <1>4 DEF WorkSound, Holding
  <1>7. SessionMoves(w, q)
    BY <1>4, <1>5, <1>6, StatementMoves DEF Supersede
  <1>8. \A i \in Superseded(w) : row[i].status = "queued"
    BY DEF Superseded, InStatus
  <1>9. RowSound(q)
    BY <1>1, <1>2, <1>4, <1>8 DEF RowSound, WorkSound, Queueing
  <1>10. LeaseSound(q) /\ Ahead(q)'
    BY <1>1, <1>4 DEF LeaseSound, Ahead, WorkSound
  <1> QED
    BY <1>7, <1>9, <1>10, MoveKeeps DEF Supersede, LeaseInv, TypeOK

LEMMA LockOwnKeeps ==
  ASSUME LeaseInv, NEW w \in Workers, LockOwn(w)
  PROVE  LeaseInv'
  <1>1. /\ req[w] \in Work /\ WorkSound(req[w]) /\ RowSound(req[w]) /\ LeaseSound(req[w])
        /\ req[w].pc = "own" /\ req[w].row \in Rows /\ req[w].row \notin req[w].doomed
        /\ WantedRows(w) \subseteq Rows /\ req \in [Workers -> Work]
    BY SessionFacts, WantedAreRows DEF LockOwn, At, LeaseInv, TypeOK
  <1>2. WantedRows(w) = {req[w].row}
    BY <1>1, RowsAreNatural DEF WantedRows, ScannedRows
  <1>3. PICK s \in {"poll", "lease"} :
           /\ s = "poll" => row[req[w].row].status = "active"
           /\ s = "lease" => row[req[w].row].status = "queued"
           /\ Step(w, [req[w] EXCEPT !.pc = s])
    BY DEF LockOwn
  <1>4. PICK q : q = [req[w] EXCEPT !.pc = s, !.rows = @ \cup WantedRows(w)]
    OBVIOUS
  <1>5. /\ q.pc = s /\ q.doomed = req[w].doomed
        /\ q.rows = req[w].rows \cup WantedRows(w)
        /\ q.client = req[w].client /\ q.row = req[w].row /\ q.late = req[w].late
        /\ q.over = req[w].over /\ q.lease = req[w].lease /\ q.evicts = req[w].evicts
        /\ q \in Work
    BY <1>1, <1>2, <1>4 DEF Work
  <1>6. req' = [req EXCEPT ![w] = q]
    BY <1>1, <1>3, <1>4 DEF Step, Work
  <1>7. WorkSound(q)
    BY <1>1, <1>2, <1>5, RowsAreNatural DEF WorkSound, Holding
  <1>8. SessionMoves(w, q)
    BY <1>5, <1>6, <1>7, StatementMoves DEF LockOwn
  <1>9. RowSound(q)
    BY <1>1, <1>2, <1>3, <1>5 DEF RowSound, WorkSound, Queueing
  <1>10. LeaseSound(q) /\ Ahead(q)'
    BY <1>1, <1>5 DEF LeaseSound, Ahead, WorkSound
  <1> QED
    BY <1>8, <1>9, <1>10, MoveKeeps DEF LockOwn, LeaseInv, TypeOK

LEMMA InsertKeeps ==
  ASSUME LeaseInv, NEW w \in Workers, Insert(w)
  PROVE  LeaseInv'
  <1>1. /\ req[w] \in Work /\ WorkSound(req[w]) /\ RowSound(req[w]) /\ LeaseSound(req[w])
        /\ req[w].pc = "insert" /\ req[w].row = 0 /\ req \in [Workers -> Work]
        /\ \A v \in Workers \ {w} : req[w].rows \cap req[v].rows = {}
    BY SessionFacts DEF Insert, At, LeaseInv, TypeOK, WorkSound
  <1>2. PICK m : m = Min(Fresh)
    OBVIOUS
  <1>3. m \in Fresh /\ m \in Rows /\ row[m].status = "unborn"
    <2>1. Fresh \in SUBSET Nat /\ Fresh # {}
      BY RowsAreNatural DEF Insert, Fresh, InStatus
    <2>2. m \in Fresh
      BY <1>2, <2>1, MinIsSmallest
    <2> QED
      BY <2>2 DEF Fresh, InStatus
  <1>4. PICK q : q = [req[w] EXCEPT !.pc = "lease", !.row = m, !.rows = @ \cup {m}]
    OBVIOUS
  <1>5. /\ q.pc = "lease" /\ q.doomed = req[w].doomed /\ q.rows = req[w].rows \cup {m}
        /\ q.client = req[w].client /\ q.row = m /\ q.late = req[w].late
        /\ q.over = req[w].over /\ q.lease = req[w].lease /\ q.evicts = req[w].evicts
        /\ q \in Work
    BY <1>1, <1>3, <1>4, RowsAreNatural DEF Work
  <1>6. req' = [req EXCEPT ![w] = q]
    BY <1>1, <1>2, <1>4 DEF Insert, Work
  <1>7. m \notin req[w].doomed
    BY <1>1, <1>3 DEF RowSound, WorkSound
  <1>8. WorkSound(q)
    BY <1>1, <1>3, <1>5, <1>7, RowsAreNatural DEF WorkSound, Holding
  <1>9. ASSUME NEW v \in Workers \ {w}
        PROVE  m \notin req[v].rows
    <2> SUFFICES ASSUME m \in req[v].rows PROVE FALSE
      OBVIOUS
    <2>1. m = req[v].row
      BY <1>3, SessionFacts DEF RowSound
    <2>2. m \in Inserted
      BY <1>3, <2>1 DEF Inserted, InStatus
    <2>3. m < m
      BY <1>3, <2>2 DEF Fresh
    <2> QED
      BY <1>3, <2>3, RowsAreNatural
  <1>10. SessionMoves(w, q)
    BY <1>1, <1>3, <1>5, <1>6, <1>8, <1>9 DEF SessionMoves, LeaseInv, LocksExclusive
  <1>11. \A i \in req[w].rows : row[i].status # "unborn"
    BY <1>1, SessionFacts, RowsAreNatural DEF RowSound
  <1>12. RowSound(q)
    BY <1>1, <1>3, <1>5, <1>11 DEF RowSound, WorkSound, Queueing
  <1>13. LeaseSound(q) /\ Ahead(q)'
    BY <1>1, <1>5 DEF LeaseSound, Ahead, WorkSound
  <1> QED
    BY <1>10, <1>12, <1>13, MoveKeeps DEF Insert, LeaseInv, TypeOK

LEMMA PollGoesOn ==
  ASSUME LeaseInv, NEW w \in Workers, Poll(w), lease = req[w].row
  PROVE  LeaseInv'
  <1>1. /\ req[w] \in Work /\ WorkSound(req[w]) /\ RowSound(req[w]) /\ LeaseSound(req[w])
        /\ req[w].pc = "poll" /\ req[w].row \in Rows /\ req \in [Workers -> Work]
    BY SessionFacts DEF Poll, At, LeaseInv, TypeOK, WorkSound, Holding
  <1>2. PICK s \in {"drop", "allow"} :
           s = IF req[w].row \in req[w].over THEN "drop" ELSE "allow"
    OBVIOUS
  <1>3. PICK q : q = [req[w] EXCEPT !.pc = s]
    OBVIOUS
  <1>4. /\ q.pc = s /\ q.doomed = req[w].doomed /\ q.rows = req[w].rows
        /\ q.client = req[w].client /\ q.row = req[w].row /\ q.late = req[w].late
        /\ q.over = req[w].over
        /\ q.lease = req[w].lease /\ q.evicts = req[w].evicts /\ q \in Work
    BY <1>1, <1>3 DEF Work
  <1>5. /\ req' = [req EXCEPT ![w] = q]
        /\ UNCHANGED <<serialized, row, lease, late, over, token, holds, returned, events>>
    BY <1>1, <1>2, <1>3 DEF Poll
  <1>6. WorkSound(q)
    BY <1>1, <1>2, <1>4 DEF WorkSound, Holding
  <1>7. SessionMoves(w, q)
    BY <1>4, <1>5, <1>6, StatementMoves DEF Poll
  <1>8. RowSound(q)
    BY <1>1, <1>2, <1>4 DEF RowSound, WorkSound, Queueing
  <1>9. LeaseSound(q) /\ Ahead(q)'
    BY <1>1, <1>4 DEF LeaseSound, Ahead, WorkSound
  <1> QED
    BY <1>5, <1>7, <1>8, <1>9, MoveKeeps DEF LeaseInv, TypeOK

LEMMA LockLeaseKeeps ==
  ASSUME LeaseInv, NEW w \in Workers, LockLease(w)
  PROVE  LeaseInv'
  <1>1. /\ req[w] \in Work /\ WorkSound(req[w]) /\ RowSound(req[w]) /\ LeaseSound(req[w])
        /\ req[w].pc = "lease" /\ WantedRows(w) = {} /\ WantsLease(w)
        /\ req \in [Workers -> Work]
    BY SessionFacts DEF LockLease, At, LeaseInv, TypeOK, WantedRows, ScannedRows, WantsLease
  <1>2. PICK s \in {"evict", "head"} :
           s = IF lease \in req[w].over THEN "evict" ELSE "head"
    OBVIOUS
  <1>3. PICK l \in BOOLEAN : l = (lease # 0)
    OBVIOUS
  <1>4. PICK t \in BOOLEAN : t = (lease # 0 /\ lease \notin req[w].over)
    OBVIOUS
  <1>5. PICK q : q = [req[w] EXCEPT !.pc = s, !.lease = l, !.taken = t]
    OBVIOUS
  <1>6. /\ q.pc = s /\ q.doomed = req[w].doomed /\ q.rows = req[w].rows
        /\ q.client = req[w].client /\ q.row = req[w].row /\ q.late = req[w].late
        /\ q.over = req[w].over
        /\ q.lease = l /\ q.evicts = req[w].evicts /\ q \in Work
    BY <1>1, <1>5 DEF Work
  <1>7. req' = [req EXCEPT ![w] = q]
    <2>1. q = [[req[w] EXCEPT !.pc = s, !.lease = l, !.taken = t]
                  EXCEPT !.rows = @ \cup WantedRows(w)]
      BY <1>1, <1>5 DEF Work
    <2>2. req' = [req EXCEPT ![w] = [[req[w] EXCEPT
                     !.pc = IF lease \in req[w].over THEN "evict" ELSE "head",
                     !.lease = lease # 0,
                     !.taken = lease # 0 /\ lease \notin req[w].over]
                  EXCEPT !.rows = @ \cup WantedRows(w)]]
      BY DEF LockLease, Step
    <2>3. s = (IF lease \in req[w].over THEN "evict" ELSE "head")
      BY <1>2
    <2> QED
      BY <1>3, <1>4, <2>1, <2>2, <2>3, Zenon
  <1>8. s = "evict" => lease \in over /\ l
    BY <1>1, <1>2, <1>3, RowsAreNatural DEF Work, LeaseSound
  <1>9. WorkSound(q)
    BY <1>1, <1>6, <1>8 DEF WorkSound, Holding
  <1>10. SessionMoves(w, q)
    BY <1>1, <1>6, <1>7, <1>9, StatementMoves DEF LockLease
  <1>11. RowSound(q)
    BY <1>1, <1>6 DEF RowSound, WorkSound, Queueing
  <1>12. LeaseSound(q) /\ Ahead(q)'
    BY <1>1, <1>2, <1>6, <1>8 DEF LeaseSound, Ahead, WorkSound
  <1> QED
    BY <1>10, <1>11, <1>12, MoveKeeps DEF LockLease, LeaseInv, TypeOK

LEMMA EvictKeeps ==
  ASSUME LeaseInv, NEW w \in Workers, Evict(w)
  PROVE  LeaseInv'
  <1>1. /\ req[w] \in Work /\ WorkSound(req[w]) /\ RowSound(req[w]) /\ LeaseSound(req[w])
        /\ req[w].pc = "evict" /\ WantedRows(w) \subseteq Rows
        /\ req \in [Workers -> Work] /\ req[w].rows \subseteq Rows
        /\ req[w].doomed \subseteq Rows /\ lease \in Rows
    BY SessionFacts, WantedAreRows, RowsAreNatural
       DEF Evict, At, LeaseInv, TypeOK, LeaseSound, Work
  <1>2. WantedRows(w) = {lease} \cap InStatus("active")
    BY <1>1 DEF WantedRows, ScannedRows
  <1>3. PICK D \in SUBSET Rows : D = req[w].doomed \cup WantedRows(w)
    BY <1>1
  <1>4. PICK R \in SUBSET Rows : R = req[w].rows \cup WantedRows(w)
    BY <1>1
  <1>5. PICK q : q = [req[w] EXCEPT !.pc = "head", !.evicts = TRUE, !.doomed = D, !.rows = R]
    OBVIOUS
  <1>6. /\ q.pc = "head" /\ q.doomed = D /\ q.rows = R
        /\ q.client = req[w].client /\ q.row = req[w].row /\ q.late = req[w].late
        /\ q.over = req[w].over
        /\ q.lease = req[w].lease /\ q.evicts = TRUE /\ q \in Work
    BY <1>1, <1>5 DEF Work
  <1>7. req' = [req EXCEPT ![w] = q]
    <2>1. q = [[req[w] EXCEPT !.pc = "head", !.evicts = TRUE, !.doomed = @ \cup WantedRows(w)]
                  EXCEPT !.rows = @ \cup WantedRows(w)]
      BY <1>1, <1>3, <1>4, <1>5 DEF Work
    <2> QED
      BY <2>1 DEF Evict, Step
  <1>8. \A i \in WantedRows(w) : i = lease /\ row[i].status = "active"
    BY <1>2 DEF InStatus
  <1>9. req[w].row \notin WantedRows(w)
    BY <1>1, <1>8 DEF RowSound, Queueing
  <1>10. WorkSound(q)
    BY <1>1, <1>3, <1>4, <1>6, <1>9 DEF WorkSound, Holding
  <1>11. SessionMoves(w, q)
    BY <1>1, <1>4, <1>6, <1>7, <1>10, StatementMoves DEF Evict
  <1>12. RowSound(q)
    BY <1>1, <1>3, <1>4, <1>6, <1>8 DEF RowSound, WorkSound, Queueing
  <1>13. serialized => lease \in WantedRows(w)
    BY <1>1, <1>2, RowsAreNatural DEF LeaseInv, LeaseIsActive, InStatus
  <1>14. LeaseSound(q) /\ Ahead(q)'
    BY <1>1, <1>4, <1>6, <1>13 DEF LeaseSound, Ahead, WorkSound
  <1> QED
    BY <1>11, <1>12, <1>14, MoveKeeps DEF Evict, LeaseInv, TypeOK

\* The ordered scan shows that nobody is before the request, and its row locks
\* keep the inserts of others from being.
LEMMA FirstKeeps ==
  ASSUME LeaseInv, NEW w \in Workers, First(w)
  PROVE  LeaseInv'
  <1>1. /\ req[w] \in Work /\ WorkSound(req[w]) /\ RowSound(req[w]) /\ LeaseSound(req[w])
        /\ req[w].pc = "head" /\ WantedRows(w) \subseteq Rows /\ req[w].row \in Rows
        /\ req \in [Workers -> Work] /\ req[w].rows \subseteq Rows
        /\ HeadOf(w) = req[w].row
    BY SessionFacts, WantedAreRows DEF First, At, LeaseInv, TypeOK, WorkSound, Holding
  <1>2. WantedRows(w) = {i \in InStatus("queued") \cup Inserted : i <= req[w].row}
    BY <1>1 DEF WantedRows, ScannedRows
  <1>3. PICK R \in SUBSET Rows : R = req[w].rows \cup WantedRows(w)
    BY <1>1
  <1>4. PICK q : q = [req[w] EXCEPT !.pc = "grant", !.rows = R]
    OBVIOUS
  <1>5. /\ q.pc = "grant" /\ q.doomed = req[w].doomed /\ q.rows = R
        /\ q.client = req[w].client /\ q.row = req[w].row /\ q.late = req[w].late
        /\ q.over = req[w].over
        /\ q.lease = req[w].lease /\ q.evicts = req[w].evicts /\ q \in Work
    BY <1>1, <1>4 DEF Work
  <1>6. req' = [req EXCEPT ![w] = q]
    <2>1. q = [[req[w] EXCEPT !.pc = "grant"] EXCEPT !.rows = @ \cup WantedRows(w)]
      BY <1>1, <1>3, <1>4 DEF Work
    <2> QED
      BY <2>1 DEF First, Step
  <1>7. WorkSound(q)
    BY <1>1, <1>3, <1>5 DEF WorkSound, Holding
  <1>8. SessionMoves(w, q)
    BY <1>1, <1>3, <1>5, <1>6, <1>7, StatementMoves DEF First
  <1>9. \A j \in Inserted : j <= req[w].row => j = req[w].row
    <2> SUFFICES ASSUME NEW j \in Inserted, j <= req[w].row, j # req[w].row
                 PROVE  FALSE
      OBVIOUS
    <2>1. PICK v \in Workers : j = req[v].row /\ j \in req[v].rows
      BY InsertedAreOthers
    <2>2. v \in Workers \ {w} /\ j \in WantedRows(w)
      BY <1>2, <2>1
    <2> QED
      BY <2>1, <2>2, AtFacts DEF First
  <1>10. \A j \in Rows : j < req[w].row /\ row[j].status = "queued" =>
             j \in req[w].doomed \cup req[w].late
    <2> SUFFICES ASSUME NEW j \in Rows, j < req[w].row, row[j].status = "queued",
                        j \notin req[w].doomed \cup req[w].late
                 PROVE  FALSE
      OBVIOUS
    <2> DEFINE T == (InStatus("queued") \ (req[w].doomed \cup req[w].late)) \cup {req[w].row}
    <2>1. T \in SUBSET Nat /\ T # {} /\ j \in T
      BY <1>1, RowsAreNatural DEF InStatus
    <2>2. PICK H \in SUBSET Nat : H = T
      BY <2>1
    <2>3. \A n \in H : Min(H) <= n
      BY <2>1, <2>2, MinIsSmallest
    <2>4. Min(H) = req[w].row
      BY <1>1, <2>2 DEF HeadOf
    <2>5. req[w].row <= j
      BY <2>1, <2>2, <2>3, <2>4
    <2> QED
      BY <1>1, <2>5, RowsAreNatural
  <1>11. \A i \in WantedRows(w) : row[i].status = "unborn" => i = req[w].row
    BY <1>2, <1>9 DEF InStatus
  <1>12. RowSound(q)
    BY <1>1, <1>3, <1>5, <1>11 DEF RowSound, WorkSound, Queueing
  <1>13. LeaseSound(q)
    BY <1>1, <1>3, <1>5 DEF LeaseSound, WorkSound
  <1>14. Inserted' = Inserted
    <2>1. \A v \in Workers : req'[v].row = req[v].row
      BY <1>1, <1>5, <1>6
    <2>2. row' = row
      BY DEF First
    <2> QED
      BY <2>1, <2>2 DEF Inserted, InStatus
  <1>15. Ahead(q)'
    <2>1. row' = row
      BY DEF First
    <2>2. \A j \in Rows : j < req[w].row => j \notin Inserted
      BY <1>1, <1>9, RowsAreNatural
    <2> QED
      BY <1>5, <1>10, <1>14, <2>1, <2>2 DEF Ahead
  <1> QED
    BY <1>8, <1>12, <1>13, <1>15, MoveKeeps DEF First, LeaseInv, TypeOK

LEMMA AskKeeps ==
  ASSUME LeaseInv, NEW w \in Workers, NEW c \in Clients,
         Ask(w, c) \/ AskCancel(w, c) \/ AskRelease(w, c) \/ AskDirect(w, c)
  PROVE  LeaseInv'
  <1>1. /\ req[w].pc = "idle" /\ req[w] = Idle /\ req \in [Workers -> Work]
        /\ token \in [Clients -> 0 .. MaxRows] /\ holds \in [Clients -> 0 .. MaxRows]
        /\ token[c] \in Rows \cup {0} /\ holds[c] \in Rows \cup {0}
        /\ late \subseteq Rows /\ over \subseteq Rows
    BY SessionFacts, RowsAreNatural
       DEF Ask, AskCancel, AskRelease, AskDirect, LeaseInv, TypeOK, WorkSound
  <1>2. /\ token[c] # 0 => row[token[c]].status # "unborn"
        /\ holds[c] # 0 => row[holds[c]].status \in Past
    BY DEF LeaseInv, DesktopsInformed
  <1>3. UNCHANGED <<serialized, row, lease, late, over, returned, events>>
    BY DEF Ask, AskCancel, AskRelease, AskDirect
  <1>4. /\ token' \in [Clients -> 0 .. MaxRows] /\ holds' \in [Clients -> 0 .. MaxRows]
        /\ \A d \in Clients : token'[d] \in {0, token[d]} /\ holds'[d] \in {0, holds[d]}
    BY <1>1, RowsAreNatural DEF Ask, AskCancel, AskRelease, AskDirect
  <1>5. ASSUME NEW q \in Work, req' = [req EXCEPT ![w] = q],
               q.client = c, q.row \in Rows \cup {0}, q.late \subseteq late, q.over \subseteq over,
               q.rows = {}, q.doomed = {}, ~q.lease, ~q.evicts,
               q.pc \in {"expire", "cancel", "release", "clear"},
               q.pc \in {"cancel", "release"} => q.row # 0,
               q.pc = "clear" => q.row = 0 /\ ~serialized,
               q.pc \in {"expire", "cancel"} /\ q.row # 0 => row[q.row].status # "unborn",
               q.pc = "release" => row[q.row].status \in Past
        PROVE  LeaseInv'
    <2>1. WorkSound(q)
      BY <1>5 DEF WorkSound, Holding
    <2>2. SessionMoves(w, q)
      BY <1>1, <1>5, <2>1 DEF SessionMoves, Past
    <2>3. RowSound(q) /\ LeaseSound(q) /\ Ahead(q)'
      BY <1>5 DEF RowSound, LeaseSound, Ahead, Queueing
    <2> QED
      BY <1>3, <1>4, <2>2, <2>3, MoveKeeps
  <1>6. CASE Ask(w, c)
    <2>1. PICK q : q = [Idle EXCEPT !.pc = "expire", !.client = c, !.row = token[c],
                               !.late = late, !.over = over]
      OBVIOUS
    <2>2. /\ q.pc = "expire" /\ q.client = c /\ q.row = token[c] /\ q.late = late /\ q.over = over
          /\ q.rows = {} /\ q.doomed = {} /\ ~q.lease /\ ~q.evicts /\ q \in Work
      BY <1>1, <2>1, RowsAreNatural DEF Idle, Work
    <2>3. req' = [req EXCEPT ![w] = q]
      BY <1>6, <2>1 DEF Ask
    <2> QED
      BY <1>1, <1>2, <1>5, <1>6, <2>2, <2>3
  <1>7. CASE AskCancel(w, c)
    <2>1. PICK q : q = [Idle EXCEPT !.pc = "cancel", !.client = c, !.row = token[c]]
      OBVIOUS
    <2>2. /\ q.pc = "cancel" /\ q.client = c /\ q.row = token[c] /\ q.late = {} /\ q.over = {}
          /\ q.rows = {} /\ q.doomed = {} /\ ~q.lease /\ ~q.evicts /\ q \in Work
      BY <1>1, <2>1, RowsAreNatural DEF Idle, Work
    <2>3. req' = [req EXCEPT ![w] = q]
      BY <1>7, <2>1 DEF AskCancel
    <2>4. token[c] # 0
      BY <1>7 DEF AskCancel
    <2> QED
      BY <1>1, <1>2, <1>5, <1>7, <2>2, <2>3, <2>4
  <1>8. CASE AskRelease(w, c) /\ serialized
    <2>1. PICK q : q = [Idle EXCEPT !.pc = "release", !.client = c, !.row = holds[c]]
      OBVIOUS
    <2>2. /\ q.pc = "release" /\ q.client = c /\ q.row = holds[c] /\ q.late = {} /\ q.over = {}
          /\ q.rows = {} /\ q.doomed = {} /\ ~q.lease /\ ~q.evicts /\ q \in Work
      BY <1>1, <2>1, RowsAreNatural DEF Idle, Work
    <2>3. req' = [req EXCEPT ![w] = q]
      BY <1>8, <2>1 DEF AskRelease
    <2>4. holds[c] # 0
      BY <1>8 DEF AskRelease
    <2> QED
      BY <1>1, <1>2, <1>5, <1>8, <2>2, <2>3, <2>4
  <1>9. CASE AskRelease(w, c) /\ ~serialized
    <2>1. req' = [req EXCEPT ![w] = Idle]
      BY <1>1, <1>9 DEF AskRelease
    <2>2. SessionMoves(w, Idle)
      BY <2>1, IdleIsSound DEF SessionMoves
    <2>3. RowSound(Idle) /\ LeaseSound(Idle) /\ Ahead(Idle)'
      BY IdleIsSound DEF RowSound, LeaseSound, Ahead, Queueing
    <2> QED
      BY <1>3, <1>4, <2>2, <2>3, MoveKeeps
  <1>10. CASE AskDirect(w, c)
    <2>1. PICK q : q = [Idle EXCEPT !.pc = "clear", !.client = c]
      OBVIOUS
    <2>2. /\ q.pc = "clear" /\ q.client = c /\ q.row = 0 /\ q.late = {} /\ q.over = {}
          /\ q.rows = {} /\ q.doomed = {} /\ ~q.lease /\ ~q.evicts /\ q \in Work
      BY <1>1, <2>1, RowsAreNatural DEF Idle, Work
    <2>3. req' = [req EXCEPT ![w] = q]
      BY <1>10, <2>1 DEF AskDirect
    <2>4. ~serialized
      BY <1>10 DEF AskDirect
    <2> QED
      BY <1>1, <1>2, <1>5, <1>10, <2>2, <2>3, <2>4
  <1> QED
    BY <1>6, <1>7, <1>8, <1>9, <1>10

\* Only the desktop that holds the lease ends it while it lasts.
LEMMA ReleaseWrites ==
  ASSUME LeaseInv, NEW w \in Workers, Release(w)
  PROVE  RowsWritten(w) /\ LeaseWritten(w) /\ DesktopsTold
  <1>1. /\ req[w].pc = "release" /\ req[w].row \in Rows
        /\ \A v \in Workers \ {w} : ~req[v].lease
    BY SessionFacts, AtFacts DEF Release, WorkSound, WantsLease
  <1>2. lease \in 0 .. MaxRows /\ 0 \in 0 .. MaxRows
    BY LeaseAssumption DEF LeaseInv, TypeOK
  <1>3. RowsWritten(w)
    BY DEF Release, RowsWritten, LeaseInv, TypeOK
  <1>4. LeaseWritten(w)
    BY <1>1, <1>2 DEF Release, LeaseWritten, LeaseInv, LeaseIsActive
  <1>5. DesktopsTold
    BY DEF Release, DesktopsTold, LeaseInv, TypeOK
  <1> QED
    BY <1>3, <1>4, <1>5

LEMMA ReleaseKeeps ==
  ASSUME LeaseInv, NEW w \in Workers, Release(w)
  PROVE  LeaseInv'
  <1>1. /\ req[w] \in Work /\ WorkSound(req[w]) /\ RowSound(req[w]) /\ LeaseSound(req[w])
        /\ req[w].pc = "release" /\ req[w].row \in Rows /\ req \in [Workers -> Work]
        /\ events \in 0 .. MaxEvents /\ returned \subseteq Rows
    BY SessionFacts DEF Release, At, LeaseInv, TypeOK, WorkSound
  <1>2. PICK q : q = [req[w] EXCEPT !.pc = "completed"]
    OBVIOUS
  <1>3. /\ q.pc = "completed" /\ q.doomed = req[w].doomed /\ q.rows = req[w].rows
        /\ q.client = req[w].client /\ q.row = req[w].row /\ q.late = req[w].late
        /\ q.over = req[w].over
        /\ q.lease = req[w].lease /\ q.evicts = req[w].evicts /\ q \in Work
    BY <1>1, <1>2 DEF Work
  <1>4. req' = [req EXCEPT ![w] = q]
    BY <1>2 DEF Release
  <1>5. WorkSound(q)
    BY <1>1, <1>3 DEF WorkSound, Holding
  <1>6. SessionMoves(w, q)
    BY <1>1, <1>3, <1>4, <1>5, StatementMoves DEF Release
  <1>7. SessionSteps(w, q)
    BY <1>1, <1>6, ReleaseWrites DEF Release, SessionSteps
  <1>8. /\ row' = row /\ lease' # req[w].row /\ UNCHANGED <<serialized, late, over>>
    BY <1>1, RowsAreNatural DEF Release
  <1>9. RowSound(q)'
    BY <1>1, <1>3, <1>8 DEF RowSound, WorkSound, Queueing
  <1>10. LeaseSound(q)' /\ Ahead(q)'
    BY <1>1, <1>3, <1>8 DEF LeaseSound, Ahead, WorkSound
  <1> QED
    BY <1>7, <1>9, <1>10, SessionKeeps

LEMMA ClearLeaseKeeps ==
  ASSUME LeaseInv, NEW w \in Workers, ClearLease(w)
  PROVE  LeaseInv'
  <1>1. /\ req[w] \in Work /\ WorkSound(req[w]) /\ RowSound(req[w]) /\ LeaseSound(req[w])
        /\ req[w].pc = "clear" /\ req \in [Workers -> Work]
        /\ events \in 0 .. MaxEvents /\ returned \subseteq Rows /\ ~serialized
        /\ \A v \in Workers \ {w} : ~req[v].lease
    BY SessionFacts, AtFacts
       DEF ClearLease, At, LeaseInv, TypeOK, WorkSound, LeaseSound, WantsLease
  <1>2. PICK q : q = [req[w] EXCEPT !.pc = "sweep"]
    OBVIOUS
  <1>3. /\ q.pc = "sweep" /\ q.doomed = req[w].doomed /\ q.rows = req[w].rows
        /\ q.client = req[w].client /\ q.row = req[w].row /\ q.late = req[w].late
        /\ q.over = req[w].over
        /\ q.lease = req[w].lease /\ q.evicts = req[w].evicts /\ q \in Work
    BY <1>1, <1>2 DEF Work
  <1>4. req' = [req EXCEPT ![w] = q]
    BY <1>2 DEF ClearLease
  <1>5. WorkSound(q)
    BY <1>1, <1>3 DEF WorkSound, Holding
  <1>6. SessionMoves(w, q)
    BY <1>1, <1>3, <1>4, <1>5, StatementMoves DEF ClearLease
  <1>7. RowsWritten(w) /\ DesktopsTold
    BY DEF ClearLease, RowsWritten, DesktopsTold, LeaseInv, TypeOK
  <1>8. LeaseWritten(w)
    BY <1>1, LeaseAssumption DEF ClearLease, LeaseWritten
  <1>9. SessionSteps(w, q)
    BY <1>1, <1>6, <1>7, <1>8 DEF ClearLease, SessionSteps
  <1>10. RowSound(q)'
    BY <1>1, <1>3 DEF ClearLease, RowSound, WorkSound, Queueing
  <1>11. LeaseSound(q)' /\ Ahead(q)'
    BY <1>1, <1>3 DEF ClearLease, LeaseSound, Ahead, WorkSound
  <1> QED
    BY <1>9, <1>10, <1>11, SessionKeeps

-----------------------------------------------------------------------------
(* Steps that end the work of a session.                                     *)

\* The reply and the rows aside, such a step is judged by what it does to the lease.
LEMMA CommitKeeps ==
  ASSUME LeaseInv, NEW w \in Workers, NEW t \in 0 .. MaxRows, NEW h \in 0 .. MaxRows,
         Reply(w, t, h), req[w].pc # "idle", RowsWritten(w), LeaseWritten(w),
         t = 0 \/ row'[t].status # "unborn",
         h \in {0, Working(w)} \/ row'[h].status \in Past,
         UNCHANGED <<serialized, late, over, returned>>
  PROVE  LeaseInv'
  <1>1. DesktopsTold /\ events' \in 0 .. MaxEvents /\ req' = [req EXCEPT ![w] = Idle]
    BY ReplyTells
  <1> QED
    BY <1>1, EndKeeps

LEMMA WorkingIsLease ==
  ASSUME LeaseInv, NEW w \in Workers, req[w].pc # "idle"
  PROVE  Working(w) \in 0 .. MaxRows /\ 0 \in 0 .. MaxRows
  BY SessionFacts, LeaseAssumption DEF Working, WorkSound, LeaseInv, TypeOK

LEMMA LeaseUntouched ==
  ASSUME LeaseInv, NEW w \in Workers, lease' = lease,
         serialized /\ lease # 0 => row'[lease] = row[lease]
  PROVE  LeaseWritten(w)
  BY DEF LeaseWritten, LeaseInv, LeaseIsActive, TypeOK

LEMMA GoneKeeps ==
  ASSUME LeaseInv, NEW w \in Workers, Gone(w)
  PROVE  LeaseInv'
  <1>1. /\ req[w].pc = "own" /\ ~req[w].evicts /\ row' = Committed(w) /\ lease' = lease
    BY SessionFacts DEF Gone, At, WorkSound
  <1>2. RowsWritten(w)
    BY <1>1, CommitWritten
  <1>3. LeaseWritten(w)
    BY <1>1, CommittedFacts, LeaseUntouched
  <1>4. Working(w) \in 0 .. MaxRows /\ 0 \in 0 .. MaxRows
    BY <1>1, WorkingIsLease
  <1> QED
    BY <1>1, <1>2, <1>3, <1>4, CommitKeeps DEF Gone

LEMMA PollEnds ==
  ASSUME LeaseInv, NEW w \in Workers, Poll(w), lease # req[w].row
  PROVE  LeaseInv'
  <1>1. /\ req[w].pc = "poll" /\ ~req[w].evicts /\ lease' = lease
        /\ req[w].row \in req[w].rows /\ lease \in Rows \cup {0}
        /\ row' = [Committed(w) EXCEPT ![req[w].row].status = "expired"]
        /\ Reply(w, 0, Working(w))
        /\ UNCHANGED <<serialized, late, over, returned>>
    BY SessionFacts DEF Poll, At, WorkSound, Holding
  <1>2. /\ RowsWritten(w)
        /\ \A i \in Rows : i # req[w].row => row'[i] = Committed(w)[i]
    BY <1>1, CommitAndSet
  <1>3. LeaseWritten(w)
    BY <1>1, <1>2, CommittedFacts, LeaseUntouched
  <1>4. Working(w) \in 0 .. MaxRows /\ 0 \in 0 .. MaxRows
    BY <1>1, WorkingIsLease
  <1> QED
    BY <1>1, <1>2, <1>3, <1>4, CommitKeeps

LEMMA AllowKeeps ==
  ASSUME LeaseInv, NEW w \in Workers, Allow(w)
  PROVE  LeaseInv'
  <1>1. /\ req[w].pc = "allow" /\ ~req[w].evicts /\ row' = Committed(w) /\ lease' = lease
        /\ req[w].row \in Rows /\ row[req[w].row].status = "active"
    BY SessionFacts DEF Allow, At, WorkSound, RowSound, Holding
  <1>2. RowsWritten(w)
    BY <1>1, CommitWritten
  <1>3. LeaseWritten(w)
    BY <1>1, CommittedFacts, LeaseUntouched
  <1>4. row'[req[w].row].status \in Past
    BY <1>1, <1>2 DEF RowsWritten, Past
  <1>5. req[w].row \in 0 .. MaxRows /\ 0 \in 0 .. MaxRows
    BY <1>1, WorkingIsLease, RowsAreNatural
  <1> QED
    BY <1>1, <1>2, <1>3, <1>4, <1>5, CommitKeeps DEF Allow

\* A poll ends the lease it finds over.
LEMMA DropWrites ==
  ASSUME LeaseInv, NEW w \in Workers, Drop(w)
  PROVE  RowsWritten(w) /\ LeaseWritten(w)
  <1>1. /\ req[w].pc = "drop" /\ ~req[w].evicts /\ req[w].row \in req[w].rows
        /\ lease \in Rows \cup {0} /\ lease \in 0 .. MaxRows /\ 0 \in 0 .. MaxRows
        /\ row' = [Committed(w) EXCEPT ![req[w].row].status = "expired"]
        /\ lease' = IF lease = req[w].row THEN 0 ELSE lease
        /\ req[w].row \in over
    BY SessionFacts, RowsAreNatural DEF Drop, At, WorkSound, LeaseSound, Holding
  <1>2. /\ RowsWritten(w)
        /\ \A i \in Rows : i # req[w].row => row'[i] = Committed(w)[i]
    BY <1>1, CommitAndSet
  <1>3. \A v \in Workers \ {w} : ~req[v].lease
    BY <1>1, AtFacts DEF Drop, WantsLease
  <1>4. CASE lease = req[w].row
    <2>1. lease' = 0 /\ lease # 0 /\ lease \in over /\ lease \in req[w].rows
      BY <1>1, <1>4, SessionFacts, RowsAreNatural
    <2> QED
      BY <1>1, <1>2, <1>3, <2>1 DEF LeaseWritten
  <1>5. CASE lease # req[w].row
    BY <1>1, <1>2, <1>5, CommittedFacts, LeaseUntouched
  <1> QED
    BY <1>2, <1>4, <1>5

LEMMA DropKeeps ==
  ASSUME LeaseInv, NEW w \in Workers, Drop(w)
  PROVE  LeaseInv'
  <1>1. req[w].pc # "idle"
    BY DEF Drop, At
  <1>2. Working(w) \in 0 .. MaxRows /\ 0 \in 0 .. MaxRows
    BY <1>1, WorkingIsLease
  <1> QED
    BY <1>1, <1>2, DropWrites, CommitKeeps DEF Drop

\* A session that evicts has the lease locked, and knows that it is over.
LEMMA EvictionFacts ==
  ASSUME LeaseInv, NEW w \in Workers, req[w].evicts
  PROVE  /\ lease # 0 /\ lease \in over /\ (serialized => lease \in req[w].rows)
         /\ \A v \in Workers \ {w} : ~req[v].lease
  <1>1. /\ req[w].lease /\ lease \in req[w].over /\ req[w].over \subseteq over
        /\ (serialized => lease \in req[w].rows)
    BY SessionFacts DEF WorkSound, LeaseSound
  <1>2. lease \in Rows
    BY <1>1 DEF LeaseInv, TypeOK
  <1> QED
    BY <1>1, <1>2, RowsAreNatural DEF LeaseInv, LocksExclusive

LEMMA QueuedWrites ==
  ASSUME LeaseInv, NEW w \in Workers, Queued(w)
  PROVE  RowsWritten(w) /\ LeaseWritten(w)
  <1>1. /\ row' = Committed(w) /\ lease' = IF req[w].evicts THEN 0 ELSE lease
        /\ 0 \in 0 .. MaxRows
    BY RowsAreNatural DEF Queued
  <1>2. RowsWritten(w)
    BY <1>1, CommitWritten
  <1>3. CASE req[w].evicts
    <2>1. lease' = 0
      BY <1>1, <1>3
    <2> QED
      BY <1>1, <1>2, <1>3, <2>1, EvictionFacts DEF LeaseWritten
  <1>4. CASE ~req[w].evicts
    <2>1. lease' = lease
      BY <1>1, <1>4
    <2> QED
      BY <1>1, <1>2, <1>4, <2>1, CommittedFacts, LeaseUntouched
  <1> QED
    BY <1>2, <1>3, <1>4

LEMMA QueuedKeeps ==
  ASSUME LeaseInv, NEW w \in Workers, Queued(w)
  PROVE  LeaseInv'
  <1>1. /\ req[w].pc = "head" /\ req[w].row \in Rows /\ req[w].row \notin req[w].doomed
        /\ req[w].row # 0
    BY SessionFacts DEF Queued, At, WorkSound, Holding
  <1>2. row'[req[w].row].status # "unborn"
    BY <1>1, CommittedFacts DEF Queued
  <1>3. Working(w) \in 0 .. MaxRows /\ req[w].row \in 0 .. MaxRows
    BY <1>1, WorkingIsLease, RowsAreNatural
  <1> QED
    BY <1>1, <1>2, <1>3, QueuedWrites, CommitKeeps DEF Queued

LEMMA GrantWrites ==
  ASSUME LeaseInv, NEW w \in Workers, Grant(w)
  PROVE  /\ RowsWritten(w) /\ LeaseWritten(w) /\ row'[req[w].row].status = "active"
         /\ \A i \in Rows : i # req[w].row => row'[i] = Committed(w)[i]
  <1>1. /\ req[w].pc = "grant" /\ req[w].row \in req[w].rows /\ req[w].row \in 0 .. MaxRows
        /\ row[req[w].row].status \in {"queued", "unborn"}
        /\ row' = [Committed(w) EXCEPT ![req[w].row].status = "active"]
        /\ lease' = req[w].row /\ lease \in Rows \cup {0}
        /\ lease = 0 \/ req[w].evicts
    BY SessionFacts, RowsAreNatural DEF Grant, At, WorkSound, RowSound, Holding, Queueing
  <1>2. /\ RowsWritten(w) /\ row'[req[w].row].status = "active"
        /\ \A i \in Rows : i # req[w].row => row'[i] = Committed(w)[i]
    BY <1>1, CommitAndSet
  <1>3. \A v \in Workers \ {w} : ~req[v].lease
    BY <1>1, AtFacts DEF Grant, WantsLease
  <1>4. LeaseWritten(w)
    BY <1>1, <1>2, <1>3, EvictionFacts DEF LeaseWritten
  <1> QED
    BY <1>2, <1>4

LEMMA GrantKeeps ==
  ASSUME LeaseInv, NEW w \in Workers, Grant(w)
  PROVE  LeaseInv'
  <1>1. req[w].pc # "idle" /\ req[w].row \in 0 .. MaxRows /\ 0 \in 0 .. MaxRows
    BY SessionFacts, RowsAreNatural DEF Grant, At
  <1> QED
    BY <1>1, GrantWrites, CommitKeeps DEF Grant, Past

LEMMA SessionEnds ==
  ASSUME LeaseInv, NEW w \in Workers, req' = [req EXCEPT ![w] = Idle], events' \in 0 .. MaxEvents,
         UNCHANGED <<serialized, row, lease, late, over, token, holds, returned>>
  PROVE  LeaseInv'
  <1>1. RowsWritten(w) /\ DesktopsTold
    BY DEF RowsWritten, DesktopsTold, LeaseInv, TypeOK
  <1>2. LeaseWritten(w)
    BY LeaseUntouched
  <1> QED
    BY <1>1, <1>2, EndKeeps

LEMMA CancelKeeps ==
  ASSUME LeaseInv, NEW w \in Workers, Cancel(w) \/ Complete(w)
  PROVE  LeaseInv'
  <1>1. PICK i : i = req[w].row
    OBVIOUS
  <1>2. /\ i \in Rows /\ row \in [Rows -> QueueRow] /\ lease \in Rows \cup {0}
        /\ row[i].status # "unborn"
        /\ Complete(w) => lease # i
    BY <1>1, SessionFacts DEF Cancel, Complete, At, WorkSound, RowSound, LeaseSound, Past
  <1>3. \A v \in Workers \ {w} : {i} \cap req[v].rows = {}
    BY <1>1, AtFacts DEF Cancel, Complete, At, WantedRows, ScannedRows
  <1>4. PICK s \in {"completed", "expired"} \cup {row[i].status} :
           /\ row' = [row EXCEPT ![i].status = s]
           /\ Cancel(w) /\ row[i].status # "queued" => s = row[i].status
    <2>1. CASE Cancel(w)
      <3>1. row' = [row EXCEPT ![i].status = IF row[i].status = "queued" THEN "expired"
                                                                      ELSE row[i].status]
        BY <1>1, <1>2, <2>1 DEF Cancel
      <3>2. CASE row[i].status = "queued"
        BY <3>1, <3>2
      <3>3. CASE row[i].status # "queued"
        BY <3>1, <3>3
      <3> QED
        BY <3>2, <3>3
    <2>2. CASE Complete(w) /\ ~Cancel(w)
      <3>1. row' = [row EXCEPT ![i].status = IF row[i].status = "active" THEN "completed"
                                                                      ELSE row[i].status]
        BY <1>1, <1>2, <2>2 DEF Complete
      <3>2. CASE row[i].status = "active"
        BY <2>2, <3>1, <3>2
      <3>3. CASE row[i].status # "active"
        BY <2>2, <3>1, <3>3
      <3> QED
        BY <3>2, <3>3
    <2> QED
      BY <2>1, <2>2
  <1>5. /\ row' \in [Rows -> QueueRow] /\ row'[i].status = s
        /\ \A j \in Rows \ {i} : row'[j] = row[j]
        /\ s = row[i].status => row'[i] = row[i]
    BY <1>2, <1>4 DEF QueueRow, Statuses
  <1>6. RowsWritten(w)
    <2>1. {i} \in SUBSET Rows /\ \A j \in {i} : row[j].status = "unborn" => j = req[w].row
      BY <1>1, <1>2
    <2>2. \A j \in {i} : \/ row'[j].status \in Past \/ row'[j] = row[j]
                         \/ row[j].status = "unborn" /\ row'[j].status = "queued"
      BY <1>4, <1>5 DEF Past
    <2> QED
      BY <1>3, <1>5, <2>1, <2>2, OwnRowsWritten
  <1>7. /\ req' = [req EXCEPT ![w] = Idle]
        /\ UNCHANGED <<serialized, lease, late, over, token, holds, returned, events>>
    BY DEF Cancel, Complete
  <1>8. LeaseWritten(w)
    <2>1. serialized /\ lease # 0 => row'[lease] = row[lease]
      BY <1>2, <1>4, <1>5 DEF LeaseInv, LeaseIsActive
    <2> QED
      BY <1>7, <2>1, LeaseUntouched
  <1>9. DesktopsTold /\ events' \in 0 .. MaxEvents
    BY <1>7 DEF DesktopsTold, LeaseInv, TypeOK
  <1> QED
    BY <1>6, <1>7, <1>8, <1>9, EndKeeps

LEMMA SweepKeeps ==
  ASSUME LeaseInv, NEW w \in Workers, Sweep(w)
  PROVE  LeaseInv'
  <1>1. /\ req[w].pc = "sweep" /\ row \in [Rows -> QueueRow] /\ ~serialized
        /\ lease' = lease /\ WantedRows(w) \in SUBSET Rows
    BY SessionFacts, WantedAreRows DEF Sweep, At, LeaseSound
  <1>2. WantedRows(w) = InStatus("queued") \cup InStatus("active")
    BY <1>1, SessionFacts DEF WantedRows, ScannedRows, WorkSound
  <1>3. \A i \in Rows : row'[i] = IF i \in WantedRows(w)
                                  THEN [row[i] EXCEPT !.status = "expired"] ELSE row[i]
    BY DEF Sweep
  <1>4. \A i \in Rows : /\ [row[i] EXCEPT !.status = "expired"] \in QueueRow
                        /\ [row[i] EXCEPT !.status = "expired"].status = "expired"
                        /\ row[i] \in QueueRow
    BY <1>1 DEF QueueRow, Statuses
  <1>5. row' \in [Rows -> QueueRow]
    BY <1>4 DEF Sweep
  <1>6. \A i \in WantedRows(w) : row[i].status # "unborn" /\ row'[i].status \in Past
    BY <1>1, <1>2, <1>3, <1>4 DEF InStatus, Past
  <1>7. RowsWritten(w)
    <2>1. \A v \in Workers \ {w} : WantedRows(w) \cap req[v].rows = {}
      BY AtFacts DEF Sweep
    <2>2. PICK S \in SUBSET Rows : S = WantedRows(w)
      BY <1>1
    <2>3. \A i \in Rows \ S : row'[i] = row[i]
      BY <1>3, <2>2
    <2> QED
      BY <1>5, <1>6, <2>1, <2>2, <2>3, OwnRowsWritten
  <1>8. LeaseWritten(w)
    BY <1>1, LeaseUntouched
  <1>9. Working(w) \in 0 .. MaxRows /\ 0 \in 0 .. MaxRows
    BY <1>1, WorkingIsLease
  <1> QED
    BY <1>1, <1>7, <1>8, <1>9, CommitKeeps DEF Sweep

-----------------------------------------------------------------------------
(* Desktops that forget, deadlines that pass and the setting.                *)

LEMMA TimeKeeps ==
  ASSUME LeaseInv, UNCHANGED <<row, lease, req, returned>>,
         serialized' \in BOOLEAN, serialized' => serialized,
         late \subseteq late', late' \subseteq Rows,
         over \subseteq over', over' \subseteq Rows,
         token' \in [Clients -> 0 .. MaxRows], holds' \in [Clients -> 0 .. MaxRows],
         \A c \in Clients : token'[c] \in {0, token[c]} /\ holds'[c] \in {0, holds[c]},
         events' \in 0 .. MaxEvents
  PROVE  LeaseInv'
  <1>1. TypeOK'
    BY DEF LeaseInv, TypeOK
  <1>2. ASSUME NEW v \in Workers
        PROVE  (WorkSound(req[v]) /\ RowSound(req[v]) /\ LeaseSound(req[v]) /\ Ahead(req[v]))'
    <2>1. /\ WorkSound(req[v]) /\ RowSound(req[v]) /\ LeaseSound(req[v]) /\ Ahead(req[v])
          /\ req' = req /\ row' = row /\ lease' = lease /\ returned' = returned
      BY SessionFacts
    <2>2. WorkSound(req[v])' /\ RowSound(req[v])'
      BY <2>1 DEF WorkSound, RowSound
    <2>3. LeaseSound(req[v])'
      BY <2>1 DEF LeaseSound
    <2>4. Ahead(req[v])'
      BY <2>1 DEF Ahead, Inserted, InStatus
    <2> QED
      BY <2>2, <2>3, <2>4
  <1>3. SessionsSound'
    BY <1>2 DEF SessionsSound
  <1>4. LocksExclusive'
    BY DEF LeaseInv, LocksExclusive
  <1>5. DesktopsInformed'
    BY DEF LeaseInv, DesktopsInformed
  <1>6. (lease # 0 => row[lease].status \in Past)' /\ LeaseIsActive'
    BY DEF LeaseInv, LeaseIsActive
  <1> QED
    BY <1>1, <1>3, <1>4, <1>5, <1>6 DEF LeaseInv

LEMMA LeaseStarts == Init => LeaseInv
  <1> SUFFICES ASSUME Init PROVE LeaseInv
    OBVIOUS
  <1>1. /\ \A w \in Workers : req[w] = Idle /\ req[w] \in Work
        /\ \A i \in Rows : row[i] = [status |-> "unborn", client |-> Null]
        /\ \A c \in Clients : token[c] = 0 /\ holds[c] = 0
        /\ lease = 0
    BY IdleIsSound DEF Init
  <1>2. TypeOK
    <2>1. [status |-> "unborn", client |-> Null] \in QueueRow
      BY DEF QueueRow, Statuses
    <2>2. 0 \in 0 .. MaxRows /\ 0 \in 0 .. MaxEvents
      BY LeaseAssumption
    <2>3. row \in [Rows -> QueueRow] /\ req \in [Workers -> Work]
      BY <2>1, IdleIsSound DEF Init
    <2> QED
      BY <2>2, <2>3 DEF Init, TypeOK
  <1>3. SessionsSound
    <2>1. RowSound(Idle) /\ LeaseSound(Idle) /\ Ahead(Idle)
      BY IdleIsSound DEF RowSound, LeaseSound, Ahead, Queueing
    <2> QED
      BY <1>1, <2>1, IdleIsSound DEF SessionsSound
  <1>4. LocksExclusive
    BY <1>1, IdleIsSound DEF LocksExclusive
  <1>5. DesktopsInformed
    BY <1>1 DEF DesktopsInformed
  <1> QED
    BY <1>1, <1>2, <1>3, <1>4, <1>5 DEF LeaseInv, LeaseIsActive

LEMMA LeaseKept == LeaseInv /\ [Next]_vars => LeaseInv'
  <1> SUFFICES ASSUME LeaseInv, [Next]_vars PROVE LeaseInv'
    OBVIOUS
  <1>1. /\ serialized \in BOOLEAN /\ late \subseteq Rows /\ over \subseteq Rows
        /\ token \in [Clients -> 0 .. MaxRows] /\ holds \in [Clients -> 0 .. MaxRows]
        /\ events \in 0 .. MaxEvents /\ 0 \in 0 .. MaxRows /\ lease \in Rows \cup {0}
    BY RowsAreNatural DEF LeaseInv, TypeOK
  <1>2. Event => events' \in 0 .. MaxEvents
    BY LeaseAssumption DEF Event, LeaseInv, TypeOK
  <1>3. ASSUME NEW w \in Workers, Acquire(w) PROVE LeaseInv'
    <2>1. CASE Poll(w)
      BY <2>1, PollGoesOn, PollEnds
    <2>2. CASE GrantRefused(w)
      BY <1>1, <2>2, SessionEnds DEF GrantRefused
    <2>3. CASE Expire(w) \/ LockOwn(w) \/ Supersede(w) \/ Insert(w)
      BY <2>3, ExpireKeeps, LockOwnKeeps, SupersedeKeeps, InsertKeeps
    <2>4. CASE LockLease(w) \/ Evict(w) \/ First(w)
      BY <2>4, LockLeaseKeeps, EvictKeeps, FirstKeeps
    <2>5. CASE Gone(w) \/ Allow(w) \/ Drop(w) \/ Queued(w) \/ Grant(w)
      BY <2>5, GoneKeeps, AllowKeeps, DropKeeps, QueuedKeeps, GrantKeeps
    <2> QED
      BY <1>3, <2>1, <2>2, <2>3, <2>4, <2>5 DEF Acquire
  <1>4. ASSUME NEW w \in Workers, Serve(w) \/ Crash(w) PROVE LeaseInv'
    <2>1. CASE DeadlockVictim(w)
      BY <1>1, <2>1, SessionEnds DEF DeadlockVictim
    <2>2. CASE Crash(w)
      BY <1>2, <2>2, SessionEnds DEF Crash
    <2>3. CASE Cancel(w) \/ Complete(w) \/ Release(w) \/ ClearLease(w) \/ Sweep(w)
      BY <2>3, CancelKeeps, ReleaseKeeps, ClearLeaseKeeps, SweepKeeps
    <2> QED
      BY <1>3, <1>4, <2>1, <2>2, <2>3 DEF Serve
  <1>5. ASSUME NEW w \in Workers, NEW c \in Clients,
               Ask(w, c) \/ AskCancel(w, c) \/ AskRelease(w, c) \/ AskDirect(w, c)
        PROVE  LeaseInv'
    BY <1>5, AskKeeps
  <1>6. ASSUME NEW c \in Clients, Restart(c) PROVE LeaseInv'
    BY <1>1, <1>2, <1>6, TimeKeeps DEF Restart
  <1>7. ASSUME NEW i \in Rows, QueueDeadline(i) PROVE LeaseInv'
    BY <1>1, <1>7, TimeKeeps DEF QueueDeadline
  <1>8. CASE LeaseDeadline
    BY <1>1, <1>8, TimeKeeps DEF LeaseDeadline
  <1>9. CASE SwitchOff
    BY <1>1, <1>2, <1>9, TimeKeeps DEF SwitchOff
  <1>10. CASE UNCHANGED vars
    BY <1>1, <1>10, TimeKeeps DEF vars
  <1> QED
    BY <1>4, <1>5, <1>6, <1>7, <1>8, <1>9, <1>10 DEF Next

LEMMA LeaseHolds == Spec => []LeaseInv
  BY LeaseStarts, LeaseKept, PTL DEF Spec

-----------------------------------------------------------------------------
(* Theorems.                                                                 *)

\* The tables, the sessions and the desktops keep their types, and a request
\* is only ever inserted as a new row.
THEOREM LeaseIsTyped == Spec => []TypeOK
  <1>1. LeaseInv => TypeOK
    BY DEF LeaseInv
  <1> QED
    BY <1>1, LeaseHolds, PTL

\* However many desktops queue up, whoever the lease names is active in the
\* queue, so it learns of its lease by polling and leaves the queue with it.
THEOREM LeaseNamesActive == Spec => []LeaseIsActive
  <1>1. LeaseInv => LeaseIsActive
    BY DEF LeaseInv
  <1> QED
    BY <1>1, LeaseHolds, PTL

\* While the five minutes of a lease last, only its holder ends it.
THEOREM LiveLeaseStays == Spec => LiveLeaseKept
  <1> DEFINE Kept == serialized /\ lease # 0 /\ lease' # lease
                       => lease \in over \cup returned'
  <1>1. ASSUME LeaseInv, [Next]_vars PROVE [Kept]_vars
    <2> SUFFICES ASSUME serialized, lease # 0, lease' # lease, Next
                 PROVE  lease \in over \cup returned'
      BY <1>1 DEF vars
    <2>1. PICK w \in Workers : Drop(w) \/ Queued(w) \/ Grant(w) \/ Release(w) \/ ClearLease(w)
      BY DEF Next, Serve, Acquire, Ask, AskCancel, AskRelease, AskDirect, Expire, Gone,
             LockOwn, Supersede, Insert, Poll, Allow, LockLease, Evict, First, GrantRefused,
             Cancel, Complete, Sweep, DeadlockVictim, Crash, Restart, QueueDeadline,
             LeaseDeadline, SwitchOff
    <2>2. CASE ClearLease(w)
      BY <1>1, <2>2, SessionFacts DEF ClearLease, At, LeaseSound
    <2>3. CASE ~ClearLease(w)
      <3>1. LeaseWritten(w)
        BY <1>1, <2>1, <2>3, DropWrites, QueuedWrites, GrantWrites, ReleaseWrites
      <3> QED
        BY <3>1 DEF LeaseWritten
    <2> QED
      BY <2>2, <2>3
  <1>2. Spec => [][Kept]_vars
    BY <1>1, LeaseHolds, PTL DEF Spec
  <1> QED
    BY <1>2 DEF LiveLeaseKept

\* The group is never given to a request while an older one is queued and in time.
THEOREM GroupGoesInOrder == Spec => GrantsInOrder
  <1> DEFINE Ordered ==
        lease' \notin {0, lease}
          => ~\E j \in Rows : j < lease' /\ row'[j].status = "queued" /\ j \notin late
  <1>1. ASSUME LeaseInv, [Next]_vars PROVE [Ordered]_vars
    <2> SUFFICES ASSUME lease' \notin {0, lease}, Next,
                        NEW j \in Rows, j < lease', row'[j].status = "queued", j \notin late
                 PROVE  FALSE
      BY <1>1 DEF vars
    <2>1. PICK w \in Workers : Grant(w)
      BY DEF Next, Serve, Acquire, Ask, AskCancel, AskRelease, AskDirect, Expire, Gone,
             LockOwn, Supersede, Insert, Poll, Allow, Drop, LockLease, Evict, Queued, First,
             GrantRefused, Cancel, Complete, Release, ClearLease, Sweep, DeadlockVictim,
             Crash, Restart, QueueDeadline, LeaseDeadline, SwitchOff
    <2>2. /\ lease' = req[w].row /\ req[w].row \in Rows /\ Ahead(req[w])
          /\ req[w].pc = "grant" /\ req[w].late \subseteq late
      BY <1>1, <2>1, SessionFacts DEF Grant, At, LeaseSound, WorkSound, Holding
    <2>3. j # req[w].row
      BY <2>2, RowsAreNatural
    <2>4. row'[j] = Committed(w)[j]
      BY <1>1, <2>1, <2>3, GrantWrites
    <2>5. /\ row[j].status = "queued" => j \in req[w].doomed
          /\ row[j].status # "unborn" \/ j \notin Inserted
      BY <2>2 DEF Ahead
    <2>6. CASE j \in req[w].doomed
      <3>1. row[j] \in QueueRow
        BY <1>1, SessionFacts
      <3>2. Committed(w)[j].status = "expired"
        BY <2>6, <3>1 DEF Committed, QueueRow
      <3> QED
        BY <2>4, <3>2
    <2>7. CASE j \notin req[w].doomed
      <3>1. Committed(w)[j] = row[j]
        BY <2>3, <2>7 DEF Committed
      <3> QED
        BY <2>4, <2>5, <2>7, <3>1
    <2> QED
      BY <2>6, <2>7
  <1>2. Spec => [][Ordered]_vars
    BY <1>1, LeaseHolds, PTL DEF Spec
  <1> QED
    BY <1>2 DEF GrantsInOrder

\* A poll that is told "allowed" names the lease in the table, or one that its
\* own desktop gave back, although it read the lease without a lock.
THEOREM AllowedHasLease == Spec => AllowedIsBacked
  <1> DEFINE Backed == \A w \in Workers :
         serialized /\ Allow(w) => lease = req[w].row \/ req[w].row \in returned
  <1>1. ASSUME LeaseInv PROVE Backed
    BY <1>1, SessionFacts DEF Allow, At, LeaseSound
  <1>2. Spec => [][Backed]_vars
    BY <1>1, LeaseHolds, PTL
  <1> QED
    BY <1>2 DEF AllowedIsBacked

=============================================================================
