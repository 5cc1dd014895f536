------------------------ MODULE DesktopAccessProofs ------------------------
(* Proofs about who is let in, for every number of staff sessions,          *)
(* computers and addresses and every number of requests.                    *)
EXTENDS DesktopAccess, TLAPS

-----------------------------------------------------------------------------
(* The inductive invariant.                                                 *)

\* Revisions are counted up, at most one for each request.
RevisionsCounted ==
    /\ security.revision <= accessOps + 1
    /\ \A s \in Staff : staff[s].new.revision <= accessOps + 1

\* A save of the security row that overwrites the row it read keeps the key, or
\* sets one with a later revision; the first key has none to outlive.
Succeeds(old, new) ==
    \/ new.key = old.key /\ new.revision >= old.revision
    \/ new.key # 0 /\ (old.key = 0 \/ new.revision > old.revision)

SavesSucceed ==
    \A s \in Staff : staff[s].pc = "security" => Succeeds(staff[s].seen, staff[s].new)

\* A request for one address names it and its computer, switches on no row but of
\* that address and switches none off; a list does not repeat its first address,
\* and switches on and off and leads with what it says, where it has been.
Informed(w) ==
    /\ w.pc \in Request => w.known \in [Computers -> Addresses]
    /\ w.pc \in Request \ {"list"} =>
           /\ w.addresses \in Addresses \X Computers
           /\ w.left \cup w.on \subseteq w.targets \X {w.addresses[1]}
           /\ w.off = {} /\ w.led = {}
    /\ w.pc = "list" =>
           /\ w.addresses \in Addresses \X SUBSET Addresses
           /\ w.addresses[1] \notin w.addresses[2] /\ w.todo \subseteq w.targets
           /\ w.left \cup w.on \subseteq w.targets \X w.addresses[2]
           /\ w.off \subseteq w.targets \X (Addresses \ w.addresses[2])
           /\ w.led = {c \in w.targets \ w.todo : w.known[c] # w.addresses[1]}

StaffInformed == \A s \in Staff : Informed(staff[s])

\* The primary address that a request has read is still admitted, or the request
\* is told that it was refused; if it is another one, that it was allowed.
KnownToldOf(s) ==
    staff[s].pc \in Request =>
        \A c \in Computers :
            /\ staff[s].known[c] \in Admitted(c) \/ <<c, staff[s].known[c]>> \in staff[s].refused
            /\ client[c].primary = staff[s].known[c]
                   \/ <<c, client[c].primary>> \in staff[s].allowed

\* A request for one address has yet to see to it, has switched it on, or found it
\* admitted, unless that was refused since.
AddsReach(s) ==
    staff[s].pc \in Request \ {"list"} =>
        \A c \in staff[s].targets :
            \/ <<c, staff[s].addresses[1]>> \in staff[s].left \cup staff[s].on
            \/ staff[s].addresses[1] \in Admitted(c)
            \/ <<c, staff[s].addresses[1]>> \in staff[s].refused

\* Where a list has been, its addresses are or will be switched on, and of all
\* others only those stay active that were allowed since.
ListReaches(s) ==
    staff[s].pc = "list" =>
        \A c \in staff[s].targets \ staff[s].todo, a \in Addresses :
            IF a \in staff[s].addresses[2] THEN <<c, a>> \in staff[s].left \cup staff[s].on
            ELSE \/ <<c, a>> \in staff[s].off \/ entry[c][a] # "active"
                 \/ <<c, a>> \in staff[s].allowed

RequestsReach == \A s \in Staff : KnownToldOf(s) /\ AddsReach(s) /\ ListReaches(s)

\* While no save was lost, the revision of a token tells which key it is for.
TokenFollows(t, x) ==
    t.enforced => /\ x.key # 0
                  /\ t.revision <= x.revision
                  /\ t.revision = x.revision => t.key = x.key

TokensFollowKeys ==
    ~overlapped => \A c \in Computers : TokenFollows(computer[c].token, security)

AccessTyped == AccessTypeOK /\ RevisionsCounted /\ StaffInformed

AccessInv ==
    AccessTyped /\ SavesSucceed /\ TokensFollowKeys /\ RequestsReach /\ AdmittedAsDecided

-----------------------------------------------------------------------------
(* Types.                                                                   *)

LEMMA FirstTypes ==
  /\ NoToken \in Token
  /\ ~NoToken.enforced
  /\ IdleStaff \in StaffWork
  /\ Informed(IdleStaff)
  /\ IdleStaff.pc = "idle"
  /\ IdleStaff.new.revision = 1
  <1>1. (CHOOSE a \in Addresses : TRUE) \in Addresses
    BY AccessAssumption
  <1>2. 0 \in Keys /\ 0 \in KeyRevisions /\ 1 \in KeyRevisions
    BY AccessAssumption DEF Keys, KeyRevisions
  <1>3. [required |-> FALSE, key |-> 0, revision |-> 1] \in Security
    BY <1>2 DEF Security
  <1>4. NoToken \in Token /\ ~NoToken.enforced
    BY <1>1, <1>2 DEF NoToken, Token
  <1>5. IdleStaff \in StaffWork
    BY <1>3 DEF IdleStaff, StaffWork
  <1> QED
    BY <1>4, <1>5 DEF IdleStaff, Informed, Request

LEMMA AccessInitInv == AccessInit => AccessInv
  <1> SUFFICES ASSUME AccessInit PROVE AccessInv
    OBVIOUS
  <1>1. PICK home \in [Computers -> Addresses], before \in {"absent", "inactive"} :
          /\ security = [required |-> FALSE, key |-> 0, revision |-> 1]
          /\ client = [c \in Computers |->
                 [active |-> TRUE, rule |-> "inherit", primary |-> home[c]]]
          /\ entry = [c \in Computers |-> [a \in Addresses |-> before]]
          /\ bundle = 1
          /\ audit = [c \in Computers |-> [a \in Addresses |-> "none"]]
          /\ staff = [s \in Staff |-> IdleStaff]
          /\ computer = [c \in Computers |->
                 [address |-> home[c], key |-> 0, token |-> NoToken]]
          /\ granted = {<<c, home[c]>> : c \in Computers}
          /\ denied = Rows \ granted
          /\ overlapped = FALSE /\ accessOps = 0
    BY DEF AccessInit
  <1>2. security \in Security
    BY <1>1, AccessAssumption DEF Security, Keys, KeyRevisions
  <1>3. client \in [Computers -> Client]
    BY <1>1 DEF Client, Rules
  <1>4. computer \in [Computers -> Computer]
    <2>1. 0 \in Keys
      BY AccessAssumption DEF Keys
    <2> QED
      BY <1>1, <2>1, FirstTypes DEF Computer
  <1>5. AccessTypeOK
    <2>1. entry \in [Computers -> [Addresses -> {"absent", "active", "inactive"}]]
      BY <1>1
    <2>2. audit \in [Computers -> [Addresses -> {"none", "pending", "approved", "rejected"}]]
      BY <1>1
    <2>3. staff \in [Staff -> StaffWork]
      BY <1>1, FirstTypes
    <2>4. granted \subseteq Rows /\ denied \subseteq Rows
      BY <1>1 DEF Rows
    <2>5. bundle \in 0 .. 2 /\ accessOps \in 0 .. MaxAccessOps
      <3>1. bundle = 1 /\ accessOps = 0
        BY <1>1
      <3> QED
        BY <3>1, AccessAssumption
    <2>6. overlapped \in BOOLEAN
      BY <1>1
    <2> QED
      BY <1>2, <1>3, <1>4, <2>1, <2>2, <2>3, <2>4, <2>5, <2>6 DEF AccessTypeOK
  <1>6. RevisionsCounted /\ StaffInformed /\ SavesSucceed
    BY <1>1, FirstTypes DEF RevisionsCounted, StaffInformed, SavesSucceed
  <1>7. TokensFollowKeys
    BY <1>1, FirstTypes DEF TokensFollowKeys, TokenFollows
  <1>8. AdmittedAsDecided
    <2>1. \A c \in Computers : Admitted(c) = {home[c]}
      BY <1>1 DEF Admitted
    <2>2. \A c \in Computers, a \in Addresses : <<c, a>> \in granted <=> a = home[c]
      BY <1>1
    <2> QED
      BY <1>1, <2>1, <2>2 DEF AdmittedAsDecided, Rows
  <1>9. RequestsReach
    BY <1>1, FirstTypes DEF RequestsReach, KnownToldOf, AddsReach, ListReaches, Request
  <1> QED
    BY <1>5, <1>6, <1>7, <1>8, <1>9 DEF AccessInv, AccessTyped

\* What one session does next keeps the sessions typed and informed.
LEMMA StaffStep ==
  ASSUME AccessTyped, NEW s \in Staff, NEW w \in StaffWork,
         staff' = [staff EXCEPT ![s] = w], Informed(w),
         w.new.revision <= accessOps' + 1, accessOps' \in {accessOps, accessOps + 1}
  PROVE  /\ staff' \in [Staff -> StaffWork]
         /\ StaffInformed'
         /\ \A r \in Staff : staff'[r].new.revision <= accessOps' + 1
  <1>1. staff' \in [Staff -> StaffWork]
    BY DEF AccessTyped, AccessTypeOK
  <1>2. \A r \in Staff : staff'[r] = w \/ staff'[r] = staff[r]
    BY DEF AccessTyped, AccessTypeOK
  <1>3. StaffInformed'
    BY <1>2 DEF AccessTyped, StaffInformed
  <1>4. \A r \in Staff : staff[r].new.revision \in Nat
    BY AccessAssumption DEF AccessTyped, AccessTypeOK, StaffWork, Security, KeyRevisions
  <1>5. \A r \in Staff : staff'[r].new.revision <= accessOps' + 1
    BY <1>2, <1>4, AccessAssumption DEF AccessTyped, AccessTypeOK, RevisionsCounted
  <1> QED
    BY <1>1, <1>3, <1>5

\* A session that has written is idle again.
LEMMA BackToIdle ==
  ASSUME AccessTyped, NEW s \in Staff,
         staff' = [staff EXCEPT ![s] = IdleStaff], UNCHANGED accessOps
  PROVE  /\ staff' \in [Staff -> StaffWork]
         /\ StaffInformed'
         /\ \A r \in Staff : staff'[r].new.revision <= accessOps' + 1
  <1>1. 1 <= accessOps' + 1
    BY AccessAssumption DEF AccessTyped, AccessTypeOK
  <1> QED
    BY <1>1, StaffStep, FirstTypes

\* A request for one address, and a list, as they are made.
LEMMA AddTypes ==
  ASSUME AccessTyped, NEW targets \in SUBSET Computers, NEW a \in Addresses,
         NEW pc \in Request \ {"list"}, NEW c \in Computers,
         NEW w, w = AddRequest(pc, targets, a, c)
  PROVE  /\ w \in StaffWork /\ Informed(w) /\ w.new = IdleStaff.new
         /\ w.pc = pc /\ w.known = Primaries /\ w.targets = targets
         /\ w.addresses[1] = a /\ w.left = targets \X {a}
  <1>1. Primaries \in [Computers -> Addresses]
    BY DEF Primaries, AccessTyped, AccessTypeOK, Client
  <1>2. IdleStaff.on = {} /\ IdleStaff.off = {} /\ IdleStaff.led = {}
    BY DEF IdleStaff
  <1>3. targets \X {a} \in SUBSET Rows
    BY DEF Rows
  <1>4. /\ w \in StaffWork /\ w.pc = pc /\ w.known = Primaries /\ w.targets = targets
        /\ w.addresses = <<a, c>> /\ w.left = targets \X {a} /\ w.new = IdleStaff.new
        /\ w.on = IdleStaff.on /\ w.off = IdleStaff.off /\ w.led = IdleStaff.led
    BY <1>1, <1>3, FirstTypes DEF AddRequest, StaffWork, Request
  <1> QED
    BY <1>1, <1>2, <1>4 DEF Informed

\* A list is typed and says what it will write.
LEMMA ListTypes ==
  ASSUME AccessTyped, NEW targets \in SUBSET Computers, NEW a \in Addresses,
         NEW others \in SUBSET Addresses, a \notin others,
         NEW w, w = ListRequest(targets, a, others)
  PROVE  /\ w \in StaffWork /\ Informed(w) /\ w.new = IdleStaff.new
         /\ w.pc = "list" /\ w.known = Primaries /\ w.targets = targets
         /\ w.todo = targets
  <1>1. Primaries \in [Computers -> Addresses]
    BY DEF Primaries, AccessTyped, AccessTypeOK, Client
  <1>2. IdleStaff.on = {} /\ IdleStaff.off = {} /\ IdleStaff.led = {} /\ IdleStaff.left = {}
    BY DEF IdleStaff
  <1>3. /\ w \in StaffWork /\ w.pc = "list" /\ w.known = Primaries /\ w.targets = targets
        /\ w.addresses = <<a, others>> /\ w.todo = targets /\ w.new = IdleStaff.new
        /\ w.on = IdleStaff.on /\ w.off = IdleStaff.off /\ w.led = IdleStaff.led
        /\ w.left = IdleStaff.left
    BY <1>1, FirstTypes DEF ListRequest, StaffWork
  <1> QED
    BY <1>1, <1>2, <1>3 DEF Informed

\* A session starts with a request.
LEMMA OpenTypes ==
  ASSUME AccessTyped, NEW s \in Staff, NEW w \in StaffWork,
         Informed(w), w.new = IdleStaff.new, Open(s, w)
  PROVE  AccessTyped'
  <1>1. accessOps' = accessOps + 1 /\ accessOps' \in 0 .. MaxAccessOps
    BY AccessAssumption DEF Open, AccessUsed, AccessTyped, AccessTypeOK
  <1>2. w.new.revision <= accessOps' + 1
    BY <1>1, FirstTypes DEF AccessTyped, AccessTypeOK
  <1>3. /\ staff' \in [Staff -> StaffWork]
        /\ StaffInformed'
        /\ \A r \in Staff : staff'[r].new.revision <= accessOps' + 1
    BY <1>1, <1>2, StaffStep DEF Open
  <1>4. security'.revision <= accessOps' + 1
    <2>1. security.revision \in Nat /\ accessOps \in Nat
      BY AccessAssumption DEF AccessTyped, AccessTypeOK, Security, KeyRevisions
    <2> QED
      BY <1>1, <2>1 DEF Open, AccessTyped, RevisionsCounted
  <1>5. AccessTypeOK'
    BY <1>1, <1>3 DEF Open, AccessTyped, AccessTypeOK
  <1> QED
    BY <1>3, <1>4, <1>5 DEF AccessTyped, RevisionsCounted

\* What a request decides is about rows.
LEMMA DecidesRows ==
  ASSUME AccessTyped, NEW s \in Staff, staff[s].pc \in Request
  PROVE  Allows(s) \in SUBSET Rows /\ Refuses(s) \in SUBSET Rows
  <1>1. staff[s].targets \in SUBSET Computers /\ Informed(staff[s])
    BY DEF AccessTyped, AccessTypeOK, StaffWork, StaffInformed
  <1>2. Allows(s) \in SUBSET Rows
    <2>1. CASE staff[s].pc = "list"
      <3>1. staff[s].addresses \in Addresses \X SUBSET Addresses
        BY <1>1, <2>1 DEF Informed
      <3> QED
        BY <1>1, <2>1, <3>1 DEF Allows, Rows
    <2>2. CASE staff[s].pc # "list"
      <3>1. staff[s].addresses \in Addresses \X Computers
        BY <1>1, <2>2 DEF Informed
      <3> QED
        BY <1>1, <2>2, <3>1 DEF Allows, Rows
    <2> QED
      BY <2>1, <2>2
  <1>3. Refuses(s) \in SUBSET Rows
    BY <1>1 DEF Refuses, Rows
  <1> QED
    BY <1>2, <1>3

\* What a commit does to the other sessions: those with a request are told.
LEMMA DecideStaff ==
  ASSUME AccessTyped, NEW s \in Staff, staff[s].pc \in Request, Decide(s)
  PROVE  /\ staff' \in [Staff -> StaffWork]
         /\ staff'[s] = IdleStaff
         /\ \A r \in Staff \ {s} :
                /\ staff'[r].pc = staff[r].pc /\ staff'[r].seen = staff[r].seen
                /\ staff'[r].new = staff[r].new
                /\ staff'[r].targets = staff[r].targets /\ staff'[r].known = staff[r].known
                /\ staff'[r].addresses = staff[r].addresses /\ staff'[r].todo = staff[r].todo
                /\ staff'[r].left = staff[r].left /\ staff'[r].on = staff[r].on
                /\ staff'[r].off = staff[r].off /\ staff'[r].led = staff[r].led
                /\ staff[r].pc \in Request =>
                       /\ staff'[r].allowed = staff[r].allowed \cup Allows(s)
                       /\ staff'[r].refused = staff[r].refused \cup Refuses(s)
  <1>1. staff \in [Staff -> StaffWork]
    BY DEF AccessTyped, AccessTypeOK
  <1>2. /\ DOMAIN staff' = Staff /\ staff' = [r \in Staff |-> staff'[r]]
        /\ staff'[s] = IdleStaff
        /\ \A r \in Staff \ {s} : staff'[r] =
               IF staff[r].pc \in Request
               THEN [staff[r] EXCEPT !.allowed = @ \cup Allows(s),
                                     !.refused = @ \cup Refuses(s)]
               ELSE staff[r]
    BY DEF Decide
  <1>3. ASSUME NEW r \in Staff \ {s}
        PROVE  /\ staff'[r] \in StaffWork
               /\ staff'[r].pc = staff[r].pc /\ staff'[r].seen = staff[r].seen
               /\ staff'[r].new = staff[r].new
               /\ staff'[r].targets = staff[r].targets /\ staff'[r].known = staff[r].known
               /\ staff'[r].addresses = staff[r].addresses /\ staff'[r].todo = staff[r].todo
               /\ staff'[r].left = staff[r].left /\ staff'[r].on = staff[r].on
               /\ staff'[r].off = staff[r].off /\ staff'[r].led = staff[r].led
               /\ staff[r].pc \in Request =>
                       /\ staff'[r].allowed = staff[r].allowed \cup Allows(s)
                       /\ staff'[r].refused = staff[r].refused \cup Refuses(s)
    <2>1. staff[r] \in StaffWork
      BY <1>1
    <2>2. CASE staff[r].pc \notin Request
      BY <1>2, <2>1, <2>2
    <2>3. CASE staff[r].pc \in Request
      <3>1. PICK more, less : more = Allows(s) /\ less = Refuses(s)
        OBVIOUS
      <3>2. more \in SUBSET Rows /\ less \in SUBSET Rows
        BY <3>1, DecidesRows
      <3>3. staff'[r] = [staff[r] EXCEPT !.allowed = @ \cup more, !.refused = @ \cup less]
        BY <1>2, <2>3, <3>1
      <3>4. /\ staff[r].allowed \cup more \in SUBSET Rows
            /\ staff[r].refused \cup less \in SUBSET Rows
        BY <2>1, <3>2 DEF StaffWork
      <3> QED
        BY <2>1, <3>1, <3>3, <3>4 DEF StaffWork
    <2> QED
      BY <2>2, <2>3
  <1>4. staff' \in [Staff -> StaffWork]
    BY <1>2, <1>3, FirstTypes
  <1> QED
    BY <1>2, <1>3, <1>4

\* A commit keeps the sessions and the rows typed.
LEMMA DecideTypes ==
  ASSUME AccessTyped, NEW s \in Staff, staff[s].pc \in Request, Decide(s),
         UNCHANGED accessOps
  PROVE  /\ staff' \in [Staff -> StaffWork]
         /\ StaffInformed'
         /\ \A r \in Staff : staff'[r].new.revision <= accessOps' + 1
         /\ entry' \in [Computers -> [Addresses -> {"absent", "active", "inactive"}]]
         /\ granted' \subseteq Rows /\ denied' \subseteq Rows
  <1>1. staff' \in [Staff -> StaffWork]
    BY DecideStaff
  <1>2. StaffInformed'
    <2>1. Informed(staff'[s])
      BY DecideStaff, FirstTypes
    <2>2. ASSUME NEW r \in Staff \ {s} PROVE Informed(staff'[r])
      <3>1. Informed(staff[r])
        BY DEF AccessTyped, StaffInformed
      <3> QED
        BY <3>1, DecideStaff DEF Informed
    <2> QED
      BY <2>1, <2>2 DEF StaffInformed
  <1>3. \A r \in Staff : staff'[r].new.revision <= accessOps' + 1
    <2>1. 1 <= accessOps' + 1
      BY AccessAssumption DEF AccessTyped, AccessTypeOK
    <2>2. \A r \in Staff : staff[r].new.revision <= accessOps' + 1
      BY DEF AccessTyped, RevisionsCounted
    <2> QED
      BY <2>1, <2>2, DecideStaff, FirstTypes
  <1>4. entry' \in [Computers -> [Addresses -> {"absent", "active", "inactive"}]]
    BY DEF Decide, AccessTyped, AccessTypeOK
  <1>5. granted' \subseteq Rows /\ denied' \subseteq Rows
    BY DecidesRows DEF Decide, AccessTyped, AccessTypeOK
  <1> QED
    BY <1>1, <1>2, <1>3, <1>4, <1>5

\* Between its requests and its commit, a session only notes what it has done.
LEMMA WorkTypes ==
  ASSUME AccessTyped, NEW s \in Staff, NEW w \in StaffWork, Informed(w),
         w.new = staff[s].new, staff' = [staff EXCEPT ![s] = w],
         UNCHANGED <<security, client, entry, bundle, audit, computer, granted, denied,
                     overlapped, accessOps>>
  PROVE  AccessTyped'
  <1>1. w.new.revision <= accessOps' + 1 /\ accessOps' = accessOps
    BY DEF AccessTyped, RevisionsCounted
  <1>2. /\ staff' \in [Staff -> StaffWork]
        /\ StaffInformed'
        /\ \A r \in Staff : staff'[r].new.revision <= accessOps' + 1
    BY <1>1, StaffStep
  <1> QED
    BY <1>2 DEF AccessTyped, AccessTypeOK, RevisionsCounted

\* What a session notes as it adds an address or goes through a list.
LEMMA AddRowWork ==
  ASSUME AccessTyped, NEW s \in Staff, NEW c \in Computers, NEW a \in Addresses,
         AddRow(s, c, a)
  PROVE  \E w \in StaffWork :
            /\ Informed(w) /\ staff' = [staff EXCEPT ![s] = w]
            /\ w.pc = staff[s].pc /\ w.new = staff[s].new /\ w.targets = staff[s].targets
            /\ w.known = staff[s].known /\ w.addresses = staff[s].addresses
            /\ w.allowed = staff[s].allowed /\ w.refused = staff[s].refused
            /\ w.left = staff[s].left \ {<<c, a>>}
            /\ w.on = IF Adds(s, c, a) THEN staff[s].on \cup {<<c, a>>} ELSE staff[s].on
  <1>1. staff[s] \in StaffWork /\ Informed(staff[s])
    BY DEF AccessTyped, AccessTypeOK, StaffInformed
  <1>2. PICK left, on : /\ left = staff[s].left \ {<<c, a>>}
                        /\ on = IF Adds(s, c, a) THEN staff[s].on \cup {<<c, a>>}
                                ELSE staff[s].on
    OBVIOUS
  <1>3. left \in SUBSET Rows /\ on \in SUBSET Rows
    BY <1>1, <1>2 DEF StaffWork, Rows
  <1>4. PICK w : w = [staff[s] EXCEPT !.left = left, !.on = on]
    OBVIOUS
  <1>5. /\ w \in StaffWork /\ w.left = left /\ w.on = on
        /\ w.pc = staff[s].pc /\ w.new = staff[s].new /\ w.targets = staff[s].targets
        /\ w.known = staff[s].known /\ w.addresses = staff[s].addresses
        /\ w.allowed = staff[s].allowed /\ w.refused = staff[s].refused
        /\ w.off = staff[s].off /\ w.led = staff[s].led
    BY <1>1, <1>3, <1>4 DEF StaffWork
  <1>6. staff' = [staff EXCEPT ![s] = w]
    BY <1>2, <1>4 DEF AddRow, AccessTyped, AccessTypeOK
  <1>7. staff[s].pc \in Request \ {"list"} /\ <<c, a>> \in staff[s].left
    BY DEF AddRow, Request
  <1>8. Informed(w)
    BY <1>1, <1>2, <1>5, <1>7 DEF Informed
  <1> QED
    BY <1>2, <1>5, <1>6, <1>8

\* The same, as it comes to the next address of a list.
LEMMA ListRowWork ==
  ASSUME AccessTyped, NEW s \in Staff, NEW c \in Computers, NEW a \in Addresses,
         ListRow(s, c, a)
  PROVE  \E w \in StaffWork :
            /\ Informed(w) /\ staff' = [staff EXCEPT ![s] = w]
            /\ w.pc = "list" /\ w.new = staff[s].new /\ w.targets = staff[s].targets
            /\ w.known = staff[s].known /\ w.addresses = staff[s].addresses
            /\ w.allowed = staff[s].allowed /\ w.refused = staff[s].refused
            /\ w.todo = staff[s].todo /\ w.off = staff[s].off
            /\ w.left = staff[s].left \ {<<c, a>>} /\ w.on = staff[s].on \cup {<<c, a>>}
  <1>1. staff[s] \in StaffWork /\ Informed(staff[s])
    BY DEF AccessTyped, AccessTypeOK, StaffInformed
  <1>2. PICK left, on : left = staff[s].left \ {<<c, a>>} /\ on = staff[s].on \cup {<<c, a>>}
    OBVIOUS
  <1>3. left \in SUBSET Rows /\ on \in SUBSET Rows
    BY <1>1, <1>2 DEF StaffWork, Rows
  <1>4. PICK w : w = [staff[s] EXCEPT !.left = left, !.on = on]
    OBVIOUS
  <1>5. /\ w \in StaffWork /\ w.left = left /\ w.on = on
        /\ w.pc = staff[s].pc /\ w.new = staff[s].new /\ w.targets = staff[s].targets
        /\ w.known = staff[s].known /\ w.addresses = staff[s].addresses
        /\ w.allowed = staff[s].allowed /\ w.refused = staff[s].refused
        /\ w.todo = staff[s].todo /\ w.off = staff[s].off /\ w.led = staff[s].led
    BY <1>1, <1>3, <1>4 DEF StaffWork
  <1>6. staff' = [staff EXCEPT ![s] = w]
    BY <1>2, <1>4 DEF ListRow, AccessTyped, AccessTypeOK
  <1>7. staff[s].pc = "list" /\ <<c, a>> \in staff[s].left
    BY DEF ListRow
  <1>8. Informed(w)
    BY <1>1, <1>2, <1>5, <1>7 DEF Informed, Request
  <1> QED
    BY <1>2, <1>5, <1>6, <1>7, <1>8

\* And as a list comes to the next computer.
LEMMA ListClearWork ==
  ASSUME AccessTyped, NEW s \in Staff, NEW c \in Computers, ListClear(s, c)
  PROVE  \E w \in StaffWork :
            /\ Informed(w) /\ staff' = [staff EXCEPT ![s] = w]
            /\ w.pc = "list" /\ w.new = staff[s].new /\ w.targets = staff[s].targets
            /\ w.known = staff[s].known /\ w.addresses = staff[s].addresses
            /\ w.allowed = staff[s].allowed /\ w.refused = staff[s].refused
            /\ w.todo = staff[s].todo \ {c} /\ w.off = staff[s].off \cup OffRows(s, c)
            /\ w.left = {c} \X staff[s].addresses[2] /\ w.on = staff[s].on
  <1>1. staff[s] \in StaffWork /\ Informed(staff[s])
    BY DEF AccessTyped, AccessTypeOK, StaffInformed
  <1>2. /\ staff[s].pc = "list" /\ c \in staff[s].todo /\ staff[s].left = {}
        /\ staff' = [staff EXCEPT ![s].todo = @ \ {c}, ![s].left = {c} \X staff[s].addresses[2],
                              ![s].off = @ \cup OffRows(s, c),
                              ![s].led = IF LeadsWith(s, c) THEN @ \cup {c} ELSE @]
    BY DEF ListClear
  <1>3. /\ staff[s].addresses \in Addresses \X SUBSET Addresses
        /\ staff[s].todo \in SUBSET Computers /\ staff[s].targets \in SUBSET Computers
        /\ staff[s].off \in SUBSET Rows /\ staff[s].led \in SUBSET Computers
    BY <1>1, <1>2 DEF Informed, StaffWork
  <1>4. PICK todo, left, off, led :
          /\ todo = staff[s].todo \ {c} /\ left = {c} \X staff[s].addresses[2]
          /\ off = staff[s].off \cup OffRows(s, c)
          /\ led = IF LeadsWith(s, c) THEN staff[s].led \cup {c} ELSE staff[s].led
    OBVIOUS
  <1>5. OffRows(s, c) \subseteq {c} \X (Addresses \ staff[s].addresses[2])
    BY DEF OffRows
  <1>6. /\ todo \in SUBSET Computers /\ left \in SUBSET Rows
        /\ off \in SUBSET Rows /\ led \in SUBSET Computers
    BY <1>3, <1>4, <1>5 DEF Rows
  <1>7. PICK w : w = [staff[s] EXCEPT !.todo = todo, !.left = left, !.off = off, !.led = led]
    OBVIOUS
  <1>8. /\ w \in StaffWork /\ w.todo = todo /\ w.left = left /\ w.off = off /\ w.led = led
        /\ w.pc = staff[s].pc /\ w.new = staff[s].new /\ w.targets = staff[s].targets
        /\ w.known = staff[s].known /\ w.addresses = staff[s].addresses
        /\ w.allowed = staff[s].allowed /\ w.refused = staff[s].refused
        /\ w.on = staff[s].on
    BY <1>1, <1>6, <1>7 DEF StaffWork
  <1>9. staff' = [staff EXCEPT ![s] = w]
    BY <1>2, <1>4, <1>7 DEF AccessTyped, AccessTypeOK
  <1>10. c \in staff[s].targets
    BY <1>1, <1>2 DEF Informed
  <1>11. w.left \cup w.on \subseteq w.targets \X w.addresses[2]
    BY <1>1, <1>2, <1>3, <1>4, <1>8, <1>10 DEF Informed
  <1>12. w.off \subseteq w.targets \X (Addresses \ w.addresses[2])
    BY <1>1, <1>2, <1>4, <1>5, <1>8, <1>10 DEF Informed
  <1>13. w.led = {d \in w.targets \ w.todo : w.known[d] # w.addresses[1]}
    BY <1>1, <1>2, <1>4, <1>8, <1>10 DEF Informed, LeadsWith
  <1>14. Informed(w)
    <2>1. /\ w.pc = "list" /\ w.known \in [Computers -> Addresses]
          /\ w.addresses \in Addresses \X SUBSET Addresses
          /\ w.addresses[1] \notin w.addresses[2] /\ w.todo \subseteq w.targets
      BY <1>1, <1>2, <1>4, <1>8 DEF Informed, Request
    <2> QED
      BY <2>1, <1>11, <1>12, <1>13 DEF Informed
  <1> QED
    BY <1>2, <1>4, <1>8, <1>9, <1>14

\* Whoever opens a request opens one of these.
LEMMA RequestOpens ==
  ASSUME AccessTyped, NEW s \in Staff, NEW c \in Computers,
         AddOpen(s, c) \/ GrantOpen(s, c) \/ ListOpen(s, c)
  PROVE  \E w \in StaffWork :
            /\ Informed(w) /\ w.new = IdleStaff.new /\ w.pc \in Request
            /\ w.known = Primaries
            /\ w.pc # "list" => w.left = w.targets \X {w.addresses[1]}
            /\ w.pc = "list" => w.todo = w.targets
            /\ Open(s, w)
  <1>1. CASE AddOpen(s, c)
    <2>1. PICK a \in Addresses, targets \in Scope(c), approval \in BOOLEAN :
            Open(s, AddRequest(IF approval THEN "approve" ELSE "add", targets, a, c))
      BY <1>1 DEF AddOpen
    <2>2. targets \in SUBSET Computers
      BY DEF Scope
    <2>3. PICK pc \in Request \ {"list"} : pc = IF approval THEN "approve" ELSE "add"
      BY DEF Request
    <2>4. PICK w : w = AddRequest(pc, targets, a, c)
      OBVIOUS
    <2>5. /\ w \in StaffWork /\ Informed(w) /\ w.new = IdleStaff.new
          /\ w.pc = pc /\ w.known = Primaries /\ w.targets = targets
          /\ w.addresses[1] = a /\ w.left = targets \X {a}
      BY <2>2, <2>4, AddTypes
    <2>6. Open(s, w)
      BY <2>1, <2>3, <2>4
    <2> QED
      BY <2>5, <2>6
  <1>2. CASE GrantOpen(s, c)
    <2>1. PICK pc \in Request \ {"list"}, targets \in SUBSET Computers, a \in Addresses :
            Open(s, AddRequest(pc, targets, a, c))
      BY <1>2 DEF GrantOpen, Request
    <2>2. PICK w : w = AddRequest(pc, targets, a, c)
      OBVIOUS
    <2>4. /\ w \in StaffWork /\ Informed(w) /\ w.new = IdleStaff.new
          /\ w.pc = pc /\ w.known = Primaries /\ w.targets = targets
          /\ w.addresses[1] = a /\ w.left = targets \X {a}
      BY <2>2, AddTypes, SMTT(60)
    <2>5. Open(s, w)
      BY <2>1, <2>2
    <2> QED
      BY <2>4, <2>5
  <1>3. CASE ListOpen(s, c)
    <2>1. PICK first \in Addresses, others \in SUBSET Addresses, targets \in {{c}, Computers} :
            first \notin others /\ Open(s, ListRequest(targets, first, others))
      BY <1>3 DEF ListOpen
    <2>2. targets \in SUBSET Computers
      OBVIOUS
    <2>3. PICK w : w = ListRequest(targets, first, others)
      OBVIOUS
    <2>4. /\ w \in StaffWork /\ Informed(w) /\ w.new = IdleStaff.new
          /\ w.pc = "list" /\ w.known = Primaries /\ w.targets = targets
          /\ w.todo = targets
      BY <2>1, <2>2, <2>3, ListTypes
    <2>5. Open(s, w)
      BY <2>1, <2>3
    <2> QED
      BY <2>4, <2>5 DEF Request
  <1> QED
    BY <1>1, <1>2, <1>3

\* What a save of the security row would write.
LEMMA SecuritySaves ==
  ASSUME AccessTyped, NEW s \in Staff, SecurityOpen(s)
  PROVE  \E x \in Security :
            /\ x.revision <= accessOps' + 1
            /\ Succeeds(security, x)
            /\ staff' = [staff EXCEPT ![s] = [IdleStaff EXCEPT
                            !.pc = "security", !.seen = security, !.new = x]]
  <1>1. /\ accessOps \in Nat /\ accessOps' = accessOps + 1
        /\ accessOps' \in 0 .. MaxAccessOps /\ MaxAccessOps \in Nat
    BY AccessAssumption DEF SecurityOpen, AccessUsed, AccessTyped, AccessTypeOK
  <1>2. /\ security \in Security /\ security.revision \in Nat
        /\ security.revision <= accessOps + 1 /\ security.key \in Nat
    BY AccessAssumption
       DEF AccessTyped, AccessTypeOK, RevisionsCounted, Security, KeyRevisions, Keys
  <1>3. PICK x : /\ \/ \E b \in BOOLEAN : x = WithSwitch(security, b)
                    \/ \E b \in BOOLEAN :
                          x = [WithKey(security, accessOps') EXCEPT !.required = b]
                 /\ staff' = [staff EXCEPT ![s] = [IdleStaff EXCEPT
                        !.pc = "security", !.seen = security, !.new = x]]
    BY DEF SecurityOpen
  <1>4. ASSUME NEW b \in BOOLEAN, x = WithSwitch(security, b)
        PROVE  x \in Security /\ x.revision <= accessOps' + 1 /\ Succeeds(security, x)
    <2>1. PICK n \in Nat : /\ n = IF security.required # b THEN security.revision + 1
                                  ELSE security.revision
                           /\ n >= security.revision /\ n <= accessOps' + 1
      BY <1>1, <1>2
    <2>2. x = [security EXCEPT !.required = b, !.revision = n]
      BY <1>4, <2>1, <1>2 DEF WithSwitch, Security
    <2>3. n \in KeyRevisions
      BY <1>1, <2>1 DEF KeyRevisions
    <2>4. x \in Security /\ x.key = security.key /\ x.revision = n
      BY <1>2, <2>2, <2>3 DEF Security
    <2> QED
      BY <1>1, <2>1, <2>4 DEF Succeeds
  <1>5. ASSUME NEW b \in BOOLEAN, x = [WithKey(security, accessOps') EXCEPT !.required = b]
        PROVE  x \in Security /\ x.revision <= accessOps' + 1 /\ Succeeds(security, x)
    <2>1. PICK n \in Nat : /\ n = IF security.key = 0 THEN 1 ELSE security.revision + 1
                           /\ security.key # 0 => n > security.revision
                           /\ n <= accessOps' + 1
      BY <1>1, <1>2
    <2>2. x = [security EXCEPT !.required = b, !.key = accessOps', !.revision = n]
      BY <1>2, <1>5, <2>1 DEF WithKey, Security
    <2>3. n \in KeyRevisions /\ accessOps' \in Keys
      BY <1>1, <2>1 DEF KeyRevisions, Keys
    <2>4. x \in Security /\ x.key = accessOps' /\ x.revision = n
      BY <1>2, <2>2, <2>3 DEF Security
    <2> QED
      BY <1>1, <2>1, <2>4 DEF Succeeds
  <1> QED
    BY <1>3, <1>4, <1>5

\* A new token is typed, and names the key and the revision it is issued under.
LEMMA Issued ==
  ASSUME AccessTyped, NEW c \in Computers, Bootstrap(c)
  PROVE  \/ UNCHANGED computer
         \/ \E t \in Token :
               /\ computer' = [computer EXCEPT ![c].token = t]
               /\ TokenFollows(t, security)
  <1>1. CASE computer[c].address \notin Admitted(c) \/ ~client[c].active \/ bundle = 0
    BY <1>1 DEF Bootstrap, Refuse
  <1>2. CASE ~(computer[c].address \notin Admitted(c) \/ ~client[c].active \/ bundle = 0)
    <2>1. PICK t : t = [address |-> computer[c].address, version |-> bundle,
                        enforced |-> KeyRequired(c), key |-> security.key,
                        revision |-> IF KeyRequired(c) THEN security.revision ELSE 0]
      OBVIOUS
    <2>2. computer' = [computer EXCEPT ![c].token = t]
      BY <1>2, <2>1 DEF Bootstrap
    <2>3. KeyRequired(c) \in BOOLEAN
      BY DEF KeyRequired, AccessTyped, AccessTypeOK, Client, Security
    <2>4. security.revision \in KeyRevisions /\ 0 \in KeyRevisions /\ security.key \in Keys
      BY AccessAssumption DEF AccessTyped, AccessTypeOK, Security, KeyRevisions
    <2>5. computer[c].address \in Addresses /\ bundle \in Nat
      BY DEF AccessTyped, AccessTypeOK, Computer
    <2>6. t \in Token
      BY <2>1, <2>3, <2>4, <2>5 DEF Token
    <2>7. security.revision <= security.revision
      BY <2>4, AccessAssumption DEF KeyRevisions
    <2>8. TokenFollows(t, security)
      BY <2>1, <2>7 DEF TokenFollows, KeyRequired
    <2> QED
      BY <2>2, <2>6, <2>8
  <1> QED
    BY <1>1, <1>2

\* Every step keeps the rows, the desktops and the sessions typed.
LEMMA AccessStepTypes ==
  ASSUME AccessTyped, AccessNext
  PROVE  AccessTyped'
  <1> USE AccessAssumption
  <1>1. /\ AccessTypeOK /\ accessOps \in Nat /\ security.revision \in Nat
        /\ security.revision <= accessOps + 1
        /\ StaffInformed /\ \A s \in Staff : staff[s].new.revision <= accessOps + 1
    BY DEF AccessTyped, AccessTypeOK, RevisionsCounted, Security, KeyRevisions
  <1>2. AccessUsed => /\ accessOps' \in 0 .. MaxAccessOps
                      /\ accessOps' = accessOps + 1
    BY <1>1 DEF AccessUsed, AccessTypeOK
  \* Steps that leave the sessions and the security row alone.
  <1>3. ASSUME UNCHANGED <<security, staff>>, AccessUsed \/ UNCHANGED accessOps
        PROVE  RevisionsCounted' /\ StaffInformed'
    <2>1. \A s \in Staff : staff[s].new.revision \in Nat
      <3>1. \A x \in Security : x.revision \in Nat
        BY DEF Security, KeyRevisions
      <3>2. \A s \in Staff : staff[s].new \in Security
        BY <1>1 DEF AccessTypeOK, StaffWork
      <3> QED
        BY <3>1, <3>2
    <2>2. accessOps' = accessOps \/ accessOps' = accessOps + 1
      BY <1>2, <1>3
    <2> QED
      BY <1>1, <1>3, <2>1, <2>2 DEF RevisionsCounted, StaffInformed
  <1>4. ASSUME SaveBundle PROVE AccessTyped'
    <2>1. bundle' \in 0 .. 2
      BY <1>4 DEF SaveBundle
    <2> QED
      BY <1>1, <1>2, <1>3, <1>4, <2>1 DEF SaveBundle, AccessTyped, AccessTypeOK
  <1>5. ASSUME NEW c \in Computers, Bootstrap(c) PROVE AccessTyped'
    <2>1. computer' \in [Computers -> Computer]
      <3>1. CASE UNCHANGED computer
        BY <1>1, <3>1 DEF AccessTypeOK
      <3>2. ASSUME NEW t \in Token, computer' = [computer EXCEPT ![c].token = t]
            PROVE  computer' \in [Computers -> Computer]
        <4>1. [computer[c] EXCEPT !.token = t] \in Computer
          BY <1>1 DEF AccessTypeOK, Computer
        <4> QED
          BY <1>1, <3>2, <4>1 DEF AccessTypeOK
      <3> QED
        BY <1>5, <3>1, <3>2, Issued
    <2>2. audit' \in [Computers -> [Addresses -> {"none", "pending", "approved", "rejected"}]]
      <3>1. CASE UNCHANGED audit
        BY <1>1, <3>1 DEF AccessTypeOK
      <3>2. CASE Refuse(c)
        <4>1. PICK a : a = computer[c].address
          OBVIOUS
        <4>2. a \in Addresses
          BY <1>1, <4>1 DEF AccessTypeOK, Computer
        <4>3. PICK row : row = [audit[c] EXCEPT ![a] = IF @ = "none" THEN "pending" ELSE @]
          OBVIOUS
        <4>4. row \in [Addresses -> {"none", "pending", "approved", "rejected"}]
          BY <1>1, <4>2, <4>3 DEF AccessTypeOK
        <4>5. audit' = [audit EXCEPT ![c] = row]
          BY <1>1, <3>2, <4>1, <4>3 DEF Refuse, AccessTypeOK
        <4> QED
          BY <1>1, <4>4, <4>5 DEF AccessTypeOK
      <3> QED
        BY <1>5, <3>1, <3>2 DEF Bootstrap
    <2>3. UNCHANGED <<security, client, entry, bundle, staff, granted, denied, overlapped, accessOps>>
      BY <1>5 DEF Bootstrap
    <2> QED
      BY <1>1, <1>3, <2>1, <2>2, <2>3 DEF AccessTyped, AccessTypeOK
  <1>6. ASSUME NEW c \in Computers, TypeKey(c) \/ Move(c) \/ TokenAges(c)
        PROVE  AccessTyped'
    <2>1. /\ UNCHANGED <<security, client, entry, bundle, audit, staff, granted, denied, overlapped>>
          /\ AccessUsed \/ UNCHANGED accessOps
      BY <1>6 DEF TypeKey, Move, TokenAges
    <2>2. \E d \in Computer : computer' = [computer EXCEPT ![c] = d]
      <3>1. computer[c] \in Computer
        BY <1>1 DEF AccessTypeOK
      <3>2. CASE TypeKey(c)
        <4>1. [computer[c] EXCEPT !.key = security.key] \in Computer
          BY <1>1, <3>1 DEF AccessTypeOK, Security, Computer
        <4> QED
          BY <3>2, <4>1 DEF TypeKey
      <3>3. CASE Move(c)
        <4>1. \A a \in Addresses : [computer[c] EXCEPT !.address = a] \in Computer
          BY <3>1 DEF Computer
        <4>2. PICK a \in Addresses : computer' = [computer EXCEPT ![c].address = a]
          BY <3>3 DEF Move
        <4> QED
          BY <4>1, <4>2
      <3>4. CASE TokenAges(c)
        <4>1. [computer[c] EXCEPT !.token = NoToken] \in Computer
          BY <3>1, FirstTypes DEF Computer
        <4> QED
          BY <3>4, <4>1 DEF TokenAges
      <3> QED
        BY <1>6, <3>2, <3>3, <3>4
    <2>3. computer' \in [Computers -> Computer]
      BY <1>1, <2>2 DEF AccessTypeOK
    <2> QED
      BY <1>1, <1>2, <1>3, <2>1, <2>3 DEF AccessTyped, AccessTypeOK
  <1>7. ASSUME NEW c \in Computers, SetPolicy(c) PROVE AccessTyped'
    <2>1. PICK active \in BOOLEAN, rule \in Rules, targets \in {{c}, Computers} :
            /\ \A d \in targets : ComputerFree(Staff, d)
            /\ client' = [d \in Computers |->
               IF d \in targets THEN [client[d] EXCEPT !.rule = rule,
                   !.active = IF targets = {c} THEN active ELSE @]
               ELSE client[d]]
      BY <1>7 DEF SetPolicy
    <2>2. ASSUME NEW d \in Computers
          PROVE  [client[d] EXCEPT !.rule = rule,
                     !.active = IF targets = {c} THEN active ELSE @] \in Client
      <3>1. PICK b \in BOOLEAN : b = IF targets = {c} THEN active ELSE client[d].active
        BY <1>1 DEF AccessTypeOK, Client
      <3>2. [client[d] EXCEPT !.rule = rule, !.active = b] \in Client
        BY <1>1 DEF AccessTypeOK, Client
      <3>3. client[d] \in Client
        BY <1>1 DEF AccessTypeOK
      <3>4. [client[d] EXCEPT !.rule = rule, !.active = IF targets = {c} THEN active ELSE @]
               = [client[d] EXCEPT !.rule = rule, !.active = b]
        BY <3>1, <3>3 DEF Client
      <3> QED
        BY <3>2, <3>4
    <2>3. client' \in [Computers -> Client]
      BY <1>1, <2>1, <2>2 DEF AccessTypeOK
    <2> QED
      BY <1>1, <1>2, <1>3, <1>7, <2>3 DEF SetPolicy, AccessTyped, AccessTypeOK
  <1>8. ASSUME NEW c \in Computers, NEW a \in Addresses, Reject(c, a) PROVE AccessTyped'
    <2>1. audit' \in [Computers -> [Addresses -> {"none", "pending", "approved", "rejected"}]]
      BY <1>1, <1>8 DEF Reject, AccessTypeOK
    <2> QED
      BY <1>1, <1>2, <1>3, <1>8, <2>1 DEF Reject, AccessTyped, AccessTypeOK
  <1>9. ASSUME NEW s \in Staff, SecurityOpen(s) PROVE AccessTyped'
    <2>1. PICK x \in Security :
            /\ x.revision <= accessOps' + 1
            /\ staff' = [staff EXCEPT ![s] = [IdleStaff EXCEPT
                            !.pc = "security", !.seen = security, !.new = x]]
      BY <1>9, SecuritySaves
    <2>2. PICK w : w = [IdleStaff EXCEPT !.pc = "security", !.seen = security, !.new = x]
      OBVIOUS
    <2>3. w \in StaffWork /\ w.pc = "security" /\ w.new = x
      BY <1>1, <2>2, FirstTypes DEF AccessTypeOK, StaffWork
    <2>4. AccessUsed /\ UNCHANGED <<security, client, entry, bundle, audit, computer,
                                    granted, denied, overlapped>>
      BY <1>9 DEF SecurityOpen
    <2>5. /\ staff' \in [Staff -> StaffWork] /\ StaffInformed'
          /\ \A r \in Staff : staff'[r].new.revision <= accessOps' + 1
      BY <1>2, <2>1, <2>2, <2>3, <2>4, StaffStep DEF Informed, Request
    <2>6. security'.revision <= accessOps' + 1
      BY <1>1, <1>2, <2>4
    <2> QED
      BY <1>1, <1>2, <2>4, <2>5, <2>6 DEF AccessTyped, AccessTypeOK, RevisionsCounted
  <1>10. ASSUME NEW s \in Staff, SecurityWrite(s) PROVE AccessTyped'
    <2>1. /\ staff' \in [Staff -> StaffWork] /\ StaffInformed'
          /\ \A r \in Staff : staff'[r].new.revision <= accessOps' + 1
      BY <1>10, BackToIdle DEF SecurityWrite
    <2>2. security' \in Security /\ security'.revision <= accessOps' + 1
      BY <1>1, <1>10 DEF SecurityWrite, AccessTypeOK, StaffWork
    <2>3. overlapped' \in BOOLEAN
      BY <1>1, <1>10 DEF SecurityWrite, AccessTypeOK
    <2>4. UNCHANGED <<client, entry, bundle, audit, computer, granted, denied, accessOps>>
      BY <1>10 DEF SecurityWrite
    <2> QED
      BY <1>1, <2>1, <2>2, <2>3, <2>4 DEF AccessTyped, AccessTypeOK, RevisionsCounted
  <1>11. ASSUME NEW s \in Staff, AddCommit(s) PROVE AccessTyped'
    <2>1. staff[s].pc \in Request /\ Decide(s) /\ UNCHANGED accessOps
      BY <1>11 DEF AddCommit, Request
    <2>2. /\ staff' \in [Staff -> StaffWork] /\ StaffInformed'
          /\ \A r \in Staff : staff'[r].new.revision <= accessOps' + 1
          /\ entry' \in [Computers -> [Addresses -> {"absent", "active", "inactive"}]]
          /\ granted' \subseteq Rows /\ denied' \subseteq Rows
      BY <2>1, DecideTypes
    <2>3. staff[s].addresses \in Addresses \X Computers
      BY <1>1, <1>11 DEF AddCommit, StaffInformed, Informed, Request
    <2>4. PICK a \in Addresses, c \in Computers :
            a = staff[s].addresses[1] /\ c = staff[s].addresses[2]
      BY <2>3
    <2>5. audit' \in [Computers -> [Addresses -> {"none", "pending", "approved", "rejected"}]]
      BY <1>1, <1>11, <2>4 DEF AddCommit, AccessTypeOK
    <2>6. UNCHANGED <<security, client, bundle, computer, overlapped, accessOps>>
      BY <1>11 DEF AddCommit
    <2> QED
      BY <1>1, <2>2, <2>5, <2>6 DEF AccessTyped, AccessTypeOK, RevisionsCounted
  <1>12. ASSUME NEW s \in Staff, GrantEnable(s) PROVE AccessTyped'
    <2>1. PICK c \in Computers : c = staff[s].addresses[2]
      BY <1>1, <1>12 DEF GrantEnable, StaffInformed, Informed, Request
    <2>2. client' \in [Computers -> Client]
      <3>1. [client[c] EXCEPT !.active = TRUE] \in Client
        BY <1>1 DEF AccessTypeOK, Client
      <3>2. client' = [client EXCEPT ![c].active = TRUE]
        BY <1>12, <2>1 DEF GrantEnable
      <3> QED
        BY <1>1, <3>1, <3>2 DEF AccessTypeOK
    <2>3. PICK w : w = [staff[s] EXCEPT !.pc = "add"]
      OBVIOUS
    <2>4. /\ w \in StaffWork /\ w.pc = "add" /\ w.known = staff[s].known
          /\ w.addresses = staff[s].addresses /\ w.new = staff[s].new
          /\ w.targets = staff[s].targets /\ w.left = staff[s].left /\ w.on = staff[s].on
          /\ w.off = staff[s].off /\ w.led = staff[s].led
      <3>1. staff[s] \in StaffWork
        BY <1>1 DEF AccessTypeOK
      <3> QED
        BY <2>3, <3>1 DEF StaffWork
    <2>5. Informed(w)
      <3>1. staff[s].pc \in Request \ {"list"} /\ Informed(staff[s])
        BY <1>1, <1>12 DEF GrantEnable, StaffInformed, Request
      <3> QED
        BY <2>4, <3>1 DEF Informed
    <2>6. staff' = [staff EXCEPT ![s] = w]
      BY <1>12, <2>3 DEF GrantEnable
    <2>7. UNCHANGED <<security, entry, bundle, audit, computer, granted, denied, overlapped, accessOps>>
      BY <1>12 DEF GrantEnable
    <2>8. /\ staff' \in [Staff -> StaffWork] /\ StaffInformed'
          /\ \A r \in Staff : staff'[r].new.revision <= accessOps' + 1
      BY <1>1, <2>4, <2>5, <2>6, <2>7, StaffStep
    <2> QED
      BY <1>1, <2>2, <2>7, <2>8 DEF AccessTyped, AccessTypeOK, RevisionsCounted
  <1>13. ASSUME NEW s \in Staff, ListCommit(s) PROVE AccessTyped'
    <2>1. staff[s].pc \in Request /\ Decide(s) /\ UNCHANGED accessOps
      BY <1>13 DEF ListCommit, Request
    <2>2. /\ staff' \in [Staff -> StaffWork] /\ StaffInformed'
          /\ \A r \in Staff : staff'[r].new.revision <= accessOps' + 1
          /\ entry' \in [Computers -> [Addresses -> {"absent", "active", "inactive"}]]
          /\ granted' \subseteq Rows /\ denied' \subseteq Rows
      BY <2>1, DecideTypes
    <2>3. PICK first \in Addresses : first = staff[s].addresses[1]
      BY <1>1, <1>13 DEF ListCommit, StaffInformed, Informed
    <2>4. client' \in [Computers -> Client]
      <3>1. \A c \in Computers : [client[c] EXCEPT !.primary = first] \in Client
        BY <1>1 DEF AccessTypeOK, Client
      <3> QED
        BY <1>1, <1>13, <2>3, <3>1 DEF ListCommit, AccessTypeOK
    <2>5. UNCHANGED <<security, bundle, audit, computer, overlapped, accessOps>>
      BY <1>13 DEF ListCommit
    <2> QED
      BY <1>1, <2>2, <2>4, <2>5 DEF AccessTyped, AccessTypeOK, RevisionsCounted
  <1>14. ASSUME NEW s \in Staff, RequestFails(s) PROVE AccessTyped'
    <2>1. /\ staff' \in [Staff -> StaffWork] /\ StaffInformed'
          /\ \A r \in Staff : staff'[r].new.revision <= accessOps' + 1
      BY <1>14, BackToIdle DEF RequestFails, RollBack
    <2>2. UNCHANGED <<security, client, entry, bundle, audit, computer, granted, denied,
                      overlapped, accessOps>>
      BY <1>14 DEF RequestFails, RollBack
    <2> QED
      BY <1>1, <2>1, <2>2 DEF AccessTyped, AccessTypeOK, RevisionsCounted
  <1>15. ASSUME NEW s \in Staff, NEW c \in Computers, NEW a \in Addresses,
                AddRow(s, c, a) \/ ListRow(s, c, a)
         PROVE  AccessTyped'
    <2>1. PICK w \in StaffWork : /\ Informed(w) /\ staff' = [staff EXCEPT ![s] = w]
                                 /\ w.new = staff[s].new
      <3>1. CASE AddRow(s, c, a)
        BY <3>1, AddRowWork
      <3>2. CASE ListRow(s, c, a)
        BY <3>2, ListRowWork
      <3> QED
        BY <1>15, <3>1, <3>2
    <2>2. UNCHANGED <<security, client, entry, bundle, audit, computer, granted, denied,
                      overlapped, accessOps>>
      BY <1>15 DEF AddRow, ListRow
    <2> QED
      BY <2>1, <2>2, WorkTypes
  <1>16. ASSUME NEW s \in Staff, NEW c \in Computers, ListClear(s, c) PROVE AccessTyped'
    <2>1. PICK w \in StaffWork : /\ Informed(w) /\ staff' = [staff EXCEPT ![s] = w]
                                 /\ w.new = staff[s].new
      BY <1>16, ListClearWork
    <2>2. UNCHANGED <<security, client, entry, bundle, audit, computer, granted, denied,
                      overlapped, accessOps>>
      BY <1>16 DEF ListClear
    <2> QED
      BY <2>1, <2>2, WorkTypes
  <1>17. ASSUME NEW s \in Staff, NEW c \in Computers,
                AddOpen(s, c) \/ GrantOpen(s, c) \/ ListOpen(s, c)
         PROVE  AccessTyped'
    <2>1. PICK w \in StaffWork : /\ Informed(w) /\ w.new = IdleStaff.new
                                 /\ Open(s, w)
      BY <1>17, RequestOpens
    <2> QED
      BY <2>1, OpenTypes
  <1> QED
    BY <1>4, <1>5, <1>6, <1>7, <1>8, <1>9, <1>10, <1>11, <1>12, <1>13, <1>14, <1>15,
       <1>16, <1>17 DEF AccessNext

-----------------------------------------------------------------------------
(* Keys, revisions and tokens.                                              *)

\* A save that succeeds the row it read keeps every token in its order.
LEMMA TokensSurviveSave ==
  ASSUME NEW old \in Security, NEW new \in Security, NEW t \in Token,
         TokenFollows(t, old), Succeeds(old, new)
  PROVE  TokenFollows(t, new)
  <1>1. old.revision \in Nat /\ new.revision \in Nat /\ t.revision \in Nat
    BY AccessAssumption DEF Security, Token, KeyRevisions
  <1> QED
    BY <1>1 DEF TokenFollows, Succeeds

\* A step that leaves the sessions, the security row and the overlaps alone and
\* gives a computer a token for the current revision, if any.
LEMMA TokensStep ==
  ASSUME AccessTyped, SavesSucceed, TokensFollowKeys,
         UNCHANGED <<security, staff, overlapped>>,
         \A c \in Computers : \/ computer'[c].token = computer[c].token
                              \/ TokenFollows(computer'[c].token, security)
  PROVE  SavesSucceed' /\ TokensFollowKeys'
  BY DEF SavesSucceed, TokensFollowKeys

\* A session that opens or passes on a request about addresses.
LEMMA AddressWork ==
  ASSUME AccessTyped, SavesSucceed, TokensFollowKeys, NEW s \in Staff, NEW w,
         staff' = [staff EXCEPT ![s] = w], w.pc # "security",
         UNCHANGED <<security, computer>>, overlapped => overlapped'
  PROVE  SavesSucceed' /\ TokensFollowKeys'
  <1>1. \A r \in Staff : staff'[r] = staff[r] \/ staff'[r] = w
    BY DEF AccessTyped, AccessTypeOK
  <1>2. SavesSucceed'
    BY <1>1 DEF SavesSucceed
  <1>3. ~overlapped' => ~overlapped
    OBVIOUS
  <1> QED
    BY <1>2, <1>3 DEF TokensFollowKeys

\* No step confuses the keys of two tokens of one revision.
LEMMA AccessStepKeys ==
  ASSUME AccessTyped, SavesSucceed, TokensFollowKeys, AccessNext
  PROVE  SavesSucceed' /\ TokensFollowKeys'
  <1>1. computer \in [Computers -> Computer] /\ staff \in [Staff -> StaffWork]
    BY DEF AccessTyped, AccessTypeOK
  <1>2. ASSUME SaveBundle \/ \E c \in Computers : SetPolicy(c) \/ \E a \in Addresses : Reject(c, a)
        PROVE  SavesSucceed' /\ TokensFollowKeys'
    <2>1. UNCHANGED <<security, staff, overlapped, computer>>
      BY <1>2 DEF SaveBundle, SetPolicy, Reject
    <2> QED
      BY <2>1, TokensStep
  <1>3. ASSUME NEW c \in Computers, Bootstrap(c)
        PROVE  SavesSucceed' /\ TokensFollowKeys'
    <2>1. UNCHANGED <<security, staff, overlapped>>
      BY <1>3 DEF Bootstrap
    <2>2. ASSUME NEW d \in Computers
          PROVE  \/ computer'[d].token = computer[d].token
                 \/ TokenFollows(computer'[d].token, security)
      <3>1. CASE UNCHANGED computer
        BY <3>1
      <3>2. ASSUME NEW t \in Token, computer' = [computer EXCEPT ![c].token = t],
                   TokenFollows(t, security)
            PROVE  \/ computer'[d].token = computer[d].token
                   \/ TokenFollows(computer'[d].token, security)
        <4>1. CASE d = c
          <5>1. computer'[c].token = t
            BY <1>1, <3>2 DEF Computer
          <5> QED
            BY <3>2, <4>1, <5>1
        <4>2. CASE d # c
          BY <1>1, <3>2, <4>2
        <4> QED
          BY <4>1, <4>2
      <3> QED
        BY <1>3, <3>1, <3>2, Issued
    <2> QED
      BY <2>1, <2>2, TokensStep
  <1>4. ASSUME NEW c \in Computers, TypeKey(c) \/ Move(c) \/ TokenAges(c)
        PROVE  SavesSucceed' /\ TokensFollowKeys'
    <2>1. UNCHANGED <<security, staff, overlapped>>
      BY <1>4 DEF TypeKey, Move, TokenAges
    <2>2. ASSUME NEW d \in Computers
          PROVE  \/ computer'[d].token = computer[d].token
                 \/ computer'[d].token = NoToken
      <3>1. CASE TypeKey(c) \/ Move(c)
        BY <1>1, <3>1 DEF TypeKey, Move, Computer
      <3>2. CASE TokenAges(c)
        BY <1>1, <3>2 DEF TokenAges, Computer
      <3> QED
        BY <1>4, <3>1, <3>2
    <2>3. TokenFollows(NoToken, security)
      BY FirstTypes DEF TokenFollows
    <2> QED
      BY <2>1, <2>2, <2>3, TokensStep
  <1>5. ASSUME NEW s \in Staff, SecurityOpen(s)
        PROVE  SavesSucceed' /\ TokensFollowKeys'
    <2>1. PICK x \in Security :
            /\ Succeeds(security, x)
            /\ staff' = [staff EXCEPT ![s] = [IdleStaff EXCEPT
                            !.pc = "security", !.seen = security, !.new = x]]
      BY <1>5, SecuritySaves
    <2>2. staff'[s].seen = security /\ staff'[s].new = x
      BY <1>1, <2>1, FirstTypes DEF StaffWork
    <2>3. \A r \in Staff \ {s} : staff'[r] = staff[r]
      BY <1>1, <2>1
    <2>4. SavesSucceed'
      BY <2>1, <2>2, <2>3 DEF SavesSucceed
    <2>5. UNCHANGED <<security, computer, overlapped>>
      BY <1>5 DEF SecurityOpen
    <2> QED
      BY <2>4, <2>5 DEF TokensFollowKeys
  <1>6. ASSUME NEW s \in Staff, SecurityWrite(s)
        PROVE  SavesSucceed' /\ TokensFollowKeys'
    <2>1. /\ staff[s].pc = "security" /\ security' = staff[s].new
          /\ staff' = [staff EXCEPT ![s] = IdleStaff]
          /\ UNCHANGED computer
      BY <1>6 DEF SecurityWrite
    <2>2. \A r \in Staff : staff'[r] = staff[r] \/ staff'[r] = IdleStaff
      BY <1>1, <2>1
    <2>3. SavesSucceed'
      BY <2>2, FirstTypes DEF SavesSucceed
    <2>4. ASSUME ~overlapped', NEW c \in Computers
          PROVE  TokenFollows(computer[c].token, security')
      <3>1. ~overlapped /\ security = staff[s].seen
        BY <1>6, <2>4 DEF SecurityWrite
      <3>2. Succeeds(security, security')
        BY <2>1, <3>1 DEF SavesSucceed
      <3>3. TokenFollows(computer[c].token, security)
        BY <3>1 DEF TokensFollowKeys
      <3>4. security \in Security /\ security' \in Security /\ computer[c].token \in Token
        BY <1>1, <2>1 DEF AccessTyped, AccessTypeOK, StaffWork, Computer
      <3> QED
        BY <3>2, <3>3, <3>4, TokensSurviveSave
    <2>5. TokensFollowKeys'
      BY <2>1, <2>4 DEF TokensFollowKeys
    <2> QED
      BY <2>3, <2>5
  <1>7. ASSUME NEW s \in Staff, AddCommit(s) \/ ListCommit(s)
        PROVE  SavesSucceed' /\ TokensFollowKeys'
    <2>1. staff[s].pc \in Request /\ Decide(s) /\ UNCHANGED <<security, computer, overlapped>>
      BY <1>7 DEF AddCommit, ListCommit, Request
    <2>2. SavesSucceed'
      BY <2>1, DecideStaff, FirstTypes DEF SavesSucceed
    <2> QED
      BY <2>1, <2>2 DEF TokensFollowKeys
  <1>8. ASSUME NEW s \in Staff, GrantEnable(s) \/ RequestFails(s)
        PROVE  SavesSucceed' /\ TokensFollowKeys'
    <2>1. PICK w : /\ staff' = [staff EXCEPT ![s] = w]
                   /\ w = IdleStaff \/ w = [staff[s] EXCEPT !.pc = "add"]
      <3>1. CASE RequestFails(s)
        BY <3>1 DEF RequestFails, RollBack
      <3>2. CASE GrantEnable(s)
        <4>1. staff' = [staff EXCEPT ![s] = [staff[s] EXCEPT !.pc = "add"]]
          BY <3>2 DEF GrantEnable
        <4> QED
          BY <4>1
      <3> QED
        BY <1>8, <3>1, <3>2
    <2>2. w.pc # "security"
      BY <1>1, <2>1, FirstTypes DEF StaffWork
    <2>3. UNCHANGED <<security, computer, overlapped>>
      BY <1>8 DEF RequestFails, RollBack, GrantEnable
    <2> QED
      BY <2>1, <2>2, <2>3, AddressWork
  <1>9. ASSUME NEW s \in Staff, NEW c \in Computers,
               AddOpen(s, c) \/ GrantOpen(s, c) \/ ListOpen(s, c)
        PROVE  SavesSucceed' /\ TokensFollowKeys'
    <2>1. PICK w \in StaffWork : w.pc \in Request /\ Open(s, w)
      BY <1>9, RequestOpens
    <2> QED
      BY <2>1, AddressWork DEF Open, Request
  <1>10. ASSUME NEW s \in Staff, NEW c \in Computers, NEW a \in Addresses,
                AddRow(s, c, a) \/ ListRow(s, c, a) \/ ListClear(s, c)
        PROVE  SavesSucceed' /\ TokensFollowKeys'
    <2>1. PICK w \in StaffWork : staff' = [staff EXCEPT ![s] = w] /\ w.pc # "security"
      <3>1. CASE AddRow(s, c, a)
        <4>1. staff[s].pc # "security"
          BY <3>1 DEF AddRow
        <4>2. PICK w \in StaffWork :
                /\ Informed(w) /\ staff' = [staff EXCEPT ![s] = w]
                /\ w.pc = staff[s].pc /\ w.targets = staff[s].targets
          BY <3>1, AddRowWork
        <4> QED
          BY <4>1, <4>2
      <3> QED
        BY <1>10, <3>1, ListRowWork, ListClearWork
    <2>2. UNCHANGED <<security, computer, overlapped>>
      BY <1>10 DEF AddRow, ListRow, ListClear
    <2> QED
      BY <2>1, <2>2, AddressWork
  <1>11. ASSUME NEW s \in Staff, NEW c \in Computers, ListClear(s, c)
        PROVE  SavesSucceed' /\ TokensFollowKeys'
    <2>1. PICK a \in Addresses : TRUE
      BY AccessAssumption
    <2> QED
      BY <1>10, <1>11, <2>1
  <1> QED
    BY <1>2, <1>3, <1>4, <1>5, <1>6, <1>7, <1>8, <1>9, <1>10, <1>11 DEF AccessNext

-----------------------------------------------------------------------------
(* Addresses.                                                               *)

\* A commit switches on and off the rows it has written, and leads with its first
\* address where it says so.
LEMMA Commits ==
  ASSUME AccessTyped, NEW s \in Staff, AddCommit(s) \/ ListCommit(s)
  PROVE  /\ staff[s].pc \in Request /\ Decide(s) /\ staff[s].left = {}
         /\ \A c \in Computers, a \in Addresses :
               entry'[c][a] = IF <<c, a>> \in staff[s].on THEN "active"
                              ELSE IF <<c, a>> \in staff[s].off THEN "inactive"
                              ELSE entry[c][a]
         /\ \A c \in Computers :
               client'[c].primary = IF c \in staff[s].led THEN staff[s].addresses[1]
                                    ELSE client[c].primary
  <1>1. staff[s].pc \in Request /\ Decide(s) /\ staff[s].left = {}
    BY DEF AddCommit, ListCommit, Request
  <1>2. \A c \in Computers, a \in Addresses :
               entry'[c][a] = IF <<c, a>> \in staff[s].on THEN "active"
                              ELSE IF <<c, a>> \in staff[s].off THEN "inactive"
                              ELSE entry[c][a]
    BY <1>1 DEF Decide
  <1>3. ASSUME NEW c \in Computers
        PROVE  client'[c].primary = IF c \in staff[s].led THEN staff[s].addresses[1]
                                    ELSE client[c].primary
    <2>1. CASE AddCommit(s)
      <3>1. staff[s].led = {}
        BY <1>1, <2>1 DEF AddCommit, AccessTyped, StaffInformed, Informed
      <3> QED
        BY <2>1, <3>1 DEF AddCommit
    <2>2. CASE ListCommit(s)
      <3>1. client[c] \in Client
        BY DEF AccessTyped, AccessTypeOK
      <3> QED
        BY <2>2, <3>1 DEF ListCommit, Client
    <2> QED
      BY <2>1, <2>2
  <1> QED
    BY <1>1, <1>2, <1>3

\* What a list has led with and switched on, when it commits.
LEMMA ListCommits ==
  ASSUME AccessTyped, RequestsReach, NEW s \in Staff, ListCommit(s)
  PROVE  /\ staff[s].addresses[1] \in Addresses
         /\ staff[s].addresses[1] \notin staff[s].addresses[2]
         /\ staff[s].led = {c \in staff[s].targets : staff[s].known[c] # staff[s].addresses[1]}
         /\ \A c \in staff[s].targets, a \in Addresses :
               IF a \in staff[s].addresses[2] THEN <<c, a>> \in staff[s].on
               ELSE /\ <<c, a>> \notin staff[s].on
                    /\ \/ <<c, a>> \in staff[s].off \/ entry[c][a] # "active"
                       \/ <<c, a>> \in staff[s].allowed
         /\ \A c \in Computers \ staff[s].targets, a \in Addresses :
               <<c, a>> \notin staff[s].on \cup staff[s].off
  <1>1. /\ staff[s].pc = "list" /\ staff[s].todo = {} /\ staff[s].left = {}
    BY DEF ListCommit
  <1>2. Informed(staff[s]) /\ ListReaches(s)
    BY DEF AccessTyped, StaffInformed, RequestsReach
  <1> QED
    BY <1>1, <1>2 DEF Informed, ListReaches

\* What is admitted before a commit and not after it, the commit refuses.
LEMMA CommitRefuses ==
  ASSUME AccessTyped, RequestsReach, NEW s \in Staff, AddCommit(s) \/ ListCommit(s),
         NEW c \in Computers, NEW a \in Addresses,
         a \in Admitted(c), a \notin Admitted(c)'
  PROVE  <<c, a>> \in Refuses(s)
  <1>1. entry'[c][a] # "active" /\ client'[c].primary # a
    BY DEF Admitted
  <1>2. CASE AddCommit(s)
    <2>1. staff[s].off = {} /\ staff[s].led = {}
      BY <1>2 DEF AddCommit, AccessTyped, StaffInformed, Informed, Request
    <2> QED
      BY <1>1, <2>1, Commits DEF Admitted
  <1>3. CASE ListCommit(s)
    <2>1. c \in staff[s].targets
      <3>1. SUFFICES ASSUME c \notin staff[s].targets PROVE FALSE
        OBVIOUS
      <3>2. c \notin staff[s].led /\ <<c, a>> \notin staff[s].on \cup staff[s].off
        BY <1>3, <3>1, ListCommits
      <3> QED
        BY <1>1, <3>2, Commits DEF Admitted
    <2>2. a \notin staff[s].addresses[2]
      BY <1>1, <1>3, <2>1, Commits, ListCommits
    <2>3. ASSUME a = staff[s].addresses[1]
          PROVE  staff[s].known[c] = a /\ client[c].primary # a
      <3>1. c \notin staff[s].led
        BY <1>1, <2>3, Commits
      <3> QED
        BY <1>1, <1>3, <2>1, <2>3, <3>1, Commits, ListCommits
    <2>4. staff[s].pc = "list"
      BY <1>3 DEF ListCommit
    <2> QED
      BY <2>1, <2>2, <2>3, <2>4 DEF Refuses
  <1> QED
    BY <1>2, <1>3

\* What a commit makes active or primary, it allows.
LEMMA CommitAllows ==
  ASSUME AccessTyped, RequestsReach, NEW s \in Staff, AddCommit(s) \/ ListCommit(s),
         NEW c \in Computers
  PROVE  /\ \A a \in Addresses :
               entry'[c][a] = "active" /\ entry[c][a] # "active" => <<c, a>> \in Allows(s)
         /\ client'[c].primary # client[c].primary => <<c, client'[c].primary>> \in Allows(s)
  <1>1. staff[s].on \subseteq Allows(s)
    BY Commits DEF Allows, AccessTyped, StaffInformed, Informed
  <1>2. c \in staff[s].led => <<c, staff[s].addresses[1]>> \in Allows(s)
    <2>1. CASE AddCommit(s)
      BY <2>1 DEF AddCommit, AccessTyped, StaffInformed, Informed, Request
    <2>2. CASE ListCommit(s)
      BY <2>2, ListCommits DEF ListCommit, Allows
    <2> QED
      BY <2>1, <2>2
  <1>3. ASSUME NEW a \in Addresses, entry'[c][a] = "active", entry[c][a] # "active"
        PROVE  <<c, a>> \in Allows(s)
    BY <1>1, <1>3, Commits
  <1> QED
    BY <1>2, <1>3, Commits

\* A commit leaves the other requests informed of what it has decided.
LEMMA CommitReaches ==
  ASSUME AccessTyped, RequestsReach, NEW s \in Staff, AddCommit(s) \/ ListCommit(s)
  PROVE  RequestsReach'
  <1>1. staff[s].pc \in Request /\ Decide(s)
    BY Commits
  <1>2. staff'[s].pc \notin Request
    BY <1>1, DecideStaff, FirstTypes DEF Request
  <1>3. ASSUME NEW r \in Staff \ {s}, staff[r].pc \in Request
        PROVE  KnownToldOf(r)' /\ AddsReach(r)' /\ ListReaches(r)'
    <2>1. /\ staff'[r].pc = staff[r].pc /\ staff'[r].targets = staff[r].targets
          /\ staff'[r].known = staff[r].known /\ staff'[r].addresses = staff[r].addresses
          /\ staff'[r].todo = staff[r].todo /\ staff'[r].left = staff[r].left
          /\ staff'[r].on = staff[r].on /\ staff'[r].off = staff[r].off
          /\ staff'[r].allowed = staff[r].allowed \cup Allows(s)
          /\ staff'[r].refused = staff[r].refused \cup Refuses(s)
      BY <1>1, <1>3, DecideStaff
    <2>2. /\ staff[r].known \in [Computers -> Addresses]
          /\ staff[r].targets \in SUBSET Computers
          /\ staff[r].pc # "list" => staff[r].addresses[1] \in Addresses
      BY <1>3 DEF AccessTyped, AccessTypeOK, StaffWork, StaffInformed, Informed, Request
    <2>3. KnownToldOf(r) /\ AddsReach(r) /\ ListReaches(r)
      BY DEF RequestsReach
    <2>4. ASSUME NEW c \in Computers, NEW a \in Addresses,
                 a \in Admitted(c) \/ <<c, a>> \in staff[r].refused
          PROVE  a \in Admitted(c)' \/ <<c, a>> \in staff'[r].refused
      BY <2>1, <2>4, CommitRefuses
    <2>5. KnownToldOf(r)'
      <3>1. ASSUME NEW c \in Computers
            PROVE  /\ staff'[r].known[c] \in Admitted(c)'
                         \/ <<c, staff'[r].known[c]>> \in staff'[r].refused
                   /\ client'[c].primary = staff'[r].known[c]
                         \/ <<c, client'[c].primary>> \in staff'[r].allowed
        <4>1. staff[r].known[c] \in Admitted(c) \/ <<c, staff[r].known[c]>> \in staff[r].refused
          BY <1>3, <2>3 DEF KnownToldOf
        <4>2. client[c].primary = staff[r].known[c]
                 \/ <<c, client[c].primary>> \in staff[r].allowed
          BY <1>3, <2>3 DEF KnownToldOf
        <4>3. client'[c].primary # client[c].primary => <<c, client'[c].primary>> \in Allows(s)
          BY CommitAllows
        <4>4. staff[r].known[c] \in Addresses
          BY <2>2
        <4>5. staff[r].known[c] \in Admitted(c)'
                 \/ <<c, staff[r].known[c]>> \in staff'[r].refused
          BY <2>4, <4>1, <4>4
        <4> QED
          BY <2>1, <4>2, <4>3, <4>5
      <3> QED
        BY <3>1 DEF KnownToldOf
    <2>6. AddsReach(r)'
      <3>1. ASSUME staff[r].pc \in Request \ {"list"}, NEW c \in staff[r].targets
            PROVE  \/ <<c, staff[r].addresses[1]>> \in staff[r].left \cup staff[r].on
                   \/ staff[r].addresses[1] \in Admitted(c)'
                   \/ <<c, staff[r].addresses[1]>> \in staff'[r].refused
        <4>1. \/ <<c, staff[r].addresses[1]>> \in staff[r].left \cup staff[r].on
              \/ staff[r].addresses[1] \in Admitted(c)
              \/ <<c, staff[r].addresses[1]>> \in staff[r].refused
          BY <2>3, <3>1 DEF AddsReach
        <4>2. c \in Computers /\ staff[r].addresses[1] \in Addresses
          BY <2>2, <3>1
        <4> QED
          BY <2>4, <4>1, <4>2
      <3> QED
        BY <2>1, <3>1 DEF AddsReach
    <2>7. ListReaches(r)'
      <3>1. ASSUME staff[r].pc = "list", NEW c \in staff[r].targets \ staff[r].todo,
                   NEW a \in Addresses
            PROVE  IF a \in staff[r].addresses[2]
                   THEN <<c, a>> \in staff[r].left \cup staff[r].on
                   ELSE \/ <<c, a>> \in staff[r].off \/ entry'[c][a] # "active"
                        \/ <<c, a>> \in staff'[r].allowed
        <4>1. IF a \in staff[r].addresses[2]
              THEN <<c, a>> \in staff[r].left \cup staff[r].on
              ELSE \/ <<c, a>> \in staff[r].off \/ entry[c][a] # "active"
                   \/ <<c, a>> \in staff[r].allowed
          BY <2>3, <3>1 DEF ListReaches
        <4>2. c \in Computers
          BY <2>2
        <4>3. entry'[c][a] = "active" /\ entry[c][a] # "active" => <<c, a>> \in Allows(s)
          BY <4>2, CommitAllows
        <4> QED
          BY <2>1, <4>1, <4>3
      <3> QED
        BY <2>1, <3>1 DEF ListReaches
    <2> QED
      BY <2>5, <2>6, <2>7
  <1>4. ASSUME NEW r \in Staff \ {s}, staff[r].pc \notin Request
        PROVE  staff'[r].pc \notin Request
    BY <1>1, <1>4, DecideStaff
  <1>5. ASSUME NEW r \in Staff, staff'[r].pc \notin Request
        PROVE  KnownToldOf(r)' /\ AddsReach(r)' /\ ListReaches(r)'
    BY <1>5 DEF KnownToldOf, AddsReach, ListReaches, Request
  <1> QED
    BY <1>2, <1>3, <1>4, <1>5 DEF RequestsReach

\* A step of one session that changes nothing that is admitted.
LEMMA OneReaches ==
  ASSUME AccessTyped, RequestsReach, NEW s \in Staff, NEW w,
         staff' = [staff EXCEPT ![s] = w], UNCHANGED entry,
         \A c \in Computers : client'[c].primary = client[c].primary,
         w.pc \in Request => KnownToldOf(s)' /\ AddsReach(s)' /\ ListReaches(s)'
  PROVE  RequestsReach'
  <1>1. staff'[s] = w /\ \A r \in Staff \ {s} : staff'[r] = staff[r]
    BY DEF AccessTyped, AccessTypeOK
  <1>2. w.pc \notin Request => KnownToldOf(s)' /\ AddsReach(s)' /\ ListReaches(s)'
    BY <1>1 DEF KnownToldOf, AddsReach, ListReaches, Request
  <1>3. \A c \in Computers : Admitted(c)' = Admitted(c)
    BY DEF Admitted
  <1>4. ASSUME NEW r \in Staff \ {s}
        PROVE  KnownToldOf(r)' /\ AddsReach(r)' /\ ListReaches(r)'
    <2>1. KnownToldOf(r) /\ AddsReach(r) /\ ListReaches(r) /\ staff'[r] = staff[r]
      BY <1>1 DEF RequestsReach
    <2>2. staff[r].targets \in SUBSET Computers
      BY DEF AccessTyped, AccessTypeOK, StaffWork
    <2>3. KnownToldOf(r)'
      BY <1>3, <2>1 DEF KnownToldOf
    <2>4. AddsReach(r)'
      BY <1>3, <2>1, <2>2 DEF AddsReach
    <2>5. ListReaches(r)'
      BY <2>1 DEF ListReaches
    <2> QED
      BY <2>3, <2>4, <2>5
  <1> QED
    BY <1>2, <1>4 DEF RequestsReach

\* Nor do steps that leave the sessions alone.
LEMMA OthersReach ==
  ASSUME AccessTyped, RequestsReach, UNCHANGED <<staff, entry>>,
         \A c \in Computers : client'[c].primary = client[c].primary
  PROVE  RequestsReach'
  <1>1. \A c \in Computers : Admitted(c)' = Admitted(c)
    BY DEF Admitted
  <1>2. \A r \in Staff : staff[r].targets \in SUBSET Computers
    BY DEF AccessTyped, AccessTypeOK, StaffWork
  <1>3. ASSUME NEW r \in Staff PROVE KnownToldOf(r)' /\ AddsReach(r)' /\ ListReaches(r)'
    <2>1. KnownToldOf(r) /\ AddsReach(r) /\ ListReaches(r)
      BY DEF RequestsReach
    <2>2. KnownToldOf(r)'
      BY <1>1, <2>1 DEF KnownToldOf
    <2>3. AddsReach(r)'
      BY <1>1, <1>2, <2>1 DEF AddsReach
    <2>4. ListReaches(r)'
      BY <2>1 DEF ListReaches
    <2> QED
      BY <2>2, <2>3, <2>4
  <1> QED
    BY <1>3 DEF RequestsReach

\* Steps that do not set a primary address.
LEMMA PolicySparesPrimary ==
  ASSUME AccessTyped, NEW c \in Computers, SetPolicy(c)
  PROVE  \A d \in Computers : client'[d].primary = client[d].primary
  <1>1. PICK active \in BOOLEAN, rule \in Rules, targets \in {{c}, Computers} :
        /\ \A d \in targets : ComputerFree(Staff, d)
        /\ client' = [d \in Computers |->
             IF d \in targets THEN [client[d] EXCEPT !.rule = rule,
                 !.active = IF targets = {c} THEN active ELSE @]
             ELSE client[d]]
    BY DEF SetPolicy
  <1>2. SUFFICES ASSUME NEW d \in Computers
                 PROVE  client'[d].primary = client[d].primary
    OBVIOUS
  <1>3. client[d] \in Client
    BY DEF AccessTyped, AccessTypeOK
  <1>4. \A b : [client[d] EXCEPT !.rule = rule, !.active = b].primary = client[d].primary
    BY <1>3 DEF Client
  <1>5. PICK b : b = IF targets = {c} THEN active ELSE client[d].active
    OBVIOUS
  <1>6. [client[d] EXCEPT !.rule = rule, !.active = IF targets = {c} THEN active ELSE @]
           = [client[d] EXCEPT !.rule = rule, !.active = b]
    BY <1>3, <1>5 DEF Client
  <1> QED
    BY <1>1, <1>4, <1>6

\* Enabling a computer leaves its address as it is.
LEMMA EnableSparesPrimary ==
  ASSUME AccessTyped, NEW s \in Staff, GrantEnable(s)
  PROVE  \A d \in Computers : client'[d].primary = client[d].primary
  BY DEF GrantEnable, AccessTyped, AccessTypeOK, Client

\* Every step keeps the requests informed of what they will have to take over.
LEMMA AccessStepReaches ==
  ASSUME AccessTyped, RequestsReach, AccessNext
  PROVE  RequestsReach'
  <1>1. staff \in [Staff -> StaffWork]
    BY DEF AccessTyped, AccessTypeOK
  <1>2. ASSUME NEW c \in Computers, SetPolicy(c) PROVE RequestsReach'
    BY <1>2, PolicySparesPrimary, OthersReach DEF SetPolicy
  <1>3. ASSUME UNCHANGED <<staff, client, entry>> PROVE RequestsReach'
    BY <1>3, OthersReach
  <1>4. ASSUME NEW s \in Staff, SecurityOpen(s) PROVE RequestsReach'
    <2>1. PICK x \in Security :
            staff' = [staff EXCEPT ![s] = [IdleStaff EXCEPT
                            !.pc = "security", !.seen = security, !.new = x]]
      BY <1>4, SecuritySaves
    <2>2. PICK w : w = [IdleStaff EXCEPT !.pc = "security", !.seen = security, !.new = x]
      OBVIOUS
    <2>3. w.pc \notin Request
      BY <2>2, FirstTypes DEF StaffWork, Request
    <2> QED
      BY <1>4, <2>1, <2>2, <2>3, OneReaches DEF SecurityOpen
  <1>5. ASSUME NEW s \in Staff, SecurityWrite(s) \/ RequestFails(s) PROVE RequestsReach'
    <2>1. /\ staff' = [staff EXCEPT ![s] = IdleStaff] /\ UNCHANGED <<client, entry>>
      BY <1>5 DEF SecurityWrite, RequestFails, RollBack
    <2> QED
      BY <2>1, FirstTypes, OneReaches DEF Request
  <1>6. ASSUME NEW s \in Staff, GrantEnable(s) PROVE RequestsReach'
    <2>1. PICK w : w = [staff[s] EXCEPT !.pc = "add"]
      OBVIOUS
    <2>2. /\ w.pc = "add" /\ w.known = staff[s].known /\ w.targets = staff[s].targets
          /\ w.addresses = staff[s].addresses /\ w.left = staff[s].left /\ w.on = staff[s].on
          /\ w.allowed = staff[s].allowed /\ w.refused = staff[s].refused
      BY <1>1, <2>1 DEF StaffWork
    <2>3. /\ staff' = [staff EXCEPT ![s] = w] /\ staff[s].pc = "enable" /\ UNCHANGED entry
      BY <1>6, <2>1 DEF GrantEnable
    <2>4. staff'[s] = w
      BY <1>1, <2>3
    <2>5. \A c \in Computers : Admitted(c)' = Admitted(c) /\ client'[c].primary = client[c].primary
      BY <1>6, <2>3, EnableSparesPrimary DEF Admitted
    <2>6. staff[s].targets \in SUBSET Computers
      BY <1>1 DEF StaffWork
    <2>7. KnownToldOf(s)'
      BY <2>2, <2>3, <2>4, <2>5 DEF RequestsReach, KnownToldOf, Request
    <2>8. AddsReach(s)' /\ ListReaches(s)'
      BY <2>2, <2>3, <2>4, <2>5, <2>6 DEF RequestsReach, AddsReach, ListReaches, Request
    <2> QED
      BY <2>3, <2>5, <2>7, <2>8, OneReaches
  <1>7. ASSUME NEW s \in Staff, NEW c \in Computers,
               AddOpen(s, c) \/ GrantOpen(s, c) \/ ListOpen(s, c)
        PROVE  RequestsReach'
    <2>1. PICK w \in StaffWork :
            /\ w.known = Primaries
            /\ w.pc # "list" => w.left = w.targets \X {w.addresses[1]}
            /\ w.pc = "list" => w.todo = w.targets
            /\ Open(s, w)
      BY <1>7, RequestOpens
    <2>2. staff' = [staff EXCEPT ![s] = w] /\ UNCHANGED <<client, entry>>
      BY <2>1 DEF Open
    <2>3. staff'[s] = w
      BY <1>1, <2>2
    <2>4. \A d \in Computers : client'[d].primary = w.known[d] /\ w.known[d] \in Admitted(d)'
      BY <2>1, <2>2 DEF Primaries, Admitted
    <2>5. KnownToldOf(s)'
      BY <2>3, <2>4 DEF KnownToldOf
    <2>6. AddsReach(s)' /\ ListReaches(s)'
      BY <2>1, <2>3 DEF AddsReach, ListReaches
    <2> QED
      BY <2>2, <2>5, <2>6, OneReaches
  <1>8. ASSUME NEW s \in Staff, NEW c \in Computers, NEW a \in Addresses, AddRow(s, c, a)
        PROVE  RequestsReach'
    <2>1. PICK w \in StaffWork :
            /\ Informed(w) /\ staff' = [staff EXCEPT ![s] = w]
            /\ w.pc = staff[s].pc /\ w.targets = staff[s].targets
            /\ w.known = staff[s].known /\ w.addresses = staff[s].addresses
            /\ w.allowed = staff[s].allowed /\ w.refused = staff[s].refused
            /\ w.left = staff[s].left \ {<<c, a>>}
            /\ w.on = IF Adds(s, c, a) THEN staff[s].on \cup {<<c, a>>} ELSE staff[s].on
      BY <1>8, AddRowWork
    <2>2. /\ staff[s].pc \in Request \ {"list"} /\ <<c, a>> \in staff[s].left
          /\ UNCHANGED <<client, entry>>
      BY <1>8 DEF AddRow, Request
    <2>3. staff'[s] = w
      BY <1>1, <2>1
    <2>4. \A d \in Computers : Admitted(d)' = Admitted(d)
      BY <2>2 DEF Admitted
    <2>5. KnownToldOf(s)'
      BY <2>1, <2>2, <2>3, <2>4 DEF RequestsReach, KnownToldOf
    <2>6. ~Adds(s, c, a) => a \in Admitted(c) \/ <<c, a>> \in staff[s].refused
      BY <2>2 DEF Adds, NeedsRow, RequestsReach, KnownToldOf, Admitted
    <2>7. AddsReach(s)'
      <3>1. ASSUME NEW d \in staff[s].targets
            PROVE  \/ <<d, w.addresses[1]>> \in w.left \cup w.on
                   \/ w.addresses[1] \in Admitted(d)
                   \/ <<d, w.addresses[1]>> \in w.refused
        <4>1. \/ <<d, staff[s].addresses[1]>> \in staff[s].left \cup staff[s].on
              \/ staff[s].addresses[1] \in Admitted(d)
              \/ <<d, staff[s].addresses[1]>> \in staff[s].refused
          BY <2>2, <3>1 DEF RequestsReach, AddsReach
        <4>2. CASE <<d, staff[s].addresses[1]>> = <<c, a>>
          BY <2>1, <2>6, <4>2
        <4>3. CASE <<d, staff[s].addresses[1]>> # <<c, a>>
          BY <2>1, <4>1, <4>3
        <4> QED
          BY <4>2, <4>3
      <3>2. staff[s].targets \in SUBSET Computers
        BY <1>1 DEF StaffWork
      <3> QED
        BY <2>1, <2>3, <2>4, <3>1, <3>2 DEF AddsReach
    <2>8. ListReaches(s)'
      BY <2>1, <2>2, <2>3 DEF ListReaches
    <2> QED
      BY <2>1, <2>2, <2>5, <2>7, <2>8, OneReaches
  <1>9. ASSUME NEW s \in Staff, NEW c \in Computers, ListClear(s, c)
        PROVE  RequestsReach'
    <2>1. PICK w \in StaffWork :
            /\ Informed(w) /\ staff' = [staff EXCEPT ![s] = w]
            /\ w.pc = "list" /\ w.targets = staff[s].targets
            /\ w.known = staff[s].known /\ w.addresses = staff[s].addresses
            /\ w.allowed = staff[s].allowed /\ w.refused = staff[s].refused
            /\ w.todo = staff[s].todo \ {c} /\ w.off = staff[s].off \cup OffRows(s, c)
            /\ w.left = {c} \X staff[s].addresses[2] /\ w.on = staff[s].on
      BY <1>9, ListClearWork
    <2>2. /\ staff[s].pc = "list" /\ staff[s].left = {} /\ UNCHANGED <<client, entry>>
      BY <1>9 DEF ListClear
    <2>3. staff'[s] = w
      BY <1>1, <2>1
    <2>4. \A d \in Computers : Admitted(d)' = Admitted(d)
      BY <2>2 DEF Admitted
    <2>5. KnownToldOf(s)'
      BY <2>1, <2>2, <2>3, <2>4 DEF RequestsReach, KnownToldOf, Request
    <2>6. AddsReach(s)'
      BY <2>1, <2>3 DEF AddsReach
    <2>7. ASSUME NEW d \in staff[s].targets \ w.todo, NEW a \in Addresses
          PROVE  IF a \in w.addresses[2] THEN <<d, a>> \in w.left \cup w.on
                 ELSE \/ <<d, a>> \in w.off \/ entry[d][a] # "active"
                      \/ <<d, a>> \in w.allowed
      <3>1. CASE d = c
        BY <2>1, <3>1 DEF OffRows
      <3>2. CASE d # c
        BY <2>1, <2>2, <2>7, <3>2 DEF RequestsReach, ListReaches
      <3> QED
        BY <3>1, <3>2
    <2>8. ListReaches(s)'
      BY <2>1, <2>2, <2>3, <2>7 DEF ListReaches
    <2> QED
      BY <2>1, <2>2, <2>5, <2>6, <2>8, OneReaches
  <1>10. ASSUME NEW s \in Staff, NEW c \in Computers, NEW a \in Addresses, ListRow(s, c, a)
         PROVE  RequestsReach'
    <2>1. PICK w \in StaffWork :
            /\ Informed(w) /\ staff' = [staff EXCEPT ![s] = w]
            /\ w.pc = "list" /\ w.targets = staff[s].targets
            /\ w.known = staff[s].known /\ w.addresses = staff[s].addresses
            /\ w.allowed = staff[s].allowed /\ w.refused = staff[s].refused
            /\ w.todo = staff[s].todo /\ w.off = staff[s].off
            /\ w.left = staff[s].left \ {<<c, a>>} /\ w.on = staff[s].on \cup {<<c, a>>}
      BY <1>10, ListRowWork
    <2>2. staff[s].pc = "list" /\ UNCHANGED <<client, entry>>
      BY <1>10 DEF ListRow
    <2>3. staff'[s] = w
      BY <1>1, <2>1
    <2>4. \A d \in Computers : Admitted(d)' = Admitted(d)
      BY <2>2 DEF Admitted
    <2>5. KnownToldOf(s)'
      BY <2>1, <2>2, <2>3, <2>4 DEF RequestsReach, KnownToldOf, Request
    <2>6. AddsReach(s)'
      BY <2>1, <2>3 DEF AddsReach
    <2>7. w.left \cup w.on = staff[s].left \cup staff[s].on \cup {<<c, a>>}
      BY <2>1
    <2>8. ListReaches(s)'
      BY <2>1, <2>2, <2>3, <2>7 DEF RequestsReach, ListReaches
    <2> QED
      BY <2>1, <2>2, <2>5, <2>6, <2>8, OneReaches
  <1>11. ASSUME NEW s \in Staff, AddCommit(s) \/ ListCommit(s) PROVE RequestsReach'
    BY <1>11, CommitReaches
  <1> QED
    BY <1>2, <1>3, <1>4, <1>5, <1>6, <1>7, <1>8, <1>9, <1>10, <1>11
       DEF AccessNext, SaveBundle, Bootstrap, TypeKey, Move, TokenAges, Reject

\* After a commit, what is admitted is what it allows, or what was allowed before
\* by a decision that its own does not take the place of.
LEMMA CommitAdmits ==
  ASSUME AccessTyped, RequestsReach, AdmittedAsDecided, NEW s \in Staff,
         AddCommit(s) \/ ListCommit(s)
  PROVE  AdmittedAsDecided'
  <1>1. SUFFICES ASSUME NEW c \in Computers, NEW a \in Addresses
                 PROVE  /\ a \in Admitted(c)' => <<c, a>> \in granted'
                        /\ a \notin Admitted(c)' => <<c, a>> \in denied'
    BY DEF AdmittedAsDecided
  <1>2. /\ granted' = Allows(s) \cup (granted \ ((Allows(s) \cup Refuses(s)) \ staff[s].allowed))
        /\ denied' = Refuses(s) \cup (denied \ ((Allows(s) \cup Refuses(s)) \ staff[s].refused))
    BY Commits DEF Decide
  <1>3. /\ a \in Admitted(c) => <<c, a>> \in granted
        /\ a \notin Admitted(c) => <<c, a>> \in denied
    BY DEF AdmittedAsDecided
  <1>4. a \in Admitted(c) /\ a \notin Admitted(c)' => <<c, a>> \in Refuses(s)
    BY CommitRefuses
  <1>5. a \notin Admitted(c) /\ a \in Admitted(c)' => <<c, a>> \in Allows(s)
    BY CommitAllows DEF Admitted
  <1>6. CASE <<c, a>> \notin Allows(s) \cup Refuses(s)
    BY <1>2, <1>3, <1>4, <1>5, <1>6
  <1>7. CASE <<c, a>> \in Refuses(s) \ Allows(s) /\ a \in Admitted(c)'
    <2>1. ListCommit(s)
      BY <1>7 DEF AddCommit, Refuses
    <2>2. staff[s].pc = "list" /\ c \in staff[s].targets /\ a \notin staff[s].addresses[2]
          /\ a # staff[s].addresses[1]
      BY <1>7, <2>1 DEF ListCommit, Refuses, Allows
    <2>3. CASE entry'[c][a] = "active"
      BY <1>2, <1>3, <1>5, <1>7, <2>1, <2>2, <2>3, Commits, ListCommits
    <2>4. CASE client'[c].primary = a
      <3>1. c \notin staff[s].led /\ client[c].primary = a
        BY <2>2, <2>4, Commits
      <3>2. staff[s].known[c] # a
        BY <2>1, <2>2, <3>1, ListCommits
      <3>3. <<c, a>> \in staff[s].allowed
        BY <2>2, <3>1, <3>2 DEF RequestsReach, KnownToldOf, Request
      <3> QED
        BY <1>2, <1>3, <1>5, <1>7, <3>3
    <2> QED
      BY <1>7, <2>3, <2>4 DEF Admitted
  <1>8. CASE <<c, a>> \in Allows(s) \ Refuses(s) /\ a \notin Admitted(c)'
    <2>1. entry'[c][a] # "active" /\ client'[c].primary # a /\ a \notin Admitted(c)
      BY <1>4, <1>8 DEF Admitted
    <2>2. CASE AddCommit(s)
      <3>1. staff[s].pc \in Request \ {"list"} /\ staff[s].left = {}
        BY <2>2 DEF AddCommit, Request
      <3>2. c \in staff[s].targets /\ a = staff[s].addresses[1]
        BY <1>8, <3>1 DEF Allows
      <3>3. <<c, a>> \notin staff[s].on
        BY <2>1, Commits
      <3>4. <<c, a>> \in staff[s].refused
        BY <2>1, <3>1, <3>2, <3>3 DEF RequestsReach, AddsReach
      <3> QED
        BY <1>2, <1>3, <1>8, <2>1, <3>4
    <2>3. CASE ListCommit(s)
      <3>1. staff[s].pc = "list"
        BY <2>3 DEF ListCommit
      <3>2. /\ c \in staff[s].targets
            /\ a = staff[s].addresses[1] \/ a \in staff[s].addresses[2]
        BY <1>8, <3>1 DEF Allows
      <3>3. a = staff[s].addresses[1] /\ a \notin staff[s].addresses[2]
        BY <2>1, <2>3, <3>2, Commits, ListCommits
      <3>4. c \notin staff[s].led
        BY <2>1, <3>3, Commits
      <3>5. staff[s].known[c] = a /\ client[c].primary # a
        BY <2>1, <2>3, <3>2, <3>3, <3>4, Commits, ListCommits
      <3> QED
        BY <1>8, <3>1, <3>2, <3>3, <3>5 DEF Refuses
    <2> QED
      BY <2>2, <2>3
  <1> QED
    BY <1>2, <1>6, <1>7, <1>8

\* Nothing that admits changes.
LEMMA SameAdmitted ==
  ASSUME AccessTyped, AdmittedAsDecided,
         \A c \in Computers : client'[c].primary = client[c].primary,
         UNCHANGED <<entry, granted, denied>>
  PROVE  AdmittedAsDecided'
  BY DEF AdmittedAsDecided, Admitted

\* Every step keeps the admitted addresses those that staff decided on.
LEMMA AccessStepAdmits ==
  ASSUME AccessTyped, RequestsReach, AdmittedAsDecided, AccessNext
  PROVE  AdmittedAsDecided'
  <1>1. ASSUME UNCHANGED <<client, entry, granted, denied>>
        PROVE  AdmittedAsDecided'
    BY <1>1, SameAdmitted
  <1>2. ASSUME NEW c \in Computers, SetPolicy(c)
        PROVE  AdmittedAsDecided'
    BY <1>2, PolicySparesPrimary, SameAdmitted DEF SetPolicy
  <1>3. ASSUME NEW s \in Staff, GrantEnable(s)
        PROVE  AdmittedAsDecided'
    BY <1>3, EnableSparesPrimary, SameAdmitted DEF GrantEnable
  <1>4. ASSUME NEW s \in Staff, NEW c \in Computers,
               AddOpen(s, c) \/ GrantOpen(s, c) \/ ListOpen(s, c)
        PROVE  AdmittedAsDecided'
    BY <1>1, <1>4 DEF AddOpen, GrantOpen, ListOpen, Open
  <1>5. ASSUME NEW s \in Staff, NEW c \in Computers, NEW a \in Addresses,
               AddRow(s, c, a) \/ ListRow(s, c, a)
        PROVE  AdmittedAsDecided'
    BY <1>1, <1>5 DEF AddRow, ListRow
  <1>6. ASSUME NEW s \in Staff, NEW c \in Computers, ListClear(s, c)
        PROVE  AdmittedAsDecided'
    BY <1>1, <1>6 DEF ListClear
  <1>7. ASSUME NEW s \in Staff, SecurityOpen(s) \/ SecurityWrite(s) \/ RequestFails(s)
        PROVE  AdmittedAsDecided'
    BY <1>1, <1>7 DEF SecurityOpen, SecurityWrite, RequestFails, RollBack
  <1>8. ASSUME NEW s \in Staff, AddCommit(s) \/ ListCommit(s)
        PROVE  AdmittedAsDecided'
    BY <1>8, CommitAdmits
  <1> QED
    BY <1>1, <1>2, <1>3, <1>4, <1>5, <1>6, <1>7, <1>8
       DEF AccessNext, SaveBundle, Bootstrap, TypeKey, Move, TokenAges, Reject

-----------------------------------------------------------------------------
(* The theorems.                                                            *)

LEMMA AccessStepInv == AccessInv /\ [AccessNext]_accessVars => AccessInv'
  <1> SUFFICES ASSUME AccessInv, [AccessNext]_accessVars PROVE AccessInv'
    OBVIOUS
  <1>1. CASE AccessNext
    BY <1>1, AccessStepTypes, AccessStepKeys, AccessStepReaches, AccessStepAdmits DEF AccessInv
  <1>2. CASE UNCHANGED accessVars
    BY <1>2 DEF accessVars, AccessInv, AccessTyped, AccessTypeOK, RevisionsCounted,
                StaffInformed, SavesSucceed, TokensFollowKeys, RequestsReach, KnownToldOf,
                AddsReach, ListReaches, AdmittedAsDecided, Admitted
  <1> QED
    BY <1>1, <1>2

LEMMA AccessInvHolds == AccessSpec => []AccessInv
  BY AccessInitInv, AccessStepInv, PTL DEF AccessSpec

\* Every row, session, desktop and token always has its type.
THEOREM AccessIsTyped == AccessSpec => []AccessTypeOK
  <1>1. AccessInv => AccessTypeOK
    BY DEF AccessInv, AccessTyped
  <1> QED
    BY <1>1, AccessInvHolds, PTL

\* While activation is on for all, a token issued under a key is accepted only
\* as long as that key is the current one, short of lost saves
\* (_validate_activation_revision).
THEOREM RotationEnds == AccessSpec => []RotationEndsSessions
  <1>1. AccessInv => RotationEndsSessions
    <2> SUFFICES ASSUME AccessInv, NEW c \in Computers, ~overlapped,
                        TokenAccepted(c), computer[c].token.enforced, security.required
                 PROVE  computer[c].token.key = security.key
      BY DEF RotationEndsSessions
    <2>1. TokenFollows(computer[c].token, security)
      BY DEF AccessInv, TokensFollowKeys
    <2>2. computer[c].token.revision = security.revision
      BY DEF TokenAccepted, RevisionCurrent
    <2> QED
      BY <2>1, <2>2 DEF TokenFollows
  <1> QED
    BY <1>1, AccessInvHolds, PTL

\* However the statements of approvals, additions and lists interleave, an address
\* is admitted by a decision that no later one has taken the place of, and left out
\* by one that refuses it (_add_client_ip, _save_client_ip_values).
THEOREM DecisionsAdmit == AccessSpec => []AdmittedAsDecided
  <1>1. AccessInv => AdmittedAsDecided
    BY DEF AccessInv
  <1> QED
    BY <1>1, AccessInvHolds, PTL
=============================================================================
