--------------------------- MODULE DesktopAccess ---------------------------
(***************************************************************************)
(* Who is let in: the addresses of a ClientAccess row, the activation key, *)
(* the bearer token that bootstrap issues, and the staff pages that change *)
(* all of these.  A token is checked again at every request against the    *)
(* address, the configuration version and the activation revision.  Staff  *)
(* pages read a row and save it later without a lock.                      *)
(*                                                                         *)
(* Requests about addresses run as transactions of several statements      *)
(* (READ COMMITTED, as Django asks of MySQL): what a statement writes is   *)
(* locked at once, but shown to others only by the commit.                 *)
(*                                                                         *)
(* Keys are numbered in the order they were made; the hash is the key.     *)
(* Rate limits, the comparison of reported with observed addresses, the B1 *)
(* bridge key, permissions and local testing mode are left out; so is a    *)
(* second ClientAccess row of the same device.                             *)
(***************************************************************************)
EXTENDS Integers

CONSTANTS
    Staff,          \* sessions of the admin, the panel and the sub-admin pages
    Computers,      \* ClientAccess rows, all of one office
    Addresses,      \* IPv4 addresses
    MaxAccessOps    \* bound: staff requests, moves of desktops and lost tokens

ASSUME AccessAssumption == MaxAccessOps \in Nat /\ Addresses # {}

VARIABLES
    security,       \* DesktopSecurityConfiguration: the switch, the key, its revision
    client,         \* ClientAccess: active, activation rule, primary address
    entry,          \* ClientAccessIP: each address is absent, active or inactive
    bundle,         \* version of the configuration bundle, 0 while inactive
    audit,          \* BootstrapAudit: refused addresses and their review
    staff,          \* what each staff session is doing
    computer,       \* each desktop: its address, the key typed in, its token
    granted,        \* history: rows that a decision which still counts admits,
    denied,         \* history: or refuses (see Decide)
    overlapped,     \* history: a security save lost another's write
    accessOps

accessVars == <<security, client, entry, bundle, audit, staff, computer, granted, denied,
                overlapped, accessOps>>

Keys == 0 .. MaxAccessOps               \* 0: no key yet
KeyRevisions == 0 .. MaxAccessOps + 1
Rules == {"inherit", "require", "bypass"}   \* "bypass" stands for the testing channel too
Security == [required : BOOLEAN, key : Keys, revision : KeyRevisions]
Client == [active : BOOLEAN, rule : Rules, primary : Addresses]
Token == [address : Addresses, version : Nat, enforced : BOOLEAN,
          revision : KeyRevisions,
          key : Keys]                   \* the key it was issued for
Computer == [address : Addresses, key : Keys, token : Token]
NoToken == [address |-> CHOOSE a \in Addresses : TRUE, version |-> 0,
            enforced |-> FALSE, revision |-> 0, key |-> 0]

Rows == Computers \X Addresses

IdleStaff == [pc |-> "idle", seen |-> [required |-> FALSE, key |-> 0, revision |-> 1],
              new |-> [required |-> FALSE, key |-> 0, revision |-> 1],
              targets |-> {}, known |-> [c \in {} |-> 0], addresses |-> <<>>,
              todo |-> {}, left |-> {}, on |-> {}, off |-> {}, led |-> {},
              allowed |-> {}, refused |-> {}]

\* What a session is doing, what it read, and what it asked for: one address for
\* some computers, or a list.  Of its transaction: the computers (todo) and rows
\* (left) it still has to write, and what it has locked by writing it - rows
\* switched on and off, computers whose primary address it has set.  And history:
\* what others decided since the session read the computers.
StaffWork ==
    [pc : {"idle", "security", "approve", "add", "enable", "list"},
     seen : Security, new : Security, targets : SUBSET Computers,
     known : {IdleStaff.known} \cup [Computers -> Addresses],
     addresses : {<<>>} \cup (Addresses \X Computers)
                        \cup (Addresses \X SUBSET Addresses),
     todo : SUBSET Computers, left : SUBSET Rows,
     on : SUBSET Rows, off : SUBSET Rows, led : SUBSET Computers,
     allowed : SUBSET Rows, refused : SUBSET Rows]

\* No other address was ever entered, or all were and have been switched off.
AccessInit ==
    \E home \in [Computers -> Addresses], before \in {"absent", "inactive"} :
        /\ security = [required |-> FALSE, key |-> 0, revision |-> 1]
        /\ client = [c \in Computers |->
               [active |-> TRUE, rule |-> "inherit", primary |-> home[c]]]
        /\ entry = [c \in Computers |-> [a \in Addresses |-> before]]
        /\ bundle = 1
        /\ audit = [c \in Computers |-> [a \in Addresses |-> "none"]]
        /\ staff = [s \in Staff |-> IdleStaff]
        /\ computer = [c \in Computers |-> [address |-> home[c], key |-> 0, token |-> NoToken]]
        /\ granted = {<<c, home[c]>> : c \in Computers}
        /\ denied = Rows \ granted
        /\ overlapped = FALSE /\ accessOps = 0

AccessUsed == /\ accessOps < MaxAccessOps
              /\ accessOps' = accessOps + 1

-----------------------------------------------------------------------------
(* What a row, a key and a token admit.                                    *)

\* Q(ipv4=...) | Q(allowed_ips__ipv4=..., allowed_ips__active=True)
Admitted(c) == {client[c].primary} \cup {a \in Addresses : entry[c][a] = "active"}

KeyRequired(c) ==
    /\ client[c].rule # "bypass" /\ security.key # 0
    /\ client[c].rule = "require" \/ security.required

\* A fault: a token outlives the revision it was issued under.
RevisionIgnored(t) == TRUE

\* _validate_activation_revision: only while the global switch is on.
RevisionCurrent(t) ==
    t.enforced /\ security.required => t.revision = security.revision

\* _authenticated_client.
TokenAccepted(c) ==
    LET t == computer[c].token IN
    /\ t # NoToken
    /\ t.address = computer[c].address /\ computer[c].address \in Admitted(c)
    /\ RevisionCurrent(t)
    /\ client[c].active /\ bundle # 0 /\ t.version = bundle

-----------------------------------------------------------------------------
(* Desktops.                                                               *)

Refuse(c) ==
    /\ audit' = [audit EXCEPT ![c][computer[c].address] =
                    IF @ = "none" THEN "pending" ELSE @]
    /\ UNCHANGED computer

\* bootstrap, desktop_route: an unknown address or an inactive row leaves an
\* audit row; without the key the desktop is told to ask for it; otherwise it
\* gets a token.
Bootstrap(c) ==
    /\ ~TokenAccepted(c)
    /\ IF computer[c].address \notin Admitted(c) \/ ~client[c].active \/ bundle = 0
       THEN Refuse(c)
       ELSE /\ UNCHANGED audit
            /\ KeyRequired(c) => computer[c].key = security.key
            /\ computer' = [computer EXCEPT ![c].token =
                   [address |-> computer[c].address, version |-> bundle,
                    enforced |-> KeyRequired(c), key |-> security.key,
                    revision |-> IF KeyRequired(c) THEN security.revision ELSE 0]]
    /\ UNCHANGED <<security, client, entry, bundle, staff, granted, denied, overlapped, accessOps>>

\* The user types the key the administrator read out.
TypeKey(c) ==
    /\ computer[c].key # security.key /\ KeyRequired(c)
    /\ computer' = [computer EXCEPT ![c].key = security.key]
    /\ UNCHANGED <<security, client, entry, bundle, audit, staff, granted, denied,
                   overlapped, accessOps>>

\* The desktop moves to another address, or its token reaches its age limit.
Move(c) ==
    /\ AccessUsed
    /\ \E a \in Addresses : computer' = [computer EXCEPT ![c].address = a]
    /\ UNCHANGED <<security, client, entry, bundle, audit, staff, granted, denied, overlapped>>

TokenAges(c) ==
    /\ computer[c].token # NoToken /\ AccessUsed
    /\ computer' = [computer EXCEPT ![c].token = NoToken]
    /\ UNCHANGED <<security, client, entry, bundle, audit, staff, granted, denied, overlapped>>

-----------------------------------------------------------------------------
(* The activation key: two forms and two buttons over one row.             *)

\* A fault: a new key keeps the revision of the one before.
KeyKeepsRevision(x, key) == [x EXCEPT !.key = key, !.revision = IF x.key = 0 THEN 1 ELSE @]

\* set_activation_key: the first key starts at revision one.
WithKey(x, key) ==
    [x EXCEPT !.key = key, !.revision = IF x.key = 0 THEN 1 ELSE x.revision + 1]

\* save_activation_security, and the form without a new key.
WithSwitch(x, required) ==
    [x EXCEPT !.required = required,
              !.revision = IF x.required # required THEN x.revision + 1 ELSE @]

\* The row is read; requiring a key before there is one is refused.
SecurityOpen(s) ==
    /\ staff[s].pc = "idle" /\ AccessUsed
    /\ \E x \in {WithSwitch(security, b) : b \in {FALSE} \cup {security.key # 0}}
                \cup {[WithKey(security, accessOps') EXCEPT !.required = b] : b \in BOOLEAN} :
           staff' = [staff EXCEPT ![s] = [IdleStaff EXCEPT
               !.pc = "security", !.seen = security, !.new = x]]
    /\ UNCHANGED <<security, client, entry, bundle, audit, computer, granted, denied, overlapped>>

\* Every column is saved.
SecurityWrite(s) ==
    /\ staff[s].pc = "security"
    /\ security' = staff[s].new
    /\ overlapped' = (overlapped \/ security # staff[s].seen)
    /\ staff' = [staff EXCEPT ![s] = IdleStaff]
    /\ UNCHANGED <<client, entry, bundle, audit, computer, granted, denied, accessOps>>

-----------------------------------------------------------------------------
(* Addresses.                                                              *)

Primaries == [c \in Computers |-> client[c].primary]

Request == {"approve", "add", "enable", "list"}

\* A transaction that has created a row holds the computer's, which that refers to.
RefersTo(r, c) == \E a \in Addresses : <<c, a>> \in staff[r].on /\ entry[c][a] = "absent"

\* Statements wait for the rows that others have written or created; a new row
\* and a write of the computer's row also wait for each other.
Locked(s, row) == \E r \in Staff \ {s} : row \in staff[r].on \cup staff[r].off
RowFree(s, c, a) ==
    /\ ~Locked(s, <<c, a>>)
    /\ entry[c][a] = "absent" => \A r \in Staff \ {s} : c \notin staff[r].led
ComputerFree(others, c) == \A r \in others : c \notin staff[r].led /\ ~RefersTo(r, c)

\* A request reads the computers, and goes on with w.
Open(s, w) ==
    /\ staff[s].pc = "idle" /\ AccessUsed
    /\ staff' = [staff EXCEPT ![s] = w]
    /\ UNCHANGED <<security, client, entry, bundle, audit, computer, granted, denied, overlapped>>

\* One address a for the computers in targets, on behalf of c.
AddRequest(pc, targets, a, c) ==
    [IdleStaff EXCEPT !.pc = pc, !.targets = targets, !.known = Primaries,
                      !.addresses = <<a, c>>, !.left = targets \X {a}]

ListRequest(targets, first, others) ==
    [IdleStaff EXCEPT !.pc = "list", !.targets = targets, !.known = Primaries,
                      !.addresses = <<first, others>>, !.todo = targets]

\* What a request decides.  A list whose first address was the primary one when
\* it was read, and is no more, does not write it: it may leave that address out.
Allows(s) ==
    LET w == staff[s] IN
    w.targets \X (IF w.pc = "list" THEN {w.addresses[1]} \cup w.addresses[2]
                                   ELSE {w.addresses[1]})

Refuses(s) ==
    LET w == staff[s] IN
    IF w.pc # "list" THEN {}
    ELSE {row \in w.targets \X Addresses :
             /\ row[2] \notin w.addresses[2]
             /\ row[2] = w.addresses[1] =>
                    w.known[row[1]] = row[2] /\ client[row[1]].primary # row[2]}

\* The transaction commits what it has written.  Its decision takes the place of
\* those made before the session read the computers; those made since then stand
\* beside it, and it beside the decisions of sessions that are still under way.
Decide(s) ==
    LET w == staff[s]
        decided == Allows(s) \cup Refuses(s) IN
    /\ entry' = [c \in Computers |-> [a \in Addresses |->
           IF <<c, a>> \in w.on THEN "active"
           ELSE IF <<c, a>> \in w.off THEN "inactive" ELSE entry[c][a]]]
    /\ granted' = Allows(s) \cup (granted \ (decided \ w.allowed))
    /\ denied' = Refuses(s) \cup (denied \ (decided \ w.refused))
    /\ staff' = [r \in Staff |->
           IF r = s THEN IdleStaff
           ELSE IF staff[r].pc \in Request
           THEN [staff[r] EXCEPT !.allowed = @ \cup Allows(s), !.refused = @ \cup Refuses(s)]
           ELSE staff[r]]

\* A deadlock or a lock wait that takes too long: all of it is rolled back.
RollBack(s) ==
    /\ staff' = [staff EXCEPT ![s] = IdleStaff]
    /\ UNCHANGED <<security, client, entry, bundle, audit, computer, granted, denied,
                   overlapped, accessOps>>

\* The computers a request is for: one, or every active one of the office.
Scope(c) == {{c}, {d \in Computers : client[d].active}}

\* approve_request for an address a refused bootstrap left; add_device_ip,
\* add_office_ip and the office whitelist page take any address.
AddOpen(s, c) ==
    \E a \in Addresses, targets \in Scope(c), approval \in BOOLEAN :
        /\ approval => audit[c][a] # "none"
        /\ targets # {}
        /\ Open(s, AddRequest(IF approval THEN "approve" ELSE "add", targets, a, c))

\* get_or_create, then active=True.
NeedsRow(c, a) == entry[c][a] # "active"

\* _add_client_ip: the primary address, as it was read, needs no entry.
Adds(s, c, a) == staff[s].known[c] # a /\ NeedsRow(c, a)

AddRow(s, c, a) ==
    /\ staff[s].pc \in {"approve", "add"} /\ <<c, a>> \in staff[s].left
    /\ Adds(s, c, a) => RowFree(s, c, a)
    /\ staff' = [staff EXCEPT ![s].left = @ \ {<<c, a>>},
                              ![s].on = IF Adds(s, c, a) THEN @ \cup {<<c, a>>} ELSE @]
    /\ UNCHANGED <<security, client, entry, bundle, audit, computer, granted, denied,
                   overlapped, accessOps>>

AddCommit(s) ==
    LET a == staff[s].addresses[1]
        c == staff[s].addresses[2] IN
    /\ staff[s].pc \in {"approve", "add"} /\ staff[s].left = {}
    /\ Decide(s)
    /\ audit' = IF staff[s].pc = "approve" THEN [audit EXCEPT ![c][a] = "approved"] ELSE audit
    /\ UNCHANGED <<security, client, bundle, computer, overlapped, accessOps>>

Reject(c, a) ==
    /\ audit[c][a] # "none" /\ AccessUsed
    /\ audit' = [audit EXCEPT ![c][a] = "rejected"]
    /\ UNCHANGED <<security, client, entry, bundle, staff, computer, granted, denied, overlapped>>

\* _grant_access_from_audit: the row is enabled first, the address added after.
GrantOpen(s, c) ==
    \E a \in Addresses :
        audit[c][a] # "none" /\ Open(s, AddRequest("enable", {c}, a, c))

GrantEnable(s) ==
    LET c == staff[s].addresses[2] IN
    /\ staff[s].pc = "enable" /\ ComputerFree(Staff \ {s}, c)
    /\ client' = [client EXCEPT ![c].active = TRUE]
    /\ staff' = [staff EXCEPT ![s].pc = "add"]
    /\ UNCHANGED <<security, entry, bundle, audit, computer, granted, denied, overlapped,
                   accessOps>>

\* _save_client_ip_values, for one computer or in one transaction for the office.
ListOpen(s, c) ==
    \E first \in Addresses, others \in SUBSET Addresses, targets \in {{c}, Computers} :
        first \notin others /\ Open(s, ListRequest(targets, first, others))

\* The first address becomes the primary one, if it is not the one that was read.
LeadsWith(s, c) == staff[s].known[c] # staff[s].addresses[1]

\* A fault: the addresses left out of the list stay active.
NoRows(s, c) == {}

\* The rows the UPDATE finds: committed, and of no address in the list.  (A database
\* may make it wait for a row that is being created, which leaves fewer behaviours.)
OffRows(s, c) ==
    {<<c, a>> : a \in {b \in Addresses \ staff[s].addresses[2] : entry[c][b] # "absent"}}

\* The first two statements for a computer: the primary address, and the rows of
\* all other addresses switched off.
ListClear(s, c) ==
    /\ staff[s].pc = "list" /\ c \in staff[s].todo /\ staff[s].left = {}
    /\ LeadsWith(s, c) => ComputerFree(Staff \ {s}, c)
    /\ \A row \in OffRows(s, c) : ~Locked(s, row)
    /\ staff' = [staff EXCEPT ![s].todo = @ \ {c}, ![s].left = {c} \X staff[s].addresses[2],
                              ![s].off = @ \cup OffRows(s, c),
                              ![s].led = IF LeadsWith(s, c) THEN @ \cup {c} ELSE @]
    /\ UNCHANGED <<security, client, entry, bundle, audit, computer, granted, denied,
                   overlapped, accessOps>>

\* A row that exists is checked against the primary address as it is now.
Repeats(s, c, a) ==
    entry[c][a] # "absent" /\ c \notin staff[s].led /\ client[c].primary = a

\* Each address of the list: get_or_create, full_clean, save.
ListRow(s, c, a) ==
    /\ staff[s].pc = "list" /\ <<c, a>> \in staff[s].left
    /\ ~Repeats(s, c, a) /\ RowFree(s, c, a)
    /\ staff' = [staff EXCEPT ![s].left = @ \ {<<c, a>>}, ![s].on = @ \cup {<<c, a>>}]
    /\ UNCHANGED <<security, client, entry, bundle, audit, computer, granted, denied,
                   overlapped, accessOps>>

ListCommit(s) ==
    /\ staff[s].pc = "list" /\ staff[s].todo = {} /\ staff[s].left = {}
    /\ Decide(s)
    /\ client' = [c \in Computers |->
           IF c \in staff[s].led THEN [client[c] EXCEPT !.primary = staff[s].addresses[1]]
           ELSE client[c]]
    /\ UNCHANGED <<security, bundle, audit, computer, overlapped, accessOps>>

\* A request ends without effect: full_clean refuses an address, or what it
\* waits for stays locked.
RequestFails(s) ==
    /\ \/ /\ staff[s].pc \in {"approve", "add"}
          /\ \E c \in Computers, a \in Addresses :
                 <<c, a>> \in staff[s].left /\ Adds(s, c, a) /\ ~RowFree(s, c, a)
       \/ /\ staff[s].pc = "list"
          /\ \E c \in Computers, a \in Addresses :
                 <<c, a>> \in staff[s].left /\ (Repeats(s, c, a) \/ ~RowFree(s, c, a))
       \/ /\ staff[s].pc = "list" /\ staff[s].left = {}
          /\ \E c \in staff[s].todo :
                 \/ LeadsWith(s, c) /\ ~ComputerFree(Staff \ {s}, c)
                 \/ \E row \in OffRows(s, c) : Locked(s, row)
       \/ staff[s].pc = "enable" /\ ~ComputerFree(Staff \ {s}, staff[s].addresses[2])
    /\ RollBack(s)

\* set_access, toggle, save_device, save_office: only these columns are written.
SetPolicy(c) ==
    /\ AccessUsed
    /\ \E active \in BOOLEAN, rule \in Rules, targets \in {{c}, Computers} :
         /\ \A d \in targets : ComputerFree(Staff, d)
         /\ client' = [d \in Computers |->
               IF d \in targets THEN [client[d] EXCEPT !.rule = rule,
                   !.active = IF targets = {c} THEN active ELSE @]
               ELSE client[d]]
    /\ UNCHANGED <<security, entry, bundle, audit, staff, computer, granted, denied, overlapped>>

\* The bundle form: a new version, or switched off and on.
SaveBundle ==
    /\ AccessUsed
    /\ bundle' = IF bundle = 1 THEN 2 ELSE IF bundle = 2 THEN 0 ELSE 1
    /\ UNCHANGED <<security, client, entry, audit, staff, computer, granted, denied, overlapped>>

AccessNext ==
    \/ SaveBundle
    \/ \E c \in Computers :
           \/ Bootstrap(c) \/ TypeKey(c) \/ Move(c) \/ TokenAges(c) \/ SetPolicy(c)
           \/ \E a \in Addresses : Reject(c, a)
    \/ \E s \in Staff :
           \/ SecurityOpen(s) \/ SecurityWrite(s) \/ AddCommit(s) \/ GrantEnable(s)
           \/ ListCommit(s) \/ RequestFails(s)
           \/ \E c \in Computers :
                  \/ AddOpen(s, c) \/ GrantOpen(s, c) \/ ListOpen(s, c) \/ ListClear(s, c)
                  \/ \E a \in Addresses : AddRow(s, c, a) \/ ListRow(s, c, a)

AccessSpec == AccessInit /\ [][AccessNext]_accessVars

-----------------------------------------------------------------------------
(* What access control must guarantee.                                     *)

AccessTypeOK ==
    /\ security \in Security
    /\ client \in [Computers -> Client]
    /\ entry \in [Computers -> [Addresses -> {"absent", "active", "inactive"}]]
    /\ bundle \in 0 .. 2
    /\ audit \in [Computers -> [Addresses -> {"none", "pending", "approved", "rejected"}]]
    /\ computer \in [Computers -> Computer]
    /\ staff \in [Staff -> StaffWork]
    /\ granted \subseteq Rows /\ denied \subseteq Rows
    /\ overlapped \in BOOLEAN /\ accessOps \in 0 .. MaxAccessOps

\* While activation is switched on for all, a token issued under a key is
\* accepted only as long as that key is the current one - unless two saves of
\* the security row overlapped and one was lost (_validate_activation_revision).
RotationEndsSessions ==
    \A c \in Computers :
        TokenAccepted(c) /\ computer[c].token.enforced /\ security.required /\ ~overlapped
        => computer[c].token.key = security.key

\* However approvals, additions and lists overlap, an address is admitted only by
\* a decision that admits it and has not been followed by another, and left out
\* only by one that refuses it: a decision is followed by those of sessions that
\* read the computers after it was made.  Where sessions do not overlap, exactly
\* what was decided last is admitted (_add_client_ip, _save_client_ip_values).
AdmittedAsDecided ==
    \A c \in Computers, a \in Addresses :
        IF a \in Admitted(c) THEN <<c, a>> \in granted ELSE <<c, a>> \in denied

\* "Invalidate all existing bearer tokens immediately after activation rotates."
\* A token of a computer that must be activated is refused once the key it was
\* issued for is not the current one, short of lost saves.
RotationInvalidatesTokens ==
    \A c \in Computers :
        TokenAccepted(c) /\ computer[c].token.enforced /\ KeyRequired(c) /\ ~overlapped
        => computer[c].token.key = security.key
=============================================================================
