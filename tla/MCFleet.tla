------------------------------ MODULE MCFleet ------------------------------
(***************************************************************************)
(* Small instances of what the back office does to the desktops: releases, *)
(* remote commands, and access.  The three keep separate rows and take     *)
(* none of each other's locks, so a behaviour exercises one of them.       *)
(***************************************************************************)
EXTENDS Releases, RemoteCommand, DesktopAccess, TLC

CONSTANTS d1, d2    \* the desktop that asks for updates, and one that does not

VARIABLE part       \* the component this behaviour exercises

vars == <<part, releaseVars, commandVars, accessVars>>

RolloutScopes == {<<"all">>, <<"office", d1>>, <<"device", d2>>}

InReleases == part = "releases" /\ UNCHANGED <<part, commandVars, accessVars>>
InCommands == part = "commands" /\ UNCHANGED <<part, releaseVars, accessVars>>
InAccess == part = "access" /\ UNCHANGED <<part, releaseVars, commandVars>>

Init ==
    /\ part \in {"releases", "commands", "access"}
    /\ ReleaseInit /\ CommandInit /\ AccessInit
    \* One initial state of the parts that rest.
    /\ part # "releases" => releaseKind = "application"
    /\ part # "access" =>
           \A c \in Computers : /\ client[c].primary = CHOOSE a \in Addresses : TRUE
                                /\ \A a \in Addresses : entry[c][a] = "absent"

ReleaseStep ==
    \/ \E a \in Admins, r \in Releases :
           \/ FormOpen(a, r) /\ InReleases
           \/ FormAdd(a, r) /\ InReleases
           \/ DeleteOpen(a, r) /\ InReleases
           \/ PublishBegin(a, r) /\ InReleases
           \/ ExtendRollout(a, r) /\ InReleases
           \/ Revoke(a, r) /\ InReleases
    \/ \E a \in Admins :
           \/ FormCheck(a) /\ InReleases
           \/ FormWrite(a) /\ InReleases
           \/ CleanArtifact(a) /\ InReleases
           \/ DeleteWrite(a) /\ InReleases
           \/ PublishCommit(a) /\ InReleases
    \/ \E d \in Desktops :
           \/ Offer(d) /\ InReleases
           \/ Download(d) /\ InReleases

CommandStep ==
    \/ \E p \in Panels, m \in Machines :
           \/ AskUninstall(p, m) /\ InCommands
           \/ AskMigration(p, m) /\ InCommands
           \/ AskCancel(p, m) /\ InCommands
    \/ \E p \in Panels : PanelWrite(p) /\ InCommands
    \/ \E m \in Machines :
           \/ SwitchMachine(m) /\ InCommands
           \/ Show(m) /\ InCommands
           \/ AgentRead(m) /\ InCommands
           \/ AckWrite(m) /\ InCommands
           \/ AckLost(m) /\ InCommands
           \/ ReportWrite(m) /\ InCommands
           \/ Fetch(m) /\ InCommands
           \/ Install(m) /\ InCommands
           \/ Remove(m) /\ InCommands

AccessStep ==
    \/ SaveBundle /\ InAccess
    \/ \E c \in Computers :
           \/ Bootstrap(c) /\ InAccess
           \/ TypeKey(c) /\ InAccess
           \/ Move(c) /\ InAccess
           \/ TokenAges(c) /\ InAccess
           \/ SetPolicy(c) /\ InAccess
           \/ \E a \in Addresses : Reject(c, a) /\ InAccess
    \/ \E s \in Staff :
           \/ SecurityOpen(s) /\ InAccess
           \/ SecurityWrite(s) /\ InAccess
           \/ AddCommit(s) /\ InAccess
           \/ GrantEnable(s) /\ InAccess
           \/ ListCommit(s) /\ InAccess
           \/ RequestFails(s) /\ InAccess
    \/ \E s \in Staff, c \in Computers :
           \/ AddOpen(s, c) /\ InAccess
           \/ GrantOpen(s, c) /\ InAccess
           \/ ListOpen(s, c) /\ InAccess
           \/ ListClear(s, c) /\ InAccess
    \/ \E s \in Staff, c \in Computers, a \in Addresses :
           \/ AddRow(s, c, a) /\ InAccess
           \/ ListRow(s, c, a) /\ InAccess

Next == ReleaseStep \/ CommandStep \/ AccessStep

Fairness ==
    /\ \A a \in Admins : WF_vars(EditorStep(a) /\ InReleases)
    /\ \A d \in Desktops : WF_vars(DesktopStep(d) /\ InReleases)
    /\ \A m \in Machines : WF_vars(AgentStep(m) /\ InCommands)

Spec == Init /\ [][Next]_vars /\ Fairness

\* Every row, session and desktop of the three components has its type.
FleetTypeOK == ReleaseTypeOK /\ CommandTypeOK /\ AccessTypeOK
=============================================================================
