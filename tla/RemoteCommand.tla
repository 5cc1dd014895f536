--------------------------- MODULE RemoteCommand ---------------------------
(***************************************************************************)
(* Commands the panel leaves for a desktop in its ClientAccess row:        *)
(* removal of the program and migration to OPTIX.  The desktop is shown a  *)
(* pending command at bootstrap; a removal is acknowledged before it is    *)
(* carried out, a migration reports phases and is acknowledged at the end. *)
(* The panel and the desktop's requests read the row and write it later,   *)
(* without a lock: every write is a step of its own, made from the row as  *)
(* it was read.                                                            *)
(*                                                                         *)
(* The desktop program is not part of the repository; its part here        *)
(* follows what the endpoints accept.  Progress, messages and times are    *)
(* left out.                                                               *)
(***************************************************************************)
EXTENDS Integers

CONSTANTS
    Panels,         \* administrators' sessions
    Machines,       \* desktops, all of one office
    MaxCommandOps   \* bound: panel requests and lost replies

ASSUME CommandAssumption == MaxCommandOps \in Nat

VARIABLES
    command,        \* the command columns of each desktop's row
    enabled,        \* desktops with ClientAccess.active
    product,        \* the program each desktop runs
    panel,          \* what each panel session is doing
    agent,          \* what each desktop and its request are doing
    accepted,       \* history: removals whose acknowledgement was accepted
    crossed,        \* history: desktops whose row changed under a writer
    commandOps

commandVars ==
    <<command, enabled, product, panel, agent, accepted, crossed, commandOps>>

Actions == {"uninstall", "migrate"}
Revisions == 0 .. MaxCommandOps
Command == [action : Actions \cup {"none"}, revision : Revisions, acked : BOOLEAN,
            phase : {"", "queued", "received", "failed", "completed"}]
NoCommand == [action |-> "none", revision |-> 0, acked |-> FALSE, phase |-> ""]

PanelWork == [pc : {"idle", "uninstall", "migrate", "cancel"},
              targets : SUBSET Machines, seen : [Machines -> Command]]
AgentWork == [pc : {"idle", "ack", "acking", "report", "reporting", "download",
                    "install", "fail", "failing", "remove"},
              action : Actions \cup {"none"}, revision : Revisions, seen : Command]

IdlePanel == [pc |-> "idle", targets |-> {}, seen |-> [m \in Machines |-> NoCommand]]
IdleAgent == [pc |-> "idle", action |-> "none", revision |-> 0, seen |-> NoCommand]

CommandInit ==
    /\ command = [m \in Machines |-> NoCommand]
    /\ enabled = Machines
    /\ product = [m \in Machines |-> "legacy"]
    /\ panel = [p \in Panels |-> IdlePanel]
    /\ agent = [m \in Machines |-> IdleAgent]
    /\ accepted = {} /\ crossed = {} /\ commandOps = 0

CommandUsed == /\ commandOps < MaxCommandOps
               /\ commandOps' = commandOps + 1

Pending(m) == command[m].action # "none" /\ ~command[m].acked

-----------------------------------------------------------------------------
(* The panel: panel_optix_api.                                             *)

\* The panel reads the rows its request is about.
Ask(p, pc, targets) ==
    /\ panel[p].pc = "idle" /\ CommandUsed
    /\ panel' = [panel EXCEPT ![p] = [pc |-> pc, targets |-> targets, seen |-> command]]
    /\ UNCHANGED <<command, enabled, product, agent, accepted, crossed>>

AskUninstall(p, m) == m \in enabled /\ Ask(p, "uninstall", {m})

\* _migration_agent_ready: legacy desktops that still are enabled, one or the
\* whole office.
Ready == {m \in enabled : product[m] = "legacy"}

AskMigration(p, m) ==
    \E targets \in {Ready, Ready \cap {m}} :
        targets # {} /\ Ask(p, "migrate", targets)

\* A fault: a command that is being carried out can be withdrawn.
AnyCommand(m) == TRUE

Cancellable(m) == ~command[m].acked

AskCancel(p, m) == Cancellable(m) /\ Ask(p, "cancel", {m})

\* A fault: the acknowledgement of the command before is left in the row.
ScheduleUnreset(seen, action) ==
    [seen EXCEPT !.action = action, !.revision = @ + 1, !.phase = "queued"]

Scheduled(seen, action) ==
    [action |-> action, revision |-> seen.revision + 1, acked |-> FALSE, phase |-> "queued"]

\* A fault: cancelling writes a phase nothing else knows.
CancelledByName(row) == [row EXCEPT !.action = "none", !.phase = "cancelled"]

\* Cancelling leaves the revision and the acknowledgement as the row has them.
Cancelled(row) == [row EXCEPT !.action = "none", !.phase = ""]

\* The columns the request names are written, whatever they hold by now.
PanelWrite(p) ==
    /\ panel[p].pc # "idle"
    /\ command' = [m \in Machines |->
           IF m \notin panel[p].targets THEN command[m]
           ELSE IF panel[p].pc = "cancel" THEN Cancelled(command[m])
           ELSE Scheduled(panel[p].seen[m], panel[p].pc)]
    /\ crossed' = crossed \cup {m \in panel[p].targets : command[m] # panel[p].seen[m]}
    /\ panel' = [panel EXCEPT ![p] = IdlePanel]
    /\ UNCHANGED <<enabled, product, agent, accepted, commandOps>>

\* save_device: the PC is switched off or on.
SwitchMachine(m) ==
    /\ CommandUsed
    /\ enabled' = IF m \in enabled THEN enabled \ {m} ELSE enabled \cup {m}
    /\ UNCHANGED <<command, product, panel, agent, accepted, crossed>>

-----------------------------------------------------------------------------
(* The desktop and the requests it makes, one at a time.                   *)

AgentGo(m, pc) == agent' = [agent EXCEPT ![m].pc = pc]

\* bootstrap: a pending command is part of the answer.
Show(m) ==
    /\ agent[m].pc = "idle" /\ m \in enabled /\ product[m] # "removed" /\ Pending(m)
    /\ agent' = [agent EXCEPT ![m] = [IdleAgent EXCEPT
           !.pc = IF command[m].action = "uninstall" THEN "ack" ELSE "report",
           !.action = command[m].action, !.revision = command[m].revision]]
    /\ UNCHANGED <<command, enabled, product, panel, accepted, crossed, commandOps>>

\* A fault: the revision in the acknowledgement is not looked at.
AnyRevision(m) == command[m].action = agent[m].action /\ ~command[m].acked

\* desktop_command_ack reads the row and refuses what is no longer pending.
StillPending(m) ==
    /\ command[m].action = agent[m].action /\ ~command[m].acked
    /\ command[m].revision = agent[m].revision

\* desktop_command_status does not ask whether the command was acknowledged.
StillCurrent(m) ==
    command[m].action = agent[m].action /\ command[m].revision = agent[m].revision

\* A request of the desktop is checked; refused, the desktop drops the command.
AgentRead(m) ==
    /\ agent[m].pc \in {"ack", "report", "fail"}
    /\ LET allowed == IF agent[m].pc = "ack" THEN StillPending(m) ELSE StillCurrent(m)
           next == CASE agent[m].pc = "ack" -> "acking"
                     [] agent[m].pc = "report" -> "reporting"
                     [] OTHER -> "failing"
       IN agent' = [agent EXCEPT ![m] =
              IF allowed /\ m \in enabled THEN [@ EXCEPT !.pc = next, !.seen = command[m]]
              ELSE IdleAgent]
    /\ UNCHANGED <<command, enabled, product, panel, accepted, crossed, commandOps>>

Crossing(m) == IF command[m] # agent[m].seen THEN {m} ELSE {}

\* The acknowledgement is written to the row as it is now; its reply may be lost.
AckWrite(m) ==
    /\ agent[m].pc = "acking"
    /\ command' = [command EXCEPT ![m].acked = TRUE, ![m].phase = "completed"]
    /\ accepted' = accepted \cup {<<m, agent[m].action, agent[m].revision>>}
    /\ crossed' = crossed \cup Crossing(m)
    /\ IF agent[m].action = "uninstall" THEN AgentGo(m, "remove")
       ELSE agent' = [agent EXCEPT ![m] = IdleAgent]
    /\ UNCHANGED <<enabled, product, panel, commandOps>>

AckLost(m) ==
    /\ agent[m].pc = "remove" /\ CommandUsed
    /\ agent' = [agent EXCEPT ![m] = IdleAgent]
    /\ UNCHANGED <<command, enabled, product, panel, accepted, crossed>>

\* A phase of the migration is written; a failed migration stays pending and
\* is shown again.
ReportWrite(m) ==
    /\ agent[m].pc \in {"reporting", "failing"}
    /\ command' = [command EXCEPT ![m].phase =
           IF agent[m].pc = "reporting" THEN "received" ELSE "failed"]
    /\ crossed' = crossed \cup Crossing(m)
    /\ IF agent[m].pc = "reporting" THEN AgentGo(m, "download")
       ELSE agent' = [agent EXCEPT ![m] = IdleAgent]
    /\ UNCHANGED <<enabled, product, panel, accepted, commandOps>>

\* The installer is sent to a desktop whose row still says migrate, whatever
\* the revision.
Fetch(m) ==
    /\ agent[m].pc = "download"
    /\ IF m \in enabled /\ command[m].action = "migrate" THEN AgentGo(m, "install")
       ELSE agent' = [agent EXCEPT ![m] = IdleAgent]
    /\ UNCHANGED <<command, enabled, product, panel, accepted, crossed, commandOps>>

\* The installer runs, or fails.
Install(m) ==
    /\ agent[m].pc = "install"
    /\ \/ AgentGo(m, "ack") /\ product' = [product EXCEPT ![m] = "optix"]
          /\ UNCHANGED commandOps
       \/ AgentGo(m, "fail") /\ CommandUsed /\ UNCHANGED product
    /\ UNCHANGED <<command, enabled, panel, accepted, crossed>>

Remove(m) ==
    /\ agent[m].pc = "remove"
    /\ product' = [product EXCEPT ![m] = "removed"]
    /\ agent' = [agent EXCEPT ![m] = IdleAgent]
    /\ UNCHANGED <<command, enabled, panel, accepted, crossed, commandOps>>

AgentStep(m) == Show(m) \/ AgentRead(m) \/ AckWrite(m) \/ ReportWrite(m) \/ Fetch(m)
                \/ Install(m) \/ Remove(m)

CommandNext ==
    \/ \E p \in Panels, m \in Machines :
           AskUninstall(p, m) \/ AskMigration(p, m) \/ AskCancel(p, m)
    \/ \E p \in Panels : PanelWrite(p)
    \/ \E m \in Machines :
           \/ SwitchMachine(m) \/ Show(m) \/ AgentRead(m) \/ AckWrite(m) \/ AckLost(m)
           \/ ReportWrite(m) \/ Fetch(m) \/ Install(m) \/ Remove(m)

CommandSpec == CommandInit /\ [][CommandNext]_commandVars

-----------------------------------------------------------------------------
(* What the commands must guarantee.                                       *)

CommandTypeOK ==
    /\ command \in [Machines -> Command]
    /\ enabled \subseteq Machines
    /\ product \in [Machines -> {"legacy", "optix", "removed"}]
    /\ panel \in [Panels -> PanelWork]
    /\ agent \in [Machines -> AgentWork]
    /\ accepted \subseteq Machines \X Actions \X Revisions
    /\ crossed \subseteq Machines
    /\ commandOps \in 0 .. MaxCommandOps

\* A command that reads as acknowledged was acknowledged by the desktop under
\* this very action and revision, and a removal about to run has not been
\* withdrawn - unless the row changed between another request's reading and its
\* writing (desktop_command_ack, panel_optix_api).
AckIsForThisCommand ==
    \A m \in Machines \ crossed :
        /\ command[m].acked =>
               <<m, command[m].action, command[m].revision>> \in accepted
        /\ agent[m].pc = "remove" /\ command[m].revision = agent[m].revision =>
               command[m].action = "uninstall"

\* A removal the enabled PC should be shown and has not acknowledged.
RemovalWaits(m) ==
    /\ command[m].action = "uninstall" /\ m \in enabled \ crossed
    /\ product[m] # "removed"
    /\ <<m, "uninstall", command[m].revision>> \notin accepted

\* No removal waits for ever on an enabled PC that keeps asking, also when an
\* earlier command was acknowledged before it, unless the row changed under a
\* writer.
RemovalIsAcknowledged == \A m \in Machines : []<>~RemovalWaits(m)
=============================================================================
