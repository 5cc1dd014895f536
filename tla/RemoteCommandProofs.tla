------------------------ MODULE RemoteCommandProofs ------------------------
(* Proofs about the commands the panel leaves for a desktop, for every      *)
(* number of panel sessions, desktops and requests.                         *)
EXTENDS RemoteCommand, TLAPS

-----------------------------------------------------------------------------
(* The inductive invariant.                                                 *)

\* Revisions are counted up, at most one for each request of the panel, also by
\* the requests that have read the rows and not written them.
RevisionsFollow ==
    /\ \A m \in Machines : command[m].revision <= commandOps
    /\ \A p \in Panels : panel[p].pc # "idle" =>
           \A m \in Machines : panel[p].seen[m].revision + 1 <= commandOps

\* A request to cancel has read that the command was not acknowledged.
CancelsUnacknowledged ==
    \A p \in Panels : panel[p].pc = "cancel" =>
        \A m \in panel[p].targets : ~panel[p].seen[m].acked

\* A desktop at work has a command, and an acknowledgement that was let through
\* is for the command in the row it was checked against.
AnswerChecked(w) ==
    /\ w.pc # "idle" => w.action \in Actions
    /\ w.pc = "acking" => w.seen.action = w.action /\ w.seen.revision = w.revision

AnswersChecked == \A m \in Machines : AnswerChecked(agent[m])

\* A desktop is never ahead of its row, and a removal about to run is the
\* acknowledged command of the row, or the row has gone on to another command.
RemovalStands(w, row) ==
    /\ w.revision <= row.revision
    /\ w.pc = "remove" /\ w.revision = row.revision => row.acked /\ row.action = "uninstall"

RemovalsStand == \A m \in Machines \ crossed : RemovalStands(agent[m], command[m])

AcksAccepted ==
    \A m \in Machines \ crossed :
        command[m].acked => <<m, command[m].action, command[m].revision>> \in accepted

CommandTyped == CommandTypeOK /\ RevisionsFollow /\ AnswersChecked

CommandInv ==
    /\ CommandTyped /\ CancelsUnacknowledged
    /\ RemovalsStand /\ AcksAccepted

-----------------------------------------------------------------------------
(* Where everything starts.                                                 *)

LEMMA CommandFirstTypes ==
  /\ NoCommand \in Command /\ NoCommand.revision = 0
  /\ IdlePanel \in PanelWork /\ IdlePanel.pc = "idle"
  /\ IdleAgent \in AgentWork /\ IdleAgent.pc = "idle" /\ IdleAgent.revision = 0
  <1>1. 0 \in Revisions
    BY CommandAssumption DEF Revisions
  <1>2. NoCommand \in Command
    BY <1>1 DEF NoCommand, Command
  <1> QED
    BY <1>1, <1>2 DEF NoCommand, IdlePanel, PanelWork, IdleAgent, AgentWork

LEMMA CommandInitInv == CommandInit => CommandInv
  <1> SUFFICES ASSUME CommandInit PROVE CommandInv
    OBVIOUS
  <1>1. /\ command \in [Machines -> Command]
        /\ panel \in [Panels -> PanelWork]
        /\ agent \in [Machines -> AgentWork]
        /\ product \in [Machines -> {"legacy", "optix", "removed"}]
    BY CommandFirstTypes DEF CommandInit
  <1>2. CommandTypeOK
    BY <1>1, CommandAssumption DEF CommandInit, CommandTypeOK
  <1>3. /\ \A m \in Machines : command[m].revision = 0
        /\ \A p \in Panels : panel[p].pc = "idle"
        /\ \A m \in Machines : agent[m].pc = "idle"
        /\ commandOps = 0
    <2>1. \A m \in Machines : command[m] = NoCommand /\ agent[m] = IdleAgent
      BY DEF CommandInit
    <2>2. \A p \in Panels : panel[p] = IdlePanel
      BY DEF CommandInit
    <2>3. commandOps = 0
      BY DEF CommandInit
    <2> QED
      BY <2>1, <2>2, <2>3, CommandFirstTypes
  <1>4. RevisionsFollow /\ CancelsUnacknowledged /\ AnswersChecked
    BY <1>3 DEF RevisionsFollow, CancelsUnacknowledged, AnswersChecked, AnswerChecked
  <1>5. RemovalsStand /\ AcksAccepted
    <2>1. \A m \in Machines : agent[m].revision = 0 /\ ~command[m].acked
      BY CommandFirstTypes DEF CommandInit, NoCommand
    <2> QED
      BY <1>3, <2>1 DEF RemovalsStand, RemovalStands, AcksAccepted
  <1> QED
    BY <1>2, <1>4, <1>5 DEF CommandInv, CommandTyped

-----------------------------------------------------------------------------
(* Steps of the panel.                                                      *)

LEMMA CommandCounted ==
  ASSUME CommandTyped
  PROVE  /\ commandOps \in Nat
         /\ \A row \in Command : row.revision \in Nat
         /\ CommandUsed => /\ commandOps' = commandOps + 1
                           /\ commandOps' \in 0 .. MaxCommandOps
  <1>1. commandOps \in Nat /\ commandOps \in 0 .. MaxCommandOps /\ MaxCommandOps \in Nat
    BY CommandAssumption DEF CommandTyped, CommandTypeOK
  <1>2. \A row \in Command : row.revision \in Nat
    <2>1. \A row \in Command : row.revision \in Revisions
      BY DEF Command
    <2>2. \A n \in Revisions : n \in Nat
      BY <1>1 DEF Revisions
    <2> QED
      BY <2>1, <2>2
  <1> QED
    BY <1>1, <1>2 DEF CommandUsed

\* A request reads every row; a request to cancel finds its own unacknowledged.
LEMMA AskEffect ==
  ASSUME NEW p \in Panels, NEW m \in Machines,
         AskUninstall(p, m) \/ AskMigration(p, m) \/ AskCancel(p, m), CommandTyped
  PROVE  \E pc \in {"uninstall", "migrate", "cancel"}, targets \in SUBSET Machines :
            /\ Ask(p, pc, targets)
            /\ pc = "cancel" => \A n \in targets : ~command[n].acked
  <1>1. Ready \in SUBSET Machines
    BY DEF Ready, CommandTyped, CommandTypeOK
  <1>2. CASE AskUninstall(p, m)
    BY <1>2 DEF AskUninstall
  <1>3. CASE AskMigration(p, m)
    BY <1>1, <1>3 DEF AskMigration
  <1>4. CASE AskCancel(p, m)
    BY <1>4 DEF AskCancel, Cancellable
  <1> QED
    BY <1>2, <1>3, <1>4

LEMMA AskInv ==
  ASSUME CommandInv, NEW p \in Panels, NEW pc \in {"uninstall", "migrate", "cancel"},
         NEW targets \in SUBSET Machines, Ask(p, pc, targets),
         pc = "cancel" => \A n \in targets : ~command[n].acked
  PROVE  CommandInv'
  <1>1. /\ CommandTypeOK /\ RevisionsFollow /\ commandOps \in Nat
        /\ commandOps' = commandOps + 1 /\ commandOps' \in 0 .. MaxCommandOps
    BY CommandCounted DEF CommandInv, CommandTyped, Ask
  <1>2. PICK w : w = [pc |-> pc, targets |-> targets, seen |-> command]
    OBVIOUS
  <1>3. w \in PanelWork /\ w.pc = pc /\ w.targets = targets /\ w.seen = command
    BY <1>1, <1>2 DEF PanelWork, CommandTypeOK
  <1>4. panel' = [panel EXCEPT ![p] = w]
        /\ UNCHANGED <<command, enabled, product, agent, accepted, crossed>>
    BY <1>2 DEF Ask
  <1>5. panel' \in [Panels -> PanelWork] /\ panel'[p] = w
        /\ \A r \in Panels \ {p} : panel'[r] = panel[r]
    BY <1>1, <1>3, <1>4 DEF CommandTypeOK
  <1>6. CommandTypeOK'
    BY <1>1, <1>4, <1>5 DEF CommandTypeOK
  <1>7. RevisionsFollow'
    <2>1. \A m \in Machines : command[m].revision \in Nat
      BY <1>1, CommandCounted DEF CommandTypeOK, CommandInv
    <2>2. \A r \in Panels : \A m \in Machines : panel[r].seen[m].revision \in Nat
      BY <1>1, CommandCounted DEF CommandTypeOK, CommandInv, PanelWork
    <2>3. \A m \in Machines : command'[m].revision <= commandOps'
      BY <1>1, <1>4, <2>1 DEF RevisionsFollow
    <2>4. ASSUME NEW r \in Panels, panel'[r].pc # "idle", NEW m \in Machines
          PROVE  panel'[r].seen[m].revision + 1 <= commandOps'
      <3>1. CASE r = p
        BY <1>1, <1>3, <1>5, <2>1, <3>1 DEF RevisionsFollow
      <3>2. CASE r # p
        <4>1. panel'[r] = panel[r]
          BY <1>5, <3>2
        <4>2. panel[r].seen[m].revision + 1 <= commandOps
          BY <1>1, <2>4, <4>1 DEF RevisionsFollow
        <4> QED
          BY <1>1, <2>2, <4>1, <4>2
      <3> QED
        BY <3>1, <3>2
    <2> QED
      BY <2>3, <2>4 DEF RevisionsFollow
  <1>8. CancelsUnacknowledged'
    BY <1>3, <1>5 DEF CancelsUnacknowledged, CommandInv
  <1>9. AnswersChecked' /\ RemovalsStand' /\ AcksAccepted'
    BY <1>4 DEF AnswersChecked, RemovalsStand, AcksAccepted, CommandInv, CommandTyped
  <1> QED
    BY <1>6, <1>7, <1>8, <1>9 DEF CommandInv, CommandTyped


LEMMA PanelWriteInv ==
  ASSUME CommandInv, NEW p \in Panels, PanelWrite(p)
  PROVE  CommandInv'
  <1>1. PICK w \in PanelWork : w = panel[p] /\ w.pc # "idle"
    BY DEF CommandInv, CommandTyped, CommandTypeOK, PanelWrite
  <1>2. /\ command' = [m \in Machines |->
              IF m \notin w.targets THEN command[m]
              ELSE IF w.pc = "cancel" THEN Cancelled(command[m])
              ELSE Scheduled(w.seen[m], w.pc)]
        /\ crossed' = crossed \cup {m \in w.targets : command[m] # w.seen[m]}
        /\ panel' = [panel EXCEPT ![p] = IdlePanel]
        /\ UNCHANGED <<enabled, product, agent, accepted, commandOps>>
    BY <1>1 DEF PanelWrite
  <1>3. /\ CommandTypeOK /\ commandOps \in Nat /\ RevisionsFollow
        /\ commandOps \in 0 .. MaxCommandOps
    BY CommandCounted DEF CommandInv, CommandTyped, CommandTypeOK
  <1>4. ASSUME NEW m \in Machines, m \in w.targets, w.pc = "cancel"
        PROVE  /\ command'[m] \in Command /\ command'[m].action = "none"
               /\ command'[m].revision = command[m].revision
               /\ command'[m].acked = command[m].acked
    <2>1. command'[m] = [command[m] EXCEPT !.action = "none", !.phase = ""]
      BY <1>2, <1>4 DEF Cancelled
    <2>2. PICK row \in Command : row = command[m]
      BY <1>3 DEF CommandTypeOK
    <2>3. PICK row2 : row2 = [row EXCEPT !.action = "none", !.phase = ""]
      OBVIOUS
    <2>4. /\ row2 \in Command /\ row2.action = "none" /\ row2.revision = row.revision
          /\ row2.acked = row.acked
      BY <2>2, <2>3 DEF Command
    <2> QED
      BY <2>1, <2>2, <2>3, <2>4
  <1>5. ASSUME NEW m \in Machines, m \in w.targets, w.pc # "cancel"
        PROVE  /\ command'[m] \in Command /\ command'[m].revision <= commandOps
               /\ command'[m].revision = w.seen[m].revision + 1
               /\ ~command'[m].acked
    <2>1. PICK n \in Nat : n = w.seen[m].revision + 1 /\ n <= commandOps
      <3>1. w.seen[m].revision \in Nat /\ w.seen[m].revision + 1 <= commandOps
        BY <1>1, <1>3, CommandCounted DEF PanelWork, RevisionsFollow, CommandInv
      <3> QED
        BY <3>1
    <2>2. n \in Revisions /\ w.pc \in Actions
      BY <1>1, <1>3, <1>5, <2>1, CommandAssumption DEF Revisions, PanelWork, Actions
    <2>3. command'[m] = [action |-> w.pc, revision |-> n, acked |-> FALSE, phase |-> "queued"]
      BY <1>2, <1>5, <2>1 DEF Scheduled
    <2> QED
      BY <2>1, <2>2, <2>3 DEF Command
  <1>6. \A m \in Machines : m \notin w.targets => command'[m] = command[m]
    BY <1>2
  <1>7. \A m \in Machines : command[m] \in Command /\ command[m].revision <= commandOps
    BY <1>3 DEF CommandTypeOK, RevisionsFollow
  <1>8. \A m \in Machines : command'[m] \in Command /\ command'[m].revision <= commandOps
    <2> SUFFICES ASSUME NEW m \in Machines
                 PROVE  command'[m] \in Command /\ command'[m].revision <= commandOps
      OBVIOUS
    <2> QED
      BY <1>4, <1>5, <1>6, <1>7
  <1>9. panel' \in [Panels -> PanelWork]
        /\ \A r \in Panels : panel'[r] = panel[r] \/ panel'[r].pc = "idle"
    BY <1>2, <1>3, CommandFirstTypes DEF CommandTypeOK
  <1>10. CommandTypeOK'
    <2>1. command' \in [Machines -> Command]
      BY <1>2, <1>8
    <2>2. crossed' \subseteq Machines
      BY <1>1, <1>2, <1>3 DEF CommandTypeOK, PanelWork
    <2> QED
      BY <1>2, <1>3, <1>9, <2>1, <2>2 DEF CommandTypeOK
  <1>11. RevisionsFollow' /\ CancelsUnacknowledged'
    BY <1>2, <1>3, <1>8, <1>9 DEF RevisionsFollow, CancelsUnacknowledged, CommandInv
  <1>12. AnswersChecked'
    BY <1>2 DEF AnswersChecked, CommandInv, CommandTyped
  <1>13. ASSUME NEW m \in Machines, m \notin crossed'
         PROVE  /\ RemovalStands(agent[m], command'[m])
                /\ command'[m].acked =>
                      <<m, command'[m].action, command'[m].revision>> \in accepted
    <2>1. m \notin crossed /\ (m \in w.targets => command[m] = w.seen[m])
      BY <1>2, <1>13
    <2>2. /\ RemovalStands(agent[m], command[m])
          /\ command[m].acked => <<m, command[m].action, command[m].revision>> \in accepted
      BY <2>1 DEF CommandInv, RemovalsStand, AcksAccepted
    <2>3. CASE m \notin w.targets
      BY <1>6, <2>2, <2>3
    <2>4. CASE m \in w.targets /\ w.pc = "cancel"
      <3>1. ~command[m].acked
        BY <1>1, <2>1, <2>4 DEF CommandInv, CancelsUnacknowledged
      <3> QED
        BY <1>4, <2>2, <2>4, <3>1 DEF RemovalStands
    <2>5. CASE m \in w.targets /\ w.pc # "cancel"
      <3>1. command[m].revision \in Nat /\ agent[m].revision \in Nat
        BY <1>3, <1>7, CommandCounted, CommandAssumption
           DEF CommandInv, CommandTypeOK, AgentWork, Revisions
      <3>2. ~command'[m].acked /\ command'[m].revision = command[m].revision + 1
        BY <1>5, <2>1, <2>5
      <3> QED
        BY <2>2, <3>1, <3>2 DEF RemovalStands
    <2> QED
      BY <2>3, <2>4, <2>5
  <1>14. RemovalsStand' /\ AcksAccepted'
    BY <1>2, <1>13 DEF RemovalsStand, AcksAccepted
  <1> QED
    BY <1>10, <1>11, <1>12, <1>14 DEF CommandInv, CommandTyped

-----------------------------------------------------------------------------
(* Steps of a desktop.                                                      *)

\* The desktop goes on with the command it has.
LEMMA GoesOn ==
  ASSUME NEW v \in AgentWork, v.pc # "idle", AnswerChecked(v),
         NEW pc \in {"ack", "report", "download", "install", "fail", "remove"}
  PROVE  LET w == [v EXCEPT !.pc = pc] IN
         /\ w \in AgentWork /\ AnswerChecked(w)
         /\ w.pc = pc /\ w.revision = v.revision /\ w.action = v.action
  BY DEF AgentWork, AnswerChecked

\* What a step of a desktop does to its own part: w is what it does next, and
\* row its row as the step leaves it.
DesktopMoves(m, w, row) ==
    /\ agent' = [agent EXCEPT ![m] = w] /\ w \in AgentWork /\ AnswerChecked(w)
    /\ command' = [command EXCEPT ![m] = row] /\ row \in Command
    /\ row.action = command[m].action /\ row.revision = command[m].revision
    /\ w.revision \in {0, agent[m].revision, command[m].revision}
    /\ UNCHANGED <<enabled, panel>> /\ product' \in [Machines -> {"legacy", "optix", "removed"}]
    /\ CommandUsed \/ UNCHANGED commandOps

\* Nothing is acknowledged by the step, and no removal is about to run after it.
Unacknowledging(m, w, row) ==
    /\ w.pc # "remove" /\ row.acked = command[m].acked
    /\ UNCHANGED accepted /\ crossed \subseteq crossed' /\ crossed' \subseteq crossed \cup {m}

LEMMA QuietMoves ==
  ASSUME CommandTyped, NEW m \in Machines,
         Show(m) \/ AgentRead(m) \/ AckLost(m) \/ Fetch(m) \/ Install(m) \/ Remove(m)
  PROVE  \E w \in AgentWork : DesktopMoves(m, w, command[m])
                              /\ Unacknowledging(m, w, command[m])
  <1>1. /\ agent \in [Machines -> AgentWork] /\ command \in [Machines -> Command]
        /\ product \in [Machines -> {"legacy", "optix", "removed"}]
        /\ AnswerChecked(agent[m]) /\ agent[m] \in AgentWork /\ command[m] \in Command
    BY DEF CommandTyped, CommandTypeOK, AnswersChecked
  <1>2. /\ UNCHANGED <<command, enabled, panel, accepted, crossed>>
        /\ CommandUsed \/ UNCHANGED commandOps
        /\ product' \in [Machines -> {"legacy", "optix", "removed"}]
    BY <1>1 DEF Show, AgentRead, AckLost, Fetch, Install, Remove
  <1>3. command' = [command EXCEPT ![m] = command[m]]
    BY <1>1, <1>2
  <1>4. SUFFICES \E w \in AgentWork :
                    /\ agent' = [agent EXCEPT ![m] = w] /\ AnswerChecked(w)
                    /\ w.revision \in {0, agent[m].revision, command[m].revision}
                    /\ w.pc # "remove"
    BY <1>1, <1>2, <1>3 DEF DesktopMoves, Unacknowledging
  <1>5. CASE agent' = [agent EXCEPT ![m] = IdleAgent]
    BY <1>5, CommandFirstTypes DEF AnswerChecked
  <1>6. CASE Show(m)
    <2>1. PICK pc \in {"ack", "report"} :
            pc = IF command[m].action = "uninstall" THEN "ack" ELSE "report"
      OBVIOUS
    <2>2. PICK w : w = [IdleAgent EXCEPT !.pc = pc, !.action = command[m].action,
                                         !.revision = command[m].revision]
      OBVIOUS
    <2>3. agent' = [agent EXCEPT ![m] = w]
      BY <1>6, <2>1, <2>2 DEF Show
    <2>4. command[m].action \in Actions
      BY <1>1, <1>6 DEF Show, Pending, Command
    <2>5. /\ w \in AgentWork /\ w.pc = pc /\ w.action = command[m].action
          /\ w.revision = command[m].revision
      BY <1>1, <2>2, CommandFirstTypes DEF AgentWork, Command
    <2> QED
      BY <2>3, <2>4, <2>5 DEF AnswerChecked
  <1>7. CASE AgentRead(m)
    <2>1. CASE agent' # [agent EXCEPT ![m] = IdleAgent]
      <3>1. PICK next \in {"acking", "reporting", "failing"} :
              /\ next = "acking" <=> agent[m].pc = "ack"
              /\ agent' = [agent EXCEPT ![m] = [@ EXCEPT !.pc = next, !.seen = command[m]]]
              /\ agent[m].pc \in {"ack", "report", "fail"}
              /\ command[m].action = agent[m].action /\ command[m].revision = agent[m].revision
        BY <1>7, <2>1 DEF AgentRead, StillPending, StillCurrent
      <3>2. PICK w : w = [agent[m] EXCEPT !.pc = next, !.seen = command[m]]
        OBVIOUS
      <3>3. agent' = [agent EXCEPT ![m] = w]
        BY <3>1, <3>2
      <3>4. /\ w \in AgentWork /\ w.pc = next /\ w.action = agent[m].action
            /\ w.revision = agent[m].revision /\ w.seen = command[m]
        BY <1>1, <3>2 DEF AgentWork
      <3> QED
        BY <1>1, <3>1, <3>3, <3>4 DEF AnswerChecked
    <2> QED
      BY <1>5, <2>1
  <1>8. ASSUME NEW pc \in {"ack", "install", "fail"}, AgentGo(m, pc), agent[m].pc # "idle"
        PROVE  \E w \in AgentWork :
                    /\ agent' = [agent EXCEPT ![m] = w] /\ AnswerChecked(w)
                    /\ w.revision \in {0, agent[m].revision, command[m].revision}
                    /\ w.pc # "remove"
    <2>1. PICK w : w = [agent[m] EXCEPT !.pc = pc]
      OBVIOUS
    <2>2. agent' = [agent EXCEPT ![m] = w]
      BY <1>8, <2>1 DEF AgentGo
    <2>3. /\ w \in AgentWork /\ AnswerChecked(w) /\ w.pc = pc
          /\ w.revision = agent[m].revision
      <3>1. agent[m] \in AgentWork /\ agent[m].pc # "idle" /\ AnswerChecked(agent[m])
        BY <1>1, <1>8
      <3> QED
        BY <2>1, <3>1 DEF AgentWork, AnswerChecked
    <2> QED
      BY <2>2, <2>3
  <1>9. CASE Fetch(m) \/ Install(m)
    BY <1>5, <1>8, <1>9 DEF Fetch, Install
  <1>10. CASE AckLost(m) \/ Remove(m)
    BY <1>5, <1>10 DEF AckLost, Remove
  <1> QED
    BY <1>6, <1>7, <1>9, <1>10

LEMMA ReportMoves ==
  ASSUME CommandTyped, NEW m \in Machines, ReportWrite(m)
  PROVE  \E w \in AgentWork, row \in Command :
            DesktopMoves(m, w, row) /\ Unacknowledging(m, w, row)
  <1>1. /\ agent \in [Machines -> AgentWork] /\ command \in [Machines -> Command]
        /\ product \in [Machines -> {"legacy", "optix", "removed"}]
        /\ AnswerChecked(agent[m]) /\ agent[m] \in AgentWork /\ command[m] \in Command
    BY DEF CommandTyped, CommandTypeOK, AnswersChecked
  <1>2. PICK phase \in {"received", "failed"} : command' = [command EXCEPT ![m].phase = phase]
    BY DEF ReportWrite
  <1>3. PICK row : row = [command[m] EXCEPT !.phase = phase]
    OBVIOUS
  <1>4. /\ row \in Command /\ row.action = command[m].action
        /\ row.revision = command[m].revision /\ row.acked = command[m].acked
    BY <1>1, <1>3 DEF Command
  <1>5. command' = [command EXCEPT ![m] = row]
    BY <1>2, <1>3
  <1>6. \E w \in AgentWork : /\ agent' = [agent EXCEPT ![m] = w] /\ AnswerChecked(w)
                             /\ w.revision \in {0, agent[m].revision, command[m].revision}
                             /\ w.pc # "remove"
    <2>1. CASE agent' = [agent EXCEPT ![m] = IdleAgent]
      BY <2>1, CommandFirstTypes DEF AnswerChecked
    <2>2. CASE AgentGo(m, "download")
      <3>1. PICK w : w = [agent[m] EXCEPT !.pc = "download"]
        OBVIOUS
      <3>2. agent[m].pc # "idle"
        BY DEF ReportWrite
      <3>3. /\ w \in AgentWork /\ AnswerChecked(w) /\ w.pc = "download"
            /\ w.revision = agent[m].revision
        BY <1>1, <3>1, <3>2, GoesOn
      <3>4. agent' = [agent EXCEPT ![m] = w]
        BY <2>2, <3>1 DEF AgentGo
      <3> QED
        BY <3>3, <3>4
    <2> QED
      BY <2>1, <2>2 DEF ReportWrite
  <1>7. /\ UNCHANGED <<enabled, product, panel, accepted, commandOps>>
        /\ crossed' = crossed \cup Crossing(m)
    BY DEF ReportWrite
  <1>8. Crossing(m) \subseteq {m}
    BY DEF Crossing
  <1> QED
    BY <1>1, <1>4, <1>5, <1>6, <1>7, <1>8 DEF DesktopMoves, Unacknowledging

\* The acknowledgement of a row that did not change under it is this command's.
LEMMA AckMoves ==
  ASSUME CommandTyped, NEW m \in Machines, AckWrite(m)
  PROVE  \E w \in AgentWork, row \in Command :
            /\ DesktopMoves(m, w, row) /\ row.acked
            /\ crossed \subseteq crossed' /\ crossed' \subseteq crossed \cup {m}
            /\ agent[m].action \in Actions
            /\ accepted' = accepted \cup {<<m, agent[m].action, agent[m].revision>>}
            /\ m \notin crossed' => /\ command[m].action = agent[m].action
                                    /\ command[m].revision = agent[m].revision
            /\ w.pc = "remove" => w.revision = agent[m].revision
                                  /\ agent[m].action = "uninstall"
  <1>1. /\ agent \in [Machines -> AgentWork] /\ command \in [Machines -> Command]
        /\ product \in [Machines -> {"legacy", "optix", "removed"}]
        /\ AnswerChecked(agent[m]) /\ agent[m] \in AgentWork /\ command[m] \in Command
    BY DEF CommandTyped, CommandTypeOK, AnswersChecked
  <1>2. /\ agent[m].pc = "acking" /\ crossed' = crossed \cup Crossing(m)
        /\ accepted' = accepted \cup {<<m, agent[m].action, agent[m].revision>>}
        /\ UNCHANGED <<enabled, product, panel, commandOps>>
    BY DEF AckWrite
  <1>3. PICK row : row = [command[m] EXCEPT !.acked = TRUE, !.phase = "completed"]
    OBVIOUS
  <1>4. /\ row \in Command /\ row.action = command[m].action
        /\ row.revision = command[m].revision /\ row.acked
    BY <1>1, <1>3 DEF Command
  <1>5. command' = [command EXCEPT ![m] = row]
    <2>1. command' = [command EXCEPT ![m].acked = TRUE, ![m].phase = "completed"]
      BY DEF AckWrite
    <2> QED
      BY <1>1, <1>3, <2>1
  <1>6. Crossing(m) \subseteq {m} /\ (m \notin Crossing(m) => command[m] = agent[m].seen)
    BY DEF Crossing
  <1>7. \E w \in AgentWork : /\ agent' = [agent EXCEPT ![m] = w] /\ AnswerChecked(w)
                             /\ w.revision \in {0, agent[m].revision, command[m].revision}
                             /\ w.pc = "remove" => w.revision = agent[m].revision
                                                   /\ agent[m].action = "uninstall"
    <2>1. CASE agent' = [agent EXCEPT ![m] = IdleAgent]
      BY <2>1, CommandFirstTypes DEF AnswerChecked
    <2>2. CASE AgentGo(m, "remove") /\ agent[m].action = "uninstall"
      <3>1. PICK w : w = [agent[m] EXCEPT !.pc = "remove"]
        OBVIOUS
      <3>2. /\ w \in AgentWork /\ AnswerChecked(w) /\ w.pc = "remove"
            /\ w.revision = agent[m].revision
        BY <1>1, <1>2, <3>1, GoesOn
      <3>3. agent' = [agent EXCEPT ![m] = w]
        BY <2>2, <3>1 DEF AgentGo
      <3> QED
        BY <2>2, <3>2, <3>3
    <2> QED
      BY <2>1, <2>2 DEF AckWrite
  <1>8. agent[m].action \in Actions /\ agent[m].seen.action = agent[m].action
        /\ agent[m].seen.revision = agent[m].revision
    BY <1>1, <1>2 DEF AnswerChecked
  <1> QED
    BY <1>1, <1>2, <1>4, <1>5, <1>6, <1>7, <1>8 DEF DesktopMoves

\* The part of the invariant a step of one desktop leaves to show.
LEMMA MovesInv ==
  ASSUME CommandInv, NEW m \in Machines, NEW w \in AgentWork, NEW row \in Command,
         DesktopMoves(m, w, row), crossed \subseteq crossed', crossed' \subseteq Machines,
         accepted \subseteq accepted', accepted' \subseteq Machines \X Actions \X Revisions,
         m \notin crossed' => /\ RemovalStands(w, row)
                              /\ row.acked => <<m, row.action, row.revision>> \in accepted'
  PROVE  CommandInv'
  <1>1. /\ agent \in [Machines -> AgentWork] /\ command \in [Machines -> Command]
        /\ panel \in [Panels -> PanelWork]
        /\ CommandTypeOK /\ RevisionsFollow /\ AnswersChecked /\ commandOps \in Nat
    BY CommandCounted DEF CommandInv, CommandTyped, CommandTypeOK
  <1>2. /\ commandOps' \in 0 .. MaxCommandOps
        /\ commandOps' = commandOps \/ commandOps' = commandOps + 1
    BY <1>1, CommandCounted DEF DesktopMoves, CommandInv, CommandTypeOK
  <1>3. /\ agent' \in [Machines -> AgentWork] /\ agent'[m] = w /\ AnswerChecked(w)
        /\ command' \in [Machines -> Command] /\ command'[m] = row
        /\ \A n \in Machines \ {m} : agent'[n] = agent[n] /\ command'[n] = command[n]
        /\ \A n \in Machines : command'[n].revision = command[n].revision
        /\ UNCHANGED <<enabled, panel>>
    BY <1>1 DEF DesktopMoves
  <1>4. CommandTypeOK'
    BY <1>1, <1>2, <1>3 DEF CommandTypeOK, DesktopMoves
  <1>5. RevisionsFollow'
    <2>1. \A n \in Machines : command[n].revision \in Nat
      BY <1>1, CommandCounted DEF CommandInv
    <2>2. \A p \in Panels : \A n \in Machines : panel[p].seen[n].revision \in Nat
      BY <1>1, CommandCounted DEF CommandInv, PanelWork
    <2>3. \A n \in Machines : command'[n].revision <= commandOps'
      BY <1>1, <1>2, <1>3, <2>1 DEF RevisionsFollow
    <2>4. ASSUME NEW p \in Panels, panel[p].pc # "idle", NEW n \in Machines
          PROVE  panel[p].seen[n].revision + 1 <= commandOps'
      <3>1. panel[p].seen[n].revision + 1 <= commandOps
        BY <1>1, <2>4 DEF RevisionsFollow
      <3> QED
        BY <1>1, <1>2, <2>2, <3>1
    <2> QED
      BY <1>3, <2>3, <2>4 DEF RevisionsFollow
  <1>6. AnswersChecked'
    BY <1>1, <1>3 DEF AnswersChecked
  <1>7. CancelsUnacknowledged'
    BY <1>3 DEF CommandInv, CancelsUnacknowledged
  <1>8. RemovalsStand' /\ AcksAccepted'
    BY <1>3 DEF CommandInv, RemovalsStand, AcksAccepted
  <1> QED
    BY <1>4, <1>5, <1>6, <1>7, <1>8 DEF CommandInv, CommandTyped

LEMMA DesktopInv ==
  ASSUME CommandInv, NEW m \in Machines,
         \/ Show(m) \/ AgentRead(m) \/ AckWrite(m) \/ AckLost(m) \/ ReportWrite(m)
         \/ Fetch(m) \/ Install(m) \/ Remove(m)
  PROVE  CommandInv'
  <1>1. /\ CommandTyped /\ accepted \subseteq Machines \X Actions \X Revisions
        /\ crossed \subseteq Machines
        /\ agent[m] \in AgentWork /\ command[m] \in Command
    BY DEF CommandInv, CommandTyped, CommandTypeOK
  <1>2. /\ agent[m].revision \in Nat /\ command[m].revision \in Nat
        /\ agent[m].revision \in Revisions /\ command[m].revision \in Revisions
    <2>1. agent[m].revision \in Revisions /\ command[m].revision \in Revisions
      BY <1>1 DEF AgentWork, Command
    <2> QED
      BY <2>1, CommandAssumption DEF Revisions
  <1>3. m \notin crossed => /\ RemovalStands(agent[m], command[m])
                            /\ command[m].acked =>
                                 <<m, command[m].action, command[m].revision>> \in accepted
    BY DEF CommandInv, RemovalsStand, AcksAccepted
  <1>4. ASSUME NEW w \in AgentWork, NEW row \in Command,
               DesktopMoves(m, w, row), Unacknowledging(m, w, row)
        PROVE  CommandInv'
    <2>1. /\ row.action = command[m].action /\ row.revision = command[m].revision
          /\ w.revision \in {0, agent[m].revision, command[m].revision}
          /\ w.pc # "remove" /\ row.acked = command[m].acked
          /\ accepted' = accepted /\ crossed \subseteq crossed'
          /\ crossed' \subseteq Machines
      BY <1>1, <1>4 DEF DesktopMoves, Unacknowledging
    <2>2. m \notin crossed' =>
            /\ RemovalStands(w, row)
            /\ row.acked => <<m, row.action, row.revision>> \in accepted'
      BY <1>2, <1>3, <2>1 DEF RemovalStands
    <2> QED
      BY <1>1, <1>4, <2>1, <2>2, MovesInv
  <1>5. CASE AckWrite(m)
    <2>1. PICK w \in AgentWork, row \in Command :
            /\ DesktopMoves(m, w, row) /\ row.acked
            /\ crossed \subseteq crossed' /\ crossed' \subseteq crossed \cup {m}
            /\ agent[m].action \in Actions
            /\ accepted' = accepted \cup {<<m, agent[m].action, agent[m].revision>>}
            /\ m \notin crossed' => /\ command[m].action = agent[m].action
                                    /\ command[m].revision = agent[m].revision
            /\ w.pc = "remove" => w.revision = agent[m].revision
                                  /\ agent[m].action = "uninstall"
      BY <1>1, <1>5, AckMoves
    <2>2. /\ row.action = command[m].action /\ row.revision = command[m].revision
          /\ w.revision \in {0, agent[m].revision, command[m].revision}
      BY <2>1 DEF DesktopMoves
    <2>3. accepted' \subseteq Machines \X Actions \X Revisions
      BY <1>1, <1>2, <2>1
    <2>4. m \notin crossed' =>
            /\ RemovalStands(w, row)
            /\ row.acked => <<m, row.action, row.revision>> \in accepted'
      BY <1>2, <1>3, <2>1, <2>2 DEF RemovalStands
    <2>5. crossed' \subseteq Machines /\ accepted \subseteq accepted'
      BY <1>1, <2>1
    <2> QED
      BY <2>1, <2>3, <2>4, <2>5, MovesInv
  <1>6. CASE ReportWrite(m)
    BY <1>1, <1>4, <1>6, ReportMoves
  <1>7. CASE Show(m) \/ AgentRead(m) \/ AckLost(m) \/ Fetch(m) \/ Install(m) \/ Remove(m)
    BY <1>1, <1>4, <1>7, QuietMoves
  <1> QED
    BY <1>5, <1>6, <1>7

-----------------------------------------------------------------------------
(* The theorems.                                                            *)

LEMMA CommandStepInv == CommandInv /\ [CommandNext]_commandVars => CommandInv'
  <1> SUFFICES ASSUME CommandInv, [CommandNext]_commandVars PROVE CommandInv'
    OBVIOUS
  <1>1. ASSUME NEW p \in Panels, NEW m \in Machines,
               AskUninstall(p, m) \/ AskMigration(p, m) \/ AskCancel(p, m)
        PROVE  CommandInv'
    <2>1. PICK pc \in {"uninstall", "migrate", "cancel"}, targets \in SUBSET Machines :
            /\ Ask(p, pc, targets)
            /\ pc = "cancel" => \A n \in targets : ~command[n].acked
      BY <1>1, AskEffect DEF CommandInv
    <2> QED
      BY <2>1, AskInv
  <1>2. ASSUME NEW m \in Machines, SwitchMachine(m) PROVE CommandInv'
    <2>1. enabled' \subseteq Machines
      BY <1>2 DEF SwitchMachine, CommandInv, CommandTyped, CommandTypeOK
    <2>2. /\ CommandUsed
          /\ UNCHANGED <<command, product, panel, agent, accepted, crossed>>
      BY <1>2 DEF SwitchMachine
    <2>3. /\ commandOps \in Nat /\ commandOps' = commandOps + 1
          /\ commandOps' \in 0 .. MaxCommandOps
      BY <2>2, CommandCounted DEF CommandInv
    <2>4. RevisionsFollow'
      <3>1. \A n \in Machines : command[n].revision \in Nat
        BY CommandCounted DEF CommandInv, CommandTyped, CommandTypeOK
      <3>2. \A p \in Panels : \A n \in Machines : panel[p].seen[n].revision \in Nat
        BY CommandCounted DEF CommandInv, CommandTyped, CommandTypeOK, PanelWork
      <3>3. RevisionsFollow
        BY DEF CommandInv, CommandTyped
      <3>4. \A n \in Machines : command[n].revision <= commandOps + 1
        BY <2>3, <3>1, <3>3 DEF RevisionsFollow
      <3>5. ASSUME NEW p \in Panels, panel[p].pc # "idle", NEW n \in Machines
            PROVE  panel[p].seen[n].revision + 1 <= commandOps + 1
        <4>1. panel[p].seen[n].revision + 1 <= commandOps
          BY <3>3, <3>5 DEF RevisionsFollow
        <4> QED
          BY <2>3, <3>2, <4>1
      <3> QED
        BY <2>2, <2>3, <3>4, <3>5 DEF RevisionsFollow
    <2> QED
      BY <2>1, <2>2, <2>3, <2>4
         DEF CommandInv, CommandTyped, CommandTypeOK, AnswersChecked, CancelsUnacknowledged,
             RemovalsStand, AcksAccepted
  <1>3. CASE UNCHANGED commandVars
    BY <1>3 DEF commandVars, CommandInv, CommandTyped, CommandTypeOK, RevisionsFollow,
                AnswersChecked, CancelsUnacknowledged, RemovalsStand, AcksAccepted
  <1> QED
    BY <1>1, <1>2, <1>3, PanelWriteInv, DesktopInv DEF CommandNext

LEMMA CommandInvHolds == CommandSpec => []CommandInv
  BY CommandInitInv, CommandStepInv, PTL DEF CommandSpec

\* Every row, session and desktop always has its type.
THEOREM CommandsAreTyped == CommandSpec => []CommandTypeOK
  <1>1. CommandInv => CommandTypeOK
    BY DEF CommandInv, CommandTyped
  <1> QED
    BY <1>1, CommandInvHolds, PTL

\* A command that reads as acknowledged was acknowledged by the desktop under
\* this very action and revision, and a removal about to run has not been
\* withdrawn, unless the row changed under a writer (desktop_command_ack,
\* panel_optix_api).
THEOREM AcksAreForThisCommand == CommandSpec => []AckIsForThisCommand
  <1>1. CommandInv => AckIsForThisCommand
    BY DEF CommandInv, RemovalsStand, RemovalStands, AcksAccepted, AckIsForThisCommand
  <1> QED
    BY <1>1, CommandInvHolds, PTL
=============================================================================
