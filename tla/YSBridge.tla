------------------------------ MODULE YSBridge ------------------------------
(***************************************************************************)
(* Commands for the YSBrowser of the office PC.  The panel queues them,    *)
(* the PC's bridge agent polls, carries one out on YSBrowser, and posts    *)
(* its completion.  A command whose completion is not heard of for fifteen *)
(* minutes is queued again at the next poll, so it may be carried out      *)
(* twice, and the answer of an earlier execution may still be under way.   *)
(*                                                                         *)
(* Commands are numbered in the order they are requested.  Payloads,       *)
(* results and heartbeats are left out; a command is a change of the IP    *)
(* whitelist or a deletion of environments, which here differ only in that *)
(* some take effect before they fail.                                      *)
(***************************************************************************)
EXTENDS Integers, FiniteSets

CONSTANTS
    Commands,       \* 1 .. n, in the order of requested_at
    Operators,      \* super-administrators' sessions
    MaxBridgeOps    \* bound: retries, failures, kills, delays and lost messages

ASSUME BridgeAssumption ==
    /\ IsFiniteSet(Commands) /\ Commands = 1 .. Cardinality(Commands)
    /\ MaxBridgeOps \in Nat

VARIABLES
    ys,             \* the YSBridgeCommand rows: status, and fifteen minutes old or not
    bridge,         \* the agent's process
    answers,        \* completions under way to the server
    operator,       \* the command an operator is about to queue again
    effect,         \* history: the command that changed YSBrowser last
    again,          \* history: commands that were queued again
    bridgeOps

bridgeVars == <<ys, bridge, answers, operator, effect, again, bridgeOps>>

Row == [status : {"absent", "queued", "running", "succeeded", "failed"}, overdue : BOOLEAN]
IdleBridge == [pc |-> "poll", command |-> 0, success |-> FALSE]

BridgeInit ==
    /\ ys = [c \in Commands |-> [status |-> "absent", overdue |-> FALSE]]
    /\ bridge = IdleBridge
    /\ answers = {}
    /\ operator = [o \in Operators |-> 0]
    /\ effect = 0 /\ again = {}
    /\ bridgeOps = 0

InStatus(s) == {c \in Commands : ys[c].status = s}

BridgeUsed == /\ bridgeOps < MaxBridgeOps
              /\ bridgeOps' = bridgeOps + 1

-----------------------------------------------------------------------------
(* The panel: mobile_ops_api.                                              *)

\* queue_ys_delete and queue_ys_whitelist create a row.
QueueCommand(c) ==
    /\ c \in InStatus("absent") /\ \A b \in Commands : b < c => b \notin InStatus("absent")
    /\ ys' = [ys EXCEPT ![c].status = "queued"]
    /\ UNCHANGED <<bridge, answers, operator, effect, again, bridgeOps>>

\* retry_command: the status is read, then the row is written whatever it says.
RetryRead(o, c) ==
    /\ operator[o] = 0 /\ c \in InStatus("failed") /\ BridgeUsed
    /\ operator' = [operator EXCEPT ![o] = c]
    /\ UNCHANGED <<ys, bridge, answers, effect, again>>

RetryWrite(o) ==
    /\ operator[o] # 0
    /\ ys' = [ys EXCEPT ![operator[o]] = [status |-> "queued", overdue |-> FALSE]]
    /\ again' = again \cup {operator[o]}
    /\ operator' = [operator EXCEPT ![o] = 0]
    /\ UNCHANGED <<bridge, answers, effect, bridgeOps>>

-----------------------------------------------------------------------------
(* The server's side of the bridge.                                        *)

\* Someone still works on the command, or its completion is under way.
InHand(c) == bridge.command = c \/ \E a \in answers : a.command = c

\* Fifteen minutes pass since the command was claimed.  That it takes longer than
\* this to carry it out and to hear of it happens, but not every time.
FifteenMinutes(c) ==
    /\ c \in InStatus("running") /\ ~ys[c].overdue
    /\ IF InHand(c) THEN BridgeUsed ELSE UNCHANGED bridgeOps
    /\ ys' = [ys EXCEPT ![c].overdue = TRUE]
    /\ UNCHANGED <<bridge, answers, operator, effect, again>>

\* A fault: a command nobody completed stays claimed.
NeverOverdue == {}

Overdue == {c \in InStatus("running") : ys[c].overdue}

\* A fault: the newest command is claimed first.
Newest(queued) == {c \in queued : \A b \in queued : b <= c}

Oldest(queued) == {c \in queued : \A b \in queued : c <= b}

\* bridge_poll: overdue claims are queued again and the oldest command is
\* claimed, in one transaction; the reply may not reach the agent.
Poll ==
    LET queued == InStatus("queued") \cup Overdue
        claimed == Oldest(queued) IN
    /\ bridge.pc = "poll" /\ queued # {}
    /\ ys' = [c \in Commands |->
           IF c \in claimed THEN [status |-> "running", overdue |-> FALSE]
           ELSE IF c \in Overdue THEN [status |-> "queued", overdue |-> FALSE]
           ELSE ys[c]]
    /\ again' = again \cup Overdue
    /\ \/ /\ bridge' = [pc |-> "execute", command |-> CHOOSE c \in claimed : TRUE,
                        success |-> FALSE]
          /\ UNCHANGED bridgeOps
       \/ UNCHANGED bridge /\ BridgeUsed
    /\ UNCHANGED <<answers, operator, effect>>

\* A fault: an answer is believed whatever became of the command.
AnyAnswer(c) == TRUE

\* bridge_complete answers 409 unless the command is running: the row is locked,
\* but nothing tells which of its executions this answer is about.
Answerable(c) == c \in InStatus("running")

Complete(a) ==
    /\ a \in answers
    /\ answers' = answers \ {a}
    /\ ys' = IF Answerable(a.command)
             THEN [ys EXCEPT ![a.command] =
                      [status |-> IF a.success THEN "succeeded" ELSE "failed",
                       overdue |-> FALSE]]
             ELSE ys
    /\ UNCHANGED <<bridge, operator, effect, again, bridgeOps>>

-----------------------------------------------------------------------------
(* The agent: YSBridgeAgent.ps1, one process at a time.                    *)

\* The command is carried out; it may fail before or after YSBrowser changed.
Execute ==
    LET c == bridge.command IN
    /\ bridge.pc = "execute"
    /\ \/ /\ bridge' = [bridge EXCEPT !.pc = "report", !.success = TRUE]
          /\ effect' = c /\ UNCHANGED bridgeOps
       \/ /\ bridge' = [bridge EXCEPT !.pc = "report"] /\ BridgeUsed
          /\ effect' \in {effect, c}
    /\ UNCHANGED <<ys, answers, operator, again>>

\* The completion is posted; whether or not it is answered, the agent goes on.
Report ==
    /\ bridge.pc = "report"
    /\ answers' = answers \cup {[command |-> bridge.command, success |-> bridge.success]}
    /\ bridge' = IdleBridge
    /\ UNCHANGED <<ys, operator, effect, again, bridgeOps>>

\* A completion is lost on its way.
LoseAnswer(a) ==
    /\ a \in answers /\ BridgeUsed
    /\ answers' = answers \ {a}
    /\ UNCHANGED <<ys, bridge, operator, effect, again>>

\* The PC is switched off and on again.
Reboot ==
    /\ bridge.pc # "poll" /\ BridgeUsed
    /\ bridge' = IdleBridge
    /\ UNCHANGED <<ys, answers, operator, effect, again>>

BridgeNext ==
    \/ Poll \/ Execute \/ Report \/ Reboot
    \/ \E c \in Commands : QueueCommand(c) \/ FifteenMinutes(c)
    \/ \E o \in Operators : RetryWrite(o) \/ \E c \in Commands : RetryRead(o, c)
    \/ \E a \in answers : Complete(a) \/ LoseAnswer(a)

BridgeSpec == BridgeInit /\ [][BridgeNext]_bridgeVars

BridgeStep == Poll \/ Execute \/ Report
Delivery == \E a \in answers : Complete(a)
TimePasses == \E c \in Commands : FifteenMinutes(c)

-----------------------------------------------------------------------------
(* What the bridge must guarantee.                                         *)

BridgeTypeOK ==
    /\ ys \in [Commands -> Row]
    /\ bridge \in [pc : {"poll", "execute", "report"}, command : Commands \cup {0},
                   success : BOOLEAN]
    /\ answers \subseteq [command : Commands, success : BOOLEAN]
    /\ operator \in [Operators -> Commands \cup {0}]
    /\ effect \in Commands \cup {0}
    /\ again \subseteq Commands
    /\ bridgeOps \in 0 .. MaxBridgeOps

\* A late or repeated answer never undoes a success: only an operator who read
\* the row before it succeeded makes a succeeded command run again
\* (bridge_complete, retry_command).
SuccessIsFinal ==
    [][\A c \in Commands :
           ys[c].status = "succeeded" =>
               \/ ys'[c].status = "succeeded"
               \/ \E o \in Operators : operator[o] = c /\ operator'[o] = 0]_bridgeVars

\* YSBrowser is changed in the order the commands were requested; only a command
\* that was queued again, after a lost answer or by an operator, comes late
\* (bridge_poll, YSBridgeAgent.ps1).
EffectsInOrder ==
    [][effect' # effect => effect' > effect \/ effect' \in again']_bridgeVars

\* While the agent keeps polling no command stays unfinished, although replies
\* and completions are lost or late and the PC is rebooted (bridge_poll).
CommandsFinish ==
    \A c \in Commands : ys[c].status \in {"queued", "running"} ~>
                        ys[c].status \in {"succeeded", "failed"}
=============================================================================
