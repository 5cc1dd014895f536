--------------------------- MODULE InventoryAlert ---------------------------
(***************************************************************************)
(* The alert that an office has run out of proxies at some location.       *)
(* Every request that finds too few records the shortage in its own        *)
(* transaction: the first one of a window inserts the row, later ones add  *)
(* to its count.  Only the insertion is followed, once committed, by a     *)
(* message to the recipients, which a worker sends one recipient at a time *)
(* and retries as a whole.                                                 *)
(*                                                                         *)
(* One location is modelled.  A row per window, since the window is part   *)
(* of the unique dedupe_key; its wording and the office's particulars are  *)
(* left out.                                                               *)
(***************************************************************************)
EXTENDS Integers, FiniteSets

CONSTANTS
    Requests,       \* concurrent requests of the office's desktops
    Windows,        \* 1 .. n, periods of PROXY_ALERT_COOLDOWN_SECONDS
    Recipients,     \* chats or numbers
    AlertRetries,   \* max_retries of the sending task
    MaxAlertOps     \* bound: requests, rollbacks, kills, refusals, restarts

ASSUME AlertAssumption ==
    /\ IsFiniteSet(Windows) /\ Windows = 1 .. Cardinality(Windows) /\ Windows # {}
    /\ IsFiniteSet(Recipients) /\ AlertRetries \in Nat /\ MaxAlertOps \in Nat

VARIABLES
    alertSetting,   \* what the server is configured to do with alerts
    window,         \* the current window
    alert,          \* the ProxyInventoryAlert row of each window
    request,        \* what each request is doing
    sender,         \* the task for each window: queued, sending, retries made
    heard,          \* history: recipients that got the alert
    shortages,      \* history: shortages committed
    lost,           \* history: windows whose message was lost on the way
    alertOps

alertVars == <<alertSetting, window, alert, request, sender, heard, shortages,
               lost, alertOps>>

AlertStatus == {"absent", "pending", "disabled", "queue_failed", "config_error",
                "failed", "sent"}
AlertRow == [status : AlertStatus, count : Nat, holder : SUBSET Requests]
AlertRequest == [pc : {"idle", "inserted", "count", "counted", "enqueue"},
                 window : Windows \cup {0}, seen : Nat, was : AlertRow]
AlertTask == [pc : {"none", "queued", "sending"}, told : SUBSET Recipients,
              tries : 0 .. AlertRetries]
NoAlert == [status |-> "absent", count |-> 0, holder |-> {}]
IdleRequest == [pc |-> "idle", window |-> 0, seen |-> 0, was |-> NoAlert]
NoTask == [pc |-> "none", told |-> {}, tries |-> 0]

AlertInit ==
    /\ alertSetting = "enabled"
    /\ window = 1
    /\ alert = [w \in Windows |-> NoAlert]
    /\ request = [r \in Requests |-> IdleRequest]
    /\ sender = [w \in Windows |-> NoTask]
    /\ heard = [w \in Windows |-> {}]
    /\ shortages = [w \in Windows |-> 0]
    /\ lost = {}
    /\ alertOps = 0

AlertUsed == /\ alertOps < MaxAlertOps
             /\ alertOps' = alertOps + 1

NextWindow ==
    /\ window + 1 \in Windows
    /\ window' = window + 1
    /\ UNCHANGED <<alertSetting, alert, request, sender, heard, shortages, lost, alertOps>>

\* The server is restarted with other settings.
ChangeSetting ==
    /\ AlertUsed
    /\ alertSetting' \in {"enabled", "disabled", "unconfigured"} \ {alertSetting}
    /\ UNCHANGED <<window, alert, request, sender, heard, shortages, lost>>

-----------------------------------------------------------------------------
(* record_proxy_inventory_shortage, inside the request's transaction.      *)

\* A fault: the message is queued as soon as the row is inserted.
WithTheRow == "insert"

EnqueuedAt == "commit"

\* The task of window w as it is queued, if this is the moment for it.
Queued(moment, w) ==
    IF moment = EnqueuedAt THEN [sender EXCEPT ![w] = [NoTask EXCEPT !.pc = "queued"]]
    ELSE sender

\* The first shortage of a window is inserted; the key is found taken if the
\* row is there, and an insertion waits for another transaction's.
Insert(r) ==
    LET row == alert[window] IN
    /\ request[r].pc = "idle" /\ AlertUsed
    /\ IF row.status = "absent"
       THEN /\ alert' = [alert EXCEPT ![window] =
                  [status |-> IF alertSetting = "disabled" THEN "disabled" ELSE "pending",
                   count |-> 1, holder |-> {r}]]
            /\ request' = [request EXCEPT ![r] =
                  [pc |-> "inserted", window |-> window, seen |-> 0, was |-> row]]
            /\ sender' = IF alertSetting = "disabled" THEN sender
                         ELSE Queued("insert", window)
       ELSE /\ row.count > 0 /\ row.holder = {}
            /\ request' = [request EXCEPT ![r] =
                  [pc |-> "count", window |-> window, seen |-> row.count, was |-> row]]
            /\ UNCHANGED <<alert, sender>>
    /\ UNCHANGED <<alertSetting, window, heard, shortages, lost>>

\* A fault: the count is the one that was read, plus one.
FromTheCopy(seen, count) == seen + 1

Occurrences(seen, count) == count + 1

\* F("occurrence_count") + 1, once no other transaction holds the row.
Count(r) ==
    LET w == request[r].window IN
    /\ request[r].pc = "count" /\ alert[w].holder = {}
    /\ alert' = [alert EXCEPT ![w].count = Occurrences(request[r].seen, @), ![w].holder = {r}]
    /\ request' = [request EXCEPT ![r].pc = "counted", ![r].was = alert[w]]
    /\ UNCHANGED <<alertSetting, window, sender, heard, shortages, lost, alertOps>>

\* The transaction commits; on_commit runs next, for an insertion that is to be sent.
Commit(r) ==
    LET w == request[r].window IN
    /\ request[r].pc \in {"inserted", "counted"}
    /\ alert' = [alert EXCEPT ![w].holder = {}]
    /\ shortages' = [shortages EXCEPT ![w] = @ + 1]
    /\ request' = IF request[r].pc = "inserted" /\ alert[w].status = "pending"
                  THEN [request EXCEPT ![r].pc = "enqueue"]
                  ELSE [request EXCEPT ![r] = IdleRequest]
    /\ UNCHANGED <<alertSetting, window, sender, heard, lost, alertOps>>

\* The request fails after it recorded the shortage, or is a deadlock's victim.
Rollback(r) ==
    LET w == request[r].window IN
    /\ request[r].pc \in {"inserted", "counted"} /\ AlertUsed
    /\ alert' = [alert EXCEPT ![w].holder = {}, ![w].count = request[r].was.count,
                              ![w].status = request[r].was.status]
    /\ request' = [request EXCEPT ![r] = IdleRequest]
    /\ UNCHANGED <<alertSetting, window, sender, heard, shortages, lost>>

-----------------------------------------------------------------------------
(* The message.                                                            *)

\* enqueue: the broker takes the message, or refuses it and the row says so.
Enqueue(r) ==
    LET w == request[r].window IN
    /\ request[r].pc = "enqueue"
    /\ request' = [request EXCEPT ![r] = IdleRequest]
    /\ \/ sender' = Queued("commit", w) /\ UNCHANGED <<alert, alertOps>>
       \/ /\ alert[w].holder = {} /\ AlertUsed /\ UNCHANGED sender
          /\ alert' = [alert EXCEPT ![w].status = "queue_failed"]
    /\ UNCHANGED <<alertSetting, window, heard, shortages, lost>>

\* The web process is killed between the commit and the message.
WebKilled(r) ==
    /\ request[r].pc = "enqueue" /\ AlertUsed
    /\ request' = [request EXCEPT ![r] = IdleRequest]
    /\ lost' = lost \cup {request[r].window}
    /\ UNCHANGED <<alertSetting, window, alert, sender, heard, shortages>>

TaskEnds(w) == sender' = [sender EXCEPT ![w] = NoTask]

\* A row another transaction has not committed is not there.
Committed(w) == /\ alert[w].status # "absent"
                /\ \A r \in Requests : request[r].pc = "inserted" => request[r].window # w

\* send_proxy_inventory_alert begins; an update of the row waits for its lock.
TaskBegins(w) ==
    /\ sender[w].pc = "queued"
    /\ IF ~Committed(w) THEN TaskEnds(w) /\ UNCHANGED alert
       ELSE IF alertSetting = "enabled"
       THEN sender' = [sender EXCEPT ![w].pc = "sending"] /\ UNCHANGED alert
       ELSE /\ alert[w].holder = {}
            /\ alert' = [alert EXCEPT ![w].status =
                  IF alertSetting = "disabled" THEN "disabled" ELSE "config_error"]
            /\ TaskEnds(w)
    /\ UNCHANGED <<alertSetting, window, request, heard, shortages, lost, alertOps>>

\* A fault: the message is sent when the first recipient has it.
Somebody(w) == sender[w].told # {}

EveryoneTold(w) == sender[w].told = Recipients

\* The next recipient is sent the alert, in whatever order the settings list them.
SendOne(w) ==
    /\ sender[w].pc = "sending" /\ ~EveryoneTold(w)
    /\ \E p \in Recipients \ sender[w].told :
          /\ sender' = [sender EXCEPT ![w].told = @ \cup {p}]
          /\ heard' = [heard EXCEPT ![w] = @ \cup {p}]
    /\ UNCHANGED <<alertSetting, window, alert, request, shortages, lost, alertOps>>

\* The provider refuses one: the row says so, and the whole message is tried again.
SendFails(w) ==
    /\ sender[w].pc = "sending" /\ ~EveryoneTold(w)
    /\ alert[w].holder = {}
    /\ alert' = [alert EXCEPT ![w].status = "failed"]
    /\ IF sender[w].tries < AlertRetries
       THEN sender' = [sender EXCEPT ![w] =
               [pc |-> "queued", told |-> {}, tries |-> sender[w].tries + 1]]
       ELSE TaskEnds(w)
    /\ UNCHANGED <<alertSetting, window, request, heard, shortages, lost, alertOps>>

MarkSent(w) ==
    /\ sender[w].pc = "sending" /\ EveryoneTold(w)
    /\ alert[w].holder = {}
    /\ alert' = [alert EXCEPT ![w].status = "sent"]
    /\ TaskEnds(w)
    /\ UNCHANGED <<alertSetting, window, request, heard, shortages, lost, alertOps>>

\* The worker is killed: the broker was told of the task when it began.
SenderKilled(w) ==
    /\ sender[w].pc = "sending" /\ AlertUsed
    /\ TaskEnds(w)
    /\ lost' = lost \cup {w}
    /\ UNCHANGED <<alertSetting, window, alert, request, heard, shortages>>

AlertNext ==
    \/ NextWindow \/ ChangeSetting
    \/ \E r \in Requests :
           \/ Insert(r) \/ Count(r) \/ Commit(r) \/ Rollback(r) \/ Enqueue(r) \/ WebKilled(r)
    \/ \E w \in Windows :
           \/ TaskBegins(w) \/ SendOne(w) \/ SendFails(w) \/ MarkSent(w) \/ SenderKilled(w)

AlertSpec == AlertInit /\ [][AlertNext]_alertVars

RequestStep(r) == Count(r) \/ Commit(r) \/ Enqueue(r)
SenderStep(w) == TaskBegins(w) \/ SendOne(w) \/ MarkSent(w)

-----------------------------------------------------------------------------
(* What the alert must guarantee.                                          *)

AlertTypeOK ==
    /\ alertSetting \in {"enabled", "disabled", "unconfigured"}
    /\ window \in Windows
    /\ alert \in [Windows -> AlertRow]
    /\ request \in [Requests -> AlertRequest]
    /\ sender \in [Windows -> AlertTask]
    /\ heard \in [Windows -> SUBSET Recipients]
    /\ shortages \in [Windows -> Nat]
    /\ alertOps \in 0 .. MaxAlertOps
    /\ lost \subseteq Windows

\* The row of a window tells the truth once no transaction holds it: it counts
\* every shortage that was committed, however requests overlap and fail, and
\* says "sent" only when every recipient has the alert
\* (record_proxy_inventory_shortage, send_proxy_inventory_alert).
AlertIsTrue ==
    \A w \in Windows : alert[w].holder = {} =>
        /\ alert[w].count = shortages[w]
        /\ alert[w].status = "sent" => heard[w] = Recipients

\* A recorded shortage does not stay "pending": it is sent, or the row tells why
\* it was not, unless a process was killed before its message was delivered
\* (enqueue on commit, send_proxy_inventory_alert).
AlertSettles ==
    \A w \in Windows :
        (alert[w].status = "pending" /\ alert[w].holder = {}) ~>
            (alert[w].status # "pending" \/ w \in lost)
=============================================================================
