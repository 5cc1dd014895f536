---------------------------- MODULE DomainReports ----------------------------
(***************************************************************************)
(* Reports of the domains a profile session visited.  A desktop posts the  *)
(* whole list when the session ends and may post it again, or post a       *)
(* longer one, before it hears of the first.  A report is one transaction  *)
(* that inserts or overwrites a row per domain, in the order in which the  *)
(* desktop listed them, and names the profile in the reservation last.     *)
(* Two reports may meet in opposite orders: the database then sacrifices   *)
(* one of them, whole.                                                     *)
(*                                                                         *)
(* Times, visit counts and names are one value, the report they are from.  *)
(***************************************************************************)
EXTENDS Integers, FiniteSets, Sequences, SequencesExt

CONSTANTS
    Reports,        \* reports of one session
    Order(_),       \* the rows a report writes, in its order
    MaxReportOps    \* bound: failures and repetitions

ASSUME ReportAssumption ==
    /\ MaxReportOps \in Nat
    /\ \A r \in Reports :
           /\ Order(r) \in Seq(ToSet(Order(r)))
           \* a domain's entries are merged into one
           /\ \A i, j \in 1 .. Len(Order(r)) : Order(r)[i] = Order(r)[j] => i = j

VARIABLES
    domainRow,      \* the rows: the report each is from, and who holds it
    report,         \* what each report's request is doing
    committed,      \* history: reports in the order they were committed
    reportOps

reportVars == <<domainRow, report, committed, reportOps>>

Listed == UNION {ToSet(Order(r)) : r \in Reports}
DomainRow == [from : SUBSET Reports, holder : SUBSET Reports]
ReportState == [pc : {"idle", "write"}, next : Nat, was : [Listed -> SUBSET Reports]]
AbsentRow == [from |-> {}, holder |-> {}]
IdleReport == [pc |-> "idle", next |-> 1, was |-> [d \in Listed |-> {}]]

ReportInit ==
    /\ domainRow = [d \in Listed |-> AbsentRow]
    /\ report = [r \in Reports |-> IdleReport]
    /\ committed = <<>>
    /\ reportOps = 0

\* profile_domains: the body is read and each domain's entries are merged.
ReportBegins(r) ==
    /\ report[r].pc = "idle" /\ reportOps < MaxReportOps
    /\ reportOps' = reportOps + 1
    /\ report' = [report EXCEPT ![r].pc = "write"]
    /\ UNCHANGED <<domainRow, committed>>

\* A fault: every row is written in a transaction of its own.
UntilWritten(r) == {}

HeldBy(r) == {r}

Current(r) == Order(r)[report[r].next]

\* The row the report has to write is held by another transaction.
Waits(r) ==
    /\ report[r].pc = "write" /\ report[r].next <= Len(Order(r))
    /\ domainRow[Current(r)].holder \notin {{}, {r}}

\* update_or_create: the row is locked, or inserted, and overwritten.
WriteRow(r) ==
    LET d == Current(r) IN
    /\ report[r].pc = "write" /\ report[r].next <= Len(Order(r)) /\ ~Waits(r)
    /\ report' = [report EXCEPT ![r].next = @ + 1, ![r].was[d] = domainRow[d].from]
    /\ domainRow' = [domainRow EXCEPT ![d] = [from |-> {r}, holder |-> HeldBy(r)]]
    /\ UNCHANGED <<committed, reportOps>>

ReportCommits(r) ==
    /\ report[r].pc = "write" /\ report[r].next = Len(Order(r)) + 1
    /\ domainRow' = [d \in Listed |->
           IF domainRow[d].holder = {r} THEN [domainRow[d] EXCEPT !.holder = {}]
           ELSE domainRow[d]]
    /\ report' = [report EXCEPT ![r] = IdleReport]
    /\ committed' = Append(committed, r)
    /\ UNCHANGED reportOps

\* r is one of a set of requests that wait for each other in cycles.
InDeadlock(r) ==
    \E S \in SUBSET Reports :
        /\ r \in S /\ \A o \in S : Waits(o)
        /\ UNION {domainRow[Current(o)].holder : o \in S} = S

\* The request fails, or the database picks it among requests that wait for each
\* other: what it wrote is undone.
ReportFails(r) ==
    /\ report[r].pc = "write"
    /\ \/ reportOps < MaxReportOps /\ reportOps' = reportOps + 1
       \/ InDeadlock(r) /\ UNCHANGED reportOps
    /\ domainRow' = [d \in Listed |->
           IF domainRow[d].holder = {r} THEN [from |-> report[r].was[d], holder |-> {}]
           ELSE domainRow[d]]
    /\ report' = [report EXCEPT ![r] = IdleReport]
    /\ UNCHANGED committed

ReportNext ==
    \E r \in Reports : ReportBegins(r) \/ WriteRow(r) \/ ReportCommits(r) \/ ReportFails(r)

ReportSpec == ReportInit /\ [][ReportNext]_reportVars

-----------------------------------------------------------------------------
(* What the reports must guarantee.                                        *)

ReportTypeOK ==
    /\ domainRow \in [Listed -> DomainRow]
    /\ report \in [Reports -> ReportState]
    /\ \A r \in Reports : report[r].next \in 1 .. Len(Order(r)) + 1
    /\ committed \in Seq(Reports)
    /\ reportOps \in 0 .. MaxReportOps

\* The last accepted report that lists d, if there is one.
LastAccepted(d) ==
    {r \in Reports : \E i \in DOMAIN committed :
        /\ committed[i] = r /\ d \in ToSet(Order(r))
        /\ \A j \in DOMAIN committed : j > i => d \notin ToSet(Order(committed[j]))}

\* Reports count as if they had come one after the other: each row that is
\* settled is from the last accepted report that lists it, so the rows two
\* reports share are never half of the one and half of the other, whatever
\* orders they list them in and whichever fail (profile_domains).
ReportNotTorn ==
    \A d \in Listed : domainRow[d].holder = {} => domainRow[d].from = LastAccepted(d)
=============================================================================
