---------------------------- MODULE ExclusiveUse ----------------------------
(***************************************************************************)
(* What the shared exit-IP check promises to the fleet, without tables,    *)
(* locks or workers: every accepted use of an exit IP opens a window, and  *)
(* the windows of one IP never overlap, whoever the users are.             *)
(***************************************************************************)
EXTENDS Integers, Sequences

CONSTANTS IPs,      \* the exit addresses
          Instants, \* the instants at which a use may begin
          Window    \* length of the exclusive window of one use

VARIABLE uses       \* uses[ip]: when each accepted use began, in order

Init == uses = [ip \in IPs |-> <<>>]

Apart(t, u) == t >= u + Window \/ u >= t + Window

Accept(ip, t) ==
    /\ \A k \in DOMAIN uses[ip] : Apart(t, uses[ip][k])
    /\ uses' = [uses EXCEPT ![ip] = Append(@, t)]

Next == \E ip \in IPs, t \in Instants : Accept(ip, t)

Spec == Init /\ [][Next]_uses

=============================================================================
