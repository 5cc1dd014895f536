-------------------------- MODULE MCExitIpCooldown --------------------------
(* Small instances of the exit-IP cooldown for TLC.                         *)
EXTENDS ExitIpCooldown, TLC

\* Workers, reservations and panel sessions are interchangeable.
Symmetry == Permutations(Workers) \cup Permutations(Reservations)
                \cup Permutations(Admins)
=============================================================================
