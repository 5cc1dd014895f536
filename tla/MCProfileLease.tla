--------------------------- MODULE MCProfileLease ---------------------------
(* Small instances of the profile-create lease for TLC.                     *)
EXTENDS ProfileLease, TLC

\* Workers are interchangeable, and so are clients.
Symmetry == Permutations(Workers) \cup Permutations(Clients)
=============================================================================
