---------------------------- MODULE MCProxyPool -----------------------------
(* Small instances of the proxy pool for TLC.                               *)
EXTENDS ProxyPool, TLC

\* Workers are interchangeable.
Symmetry == Permutations(Workers)
=============================================================================
