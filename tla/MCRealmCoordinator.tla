------------------------ MODULE MCRealmCoordinator ------------------------
(***************************************************************************)
(* Small instances of RealmCoordinator for TLC.                            *)
(***************************************************************************)
EXTENDS RealmCoordinator, TLC

CONSTANTS n1, n2, t1, t2

\* Notifiers and tokens are interchangeable.
Symmetry == Permutations(Notifier) \cup Permutations(Token)
=============================================================================
