----------------------- MODULE MCTransactLogObserver -----------------------
(***************************************************************************)
(* Small instances of TransactLogObserver for TLC.                         *)
(***************************************************************************)
EXTENDS TransactLogObserver

\* A list, and the results of a query.
AllKinds == {"list", "table order", "sorted"}

Ids == 1..6
FewOps == [k \in AllKinds |-> IF k = "list" THEN 4 ELSE 3]

\* Not matched by the query, or matched with one of two values to sort by.
TwoKeys == {-1, 0, 1}
=============================================================================
