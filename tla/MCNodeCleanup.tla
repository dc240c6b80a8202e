--------------------------- MODULE MCNodeCleanup ---------------------------
(***************************************************************************)
(* Small instances of NodeCleanup.                                         *)
(***************************************************************************)
EXTENDS NodeCleanup, TLC

CONSTANTS n1, n2, p1, p2, c1

\* An affinity that allows two nodes, one by each term.
OnEither == [required |-> TRUE, terms |-> {{[byHostname |-> TRUE, values |-> {n}]} : n \in {n1, n2}}]

\* A PV of a network file system.
Anywhere == [required |-> FALSE, terms |-> {}]

Either == [p \in PVNames |-> OnEither]
EitherAndAnywhere == (p1 :> OnEither) @@ (p2 :> Anywhere)

AllDelete == [p \in PVNames |-> "Delete"]
RetainFirst == (p1 :> "Retain") @@ (p2 :> "Delete")
=============================================================================
