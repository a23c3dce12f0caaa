--------------------------- MODULE MigrationLedger ---------------------------
(***************************************************************************)
(* What the migration package promises about the table of applied nodes of *)
(* one database: a node enters the ledger only on top of the nodes it      *)
(* depends on, and leaves it only when no recorded node depends on it.     *)
(* How the nodes are found, run, rolled back or retried is not said here:  *)
(* MigrationRun is the detailed specification.                             *)
(***************************************************************************)
CONSTANTS
    Nodes,          \* the nodes of the graph of changes
    Needs(_)        \* the set of nodes a node depends on

VARIABLE ledger     \* the nodes recorded as applied

Init == ledger = {}

\* A node is recorded on top of its dependencies.
Apply(n) ==
    /\ n \notin ledger
    /\ Needs(n) \subseteq ledger
    /\ ledger' = ledger \cup {n}

\* A node no recorded node depends on is erased.
Unapply(n) ==
    /\ n \in ledger
    /\ \A m \in ledger : n \notin Needs(m)
    /\ ledger' = ledger \ {n}

Next == \E n \in Nodes : Apply(n) \/ Unapply(n)

Spec == Init /\ [][Next]_ledger
=============================================================================
