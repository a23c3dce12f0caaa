--------------------------- MODULE MCConcurrentRun ---------------------------
(***************************************************************************)
(* Two processes on four nodes of three applications, the last of which    *)
(* needs the others along two paths.  None deletes what another creates:   *)
(* the properties that need this are false otherwise.                      *)
(***************************************************************************)
EXTENDS ConcurrentRun, MCOperations, TLC

CONSTANTS a, b, c, main

DiamondLast == (a :> 2) @@ (b :> 1) @@ (c :> 1)
DiamondDeps ==
    (<<a, 1>> :> <<>>) @@ (<<a, 2>> :> <<<<a, 1>>>>) @@
    (<<b, 1>> :> <<<<a, 1>>>>) @@ (<<c, 1>> :> <<<<a, 2>>, <<b, 1>>>>)
DiamondThings ==
    {Table("A"), Column("A", "x"), Table("A2"), Table("B"), Table("C")}
DiamondFiles ==
    (<<a, 1>> :> <<Creates(DiamondThings, "A")>>) @@
    (<<a, 2>> :> <<Creates(DiamondThings, "A2"),
                   Adds(DiamondThings, "A", "x")>>) @@
    (<<b, 1>> :> <<Creates(DiamondThings, "B")>>) @@
    (<<c, 1>> :> <<Creates(DiamondThings, "C")>>)
DiamondOps == OpsOf(DiamondFiles)
DiamondSchemas == SUBSET DiamondThings
DiamondDoes == DoesOf(DiamondFiles)
DiamondUndoes == UndoesOf(DiamondFiles)
DiamondDescribed == DescribedBy(DiamondFiles)

\* The first operation of each node creates a table that stays.
Own == (<<a, 1>> :> "A") @@ (<<a, 2>> :> "A2") @@ (<<b, 1>> :> "B") @@
       (<<c, 1>> :> "C")
Marks == [n \in Nodes |-> {s \in Schemas : Table(Own[n]) \in s}]

Empty == {}

\* The hypotheses of the theorems.
ASSUME Coherent
ASSUME LastingBy(Marks)

Call(app, target) ==
    [db |-> main, fake |-> FALSE, app |-> app, target |-> target]

\* Everything, one application with what it needs, or back to the first node
\* of a with what builds on the second.
DiamondRequests == {Call(AllApps, Latest), Call(b, Latest), Call(a, 1)}
=============================================================================
