---------------------------- MODULE MCMigrationRun ----------------------------
(***************************************************************************)
(* Instances of MigrationRun for TLC: two graphs of changes and the calls  *)
(* an operator makes on them.                                              *)
(***************************************************************************)
EXTENDS MigrationRun, MCOperations, TLC

CONSTANTS a, b, c, main, replica

\* Three applications that build on each other: a2 and b1 need a1, and b2 and
\* c1 need both of those, so that a1 is reached along several paths.
CrossLast == (a :> 2) @@ (b :> 2) @@ (c :> 1)
CrossDeps ==
    (<<a, 1>> :> <<>>) @@ (<<a, 2>> :> <<<<a, 1>>>>) @@
    (<<b, 1>> :> <<<<a, 1>>>>) @@ (<<b, 2>> :> <<<<b, 1>>, <<a, 2>>>>) @@
    (<<c, 1>> :> <<<<a, 2>>, <<b, 1>>>>)
CrossThings ==
    {Table("A"), Table("A2"), Table("B"), Column("B", "x"), Table("B2"),
     Table("C")}

\* The second node of a deletes what the first created.
CrossFiles ==
    (<<a, 1>> :> <<Creates(CrossThings, "A"), Creates(CrossThings, "A2")>>) @@
    (<<a, 2>> :> <<Deletes(CrossThings, "A2")>>) @@
    (<<b, 1>> :> <<Creates(CrossThings, "B")>>) @@
    (<<b, 2>> :> <<Adds(CrossThings, "B", "x"), Creates(CrossThings, "B2")>>) @@
    (<<c, 1>> :> <<Creates(CrossThings, "C")>>)
CrossOps == OpsOf(CrossFiles)
CrossSchemas == SUBSET CrossThings
CrossDoes == DoesOf(CrossFiles)
CrossUndoes == UndoesOf(CrossFiles)
CrossDescribed == DescribedBy(CrossFiles)

\* Two applications; the first node of a is needed in both.
PairLast == (a :> 2) @@ (b :> 1)
PairDeps ==
    (<<a, 1>> :> <<>>) @@ (<<a, 2>> :> <<<<a, 1>>>>) @@
    (<<b, 1>> :> <<<<a, 1>>>>)
PairThings == {Table("A"), Column("A", "x"), Table("A2"), Table("B")}
PairFiles ==
    (<<a, 1>> :> <<Creates(PairThings, "A")>>) @@
    (<<a, 2>> :> <<Adds(PairThings, "A", "x"), Creates(PairThings, "A2")>>) @@
    (<<b, 1>> :> <<Creates(PairThings, "B")>>)
PairOps == OpsOf(PairFiles)
PairSchemas == SUBSET PairThings
PairDoes == DoesOf(PairFiles)
PairUndoes == UndoesOf(PairFiles)
PairDescribed == DescribedBy(PairFiles)

Empty == {}

\* The hypothesis of the theorems on the schema.
ASSUME Coherent

Calls(dbs, fakes, apps, targets) ==
    [db : dbs, fake : fakes, app : apps, target : targets]

\* Any node of any application, one past the last, and all of them at once.
RealRequests ==
    Calls({main}, {FALSE}, Apps, {1, 2, 3, Latest})
        \cup Calls({main}, {FALSE}, {AllApps}, {Latest})

\* Real and faked calls for both databases, down to 0.
TwoDbRequests ==
    Calls({main, replica}, BOOLEAN, {a}, {0, 1, 2, Latest})
        \cup Calls({main}, {FALSE}, {b}, {Latest})

\* Calls for either database.
ReplicaRequests == Calls({main, replica}, {FALSE}, {a}, {1, 2})
=============================================================================
