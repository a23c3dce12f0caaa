----------------------------- MODULE MCOperations -----------------------------
(***************************************************************************)
(* The operations of migration files, for the instances of MigrationRun: a *)
(* schema is a set of tables and columns, and an operation is what its     *)
(* statements and those of its reversal make of one.                       *)
(***************************************************************************)
EXTENDS Naturals, Sequences, FiniteSets

LOCAL INSTANCE SequencesExt

Table(t) == <<t, "table">>
Column(t, c) == <<t, c>>
Without(s, t) == {x \in s : x[1] # t}

\* The statements, as functions on the schemas over a set of tables and columns.
\* A column is dropped by copying the others to a new table.
Created(things, t) ==
    [s \in {x \in SUBSET things : Table(t) \notin x} |-> s \cup {Table(t)}]
Dropped(things, t) ==
    [s \in {x \in SUBSET things : Table(t) \in x} |-> Without(s, t)]
Added(things, t, c) ==
    [s \in {x \in SUBSET things : Table(t) \in x /\ Column(t, c) \notin x} |->
        s \cup {Column(t, c)}]
Removed(things, t, c) ==
    [s \in {x \in SUBSET things : Table(t) \in x} |-> s \ {Column(t, c)}]

\* CreateModel, DeleteModel (of a table with nothing added to it) and
\* AddFields, each with its reversal.
Creates(things, t) ==
    [does |-> Created(things, t), undoes |-> Dropped(things, t)]
Deletes(things, t) ==
    [does |-> Dropped(things, t), undoes |-> Created(things, t)]
Adds(things, t, c) ==
    [does |-> Added(things, t, c), undoes |-> Removed(things, t, c)]

\* The constants of MigrationRun, of files that give each node its operations.
OpsOf(files) == [n \in DOMAIN files |-> Len(files[n])]
ChangesOf(files) == UNION {{n} \X DOMAIN files[n] : n \in DOMAIN files}
DoesOf(files) == [c \in ChangesOf(files) |-> files[c[1]][c[2]].does]
UndoesOf(files) == [c \in ChangesOf(files) |-> files[c[1]][c[2]].undoes]

\* What the first k files of application a do to the empty schema.
Replayed(files, a, k) ==
    FoldLeft(LAMBDA s, op : op.does[s], {},
             FlattenSeq([i \in 1 .. k |-> files[<<a, i>>]]))

\* The applications have no table in common.
DescribedBy(files) ==
    [S \in SUBSET DOMAIN files |->
        UNION {Replayed(files, a, Cardinality({n \in S : n[1] = a})) :
                  a \in {n[1] : n \in DOMAIN files}}]
=============================================================================
