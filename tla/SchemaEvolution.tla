--------------------------- MODULE SchemaEvolution ---------------------------
(***************************************************************************)
(* The life of one application: the developer changes its models, Make     *)
(* writes the changes to a new migration file, and Run takes the database  *)
(* forwards or backwards one file at a time, each in a transaction.  Each  *)
(* file depends on the one before it, as nextNode writes it.  Who may call *)
(* Run, in which order and with which failures is MigrationRun's subject.  *)
(* A program that keeps no files calls MakeAndRun instead.                 *)
(***************************************************************************)
EXTENDS AppState

CONSTANTS
    Histories,      \* for each program, the versions of its models that the
                    \* developer moves between
    MaxNodes        \* bound: how many migration files are made

ASSUME CodesAssumption ==
    /\ UNION Histories \subseteq Programs
    /\ MaxNodes \in Nat

VARIABLES
    versions,       \* the versions of this program
    code,           \* the models of the program
    direct,         \* whether the program calls MakeAndRun and keeps no files
    files,          \* the operations of each node: of each migration file, or
                    \* of the node that MakeAndRun carried out
    torn,           \* whether the last file was only written in part
    applied,        \* how many of them are applied
    db,             \* the schema of the database
    outcome         \* how the latest call ended

vars == <<versions, code, direct, files, torn, applied, db, outcome>>

\* The types; the indexes of the schema are those of the models (Make, Run).
TypeOK ==
    /\ versions \in Histories /\ code \in versions
    /\ direct \in BOOLEAN /\ torn \in BOOLEAN
    /\ Len(files) <= MaxNodes
    /\ applied \in 0 .. Len(files)
    /\ db.tables \in PartialFuns(Models, SUBSET Fields)
    /\ DOMAIN db.indexes \subseteq Indexes
    /\ outcome \in {"none", "made", "nothing", "makeFailed", "ran",
                    "runFailed", "reverted", "revertFailed", "loadFailed"}

Init ==
    /\ versions \in Histories
    /\ code \in versions
    /\ direct \in BOOLEAN
    /\ files = <<>>
    /\ torn = FALSE
    /\ applied = 0
    /\ db = EmptySchema
    /\ outcome = "none"

State(k) == Replay(files, k).st

Edit ==
    /\ code' \in versions \ {code}
    /\ outcome' = "none"
    /\ UNCHANGED <<versions, direct, files, torn, applied, db>>

\* The files of a program that keeps some can be loaded.
Loads == ~direct /\ ~torn

\* Make and Run end before they do anything when a file cannot be parsed.
LoadFails ==
    /\ torn
    /\ outcome' = "loadFailed"
    /\ UNCHANGED <<versions, code, direct, files, torn, applied, db>>

\* The developer deletes the file that was written in part.
DeleteTorn ==
    /\ torn
    /\ torn' = FALSE
    /\ outcome' = "none"
    /\ UNCHANGED <<versions, code, direct, files, applied, db>>

\* Mutant: the new node is written without trying it on the state.
MakeUnchecked ==
    /\ Loads
    /\ Len(files) < MaxNodes
    /\ \E ops \in Detect(code, State(Len(files))) \ {<<>>} :
        files' = Append(files, ops)
    /\ outcome' = "made"
    /\ UNCHANGED <<versions, code, direct, torn, applied, db>>

\* Make: the new node is written only if the state accepts its operations.
Make ==
    /\ Loads
    /\ Len(files) < MaxNodes
    /\ \E ops \in Detect(code, State(Len(files))) :
        \/ /\ ops = <<>>
           /\ outcome' = "nothing"
           /\ UNCHANGED files
        \/ /\ ops # <<>>
           /\ ApplyOps(ops, State(Len(files))).ok
           /\ outcome' = "made"
           /\ files' = Append(files, ops)
        \/ /\ ops # <<>>
           /\ ~ApplyOps(ops, State(Len(files))).ok
           /\ outcome' = "makeFailed"
           /\ UNCHANGED files
    /\ UNCHANGED <<versions, code, direct, torn, applied, db>>

\* Node.Save writes the file in place: when it fails there is no file, the
\* whole of it, or a part.
SaveFails ==
    /\ Loads
    /\ Len(files) < MaxNodes
    /\ \E ops \in Detect(code, State(Len(files))) \ {<<>>} :
        /\ ApplyOps(ops, State(Len(files))).ok
        /\ \/ torn' = TRUE /\ UNCHANGED files
           \/ torn' = FALSE /\ files' \in {files, Append(files, ops)}
    /\ outcome' = "makeFailed"
    /\ UNCHANGED <<versions, code, direct, applied, db>>

\* loadPreviousState and the first i operations of node k.
StateAt(k, i) == ApplyOps(SubSeq(files[k], 1, i), State(k - 1)).st

\* Mutant: the operations are reversed in file order.
BackwardsInFileOrder(k) ==
    FoldLeftDomain(LAMBDA acc, i :
        LET r == ReverseOp(files[k][i], StateAt(k, i), StateAt(k, i - 1), acc.db)
        IN  IF acc.ok /\ r.ok THEN r ELSE [acc EXCEPT !.ok = FALSE],
        [ok |-> TRUE, db |-> db], files[k])

\* runOperations on the current schema: each operation is given the states
\* before and after it.
Carried(ops, prev) ==
    LET st(i) == ApplyOps(SubSeq(ops, 1, i), prev).st
    IN  FoldLeftDomain(LAMBDA acc, i :
            LET r == RunOp(ops[i], st(i), st(i - 1), acc.db)
            IN  IF acc.ok /\ r.ok THEN r ELSE [acc EXCEPT !.ok = FALSE],
            [ok |-> TRUE, db |-> db], ops)

Forwards(k) == Carried(files[k], State(k - 1))

\* backwardOperations on the current schema.
Backwards(k) ==
    FoldRightDomain(LAMBDA i, acc :
        LET r == ReverseOp(files[k][i], StateAt(k, i), StateAt(k, i - 1), acc.db)
        IN  IF acc.ok /\ r.ok THEN r ELSE [acc EXCEPT !.ok = FALSE],
        files[k], [ok |-> TRUE, db |-> db])

Run ==
    /\ Loads
    /\ applied < Len(files)
    /\ \/ /\ Forwards(applied + 1).ok
          /\ db' = Forwards(applied + 1).db
          /\ applied' = applied + 1
          /\ outcome' = "ran"
       \/ /\ ~Forwards(applied + 1).ok
          /\ outcome' = "runFailed"
          /\ UNCHANGED <<db, applied>>
    /\ UNCHANGED <<versions, code, direct, files, torn>>

Revert ==
    /\ Loads
    /\ applied > 0
    /\ \/ /\ Backwards(applied).ok
          /\ db' = Backwards(applied).db
          /\ applied' = applied - 1
          /\ outcome' = "reverted"
       \/ /\ ~Backwards(applied).ok
          /\ outcome' = "revertFailed"
          /\ UNCHANGED <<db, applied>>
    /\ UNCHANGED <<versions, code, direct, files, torn>>

\* Mutant: the node is recorded as applied without being run.
MakeAndRunFaked ==
    /\ direct
    /\ applied = 0
    /\ \E ops \in Detect(code, Empty) \ {<<>>} : files' = <<ops>>
    /\ applied' = 1
    /\ outcome' = "ran"
    /\ UNCHANGED <<versions, code, direct, torn, db>>

\* MakeAndRun: one node with everything, made anew at each call and run unless
\* the first node is recorded already.  Without models it is an error.
MakeAndRun ==
    /\ direct
    /\ \E ops \in Detect(code, Empty) :
        \/ /\ ops = <<>>
           /\ outcome' = "makeFailed"
           /\ UNCHANGED <<files, applied, db>>
        \/ /\ ops # <<>>
           /\ applied = 1
           /\ outcome' = "nothing"
           /\ UNCHANGED <<files, applied, db>>
        \/ /\ ops # <<>>
           /\ applied = 0
           /\ \/ /\ Carried(ops, Empty).ok
                 /\ files' = <<ops>>
                 /\ applied' = 1
                 /\ db' = Carried(ops, Empty).db
                 /\ outcome' = "ran"
              \/ /\ ~Carried(ops, Empty).ok
                 /\ outcome' = "runFailed"
                 /\ UNCHANGED <<files, applied, db>>
    /\ UNCHANGED <<versions, code, direct, torn>>

Next ==
    \/ Edit
    \/ Make \/ SaveFails \/ LoadFails \/ DeleteTorn
    \/ Run \/ Revert
    \/ MakeAndRun

Spec == Init /\ [][Next]_vars

------------------------------------------------------------------------------
(* Properties *)

\* The files Make writes can always be loaded again: replaying them is never
\* refused, whatever the developer did between two calls.
FilesReplay == Replay(files, Len(files)).ok

\* The types, and files that replay.
FilesInv == TypeOK /\ FilesReplay

\* An index that may be missing: one of a model that a file already reverted
\* deletes, as the reversal of DeleteModel makes no indexes.
Deletes(k, m) == \E i \in DOMAIN files[k] : files[k][i] = DeleteModel(m)
Mislaid(idx) ==
    \E m \in DOMAIN State(applied), k \in applied + 1 .. Len(files) :
        idx \in DOMAIN State(applied)[m].indexes /\ Deletes(k, m)

\* The schema is the one the applied files describe, tables, columns and
\* indexes, however often the database went forwards and backwards, but for
\* the indexes mislaid as above (Run and Backwards of the operations).
SchemaFollowsState ==
    LET meant == SchemaOf(State(applied))
        same == {idx \in DOMAIN meant.indexes : ~Mislaid(idx)}
    IN  /\ db.tables = meant.tables
        /\ DOMAIN db.indexes \subseteq DOMAIN meant.indexes
        /\ same \subseteq DOMAIN db.indexes
        /\ \A idx \in DOMAIN db.indexes : db.indexes[idx] = meant.indexes[idx]

\* The file moves the name of an index from one model to another.
Moves(k) ==
    \E m \in DOMAIN State(k - 1), n \in DOMAIN State(k) :
        /\ m # n
        /\ DOMAIN State(k - 1)[m].indexes \cap DOMAIN State(k)[n].indexes # {}

\* The file has an operation that puts a needy field in a table that is there:
\* forwards AddFields, backwards RemoveFields.
AsksFor(k, kind) ==
    \E x \in DOMAIN files[k] :
        files[k][x].op = kind /\ files[k][x].fields \cap Needy # {}

\* The database accepts every operation of a file Make wrote, both ways, unless
\* the file moves the name of an index, an index is missing for the reason
\* above, or a field that is NOT NULL and has no default is to be added to a
\* table (runOperations, backwardOperations).  The one node of MakeAndRun is
\* always accepted: it makes its tables whole.
NodesRun ==
    /\ outcome = "runFailed" =>
            ~direct /\ (Moves(applied + 1) \/ AsksFor(applied + 1, "AddFields"))
    /\ outcome = "revertFailed" =>
            \/ Moves(applied) \/ AsksFor(applied, "RemoveFields")
            \/ db # SchemaOf(State(applied))

Names(program) ==
    [m \in DOMAIN program |-> [fields |-> program[m].fields,
                               indexes |-> DOMAIN program[m].indexes]]

\* After Make the files describe the models of the program, up to what it
\* compares: the names of models, fields and indexes, even when an earlier Make
\* failed to write its file.
MakeConverges ==
    (~direct /\ outcome \in {"made", "nothing"}) =>
        Names(State(Len(files))) = Names(code)

\* MakeAndRun takes effect once and whole: before the first call that carries
\* its node out nothing is in the schema, that call leaves the schema of the
\* program as it was then, the indexes of its models included, and whatever is
\* edited and called after it leaves that schema alone.  (So a later call may
\* return nil with a schema that is not the program's, against the comment of
\* MakeAndRun, migrations.go:124.)
Propagates ==
    direct =>
        IF applied = 0
        THEN db = EmptySchema
        ELSE /\ db = SchemaOf(State(applied))
             /\ outcome = "ran" => db = SchemaOf(code)
=============================================================================
