----------------------------- MODULE SqliteAlter -----------------------------
(***************************************************************************)
(* SqliteEngine.AddColumns and DropColumns, statement by statement.        *)
(* SQLite cannot drop a column nor make one NOT NULL, so both copy the     *)
(* table to a new one, drop the first and rename the copy.  The migration  *)
(* package calls them inside a transaction and rolls it back on any error. *)
(*                                                                         *)
(* One row stands for all: every statement treats the rows alike.          *)
(***************************************************************************)
EXTENDS Naturals, Sequences, FiniteSets, SequencesExt, Functions

CONSTANTS
    Fields,         \* the fields a model may have
    ColumnOf,       \* ColumnOf[f]: field.DBColumn(f)
    Nullable,       \* the fields whose column may be NULL
    HasDefault,     \* the fields with a default value
    Affinity,       \* Affinity[c]: what the type of a column makes SQLite
                    \* convert its values to
    RowId,          \* the key whose column is INTEGER PRIMARY KEY, if any
    InitFields,     \* the fields of the table at first
    IndexFields,    \* IndexFields[i]: the fields of each index of the model
    DropSets,       \* what DropColumns may be called with
    Null, Default,  \* NULL and the default value of a column
    Altered,        \* a value that SQLite put in place of one it was given
    MaxCalls        \* bound: calls to AddColumns and DropColumns

ASSUME AlterAssumption ==
    /\ DOMAIN ColumnOf = Fields
    /\ IsFiniteSet(Fields)
    /\ IsInjective(ColumnOf)
    /\ Nullable \subseteq Fields /\ HasDefault \subseteq Fields
    /\ DOMAIN Affinity = Range(ColumnOf)
    /\ RowId \subseteq Fields /\ RowId \cap Nullable = {}
    /\ Null \notin Range(ColumnOf) \cup {Default, Altered}
    /\ InitFields \subseteq Fields
    /\ \A i \in DOMAIN IndexFields : IndexFields[i] \subseteq InitFields
    \* Model.RemoveField refuses an indexed field.
    /\ \A F \in DropSets : \A i \in DOMAIN IndexFields :
            F \cap IndexFields[i] = {}
    \* It refuses the primary key.
    /\ \E pk \in InitFields : \A F \in DropSets : pk \notin F
    /\ MaxCalls \in Nat

VARIABLES
    fields,         \* the fields of the model the table belongs to
    table,          \* its columns, which are NOT NULL, and its row
    copy,           \* the table {name}__new, or Null
    indexes,        \* the indexes of the table
    pc,             \* the next statement
    call,           \* the call: which operation, and with which fields
    todo,           \* the columns still to add, or the indexes to make again
    before,         \* the table and its indexes when the transaction began
    shuffled,       \* whether this call read and wrote the columns in two
                    \* different orders
    calls           \* how many calls there were

vars == <<fields, table, copy, indexes, pc, call, todo, before, shuffled,
          calls>>

Columns(F) == {ColumnOf[f] : f \in F}
NotNull(F) == Columns(F \ Nullable)

\* The fields of the model that is passed: with the new ones when columns are
\* added, with the old ones when they are dropped.
ModelFields == IF call.op = "add" THEN fields \cup call.fields ELSE fields
Wanted == IF call.op = "add" THEN fields \cup call.fields
                             ELSE fields \ call.fields

\* The types; the rows have a value for each column and for no other, and one
\* that is not NULL where the table asks for it (AddColumns, DropColumns).
TypeOK ==
    /\ fields \subseteq Fields
    /\ table.notNull \subseteq table.cols
    /\ DOMAIN table.row = table.cols
    /\ \A c \in table.notNull : table.row[c] # Null
    /\ \/ copy = Null
       \/ /\ DOMAIN copy.row = Range(copy.order)
          /\ copy.notNull \subseteq Range(copy.order)
    /\ indexes \subseteq DOMAIN IndexFields
    /\ pc \in {"idle", "alter", "fill", "create", "insert", "drop", "rename",
               "index", "done", "panic"}

Init ==
    /\ fields = InitFields
    /\ table = [cols |-> Columns(InitFields), notNull |-> NotNull(InitFields),
                row |-> [c \in Columns(InitFields) |-> c]]
    /\ copy = Null
    /\ indexes = DOMAIN IndexFields
    /\ pc = "idle"
    /\ call = [op |-> "none", fields |-> {}]
    /\ todo = {}
    /\ before = [table |-> table, indexes |-> indexes]
    /\ shuffled = FALSE
    /\ calls = 0

Begin(op, F) ==
    /\ pc = "idle"
    /\ calls < MaxCalls
    /\ calls' = calls + 1
    /\ call' = [op |-> op, fields |-> F]
    /\ before' = [table |-> table, indexes |-> indexes]
    /\ shuffled' = FALSE

AddColumns(F) ==
    /\ F # {}
    /\ F \cap fields = {}
    /\ Begin("add", F)
    /\ pc' = "alter"
    /\ todo' = F
    /\ UNCHANGED <<fields, table, copy, indexes>>

DropColumns(F) ==
    /\ F # {}
    /\ F \subseteq fields
    /\ Begin("drop", F)
    /\ pc' = "create"
    /\ todo' = {}
    /\ UNCHANGED <<fields, table, copy, indexes>>

\* ALTER TABLE ... ADD COLUMN, once per field; the column may be NULL at first.
AlterTable(f) ==
    /\ pc = "alter"
    /\ f \in todo
    /\ ColumnOf[f] \notin table.cols
    /\ LET cols == table.cols \cup {ColumnOf[f]}
       IN  table' = [table EXCEPT !.cols = cols,
                        !.row = [c \in cols |->
                                    IF c = ColumnOf[f] THEN Null ELSE @[c]]]
    /\ todo' = todo \ {f}
    /\ pc' = IF todo' # {} THEN "alter"
             ELSE IF call.fields \subseteq Nullable THEN "done" ELSE "fill"
    /\ UNCHANGED <<fields, copy, indexes, call, before, shuffled, calls>>

\* Mutant: the update is not restricted to the new columns.
FillDefaultsAll ==
    /\ pc = "fill"
    /\ call.fields \ Nullable \subseteq HasDefault
    /\ table' = [table EXCEPT !.row = [c \in table.cols |-> Default]]
    /\ pc' = "create"
    /\ UNCHANGED <<fields, copy, indexes, call, todo, before, shuffled, calls>>

\* UPDATE with the defaults of the columns that may not be NULL.
FillDefaults ==
    /\ pc = "fill"
    /\ call.fields \ Nullable \subseteq HasDefault
    /\ table' = [table EXCEPT !.row =
                    [c \in table.cols |->
                        IF c \in NotNull(call.fields) THEN Default ELSE @[c]]]
    /\ pc' = "create"
    /\ UNCHANGED <<fields, copy, indexes, call, todo, before, shuffled, calls>>

\* The fields copyTable is called with.  DropColumns passes the names of the
\* columns to keep, and no name stands for every field.
CopyFields ==
    LET keep == Columns(ModelFields \ call.fields)
    IN  IF call.op = "add" \/ keep = {} THEN ModelFields ELSE keep

\* CREATE TABLE, with its columns in any order: they come from a map.
CreateCopy ==
    /\ pc = "create"
    /\ copy = Null
    /\ \/ /\ CopyFields \subseteq ModelFields
          /\ \E order \in SetToSeqs(Columns(CopyFields)) :
                copy' = [order |-> order, notNull |-> NotNull(CopyFields),
                         row |-> [c \in Range(order) |-> Null]]
          /\ pc' = "insert"
       \* a name that is no field of the model has a nil Field
       \/ /\ ~(CopyFields \subseteq ModelFields)
          /\ pc' = "panic"
          /\ UNCHANGED copy
    /\ UNCHANGED <<fields, table, indexes, call, todo, before, shuffled, calls>>

\* The row read in one order of its columns and written in another: the values
\* are paired with the columns by position.
From(c, select, order) == select[CHOOSE k \in DOMAIN order : order[k] = c]

\* The columns that are given the value of a column of another type, which
\* SQLite may convert.
Converts(select, order) ==
    {c \in Range(order) : Affinity[From(c, select, order)] # Affinity[c]}

\* What is stored: a NULL key is numbered, and the values of the columns in
\* altered do not survive the conversion.
Paired(row, select, order, altered) ==
    [c \in Range(order) |->
        LET value == row[From(c, select, order)]
        IN  IF value = Null
            THEN IF c \in Columns(RowId) THEN Altered ELSE Null
            ELSE IF c \in altered THEN Altered ELSE value]

\* INSERT INTO copy SELECT columns FROM table: the map is walked again, in any
\* order.
InsertCopy ==
    /\ pc = "insert"
    /\ \E select \in SetToSeqs(Range(copy.order)) :
        \E altered \in SUBSET Converts(select, copy.order) :
            LET row == Paired(table.row, select, copy.order, altered)
            IN  /\ \A c \in copy.notNull : row[c] # Null
                /\ copy' = [copy EXCEPT !.row = row]
                /\ shuffled' = (select # copy.order)
    /\ pc' = "drop"
    /\ UNCHANGED <<fields, table, indexes, call, todo, before, calls>>

\* DROP TABLE takes the indexes with it.
DropOld ==
    /\ pc = "drop"
    /\ table' = [cols |-> {}, notNull |-> {}, row |-> <<>>]
    /\ indexes' = {}
    /\ pc' = "rename"
    /\ UNCHANGED <<fields, copy, call, todo, before, shuffled, calls>>

RenameCopy ==
    /\ pc = "rename"
    /\ table' = [cols |-> Range(copy.order), notNull |-> copy.notNull,
                 row |-> copy.row]
    /\ copy' = Null
    /\ todo' = DOMAIN IndexFields
    /\ pc' = IF todo' = {} THEN "done" ELSE "index"
    /\ UNCHANGED <<fields, indexes, call, before, shuffled, calls>>

\* Mutant: the loop ends with the first index.
AddIndexOnce(i) ==
    /\ pc = "index"
    /\ i \in todo
    /\ indexes' = indexes \cup {i}
    /\ todo' = {}
    /\ pc' = "done"
    /\ UNCHANGED <<fields, table, copy, call, before, shuffled, calls>>

AddIndex(i) ==
    /\ pc = "index"
    /\ i \in todo
    /\ Columns(IndexFields[i]) \subseteq table.cols
    /\ indexes' = indexes \cup {i}
    /\ todo' = todo \ {i}
    /\ pc' = IF todo' = {} THEN "done" ELSE "index"
    /\ UNCHANGED <<fields, table, copy, call, before, shuffled, calls>>

\* The call returns nil and the transaction is committed.
Return ==
    /\ pc = "done"
    /\ fields' = Wanted
    /\ pc' = "idle"
    /\ UNCHANGED <<table, copy, indexes, call, todo, before, shuffled, calls>>

\* A statement is refused, or the missing default is noticed: the call returns
\* an error and the transaction is rolled back.
Fail ==
    /\ pc \notin {"idle", "done", "panic"}
    /\ table' = before.table
    /\ indexes' = before.indexes
    /\ copy' = Null
    /\ todo' = {}
    /\ pc' = "idle"
    /\ UNCHANGED <<fields, call, before, shuffled, calls>>

Next ==
    \/ \E F \in SUBSET Fields : AddColumns(F)
    \/ \E F \in DropSets : DropColumns(F)
    \/ \E f \in Fields : AlterTable(f)
    \/ FillDefaults
    \/ CreateCopy
    \/ InsertCopy
    \/ DropOld
    \/ RenameCopy
    \/ \E i \in DOMAIN IndexFields : AddIndex(i)
    \/ Return
    \/ Fail

Spec == Init /\ [][Next]_vars

------------------------------------------------------------------------------
(* Properties *)

\* Between two calls the table has the columns and the indexes of its model,
\* and the columns that may not be NULL are those of its fields.
TableMatchesModel ==
    pc = "idle" =>
        /\ table.cols = Columns(fields)
        /\ table.notNull = NotNull(fields)
        /\ indexes = DOMAIN IndexFields
        /\ copy = Null

\* The types, and the table of the model.
TableInv == TypeOK /\ TableMatchesModel

\* A column that is there before and after a call keeps its values.
DataKept ==
    pc = "done" =>
        \A c \in table.cols \cap before.table.cols :
            table.row[c] = before.table.row[c]

\* A call changes the values of the columns that stay only through the two
\* walks of the map (FillDefaults, copyTable): when they come in one order each
\* column keeps its values, and when they differ a value is lost only to the
\* conversion of a column of another type that was given it.
ValuesKept ==
    pc = "done" =>
        /\ ~shuffled => DataKept
        /\ \A c \in before.table.cols \cap table.cols :
            LET value == before.table.row[c]
            IN  value \notin Range(table.row) \cup {Null} =>
                    \E d \in table.cols : /\ Affinity[d] # Affinity[c]
                                          /\ table.row[d] = Altered
=============================================================================
