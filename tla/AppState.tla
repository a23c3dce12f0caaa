------------------------------- MODULE AppState -------------------------------
(***************************************************************************)
(* The application state of the migration package as data: the models that *)
(* the operations of the nodes build up (Operation.SetState), the changes  *)
(* makeMigrations finds between that state and the models of the program,  *)
(* and what each operation does to the schema of a database forwards and   *)
(* backwards (Operation.Run, Operation.Backwards).                         *)
(*                                                                         *)
(* A definition is a set of field names and named indexes over them; the   *)
(* models of a program or of a state are a function on the model names.    *)
(* Make compares only names, so a name stands for one field throughout: of *)
(* its type and options only what AddColumns asks for is kept, Needy.      *)
(***************************************************************************)
EXTENDS Naturals, Sequences, FiniteSets, SequencesExt, Functions, TLC

CONSTANTS
    Models,         \* model names
    Fields,         \* field names
    Indexes,        \* index names; an index name is global in a database
    Needy           \* the fields that are NOT NULL and have no default

ASSUME NeedyAssumption == Needy \subseteq Fields

\* The functions on some of the elements of a set.
PartialFuns(S, T) == UNION {[D -> T] : D \in SUBSET S}

\* A valid definition: Model.SetupIndexes refuses an index without fields or
\* over a field the model does not have.
Definitions ==
    UNION {[fields : {F}, indexes : PartialFuns(Indexes, (SUBSET F) \ {{}})] :
           F \in SUBSET Fields}

Programs == PartialFuns(Models, Definitions)

------------------------------------------------------------------------------
(* Operations and the state they build *)

CreateModel(m, F) == [op |-> "CreateModel", model |-> m, fields |-> F]
DeleteModel(m) == [op |-> "DeleteModel", model |-> m]
AddFields(m, F) == [op |-> "AddFields", model |-> m, fields |-> F]
RemoveFields(m, F) == [op |-> "RemoveFields", model |-> m, fields |-> F]
AddIndex(m, i, F) ==
    [op |-> "AddIndex", model |-> m, index |-> i, fields |-> F]
RemoveIndex(m, i) == [op |-> "RemoveIndex", model |-> m, index |-> i]

\* Whether op.SetState(st) returns nil: the checks of the operation and of
\* Model.AddField, RemoveField, AddIndex and RemoveIndex.
CanSet(op, st) ==
    LET known == op.model \in DOMAIN st
        def == st[op.model]
    IN  CASE op.op = "CreateModel" -> ~known
          [] op.op = "DeleteModel" -> known
          [] op.op = "AddFields" -> known /\ op.fields \cap def.fields = {}
          [] op.op = "RemoveFields" ->
                /\ known
                /\ op.fields \subseteq def.fields
                /\ \A i \in DOMAIN def.indexes :
                        op.fields \cap def.indexes[i] = {}
          [] op.op = "AddIndex" ->
                /\ known
                /\ op.index \notin DOMAIN def.indexes
                /\ op.fields # {}
                /\ op.fields \subseteq def.fields
          [] op.op = "RemoveIndex" -> known /\ op.index \in DOMAIN def.indexes

SetState(op, st) ==
    LET def == st[op.model]
        Put(new) == (op.model :> new) @@ st
    IN  CASE op.op = "CreateModel" ->
                Put([fields |-> op.fields, indexes |-> <<>>])
          [] op.op = "DeleteModel" -> Restrict(st, DOMAIN st \ {op.model})
          [] op.op = "AddFields" ->
                Put([def EXCEPT !.fields = @ \cup op.fields])
          [] op.op = "RemoveFields" ->
                Put([def EXCEPT !.fields = @ \ op.fields])
          [] op.op = "AddIndex" ->
                Put([def EXCEPT !.indexes = (op.index :> op.fields) @@ @])
          [] op.op = "RemoveIndex" ->
                Put([def EXCEPT !.indexes =
                        Restrict(@, DOMAIN @ \ {op.index})])

\* The operations of a node, or of several in a row, applied to a state; ok is
\* false when one of them is refused.
ApplyOps(ops, st) ==
    FoldLeft(LAMBDA acc, op :
                IF acc.ok /\ CanSet(op, acc.st)
                THEN [ok |-> TRUE, st |-> SetState(op, acc.st)]
                ELSE [acc EXCEPT !.ok = FALSE],
             [ok |-> TRUE, st |-> st], ops)

Empty == <<>>                       \* no models

\* The state loadHistory and loadPreviousState build from the first k nodes.
Replay(files, k) == ApplyOps(FlattenSeq(SubSeq(files, 1, k)), Empty)

------------------------------------------------------------------------------
(* makeMigrations *)

\* What changed in one model.  The indexes of a step come in any order in the
\* code; they have distinct names and do not touch the fields, so one order
\* stands for all.
Each(S) == SetToSeq(S)
RemovedIndexes(m, new, old) ==
    Each({RemoveIndex(m, i) : i \in DOMAIN old.indexes \ DOMAIN new.indexes})
RemovedFields(m, new, old) ==
    LET gone == old.fields \ new.fields
    IN  IF gone = {} THEN <<>> ELSE <<RemoveFields(m, gone)>>
AddedFields(m, new, old) ==
    LET added == new.fields \ old.fields
    IN  IF added = {} THEN <<>> ELSE <<AddFields(m, added)>>
AddedIndexes(m, new, known) ==
    Each({AddIndex(m, i, new.indexes[i]) : i \in DOMAIN new.indexes \ known})

\* Mutant: the indexes of a new model are forgotten.
ModelChangesNoIndexes(m, new, st) ==
    IF m \notin DOMAIN st
    THEN <<CreateModel(m, new.fields)>>
    ELSE RemovedIndexes(m, new, st[m]) \o RemovedFields(m, new, st[m]) \o
         AddedFields(m, new, st[m]) \o
         AddedIndexes(m, new, DOMAIN st[m].indexes)

\* The operations for one model of the program, in the order they are appended.
ModelChanges(m, new, st) ==
    IF m \notin DOMAIN st
    THEN <<CreateModel(m, new.fields)>> \o AddedIndexes(m, new, {})
    ELSE RemovedIndexes(m, new, st[m]) \o RemovedFields(m, new, st[m]) \o
         AddedFields(m, new, st[m]) \o
         AddedIndexes(m, new, DOMAIN st[m].indexes)

\* The operations of the node Make builds: deleted models first, then the
\* models of the program, both in the order a map is walked, that is, any.
Detect(code, st) ==
    {deleted \o FlattenSeq([k \in DOMAIN order |->
                                ModelChanges(order[k], code[order[k]], st)]) :
        deleted \in SetToSeqs({DeleteModel(m) : m \in DOMAIN st \ DOMAIN code}),
        order \in SetToSeqs(DOMAIN code)}

------------------------------------------------------------------------------
(* What an operation does to a database *)

\* A schema: the columns of each table, and the table and columns of each
\* index.
EmptySchema == [tables |-> <<>>, indexes |-> <<>>]

\* The schema a state describes.
SchemaOf(st) ==
    LET owner(i) == CHOOSE m \in DOMAIN st : i \in DOMAIN st[m].indexes
    IN  [tables |-> [m \in DOMAIN st |-> st[m].fields],
         indexes |-> [i \in UNION {DOMAIN st[m].indexes : m \in DOMAIN st} |->
                        [table |-> owner(i),
                         columns |-> st[owner(i)].indexes[i]]]]

\* The statements of the engine; each is a condition for the database to
\* accept it and the schema that results.
CreateTable(db, t, cols) ==
    [ok |-> t \notin DOMAIN db.tables,
     db |-> [db EXCEPT !.tables = (t :> cols) @@ @]]

\* The database drops the indexes of a table with it.
DropTable(db, t) ==
    [ok |-> t \in DOMAIN db.tables,
     db |-> [tables |-> Restrict(db.tables, DOMAIN db.tables \ {t}),
             indexes |-> Restrict(db.indexes,
                {i \in DOMAIN db.indexes : db.indexes[i].table # t})]]

\* The engine refuses a column that is NOT NULL and has no default, whether
\* or not the table has rows.
AddColumns(db, t, cols) ==
    [ok |-> /\ t \in DOMAIN db.tables
            /\ cols \cap db.tables[t] = {}
            /\ cols \cap Needy = {},
     db |-> [db EXCEPT !.tables[t] = @ \cup cols]]

\* Mutant: the columns to keep are dropped.
DropColumnsSwapped(db, t, cols) ==
    [ok |-> t \in DOMAIN db.tables /\ cols \subseteq db.tables[t],
     db |-> [db EXCEPT !.tables[t] = cols]]

DropColumns(db, t, cols) ==
    [ok |-> t \in DOMAIN db.tables /\ cols \subseteq db.tables[t],
     db |-> [db EXCEPT !.tables[t] = @ \ cols]]

CreateIndex(db, t, i, cols) ==
    [ok |-> /\ i \notin DOMAIN db.indexes
            /\ t \in DOMAIN db.tables
            /\ cols \subseteq db.tables[t],
     db |-> [db EXCEPT !.indexes = (i :> [table |-> t, columns |-> cols]) @@ @]]

DropIndex(db, i) ==
    [ok |-> i \in DOMAIN db.indexes,
     db |-> [db EXCEPT !.indexes = Restrict(@, DOMAIN @ \ {i})]]

\* The change of the schema by op.Run(engine, state, prevState).
RunOp(op, st, prev, db) ==
    CASE op.op = "CreateModel" -> CreateTable(db, op.model, st[op.model].fields)
      [] op.op = "DeleteModel" -> DropTable(db, op.model)
      [] op.op = "AddFields" -> AddColumns(db, op.model, op.fields)
      [] op.op = "RemoveFields" -> DropColumns(db, op.model, op.fields)
      [] op.op = "AddIndex" -> CreateIndex(db, op.model, op.index, op.fields)
      [] op.op = "RemoveIndex" -> DropIndex(db, op.index)

\* ... and by op.Backwards(engine, state, prevState).
ReverseOp(op, st, prev, db) ==
    CASE op.op = "CreateModel" -> DropTable(db, op.model)
      [] op.op = "DeleteModel" ->
            CreateTable(db, op.model, prev[op.model].fields)
      [] op.op = "AddFields" -> DropColumns(db, op.model, op.fields)
      [] op.op = "RemoveFields" -> AddColumns(db, op.model, op.fields)
      [] op.op = "AddIndex" -> DropIndex(db, op.index)
      [] op.op = "RemoveIndex" ->
            CreateIndex(db, op.model, op.index, prev[op.model].indexes[op.index])
=============================================================================
