-------------------------- MODULE SqliteAlterProofs --------------------------
(***************************************************************************)
(* Proofs about SqliteAlter, for any fields, indexes and calls: whatever   *)
(* statement a call ends at, the table is the one of its model, and only   *)
(* the two walks of its columns can change a value that stays.             *)
(***************************************************************************)
EXTENDS SqliteAlter, FiniteSetTheorems, TLAPS

\* No column has the name of another field: DropColumns passes the columns to
\* keep as if they were the names of fields (DropColumns, copyTable).
OwnNames == \A f, g \in Fields : ColumnOf[f] = g => f = g

IsTable(t) ==
    /\ t = [cols |-> t.cols, notNull |-> t.notNull, row |-> t.row]
    /\ DOMAIN t.row = t.cols

\* The table as it was when the transaction began.
SameRow == \A c \in before.table.cols :
                c \in table.cols /\ table.row[c] = before.table.row[c]

\* The columns that were there before and stay.
Staying == before.table.cols \cap Columns(Wanted)

\* A row in which the columns that stay have their values, or lost them as
\* ValuesKept says.
Kept(row) ==
    /\ ~shuffled => \A c \in Staying : row[c] = before.table.row[c]
    /\ \A c \in Staying :
            before.table.row[c] \notin Range(row) \cup {Null} =>
                \E d \in Columns(Wanted) : /\ Affinity[d] # Affinity[c]
                                          /\ row[d] = Altered

\* The fields of the model and of the call.
Called ==
    /\ fields \subseteq Fields
    /\ \A pk \in InitFields : (\A F \in DropSets : pk \notin F) => pk \in fields
    /\ pc # "idle" =>
        /\ call.fields \subseteq Fields /\ call.fields # {}
        /\ call.op \in {"add", "drop"}
        /\ call.op = "add" => call.fields \cap fields = {}
        /\ call.op = "drop" => call.fields \in DropSets

\* What a rollback restores.
Restorable ==
    pc # "idle" =>
        /\ IsTable(before.table)
        /\ before.table.cols = Columns(fields)
        /\ before.table.notNull = NotNull(fields)
        /\ \A c \in before.table.notNull : before.table.row[c] # Null
        /\ before.indexes = DOMAIN IndexFields

\* Until the table is dropped it has its rows.
Uncopied ==
    /\ pc \in {"idle", "alter", "fill", "create", "insert", "drop", "panic"} =>
        /\ table.notNull = NotNull(fields)
        /\ indexes = DOMAIN IndexFields
    /\ pc \in {"alter", "fill", "create", "insert", "drop"} => SameRow
    /\ pc \in {"alter", "fill", "create", "insert"} => ~shuffled
    /\ pc = "alter" =>
        /\ call.op = "add" /\ todo \subseteq call.fields
        /\ table.cols = Columns(fields \cup (call.fields \ todo))
    /\ pc = "fill" => call.op = "add"
    /\ pc \in {"fill", "create", "insert", "drop"} =>
        table.cols = Columns(ModelFields)
    /\ pc \in {"create", "insert"} =>
        \A c \in NotNull(ModelFields) : table.row[c] # Null
    /\ pc \in {"idle", "alter", "fill", "create", "index", "done"} => copy = Null

\* The copy has the columns of the model as it will be, each once; once it is
\* filled, the columns that stay have kept their values.
Copied ==
    /\ pc \in {"insert", "drop", "rename"} =>
        /\ copy = [order |-> copy.order, notNull |-> copy.notNull,
                   row |-> copy.row]
        /\ copy.order \in SetToSeqs(Columns(Wanted))
        /\ Range(copy.order) = Columns(Wanted)
        /\ copy.notNull = NotNull(Wanted)
        /\ DOMAIN copy.row = Columns(Wanted)
    /\ pc \in {"drop", "rename"} =>
        /\ \A c \in copy.notNull : copy.row[c] # Null
        /\ Kept(copy.row)

\* The table has the columns the call wants, and gets its indexes back.
Finished ==
    /\ pc \in {"index", "done"} =>
        /\ table.cols = Columns(Wanted)
        /\ table.notNull = NotNull(Wanted)
        /\ Kept(table.row)
    /\ pc = "index" =>
        /\ todo \subseteq DOMAIN IndexFields
        /\ indexes \cup todo = DOMAIN IndexFields
    /\ pc = "done" => indexes = DOMAIN IndexFields

Inv == /\ IsTable(table) /\ TypeOK /\ TableMatchesModel
       /\ Called /\ Restorable /\ Uncopied /\ Copied /\ Finished

------------------------------------------------------------------------------
(* Columns, and the orders they may come in *)

\* A column belongs to one field.
LEMMA ColumnsOf ==
    ASSUME NEW G \in SUBSET Fields
    PROVE  /\ IsFiniteSet(Columns(G))
           /\ \A f \in Fields : ColumnOf[f] \in Columns(G) <=> f \in G
<1>1. IsFiniteSet(G)
  BY AlterAssumption, FS_Subset
<1> DEFINE h == [f \in G |-> ColumnOf[f]]
<1>2. h \in Surjection(G, Columns(G))
  BY DEF Columns, Surjection
<1>3. IsFiniteSet(Columns(G))
  BY <1>1, <1>2, FS_Surjection
<1>4. \A f, g \in Fields : ColumnOf[f] = ColumnOf[g] => f = g
  BY AlterAssumption DEF IsInjective
<1> QED
  BY <1>3, <1>4 DEF Columns

\* An order of the columns names each of them, once.
LEMMA OrderNames ==
    ASSUME NEW S, IsFiniteSet(S), NEW order \in SetToSeqs(S)
    PROVE  /\ Range(order) = S
           /\ \A k, l \in DOMAIN order : order[k] = order[l] => k = l
<1> DEFINE n == Cardinality(S)
<1>1. /\ order \in [1 .. n -> S]
      /\ \A k, l \in 1 .. n : k # l => order[k] # order[l]
  BY DEF SetToSeqs
<1>2. order \in Injection(1 .. n, S)
  BY <1>1 DEF Injection, IsInjective
<1>3. n \in Nat
  BY FS_CardinalityType
<1> HIDE DEF n
<1>4. Cardinality(1 .. n) = n
  <2>1. 1 \in Int /\ n \in Int /\ (1 > n => n = 0) /\ n - 1 + 1 = n
    BY <1>3
  <2>2. Cardinality(1 .. n) = IF 1 > n THEN 0 ELSE n - 1 + 1
    BY <2>1, FS_Interval
  <2> QED
    BY <2>1, <2>2
<1>5. order \in Surjection(1 .. n, S)
  BY <1>2, <1>4, FS_Injection DEF n
<1>6. \A c \in S : \E k \in 1 .. n : order[k] = c
  BY <1>5 DEF Surjection
<1> QED
  BY <1>1, <1>6 DEF Range

\* In two orders of the same columns each column is given the value of one,
\* and gives its own to one.
LEMMA Rearranged ==
    ASSUME NEW S, IsFiniteSet(S), NEW order \in SetToSeqs(S),
           NEW select \in SetToSeqs(S)
    PROVE  /\ Range(order) = S
           /\ \A c \in S : From(c, select, order) \in S
           /\ \A c \in S : \E d \in S : From(d, select, order) = c
           /\ select = order => \A c \in S : From(c, select, order) = c
<1>1. /\ Range(order) = S /\ Range(select) = S
      /\ \A k, l \in DOMAIN order : order[k] = order[l] => k = l
      /\ DOMAIN order = 1 .. Cardinality(S)
      /\ DOMAIN select = 1 .. Cardinality(S)
  BY OrderNames DEF SetToSeqs
<1>2. \A l \in DOMAIN order : From(order[l], select, order) = select[l]
  <2>1. TAKE l \in DOMAIN order
  <2>2. (CHOOSE k \in DOMAIN order : order[k] = order[l]) = l
    BY <1>1
  <2> QED
    BY <2>2 DEF From
<1>3. \A c \in S : \E l \in DOMAIN order : order[l] = c
  BY <1>1 DEF Range
<1>4. \A c \in S : \E l \in DOMAIN select : select[l] = c
  BY <1>1 DEF Range
<1>5. \A l \in DOMAIN order : order[l] \in S /\ select[l] \in S
  BY <1>1 DEF Range
<1> QED
  BY <1>1, <1>2, <1>3, <1>4, <1>5

\* What the copy of a row has: with one order for both walks the same row, and
\* with two every value but those that a column of another type altered.
LEMMA CopiedRow ==
    ASSUME NEW S, IsFiniteSet(S), NEW order \in SetToSeqs(S),
           NEW select \in SetToSeqs(S), NEW row,
           NEW altered \in SUBSET Converts(select, order),
           \A c \in S \cap Columns(RowId) : row[c] # Null
    PROVE  LET to == Paired(row, select, order, altered)
           IN  /\ DOMAIN to = S
               /\ select = order => \A c \in S : to[c] = row[c]
               /\ \A c \in S : row[c] \notin Range(to) \cup {Null} =>
                    \E d \in S : Affinity[d] # Affinity[c] /\ to[d] = Altered
<1> DEFINE to == Paired(row, select, order, altered)
<1>1. /\ Range(order) = S
      /\ \A c \in S : From(c, select, order) \in S
      /\ \A c \in S : \E d \in S : From(d, select, order) = c
      /\ select = order => \A c \in S : From(c, select, order) = c
  BY Rearranged
<1>2. /\ DOMAIN to = S
      /\ \A c \in S : to[c] =
            IF row[From(c, select, order)] = Null
            THEN IF c \in Columns(RowId) THEN Altered ELSE Null
            ELSE IF c \in altered THEN Altered
                 ELSE row[From(c, select, order)]
  BY <1>1 DEF Paired
<1>3. \A c \in altered : c \in S /\ Affinity[From(c, select, order)] # Affinity[c]
  BY <1>1 DEF Converts
<1> HIDE DEF to
<1>4. ASSUME select = order, NEW c \in S
      PROVE  to[c] = row[c]
  <2>1. From(c, select, order) = c
    BY <1>1, <1>4
  <2>2. c \notin altered
    BY <1>3, <2>1
  <2>3. row[c] = Null => c \notin Columns(RowId)
    OBVIOUS
  <2> QED
    BY <1>2, <2>1, <2>2, <2>3
<1>5. ASSUME NEW c \in S, row[c] \notin Range(to) \cup {Null}
      PROVE  \E d \in S : Affinity[d] # Affinity[c] /\ to[d] = Altered
  <2>1. PICK d \in S : From(d, select, order) = c
    BY <1>1
  <2>2. to[d] = IF d \in altered THEN Altered ELSE row[c]
    BY <1>2, <1>5, <2>1
  <2>3. to[d] \in Range(to)
    BY <1>2 DEF Range
  <2>4. d \in altered
    BY <1>5, <2>2, <2>3
  <2> QED
    BY <1>3, <2>1, <2>2, <2>4
<1> QED
  BY <1>2, <1>4, <1>5 DEF to

------------------------------------------------------------------------------
(* The steps *)

\* The table is that of the model at first.
LEMMA Starts == Init => Inv
<1> SUFFICES ASSUME Init
             PROVE  Inv
  OBVIOUS
<1>1. /\ fields = InitFields /\ InitFields \subseteq Fields
      /\ table.cols = Columns(InitFields)
      /\ table.notNull = NotNull(InitFields)
      /\ DOMAIN table.row = table.cols
      /\ IsTable(table)
      /\ copy = Null /\ indexes = DOMAIN IndexFields /\ pc = "idle"
  BY AlterAssumption DEF Init, IsTable
<1>2. table.notNull \subseteq table.cols
  BY <1>1 DEF NotNull, Columns
<1>3. \A c \in table.notNull : table.row[c] # Null
  <2>1. table.row = [c \in Columns(InitFields) |-> c]
    BY DEF Init
  <2>2. \A c \in Columns(InitFields) : c \in Range(ColumnOf)
    BY AlterAssumption DEF Columns, Range
  <2> QED
    BY <1>1, <1>2, <2>1, <2>2, AlterAssumption
<1> QED
  BY <1>1, <1>2, <1>3
  DEF Inv, TypeOK, TableMatchesModel, Called, Restorable, Uncopied, Copied,
      Finished

\* A call begins.
LEMMA BeginKeeps ==
    ASSUME Inv, NEW op \in {"add", "drop"}, NEW F \in SUBSET Fields, F # {},
           \/ /\ op = "add" /\ F \cap fields = {}
              /\ pc' = "alter" /\ todo' = F
           \/ /\ op = "drop" /\ F \in DropSets /\ F \subseteq fields
              /\ pc' = "create" /\ todo' = {},
           Begin(op, F), UNCHANGED <<fields, table, copy, indexes>>
    PROVE  Inv'
<1>1. /\ pc = "idle" /\ call'.op = op /\ call'.fields = F
      /\ before'.table = table /\ before'.indexes = indexes
      /\ fields' = fields /\ table' = table /\ copy' = copy
      /\ indexes' = indexes /\ pc' \in {"alter", "create"}
      /\ shuffled' = FALSE
  BY DEF Begin
<1>2. /\ table.cols = Columns(fields) /\ table.notNull = NotNull(fields)
      /\ indexes = DOMAIN IndexFields /\ copy = Null /\ IsTable(table)
      /\ fields \subseteq Fields
      /\ \A c \in table.notNull : table.row[c] # Null
  BY <1>1 DEF Inv, TableMatchesModel, TypeOK
<1>3. /\ pc' = "alter" => fields \cup (call'.fields \ todo') = fields
      /\ pc' = "create" => ModelFields' = fields
  BY <1>1 DEF ModelFields
<1>4. Uncopied'
  BY <1>1, <1>2, <1>3 DEF Uncopied, SameRow, IsTable
<1>5. Called' /\ Restorable'
  BY <1>1, <1>2 DEF Inv, Called, Restorable
<1>6. IsTable(table)' /\ TypeOK' /\ TableMatchesModel'
  BY <1>1, <1>2 DEF Inv, TypeOK, TableMatchesModel, IsTable
<1> QED
  BY <1>1, <1>4, <1>5, <1>6 DEF Inv, Copied, Finished

\* Columns are added one by one.
LEMMA AlterTableKeeps ==
    ASSUME Inv, NEW f \in Fields, AlterTable(f)
    PROVE  Inv'
<1> DEFINE F == call.fields
           added == table.cols \cup {ColumnOf[f]}
<1>1. /\ pc = "alter" /\ f \in todo /\ ColumnOf[f] \notin table.cols
      /\ UNCHANGED <<fields, copy, indexes, call, before, shuffled, calls>>
      /\ todo' = todo \ {f}
      /\ pc' = IF todo' # {} THEN "alter"
               ELSE IF F \subseteq Nullable THEN "done" ELSE "fill"
  BY DEF AlterTable
<1>2. /\ fields \subseteq Fields /\ F \subseteq Fields /\ F # {}
      /\ F \cap fields = {} /\ call.op = "add" /\ todo \subseteq F
      /\ table.cols = Columns(fields \cup (F \ todo))
      /\ table.notNull = NotNull(fields) /\ SameRow /\ copy = Null
      /\ indexes = DOMAIN IndexFields /\ IsTable(table)
      /\ before.table.cols = Columns(fields)
      /\ DOMAIN before.table.row = before.table.cols
      /\ ~shuffled /\ table.notNull \subseteq table.cols
      /\ \A c \in table.notNull : table.row[c] # Null
  BY <1>1 DEF Inv, TypeOK, Called, Uncopied, Restorable, IsTable
<1>3. /\ table' = [cols |-> added, notNull |-> table.notNull,
                   row |-> [c \in added |-> IF c = ColumnOf[f] THEN Null
                                            ELSE table.row[c]]]
  BY <1>2 DEF AlterTable, IsTable
<1>4. /\ table'.cols = added /\ table'.notNull = table.notNull
      /\ DOMAIN table'.row = added /\ IsTable(table')
      /\ \A c \in table.cols : table'.row[c] = table.row[c]
  BY <1>1, <1>3 DEF IsTable
<1>5. added = Columns(fields \cup (F \ todo'))
  BY <1>1, <1>2 DEF Columns
<1>6. SameRow'
  BY <1>1, <1>2, <1>4 DEF SameRow
<1>7. /\ table'.notNull \subseteq table'.cols
      /\ \A c \in table'.notNull : table'.row[c] # Null
  BY <1>4, <1>2
<1>8. CASE pc' = "done"
  <2>1. todo' = {} /\ F \subseteq Nullable
    BY <1>1, <1>8
  <2>2. Wanted' = fields \cup F /\ Wanted = fields \cup F
    BY <1>1, <1>2 DEF Wanted
  <2>3. table'.cols = Columns(fields \cup F)
    BY <1>4, <1>5, <2>1
  <2>4. (fields \cup F) \ Nullable = fields \ Nullable
    BY <2>1
  <2>5. table'.notNull = NotNull(fields \cup F)
    BY <1>2, <1>4, <2>4 DEF NotNull
  <2>6. Kept(table.row)'
    <3>1. \A c \in Staying' : /\ table'.row[c] = before'.table.row[c]
                              /\ table'.row[c] \in Range(table'.row)
      BY <1>4, <1>6 DEF SameRow, Staying, Range
    <3> QED
      BY <3>1 DEF Kept
  <2> QED
    BY <1>1, <1>2, <1>4, <1>7, <1>8, <2>2, <2>3, <2>5, <2>6
    DEF Inv, TypeOK, TableMatchesModel, Called, Restorable, Uncopied, Copied,
        Finished
<1>9. CASE pc' # "done"
  <2>1. pc' \in {"alter", "fill"} /\ (pc' = "fill" => todo' = {})
    BY <1>1, <1>9
  <2>2. ModelFields' = fields \cup F
    BY <1>1, <1>2 DEF ModelFields
  <2>3. pc' = "fill" => fields \cup (F \ todo') = fields \cup F
    BY <2>1
  <2>4. Uncopied'
    BY <1>1, <1>2, <1>4, <1>5, <1>6, <2>1, <2>2, <2>3 DEF Uncopied
  <2> QED
    BY <1>1, <1>2, <1>4, <1>7, <2>1, <2>4
    DEF Inv, TypeOK, TableMatchesModel, Called, Restorable, Copied, Finished
<1> QED
  BY <1>8, <1>9

\* The defaults go to the new columns only.
LEMMA FillDefaultsKeeps ==
    ASSUME Inv, FillDefaults
    PROVE  Inv'
<1> DEFINE F == call.fields
<1>1. /\ pc = "fill" /\ pc' = "create"
      /\ UNCHANGED <<fields, copy, indexes, call, todo, before, shuffled, calls>>
  BY DEF FillDefaults
<1>2. /\ fields \subseteq Fields /\ F \subseteq Fields
      /\ F \cap fields = {} /\ call.op = "add"
      /\ table.cols = Columns(ModelFields) /\ ModelFields = fields \cup F
      /\ table.notNull = NotNull(fields) /\ SameRow /\ copy = Null
      /\ indexes = DOMAIN IndexFields /\ IsTable(table)
      /\ table.notNull \subseteq table.cols
      /\ \A c \in table.notNull : table.row[c] # Null
      /\ before.table.cols = Columns(fields) /\ ~shuffled
  BY <1>1 DEF Inv, TypeOK, Called, Uncopied, Restorable, IsTable, ModelFields
<1>3. table' = [cols |-> table.cols, notNull |-> table.notNull,
                row |-> [c \in table.cols |->
                            IF c \in NotNull(F) THEN Default ELSE table.row[c]]]
  BY <1>2 DEF FillDefaults, IsTable
<1>4. /\ table'.cols = table.cols /\ table'.notNull = table.notNull
      /\ DOMAIN table'.row = table.cols /\ IsTable(table')
      /\ \A c \in table.cols : table'.row[c] =
            IF c \in NotNull(F) THEN Default ELSE table.row[c]
      /\ \A c \in table'.notNull : table'.row[c] # Null
  BY <1>2, <1>3, AlterAssumption DEF IsTable
<1>5. \A c \in Columns(fields) : c \notin NotNull(F)
  <2>1. \A f, g \in Fields : ColumnOf[f] = ColumnOf[g] => f = g
    BY AlterAssumption DEF IsInjective
  <2> QED
    BY <1>2, <2>1 DEF Columns, NotNull
<1>6. SameRow'
  BY <1>1, <1>2, <1>4, <1>5 DEF SameRow
<1>7. ModelFields' = ModelFields
  BY <1>1 DEF ModelFields
<1>8. \A c \in NotNull(ModelFields) : table'.row[c] # Null
  <2>1. \A c \in NotNull(ModelFields) :
            /\ c \in table.cols
            /\ c \in NotNull(fields) \/ c \in NotNull(F)
    BY <1>2 DEF NotNull, Columns
  <2> QED
    BY <1>2, <1>4, <2>1, AlterAssumption
<1>9. Uncopied'
  BY <1>1, <1>2, <1>4, <1>6, <1>7, <1>8 DEF Uncopied
<1> QED
  BY <1>1, <1>2, <1>4, <1>9
  DEF Inv, TypeOK, TableMatchesModel, Called, Restorable, Copied, Finished

\* The fields the copy is made of are those the call wants: a call that drops
\* columns keeps at least the primary key, and takes each name it keeps for the
\* field of that name.
LEMMA CopiesWanted ==
    ASSUME OwnNames, Inv, pc = "create", CopyFields \subseteq ModelFields
    PROVE  CopyFields = Wanted
<1>1. CASE call.op = "add"
  BY <1>1 DEF CopyFields, ModelFields, Wanted
<1>2. CASE call.op = "drop"
  <2>1. /\ fields \subseteq Fields /\ call.fields \in DropSets
        /\ ModelFields = fields /\ Wanted = fields \ call.fields
    BY <1>2 DEF Inv, Called, ModelFields, Wanted
  <2>2. PICK pk \in InitFields : \A F \in DropSets : pk \notin F
    BY AlterAssumption
  <2>3. pk \in fields \ call.fields
    BY <2>1, <2>2 DEF Inv, Called
  <2>4. CopyFields = Columns(fields \ call.fields)
    BY <1>2, <2>1, <2>3 DEF CopyFields, Columns
  <2>5. \A f \in fields \ call.fields : ColumnOf[f] = f
    BY <2>1, <2>4 DEF OwnNames, Columns
  <2> QED
    BY <2>1, <2>4, <2>5 DEF Columns
<1> QED
  BY <1>1, <1>2 DEF Inv, Called

\* The copy is made, with the columns of the model in some order.
LEMMA CreateCopyKeeps ==
    ASSUME OwnNames, Inv, CreateCopy
    PROVE  Inv'
<1>1. /\ pc = "create"
      /\ UNCHANGED <<fields, table, indexes, call, todo, before, shuffled, calls>>
  BY DEF CreateCopy
<1>2. ModelFields' = ModelFields /\ Wanted' = Wanted
  BY <1>1 DEF ModelFields, Wanted
<1>3. CASE pc' = "panic" /\ copy' = copy
  BY <1>1, <1>2, <1>3
  DEF Inv, IsTable, TypeOK, TableMatchesModel, Called, Restorable, Uncopied,
      Copied, Finished
<1>4. ASSUME NEW order \in SetToSeqs(Columns(CopyFields)),
             CopyFields \subseteq ModelFields, pc' = "insert",
             copy' = [order |-> order, notNull |-> NotNull(CopyFields),
                      row |-> [c \in Range(order) |-> Null]]
      PROVE  Inv'
  <2>1. CopyFields = Wanted
    BY <1>1, <1>4, CopiesWanted
  <2>2. Wanted \subseteq Fields
    BY <1>1 DEF Inv, Called, Wanted
  <2>3. Range(order) = Columns(Wanted)
    BY <1>4, <2>1, <2>2, ColumnsOf, OrderNames
  <2>4. /\ copy'.order = order /\ copy'.notNull = NotNull(Wanted)
        /\ copy' = [order |-> copy'.order, notNull |-> copy'.notNull,
                    row |-> copy'.row]
        /\ DOMAIN copy'.row = Columns(Wanted)
    BY <1>4, <2>1, <2>3
  <2>5. NotNull(Wanted) \subseteq Columns(Wanted)
    BY DEF NotNull, Columns
  <2>6. Copied'
    BY <1>2, <1>4, <2>1, <2>3, <2>4 DEF Copied
  <2>7. Uncopied'
    BY <1>1, <1>2, <1>4 DEF Inv, Uncopied, SameRow
  <2>8. TypeOK'
    BY <1>1, <1>4, <2>3, <2>4, <2>5 DEF Inv, TypeOK
  <2> QED
    BY <1>1, <1>2, <1>4, <2>6, <2>7, <2>8
    DEF Inv, IsTable, TableMatchesModel, Called, Restorable, Finished
<1> QED
  BY <1>1, <1>3, <1>4 DEF CreateCopy

\* No key that SQLite numbers is NULL when the rows are read: a new column is
\* filled before, unless it may be NULL, and such a key may not.
LEMMA NumberedKeys ==
    ASSUME Inv, pc = "insert",
           NEW c \in Columns(Wanted) \cap Columns(RowId)
    PROVE  table.row[c] # Null
<1>1. PICK f \in Wanted : c = ColumnOf[f]
  BY DEF Columns
<1>2. f \in Fields /\ Wanted \subseteq Fields
  BY DEF Inv, Called, Wanted
<1>3. f \in RowId /\ f \notin Nullable
  BY <1>1, <1>2, ColumnsOf, AlterAssumption
<1>4. c \in NotNull(ModelFields)
  BY <1>1, <1>3 DEF NotNull, Columns, ModelFields, Wanted
<1> QED
  BY <1>4 DEF Inv, Uncopied

\* It gets the rows, their columns in another order.
LEMMA InsertCopyKeeps ==
    ASSUME Inv, InsertCopy
    PROVE  Inv'
<1>1. /\ pc = "insert" /\ pc' = "drop"
      /\ UNCHANGED <<fields, table, indexes, call, todo, before, calls>>
  BY DEF InsertCopy
<1>2. ModelFields' = ModelFields /\ Wanted' = Wanted /\ Staying' = Staying
  BY <1>1 DEF ModelFields, Wanted, Staying
<1>3. /\ copy = [order |-> copy.order, notNull |-> copy.notNull,
                 row |-> copy.row]
      /\ copy.order \in SetToSeqs(Columns(Wanted))
      /\ Range(copy.order) = Columns(Wanted)
      /\ copy.notNull = NotNull(Wanted)
      /\ SameRow /\ Wanted \subseteq Fields
      /\ table.cols = Columns(ModelFields)
      /\ DOMAIN table.row = table.cols
  BY <1>1 DEF Inv, Copied, Uncopied, Called, Wanted, TypeOK
<1>4a. PICK select \in SetToSeqs(Columns(Wanted)) :
        \E altered \in SUBSET Converts(select, copy.order) :
            LET row == Paired(table.row, select, copy.order, altered)
            IN  /\ \A c \in copy.notNull : row[c] # Null
                /\ copy' = [copy EXCEPT !.row = row]
                /\ shuffled' = (select # copy.order)
  BY <1>3 DEF InsertCopy
<1>4. PICK altered \in SUBSET Converts(select, copy.order) :
        LET row == Paired(table.row, select, copy.order, altered)
        IN  /\ \A c \in copy.notNull : row[c] # Null
            /\ copy' = [copy EXCEPT !.row = row]
            /\ shuffled' = (select # copy.order)
  BY <1>4a
<1> DEFINE to == Paired(table.row, select, copy.order, altered)
<1>5. /\ DOMAIN to = Columns(Wanted)
      /\ select = copy.order =>
            \A c \in Columns(Wanted) : to[c] = table.row[c]
      /\ \A c \in Columns(Wanted) : table.row[c] \notin Range(to) \cup {Null} =>
            \E d \in Columns(Wanted) :
                Affinity[d] # Affinity[c] /\ to[d] = Altered
  <2>1. \A c \in Columns(Wanted) \cap Columns(RowId) : table.row[c] # Null
    BY <1>1, <1>3, NumberedKeys
  <2> QED
    BY <1>3, <2>1, ColumnsOf, CopiedRow
<1>6. /\ copy' = [order |-> copy.order, notNull |-> copy.notNull, row |-> to]
      /\ \A c \in copy.notNull : to[c] # Null
      /\ shuffled' = (select # copy.order)
  BY <1>3, <1>4
<1> HIDE DEF to
<1>7. /\ copy'.order = copy.order /\ copy'.notNull = copy.notNull
      /\ copy'.row = to
      /\ copy' = [order |-> copy'.order, notNull |-> copy'.notNull,
                  row |-> copy'.row]
  BY <1>6
<1>8. Kept(copy.row)'
  <2>1. \A c \in Staying : /\ c \in Columns(Wanted)
                           /\ table.row[c] = before.table.row[c]
    BY <1>3 DEF SameRow, Staying
  <2>2. ~shuffled' => \A c \in Staying : to[c] = before.table.row[c]
    BY <1>5, <1>6, <2>1
  <2>3. \A c \in Staying :
            before.table.row[c] \notin Range(to) \cup {Null} =>
                \E d \in Columns(Wanted) : /\ Affinity[d] # Affinity[c]
                                          /\ to[d] = Altered
    BY <1>5, <2>1
  <2>4. before' = before
    BY <1>1
  <2> QED
    BY <1>2, <1>7, <2>2, <2>3, <2>4 DEF Kept
<1>9. Copied'
  BY <1>1, <1>2, <1>3, <1>5, <1>6, <1>7, <1>8 DEF Copied
<1>10. TypeOK'
  BY <1>1, <1>3, <1>5, <1>7 DEF Inv, TypeOK, NotNull, Columns
<1>11. Uncopied'
  BY <1>1, <1>2 DEF Inv, Uncopied, SameRow
<1> QED
  BY <1>1, <1>2, <1>9, <1>10, <1>11
  DEF Inv, IsTable, TableMatchesModel, Called, Restorable, Finished

\* The table is dropped, with its indexes.
LEMMA DropOldKeeps ==
    ASSUME Inv, DropOld
    PROVE  Inv'
<1>1. /\ pc = "drop" /\ pc' = "rename" /\ indexes' = {}
      /\ UNCHANGED <<fields, copy, call, todo, before, shuffled, calls>>
      /\ table'.cols = {} /\ table'.notNull = {} /\ table'.row = <<>>
      /\ table' = [cols |-> table'.cols, notNull |-> table'.notNull,
                   row |-> table'.row]
  BY DEF DropOld
<1>2. Wanted' = Wanted /\ Staying' = Staying
  BY <1>1 DEF Wanted, Staying
<1>3. DOMAIN table'.row = table'.cols
  BY <1>1
<1>4. Copied'
  BY <1>1, <1>2 DEF Inv, Copied, Kept
<1> QED
  BY <1>1, <1>2, <1>3, <1>4
  DEF Inv, IsTable, TypeOK, TableMatchesModel, Called, Restorable, Uncopied,
      Finished

\* The copy takes its name.
LEMMA RenameCopyKeeps ==
    ASSUME Inv, RenameCopy
    PROVE  Inv'
<1>1. /\ pc = "rename" /\ copy' = Null /\ todo' = DOMAIN IndexFields
      /\ pc' = IF todo' = {} THEN "done" ELSE "index"
      /\ UNCHANGED <<fields, indexes, call, before, shuffled, calls>>
      /\ table' = [cols |-> Range(copy.order), notNull |-> copy.notNull,
                   row |-> copy.row]
  BY DEF RenameCopy
<1>2. Wanted' = Wanted /\ Staying' = Staying
  BY <1>1 DEF Wanted, Staying
<1>3. /\ Range(copy.order) = Columns(Wanted) /\ copy.notNull = NotNull(Wanted)
      /\ DOMAIN copy.row = Columns(Wanted) /\ indexes \subseteq DOMAIN IndexFields
      /\ Kept(copy.row) /\ \A c \in copy.notNull : copy.row[c] # Null
  BY <1>1 DEF Inv, Copied, TypeOK
<1>4. /\ table'.cols = Columns(Wanted) /\ table'.notNull = NotNull(Wanted)
      /\ table'.row = copy.row /\ IsTable(table')
  BY <1>1, <1>3 DEF IsTable
<1>5. NotNull(Wanted) \subseteq Columns(Wanted)
  BY DEF NotNull, Columns
<1>6. /\ pc' \in {"index", "done"}
      /\ pc' = "done" => DOMAIN IndexFields = {}
  BY <1>1
<1>7. Finished'
  <2>1. pc' = "done" => indexes' = DOMAIN IndexFields
    BY <1>1, <1>3, <1>6
  <2>2. Kept(table.row)'
    BY <1>1, <1>2, <1>3, <1>4 DEF Kept
  <2> QED
    BY <1>1, <1>2, <1>3, <1>4, <2>1, <2>2 DEF Finished
<1> QED
  BY <1>1, <1>2, <1>3, <1>4, <1>5, <1>6, <1>7
  DEF Inv, TypeOK, TableMatchesModel, Called, Restorable, Uncopied, Copied

\* The indexes are made again one by one.
LEMMA AddIndexKeeps ==
    ASSUME Inv, NEW i \in DOMAIN IndexFields, AddIndex(i)
    PROVE  Inv'
<1>1. /\ pc = "index" /\ i \in todo /\ pc' \in {"index", "done"}
      /\ indexes' = indexes \cup {i} /\ todo' = todo \ {i}
      /\ pc' = "done" => todo' = {}
      /\ UNCHANGED <<fields, table, copy, call, before, shuffled, calls>>
  BY DEF AddIndex
<1>2. Wanted' = Wanted /\ Staying' = Staying
  BY <1>1 DEF Wanted, Staying
<1>3. Finished'
  BY <1>1, <1>2 DEF Inv, Finished, Kept
<1> QED
  BY <1>1, <1>2, <1>3
  DEF Inv, IsTable, TypeOK, TableMatchesModel, Called, Restorable, Uncopied,
      Copied

\* The call returns and the model is the one it wanted.
LEMMA ReturnKeeps ==
    ASSUME Inv, Return
    PROVE  Inv'
<1>1. /\ pc = "done" /\ pc' = "idle" /\ fields' = Wanted
      /\ UNCHANGED <<table, copy, indexes, call, todo, before, shuffled, calls>>
  BY DEF Return
<1>2. Called'
  BY <1>1 DEF Inv, Called, Wanted
<1> QED
  BY <1>1, <1>2
  DEF Inv, IsTable, TypeOK, TableMatchesModel, Called, Restorable, Uncopied,
      Copied, Finished

\* The transaction is rolled back.
LEMMA FailKeeps ==
    ASSUME Inv, Fail
    PROVE  Inv'
<1>1. /\ pc \notin {"idle", "done", "panic"} /\ pc' = "idle"
      /\ table' = before.table /\ indexes' = before.indexes /\ copy' = Null
      /\ UNCHANGED <<fields, call, before, shuffled, calls>>
  BY DEF Fail
<1>2. NotNull(fields) \subseteq Columns(fields)
  BY DEF NotNull, Columns
<1> QED
  BY <1>1, <1>2
  DEF Inv, IsTable, TypeOK, TableMatchesModel, Called, Restorable, Uncopied,
      Copied, Finished

\* The invariant of every sequence of calls, wherever each of them fails.
LEMMA Invariant ==
    ASSUME OwnNames
    PROVE  Spec => []Inv
<1>1. Inv /\ [Next]_vars => Inv'
  <2> SUFFICES ASSUME Inv, [Next]_vars
               PROVE  Inv'
    OBVIOUS
  <2>1. ASSUME NEW F \in SUBSET Fields, AddColumns(F)
        PROVE  Inv'
    BY <2>1, BeginKeeps DEF AddColumns
  <2>2. ASSUME NEW F \in DropSets, DropColumns(F)
        PROVE  Inv'
    <3>1. F \in SUBSET Fields
      BY <2>2 DEF DropColumns, Inv, Called
    <3> QED
      BY <2>2, <3>1, BeginKeeps DEF DropColumns
  <2>3. CASE UNCHANGED vars
    <3>1. /\ Wanted' = Wanted /\ ModelFields' = ModelFields
          /\ Staying' = Staying
      BY <2>3 DEF vars, Wanted, ModelFields, Staying
    <3> QED
      BY <2>3, <3>1
      DEF vars, Inv, IsTable, TypeOK, TableMatchesModel, Called, Restorable,
          Uncopied, SameRow, Copied, Kept, Finished
  <2> QED
    BY <2>1, <2>2, <2>3, AlterTableKeeps, FillDefaultsKeeps, CreateCopyKeeps,
       InsertCopyKeeps, DropOldKeeps, RenameCopyKeeps, AddIndexKeeps,
       ReturnKeeps, FailKeeps DEF Next
<1> QED
  BY <1>1, Starts, PTL DEF Spec

------------------------------------------------------------------------------
(* What the calls promise *)

\* Between two calls, whether they returned or failed at any statement, the
\* table has the columns, the NOT NULL constraints and the indexes of its
\* model and nothing is left of the copy.
THEOREM TableIsTheModels ==
    ASSUME OwnNames
    PROVE  Spec => []TableInv
<1>1. Inv => TableInv
  BY DEF Inv, TableInv
<1> QED
  BY <1>1, Invariant, PTL

\* When a call is done, the columns that stay have the values they had if the
\* two walks of the columns came in one order, and if not, the values that are
\* gone were put in a column of another type, which altered them.
THEOREM OnlyWalksAlter ==
    ASSUME OwnNames
    PROVE  Spec => []ValuesKept
<1>1. Inv => ValuesKept
  <2> SUFFICES ASSUME Inv, pc = "done"
               PROVE  ValuesKept
    BY DEF ValuesKept
  <2>1. /\ Staying = before.table.cols \cap table.cols
        /\ table.cols = Columns(Wanted) /\ Kept(table.row)
    BY DEF Inv, Finished, Staying
  <2> QED
    BY <2>1 DEF ValuesKept, DataKept, Kept
<1> QED
  BY <1>1, Invariant, PTL
=============================================================================
