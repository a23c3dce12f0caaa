---------------------------- MODULE InstanceSave -----------------------------
(***************************************************************************)
(* Objects kept as instances: Manager.Create, Dispatcher.New, Instance.Set, *)
(* Save and Delete, and the rows they leave in the table.  Save is an       *)
(* UPDATE followed, when no row matches, by an INSERT, two statements       *)
(* between which other instances of the same model may do theirs.           *)
(***************************************************************************)
EXTENDS Integers, FiniteSets, FiniteSetsExt, Functions

CONSTANTS
    Holders,        \* the goroutines, each with one instance at a time
    Vals,           \* the values of the other field, moments when it is a time
    Setups          \* the models, databases and programs, each with
                    \*   pk       the primary key: "auto", "integer" or "char"
                    \*   driver   "sqlite3" or "postgres"
                    \*   field    the other field: "plain", "null" with Null,
                    \*            "default" with a Default, "created" with
                    \*            AutoNowAdd, "updated" with AutoNow and Null
                    \*   default  that Default
                    \*   makes    makes[h]: how h gets its instances
                    \*   deleters the holders that delete
                    \*   max      bound: the largest primary key

ASSUME InstanceAssumption ==
    \A s \in Setups :
        /\ s.pk \in {"auto", "integer", "char"}
        /\ s.driver \in {"sqlite3", "postgres"}
        /\ s.field \in {"plain", "null", "default", "created", "updated"}
        /\ s.default \in Vals
        /\ s.makes \in [Holders -> SUBSET {"create", "new", "get"}]
        /\ s.deleters \subseteq Holders
        /\ s.max \in Nat

Zero == 0                               \* the zero value of the primary key
Nil == -1                               \* no value in the container
Null == -2                              \* NULL, or a value that stands for it
Empty == [pk |-> Nil, val |-> Nil]

VARIABLES
    setup,          \* the one of Setups this is
    rows,           \* the table: rows[pk] is the value of the other column
    lastPk,         \* the sequence of the table (postgres)
    held,           \* held[h]: "none", "own", or "model" for the container of
                    \* the model, which New hands out
    own,            \* own[h]: the container made for the instance of h
    meta,           \* model.meta.Container
    given,          \* given[h]: what the instance of h was last given, by h or
                    \* by its field
    pc,             \* "idle", "update" or "insert"
    save,           \* save[h]: the primary key and the fields of the Save
    answer          \* who made the latest call, and what it returned

vars == <<setup, rows, lastPk, held, own, meta, given, pc, save, answer>>

Pks == 1 .. setup.max
AutoPk == setup.pk = "auto"

\* What a program may put in an instance as its key: a key of its choice, also
\* where the database is there to choose, or the zero one if it is to choose.
Keys == Pks \cup IF AutoPk THEN {Zero} ELSE {}

Content(h) == IF held[h] = "model" THEN meta ELSE own[h]

\* The types; an instance has a key, unless a Create that failed made it and
\* the database was to choose (Create, New, Save).
TypeOK ==
    /\ DOMAIN rows \subseteq Pks
    /\ \A p \in DOMAIN rows : rows[p] \in Vals \cup {Null}
    /\ lastPk \in 0 .. setup.max
    /\ held \in [Holders -> {"none", "own", "model"}]
    /\ \A h \in Holders :
        Content(h).pk \in
            CASE held[h] = "none" -> {Nil}
              [] held[h] = "own" -> Keys \cup IF AutoPk THEN {Nil} ELSE {}
              [] held[h] = "model" -> Keys
    /\ given \in [Holders -> Vals \cup {Nil, Null}]
    /\ pc \in [Holders -> {"idle", "update", "insert"}]
    /\ answer \in [who : Holders, result : {"none", "ok", "saved", "error"}]

Init ==
    /\ setup \in Setups
    /\ rows = <<>>
    /\ lastPk = 0
    /\ held = [h \in Holders |-> "none"]
    /\ own = [h \in Holders |-> Empty]
    /\ meta = Empty
    /\ given = [h \in Holders |-> Nil]
    /\ pc = [h \in Holders |-> "idle"]
    /\ save = [h \in Holders |-> [pk |-> Nil, fields |-> "all"]]
    /\ answer \in [who : Holders, result : {"none"}]

\* The instance of h holds c from now on.
Put(h, where, c) ==
    /\ held' = [held EXCEPT ![h] = where]
    /\ IF where = "model"
       THEN meta' = c /\ UNCHANGED own
       ELSE own' = [own EXCEPT ![h] = c] /\ UNCHANGED meta
Return(h, result) == answer' = [who |-> h, result |-> result]

\* The column is NOT NULL, or the field takes nil: a field of a time does, its
\* recipient being a NullTime, whatever its column says.
MayBeNull == setup.field \in {"null", "updated"}
TakesNil == MayBeNull \/ setup.field = "created"

\* DefaultValue, where it has one.
Otherwise(v) == IF v = Nil /\ setup.field = "default" THEN setup.default ELSE v

\* The values of the other field that a Save may send, as it finds v in the
\* container: the moment, for the times the field sets; or v; or, when the row
\* is created, the default.  The instance gets what is sent.
ToSaveAlways(v, creating) ==
    IF setup.field \in {"updated", "created"} THEN Vals ELSE {Otherwise(v)}

ToSave(v, creating) ==
    IF setup.field = "updated" \/ (setup.field = "created" /\ creating)
    THEN Vals
    ELSE {IF creating THEN Otherwise(v) ELSE v}

\* The key the database gives to a row inserted without one: that of a
\* sequence, or one more than the largest there is (a rowid).
NextPk ==
    IF setup.driver = "postgres" THEN lastPk + 1
    ELSE 1 + Max({0} \cup DOMAIN rows)

\* INSERT of a row with the primary key p, or without one.  The key column is
\* NOT NULL unless it is auto; an integer key of SQLite is a rowid, filled in
\* whenever it is missing.  Values that are nil are left out of the statement.
Inserts(p, v, pk) ==
    /\ \/ p # Nil /\ pk = p /\ UNCHANGED lastPk
       \/ /\ p = Nil
          /\ AutoPk \/ (setup.pk = "integer" /\ setup.driver = "sqlite3")
          /\ pk = NextPk
          /\ lastPk' = IF setup.driver = "postgres" THEN pk ELSE lastPk
    /\ pk \in Pks \ DOMAIN rows
    /\ v \in Vals \/ MayBeNull
    /\ rows' = [k \in {pk} \cup DOMAIN rows |->
                    IF k # pk THEN rows[k] ELSE IF v \in Vals THEN v ELSE Null]

\* InsertRow of postgres reads the key of the new row into an int64.
KeyIsRead == setup.driver = "sqlite3" \/ setup.pk # "char"

\* A statement that returns an error was refused, or was done and its answer
\* lost: the connection broke, LastInsertId failed, the key was not a number.
MayInsert(p, v) ==
    (\E pk \in Pks : Inserts(p, v, pk)) \/ UNCHANGED <<rows, lastPk>>

Idle(h) == pc[h] = "idle"
Has(h) == Idle(h) /\ held[h] # "none"

------------------------------------------------------------------------------
(* Making instances *)

\* Mutant of Create: the instance is made on the container of the model.
CreateShared(h, v) ==
    /\ Idle(h)
    /\ "create" \in setup.makes[h]
    /\ \E p \in IF AutoPk THEN {Nil} ELSE Pks, pk \in Pks :
            Inserts(p, v, pk) /\ Put(h, "model", [pk |-> pk, val |-> v])
    /\ given' = [given EXCEPT ![h] = v]
    /\ Return(h, "ok")
    /\ UNCHANGED <<setup, pc, save>>

\* x is Nil when no value is given.  AutoNowAdd counts here, AutoNow does not.
\* The instance is returned with the error of the INSERT, as it is by then.
Create(h, x) ==
    /\ Idle(h)
    /\ "create" \in setup.makes[h]
    /\ \E p \in IF AutoPk THEN {Nil} ELSE Pks,
          v \in IF setup.field = "created" THEN Vals ELSE {Otherwise(x)} :
        /\ given' = [given EXCEPT ![h] = v]
        /\ \/ \E pk \in Pks :
                /\ KeyIsRead
                /\ Inserts(p, v, pk)
                /\ Put(h, "own", [pk |-> pk, val |-> v])
                /\ Return(h, "ok")
           \/ /\ MayInsert(p, v)
              /\ Put(h, "own", [pk |-> p, val |-> v])
              /\ Return(h, "error")
    /\ UNCHANGED <<setup, pc, save>>

\* Objects.Get(Q{"pk": p}), or Only("pk") and Get: a container of its own, in
\* the second case with nothing but the key.
Get(h, p, v) ==
    /\ Idle(h)
    /\ "get" \in setup.makes[h]
    /\ p \in DOMAIN rows
    /\ v \in {rows[p], Nil}
    /\ Put(h, "own", [pk |-> p, val |-> v])
    /\ given' = [given EXCEPT ![h] = v]
    /\ Return(h, "ok")
    /\ UNCHANGED <<setup, rows, lastPk, pc, save>>

\* Dispatcher.New: every field is set on the container of the model, to nil
\* when there is no value, so a key has to be given, an auto one too.
NewValue(x) ==
    IF Otherwise(x) # Nil THEN Otherwise(x) ELSE IF TakesNil THEN Null ELSE Nil

New(h, x) ==
    /\ Idle(h)
    /\ "new" \in setup.makes[h]
    /\ NewValue(x) # Nil
    /\ \E p \in Keys :
        Put(h, "model", [pk |-> p, val |-> NewValue(x)])
    /\ given' = [given EXCEPT ![h] = NewValue(x)]
    /\ Return(h, "ok")
    /\ UNCHANGED <<setup, rows, lastPk, pc, save>>

\* A field refuses nil, the key if no other: there is no instance, but the
\* fields before it have been set.
NewFails(h, x) ==
    /\ Idle(h)
    /\ "new" \in setup.makes[h]
    /\ held' = [held EXCEPT ![h] = "none"]
    /\ own' = [own EXCEPT ![h] = Empty]
    /\ \/ UNCHANGED meta
       \/ NewValue(x) # Nil /\ meta' = [meta EXCEPT !.val = NewValue(x)]
       \/ /\ NewValue(x) = Nil
          /\ \E p \in Keys : meta' = [meta EXCEPT !.pk = p]
    /\ Return(h, "error")
    /\ UNCHANGED <<setup, rows, lastPk, given, pc, save>>

\* Set, nil included where the field takes it.
Set(h, v) ==
    /\ Has(h)
    /\ v # Null \/ TakesNil
    /\ Put(h, held[h], [Content(h) EXCEPT !.val = v])
    /\ given' = [given EXCEPT ![h] = v]
    /\ Return(h, "ok")
    /\ UNCHANGED <<setup, rows, lastPk, pc, save>>

\* A key is set like any other field, one that is auto too.
SetPk(h, p) ==
    /\ Has(h)
    /\ Put(h, held[h], [Content(h) EXCEPT !.pk = p])
    /\ Return(h, "ok")
    /\ UNCHANGED <<setup, rows, lastPk, given, pc, save>>

------------------------------------------------------------------------------
(* Saving and deleting *)

\* A key that the database is still to give.
Keyless(p) == p = Nil \/ (AutoPk /\ p = Zero)

\* save: which way to go.  fields is "all", or "value" for Save("value").
Save(h, fields) ==
    /\ Has(h)
    /\ save' = [save EXCEPT ![h] = [pk |-> Content(h).pk, fields |-> fields]]
    /\ pc' = [pc EXCEPT ![h] =
                IF Keyless(Content(h).pk) THEN "insert" ELSE "update"]
    /\ Return(h, "none")
    /\ UNCHANGED <<setup, rows, lastPk, held, own, meta, given>>

\* An UPDATE of the row of h that sets v, when there is one: without columns
\* to set it is no SQL, and a column that is NOT NULL refuses NULL.
Updated(h, v) ==
    [p \in DOMAIN rows |-> IF p = save[h].pk /\ v # Nil THEN v ELSE rows[p]]
Updates(h, v) ==
    /\ v # Nil \/ save[h].fields = "all"
    /\ save[h].pk \in DOMAIN rows => v # Null \/ MayBeNull

Gives(h, v) ==
    /\ Put(h, held[h], [Content(h) EXCEPT !.val = v])
    /\ given' = [given EXCEPT ![h] = v]

\* Mutants of Update: an update that matched nothing is taken for a save; the
\* update has no condition.
UpdateAlways(h) ==
    /\ pc[h] = "update"
    /\ \E v \in ToSave(Content(h).val, FALSE) :
        Updates(h, v) /\ Gives(h, v) /\ rows' = Updated(h, v)
    /\ pc' = [pc EXCEPT ![h] = "idle"]
    /\ Return(h, "saved")
    /\ UNCHANGED <<setup, lastPk, save>>

UpdateEverywhere(h) ==
    /\ pc[h] = "update"
    /\ \E v \in ToSave(Content(h).val, FALSE) :
        Updates(h, v) /\ Gives(h, v) /\ rows' = [p \in DOMAIN rows |-> v]
    /\ pc' = [pc EXCEPT ![h] = IF rows = <<>> THEN "insert" ELSE "idle"]
    /\ Return(h, IF rows = <<>> THEN "none" ELSE "saved")
    /\ UNCHANGED <<setup, lastPk, save>>

Update(h) ==
    /\ pc[h] = "update"
    /\ \E v \in ToSave(Content(h).val, FALSE) :
        Updates(h, v) /\ Gives(h, v) /\ rows' = Updated(h, v)
    /\ \/ /\ save[h].pk \in DOMAIN rows
          /\ pc' = [pc EXCEPT ![h] = "idle"]
          /\ Return(h, "saved")
       \/ /\ save[h].pk \notin DOMAIN rows
          /\ pc' = [pc EXCEPT ![h] = "insert"]
          /\ Return(h, "none")
    /\ UNCHANGED <<setup, lastPk, save>>

\* What insertRow sends as the key: an auto key has no value to save, and the
\* fields of a partial Save do not include it.
SentPk(h) ==
    IF AutoPk \/ save[h].fields = "value" THEN Nil ELSE Content(h).pk

\* The key the database gave is put in the instance only when the Save knew
\* from the start that it had none.
Insert(h) ==
    /\ pc[h] = "insert"
    /\ KeyIsRead
    /\ \E pk \in Pks, v \in ToSave(Content(h).val, TRUE) :
        /\ Inserts(SentPk(h), v, pk)
        /\ LET key == IF Keyless(save[h].pk) THEN pk ELSE Content(h).pk
           IN Put(h, held[h], [pk |-> key, val |-> v])
        /\ given' = [given EXCEPT ![h] = v]
    /\ pc' = [pc EXCEPT ![h] = "idle"]
    /\ Return(h, "saved")
    /\ UNCHANGED <<setup, save>>

\* The instance keeps its key, or has none if it had none, and what was set
\* for the statement.
SaveFails(h) ==
    /\ \E v \in ToSave(Content(h).val, pc[h] = "insert") :
        /\ Gives(h, v)
        /\ \/ /\ pc[h] = "update"
              /\ rows' = rows \/ (Updates(h, v) /\ rows' = Updated(h, v))
              /\ UNCHANGED lastPk
           \/ pc[h] = "insert" /\ MayInsert(SentPk(h), v)
    /\ pc' = [pc EXCEPT ![h] = "idle"]
    /\ Return(h, "error")
    /\ UNCHANGED <<setup, save>>

\* DeleteRows counts the rows, but delete does not look at the number.  Without
\* a key it is an error.
Delete(h) ==
    /\ Has(h)
    /\ h \in setup.deleters
    /\ \/ /\ rows' = Restrict(rows, DOMAIN rows \ {Content(h).pk})
          /\ \E result \in {"error"} \cup IF Content(h).pk = Nil THEN {} ELSE {"ok"} :
                Return(h, result)
       \/ UNCHANGED rows /\ Return(h, "error")
    /\ UNCHANGED <<setup, lastPk, held, own, meta, given, pc, save>>

Next ==
    \E h \in Holders :
        \/ \E x \in Vals \cup {Nil} : Create(h, x) \/ New(h, x) \/ NewFails(h, x)
        \/ \E v \in Vals \cup {Null} : Set(h, v)
        \/ \E p \in Keys : SetPk(h, p)
        \/ \E p \in Pks, v \in Vals \cup {Nil, Null} : Get(h, p, v)
        \/ \E fields \in {"all", "value"} : Save(h, fields)
        \/ Update(h)
        \/ Insert(h)
        \/ SaveFails(h)
        \/ Delete(h)

Spec == Init /\ [][Next]_vars

------------------------------------------------------------------------------
(* Properties *)

Saves(h) == pc[h] # "idle" /\ answer' = [who |-> h, result |-> "saved"]
Written == {p \in DOMAIN rows' : p \notin DOMAIN rows \/ rows'[p] # rows[p]}

\* An INSERT that leaves out the key its instance has: an auto one, or that of
\* an integer rowid in a partial Save.  The row gets one from the database.
Strays(h) == pc[h] = "insert" /\ SentPk(h) = Nil /\ ~Keyless(save[h].pk)

\* When Save returns nil the table has a row with the value the instance holds,
\* if any, under the primary key of the instance, or, for a Save that strays, a
\* new one: whatever the others did between the UPDATE and the INSERT, and
\* whatever a Save that failed left.  (After a Save that strays there is no row
\* matching the key of the instance, against the comment of Save,
\* instances.go:239.)
SavedIsThere ==
    [][\A h \in Holders : Saves(h) =>
            \E p \in DOMAIN rows' :
                /\ p = Content(h)'.pk \/ (Strays(h) /\ p \notin DOMAIN rows)
                /\ given'[h] \in {Nil, rows'[p]}]_vars

\* A call writes no row but the one whose primary key its instance then has;
\* one that returns an error, or a Save that strays, may have left one row that
\* was not there and whose key the database chose.
OnlyItsRow ==
    [][\E h \in Holders :
            /\ answer'.who = h
            /\ \/ Written \subseteq {Content(h)'.pk}
               \/ /\ answer'.result = "error" \/ Strays(h)
                  /\ Written \cap DOMAIN rows = {}
                  /\ Cardinality(Written) = 1]_vars

\* A Save that finds the row of its instance leaves the column as it is or puts
\* there what the instance held already: the Save itself adds no default and no
\* time of a creation, though it does not know when it begins that the row will
\* be there, and another goroutine may put it there or take it away.  (A default
\* that New, or an INSERT that failed, put in the instance before is what the
\* instance holds.)
FoundRowKeeps ==
    [][\A h \in Holders :
        LET key == Content(h).pk IN
        Saves(h) /\ key \in DOMAIN rows /\ setup.field # "updated" =>
            rows'[key] \in {rows[key], Content(h).val}]_vars

\* An instance holds what it was given.
Separate ==
    \A h \in Holders : held[h] # "none" => Content(h).val = given[h]

\* The types, and instances that are separate.
InstanceInv == TypeOK /\ Separate
=============================================================================
