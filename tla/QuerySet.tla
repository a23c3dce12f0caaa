------------------------------- MODULE QuerySet -------------------------------
(***************************************************************************)
(* A QuerySet over the rows of a table: the conditions of QueryConditions,  *)
(* and one call that uses them.  Load, Slice and Get run a query and loop   *)
(* over its cursor, which may break at any row; each row is scanned into    *)
(* the recipients of a container.  Update and Delete run one statement.     *)
(***************************************************************************)
EXTENDS QueryConditions

CONSTANTS
    Table,          \* the rows of the table, in the order a query gives them
    Indexes,        \* bound: the indexes given to Slice
    Updates         \* the values given to Update: a map, in the order it is
                    \* walked, of <<name, value>>

ASSUME TableAssumption ==
    /\ Table \in Seq(Rows)
    /\ Indexes \subseteq Int
    /\ \A u \in Updates :
        /\ u \in Seq(Columns \X Values)
        /\ \A k, l \in DOMAIN u : u[k][1] = u[l][1] => k = l

VARIABLES
    table,          \* the rows there are: a function from their numbers
    kind,           \* the container: "struct" or "builder"
    call,           \* the call and its slice
    rows,           \* the rows the cursor has still to give
    broken,         \* whether the connection broke during the loop
    heap,           \* heap[c]: the row the fields of container c hold
    result,         \* the containers of the instances so far
    outcome         \* "loop", or what was returned

loopVars == <<rows, broken, heap, result>>
vars == <<condVars, table, kind, call, loopVars, outcome>>

\* The types; what is returned are containers that were made, each with a row
\* of the table or still empty (load, Get).
TypeOK ==
    /\ CondTypeOK
    /\ \A i \in DOMAIN table : i \in DOMAIN Table /\ table[i] \in Rows
    /\ \A i \in DOMAIN rows : rows[i] \in DOMAIN table
    /\ \A i \in DOMAIN result : result[i] \in DOMAIN heap
    /\ \A c \in DOMAIN heap : heap[c] \in 0 .. Len(Table)
    /\ outcome \in {"start", "loop", "ok", "found", "missing", "multiple",
                    "error", "refused", "panic"}

Init ==
    /\ CondInit
    /\ table = Table
    /\ kind \in {"struct", "builder"}
    /\ call = [op |-> "none", from |-> 0, to |-> -1]
    /\ rows = <<>>
    /\ broken = FALSE
    /\ heap = <<>>
    /\ result = <<>>
    /\ outcome = "start"

Narrow ==
    /\ outcome = "start"
    /\ \/ \E c \in Filters : Filter(c)
       \/ \E c \in Excludes : Exclude(c)
    /\ UNCHANGED <<table, kind, call, loopVars, outcome>>

------------------------------------------------------------------------------
(* Load, Slice and Get *)

RangeRefused(from, to) == from < 0 \/ (to # -1 /\ from >= to) \/ to < -1

\* The numbers of the rows a statement is for, in their order.
Matching(c, assigned) ==
    LET selected == Selected(c, assigned, {table[i] : i \in DOMAIN table})
    IN  InOrder({i \in DOMAIN table : table[i] \in selected})

\* GetRows: LIMIT and OFFSET.
GetRows(all, from, to) ==
    LET limit == IF to > 0 THEN to - from ELSE Len(all)
        offset == IF from > 0 THEN from ELSE 0
    IN  SubSeq(all, offset + 1, IF offset + limit < Len(all)
                                THEN offset + limit ELSE Len(all))

\* The query and the container made before the loop; "pk" is no name of a
\* field: a struct has no field for it, a builder no Field to ask.
Query(op, c, from, to) ==
    /\ call' = [op |-> op, from |-> from, to |-> to]
    /\ UNCHANGED <<table, kind, broken, result>>
    /\ \/ /\ Runs(c)
          /\ heap' = <<0>>
          /\ rows' = GetRows(Matching(c, <<>>), from, to)
          /\ outcome' = "loop"
       \/ /\ outcome' = "error"
          /\ UNCHANGED <<rows, heap>>
       \/ /\ kind = "builder"               \* Only("pk")
          /\ outcome' = "panic"
          /\ UNCHANGED <<rows, heap>>

\* Load is Slice(0, -1).
Slice(from, to) ==
    /\ outcome = "start"
    /\ UNCHANGED condVars
    /\ \/ ~RangeRefused(from, to) /\ Query("slice", cond, from, to)
       \/ /\ RangeRefused(from, to)
          /\ outcome' = "refused"
          /\ UNCHANGED <<table, kind, call, loopVars>>

Get(c) ==
    /\ outcome = "start"
    /\ Filter(c)
    /\ Query("get", addConditioner(c), 0, 2)

\* A new container for the row, and its recipients.
LoadRow ==
    /\ outcome = "loop" /\ call.op = "slice" /\ ~broken /\ rows # <<>>
    /\ heap' = Append(heap, Head(rows))
    /\ result' = Append(result, Len(heap'))
    /\ rows' = Tail(rows)
    /\ UNCHANGED <<condVars, table, kind, call, broken, outcome>>

\* Mutant: the loop of Get ends with the first row.
GetFirstRow ==
    /\ outcome = "loop" /\ call.op = "get" /\ ~broken /\ rows # <<>>
    /\ heap' = <<Head(rows)>>
    /\ result' = <<1>>
    /\ rows' = <<>>
    /\ UNCHANGED <<condVars, table, kind, call, broken, outcome>>

\* The one container of Get takes the first row; a second one is an error.
GetRow ==
    /\ outcome = "loop" /\ call.op = "get" /\ ~broken /\ rows # <<>>
    /\ \/ /\ result = <<>>
          /\ heap' = <<Head(rows)>>
          /\ result' = <<1>>
          /\ UNCHANGED outcome
       \/ /\ result # <<>>
          /\ outcome' = "multiple"
          /\ UNCHANGED <<heap, result>>
    /\ rows' = Tail(rows)
    /\ UNCHANGED <<condVars, table, kind, call, broken>>

ScanFails ==
    /\ outcome = "loop" /\ ~broken /\ rows # <<>>
    /\ call.op = "get" => result = <<>>
    /\ outcome' = "error"
    /\ UNCHANGED <<condVars, table, kind, call, loopVars>>

Break ==
    /\ outcome = "loop" /\ ~broken
    /\ broken' = TRUE
    /\ UNCHANGED <<condVars, table, kind, call, rows, heap, result, outcome>>

\* Mutant: the error of the loop is not looked at.
DoneNoErr ==
    /\ outcome = "loop" /\ (broken \/ rows = <<>>)
    /\ outcome' = IF call.op = "slice" THEN "ok"
                  ELSE IF result = <<>> THEN "missing" ELSE "found"
    /\ UNCHANGED <<condVars, table, kind, call, loopVars>>

\* rows.Next returns false: Load looks at rows.Err, Get does not.
Done ==
    /\ outcome = "loop" /\ (broken \/ rows = <<>>)
    /\ outcome' = IF call.op = "slice" THEN (IF broken THEN "error" ELSE "ok")
                  ELSE IF result = <<>> THEN "missing" ELSE "found"
    /\ UNCHANGED <<condVars, table, kind, call, loopVars>>

------------------------------------------------------------------------------
(* Update and Delete *)

Written(op, new) ==
    /\ outcome = "start"
    /\ call' = [op |-> op, from |-> 0, to |-> -1]
    /\ \/ /\ Runs(cond)
          /\ table' = new
          /\ outcome' = "ok"
       \/ /\ outcome' = "error"
          /\ UNCHANGED table
    /\ UNCHANGED <<condVars, kind, loopVars>>

\* What UpdateRows puts in front of the predicate, and the row it leaves.
Assigned(values) == [k \in DOMAIN values |-> values[k][2]]
Set(row, values) ==
    [col \in Columns |->
        IF \E k \in DOMAIN values : values[k][1] = col
        THEN values[CHOOSE k \in DOMAIN values : values[k][1] = col][2]
        ELSE row[col]]

\* Mutant: the placeholders of the predicate start again.
UpdateFromOne(values) ==
    LET s == IF cond = Null THEN Refused ELSE Statement(cond, <<>>)
        hit(row) == cond = Null \/
            s.stmt.says[Assigned(values) \o s.args][row] = "true"
    IN  Written("update", [i \in DOMAIN table |->
            IF hit(table[i]) THEN Set(table[i], values) ELSE table[i]])

\* The values to set are the first of the statement.
Update(values) ==
    LET all == Matching(cond, Assigned(values))
        hit == {all[i] : i \in DOMAIN all}
    IN  Written("update", [i \in DOMAIN table |->
            IF i \in hit THEN Set(table[i], values) ELSE table[i]])

Delete ==
    LET all == Matching(cond, <<>>)
        hit == {all[i] : i \in DOMAIN all}
    IN  Written("delete", [i \in DOMAIN table \ hit |-> table[i]])

Next ==
    \/ Narrow
    \/ \E from, to \in Indexes : Slice(from, to)
    \/ \E c \in Filters : Get(c)
    \/ LoadRow
    \/ GetRow
    \/ ScanFails
    \/ Break
    \/ Done
    \/ \E values \in Updates : Update(values)
    \/ Delete

Spec == Init /\ [][Next]_vars

------------------------------------------------------------------------------
(* Properties *)

Read == [i \in DOMAIN result |-> heap[result[i]]]

\* The types, and statements that the database can read and fill in.
StatementInv == TypeOK /\ Readable /\ PlaceholdersMatch

\* A list that Load or Slice returns holds each row of the slice once, in
\* order, in an instance of its own; a connection that breaks never shortens
\* it (load, GetRows).
LoadIsSlice ==
    call.op = "slice" /\ outcome = "ok" =>
        LET all == Matching(cond, <<>>)
            last == IF call.to = -1 \/ call.to > Len(all) THEN Len(all)
                    ELSE call.to
        IN  Read = SubSeq(all, call.from + 1, last)

\* On a connection that holds, what Get returns is what its comment says of
\* the rows that match; a row it returns always is one of them (Get).
GetIsExact ==
    LET all == Matching(cond, <<>>)
    IN  /\ outcome = "found" =>
               all # <<>> /\ Read = <<all[1]>> /\ (broken \/ Len(all) = 1)
        /\ outcome = "missing" => broken \/ all = <<>>
        /\ outcome = "multiple" => Len(all) > 1

\* Update and Delete never touch a row that the conditions leave out, nor any
\* row when one of the conditions is a mistake (UpdateRows, DeleteRows).
OthersStay ==
    \A i \in DOMAIN Table :
        Table[i] \notin meant => i \in DOMAIN table /\ table[i] = Table[i]
=============================================================================
