--------------------------- MODULE QueryConditions ---------------------------
(***************************************************************************)
(* The conditions of a QuerySet: Filter and Exclude chain conditioners, and *)
(* the engine turns the chain into a predicate with placeholders and the   *)
(* list of their values.  Load, Count, Exists, Update and Delete all select *)
(* their rows with it.                                                      *)
(*                                                                          *)
(* A predicate is recorded by what the database reads in its text: every    *)
(* operand the code nests is in parentheses, so that what is read in the    *)
(* whole follows from what is read in its parts.                            *)
(***************************************************************************)
EXTENDS Integers, Sequences, FiniteSets

CONSTANTS
    Columns,        \* the fields of the model
    Vals,           \* the values they take, integers
    Null,           \* NULL, or nil in a condition
    Operators,      \* the operators of the engine, among "=" and ">"
    Filters,        \* the conditioners given to Filter ...
    Excludes,       \* ... and to Exclude
    Conditions,     \* the simple conditions they are made of
    Conditioners,   \* bound: the conditioners a QuerySet may have
    Depth           \* how many times conditioners were joined to make one

Values == Vals \cup {Null}

\* The rows a table may have.
Rows == [Columns -> Values]

------------------------------------------------------------------------------
(* Conditioners *)

\* Q: its conditions, in the order the map is walked.
Q(conds) == [kind |-> "q", conds |-> conds]
Cond(name, op, value) == [name |-> name, op |-> op, value |-> value]

Chain(root, next, or, not) ==
    [kind |-> "chain", root |-> root, next |-> next, or |-> or, not |-> not]
And(c, d) == Chain(c, d, FALSE, FALSE)
AndNot(c, d) == Chain(c, d, FALSE, TRUE)
Or(c, d) == Chain(c, d, TRUE, FALSE)
OrNot(c, d) == Chain(c, d, TRUE, TRUE)

ASSUME QueryAssumption ==
    /\ Vals \subseteq Int /\ Null \notin Vals
    /\ Operators \subseteq {"=", ">"}
    /\ \A q \in Conditions : q.value \in Values
    /\ Filters \cup Excludes \subseteq Conditioners
    /\ Null \notin Conditioners

\* A conditioner is a Q or joins two that were made before it.
ASSUME ConditionersAssumption ==
    /\ Depth \in [Conditioners -> Nat]
    /\ \A c \in Conditioners :
        \/ c.kind = "q" /\ c = Q(c.conds) /\ c.conds \in Seq(Conditions)
        \/ /\ c.kind = "chain" /\ c = Chain(c.root, c.next, c.or, c.not)
           /\ {c.or, c.not} \subseteq BOOLEAN
           /\ {c.root, c.next} \subseteq Conditioners
           /\ Depth[c.root] < Depth[c] /\ Depth[c.next] < Depth[c]

------------------------------------------------------------------------------
(* SQL's logic of three values *)

Truths == {"true", "false", "unknown"}
Not3(x) == CASE x = "true" -> "false" [] x = "false" -> "true"
             [] OTHER -> "unknown"
NotIf(not, x) == IF not THEN Not3(x) ELSE x
All3(truths) == IF "false" \in truths THEN "false"
                ELSE IF "unknown" \in truths THEN "unknown" ELSE "true"
And3(x, y) == All3({x, y})
Or3(x, y) == Not3(And3(Not3(x), Not3(y)))
Join3(or, x, y) == IF or THEN Or3(x, y) ELSE And3(x, y)
Truth(b) == IF b THEN "true" ELSE "false"
Holds(x, op, y) ==
    IF Null \in {x, y} THEN "unknown"
    ELSE Truth(IF op = "=" THEN x = y ELSE x > y)

------------------------------------------------------------------------------
(* The predicate *)

\* The members of a finite set of numbers, in order.
InOrder(J) ==
    [i \in 1 .. Cardinality(J) |->
        CHOOSE j \in J : Cardinality({l \in J : l < j}) = i - 1]

\* A text: whether it is empty, whether the database can read it, the indexes
\* of its placeholders in their order, and what it says of a row once the
\* values of the statement are given.
Text(readable, holes, says) ==
    [empty |-> FALSE, readable |-> readable, holes |-> holes, says |-> says]
None == [empty |-> TRUE, readable |-> FALSE, holes |-> <<>>,
         says |-> [args \in Seq(Values) |-> [row \in Rows |-> "unknown"]]]

Compare(name, op, index) ==
    Text(TRUE, <<index>>,
         [args \in Seq(Values) |->
            [row \in Rows |-> Holds(row[name], op, args[index])]])

IsNull(name) ==
    Text(TRUE, <<>>, [args \in Seq(Values) |->
                        [row \in Rows |-> Truth(row[name] = Null)]])

\* Simple conditions, each with one placeholder or none.
Conj(list) ==
    LET at == InOrder({k \in DOMAIN list : list[k].holes # <<>>})
    IN  IF list = <<>> THEN None
        ELSE Text(TRUE, [i \in DOMAIN at |-> list[at[i]].holes[1]],
                  [args \in Seq(Values) |-> [row \in Rows |->
                    All3({list[k].says[args][row] : k \in DOMAIN list})]])

Not(stmt) ==
    Text(stmt.readable, stmt.holes,
         [args \in Seq(Values) |->
            [row \in Rows |-> Not3(stmt.says[args][row])]])

Join(left, or, not, right) ==
    LET last == IF not THEN Not(right) ELSE right
    IN  Text(left.readable /\ last.readable, left.holes \o last.holes,
             [args \in Seq(Values) |-> [row \in Rows |->
                Join3(or, left.says[args][row], last.says[args][row])]])

Refused == [ok |-> FALSE, stmt |-> None, args |-> <<>>]

Mistake(q) == q.op \notin Operators \/ q.name \notin Columns
Unary(q) == q.op = "=" /\ q.value = Null

\* The conditions of a Q, the next placeholder being the one with index p.
Simple(conds, p) ==
    LET valued == {k \in DOMAIN conds : ~Unary(conds[k])}
        at == InOrder(valued)
        index(k) == p + Cardinality({j \in valued : j < k})
    IN  IF \E k \in DOMAIN conds : Mistake(conds[k])
        THEN Refused
        ELSE [ok |-> TRUE,
              stmt |-> Conj([k \in DOMAIN conds |->
                  IF Unary(conds[k]) THEN IsNull(conds[k].name)
                  ELSE Compare(conds[k].name, conds[k].op, index(k))]),
              args |-> [i \in DOMAIN at |-> conds[at[i]].value]]

\* Mutants of Joined: the negation is lost; an error of the second operand is
\* never looked at.
JoinedNoNot(c, first, next) ==
    [ok |-> first.ok /\ (next.ok \/ first.stmt.empty),
     stmt |-> IF first.stmt.empty THEN next.stmt
              ELSE Join(first.stmt, c.or, FALSE, next.stmt),
     args |-> first.args \o next.args]

JoinedErrorLost(c, first, next) ==
    [ok |-> first.ok,
     stmt |-> IF ~next.ok THEN first.stmt
              ELSE IF first.stmt.empty
              THEN (IF c.not THEN Not(next.stmt) ELSE next.stmt)
              ELSE Join(first.stmt, c.or, c.not, next.stmt),
     args |-> first.args \o next.args]

\* An empty first operand gives way to the second, whose error is not looked
\* at; otherwise both are joined.
Joined(c, first, next) ==
    IF ~first.ok THEN Refused
    ELSE IF first.stmt.empty
    THEN [ok |-> TRUE,
          stmt |-> IF c.not THEN Not(next.stmt) ELSE next.stmt,
          args |-> first.args \o next.args]
    ELSE IF ~next.ok THEN Refused
    ELSE [ok |-> TRUE,
          stmt |-> Join(first.stmt, c.or, c.not, next.stmt),
          args |-> first.args \o next.args]

\* Where the placeholders of the second operand start; mutant: from the
\* placeholders of the whole statement again.
ContinueSame(p, first) == p
Continue(p, first) == p + Len(first.args)

Predicate[c \in Conditioners] ==
    [p \in Nat |->
        IF c.kind = "q" THEN Simple(c.conds, p)
        ELSE LET first == Predicate[c.root][p]
             IN  Joined(c, first, Predicate[c.next][Continue(p, first)])]

------------------------------------------------------------------------------
(* A QuerySet, before a call that reads or writes rows *)

VARIABLES
    cond,           \* qs.cond, a conditioner or Null
    meant,          \* the rows its calls to Filter and Exclude ask for
    wrong           \* whether one of them names what the model does not have

condVars == <<cond, meant, wrong>>

\* What a condition, and a conditioner, say of a row, after the comments of
\* Conditioner.
Says(q, row) ==
    IF Unary(q) THEN Truth(row[q.name] = Null)
    ELSE Holds(row[q.name], q.op, q.value)

Meaning[c \in Conditioners] ==
    [row \in Rows |->
        IF c.kind = "q"
        THEN All3({Says(c.conds[k], row) : k \in DOMAIN c.conds})
        ELSE Join3(c.or, Meaning[c.root][row],
                   NotIf(c.not, Meaning[c.next][row]))]

Mistaken[c \in Conditioners] ==
    IF c.kind = "q" THEN \E k \in DOMAIN c.conds : Mistake(c.conds[k])
    ELSE Mistaken[c.root] \/ Mistaken[c.next]

CondTypeOK ==
    /\ cond \in Conditioners \cup {Null}
    /\ meant \subseteq Rows
    /\ wrong \in BOOLEAN

CondInit ==
    /\ cond = Null
    /\ meant = Rows
    /\ wrong = FALSE

Asked(c, keep(_)) ==
    /\ wrong' = (wrong \/ Mistaken[c])
    /\ meant' = IF wrong' THEN {} ELSE {row \in meant : keep(Meaning[c][row])}

addConditioner(c) == IF cond = Null THEN c ELSE And(cond, c)

Filter(c) ==
    /\ cond' = addConditioner(c)
    /\ cond' \in Conditioners
    /\ Asked(c, LAMBDA x : x = "true")

\* The rows that match are left out.
Exclude(c) ==
    /\ cond' = AndNot(IF cond = Null THEN Q(<<>>) ELSE cond, c)
    /\ cond' \in Conditioners
    /\ Asked(c, LAMBDA x : x # "true")

\* The predicate of a QuerySet in a statement that already has the values
\* assigned, whether the database can run it, and the rows of a set that it
\* selects: all, without conditions.
Statement(c, assigned) == Predicate[c][Len(assigned) + 1]
Runs(c) ==
    c # Null => LET s == Statement(c, <<>>) IN s.ok /\ s.stmt.readable
Selected(c, assigned, from) ==
    IF c = Null THEN from
    ELSE LET s == Statement(c, assigned)
         IN  {row \in from : s.stmt.says[assigned \o s.args][row] = "true"}

------------------------------------------------------------------------------
(* What the theorems suppose of the conditioners *)

\* No caller gives an empty Q, alone or as a part of what is given: the one that
\* Exclude starts from is the only one.  The predicate of an empty Q is empty,
\* and an empty first operand hides an error of the second.
NoEmptyQ ==
    /\ Q(<<>>) \notin Filters \cup Excludes
    /\ \A c \in Conditioners :
        c.kind # "q" => /\ c.next # Q(<<>>)
                        /\ c.root = Q(<<>>) => c.not /\ ~c.or

\* nil is only compared with "=", as the documentation does, unless the engine
\* has no such operator.
NilTested ==
    \A q \in Conditions : q.value = Null => q.op = "=" \/ Mistake(q)

------------------------------------------------------------------------------
(* Properties *)

\* A name the model does not have always ends in an error, of the engine or of
\* the database: it never disappears from the conditions of a statement that
\* runs (predicate, which looks at the error of an operand in two places).
MistakesSurface == wrong => ~Runs(cond)

\* The predicate of a chain without mistakes is one the database can read
\* (predicate, however the conditioners were nested).
Readable == ~wrong => Runs(cond)

\* The k-th placeholder of the text is the k-th value of the list, after those
\* that UpdateRows assigns: numbered ($k) and anonymous (?) placeholders stand
\* for the same values.
PlaceholdersMatch ==
    cond # Null =>
        \A assigned \in {<<>>, <<0>>, <<0, 0>>} :
            LET s == Statement(cond, assigned)
            IN  s.ok => s.stmt.holes =
                            [k \in DOMAIN s.args |-> Len(assigned) + k]

\* The rows selected are the rows meant; NULLs can only leave rows out (Filter,
\* Exclude).
SelectsMeant ==
    ~wrong =>
        LET selected == Selected(cond, <<>>, Rows)
        IN  /\ selected \subseteq meant
            /\ \A row \in meant \ selected : \E col \in Columns : row[col] = Null
=============================================================================
