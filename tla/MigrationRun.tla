----------------------------- MODULE MigrationRun -----------------------------
(***************************************************************************)
(* migration.Run: a process loads the nodes recorded as applied, picks the *)
(* node each application has to reach, and walks the graph of changes      *)
(* depth first, running every node forwards or backwards against a         *)
(* database.  The recursion of Node.Run, Node.Fake, Node.Backwards and     *)
(* Node.FakeBackwards is the stack of frames; one action is one call to    *)
(* the database engine or one step of the walk.                            *)
(*                                                                         *)
(* Every call to the engine may fail, a failed statement outside a         *)
(* transaction and a failed commit may have taken effect all the same, and *)
(* the process may die between any two calls and be started again: only    *)
(* tables, rows and schema survive.  Processes do not overlap here.        *)
(***************************************************************************)
EXTENDS Naturals, Sequences, FiniteSets

CONSTANTS
    Apps,           \* the registered applications
    Last,           \* Last[a]: the number of nodes of application a
    Deps,           \* Deps[n]: the dependencies of node n, in file order
    Ops,            \* Ops[n]: how many operations node n has
    Schemas,        \* what the schema of a database may be
    Blank,          \* ... before anything was created
    Does,           \* Does[c]: what the change c makes of each schema on
                    \* which its statements succeed
    Undoes,         \* Undoes[c]: the same, of the reversal of c
    Described,      \* Described[S]: the schema that the models of the nodes
                    \* of S describe
    Databases,      \* the databases gomodel.Start opened
    Default,        \* the one called "default"
    TxSupport,      \* the databases whose engine has transactions
    Requests,       \* the RunOptions the operator may give
    AllApps,        \* RunOptions.App when it is blank
    Latest          \* RunOptions.Node when it is blank

Nodes == UNION {{a} \X (1 .. Last[a]) : a \in Apps}

\* <<n, i>> is the i-th operation of node n.
Changes == UNION {{n} \X (1 .. Ops[n]) : n \in Nodes}

Needs(n) == {Deps[n][i] : i \in DOMAIN Deps[n]}
NeededBy(n) == {m \in Nodes : n \in Needs(m)}

ASSUME AppsAssumption ==
    /\ Last \in [Apps -> Nat]
    /\ IsFiniteSet(Nodes)
    /\ Ops \in [Nodes -> Nat]
    /\ Deps \in [Nodes -> Seq(Nodes)]

\* A change succeeds on some schemas, where it has one outcome, and is refused
\* by the engine on the others.
IsPartial(change) ==
    \A s \in DOMAIN change : s \in Schemas /\ change[s] \in Schemas

ASSUME SchemasAssumption ==
    /\ Blank \in Schemas
    /\ \A c \in Changes : IsPartial(Does[c]) /\ IsPartial(Undoes[c])

ASSUME DatabasesAssumption ==
    /\ Default \in Databases
    /\ TxSupport \subseteq Databases

ASSUME RequestsAssumption ==
    /\ AllApps \notin Apps
    /\ Latest \notin Nat
    /\ Requests \subseteq [db : Databases, fake : BOOLEAN,
                           app : Apps \cup {AllApps},
                           target : Nat \cup {Latest}]
    /\ \A req \in Requests : req.app = AllApps => req.target = Latest

VARIABLES
    tables,     \* the databases that have the gomodel_migration table
    rows,       \* rows[d]: the nodes recorded in that table of database d
    schema,     \* schema[d]: the schema of the tables of database d
    tx,         \* what the open transaction sees (Closed when there is none)
    pc,         \* where the process is
    call,       \* the options of the current or latest call
    pending,    \* the applications whose state.Migrate has yet to be called
    applied,    \* the nodes whose applied flag is set in memory
    stack,      \* the active calls to Run/Fake/Backwards/FakeBackwards
    done,       \* how many operations of the top node have been executed
    result      \* what the latest call returned

disk == <<tables, rows, schema>>
vars == <<tables, rows, schema, tx, pc, call, pending, applied, stack, done,
          result>>

Closed == [rows |-> {}, schema |-> Blank]
Frames == [node : Nodes, todo : Seq(Nodes)]

\* The types of the state of a call and of what survives it (Run).
TypeOK ==
    /\ tables \subseteq Databases
    /\ rows \in [Databases -> SUBSET Nodes]
    /\ schema \in [Databases -> Schemas]
    /\ tx \in [rows : SUBSET Nodes, schema : Schemas]
    /\ pc \in {"idle", "table", "load", "apps", "deps", "ops", "commit"}
    /\ call \in [db : Databases, fake : BOOLEAN, back : BOOLEAN,
                 app : Apps \cup {AllApps},
                 target : Nat \cup {Latest}]
    /\ pending \subseteq Apps
    /\ applied \subseteq Nodes
    /\ stack \in Seq(Frames)
    /\ done \in Nat
    /\ result \in {"none", "ok", "error", "crashed"}

Init ==
    /\ tables = {}
    /\ rows = [d \in Databases |-> {}]
    /\ schema = [d \in Databases |-> Blank]
    /\ tx = Closed
    /\ pc = "idle"
    /\ call = [db |-> Default, fake |-> FALSE, back |-> FALSE,
               app |-> AllApps, target |-> Latest]
    /\ pending = {}
    /\ applied = {}
    /\ stack = <<>>
    /\ done = 0
    /\ result = "none"

------------------------------------------------------------------------------
(* Entering and leaving a call *)

\* The call returns: the deferred clearHistory drops the state in memory, and
\* a transaction that is still open ends without being committed.
Return(outcome) ==
    /\ pc' = "idle"
    /\ result' = outcome
    /\ tx' = Closed
    /\ pending' = {}
    /\ applied' = {}
    /\ stack' = <<>>
    /\ done' = 0
    /\ UNCHANGED call

\* Without an application Run migrates those that have migrations.
Start(req) ==
    /\ pc = "idle"
    /\ call' = [db |-> req.db, fake |-> req.fake, back |-> FALSE,
                app |-> req.app, target |-> req.target]
    /\ pending' = IF req.app = AllApps THEN {a \in Apps : Last[a] > 0}
                                       ELSE {req.app}
    /\ pc' = "table"
    /\ result' = "none"
    /\ UNCHANGED <<disk, tx, applied, stack, done>>

\* loadAppliedMigrations: CREATE TABLE IF NOT EXISTS on the chosen database.
CreateTable ==
    /\ pc = "table"
    /\ tables' = tables \cup {call.db}
    /\ pc' = "load"
    /\ UNCHANGED <<rows, schema, tx, call, pending, applied, stack, done,
                   result>>

CreateTableFails ==
    /\ pc = "table"
    /\ tables' \in {tables, tables \cup {call.db}}
    /\ Return("error")
    /\ UNCHANGED <<rows, schema>>

\* Mutant: the rows of the chosen database are loaded.
LoadAppliedOfDb ==
    /\ pc = "load"
    /\ Default \in tables
    /\ applied' = rows[call.db]
    /\ pc' = "apps"
    /\ UNCHANGED <<disk, tx, call, pending, stack, done, result>>

\* ... and then the rows, which the query set reads from the default database.
LoadApplied ==
    /\ pc = "load"
    /\ Default \in tables
    /\ applied' = rows[Default]
    /\ pc' = "apps"
    /\ UNCHANGED <<disk, tx, call, pending, stack, done, result>>

\* That table need not exist when the call is for another database.
LoadAppliedRefused ==
    /\ pc = "load"
    /\ Default \notin tables
    /\ Return("error")
    /\ UNCHANGED disk

LoadAppliedFails ==
    /\ pc = "load"
    /\ Default \in tables
    /\ Return("error")
    /\ UNCHANGED disk

FinishRun ==
    /\ pc = "apps"
    /\ pending = {}
    /\ Return("ok")
    /\ UNCHANGED disk

\* The process dies; the database ends an open transaction without effect.
Crash ==
    /\ pc # "idle"
    /\ Return("crashed")
    /\ UNCHANGED disk

------------------------------------------------------------------------------
(* Walking the graph *)

\* Run and Fake return at once on an applied node, Backwards and
\* FakeBackwards on one that is not.
IsSettled(n, back) == IF back THEN n \notin applied ELSE n \in applied
Settled(n) == IsSettled(n, call.back)

\* The nodes that must be settled before n: its dependencies on the way
\* forwards, the nodes that name it as a dependency on the way backwards.
Required(n, back) == IF back THEN NeededBy(n) ELSE Needs(n)

\* Mutant: only the dependents of the same application are looked for.
BackOrdersOwnApp(n) ==
    {s \in UNION {[1 .. k -> NeededBy(n)] : k \in 0 .. 1} :
        {s[i] : i \in DOMAIN s} = {m \in NeededBy(n) : m[1] = n[1]}}

\* The orders in which those calls are made.  backwardDependencies ranges over
\* the history map: the applications come in any order, the nodes of each in
\* ascending order.
BackOrders(n) ==
    {s \in [1 .. Cardinality(NeededBy(n)) -> NeededBy(n)] :
        /\ {s[i] : i \in DOMAIN s} = NeededBy(n)
        /\ \A i, j \in DOMAIN s : i < j =>
            /\ s[i][1] = s[j][1] => s[i][2] < s[j][2]
            /\ s[i][1] = s[j][1] => \A k \in i .. j : s[k][1] = s[i][1]}

\* Mutant: FakeBackwards forgets the dependents.
OrdersFakeForgets(n, back) ==
    IF back THEN (IF call.fake THEN {<<>>} ELSE BackOrders(n)) ELSE {Deps[n]}

Orders(n, back) == IF back THEN BackOrders(n) ELSE {Deps[n]}

\* The requested node precedes the highest one applied, state.lastApplied.
Backwards(a) ==
    /\ call.target # Latest
    /\ \E k \in 1 .. Last[a] : <<a, k>> \in applied /\ call.target < k

\* Mutant: the requested node itself is reverted.
GoalOffByOne(a) ==
    CASE call.target = Latest -> <<a, Last[a]>>
      [] call.target \in Nat \ {0} -> <<a, call.target>>
      [] OTHER -> <<a, 1>>

\* The node state.migrate calls Run, Fake, Backwards or FakeBackwards on.
Goal(a) ==
    CASE call.target = Latest -> <<a, Last[a]>>
      [] Backwards(a) -> <<a, call.target + 1>>
      [] ~Backwards(a) /\ call.target \in Nat \ {0} -> <<a, call.target>>
      [] OTHER -> <<a, 1>>

BadTarget(a) ==
    \/ Last[a] = 0                                      \* NoAppMigrationsError
    \/ call.target # Latest /\ call.target > Last[a]    \* NameError

\* state.migrate of one of the applications left; the map of applications is
\* walked in any order.
Migrate(a) ==
    /\ pc = "apps"
    /\ a \in pending
    /\ ~BadTarget(a)
    /\ pending' = pending \ {a}
    /\ call' = [call EXCEPT !.back = Backwards(a)]
    /\ \/ /\ IsSettled(Goal(a), Backwards(a))
          /\ UNCHANGED <<pc, stack>>
       \/ /\ ~IsSettled(Goal(a), Backwards(a))
          /\ \E todo \in Orders(Goal(a), Backwards(a)) :
                stack' = <<[node |-> Goal(a), todo |-> todo]>>
          /\ pc' = "deps"
    /\ UNCHANGED <<disk, tx, applied, done, result>>

MigrateFails(a) ==
    /\ pc = "apps"
    /\ a \in pending
    /\ BadTarget(a)
    /\ Return("error")
    /\ UNCHANGED disk

Top == stack[Len(stack)]
Node == Top.node
Pop == SubSeq(stack, 1, Len(stack) - 1)
Advance == [stack EXCEPT ![Len(stack)].todo = Tail(@)]

\* Mutant: an applied dependency is looked at for ever.
SkipDepStuck ==
    /\ pc = "deps"
    /\ Top.todo # <<>>
    /\ Settled(Head(Top.todo))
    /\ UNCHANGED vars

\* The next dependency (or dependent) needs nothing ...
SkipDep ==
    /\ pc = "deps"
    /\ Top.todo # <<>>
    /\ Settled(Head(Top.todo))
    /\ stack' = Advance
    /\ UNCHANGED <<disk, tx, pc, call, pending, applied, done, result>>

\* ... or has to be run first, with its own dependencies.
EnterDep ==
    /\ pc = "deps"
    /\ Top.todo # <<>>
    /\ ~Settled(Head(Top.todo))
    /\ \E todo \in Orders(Head(Top.todo), call.back) :
          stack' = Append(Advance, [node |-> Head(Top.todo), todo |-> todo])
    /\ UNCHANGED <<disk, tx, pc, call, pending, applied, done, result>>

\* Sets the applied flag of the node on top and returns to its caller.
Settle ==
    /\ applied' = IF call.back THEN applied \ {Node} ELSE applied \cup {Node}
    /\ stack' = Pop
    /\ pc' = IF Len(stack) = 1 THEN "apps" ELSE "deps"
    /\ done' = 0
    /\ UNCHANGED <<call, pending, result>>

\* The row of the node on top is inserted in, or deleted from, a table.
Record(ledger) == IF call.back THEN ledger \ {Node} ELSE ledger \cup {Node}

------------------------------------------------------------------------------
(* Running one node *)

Ready == pc = "deps" /\ Top.todo = <<>>
InTx == call.db \in TxSupport

\* Fake and FakeBackwards write the row through Migration.Objects, that is, to
\* the default database whatever the database of the call is.
FakeNode ==
    /\ Ready
    /\ call.fake
    /\ rows' = [rows EXCEPT ![Default] = Record(@)]
    /\ Settle
    /\ UNCHANGED <<tables, schema, tx>>

FakeNodeFails ==
    /\ Ready
    /\ call.fake
    /\ rows' \in {rows, [rows EXCEPT ![Default] = Record(@)]}
    /\ Return("error")
    /\ UNCHANGED <<tables, schema>>

\* runOperations and backwardOperations, up to the first operation.
Begin ==
    /\ Ready
    /\ ~call.fake
    /\ tx' = IF InTx THEN [rows |-> rows[call.db], schema |-> schema[call.db]]
                     ELSE tx
    /\ pc' = "ops"
    /\ done' = 0
    /\ UNCHANGED <<disk, call, pending, applied, stack, result>>

BeginFails ==
    /\ Ready
    /\ ~call.fake
    /\ InTx
    /\ Return("error")
    /\ UNCHANGED disk

\* The k-th operation of a walk over those of n: they are run in file order,
\* and reversed from the last to the first.
Change(n, back, k) == IF back THEN Undoes[<<n, Ops[n] + 1 - k>>] ELSE Does[<<n, k>>]

NextChange == Change(Node, call.back, done + 1)
Seen == IF InTx THEN tx.schema ELSE schema[call.db]
Changed(s) == NextChange[s]

\* The engine refuses to create what exists and to drop what does not.
Possible == Seen \in DOMAIN NextChange

\* Mutant: CREATE ... IF NOT EXISTS; what exists already is left as it is.
RunOpIfNotExists ==
    /\ pc = "ops"
    /\ done < Ops[Node]
    /\ Possible \/ ~call.back
    /\ LET outcome(s) == IF Possible THEN Changed(s) ELSE s
       IN \/ /\ InTx
             /\ tx' = [tx EXCEPT !.schema = outcome(@)]
             /\ UNCHANGED schema
          \/ /\ ~InTx
             /\ schema' = [schema EXCEPT ![call.db] = outcome(@)]
             /\ UNCHANGED tx
    /\ done' = done + 1
    /\ UNCHANGED <<tables, rows, pc, call, pending, applied, stack, result>>

RunOp ==
    /\ pc = "ops"
    /\ done < Ops[Node]
    /\ Possible
    /\ \/ /\ InTx
          /\ tx' = [tx EXCEPT !.schema = Changed(@)]
          /\ UNCHANGED schema
       \/ /\ ~InTx
          /\ schema' = [schema EXCEPT ![call.db] = Changed(@)]
          /\ UNCHANGED tx
    /\ done' = done + 1
    /\ UNCHANGED <<tables, rows, pc, call, pending, applied, stack, result>>

\* Mutant: what exists already is taken for the work of this call.
RunOpRefusedIsFine ==
    /\ pc = "ops"
    /\ done < Ops[Node]
    /\ ~Possible
    /\ Return("ok")
    /\ UNCHANGED disk

\* The transaction, if any, is rolled back; whether Rollback itself fails only
\* changes which error is returned.
RunOpRefused ==
    /\ pc = "ops"
    /\ done < Ops[Node]
    /\ ~Possible
    /\ Return("error")
    /\ UNCHANGED disk

\* Mutant: the operations done so far are committed instead of rolled back.
RunOpFailsCommits ==
    /\ pc = "ops"
    /\ done < Ops[Node]
    /\ Possible
    /\ schema' = [schema EXCEPT ![call.db] = Seen]
    /\ Return("error")
    /\ UNCHANGED <<tables, rows>>

\* An operation the engine could carry out fails all the same.
RunOpFails ==
    /\ pc = "ops"
    /\ done < Ops[Node]
    /\ Possible
    /\ \/ UNCHANGED schema
       \/ /\ ~InTx
          /\ schema' = [schema EXCEPT ![call.db] = Changed(@)]
    /\ Return("error")
    /\ UNCHANGED <<tables, rows>>

\* The operations are done: the row is written in the same transaction ...
WriteRowInTx ==
    /\ pc = "ops"
    /\ done = Ops[Node]
    /\ InTx
    /\ tx' = [tx EXCEPT !.rows = Record(@)]
    /\ pc' = "commit"
    /\ UNCHANGED <<disk, call, pending, applied, stack, done, result>>

\* Mutant: the row is written whatever operations are left.
WriteRowAloneEarly ==
    /\ pc = "ops"
    /\ ~InTx
    /\ rows' = [rows EXCEPT ![call.db] = Record(@)]
    /\ Settle
    /\ UNCHANGED <<tables, schema, tx>>

\* Mutant: like a faked row, it is written to the default database.
WriteRowAloneDefault ==
    /\ pc = "ops"
    /\ done = Ops[Node]
    /\ ~InTx
    /\ rows' = [rows EXCEPT ![Default] = Record(@)]
    /\ Settle
    /\ UNCHANGED <<tables, schema, tx>>

\* ... or on its own.
WriteRowAlone ==
    /\ pc = "ops"
    /\ done = Ops[Node]
    /\ ~InTx
    /\ rows' = [rows EXCEPT ![call.db] = Record(@)]
    /\ Settle
    /\ UNCHANGED <<tables, schema, tx>>

\* Mutant: the transaction is committed without the row.
WriteRowFailsCommits ==
    /\ pc = "ops"
    /\ done = Ops[Node]
    /\ schema' = [schema EXCEPT ![call.db] = Seen]
    /\ Return("error")
    /\ UNCHANGED <<tables, rows>>

WriteRowFails ==
    /\ pc = "ops"
    /\ done = Ops[Node]
    /\ \/ UNCHANGED rows
       \/ ~InTx /\ rows' = [rows EXCEPT ![call.db] = Record(@)]
    /\ Return("error")
    /\ UNCHANGED <<tables, schema>>

Install ==
    /\ rows' = [rows EXCEPT ![call.db] = tx.rows]
    /\ schema' = [schema EXCEPT ![call.db] = tx.schema]

Commit ==
    /\ pc = "commit"
    /\ Install
    /\ tx' = Closed
    /\ Settle
    /\ UNCHANGED tables

\* Mutant: the error of the commit is lost and the walk goes on.
CommitFailsUnheard ==
    /\ pc = "commit"
    /\ Install \/ UNCHANGED <<rows, schema>>
    /\ tx' = Closed
    /\ Settle
    /\ UNCHANGED tables

\* A commit that reports an error may have been carried out.
CommitFails ==
    /\ pc = "commit"
    /\ Install \/ UNCHANGED <<rows, schema>>
    /\ Return("error")
    /\ UNCHANGED tables

------------------------------------------------------------------------------

Walk ==
    \/ FinishRun
    \/ \E a \in Apps : Migrate(a) \/ MigrateFails(a)
    \/ SkipDep
    \/ EnterDep

Progress ==
    \/ CreateTable
    \/ LoadApplied
    \/ LoadAppliedRefused
    \/ Walk
    \/ FakeNode
    \/ Begin
    \/ RunOp
    \/ RunOpRefused
    \/ WriteRowInTx
    \/ WriteRowAlone
    \/ Commit

\* What the code does not bring upon itself.
Fault ==
    \/ CreateTableFails
    \/ LoadAppliedFails
    \/ FakeNodeFails
    \/ BeginFails
    \/ RunOpFails
    \/ WriteRowFails
    \/ CommitFails
    \/ Crash

Next ==
    \/ \E req \in Requests : Start(req)
    \/ Progress
    \/ Fault

Spec == Init /\ [][Next]_vars

\* A call that is not over keeps going: the walk is one sequential goroutine,
\* and every call to the engine returns, one way or the other.
Fairness == WF_vars(Progress)

\* The program calls Run for every application each time it is started,
\* whatever else the operator calls in between.
Whole(req) == req.app = AllApps /\ req.target = Latest /\ ~req.fake
Retrying == \A req \in {r \in Requests : Whole(r)} : SF_vars(Start(req))

RetrySpec == Spec /\ Fairness /\ Retrying

------------------------------------------------------------------------------
(* Properties *)

DepClosed(d) == \A n \in rows[d] : Needs(n) \subseteq rows[d]

\* The default database never records a node without the nodes it depends on,
\* whatever mix of Run, Fake, reversals, failures and restarts led there: what
\* runDependencies and backwardDependencies walk the graph for.
LedgerClosed == DepClosed(Default)

\* The same on every database.  The code does not promise it for the others:
\* it decides what to run from the rows of the default one.
ClosedEverywhere == \A d \in Databases : DepClosed(d)

\* Why the ledger stays closed: every frame still has ahead of it, or right
\* above it, each node that must be settled before its own; what is in memory
\* is what the table says whenever the call may write that table; and the
\* transaction differs from the table by the node on top at most.
Running == pc \in {"deps", "ops", "commit"}
WritesDefault == call.fake \/ call.db = Default

StackInv ==
    /\ Running <=> stack # <<>>
    /\ pc \in {"ops", "commit"} => Top.todo = <<>> /\ ~call.fake
    /\ \A i \in 1 .. Len(stack) : \A d \in Required(stack[i].node, call.back) :
        \/ Settled(d)
        \/ \E j \in 1 .. Len(stack[i].todo) : stack[i].todo[j] = d
        \/ i < Len(stack) /\ stack[i + 1].node = d

MemoryInv ==
    (pc \in {"apps", "deps", "ops", "commit"} /\ WritesDefault) =>
        applied = rows[Default]

TxInv ==
    /\ pc = "ops" /\ InTx => tx.rows = rows[call.db]
    /\ pc = "commit" => InTx /\ tx.rows = Record(rows[call.db])

\* The invariant that is inductive: LedgerClosed with what makes it last, the
\* stack, the memory and the transaction of a call that runs.
IInv == TypeOK /\ StackInv /\ MemoryInv /\ TxInv /\ LedgerClosed

\* What the operations of node n, in the order of the walk, make of schema s:
\* the outcome of the first k of them, if none is refused.
After(n, back, s) ==
    LET outcome[k \in 0 .. Ops[n]] ==
            IF k = 0 THEN {s}
            ELSE LET change == Change(n, back, k)
                 IN {change[x] : x \in outcome[k - 1] \cap DOMAIN change}
    IN outcome

Carried(n, back, s) == After(n, back, s)[Ops[n]]

\* Where the engine has transactions the rows and the schema of the default
\* database agree, through any failure or crash: the schema is the one that
\* the recorded nodes describe.  (Of the calls that do not fake.)
SchemaMatchesRows ==
    Default \in TxSupport => schema[Default] = Described[rows[Default]]

\* The row of a node that is not faked follows its work, with transactions or
\* without: it is written when every operation of the node has just been
\* carried out, and erased when every one has been reversed.
RowFollowsWork ==
    [][rows' # rows /\ ~call.fake =>
        \A d \in Databases :
            /\ \A n \in rows'[d] \ rows[d] :
                    \E s \in Schemas : schema'[d] \in Carried(n, FALSE, s)
            /\ \A n \in rows[d] \ rows'[d] :
                    \E s \in Schemas : schema'[d] \in Carried(n, TRUE, s)
      ]_vars

Reached(a) ==
    {n \in rows[Default] : n[1] = a} =
        {a} \X (1 .. IF call.target = Latest THEN Last[a] ELSE call.target)

\* A call that returns nil did what Migrate's comment says: every node up to
\* and including the requested one is applied and none after it is.
GoalReached ==
    (pc = "idle" /\ result = "ok" /\ call.db = Default) =>
        \A a \in Apps :
            (call.app \in {a, AllApps}) => Reached(a)

\* A faked call never touches a schema, and no other call changes the rows or
\* the schema of a database it was not given.
OnlyItsDatabase ==
    [][IF call.fake THEN schema' = schema
       ELSE \A d \in Databases \ {call.db} :
                rows'[d] = rows[d] /\ schema'[d] = schema[d]]_vars

\* The schema moves one whole node at a time where there are transactions, and
\* the row of that node moves in the same step.  (Of another database than the
\* default one, whose rows do not decide what is run, the row is only there
\* or gone after the step.)
OneNodeAtATime ==
    [][\A d \in TxSupport : schema'[d] # schema[d] =>
        \E n \in Nodes :
            \/ /\ n \in rows'[d] /\ (d = Default => n \notin rows[d])
               /\ schema'[d] \in Carried(n, FALSE, schema[d])
            \/ /\ n \notin rows'[d] /\ (d = Default => n \in rows[d])
               /\ schema'[d] \in Carried(n, TRUE, schema[d])
      ]_vars

Ledger == INSTANCE MigrationLedger WITH ledger <- rows[Default]

\* The table of applied nodes of the default database behaves as the abstract
\* ledger: one node at a time, always in an order the graph allows.
ImplementsLedger == Ledger!Spec

\* Every call returns.
CallReturns == (pc # "idle") ~> (pc = "idle")

\* If the faults stop, the program gets every application up to date again and
\* again, with an answer that says so: no failure, crash or reversal leaves
\* behind what blocks a later call.
Recovers ==
    <>[][~Fault]_vars =>
        []<>(pc = "idle" /\ result = "ok" /\ rows[Default] = Nodes)

------------------------------------------------------------------------------
(* What the theorems on the schema suppose *)

\* The files of a history follow from each other, as those Make writes do: run
\* on the schema the nodes before it describe, a node yields the one described
\* with it, and reversed it yields the former again.
Coherent ==
    /\ Described[{}] = Blank
    /\ \A S \in SUBSET Nodes : \A n \in Nodes \ S :
        (\A m \in S \cup {n} : Needs(m) \subseteq S) =>
            /\ Carried(n, FALSE, Described[S]) \subseteq {Described[S \cup {n}]}
            /\ Carried(n, TRUE, Described[S \cup {n}]) \subseteq {Described[S]}

\* C[n] are the schemas that carry the mark of node n: its first operation
\* sets it, and is refused where it is set; the reversal of that operation
\* clears it, and nothing else sets or clears it.  As when the first operation
\* of each node creates a table that no other one deletes; no schemas are such
\* marks where a later node deletes what an earlier one created.
Keeps(change, mark) == \A s \in DOMAIN change : change[s] \in mark <=> s \in mark

LastingBy(C) ==
    \A n \in {m \in Nodes : Ops[m] > 0} :
        /\ Blank \notin C[n]
        /\ \A s \in DOMAIN Does[<<n, 1>>] :
                s \notin C[n] /\ Does[<<n, 1>>][s] \in C[n]
        /\ \A s \in DOMAIN Undoes[<<n, 1>>] : Undoes[<<n, 1>>][s] \notin C[n]
        /\ \A c \in Changes \ {<<n, 1>>} :
                Keeps(Does[c], C[n]) /\ Keeps(Undoes[c], C[n])
=============================================================================
