# A verification project for GoModel

GoModel is an ORM in the manner of Django's: models are registered in
applications, query sets turn chained conditions into SQL, instances are saved
and deleted, and migration files take the schema of a database from one version
of the models to the next. This directory holds TLA+ models of the parts that
carry logic, what TLC finds about them on small instances, and theorems that
TLAPS proves for every instance. `PROJECT.json` has the inventory in a form for
tools: components, hazards with their lines, runs, mutants and the lines each
definition stands for.

## 1. The system

| component | state it keeps | operations | here |
|---|---|---|---|
| migration executor (`migration/nodes.go`, `history.go`, `migrations.go`) | the `applied` flag of each node in memory; the schema and the table `gomodel_migration` of each database | `Run`, `Node.Run`, `Fake`, `Backwards`, `FakeBackwards` | `MigrationRun`, `MigrationLedger`, `ConcurrentRun`, with proofs |
| history loader (`history.go`, `nodes.go`) | the global `history` map, `processed` and stash marks | `loadHistory`, `loadApp`, `Node.setState`, `loadPreviousState` | `HistoryLoad`, with proofs |
| application state and operations (`operations*.go`, `gomodel.go`) | the models of an `AppState`; the schema | `SetState`, `Run`, `Backwards` of six operations | `AppState`, `SchemaEvolution` |
| making migrations (`history.go`, `migrations.go`) | the migration files | `makeMigrations`, `Make`, `MakeAndRun` | `AppState`, `SchemaEvolution` |
| conditioners and SQL engine (`conditioners.go`, `engines.go`) | none: values and statements | `predicate`, `SelectQuery`, `UpdateRows`, `DeleteRows`, `InsertRow` | `QueryConditions`, `QuerySet`, with proofs; `InstanceSave` |
| query sets and containers (`querysets.go`, `containers.go`) | the conditions of the set; cursor and containers of a call | `Filter`, `Exclude`, `Only`, `Load`, `Slice`, `Get`, `Update`, `Delete` | `QueryConditions`, `QuerySet`, with proofs |
| SQLite engine (`engines_sqlite3.go`) | a table, its copy, its indexes | `AddColumns`, `DropColumns`, `GetRows` | `SqliteAlter`, with proofs; `QuerySet` |
| instances and managers (`instances.go`, `managers.go`, `gomodel.go`) | containers, shared or not; rows; the defaults and automatic times of fields (`fields*.go`) | `Create`, `New`, `Get`, `Set`, `Save`, `Delete` | `InstanceSave`, with proofs |
| database registry (`db.go`) | the global `dbRegistry` | `Start`, `Stop` | `DbRegistry`, with proofs |
| application registry (`apps.go`) | the global `registry`, the models themselves | `Register`, `Model.Register`, `ClearRegistry` | `AppRegistry`, with proofs |
| encodings, errors, mocked engine, benchmarks | none of their own | conversions | not modelled |

How they interact: the executor, the loader and `Make` share the global
`history` map; the executor calls the operations, which call the engine inside a
transaction; the operations rebuild the models of a state with the methods of
`Model`. Query sets, managers and instances find their database in `dbRegistry`
by name, unless they carry a transaction, and go through the same engine.
`Start` puts an application of its own in the registry that `Register` fills,
for the model of the applied nodes.

What is hard here: a recursion over a graph of nodes interrupted by failures,
commits of unknown outcome and crashes, with memory, rows and schema that have
to agree afterwards, next to another process doing the same; maps walked in any
order; several databases behind one table of rows; a predicate built by a
recursion that numbers its placeholders on the way; a save that is two
statements; loops over cursors that may break; tables copied statement by
statement; global registries used by any sequence of calls. What makes each
component correct:

- executor: a node is recorded only with what it depends on, and once; row and
  schema move together; a call that returns nil did what it was asked; calls can
  be repeated after anything;
- loader: files are accepted or refused for what they are, not for the order of
  a map or for an earlier load, and applied in an order the dependencies allow;
  a node is run on the state of the nodes before it;
- operations and `Make`: files can be replayed, describe the program, run both
  ways, and leave the schema they describe;
- query sets: mistakes end in errors, and exactly the rows meant are read,
  returned or written;
- SQLite: a table keeps its columns, constraints, indexes and values;
- instances: a save that succeeds is there and touched nothing else, and adds
  no default of its own to what it finds;
- registries: what is registered can be used, whatever panicked before.

## 2. The modules

**`MigrationRun`**. One process at a time calls `Run` (`Start(req)`). An action
is one call to the engine or one step of the walk, so that a failure or a crash
can come between any two. `tables`, `rows` and `schema` survive; `tx` is what an
open transaction sees; `applied` is the flag of the nodes in memory; `stack` is
the Go call stack, a frame for each active `Node.Run` (or `Fake`, `Backwards`,
`FakeBackwards`) with the dependencies or dependents still to visit. `Migrate`
picks the node, `SkipDep`/`EnterDep` are the loops of `runDependencies` and
`backwardDependencies`, `Begin` to `Commit` are `runOperations` and
`backwardOperations` with and without a transaction. Each engine call has a
failing twin; a failing statement outside a transaction and a failing commit may
have taken effect.

What an operation does is a parameter. `Schemas` are the schemas a database may
have, `Does[<<n, k>>]` is what the k-th operation of node n makes of each schema
on which its statements succeed, and `Undoes` the same of its reversal; on any
other schema the engine refuses it (`Possible`, `RunOpRefused`). So an operation
may create, drop, or create again what an earlier one dropped. `Described[S]` is
the schema that the nodes of S describe, and `Carried(n, back, s)` what the
operations of a node make of s one after the other. **`MCOperations`** gives
these constants for the instances: a schema is a set of tables and columns,
`Creates`, `Deletes` and `Adds` are the operations over them.

**`MigrationLedger`** is the abstract specification: a set of nodes that gains a
node when its dependencies are in it and loses one that nothing in it needs.
`MigrationRun` implements it with `ledger <- rows[Default]`.

**`ConcurrentRun`** has two processes: the variables of `MigrationRun` and, with
`Other`, an instance of it over registers of its own and the same tables, rows
and schema. What keeps them apart is external, the lock SQLite has on each
database: a process in a transaction has that of its database (`HasLock`), and
the other writes nothing there, and begins nothing, until it is over
(`WaitsFor`); it waits, or fails as for any error. Nothing else does: what a
process has in memory is as old as its call.
`reverted` remembers whether some call went back.

**`HistoryLoad`**. `loadHistory` over any files: `ReadApp` places the files of
an application by their numbers, `PickApp` and `Visit` walk the applications in
any order, `FollowDep`, `RefuseDep`, `ApplyNode` are `Node.setState` with its
stash of nodes being processed. `verdict` is the error it returns, or the panic.
`Again` is the next call after an error, over the history the failed one left,
with the folders repaired or not. `PreviousStates` is what `loadPreviousState`
computes for a node: the nodes before it in the order of `setPreviousState`,
each as often as it is met (`Trail`), with errors ignored (`Leniently`: a
refused operation may have taken in part of its fields).

**`AppState`** is data and pure operators: the definitions of models as fields
and indexes by name (only names are ever compared), which of the fields are NOT
NULL without a default (`Needy`: the engine refuses to add such a column to a
table, empty or not), the six operations with their `SetState`, what
`makeMigrations` detects, and the statements each operation sends to a database.
**`SchemaEvolution`** uses it: the developer edits the models, `Make` adds a
file, `Run` and `Revert` move the schema one file at a time. `SaveFails` is a
`Make` whose write fails and leaves no file, all of it or a part, which makes
every load fail until it is deleted (`torn`, `LoadFails`, `DeleteTorn`). The
developer may add a field of `Needy`, so that a file is refused, or drop one, so
that its reversal is. A program that keeps no files (`direct`) calls
`MakeAndRun` instead. Every step is a whole transaction; partial ones are
`MigrationRun`'s.

**`QueryConditions`** builds the predicate exactly along the recursion of
`predicate`. A text is recorded by what the database reads in it: whether it is
empty or readable at all, the numbers of its placeholders in their order, and
what it says of a row, in SQL's logic of three values, once the values of the
statement are given. Each operand the code nests is in parentheses, so that the
whole is read from its parts (`Conj`, `Not`, `Join`); an empty operand is not,
which `None` and `Joined` keep track of. `Meaning` is the reference, read from
the comments of `Conditioner`. The conditioners are a set, `Conditioners`, each
a `Q` or made of two that were made before it (`Depth`); `Predicate`, `Meaning`
and `Mistaken` are recursive functions over it. Filter and Exclude stay within
the set. **`QuerySet`** adds the table and the call: the query with its limits,
the loop over a cursor that may break, the containers each row is scanned into,
and the writes of `Update` and `Delete`, whose values come before those of the
predicate.

**`SqliteAlter`** has one action for each statement of `AddColumns` and
`DropColumns`, with the columns of each walk of a map in any order, and the
rollback on any error. `shuffled` remembers whether the two walks of a copy
differed. A value that lands in a column of another type may be changed by
SQLite (`Affinity`, `Converts`): it is then `Altered`, as is a NULL that lands
in an `INTEGER PRIMARY KEY` (`RowId`), which numbers it. One row stands for all.

**`InstanceSave`** has goroutines with an instance each. `Save` is the choice,
the `Update` and, when no row matched, the `Insert`, and the other goroutines
move between them. A program gives an instance any key it likes, with `New` or
`Set`, also where the key is the database's (`Keys`, `SetPk`). The model has a
key and one other field, which is plain,
nullable, has a default or sets itself to the time (`ToSave`, `NewValue`,
`Otherwise`). A statement that returns an error may have been carried out
(`MayInsert`, `SaveFails`); a `Create` that failed leaves an instance, which the
program may save again. `setup` is the kind of key and of field, the database,
who makes instances how and who deletes: one of `Setups`, fixed at the start.

**`DbRegistry`** is `Start`, one database at a time with its panics, and `Stop`.
To open a database is to make a handle (`sql.Open`), which connects when it is
first used, so that a database that does not answer is opened like any other.
**`AppRegistry`** adds `Register`, one application and one model at a time:
`meta` is what `SetupPrimaryKey` (`Keys`) and `SetupIndexes` (`Autos`) write
into the model, and `appOf` the application it is then of (`m.app`), set before
any check; neither a panic nor `ClearRegistry` takes them back.

Module | composed with
---|---
`MigrationRunProofs` | extends `MigrationRun`, which instantiates `MigrationLedger`
`MigrationGoalProofs` | extends `MigrationRunProofs`
`ConcurrentRunProofs` | extends `ConcurrentRun` and `MigrationGoalProofs`, and instantiates the latter for the other process
`ConcurrentRun` | extends `MigrationRun` and instantiates it once more
`HistoryLoad`, `SchemaEvolution` | extend `AppState`
`QuerySet` | extends `QueryConditions`
`AppRegistry` | extends `DbRegistry`
`HistoryLoadProofs`, `AppRegistryProofs`, `SqliteAlterProofs`, `InstanceSaveProofs`, `QuerySetProofs` | extend the module they prove about
`MC*` | extend the module they give small constants to; `MCMigrationRun` and `MCConcurrentRun` also extend `MCOperations`

## 3. The runs

Passing runs; every action of each module is taken in one of them.

| run | instance | what it shows |
|---|---|---|
| `run_tx` | five nodes of three applications in a diamond, one of which deletes a table that an earlier one created; one database, targets 1 to 3 and the last, one application or all | the schema is the one the rows describe (`SchemaMatchesRows`), node by node (`OneNodeAtATime`); nil means the goal was reached (`GoalReached`); calls return (`CallReturns`); repeated calls recover from anything (`Recovers`) |
| `run_two_databases` | three nodes of two applications, a second database without transactions, real and faked calls, targets from 0 | the inductive invariant `IInv`, `LedgerClosed`, the refinement `ImplementsLedger`; a row is written after the work and erased after the undoing, also without transactions (`RowFollowsWork`); the other database is left alone (`OnlyItsDatabase`) |
| `concurrent_run` | two processes, four nodes of three applications that create tables and add a column, the last reached along two paths, calls for everything, for one application, and back to the first node | no node is about to be recorded twice (`OneRowEach`); while nobody goes back the ledger stays closed (`ForwardClosed`) and, of a call for the default database, nil means that its targets are recorded (`ForwardReached`); both get through in the end (`BothRecover`) |
| `history_load` | any dependencies between three nodes, good, dangling, malformed, circular; fifteen lists of file numbers; chains of operations that may not fit; four files with a node met twice; a second load after each error | `TypeOK` (no node is walked twice at a time), `VerdictIsRight`, `DepsFirst`, `OrderIndependent`, `PreviousIsReplay` |
| `schema_evolution` | three files, two models, two fields, one of which has to have a value, two indexes, six families of programs, with files or without | files replay (`FilesInv`), `SchemaFollowsState`; the database refuses a file or its reversal only for the reasons in `NodesRun`; `MakeConverges`; `MakeAndRun` takes effect once (`Propagates`) |
| `query_set` | two columns, NULLs, two chained calls over twelve conditioners, nested and mistaken ones among them, four rows, slice indexes from -2 to 3 | the statement can be read and its placeholders match its values (`StatementInv`), `MistakesSurface`, `SelectsMeant`, `LoadIsSlice`, `GetIsExact`, `OthersStay` |
| `sqlite_alter` | four fields, one with a column of another name, of different types, two indexes, three calls | the table is the one of its model (`TableInv`); values are lost only to a conversion, and only when the two walks differ (`ValuesKept`) |
| `instance_save` | two goroutines, two values, one or two keys; nine setups: keys of the program's choice or of either database, which the program may set as well, and the four kinds of field that set themselves or may be NULL | instances hold what they were given (`InstanceInv`); a Save that returns nil has its value in a row, under its key unless its INSERT leaves that out (`Strays`), and wrote no other (`SavedIsThere`, `OnlyItsRow`); a Save adds nothing to a row it found (`FoundRowKeeps`) |
| `startup` | two databases, two connections; two names of applications, three models, one with an indexed key, one not valid, one with two keys; calls with one application or two | what is registered is ready and of an application that is there (`RegistryInv`), `RegisterVerdict`; a Start that returns made a handle for each database (`StartOpensAll`), `StoppedMeansClosed` |

An invariant whose name ends in `Inv` holds the types of its module too; in
`HistoryLoad` these are `TypeOK`, which says more than types.

Why the bounds are enough. The walk of `MigrationRun` treats nodes alike but for
their dependencies: the graphs have a node reached along two paths, one needed
by two others, and nodes of one and of two operations, so that a failure can
come before, between and after operations; a table is created, dropped and, on
the way back, created again. `Recovers` needs no bound on the calls, the states
being finite. In `HistoryLoad` three nodes allow cycles of each length up to
three and through another application; four are the fewest with a node that is
met twice before the last. Three files are enough for a model or an index to
appear, go and come back. A chain of two calls over conditioners that are chains
themselves gives every join at both sides of another; the set of conditioners is
what `MaxCalls` calls, two or three, make of those that are given, with its
parts. `SqliteAlter` adds, drops and adds again. Two goroutines are enough to
come between the statements of a save; two keys allow a collision and a free
one. Two connections allow a `Start` after one that panicked half way. Two
processes are enough for one to be overtaken at every step; the states being
finite, each may start again any number of times.

Fairness. `RetrySpec` assumes that a call in progress goes on (`Fairness`: it is
one sequential goroutine, and each engine call returns, with an error or
without) and that the program calls `Run` for everything again and again,
between whatever else the operator calls (`Retrying`: it is meant to be called
at each start). `Recovers` further supposes that from some point on there is no
fault; a refusal by the database because of what an earlier call left behind is
not a fault, so it is for the property to exclude it. `BothFair` assumes the
same of each of two processes. Weak fairness on the steps of a call is enough
although the lock of the other stops them at times: once faults and reversals
are over, as `BothRecover` supposes, a finite number of nodes is left to run and
the lock is given up for good. It also supposes, by its instance, that no node
takes away what another created: next to a crash and a reversal, two processes
that build and drop the same table may run a node for which memory is stale, and
block each other with what is left (section 5). Strong fairness on the starts
says, as in `Retrying`, that among the calls made between others there is the
one for everything. No other run uses fairness.

Runs that show the code and its comments apart:

| run | what happens |
|---|---|
| `run_replica` | `loadAppliedMigrations` (`history.go:296`) reads the rows of the default database for a call on another one: a node is recorded there without its dependencies |
| `sqlite_data` | `copyTable` (`engines_sqlite3.go:65`) fills the copy from a second walk of a map: values land in other columns |
| `query_empty` | after an empty predicate `predicate` (`engines.go:419`) does not look at an error: `Filter(Q{}).Filter(bad).Filter(good)` runs without the bad condition |

## 4. What is proved

Every theorem below holds for all values of the constants that satisfy the
assumptions of the modules and the hypotheses named with it: any applications,
graphs, databases, calls, files, fields, goroutines and setups, in any
interleaving with failures and crashes. The instances that a run checks a
property on satisfy the hypotheses of its theorem. Each proof has an inductive
invariant, with one step for each action.

### The executor, one process

| theorem | says | hypothesis |
|---|---|---|
| `TypeCorrect`, `InvariantHolds` | `[]TypeOK`, `[]IInv` | |
| `LedgerIsClosed` | `[]LedgerClosed`: no node is recorded on the default database without its dependencies | |
| `LedgerImplemented` | `ImplementsLedger`: the executor refines the abstract ledger | |
| `DatabaseIsolation` | `OnlyItsDatabase` | |
| `RowsFollowWork` | `RowFollowsWork`, with transactions or without | |
| `SchemaMovesByNode` | `OneNodeAtATime`: a schema moves by all the operations of one node, its row with it, where there are transactions | |
| `SchemaAgrees` | `[]SchemaMatchesRows` | `NoFakes`, `Coherent` |
| `CallsReachGoal` | `[]GoalReached`: nil means that the applications are at the requested node | `Chained`, `Acyclic`, `NoZero` |

`LedgerClosed` is not inductive: in the middle of a walk nothing in it says that
the dependencies of the node about to be recorded are there. `IInv` adds three
facts. `StackInv`: each node that a frame requires is settled, or still on the
frame's list, or the node of the frame right above; the list is empty when the
node runs, so then all are settled. `MemoryInv`: the flags in memory are the
rows of the default database whenever the call may write them, which makes
"settled" a fact about the table. `TxInv`: the rows a transaction sees are the
table's but for the node on top. `OrdersAreComplete` says that the list a node
starts with has every node it requires, in any order of the maps;
`ReturnKeepsInv` covers every way out; `LedgerStep` reads the refinement off
`IInv`.

For the schema, `Task` says what a transaction sees: what the first `done`
operations of the node on top make of the schema of its database, forwards or
backwards (`After`), and its row only once all are done. A commit then moves
rows and schema by one whole node, and nothing else moves them on a database
with transactions. `Alone` says the same of a database without transactions,
which one process at a time writes to; nothing is supposed of the operations.
That the schema is the one the rows describe needs two more facts. `Chain`: the
frames of the stack lead from each node to one it requires and none of them is
settled, so that the node on top is run with the nodes it needs recorded and
none that needs it (`Moving`). `Coherent`: the files follow from each other, so
that a node run on the schema of such a set of nodes yields the one described
with it, and back; `SchemaFollowsState` says that of the files `Make` writes,
but for the indexes of a deleted model that comes back. `SchemaMatchesRows` is
about the default database, whose rows decide what is run: on another, a node
may be run again that is recorded there (`run_replica` shows the like), and if a
later one dropped what it creates nothing refuses it. `NoFakes` is needed
because a faked call writes rows and no schema, which is what it is for.

`GoalReached` needs an argument about the order of walks: the applications come
one after another, in any order, and the walk for one must not undo what was
done for another. `WalkInv` says that a walk that goes forwards meets only nodes
that rank at most as high as the one it started from, and backwards only such
that rank as high at least. `AimInv` says that the applications that are through
are where they have to be. That the nodes before the last one of an application
are recorded with it comes from `LedgerClosed` and `Chained`, by a least
element (`Least`). The hypotheses: each node needs its predecessor, as in the
files that `Make` writes (`Chained`); the graph can be ranked, the loader having
refused cycles (`Acyclic`, which `VerdictsAreRight` proves of the loader); no
call asks for `0000` (`NoZero`), which does something else when nothing is
applied (section 5). They are hypotheses of this theorem only.

### The executor, two processes

| theorem | says | hypothesis |
|---|---|---|
| `NodeRecordedOnce` | `[]OneRowEach` | `NoFakes`, `LastingBy` |
| `ClosedForwards` | `[]ForwardClosed` | |
| `ReachedForwards` | `[]ForwardReached` | `Chained` |

`IInv` does not hold here: `MemoryInv` fails as soon as the other process
writes. `Task` does, for each of them, because nobody writes to the database
whose lock it has. A node is recorded once because the first of its operations
is refused where it has been carried out, as long as what it did is still there.
That is a hypothesis on the files: `LastingBy(C)`, for some sets of schemas
`C[n]`, says that the first operation of n enters `C[n]` from outside, that its
reversal leaves it, and that no other change enters or leaves it, as when the
first operation of each node creates a table that no node deletes. `Marked` is
the invariant: the nodes whose rows are there are those whose mark the schema
carries. It is a restriction of the code, not of the model: where a later node
deletes what an earlier one created the property fails (section 5). No `C` is
lasting then; nor is one when the first operation adds a column to a table that
another node creates, since the reversal of that other one takes the column
along. For calls that go forwards `Known` replaces `MemoryInv`: what is in
memory is in the table, which others may have added to since. The table only
grows, so what was settled stays settled, and what was reached (`Aiming`) stays
reached. `P2` instantiates the proofs about one process for the other: the
theorems about a step of one are used for both, and `SameNext` says that the two
instances agree.

### The loader

`TypeCorrect` (`[]TypeOK`), `DependenciesFirst` (`[]DepsFirst`) and
`VerdictsAreRight` (`[]VerdictIsRight`), for any files, any order of the maps
and any number of loads after failed ones, without a hypothesis. `Inv`: the
stash is the nodes of the active calls, each once (`Stashed`), each a dependency
of the one below (`Linked`), so that one that is met again closes a cycle
(`MetAgain`); what a call has checked is processed or is the call above
(`Checked`); each set of processed nodes has one that points to none of the
others (`Rising`), so they have no cycle; no node is forgotten (`Covered`); and
the folders that were read are numbered without gaps (`Numbered`, by `NoGaps`: n
different numbers from 1 to n in order are 1 to n).

### Query sets

| theorem | says | hypothesis |
|---|---|---|
| `PlaceholdersMatchValues` | `[]PlaceholdersMatch`, the last part of `StatementInv` | |
| `LoadReturnsSlice` | `[]LoadIsSlice` | |
| `GetReturnsTheOne` | `[]GetIsExact` | |
| `StatementsReadable` | `[]StatementInv`, of which `QuerySetTyped` needs no hypothesis | `NoEmptyQ` |
| `MistakesAreErrors` | `[]MistakesSurface` | `NoEmptyQ` |
| `OthersUntouched` | `[]OthersStay` | `NoEmptyQ` |
| `SelectionIsMeant` | `[]SelectsMeant` | `NoEmptyQ`, `NilTested` |

They hold for any conditioners, nested in any way, any table and any values.
`NoEmptyQ`: no caller gives an empty `Q`, alone or within a conditioner; the one
`Exclude` starts from is allowed. It excludes exactly what `query_empty` finds
and the statements that end in `WHERE` (section 5). `NilTested`: nil is compared
with `=` only, which becomes IS NULL; any other comparison with it is unknown of
every row (section 5). TLC evaluates both on the instance of `query_set`.

What the code does with a conditioner is a recursion, and what is proved of it
an induction over `Depth`: `RankInduction` is the induction over a set with a
rank, stated with sets, and `Recursion` builds the function that a recursive
definition names, from which `MistakenIs`, `MeaningIs` and `PredicateIs` follow.
`AnswersInPlace` then says that the placeholders of an answer are numbered from
where it starts, one for each value, whatever the conditioner; `AnswersMean`
that an answer says of each row what the conditioner means, in every list in
which its values are at the places of its placeholders (`Fits`), and that a
mistake leaves nothing that can be run. `Fits` is what makes the second
operand's numbers, and an Update's values in front, come out right.

`CondInv` is what each call to Filter and Exclude keeps: the chain is mistaken
when one of the calls was, and means only rows that all of them asked for;
`FullInv`, that of the rows without NULL it means all. `SliceInv` says that what
was read and what the cursor has left are what the query was for (`Wanted`),
`GetInv` the same of at most two rows.

### SQLite

`TableIsTheModels` (`[]TableInv`) and `OnlyWalksAlter` (`[]ValuesKept`), if no
column has the name of another field (`OwnNames`). `DropColumns` passes columns
where fields are meant: with such a column the other field is kept, in silence
(section 5); with a column whose name is no field's the code panics, which the
theorems cover. The invariant follows the table and its copy from statement to
statement; `Restorable` is what a rollback needs, `Rearranged` that each column
is paired by position with exactly one. So nothing changes when the two walks
come in one order. When they do not, which is the finding of `sqlite_data`, a
value that is gone was given to a column of another type and converted by it;
that values do get lost then is the code, and `ValuesKept` says no less.

### Instances

| theorem | says | hypothesis |
|---|---|---|
| `InstancesAreSeparate` | `[]InstanceInv` | `OneSharer` |
| `FoundRowsKeep` | `FoundRowKeeps` | `OneSharer` |
| `SavedIsInTable` | `SavedIsThere` | `OneSharer` |
| `OnlyOwnRow` | `OnlyItsRow` | `OneSharer` |

`OneSharer`: at most one goroutine calls `New`, since all instances made by it
are one container (`gomodel.go:25`), a departure of the code (section 5) and
not a simplification. Nothing is supposed of keys or of rows that are deleted.
Where a Save that found no row sends an INSERT without the key its instance has
(`Strays`: an auto key, which the program set or whose row is gone, or a partial
save of an integer rowid; `instances.go:213`), the properties say what is left
of the promise: the value is in a new row, whose key the database chose, and no
row that was there is touched. `Inv` says of each goroutine what its container
may hold and that a Save keeps its key. Nothing is assumed of what the others do
between the UPDATE and the INSERT. `FoundRowKeeps` is about what the Save itself
adds: a default that `New`, or an INSERT that failed, put in the instance
earlier is what the instance holds, and is written like any other value.

### Registries

`StartIsComplete` (`[]StartOpensAll`), `StopIsComplete`
(`[]StoppedMeansClosed`), `ModelsAreReady` (`[]RegistryInv`) and
`RegisterHasReason` (`[]RegisterVerdict`), of `AppSpec`, without a hypothesis.
`StartOpensAll` speaks of handles, not of connections (section 5). `DbInv` adds
to the two properties of the database registry what a running `Start` has opened
so far. `RegInv` says how far a running `Register` is (`Past`): the settings and
models it is past are there, and those only; and that every key and index it has
set so far belongs to a model that can bear it (`Marked`), although a panic
takes none of it back. `OwnedModels` follows `m.app`: the application a model
says it is of is set before any check and never taken back, but that application
is in the registry as long as the model is reachable.

### Assumptions

All are evaluated by TLC on the instances. `AppsAssumption`: finitely many
nodes, dependencies are nodes (what the loader accepts); `DatabasesAssumption`;
`SchemasAssumption`: operations are partial functions on schemas;
`RequestsAssumption`: a call for all applications has no target
(`RunOptions.Node` is not looked at then). `InputsAssumption` (`Listed`,
`Written`): a folder is a finite list of files in the order of their names.
`ModelsAssumption`: a model has finitely many fields, names are names, calls are
lists of settings. `RegistryAssumption`, `InstanceAssumption`: types.
`QueryAssumption`, `TableAssumption`: types, and no field twice in an Update;
`ConditionersAssumption`: a conditioner is made of ones made before it, the
program's values being finite and acyclic. `NeedyAssumption`: types.
`AlterAssumption`: columns differ and have types, and neither an indexed field
nor the primary key is dropped (`gomodel.go:221`).

### Only model-checked

Liveness (`CallReturns`, `Recovers`, `BothRecover`), which the prover does not
reach. `OrderIndependent`, `PreviousIsReplay` and the five
properties of `SchemaEvolution`: what a list of operations or files computes,
which is an induction over data.

## 5. Departures met while modelling

Besides the three above, the following. Those with a name in parentheses are in
the models: a run over them violates or would violate that property, so the
passing runs keep their constants or the property away from them. The others
were read in the code.

Migrations:

- `history.go:177`: migrating to `0000` with nothing applied runs the first
  node, `migrate` starting from `migrations[0]` (`GoalReached`).
- `history.go:180`: going back reverts only the next node and what depends on
  it; a greater node on another branch stays, against `migration/README.md:176`
  (`GoalReached`).
- `nodes.go:135`, `248`: faked calls for any database write the rows of the
  default one.
- `nodes.go:193`: the flag of a node is as old as the call, and neither it nor
  the row is looked at again when the node is run. Where a later node deletes
  what it creates, another process runs and records it again: with a1 creating a
  table and a2 deleting it, one that read the rows first finds the table gone,
  creates it and inserts a second row for a1, after the other ran both, against
  `nodes.go:108` (`OneRowEach`; `LastingBy`). Next to a crash and a reversal it
  may leave a table behind that every later call fails on (`BothRecover`, whose
  instance deletes nothing). On a database that is not the default one a single
  process does the same, for the reason in `run_replica` (`SchemaMatchesRows` is
  of the default one).
- `nodes.go:193`: of two processes, one going back while the other goes forwards
  may leave a node recorded without its dependency, which the second saw applied
  when it began (`ForwardClosed`, `ForwardReached`); a node without operations
  gets a row from each (`OneRowEach`); without transactions a node that one of
  them half carried out is refused to the other.
- `migrations.go:125`: `MakeAndRun`, which `migration/README.md:77` offers to
  programs without files, does nothing and returns nil when the program has
  changed since its first node was recorded, against its comment, "propagates
  all the application models to the database schema" (`Propagates` says that it
  takes effect once and whole, and none after). It also fails on an application
  without models, which `Run` skips.
- `migrations.go:53`: `Make` with `Empty`, "used to create an empty migration
  file" (`migrations.go:34`), returns before any file is written.
- `engines.go:308`, `engines_sqlite3.go:98`: a column that is NOT NULL without a
  default is refused, also for an empty table. `Make` does not look at it, so it
  writes files that no database accepts, and files whose `RemoveFields` cannot
  be reversed (`AsksFor` in `NodesRun`).
- `nodes.go:391`: where a node is met twice and models or fields are removed in
  between, `loadPreviousState` gives another state than the files describe: with
  a2 deleting the model of a1, a3 making it again and needing b1, which needs
  a1, a4 is run on a state in which a3's model is that of a1
  (`PreviousIsReplay`).
- `nodes.go:102`: a file that names another application than its folder's is
  stashed and applied under that name.
- `operations_models.go:93`: reversing `DeleteModel` does not make the indexes
  again (`Mislaid` in `SchemaEvolution`).
- `history.go:86`: indexes and fields are compared by name only (`Names`); an
  index whose name moves to another model may be created before it is dropped
  (`Moves`).
- `gomodel.go:228`: dropping a field together with its use in an index that
  keeps its name makes every `Make` fail (`outcome = "makeFailed"`).

Queries and engines:

- `querysets.go:173`: `Exclude` also leaves out rows in which the column is NULL
  (the second half of `SelectsMeant`).
- `engines.go:400`: nil compared with anything but `=` is sent as a NULL, so
  that the condition is unknown of every row: `Exclude(Q{"age >": nil})` leaves
  out all of them (`NilTested`).
- `engines.go:463`: a conditioner that is empty and stays alone, or comes
  second, makes a statement the database cannot read.
- `querysets.go:314`: `Get` does not look at `rows.Err` (`broken` in
  `GetIsExact`).
- `querysets.go:186`: `Only("pk")` makes `Load` and `Get` panic on a container
  that is a builder, and fail on a struct (the outcome "panic" of `Query`).
- `engines_sqlite3.go:65`: values that land in another column are converted to
  its type, "007" to 7, and a NULL in an integer key is numbered; which values
  are lost is up to the types (`Altered`).
- `engines_sqlite3.go:140`: `DropColumns` passes columns where fields are meant,
  a panic when a kept column has a name of its own ("panic" of `SqliteAlter`);
  if that name is another field's, that field is kept instead (`OwnNames`);
  `engines_sqlite3.go:52`: dropping every column drops none.
- `engines.go:518`: on PostgreSQL an INSERT into a table whose key is not a
  number writes the row and returns an error, the key being scanned into an
  `int64` (`KeyIsRead`).

Instances:

- `instances.go:213`: saving an object with an auto incremented key that has no
  row, because it is gone or because the program chose the key, inserts it under
  another, which the instance does not learn, and returns nil: no row matches
  its key, against `instances.go:239`, and each further Save inserts one more; a
  partial save of a new object leaves its key out (`Strays` in `SavedIsThere`
  and `OnlyItsRow`).
- `gomodel.go:30`, `instances.go:130`: a default that `New` or a failed INSERT
  put in an instance stays there, and a Save that finds a row then writes it
  over what the row has (`FoundRowKeeps` is about what the Save itself adds).
- `gomodel.go:25`: all instances made by `New` share the container of the model
  (`Separate`).
- `managers.go:49`: `Create` looks at `AutoNowAdd` but not at `AutoNow`, so a
  column with the latter is left NULL, or refuses the row; the comments of
  `fields.go:20-25` have the two the other way round.
- `instances.go:123`: an object made by `New` and saved over a row that exists
  sends NULL for a creation time, which a NOT NULL column refuses (`Updates`).
- `instances.go:132`: a container that is a struct has a value for every field,
  so a Save never sends defaults from one.
- `engines.go:561`: a Save of one field that has no value, or of an object whose
  model has a key only, sends an UPDATE that sets nothing, which is no SQL
  (`Updates`).
- `engines.go:528`: after a `Create` whose answer was lost the instance has no
  key when the database chose it, and saving it makes a second row.

Registries:

- `engines.go:122`: `openDB` is `sql.Open` and nothing calls `Ping`, so `Start`
  returns nil for a database that does not answer, against `db.go:70`, and the
  first query finds out (`StartOpensAll` speaks of handles).
- `db.go:104`: `Stop` leaves the closed databases in the registry, against
  `db.go:101`, so a later `Start` without a default database does not panic, and
  queries go to closed connections.
- `gomodel.go:144`: a model that was refused for having two primary keys keeps
  one, and is accepted the next time (`RegisterVerdict`).
- `gomodel.go:188`: a model with an indexed field cannot be registered again
  under the same name after `ClearRegistry`; one that is registered in two
  applications belongs to the second (`appOf`) and has an index named after
  each.
- `history.go:290`: after `ClearRegistry`, or a `Start` that panicked, the first
  `Run` finds no application for its own model.

## 6. Not modelled

Texts, quoting, column types and the conversions of values (but for what
`SqliteAlter` says of them), JSON and the file system, but for writes and reads
that fail. Reflection over containers is
reduced to which container holds what; containers that are structs are left out.
The transactions a program opens itself (`SaveOn`, `CreateOn`, `WithTx`) only
choose where a statement goes. Count and Exists change nothing and use the same
predicate. Objects have no identity beyond their keys, so that an instance which
overwrites the row that took its key is not told from one that saves its own.
Errors, the mocked engine and the benchmarks keep no state.

## 7. The plan

Done, in this order: `MigrationRun` with its ledger and proofs; `AppState` and
`SchemaEvolution`; `HistoryLoad`; `QueryConditions`; `SqliteAlter`;
`InstanceSave`; `QuerySet`; `DbRegistry`; `ConcurrentRun`; loads that fail and
the previous states in `HistoryLoad`; failing writes and `MakeAndRun` in
`SchemaEvolution`; fields and lost answers in `InstanceSave`; `AppRegistry`.

Then the proofs, in the order of section 4.

Left, to prove:

1. `SchemaFollowsState` of `SchemaEvolution` for one operation at a time: what
   `Run` followed by `Backwards` leaves, without the induction over files.
2. `Coherent` of the files `Make` writes, which would join `SchemaEvolution` and
   `MigrationRun` into one theorem.
