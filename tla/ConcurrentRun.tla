---------------------------- MODULE ConcurrentRun ----------------------------
(***************************************************************************)
(* Two processes that migrate the same databases: two copies of a program  *)
(* started at the same time, or a program and an operator.  Nothing in     *)
(* migration.Run keeps them apart: each decides what to run from the rows  *)
(* it read when its call began, and the table of applied nodes has no      *)
(* unique index.  What is left is the database, which carries out one      *)
(* writing transaction at a time (SQLite's lock).                          *)
(*                                                                         *)
(* The variables of MigrationRun are those of one process; the registers   *)
(* with a 2 are the other's.                                               *)
(***************************************************************************)
EXTENDS MigrationRun

VARIABLES
    tx2, pc2, call2, pending2, applied2, stack2, done2, result2,
    reverted        \* history: some call has gone back

registers == <<tx, pc, call, pending, applied, stack, done, result>>
registers2 ==
    <<tx2, pc2, call2, pending2, applied2, stack2, done2, result2>>
allVars == <<disk, registers, registers2, reverted>>

Other == INSTANCE MigrationRun WITH
    tx <- tx2, pc <- pc2, call <- call2, pending <- pending2,
    applied <- applied2, stack <- stack2, done <- done2, result <- result2

BothInit ==
    /\ Init
    /\ Other!Init
    /\ reverted = FALSE

\* A process whose transaction is open has the lock of its database.
HasLock(d) == pc \in {"ops", "commit"} /\ InTx /\ call.db = d
OtherHasLock(d) == pc2 \in {"ops", "commit"} /\ Other!InTx /\ call2.db = d

\* Whoever has not the lock of the other's database writes nothing there and
\* opens no transaction; it waits, or fails with the error that it is locked.
WaitsFor(d, theirs, mine) ==
    theirs =>
        /\ d \in tables' <=> d \in tables
        /\ rows'[d] = rows[d] /\ schema'[d] = schema[d]
        /\ ~mine

Noted == reverted' = (reverted \/ call'.back \/ call2'.back)

Mine(step) ==
    /\ step
    /\ \A d \in Databases : WaitsFor(d, OtherHasLock(d), HasLock(d)')
    /\ UNCHANGED registers2
    /\ Noted

Theirs(step) ==
    /\ step
    /\ \A d \in Databases : WaitsFor(d, HasLock(d), OtherHasLock(d)')
    /\ UNCHANGED registers
    /\ Noted

BothNext == Mine(Next) \/ Theirs(Other!Next)

BothSpec == BothInit /\ [][BothNext]_allVars

\* Each process goes on while it is not made to wait, and is started again.
Restarts ==
    \A req \in {r \in Requests : Whole(r)} :
        /\ SF_allVars(Mine(Start(req)))
        /\ SF_allVars(Theirs(Other!Start(req)))

BothFair ==
    /\ BothSpec
    /\ WF_allVars(Mine(Progress))
    /\ WF_allVars(Theirs(Other!Progress))
    /\ Restarts

------------------------------------------------------------------------------
(* Properties *)

\* A node with operations gets one row at most, though both may set out to run
\* it: the second is refused by its first operation, as long as what it created
\* is still there.  (Nothing refuses it when a later node, of which it does not
\* know, has deleted that: the node is then run and recorded again.  The theorem
\* supposes that work lasts, LastingBy, as it does in the instance.)
OneRowEach ==
    /\ (pc = "commit" /\ ~call.back /\ Ops[Node] > 0) =>
            Node \notin rows[call.db]
    /\ (pc2 = "commit" /\ ~call2.back /\ Ops[Other!Node] > 0) =>
            Other!Node \notin rows[call2.db]

\* As long as nobody goes back, the ledger stays closed whatever the two do ...
ForwardClosed == ~reverted => LedgerClosed

Covered(c) ==
    \A a \in Apps : c.app \in {a, AllApps} =>
        {a} \X (1 .. IF c.target = Latest THEN Last[a] ELSE c.target)
            \subseteq rows[Default]

\* ... and a call that returns nil has every node up to its target recorded.
\* (Of the calls for the default database: the others record elsewhere.)
ForwardReached ==
    ~reverted =>
        /\ (pc = "idle" /\ result = "ok" /\ call.db = Default) => Covered(call)
        /\ (pc2 = "idle" /\ result2 = "ok" /\ call2.db = Default) =>
                Covered(call2)

\* Two programs that start again after each failure both get through: when the
\* faults and the reversals stop, refusals do too.
BothRecover ==
    <>[][~Fault /\ ~Other!Fault /\ rows[Default] \subseteq rows'[Default]]_allVars =>
        /\ []<>(pc = "idle" /\ result = "ok" /\ rows[Default] = Nodes)
        /\ []<>(pc2 = "idle" /\ result2 = "ok" /\ rows[Default] = Nodes)
=============================================================================
