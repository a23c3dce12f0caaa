-------------------------- MODULE ConcurrentRunProofs --------------------------
(***************************************************************************)
(* Proofs about two processes that migrate the same databases: a node with *)
(* operations is recorded once, and as long as nobody goes back the table  *)
(* of applied nodes stays closed and nil means what it says.  What one     *)
(* process does is known from the proofs about one; P2 states them of the  *)
(* other.                                                                  *)
(***************************************************************************)
EXTENDS ConcurrentRun, MigrationGoalProofs

P2 == INSTANCE MigrationGoalProofs WITH
    tx <- tx2, pc <- pc2, call <- call2, pending <- pending2,
    applied <- applied2, stack <- stack2, done <- done2, result <- result2

------------------------------------------------------------------------------
(* The other process is such a process, too *)

\* The constants are the same for both.
LEMMA SameAssumptions ==
    /\ P2!AppsAssumption /\ P2!SchemasAssumption
    /\ P2!DatabasesAssumption /\ P2!RequestsAssumption
<1>1. P2!AppsAssumption
  BY AppsAssumption
     DEF P2!AppsAssumption, P2!Nodes, Nodes, P2!IsFiniteSet, IsFiniteSet
<1>2. P2!DatabasesAssumption
  BY DatabasesAssumption DEF P2!DatabasesAssumption
<1>3. P2!RequestsAssumption
  BY RequestsAssumption DEF P2!RequestsAssumption
<1>4. P2!SchemasAssumption
  BY SchemasAssumption
     DEF P2!SchemasAssumption, P2!Changes, Changes, P2!Nodes, Nodes,
         P2!IsPartial, IsPartial
<1> QED
  BY <1>1, <1>2, <1>3, <1>4

\* The orders in which the other process may walk the graph.
LEMMA SameOrders == \A n, back : Other!Orders(n, back) = P2!Orders(n, back)
<1>1. \A n : Other!NeededBy(n) = P2!NeededBy(n)
  BY DEF Other!NeededBy, P2!NeededBy, Other!Nodes, P2!Nodes, Other!Needs,
         P2!Needs
<1>2. \A s : Other!Cardinality(s) = P2!Cardinality(s)
  BY DEF Other!Cardinality, P2!Cardinality
<1>3. \A n : Other!BackOrders(n) = P2!BackOrders(n)
  BY <1>1, <1>2 DEF Other!BackOrders, P2!BackOrders
<1> QED
  BY <1>3 DEF Other!Orders, P2!Orders

\* The actions of the model are those the proofs are about.
LEMMA SameNext == Other!Next <=> P2!Next
<1>1. \A req : Other!Start(req) <=> P2!Start(req)
  BY DEF Other!Start, P2!Start, Other!disk, P2!disk
<1>2. Other!CreateTable <=> P2!CreateTable
  BY DEF Other!CreateTable, P2!CreateTable
<1>3. Other!LoadApplied <=> P2!LoadApplied
  BY DEF Other!LoadApplied, P2!LoadApplied, Other!disk, P2!disk
<1>4. Other!LoadAppliedRefused <=> P2!LoadAppliedRefused
  BY DEF Other!LoadAppliedRefused, P2!LoadAppliedRefused, Other!Return,
         P2!Return, Other!Closed, P2!Closed, Other!disk, P2!disk
<1>5. Other!FinishRun <=> P2!FinishRun
  BY DEF Other!FinishRun, P2!FinishRun, Other!Return, P2!Return, Other!Closed,
         P2!Closed, Other!disk, P2!disk
<1>6. \A a : Other!Migrate(a) <=> P2!Migrate(a)
  <2>1. \A a : Other!BadTarget(a) <=> P2!BadTarget(a)
    BY DEF Other!BadTarget, P2!BadTarget
  <2>2. \A a : Other!Backwards(a) <=> P2!Backwards(a)
    BY DEF Other!Backwards, P2!Backwards
  <2>3. \A a : Other!Goal(a) = P2!Goal(a)
    BY <2>2 DEF Other!Goal, P2!Goal
  <2>4. \A n, back : Other!IsSettled(n, back) <=> P2!IsSettled(n, back)
    BY DEF Other!IsSettled, P2!IsSettled
  <2> QED
    BY SameOrders, <2>1, <2>2, <2>3, <2>4
       DEF Other!Migrate, P2!Migrate, Other!disk, P2!disk
<1>7. \A a : Other!MigrateFails(a) <=> P2!MigrateFails(a)
  BY DEF Other!MigrateFails, P2!MigrateFails, Other!BadTarget, P2!BadTarget,
         Other!Return, P2!Return, Other!Closed, P2!Closed, Other!disk, P2!disk
<1>8. Other!SkipDep <=> P2!SkipDep
  BY DEF Other!SkipDep, P2!SkipDep, Other!Top, P2!Top, Other!Settled,
         P2!Settled, Other!IsSettled, P2!IsSettled, Other!Advance, P2!Advance,
         Other!disk, P2!disk
<1>9. Other!EnterDep <=> P2!EnterDep
  BY SameOrders
     DEF Other!EnterDep, P2!EnterDep, Other!Top, P2!Top, Other!Settled,
         P2!Settled, Other!IsSettled, P2!IsSettled, Other!Advance, P2!Advance,
         Other!disk, P2!disk
<1>10. Other!FakeNode <=> P2!FakeNode
  BY DEF Other!FakeNode, P2!FakeNode, Other!Ready, P2!Ready, Other!Record,
         P2!Record, Other!Settle, P2!Settle, Other!Pop, P2!Pop, Other!Node,
         P2!Node, Other!Top, P2!Top
<1>11. Other!Begin <=> P2!Begin
  BY DEF Other!Begin, P2!Begin, Other!Ready, P2!Ready, Other!InTx, P2!InTx,
         Other!Top, P2!Top, Other!disk, P2!disk
<1>12. Other!RunOp <=> P2!RunOp
  BY DEF Other!RunOp, P2!RunOp, Other!NextChange, P2!NextChange, Other!Change, P2!Change, Other!Seen,
         P2!Seen, Other!Changed, P2!Changed, Other!Possible, P2!Possible,
         Other!InTx, P2!InTx, Other!Node, P2!Node, Other!Top, P2!Top
<1>13. Other!RunOpRefused <=> P2!RunOpRefused
  BY DEF Other!RunOpRefused, P2!RunOpRefused, Other!NextChange, P2!NextChange, Other!Change, P2!Change,
         Other!Seen, P2!Seen, Other!Changed, P2!Changed, Other!Possible,
         P2!Possible, Other!InTx, P2!InTx, Other!Node, P2!Node, Other!Top,
         P2!Top, Other!Return, P2!Return, Other!Closed, P2!Closed, Other!disk,
         P2!disk
<1>14. Other!WriteRowInTx <=> P2!WriteRowInTx
  BY DEF Other!WriteRowInTx, P2!WriteRowInTx, Other!InTx, P2!InTx, Other!disk,
         P2!disk, Other!Record, P2!Record, Other!Node, P2!Node, Other!Top,
         P2!Top
<1>15. Other!WriteRowAlone <=> P2!WriteRowAlone
  BY DEF Other!WriteRowAlone, P2!WriteRowAlone, Other!InTx, P2!InTx,
         Other!Record, P2!Record, Other!Settle, P2!Settle, Other!Pop, P2!Pop,
         Other!Node, P2!Node, Other!Top, P2!Top
<1>16. Other!Commit <=> P2!Commit
  BY DEF Other!Commit, P2!Commit, Other!Install, P2!Install, Other!Closed,
         P2!Closed, Other!Settle, P2!Settle, Other!Pop, P2!Pop, Other!Node,
         P2!Node, Other!Top, P2!Top
<1>17. Other!CreateTableFails <=> P2!CreateTableFails
  BY DEF Other!CreateTableFails, P2!CreateTableFails, Other!Return, P2!Return,
         Other!Closed, P2!Closed
<1>18. Other!LoadAppliedFails <=> P2!LoadAppliedFails
  BY DEF Other!LoadAppliedFails, P2!LoadAppliedFails, Other!Return, P2!Return,
         Other!Closed, P2!Closed, Other!disk, P2!disk
<1>19. Other!FakeNodeFails <=> P2!FakeNodeFails
  BY DEF Other!FakeNodeFails, P2!FakeNodeFails, Other!Ready, P2!Ready,
         Other!Return, P2!Return, Other!Closed, P2!Closed, Other!Record,
         P2!Record, Other!Node, P2!Node, Other!Top, P2!Top
<1>20. Other!BeginFails <=> P2!BeginFails
  BY DEF Other!BeginFails, P2!BeginFails, Other!Ready, P2!Ready, Other!InTx,
         P2!InTx, Other!Top, P2!Top, Other!Return, P2!Return, Other!Closed,
         P2!Closed, Other!disk, P2!disk
<1>21. Other!RunOpFails <=> P2!RunOpFails
  BY DEF Other!RunOpFails, P2!RunOpFails, Other!Return, P2!Return,
         Other!Closed, P2!Closed, Other!NextChange, P2!NextChange, Other!Change, P2!Change, Other!Seen,
         P2!Seen, Other!Changed, P2!Changed, Other!Possible, P2!Possible,
         Other!InTx, P2!InTx, Other!Node, P2!Node, Other!Top, P2!Top
<1>22. Other!WriteRowFails <=> P2!WriteRowFails
  BY DEF Other!WriteRowFails, P2!WriteRowFails, Other!InTx, P2!InTx,
         Other!Return, P2!Return, Other!Closed, P2!Closed, Other!Record,
         P2!Record, Other!Node, P2!Node, Other!Top, P2!Top
<1>23. Other!CommitFails <=> P2!CommitFails
  BY DEF Other!CommitFails, P2!CommitFails, Other!Install, P2!Install,
         Other!Return, P2!Return, Other!Closed, P2!Closed
<1>24. Other!Crash <=> P2!Crash
  BY DEF Other!Crash, P2!Crash, Other!Return, P2!Return, Other!Closed,
         P2!Closed, Other!disk, P2!disk
<1>25. Other!Walk <=> P2!Walk
  BY <1>5, <1>6, <1>7, <1>8, <1>9 DEF Other!Walk, P2!Walk
<1>26. Other!Progress <=> P2!Progress
  BY <1>2, <1>3, <1>4, <1>10, <1>11, <1>12, <1>13, <1>14, <1>15, <1>16, <1>25
     DEF Other!Progress, P2!Progress
<1>27. Other!Fault <=> P2!Fault
  BY <1>17, <1>18, <1>19, <1>20, <1>21, <1>22, <1>23, <1>24
     DEF Other!Fault, P2!Fault
<1> QED
  BY <1>1, <1>26, <1>27 DEF Other!Next, P2!Next

\* ... and they speak of the same nodes and databases.
LEMMA SameWords ==
    /\ P2!NoFakes <=> NoFakes
    /\ P2!Chained <=> Chained
    /\ P2!DiskOK <=> DiskOK
    /\ P2!DiskOK' <=> DiskOK'
    /\ \A C : P2!LastingBy(C) <=> LastingBy(C)
    /\ \A C, d : P2!Marked(C, d) <=> Marked(C, d)
    /\ \A C, d : P2!Marked(C, d)' <=> Marked(C, d)'
    /\ \A d : P2!DepClosed(d) <=> DepClosed(d)
    /\ \A d : P2!DepClosed(d)' <=> DepClosed(d)'
    /\ P2!InTx <=> Other!InTx
    /\ P2!Node = Other!Node
<1>1. /\ P2!Nodes = Nodes
      /\ \A n : P2!Needs(n) = Needs(n)
  BY DEF P2!Nodes, Nodes, P2!Needs, Needs
<1>2. \A C : P2!LastingBy(C) <=> LastingBy(C)
  <2>1. P2!Changes = Changes
    BY <1>1 DEF P2!Changes, Changes
  <2>2. \A change, mark : P2!Keeps(change, mark) <=> Keeps(change, mark)
    BY DEF P2!Keeps, Keeps
  <2> QED
    BY <1>1, <2>1, <2>2 DEF P2!LastingBy, LastingBy
<1>3. (P2!NoFakes <=> NoFakes) /\ (P2!Chained <=> Chained)
  BY <1>1 DEF P2!NoFakes, NoFakes, P2!Chained, Chained
<1>4. (P2!DiskOK <=> DiskOK) /\ (P2!DiskOK' <=> DiskOK')
  BY <1>1 DEF P2!DiskOK, DiskOK
<1>5. /\ \A C, d : P2!Marked(C, d) <=> Marked(C, d)
      /\ \A C, d : P2!Marked(C, d)' <=> Marked(C, d)'
  BY <1>1 DEF P2!Marked, Marked
<1>6. /\ \A d : P2!DepClosed(d) <=> DepClosed(d)
      /\ \A d : P2!DepClosed(d)' <=> DepClosed(d)'
  BY <1>1 DEF P2!DepClosed, DepClosed
<1>7. (P2!InTx <=> Other!InTx) /\ P2!Node = Other!Node
  BY DEF P2!InTx, Other!InTx, P2!Node, Other!Node, P2!Top, Other!Top
<1> QED
  BY <1>2, <1>3, <1>4, <1>5, <1>6, <1>7

\* What is known of a process that starts, of the other one.
LEMMA TheirInit == Other!Init => P2!Forward /\ P2!Task /\ ~call2.fake
<1>1. Other!Init => P2!Init
  BY DEF Other!Init, P2!Init, Other!Closed, P2!Closed
<1>2. P2!Init => P2!Forward
  BY P2!ForwardInit, SameAssumptions
     DEF P2!AppsAssumption, P2!SchemasAssumption, P2!DatabasesAssumption,
        P2!RequestsAssumption
<1>3. P2!Forward => P2!Task
  BY DEF P2!Forward
<1>4. P2!Init => ~call2.fake
  BY DEF P2!Init
<1> QED
  BY <1>1, <1>2, <1>3, <1>4

\* ... and of a step of its.
LEMMA TheirStep ==
    ASSUME [P2!Next]_(P2!vars), P2!Task
    PROVE  /\ P2!Task'
           /\ NoFakes /\ ~call2.fake => ~call2'.fake
           /\ \A C : LastingBy(C) => \A d \in TxSupport :
                Marked(C, d) /\ (call2.fake => d # Default) => Marked(C, d)'
           /\ ~call2.back => rows[Default] \subseteq rows'[Default]
           /\ P2!Forward /\ ~call2.back /\ ~call2'.back => P2!Forward'
<1> USE SameAssumptions
    DEF P2!AppsAssumption, P2!SchemasAssumption, P2!DatabasesAssumption,
        P2!RequestsAssumption
<1>1. P2!Task'
  BY P2!TaskStep
<1>2. NoFakes /\ ~call2.fake => ~call2'.fake
  BY P2!FakeStays, SameWords
<1>3. ASSUME NEW C, LastingBy(C), NEW d \in TxSupport, Marked(C, d),
             call2.fake => d # Default
      PROVE  Marked(C, d)'
  BY <1>3, P2!MarkStep, SameWords
<1>4. ~call2.back => rows[Default] \subseteq rows'[Default]
  BY P2!RowsGrow, DatabasesAssumption
<1>5. P2!Forward /\ ~call2.back /\ ~call2'.back => P2!Forward'
  BY P2!ForwardStep
<1> QED
  BY <1>1, <1>2, <1>3, <1>4, <1>5

\* What the other process keeps while this one takes a step.
LEMMA TheyKeep ==
    ASSUME P2!Task, DiskOK', UNCHANGED registers2,
           \A d \in Databases : OtherHasLock(d) =>
                rows'[d] = rows[d] /\ schema'[d] = schema[d]
    PROVE  /\ P2!Task'
           /\ P2!Forward /\ rows[Default] \subseteq rows'[Default]
                /\ DepClosed(Default)' => P2!Forward'
<1> USE SameAssumptions
    DEF P2!AppsAssumption, P2!SchemasAssumption, P2!DatabasesAssumption,
        P2!RequestsAssumption
<1>1. UNCHANGED <<tx2, pc2, call2, pending2, applied2, stack2, done2, result2>>
  BY DEF registers2
<1>2. call2.db \in Databases
  BY P2!DiskTyped DEF P2!Task
<1>3. pc2 \in {"ops", "commit"} /\ P2!InTx =>
        rows'[call2.db] = rows[call2.db] /\ schema'[call2.db] = schema[call2.db]
  BY <1>2, SameWords DEF OtherHasLock
<1>4. P2!Task'
  BY <1>1, <1>3, P2!TaskKept, SameWords
<1>5. ASSUME P2!Forward, rows[Default] \subseteq rows'[Default],
             DepClosed(Default)'
      PROVE  P2!Forward'
  <2>1. P2!Walked /\ P2!Known /\ P2!Aiming
    BY <1>5 DEF P2!Forward
  <2>2. P2!Walked'
    BY <1>1, <2>1, P2!WalkedKept, SameWords
  <2>3. P2!Known' /\ P2!Aiming'
    BY <1>1, <1>5, <2>1, P2!OthersAdd
  <2> QED
    BY <1>4, <1>5, <2>2, <2>3, SameWords DEF P2!Forward
<1> QED
  BY <1>4, <1>5

\* ... and this one while the other does.
LEMMA IKeep ==
    ASSUME Task, DiskOK', UNCHANGED registers,
           \A d \in Databases : HasLock(d) =>
                rows'[d] = rows[d] /\ schema'[d] = schema[d]
    PROVE  /\ Task'
           /\ Forward /\ rows[Default] \subseteq rows'[Default]
                /\ DepClosed(Default)' => Forward'
<1>1. UNCHANGED <<tx, pc, call, pending, applied, stack, done, result>>
  BY DEF registers
<1>2. pc \in {"ops", "commit"} /\ InTx =>
        rows'[call.db] = rows[call.db] /\ schema'[call.db] = schema[call.db]
  BY DiskTyped DEF Task, HasLock
<1>3. Task'
  BY <1>1, <1>2, TaskKept
<1> QED
  BY <1>1, <1>3, WalkedKept, OthersAdd DEF Forward

\* Which of the two takes a step, and what it leaves alone.
LEMMA OneAtATime ==
    ASSUME [BothNext]_allVars
    PROVE  \/ /\ [Next]_vars /\ UNCHANGED registers2
              /\ \A d \in Databases : OtherHasLock(d) =>
                    rows'[d] = rows[d] /\ schema'[d] = schema[d]
           \/ /\ [P2!Next]_(P2!vars) /\ UNCHANGED registers
              /\ \A d \in Databases : HasLock(d) =>
                    rows'[d] = rows[d] /\ schema'[d] = schema[d]
<1>1. CASE Mine(Next)
  BY <1>1 DEF Mine, WaitsFor
<1>2. CASE Theirs(Other!Next)
  BY <1>2, SameNext DEF Theirs, WaitsFor
<1>3. CASE UNCHANGED allVars
  BY <1>3 DEF allVars, disk, registers, registers2, vars
<1> QED
  BY <1>1, <1>2, <1>3 DEF BothNext

------------------------------------------------------------------------------
(* Rows and marks *)

\* Each process holds on to what its transaction needs, whatever the other does,
\* and where there are transactions the rows and the marks that the nodes leave
\* on the schema agree.
BothMarked(C) ==
    /\ Task /\ P2!Task
    /\ ~call.fake /\ ~call2.fake
    /\ \A d \in TxSupport : Marked(C, d)

\* At first no table has a row and no process runs.
LEMMA BothMarkedInit ==
    ASSUME NEW C, LastingBy(C)
    PROVE  BothInit => BothMarked(C)
<1> SUFFICES ASSUME BothInit PROVE BothMarked(C)
  OBVIOUS
<1>1. Task /\ P2!Task /\ ~call.fake /\ ~call2.fake
  BY WorkInit, TheirInit DEF BothInit, Init, Worked
<1>2. \A d \in TxSupport : rows[d] = {} /\ schema[d] = Blank
  BY DatabasesAssumption DEF BothInit, Init
<1>3. \A d \in TxSupport : Marked(C, d)
  BY <1>2 DEF Marked, LastingBy
<1> QED
  BY <1>1, <1>3 DEF BothMarked

\* A step of one process changes no database of whose lock the other is in
\* need, so that the other's invariant holds on.
LEMMA BothMarkedStep ==
    ASSUME NEW C, LastingBy(C), NoFakes
    PROVE  BothMarked(C) /\ [BothNext]_allVars => BothMarked(C)'
<1> SUFFICES ASSUME BothMarked(C), [BothNext]_allVars PROVE BothMarked(C)'
  OBVIOUS
<1>1. ASSUME [Next]_vars, UNCHANGED registers2,
             \A d \in Databases : OtherHasLock(d) =>
                rows'[d] = rows[d] /\ schema'[d] = schema[d]
      PROVE  BothMarked(C)'
  <2>1. Task' /\ DiskOK' /\ call2' = call2
    BY <1>1, TaskStep DEF BothMarked, Task, Typed, TypeOK, DiskOK, registers2
  <2>2. P2!Task'
    BY <1>1, <2>1, TheyKeep DEF BothMarked
  <2>3. ~call'.fake /\ ~call2'.fake
    BY <1>1, <2>1, FakeStays, NoFakes DEF BothMarked
  <2>4. \A d \in TxSupport : Marked(C, d)'
    BY <1>1, LastingBy(C), MarkStep DEF BothMarked
  <2> QED
    BY <2>1, <2>2, <2>3, <2>4 DEF BothMarked
<1>2. ASSUME [P2!Next]_(P2!vars), UNCHANGED registers,
             \A d \in Databases : HasLock(d) =>
                rows'[d] = rows[d] /\ schema'[d] = schema[d]
      PROVE  BothMarked(C)'
  <2>1. P2!Task' /\ call' = call
    BY <1>2, TheirStep DEF BothMarked, registers
  <2>2. DiskOK'
    <3>1. P2!DiskOK'
      BY <2>1 DEF P2!Task, P2!Typed, P2!TypeOK, P2!DiskOK
    <3> QED
      BY <3>1, SameWords
  <2>3. Task'
    BY <1>2, <2>2, IKeep DEF BothMarked
  <2>4. ~call'.fake /\ ~call2'.fake
    BY <1>2, <2>1, TheirStep, NoFakes DEF BothMarked
  <2>5. \A d \in TxSupport : Marked(C, d)'
    BY <1>2, LastingBy(C), TheirStep DEF BothMarked
  <2> QED
    BY <2>1, <2>3, <2>4, <2>5 DEF BothMarked
<1> QED
  BY <1>1, <1>2, OneAtATime

\* Two processes may both set out to run a node; the one that gets to record it
\* finds no row of the other's: its first operation would have been refused
\* (runOperations), as long as the schema tells whether that was carried out.
THEOREM NodeRecordedOnce ==
    ASSUME NoFakes, NEW C, LastingBy(C)
    PROVE  BothSpec => []OneRowEach
<1>1. ASSUME BothMarked(C)
      PROVE  OneRowEach
  <2>1. ASSUME pc = "commit", ~call.back, Ops[Node] > 0
        PROVE  Node \notin rows[call.db]
    <3>1. InTx /\ Task
      BY <1>1, <2>1 DEF BothMarked, Task
    <3>2. Marked(C, call.db)
      BY <1>1, <3>1 DEF BothMarked, InTx
    <3> QED
      BY <2>1, <3>1, <3>2, LastingBy(C), CommitOnce
  <2>2. ASSUME pc2 = "commit", ~call2.back, Ops[Other!Node] > 0
        PROVE  Other!Node \notin rows[call2.db]
    <3> USE SameAssumptions
        DEF P2!AppsAssumption, P2!SchemasAssumption, P2!DatabasesAssumption,
            P2!RequestsAssumption
    <3>1. Other!InTx /\ P2!Task
      BY <1>1, <2>2, SameWords DEF BothMarked, P2!Task
    <3>2. P2!Marked(C, call2.db)
      BY <1>1, <3>1, SameWords DEF BothMarked, Other!InTx
    <3>3. P2!LastingBy(C) /\ P2!Node = Other!Node
      BY LastingBy(C), SameWords
    <3>4. P2!Node \notin rows[call2.db]
      BY <2>2, <3>1, <3>2, <3>3, P2!CommitOnce
    <3> QED
      BY <3>3, <3>4
  <2> QED
    BY <2>1, <2>2 DEF OneRowEach
<1>2. BothInit => BothMarked(C)
  BY LastingBy(C), BothMarkedInit
<1>3. BothMarked(C) /\ [BothNext]_allVars => BothMarked(C)'
  BY LastingBy(C), NoFakes, BothMarkedStep
<1>4. BothMarked(C) => OneRowEach
  BY <1>1
<1> QED
  BY <1>2, <1>3, <1>4, PTL DEF BothSpec

------------------------------------------------------------------------------
(* The graph, as long as nobody goes back *)

BothForward ==
    /\ Task /\ P2!Task
    /\ ~reverted => ~call.back /\ ~call2.back /\ Forward /\ P2!Forward

\* At first nothing is recorded, and nothing depends on what is missing.
LEMMA BothForwardInit == BothInit => BothForward
<1>1. BothInit => /\ Forward /\ P2!Forward /\ P2!Task
                  /\ ~call.back /\ ~call2.back
  BY ForwardInit, TheirInit DEF BothInit, Init, Other!Init
<1> QED
  BY <1>1 DEF BothForward, Forward

\* A step of one process only adds rows, which the invariant of the other
\* allows for.
LEMMA BothForwardStep == BothForward /\ [BothNext]_allVars => BothForward'
<1> SUFFICES ASSUME BothForward, [BothNext]_allVars PROVE BothForward'
  OBVIOUS
<1>0. ~reverted' => ~reverted /\ ~call'.back /\ ~call2'.back
  BY DEF BothNext, Mine, Theirs, Noted, allVars, registers, registers2, BothForward
<1>1. ASSUME [Next]_vars, UNCHANGED registers2,
             \A d \in Databases : OtherHasLock(d) =>
                rows'[d] = rows[d] /\ schema'[d] = schema[d]
      PROVE  BothForward'
  <2>1. Task' /\ DiskOK'
    BY <1>1, TaskStep DEF BothForward, Task, Typed, TypeOK, DiskOK
  <2>2. P2!Task'
    BY <1>1, <2>1, TheyKeep DEF BothForward
  <2>3. ASSUME ~reverted'
        PROVE  Forward' /\ P2!Forward'
    <3>1. Forward' /\ rows[Default] \subseteq rows'[Default]
      BY <1>0, <1>1, <2>3, ForwardStep, RowsGrow, DatabasesAssumption
         DEF BothForward
    <3> QED
      BY <1>0, <1>1, <2>1, <2>3, <3>1, TheyKeep DEF BothForward, Forward
  <2> QED
    BY <1>0, <2>1, <2>2, <2>3 DEF BothForward
<1>2. ASSUME [P2!Next]_(P2!vars), UNCHANGED registers,
             \A d \in Databases : HasLock(d) =>
                rows'[d] = rows[d] /\ schema'[d] = schema[d]
      PROVE  BothForward'
  <2>1. P2!Task'
    BY <1>2, TheirStep DEF BothForward
  <2>2. DiskOK'
    <3>1. P2!DiskOK'
      BY <2>1 DEF P2!Task, P2!Typed, P2!TypeOK, P2!DiskOK
    <3> QED
      BY <3>1, SameWords
  <2>3. Task'
    BY <1>2, <2>2, IKeep DEF BothForward
  <2>4. ASSUME ~reverted'
        PROVE  Forward' /\ P2!Forward'
    <3>1. P2!Forward' /\ rows[Default] \subseteq rows'[Default]
      BY <1>0, <1>2, <2>4, TheirStep DEF BothForward
    <3>2. DepClosed(Default)'
      BY <3>1, SameWords DEF P2!Forward
    <3> QED
      BY <1>0, <1>2, <2>2, <2>4, <3>1, <3>2, IKeep DEF BothForward
  <2> QED
    BY <1>0, <2>1, <2>3, <2>4 DEF BothForward
<1> QED
  BY <1>1, <1>2, OneAtATime

\* Each process decides from rows that were right when it read them; while rows
\* are only added they stay right, and the table stays closed.
THEOREM ClosedForwards == BothSpec => []ForwardClosed
<1>1. BothForward => ForwardClosed
  BY DEF BothForward, Forward, ForwardClosed, LedgerClosed
<1> QED
  BY <1>1, BothForwardInit, BothForwardStep, PTL DEF BothSpec

\* ... and a call that returns nil has every node up to its target recorded, by
\* whichever process.
THEOREM ReachedForwards ==
    ASSUME Chained
    PROVE  BothSpec => []ForwardReached
<1>1. ASSUME BothForward
      PROVE  ForwardReached
  <2>1. ASSUME Forward, pc = "idle", result = "ok", call.db = Default
        PROVE  Covered(call)
    BY <2>1, Chained, CallIsCovered DEF Covered, Wanted
  <2>2. ASSUME P2!Forward, pc2 = "idle", result2 = "ok", call2.db = Default
        PROVE  Covered(call2)
    <3>1. \A a \in Apps : call2.app \in {a, AllApps} =>
              {a} \X (1 .. P2!Wanted(a)) \subseteq rows[Default]
      BY <2>2, Chained, P2!CallIsCovered, SameAssumptions, SameWords
         DEF P2!AppsAssumption, P2!SchemasAssumption, P2!DatabasesAssumption,
        P2!RequestsAssumption
    <3> QED
      BY <3>1 DEF Covered, P2!Wanted
  <2> QED
    BY <1>1, <2>1, <2>2 DEF BothForward, ForwardReached
<1> QED
  BY <1>1, BothForwardInit, BothForwardStep, PTL DEF BothSpec
=============================================================================
