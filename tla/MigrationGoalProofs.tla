-------------------------- MODULE MigrationGoalProofs --------------------------
(***************************************************************************)
(* Proof that a call which answers nil did what Migrate's comment says     *)
(* (GoalReached), for every graph without cycles in which a node depends   *)
(* on the one before it, as the files that Make writes do, and for every   *)
(* requested node from the first one up.                                   *)
(***************************************************************************)
EXTENDS MigrationRunProofs

\* Each node depends on its predecessor in the application: Make gives a file
\* the last one as a dependency.
Chained ==
    \A a \in Apps : \A k \in 1 .. Last[a] :
        k > 1 => <<a, k - 1>> \in Needs(<<a, k>>)

\* There is no cycle of dependencies (loadHistory refuses them): the nodes can
\* be ranked.
Ranks == {r \in [Nodes -> Nat] : \A n \in Nodes : \A m \in Needs(n) : r[m] < r[n]}
Acyclic == Ranks # {}
Rank == CHOOSE r \in Ranks : TRUE

\* What RunOptions.Node = "0000" does when nothing is applied is another matter.
NoZero == \A req \in Requests : req.target # 0

Hypotheses == Chained /\ Acyclic /\ NoZero

\* In an acyclic graph a node ranks above each node it needs.
LEMMA Ranked ==
    ASSUME Acyclic
    PROVE  /\ Rank \in [Nodes -> Nat]
           /\ \A n \in Nodes : \A m \in Needs(n) : Rank[m] < Rank[n]
BY DEF Acyclic, Ranks, Rank

\* Of two nodes of an application the later one has the higher rank.
LEMMA ChainRank ==
    ASSUME Hypotheses, NEW a \in Apps, NEW j \in 1 .. Last[a],
           NEW k \in 1 .. Last[a], j < k
    PROVE  Rank[<<a, j>>] < Rank[<<a, k>>]
<1> DEFINE T == {i \in Nat : j + i + 1 <= Last[a]
                             /\ ~(Rank[<<a, j>>] < Rank[<<a, j + i + 1>>])}
<1>1. Last[a] \in Nat /\ j \in Nat /\ k \in Nat
  BY AppsAssumption
<1>2. ASSUME T # {}
      PROVE  FALSE
  <2>1. PICK x \in T : \A y \in T : ~(y < x)
    BY <1>2, Least
  <2>2. /\ x \in Nat /\ j + x + 1 <= Last[a]
        /\ j + x \in 1 .. Last[a] /\ j + x + 1 \in 1 .. Last[a] /\ j + x + 1 > 1
        /\ (j + x + 1) - 1 = j + x
    BY <1>1, <2>1
  <2>3. /\ <<a, j + x>> \in Needs(<<a, j + x + 1>>)
        /\ <<a, j + x>> \in Nodes /\ <<a, j + x + 1>> \in Nodes
        /\ <<a, j>> \in Nodes
    BY <2>2, NodeOf DEF Hypotheses, Chained
  <2>4. /\ Rank[<<a, j + x>>] < Rank[<<a, j + x + 1>>]
        /\ Rank[<<a, j + x>>] \in Nat /\ Rank[<<a, j + x + 1>>] \in Nat
        /\ Rank[<<a, j>>] \in Nat
    BY <2>3, Ranked DEF Hypotheses
  <2>5. CASE x = 0
    <3>1. j + x = j
      BY <1>1, <2>5
    <3> QED
      BY <2>1, <2>4, <3>1
  <2>6. CASE x # 0
    <3>1. x - 1 \in Nat /\ x - 1 < x /\ j + (x - 1) + 1 = j + x /\ j + x <= Last[a]
      BY <1>1, <2>2, <2>6
    <3>2. Rank[<<a, j>>] < Rank[<<a, j + x>>]
      <4>1. x - 1 \notin T
        BY <2>1, <3>1
      <4> QED
        BY <3>1, <4>1
    <3> QED
      BY <2>1, <2>4, <3>2
  <2> QED
    BY <2>5, <2>6
<1>3. k - j - 1 \in Nat /\ j + (k - j - 1) + 1 = k /\ k <= Last[a]
  BY <1>1
<1>4. k - j - 1 \notin T
  BY <1>2
<1> QED
  BY <1>3, <1>4

\* A set of nodes that is closed under dependencies has with a node all the
\* earlier ones of its application.
LEMMA ClosedBelow ==
    ASSUME Chained, NEW L, \A n \in L : Needs(n) \subseteq L,
           NEW a \in Apps, NEW k \in 1 .. Last[a], <<a, k>> \in L,
           NEW j \in 1 .. k
    PROVE  <<a, j>> \in L
<1> DEFINE T == {i \in Nat : i < k /\ <<a, k - i>> \notin L}
<1>1. Last[a] \in Nat /\ j \in Nat /\ k \in Nat
  BY AppsAssumption
<1>2. ASSUME T # {}
      PROVE  FALSE
  <2>1. PICK x \in T : \A y \in T : ~(y < x)
    BY <1>2, Least
  <2>2. x # 0
    BY <1>1, <2>1
  <2>3. /\ x \in Nat /\ x < k
        /\ x - 1 \in Nat /\ x - 1 < x /\ x - 1 < k
        /\ k - (x - 1) \in 1 .. Last[a] /\ k - (x - 1) > 1
        /\ (k - (x - 1)) - 1 = k - x
    BY <1>1, <2>1, <2>2
  <2>4. <<a, k - (x - 1)>> \in L
    <3>1. x - 1 \notin T
      BY <2>1, <2>3
    <3> QED
      BY <2>3, <3>1
  <2>5. <<a, k - x>> \in Needs(<<a, k - (x - 1)>>)
    BY <2>3 DEF Chained
  <2> QED
    BY <2>1, <2>4, <2>5
<1>3. k - j \in Nat /\ k - j < k /\ k - (k - j) = j
  BY <1>1
<1>4. k - j \notin T
  BY <1>2
<1> QED
  BY <1>3, <1>4

------------------------------------------------------------------------------
(* The invariant *)

\* The applications a call is for, and the number each has to be at.
Chosen == IF call.app = AllApps THEN {a \in Apps : Last[a] > 0} ELSE {call.app}
Wanted(a) == IF call.target = Latest THEN Last[a] ELSE call.target

\* What is known of the options of the call.
CallInv ==
    /\ call.app = AllApps => call.target = Latest
    /\ call.target # 0
    /\ call.target = Latest => ~call.back
    /\ pc # "idle" => pending \subseteq Chosen
    /\ pc \in {"table", "load"} => pending = Chosen

\* The node on the way to which the others are run.
Base == stack[1].node

\* The walk meets only what its first node requires, so nothing of a higher rank
\* on the way forwards and nothing of a lower one on the way backwards.
Within(n) == IF call.back THEN Rank[Base] <= Rank[n] ELSE Rank[n] <= Rank[Base]

WalkInv ==
    Running =>
      \A i \in 1 .. Len(stack) :
        /\ Within(stack[i].node)
        /\ \A j \in 1 .. Len(stack[i].todo) :
             stack[i].todo[j] \in Required(stack[i].node, call.back)

\* The rows of an application that the walk is not to touch.
Spared(a) ==
    \A k \in 1 .. Last[a] :
        IF call.back THEN k <= call.target => <<a, k>> \in rows[Default]
                     ELSE <<a, k>> \in rows[Default] => k <= Wanted(a)

\* The applications that are through are where they have to be; the one whose
\* turn it is has only its first node, and what that requires, left to run.
AimInv ==
    WritesDefault =>
      /\ pc = "apps" => \A a \in Chosen \ pending : Reached(a)
      /\ Running => \E a \in Chosen \ pending :
           /\ Base = <<a, IF call.back THEN call.target + 1 ELSE Wanted(a)>>
           /\ Spared(a)
           /\ \A b \in (Chosen \ pending) \ {a} : Reached(b)

GoalInv == IInv /\ CallInv /\ WalkInv /\ AimInv /\ GoalReached

\* The list a node starts with has nothing but what it requires.
LEMMA OrdersAreSound ==
    ASSUME NEW n \in Nodes, NEW back \in BOOLEAN, NEW t \in Orders(n, back)
    PROVE  \A j \in 1 .. Len(t) : t[j] \in Required(n, back)
<1>1. t \in Seq(Nodes)
  BY OrdersAreComplete
<1>2. DOMAIN t = 1 .. Len(t)
  BY <1>1, LenProperties
<1>3. CASE ~back
  BY <1>2, <1>3 DEF Orders, Required, Needs
<1>4. CASE back
  <2>1. {t[i] : i \in DOMAIN t} = NeededBy(n)
    BY <1>4 DEF Orders, BackOrders
  <2> QED
    BY <1>2, <1>4, <2>1 DEF Required
<1> QED
  BY <1>3, <1>4

\* What a node requires is of lower rank, or of higher rank on the way back.
LEMMA RequiredRank ==
    ASSUME Hypotheses, NEW n \in Nodes, NEW back \in BOOLEAN,
           NEW d \in Required(n, back)
    PROVE  /\ d \in Nodes
           /\ Rank[d] \in Nat /\ Rank[n] \in Nat
           /\ IF back THEN Rank[n] < Rank[d] ELSE Rank[d] < Rank[n]
<1>1. d \in Nodes
  <2>1. CASE back
    BY <2>1 DEF Required, NeededBy
  <2>2. CASE ~back
    <3>1. Deps[n] \in Seq(Nodes)
      BY AppsAssumption
    <3>2. \A i \in DOMAIN Deps[n] : Deps[n][i] \in Nodes
      BY <3>1, LenProperties, ElementOfSeq
    <3> QED
      BY <2>2, <3>2 DEF Required, Needs
  <2> QED
    BY <2>1, <2>2
<1>2. IF back THEN n \in Needs(d) ELSE d \in Needs(n)
  BY DEF Required, NeededBy
<1> QED
  BY <1>1, <1>2, Ranked DEF Hypotheses

\* The rows of an application, when those above the wanted one are not there and
\* the wanted one is: the ledger is closed, so the lower ones are there.
LEMMA ForwardRows ==
    ASSUME Chained, NEW L \in SUBSET Nodes, \A n \in L : Needs(n) \subseteq L,
           NEW a \in Apps, NEW w \in 1 .. Last[a], <<a, w>> \in L,
           \A k \in 1 .. Last[a] : <<a, k>> \in L => k <= w
    PROVE  {n \in L : n[1] = a} = {a} \X (1 .. w)
<1>1. Last[a] \in Nat
  BY AppsAssumption
<1>2. ASSUME NEW n \in L, n[1] = a
      PROVE  n \in {a} \X (1 .. w)
  <2>1. PICK k \in 1 .. Last[a] : n = <<a, k>>
    BY <1>2 DEF Nodes
  <2> QED
    BY <1>1, <2>1
<1>3. ASSUME NEW j \in 1 .. w
      PROVE  <<a, j>> \in L
  BY ClosedBelow
<1> QED
  BY <1>2, <1>3

\* ... and when the one above the wanted one is not there but the lower ones are.
LEMMA BackwardReached ==
    ASSUME Hypotheses, NEW L \in SUBSET Nodes, \A n \in L : Needs(n) \subseteq L,
           NEW a \in Apps, NEW w \in Nat, w + 1 \in 1 .. Last[a],
           <<a, w + 1>> \notin L,
           \A k \in 1 .. Last[a] : k <= w => <<a, k>> \in L
    PROVE  {n \in L : n[1] = a} = {a} \X (1 .. w)
<1>1. Last[a] \in Nat
  BY AppsAssumption
<1>2. ASSUME NEW n \in L, n[1] = a
      PROVE  n \in {a} \X (1 .. w)
  <2>1. PICK k \in 1 .. Last[a] : n = <<a, k>>
    BY <1>2 DEF Nodes
  <2>2. ASSUME k > w
        PROVE  FALSE
    <3>1. w + 1 \in 1 .. k
      BY <2>1, <2>2, <1>1
    <3> QED
      BY <2>1, <3>1, ClosedBelow DEF Hypotheses
  <2> QED
    BY <1>1, <2>1, <2>2
<1>3. ASSUME NEW j \in 1 .. w
      PROVE  <<a, j>> \in L
  <2>1. j \in 1 .. Last[a] /\ j <= w
    BY <1>1
  <2> QED
    BY <2>1
<1> QED
  BY <1>2, <1>3

------------------------------------------------------------------------------
(* It is inductive *)

\* The call is one of the requests, and what is still to come is its own.
LEMMA CallStep ==
    ASSUME Hypotheses, IInv, CallInv, [Next]_vars
    PROVE  CallInv'
<1> USE DEF disk
<1>1. ASSUME NEW req \in Requests, Start(req)
      PROVE  CallInv'
  <2>1. /\ req.app = AllApps => req.target = Latest
        /\ req.target # 0
        /\ call' = [db |-> req.db, fake |-> req.fake, back |-> FALSE,
                    app |-> req.app, target |-> req.target]
        /\ pc' = "table"
        /\ pending' = IF req.app = AllApps THEN {a \in Apps : Last[a] > 0}
                                           ELSE {req.app}
    BY <1>1, RequestsAssumption DEF Start, Hypotheses, NoZero
  <2> QED
    BY <2>1 DEF CallInv, Chosen
<1>2. ASSUME NEW a \in Apps, Migrate(a)
      PROVE  CallInv'
  <2>1. /\ call'.app = call.app /\ call'.target = call.target
        /\ call'.back = Backwards(a)
        /\ pc = "apps" /\ pc' \in {"apps", "deps"}
        /\ pending' \subseteq pending
    BY <1>2 DEF Migrate, IInv, TypeOK
  <2>2. call.target = Latest => ~Backwards(a)
    BY DEF Backwards
  <2> QED
    BY <2>1, <2>2 DEF CallInv, Chosen
<1>3. ASSUME call' = call, pending' \subseteq pending, pc' # "table",
             pc' = "load" => pc \in {"table", "load"} /\ pending' = pending,
             pc' # "idle" => pc # "idle"
      PROVE  CallInv'
  BY <1>3 DEF CallInv, Chosen
<1>4. CASE CreateTable \/ LoadApplied \/ SkipDep \/ EnterDep \/ Begin \/ RunOp
           \/ WriteRowInTx
  BY <1>4, <1>3 DEF CreateTable, LoadApplied, SkipDep, EnterDep, Begin, RunOp,
                    WriteRowInTx, Ready
<1>5. CASE FakeNode \/ WriteRowAlone \/ Commit
  BY <1>5, <1>3 DEF FakeNode, WriteRowAlone, Commit, Settle, Ready
<1>6. CASE \/ LoadAppliedRefused \/ FinishRun \/ RunOpRefused \/ Fault
           \/ \E a \in Apps : MigrateFails(a)
  BY <1>6, <1>3 DEF LoadAppliedRefused, FinishRun, RunOpRefused, Fault,
                    MigrateFails, CreateTableFails, LoadAppliedFails,
                    FakeNodeFails, BeginFails, RunOpFails, WriteRowFails,
                    CommitFails, Crash, Return
<1>7. CASE UNCHANGED vars
  BY <1>7 DEF vars, CallInv, Chosen
<1> QED
  BY <1>1, <1>2, <1>4, <1>5, <1>6, <1>7 DEF Next, Progress, Walk

\* The first frame stays while there is one.
LEMMA FirstFrame ==
    ASSUME Walked, Running
    PROVE  /\ stack \in Seq(Frames) /\ stack # <<>>
           /\ Len(stack) \in Nat /\ Len(stack) >= 1
           /\ Base \in Nodes /\ Node \in Nodes
           /\ Top.todo # <<>> => Advance[1].node = Base
           /\ Len(stack) > 1 => Pop[1] = stack[1]
           /\ Len(stack) = 1 => Base = Node
<1>1. stack \in Seq(Frames) /\ stack # <<>>
  BY DEF Walked, TypeOK, StackInv
<1>2. /\ Len(stack) \in Nat /\ Len(stack) >= 1 /\ Node \in Nodes
      /\ Len(Pop) = Len(stack) - 1
      /\ \A i \in 1 .. Len(Pop) : Pop[i] = stack[i]
  BY <1>1, Stacks
<1>3. 1 \in 1 .. Len(stack) /\ (Len(stack) > 1 => 1 \in 1 .. Len(Pop))
  <2> DEFINE n == Len(stack)
             m == Len(Pop)
  <2>1. n \in Nat /\ n >= 1 /\ m = n - 1
    BY <1>2
  <2>2. 1 \in 1 .. n /\ (n > 1 => 1 \in 1 .. m)
    <3> HIDE DEF n, m
    <3> QED
      BY <2>1
  <2> QED
    BY <2>2
<1>4. Base \in Nodes
  <2>1. stack[1] \in Frames
    BY <1>1, <1>3, ElementOfSeq
  <2> QED
    BY <2>1 DEF Base, Frames
<1> QED
  BY <1>1, <1>2, <1>3, <1>4, Advances DEF Base, Node, Top

\* The node a walk started from stays at the bottom of the stack.
LEMMA BaseStays ==
    ASSUME IInv, Running
    PROVE  /\ stack \in Seq(Frames) /\ stack # <<>>
           /\ Len(stack) \in Nat /\ Len(stack) >= 1
           /\ Base \in Nodes /\ Node \in Nodes
           /\ Top.todo # <<>> => Advance[1].node = Base
           /\ Len(stack) > 1 => Pop[1] = stack[1]
           /\ Len(stack) = 1 => Base = Node
<1>1. Walked
  BY DEF IInv, Walked
<1> QED
  BY <1>1, FirstFrame

\* A walk never leaves the range of nodes that its first node reaches.
LEMMA WalkStep ==
    ASSUME Hypotheses, IInv, IInv', WalkInv, [Next]_vars
    PROVE  WalkInv'
<1> USE DEF disk
<1>1. ASSUME ~Running'
      PROVE  WalkInv'
  BY <1>1 DEF WalkInv
<1>2. ASSUME Running, stack' = stack, call' = call
      PROVE  WalkInv'
  BY <1>2 DEF WalkInv, Within, Base
<1>3. ASSUME NEW a \in Apps, Migrate(a)
      PROVE  WalkInv'
  <2>1. /\ pc = "apps" /\ ~BadTarget(a)
        /\ call'.back = Backwards(a)
        /\ \/ pc' = "apps"
           \/ \E todo \in Orders(Goal(a), Backwards(a)) :
                stack' = <<[node |-> Goal(a), todo |-> todo]>>
    BY <1>3 DEF Migrate, IInv, TypeOK
  <2>2. Goal(a) \in Nodes /\ Backwards(a) \in BOOLEAN
    BY <2>1, GoalTyped DEF IInv, StackInv, Typed
  <2>3. Rank[Goal(a)] \in Nat
    BY <2>2, Ranked DEF Hypotheses
  <2>4. ASSUME NEW todo \in Orders(Goal(a), Backwards(a)),
               stack' = <<[node |-> Goal(a), todo |-> todo]>>
        PROVE  WalkInv'
    <3>1. /\ Len(stack') = 1
          /\ stack'[1].node = Goal(a) /\ stack'[1].todo = todo
      BY <2>4
    <3>2. \A j \in 1 .. Len(todo) : todo[j] \in Required(Goal(a), Backwards(a))
      BY <2>2, OrdersAreSound
    <3>3. \A i \in 1 .. Len(stack') : i = 1
      BY <3>1
    <3>4. /\ stack'[1].node = Goal(a)
          /\ Rank[stack'[1].node] <= Rank[stack'[1].node]
      BY <2>3, <3>1
    <3>5. \A j \in 1 .. Len(stack'[1].todo) :
            stack'[1].todo[j] \in Required(stack'[1].node, call'.back)
      BY <2>1, <3>1, <3>2
    <3> QED
      BY <3>3, <3>4, <3>5 DEF WalkInv, Within, Base, Required, NeededBy
  <2> QED
    BY <2>1, <2>4, <1>1 DEF Running
<1>4. CASE SkipDep
  <2>1. /\ Running /\ Top.todo # <<>>
        /\ stack' = Advance /\ call' = call
    BY <1>4 DEF SkipDep, Running
  <2>2. /\ Len(Advance) = Len(stack)
        /\ \A i \in 1 .. Len(stack) : Advance[i].node = stack[i].node
        /\ \A i \in 1 .. Len(stack) - 1 : Advance[i] = stack[i]
        /\ Advance[Len(stack)].todo = Tail(Top.todo)
    BY <2>1, Advances, BaseStays
  <2>3. Base' = Base
    BY <2>1, BaseStays DEF Base
  <2>4. ASSUME NEW j \in 1 .. Len(Tail(Top.todo))
        PROVE  Tail(Top.todo)[j] \in Required(Node, call.back)
    <3>1. /\ Top.todo \in Seq(Nodes)
          /\ Len(stack) \in 1 .. Len(stack)
      BY <2>1, BaseStays, Stacks
    <3>2. /\ Len(Tail(Top.todo)) = Len(Top.todo) - 1
          /\ Tail(Top.todo)[j] = Top.todo[j + 1]
          /\ Len(Top.todo) \in Nat
      BY <2>1, <3>1, HeadTailProperties
    <3>3. j + 1 \in 1 .. Len(Top.todo)
      BY <3>2
    <3> QED
      BY <2>1, <3>1, <3>2, <3>3 DEF WalkInv, Node, Top
  <2>5. ASSUME NEW i \in 1 .. Len(stack)
        PROVE  \A j \in 1 .. Len(Advance[i].todo) :
                 Advance[i].todo[j] \in Required(Advance[i].node, call.back)
    <3>1. CASE i = Len(stack)
      BY <2>2, <2>4, <3>1 DEF Node, Top
    <3>2. CASE i # Len(stack)
      <4> DEFINE n == Len(stack)
      <4>1. n \in Nat /\ i \in 1 .. n /\ i # n
        BY <2>1, <3>2, BaseStays
      <4>2. i \in 1 .. n - 1
        <5> HIDE DEF n
        <5> QED
          BY <4>1
      <4> QED
        BY <2>1, <2>2, <4>2 DEF WalkInv
    <3> QED
      BY <3>1, <3>2
  <2> QED
    BY <2>1, <2>2, <2>3, <2>5 DEF WalkInv, Within
<1>5. CASE EnterDep
  <2> DEFINE n == Len(stack)
             d0 == Head(Top.todo)
  <2>1. /\ Running /\ Top.todo # <<>> /\ call' = call
    BY <1>5 DEF EnterDep, Running
  <2>2. PICK todo \in Orders(d0, call.back) :
          stack' = Append(Advance, [node |-> d0, todo |-> todo])
    BY <1>5 DEF EnterDep
  <2>3. /\ Len(Advance) = n /\ Advance \in Seq(Frames)
        /\ \A i \in 1 .. n : Advance[i].node = stack[i].node
        /\ \A i \in 1 .. n - 1 : Advance[i] = stack[i]
        /\ Advance[n].todo = Tail(Top.todo)
        /\ d0 \in Nodes
    BY <2>1, Advances, BaseStays
  <2>4. n \in Nat /\ n >= 1 /\ call.back \in BOOLEAN /\ Node \in Nodes
    BY <2>1, BaseStays DEF IInv, TypeOK
  <2>5. /\ Top.todo \in Seq(Nodes)
        /\ d0 = Top.todo[1]
        /\ Len(Top.todo) \in Nat /\ 1 \in 1 .. Len(Top.todo)
        /\ Len(Tail(Top.todo)) = Len(Top.todo) - 1
        /\ \A j \in 1 .. Len(Tail(Top.todo)) : Tail(Top.todo)[j] = Top.todo[j + 1]
    <3>1. Top.todo \in Seq(Nodes)
      BY <2>1, BaseStays, Stacks
    <3>2. Len(Top.todo) \in Nat /\ Len(Top.todo) # 0
      BY <2>1, <3>1, EmptySeq, LenProperties
    <3>3. 1 \in 1 .. Len(Top.todo)
      BY <3>2
    <3> QED
      BY <2>1, <3>1, <3>2, <3>3, HeadTailProperties
  <2>6. /\ Within(Node)
        /\ \A j \in 1 .. Len(Top.todo) : Top.todo[j] \in Required(Node, call.back)
    <3>1. n \in 1 .. n
      <4> HIDE DEF n
      <4> QED
        BY <2>4
    <3> QED
      BY <2>1, <3>1 DEF WalkInv, Node, Top
  <2>7. [node |-> d0, todo |-> todo] \in Frames
    BY <2>3, <2>4, OrdersAreComplete DEF Frames
  <2>8. /\ Len(stack') = n + 1
        /\ \A i \in 1 .. n : stack'[i] = Advance[i]
        /\ stack'[n + 1] = [node |-> d0, todo |-> todo]
    BY <2>2, <2>3, <2>7, AppendProperties
  <2>9. Base' = Base
    <3>1. 1 \in 1 .. n
      <4> HIDE DEF n
      <4> QED
        BY <2>4
    <3> QED
      BY <2>3, <2>8, <3>1 DEF Base
  <2>10. Within(d0)
    <3>1. /\ Rank[d0] \in Nat /\ Rank[Node] \in Nat
          /\ IF call.back THEN Rank[Node] < Rank[d0] ELSE Rank[d0] < Rank[Node]
      BY <2>4, <2>5, <2>6, RequiredRank
    <3>2. Rank[Base] \in Nat
      BY <2>1, BaseStays, Ranked DEF Hypotheses
    <3> QED
      BY <2>6, <3>1, <3>2 DEF Within
  <2>11. \A j \in 1 .. Len(todo) : todo[j] \in Required(d0, call.back)
    BY <2>3, <2>4, OrdersAreSound
  <2>12. ASSUME NEW i \in 1 .. n + 1
         PROVE  /\ Within(stack'[i].node)
                /\ \A j \in 1 .. Len(stack'[i].todo) :
                     stack'[i].todo[j] \in Required(stack'[i].node, call.back)
    <3>1. CASE i = n + 1
      BY <2>8, <2>10, <2>11, <3>1
    <3>2. CASE i = n
      <4>1. n \in 1 .. n
        <5> HIDE DEF n
        <5> QED
          BY <2>4
      <4>2. stack'[i].node = Node /\ stack'[i].todo = Tail(Top.todo)
        BY <2>3, <2>8, <3>2, <4>1 DEF Node, Top
      <4>3. ASSUME NEW j \in 1 .. Len(Tail(Top.todo))
            PROVE  Tail(Top.todo)[j] \in Required(Node, call.back)
        <5>1. j + 1 \in 1 .. Len(Top.todo)
          BY <2>5
        <5> QED
          BY <2>5, <2>6, <5>1
      <4> QED
        BY <2>6, <4>2, <4>3
    <3>3. CASE i \in 1 .. n - 1
      <4>1. i \in 1 .. n
        <5> HIDE DEF n
        <5> QED
          BY <2>4, <3>3
      <4> QED
        BY <2>1, <2>3, <2>8, <3>3, <4>1 DEF WalkInv
    <3>4. i = n + 1 \/ i = n \/ i \in 1 .. n - 1
      <4>1. i \in 1 .. n + 1
        OBVIOUS
      <4> HIDE DEF n
      <4> QED
        BY <2>4, <4>1
    <3> QED
      BY <3>1, <3>2, <3>3, <3>4
  <2> QED
    BY <2>1, <2>8, <2>9, <2>12 DEF WalkInv, Within
<1>6. CASE FakeNode \/ WriteRowAlone \/ Commit
  <2>1. Running /\ stack' = Pop /\ call' = call
        /\ pc' = IF Len(stack) = 1 THEN "apps" ELSE "deps"
    BY <1>6 DEF FakeNode, WriteRowAlone, Commit, Settle, Ready, Running
  <2>2. CASE Len(stack) = 1
    BY <1>1, <2>1, <2>2 DEF Running
  <2>3. CASE Len(stack) # 1
    <3> DEFINE n == Len(stack)
               m == Len(Pop)
    <3>1. n \in Nat /\ n >= 1 /\ n # 1 /\ m = n - 1
      BY <2>1, <2>3, BaseStays, Stacks
    <3>2. n > 1 /\ \A i \in 1 .. m : i \in 1 .. n
      <4> HIDE DEF n, m
      <4> QED
        BY <3>1
    <3>3. /\ Base' = Base
          /\ \A i \in 1 .. m : Pop[i] = stack[i]
      BY <2>1, <3>2, BaseStays, Stacks DEF Base
    <3> QED
      BY <2>1, <3>2, <3>3 DEF WalkInv, Within
  <2> QED
    BY <2>2, <2>3
<1>7. CASE Begin \/ RunOp \/ WriteRowInTx
  BY <1>7, <1>2 DEF Begin, RunOp, WriteRowInTx, Ready, Running
<1>8. CASE CreateTable \/ LoadApplied \/ \E req \in Requests : Start(req)
  BY <1>8, <1>1 DEF CreateTable, LoadApplied, Start, Running
<1>9. CASE \/ LoadAppliedRefused \/ FinishRun \/ RunOpRefused \/ Fault
           \/ \E a \in Apps : MigrateFails(a)
  BY <1>9, <1>1 DEF LoadAppliedRefused, FinishRun, RunOpRefused, Fault,
                    MigrateFails, CreateTableFails, LoadAppliedFails,
                    FakeNodeFails, BeginFails, RunOpFails, WriteRowFails,
                    CommitFails, Crash, Return, Running
<1>10. CASE UNCHANGED vars
  BY <1>10 DEF vars, WalkInv, Within, Base, Running
<1> QED
  BY <1>3, <1>4, <1>5, <1>6, <1>7, <1>8, <1>9, <1>10
     DEF Next, Progress, Walk

\* A call is for registered applications; the wanted number is a node of the one
\* the walk is for.
LEMMA AimTyped ==
    ASSUME IInv, CallInv, NEW a \in Chosen
    PROVE  /\ call.app # AllApps => Chosen = {a} /\ a = call.app
           /\ call.back => call.app # AllApps
           /\ a \in Apps /\ Last[a] \in Nat
           /\ call.target \in Nat \cup {Latest} /\ Latest \notin Nat
           /\ rows[Default] \in SUBSET Nodes
           /\ \A n \in rows[Default] : Needs(n) \subseteq rows[Default]
BY AppsAssumption, RequestsAssumption, DatabasesAssumption
   DEF IInv, TypeOK, CallInv, Chosen, LedgerClosed, DepClosed

\* A node that is not the first of the walk writes no spared row.
LEMMA SparedStays ==
    ASSUME Hypotheses, IInv, CallInv, WalkInv, Running,
           NEW a \in Chosen, Spared(a),
           Base = <<a, IF call.back THEN call.target + 1 ELSE Wanted(a)>>,
           call' = call, rows'[Default] = Record(rows[Default])
    PROVE  Spared(a)'
<1> DEFINE w == IF call.back THEN call.target + 1 ELSE Wanted(a)
<1>1. /\ a \in Apps /\ Last[a] \in Nat
      /\ call.target \in Nat \cup {Latest} /\ Latest \notin Nat
      /\ call.target = Latest => ~call.back
  BY AimTyped DEF CallInv
<1>2. Base \in Nodes /\ Node \in Nodes
  BY BaseStays
<1>3. Within(Node)
  <2>1. Len(stack) \in 1 .. Len(stack)
    BY BaseStays
  <2> QED
    BY <2>1 DEF WalkInv, Node, Top
<1>4. w \in 1 .. Last[a]
  BY <1>2 DEF Nodes
<1>5. Rank[Base] \in Nat /\ Rank[Node] \in Nat
  BY <1>2, Ranked DEF Hypotheses
<1>6. ASSUME NEW k \in 1 .. Last[a],
             IF call.back THEN k < w ELSE w < k
      PROVE  Node # <<a, k>>
  <2>1. <<a, k>> \in Nodes /\ Rank[<<a, k>>] \in Nat
    BY <1>1, NodeOf, Ranked DEF Hypotheses
  <2>2. IF call.back THEN Rank[<<a, k>>] < Rank[Base]
                     ELSE Rank[Base] < Rank[<<a, k>>]
    BY <1>1, <1>4, <1>6, ChainRank
  <2> QED
    BY <1>3, <1>5, <2>1, <2>2 DEF Within
<1>7. ASSUME NEW k \in 1 .. Last[a]
      PROVE  IF call.back THEN k <= call.target => <<a, k>> \in Record(rows[Default])
                          ELSE <<a, k>> \in Record(rows[Default]) => k <= Wanted(a)
  <2>1. CASE call.back
    <3>1. call.target \in Nat /\ (k <= call.target => k < w)
      BY <1>1, <2>1
    <3> QED
      BY <1>6, <2>1, <3>1 DEF Record, Spared
  <2>2. CASE ~call.back
    <3>1. ~(k <= Wanted(a)) => w < k
      BY <1>4, <2>2
    <3> QED
      BY <1>6, <2>2, <3>1 DEF Record, Spared
  <2> QED
    BY <2>1, <2>2
<1> QED
  BY <1>7 DEF Spared, Wanted

\* An application that is through stays where it is while another one is run:
\* there is another one only when all go up to their latest nodes.
LEMMA ReachedStays ==
    ASSUME IInv, IInv', CallInv, Running, NEW a \in Chosen, NEW b \in Chosen,
           b # a, Reached(b), call' = call,
           rows'[Default] = Record(rows[Default])
    PROVE  Reached(b)'
<1>1. /\ call.app = AllApps /\ call.target = Latest /\ ~call.back
      /\ b \in Apps
  BY AimTyped DEF CallInv
<1>2. rows'[Default] = rows[Default] \cup {Node} /\ rows'[Default] \in SUBSET Nodes
  BY <1>1, DatabasesAssumption DEF Record, IInv, TypeOK
<1>3. {n \in rows[Default] : n[1] = b} = {b} \X (1 .. Last[b])
  BY <1>1 DEF Reached
<1>4. ASSUME NEW n \in rows'[Default], n[1] = b
      PROVE  n \in {b} \X (1 .. Last[b])
  BY <1>2, <1>4 DEF Nodes
<1>5. {n \in rows'[Default] : n[1] = b} = {b} \X (1 .. Last[b])
  BY <1>2, <1>3, <1>4
<1> QED
  BY <1>1, <1>5 DEF Reached

\* A node that has been settled leaves the rest to its caller, or ends the walk.
LEMMA SettleAims ==
    ASSUME Hypotheses, GoalInv, IInv', Running, Top.todo = <<>>, Settle
    PROVE  AimInv'
<1> SUFFICES ASSUME WritesDefault
             PROVE  AimInv'
  BY DEF AimInv, WritesDefault, Settle
<1>1. /\ call' = call /\ pending' = pending /\ stack' = Pop
      /\ applied' = Record(applied)
      /\ pc' = IF Len(stack) = 1 THEN "apps" ELSE "deps"
  BY DEF Settle, Record
<1>2. rows'[Default] = Record(rows[Default])
  BY <1>1 DEF GoalInv, IInv, MemoryInv, Running, WritesDefault, Record
<1>3. PICK a \in Chosen \ pending :
        /\ Base = <<a, IF call.back THEN call.target + 1 ELSE Wanted(a)>>
        /\ Spared(a)
        /\ \A b \in (Chosen \ pending) \ {a} : Reached(b)
  BY DEF GoalInv, AimInv
<1>4. Spared(a)'
  BY <1>1, <1>2, <1>3, SparedStays DEF GoalInv
<1>5. \A b \in (Chosen \ pending) \ {a} : Reached(b)'
  BY <1>1, <1>2, <1>3, ReachedStays DEF GoalInv
<1>6. Chosen' = Chosen
  BY <1>1 DEF Chosen
<1>7. CASE Len(stack) = 1
  <2>1. Base = Node /\ Base \in Nodes
    BY <1>7, BaseStays DEF GoalInv
  <2>2. Reached(a)'
    <3> DEFINE w == IF call.back THEN call.target + 1 ELSE Wanted(a)
               L == rows'[Default]
    <3>1. /\ a \in Apps
          /\ call.target \in Nat \cup {Latest}
          /\ call.target = Latest => ~call.back
          /\ call.back \in BOOLEAN
      BY <1>3, AimTyped DEF GoalInv, CallInv, IInv, TypeOK
    <3>2. L \in SUBSET Nodes /\ \A n \in L : Needs(n) \subseteq L
      BY DatabasesAssumption DEF IInv, TypeOK, LedgerClosed, DepClosed
    <3>3. <<a, w>> \in Nodes /\ ((<<a, w>> \in L) <=> ~call.back)
      BY <1>2, <1>3, <2>1 DEF Record
    <3>4. \A k \in 1 .. Last[a] : IF call.back THEN k <= call.target => <<a, k>> \in L
                                               ELSE <<a, k>> \in L => k <= w
      BY <1>1, <1>4 DEF Spared, Wanted
    <3>5. w \in 1 .. Last[a]
      BY <3>3 DEF Nodes
    <3>6. CASE ~call.back
      <4>1. Wanted(a) \in 1 .. Last[a] /\ <<a, Wanted(a)>> \in L
        BY <3>3, <3>5, <3>6
      <4>2. \A k \in 1 .. Last[a] : <<a, k>> \in L => k <= Wanted(a)
        BY <3>4, <3>6
      <4>3. {n \in L : n[1] = a} = {a} \X (1 .. Wanted(a))
        <5> HIDE DEF L
        <5> QED
          BY <3>1, <3>2, <4>1, <4>2, ForwardRows DEF Hypotheses
      <4> QED
        BY <1>1, <4>3 DEF Reached, Wanted
    <3>7. CASE call.back
      <4>1. call.target \in Nat /\ call.target # Latest
        BY <3>1, <3>7
      <4>2. call.target + 1 \in 1 .. Last[a] /\ <<a, call.target + 1>> \notin L
        BY <3>3, <3>5, <3>7
      <4>3. \A k \in 1 .. Last[a] : k <= call.target => <<a, k>> \in L
        BY <3>4, <3>7
      <4>4. {n \in L : n[1] = a} = {a} \X (1 .. call.target)
        <5> DEFINE t == call.target
        <5>1. /\ t \in Nat /\ t + 1 \in 1 .. Last[a] /\ <<a, t + 1>> \notin L
              /\ \A k \in 1 .. Last[a] : k <= t => <<a, k>> \in L
          BY <4>1, <4>2, <4>3
        <5> HIDE DEF L, t
        <5>2. {n \in L : n[1] = a} = {a} \X (1 .. t)
          BY <3>1, <3>2, <5>1, BackwardReached
        <5> QED
          BY <5>2 DEF t
      <4> QED
        BY <1>1, <4>1, <4>4 DEF Reached
    <3> QED
      BY <3>6, <3>7
  <2>3. \A b \in Chosen \ pending : Reached(b)'
    BY <1>5, <2>2
  <2>4. pc' = "apps" /\ Chosen' \ pending' = Chosen \ pending
    BY <1>1, <1>6, <1>7
  <2>5. \A b \in Chosen' \ pending' : Reached(b)'
    BY <2>3, <2>4
  <2>6. ~Running' /\ pc' = "apps"
    BY <2>4 DEF Running
  <2> QED
    BY <2>5, <2>6 DEF AimInv
<1>8. CASE Len(stack) # 1
  <2>1. Len(stack) > 1
    <3> DEFINE n == Len(stack)
    <3>1. n \in Nat /\ n >= 1 /\ n # 1
      BY <1>8, BaseStays DEF GoalInv
    <3>2. n > 1
      <4> HIDE DEF n
      <4> QED
        BY <3>1
    <3> QED
      BY <3>2
  <2>2. Base' = Base
    BY <1>1, <2>1, BaseStays DEF Base, GoalInv
  <2>3. Wanted(a)' = Wanted(a)
    BY <1>1 DEF Wanted
  <2> QED
    BY <1>1, <1>3, <1>4, <1>5, <1>6, <1>8, <2>2, <2>3 DEF AimInv, Running
<1> QED
  BY <1>7, <1>8

\* state.migrate aims at what is left to do, or finds nothing left.
LEMMA MigrateAims ==
    ASSUME Hypotheses, GoalInv, IInv', NEW a \in Apps, Migrate(a)
    PROVE  AimInv'
<1> USE DEF disk
<1>1. /\ pc = "apps" /\ a \in pending /\ pending' = pending \ {a}
      /\ ~BadTarget(a)
      /\ call' = [call EXCEPT !.back = Backwards(a)]
      /\ rows' = rows /\ applied' = applied
  BY DEF Migrate
<1>2. /\ call'.back = Backwards(a) /\ call'.target = call.target
      /\ call'.app = call.app /\ WritesDefault' = WritesDefault
      /\ Chosen' = Chosen
  BY <1>1 DEF GoalInv, IInv, TypeOK, Chosen, WritesDefault
<1> SUFFICES ASSUME WritesDefault
             PROVE  AimInv'
  BY <1>2 DEF AimInv
<1>3. a \in Chosen /\ Chosen \ pending' = (Chosen \ pending) \cup {a}
  BY <1>1 DEF GoalInv, CallInv
<1>4. \A b \in Chosen \ pending : Reached(b)'
  BY <1>1, <1>2 DEF GoalInv, AimInv, Reached
<1>5. /\ applied = rows[Default]
      /\ call.target \in Nat \cup {Latest} /\ call.target # 0 /\ Latest \notin Nat
      /\ Last[a] \in Nat
      /\ rows[Default] \in SUBSET Nodes
      /\ \A n \in rows[Default] : Needs(n) \subseteq rows[Default]
  BY <1>1, <1>3, AimTyped DEF GoalInv, IInv, MemoryInv, CallInv
<1>6. Goal(a) \in Nodes /\ Backwards(a) \in BOOLEAN
  BY <1>1, GoalTyped DEF GoalInv, IInv, StackInv, Typed
<1> DEFINE w == IF Backwards(a) THEN call.target + 1 ELSE Wanted(a)
<1>7. /\ Goal(a) = <<a, w>>
      /\ Backwards(a) => call.target # Latest
  BY <1>5 DEF Goal, Wanted, Backwards
<1>8. w \in 1 .. Last[a]
  BY <1>6, <1>7 DEF Nodes
<1>9. \A k \in 1 .. Last[a] :
        IF Backwards(a) THEN k <= call.target => <<a, k>> \in rows[Default]
                        ELSE <<a, k>> \in rows[Default] => k <= Wanted(a)
  <2> SUFFICES ASSUME NEW k \in 1 .. Last[a]
               PROVE  IF Backwards(a) THEN k <= call.target => <<a, k>> \in rows[Default]
                                      ELSE <<a, k>> \in rows[Default] => k <= Wanted(a)
    OBVIOUS
  <2>1. CASE Backwards(a)
    <3>1. PICK j \in 1 .. Last[a] : <<a, j>> \in rows[Default] /\ call.target < j
      BY <1>5, <2>1 DEF Backwards
    <3>2. k <= call.target => k \in 1 .. j
      BY <1>5, <1>7, <2>1, <3>1
    <3> QED
      BY <1>5, <2>1, <3>1, <3>2, ClosedBelow DEF Hypotheses
  <2>2. CASE ~Backwards(a)
    BY <1>5, <2>2 DEF Backwards, Wanted
  <2> QED
    BY <2>1, <2>2
<1>10. Spared(a)'
  BY <1>1, <1>2, <1>9 DEF Spared, Wanted
<1>11. CASE IsSettled(Goal(a), Backwards(a)) /\ pc' = "apps"
  <2>1. ~Backwards(a)
    <3>1. ASSUME Backwards(a)
          PROVE  FALSE
      <4>1. PICK j \in 1 .. Last[a] : <<a, j>> \in rows[Default] /\ call.target < j
        BY <1>5, <3>1 DEF Backwards
      <4>2. w \in 1 .. j
        BY <1>5, <1>7, <1>8, <3>1, <4>1
      <4>3. <<a, w>> \in rows[Default]
        <5> HIDE DEF w
        <5> QED
          BY <1>5, <4>1, <4>2, ClosedBelow DEF Hypotheses
      <4> QED
        BY <1>5, <1>7, <1>11, <3>1, <4>3 DEF IsSettled
    <3> QED
      BY <3>1
  <2>2. <<a, Wanted(a)>> \in rows[Default]
    BY <1>5, <1>7, <1>11, <2>1 DEF IsSettled
  <2>3. {n \in rows[Default] : n[1] = a} = {a} \X (1 .. Wanted(a))
    BY <1>5, <1>8, <1>9, <2>1, <2>2, ForwardRows DEF Hypotheses
  <2>4. Reached(a)'
    BY <1>1, <1>2, <2>3 DEF Reached, Wanted
  <2> QED
    BY <1>2, <1>3, <1>4, <1>11, <2>4 DEF AimInv, Running
<1>12. CASE /\ pc' = "deps"
            /\ \E todo \in Orders(Goal(a), Backwards(a)) :
                 stack' = <<[node |-> Goal(a), todo |-> todo]>>
  <2>1. Base' = <<a, w>>
    BY <1>7, <1>12 DEF Base
  <2>2. \A b \in (Chosen \ pending') \ {a} : Reached(b)'
    BY <1>3, <1>4
  <2>3. <<a, w>> = <<a, IF call'.back THEN call'.target + 1
                        ELSE IF call'.target = Latest THEN Last[a] ELSE call'.target>>
    BY <1>2 DEF Wanted
  <2>4. a \in Chosen' \ pending'
    BY <1>2, <1>3
  <2> QED
    BY <1>2, <1>10, <1>12, <2>1, <2>2, <2>3, <2>4 DEF AimInv, Running, Wanted
<1> QED
  BY <1>1, <1>11, <1>12 DEF Migrate

\* Each application is at its wanted node once its walk is over, and the walks
\* of the others do not move it away again.
LEMMA AimStep ==
    ASSUME Hypotheses, GoalInv, IInv', [Next]_vars
    PROVE  AimInv' /\ GoalReached'
<1> USE DEF disk
<1>1. ASSUME pc' \notin {"idle", "apps", "deps", "ops", "commit"}
      PROVE  AimInv' /\ GoalReached'
  BY <1>1 DEF AimInv, GoalReached, Running
<1>2. ASSUME pc' = "idle", result' \in {"error", "crashed"}
      PROVE  AimInv' /\ GoalReached'
  BY <1>2 DEF AimInv, GoalReached, Running
<1>3. ASSUME Running, Running', Base' = Base, call' = call, pending' = pending,
             rows' = rows
      PROVE  AimInv' /\ GoalReached'
  <2>1. WritesDefault' = WritesDefault /\ Chosen' = Chosen
    BY <1>3 DEF WritesDefault, Chosen
  <2>2. \A b : Wanted(b)' = Wanted(b) /\ Reached(b)' = Reached(b) /\ Spared(b)' = Spared(b)
    BY <1>3 DEF Wanted, Reached, Spared
  <2> QED
    BY <1>3, <2>1, <2>2 DEF GoalInv, AimInv, GoalReached, Running
<1>4. CASE CreateTable \/ \E req \in Requests : Start(req)
  BY <1>4, <1>1 DEF CreateTable, Start
<1>5. CASE LoadApplied
  <2>1. pc' = "apps" /\ Chosen' \ pending' = {}
    BY <1>5 DEF LoadApplied, GoalInv, CallInv, Chosen
  <2> QED
    BY <2>1 DEF AimInv, GoalReached, Running
<1>6. CASE FinishRun
  <2>1. /\ pc = "apps" /\ pending = {} /\ pc' = "idle"
        /\ call' = call /\ rows' = rows
    BY <1>6 DEF FinishRun, Return
  <2>2. ASSUME call.db = Default, NEW a \in Apps, call.app \in {a, AllApps}
        PROVE  Reached(a)
    <3>1. \A b \in Chosen : Reached(b)
      BY <2>1, <2>2 DEF GoalInv, AimInv, WritesDefault
    <3>2. CASE a \in Chosen
      BY <3>1, <3>2
    <3>3. CASE a \notin Chosen
      <4>1. call.target = Latest /\ Last[a] = 0
        BY <2>2, <3>3, AppsAssumption DEF Chosen, GoalInv, CallInv
      <4>2. {n \in rows[Default] : n[1] = a} = {}
        <5>1. ASSUME NEW n \in Nodes
              PROVE  n[1] # a
          BY <4>1, <5>1 DEF Nodes
        <5> QED
          BY <5>1, DatabasesAssumption DEF GoalInv, IInv, TypeOK
      <4> QED
        BY <4>1, <4>2 DEF Reached
    <3> QED
      BY <3>2, <3>3
  <2>3. \A a \in Apps : Reached(a)' = Reached(a)
    BY <2>1 DEF Reached
  <2> QED
    BY <2>1, <2>2, <2>3 DEF AimInv, GoalReached, Running
<1>7. ASSUME NEW a \in Apps, Migrate(a)
      PROVE  AimInv' /\ GoalReached'
  BY <1>7, MigrateAims DEF GoalReached, Migrate
<1>8. CASE SkipDep
  <2>1. Running /\ Running' /\ Top.todo # <<>> /\ stack' = Advance
    BY <1>8 DEF SkipDep, Running
  <2>2. Base' = Base
    BY <2>1, BaseStays DEF Base, GoalInv
  <2> QED
    BY <1>3, <1>8, <2>1, <2>2 DEF SkipDep
<1>9. CASE EnterDep
  <2>1. Running /\ Running' /\ Top.todo # <<>>
    BY <1>9 DEF EnterDep, Running
  <2>2. PICK todo \in Orders(Head(Top.todo), call.back) :
          stack' = Append(Advance, [node |-> Head(Top.todo), todo |-> todo])
    BY <1>9 DEF EnterDep
  <2>3. /\ Advance \in Seq(Frames) /\ Len(Advance) = Len(stack)
        /\ Head(Top.todo) \in Nodes
        /\ Advance[1].node = Base
        /\ 1 \in 1 .. Len(stack)
    BY <2>1, Advances, BaseStays DEF GoalInv
  <2>4. [node |-> Head(Top.todo), todo |-> todo] \in Frames
    BY <2>3, OrdersAreComplete DEF Frames, GoalInv, IInv, TypeOK
  <2>5. stack'[1] = Advance[1]
    BY <2>2, <2>3, <2>4, AppendProperties
  <2> QED
    BY <1>3, <1>9, <2>1, <2>3, <2>5 DEF EnterDep, Base
<1>10. CASE Begin \/ RunOp \/ WriteRowInTx
  BY <1>10, <1>3 DEF Begin, RunOp, WriteRowInTx, Ready, Running, Base
<1>11. CASE FakeNode \/ WriteRowAlone \/ Commit
  <2>1. Running /\ Top.todo = <<>> /\ Settle
    BY <1>11 DEF FakeNode, WriteRowAlone, Commit, Ready, Running, GoalInv, IInv,
                 StackInv
  <2>2. pc' \in {"apps", "deps"}
    BY <2>1 DEF Settle
  <2> QED
    BY <2>1, <2>2, SettleAims DEF GoalReached
<1>12. CASE \/ LoadAppliedRefused \/ RunOpRefused \/ Fault
            \/ \E a \in Apps : MigrateFails(a)
  BY <1>12, <1>2 DEF LoadAppliedRefused, RunOpRefused, Fault,
                     MigrateFails, CreateTableFails, LoadAppliedFails,
                     FakeNodeFails, BeginFails, RunOpFails, WriteRowFails,
                     CommitFails, Crash, Return
<1>13. CASE UNCHANGED vars
  <2>1. \A b : Wanted(b)' = Wanted(b) /\ Reached(b)' = Reached(b) /\ Spared(b)' = Spared(b)
    BY <1>13 DEF vars, Wanted, Reached, Spared
  <2> QED
    BY <1>13, <2>1 DEF vars, GoalInv, AimInv, GoalReached, Running, Base, Chosen,
                       WritesDefault
<1> QED
  BY <1>4, <1>5, <1>6, <1>7, <1>8, <1>9, <1>10, <1>11, <1>12, <1>13
     DEF Next, Progress, Walk

\* Before the first call there is no walk and no result.
LEMMA GoalInit == Init => GoalInv
<1>1. Init => pc = "idle" /\ call.target = Latest /\ ~call.back /\ result = "none"
  BY DEF Init
<1>2. Latest # 0
  BY RequestsAssumption
<1> QED
  BY <1>1, <1>2, InvInit
     DEF GoalInv, CallInv, WalkInv, AimInv, GoalReached, Running

\* A call that returns nil left each of its applications at the requested node:
\* every node up to it is applied and none after it (Run, state.migrate).
THEOREM CallsReachGoal ==
    ASSUME Hypotheses
    PROVE  Spec => []GoalReached
<1>1. GoalInv /\ [Next]_vars => GoalInv'
  BY Hypotheses, InvStep, CallStep, WalkStep, AimStep DEF GoalInv
<1>2. GoalInv => GoalReached
  BY DEF GoalInv
<1> QED
  BY <1>1, <1>2, GoalInit, PTL DEF Spec

------------------------------------------------------------------------------
(* A call that goes forwards while other calls go forwards, too *)

\* What is in memory is in the table, which others may have added to since.
Known ==
    (pc \in {"apps", "deps", "ops", "commit"} /\ WritesDefault) =>
        applied \subseteq rows[Default]

\* The wanted node of an application is recorded.
Aimed(a) == Wanted(a) # 0 => <<a, Wanted(a)>> \in rows[Default]

\* The applications that are through have their wanted node recorded, or it is
\* the one the walk started from.
Aiming ==
    /\ call.app = AllApps => call.target = Latest
    /\ pc # "idle" => pending \subseteq Chosen
    /\ pc \in {"table", "load"} => pending = Chosen
    /\ call.db = Default =>
         /\ pc = "apps" => \A a \in Chosen \ pending : Aimed(a)
         /\ Running => \A a \in Chosen \ pending :
                Aimed(a) \/ Base = <<a, Wanted(a)>>
         /\ pc = "idle" /\ result = "ok" => \A a \in Chosen : Aimed(a)

Forward == Walked /\ Task /\ Known /\ Aiming /\ DepClosed(Default)

\* At first nothing is recorded and no call runs.
LEMMA ForwardInit == Init => Forward
<1>1. Init => IInv
  BY InvInit
<1>2. Init => Task
  BY WorkInit DEF Worked
<1>3. Init => /\ pc = "idle" /\ result = "none"
              /\ call.app = AllApps /\ call.target = Latest
  BY DEF Init
<1> QED
  BY <1>1, <1>2, <1>3
     DEF Forward, Walked, IInv, LedgerClosed, Known, Aiming, Running

\* Recording a node adds a row and takes none away.
LEMMA RowsGrow ==
    ASSUME Task, [Next]_vars, ~call.back
    PROVE  \A d \in Databases : rows[d] \subseteq rows'[d]
BY DiskStep, DiskTyped DEF Task, Record

\* The row is that of the node on top, the list of which is exhausted.
LEMMA DefaultGrows ==
    ASSUME Walked, Task, [Next]_vars, ~call.back
    PROVE  \/ rows'[Default] = rows[Default]
           \/ /\ Running /\ Top.todo = <<>> /\ WritesDefault
              /\ rows'[Default] = rows[Default] \cup {Node}
BY DefaultRows DEF Task, Record

\* The table stays closed: all that the node needs is in memory, so in the table.
LEMMA ForwardKeepsClosed ==
    ASSUME Forward, [Next]_vars, ~call.back
    PROVE  DepClosed(Default)'
<1>1. CASE rows'[Default] = rows[Default]
  BY <1>1 DEF Forward, DepClosed
<1>2. CASE /\ Running /\ Top.todo = <<>> /\ WritesDefault
           /\ rows'[Default] = rows[Default] \cup {Node}
  <2>1. Needs(Node) \subseteq applied
    BY <1>2, NodeIsFree DEF Forward
  <2>2. applied \subseteq rows[Default]
    BY <1>2 DEF Forward, Known, Running
  <2> QED
    BY <1>2, <2>1, <2>2 DEF Forward, DepClosed
<1> QED
  BY <1>1, <1>2, DefaultGrows DEF Forward

\* What a process knows and aims at outlives the rows that others add.
LEMMA OthersAdd ==
    ASSUME Known, Aiming, rows[Default] \subseteq rows'[Default],
           UNCHANGED <<pc, call, pending, applied, stack, result>>
    PROVE  Known' /\ Aiming'
BY DEF Known, WritesDefault, Aiming, Chosen, Aimed, Wanted, Base, Running

\* A node that is settled has its row, unless that is in another database.
LEMMA SettledIsRecorded ==
    ASSUME Walked, Task, ~call.back, FakeNode \/ WriteRowAlone \/ Commit
    PROVE  /\ Settle /\ Running /\ Top.todo = <<>> /\ call' = call
           /\ WritesDefault => rows'[Default] = rows[Default] \cup {Node}
<1>1. /\ call.db \in Databases /\ Default \in Databases
      /\ rows \in [Databases -> SUBSET Nodes]
      /\ pc \in {"ops", "commit"} => Running /\ Top.todo = <<>> /\ ~call.fake
      /\ pc = "commit" => tx.rows = Record(rows[call.db])
  BY DiskTyped DEF Task, Walked, StackInv, Running
<1>2. CASE FakeNode
  BY <1>1, <1>2 DEF FakeNode, Settle, Ready, Running, Record
<1>3. CASE WriteRowAlone
  BY <1>1, <1>3 DEF WriteRowAlone, Settle, WritesDefault, Record
<1>4. CASE Commit
  BY <1>1, <1>4 DEF Commit, Install, Settle, WritesDefault, Record
<1> QED
  BY <1>2, <1>3, <1>4

\* Migrate goes on with the options of the call.
LEMMA KnownStep ==
    ASSUME Forward, [Next]_vars, ~call.back
    PROVE  Known'
<1> USE DEF disk
<1>a. Walked /\ Task /\ Known /\ rows[Default] \subseteq rows'[Default]
  BY RowsGrow, DatabasesAssumption DEF Forward
<1>1. ASSUME pc' \notin {"apps", "deps", "ops", "commit"}
      PROVE  Known'
  BY <1>1 DEF Known
<1>2. ASSUME pc \in {"apps", "deps", "ops", "commit"}, applied' = applied,
             call'.db = call.db, call'.fake = call.fake
      PROVE  Known'
  BY <1>a, <1>2 DEF Known, WritesDefault
<1>3. CASE LoadApplied
  BY <1>3 DEF LoadApplied, Known
<1>4. ASSUME NEW a \in Apps, Migrate(a)
      PROVE  Known'
  BY <1>4, <1>a, <1>2 DEF Migrate, Walked, TypeOK
<1>5. CASE FakeNode \/ WriteRowAlone \/ Commit
  <2>1. /\ applied' = applied \cup {Node} /\ call' = call /\ Running
        /\ WritesDefault => rows'[Default] = rows[Default] \cup {Node}
    BY <1>5, <1>a, SettledIsRecorded DEF Settle
  <2> QED
    BY <1>a, <2>1 DEF Known, WritesDefault, Running
<1>6. CASE SkipDep \/ EnterDep \/ Begin \/ RunOp \/ WriteRowInTx
  BY <1>6, <1>2 DEF SkipDep, EnterDep, Begin, RunOp, WriteRowInTx, Ready
<1>7. CASE CreateTable \/ \E req \in Requests : Start(req)
  BY <1>7, <1>1 DEF CreateTable, Start
<1>8. CASE \/ LoadAppliedRefused \/ FinishRun \/ RunOpRefused \/ Fault
           \/ \E a \in Apps : MigrateFails(a)
  BY <1>8, <1>1 DEF LoadAppliedRefused, FinishRun, RunOpRefused, Fault,
                    MigrateFails, CreateTableFails, LoadAppliedFails,
                    FakeNodeFails, BeginFails, RunOpFails, WriteRowFails,
                    CommitFails, Crash, Return
<1>9. CASE UNCHANGED vars
  BY <1>9, <1>a DEF vars, Known, WritesDefault
<1> QED
  BY <1>3, <1>4, <1>5, <1>6, <1>7, <1>8, <1>9 DEF Next, Progress, Walk

\* On the way forwards state.migrate starts from the wanted node.
LEMMA ForwardGoal ==
    ASSUME Walked, NEW a \in Apps, ~BadTarget(a), ~Backwards(a), Wanted(a) # 0
    PROVE  Goal(a) = <<a, Wanted(a)>>
BY RequestsAssumption, AppsAssumption DEF Goal, Wanted, Walked, TypeOK

\* An application whose walk is over has its wanted node recorded: rows are
\* only added.
LEMMA AimingStep ==
    ASSUME Forward, [Next]_vars, ~call.back, ~call'.back
    PROVE  Aiming'
<1> USE DEF disk
<1>a. /\ Walked /\ Task /\ Known /\ Aiming
      /\ rows[Default] \subseteq rows'[Default]
      /\ call.db = Default => WritesDefault
  BY RowsGrow, DatabasesAssumption DEF Forward, WritesDefault
<1>1. ASSUME NEW req \in Requests, Start(req)
      PROVE  Aiming'
  <2>1. /\ req.app = AllApps => req.target = Latest
        /\ call' = [db |-> req.db, fake |-> req.fake, back |-> FALSE,
                    app |-> req.app, target |-> req.target]
        /\ pc' = "table"
        /\ pending' = IF req.app = AllApps THEN {a \in Apps : Last[a] > 0}
                                           ELSE {req.app}
    BY <1>1, RequestsAssumption DEF Start
  <2> QED
    BY <2>1 DEF Aiming, Chosen, Running
<1>2. ASSUME NEW a \in Apps, Migrate(a)
      PROVE  Aiming'
  <2>1. /\ call'.app = call.app /\ call'.target = call.target
        /\ call'.back = Backwards(a) /\ call'.db = call.db
        /\ pc = "apps" /\ ~BadTarget(a)
        /\ pending' = pending \ {a} /\ rows' = rows
    BY <1>2, <1>a DEF Migrate, Walked, TypeOK
  <2>2. /\ Chosen' = Chosen
        /\ \A b : Wanted(b)' = Wanted(b)
    BY <2>1 DEF Chosen, Wanted
  <2>3. \A b \in Chosen \ pending' : b = a \/ b \in Chosen \ pending
    BY <2>1
  <2>4. Wanted(a) # 0 => Goal(a) = <<a, Wanted(a)>>
    BY <1>a, <2>1, ForwardGoal
  <2>5. CASE pc' = "apps" /\ IsSettled(Goal(a), Backwards(a))
    <3>1. call.db = Default => Aimed(a)
      BY <1>a, <2>1, <2>4, <2>5 DEF IsSettled, Known, Aimed
    <3>2. call.db = Default => \A b \in Chosen \ pending' : Aimed(b)
      BY <1>a, <2>1, <2>3, <3>1 DEF Aiming
    <3> QED
      BY <1>a, <2>1, <2>2, <2>5, <3>2 DEF Aiming, Aimed, Running
  <2>6. CASE pc' = "deps" /\ \E todo \in Orders(Goal(a), Backwards(a)) :
                                stack' = <<[node |-> Goal(a), todo |-> todo]>>
    <3>1. Base' = Goal(a)
      BY <2>6 DEF Base
    <3>2. call.db = Default =>
            \A b \in Chosen \ pending' :
              (Wanted(b) # 0 => <<b, Wanted(b)>> \in rows[Default])
              \/ Base' = <<b, Wanted(b)>>
      BY <1>a, <2>1, <2>3, <2>4, <3>1 DEF Aiming, Aimed
    <3> QED
      BY <1>a, <2>1, <2>2, <2>6, <3>2 DEF Aiming, Aimed, Running
  <2> QED
    BY <1>2, <2>1, <2>5, <2>6 DEF Migrate
<1>3. ASSUME Running, Running', call' = call, pending' = pending, Base' = Base
      PROVE  Aiming'
  BY <1>3, <1>a DEF Aiming, Chosen, Aimed, Wanted, Running
<1>4. CASE SkipDep \/ EnterDep
  <2>1. /\ Running /\ Running' /\ call' = call /\ pending' = pending
        /\ Top.todo # <<>>
        /\ \/ stack' = Advance
           \/ \E f : stack' = Append(Advance, f)
    BY <1>4 DEF SkipDep, EnterDep, Running
  <2>2. /\ Advance[1].node = Base
        /\ Advance \in Seq(Frames) /\ Len(Advance) = Len(stack)
        /\ Len(stack) \in Nat /\ Len(stack) >= 1
    BY <1>a, <2>1, FirstFrame, Advances
  <2>3. \A f : Append(Advance, f)[1] = Advance[1]
    BY <2>2
  <2> QED
    BY <2>1, <2>2, <2>3, <1>3 DEF Base
<1>5. CASE Begin \/ RunOp \/ WriteRowInTx
  BY <1>5, <1>3 DEF Begin, RunOp, WriteRowInTx, Ready, Running, Base
<1>6. CASE FakeNode \/ WriteRowAlone \/ Commit
  <2>1. /\ Settle /\ Running /\ call' = call /\ pending' = pending
        /\ WritesDefault => rows'[Default] = rows[Default] \cup {Node}
    BY <1>6, <1>a, SettledIsRecorded DEF Settle
  <2>2. CASE Len(stack) = 1
    <3>1. Base = Node /\ pc' = "apps"
      BY <1>a, <2>1, <2>2, FirstFrame DEF Settle
    <3> QED
      BY <1>a, <2>1, <3>1 DEF Aiming, Chosen, Aimed, Wanted, Running
  <2>3. CASE Len(stack) # 1
    <3>1. Len(stack) > 1
      <4> DEFINE n == Len(stack)
      <4>1. n \in Nat /\ n >= 1 /\ n # 1
        BY <1>a, <2>1, <2>3, FirstFrame
      <4>2. n > 1
        <5> HIDE DEF n
        <5> QED
          BY <4>1
      <4> QED
        BY <4>2
    <3>2. Base' = Base /\ pc' = "deps"
      BY <1>a, <2>1, <2>3, <3>1, FirstFrame DEF Settle, Base
    <3> QED
      BY <2>1, <3>2, <1>3 DEF Running
  <2> QED
    BY <2>2, <2>3
<1>7. CASE CreateTable \/ LoadApplied
  BY <1>7, <1>a DEF CreateTable, LoadApplied, Aiming, Chosen, Aimed, Wanted, Running
<1>8. CASE FinishRun
  BY <1>8, <1>a DEF FinishRun, Return, Aiming, Chosen, Aimed, Wanted, Running
<1>9. CASE \/ LoadAppliedRefused \/ RunOpRefused \/ Fault
           \/ \E a \in Apps : MigrateFails(a)
  <2>1. pc' = "idle" /\ result' # "ok" /\ call' = call
    BY <1>9 DEF LoadAppliedRefused, RunOpRefused, Fault,
                MigrateFails, CreateTableFails, LoadAppliedFails,
                FakeNodeFails, BeginFails, RunOpFails, WriteRowFails,
                CommitFails, Crash, Return
  <2> QED
    BY <1>a, <2>1 DEF Aiming, Running
<1>10. CASE UNCHANGED vars
  BY <1>10, <1>a DEF vars, Aiming, Chosen, Aimed, Wanted, Base, Running
<1> QED
  BY <1>1, <1>2, <1>4, <1>5, <1>6, <1>7, <1>8, <1>9, <1>10
     DEF Next, Progress, Walk

\* What a call knows of the rows stays true while calls only go forwards.
LEMMA ForwardStep ==
    ASSUME Forward, [Next]_vars, ~call.back, ~call'.back
    PROVE  Forward'
BY StackStep, TaskStep, KnownStep, AimingStep, ForwardKeepsClosed DEF Forward

\* With a closed table the nodes below the wanted one are recorded with it ...
LEMMA AimedIsCovered ==
    ASSUME Chained, Forward, NEW a \in Apps, Aimed(a)
    PROVE  {a} \X (1 .. Wanted(a)) \subseteq rows[Default]
<1>1. rows[Default] \subseteq Nodes /\ Last[a] \in Nat
  BY DiskTyped, AppsAssumption DEF Forward, Task
<1>2. CASE Wanted(a) = 0
  BY <1>2
<1>3. CASE Wanted(a) # 0
  <2>1. <<a, Wanted(a)>> \in rows[Default]
    BY <1>3 DEF Aimed
  <2>2. Wanted(a) \in 1 .. Last[a]
    BY <1>1, <2>1 DEF Nodes
  <2>3. \A j \in 1 .. Wanted(a) : <<a, j>> \in rows[Default]
    BY <2>1, <2>2, ClosedBelow DEF Forward, DepClosed
  <2> QED
    BY <2>3
<1> QED
  BY <1>2, <1>3

\* ... so that nil means every node up to it, of every application of the call.
LEMMA CallIsCovered ==
    ASSUME Chained, Forward, pc = "idle", result = "ok", call.db = Default,
           NEW a \in Apps, call.app \in {a, AllApps}
    PROVE  {a} \X (1 .. Wanted(a)) \subseteq rows[Default]
<1>1. CASE a \in Chosen
  BY <1>1, AimedIsCovered DEF Forward, Aiming
<1>2. CASE a \notin Chosen
  <2>1. call.target = Latest /\ ~(Last[a] > 0) /\ Last[a] \in Nat
    BY <1>2, AppsAssumption DEF Chosen, Forward, Aiming
  <2> QED
    BY <2>1 DEF Wanted
<1> QED
  BY <1>1, <1>2
=============================================================================
