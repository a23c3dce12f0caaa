-------------------------- MODULE MigrationRunProofs --------------------------
(***************************************************************************)
(* Proofs about MigrationRun, for every set of applications, graph of      *)
(* changes, set of databases and set of calls: the type invariant, and     *)
(* that the default database records a node only with its dependencies.    *)
(***************************************************************************)
EXTENDS MigrationRun, SequenceTheorems, FiniteSetTheorems, NaturalsInduction,
        WellFoundedInduction, TLAPS

\* The nodes of an application are numbered from 1, as loadApp numbers them.
LEMMA NodeOf ==
    ASSUME NEW a \in Apps, NEW k \in 1 .. Last[a]
    PROVE  <<a, k>> \in Nodes
BY DEF Nodes

\* A node is run after (or, backwards, reverted after) a list of nodes that is
\* made of its required nodes, in whichever order they come.
LEMMA OrdersAreComplete ==
    ASSUME NEW n \in Nodes, NEW back \in BOOLEAN, NEW t \in Orders(n, back)
    PROVE  /\ t \in Seq(Nodes)
           /\ \A d \in Required(n, back) : \E j \in 1 .. Len(t) : t[j] = d
<1>1. CASE ~back
  <2>1. t = Deps[n] /\ t \in Seq(Nodes)
    BY <1>1, AppsAssumption DEF Orders
  <2>2. DOMAIN t = 1 .. Len(t)
    BY <2>1, LenProperties
  <2> QED
    BY <1>1, <2>1, <2>2 DEF Required, Needs
<1>2. CASE back
  <2>1. NeededBy(n) \subseteq Nodes
    BY DEF NeededBy
  <2>2. Cardinality(NeededBy(n)) \in Nat
    BY <2>1, AppsAssumption, FS_Subset, FS_CardinalityType
  <2>3. /\ t \in [1 .. Cardinality(NeededBy(n)) -> NeededBy(n)]
        /\ {t[i] : i \in DOMAIN t} = NeededBy(n)
    BY <1>2 DEF Orders, BackOrders
  <2>4. t \in Seq(Nodes)
    <3>1. t \in [1 .. Cardinality(NeededBy(n)) -> Nodes]
      BY <2>1, <2>3
    <3> QED
      BY <2>2, <3>1, SeqDef
  <2>5. DOMAIN t = 1 .. Len(t)
    BY <2>4, LenProperties
  <2> QED
    BY <1>2, <2>3, <2>4, <2>5 DEF Required
<1> QED
  BY <1>1, <1>2

\* The frame on top, what is below it, and the frame once its next node has
\* been taken off its list.
LEMMA Stacks ==
    ASSUME stack \in Seq(Frames), stack # <<>>
    PROVE  /\ Len(stack) \in Nat /\ Len(stack) >= 1
           /\ Top \in Frames
           /\ Node \in Nodes
           /\ Top.todo \in Seq(Nodes)
           /\ Pop \in Seq(Frames)
           /\ Len(Pop) = Len(stack) - 1
           /\ \A i \in 1 .. Len(Pop) : Pop[i] = stack[i]
<1>1. Len(stack) \in Nat /\ Len(stack) >= 1
  <2>1. Len(stack) \in Nat \ {0}
    BY EmptySeq
  <2> QED
    BY <2>1
<1>2. Top \in Frames
  BY <1>1, ElementOfSeq DEF Top
<1>3. \A i \in 1 .. Len(stack) - 1 : stack[i] \in Frames
  BY <1>1, ElementOfSeq
<1>4. /\ Pop \in Seq(Frames)
      /\ Len(Pop) = IF 1 <= Len(stack) - 1 THEN Len(stack) - 1 - 1 + 1 ELSE 0
      /\ \A i \in 1 .. Len(stack) - 1 - 1 + 1 : Pop[i] = stack[1 + i - 1]
  BY <1>1, <1>3, SubSeqProperties DEF Pop
<1>5. Len(Pop) = Len(stack) - 1
  <2> DEFINE n == Len(stack)
             m == Len(Pop)
  <2>1. n \in Nat /\ n >= 1
    BY <1>1
  <2>2. m = IF 1 <= n - 1 THEN n - 1 - 1 + 1 ELSE 0
    BY <1>4
  <2>3. m = n - 1
    <3> HIDE DEF n, m
    <3> QED
      BY <2>1, <2>2
  <2> QED
    BY <2>3
<1>6. \A i \in 1 .. Len(Pop) : Pop[i] = stack[i]
  BY <1>1, <1>4, <1>5
<1> QED
  BY <1>1, <1>2, <1>4, <1>5, <1>6 DEF Node, Frames

\* Taking a node off the list of the frame on top changes nothing else.
LEMMA Advances ==
    ASSUME stack \in Seq(Frames), stack # <<>>, Top.todo # <<>>
    PROVE  /\ Advance \in Seq(Frames)
           /\ Len(Advance) = Len(stack)
           /\ \A i \in 1 .. Len(stack) : Advance[i].node = stack[i].node
           /\ \A i \in 1 .. Len(stack) - 1 : Advance[i] = stack[i]
           /\ Advance[Len(stack)].todo = Tail(Top.todo)
           /\ Head(Top.todo) \in Nodes
           /\ \A j \in 1 .. Len(Top.todo) :
                \/ Top.todo[j] = Head(Top.todo)
                \/ \E k \in 1 .. Len(Tail(Top.todo)) :
                        Tail(Top.todo)[k] = Top.todo[j]
<1> DEFINE next == [Top EXCEPT !.todo = Tail(@)]
<1>1. /\ Len(stack) \in Nat /\ Len(stack) >= 1
      /\ Top \in Frames
      /\ Top.todo \in Seq(Nodes)
  BY Stacks
<1>2. /\ Head(Top.todo) \in Nodes
      /\ Tail(Top.todo) \in Seq(Nodes)
      /\ Len(Tail(Top.todo)) = Len(Top.todo) - 1
      /\ \A i \in 1 .. Len(Tail(Top.todo)) : Tail(Top.todo)[i] = Top.todo[i + 1]
  BY <1>1, HeadTailProperties
<1>3. next \in Frames /\ next.node = Top.node /\ next.todo = Tail(Top.todo)
  BY <1>1, <1>2 DEF Frames
<1>4. Advance = [stack EXCEPT ![Len(stack)] = next]
  BY DEF Advance, Top
<1>5. Len(stack) \in 1 .. Len(stack)
  BY <1>1
<1>6. /\ Advance \in Seq(Frames)
      /\ Len(Advance) = Len(stack)
      /\ \A j \in 1 .. Len(stack) :
            Advance[j] = IF j = Len(stack) THEN next ELSE stack[j]
  BY <1>3, <1>4, <1>5, ExceptSeq
<1>7. ASSUME NEW j \in 1 .. Len(Top.todo), Top.todo[j] # Head(Top.todo)
      PROVE  \E k \in 1 .. Len(Tail(Top.todo)) : Tail(Top.todo)[k] = Top.todo[j]
  <2>1. Len(Top.todo) \in Nat /\ Head(Top.todo) = Top.todo[1]
    BY <1>1, LenProperties
  <2>2. j # 1
    BY <1>7, <2>1
  <2>3. j - 1 \in 1 .. Len(Tail(Top.todo))
    BY <1>2, <2>1, <2>2
  <2>4. (j - 1) + 1 = j
    BY <2>1
  <2>5. Tail(Top.todo)[j - 1] = Top.todo[(j - 1) + 1]
    BY <1>2, <2>3
  <2> QED
    BY <2>3, <2>4, <2>5
<1>8. \A i \in 1 .. Len(stack) : Advance[i].node = stack[i].node
  BY <1>3, <1>6 DEF Top
<1>9. \A i \in 1 .. Len(stack) - 1 : Advance[i] = stack[i]
  BY <1>1, <1>6
<1> QED
  BY <1>1, <1>2, <1>3, <1>5, <1>6, <1>7, <1>8, <1>9

------------------------------------------------------------------------------
(* The operations of a node, one after the other *)

\* A set of numbers that is not empty has a least one.
LEMMA Least ==
    ASSUME NEW T, T \subseteq Nat, T # {}
    PROVE  \E x \in T : \A y \in T : ~(y < x)
<1>1. IsWellFoundedOn(OpToRel(<, Nat), Nat)
  BY NatLessThanWellFounded
<1>2. \E x \in T : \A y \in T : ~(<<y, x>> \in OpToRel(<, Nat))
  BY <1>1, WFMin
<1> QED
  BY <1>2 DEF OpToRel

\* What holds of 0, and of n + 1 when it holds of n, holds of every number.
LEMMA Induction ==
    ASSUME NEW T, 0 \in T, \A n \in Nat : n \in T => n + 1 \in T
    PROVE  Nat \subseteq T
<1> SUFFICES ASSUME Nat \ T # {} PROVE FALSE
  OBVIOUS
<1>1. PICK n \in Nat \ T : \A m \in Nat \ T : ~(m < n)
  BY Least
<1>2. n # 0 /\ n - 1 \in Nat /\ n - 1 < n /\ (n - 1) + 1 = n
  BY <1>1
<1>3. n - 1 \in T
  BY <1>1, <1>2
<1> QED
  BY <1>1, <1>2, <1>3

\* A value and what a number of steps make of it, one after the other.
Path(V, v, step, m) ==
    {f \in [0 .. m -> V] : /\ f[0] = v
                           /\ \A k \in 1 .. m : f[k] = step[k][f[k - 1]]}

\* Steps can be taken one after the other.
LEMMA Paths ==
    ASSUME NEW N \in Nat, NEW V, NEW v \in V, NEW step \in [1 .. N -> [V -> V]]
    PROVE  Path(V, v, step, N) # {}
<1> DEFINE T == {m \in Nat : m <= N => Path(V, v, step, m) # {}}
<1>1. 0 \in T
  <2>1. [k \in 0 .. 0 |-> v] \in Path(V, v, step, 0)
    BY DEF Path
  <2> QED
    BY <2>1
<1>2. ASSUME NEW m \in Nat, m \in T
      PROVE  m + 1 \in T
  <2> SUFFICES ASSUME m + 1 <= N
               PROVE  Path(V, v, step, m + 1) # {}
    OBVIOUS
  <2>1. m <= N /\ m + 1 \in 1 .. N
    OBVIOUS
  <2>2. PICK f \in [0 .. m -> V] : f \in Path(V, v, step, m)
    BY <1>2, <2>1 DEF Path
  <2> DEFINE next == step[m + 1][f[m]]
             g == [k \in 0 .. m + 1 |-> IF k = m + 1 THEN next ELSE f[k]]
  <2>3. f[m] \in V /\ step[m + 1] \in [V -> V]
    BY <2>1, <2>2
  <2>4. next \in V
    BY <2>3
  <2>5. g \in [0 .. m + 1 -> V]
    <3> HIDE DEF next
    <3> QED
      BY <2>2, <2>4
  <2>6. g[0] = v
    BY <2>2 DEF Path
  <2>7. ASSUME NEW k \in 1 .. m + 1
        PROVE  g[k] = step[k][g[k - 1]]
    <3>1. k - 1 \in 0 .. m /\ k - 1 # m + 1 /\ (k # m + 1 => k \in 1 .. m)
      OBVIOUS
    <3>2. g[k - 1] = f[k - 1]
      BY <3>1
    <3>3. CASE k = m + 1
      BY <3>2, <3>3
    <3>4. CASE k # m + 1
      BY <2>2, <3>1, <3>2, <3>4 DEF Path
    <3> QED
      BY <3>3, <3>4
  <2>8. g \in Path(V, v, step, m + 1)
    <3> HIDE DEF g
    <3> QED
      BY <2>5, <2>6, <2>7 DEF Path
  <2> QED
    BY <2>8
<1>3. Nat \subseteq T
  <2> HIDE DEF T
  <2> QED
    BY <1>1, <1>2, Induction
<1> QED
  BY <1>3

\* An operation of a node, run or reversed, has an outcome that is a schema
\* where it is not refused.
LEMMA ChangeTyped ==
    ASSUME NEW n \in Nodes, NEW back \in BOOLEAN, NEW k \in 1 .. Ops[n]
    PROVE  \A x \in DOMAIN Change(n, back, k) :
                x \in Schemas /\ Change(n, back, k)[x] \in Schemas
<1>1. Ops[n] \in Nat
  BY AppsAssumption
<1>2. \A i \in 1 .. Ops[n] : <<n, i>> \in Changes
  BY DEF Changes
<1>3. Ops[n] + 1 - k \in 1 .. Ops[n]
  BY <1>1
<1> QED
  BY <1>2, <1>3, SchemasAssumption DEF Change, IsPartial

\* What a set of schemas becomes by the k-th operation.
Outcomes(n, back, k, X) ==
    {Change(n, back, k)[x] : x \in X \cap DOMAIN Change(n, back, k)}

\* After is what its definition says.
LEMMA AfterIs ==
    ASSUME NEW n \in Nodes, NEW back \in BOOLEAN, NEW s \in Schemas
    PROVE  /\ Ops[n] \in Nat
           /\ After(n, back, s) \in [0 .. Ops[n] -> SUBSET Schemas]
           /\ After(n, back, s)[0] = {s}
           /\ \A k \in 1 .. Ops[n] :
                After(n, back, s)[k] =
                    Outcomes(n, back, k, After(n, back, s)[k - 1])
<1> DEFINE N == Ops[n]
           V == SUBSET Schemas
           step == [k \in 1 .. N |-> [X \in V |-> Outcomes(n, back, k, X)]]
           body(f, k) == IF k = 0 THEN {s} ELSE Outcomes(n, back, k, f[k - 1])
<1>1. N \in Nat
  BY AppsAssumption
<1>2. \A k \in 1 .. N : \A X \in V : Outcomes(n, back, k, X) \in V
  BY ChangeTyped DEF Outcomes
<1>3. step \in [1 .. N -> [V -> V]]
  BY <1>2
<1>4. \E f \in [0 .. N -> V] : f[0] = {s} /\ \A k \in 1 .. N : f[k] = step[k][f[k - 1]]
  <2>1. {s} \in V
    OBVIOUS
  <2>2. Path(V, {s}, step, N) # {}
    <3> HIDE DEF N, V, step
    <3> QED
      BY <1>1, <1>3, <2>1, Paths
  <2> QED
    BY <2>2 DEF Path
<1>5. PICK f \in [0 .. N -> V] : f = [k \in 0 .. N |-> body(f, k)]
  <2>1. PICK f \in [0 .. N -> V] : f[0] = {s} /\ \A k \in 1 .. N : f[k] = step[k][f[k - 1]]
    BY <1>4
  <2>2. ASSUME NEW k \in 0 .. N PROVE f[k] = body(f, k)
    <3>1. CASE k = 0
      BY <2>1, <3>1
    <3>2. CASE k # 0
      <4>1. k \in 1 .. N /\ k - 1 \in 0 .. N
        BY <1>1, <3>2
      <4>2. f[k - 1] \in V
        BY <4>1
      <4> QED
        BY <2>1, <3>2, <4>1, <4>2
    <3> QED
      BY <3>1, <3>2
  <2>3. f = [k \in 0 .. N |-> body(f, k)]
    <3> HIDE DEF body, V
    <3> QED
      BY <2>2
  <2> QED
    BY <2>3
<1>6. After(n, back, s) = CHOOSE g : g = [k \in 0 .. N |-> body(g, k)]
  BY DEF After, Outcomes
<1> DEFINE h == After(n, back, s)
<1>7. h = [k \in 0 .. N |-> body(h, k)]
  <2> DEFINE P(g) == g = [k \in 0 .. N |-> body(g, k)]
             first == CHOOSE g : P(g)
  <2>1. P(f)
    BY <1>5
  <2>2. P(first)
    <3> HIDE DEF P
    <3> QED
      BY <2>1
  <2> QED
    BY <1>6, <2>2
<1>8. /\ h[0] = {s}
      /\ \A k \in 1 .. N : h[k] = Outcomes(n, back, k, h[k - 1])
  <2> HIDE DEF h
  <2>1. \A k \in 0 .. N : h[k] = body(h, k)
    <3> HIDE DEF body
    <3> QED
      BY <1>7
  <2> QED
    BY <1>1, <2>1
<1>9. h \in [0 .. N -> V]
  <2> DEFINE T == {m \in Nat : m <= N => h[m] \in V}
  <2> HIDE DEF h
  <2>1. 0 \in T
    BY <1>8
  <2>2. ASSUME NEW m \in Nat, m \in T
        PROVE  m + 1 \in T
    <3> SUFFICES ASSUME m + 1 <= N
                 PROVE  h[m + 1] \in V
      OBVIOUS
    <3>1. m <= N /\ m + 1 \in 1 .. N /\ (m + 1) - 1 = m
      BY <1>1
    <3>2. h[m + 1] = Outcomes(n, back, m + 1, h[m])
      BY <1>8, <3>1
    <3> QED
      BY <1>2, <2>2, <3>1, <3>2
  <2>3. Nat \subseteq T
    <3> HIDE DEF T
    <3> QED
      BY <2>1, <2>2, Induction
  <2>4. \A k \in 0 .. N : h[k] \in V
    BY <1>1, <2>3
  <2> HIDE DEF V, body
  <2> QED
    BY <1>7, <2>4
<1> QED
  BY <1>1, <1>8, <1>9

------------------------------------------------------------------------------
(* Type correctness *)

\* The process is inside a node exactly when a frame is on the stack.
Typed == TypeOK /\ (Running <=> stack # <<>>)

DiskOK ==
    /\ tables \subseteq Databases
    /\ rows \in [Databases -> SUBSET Nodes]
    /\ schema \in [Databases -> Schemas]

\* A call that returns leaves a typed state, whatever it did to the disk.
LEMMA ReturnTyped ==
    ASSUME Typed, DiskOK', NEW o \in {"ok", "error", "crashed"}, Return(o)
    PROVE  Typed'
<1>1. <<>> \in Seq(Frames)
  BY EmptySeq
<1> QED
  BY <1>1, SchemasAssumption DEF Typed, TypeOK, DiskOK, Return, Closed, Running

\* ... and so does a node that is settled.
LEMMA SettleTyped ==
    ASSUME Typed, DiskOK', Running, Settle,
           tx' \in [rows : SUBSET Nodes, schema : Schemas]
    PROVE  Typed'
<1>1. /\ stack \in Seq(Frames)
      /\ stack # <<>>
  BY DEF Typed, TypeOK
<1>2. /\ Node \in Nodes
      /\ Pop \in Seq(Frames)
      /\ Len(Pop) = Len(stack) - 1
      /\ Len(stack) \in Nat /\ Len(stack) >= 1
  BY <1>1, Stacks
<1>3. Len(stack) = 1 <=> Pop = <<>>
  <2> DEFINE n == Len(stack)
             m == Len(Pop)
  <2>1. (m = 0) <=> (Pop = <<>>)
    BY <1>2, EmptySeq
  <2>2. (n = 1) <=> (m = 0)
    <3>1. n \in Nat /\ n >= 1 /\ m = n - 1
      BY <1>2
    <3> HIDE DEF n, m
    <3> QED
      BY <3>1
  <2> QED
    BY <2>1, <2>2
<1> QED
  BY <1>2, <1>3 DEF Typed, TypeOK, DiskOK, Settle, Running

\* What a node writes stays within the nodes and the schemas.
LEMMA WritesTyped ==
    ASSUME Typed, Running
    PROVE  /\ Node \in Nodes
           /\ \A ledger \in SUBSET Nodes : Record(ledger) \in SUBSET Nodes
           /\ Ops[Node] \in Nat
           /\ done < Ops[Node] =>
                \A s \in DOMAIN NextChange : Changed(s) \in Schemas
<1>1. /\ stack \in Seq(Frames)
      /\ stack # <<>>
      /\ done \in Nat
      /\ call.back \in BOOLEAN
  BY DEF Typed, TypeOK
<1>2. Node \in Nodes
  BY <1>1, Stacks
<1>3. Ops[Node] \in Nat
  BY <1>2, AppsAssumption
<1>4. ASSUME done < Ops[Node]
      PROVE  \A s \in DOMAIN NextChange : Changed(s) \in Schemas
  <2>1. done + 1 \in 1 .. Ops[Node]
    BY <1>1, <1>3, <1>4
  <2> QED
    BY <1>1, <1>2, <2>1, ChangeTyped DEF NextChange, Changed
<1> QED
  BY <1>2, <1>3, <1>4 DEF Record

\* What state.migrate aims at is a node of its application, to be reached along
\* a list of nodes.
LEMMA GoalTyped ==
    ASSUME Typed, NEW a \in Apps, ~BadTarget(a)
    PROVE  /\ Goal(a) \in Nodes
           /\ Backwards(a) \in BOOLEAN
           /\ \A todo \in Orders(Goal(a), Backwards(a)) :
                <<[node |-> Goal(a), todo |-> todo]>> \in Seq(Frames)
<1>1. /\ Last[a] \in Nat
      /\ call.target \in Nat \cup {Latest}
      /\ Latest \notin Nat
  BY AppsAssumption, RequestsAssumption DEF Typed, TypeOK
<1>2. Backwards(a) \in BOOLEAN
  BY DEF Backwards
<1>3. CASE call.target = Latest
  <2>1. Last[a] \in 1 .. Last[a]
    BY <1>1 DEF BadTarget
  <2>2. Goal(a) = <<a, Last[a]>>
    BY <1>1, <1>3 DEF Goal, Backwards
  <2>3. Goal(a) \in Nodes
    BY <2>1, <2>2, NodeOf
  <2> QED
    BY <2>3, <1>2, OrdersAreComplete DEF Frames
<1>4. CASE call.target # Latest
  <2>1. call.target \in Nat /\ ~(call.target > Last[a]) /\ Last[a] # 0
    BY <1>1, <1>4 DEF BadTarget
  <2>2. \E k \in 1 .. Last[a] : Goal(a) = <<a, k>>
    <3>1. CASE Backwards(a)
      <4>1. PICK k \in 1 .. Last[a] : call.target < k
        BY <3>1 DEF Backwards
      <4>2. call.target + 1 \in 1 .. Last[a]
        BY <1>1, <2>1, <4>1
      <4>3. Goal(a) = <<a, call.target + 1>>
        BY <1>4, <3>1 DEF Goal
      <4> QED
        BY <4>2, <4>3
    <3>2. CASE ~Backwards(a) /\ call.target # 0
      <4>1. call.target \in 1 .. Last[a]
        BY <1>1, <2>1, <3>2
      <4>2. Goal(a) = <<a, call.target>>
        BY <1>4, <2>1, <3>2 DEF Goal
      <4> QED
        BY <4>1, <4>2
    <3>3. CASE ~Backwards(a) /\ call.target = 0
      <4>1. 1 \in 1 .. Last[a]
        BY <1>1, <2>1
      <4>2. Goal(a) = <<a, 1>>
        BY <1>4, <3>3 DEF Goal
      <4> QED
        BY <4>1, <4>2
    <3> QED
      BY <3>1, <3>2, <3>3
  <2>3. Goal(a) \in Nodes
    BY <2>2, NodeOf
  <2> QED
    BY <2>3, <1>2, OrdersAreComplete DEF Frames
<1> QED
  BY <1>3, <1>4

\* The process starts in a typed state ...
LEMMA TypedInit == Init => Typed
<1> SUFFICES ASSUME Init PROVE Typed
  OBVIOUS
<1>1. <<>> \in Seq(Frames)
  BY EmptySeq
<1> QED
  BY <1>1, DatabasesAssumption, SchemasAssumption
     DEF Init, Typed, TypeOK, Running, Closed

\* ... and every action keeps it typed.
LEMMA TypedStep == Typed /\ [Next]_vars => Typed'
<1> SUFFICES ASSUME Typed, [Next]_vars PROVE Typed'
  OBVIOUS
<1> USE DEF disk
<1>1. ASSUME NEW req \in Requests, Start(req)
      PROVE  Typed'
  <2>1. req \in [db : Databases, fake : BOOLEAN,
                 app : Apps \cup {AllApps},
                 target : Nat \cup {Latest}]
    BY RequestsAssumption
  <2>2. pending' \subseteq Apps
    BY <1>1, <2>1 DEF Start
  <2>3. call' = [db |-> req.db, fake |-> req.fake, back |-> FALSE,
                 app |-> req.app, target |-> req.target]
    BY <1>1 DEF Start
  <2> QED
    BY <1>1, <2>1, <2>2, <2>3 DEF Start, Typed, TypeOK, Running
<1>2. CASE CreateTable
  BY <1>2 DEF CreateTable, Typed, TypeOK, Running
<1>3. CASE LoadApplied
  BY <1>3, DatabasesAssumption DEF LoadApplied, Typed, TypeOK, Running
<1>4. ASSUME NEW a \in Apps, Migrate(a)
      PROVE  Typed'
  <2>1. ~BadTarget(a)
    BY <1>4 DEF Migrate
  <2>2. /\ Goal(a) \in Nodes
        /\ Backwards(a) \in BOOLEAN
        /\ \A todo \in Orders(Goal(a), Backwards(a)) :
             <<[node |-> Goal(a), todo |-> todo]>> \in Seq(Frames)
    BY <2>1, GoalTyped
  <2>3. call' = [call EXCEPT !.back = Backwards(a)]
    BY <1>4 DEF Migrate
  <2>4. /\ stack' \in Seq(Frames)
        /\ pc' \in {"apps", "deps"}
        /\ pc' = "deps" <=> stack' # <<>>
    <3>1. CASE UNCHANGED <<pc, stack>>
      BY <1>4, <3>1 DEF Migrate, Typed, TypeOK, Running
    <3>2. ASSUME NEW todo \in Orders(Goal(a), Backwards(a)), pc' = "deps",
                 stack' = <<[node |-> Goal(a), todo |-> todo]>>
          PROVE  stack' \in Seq(Frames) /\ stack' # <<>>
      BY <3>2, <2>2
    <3> QED
      BY <1>4, <3>1, <3>2 DEF Migrate
  <2> QED
    BY <1>4, <2>2, <2>3, <2>4 DEF Migrate, Typed, TypeOK, Running
<1>5. CASE SkipDep
  <2>1. stack \in Seq(Frames) /\ stack # <<>> /\ Top.todo # <<>>
    BY <1>5 DEF SkipDep, Typed, TypeOK, Running
  <2>2. stack' \in Seq(Frames) /\ stack' # <<>>
    BY <1>5, <2>1, Advances, Stacks, EmptySeq DEF SkipDep
  <2> QED
    BY <1>5, <2>2 DEF SkipDep, Typed, TypeOK, Running
<1>6. CASE EnterDep
  <2>1. /\ stack \in Seq(Frames) /\ stack # <<>> /\ Top.todo # <<>>
        /\ call.back \in BOOLEAN
    BY <1>6 DEF EnterDep, Typed, TypeOK, Running
  <2>2. /\ Advance \in Seq(Frames)
        /\ Head(Top.todo) \in Nodes
    BY <2>1, Advances
  <2>3. PICK todo \in Orders(Head(Top.todo), call.back) :
          stack' = Append(Advance, [node |-> Head(Top.todo), todo |-> todo])
    BY <1>6 DEF EnterDep
  <2>4. [node |-> Head(Top.todo), todo |-> todo] \in Frames
    BY <2>1, <2>2, OrdersAreComplete DEF Frames
  <2>5. stack' \in Seq(Frames) /\ stack' # <<>>
    BY <2>2, <2>3, <2>4, AppendProperties
  <2> QED
    BY <1>6, <2>5 DEF EnterDep, Typed, TypeOK, Running
<1>7. CASE FakeNode
  BY <1>7, WritesTyped, SettleTyped, DatabasesAssumption
     DEF FakeNode, Ready, Typed, TypeOK, Running, DiskOK
<1>8. CASE Begin
  BY <1>8 DEF Begin, Ready, Typed, TypeOK, Running
<1>9. CASE RunOp
  <2>1. Running
    BY <1>9 DEF RunOp, Running
  <2>2. Changed(Seen) \in Schemas
    BY <1>9, <2>1, WritesTyped DEF RunOp, Possible
  <2>3. /\ InTx => Changed(tx.schema) \in Schemas
        /\ ~InTx => Changed(schema[call.db]) \in Schemas
    BY <2>2 DEF Seen
  <2>4. call.db \in Databases
    BY DEF Typed, TypeOK
  <2>5. /\ tx' \in [rows : SUBSET Nodes, schema : Schemas]
        /\ schema' \in [Databases -> Schemas]
    BY <1>9, <2>3, <2>4 DEF RunOp, Typed, TypeOK
  <2> QED
    BY <1>9, <2>5 DEF RunOp, Typed, TypeOK, Running
<1>10. CASE WriteRowInTx
  <2>1. Running
    BY <1>10 DEF WriteRowInTx, Running
  <2>2. tx' \in [rows : SUBSET Nodes, schema : Schemas]
    BY <1>10, <2>1, WritesTyped DEF WriteRowInTx, Typed, TypeOK
  <2> QED
    BY <1>10, <2>2 DEF WriteRowInTx, Typed, TypeOK, Running
<1>11. CASE WriteRowAlone
  <2>1. Running
    BY <1>11 DEF WriteRowAlone, Running
  <2>2. DiskOK'
    BY <1>11, <2>1, WritesTyped DEF WriteRowAlone, Typed, TypeOK, DiskOK
  <2> QED
    BY <1>11, <2>1, <2>2, SettleTyped DEF WriteRowAlone, Typed, TypeOK
<1>12. CASE Commit
  <2>1. Running
    BY <1>12 DEF Commit, Running
  <2>2. DiskOK' /\ tx' = Closed
    BY <1>12 DEF Commit, Install, Typed, TypeOK, DiskOK
  <2> QED
    BY <1>12, <2>1, <2>2, SettleTyped, SchemasAssumption DEF Commit, Closed
<1>13. CASE FinishRun \/ LoadAppliedRefused \/ LoadAppliedFails
            \/ RunOpRefused \/ BeginFails \/ Crash
  BY <1>13, ReturnTyped
     DEF FinishRun, LoadAppliedRefused, LoadAppliedFails, RunOpRefused,
         BeginFails, Crash, Typed, TypeOK, DiskOK
<1>14. ASSUME NEW a \in Apps, MigrateFails(a)
       PROVE  Typed'
  BY <1>14, ReturnTyped DEF MigrateFails, Typed, TypeOK, DiskOK
<1>15. CASE CreateTableFails
  BY <1>15, ReturnTyped DEF CreateTableFails, Typed, TypeOK, DiskOK
<1>16. CASE FakeNodeFails
  <2>1. Running
    BY <1>16 DEF FakeNodeFails, Ready, Running
  <2>2. DiskOK'
    BY <1>16, <2>1, WritesTyped, DatabasesAssumption
       DEF FakeNodeFails, Typed, TypeOK, DiskOK
  <2> QED
    BY <1>16, <2>2, ReturnTyped DEF FakeNodeFails
<1>17. CASE RunOpFails
  <2>1. Running
    BY <1>17 DEF RunOpFails, Running
  <2>2. Changed(Seen) \in Schemas
    BY <1>17, <2>1, WritesTyped DEF RunOpFails, Possible
  <2>3. ~InTx => Changed(schema[call.db]) \in Schemas
    BY <2>2 DEF Seen
  <2>4. DiskOK'
    BY <1>17, <2>3 DEF RunOpFails, Typed, TypeOK, DiskOK
  <2> QED
    BY <1>17, <2>4, ReturnTyped DEF RunOpFails
<1>18. CASE WriteRowFails
  <2>1. Running
    BY <1>18 DEF WriteRowFails, Running
  <2>2. DiskOK'
    BY <1>18, <2>1, WritesTyped DEF WriteRowFails, Typed, TypeOK, DiskOK
  <2> QED
    BY <1>18, <2>2, ReturnTyped DEF WriteRowFails
<1>19. CASE CommitFails
  <2>1. DiskOK'
    BY <1>19 DEF CommitFails, Install, Typed, TypeOK, DiskOK
  <2> QED
    BY <1>19, <2>1, ReturnTyped DEF CommitFails
<1>20. CASE UNCHANGED vars
  BY <1>20 DEF vars, Typed, TypeOK, Running
<1> QED
  BY <1>1, <1>2, <1>3, <1>4, <1>5, <1>6, <1>7, <1>8, <1>9, <1>10, <1>11, <1>12,
     <1>13, <1>14, <1>15, <1>16, <1>17, <1>18, <1>19, <1>20
     DEF Next, Progress, Walk, Fault

\* The types hold in every reachable state, for any graph, databases and calls:
\* in particular the walk never looks up a node outside its application.
THEOREM TypeCorrect == Spec => []TypeOK
<1>1. Typed => TypeOK
  BY DEF Typed
<1> QED
  BY <1>1, TypedInit, TypedStep, PTL DEF Spec

------------------------------------------------------------------------------
(* The graph of the default database *)

\* The frames of the walk and what they have left to do.
Walked == TypeOK /\ StackInv

\* A call that returns leaves no frame.
LEMMA ReturnKeepsStack ==
    ASSUME NEW o, Return(o), Typed'
    PROVE  StackInv'
<1>1. stack' = <<>> /\ pc' = "idle"
  BY DEF Return
<1>2. 1 .. Len(stack') = {}
  BY <1>1, EmptySeq
<1> QED
  BY <1>1, <1>2 DEF Typed, StackInv, Running

\* A node whose list is exhausted has its dependencies applied or, on the way
\* backwards, is needed by no applied node.
LEMMA NodeIsFree ==
    ASSUME Walked, Running, Top.todo = <<>>
    PROVE  /\ Node \in Nodes
           /\ ~call.back => Needs(Node) \subseteq applied
           /\ call.back => \A m \in applied : Node \notin Needs(m)
<1>1. /\ stack \in Seq(Frames) /\ stack # <<>>
      /\ applied \subseteq Nodes
  BY DEF Walked, TypeOK, StackInv
<1>2. /\ Len(stack) \in 1 .. Len(stack)
      /\ ~(Len(stack) < Len(stack))
      /\ Node \in Nodes
  <2> DEFINE n == Len(stack)
  <2>1. n \in Nat /\ n >= 1 /\ Node \in Nodes
    BY <1>1, Stacks
  <2>2. n \in 1 .. n /\ ~(n < n)
    <3> HIDE DEF n
    <3> QED
      BY <2>1
  <2> QED
    BY <2>1, <2>2
<1>3. ASSUME NEW d \in Required(Node, call.back)
      PROVE  Settled(d)
  <2>1. d \in Required(stack[Len(stack)].node, call.back)
    BY <1>3 DEF Node, Top
  <2>2. \/ Settled(d)
        \/ \E j \in 1 .. Len(Top.todo) : Top.todo[j] = d
    BY <2>1, <1>2 DEF Walked, StackInv, Top
  <2>3. 1 .. Len(Top.todo) = {}
    BY EmptySeq
  <2> QED
    BY <2>2, <2>3
<1>4. ~call.back => Needs(Node) \subseteq applied
  BY <1>3 DEF Required, Settled, IsSettled
<1>5. ASSUME call.back, NEW m \in applied, Node \in Needs(m)
      PROVE  FALSE
  <2>1. m \in Required(Node, call.back)
    BY <1>1, <1>5 DEF Required, NeededBy
  <2> QED
    BY <1>3, <1>5, <2>1 DEF Settled, IsSettled
<1> QED
  BY <1>2, <1>4, <1>5

\* The caller of a node that has just been settled finds it settled, and every
\* other node as settled as before.
LEMMA SettleKeepsStack ==
    ASSUME Walked, Running, Top.todo = <<>>, Settle, Typed'
    PROVE  StackInv'
<1> DEFINE n == Len(stack)
           m == Len(Pop)
<1>1. /\ stack \in Seq(Frames) /\ stack # <<>>
      /\ call' = call
      /\ stack' = Pop
      /\ pc' \in {"apps", "deps"}
      /\ applied' = Record(applied)
  BY DEF Walked, TypeOK, StackInv, Settle, Record
<1>2. /\ m = n - 1 /\ n \in Nat /\ n >= 1
      /\ \A i \in 1 .. m : Pop[i] = stack[i]
  BY <1>1, Stacks
<1>3. ASSUME NEW i \in 1 .. m, NEW d \in Required(Pop[i].node, call.back)
      PROVE  \/ Settled(d)'
             \/ \E j \in 1 .. Len(Pop[i].todo) : Pop[i].todo[j] = d
             \/ i < m /\ Pop[i + 1].node = d
  <2>1. i \in 1 .. n /\ i < n /\ (i < m => i + 1 \in 1 .. m) /\ (~(i < m) => i + 1 = n)
    <3>1. i \in 1 .. m
      OBVIOUS
    <3> HIDE DEF n, m
    <3> QED
      BY <1>2, <3>1
  <2>2. Pop[i] = stack[i]
    BY <1>2
  <2>3. \/ Settled(d)
        \/ \E j \in 1 .. Len(stack[i].todo) : stack[i].todo[j] = d
        \/ stack[i + 1].node = d
    BY <2>1, <2>2 DEF Walked, StackInv
  <2>4. Settled(d) => Settled(d)'
    BY <1>1 DEF Settled, IsSettled, Record
  <2>5. d = Node => Settled(d)'
    BY <1>1 DEF Settled, IsSettled, Record
  <2>6. i < m => Pop[i + 1] = stack[i + 1]
    BY <1>2, <2>1
  <2>7. ~(i < m) => stack[i + 1].node = Node
    BY <2>1 DEF Node, Top
  <2> QED
    BY <2>2, <2>3, <2>4, <2>5, <2>6, <2>7
<1> QED
  BY <1>1, <1>3 DEF StackInv, Typed

\* Every action keeps the frames in order.
LEMMA StackStep == Walked /\ [Next]_vars => Walked'
<1> SUFFICES ASSUME Walked, [Next]_vars PROVE StackInv'
  BY TypedStep DEF Walked, StackInv, Typed
<1> USE DEF disk
<1>a. Typed /\ Typed' /\ StackInv
  BY TypedStep DEF Walked, StackInv, Typed
<1>1. ASSUME stack = <<>>, stack' = stack, ~Running'
      PROVE  StackInv'
  <2>1. 1 .. Len(stack') = {}
    BY <1>1, EmptySeq
  <2> QED
    BY <1>a, <1>1, <2>1 DEF StackInv, Typed, Running
<1>2. ASSUME stack' = stack, call' = call, applied' = applied, Running, Running',
             pc' \in {"ops", "commit"} => Top.todo = <<>> /\ ~call.fake
      PROVE  StackInv'
  BY <1>a, <1>2 DEF StackInv, Typed, Top, Settled, IsSettled
<1>3. CASE CreateTable \/ LoadApplied \/ \E req \in Requests : Start(req)
  BY <1>3, <1>1 DEF CreateTable, LoadApplied, Start, Walked, StackInv, Running
<1>4. ASSUME NEW a \in Apps, Migrate(a)
      PROVE  StackInv'
  <2>1. /\ stack = <<>> /\ rows' = rows /\ applied' = applied /\ pc = "apps"
        /\ call' = [call EXCEPT !.back = Backwards(a)]
        /\ ~BadTarget(a)
    BY <1>4 DEF Migrate, StackInv, Walked, Running, disk
  <2>2. /\ call'.db = call.db /\ call'.fake = call.fake
        /\ call'.back = Backwards(a)
        /\ Backwards(a) \in BOOLEAN
        /\ Goal(a) \in Nodes
    BY <1>a, <2>1, GoalTyped DEF Typed, TypeOK
  <2>3. StackInv'
    <3>1. CASE UNCHANGED <<pc, stack>>
      <4>1. stack' = <<>> /\ pc' = "apps"
        BY <2>1, <3>1
      <4>2. 1 .. Len(stack') = {}
        BY <4>1, EmptySeq
      <4> QED
        BY <1>a, <4>1, <4>2 DEF StackInv, Typed
    <3>2. ASSUME NEW todo \in Orders(Goal(a), Backwards(a)), pc' = "deps",
                 stack' = <<[node |-> Goal(a), todo |-> todo]>>
          PROVE  StackInv'
      <4>1. \A d \in Required(Goal(a), Backwards(a)) :
              \E j \in 1 .. Len(todo) : todo[j] = d
        BY <2>2, OrdersAreComplete
      <4>2. \A i \in 1 .. Len(stack') :
              /\ stack'[i].node = Goal(a)
              /\ stack'[i].todo = todo
        BY <3>2
      <4> QED
        BY <1>a, <2>2, <3>2, <4>1, <4>2 DEF StackInv, Typed
    <3> QED
      BY <1>4, <3>1, <3>2 DEF Migrate
  <2> QED
    BY <2>3
<1>5. CASE SkipDep
  <2>1. /\ stack \in Seq(Frames) /\ stack # <<>> /\ Top.todo # <<>>
        /\ pc = "deps" /\ pc' = pc /\ call' = call /\ applied' = applied
        /\ rows' = rows /\ tx' = tx /\ stack' = Advance
        /\ Settled(Head(Top.todo))
    BY <1>5, <1>a DEF SkipDep, Typed, TypeOK, Running, disk
  <2>2. /\ Len(Advance) = Len(stack)
        /\ \A i \in 1 .. Len(stack) : Advance[i].node = stack[i].node
        /\ \A i \in 1 .. Len(stack) - 1 : Advance[i] = stack[i]
        /\ Advance[Len(stack)].todo = Tail(Top.todo)
        /\ \A j \in 1 .. Len(Top.todo) :
             \/ Top.todo[j] = Head(Top.todo)
             \/ \E k \in 1 .. Len(Tail(Top.todo)) :
                     Tail(Top.todo)[k] = Top.todo[j]
    BY <2>1, Advances
  <2>3. ASSUME NEW i \in 1 .. Len(stack),
               NEW d \in Required(Advance[i].node, call.back)
        PROVE  \/ Settled(d)
               \/ \E j \in 1 .. Len(Advance[i].todo) : Advance[i].todo[j] = d
               \/ i < Len(Advance) /\ Advance[i + 1].node = d
    <3>1. \/ Settled(d)
          \/ \E j \in 1 .. Len(stack[i].todo) : stack[i].todo[j] = d
          \/ i < Len(stack) /\ stack[i + 1].node = d
      BY <2>2 DEF Walked, StackInv
    <3>2. CASE i = Len(stack)
      <4>1. ~(i < Len(stack))
        <5> DEFINE n == Len(stack)
        <5>1. n \in Nat /\ i = n
          BY <2>1, <3>2, Stacks
        <5> HIDE DEF n
        <5> QED
          BY <2>1, <3>2, Stacks DEF Top
      <4>2. /\ stack[i].todo = Top.todo
            /\ Advance[i].todo = Tail(Top.todo)
        BY <2>2, <3>2 DEF Top
      <4> QED
        BY <2>1, <2>2, <3>1, <4>1, <4>2
    <3>3. CASE i # Len(stack)
      <4> DEFINE n == Len(stack)
      <4>1. n \in Nat
        BY <2>1, Stacks
      <4>2. i \in 1 .. n - 1 /\ i + 1 \in 1 .. n
        <5>1. i \in 1 .. n /\ i # n
          BY <3>3
        <5> HIDE DEF n
        <5> QED
          BY <4>1, <5>1
      <4> QED
        BY <2>2, <3>1, <4>2
    <3> QED
      BY <3>2, <3>3
  <2>4. StackInv'
    BY <1>a, <2>1, <2>2, <2>3 DEF StackInv, Typed, Settled, IsSettled
  <2> QED
    BY <2>4
<1>6. CASE EnterDep
  <2> DEFINE d0 == Head(Top.todo)
             n == Len(stack)
  <2>1. /\ stack \in Seq(Frames) /\ stack # <<>> /\ Top.todo # <<>>
        /\ pc = "deps" /\ pc' = pc /\ call' = call /\ applied' = applied
        /\ rows' = rows /\ tx' = tx /\ call.back \in BOOLEAN
    BY <1>6, <1>a DEF EnterDep, Typed, TypeOK, Running, disk
  <2>2. /\ Advance \in Seq(Frames)
        /\ Len(Advance) = n
        /\ \A i \in 1 .. n : Advance[i].node = stack[i].node
        /\ \A i \in 1 .. n - 1 : Advance[i] = stack[i]
        /\ Advance[n].todo = Tail(Top.todo)
        /\ d0 \in Nodes
        /\ \A j \in 1 .. Len(Top.todo) :
             \/ Top.todo[j] = d0
             \/ \E k \in 1 .. Len(Tail(Top.todo)) :
                     Tail(Top.todo)[k] = Top.todo[j]
    BY <2>1, Advances
  <2>3. PICK todo \in Orders(d0, call.back) :
          stack' = Append(Advance, [node |-> d0, todo |-> todo])
    BY <1>6 DEF EnterDep
  <2>4. /\ [node |-> d0, todo |-> todo] \in Frames
        /\ \A d \in Required(d0, call.back) : \E j \in 1 .. Len(todo) : todo[j] = d
    BY <2>1, <2>2, OrdersAreComplete DEF Frames
  <2>5. /\ Len(stack') = n + 1
        /\ \A i \in 1 .. n : stack'[i] = Advance[i]
        /\ stack'[n + 1] = [node |-> d0, todo |-> todo]
    BY <2>2, <2>3, <2>4, AppendProperties
  <2>6. n \in Nat /\ n >= 1
    BY <2>1, Stacks
  <2>7. ASSUME NEW i \in 1 .. n + 1,
               NEW d \in Required(stack'[i].node, call.back)
        PROVE  \/ Settled(d)
               \/ \E j \in 1 .. Len(stack'[i].todo) : stack'[i].todo[j] = d
               \/ i < n + 1 /\ stack'[i + 1].node = d
    <3>1. CASE i = n + 1
      BY <2>4, <2>5, <3>1
    <3>2. CASE i = n
      <4>1. i \in 1 .. n /\ i < n + 1 /\ ~(i < n)
        <5> HIDE DEF n
        <5> QED
          BY <2>6, <3>2
      <4>2. /\ stack[i].todo = Top.todo
            /\ stack'[i].todo = Tail(Top.todo)
            /\ stack'[i].node = stack[i].node
            /\ stack'[i + 1].node = d0
        BY <2>2, <2>5, <3>2, <4>1 DEF Top
      <4>3. \/ Settled(d)
            \/ \E j \in 1 .. Len(stack[i].todo) : stack[i].todo[j] = d
        BY <4>1, <4>2 DEF Walked, StackInv
      <4>4. CASE \E j \in 1 .. Len(Top.todo) : Top.todo[j] = d
        <5>1. d = d0 \/ \E k \in 1 .. Len(Tail(Top.todo)) : Tail(Top.todo)[k] = d
          BY <2>2, <4>4
        <5> HIDE DEF n, d0
        <5> QED
          BY <4>1, <4>2, <5>1
      <4> QED
        BY <4>2, <4>3, <4>4
    <3>3. CASE i \in 1 .. n - 1
      <4>1. i \in 1 .. n /\ i + 1 \in 1 .. n /\ i < n /\ i < n + 1
        <5> HIDE DEF n
        <5> QED
          BY <2>6, <3>3
      <4>2. /\ stack'[i] = stack[i]
            /\ stack'[i + 1].node = stack[i + 1].node
        BY <2>2, <2>5, <3>3, <4>1
      <4>3. \/ Settled(d)
            \/ \E j \in 1 .. Len(stack[i].todo) : stack[i].todo[j] = d
            \/ stack[i + 1].node = d
        BY <4>1, <4>2 DEF Walked, StackInv
      <4> QED
        BY <4>1, <4>2, <4>3
    <3>4. i = n + 1 \/ i = n \/ i \in 1 .. n - 1
      <4>1. i \in 1 .. n + 1
        OBVIOUS
      <4> HIDE DEF n
      <4> QED
        BY <2>6, <4>1
    <3> QED
      BY <3>1, <3>2, <3>3, <3>4
  <2>8. StackInv'
    BY <1>a, <2>1, <2>5, <2>7 DEF StackInv, Typed, Settled, IsSettled
  <2> QED
    BY <2>8
<1>7. CASE FakeNode \/ WriteRowAlone \/ Commit
  BY <1>7, <1>a, SettleKeepsStack
     DEF FakeNode, WriteRowAlone, Commit, Ready, Running, Walked, StackInv
<1>8. CASE Begin \/ RunOp \/ WriteRowInTx
  BY <1>8, <1>2 DEF Begin, RunOp, WriteRowInTx, Ready, Running, Walked, StackInv
<1>9. CASE \/ LoadAppliedRefused \/ FinishRun \/ RunOpRefused \/ Fault
           \/ \E a \in Apps : MigrateFails(a)
  BY <1>9, <1>a, ReturnKeepsStack
     DEF LoadAppliedRefused, FinishRun, RunOpRefused, Fault, MigrateFails,
         CreateTableFails, LoadAppliedFails, FakeNodeFails, BeginFails,
         RunOpFails, WriteRowFails, CommitFails, Crash
<1>10. CASE UNCHANGED vars
  BY <1>a, <1>10 DEF vars, StackInv, Typed, Top, Settled, IsSettled, Running
<1> QED
  BY <1>3, <1>4, <1>5, <1>6, <1>7, <1>8, <1>9, <1>10 DEF Next, Progress, Walk

\* So the row it writes keeps the table closed under dependencies.
LEMMA RecordKeepsClosed ==
    ASSUME IInv, Running, Top.todo = <<>>, WritesDefault
    PROVE  \A n \in Record(rows[Default]) : Needs(n) \subseteq Record(rows[Default])
<1>1. applied = rows[Default]
  BY DEF IInv, MemoryInv, Running
<1>2. \A n \in rows[Default] : Needs(n) \subseteq rows[Default]
  BY DEF IInv, LedgerClosed, DepClosed
<1>3. CASE ~call.back
  BY <1>1, <1>2, <1>3, NodeIsFree DEF IInv, Walked, Record
<1>4. CASE call.back
  BY <1>1, <1>2, <1>4, NodeIsFree DEF IInv, Walked, Record
<1> QED
  BY <1>3, <1>4

\* When a call returns only the ledger matters: there is no transaction and
\* nothing in memory that could disagree with it.
LEMMA ReturnKeepsInv ==
    ASSUME NEW o, Return(o), Walked', LedgerClosed'
    PROVE  IInv'
BY DEF Return, IInv, Walked, MemoryInv, TxInv

\* A node that is settled takes its row and its flag along.
LEMMA SettleKeepsInv ==
    ASSUME IInv, Running, Settle, Walked', LedgerClosed',
           WritesDefault => rows'[Default] = Record(rows[Default])
    PROVE  IInv'
<1>1. /\ call' = call
      /\ pc' \in {"apps", "deps"}
      /\ applied' = Record(applied)
  BY DEF Settle, Record
<1>2. MemoryInv'
  BY <1>1 DEF IInv, MemoryInv, Running, WritesDefault, Record
<1> QED
  BY <1>1, <1>2 DEF IInv, Walked, TxInv

\* The invariant holds of an empty ledger ...
LEMMA InvInit == Init => IInv
<1> SUFFICES ASSUME Init PROVE IInv
  OBVIOUS
<1>1. stack = <<>> /\ pc = "idle" /\ rows[Default] = {}
  BY DatabasesAssumption DEF Init
<1>2. 1 .. Len(stack) = {}
  BY <1>1, EmptySeq
<1> QED
  BY <1>1, <1>2, TypedInit
     DEF IInv, Typed, StackInv, MemoryInv, TxInv, LedgerClosed, DepClosed, Running

\* ... and every action keeps it.
LEMMA InvStep == IInv /\ [Next]_vars => IInv'
<1> SUFFICES ASSUME IInv, [Next]_vars PROVE IInv'
  OBVIOUS
<1> USE DEF disk
<1>a. Walked /\ Walked' /\ call.db \in Databases /\ rows \in [Databases -> SUBSET Nodes]
  BY StackStep DEF IInv, Walked, TypeOK
<1>b. rows'[Default] = rows[Default] => LedgerClosed'
  BY DEF IInv, LedgerClosed, DepClosed
<1>c. ASSUME Running, Top.todo = <<>>, WritesDefault,
             rows'[Default] = Record(rows[Default])
      PROVE  LedgerClosed'
  BY <1>c, RecordKeepsClosed DEF LedgerClosed, DepClosed
<1>d. pc \in {"ops", "commit"} => Running /\ Top.todo = <<>> /\ ~call.fake
  BY DEF IInv, StackInv, Running
<1>e. rows' = [rows EXCEPT ![call.db] = Record(rows[call.db])] /\ ~call.fake =>
        IF WritesDefault THEN rows'[Default] = Record(rows[Default])
                         ELSE rows'[Default] = rows[Default]
  BY <1>a, DatabasesAssumption DEF WritesDefault
<1>1. CASE CreateTable \/ LoadApplied \/ \E req \in Requests : Start(req)
  BY <1>1, <1>a, <1>b
     DEF CreateTable, LoadApplied, Start, IInv, Walked, MemoryInv, TxInv
<1>2. ASSUME NEW a \in Apps, Migrate(a)
      PROVE  IInv'
  <2>1. /\ call'.db = call.db /\ call'.fake = call.fake /\ rows' = rows
        /\ applied' = applied /\ pc = "apps" /\ pc' \in {"apps", "deps"}
    BY <1>2 DEF Migrate, IInv, TypeOK
  <2> QED
    BY <1>a, <1>b, <2>1 DEF IInv, Walked, MemoryInv, TxInv, WritesDefault
<1>3. CASE SkipDep \/ EnterDep
  BY <1>3, <1>a, <1>b
     DEF SkipDep, EnterDep, IInv, Walked, MemoryInv, TxInv, WritesDefault
<1>4. CASE FakeNode
  <2>1. /\ Running /\ Top.todo = <<>> /\ WritesDefault
        /\ rows'[Default] = Record(rows[Default])
    BY <1>4, <1>a, DatabasesAssumption DEF FakeNode, Ready, Running, WritesDefault
  <2> QED
    BY <1>4, <1>a, <1>c, <2>1, SettleKeepsInv DEF FakeNode
<1>5. CASE Begin \/ RunOp
  <2>1. /\ pc \in {"deps", "ops"} /\ pc' = "ops" /\ call' = call
        /\ applied' = applied /\ rows' = rows
        /\ InTx => tx'.rows = rows[call.db]
    BY <1>5 DEF Begin, RunOp, Ready, IInv, TypeOK, TxInv
  <2> QED
    BY <1>a, <1>b, <2>1 DEF IInv, Walked, MemoryInv, TxInv, WritesDefault, InTx
<1>6. CASE WriteRowInTx
  <2>1. /\ pc = "ops" /\ pc' = "commit" /\ stack' = stack /\ call' = call
        /\ applied' = applied /\ rows' = rows /\ InTx
        /\ tx'.rows = Record(rows[call.db])
    BY <1>6 DEF WriteRowInTx, IInv, TypeOK, TxInv
  <2>2. TxInv'
    BY <2>1 DEF TxInv, InTx, Record, Node, Top
  <2> QED
    BY <1>a, <1>b, <2>1, <2>2 DEF IInv, Walked, MemoryInv, WritesDefault
<1>7. CASE WriteRowAlone \/ Commit
  <2>1. /\ pc \in {"ops", "commit"} /\ Settle
        /\ rows' = [rows EXCEPT ![call.db] = Record(rows[call.db])]
    BY <1>7 DEF WriteRowAlone, Commit, Install, IInv, TxInv
  <2> QED
    BY <1>a, <1>b, <1>c, <1>d, <1>e, <2>1, SettleKeepsInv
<1>8. CASE \/ FinishRun \/ LoadAppliedRefused \/ LoadAppliedFails
           \/ RunOpRefused \/ BeginFails \/ Crash \/ CreateTableFails
           \/ RunOpFails \/ \E a \in Apps : MigrateFails(a)
  BY <1>8, <1>a, <1>b, ReturnKeepsInv
     DEF FinishRun, LoadAppliedRefused, LoadAppliedFails, RunOpRefused,
         BeginFails, Crash, CreateTableFails, RunOpFails, MigrateFails
<1>9. CASE FakeNodeFails
  <2>1. /\ Running /\ Top.todo = <<>> /\ WritesDefault
        /\ \/ rows'[Default] = Record(rows[Default])
           \/ rows'[Default] = rows[Default]
    BY <1>9, <1>a, DatabasesAssumption
       DEF FakeNodeFails, Ready, Running, WritesDefault
  <2> QED
    BY <1>9, <1>a, <1>b, <1>c, <2>1, ReturnKeepsInv DEF FakeNodeFails
<1>10. CASE WriteRowFails \/ CommitFails
  <2>1. /\ pc \in {"ops", "commit"} /\ Return("error")
        /\ \/ rows' = rows
           \/ rows' = [rows EXCEPT ![call.db] = Record(rows[call.db])]
    BY <1>10 DEF WriteRowFails, CommitFails, Install, IInv, TxInv
  <2> QED
    BY <1>a, <1>b, <1>c, <1>d, <1>e, <2>1, ReturnKeepsInv
<1>11. CASE UNCHANGED vars
  <2>1. TxInv'
    BY <1>11 DEF vars, IInv, TxInv, InTx, Record, Node, Top
  <2> QED
    BY <1>a, <1>b, <1>11, <2>1 DEF vars, IInv, Walked, MemoryInv, WritesDefault
<1> QED
  BY <1>1, <1>2, <1>3, <1>4, <1>5, <1>6, <1>7, <1>8, <1>9, <1>10, <1>11
     DEF Next, Progress, Walk, Fault

\* The inductive invariant itself: types, the frames of the walk, the rows in
\* memory, the open transaction and the closed ledger (migrate, Run, Backwards).
THEOREM InvariantHolds == Spec => []IInv
BY InvInit, InvStep, PTL DEF Spec

\* The default database never records a node without its dependencies, for any
\* graph of changes, cyclic ones included, any databases and any calls.
THEOREM LedgerIsClosed == Spec => []LedgerClosed
<1>1. IInv => LedgerClosed
  BY DEF IInv
<1> QED
  BY <1>1, InvInit, InvStep, PTL DEF Spec

------------------------------------------------------------------------------
(* Refinement of the abstract ledger *)

\* What a step may do to the default table: nothing, or the row of a node that
\* is free to be recorded or erased.
LEMMA DefaultRows ==
    ASSUME Walked, pc = "commit" => tx.rows = Record(rows[call.db]), [Next]_vars
    PROVE  \/ rows'[Default] = rows[Default]
           \/ /\ Running /\ Top.todo = <<>> /\ WritesDefault
              /\ rows'[Default] = Record(rows[Default])
<1> USE DEF disk
<1>a. /\ call.db \in Databases /\ Default \in Databases
      /\ rows \in [Databases -> SUBSET Nodes]
  BY DatabasesAssumption DEF Walked, TypeOK
<1>1. CASE FakeNode \/ FakeNodeFails
  BY <1>1, <1>a DEF FakeNode, FakeNodeFails, Ready, Running, WritesDefault
<1>2. CASE WriteRowAlone \/ WriteRowFails
  <2>1. /\ Running /\ Top.todo = <<>>
        /\ \/ rows' = rows
           \/ rows' = [rows EXCEPT ![call.db] = Record(@)]
    BY <1>2 DEF WriteRowAlone, WriteRowFails, Running, Walked, StackInv
  <2> QED
    BY <1>a, <2>1 DEF WritesDefault
<1>3. CASE Commit \/ CommitFails
  <2>1. /\ Running /\ Top.todo = <<>>
        /\ \/ rows' = rows
           \/ rows' = [rows EXCEPT ![call.db] = Record(rows[call.db])]
    BY <1>3 DEF Commit, CommitFails, Install, Running, Walked, StackInv
  <2> QED
    BY <1>a, <2>1 DEF WritesDefault
<1>4. CASE CreateTable \/ LoadApplied \/ LoadAppliedRefused \/ FinishRun
           \/ SkipDep \/ EnterDep
  BY <1>4 DEF CreateTable, LoadApplied, LoadAppliedRefused, FinishRun, SkipDep,
              EnterDep
<1>5. CASE Begin \/ RunOp \/ RunOpRefused \/ WriteRowInTx
  BY <1>5 DEF Begin, RunOp, RunOpRefused, WriteRowInTx
<1>6. CASE CreateTableFails \/ LoadAppliedFails \/ BeginFails \/ RunOpFails \/ Crash
  BY <1>6 DEF CreateTableFails, LoadAppliedFails, BeginFails, RunOpFails, Crash
<1>7. CASE \E req \in Requests : Start(req)
  BY <1>7 DEF Start
<1>8. CASE \E a \in Apps : Migrate(a) \/ MigrateFails(a)
  BY <1>8 DEF Migrate, MigrateFails
<1>9. CASE UNCHANGED vars
  BY <1>9 DEF vars
<1> QED
  BY <1>1, <1>2, <1>3, <1>4, <1>5, <1>6, <1>7, <1>8, <1>9
     DEF Next, Progress, Walk, Fault

\* A step that changes the ledger adds a node whose dependencies are in it, or
\* removes one that nothing in it depends on.
LEMMA LedgerStep ==
    IInv /\ [Next]_vars => [Ledger!Next]_(rows[Default])
<1> SUFFICES ASSUME IInv, [Next]_vars, rows'[Default] # rows[Default]
             PROVE  Ledger!Next
  OBVIOUS
<1>1. /\ Running /\ Top.todo = <<>> /\ WritesDefault
      /\ rows'[Default] = Record(rows[Default])
  BY DefaultRows DEF IInv, Walked, TxInv
<1>2. applied = rows[Default]
  BY <1>1 DEF IInv, MemoryInv, Running
<1>3. CASE ~call.back
  <2>1. Ledger!Apply(Node)
    BY <1>1, <1>2, <1>3, NodeIsFree DEF IInv, Walked, Ledger!Apply, Record
  <2> QED
    BY <1>1, <2>1, NodeIsFree DEF IInv, Walked, Ledger!Next
<1>4. CASE call.back
  <2>1. Ledger!Unapply(Node)
    BY <1>1, <1>2, <1>4, NodeIsFree DEF IInv, Walked, Ledger!Unapply, Record
  <2> QED
    BY <1>1, <2>1, NodeIsFree DEF IInv, Walked, Ledger!Next
<1> QED
  BY <1>3, <1>4

\* The walk, its transactions, failures and restarts implement the abstract
\* ledger on the default database.
THEOREM LedgerImplemented == Spec => ImplementsLedger
<1>1. Init => Ledger!Init
  BY DatabasesAssumption DEF Init, Ledger!Init
<1> QED
  BY <1>1, InvInit, InvStep, LedgerStep, PTL DEF Spec, ImplementsLedger, Ledger!Spec

------------------------------------------------------------------------------
(***************************************************************************)
(* What the nodes do to the databases: the transaction of a node carries   *)
(* what the operations executed so far made of the schema (runOperations,  *)
(* backwardOperations), so that a row follows the work it stands for and a *)
(* schema moves by whole nodes.                                            *)
(***************************************************************************)

\* What a node that is run holds on to: a transaction sees the rows as they are
\* but for its own, and the schema that its operations so far make of the one
\* that is there.
Task ==
    /\ Typed
    /\ pc \in {"ops", "commit"} => ~call.fake /\ done <= Ops[Node]
    /\ pc = "ops" /\ InTx => tx.rows = rows[call.db]
    /\ pc = "commit" =>
         InTx /\ done = Ops[Node] /\ tx.rows = Record(rows[call.db])
    /\ pc \in {"ops", "commit"} /\ InTx =>
         tx.schema \in After(Node, call.back, schema[call.db])[done]

\* Without a transaction it is the database itself that has been moved, as long
\* as nobody else moves it.
Alone ==
    pc = "ops" /\ ~InTx =>
        \E s \in Schemas : schema[call.db] \in After(Node, call.back, s)[done]

Worked == Task /\ Alone

\* One more operation takes what the others made one further.
LEMMA OneMore ==
    ASSUME Typed, pc = "ops", done < Ops[Node], Possible,
           NEW s \in Schemas, Seen \in After(Node, call.back, s)[done]
    PROVE  Changed(Seen) \in After(Node, call.back, s)[done + 1]
<1>1. Node \in Nodes /\ Ops[Node] \in Nat /\ done \in Nat /\ call.back \in BOOLEAN
  BY WritesTyped DEF Typed, TypeOK, Running
<1>2. done + 1 \in 1 .. Ops[Node] /\ (done + 1) - 1 = done
  BY <1>1
<1>3. After(Node, call.back, s)[done + 1] =
        Outcomes(Node, call.back, done + 1, After(Node, call.back, s)[done])
  BY <1>1, <1>2, AfterIs
<1> QED
  BY <1>3 DEF Outcomes, Possible, Changed, NextChange

\* At first no transaction is open and no operation is done.
LEMMA WorkInit == Init => Worked
BY TypedInit DEF Init, Worked, Task, Alone

\* What one operation does to the schema the call sees.
LEMMA OpStep ==
    ASSUME Typed, RunOp
    PROVE  /\ pc = "ops" /\ pc' = pc /\ done < Ops[Node] /\ done' = done + 1
           /\ stack' = stack /\ call' = call /\ rows' = rows
           /\ InTx => /\ tx'.schema = Changed(tx.schema) /\ tx'.rows = tx.rows
                      /\ schema' = schema
           /\ ~InTx => schema' = [schema EXCEPT ![call.db] = Changed(@)]
           /\ done' <= Ops[Node]
           /\ Node' = Node
<1>1. Ops[Node] \in Nat /\ done \in Nat
  BY WritesTyped DEF RunOp, Typed, TypeOK, Running
<1> QED
  BY <1>1 DEF RunOp, Typed, TypeOK, Node, Top

\* Every action of the call keeps its task in order.
LEMMA TaskStep == Task /\ [Next]_vars => Task'
<1> SUFFICES ASSUME Task, [Next]_vars PROVE Task'
  OBVIOUS
<1> USE DEF disk
<1>a. Typed /\ Typed'
  BY TypedStep DEF Task
<1>1. ASSUME pc' \notin {"ops", "commit"}
      PROVE  Task'
  BY <1>a, <1>1 DEF Task
<1>2. CASE Begin
  <2>1. /\ pc' = "ops" /\ done' = 0 /\ stack' = stack /\ call' = call
        /\ schema' = schema /\ rows' = rows /\ ~call.fake
        /\ InTx => tx'.schema = schema[call.db] /\ tx'.rows = rows[call.db]
        /\ Running
    BY <1>2 DEF Begin, Ready, Running
  <2>2. /\ Ops[Node] \in Nat
        /\ Node' = Node
    BY <1>a, <2>1, WritesTyped DEF Node, Top
  <2>3. /\ schema[call.db] \in Schemas /\ call.db \in Databases
        /\ Node \in Nodes /\ call.back \in BOOLEAN
    BY <1>a, <2>1, WritesTyped DEF Typed, TypeOK
  <2>4. After(Node, call.back, schema[call.db])[0] = {schema[call.db]}
    BY <2>3, AfterIs
  <2> QED
    BY <1>a, <2>1, <2>2, <2>4 DEF Task, InTx
<1>3. CASE RunOp
  <2>1. /\ pc = "ops" /\ pc' = pc /\ done < Ops[Node] /\ done' = done + 1
        /\ stack' = stack /\ call' = call /\ rows' = rows
        /\ InTx => /\ tx'.schema = Changed(tx.schema) /\ tx'.rows = tx.rows
                   /\ schema' = schema
        /\ done' <= Ops[Node]
        /\ Node' = Node
    BY <1>3, <1>a, OpStep
  <2>2. InTx => tx'.schema \in After(Node, call.back, schema[call.db])[done']
    <3>1. schema[call.db] \in Schemas
      BY <1>a DEF Typed, TypeOK
    <3>2. Possible /\ (InTx => Seen = tx.schema)
      BY <1>3 DEF RunOp, Seen
    <3> QED
      BY <1>a, <2>1, <3>1, <3>2, OneMore DEF Task
  <2> QED
    BY <1>a, <2>1, <2>2 DEF Task, InTx
<1>4. CASE WriteRowInTx
  <2>1. /\ pc = "ops" /\ pc' = "commit" /\ done = Ops[Node] /\ InTx /\ done' = done
        /\ stack' = stack /\ call' = call /\ schema' = schema /\ rows' = rows
        /\ tx'.schema = tx.schema /\ tx'.rows = Record(tx.rows)
    BY <1>4, <1>a DEF WriteRowInTx, Typed, TypeOK
  <2>2. /\ Node' = Node /\ Ops[Node] \in Nat
        /\ Record(rows[call.db])' = Record(rows[call.db])
    BY <1>a, <2>1, WritesTyped DEF Node, Top, Running, Record
  <2> QED
    BY <1>a, <2>1, <2>2 DEF Task, InTx
<1>5. CASE CreateTable \/ LoadApplied \/ LoadAppliedRefused \/ FinishRun
           \/ SkipDep \/ EnterDep
  BY <1>5, <1>1 DEF CreateTable, LoadApplied, LoadAppliedRefused, FinishRun,
                    SkipDep, EnterDep, Return
<1>6. CASE FakeNode \/ WriteRowAlone \/ Commit
  BY <1>6, <1>1 DEF FakeNode, WriteRowAlone, Commit, Settle
<1>7. CASE RunOpRefused \/ Fault
  BY <1>7, <1>1 DEF RunOpRefused, Fault, CreateTableFails, LoadAppliedFails,
                    FakeNodeFails, BeginFails, RunOpFails, WriteRowFails,
                    CommitFails, Crash, Return
<1>8. CASE \E req \in Requests : Start(req)
  BY <1>8, <1>1 DEF Start
<1>9. CASE \E a \in Apps : Migrate(a) \/ MigrateFails(a)
  BY <1>9, <1>1 DEF Migrate, MigrateFails, Return
<1>10. CASE UNCHANGED vars
  BY <1>a, <1>10 DEF vars, Task, InTx, Record, Node, Top
<1> QED
  BY <1>2, <1>3, <1>4, <1>5, <1>6, <1>7, <1>8, <1>9, <1>10
     DEF Next, Progress, Walk

\* ... and, of one process alone, what it has moved outside a transaction.
LEMMA WorkStep == Worked /\ [Next]_vars => Worked'
<1> SUFFICES ASSUME Worked, [Next]_vars PROVE Alone'
  BY TaskStep DEF Worked
<1> USE DEF disk
<1>a. Typed /\ call.db \in Databases /\ schema \in [Databases -> Schemas]
  BY DEF Worked, Task, Typed, TypeOK
<1>1. ASSUME pc' # "ops"
      PROVE  Alone'
  BY <1>1 DEF Alone
<1>2. CASE Begin
  <2>1. /\ done' = 0 /\ stack' = stack /\ call' = call /\ Running
        /\ ~InTx => schema' = schema
    BY <1>2 DEF Begin, Ready, Running
  <2>2. /\ schema[call.db] \in Schemas /\ call.back \in BOOLEAN
        /\ Node \in Nodes /\ Node' = Node
    BY <1>a, <2>1, WritesTyped DEF Node, Top, Typed, TypeOK
  <2>3. After(Node, call.back, schema[call.db])[0] = {schema[call.db]}
    BY <2>2, AfterIs
  <2> QED
    BY <2>1, <2>2, <2>3 DEF Alone, InTx
<1>3. CASE RunOp
  <2>1. /\ pc = "ops" /\ call' = call /\ done < Ops[Node] /\ done' = done + 1
        /\ Node' = Node /\ Possible
        /\ ~InTx => schema' = [schema EXCEPT ![call.db] = Changed(@)]
    BY <1>3, <1>a, OpStep DEF RunOp
  <2>2. ASSUME ~InTx
        PROVE  \E s \in Schemas :
                 schema'[call.db] \in After(Node, call.back, s)[done']
    <3>1. Seen = schema[call.db] /\ schema'[call.db] = Changed(Seen)
      BY <1>a, <2>1, <2>2 DEF Seen
    <3>2. PICK s \in Schemas : Seen \in After(Node, call.back, s)[done]
      BY <2>1, <2>2, <3>1 DEF Worked, Alone
    <3>3. Changed(Seen) \in After(Node, call.back, s)[done + 1]
      BY <1>a, <2>1, <3>2, OneMore
    <3> QED
      BY <2>1, <3>1, <3>3
  <2> QED
    BY <2>1, <2>2 DEF Alone, InTx
<1>4. CASE WriteRowInTx \/ Commit \/ FakeNode \/ WriteRowAlone
  BY <1>4, <1>1 DEF WriteRowInTx, Commit, FakeNode, WriteRowAlone, Settle
<1>5. CASE CreateTable \/ LoadApplied \/ LoadAppliedRefused \/ FinishRun
           \/ SkipDep \/ EnterDep
  BY <1>5, <1>1 DEF CreateTable, LoadApplied, LoadAppliedRefused, FinishRun,
                    SkipDep, EnterDep, Return
<1>6. CASE RunOpRefused \/ Fault
  BY <1>6, <1>1 DEF RunOpRefused, Fault, CreateTableFails, LoadAppliedFails,
                    FakeNodeFails, BeginFails, RunOpFails, WriteRowFails,
                    CommitFails, Crash, Return
<1>7. CASE \E req \in Requests : Start(req)
  BY <1>7, <1>1 DEF Start
<1>8. CASE \E a \in Apps : Migrate(a) \/ MigrateFails(a)
  BY <1>8, <1>1 DEF Migrate, MigrateFails, Return
<1>9. CASE UNCHANGED vars
  BY <1>9 DEF vars, Worked, Alone, InTx, Node, Top
<1> QED
  BY <1>2, <1>3, <1>4, <1>5, <1>6, <1>7, <1>8, <1>9
     DEF Next, Progress, Walk

------------------------------------------------------------------------------
(* What one step does to the databases *)

\* Every step leaves rows and schema alone, or fakes one row, or executes one
\* operation or writes one row outside a transaction, or commits a whole node
\* with its row.
LEMMA DiskStep ==
    ASSUME Task, [Next]_vars
    PROVE  \/ UNCHANGED <<rows, schema>>
           \/ /\ Running /\ call.fake
              /\ rows' = [rows EXCEPT ![Default] = Record(@)]
              /\ schema' = schema
           \/ /\ pc = "ops" /\ ~call.fake /\ ~InTx
              /\ rows' = rows
              /\ schema' = [schema EXCEPT ![call.db] = Changed(@)]
           \/ /\ pc = "ops" /\ ~call.fake /\ ~InTx /\ done = Ops[Node]
              /\ rows' = [rows EXCEPT ![call.db] = Record(@)]
              /\ schema' = schema
           \/ /\ pc = "commit" /\ ~call.fake /\ InTx
              /\ rows' = [rows EXCEPT ![call.db] = Record(@)]
              /\ schema' = [schema EXCEPT ![call.db] = tx.schema]
              /\ tx.schema \in Carried(Node, call.back, schema[call.db])
<1> USE DEF disk
<1>a. pc \in {"ops", "commit"} => ~call.fake
  BY DEF Task
<1>1. CASE FakeNode \/ FakeNodeFails
  BY <1>1 DEF FakeNode, FakeNodeFails, Ready, Running
<1>2. CASE RunOp \/ RunOpFails
  BY <1>2, <1>a DEF RunOp, RunOpFails
<1>3. CASE WriteRowAlone \/ WriteRowFails
  BY <1>3, <1>a DEF WriteRowAlone, WriteRowFails
<1>4. CASE Commit \/ CommitFails
  <2>1. /\ pc = "commit" /\ InTx
        /\ tx.rows = Record(rows[call.db])
        /\ tx.schema \in Carried(Node, call.back, schema[call.db])
    BY <1>4 DEF Commit, CommitFails, Task, Carried
  <2>3. \/ UNCHANGED <<rows, schema>>
        \/ /\ rows' = [rows EXCEPT ![call.db] = tx.rows]
           /\ schema' = [schema EXCEPT ![call.db] = tx.schema]
    BY <1>4 DEF Commit, CommitFails, Install
  <2> QED
    BY <1>a, <2>1, <2>3
<1>5. CASE CreateTable \/ LoadApplied \/ LoadAppliedRefused \/ FinishRun
           \/ SkipDep \/ EnterDep
  BY <1>5 DEF CreateTable, LoadApplied, LoadAppliedRefused, FinishRun, SkipDep,
              EnterDep
<1>6. CASE Begin \/ RunOpRefused \/ WriteRowInTx
  BY <1>6 DEF Begin, RunOpRefused, WriteRowInTx
<1>7. CASE CreateTableFails \/ LoadAppliedFails \/ BeginFails \/ Crash
  BY <1>7 DEF CreateTableFails, LoadAppliedFails, BeginFails, Crash
<1>8. CASE \E req \in Requests : Start(req)
  BY <1>8 DEF Start
<1>9. CASE \E a \in Apps : Migrate(a) \/ MigrateFails(a)
  BY <1>9 DEF Migrate, MigrateFails
<1>10. CASE UNCHANGED vars
  BY <1>10 DEF vars
<1> QED
  BY <1>1, <1>2, <1>3, <1>4, <1>5, <1>6, <1>7, <1>8, <1>9, <1>10
     DEF Next, Progress, Walk, Fault

\* The options of a call stay what they were while it changes the databases.
LEMMA DiskTyped ==
    ASSUME Typed
    PROVE  /\ call.db \in Databases /\ Default \in Databases
           /\ rows \in [Databases -> SUBSET Nodes]
           /\ schema \in [Databases -> Schemas]
           /\ Running => Node \in Nodes
BY WritesTyped, DatabasesAssumption DEF Typed, TypeOK

\* A faked call leaves every schema alone (Fake, FakeBackwards); a real one
\* changes no row and no schema of a database it was not given (Run, Backwards).
THEOREM DatabaseIsolation == Spec => OnlyItsDatabase
<1>1. ASSUME Worked, [Next]_vars
      PROVE  IF call.fake THEN schema' = schema
             ELSE \A d \in Databases \ {call.db} :
                     rows'[d] = rows[d] /\ schema'[d] = schema[d]
  BY <1>1, DiskStep, DiskTyped DEF Worked, Task
<1>2. ASSUME Worked, [Next]_vars
      PROVE  [IF call.fake THEN schema' = schema
              ELSE \A d \in Databases \ {call.db} :
                      rows'[d] = rows[d] /\ schema'[d] = schema[d]]_vars
  BY <1>1, <1>2
<1> QED
  BY <1>2, WorkInit, WorkStep, PTL DEF Spec, OnlyItsDatabase

\* The row of a real call follows the work of its node, with a transaction or
\* without one: runOperations and backwardOperations save or delete it last.
THEOREM RowsFollowWork == Spec => RowFollowsWork
<1> DEFINE CarriedOut(n, back, d) ==
             \E s \in Schemas : schema'[d] \in Carried(n, back, s)
           Follows ==
             rows' # rows /\ ~call.fake =>
               \A d \in Databases :
                 /\ \A n \in rows'[d] \ rows[d] : CarriedOut(n, FALSE, d)
                 /\ \A n \in rows[d] \ rows'[d] : CarriedOut(n, TRUE, d)
<1>1. ASSUME Worked, [Next]_vars
      PROVE  Follows
  <2> SUFFICES ASSUME rows' # rows, ~call.fake, NEW d \in Databases
               PROVE  /\ \A n \in rows'[d] \ rows[d] : CarriedOut(n, FALSE, d)
                      /\ \A n \in rows[d] \ rows'[d] : CarriedOut(n, TRUE, d)
    OBVIOUS
  <2>1. /\ pc \in {"ops", "commit"}
        /\ rows' = [rows EXCEPT ![call.db] = Record(@)]
        /\ \/ pc = "ops" /\ ~InTx /\ done = Ops[Node] /\ schema' = schema
           \/ /\ schema' = [schema EXCEPT ![call.db] = tx.schema]
              /\ tx.schema \in Carried(Node, call.back, schema[call.db])
    BY <1>1, DiskStep DEF Worked
  <2>2. /\ \A n \in rows'[d] \ rows[d] : n = Node /\ ~call.back /\ d = call.db
        /\ \A n \in rows[d] \ rows'[d] : n = Node /\ call.back /\ d = call.db
    BY <1>1, <2>1, DiskTyped DEF Record, Worked, Task
  <2>3. CarriedOut(Node, call.back, call.db)
    <3>0. call.db \in Databases /\ schema \in [Databases -> Schemas]
      BY <1>1, DiskTyped DEF Worked, Task
    <3>1. CASE pc = "ops" /\ ~InTx /\ done = Ops[Node] /\ schema' = schema
      BY <1>1, <3>1 DEF Worked, Alone, Carried
    <3>2. CASE /\ schema' = [schema EXCEPT ![call.db] = tx.schema]
               /\ tx.schema \in Carried(Node, call.back, schema[call.db])
      BY <3>0, <3>2
    <3> QED
      BY <2>1, <3>1, <3>2
  <2>4. call.back \in BOOLEAN
    BY <1>1 DEF Worked, Task, Typed, TypeOK
  <2> HIDE DEF CarriedOut
  <2> QED
    BY <2>2, <2>3, <2>4
<1>2. ASSUME Worked, [Next]_vars
      PROVE  [Follows]_vars
  BY <1>1, <1>2
<1> QED
  BY <1>2, WorkInit, WorkStep, PTL DEF Spec, RowFollowsWork

------------------------------------------------------------------------------
(* The frames of a walk *)

\* The frames lead from one node to another that it requires, and none of them
\* is settled before the one on top is.
Chain ==
    /\ \A i \in 1 .. Len(stack) :
        /\ ~Settled(stack[i].node)
        /\ \A j \in 1 .. Len(stack[i].todo) :
                stack[i].todo[j] \in Required(stack[i].node, call.back)
    /\ \A i \in 1 .. Len(stack) : i < Len(stack) =>
            stack[i + 1].node \in Required(stack[i].node, call.back)

\* The lists are made of required nodes only.
LEMMA OrdersWithin ==
    ASSUME NEW n \in Nodes, NEW back \in BOOLEAN, NEW t \in Orders(n, back)
    PROVE  \A j \in 1 .. Len(t) : t[j] \in Required(n, back)
<1>1. t \in Seq(Nodes)
  BY OrdersAreComplete
<1>2. DOMAIN t = 1 .. Len(t)
  BY <1>1, LenProperties
<1> QED
  BY <1>2 DEF Orders, BackOrders, Required, Needs

\* A walk without frames has none out of order.
LEMMA NoChain ==
    ASSUME stack' = <<>>
    PROVE  Chain'
<1>1. 1 .. Len(stack') = {}
  BY EmptySeq
<1> QED
  BY <1>1 DEF Chain

\* All that a node needs is settled when its list is exhausted.
LEMMA RequiredSettled ==
    ASSUME Walked, Running, Top.todo = <<>>
    PROVE  \A d \in Required(Node, call.back) : Settled(d)
BY NodeIsFree DEF Required, NeededBy, Settled, IsSettled, Walked, TypeOK

\* The node on top is settled once: no frame below is for the same node, which
\* would need the next one, that is not settled.
LEMMA SettleKeepsChain ==
    ASSUME Walked, Chain, Running, Top.todo = <<>>, Settle
    PROVE  Chain'
<1> DEFINE n == Len(stack)
           m == Len(Pop)
<1>1. /\ stack \in Seq(Frames) /\ stack # <<>>
      /\ call' = call /\ stack' = Pop /\ applied' = Record(applied)
  BY DEF Walked, TypeOK, StackInv, Settle, Record
<1>2. /\ m = n - 1 /\ n \in Nat /\ n >= 1
      /\ \A i \in 1 .. m : Pop[i] = stack[i]
  BY <1>1, Stacks
<1>3. ASSUME NEW i \in 1 .. m
      PROVE  /\ i \in 1 .. n /\ i + 1 \in 1 .. n /\ i < n
             /\ i < m => i + 1 \in 1 .. m
  <2>1. i \in 1 .. m
    OBVIOUS
  <2> HIDE DEF n, m
  <2> QED
    BY <1>2, <2>1
<1>4. ASSUME NEW i \in 1 .. m
      PROVE  ~(IF call.back THEN stack[i].node \notin applied'
                            ELSE stack[i].node \in applied')
  <2>1. /\ ~Settled(stack[i].node) /\ ~Settled(stack[i + 1].node)
        /\ stack[i + 1].node \in Required(stack[i].node, call.back)
    BY <1>3 DEF Chain
  <2>2. stack[i].node # Node
    BY <2>1, RequiredSettled
  <2> QED
    BY <1>1, <2>1, <2>2 DEF Settled, IsSettled, Record
<1>5. ASSUME NEW i \in 1 .. m
      PROVE  /\ stack'[i] = stack[i]
             /\ i < m => stack'[i + 1] = stack[i + 1]
  BY <1>1, <1>2, <1>3
<1>6. \A i \in 1 .. m :
        /\ \A j \in 1 .. Len(stack[i].todo) :
              stack[i].todo[j] \in Required(stack[i].node, call.back)
        /\ stack[i + 1].node \in Required(stack[i].node, call.back)
  BY <1>3 DEF Chain
<1>7. Len(stack') = m
  BY <1>1
<1> HIDE DEF m, n
<1> QED
  BY <1>1, <1>4, <1>5, <1>6, <1>7 DEF Chain, Settled, IsSettled

\* Every action leads the walk along what is required and not settled.
LEMMA ChainStep == Walked /\ Chain /\ [Next]_vars => Chain'
<1> SUFFICES ASSUME Walked, Chain, [Next]_vars PROVE Chain'
  OBVIOUS
<1> USE DEF disk
<1>a. Walked' /\ call.back \in BOOLEAN /\ stack \in Seq(Frames)
  BY StackStep DEF Walked, TypeOK
<1>1. CASE stack' = <<>>
  BY <1>1, NoChain
<1>2. CASE stack' = stack /\ applied' = applied /\ call' = call
  BY <1>2 DEF Chain, Settled, IsSettled
<1>3. ASSUME NEW a \in Apps, Migrate(a)
      PROVE  Chain'
  <2>1. /\ call'.back = Backwards(a) /\ applied' = applied
        /\ pc = "apps" /\ stack = <<>> /\ ~BadTarget(a)
    BY <1>3 DEF Migrate, Walked, StackInv, Running, TypeOK
  <2>2. Goal(a) \in Nodes /\ Backwards(a) \in BOOLEAN
    BY <2>1, GoalTyped DEF Typed, Walked, StackInv
  <2>3. CASE UNCHANGED <<pc, stack>>
    BY <2>1, <2>3, NoChain
  <2>4. ASSUME ~IsSettled(Goal(a), Backwards(a)),
               NEW todo \in Orders(Goal(a), Backwards(a)),
               stack' = <<[node |-> Goal(a), todo |-> todo]>>
        PROVE  Chain'
    <3>1. \A j \in 1 .. Len(todo) : todo[j] \in Required(Goal(a), Backwards(a))
      BY <2>2, OrdersWithin
    <3>2. Len(stack') = 1 /\ stack'[1] = [node |-> Goal(a), todo |-> todo]
      BY <2>4
    <3>3. 1 .. 1 = {1} /\ ~(1 < 1)
      OBVIOUS
    <3> QED
      BY <2>1, <2>4, <3>1, <3>2, <3>3 DEF Chain, Settled, IsSettled
  <2> QED
    BY <1>3, <2>3, <2>4 DEF Migrate
<1>4. CASE SkipDep \/ EnterDep
  <2> DEFINE n == Len(stack)
             head == Head(Top.todo)
             rest == Tail(Top.todo)
  <2>1. /\ stack # <<>> /\ Top.todo # <<>> /\ Node \in Nodes
        /\ Top.todo \in Seq(Nodes) /\ n \in Nat /\ n >= 1
        /\ call' = call /\ applied' = applied
    BY <1>4, <1>a, Stacks DEF SkipDep, EnterDep, Walked, StackInv, Running
  <2>2. /\ Advance \in Seq(Frames) /\ Len(Advance) = n
        /\ \A i \in 1 .. n : Advance[i].node = stack[i].node
        /\ \A i \in 1 .. n - 1 : Advance[i] = stack[i]
        /\ Advance[n].todo = rest /\ head \in Nodes
    BY <1>a, <2>1, Advances
  <2>3. /\ 1 \in 1 .. Len(Top.todo) /\ head = Top.todo[1]
        /\ \A k \in 1 .. Len(rest) :
             k + 1 \in 1 .. Len(Top.todo) /\ rest[k] = Top.todo[k + 1]
    <3>1. /\ Len(rest) = Len(Top.todo) - 1
          /\ \A k \in 1 .. Len(rest) : rest[k] = Top.todo[k + 1]
      BY <2>1, HeadTailProperties
    <3>2. Len(Top.todo) \in Nat /\ Len(Top.todo) # 0 /\ head = Top.todo[1]
      BY <2>1, EmptySeq, LenProperties
    <3> HIDE DEF rest, head
    <3> QED
      BY <3>1, <3>2
  <2>4. n \in 1 .. n /\ ~(n < n)
    <3> HIDE DEF n
    <3> QED
      BY <2>1
  <2>5. \A j \in 1 .. Len(Top.todo) : Top.todo[j] \in Required(Node, call.back)
    BY <2>4 DEF Chain, Node, Top
  <2>6. /\ head \in Required(Node, call.back)
        /\ \A k \in 1 .. Len(rest) : rest[k] \in Required(Node, call.back)
    <3> HIDE DEF rest, head
    <3> QED
      BY <2>3, <2>5
  <2>7. \A i \in 1 .. n :
          /\ ~Settled(Advance[i].node)
          /\ \A j \in 1 .. Len(Advance[i].todo) :
                Advance[i].todo[j] \in Required(Advance[i].node, call.back)
    <3> TAKE i \in 1 .. n
    <3>1. i \in 1 .. n - 1 \/ i = n
      <4>1. i \in 1 .. n
        OBVIOUS
      <4> HIDE DEF n
      <4> QED
        BY <2>1, <4>1
    <3>2. Advance[i].node = stack[i].node /\ ~Settled(stack[i].node)
      BY <2>2 DEF Chain
    <3>3. CASE i \in 1 .. n - 1
      BY <2>2, <3>2, <3>3 DEF Chain
    <3>4. CASE i = n
      <4>1. Advance[i].todo = rest /\ Advance[i].node = Node
        BY <2>2, <3>2, <3>4 DEF Node, Top
      <4> HIDE DEF rest
      <4> QED
        BY <2>6, <3>2, <4>1
    <3> QED
      BY <3>1, <3>3, <3>4
  <2>8. \A i \in 1 .. n : i < n =>
          Advance[i + 1].node \in Required(Advance[i].node, call.back)
    <3> SUFFICES ASSUME NEW i \in 1 .. n, i < n
                 PROVE  Advance[i + 1].node \in Required(Advance[i].node, call.back)
      OBVIOUS
    <3>1. i + 1 \in 1 .. n
      <4>1. i \in 1 .. n /\ i < n
        OBVIOUS
      <4> HIDE DEF n
      <4> QED
        BY <2>1, <4>1
    <3> QED
      BY <2>2, <3>1 DEF Chain
  <2>9. CASE SkipDep
    <3>1. stack' = Advance
      BY <2>9 DEF SkipDep
    <3> QED
      BY <2>1, <2>2, <2>7, <2>8, <3>1 DEF Chain, Settled, IsSettled
  <2>10. CASE EnterDep
    <3>1. PICK todo \in Orders(head, call.back) :
            stack' = Append(Advance, [node |-> head, todo |-> todo])
      BY <2>10 DEF EnterDep
    <3> DEFINE frame == [node |-> head, todo |-> todo]
    <3>2. ~Settled(head)
      BY <2>10 DEF EnterDep
    <3>3. \A j \in 1 .. Len(todo) : todo[j] \in Required(head, call.back)
      BY <1>a, <2>2, OrdersWithin
    <3>4. frame \in Frames
      BY <1>a, <2>2, OrdersAreComplete DEF Frames
    <3>5. /\ Len(stack') = n + 1
          /\ \A i \in 1 .. n : stack'[i] = Advance[i]
          /\ stack'[n + 1] = frame
      BY <2>2, <3>1, <3>4, AppendProperties
    <3>6. ASSUME NEW i \in 1 .. n + 1
          PROVE  (i \in 1 .. n \/ i = n + 1) /\ (i < n + 1 => i \in 1 .. n)
                 /\ (i < n + 1 /\ i # n => i < n /\ i + 1 \in 1 .. n)
      <4>1. i \in 1 .. n + 1
        OBVIOUS
      <4> HIDE DEF n
      <4> QED
        BY <2>1, <4>1
    <3>7. \A i \in 1 .. n + 1 :
            /\ ~Settled(stack'[i].node)
            /\ \A j \in 1 .. Len(stack'[i].todo) :
                  stack'[i].todo[j] \in Required(stack'[i].node, call.back)
      <4> TAKE i \in 1 .. n + 1
      <4>1. CASE i \in 1 .. n
        BY <2>7, <3>5, <4>1
      <4>2. CASE i = n + 1
        <5>1. stack'[i].node = head /\ stack'[i].todo = todo
          BY <3>5, <4>2
        <5> HIDE DEF head
        <5> QED
          BY <3>2, <3>3, <5>1
      <4> QED
        BY <3>6, <4>1, <4>2
    <3>8. \A i \in 1 .. n + 1 : i < n + 1 =>
            stack'[i + 1].node \in Required(stack'[i].node, call.back)
      <4> SUFFICES ASSUME NEW i \in 1 .. n + 1, i < n + 1
                   PROVE  stack'[i + 1].node \in Required(stack'[i].node, call.back)
        OBVIOUS
      <4>1. CASE i # n
        <5>1. i \in 1 .. n /\ i < n /\ i + 1 \in 1 .. n
          BY <3>6, <4>1
        <5> QED
          BY <2>8, <3>5, <5>1
      <4>2. CASE i = n
        <5>1. stack'[i + 1].node = head /\ stack'[i].node = Node
          BY <2>2, <2>4, <3>5, <4>2 DEF Node, Top
        <5> QED
          BY <2>6, <5>1
      <4> QED
        BY <4>1, <4>2
    <3> HIDE DEF n
    <3> QED
      BY <2>1, <3>5, <3>7, <3>8 DEF Chain, Settled, IsSettled
  <2> QED
    BY <1>4, <2>9, <2>10
<1>5. CASE FakeNode \/ WriteRowAlone \/ Commit
  <2>1. Running /\ Top.todo = <<>> /\ Settle
    BY <1>5 DEF FakeNode, WriteRowAlone, Commit, Ready, Running, Walked, StackInv
  <2> QED
    BY <2>1, SettleKeepsChain
<1>6. CASE CreateTable \/ Begin \/ RunOp \/ WriteRowInTx
  BY <1>2, <1>6 DEF CreateTable, Begin, RunOp, WriteRowInTx
<1>7. CASE LoadApplied \/ \E req \in Requests : Start(req)
  <2>1. stack' = stack /\ ~Running
    BY <1>7 DEF LoadApplied, Start, Running
  <2>2. stack' = <<>>
    BY <2>1 DEF Walked, StackInv
  <2> QED
    BY <2>2, NoChain
<1>8. CASE \/ LoadAppliedRefused \/ FinishRun \/ RunOpRefused \/ Fault
           \/ \E a \in Apps : MigrateFails(a)
  BY <1>1, <1>8
     DEF LoadAppliedRefused, FinishRun, RunOpRefused, Fault, CreateTableFails,
         LoadAppliedFails, FakeNodeFails, BeginFails, RunOpFails, WriteRowFails,
         CommitFails, Crash, MigrateFails, Return
<1>9. CASE UNCHANGED vars
  BY <1>2, <1>9 DEF vars
<1> QED
  BY <1>3, <1>4, <1>5, <1>6, <1>7, <1>8, <1>9 DEF Next, Progress, Walk

------------------------------------------------------------------------------
(* Rows and schema, where there are transactions *)

\* The invariant of the walk, with what its node holds on to.
Walking == IInv /\ Task /\ Chain

\* At first there is no walk ...
LEMMA WalkingInit == Init => Walking
<1> SUFFICES ASSUME Init PROVE Walking
  OBVIOUS
<1>1. 1 .. Len(stack) = {}
  BY EmptySeq DEF Init
<1> QED
  BY <1>1, InvInit, WorkInit DEF Walking, Worked, Chain

\* ... and every action keeps it.
LEMMA WalkingStep == Walking /\ [Next]_vars => Walking'
BY InvStep, TaskStep, ChainStep DEF Walking, IInv, Walked

\* A commit on the default database moves a node that may be moved: on the way
\* forwards it is not recorded and all it needs is, on the way backwards it is
\* and nothing recorded needs it.
LEMMA Moving ==
    ASSUME Walking, pc = "commit", call.db = Default
    PROVE  /\ Node \in Nodes
           /\ Node \in rows[Default] <=> call.back
           /\ ~call.back => Needs(Node) \subseteq rows[Default]
           /\ call.back => \A m \in rows[Default] : Node \notin Needs(m)
<1>1. /\ Walked /\ Running /\ Top.todo = <<>> /\ applied = rows[Default]
      /\ call.back \in BOOLEAN
  BY DEF Walking, IInv, Walked, StackInv, Running, MemoryInv, WritesDefault, TypeOK
<1>2. ~Settled(Node)
  <2>1. /\ stack \in Seq(Frames) /\ stack # <<>>
    BY <1>1 DEF Walked, TypeOK, StackInv
  <2>2. Len(stack) \in Nat /\ Len(stack) >= 1
    BY <2>1, Stacks
  <2>3. Len(stack) \in 1 .. Len(stack)
    BY <2>2
  <2> QED
    BY <2>3 DEF Walking, Chain, Node, Top
<1> QED
  BY <1>1, <1>2, NodeIsFree DEF Settled, IsSettled

\* No call fakes.
NoFakes == \A req \in Requests : ~req.fake

\* The schema of the default database is the one its rows describe.
SchemaInv ==
    /\ Walking
    /\ ~call.fake
    /\ SchemaMatchesRows

\* The request decides whether a call fakes, and nothing else does.
LEMMA FakeStays ==
    ASSUME Task, [Next]_vars, NoFakes, ~call.fake
    PROVE  ~call.fake'
<1> USE DEF disk
<1>1. CASE \E req \in Requests : Start(req)
  BY <1>1 DEF Start, NoFakes
<1>2. CASE \E a \in Apps : Migrate(a) \/ MigrateFails(a)
  BY <1>2 DEF Migrate, MigrateFails, Return, Task, Typed, TypeOK
<1>3. CASE CreateTable \/ LoadApplied \/ LoadAppliedRefused \/ FinishRun
           \/ SkipDep \/ EnterDep \/ Begin \/ RunOp \/ RunOpRefused
           \/ WriteRowInTx
  BY <1>3 DEF CreateTable, LoadApplied, LoadAppliedRefused, FinishRun, SkipDep,
              EnterDep, Begin, RunOp, RunOpRefused, WriteRowInTx, Return
<1>4. CASE FakeNode \/ WriteRowAlone \/ Commit
  BY <1>4 DEF FakeNode, WriteRowAlone, Commit, Settle
<1>5. CASE Fault
  BY <1>5 DEF Fault, CreateTableFails, LoadAppliedFails, FakeNodeFails,
              BeginFails, RunOpFails, WriteRowFails, CommitFails, Crash, Return
<1>6. CASE UNCHANGED vars
  BY <1>6 DEF vars
<1> QED
  BY <1>1, <1>2, <1>3, <1>4, <1>5, <1>6 DEF Next, Progress, Walk

\* A commit moves the rows of the default database from one closed set of nodes
\* to another, and the schema from what the one describes to what the other does.
LEMMA MoveKeepsSchema ==
    ASSUME Coherent, Walking, pc = "commit", call.db = Default,
           schema[Default] = Described[rows[Default]],
           rows'[Default] = Record(rows[Default]),
           schema'[Default] \in Carried(Node, call.back, schema[Default])
    PROVE  schema'[Default] = Described[rows'[Default]]
<1>1. /\ Node \in Nodes
      /\ Node \in rows[Default] <=> call.back
      /\ ~call.back => Needs(Node) \subseteq rows[Default]
      /\ call.back => \A m \in rows[Default] : Node \notin Needs(m)
      /\ call.back \in BOOLEAN
      /\ rows[Default] \in SUBSET Nodes
      /\ \A m \in rows[Default] : Needs(m) \subseteq rows[Default]
  BY Moving, DatabasesAssumption
     DEF Walking, IInv, TypeOK, LedgerClosed, DepClosed
<1>2. CASE ~call.back
  <2> DEFINE S == rows[Default]
  <2>1. S \in SUBSET Nodes /\ Node \in Nodes \ S
    BY <1>1, <1>2
  <2>2. \A m \in S \cup {Node} : Needs(m) \subseteq S
    BY <1>1, <1>2
  <2>3. Carried(Node, FALSE, Described[S]) \subseteq {Described[S \cup {Node}]}
    <3> HIDE DEF S
    <3> QED
      BY <2>1, <2>2, Coherent DEF Coherent
  <2> QED
    BY <1>1, <1>2, <2>3 DEF Record
<1>3. CASE call.back
  <2> DEFINE S == rows[Default] \ {Node}
  <2>1. S \in SUBSET Nodes /\ Node \in Nodes \ S /\ S \cup {Node} = rows[Default]
    BY <1>1, <1>3
  <2>2. \A m \in S \cup {Node} : Needs(m) \subseteq S
    BY <1>1, <1>3
  <2>3. Carried(Node, TRUE, Described[S \cup {Node}]) \subseteq {Described[S]}
    <3> HIDE DEF S
    <3> QED
      BY <2>1, <2>2, Coherent DEF Coherent
  <2> QED
    BY <1>1, <1>3, <2>1, <2>3 DEF Record
<1> QED
  BY <1>1, <1>2, <1>3

\* Through every failure and crash the schema of a default database with
\* transactions is the one that the recorded nodes describe, as long as no call
\* fakes and the files follow from each other (Node.Run, Node.Backwards).
THEOREM SchemaAgrees ==
    ASSUME NoFakes, Coherent
    PROVE  Spec => []SchemaMatchesRows
<1>1. Init => SchemaInv
  BY WalkingInit, DatabasesAssumption, Coherent
     DEF Init, SchemaInv, SchemaMatchesRows, Coherent
<1>2. SchemaInv /\ [Next]_vars => SchemaInv'
  <2> SUFFICES ASSUME SchemaInv, [Next]_vars PROVE SchemaInv'
    OBVIOUS
  <2>1. Walking' /\ ~call.fake'
    BY WalkingStep, FakeStays, NoFakes DEF SchemaInv, Walking
  <2>2. ASSUME Default \in TxSupport
        PROVE  schema'[Default] = Described[rows'[Default]]
    <3>1. Default \in Databases /\ (~InTx => Default # call.db)
      BY <2>2, DatabasesAssumption DEF InTx
    <3>2. schema[Default] = Described[rows[Default]]
      BY <2>2 DEF SchemaInv, SchemaMatchesRows
    <3>3. \/ rows'[Default] = rows[Default] /\ schema'[Default] = schema[Default]
          \/ /\ pc = "commit" /\ call.db = Default
             /\ rows'[Default] = Record(rows[Default])
             /\ schema'[Default] \in Carried(Node, call.back, schema[Default])
      BY <3>1, DiskStep, DiskTyped DEF SchemaInv, Walking, Task
    <3> QED
      BY <3>2, <3>3, MoveKeepsSchema, Coherent DEF SchemaInv
  <2> QED
    BY <2>1, <2>2 DEF SchemaInv, SchemaMatchesRows
<1>3. SchemaInv => SchemaMatchesRows
  BY DEF SchemaInv
<1> QED
  BY <1>1, <1>2, <1>3, PTL DEF Spec

\* The schema moves one whole node at a time where there are transactions, and
\* the row of that node in the same step: one commit of Node.run.
THEOREM SchemaMovesByNode == Spec => OneNodeAtATime
<1> DEFINE Moves(d) ==
        \E n \in Nodes :
            \/ /\ n \in rows'[d] /\ (d = Default => n \notin rows[d])
               /\ schema'[d] \in Carried(n, FALSE, schema[d])
            \/ /\ n \notin rows'[d] /\ (d = Default => n \in rows[d])
               /\ schema'[d] \in Carried(n, TRUE, schema[d])
<1>1. ASSUME Walking, [Next]_vars
      PROVE  \A d \in TxSupport : schema'[d] # schema[d] => Moves(d)
  <2> SUFFICES ASSUME NEW d \in TxSupport, schema'[d] # schema[d]
               PROVE  Moves(d)
    OBVIOUS
  <2>1. d \in Databases /\ (~InTx => d # call.db) /\ call.back \in BOOLEAN
    BY <1>1, DatabasesAssumption DEF InTx, Walking, Task, Typed, TypeOK
  <2>2. /\ pc = "commit" /\ d = call.db
        /\ rows'[d] = Record(rows[d])
        /\ schema'[d] \in Carried(Node, call.back, schema[d])
    BY <1>1, <2>1, DiskStep, DiskTyped DEF Walking, Task
  <2>3. Node \in Nodes
    BY <1>1, <2>2, DiskTyped DEF Running, Walking, Task
  <2>4. d = Default => (Node \in rows[d] <=> call.back)
    BY <1>1, <2>2, Moving
  <2>5. CASE call.back
    BY <2>2, <2>3, <2>4, <2>5 DEF Record
  <2>6. CASE ~call.back
    BY <2>1, <2>2, <2>3, <2>4, <2>6 DEF Record
  <2> QED
    BY <2>5, <2>6
<1>2. ASSUME Walking, [Next]_vars
      PROVE  [\A d \in TxSupport : schema'[d] # schema[d] => Moves(d)]_vars
  BY <1>1, <1>2
<1> QED
  BY <1>2, WalkingInit, WalkingStep, PTL DEF Spec, OneNodeAtATime

------------------------------------------------------------------------------
(* Work that lasts *)

\* Operations that keep a mark keep it whichever of them are run.
LEMMA AfterKeeps ==
    ASSUME NEW n \in Nodes, NEW back \in BOOLEAN, NEW s \in Schemas, NEW mark,
           NEW j \in 0 .. Ops[n],
           \A i \in 1 .. Ops[n] : i > j => Keeps(Change(n, back, i), mark)
    PROVE  \A x \in Carried(n, back, s) :
                \E y \in After(n, back, s)[j] : x \in mark <=> y \in mark
<1> DEFINE N == Ops[n]
           A == After(n, back, s)
           Same(k) == \A x \in A[k] : \E y \in A[j] : x \in mark <=> y \in mark
           T == {k \in Nat : j + k <= N => Same(j + k)}
<1>1. N \in Nat /\ j \in Nat /\ j <= N
  BY AfterIs
<1>2. \A k \in 1 .. N : A[k] = Outcomes(n, back, k, A[k - 1])
  BY AfterIs
<1>3. 0 \in T
  <2>1. j + 0 = j
    BY <1>1
  <2> QED
    BY <2>1
<1>4. ASSUME NEW k \in Nat, k \in T
      PROVE  k + 1 \in T
  <2> SUFFICES ASSUME j + (k + 1) <= N
               PROVE  Same(j + (k + 1))
    OBVIOUS
  <2> DEFINE i == j + (k + 1)
  <2>1. i \in 1 .. N /\ i > j /\ i - 1 = j + k /\ j + k <= N
    BY <1>1
  <2>2. A[i] = Outcomes(n, back, i, A[j + k]) /\ Keeps(Change(n, back, i), mark)
    BY <1>2, <2>1
  <2>3. Same(j + k)
    BY <1>4, <2>1
  <2>4. ASSUME NEW x \in A[i]
        PROVE  \E z \in A[j + k] : x \in mark <=> z \in mark
    <3> HIDE DEF A, i
    <3> QED
      BY <2>2, <2>4 DEF Outcomes, Keeps
  <2> HIDE DEF A
  <2> QED
    BY <2>3, <2>4
<1>5. Nat \subseteq T
  <2> HIDE DEF T
  <2> QED
    BY <1>3, <1>4, Induction
<1>6. N - j \in Nat /\ j + (N - j) = N
  BY <1>1
<1>7. Same(N)
  <2> HIDE DEF Same, N
  <2> QED
    BY <1>1, <1>5, <1>6
<1> QED
  BY <1>7 DEF Carried

\* What is carried out for a node leaves the marks of the others as they are,
\* and sets or clears its own: forwards it must not have been set before.
LEMMA CarriedMarks ==
    ASSUME NEW C, LastingBy(C), NEW n \in Nodes, NEW back \in BOOLEAN,
           NEW s \in Schemas, NEW x \in Carried(n, back, s)
    PROVE  /\ \A m \in Nodes : m # n /\ Ops[m] > 0 => (x \in C[m] <=> s \in C[m])
           /\ Ops[n] > 0 /\ ~back => s \notin C[n] /\ x \in C[n]
           /\ Ops[n] > 0 /\ back => x \notin C[n]
<1> DEFINE N == Ops[n]
<1>1. /\ N \in Nat /\ After(n, back, s)[0] = {s}
      /\ \A k \in 1 .. N : After(n, back, s)[k] =
                            Outcomes(n, back, k, After(n, back, s)[k - 1])
  BY AfterIs
<1>2. \A i \in 1 .. N : N + 1 - i \in 1 .. N /\ <<n, i>> \in Changes
  BY <1>1 DEF Changes
<1>3. ASSUME NEW m \in Nodes, m # n, Ops[m] > 0
      PROVE  x \in C[m] <=> s \in C[m]
  <2>1. \A i \in 1 .. N : Keeps(Change(n, back, i), C[m])
    <3>1. \A c \in Changes \ {<<m, 1>>} :
            Keeps(Does[c], C[m]) /\ Keeps(Undoes[c], C[m])
      BY <1>3 DEF LastingBy
    <3>2. \A i \in 1 .. N : <<n, i>> \in Changes \ {<<m, 1>>}
      BY <1>2, <1>3
    <3> HIDE DEF N
    <3>3. \A i \in 1 .. N : Keeps(Does[<<n, i>>], C[m])
                           /\ Keeps(Undoes[<<n, N + 1 - i>>], C[m])
      BY <1>2, <3>1, <3>2
    <3> QED
      BY <3>3 DEF Change, N
  <2>2. 0 \in 0 .. N
    BY <1>1
  <2>3. \E y \in After(n, back, s)[0] : x \in C[m] <=> y \in C[m]
    <3> DEFINE mark == C[m]
               j == 0
    <3>1. /\ \A i \in 1 .. Ops[n] : i > j => Keeps(Change(n, back, i), mark)
          /\ j \in 0 .. Ops[n]
      BY <2>1, <2>2
    <3> HIDE DEF mark, j
    <3>2. \A z \in Carried(n, back, s) :
            \E y \in After(n, back, s)[j] : z \in mark <=> y \in mark
      BY <3>1, AfterKeeps
    <3> QED
      BY <3>2 DEF mark, j
  <2> QED
    BY <1>1, <2>3
<1>4. ASSUME N > 0, ~back
      PROVE  s \notin C[n] /\ x \in C[n]
  <2>1. 1 \in 1 .. N /\ 1 \in 0 .. N /\ 1 - 1 = 0
    BY <1>1, <1>4
  <2>2. \A i \in 1 .. N : i > 1 => Keeps(Change(n, back, i), C[n])
    <3>1. \A c \in Changes \ {<<n, 1>>} : Keeps(Does[c], C[n])
      BY <1>4 DEF LastingBy
    <3>2. \A i \in 1 .. N : i > 1 => <<n, i>> \in Changes \ {<<n, 1>>}
      BY <1>2
    <3>3. \A i \in 1 .. N : i > 1 => Keeps(Does[<<n, i>>], C[n])
      BY <3>1, <3>2
    <3> QED
      BY <1>4, <3>3 DEF Change
  <2>3. PICK y \in After(n, back, s)[1] : x \in C[n] <=> y \in C[n]
    <3> DEFINE mark == C[n]
    <3>1. \A i \in 1 .. Ops[n] : i > 1 => Keeps(Change(n, back, i), mark)
      BY <2>2
    <3> HIDE DEF mark
    <3>2. \A z \in Carried(n, back, s) :
            \E y \in After(n, back, s)[1] : z \in mark <=> y \in mark
      BY <2>1, <3>1, AfterKeeps
    <3> QED
      BY <3>2 DEF mark
  <2>4. After(n, back, s)[1] = Outcomes(n, back, 1, {s})
    BY <1>1, <2>1
  <2>5. s \in DOMAIN Does[<<n, 1>>] /\ y = Does[<<n, 1>>][s]
    BY <1>4, <2>3, <2>4 DEF Outcomes, Change
  <2> QED
    BY <1>4, <2>3, <2>5 DEF LastingBy
<1>5. ASSUME N > 0, back
      PROVE  x \notin C[n]
  <2>1. N \in 1 .. N /\ N + 1 - N = 1
    BY <1>1, <1>5
  <2>2. x \in Outcomes(n, back, N, After(n, back, s)[N - 1])
    BY <1>1, <2>1 DEF Carried
  <2>3. Change(n, back, N) = Undoes[<<n, 1>>]
    BY <1>5, <2>1 DEF Change
  <2>4. \E z \in DOMAIN Undoes[<<n, 1>>] : x = Undoes[<<n, 1>>][z]
    BY <2>2, <2>3 DEF Outcomes
  <2> QED
    BY <1>5, <2>4 DEF LastingBy
<1> QED
  BY <1>3, <1>4, <1>5

\* The nodes with operations whose rows database d has are those whose mark its
\* schema carries.
Marked(C, d) ==
    \A n \in Nodes : Ops[n] > 0 => (n \in rows[d] <=> schema[d] \in C[n])

\* Whatever the call does, rows and marks stay in agreement where there are
\* transactions, but for the rows that are faked.
LEMMA MarkStep ==
    ASSUME NEW C, LastingBy(C), Task, [Next]_vars, NEW d \in TxSupport,
           Marked(C, d), call.fake => d # Default
    PROVE  Marked(C, d)'
<1>1. /\ d \in Databases /\ (~InTx => d # call.db)
      /\ schema[d] \in Schemas /\ call.back \in BOOLEAN
  BY DatabasesAssumption DEF InTx, Task, Typed, TypeOK
<1>2. CASE rows'[d] = rows[d] /\ schema'[d] = schema[d]
  BY <1>2 DEF Marked
<1>3. CASE /\ pc = "commit" /\ rows'[d] = Record(rows[d])
           /\ schema'[d] \in Carried(Node, call.back, schema[d])
  <2>1. Node \in Nodes
    BY <1>3, DiskTyped DEF Running, Task
  <2>2. /\ \A m \in Nodes : m # Node /\ Ops[m] > 0 =>
                (schema'[d] \in C[m] <=> schema[d] \in C[m])
        /\ Ops[Node] > 0 /\ ~call.back => schema'[d] \in C[Node]
        /\ Ops[Node] > 0 /\ call.back => schema'[d] \notin C[Node]
    BY <1>1, <1>3, <2>1, CarriedMarks
  <2> QED
    BY <1>3, <2>1, <2>2 DEF Marked, Record
<1>4. \/ rows'[d] = rows[d] /\ schema'[d] = schema[d]
      \/ /\ pc = "commit" /\ rows'[d] = Record(rows[d])
         /\ schema'[d] \in Carried(Node, call.back, schema[d])
  BY <1>1, DiskStep, DiskTyped DEF Task
<1> QED
  BY <1>2, <1>3, <1>4

\* A node that was carried out on top of the marks had no row.
LEMMA CommitOnce ==
    ASSUME NEW C, LastingBy(C), Task, pc = "commit", ~call.back, Ops[Node] > 0,
           Marked(C, call.db)
    PROVE  Node \notin rows[call.db]
<1>1. /\ Node \in Nodes /\ schema[call.db] \in Schemas /\ FALSE \in BOOLEAN
      /\ call.back = FALSE
  BY DiskTyped DEF Running, Task, Typed, TypeOK
<1>2. tx.schema \in Carried(Node, FALSE, schema[call.db])
  BY <1>1 DEF Task, Carried
<1>3. schema[call.db] \notin C[Node]
  BY <1>1, <1>2, CarriedMarks
<1> QED
  BY <1>1, <1>3 DEF Marked

------------------------------------------------------------------------------
(* What others may do to the databases *)

\* A node that is run keeps what it holds on to as long as nobody touches the
\* database its transaction is open on.
LEMMA TaskKept ==
    ASSUME Task, DiskOK',
           UNCHANGED <<tx, pc, call, pending, applied, stack, done, result>>,
           pc \in {"ops", "commit"} /\ InTx =>
                rows'[call.db] = rows[call.db] /\ schema'[call.db] = schema[call.db]
    PROVE  Task'
<1>1. Typed'
  BY DEF Task, Typed, TypeOK, DiskOK, Running
<1>2. /\ Node' = Node
      /\ Ops[Node]' = Ops[Node] /\ InTx' = InTx
  BY DEF Node, Top, InTx
<1>3. ASSUME pc \in {"ops", "commit"}, InTx
      PROVE  Record(rows[call.db])' = Record(rows[call.db])
  BY <1>2, <1>3 DEF Record
<1> QED
  BY <1>1, <1>2, <1>3 DEF Task

\* The frames of the walk are its own.
LEMMA WalkedKept ==
    ASSUME Walked, DiskOK',
           UNCHANGED <<tx, pc, call, pending, applied, stack, done, result>>
    PROVE  Walked'
<1>1. StackInv'
  BY DEF Walked, StackInv, Top, Running, Settled, IsSettled
<1> QED
  BY <1>1 DEF Walked, TypeOK, DiskOK
=============================================================================
