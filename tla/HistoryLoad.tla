----------------------------- MODULE HistoryLoad -----------------------------
(***************************************************************************)
(* loadHistory: the migration folders are listed, every file becomes a     *)
(* node of the graph of changes, and Node.setState walks the graph depth   *)
(* first, applying the operations of each node to the state of its         *)
(* application after those of its dependencies.  The files are written by  *)
(* hand or by Make, so any listing and any reference may be found in them. *)
(* Applications and states come out of maps: the order is any.  A load     *)
(* that fails leaves what it built in the global history, clearHistory not *)
(* being deferred yet, and the next call finds it there.                   *)
(*                                                                         *)
(* Over a loaded history, loadPreviousState replays the nodes before one   *)
(* of them: PreviousStates.                                                *)
(***************************************************************************)
EXTENDS AppState

CONSTANTS
    Apps,           \* the registered applications
    BadName,        \* a file name FileNameRegex does not match
    Inputs,         \* what the folders may hold (see InputsAssumption)
    Repaired        \* what they may hold when the call is made again

\* files[a] lists the numbers of the files of application a, in the order of
\* ReadDir, which is that of their names; a name FileNameRegex matches starts
\* with four digits.  deps and ops give the content of each file.  A dependency
\* names an application and a file; its name is the "exact" name of the file
\* with that number, some "other" name, or one that is "malformed".
Listed(in) ==
    /\ DOMAIN in.files = Apps
    /\ \A a \in Apps :
        /\ in.files[a] \in Seq(Nat \cup {BadName})
        /\ \A i, j \in DOMAIN in.files[a] :
            i < j /\ {in.files[a][i], in.files[a][j]} \subseteq Nat
                => in.files[a][i] <= in.files[a][j]

Written(in) ==
    \A a \in Apps : \A k \in DOMAIN in.files[a] :
        LET deps == in.deps[<<a, k>>]
        IN  /\ <<a, k>> \in DOMAIN in.deps
            /\ deps \in Seq({deps[i] : i \in DOMAIN deps})
            /\ \A i \in DOMAIN deps :
                /\ DOMAIN deps[i] = {"app", "number", "name"}
                /\ deps[i].number \in Nat
                /\ deps[i].name \in {"exact", "other", "malformed"}

ASSUME InputsAssumption ==
    /\ BadName \notin Nat
    /\ \A in \in Inputs \cup Repaired : Listed(in) /\ Written(in)

VARIABLES
    input,      \* the folders
    unread,     \* the applications loadApp has yet to be called for
    left,       \* the applications whose nodes are still to be walked
    walk,       \* the nodes left of the one being walked
    stack,      \* the active calls to setState
    stash,      \* the nodes those calls are for
    processed,  \* the nodes whose operations have been applied
    models,     \* models[a]: the application state
    verdict     \* "running", "ok", the error returned, or "panic"

vars == <<input, unread, left, walk, stack, stash, processed, models, verdict>>

Count(a) == Len(input.files[a])
Nodes == UNION {{a} \X (1 .. Count(a)) : a \in Apps}
Deps(n) == input.deps[n]

\* The types; only nodes of the files are walked, and no node twice at a time,
\* so that a cycle in the files ends in an error and never in a recursion that
\* does not (Node.setState).
TypeOK ==
    /\ unread \subseteq Apps
    /\ left \subseteq Apps
    /\ \A i \in DOMAIN walk : walk[i] \in Nodes
    /\ \A i \in DOMAIN stack : stack[i].node \in Nodes
    /\ stash = {stack[i].node : i \in DOMAIN stack}
    /\ Cardinality(stash) = Len(stack)
    /\ unread = {} => processed \subseteq Nodes
    /\ DOMAIN models = Apps
    /\ verdict \in {"running", "ok", "name", "duplicate", "load", "invalid",
                    "circular", "operation", "panic"}

Init ==
    /\ input \in Inputs
    /\ unread = Apps
    /\ left = Apps
    /\ walk = <<>>
    /\ stack = <<>>
    /\ stash = {}
    /\ processed = {}
    /\ models = [a \in Apps |-> Empty]
    /\ verdict = "running"

Stop(error) ==
    /\ verdict' = error
    /\ UNCHANGED <<input, unread, left, walk, stack, stash>>

Fail(error) == Stop(error) /\ UNCHANGED <<processed, models>>

\* The next call to loadHistory after one that returned an error (a panic ends
\* the program), the folders repaired or not.
Again ==
    /\ verdict \in {"name", "duplicate", "load", "invalid", "circular",
                    "operation"}
    /\ input' \in Repaired \cup {input}
    /\ unread' = Apps
    /\ left' = Apps
    /\ walk' = <<>>
    /\ stack' = <<>>
    /\ stash' = {}
    /\ verdict' = "running"
    /\ UNCHANGED <<processed, models>>

------------------------------------------------------------------------------
(* loadApp *)

\* The first file that cannot be stored at its number: it repeats the number of
\* an earlier one, or the list has no such place.
Misplaced(a, i) ==
    LET number == input.files[a][i]
    IN  \/ number = 0 \/ number > Count(a)
        \/ \E j \in 1 .. i - 1 : input.files[a][j] = number

\* Mutant: a state that is there already is used.
NewStateIfNone(a) == UNCHANGED <<processed, models>>

\* A state without models and with new nodes takes the place of the one an
\* earlier call left.
NewState(a) ==
    /\ processed' = {n \in processed : n[1] # a}
    /\ models' = [models EXCEPT ![a] = Empty]

Placed(a) ==
    \A i \in 1 .. Count(a) : input.files[a][i] # BadName /\ ~Misplaced(a, i)

ReadApp(a) ==
    /\ verdict = "running"
    /\ a \in unread
    /\ NewState(a)
    /\ Placed(a)
    /\ unread' = unread \ {a}
    /\ UNCHANGED <<input, left, walk, stack, stash, verdict>>

ReadAppFails(a) ==
    /\ verdict = "running"
    /\ a \in unread
    /\ NewState(a)
    /\ \/ /\ \E i \in 1 .. Count(a) : input.files[a][i] = BadName
          /\ Stop("name")
       \/ /\ \A i \in 1 .. Count(a) : input.files[a][i] # BadName
          /\ \E i \in 1 .. Count(a) :
                /\ Misplaced(a, i)
                /\ \A j \in 1 .. i - 1 : ~Misplaced(a, j)
                /\ Stop(IF input.files[a][i] \in 1 .. Count(a) THEN "duplicate"
                                                               ELSE "panic")
       \* the folder or one of the files cannot be read or parsed
       \/ Stop("load")

------------------------------------------------------------------------------
(* setState *)

Top == stack[Len(stack)]
Pop == SubSeq(stack, 1, Len(stack) - 1)
Advance == [stack EXCEPT ![Len(stack)].todo = Tail(@)]
Frame(n) == [node |-> n, todo |-> Deps(n)]
Target(ref) == <<ref.app, ref.number>>

\* The next application of the outer loop, and its nodes in order.
PickApp(a) ==
    /\ verdict = "running"
    /\ unread = {}
    /\ stack = <<>>
    /\ walk = <<>>
    /\ a \in left
    /\ left' = left \ {a}
    /\ walk' = [k \in 1 .. Count(a) |-> <<a, k>>]
    /\ UNCHANGED <<input, unread, stack, stash, processed, models, verdict>>

Visit ==
    /\ verdict = "running"
    /\ stack = <<>>
    /\ walk # <<>>
    /\ walk' = Tail(walk)
    /\ \/ /\ Head(walk) \in processed
          /\ UNCHANGED <<stack, stash>>
       \/ /\ Head(walk) \notin processed
          /\ stack' = <<Frame(Head(walk))>>
          /\ stash' = {Head(walk)}
    /\ UNCHANGED <<input, unread, left, processed, models, verdict>>

\* Mutant: a reference is followed by its number, whatever its name.
ReadingNumberOnly(ref) ==
    IF ref.app \notin Apps THEN "invalid"
    ELSE IF ref.number > Count(ref.app) THEN "invalid"
    ELSE IF ref.number = 0 THEN "panic"
    ELSE IF Target(ref) \in stash THEN "circular"
    ELSE "node"

\* What setState makes of a reference, in the order of its checks.
Reading(ref) ==
    CASE ref.name = "malformed" -> "invalid"
      [] ref.name # "malformed" /\ ref.app \notin Apps -> "invalid"
      [] ref.name # "malformed" /\ ref.app \in Apps ->
            IF ref.number > Count(ref.app) THEN "invalid"
            ELSE IF ref.number = 0 THEN "panic"
            ELSE IF ref.name = "other" THEN "invalid"
            ELSE IF Target(ref) \in stash THEN "circular"
            ELSE "node"

Checking == verdict = "running" /\ stack # <<>> /\ Top.todo # <<>>

FollowDep ==
    /\ Checking
    /\ Reading(Head(Top.todo)) = "node"
    /\ LET dep == Target(Head(Top.todo))
       IN  \/ /\ dep \in processed
              /\ stack' = Advance
              /\ UNCHANGED stash
           \/ /\ dep \notin processed
              /\ stack' = Append(Advance, Frame(dep))
              /\ stash' = stash \cup {dep}
    /\ UNCHANGED <<input, unread, left, walk, processed, models, verdict>>

RefuseDep ==
    /\ Checking
    /\ Reading(Head(Top.todo)) # "node"
    /\ Fail(Reading(Head(Top.todo)))

\* The operations of the node on top, applied to the state of its application.
Result == ApplyOps(input.ops[Top.node], models[Top.node[1]])

\* Mutant: a node is processed as soon as it is visited.
ApplyNodeEarly ==
    /\ verdict = "running"
    /\ stack # <<>>
    /\ Result.ok
    /\ models' = [models EXCEPT ![Top.node[1]] = Result.st]
    /\ processed' = processed \cup {Top.node}
    /\ stash' = stash \ {Top.node}
    /\ stack' = Pop
    /\ UNCHANGED <<input, unread, left, walk, verdict>>

\* Mutant: a node stays in the stash once it is processed.
ApplyNodeStashed ==
    /\ verdict = "running"
    /\ stack # <<>>
    /\ Top.todo = <<>>
    /\ Result.ok
    /\ models' = [models EXCEPT ![Top.node[1]] = Result.st]
    /\ processed' = processed \cup {Top.node}
    /\ stack' = Pop
    /\ UNCHANGED <<input, unread, left, walk, stash, verdict>>

ApplyNode ==
    /\ verdict = "running"
    /\ stack # <<>>
    /\ Top.todo = <<>>
    /\ Result.ok
    /\ models' = [models EXCEPT ![Top.node[1]] = Result.st]
    /\ processed' = processed \cup {Top.node}
    /\ stash' = stash \ {Top.node}
    /\ stack' = Pop
    /\ UNCHANGED <<input, unread, left, walk, verdict>>

RefuseNode ==
    /\ verdict = "running"
    /\ stack # <<>>
    /\ Top.todo = <<>>
    /\ ~Result.ok
    /\ Fail("operation")

Finish ==
    /\ verdict = "running"
    /\ unread = {} /\ left = {} /\ walk = <<>> /\ stack = <<>>
    /\ verdict' = "ok"
    /\ UNCHANGED <<input, unread, left, walk, stack, stash, processed, models>>

Next ==
    \/ \E a \in Apps : ReadApp(a) \/ ReadAppFails(a) \/ PickApp(a)
    \/ Visit
    \/ FollowDep
    \/ RefuseDep
    \/ ApplyNode
    \/ RefuseNode
    \/ Finish
    \/ Again

Spec == Init /\ [][Next]_vars

------------------------------------------------------------------------------
(* loadPreviousState *)

\* What op.SetState leaves behind when its error is ignored: the fields it took
\* in, or out, before the one it refused, in the order of a map.
Taken(op, def) ==
    CASE op.op = "AddFields" -> op.fields \ def.fields
      [] op.op = "RemoveFields" ->
            {x \in op.fields \cap def.fields :
                \A i \in DOMAIN def.indexes : x \notin def.indexes[i]}
      [] OTHER -> {}

Leniently(op, st) ==
    IF CanSet(op, st) THEN {SetState(op, st)}
    ELSE {st} \cup
         (IF op.model \in DOMAIN st
          THEN {SetState([op EXCEPT !.fields = S], st) :
                    S \in (SUBSET Taken(op, st[op.model])) \ {{}}}
          ELSE {})

\* Mutant: the previous node is found without its dependencies.
TrailOfOne == [n \in Nodes |-> <<n>>]

\* The order in which setPreviousState meets the nodes: the dependencies of
\* each again whenever it is met.
Trail ==
    LET trail[n \in Nodes] ==
            FlattenSeq([i \in DOMAIN Deps(n) |-> trail[Target(Deps(n)[i])]])
                \o <<n>>
    IN  trail

\* The nodes of its application replayed for the state before a node.
Replayed(n) ==
    IF n[2] = 1 THEN <<>>
    ELSE SelectSeq(Trail[<<n[1], n[2] - 1>>], LAMBDA k : k[1] = n[1])

PreviousStates(n) ==
    FoldLeft(LAMBDA S, op : UNION {Leniently(op, st) : st \in S},
             {Empty},
             FlattenSeq([i \in DOMAIN Replayed(n) |-> input.ops[Replayed(n)[i]]]))

------------------------------------------------------------------------------
(* Properties *)

WellNumbered ==
    \A a \in Apps : \A i \in 1 .. Count(a) : input.files[a][i] = i

RefsValid ==
    \A n \in Nodes : \A i \in DOMAIN Deps(n) :
        LET ref == Deps(n)[i]
        IN  ref.name = "exact" /\ Target(ref) \in Nodes

Points(n) == {Target(Deps(n)[i]) : i \in DOMAIN Deps(n)}

\* No set of nodes each of which depends on one of them.
Acyclic ==
    \A S \in (SUBSET Nodes) \ {{}} : \E n \in S : Points(n) \cap S = {}

\* Every history that is loaded is one the walk of Run can rely on, numbered
\* without gaps, with references that lead to nodes and no cycle; an error that
\* names a cause is returned only when the cause is there.
VerdictIsRight ==
    /\ verdict = "ok" =>
        WellNumbered /\ RefsValid /\ Acyclic /\ processed = Nodes
    /\ verdict = "circular" => ~Acyclic
    /\ verdict = "invalid" => ~RefsValid
    /\ verdict \in {"name", "duplicate"} => ~WellNumbered
    /\ verdict = "panic" => ~WellNumbered \/ ~RefsValid

\* The operations of a node are applied after those of its dependencies.
DepsFirst ==
    unread = {} => \A n \in processed : Points(n) \subseteq processed

\* The histories Make writes: each node depends on the previous one.
Chained ==
    \A n \in Nodes : n[2] > 1 => <<n[1], n[2] - 1>> \in Points(n)
InOrder(a) == Replay([k \in 1 .. Count(a) |-> input.ops[<<a, k>>]], Count(a))

\* For those, the outcome of loadHistory is that of the files taken in order,
\* whatever order the maps and the other dependencies impose.
OrderIndependent ==
    Chained =>
        /\ verdict = "ok" => \A a \in Apps :
                InOrder(a).ok /\ models[a] = InOrder(a).st
        /\ verdict = "operation" => \E a \in Apps : ~InOrder(a).ok

OnlyAdds(a) ==
    \A k \in 1 .. Count(a) : \A i \in DOMAIN input.ops[<<a, k>>] :
        input.ops[<<a, k>>][i].op \in {"CreateModel", "AddFields", "AddIndex"}

\* The state a node is run on, forwards and backwards, is that of the nodes
\* before it, provided that no node is met twice on the way to them or that
\* nothing is ever removed: meeting a node twice is harmless only then.
PreviousIsReplay ==
    (verdict = "ok" /\ Chained) => \A n \in Nodes :
        \/ ~IsInjective(Replayed(n)) /\ ~OnlyAdds(n[1])
        \/ PreviousStates(n) =
            {Replay([k \in 1 .. n[2] - 1 |-> input.ops[<<n[1], k>>]],
                    n[2] - 1).st}
=============================================================================
