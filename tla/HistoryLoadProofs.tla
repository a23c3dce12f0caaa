-------------------------- MODULE HistoryLoadProofs --------------------------
(***************************************************************************)
(* Proofs about HistoryLoad, for any applications, any folders and any     *)
(* number of loads one after another: what loadHistory accepts and what it *)
(* refuses, and that the operations of a node follow those it depends on.  *)
(***************************************************************************)
EXTENDS HistoryLoad, NaturalsInduction, WellFoundedInduction,
        SequenceTheorems, FiniteSetTheorems, TLAPS

\* A reference that leads to a file.
Valid(ref) == ref.name = "exact" /\ Target(ref) \in Nodes

Refs == UNION {Range(Deps(n)) : n \in Nodes}

Frames == [node : Nodes, todo : Seq(Refs)]

------------------------------------------------------------------------------
(* The inductive invariant *)

Types ==
    /\ input \in Inputs \cup Repaired
    /\ unread \subseteq Apps
    /\ left \subseteq Apps
    /\ walk \in Seq(Nodes)
    /\ stack \in Seq(Frames)
    /\ DOMAIN models = Apps
    /\ verdict \in {"running", "ok", "name", "duplicate", "load", "invalid",
                    "circular", "operation", "panic"}

\* While applications are still to be read, what an earlier load processed is
\* theirs, and no node is walked.
Unloaded ==
    unread # {} =>
        /\ left = Apps /\ walk = <<>> /\ stack = <<>>
        /\ \A n \in processed : n[1] \in unread

\* The dependencies of a processed node have been followed, and processed.
Followed ==
    unread = {} =>
        /\ processed \subseteq Nodes
        /\ \A n \in processed : \A ref \in Range(Deps(n)) :
            Valid(ref) /\ Target(ref) \in processed

\* The stash holds the nodes of the active calls, one each, none processed.
Stashed ==
    /\ stash = {stack[i].node : i \in 1 .. Len(stack)}
    /\ \A i, j \in 1 .. Len(stack) : stack[i].node = stack[j].node => i = j
    /\ IsFiniteSet(stash)
    /\ Cardinality(stash) = Len(stack)
    /\ stash \cap processed = {}

\* Each active call is for a dependency of the one below.
Linked ==
    \A i \in 1 .. Len(stack) :
        i + 1 <= Len(stack) => stack[i + 1].node \in Points(stack[i].node)

\* Of the references of an active call, those it has still to check, and those
\* that led to a processed node or lead to the call above.
Checked ==
    \A i \in 1 .. Len(stack) :
        /\ Range(stack[i].todo) \subseteq Range(Deps(stack[i].node))
        /\ \A ref \in Range(Deps(stack[i].node)) \ Range(stack[i].todo) :
            /\ Valid(ref)
            /\ \/ Target(ref) \in processed
               \/ i + 1 <= Len(stack) /\ Target(ref) = stack[i + 1].node

Numbered == \A a \in Apps \ unread : Placed(a)

\* No cycle among the processed nodes.
Rising ==
    unread = {} => \A S \in (SUBSET processed) \ {{}} :
        \E n \in S : Points(n) \cap S = {}

\* No node is left out of the walk.
Covered ==
    unread = {} => \A n \in Nodes :
        n \in processed \cup stash \cup Range(walk) \/ n[1] \in left

Inv == /\ Types /\ Unloaded /\ Followed /\ Stashed /\ Linked /\ Checked
       /\ Numbered /\ Rising /\ Covered

------------------------------------------------------------------------------
(* Lists and folders *)

\* A list that is not empty is its head and its tail.
LEMMA HeadAndTail ==
    ASSUME NEW T, NEW s \in Seq(T), s # <<>>
    PROVE  /\ Len(s) \in Nat /\ Len(s) > 0
           /\ Head(s) \in Range(s)
           /\ Tail(s) \in Seq(T)
           /\ Range(Tail(s)) \subseteq Range(s)
           /\ Range(s) \subseteq {Head(s)} \cup Range(Tail(s))
<1>1. /\ Len(s) \in Nat /\ Len(s) > 0 /\ DOMAIN s = 1 .. Len(s)
      /\ Head(s) = s[1]
      /\ Tail(s) \in Seq(T)
      /\ Len(Tail(s)) = Len(s) - 1
      /\ DOMAIN Tail(s) = 1 .. Len(s) - 1
      /\ \A i \in 1 .. Len(s) - 1 : Tail(s)[i] = s[i + 1]
  OBVIOUS
<1> DEFINE n == Len(s)
<1>2. /\ n \in Nat /\ n > 0 /\ DOMAIN s = 1 .. n
      /\ DOMAIN Tail(s) = 1 .. n - 1
      /\ \A i \in 1 .. n - 1 : Tail(s)[i] = s[i + 1]
  BY <1>1
<1> HIDE DEF n
<1>3. ASSUME NEW x \in Range(Tail(s))
      PROVE  x \in Range(s)
  <2>1. PICK i \in 1 .. n - 1 : x = s[i + 1]
    BY <1>2, <1>3 DEF Range
  <2>2. i + 1 \in DOMAIN s
    BY <1>2
  <2> QED
    BY <2>1, <2>2 DEF Range
<1>4. ASSUME NEW x \in Range(s), x # s[1]
      PROVE  x \in Range(Tail(s))
  <2>1. PICK i \in 1 .. n : x = s[i]
    BY <1>2, <1>4 DEF Range
  <2>2. /\ i - 1 \in 1 .. n - 1
        /\ (i - 1) + 1 = i
    BY <1>2, <1>4, <2>1
  <2>3. /\ i - 1 \in DOMAIN Tail(s)
        /\ Tail(s)[i - 1] = s[(i - 1) + 1]
    BY <1>2, <2>2
  <2> QED
    BY <2>1, <2>2, <2>3 DEF Range
<1>5. s[1] \in Range(s)
  BY <1>2 DEF Range
<1> QED
  BY <1>1, <1>3, <1>4, <1>5

\* What the folders hold.
LEMMA Folders ==
    ASSUME input \in Inputs \cup Repaired
    PROVE  /\ \A a \in Apps :
                /\ Count(a) \in Nat
                /\ DOMAIN input.files[a] = 1 .. Count(a)
                /\ \A i \in 1 .. Count(a) :
                    input.files[a][i] \in Nat \cup {BadName}
                /\ \A i, j \in 1 .. Count(a) :
                    /\ i < j
                    /\ input.files[a][i] \in Nat /\ input.files[a][j] \in Nat
                    => input.files[a][i] <= input.files[a][j]
           /\ \A n \in Nodes :
                /\ n[1] \in Apps /\ n[2] \in 1 .. Count(n[1])
                /\ Deps(n) \in Seq(Refs)
                /\ Range(Deps(n)) \subseteq Refs
                /\ \A ref \in Range(Deps(n)) :
                    /\ ref.number \in Nat
                    /\ ref.name \in {"exact", "other", "malformed"}
           /\ \A a, k : <<a, k>> \in Nodes <=> a \in Apps /\ k \in 1 .. Count(a)
<1>1. Listed(input) /\ Written(input)
  BY InputsAssumption
<1>2. ASSUME NEW a \in Apps
      PROVE  /\ Count(a) \in Nat
             /\ DOMAIN input.files[a] = 1 .. Count(a)
             /\ input.files[a] \in Seq(Nat \cup {BadName})
  BY <1>1 DEF Listed, Count
<1>3. ASSUME NEW a \in Apps
      PROVE  /\ \A i \in 1 .. Count(a) :
                    input.files[a][i] \in Nat \cup {BadName}
             /\ \A i, j \in 1 .. Count(a) :
                    /\ i < j
                    /\ input.files[a][i] \in Nat /\ input.files[a][j] \in Nat
                    => input.files[a][i] <= input.files[a][j]
  <2>1. \A i \in 1 .. Count(a) : input.files[a][i] \in Nat \cup {BadName}
    BY <1>2
  <2> QED
    BY <1>1, <1>2, <2>1 DEF Listed
<1>4. \A a, k : <<a, k>> \in Nodes <=> a \in Apps /\ k \in 1 .. Count(a)
  BY DEF Nodes
<1>5. ASSUME NEW n \in Nodes
      PROVE  /\ n[1] \in Apps /\ n[2] \in 1 .. Count(n[1])
             /\ n = <<n[1], n[2]>>
  BY DEF Nodes
<1>6. ASSUME NEW n \in Nodes
      PROVE  /\ Deps(n) \in Seq(Refs)
             /\ Range(Deps(n)) \subseteq Refs
             /\ \A ref \in Range(Deps(n)) :
                    /\ ref.number \in Nat
                    /\ ref.name \in {"exact", "other", "malformed"}
  <2>1. /\ Deps(n) \in Seq({Deps(n)[i] : i \in DOMAIN Deps(n)})
        /\ \A i \in DOMAIN Deps(n) :
            /\ Deps(n)[i].number \in Nat
            /\ Deps(n)[i].name \in {"exact", "other", "malformed"}
    <3>1. n[2] \in DOMAIN input.files[n[1]] /\ n[1] \in Apps
      BY <1>2, <1>5
    <3>2. Deps(n) = input.deps[<<n[1], n[2]>>]
      BY <1>5 DEF Deps
    <3> DEFINE d == input.deps[<<n[1], n[2]>>]
    <3>3. /\ d \in Seq({d[i] : i \in DOMAIN d})
          /\ \A i \in DOMAIN d :
            d[i].number \in Nat /\ d[i].name \in {"exact", "other", "malformed"}
      BY <1>1, <3>1, Zenon DEF Written
    <3> QED
      BY <3>2, <3>3, Zenon
  <2>2. {Deps(n)[i] : i \in DOMAIN Deps(n)} \subseteq Refs
    BY DEF Refs, Range
  <2>3. Deps(n) \in Seq(Refs)
    <3> DEFINE d == Deps(n)
               D == {d[i] : i \in DOMAIN d}
    <3>1. d \in Seq(D) /\ D \subseteq Refs
      BY <2>1, <2>2
    <3> HIDE DEF d, D
    <3>2. d \in Seq(Refs)
      BY <3>1, SeqMonotonic
    <3> QED
      BY <3>2 DEF d
  <2> QED
    BY <2>1, <2>2, <2>3 DEF Range
<1> QED
  BY <1>2, <1>3, <1>4, <1>5, <1>6

\* What setState makes of a reference: it goes on exactly with those that lead
\* to a node, the "circular" ones being to a node of the stash.
LEMMA ReadingMeans ==
    ASSUME input \in Inputs \cup Repaired,
           NEW n \in Nodes, NEW ref \in Range(Deps(n))
    PROVE  \/ Reading(ref) = "node" /\ Valid(ref) /\ Target(ref) \notin stash
           \/ Reading(ref) = "circular" /\ Valid(ref) /\ Target(ref) \in stash
           \/ Reading(ref) \in {"invalid", "panic"} /\ ~Valid(ref)
<1>1. /\ ref.number \in Nat
      /\ ref.name \in {"exact", "other", "malformed"}
      /\ \A a, k : <<a, k>> \in Nodes <=> a \in Apps /\ k \in 1 .. Count(a)
      /\ \A a \in Apps : Count(a) \in Nat
  BY Folders
<1>2. Target(ref) \in Nodes
        <=> ref.app \in Apps /\ ref.number \in 1 .. Count(ref.app)
  BY <1>1 DEF Target
<1>3. CASE ref.name = "malformed"
  BY <1>3 DEF Reading, Valid
<1>4. CASE ref.name # "malformed" /\ ref.app \notin Apps
  BY <1>2, <1>4 DEF Reading, Valid
<1>5. CASE ref.name # "malformed" /\ ref.app \in Apps
  BY <1>1, <1>2, <1>5 DEF Reading, Valid
<1> QED
  BY <1>3, <1>4, <1>5

------------------------------------------------------------------------------
(* The stack *)

\* The active calls, one less, and the top one after its first reference.
LEMMA StackFacts ==
    ASSUME stack \in Seq(Frames), stack # <<>>
    PROVE  /\ Len(stack) \in Nat /\ Len(stack) >= 1
           /\ Top = stack[Len(stack)]
           /\ \A i \in 1 .. Len(stack) :
                stack[i].node \in Nodes /\ stack[i].todo \in Seq(Refs)
           /\ Pop \in Seq(Frames) /\ Len(Pop) = Len(stack) - 1
           /\ \A i \in 1 .. Len(stack) - 1 : Pop[i] = stack[i]
           /\ Top.todo # <<>> =>
                /\ Advance \in Seq(Frames) /\ Len(Advance) = Len(stack)
                /\ \A i \in 1 .. Len(stack) : Advance[i].node = stack[i].node
                /\ \A i \in 1 .. Len(stack) - 1 : Advance[i] = stack[i]
                /\ Advance[Len(stack)].todo = Tail(Top.todo)
<1>1. /\ Len(stack) \in Nat /\ Len(stack) >= 1
      /\ Top = stack[Len(stack)]
      /\ \A i \in 1 .. Len(stack) : stack[i] \in Frames
  BY DEF Top
<1>2. \A i \in 1 .. Len(stack) :
            stack[i].node \in Nodes /\ stack[i].todo \in Seq(Refs)
  BY <1>1 DEF Frames
<1>3. /\ Pop \in Seq(Frames) /\ Len(Pop) = Len(stack) - 1
      /\ \A i \in 1 .. Len(stack) - 1 : Pop[i] = stack[i]
  <2> DEFINE n == Len(stack)
  <2>1. /\ n \in Nat /\ n >= 1
        /\ \A i \in 1 .. n - 1 : stack[i] \in Frames
    BY <1>1
  <2> HIDE DEF n
  <2>2. /\ SubSeq(stack, 1, n - 1) \in Seq(Frames)
        /\ Len(SubSeq(stack, 1, n - 1)) = n - 1
        /\ \A i \in 1 .. n - 1 : SubSeq(stack, 1, n - 1)[i] = stack[i]
    <3>1. \A i \in 1 .. (n - 1) - 1 + 1 : 1 + i - 1 = i
      BY <2>1
    <3>2. (n - 1) - 1 + 1 = n - 1 /\ 1 \in Int /\ n - 1 \in Int
      BY <2>1
    <3> QED
      BY <2>1, <3>1, <3>2, SubSeqProperties
  <2> QED
    BY <2>2 DEF n, Pop
<1>4. ASSUME Top.todo # <<>>
      PROVE  /\ Advance \in Seq(Frames) /\ Len(Advance) = Len(stack)
             /\ \A i \in 1 .. Len(stack) : Advance[i].node = stack[i].node
             /\ \A i \in 1 .. Len(stack) - 1 : Advance[i] = stack[i]
             /\ Advance[Len(stack)].todo = Tail(Top.todo)
  <2> DEFINE n == Len(stack)
             f == [stack[n] EXCEPT !.todo = Tail(@)]
  <2>1. /\ n \in Nat /\ n >= 1 /\ n \in 1 .. n
        /\ stack[n] \in Frames
        /\ Top = stack[n]
    BY <1>1
  <2>2. /\ Tail(Top.todo) \in Seq(Refs)
        /\ f \in Frames
        /\ f.node = stack[n].node
        /\ f.todo = Tail(Top.todo)
    <3>1. stack[n].todo \in Seq(Refs) /\ stack[n].todo # <<>>
      BY <1>2, <1>4, <2>1
    <3>2. Tail(stack[n].todo) \in Seq(Refs)
      BY <3>1, HeadAndTail
    <3> QED
      BY <2>1, <3>2 DEF Frames
  <2>3. Advance = [stack EXCEPT ![n] = f]
    BY DEF Advance
  <2>4. /\ [stack EXCEPT ![n] = f] \in Seq(Frames)
        /\ Len([stack EXCEPT ![n] = f]) = Len(stack)
        /\ \A j \in 1 .. Len(stack) :
            [stack EXCEPT ![n] = f][j] = IF j = n THEN f ELSE stack[j]
    BY <2>1, <2>2, ExceptSeq
  <2> QED
    BY <1>1, <2>1, <2>2, <2>3, <2>4
<1> QED
  BY <1>1, <1>2, <1>3, <1>4

------------------------------------------------------------------------------
(* Every step keeps the invariant *)

\* The nodes a node points to, read off its list of dependencies.
LEMMA PointsAreTargets ==
    \A n : Points(n) = {Target(ref) : ref \in Range(Deps(n))}
  BY DEF Points, Range

\* What the files determine stays while the files do.
LEMMA SameFolders ==
    ASSUME input' = input
    PROVE  /\ Nodes' = Nodes /\ Refs' = Refs /\ Frames' = Frames
           /\ \A a : Count(a)' = Count(a) /\ (Placed(a)' <=> Placed(a))
           /\ \A n : Deps(n)' = Deps(n) /\ Points(n)' = Points(n)
           /\ \A ref : Valid(ref)' <=> Valid(ref)
<1>1. Nodes' = Nodes /\ \A n : Deps(n)' = Deps(n) /\ \A a : Count(a)' = Count(a)
  BY DEF Nodes, Count, Deps
<1>2. \A a : Placed(a)' <=> Placed(a)
  BY DEF Placed, Misplaced, Count
<1>3. \A n : Points(n)' = Points(n)
  BY DEF Points, Deps
<1>4. \A ref : Valid(ref)' <=> Valid(ref)
  BY <1>1 DEF Valid
<1>5. Refs' = Refs /\ Frames' = Frames
  BY <1>1 DEF Refs, Frames
<1> QED
  BY <1>1, <1>2, <1>3, <1>4, <1>5

\* An empty list of calls, or of nodes.
LEMMA NothingWalked ==
    /\ Len(<< >>) = 0 /\ 1 .. 0 = {} /\ Range(<< >>) = {}
    /\ IsFiniteSet({}) /\ Cardinality({}) = 0
    /\ (SUBSET {}) \ {{}} = {}
<1>1. IsFiniteSet({}) /\ Cardinality({}) = 0
  BY FS_EmptySet
<1>2. Len(<< >>) = 0 /\ 1 .. 0 = {} /\ DOMAIN << >> = {}
  OBVIOUS
<1>3. \A S \in SUBSET {} : S = {}
  OBVIOUS
<1>4. (SUBSET {}) \ {{}} = {}
  BY <1>3
<1> QED
  BY <1>1, <1>2, <1>4 DEF Range

\* The program begins with no node processed.
LEMMA Started ==
    ASSUME Init
    PROVE  Inv
<1>1. /\ walk \in Seq(Nodes) /\ stack \in Seq(Frames)
      /\ DOMAIN models = Apps
  BY DEF Init
<1>2. Types
  BY <1>1 DEF Init, Types
<1>3. Stashed /\ Linked /\ Checked
  BY NothingWalked DEF Init, Stashed, Linked, Checked
<1>4. Covered
  BY <1>2, Folders DEF Init, Covered, Types
<1>5. Unloaded /\ Followed /\ Numbered /\ Rising
  <2>1. Unloaded /\ Followed /\ Numbered
    BY DEF Init, Unloaded, Followed, Numbered
  <2>2. Rising
    BY NothingWalked DEF Init, Rising
  <2> QED
    BY <2>1, <2>2
<1> QED
  BY <1>2, <1>3, <1>4, <1>5 DEF Inv

\* A load begins again over what the last one processed.
LEMMA AgainKeeps ==
    ASSUME Inv, Again
    PROVE  Inv'
<1>1. /\ input' \in Inputs \cup Repaired
      /\ walk' \in Seq(Nodes') /\ stack' \in Seq(Frames')
  BY DEF Inv, Again, Types
<1>2. Types'
  BY <1>1 DEF Inv, Again, Types
<1>3. Stashed' /\ Linked' /\ Checked'
  BY NothingWalked DEF Again, Stashed, Linked, Checked
<1>4. \A n \in Nodes' : n[1] \in Apps
  BY DEF Nodes
<1>5. Covered'
  BY <1>4 DEF Again, Covered
<1>6. \A n \in processed : n[1] \in Apps
  BY Folders DEF Inv, Types, Unloaded, Followed
<1>7. Unloaded' /\ Followed' /\ Numbered' /\ Rising'
  <2>1. Unloaded' /\ Followed' /\ Numbered'
    BY <1>6 DEF Again, Unloaded, Followed, Numbered
  <2>2. unread' = {} => processed' = {}
    BY <1>6 DEF Again
  <2>3. Rising'
    BY <2>2, NothingWalked DEF Rising
  <2> QED
    BY <2>1, <2>3
<1> QED
  BY <1>2, <1>3, <1>5, <1>7 DEF Inv

\* An application is read: what was processed of it is no longer.
LEMMA ReadKeeps ==
    ASSUME Inv, NEW a \in unread, NewState(a),
           \/ unread' = unread
           \/ unread' = unread \ {a} /\ Placed(a),
           UNCHANGED <<input, left, walk, stack, stash>>,
           verdict' \in {"running", "name", "duplicate", "load", "panic"}
    PROVE  Inv'
<1> USE SameFolders
<1>1. Types'
  BY DEF Inv, Types, NewState
<1>2. processed' = {n \in processed : n[1] # a}
  BY DEF NewState
<1>3. Stashed' /\ Linked' /\ Checked'
  BY <1>2, NothingWalked
  DEF Inv, Unloaded, Stashed, Linked, Checked
<1>4. /\ left = Apps /\ walk = <<>> /\ stack = <<>>
      /\ \A n \in processed : n[1] \in unread
  BY DEF Inv, Unloaded
<1>5. Unloaded' /\ Followed' /\ Rising'
  <2>1. unread' = {} => processed' = {}
    BY <1>2, <1>4
  <2>2. \A n \in processed' : n[1] \in unread'
    BY <1>2, <1>4
  <2>3. Unloaded' /\ Followed'
    BY <1>4, <2>1, <2>2 DEF Unloaded, Followed
  <2>4. Rising'
    BY <2>1, NothingWalked DEF Rising
  <2> QED
    BY <2>3, <2>4
<1>6. Numbered'
  BY DEF Inv, Numbered
<1>7. Covered'
  BY <1>4, Folders DEF Inv, Types, Covered
<1> QED
  BY <1>1, <1>3, <1>5, <1>6, <1>7 DEF Inv

\* A step that changes the verdict alone.
LEMMA VerdictKeeps ==
    ASSUME Inv,
           UNCHANGED <<input, unread, left, walk, stack, stash, processed,
                       models>>,
           \/ verdict' = verdict
           \/ verdict' \in {"ok", "invalid", "circular", "operation", "panic"}
    PROVE  Inv'
<1> USE SameFolders
<1>1. Types'
  BY DEF Inv, Types
<1>2. Unloaded' /\ Followed' /\ Stashed' /\ Covered'
  BY DEF Inv, Unloaded, Followed, Stashed, Covered
<1>4. Numbered'
  BY DEF Inv, Numbered
<1>5. Rising'
  BY DEF Inv, Rising
<1>3. Linked' /\ Checked'
  BY DEF Inv, Linked, Checked
<1> QED
  BY <1>1, <1>2, <1>3, <1>4, <1>5 DEF Inv

\* The nodes of an application are to be walked.
LEMMA PickKeeps ==
    ASSUME Inv, NEW a \in Apps, PickApp(a)
    PROVE  Inv'
<1> USE SameFolders
<1>1. /\ input' = input /\ walk' = [k \in 1 .. Count(a) |-> <<a, k>>]
      /\ Count(a) \in Nat
      /\ \A k \in 1 .. Count(a) : <<a, k>> \in Nodes
  BY Folders DEF Inv, Types, PickApp
<1>2. walk' \in Seq(Nodes) /\ Range(walk') = {<<a, k>> : k \in 1 .. Count(a)}
  BY <1>1 DEF Range
<1>3. Types'
  BY <1>2 DEF Inv, Types, PickApp
<1>4. Unloaded' /\ Followed' /\ Stashed' /\ Numbered' /\ Rising'
  BY DEF Inv, PickApp, Unloaded, Followed, Stashed, Numbered, Rising
<1>5. Linked' /\ Checked'
  BY DEF Inv, PickApp, Linked, Checked
<1>6. Covered'
  <2>1. ASSUME NEW n \in Nodes, n[1] = a
        PROVE  n \in Range(walk')
    BY <1>2, <2>1 DEF Nodes
  <2>2. walk = <<>> /\ Range(<< >>) = {} /\ left' = left \ {a}
    BY NothingWalked DEF PickApp
  <2> QED
    BY <1>1, <2>1, <2>2 DEF Inv, PickApp, Covered
<1> QED
  BY <1>3, <1>4, <1>5, <1>6 DEF Inv

\* The loop over the nodes of an application: setState is called for one, which
\* returns at once when it is processed.
LEMMA VisitKeeps ==
    ASSUME Inv, Visit
    PROVE  Inv'
<1> USE SameFolders
<1>1. PICK n : n = Head(walk)
  OBVIOUS
<1>2. /\ n \in Nodes /\ Tail(walk) \in Seq(Nodes)
      /\ Range(walk) \subseteq {n} \cup Range(Tail(walk))
      /\ Range(walk) \subseteq Nodes
  <2>1. /\ n \in Range(walk) /\ Tail(walk) \in Seq(Nodes)
        /\ Range(walk) \subseteq {n} \cup Range(Tail(walk))
    BY <1>1, HeadAndTail DEF Inv, Types, Visit
  <2>2. Range(walk) \subseteq Nodes
    BY DEF Inv, Types, Range
  <2> QED
    BY <2>1, <2>2
<1>3. input' = input /\ walk' = Tail(walk) /\ unread = {} /\ unread' = unread
      /\ processed' = processed /\ left' = left /\ stack = <<>> /\ stash = {}
  <2>1. stash = {}
    BY NothingWalked DEF Inv, Visit, Stashed
  <2> QED
    BY <2>1 DEF Inv, Visit, Unloaded
<1>4. Unloaded' /\ Followed' /\ Numbered' /\ Rising'
  BY <1>3 DEF Inv, Unloaded, Followed, Numbered, Rising
<1>5. CASE n \in processed /\ UNCHANGED <<stack, stash>>
  <2>1. Types'
    BY <1>2, <1>3, <1>5 DEF Inv, Types, Visit
  <2>2. Stashed' /\ Linked' /\ Checked'
    BY <1>3, <1>5, NothingWalked DEF Stashed, Linked, Checked
  <2>3. Covered'
    BY <1>2, <1>3, <1>5 DEF Inv, Covered
  <2> QED
    BY <1>4, <2>1, <2>2, <2>3 DEF Inv
<1>6. CASE n \notin processed /\ stack' = <<Frame(n)>> /\ stash' = {n}
  <2>1. /\ Frame(n) \in Frames
        /\ Frame(n).node = n /\ Frame(n).todo = Deps(n)
    BY <1>2, Folders DEF Frame, Frames, Inv, Types
  <2>2. /\ stack' \in Seq(Frames) /\ Len(stack') = 1
        /\ stack'[1].node = n /\ stack'[1].todo = Deps(n)
    BY <1>6, <2>1
  <2>3. Types'
    BY <1>2, <1>3, <2>2 DEF Inv, Types, Visit
  <2>4. Stashed'
    <3>1. IsFiniteSet({n}) /\ Cardinality({n}) = 1
      BY FS_Singleton
    <3> QED
      BY <1>3, <1>6, <2>2, <3>1 DEF Stashed
  <2>5. Linked' /\ Checked'
    BY <1>3, <2>2 DEF Linked, Checked
  <2>6. Covered'
    BY <1>2, <1>3, <1>6 DEF Inv, Covered
  <2> QED
    BY <1>4, <2>3, <2>4, <2>5, <2>6 DEF Inv
<1> QED
  BY <1>1, <1>5, <1>6 DEF Visit

\* The next reference of the top call leads to a node that is processed, or
\* that setState is called for.
LEMMA FollowKeeps ==
    ASSUME Inv, FollowDep
    PROVE  Inv'
<1> USE SameFolders
<1> DEFINE n == Len(stack)
           ref == Head(Top.todo)
           dep == Target(ref)
<1>1. /\ n \in Nat /\ n >= 1
      /\ \A i \in 1 .. n : stack[i].node \in Nodes /\ stack[i].todo \in Seq(Refs)
      /\ Top = stack[n] /\ Top.todo # <<>>
      /\ Advance \in Seq(Frames) /\ Len(Advance) = n
      /\ \A i \in 1 .. n : Advance[i].node = stack[i].node
      /\ \A i \in 1 .. n - 1 : Advance[i] = stack[i]
      /\ Advance[n].todo = Tail(Top.todo)
  BY StackFacts DEF Inv, Types, FollowDep, Checking
<1>2. /\ input' = input /\ unread = {} /\ unread' = unread
      /\ walk' = walk /\ processed' = processed /\ left' = left
      /\ input \in Inputs \cup Repaired
  BY DEF Inv, Types, FollowDep, Checking, Unloaded
<1>3. Unloaded' /\ Followed' /\ Numbered' /\ Rising'
  BY <1>2 DEF Inv, Unloaded, Followed, Numbered, Rising
<1>4. /\ stash = {stack[i].node : i \in 1 .. n}
      /\ \A i, j \in 1 .. n : stack[i].node = stack[j].node => i = j
      /\ IsFiniteSet(stash) /\ Cardinality(stash) = n
      /\ stash \cap processed = {}
      /\ \A i \in 1 .. n :
            i + 1 <= n => stack[i + 1].node \in Points(stack[i].node)
      /\ \A i \in 1 .. n :
            /\ Range(stack[i].todo) \subseteq Range(Deps(stack[i].node))
            /\ \A r \in Range(Deps(stack[i].node)) \ Range(stack[i].todo) :
                /\ Valid(r)
                /\ \/ Target(r) \in processed
                   \/ i + 1 <= n /\ Target(r) = stack[i + 1].node
  BY DEF Inv, Stashed, Linked, Checked
<1>5. /\ ref \in Range(stack[n].todo)
      /\ Range(Tail(stack[n].todo)) \subseteq Range(stack[n].todo)
      /\ Range(stack[n].todo) \subseteq {ref} \cup Range(Tail(stack[n].todo))
  BY <1>1, HeadAndTail
<1>6. ref \in Range(Deps(stack[n].node)) /\ Valid(ref) /\ dep \notin stash
  <2>1. ref \in Range(Deps(stack[n].node)) /\ stack[n].node \in Nodes
    <3> HIDE DEF n, ref
    <3>1. n \in 1 .. n
      BY <1>1
    <3> QED
      BY <1>1, <1>4, <1>5, <3>1
  <2>2. Reading(ref) = "node"
    BY DEF FollowDep
  <2> QED
    BY <1>2, <2>1, <2>2, ReadingMeans
<1>7. dep \in Nodes /\ dep \in Points(stack[n].node)
  BY <1>6, PointsAreTargets DEF Valid
<1>8. CASE dep \in processed /\ stack' = Advance /\ stash' = stash
  <2>1. Types'
    BY <1>1, <1>2, <1>8 DEF Inv, Types, FollowDep
  <2>2. /\ Len(stack') = n
        /\ \A i \in 1 .. n : stack'[i].node = stack[i].node
        /\ \A i \in 1 .. n - 1 : stack'[i].todo = stack[i].todo
        /\ stack'[n].todo = Tail(stack[n].todo)
    BY <1>1, <1>8
  <2> HIDE DEF n, ref
  <2>3. Stashed'
    BY <1>1, <1>2, <1>4, <1>8, <2>2 DEF Stashed
  <2>4. Linked'
    BY <1>1, <1>2, <1>4, <2>2 DEF Linked
  <2>5. Checked'
    <3>1. ASSUME NEW i \in 1 .. n
          PROVE  /\ Range(stack'[i].todo) \subseteq Range(Deps(stack'[i].node))
                 /\ \A r \in Range(Deps(stack'[i].node)) \ Range(stack'[i].todo) :
                        /\ Valid(r)
                        /\ \/ Target(r) \in processed
                           \/ i + 1 <= n /\ Target(r) = stack'[i + 1].node
      <4>1. CASE i # n
        <5>1. /\ i \in 1 .. n - 1 /\ i + 1 \in 1 .. n
              /\ stack'[i].node = stack[i].node
              /\ stack'[i].todo = stack[i].todo
              /\ stack'[i + 1].node = stack[i + 1].node
          BY <1>1, <2>2, <4>1
        <5> QED
          BY <1>4, <5>1
      <4>2. CASE i = n
        <5>1. n \in 1 .. n /\ ~(n + 1 <= n)
          BY <1>1
        <5>2. stack'[i].node = stack[n].node /\ stack'[i].todo = Tail(stack[n].todo)
          BY <2>2, <4>2, <5>1
        <5>3. Range(stack'[i].todo) \subseteq Range(Deps(stack'[i].node))
          BY <1>4, <1>5, <5>1, <5>2
        <5>4. ASSUME NEW r \in Range(Deps(stack[n].node)) \ Range(Tail(stack[n].todo))
              PROVE  Valid(r) /\ Target(r) \in processed
          <6>1. CASE r = ref
            BY <1>6, <1>8, <6>1
          <6>2. CASE r \notin Range(stack[n].todo)
            BY <1>4, <5>1, <6>2
          <6> QED
            BY <1>5, <6>1, <6>2
        <5> QED
          BY <5>2, <5>3, <5>4
      <4> QED
        BY <4>1, <4>2
    <3> QED
      BY <1>2, <2>2, <3>1 DEF Checked
  <2>6. Covered'
    BY <1>2, <1>8 DEF Inv, Covered
  <2> QED
    BY <1>3, <2>1, <2>3, <2>4, <2>5, <2>6 DEF Inv
<1>9. CASE /\ dep \notin processed
           /\ stack' = Append(Advance, Frame(dep))
           /\ stash' = stash \cup {dep}
  <2>1. /\ Frame(dep) \in Frames
        /\ Frame(dep).node = dep /\ Frame(dep).todo = Deps(dep)
    BY <1>2, <1>7, Folders DEF Frame, Frames
  <2>2. /\ stack' \in Seq(Frames)
        /\ Len(stack') = n + 1
        /\ \A i \in 1 .. n : stack'[i] = Advance[i]
        /\ stack'[n + 1] = Frame(dep)
    BY <1>1, <1>9, <2>1
  <2>3. /\ \A i \in 1 .. n : stack'[i].node = stack[i].node
        /\ \A i \in 1 .. n - 1 : stack'[i].todo = stack[i].todo
        /\ stack'[n].todo = Tail(stack[n].todo)
        /\ stack'[n + 1].node = dep /\ stack'[n + 1].todo = Deps(dep)
    BY <1>1, <2>1, <2>2
  <2>4. Types'
    BY <1>2, <2>2 DEF Inv, Types, FollowDep
  <2> HIDE DEF n, ref
  <2>5. Stashed'
    <3>1. IsFiniteSet(stash') /\ Cardinality(stash') = n + 1
      BY <1>4, <1>6, <1>9, FS_AddElement
    <3>2. stash' = {stack'[i].node : i \in 1 .. n + 1}
      BY <1>1, <1>4, <1>9, <2>3
    <3>3. \A i, j \in 1 .. n + 1 : stack'[i].node = stack'[j].node => i = j
      <4>1. \A i \in 1 .. n : stack'[i].node \in stash
        BY <1>4, <2>3
      <4>2. stack'[n + 1].node \notin stash
        BY <1>6, <2>3
      <4>3. \A i \in 1 .. n + 1 : i \in 1 .. n \/ i = n + 1
        BY <1>1
      <4> QED
        BY <1>4, <2>3, <4>1, <4>2, <4>3
    <3> QED
      BY <1>2, <1>4, <1>9, <2>2, <3>1, <3>2, <3>3 DEF Stashed
  <2>6. Linked'
    <3>1. ASSUME NEW i \in 1 .. n + 1, i + 1 <= n + 1
          PROVE  stack'[i + 1].node \in Points(stack'[i].node)
      BY <1>1, <1>4, <1>7, <2>3, <3>1
    <3> QED
      BY <1>2, <2>2, <3>1 DEF Linked
  <2>7. Checked'
    <3>1. ASSUME NEW i \in 1 .. n + 1
          PROVE  /\ Range(stack'[i].todo) \subseteq Range(Deps(stack'[i].node))
                 /\ \A r \in Range(Deps(stack'[i].node)) \ Range(stack'[i].todo) :
                        /\ Valid(r)
                        /\ \/ Target(r) \in processed
                           \/ /\ i + 1 <= n + 1
                              /\ Target(r) = stack'[i + 1].node
      <4>1. CASE i \in 1 .. n - 1
        <5>1. /\ i \in 1 .. n /\ i + 1 \in 1 .. n /\ i + 1 <= n + 1
              /\ stack'[i].node = stack[i].node
              /\ stack'[i].todo = stack[i].todo
              /\ stack'[i + 1].node = stack[i + 1].node
          BY <1>1, <2>3, <4>1
        <5> QED
          BY <1>4, <5>1
      <4>2. CASE i = n
        <5>1. n \in 1 .. n /\ ~(n + 1 <= n) /\ n + 1 <= n + 1
          BY <1>1
        <5> QED
          BY <1>4, <1>5, <1>6, <2>3, <4>2, <5>1
      <4>3. CASE i = n + 1
        BY <2>3, <4>3
      <4> QED
        BY <1>1, <4>1, <4>2, <4>3
    <3> QED
      BY <1>2, <2>2, <3>1 DEF Checked
  <2>8. Covered'
    BY <1>2, <1>9 DEF Inv, Covered
  <2> QED
    BY <1>3, <2>4, <2>5, <2>6, <2>7, <2>8 DEF Inv
<1> QED
  BY <1>8, <1>9 DEF FollowDep

\* The operations of the top call's node are applied, once all it depends on
\* has been processed: it cannot close a cycle.
LEMMA ApplyKeeps ==
    ASSUME Inv, ApplyNode
    PROVE  Inv'
<1> USE SameFolders
<1> DEFINE n == Len(stack)
           t == stack[n].node
<1>1. /\ n \in Nat /\ n >= 1
      /\ Top = stack[n] /\ t \in Nodes /\ stack[n].todo = <<>>
      /\ Pop \in Seq(Frames) /\ Len(Pop) = n - 1
      /\ \A i \in 1 .. n - 1 : Pop[i] = stack[i]
  BY StackFacts DEF Inv, Types, ApplyNode
<1>2. /\ input' = input /\ unread = {} /\ unread' = unread
      /\ walk' = walk /\ left' = left /\ verdict' = verdict
      /\ processed' = processed \cup {t}
      /\ stash' = stash \ {t}
      /\ Len(stack') = n - 1
      /\ \A i \in 1 .. n - 1 : stack'[i] = stack[i]
  BY <1>1 DEF Inv, ApplyNode, Unloaded
<1>3. /\ stash = {stack[i].node : i \in 1 .. n}
      /\ \A i, j \in 1 .. n : stack[i].node = stack[j].node => i = j
      /\ IsFiniteSet(stash) /\ Cardinality(stash) = n
      /\ stash \cap processed = {}
      /\ \A i \in 1 .. n :
            i + 1 <= n => stack[i + 1].node \in Points(stack[i].node)
      /\ \A i \in 1 .. n :
            /\ Range(stack[i].todo) \subseteq Range(Deps(stack[i].node))
            /\ \A r \in Range(Deps(stack[i].node)) \ Range(stack[i].todo) :
                /\ Valid(r)
                /\ \/ Target(r) \in processed
                   \/ i + 1 <= n /\ Target(r) = stack[i + 1].node
  BY DEF Inv, Stashed, Linked, Checked
<1>4. Types'
  BY <1>1 DEF Inv, Types, ApplyNode
<1> HIDE DEF n
<1>5. n \in 1 .. n /\ ~(n + 1 <= n)
  BY <1>1
<1>6. /\ t \in stash /\ t \notin processed
      /\ \A r \in Range(Deps(t)) : Valid(r) /\ Target(r) \in processed
  BY <1>1, <1>3, <1>5, NothingWalked
<1>7. Points(t) \subseteq processed
  BY <1>6, PointsAreTargets
<1>8. Stashed'
  <2>1. IsFiniteSet(stash') /\ Cardinality(stash') = n - 1
    <3>1. /\ IsFiniteSet(stash \ {t})
          /\ Cardinality(stash \ {t}) = Cardinality(stash) - 1
      <4> HIDE DEF t
      <4>1. IsFiniteSet(stash) /\ t \in stash
        BY <1>3, <1>6
      <4> QED
        BY <4>1, FS_RemoveElement
    <3> QED
      BY <1>2, <1>3, <3>1
  <2>2. stash' = {stack[i].node : i \in 1 .. n - 1}
    <3>1. \A i \in 1 .. n : i \in 1 .. n - 1 \/ i = n
      BY <1>1
    <3>2. \A i \in 1 .. n - 1 : i \in 1 .. n /\ i # n
      BY <1>1
    <3> QED
      BY <1>2, <1>3, <1>5, <3>1, <3>2
  <2>3. stash' = {stack'[i].node : i \in 1 .. n - 1}
    BY <1>2, <2>2
  <2>4. \A i, j \in 1 .. n - 1 : stack'[i].node = stack'[j].node => i = j
    BY <1>1, <1>2, <1>3
  <2>5. stash' \cap processed' = {}
    BY <1>2, <1>3
  <2> QED
    BY <1>2, <2>1, <2>3, <2>4, <2>5 DEF Stashed
<1>9. Linked'
  <2>1. ASSUME NEW i \in 1 .. n - 1, i + 1 <= n - 1
        PROVE  stack'[i + 1].node \in Points(stack'[i].node)
    <3>1. i \in 1 .. n /\ i + 1 \in 1 .. n - 1 /\ i + 1 <= n
      BY <1>1, <2>1
    <3> QED
      BY <1>2, <1>3, <3>1
  <2> QED
    BY <1>2, <2>1 DEF Linked
<1>10. Checked'
  <2>1. ASSUME NEW i \in 1 .. n - 1
        PROVE  /\ Range(stack'[i].todo) \subseteq Range(Deps(stack'[i].node))
               /\ \A r \in Range(Deps(stack'[i].node)) \ Range(stack'[i].todo) :
                    /\ Valid(r)
                    /\ \/ Target(r) \in processed'
                       \/ /\ i + 1 <= n - 1
                          /\ Target(r) = stack'[i + 1].node
    <3>1. i \in 1 .. n /\ stack'[i] = stack[i]
      BY <1>1, <1>2
    <3>2. CASE i + 1 = n
      BY <1>2, <1>3, <3>1, <3>2
    <3>3. CASE i + 1 # n
      <4>1. i + 1 \in 1 .. n - 1 /\ i + 1 <= n /\ i + 1 <= n - 1
        BY <1>1, <3>3
      <4> QED
        BY <1>2, <1>3, <3>1, <4>1
    <3> QED
      BY <3>2, <3>3
  <2> QED
    BY <1>2, <2>1 DEF Checked
<1>11. Followed'
  BY <1>1, <1>2, <1>6 DEF Inv, Followed
<1>12. Rising'
  <2>1. ASSUME NEW S \in (SUBSET processed') \ {{}}
        PROVE  \E k \in S : Points(k) \cap S = {}
    <3>1. CASE S = {t}
      BY <1>6, <1>7, <3>1
    <3>2. CASE S # {t}
      <4>1. S \ {t} \in (SUBSET processed) \ {{}}
        BY <1>2, <2>1, <3>2
      <4>2. PICK k \in S \ {t} : Points(k) \cap (S \ {t}) = {}
        BY <1>2, <4>1 DEF Inv, Rising
      <4>3. Points(k) \subseteq processed
        <5>1. k \in processed
          BY <4>1, <4>2
        <5> QED
          BY <1>2, <5>1, PointsAreTargets DEF Inv, Followed
      <4> QED
        BY <1>6, <4>2, <4>3
    <3> QED
      BY <3>1, <3>2
  <2> QED
    BY <1>2, <2>1 DEF Rising
<1>13. Unloaded' /\ Numbered' /\ Covered'
  <2>1. Unloaded' /\ Covered'
    BY <1>2 DEF Inv, Unloaded, Covered
  <2>2. Numbered'
    BY <1>2 DEF Inv, Numbered
  <2> QED
    BY <2>1, <2>2
<1> QED
  BY <1>4, <1>8, <1>9, <1>10, <1>11, <1>12, <1>13 DEF Inv

\* The reference setState is at is one of the node on top.
LEMMA HeadIsDep ==
    ASSUME Inv, Checking
    PROVE  /\ Head(Top.todo) \in Range(Deps(Top.node)) /\ Top.node \in Nodes
           /\ input \in Inputs \cup Repaired
<1> DEFINE n == Len(stack)
           ref == Head(Top.todo)
<1>1. /\ n \in Nat /\ n >= 1 /\ Top = stack[n] /\ Top.todo # <<>>
      /\ stack[n].node \in Nodes /\ stack[n].todo \in Seq(Refs)
  BY StackFacts DEF Inv, Types, Checking
<1>2. ref \in Range(Top.todo)
  BY <1>1, HeadAndTail
<1>3. \A i \in 1 .. n :
        Range(stack[i].todo) \subseteq Range(Deps(stack[i].node))
  BY DEF Inv, Checked
<1>4. ref \in Range(Deps(Top.node)) /\ Top.node \in Nodes
  <2> HIDE DEF n, ref
  <2>1. n \in 1 .. n
    BY <1>1
  <2> QED
    BY <1>1, <1>2, <1>3, <2>1
<1> QED
  BY <1>4 DEF Inv, Types

\* Whatever loadHistory does keeps the invariant.
LEMMA Kept ==
    ASSUME Inv, [Next]_vars
    PROVE  Inv'
<1>1. ASSUME NEW a \in Apps, ReadApp(a)
      PROVE  Inv'
  <2>1. /\ a \in unread /\ NewState(a) /\ Placed(a) /\ unread' = unread \ {a}
        /\ UNCHANGED <<input, left, walk, stack, stash>>
        /\ verdict' = "running"
    BY <1>1 DEF ReadApp
  <2> QED
    BY <2>1, ReadKeeps
<1>2. ASSUME NEW a \in Apps, ReadAppFails(a)
      PROVE  Inv'
  <2>1. /\ a \in unread /\ NewState(a) /\ unread' = unread
        /\ UNCHANGED <<input, left, walk, stack, stash>>
        /\ verdict' \in {"running", "name", "duplicate", "load", "panic"}
    BY <1>2 DEF ReadAppFails, Stop
  <2> QED
    BY <2>1, ReadKeeps
<1>3. ASSUME RefuseDep
      PROVE  Inv'
  <2>1. Reading(Head(Top.todo)) \in {"invalid", "circular", "panic"}
    BY <1>3, HeadIsDep, ReadingMeans DEF RefuseDep
  <2> QED
    BY <1>3, <2>1, VerdictKeeps DEF RefuseDep, Fail, Stop
<1>4. CASE RefuseNode
  BY <1>4, VerdictKeeps DEF RefuseNode, Fail, Stop
<1>5. CASE Finish
  BY <1>5, VerdictKeeps DEF Finish
<1>6. CASE UNCHANGED vars
  BY <1>6, VerdictKeeps DEF vars
<1> QED
  BY <1>1, <1>2, <1>3, <1>4, <1>5, <1>6, PickKeeps, VisitKeeps, FollowKeeps,
     ApplyKeeps, AgainKeeps DEF Next

\* The invariant holds in every state, over any number of loads.
LEMMA InvariantHolds == Spec => []Inv
<1>1. Init => Inv
  BY Started
<1>2. Inv /\ [Next]_vars => Inv'
  BY Kept
<1> QED
  BY <1>1, <1>2, PTL DEF Spec

------------------------------------------------------------------------------
(* Files that are all placed are numbered without gaps *)

\* A set of natural numbers has a least element.
LEMMA LeastElement ==
    ASSUME NEW T, T \subseteq Nat, T # {}
    PROVE  \E x \in T : \A y \in T : ~(y < x)
<1>1. \E x \in T : \A y \in T : ~(<<y, x>> \in OpToRel(<, Nat))
  BY NatLessThanWellFounded, WFMin
<1> QED
  BY <1>1 DEF OpToRel

\* n numbers from 1 to n, in order and all different, are 1, 2, .., n.
LEMMA NoGaps ==
    ASSUME NEW n \in Nat, NEW f,
           \A i \in 1 .. n : f[i] \in 1 .. n,
           \A i, j \in 1 .. n : i < j => f[i] < f[j],
           NEW i \in 1 .. n
    PROVE  f[i] = i
<1>1. f[i] >= i
  <2> DEFINE T == {x \in 1 .. n : f[x] < x}
  <2>1. SUFFICES ASSUME i \in T
                 PROVE  FALSE
    OBVIOUS
  <2>2. PICK x \in T : \A y \in T : ~(y < x)
    <3>1. T \subseteq Nat /\ T # {}
      BY <2>1
    <3> HIDE DEF T
    <3> QED
      BY <3>1, LeastElement
  <2>3. x \in 1 .. n /\ f[x] < x /\ f[x] \in 1 .. n /\ x # 1
    BY <2>2
  <2>4. x - 1 \in 1 .. n /\ x - 1 < x
    BY <2>3
  <2>5. ~(f[x - 1] < x - 1) /\ f[x - 1] \in 1 .. n
    BY <2>2, <2>4
  <2>6. f[x - 1] < f[x]
    BY <2>3, <2>4
  <2> QED
    BY <2>3, <2>5, <2>6
<1>2. f[i] <= i
  <2> DEFINE T == {k \in 0 .. n - 1 : f[n - k] > n - k}
  <2>1. SUFFICES ASSUME f[i] > i
                 PROVE  FALSE
    OBVIOUS
  <2>2. n - i \in T
    <3>1. n - i \in 0 .. n - 1 /\ n - (n - i) = i
      OBVIOUS
    <3> QED
      BY <2>1, <3>1
  <2>3. PICK x \in T : \A y \in T : ~(y < x)
    <3>1. T # {}
      BY <2>2
    <3>2. T \subseteq Nat
      OBVIOUS
    <3> HIDE DEF T
    <3> QED
      BY <3>1, <3>2, LeastElement
  <2>4. /\ x \in 0 .. n - 1 /\ n - x \in 1 .. n
        /\ f[n - x] > n - x /\ f[n - x] \in 1 .. n
    BY <2>3
  <2>5. x # 0
    BY <2>4
  <2>6. /\ x - 1 \in 0 .. n - 1 /\ x - 1 < x
        /\ n - (x - 1) \in 1 .. n /\ n - x < n - (x - 1)
    BY <2>4, <2>5
  <2>7. ~(f[n - (x - 1)] > n - (x - 1)) /\ f[n - (x - 1)] \in 1 .. n
    BY <2>3, <2>6
  <2>8. f[n - x] < f[n - (x - 1)]
    BY <2>4, <2>6
  <2> QED
    BY <2>4, <2>6, <2>7, <2>8
<1> QED
  BY <1>1, <1>2

\* loadApp puts each file at the index its number says, when none of them
\* is refused: the folder is numbered without gaps.
LEMMA PlacedIsNumbered ==
    ASSUME input \in Inputs \cup Repaired, NEW a \in Apps, Placed(a),
           NEW i \in 1 .. Count(a)
    PROVE  input.files[a][i] = i
<1> DEFINE f == input.files[a]
           n == Count(a)
<1>1. /\ n \in Nat
      /\ \A k \in 1 .. n : f[k] \in Nat \cup {BadName}
      /\ \A k, l \in 1 .. n :
            k < l /\ f[k] \in Nat /\ f[l] \in Nat => f[k] <= f[l]
  BY Folders
<1>2. \A k \in 1 .. n :
        /\ f[k] # BadName /\ f[k] # 0 /\ ~(f[k] > n)
        /\ \A l \in 1 .. k - 1 : f[l] # f[k]
  BY DEF Placed, Misplaced
<1> HIDE DEF f, n
<1>3. \A k \in 1 .. n : f[k] \in 1 .. n
  BY <1>1, <1>2
<1>4. ASSUME NEW k \in 1 .. n, NEW l \in 1 .. n, k < l
      PROVE  f[k] < f[l]
  <2>1. k \in 1 .. l - 1
    BY <1>1, <1>4
  <2>2. f[k] \in 1 .. n /\ f[l] \in 1 .. n /\ f[k] # f[l]
    BY <1>2, <1>3, <2>1
  <2>3. f[k] <= f[l]
    BY <1>1, <1>4, <2>2
  <2> QED
    BY <1>1, <2>2, <2>3
<1>5. i \in 1 .. n
  BY DEF n
<1>6. f[i] = i
  BY <1>1, <1>3, <1>4, <1>5, NoGaps
<1> QED
  BY <1>6 DEF f

------------------------------------------------------------------------------
(* Theorems *)

\* Only nodes of the files are walked, and no node twice at a time, so that the
\* recursion of Node.setState is never deeper than there are files.
THEOREM TypeCorrect == Spec => []TypeOK
<1>1. Inv => TypeOK
  <2> SUFFICES ASSUME Inv
               PROVE  TypeOK
    OBVIOUS
  <2>1. DOMAIN stack = 1 .. Len(stack)
    BY DEF Inv, Types
  <2>2. \A i \in DOMAIN walk : walk[i] \in Nodes
    BY DEF Inv, Types
  <2>3. \A i \in DOMAIN stack : stack[i].node \in Nodes
    <3>1. \A i \in DOMAIN stack : stack[i] \in Frames
      BY DEF Inv, Types
    <3> QED
      BY <3>1 DEF Frames
  <2>4. /\ stash = {stack[i].node : i \in DOMAIN stack}
        /\ Cardinality(stash) = Len(stack)
    BY <2>1 DEF Inv, Stashed
  <2> QED
    BY <2>2, <2>3, <2>4 DEF Inv, Types, Followed, TypeOK
<1> QED
  BY <1>1, InvariantHolds, PTL

\* The operations of a node are applied after those of all it depends on,
\* whatever the order of the maps and whatever an earlier load left behind.
THEOREM DependenciesFirst == Spec => []DepsFirst
<1>1. Inv => DepsFirst
  BY PointsAreTargets DEF Inv, Followed, DepsFirst
<1> QED
  BY <1>1, InvariantHolds, PTL

\* The references on the stack from a node that is met again make a cycle.
LEMMA MetAgain ==
    ASSUME Inv, stack # <<>>, NEW dep \in stash,
           dep \in Points(Top.node)
    PROVE  ~Acyclic
<1> DEFINE n == Len(stack)
<1>1. /\ n \in Nat /\ n >= 1 /\ Top = stack[n]
      /\ \A i \in 1 .. n : stack[i].node \in Nodes
  BY StackFacts DEF Inv, Types
<1>2. /\ stash = {stack[i].node : i \in 1 .. n}
      /\ \A i \in 1 .. n :
            i + 1 <= n => stack[i + 1].node \in Points(stack[i].node)
  BY DEF Inv, Stashed, Linked
<1> HIDE DEF n
<1>3. PICK k \in 1 .. n : dep = stack[k].node
  BY <1>2
<1> DEFINE S == {stack[i].node : i \in k .. n}
<1>4. dep \in S /\ S \in SUBSET Nodes
  BY <1>1, <1>3
<1>5. ASSUME NEW x \in S
      PROVE  Points(x) \cap S # {}
  <2>1. PICK i \in k .. n : x = stack[i].node
    OBVIOUS
  <2>2. CASE i = n
    BY <1>1, <1>4, <2>1, <2>2
  <2>3. CASE i # n
    <3>1. i \in 1 .. n /\ i + 1 <= n /\ i + 1 \in k .. n
      BY <1>1, <2>3
    <3>2. stack[i + 1].node \in S
      BY <3>1
    <3> QED
      BY <1>2, <2>1, <3>1, <3>2
  <2> QED
    BY <2>2, <2>3
<1> QED
  <2> HIDE DEF S
  <2> QED
    BY <1>4, <1>5 DEF Acyclic

\* What is asked of the folders depends on nothing else.
LEMMA SameAnswers ==
    ASSUME input' = input
    PROVE  /\ WellNumbered' <=> WellNumbered
           /\ RefsValid' <=> RefsValid
           /\ Acyclic' <=> Acyclic
<1> USE SameFolders
<1>1. WellNumbered' <=> WellNumbered
  BY DEF WellNumbered, Count
<1>2. RefsValid' <=> RefsValid
  BY DEF RefsValid
<1>3. Acyclic' <=> Acyclic
  BY DEF Acyclic
<1> QED
  BY <1>1, <1>2, <1>3

\* A walk that ends has met every node.
LEMMA LoadedIsRight ==
    ASSUME Inv, Finish
    PROVE  WellNumbered /\ RefsValid /\ Acyclic /\ processed = Nodes
<1>1. /\ unread = {} /\ left = {} /\ walk = <<>> /\ stack = <<>>
      /\ input \in Inputs \cup Repaired
  BY DEF Inv, Types, Finish
<1>2. stash = {} /\ Range(walk) = {}
  BY <1>1, NothingWalked DEF Inv, Stashed
<1>3. processed = Nodes
  BY <1>1, <1>2 DEF Inv, Covered, Followed
<1>4. WellNumbered
  BY <1>1, PlacedIsNumbered DEF Inv, Numbered, WellNumbered
<1>5. RefsValid
  BY <1>1, <1>3 DEF Inv, Followed, RefsValid, Valid, Range
<1>6. Acyclic
  BY <1>1, <1>3 DEF Inv, Rising, Acyclic
<1> QED
  BY <1>3, <1>4, <1>5, <1>6

\* The file that loadApp fails at is out of place.
LEMMA RefusedFile ==
    ASSUME Inv, NEW a \in Apps, ReadAppFails(a)
    PROVE  /\ verdict' \in {"name", "duplicate", "panic"} => ~WellNumbered
           /\ verdict' \in {"name", "duplicate", "panic", "load"}
<1>1. /\ Count(a) \in Nat
      /\ \A i \in 1 .. Count(a) : input.files[a][i] \in Nat \cup {BadName}
  BY Folders DEF Inv, Types
<1>2. BadName \notin Nat
  BY InputsAssumption
<1>3. ASSUME NEW i \in 1 .. Count(a), input.files[a][i] = BadName
      PROVE  ~WellNumbered
  BY <1>1, <1>2, <1>3 DEF WellNumbered
<1>4. ASSUME NEW i \in 1 .. Count(a), Misplaced(a, i), WellNumbered
      PROVE  FALSE
  <2>1. \A k \in 1 .. Count(a) : input.files[a][k] = k
    BY <1>4 DEF WellNumbered
  <2>2. \A j \in 1 .. i - 1 : j \in 1 .. Count(a) /\ j # i
    BY <1>1
  <2> QED
    BY <1>1, <1>4, <2>1, <2>2 DEF Misplaced
<1>5. CASE /\ \E i \in 1 .. Count(a) : input.files[a][i] = BadName
           /\ Stop("name")
  BY <1>3, <1>5 DEF Stop
<1>6. CASE \E i \in 1 .. Count(a) :
                /\ Misplaced(a, i)
                /\ Stop(IF input.files[a][i] \in 1 .. Count(a) THEN "duplicate"
                                                               ELSE "panic")
  BY <1>4, <1>6 DEF Stop
<1>7. CASE Stop("load")
  BY <1>7 DEF Stop
<1> QED
  BY <1>5, <1>6, <1>7 DEF ReadAppFails

\* What setState says of the reference it refuses is so.
LEMMA RefusedDep ==
    ASSUME Inv, RefuseDep
    PROVE  \/ verdict' = "circular" /\ ~Acyclic
           \/ verdict' \in {"invalid", "panic"} /\ ~RefsValid
<1> DEFINE ref == Head(Top.todo)
<1>1. /\ stack # <<>> /\ verdict' = Reading(ref) /\ Reading(ref) # "node"
  BY DEF RefuseDep, Checking, Fail, Stop
<1>2. /\ ref \in Range(Deps(Top.node)) /\ Top.node \in Nodes
      /\ input \in Inputs \cup Repaired
  BY HeadIsDep DEF RefuseDep
<1>3. CASE Reading(ref) = "circular" /\ Target(ref) \in stash
  BY <1>1, <1>2, <1>3, MetAgain, PointsAreTargets
<1>4. CASE Reading(ref) \in {"invalid", "panic"} /\ ~Valid(ref)
  BY <1>1, <1>2, <1>4 DEF RefsValid, Valid, Range
<1> QED
  BY <1>1, <1>2, <1>3, <1>4, ReadingMeans

\* A load is accepted only when the files are numbered without gaps, every
\* reference leads to a node and no nodes depend on each other in a circle, and
\* then every node is processed; an error that names a cause is returned only
\* when the cause is there.
THEOREM VerdictsAreRight == Spec => []VerdictIsRight
<1>1. Init => VerdictIsRight
  BY DEF Init, VerdictIsRight
<1>2. Inv /\ VerdictIsRight /\ [Next]_vars => VerdictIsRight'
  <2> SUFFICES ASSUME Inv, VerdictIsRight, [Next]_vars
               PROVE  VerdictIsRight'
    OBVIOUS
  <2>1. CASE verdict' = "running"
    BY <2>1 DEF VerdictIsRight
  <2>2. ASSUME NEW a \in Apps, ReadAppFails(a)
        PROVE  VerdictIsRight'
    <3>1. input' = input
      BY <2>2 DEF ReadAppFails, Stop
    <3> QED
      BY <2>2, <3>1, RefusedFile, SameAnswers DEF VerdictIsRight
  <2>3. CASE RefuseDep
    <3>1. input' = input
      BY <2>3 DEF RefuseDep, Fail, Stop
    <3> QED
      BY <2>3, <3>1, RefusedDep, SameAnswers DEF VerdictIsRight
  <2>4. CASE RefuseNode
    BY <2>4 DEF RefuseNode, Fail, Stop, VerdictIsRight
  <2>5. CASE Finish
    <3>1. input' = input /\ verdict' = "ok" /\ processed' = processed
      BY <2>5 DEF Finish
    <3> QED
      BY <2>5, <3>1, LoadedIsRight, SameAnswers, SameFolders DEF VerdictIsRight
  <2>6. CASE UNCHANGED vars
    <3>1. input' = input /\ verdict' = verdict /\ processed' = processed
      BY <2>6 DEF vars
    <3> QED
      BY <3>1, SameAnswers, SameFolders DEF VerdictIsRight
  <2> QED
    BY <2>1, <2>2, <2>3, <2>4, <2>5, <2>6
    DEF Next, ReadApp, PickApp, Visit, FollowDep, Checking, ApplyNode, Again
<1> QED
  BY <1>1, <1>2, InvariantHolds, PTL DEF Spec
=============================================================================
