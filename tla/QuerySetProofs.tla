---------------------------- MODULE QuerySetProofs ----------------------------
(***************************************************************************)
(* Proofs about QueryConditions and QuerySet, for every set of             *)
(* conditioners, every table and every call.  The conditioners a caller    *)
(* gives are arbitrarily nested, so that what the engine makes of one      *)
(* follows by induction over how often conditioners were joined.           *)
(***************************************************************************)
EXTENDS QuerySet, NaturalsInduction, WellFoundedInduction, FiniteSetTheorems,
        SequenceTheorems, TLAPS

------------------------------------------------------------------------------
(* Recursion and induction *)

\* A set of numbers that is not empty has a least one.
LEMMA Least ==
    ASSUME NEW T, T \subseteq Nat, T # {}
    PROVE  \E x \in T : \A y \in T : ~(y < x)
<1>1. IsWellFoundedOn(OpToRel(<, Nat), Nat)
  BY NatLessThanWellFounded
<1>2. \E x \in T : \A y \in T : ~(<<y, x>> \in OpToRel(<, Nat))
  BY <1>1, WFMin
<1> QED
  BY <1>2 DEF OpToRel

\* What holds of 0, and of n + 1 when it holds of n, holds of every number.
LEMMA Induction ==
    ASSUME NEW T, 0 \in T, \A n \in Nat : n \in T => n + 1 \in T
    PROVE  Nat \subseteq T
<1> SUFFICES ASSUME Nat \ T # {} PROVE FALSE
  OBVIOUS
<1>1. PICK n \in Nat \ T : \A m \in Nat \ T : ~(m < n)
  BY Least
<1>2. n # 0 /\ n - 1 \in Nat /\ n - 1 < n /\ (n - 1) + 1 = n
  BY <1>1
<1>3. n - 1 \in T
  BY <1>1, <1>2
<1> QED
  BY <1>1, <1>2, <1>3

\* The same over the members of a set that have a rank.
LEMMA RankInduction ==
    ASSUME NEW S, NEW rank \in [S -> Nat], NEW T,
           \A x \in S : (\A y \in S : rank[y] < rank[x] => y \in T) => x \in T
    PROVE  S \subseteq T
<1> DEFINE Bad == {n \in Nat : \E x \in S \ T : rank[x] = n}
<1> SUFFICES ASSUME S \ T # {} PROVE FALSE
  OBVIOUS
<1>1. Bad # {} /\ Bad \subseteq Nat
  OBVIOUS
<1>2. PICK n \in Bad : \A m \in Bad : ~(m < n)
  BY <1>1, Least
<1>3. PICK x \in S \ T : rank[x] = n
  BY <1>2
<1>4. \A y \in S : rank[y] < rank[x] => y \in T
  BY <1>2, <1>3
<1> QED
  BY <1>3, <1>4

\* The ways to give the value of a function at a point from what it is at the
\* points of lower rank.
Steps(S, V, rank) ==
    {step \in [S -> [[S -> V] -> V]] :
        \A x \in S : \A f, g \in [S -> V] :
            (\A y \in S : rank[y] < rank[x] => f[y] = g[y])
                => step[x][f] = step[x][g]}

\* There is a function whose values are given so.
LEMMA Recursion ==
    ASSUME NEW S, NEW V, V # {}, NEW rank \in [S -> Nat],
           NEW step \in Steps(S, V, rank)
    PROVE  \E f \in [S -> V] : \A x \in S : f[x] = step[x][f]
<1>0. /\ step \in [S -> [[S -> V] -> V]]
      /\ \A x \in S : \A f, g \in [S -> V] :
            (\A y \in S : rank[y] < rank[x] => f[y] = g[y])
                => step[x][f] = step[x][g]
  BY DEF Steps
<1> DEFINE Upto(n) == {f \in [S -> V] :
                        \A x \in S : rank[x] < n => f[x] = step[x][f]}
           T == {n \in Nat : Upto(n) # {}}
<1>1. Nat \subseteq T
  <2>1. 0 \in T
    <3>1. PICK v \in V : TRUE
      OBVIOUS
    <3>2. [x \in S |-> v] \in Upto(0)
      OBVIOUS
    <3> QED
      BY <3>2
  <2>2. ASSUME NEW n \in Nat, n \in T PROVE n + 1 \in T
    <3>1. PICK f \in Upto(n) : TRUE
      BY <2>2
    <3> DEFINE g == [x \in S |-> step[x][f]]
    <3>2. f \in [S -> V] /\ g \in [S -> V]
      BY <1>0, <3>1
    <3>3. \A x \in S : rank[x] < n => g[x] = f[x]
      BY <3>1
    <3>4. ASSUME NEW x \in S, rank[x] < n + 1 PROVE g[x] = step[x][g]
      <4>1. \A y \in S : rank[y] < rank[x] => f[y] = g[y]
        BY <3>3, <3>4
      <4>2. step[x][f] = step[x][g]
        BY <1>0, <3>2, <4>1
      <4> QED
        BY <4>2
    <3>5. g \in Upto(n + 1)
      BY <3>2, <3>4
    <3> HIDE DEF Upto
    <3> QED
      BY <3>5
  <2> HIDE DEF T
  <2> QED
    BY <2>1, <2>2, Induction
<1>2. ASSUME NEW n \in Nat, NEW m \in Nat, NEW f \in Upto(n), NEW g \in Upto(m)
      PROVE  \A x \in S : rank[x] < n /\ rank[x] < m => f[x] = g[x]
  <2> DEFINE A == {x \in S : rank[x] < n /\ rank[x] < m => f[x] = g[x]}
  <2>1. ASSUME NEW x \in S, \A y \in S : rank[y] < rank[x] => y \in A
        PROVE  x \in A
    <3> SUFFICES ASSUME rank[x] < n, rank[x] < m PROVE f[x] = g[x]
      OBVIOUS
    <3>1. \A y \in S : rank[y] < rank[x] => f[y] = g[y]
      BY <2>1
    <3>2. step[x][f] = step[x][g]
      BY <1>0, <3>1
    <3> QED
      BY <3>2
  <2>2. S \subseteq A
    <3> HIDE DEF A
    <3> QED
      BY <2>1, RankInduction
  <2> QED
    BY <2>2
<1> DEFINE at(x) == CHOOSE f : f \in Upto(rank[x] + 1)
           F == [x \in S |-> at(x)[x]]
<1>3. \A x \in S : at(x) \in Upto(rank[x] + 1)
  <2> TAKE x \in S
  <2>1. Upto(rank[x] + 1) # {}
    BY <1>1
  <2> QED
    BY <2>1
<1>4. F \in [S -> V]
  BY <1>3
<1>5. ASSUME NEW x \in S PROVE F[x] = step[x][F]
  <2>1. at(x) \in [S -> V] /\ at(x)[x] = step[x][at(x)]
    <3>1. rank[x] \in Nat /\ rank[x] < rank[x] + 1
      OBVIOUS
    <3>2. at(x) \in Upto(rank[x] + 1)
      BY <1>3
    <3> HIDE DEF at
    <3> QED
      BY <3>1, <3>2
  <2>2. ASSUME NEW y \in S, rank[y] < rank[x] PROVE at(x)[y] = F[y]
    <3> HIDE DEF at, Upto
    <3>1. rank[y] + 1 \in Nat /\ rank[x] + 1 \in Nat
          /\ rank[y] < rank[y] + 1 /\ rank[y] < rank[x] + 1
      BY <2>2
    <3>2. at(x)[y] = at(y)[y]
      BY <1>2, <1>3, <3>1
    <3> QED
      BY <3>2
  <2>3. step[x][at(x)] = step[x][F]
    <3> HIDE DEF F, at
    <3> QED
      BY <1>0, <1>4, <2>1, <2>2
  <2> QED
    BY <2>1, <2>3
<1> QED
  BY <1>4, <1>5

------------------------------------------------------------------------------
(* Members in order *)

\* How many members of J come before a number.
Before(J, k) == Cardinality({l \in J : l < k})

\* Numbered by how many come before them, the members of a finite set of
\* numbers take each place once.
LEMMA Places ==
    ASSUME NEW n \in Nat, NEW J \in SUBSET (1 .. n)
    PROVE  /\ Cardinality(J) \in Nat
           /\ \A k \in J : Before(J, k) \in 0 .. Cardinality(J) - 1
           /\ \A k, l \in J : Before(J, k) = Before(J, l) => k = l
           /\ \A i \in 1 .. Cardinality(J) : \E k \in J : Before(J, k) = i - 1
<1> DEFINE m == Cardinality(J)
           under(k) == {l \in J : l < k}
<1>1. IsFiniteSet(J) /\ m \in Nat
  <2>1. IsFiniteSet(1 .. n)
    BY FS_Interval
  <2>2. IsFiniteSet(J)
    BY <2>1, FS_Subset
  <2> QED
    BY <2>2, FS_CardinalityType
<1>2. \A k : IsFiniteSet(under(k)) /\ Cardinality(under(k)) \in Nat
  <2> TAKE k
  <2>1. under(k) \in SUBSET J
    OBVIOUS
  <2> QED
    BY <1>1, <2>1, FS_Subset, FS_CardinalityType
<1>3. \A k \in J : Cardinality(under(k)) < m
  <2> TAKE k \in J
  <2>1. under(k) \in SUBSET J /\ under(k) # J
    OBVIOUS
  <2>2. Cardinality(under(k)) <= m /\ Cardinality(under(k)) # m
    BY <1>1, <2>1, FS_Subset
  <2> QED
    BY <1>1, <1>2, <2>2
<1>4. \A k, l \in J : k < l => Cardinality(under(k)) < Cardinality(under(l))
  <2> SUFFICES ASSUME NEW k \in J, NEW l \in J, k < l
               PROVE  Cardinality(under(k)) < Cardinality(under(l))
    OBVIOUS
  <2>1. under(k) \in SUBSET under(l) /\ k \in under(l) /\ k \notin under(k)
    <3>1. \A j \in J : j \in Nat
      OBVIOUS
    <3>2. \A j \in J : j < k => j < l
      BY <3>1
    <3>3. ~(k < k)
      BY <3>1
    <3> QED
      BY <3>2, <3>3
  <2>2. /\ Cardinality(under(k)) <= Cardinality(under(l))
        /\ Cardinality(under(l)) # Cardinality(under(k))
    BY <1>2, <2>1, FS_Subset
  <2> QED
    BY <1>2, <2>2
<1> DEFINE r == [k \in J |-> Cardinality(under(k))]
<1>5. r \in [J -> 0 .. m - 1]
  BY <1>1, <1>2, <1>3
<1>6. \A k, l \in J : r[k] = r[l] => k = l
  <2> SUFFICES ASSUME NEW k \in J, NEW l \in J, r[k] = r[l] PROVE k = l
    OBVIOUS
  <2>1. k \in Nat /\ l \in Nat /\ ~(r[k] < r[l]) /\ ~(r[l] < r[k])
    BY <1>5
  <2>2. ~(k < l) /\ ~(l < k)
    BY <1>4, <2>1
  <2> QED
    BY <2>1, <2>2
<1>7. r \in Injection(J, 0 .. m - 1)
  <2> HIDE DEF r
  <2> QED
    BY <1>5, <1>6 DEF Injection, IsInjective
<1>8. IsFiniteSet(0 .. m - 1) /\ Cardinality(0 .. m - 1) = m
  BY <1>1, FS_Interval
<1>9. r \in Surjection(J, 0 .. m - 1)
  BY <1>7, <1>8, FS_Injection
<1>10. \A i \in 1 .. m : \E k \in J : r[k] = i - 1
  <2> TAKE i \in 1 .. m
  <2>1. i - 1 \in 0 .. m - 1
    BY <1>1
  <2> HIDE DEF r
  <2> QED
    BY <1>9, <2>1 DEF Surjection
<1>11. \A k \in J : r[k] = Before(J, k)
  BY DEF Before
<1> HIDE DEF r, under
<1> QED
  BY <1>1, <1>5, <1>6, <1>10, <1>11

\* InOrder lists the members of J, each at its place.
LEMMA InOrderLists ==
    ASSUME NEW n \in Nat, NEW J \in SUBSET (1 .. n)
    PROVE  /\ InOrder(J) \in Seq(J)
           /\ Len(InOrder(J)) = Cardinality(J) /\ Cardinality(J) \in Nat
           /\ DOMAIN InOrder(J) = 1 .. Cardinality(J)
           /\ \A i \in 1 .. Cardinality(J) : Before(J, InOrder(J)[i]) = i - 1
           /\ \A k \in J : /\ Before(J, k) + 1 \in 1 .. Cardinality(J)
                           /\ InOrder(J)[Before(J, k) + 1] = k
<1> DEFINE m == Cardinality(J)
<1>1. m \in Nat
  BY Places
<1>2. \A i \in 1 .. m : InOrder(J)[i] \in J /\ Before(J, InOrder(J)[i]) = i - 1
  <2> TAKE i \in 1 .. m
  <2>1. \E k \in J : Before(J, k) = i - 1
    BY Places
  <2>2. InOrder(J)[i] = CHOOSE k \in J : Before(J, k) = i - 1
    BY DEF InOrder, Before
  <2> QED
    BY <2>1, <2>2
<1>3. InOrder(J) \in [1 .. m -> J]
  <2> DEFINE e(i) == CHOOSE j \in J : Cardinality({l \in J : l < j}) = i - 1
  <2>1. InOrder(J) = [i \in 1 .. m |-> e(i)]
    BY DEF InOrder
  <2> HIDE DEF e
  <2>2. \A i \in 1 .. m : e(i) \in J
    BY <1>2, <2>1
  <2> QED
    BY <2>1, <2>2
<1>4. InOrder(J) \in Seq(J) /\ Len(InOrder(J)) = m /\ DOMAIN InOrder(J) = 1 .. m
  BY <1>1, <1>3
<1>5. ASSUME NEW k \in J
      PROVE  Before(J, k) + 1 \in 1 .. m /\ InOrder(J)[Before(J, k) + 1] = k
  <2> DEFINE i == Before(J, k) + 1
  <2>1. i \in 1 .. m /\ i - 1 = Before(J, k)
    <3>1. Before(J, k) \in 0 .. m - 1
      BY Places
    <3> HIDE DEF m
    <3> QED
      BY <1>1, <3>1
  <2>2. InOrder(J)[i] \in J /\ Before(J, InOrder(J)[i]) = Before(J, k)
    BY <1>2, <2>1
  <2> HIDE DEF i
  <2>3. InOrder(J)[i] = k
    BY <2>2, Places
  <2> QED
    BY <2>1, <2>3 DEF i
<1> QED
  BY <1>1, <1>2, <1>4, <1>5

------------------------------------------------------------------------------
(* What is defined over the conditioners *)

\* A conditioner is a Q, or joins two of lower depth.
LEMMA Cases ==
    ASSUME NEW c \in Conditioners
    PROVE  \/ /\ c.kind = "q" /\ c = Q(c.conds)
              /\ c.conds \in Seq(Conditions)
           \/ /\ c.kind # "q" /\ c = Chain(c.root, c.next, c.or, c.not)
              /\ c.or \in BOOLEAN /\ c.not \in BOOLEAN
              /\ c.root \in Conditioners /\ c.next \in Conditioners
              /\ Depth[c.root] < Depth[c] /\ Depth[c.next] < Depth[c]
BY ConditionersAssumption

\* Mistaken is what its definition says.
LEMMA MistakenIs ==
    /\ Mistaken \in [Conditioners -> BOOLEAN]
    /\ \A c \in Conditioners :
        Mistaken[c] <=> IF c.kind = "q"
                        THEN \E k \in DOMAIN c.conds : Mistake(c.conds[k])
                        ELSE Mistaken[c.root] \/ Mistaken[c.next]
<1> DEFINE body(f, c) ==
             IF c.kind = "q" THEN \E k \in DOMAIN c.conds : Mistake(c.conds[k])
             ELSE f[c.root] \/ f[c.next]
           V == BOOLEAN
           step == [c \in Conditioners |-> [f \in [Conditioners -> V] |-> body(f, c)]]
<1>1. \E f \in [Conditioners -> V] : \A c \in Conditioners : f[c] = step[c][f]
  <2>1. step \in Steps(Conditioners, V, Depth)
    BY Cases DEF Steps
  <2>2. Depth \in [Conditioners -> Nat] /\ V # {}
    BY ConditionersAssumption
  <2> HIDE DEF step, V
  <2> QED
    BY <2>1, <2>2, Recursion
<1>2. PICK f \in [Conditioners -> V] : f = [c \in Conditioners |-> body(f, c)]
  BY <1>1
<1>3. Mistaken = CHOOSE g : g = [c \in Conditioners |-> body(g, c)]
  BY DEF Mistaken
<1>4. Mistaken = [c \in Conditioners |-> body(Mistaken, c)]
  BY <1>2, <1>3
<1> QED
  BY <1>4

\* The operators of the logic give one of its values.
LEMMA ThreeValues ==
    /\ \A x : Not3(x) \in Truths
    /\ \A xs : All3(xs) \in Truths
    /\ \A isOr, x, y : Join3(isOr, x, y) \in Truths
    /\ \A b : Truth(b) \in Truths
    /\ \A x, op, y : Holds(x, op, y) \in Truths
    /\ \A q, row : Says(q, row) \in Truths
BY DEF Truths, Not3, All3, And3, Or3, Join3, Truth, Holds, Says

\* Meaning is what its definition says.
LEMMA MeaningIs ==
    /\ Meaning \in [Conditioners -> [Rows -> Truths]]
    /\ \A c \in Conditioners : \A row \in Rows :
        Meaning[c][row] =
            IF c.kind = "q"
            THEN All3({Says(c.conds[k], row) : k \in DOMAIN c.conds})
            ELSE Join3(c.or, Meaning[c.root][row],
                       NotIf(c.not, Meaning[c.next][row]))
<1> DEFINE value(f, c, row) ==
             IF c.kind = "q"
             THEN All3({Says(c.conds[k], row) : k \in DOMAIN c.conds})
             ELSE Join3(c.or, f[c.root][row],
                        NotIf(c.not, f[c.next][row]))
           V == [Rows -> Truths]
           body(f, c) == [row \in Rows |-> value(f, c, row)]
           step == [c \in Conditioners |-> [f \in [Conditioners -> V] |-> body(f, c)]]
<1>0. \A f, c, row : value(f, c, row) \in Truths
  BY ThreeValues
<1>1. \E f \in [Conditioners -> V] : \A c \in Conditioners : f[c] = step[c][f]
  <2>1. step \in Steps(Conditioners, V, Depth)
    <3>1. \A f, c : body(f, c) \in V
      BY <1>0
    <3>2. step \in [Conditioners -> [[Conditioners -> V] -> V]]
      <4> HIDE DEF body, V
      <4> QED
        BY <3>1
    <3>3. ASSUME NEW c \in Conditioners, NEW f, NEW g,
                 \A d \in Conditioners : Depth[d] < Depth[c] => f[d] = g[d]
          PROVE  body(f, c) = body(g, c)
      <4>1. \A row : value(f, c, row) = value(g, c, row)
        BY <3>3, Cases
      <4> HIDE DEF value
      <4> QED
        BY <4>1
    <3>4. \A c \in Conditioners : \A f \in [Conditioners -> V] :
            step[c][f] = body(f, c)
      OBVIOUS
    <3> HIDE DEF step, body, V
    <3>5. ASSUME NEW c \in Conditioners, NEW f \in [Conditioners -> V],
                 NEW g \in [Conditioners -> V],
                 \A d \in Conditioners : Depth[d] < Depth[c] => f[d] = g[d]
          PROVE  step[c][f] = step[c][g]
      BY <3>3, <3>4, <3>5
    <3> QED
      BY <3>2, <3>5 DEF Steps
  <2>2. Depth \in [Conditioners -> Nat] /\ V # {}
    <3>1. [row \in Rows |-> "true"] \in V
      BY DEF Truths
    <3> QED
      BY <3>1, ConditionersAssumption
  <2> HIDE DEF step, V
  <2> QED
    BY <2>1, <2>2, Recursion
<1>2. PICK f \in [Conditioners -> V] : f = [c \in Conditioners |-> body(f, c)]
  <2>1. PICK f \in [Conditioners -> V] : \A c \in Conditioners : f[c] = step[c][f]
    BY <1>1
  <2>2. \A c \in Conditioners : f[c] = body(f, c)
    BY <2>1
  <2> HIDE DEF body
  <2> QED
    BY <2>2
<1>3. Meaning = CHOOSE g : g = [c \in Conditioners |-> body(g, c)]
  BY DEF Meaning
<1>4. Meaning = [c \in Conditioners |-> body(Meaning, c)]
  <2> HIDE DEF body
  <2> QED
    BY <1>2, <1>3
<1>5. \A c \in Conditioners : Meaning[c] = body(Meaning, c)
  <2> HIDE DEF body
  <2> QED
    BY <1>4
<1>6. \A c \in Conditioners : Meaning[c] \in V
  <2>1. \A g, c : body(g, c) \in V
    <3> HIDE DEF value
    <3> QED
      BY <1>0
  <2> HIDE DEF body, V
  <2> QED
    BY <1>5, <2>1
<1>7. Meaning \in [Conditioners -> V]
  <2> HIDE DEF body, V
  <2> QED
    BY <1>4, <1>6
<1> QED
  BY <1>5, <1>7

------------------------------------------------------------------------------
(* Texts and what the engine answers *)

Readings == [Seq(Values) -> [Rows -> Truths]]
Texts == [empty : BOOLEAN, readable : BOOLEAN, holes : Seq(Nat), says : Readings]
Results == [ok : BOOLEAN, stmt : Texts, args : Seq(Values)]

\* A text of its parts.
LEMMA TextIs ==
    ASSUME NEW readable \in BOOLEAN, NEW holes \in Seq(Nat), NEW says \in Readings
    PROVE  /\ Text(readable, holes, says) \in Texts
           /\ ~Text(readable, holes, says).empty
           /\ Text(readable, holes, says).holes = holes
           /\ Text(readable, holes, says).says = says
BY DEF Text, Texts

\* The empty text, and the answer that goes with an error.
LEMMA NoneIs ==
    /\ None \in Texts /\ None.empty /\ ~None.readable /\ None.holes = <<>>
    /\ Refused \in Results /\ ~Refused.ok /\ Refused.stmt = None
    /\ Refused.args = <<>>
<1> DEFINE says == [args \in Seq(Values) |-> [row \in Rows |-> "unknown"]]
<1>1. says \in Readings
  BY DEF Readings, Truths
<1>2. None = [empty |-> TRUE, readable |-> FALSE, holes |-> <<>>, says |-> says]
  BY DEF None
<1> HIDE DEF says
<1>3. None \in Texts /\ None.empty /\ ~None.readable /\ None.holes = <<>>
  BY <1>1, <1>2 DEF Texts
<1> HIDE DEF None
<1> QED
  BY <1>3 DEF Refused, Results

\* A comparison has its placeholder and compares with the value at its index.
LEMMA CompareIs ==
    ASSUME NEW name, NEW op, NEW index \in Nat
    PROVE  /\ Compare(name, op, index) \in Texts
           /\ Compare(name, op, index).holes = <<index>>
           /\ \A args \in Seq(Values) : \A row \in Rows :
                Compare(name, op, index).says[args][row] =
                    Holds(row[name], op, args[index])
<1> DEFINE says == [args \in Seq(Values) |->
                      [row \in Rows |-> Holds(row[name], op, args[index])]]
<1>1. says \in Readings
  BY ThreeValues DEF Readings
<1> DEFINE yes == TRUE
<1>2. Compare(name, op, index) = Text(yes, <<index>>, says)
  BY DEF Compare
<1>3. \A args \in Seq(Values) : \A row \in Rows :
        says[args][row] = Holds(row[name], op, args[index])
  OBVIOUS
<1>4. <<index>> \in Seq(Nat) /\ yes \in BOOLEAN
  OBVIOUS
<1> HIDE DEF says, yes
<1>5. LET t == Text(yes, <<index>>, says)
      IN  t \in Texts /\ t.holes = <<index>> /\ t.says = says
  BY <1>1, <1>4, TextIs
<1> QED
  BY <1>2, <1>3, <1>5

\* IS NULL has no placeholder.
LEMMA IsNullIs ==
    ASSUME NEW name
    PROVE  /\ IsNull(name) \in Texts
           /\ IsNull(name).holes = <<>>
           /\ \A args \in Seq(Values) : \A row \in Rows :
                IsNull(name).says[args][row] = Truth(row[name] = Null)
<1> DEFINE says == [args \in Seq(Values) |->
                      [row \in Rows |-> Truth(row[name] = Null)]]
<1>1. says \in Readings
  BY ThreeValues DEF Readings
<1> DEFINE yes == TRUE
<1>2. IsNull(name) = Text(yes, <<>>, says)
  BY DEF IsNull
<1>3. \A args \in Seq(Values) : \A row \in Rows :
        says[args][row] = Truth(row[name] = Null)
  OBVIOUS
<1>4. <<>> \in Seq(Nat) /\ yes \in BOOLEAN
  OBVIOUS
<1> HIDE DEF says, yes
<1>5. LET t == Text(yes, <<>>, says)
      IN  t \in Texts /\ t.holes = <<>> /\ t.says = says
  BY <1>1, <1>4, TextIs
<1> QED
  BY <1>2, <1>3, <1>5

\* A negation keeps the placeholders and turns what is said around.
LEMMA NotIs ==
    ASSUME NEW stmt \in Texts
    PROVE  /\ Not(stmt) \in Texts /\ ~Not(stmt).empty
           /\ Not(stmt).readable = stmt.readable
           /\ Not(stmt).holes = stmt.holes
           /\ \A args \in Seq(Values) : \A row \in Rows :
                Not(stmt).says[args][row] = Not3(stmt.says[args][row])
<1> DEFINE says == [args \in Seq(Values) |->
                      [row \in Rows |-> Not3(stmt.says[args][row])]]
<1>1. says \in Readings
  BY ThreeValues DEF Readings
<1>2. Not(stmt) = Text(stmt.readable, stmt.holes, says)
  BY DEF Not
<1>3. \A args \in Seq(Values) : \A row \in Rows :
        says[args][row] = Not3(stmt.says[args][row])
  OBVIOUS
<1>4. stmt.readable \in BOOLEAN /\ stmt.holes \in Seq(Nat)
  BY DEF Texts
<1> DEFINE holes == stmt.holes
           readable == stmt.readable
<1>5. Text(readable, holes, says).readable = readable
  BY DEF Text
<1> HIDE DEF says, holes, readable
<1>6. LET t == Text(readable, holes, says)
      IN  t \in Texts /\ ~t.empty /\ t.holes = holes /\ t.says = says
  BY <1>1, <1>4, TextIs DEF holes, readable
<1> QED
  BY <1>2, <1>3, <1>5, <1>6 DEF holes, readable

\* What a text says if it joins what two texts say.
SaysBoth(stmt, left, isOr, isNot, right) ==
    \A args \in Seq(Values) : \A row \in Rows :
        stmt.says[args][row] = Join3(isOr, left.says[args][row],
                                     NotIf(isNot, right.says[args][row]))

\* What there is to a text that joins two.
Joins(stmt, left, isOr, isNot, right) ==
    /\ stmt \in Texts /\ ~stmt.empty
    /\ stmt.readable = (left.readable /\ right.readable)
    /\ stmt.holes = left.holes \o right.holes
    /\ SaysBoth(stmt, left, isOr, isNot, right)

\* A joined text has the placeholders of both operands, in their order.
LEMMA JoinIs ==
    ASSUME NEW left \in Texts, NEW right \in Texts, NEW isOr, NEW isNot
    PROVE  Joins(Join(left, isOr, isNot, right), left, isOr, isNot, right)
<1> DEFINE last == IF isNot THEN Not(right) ELSE right
           says == [args \in Seq(Values) |-> [row \in Rows |->
                      Join3(isOr, left.says[args][row], last.says[args][row])]]
<1>1. says \in Readings
  <2> HIDE DEF last
  <2> QED
    BY ThreeValues DEF Readings
<1> DEFINE readable == left.readable /\ last.readable
           holes == left.holes \o last.holes
<1>2. Join(left, isOr, isNot, right) = Text(readable, holes, says)
  BY DEF Join
<1>3. /\ last \in Texts /\ last.readable = right.readable
      /\ last.holes = right.holes
      /\ \A args \in Seq(Values) : \A row \in Rows :
            last.says[args][row] = NotIf(isNot, right.says[args][row])
  BY NotIs DEF NotIf
<1> HIDE DEF last
<1>4. \A args \in Seq(Values) : \A row \in Rows :
        says[args][row] = Join3(isOr, left.says[args][row],
                                NotIf(isNot, right.says[args][row]))
  BY <1>3
<1>5. readable \in BOOLEAN
  OBVIOUS
<1>6. readable = (left.readable /\ right.readable)
  BY <1>3
<1>7. holes \in Seq(Nat)
  BY <1>3 DEF Texts
<1>8. holes = left.holes \o right.holes
  BY <1>3
<1> HIDE DEF says, readable, holes
<1>9. LET t == Text(readable, holes, says)
      IN  t \in Texts /\ ~t.empty /\ t.holes = holes /\ t.says = says
  BY <1>1, <1>5, <1>7, TextIs
<1>10. Text(readable, holes, says).readable = readable
  BY DEF Text
<1>11. SaysBoth(Text(readable, holes, says), left, isOr, isNot, right)
  BY <1>4, <1>9 DEF SaysBoth
<1> QED
  BY <1>2, <1>6, <1>9, <1>10, <1>11, <1>8 DEF Joins

\* A function from the first m numbers is a sequence of length m.
LEMMA SequenceOf ==
    ASSUME NEW m \in Nat, NEW V, NEW f \in [1 .. m -> V]
    PROVE  f \in Seq(V) /\ Len(f) = m /\ DOMAIN f = 1 .. m
OBVIOUS

\* A list of values has those of an answer at the places that start at p.
Fits(all, p, args) ==
    all \in Seq(Values) /\ \A j \in 1 .. Len(args) : all[p - 1 + j] = args[j]

\* The placeholders that start at p, one for each value.
Numbered(p, args) == [j \in 1 .. Len(args) |-> p - 1 + j]

\* The answer for a Q without mistakes has its values in the order of their
\* placeholders, and says all its conditions.
LEMMA SimpleIs ==
    ASSUME NEW conds \in Seq(Conditions), NEW p \in Nat,
           \A k \in DOMAIN conds : ~Mistake(conds[k])
    PROVE  LET r == Simple(conds, p)
           IN  /\ r \in Results /\ r.ok
               /\ r.stmt.holes = Numbered(p, r.args)
               /\ conds = <<>> => r.stmt = None /\ r.args = <<>>
               /\ conds # <<>> =>
                    /\ ~r.stmt.empty /\ r.stmt.readable
                    /\ \A all : Fits(all, p, r.args) => \A row \in Rows :
                        r.stmt.says[all][row] =
                            All3({Says(conds[k], row) : k \in DOMAIN conds})
<1> DEFINE n == Len(conds)
           J == {k \in DOMAIN conds : ~Unary(conds[k])}
           at == InOrder(J)
           list == [k \in DOMAIN conds |->
                      IF Unary(conds[k]) THEN IsNull(conds[k].name)
                      ELSE Compare(conds[k].name, conds[k].op, p + Before(J, k))]
           args == [i \in DOMAIN at |-> conds[at[i]].value]
           holes == [i \in DOMAIN at |-> list[at[i]].holes[1]]
           says == [all \in Seq(Values) |-> [row \in Rows |->
                      All3({list[k].says[all][row] : k \in DOMAIN list})]]
           r == [ok |-> TRUE, stmt |-> Conj(list), args |-> args]
<1>1. Simple(conds, p) = r
  BY DEF Simple, Before
<1>2. n \in Nat /\ DOMAIN conds = 1 .. n /\ J \in SUBSET (1 .. n)
      /\ \A k \in 1 .. n : conds[k] \in Conditions
  BY LenProperties
<1>3. /\ at \in Seq(J) /\ Cardinality(J) \in Nat
      /\ DOMAIN at = 1 .. Cardinality(J) /\ Len(at) = Cardinality(J)
      /\ \A i \in 1 .. Cardinality(J) : at[i] \in J /\ Before(J, at[i]) = i - 1
      /\ \A k \in J : Before(J, k) + 1 \in 1 .. Cardinality(J)
                      /\ at[Before(J, k) + 1] = k
  <2> HIDE DEF n, J
  <2>1. /\ at \in Seq(J) /\ Cardinality(J) \in Nat
        /\ DOMAIN at = 1 .. Cardinality(J) /\ Len(at) = Cardinality(J)
        /\ \A i \in 1 .. Cardinality(J) : Before(J, at[i]) = i - 1
        /\ \A k \in J : Before(J, k) + 1 \in 1 .. Cardinality(J)
                        /\ at[Before(J, k) + 1] = k
    BY <1>2, InOrderLists
  <2> HIDE DEF at
  <2> QED
    BY <2>1
<1> HIDE DEF at
<1>4. \A k \in J : Before(J, k) \in Nat /\ p + Before(J, k) \in Nat
  <2> TAKE k \in J
  <2>1. Before(J, k) \in 0 .. Cardinality(J) - 1
    <3> HIDE DEF n, J
    <3> QED
      BY <1>2, Places
  <2> QED
    BY <2>1, <1>3
<1>5. ASSUME NEW k \in 1 .. n
      PROVE  /\ list[k] \in Texts
             /\ k \in J <=> list[k].holes # <<>>
             /\ k \in J => list[k].holes = <<p + Before(J, k)>>
             /\ \A all \in Seq(Values) : \A row \in Rows :
                  list[k].says[all][row] =
                    IF k \in J THEN Holds(row[conds[k].name], conds[k].op,
                                          all[p + Before(J, k)])
                    ELSE Truth(row[conds[k].name] = Null)
  <2>1. CASE k \in J
    <3> DEFINE index == p + Before(J, k)
    <3>1. list[k] = Compare(conds[k].name, conds[k].op, index)
      BY <1>2, <2>1
    <3>2. index \in Nat
      BY <1>4, <2>1
    <3> HIDE DEF list, J, index
    <3>3. /\ list[k] \in Texts /\ list[k].holes = <<index>>
          /\ \A all \in Seq(Values) : \A row \in Rows :
                list[k].says[all][row] =
                    Holds(row[conds[k].name], conds[k].op, all[index])
      BY <3>1, <3>2, CompareIs
    <3>4. <<index>> # <<>>
      OBVIOUS
    <3> QED
      BY <2>1, <3>3, <3>4 DEF index
  <2>2. CASE k \notin J
    <3>1. list[k] = IsNull(conds[k].name)
      BY <1>2, <2>2
    <3> HIDE DEF list, J
    <3> QED
      BY <2>2, <3>1, IsNullIs
  <2> QED
    BY <2>1, <2>2
<1>6. args \in Seq(Values) /\ Len(args) = Cardinality(J)
      /\ \A k \in J : args[Before(J, k) + 1] = conds[k].value
  <2>1. \A i \in 1 .. Cardinality(J) : conds[at[i]].value \in Values
    BY <1>2, <1>3, QueryAssumption
  <2> HIDE DEF J
  <2>2. args = [i \in 1 .. Cardinality(J) |-> conds[at[i]].value]
    BY <1>3
  <2>3. args \in [1 .. Cardinality(J) -> Values]
    BY <2>1, <2>2
  <2>4. args \in Seq(Values) /\ Len(args) = Cardinality(J)
    <3> HIDE DEF args
    <3> QED
      BY <1>3, <2>3, SequenceOf
  <2> QED
    BY <1>3, <2>2, <2>4
<1>7. holes = Numbered(p, args) /\ holes \in Seq(Nat)
  <2>1. \A i \in 1 .. Cardinality(J) :
          list[at[i]].holes[1] = p - 1 + i /\ p - 1 + i \in Nat
    <3> TAKE i \in 1 .. Cardinality(J)
    <3>1. at[i] \in J /\ at[i] \in 1 .. n /\ Before(J, at[i]) = i - 1
      BY <1>2, <1>3
    <3>2. list[at[i]].holes = <<p + (i - 1)>> /\ p + (i - 1) = p - 1 + i
      <4> HIDE DEF list, J, n
      <4> QED
        BY <1>3, <1>5, <3>1
    <3>3. p - 1 + i \in Nat
      BY <1>3
    <3> HIDE DEF list
    <3> QED
      BY <3>2, <3>3
  <2> HIDE DEF list, J, args
  <2>2. holes = [i \in 1 .. Cardinality(J) |-> p - 1 + i]
    BY <1>3, <2>1
  <2>3. holes = Numbered(p, args)
    BY <1>6, <2>2 DEF Numbered
  <2>4. holes \in [1 .. Cardinality(J) -> Nat]
    BY <2>1, <2>2
  <2> HIDE DEF holes
  <2> QED
    BY <1>3, <2>3, <2>4, SequenceOf
<1>8. CASE conds = <<>>
  <2>1. J = {} /\ list = <<>>
    BY <1>8
  <2>2. Conj(list) = None
    BY <2>1 DEF Conj
  <2>3. Cardinality(J) = 0
    BY <2>1, FS_EmptySet
  <2> HIDE DEF list, J, args
  <2>4. args = <<>>
    BY <1>6, <2>3
  <2>5. None.holes = Numbered(p, args)
    BY <2>4, NoneIs DEF Numbered
  <2> QED
    BY <1>1, <1>6, <1>8, <2>2, <2>4, <2>5, NoneIs DEF Results
<1>9. CASE conds # <<>>
  <2>1. list # <<>> /\ DOMAIN list = 1 .. n
    BY <1>2, <1>9
  <2>2. {k \in DOMAIN list : list[k].holes # <<>>} = J
    <3> HIDE DEF list
    <3> QED
      BY <1>2, <1>5, <2>1
  <2> DEFINE yes == TRUE
  <2>3. Conj(list) = Text(yes, holes, says)
    <3> HIDE DEF list, J
    <3> QED
      BY <2>1, <2>2 DEF Conj, at
  <2>4. says \in Readings
    <3> HIDE DEF list
    <3> QED
      BY ThreeValues DEF Readings
  <2>5. \A all : Fits(all, p, args) => \A row \in Rows :
            says[all][row] = All3({Says(conds[k], row) : k \in DOMAIN conds})
    <3> SUFFICES ASSUME NEW all, Fits(all, p, args), NEW row \in Rows
                 PROVE  says[all][row] =
                            All3({Says(conds[k], row) : k \in DOMAIN conds})
      OBVIOUS
    <3>1. all \in Seq(Values)
      BY DEF Fits
    <3>2. \A k \in J : all[p + Before(J, k)] = conds[k].value
      <4> TAKE k \in J
      <4>1. Before(J, k) + 1 \in 1 .. Len(args)
            /\ p - 1 + (Before(J, k) + 1) = p + Before(J, k)
        BY <1>3, <1>4, <1>6
      <4>2. all[p - 1 + (Before(J, k) + 1)] = args[Before(J, k) + 1]
        <5> HIDE DEF args, J
        <5> QED
          BY <4>1 DEF Fits
      <4> QED
        BY <1>6, <4>1, <4>2
    <3>3. \A k \in 1 .. n : list[k].says[all][row] = Says(conds[k], row)
      <4> TAKE k \in 1 .. n
      <4>1. CASE k \in J
        BY <1>5, <3>1, <3>2, <4>1 DEF Says
      <4>2. CASE k \notin J
        BY <1>2, <1>5, <3>1, <4>2 DEF Says
      <4> QED
        BY <4>1, <4>2
    <3>4. says[all][row] = All3({list[k].says[all][row] : k \in DOMAIN list})
      <4> HIDE DEF list
      <4> QED
        BY <3>1
    <3> HIDE DEF list, says
    <3>5. {list[k].says[all][row] : k \in DOMAIN list}
            = {Says(conds[k], row) : k \in DOMAIN conds}
      BY <1>2, <2>1, <3>3
    <3> QED
      BY <3>4, <3>5
  <2>6. yes \in BOOLEAN
    OBVIOUS
  <2> HIDE DEF list, says, holes, args, J, yes
  <2>7. LET t == Text(yes, holes, says)
        IN  t \in Texts /\ ~t.empty /\ t.holes = holes /\ t.says = says
    BY <1>7, <2>4, <2>6, TextIs
  <2>8. Text(yes, holes, says).readable
    BY DEF Text, yes
  <2>9. /\ Conj(list) \in Texts /\ ~Conj(list).empty /\ Conj(list).readable
        /\ Conj(list).holes = holes /\ Conj(list).says = says
    BY <2>3, <2>7, <2>8
  <2>10. /\ r \in Results /\ r.ok /\ r.args = args /\ r.stmt = Conj(list)
    BY <1>6, <2>9 DEF Results
  <2> HIDE DEF r
  <2> QED
    BY <1>1, <1>7, <1>9, <2>5, <2>9, <2>10
<1> QED
  BY <1>8, <1>9

\* A mistake in a Q is an error.
LEMMA SimpleMistaken ==
    ASSUME NEW conds, NEW p, NEW k \in DOMAIN conds, Mistake(conds[k])
    PROVE  Simple(conds, p) = Refused
BY DEF Simple

\* What is joined of two answers is an answer.
LEMMA JoinedType ==
    ASSUME NEW c, c.or \in BOOLEAN, c.not \in BOOLEAN,
           NEW first \in Results, NEW next \in Results
    PROVE  Joined(c, first, next) \in Results
<1>1. /\ first.stmt \in Texts /\ next.stmt \in Texts
      /\ first.args \o next.args \in Seq(Values)
  BY DEF Results
<1>2. Not(next.stmt) \in Texts /\ Join(first.stmt, c.or, c.not, next.stmt) \in Texts
  BY <1>1, NotIs, JoinIs DEF Joins
<1>3. \A stmt \in Texts :
        [ok |-> TRUE, stmt |-> stmt, args |-> first.args \o next.args] \in Results
  BY <1>1 DEF Results
<1>4. CASE ~first.ok \/ (~first.stmt.empty /\ ~next.ok)
  BY <1>4, NoneIs DEF Joined
<1>5. CASE first.ok /\ first.stmt.empty
  BY <1>1, <1>2, <1>3, <1>5 DEF Joined
<1>6. CASE first.ok /\ ~first.stmt.empty /\ next.ok
  BY <1>1, <1>2, <1>3, <1>6 DEF Joined
<1> QED
  BY <1>4, <1>5, <1>6

\* The answer for a Q, with mistakes or without.
LEMMA SimpleType ==
    ASSUME NEW conds \in Seq(Conditions), NEW p \in Nat
    PROVE  Simple(conds, p) \in Results
<1>1. CASE \E k \in DOMAIN conds : Mistake(conds[k])
  BY <1>1, SimpleMistaken, NoneIs
<1>2. CASE \A k \in DOMAIN conds : ~Mistake(conds[k])
  BY <1>2, SimpleIs
<1> QED
  BY <1>1, <1>2

\* Predicate is what its definition says.
LEMMA PredicateIs ==
    /\ Predicate \in [Conditioners -> [Nat -> Results]]
    /\ \A c \in Conditioners : \A p \in Nat :
        Predicate[c][p] =
            IF c.kind = "q" THEN Simple(c.conds, p)
            ELSE Joined(c, Predicate[c.root][p],
                        Predicate[c.next][p + Len(Predicate[c.root][p].args)])
<1> DEFINE value(f, c, p) ==
             IF c.kind = "q" THEN Simple(c.conds, p)
             ELSE Joined(c, f[c.root][p], f[c.next][p + Len(f[c.root][p].args)])
           V == [Nat -> Results]
           body(f, c) == [p \in Nat |-> value(f, c, p)]
           step == [c \in Conditioners |-> [f \in [Conditioners -> V] |-> body(f, c)]]
<1>1. ASSUME NEW c \in Conditioners, NEW f, NEW g,
             \A d \in Conditioners : Depth[d] < Depth[c] => f[d] = g[d]
      PROVE  body(f, c) = body(g, c)
  <2>1. \A p : value(f, c, p) = value(g, c, p)
    BY <1>1, Cases
  <2> HIDE DEF value
  <2> QED
    BY <2>1
<1>2. ASSUME NEW c \in Conditioners, NEW f,
             \A d \in Conditioners : Depth[d] < Depth[c] => f[d] \in V
      PROVE  body(f, c) \in V
  <2>1. ASSUME NEW p \in Nat PROVE value(f, c, p) \in Results
    <3>1. CASE c.kind = "q"
      BY <3>1, Cases, SimpleType
    <3>2. CASE c.kind # "q"
      <4>1. /\ c.or \in BOOLEAN /\ c.not \in BOOLEAN
            /\ f[c.root] \in V /\ f[c.next] \in V
        BY <1>2, <3>2, Cases
      <4>2. f[c.root][p] \in Results /\ Len(f[c.root][p].args) \in Nat
        <5>1. f[c.root][p] \in Results
          BY <4>1
        <5>2. f[c.root][p].args \in Seq(Values)
          BY <5>1 DEF Results
        <5> QED
          BY <5>1, <5>2
      <4>3. f[c.next][p + Len(f[c.root][p].args)] \in Results
        BY <4>1, <4>2
      <4> QED
        BY <3>2, <4>1, <4>2, <4>3, JoinedType
    <3> QED
      BY <3>1, <3>2
  <2> HIDE DEF value
  <2> QED
    BY <2>1
<1> HIDE DEF body, V
<1>3. \E f \in [Conditioners -> V] : \A c \in Conditioners : f[c] = step[c][f]
  <2>1. ASSUME NEW f \in [Conditioners -> V], NEW c \in Conditioners
        PROVE  body(f, c) \in V
    BY <1>2
  <2>2. step \in [Conditioners -> [[Conditioners -> V] -> V]]
    BY <2>1
  <2>3. \A c \in Conditioners : \A f \in [Conditioners -> V] :
          step[c][f] = body(f, c)
    OBVIOUS
  <2> HIDE DEF step
  <2>4. ASSUME NEW c \in Conditioners, NEW f \in [Conditioners -> V],
               NEW g \in [Conditioners -> V],
               \A d \in Conditioners : Depth[d] < Depth[c] => f[d] = g[d]
        PROVE  step[c][f] = step[c][g]
    BY <1>1, <2>3, <2>4
  <2>5. step \in Steps(Conditioners, V, Depth)
    BY <2>2, <2>4 DEF Steps
  <2>6. Depth \in [Conditioners -> Nat] /\ V # {}
    <3>1. [p \in Nat |-> Refused] \in V
      BY NoneIs DEF V
    <3> QED
      BY <3>1, ConditionersAssumption
  <2> QED
    BY <2>5, <2>6, Recursion
<1>4. PICK f \in [Conditioners -> V] : f = [c \in Conditioners |-> body(f, c)]
  <2>1. PICK f \in [Conditioners -> V] : \A c \in Conditioners : f[c] = step[c][f]
    BY <1>3
  <2>2. \A c \in Conditioners : f[c] = body(f, c)
    BY <2>1
  <2> QED
    BY <2>2
<1>5. Predicate = CHOOSE g : g = [c \in Conditioners |-> body(g, c)]
  BY DEF Predicate, Continue, body
<1>6. Predicate = [c \in Conditioners |-> body(Predicate, c)]
  BY <1>4, <1>5
<1>7. \A c \in Conditioners : Predicate[c] = body(Predicate, c)
  BY <1>6
<1>8. \A c \in Conditioners : Predicate[c] \in V
  <2> DEFINE T == {c \in Conditioners : Predicate[c] \in V}
  <2>1. ASSUME NEW c \in Conditioners,
               \A d \in Conditioners : Depth[d] < Depth[c] => d \in T
        PROVE  c \in T
    BY <1>2, <1>7, <2>1
  <2>2. Depth \in [Conditioners -> Nat]
    BY ConditionersAssumption
  <2> HIDE DEF T
  <2>3. Conditioners \subseteq T
    BY <2>1, <2>2, RankInduction
  <2> QED
    BY <2>3 DEF T
<1>9. Predicate \in [Conditioners -> V]
  BY <1>6, <1>8
<1>10. \A c \in Conditioners : \A p \in Nat : Predicate[c][p] = value(Predicate, c, p)
  <2> HIDE DEF value
  <2> QED
    BY <1>7 DEF body
<1> QED
  BY <1>9, <1>10 DEF V

------------------------------------------------------------------------------
(* What the engine makes of a conditioner *)

\* The second operand's placeholders go on where those of the first one end.
LEMMA NumberedOn ==
    ASSUME NEW p \in Nat, NEW s \in Seq(Values), NEW t \in Seq(Values)
    PROVE  Numbered(p, s) \o Numbered(p + Len(s), t) = Numbered(p, s \o t)
<1> DEFINE m == Len(s)
           n == Len(t)
           left == Numbered(p, s)
           right == Numbered(p + m, t)
           all == Numbered(p, s \o t)
<1>1. m \in Nat /\ n \in Nat /\ Len(s \o t) = m + n
  OBVIOUS
<1>2. left \in [1 .. m -> Int] /\ right \in [1 .. n -> Int] /\ all \in [1 .. m + n -> Int]
  BY <1>1 DEF Numbered
<1>3. /\ left \in Seq(Int) /\ Len(left) = m /\ right \in Seq(Int) /\ Len(right) = n
      /\ all \in Seq(Int) /\ Len(all) = m + n
  <2> HIDE DEF left, right, all, m, n
  <2> QED
    BY <1>1, <1>2, SequenceOf
<1>4. /\ \A j \in 1 .. m : left[j] = p - 1 + j
      /\ \A j \in 1 .. n : right[j] = p + m - 1 + j
      /\ \A j \in 1 .. m + n : all[j] = p - 1 + j
  BY <1>1 DEF Numbered
<1> HIDE DEF left, right, all, m, n
<1>5. left \o right \in Seq(Int) /\ Len(left \o right) = m + n
  BY <1>1, <1>3
<1>6. \A j \in 1 .. m + n : (left \o right)[j] = all[j]
  <2> TAKE j \in 1 .. m + n
  <2>1. CASE j <= m
    BY <1>1, <1>3, <1>4, <2>1
  <2>2. CASE ~(j <= m)
    <3>1. j - m \in 1 .. n /\ p + m - 1 + (j - m) = p - 1 + j
      BY <1>1, <2>2
    <3>2. (left \o right)[j] = right[j - m]
      BY <1>1, <1>3, <2>2, ConcatProperties
    <3> QED
      BY <1>4, <3>1, <3>2
  <2> QED
    BY <2>1, <2>2
<1>7. left \o right = all
  BY <1>3, <1>5, <1>6, SeqEqual
<1> QED
  BY <1>7 DEF left, right, all, m

\* Whatever was given, each placeholder of an answer is at the place of its
\* value; an error comes with nothing.
InPlace(r, p) ==
    /\ r.stmt.holes = Numbered(p, r.args)
    /\ r.stmt.empty => r.args = <<>>
    /\ ~r.ok => r = Refused

\* The engine's answer is in place for every conditioner, mistaken or not, and
\* wherever its placeholders start.
LEMMA AnswersInPlace ==
    \A c \in Conditioners : \A p \in Nat : InPlace(Predicate[c][p], p)
<1> DEFINE T == {c \in Conditioners : \A p \in Nat : InPlace(Predicate[c][p], p)}
<1>0. \A p \in Nat : InPlace(Refused, p)
  <2> TAKE p \in Nat
  <2>1. Numbered(p, <<>>) = <<>>
    BY DEF Numbered
  <2> QED
    BY <2>1, NoneIs DEF InPlace
<1>1. ASSUME NEW c \in Conditioners,
             \A d \in Conditioners : Depth[d] < Depth[c] => d \in T,
             NEW p \in Nat
      PROVE  InPlace(Predicate[c][p], p)
  <2>1. CASE c.kind = "q"
    <3>1. Predicate[c][p] = Simple(c.conds, p) /\ c.conds \in Seq(Conditions)
      BY <2>1, PredicateIs, Cases
    <3>2. CASE \E k \in DOMAIN c.conds : Mistake(c.conds[k])
      BY <1>0, <3>1, <3>2, SimpleMistaken
    <3>3. CASE \A k \in DOMAIN c.conds : ~Mistake(c.conds[k])
      BY <3>1, <3>3, SimpleIs DEF InPlace
    <3> QED
      BY <3>2, <3>3
  <2>2. CASE c.kind # "q"
    <3> DEFINE first == Predicate[c.root][p]
               q == p + Len(first.args)
               next == Predicate[c.next][q]
    <3>1. /\ c.or \in BOOLEAN /\ c.not \in BOOLEAN
          /\ c.root \in T /\ c.next \in T
          /\ c.root \in Conditioners /\ c.next \in Conditioners
      BY <1>1, <2>2, Cases
    <3>2. first \in Results /\ InPlace(first, p)
      BY <3>1, PredicateIs
    <3>3. /\ first.args \in Seq(Values) /\ first.stmt \in Texts
          /\ Len(first.args) \in Nat /\ q \in Nat
      <4> HIDE DEF first
      <4>1. first.args \in Seq(Values) /\ first.stmt \in Texts
        BY <3>2 DEF Results
      <4> QED
        BY <4>1
    <3>4. next \in Results /\ InPlace(next, q)
      <4> HIDE DEF q
      <4> QED
        BY <3>1, <3>3, PredicateIs
    <3>5. Predicate[c][p] = Joined(c, first, next)
      BY <2>2, PredicateIs
    <3> HIDE DEF first, next, T
    <3>6. next.args \in Seq(Values) /\ next.stmt \in Texts
      BY <3>4 DEF Results
    <3>7. CASE ~first.ok \/ (~first.stmt.empty /\ ~next.ok)
      BY <1>0, <3>5, <3>7 DEF Joined
    <3>8. CASE first.ok /\ first.stmt.empty
      <4> DEFINE stmt == IF c.not THEN Not(next.stmt) ELSE next.stmt
      <4>1. first.args = <<>> /\ first.args \o next.args = next.args /\ q = p
        <5>1. first.args = <<>>
          BY <3>2, <3>8 DEF InPlace
        <5>2. <<>> \o next.args = next.args
          BY <3>6, ConcatEmptySeq
        <5>3. Len(<<>>) = 0 /\ p + 0 = p
          OBVIOUS
        <5> QED
          BY <5>1, <5>2, <5>3
      <4>2. Joined(c, first, next) = [ok |-> TRUE, stmt |-> stmt, args |-> next.args]
        BY <3>8, <4>1 DEF Joined
      <4>3. stmt.holes = next.stmt.holes /\ (stmt.empty => next.stmt.empty)
        BY <3>6, NotIs
      <4> HIDE DEF stmt, q
      <4> QED
        BY <3>4, <3>5, <4>1, <4>2, <4>3 DEF InPlace
    <3>9. CASE first.ok /\ ~first.stmt.empty /\ next.ok
      <4> DEFINE stmt == Join(first.stmt, c.or, c.not, next.stmt)
                 args == first.args \o next.args
      <4>1. Joined(c, first, next) = [ok |-> TRUE, stmt |-> stmt, args |-> args]
        BY <3>9 DEF Joined
      <4>2. ~stmt.empty /\ stmt.holes = first.stmt.holes \o next.stmt.holes
        <5>1. Joins(stmt, first.stmt, c.or, c.not, next.stmt)
          BY <3>3, <3>6, JoinIs
        <5> HIDE DEF stmt
        <5> QED
          BY <5>1 DEF Joins
      <4>3. stmt.holes = Numbered(p, args)
        <5>1. /\ first.stmt.holes = Numbered(p, first.args)
              /\ next.stmt.holes = Numbered(p + Len(first.args), next.args)
          BY <3>2, <3>4 DEF InPlace
        <5>2. Numbered(p, first.args) \o Numbered(p + Len(first.args), next.args)
                = Numbered(p, args)
          <6>1. first.args \in Seq(Values) /\ next.args \in Seq(Values)
            BY <3>3, <3>6
          <6> QED
            BY <6>1, NumberedOn
        <5> HIDE DEF stmt, args
        <5> QED
          BY <4>2, <5>1, <5>2
      <4> HIDE DEF stmt, args
      <4> QED
        BY <3>5, <4>1, <4>2, <4>3 DEF InPlace
    <3> QED
      BY <3>7, <3>8, <3>9
  <2> QED
    BY <2>1, <2>2
<1>2. Depth \in [Conditioners -> Nat]
  BY ConditionersAssumption
<1>3. ASSUME NEW c \in Conditioners,
             \A d \in Conditioners : Depth[d] < Depth[c] => d \in T
      PROVE  c \in T
  BY <1>1, <1>3
<1> HIDE DEF T
<1>4. Conditioners \subseteq T
  BY <1>2, <1>3, RankInduction
<1> QED
  BY <1>4 DEF T

\* What a conditioner comes to in an answer with placeholders from p on: the
\* meaning of it, or nothing that can be run.
ComesTo(c, r, p) ==
    /\ ~Mistaken[c] =>
        /\ r.ok /\ ~r.stmt.empty /\ r.stmt.readable
        /\ \A all : Fits(all, p, r.args) => \A row \in Rows :
            r.stmt.says[all][row] = Meaning[c][row]
    /\ Mistaken[c] => ~r.ok \/ (~r.stmt.empty /\ ~r.stmt.readable)

\* The values of two operands fit where those of the whole fit.
LEMMA FitsParts ==
    ASSUME NEW p \in Nat, NEW s \in Seq(Values), NEW t \in Seq(Values),
           NEW all, Fits(all, p, s \o t)
    PROVE  Fits(all, p, s) /\ Fits(all, p + Len(s), t)
<1> DEFINE m == Len(s)
           n == Len(t)
           st == s \o t
<1>1. /\ m \in Nat /\ n \in Nat /\ Len(st) = m + n
      /\ \A j \in 1 .. m + n : st[j] = IF j <= m THEN s[j] ELSE t[j - m]
  BY ConcatProperties
<1>2. all \in Seq(Values) /\ \A j \in 1 .. Len(st) : all[p - 1 + j] = st[j]
  BY DEF Fits
<1> HIDE DEF m, n, st
<1>3. \A j \in 1 .. m : all[p - 1 + j] = s[j]
  BY <1>1, <1>2
<1>4. \A j \in 1 .. n : all[p + m - 1 + j] = t[j]
  <2> TAKE j \in 1 .. n
  <2>1. /\ m + j \in 1 .. m + n /\ ~(m + j <= m) /\ (m + j) - m = j
        /\ p - 1 + (m + j) = p + m - 1 + j
    BY <1>1
  <2>2. all[p - 1 + (m + j)] = st[m + j] /\ st[m + j] = t[(m + j) - m]
    BY <1>1, <1>2, <2>1
  <2> QED
    BY <2>1, <2>2
<1> QED
  BY <1>2, <1>3, <1>4 DEF Fits, m, n

\* The empty Q of Exclude.
LEMMA EmptyQ ==
    ASSUME Q(<<>>) \in Conditioners, NEW p \in Nat
    PROVE  /\ Predicate[Q(<<>>)][p].ok /\ Predicate[Q(<<>>)][p].stmt.empty
           /\ Predicate[Q(<<>>)][p].args = <<>>
           /\ ~Mistaken[Q(<<>>)]
           /\ \A row \in Rows : Meaning[Q(<<>>)][row] = "true"
<1> DEFINE e == Q(<<>>)
<1>1. e.kind = "q" /\ e.conds = <<>> /\ DOMAIN <<>> = {}
  BY DEF Q
<1>2. <<>> \in Seq(Conditions) /\ \A k \in DOMAIN <<>> : ~Mistake(<<>>[k])
  OBVIOUS
<1>3. LET r == Simple(<<>>, p)
      IN  r.ok /\ r.stmt = None /\ r.args = <<>>
  BY <1>2, SimpleIs
<1> HIDE DEF e
<1>4. e \in Conditioners
  BY DEF e
<1>5. Predicate[e][p] = Simple(<<>>, p)
  BY <1>1, <1>4, PredicateIs
<1>6. ~Mistaken[e]
  BY <1>1, <1>4, MistakenIs
<1>7. \A row \in Rows : Meaning[e][row] = "true"
  <2> TAKE row \in Rows
  <2>1. Meaning[e][row] = All3({Says(e.conds[k], row) : k \in DOMAIN e.conds})
    BY <1>1, <1>4, MeaningIs
  <2>2. {Says(e.conds[k], row) : k \in DOMAIN e.conds} = {}
    BY <1>1
  <2> QED
    BY <2>1, <2>2 DEF All3
<1> QED
  BY <1>3, <1>5, <1>6, <1>7, NoneIs DEF e

\* Every conditioner but an empty Q comes to its meaning, if it has no mistake,
\* and to nothing that can be run if it has one.
LEMMA AnswersMean ==
    ASSUME NoEmptyQ
    PROVE  \A c \in Conditioners : c # Q(<<>>) =>
             \A p \in Nat : ComesTo(c, Predicate[c][p], p)
<1> DEFINE T == {c \in Conditioners : c # Q(<<>>) =>
                    \A p \in Nat : ComesTo(c, Predicate[c][p], p)}
<1>1. ASSUME NEW c \in Conditioners,
             \A d \in Conditioners : Depth[d] < Depth[c] => d \in T,
             c # Q(<<>>), NEW p \in Nat
      PROVE  ComesTo(c, Predicate[c][p], p)
  <2>1. CASE c.kind = "q"
    <3>1. Predicate[c][p] = Simple(c.conds, p)
      BY <2>1, PredicateIs
    <3>4. c.conds \in Seq(Conditions) /\ c.conds # <<>>
      BY <1>1, <2>1, Cases
    <3>5. Mistaken[c] <=> \E k \in DOMAIN c.conds : Mistake(c.conds[k])
      BY <2>1, MistakenIs
    <3>6. \A row \in Rows : Meaning[c][row] =
                All3({Says(c.conds[k], row) : k \in DOMAIN c.conds})
      BY <2>1, MeaningIs
    <3>2. CASE Mistaken[c]
      BY <3>1, <3>2, <3>5, SimpleMistaken, NoneIs DEF ComesTo
    <3>3. CASE ~Mistaken[c]
      <4>1. \A k \in DOMAIN c.conds : ~Mistake(c.conds[k])
        BY <3>3, <3>5
      <4> DEFINE r == Simple(c.conds, p)
      <4>2. /\ r.ok /\ ~r.stmt.empty /\ r.stmt.readable
            /\ \A all : Fits(all, p, r.args) => \A row \in Rows :
                r.stmt.says[all][row] =
                    All3({Says(c.conds[k], row) : k \in DOMAIN c.conds})
        BY <3>4, <4>1, SimpleIs
      <4> HIDE DEF r
      <4>3. \A all : Fits(all, p, r.args) => \A row \in Rows :
                r.stmt.says[all][row] = Meaning[c][row]
        BY <3>6, <4>2
      <4> QED
        BY <3>1, <3>3, <4>2, <4>3 DEF ComesTo, r
    <3> QED
      BY <3>2, <3>3
  <2>2. CASE c.kind # "q"
    <3> DEFINE first == Predicate[c.root][p]
               q == p + Len(first.args)
               next == Predicate[c.next][q]
    <3>1. /\ c.or \in BOOLEAN /\ c.not \in BOOLEAN
          /\ c.root \in T /\ c.next \in T
          /\ c.root \in Conditioners /\ c.next \in Conditioners
          /\ c.next # Q(<<>>)
          /\ c.root = Q(<<>>) => c.not /\ ~c.or
      BY <1>1, <2>2, Cases DEF NoEmptyQ
    <3>2. /\ Predicate[c][p] = Joined(c, first, next)
          /\ Mistaken[c] <=> Mistaken[c.root] \/ Mistaken[c.next]
          /\ \A row \in Rows :
                Meaning[c][row] =
                    Join3(c.or, Meaning[c.root][row],
                          NotIf(c.not, Meaning[c.next][row]))
      BY <2>2, PredicateIs, MistakenIs, MeaningIs
    <3>3. first \in Results /\ InPlace(first, p)
      BY <3>1, PredicateIs, AnswersInPlace
    <3>4. /\ first.args \in Seq(Values) /\ first.stmt \in Texts
          /\ Len(first.args) \in Nat /\ q \in Nat
      <4> HIDE DEF first
      <4>1. first.args \in Seq(Values) /\ first.stmt \in Texts
        BY <3>3 DEF Results
      <4> QED
        BY <4>1
    <3>5. /\ next \in Results /\ InPlace(next, q)
          /\ ComesTo(c.next, next, q)
      <4> HIDE DEF q
      <4> QED
        BY <3>1, <3>4, PredicateIs, AnswersInPlace
    <3>6. c.root # Q(<<>>) => ComesTo(c.root, first, p)
      BY <3>1
    <3>7. c.root = Q(<<>>) =>
            /\ first.ok /\ first.stmt.empty /\ first.args = <<>>
            /\ ~Mistaken[c.root]
            /\ \A row \in Rows : Meaning[c.root][row] = "true"
      BY <3>1, EmptyQ
    <3> HIDE DEF first, next, T
    <3>8. next.args \in Seq(Values) /\ next.stmt \in Texts
      BY <3>5 DEF Results
    <3>9. CASE c.root = Q(<<>>)
      <4> DEFINE stmt == Not(next.stmt)
      <4>1. q = p /\ <<>> \o next.args = next.args
        <5>1. first.args = <<>> /\ Len(<<>>) = 0 /\ p + 0 = p
          BY <3>7, <3>9
        <5> QED
          BY <3>8, <5>1, ConcatEmptySeq
      <4>2. Joined(c, first, next) = [ok |-> TRUE, stmt |-> stmt, args |-> next.args]
        BY <3>1, <3>7, <3>9, <4>1 DEF Joined
      <4>3. /\ ~stmt.empty /\ stmt.readable = next.stmt.readable
            /\ \A all \in Seq(Values) : \A row \in Rows :
                stmt.says[all][row] = Not3(next.stmt.says[all][row])
        BY <3>8, NotIs
      <4> HIDE DEF stmt, q
      <4>4. CASE Mistaken[c]
        <5>1. Mistaken[c.next]
          BY <3>2, <3>7, <3>9, <4>4
        <5>2. ~next.stmt.readable
          BY <3>5, <5>1, NoneIs DEF ComesTo, InPlace
        <5> QED
          BY <3>2, <4>2, <4>3, <4>4, <5>2 DEF ComesTo
      <4>5. CASE ~Mistaken[c]
        <5>1. ~Mistaken[c.next]
          BY <3>2, <4>5
        <5>2. \A row \in Rows : Meaning[c][row] = Not3(Meaning[c.next][row])
          <6>1. \A x \in Truths : Join3(FALSE, "true", Not3(x)) = Not3(x)
            BY DEF Truths, Join3, And3, All3, Not3
          <6>2. \A row \in Rows : Meaning[c.next][row] \in Truths
            BY <3>1, MeaningIs
          <6>3. c.or = FALSE /\ c.not = TRUE
            BY <3>1, <3>9
          <6> QED
            BY <3>2, <3>7, <3>9, <6>1, <6>2, <6>3 DEF NotIf
        <5>3. ASSUME NEW all, Fits(all, p, next.args), NEW row \in Rows
              PROVE  stmt.says[all][row] = Meaning[c][row]
          <6>1. all \in Seq(Values)
            BY <5>3 DEF Fits
          <6>2. next.stmt.says[all][row] = Meaning[c.next][row]
            BY <3>5, <4>1, <5>1, <5>3 DEF ComesTo
          <6> QED
            BY <4>3, <5>2, <6>1, <6>2
        <5> QED
          BY <3>2, <3>5, <4>2, <4>3, <4>5, <5>1, <5>3 DEF ComesTo
      <4> QED
        BY <4>4, <4>5
    <3>10. CASE c.root # Q(<<>>)
      <4>0. ComesTo(c.root, first, p)
        BY <3>6, <3>10
      <4> DEFINE stmt == Join(first.stmt, c.or, c.not, next.stmt)
                 args == first.args \o next.args
      <4>1. CASE ~first.ok \/ (~first.stmt.empty /\ ~next.ok)
        <5>1. Joined(c, first, next) = Refused
          BY <4>1 DEF Joined
        <5>2. Mistaken[c]
          BY <3>2, <3>5, <4>0, <4>1 DEF ComesTo
        <5> QED
          BY <3>2, <5>1, <5>2, NoneIs DEF ComesTo
      <4>2. CASE first.ok /\ (first.stmt.empty \/ next.ok)
        <5>1. ~first.stmt.empty /\ next.ok
          BY <4>0, <4>2 DEF ComesTo
        <5>2. Joined(c, first, next) = [ok |-> TRUE, stmt |-> stmt, args |-> args]
          BY <4>2, <5>1 DEF Joined
        <5>3. /\ ~stmt.empty
              /\ stmt.readable = (first.stmt.readable /\ next.stmt.readable)
              /\ SaysBoth(stmt, first.stmt, c.or, c.not, next.stmt)
          <6>1. Joins(stmt, first.stmt, c.or, c.not, next.stmt)
            BY <3>4, <3>8, JoinIs
          <6> HIDE DEF stmt
          <6> QED
            BY <6>1 DEF Joins
        <5>4. CASE Mistaken[c]
          <6>1. ~stmt.readable
            BY <3>2, <3>5, <4>0, <4>2, <5>1, <5>3, <5>4 DEF ComesTo
          <6> HIDE DEF stmt, args
          <6> QED
            BY <3>2, <5>2, <5>3, <5>4, <6>1 DEF ComesTo
        <5>5. CASE ~Mistaken[c]
          <6>1. ~Mistaken[c.root] /\ ~Mistaken[c.next]
            BY <3>2, <5>5
          <6>2. ASSUME NEW all, Fits(all, p, args), NEW row \in Rows
                PROVE  stmt.says[all][row] = Meaning[c][row]
            <7>1. Fits(all, p, first.args) /\ Fits(all, q, next.args)
                  /\ all \in Seq(Values)
              <8>1. Fits(all, p, first.args) /\ Fits(all, p + Len(first.args), next.args)
                BY <3>4, <3>8, <6>2, FitsParts
              <8> QED
                BY <8>1 DEF Fits
            <7>2. /\ first.stmt.says[all][row] = Meaning[c.root][row]
                  /\ next.stmt.says[all][row] = Meaning[c.next][row]
              BY <3>5, <4>0, <6>1, <7>1 DEF ComesTo
            <7> HIDE DEF stmt
            <7> QED
              BY <3>2, <5>3, <7>1, <7>2 DEF SaysBoth
          <6>3. stmt.readable
            <7> HIDE DEF stmt
            <7> QED
              BY <3>5, <4>0, <5>3, <6>1 DEF ComesTo
          <6> HIDE DEF stmt, args
          <6> QED
            BY <3>2, <5>2, <5>3, <5>5, <6>2, <6>3 DEF ComesTo
        <5> QED
          BY <5>4, <5>5
      <4> QED
        BY <4>1, <4>2
    <3> QED
      BY <3>9, <3>10
  <2> QED
    BY <2>1, <2>2
<1>2. Depth \in [Conditioners -> Nat]
  BY ConditionersAssumption
<1>3. ASSUME NEW c \in Conditioners,
             \A d \in Conditioners : Depth[d] < Depth[c] => d \in T
      PROVE  c \in T
  BY <1>1, <1>3
<1> HIDE DEF T
<1>4. Conditioners \subseteq T
  BY <1>2, <1>3, RankInduction
<1> QED
  BY <1>4 DEF T

------------------------------------------------------------------------------
(* The conditions of a QuerySet *)

\* A value list that starts with what was assigned fits the answer for
\* placeholders that start after it.
LEMMA FitsAfter ==
    ASSUME NEW assigned \in Seq(Values), NEW args \in Seq(Values)
    PROVE  /\ Len(assigned) + 1 \in Nat
           /\ Fits(assigned \o args, Len(assigned) + 1, args)
<1> DEFINE m == Len(assigned)
           n == Len(args)
           all == assigned \o args
<1>1. /\ m \in Nat /\ n \in Nat /\ Len(all) = m + n /\ all \in Seq(Values)
      /\ \A j \in 1 .. m + n :
            all[j] = IF j <= m THEN assigned[j] ELSE args[j - m]
  BY ConcatProperties
<1> HIDE DEF m, n, all
<1>2. ASSUME NEW j \in 1 .. n PROVE all[(m + 1) - 1 + j] = args[j]
  <2>1. /\ m + j \in 1 .. m + n /\ ~(m + j <= m) /\ (m + j) - m = j
        /\ (m + 1) - 1 + j = m + j
    BY <1>1
  <2>2. all[m + j] = args[(m + j) - m]
    BY <1>1, <2>1
  <2> QED
    BY <2>1, <2>2
<1> QED
  BY <1>1, <1>2 DEF Fits, m, n, all

\* The statement for a conditioner without mistakes selects what it means, and
\* one with a mistake cannot be run.
LEMMA StatementMeans ==
    ASSUME NoEmptyQ, NEW c \in Conditioners, c # Q(<<>>)
    PROVE  /\ Mistaken[c] <=> ~Runs(c)
           /\ ~Mistaken[c] =>
                \A assigned \in Seq(Values) : \A from \in SUBSET Rows :
                    Selected(c, assigned, from) =
                        {row \in from : Meaning[c][row] = "true"}
<1>0. c # Null
  BY QueryAssumption
<1>1. \A p \in Nat : ComesTo(c, Predicate[c][p], p)
  BY AnswersMean
<1>2. \A p \in Nat : Predicate[c][p].args \in Seq(Values)
  BY PredicateIs DEF Results
<1>3. Mistaken[c] <=> ~Runs(c)
  <2> DEFINE s == Predicate[c][Len(<<>>) + 1]
  <2>1. Len(<<>>) + 1 \in Nat
    OBVIOUS
  <2>2. ComesTo(c, s, Len(<<>>) + 1)
    BY <1>1, <2>1
  <2>3. Runs(c) <=> s.ok /\ s.stmt.readable
    BY <1>0 DEF Runs, Statement
  <2> HIDE DEF s
  <2> QED
    BY <2>2, <2>3 DEF ComesTo
<1>4. ASSUME ~Mistaken[c], NEW assigned \in Seq(Values), NEW from \in SUBSET Rows
      PROVE  Selected(c, assigned, from) =
                {row \in from : Meaning[c][row] = "true"}
  <2> DEFINE p == Len(assigned) + 1
             s == Predicate[c][p]
             all == assigned \o s.args
  <2>1. p \in Nat /\ Fits(all, p, s.args)
    <3>1. s.args \in Seq(Values)
      BY <1>2
    <3> HIDE DEF s
    <3> QED
      BY <3>1, FitsAfter
  <2>2. \A row \in Rows : s.stmt.says[all][row] = Meaning[c][row]
    <3>1. ComesTo(c, s, p)
      BY <1>1, <2>1
    <3> HIDE DEF s, p, all
    <3> QED
      BY <1>4, <2>1, <3>1 DEF ComesTo
  <2>3. Selected(c, assigned, from) =
            {row \in from : s.stmt.says[all][row] = "true"}
    BY <1>0 DEF Selected, Statement
  <2> HIDE DEF s, all
  <2> QED
    BY <2>2, <2>3
<1> QED
  BY <1>3, <1>4

\* What the operators of the logic make of their operands.
LEMMA Conjunctions ==
    ASSUME NEW x \in Truths, NEW y \in Truths
    PROVE  /\ And3(x, y) = "true" <=> x = "true" /\ y = "true"
           /\ Not3(x) = "true" <=> x = "false"
           /\ And3("true", x) = x
BY DEF Truths, And3, Not3, All3

\* A QuerySet's chain of conditioners is mistaken when one of its calls was,
\* and a row of which its meaning is true is one that all of them asked for.
\* Where a value is NULL the converse fails.
CondInv ==
    /\ CondTypeOK
    /\ cond = Null => meant = Rows /\ ~wrong
    /\ cond # Null =>
        /\ cond # Q(<<>>)
        /\ wrong <=> Mistaken[cond]
        /\ ~wrong => \A row \in Rows :
                Meaning[cond][row] = "true" => row \in meant

\* Joining a conditioner to another with AND.
LEMMA AndIs ==
    ASSUME NEW c, NEW d, And(c, d) \in Conditioners
    PROVE  /\ c \in Conditioners /\ d \in Conditioners /\ And(c, d) # Q(<<>>)
           /\ Mistaken[And(c, d)] <=> Mistaken[c] \/ Mistaken[d]
           /\ \A row \in Rows :
                Meaning[And(c, d)][row] = And3(Meaning[c][row], Meaning[d][row])
<1> DEFINE e == And(c, d)
<1>1. /\ e.kind = "chain" /\ e.root = c /\ e.next = d
      /\ e.or = FALSE /\ e.not = FALSE
  BY DEF And, Chain
<1>2. e \in Conditioners
  OBVIOUS
<1> HIDE DEF e
<1>3. e # Q(<<>>)
  <2>1. Q(<<>>).kind = "q"
    BY DEF Q
  <2> QED
    BY <1>1, <2>1
<1>4. c \in Conditioners /\ d \in Conditioners
  BY <1>1, <1>2, Cases
<1>5. Mistaken[e] <=> Mistaken[c] \/ Mistaken[d]
  BY <1>1, <1>2, MistakenIs
<1>6. \A row \in Rows : Meaning[e][row] =
            Join3(e.or, Meaning[c][row], NotIf(e.not, Meaning[d][row]))
  BY <1>1, <1>2, MeaningIs
<1>7. \A row \in Rows : Meaning[e][row] = And3(Meaning[c][row], Meaning[d][row])
  BY <1>1, <1>6 DEF Join3, NotIf
<1> QED
  BY <1>3, <1>4, <1>5, <1>7 DEF e

\* Joining a conditioner to another with AND NOT.
LEMMA AndNotIs ==
    ASSUME NEW c, NEW d, AndNot(c, d) \in Conditioners
    PROVE  /\ c \in Conditioners /\ d \in Conditioners /\ AndNot(c, d) # Q(<<>>)
           /\ Mistaken[AndNot(c, d)] <=> Mistaken[c] \/ Mistaken[d]
           /\ \A row \in Rows : Meaning[AndNot(c, d)][row] =
                And3(Meaning[c][row], Not3(Meaning[d][row]))
<1> DEFINE e == AndNot(c, d)
<1>1. /\ e.kind = "chain" /\ e.root = c /\ e.next = d
      /\ e.or = FALSE /\ e.not = TRUE
  BY DEF AndNot, Chain
<1>2. e \in Conditioners
  OBVIOUS
<1> HIDE DEF e
<1>3. e # Q(<<>>)
  <2>1. Q(<<>>).kind = "q"
    BY DEF Q
  <2> QED
    BY <1>1, <2>1
<1>4. c \in Conditioners /\ d \in Conditioners
  BY <1>1, <1>2, Cases
<1>5. Mistaken[e] <=> Mistaken[c] \/ Mistaken[d]
  BY <1>1, <1>2, MistakenIs
<1>6. \A row \in Rows : Meaning[e][row] =
            Join3(e.or, Meaning[c][row], NotIf(e.not, Meaning[d][row]))
  BY <1>1, <1>2, MeaningIs
<1>7. \A row \in Rows : Meaning[e][row] =
            And3(Meaning[c][row], Not3(Meaning[d][row]))
  BY <1>1, <1>6 DEF Join3, NotIf
<1> QED
  BY <1>3, <1>4, <1>5, <1>7 DEF e

\* What Filter and Exclude ask for, without the condition as a parameter.
LEMMA FilterIs ==
    ASSUME NEW c, Filter(c)
    PROVE  /\ cond' = (IF cond = Null THEN c ELSE And(cond, c))
           /\ cond' \in Conditioners
           /\ wrong' = (wrong \/ Mistaken[c])
           /\ meant' = IF wrong' THEN {}
                       ELSE {row \in meant : Meaning[c][row] = "true"}
BY DEF Filter, Asked, addConditioner

\* The rows that match are left out.
LEMMA ExcludeIs ==
    ASSUME NEW c, Exclude(c)
    PROVE  /\ cond' = AndNot(IF cond = Null THEN Q(<<>>) ELSE cond, c)
           /\ cond' \in Conditioners
           /\ wrong' = (wrong \/ Mistaken[c])
           /\ meant' = IF wrong' THEN {}
                       ELSE {row \in meant : Meaning[c][row] # "true"}
BY DEF Exclude, Asked

\* The values of the variables of a QuerySet without conditions, and with them.
LEMMA CondCases ==
    ASSUME CondTypeOK
    PROVE  \/ cond = Null /\ cond \notin Conditioners
           \/ cond # Null /\ cond \in Conditioners
BY QueryAssumption DEF CondTypeOK

\* A call to Filter keeps the invariant.
LEMMA FilterKeeps ==
    ASSUME NoEmptyQ, CondInv, NEW c \in Filters, Filter(c)
    PROVE  CondInv'
<1>1. /\ cond' = (IF cond = Null THEN c ELSE And(cond, c))
      /\ cond' \in Conditioners
      /\ wrong' = (wrong \/ Mistaken[c])
      /\ meant' = IF wrong' THEN {}
                  ELSE {row \in meant : Meaning[c][row] = "true"}
  BY FilterIs
<1>2. /\ c \in Conditioners /\ c # Q(<<>>) /\ Mistaken[c] \in BOOLEAN
      /\ cond' # Null
  BY <1>1, QueryAssumption, MistakenIs DEF NoEmptyQ
<1>3. meant \subseteq Rows /\ wrong \in BOOLEAN
  BY DEF CondInv, CondTypeOK
<1>4. CondTypeOK'
  BY <1>1, <1>2, <1>3 DEF CondTypeOK
<1>5. CASE cond = Null
  <2>1. cond' = c /\ ~wrong /\ meant = Rows
    BY <1>1, <1>5 DEF CondInv
  <2> QED
    BY <1>1, <1>2, <1>4, <2>1 DEF CondInv
<1>6. CASE cond # Null
  <2>1. /\ wrong <=> Mistaken[cond]
        /\ ~wrong => \A row \in Rows : Meaning[cond][row] = "true" => row \in meant
    BY <1>6 DEF CondInv
  <2>2. cond' = And(cond, c) /\ And(cond, c) \in Conditioners
    BY <1>1, <1>6
  <2>3. /\ cond' # Q(<<>>) /\ cond \in Conditioners
        /\ Mistaken[cond'] <=> Mistaken[cond] \/ Mistaken[c]
        /\ \A row \in Rows : Meaning[cond'][row] =
                And3(Meaning[cond][row], Meaning[c][row])
    BY <2>2, AndIs
  <2>4. \A row \in Rows : Meaning[cond][row] \in Truths /\ Meaning[c][row] \in Truths
    BY <1>2, <2>3, MeaningIs
  <2>5. ASSUME ~wrong', NEW row \in Rows, Meaning[cond'][row] = "true"
        PROVE  row \in meant'
    <3>1. And3(Meaning[cond][row], Meaning[c][row]) = "true"
      BY <2>3, <2>5
    <3>2. Meaning[cond][row] = "true" /\ Meaning[c][row] = "true"
      BY <2>4, <2>5, <3>1, Conjunctions
    <3> QED
      BY <1>1, <2>1, <2>5, <3>2
  <2> QED
    BY <1>1, <1>2, <1>4, <2>1, <2>3, <2>5 DEF CondInv
<1> QED
  BY <1>5, <1>6

\* So does a call to Exclude, which starts from an empty Q.
LEMMA ExcludeKeeps ==
    ASSUME NoEmptyQ, CondInv, NEW c \in Excludes, Exclude(c)
    PROVE  CondInv'
<1> DEFINE d == IF cond = Null THEN Q(<<>>) ELSE cond
<1>1. /\ cond' = AndNot(d, c)
      /\ cond' \in Conditioners
      /\ wrong' = (wrong \/ Mistaken[c])
      /\ meant' = IF wrong' THEN {}
                  ELSE {row \in meant : Meaning[c][row] # "true"}
  BY ExcludeIs
<1>2. /\ c \in Conditioners /\ Mistaken[c] \in BOOLEAN /\ cond' # Null
  BY <1>1, QueryAssumption, MistakenIs
<1>3. meant \subseteq Rows /\ wrong \in BOOLEAN
  BY DEF CondInv, CondTypeOK
<1>4. CondTypeOK'
  BY <1>1, <1>2, <1>3 DEF CondTypeOK
<1>5. cond' = AndNot(d, c) /\ AndNot(d, c) \in Conditioners
  BY <1>1
<1>6. /\ cond' # Q(<<>>) /\ d \in Conditioners
      /\ Mistaken[cond'] <=> Mistaken[d] \/ Mistaken[c]
      /\ \A row \in Rows : Meaning[cond'][row] =
            And3(Meaning[d][row], Not3(Meaning[c][row]))
  <2> HIDE DEF d
  <2> QED
    BY <1>5, AndNotIs
<1>7. /\ wrong <=> Mistaken[d]
      /\ ~wrong => \A row \in Rows : Meaning[d][row] = "true" => row \in meant
  <2>1. CASE cond = Null
    <3>1. ~wrong /\ meant = Rows /\ d = Q(<<>>) /\ Q(<<>>) \in Conditioners
      BY <1>6, <2>1 DEF CondInv
    <3>2. ~Mistaken[Q(<<>>)]
      BY <3>1, EmptyQ, 0 \in Nat
    <3> QED
      BY <3>1, <3>2
  <2>2. CASE cond # Null
    BY <2>2 DEF CondInv
  <2> QED
    BY <2>1, <2>2
<1> HIDE DEF d
<1>8. \A row \in Rows : Meaning[d][row] \in Truths /\ Meaning[c][row] \in Truths
  BY <1>2, <1>6, MeaningIs
<1>9. ASSUME ~wrong', NEW row \in Rows, Meaning[cond'][row] = "true"
      PROVE  row \in meant'
  <2>1. /\ And3(Meaning[d][row], Not3(Meaning[c][row])) = "true"
        /\ Not3(Meaning[c][row]) \in Truths
    BY <1>6, <1>9, ThreeValues
  <2>2. Meaning[d][row] = "true" /\ Not3(Meaning[c][row]) = "true"
    BY <1>8, <1>9, <2>1, Conjunctions
  <2>3. Meaning[c][row] # "true"
    BY <1>8, <2>2, Conjunctions
  <2> QED
    BY <1>1, <1>7, <1>9, <2>2, <2>3
<1> QED
  BY <1>1, <1>2, <1>4, <1>6, <1>7, <1>9 DEF CondInv

------------------------------------------------------------------------------
(* Rows without NULL *)

Full(row) == \A col \in Columns : row[col] # Null
TwoTruths == {"true", "false"}

\* The operators of the logic give no "unknown" without one.
LEMMA TwoTruthsKept ==
    /\ \A b : Truth(b) \in TwoTruths
    /\ \A x \in TwoTruths : Not3(x) \in TwoTruths
    /\ \A isNot, x : x \in TwoTruths => NotIf(isNot, x) \in TwoTruths
    /\ \A xs : xs \subseteq TwoTruths => All3(xs) \in TwoTruths
    /\ \A isOr, x, y : x \in TwoTruths /\ y \in TwoTruths
                        => Join3(isOr, x, y) \in TwoTruths
<1>1. \A b : Truth(b) \in TwoTruths
  BY DEF Truth, TwoTruths
<1>2. \A x \in TwoTruths : Not3(x) \in TwoTruths
  BY DEF Not3, TwoTruths
<1>3. \A xs : xs \subseteq TwoTruths => All3(xs) \in TwoTruths
  BY DEF All3, TwoTruths
<1>4. \A isNot, x : x \in TwoTruths => NotIf(isNot, x) \in TwoTruths
  BY <1>2 DEF NotIf
<1>5. \A x, y : x \in TwoTruths /\ y \in TwoTruths => And3(x, y) \in TwoTruths
  BY <1>3 DEF And3
<1>6. \A x, y : x \in TwoTruths /\ y \in TwoTruths => Or3(x, y) \in TwoTruths
  BY <1>2, <1>5 DEF Or3
<1>7. \A isOr, x, y : x \in TwoTruths /\ y \in TwoTruths
                        => Join3(isOr, x, y) \in TwoTruths
  BY <1>5, <1>6 DEF Join3
<1> QED
  BY <1>1, <1>2, <1>3, <1>4, <1>7

\* A conditioner without mistakes is true or false of a row without NULL.
LEMMA TwoValued ==
    ASSUME NilTested
    PROVE  \A c \in Conditioners : ~Mistaken[c] =>
             \A row \in Rows : Full(row) => Meaning[c][row] \in TwoTruths
<1> DEFINE T == {c \in Conditioners : ~Mistaken[c] =>
                    \A row \in Rows : Full(row) => Meaning[c][row] \in TwoTruths}
<1>1. ASSUME NEW c \in Conditioners,
             \A d \in Conditioners : Depth[d] < Depth[c] => d \in T,
             ~Mistaken[c], NEW row \in Rows, Full(row)
      PROVE  Meaning[c][row] \in TwoTruths
  <2>1. CASE c.kind = "q"
    <3>1. Meaning[c][row] = All3({Says(c.conds[k], row) : k \in DOMAIN c.conds})
      BY <2>1, MeaningIs
    <3>2. ASSUME NEW k \in DOMAIN c.conds
          PROVE  Says(c.conds[k], row) \in TwoTruths
      <4>1. c.conds \in Seq(Conditions)
        BY <2>1, Cases
      <4>2. c.conds[k] \in Conditions
        BY <4>1
      <4>3. ~Mistake(c.conds[k])
        BY <1>1, <2>1, MistakenIs
      <4> DEFINE q == c.conds[k]
      <4> HIDE DEF q
      <4>4. q \in Conditions /\ ~Mistake(q)
        BY <4>2, <4>3 DEF q
      <4>5. q.name \in Columns /\ (q.value = Null => Unary(q))
        BY <4>4 DEF NilTested, Mistake, Unary
      <4>6. row[q.name] # Null
        BY <1>1, <4>5 DEF Full
      <4>7. Says(q, row) \in TwoTruths
        <5>1. CASE Unary(q)
          BY <5>1, TwoTruthsKept DEF Says
        <5>2. CASE ~Unary(q)
          BY <4>5, <4>6, <5>2, TwoTruthsKept DEF Says, Holds
        <5> QED
          BY <5>1, <5>2
      <4> QED
        BY <4>7 DEF q
    <3>3. {Says(c.conds[k], row) : k \in DOMAIN c.conds} \subseteq TwoTruths
      BY <3>2
    <3> QED
      BY <3>1, <3>3, TwoTruthsKept
  <2>2. CASE c.kind # "q"
    <3>1. /\ c.root \in Conditioners /\ c.next \in Conditioners
          /\ c.root \in T /\ c.next \in T
      BY <1>1, <2>2, Cases
    <3>2. ~Mistaken[c.root] /\ ~Mistaken[c.next]
      BY <1>1, <2>2, MistakenIs
    <3>3. Meaning[c.root][row] \in TwoTruths /\ Meaning[c.next][row] \in TwoTruths
      BY <1>1, <3>1, <3>2
    <3>4. Meaning[c][row] = Join3(c.or, Meaning[c.root][row],
                                  NotIf(c.not, Meaning[c.next][row]))
      BY <2>2, MeaningIs
    <3> QED
      BY <3>3, <3>4, TwoTruthsKept
  <2> QED
    BY <2>1, <2>2
<1>2. Depth \in [Conditioners -> Nat]
  BY ConditionersAssumption
<1>3. ASSUME NEW c \in Conditioners,
             \A d \in Conditioners : Depth[d] < Depth[c] => d \in T
      PROVE  c \in T
  BY <1>1, <1>3
<1> HIDE DEF T
<1>4. Conditioners \subseteq T
  BY <1>2, <1>3, RankInduction
<1> QED
  BY <1>4 DEF T

\* Of the rows without NULL, the QuerySet means all that were asked for.
FullInv ==
    ~wrong => \A row \in meant :
        Full(row) => cond = Null \/ Meaning[cond][row] = "true"

\* A call to Filter keeps that.
LEMMA FilterKeepsFull ==
    ASSUME NoEmptyQ, CondInv, FullInv, NEW c \in Filters, Filter(c)
    PROVE  FullInv'
<1>1. /\ cond' = (IF cond = Null THEN c ELSE And(cond, c))
      /\ cond' \in Conditioners
      /\ wrong' = (wrong \/ Mistaken[c])
      /\ meant' = IF wrong' THEN {}
                  ELSE {row \in meant : Meaning[c][row] = "true"}
  BY FilterIs
<1>2. meant \subseteq Rows
  BY DEF CondInv, CondTypeOK
<1>3. ASSUME ~wrong', NEW row \in meant', Full(row)
      PROVE  Meaning[cond'][row] = "true"
  <2>1. ~wrong /\ row \in meant /\ row \in Rows /\ Meaning[c][row] = "true"
    BY <1>1, <1>2, <1>3
  <2>2. CASE cond = Null
    BY <1>1, <2>1, <2>2
  <2>3. CASE cond # Null
    <3>1. Meaning[cond][row] = "true"
      BY <1>3, <2>1, <2>3 DEF FullInv
    <3>2. Meaning[cond'][row] = And3(Meaning[cond][row], Meaning[c][row])
      BY <1>1, <2>1, <2>3, AndIs
    <3>3. And3("true", "true") = "true" /\ "true" \in Truths
      BY Conjunctions DEF Truths
    <3> QED
      BY <2>1, <3>1, <3>2, <3>3
  <2> QED
    BY <2>2, <2>3
<1> QED
  BY <1>3 DEF FullInv

\* So does a call to Exclude: what does not match is false, not unknown.
LEMMA ExcludeKeepsFull ==
    ASSUME NoEmptyQ, NilTested, CondInv, FullInv, NEW c \in Excludes, Exclude(c)
    PROVE  FullInv'
<1> DEFINE d == IF cond = Null THEN Q(<<>>) ELSE cond
<1>1. /\ cond' = AndNot(d, c)
      /\ cond' \in Conditioners
      /\ wrong' = (wrong \/ Mistaken[c])
      /\ meant' = IF wrong' THEN {}
                  ELSE {row \in meant : Meaning[c][row] # "true"}
  BY ExcludeIs
<1>2. meant \subseteq Rows /\ c \in Conditioners
  BY QueryAssumption DEF CondInv, CondTypeOK
<1>3. ASSUME ~wrong', NEW row \in meant', Full(row)
      PROVE  Meaning[cond'][row] = "true"
  <2>1. ~wrong /\ ~Mistaken[c] /\ row \in meant /\ row \in Rows
        /\ Meaning[c][row] # "true"
    BY <1>1, <1>2, <1>3
  <2>2. d \in Conditioners
        /\ Meaning[cond'][row] = And3(Meaning[d][row], Not3(Meaning[c][row]))
    <3> HIDE DEF d
    <3> QED
      BY <1>1, <2>1, AndNotIs
  <2>3. Meaning[d][row] = "true"
    <3>1. CASE cond = Null
      BY <2>1, <2>2, <3>1, EmptyQ, 0 \in Nat
    <3>2. CASE cond # Null
      BY <1>3, <2>1, <3>2 DEF FullInv
    <3> QED
      BY <3>1, <3>2
  <2>4. Meaning[c][row] = "false"
    BY <1>2, <1>3, <2>1, TwoValued DEF TwoTruths
  <2>5. And3("true", Not3("false")) = "true"
    BY DEF And3, Not3, All3
  <2> HIDE DEF d
  <2> QED
    BY <2>2, <2>3, <2>4, <2>5
<1> QED
  BY <1>3 DEF FullInv

------------------------------------------------------------------------------
(* A QuerySet and its call *)

Numbers == 1 .. Len(Table)

\* The types, and what there is before the call.
TypeInv ==
    /\ CondTypeOK
    /\ DOMAIN table \subseteq Numbers
    /\ \A i \in DOMAIN table : table[i] \in Rows
    /\ rows \in Seq(DOMAIN table)
    /\ heap \in Seq(0 .. Len(Table))
    /\ result \in Seq(1 .. Len(heap))
    /\ outcome \in {"start", "loop", "ok", "found", "missing", "multiple",
                    "error", "refused", "panic"}
    /\ outcome = "start" =>
        table = Table /\ rows = <<>> /\ heap = <<>> /\ result = <<>>

\* The rows the query was for, in their order.
Wanted == GetRows(Matching(cond, <<>>), call.from, call.to)

\* What Load and Slice have read so far and what the cursor has still to give
\* are what the query was for.
SliceInv ==
    call.op = "slice" /\ outcome \in {"loop", "ok"} =>
        /\ call.from \in Int /\ call.to \in Int
        /\ ~RangeRefused(call.from, call.to)
        /\ Read \o rows = Wanted
        /\ outcome = "ok" => rows = <<>>

\* Get has the first of what its query was for, or nothing yet.
GetInv ==
    call.op = "get" /\ outcome \in {"loop", "found", "missing", "multiple"} =>
        /\ call.from = 0 /\ call.to = 2
        /\ result = <<>> => rows = Wanted /\ outcome \in {"loop", "missing"}
        /\ result # <<>> =>
            /\ outcome # "missing" /\ Wanted # <<>> /\ Read = <<Wanted[1]>>
            /\ IF outcome = "multiple" THEN Tail(Wanted) # <<>>
               ELSE rows = Tail(Wanted)
        /\ outcome \in {"found", "missing"} => broken \/ rows = <<>>

\* Which calls have a loop and what it may come to.
LoopInv ==
    /\ outcome = "loop" => call.op \in {"slice", "get"}
    /\ outcome \in {"found", "missing", "multiple"} => call.op = "get"
    /\ SliceInv /\ GetInv

\* The rows a statement is for, and those it is not for.
LEMMA MatchingIs ==
    ASSUME DOMAIN table \subseteq Numbers, NEW c, NEW assigned
    PROVE  LET all == Matching(c, assigned)
           IN  /\ all \in Seq(DOMAIN table)
               /\ \A i \in DOMAIN all : table[all[i]] \in
                    Selected(c, assigned, {table[j] : j \in DOMAIN table})
<1> DEFINE from == {table[j] : j \in DOMAIN table}
           selected == Selected(c, assigned, from)
           J == {i \in DOMAIN table : table[i] \in selected}
           all == InOrder(J)
<1>1. Matching(c, assigned) = all
  BY DEF Matching
<1>2. Len(Table) \in Nat
  BY TableAssumption
<1> HIDE DEF selected
<1>3. J \in SUBSET (1 .. Len(Table))
  BY DEF Numbers
<1>4. all \in Seq(J)
  <2> HIDE DEF J
  <2> QED
    BY <1>2, <1>3, InOrderLists
<1>5. J \subseteq DOMAIN table /\ \A j \in J : table[j] \in selected
  OBVIOUS
<1> HIDE DEF J, all
<1>6. /\ all \in Seq(DOMAIN table)
      /\ \A i \in DOMAIN all : table[all[i]] \in selected
  BY <1>4, <1>5
<1> QED
  BY <1>1, <1>6 DEF selected

\* What a query gives of the rows it is for.
LEMMA GetRowsType ==
    ASSUME NEW S, NEW all \in Seq(S), NEW from \in Int, NEW to \in Int,
           ~RangeRefused(from, to)
    PROVE  /\ GetRows(all, from, to) \in Seq(S)
           /\ GetRows(all, from, to) =
                SubSeq(all, from + 1,
                       IF to = -1 \/ to > Len(all) THEN Len(all) ELSE to)
<1> DEFINE n == Len(all)
           last == IF to = -1 \/ to > n THEN n ELSE to
           limit == IF to > 0 THEN to - from ELSE n
           offset == IF from > 0 THEN from ELSE 0
           end == IF offset + limit < n THEN offset + limit ELSE n
<1>1. n \in Nat /\ \A i \in 1 .. n : all[i] \in S
  OBVIOUS
<1>2. GetRows(all, from, to) = SubSeq(all, offset + 1, end)
  BY DEF GetRows
<1> HIDE DEF n
<1>3. from >= 0 /\ (to = -1 \/ from < to)
  BY DEF RangeRefused
<1>4. offset = from
  BY <1>3
<1>5. end = last
  BY <1>1, <1>3
<1>6. last \in Int /\ last <= n
  BY <1>1
<1> HIDE DEF last, offset, end
<1>7. SubSeq(all, from + 1, last) \in Seq(S)
  <2>1. from + 1 \in Int /\ \A i \in from + 1 .. last : i \in 1 .. n
    BY <1>3, <1>6, <1>1
  <2> QED
    BY <1>1, <1>6, <2>1, SubSeqProperties
<1> QED
  BY <1>2, <1>4, <1>5, <1>7 DEF last, n

\* What the containers at r hold.
ReadOf(h, r) == [i \in DOMAIN r |-> h[r[i]]]

\* The row that a new instance gets comes after those of the others.
LEMMA ReadOn ==
    ASSUME NEW S, NEW h \in Seq(S), NEW r \in Seq(1 .. Len(h)), NEW x \in S
    PROVE  /\ Append(h, x) \in Seq(S) /\ Len(Append(h, x)) = Len(h) + 1
           /\ Append(r, Len(h) + 1) \in Seq(1 .. Len(h) + 1)
           /\ ReadOf(Append(h, x), Append(r, Len(h) + 1)) =
                Append(ReadOf(h, r), x)
           /\ ReadOf(h, r) \in Seq(S)
<1> DEFINE m == Len(h)
           n == Len(r)
           h2 == Append(h, x)
           r2 == Append(r, m + 1)
           read == [i \in DOMAIN r |-> h[r[i]]]
           read2 == [i \in DOMAIN r2 |-> h2[r2[i]]]
<1>1. m \in Nat /\ n \in Nat /\ DOMAIN r = 1 .. n
      /\ \A i \in 1 .. n : r[i] \in 1 .. m
      /\ \A j \in 1 .. m : h[j] \in S
  OBVIOUS
<1>2. /\ h2 \in Seq(S) /\ Len(h2) = m + 1 /\ h2[m + 1] = x
      /\ \A j \in 1 .. m : h2[j] = h[j]
  BY AppendProperties
<1> HIDE DEF m, h2
<1>3. r \in Seq(1 .. m + 1) /\ m + 1 \in 1 .. m + 1
  BY <1>1 DEF m
<1>4. /\ r2 \in Seq(1 .. m + 1) /\ Len(r2) = n + 1 /\ r2[n + 1] = m + 1
      /\ \A i \in 1 .. n : r2[i] = r[i]
  BY <1>3, AppendProperties
<1>5. DOMAIN r2 = 1 .. n + 1
  BY <1>4
<1> HIDE DEF r2, n
<1>6. read \in [1 .. n -> S]
  BY <1>1
<1>7. read \in Seq(S) /\ Len(read) = n
  <2> HIDE DEF read
  <2> QED
    BY <1>1, <1>6, SequenceOf
<1>8. read2 \in [1 .. n + 1 -> S] /\ read2[n + 1] = x
      /\ \A i \in 1 .. n : read2[i] = read[i]
  <2>1. \A i \in 1 .. n : h2[r2[i]] = h[r[i]] /\ h[r[i]] \in S
    BY <1>1, <1>2, <1>4
  <2>2. h2[r2[n + 1]] = x
    BY <1>2, <1>4
  <2>3. \A i \in 1 .. n + 1 : i \in 1 .. n \/ i = n + 1
    BY <1>1
  <2> QED
    BY <1>1, <1>5, <2>1, <2>2, <2>3
<1>9. read2 \in Seq(S) /\ Len(read2) = n + 1
  <2> HIDE DEF read2
  <2> QED
    BY <1>1, <1>8, SequenceOf
<1> HIDE DEF read, read2
<1>10. /\ Append(read, x) \in Seq(S) /\ Len(Append(read, x)) = n + 1
       /\ Append(read, x)[n + 1] = x
       /\ \A i \in 1 .. n : Append(read, x)[i] = read[i]
  BY <1>7, AppendProperties
<1>11. \A i \in 1 .. n + 1 : read2[i] = Append(read, x)[i]
  BY <1>1, <1>8, <1>10
<1>12. read2 = Append(read, x)
  BY <1>9, <1>10, <1>11, SeqEqual
<1> QED
  BY <1>2, <1>4, <1>7, <1>12 DEF m, h2, r2, read, read2, ReadOf

\* The table has a row for each of its numbers.
LEMMA TableIs ==
    /\ Len(Table) \in Nat /\ DOMAIN Table = Numbers
    /\ \A i \in Numbers : Table[i] \in Rows
BY TableAssumption DEF Numbers

\* The types hold before the first call.
LEMMA TypeInit ==
    Init => TypeInv
<1> SUFFICES ASSUME Init PROVE TypeInv
  OBVIOUS
<1>1. CondTypeOK
  BY DEF Init, CondInit, CondTypeOK
<1>2. /\ table = Table /\ rows = <<>> /\ heap = <<>> /\ result = <<>>
      /\ outcome = "start"
  BY DEF Init
<1>3. \A S : <<>> \in Seq(S)
  OBVIOUS
<1> QED
  BY <1>1, <1>2, <1>3, TableIs DEF TypeInv

\* Calls to Filter and Exclude keep the types of the conditions.
LEMMA CondTypeKept ==
    ASSUME CondTypeOK, NEW c, Filter(c) \/ Exclude(c)
    PROVE  CondTypeOK'
<1>1. meant \subseteq Rows
  BY DEF CondTypeOK
<1>2. CASE Filter(c)
  <2>1. cond' \in Conditioners /\ wrong' \in BOOLEAN /\ meant' \subseteq meant
    BY <1>2, FilterIs
  <2> QED
    BY <1>1, <2>1 DEF CondTypeOK
<1>3. CASE Exclude(c)
  <2>1. cond' \in Conditioners /\ wrong' \in BOOLEAN /\ meant' \subseteq meant
    BY <1>3, ExcludeIs
  <2> QED
    BY <1>1, <2>1 DEF CondTypeOK
<1> QED
  BY <1>2, <1>3

\* A query leaves a cursor over rows of the table and one container, or nothing.
LEMMA QueryTypes ==
    ASSUME TypeInv, outcome = "start", CondTypeOK', NEW op, NEW c,
           NEW from \in Int, NEW to \in Int, ~RangeRefused(from, to),
           Query(op, c, from, to)
    PROVE  TypeInv'
<1>1. /\ DOMAIN table \subseteq Numbers
      /\ \A i \in DOMAIN table : table[i] \in Rows
      /\ rows \in Seq(DOMAIN table)
      /\ heap \in Seq(0 .. Len(Table))
      /\ result \in Seq(1 .. Len(heap)) /\ result = <<>>
  BY DEF TypeInv
<1>2. table' = table /\ result' = <<>> /\ result' \in Seq(1 .. Len(heap'))
  BY <1>1 DEF Query
<1>3. outcome' \in {"loop", "error", "panic"}
  BY DEF Query
<1>4. rows' \in Seq(DOMAIN table') /\ heap' \in Seq(0 .. Len(Table))
  <2>1. CASE rows' = rows /\ heap' = heap
    BY <1>1, <1>2, <2>1
  <2>2. CASE heap' = <<0>> /\ rows' = GetRows(Matching(c, <<>>), from, to)
    <3>1. Matching(c, <<>>) \in Seq(DOMAIN table)
      BY <1>1, MatchingIs
    <3>2. GetRows(Matching(c, <<>>), from, to) \in Seq(DOMAIN table)
      BY <3>1, GetRowsType
    <3>3. <<0>> \in Seq(0 .. Len(Table))
      BY TableIs
    <3> QED
      BY <1>2, <2>2, <3>2, <3>3
  <2> QED
    BY <2>1, <2>2 DEF Query
<1> QED
  BY <1>1, <1>2, <1>3, <1>4 DEF TypeInv

\* What Update assigns are values.
LEMMA AssignedIs ==
    ASSUME NEW values \in Updates
    PROVE  /\ Assigned(values) \in Seq(Values)
           /\ \A k \in DOMAIN values : values[k][2] \in Values
<1>1. values \in Seq(Columns \X Values)
  BY TableAssumption
<1>2. \A k \in DOMAIN values : values[k][2] \in Values
  BY <1>1
<1>3. Assigned(values) \in [1 .. Len(values) -> Values] /\ Len(values) \in Nat
  BY <1>1, <1>2 DEF Assigned
<1>4. Assigned(values) \in Seq(Values)
  BY <1>3, SequenceOf
<1> QED
  BY <1>2, <1>4

\* What Update leaves of a row is a row.
LEMMA SetIsRow ==
    ASSUME NEW values \in Updates, NEW row \in Rows
    PROVE  Set(row, values) \in Rows
<1>1. ASSUME NEW col \in Columns, \E k \in DOMAIN values : values[k][1] = col
      PROVE  values[CHOOSE k \in DOMAIN values : values[k][1] = col][2] \in Values
  BY <1>1, AssignedIs
<1> QED
  BY <1>1 DEF Set, Rows

\* A statement that writes leaves rows of the table.
LEMMA WrittenTypes ==
    ASSUME TypeInv, NEW op, NEW new, Written(op, new),
           DOMAIN new \subseteq DOMAIN table, \A i \in DOMAIN new : new[i] \in Rows
    PROVE  TypeInv'
<1>1. /\ DOMAIN table \subseteq Numbers
      /\ \A i \in DOMAIN table : table[i] \in Rows
      /\ heap \in Seq(0 .. Len(Table))
      /\ result \in Seq(1 .. Len(heap))
      /\ outcome = "start" /\ rows = <<>> /\ CondTypeOK
  BY DEF TypeInv, Written
<1>2. /\ rows' = <<>> /\ heap' = heap /\ result' = result
      /\ outcome' \in {"ok", "error"} /\ table' \in {new, table}
      /\ UNCHANGED condVars
  BY <1>1 DEF Written, loopVars
<1>3. CondTypeOK'
  BY <1>1, <1>2 DEF CondTypeOK, condVars
<1>4. rows' \in Seq(DOMAIN table')
  BY <1>2
<1>5. /\ DOMAIN table' \subseteq Numbers
      /\ \A i \in DOMAIN table' : table'[i] \in Rows
  BY <1>1, <1>2
<1> QED
  BY <1>1, <1>2, <1>3, <1>4, <1>5 DEF TypeInv

\* Every step keeps the types.
LEMMA TypeStep ==
    ASSUME TypeInv, [Next]_vars
    PROVE  TypeInv'
<1>0. /\ DOMAIN table \subseteq Numbers
      /\ \A i \in DOMAIN table : table[i] \in Rows
      /\ rows \in Seq(DOMAIN table)
      /\ heap \in Seq(0 .. Len(Table))
      /\ result \in Seq(1 .. Len(heap)) /\ CondTypeOK
      /\ outcome = "start" =>
            table = Table /\ rows = <<>> /\ heap = <<>> /\ result = <<>>
  BY DEF TypeInv
<1>1. CASE Narrow
  <2>1. /\ table' = table /\ rows' = rows /\ heap' = heap /\ result' = result
        /\ outcome' = outcome
    BY <1>1 DEF Narrow, loopVars
  <2>2. CondTypeOK'
    BY <1>0, <1>1, CondTypeKept DEF Narrow
  <2> QED
    BY <2>1, <2>2 DEF TypeInv
<1>2. ASSUME NEW from \in Indexes, NEW to \in Indexes, Slice(from, to)
      PROVE  TypeInv'
  <2>1. from \in Int /\ to \in Int
    BY TableAssumption
  <2>2. CondTypeOK' /\ outcome = "start"
    BY <1>0, <1>2 DEF Slice, condVars, CondTypeOK
  <2>3. CASE ~RangeRefused(from, to) /\ Query("slice", cond, from, to)
    BY <2>1, <2>2, <2>3, QueryTypes
  <2>4. CASE outcome' = "refused" /\ UNCHANGED <<table, kind, call, loopVars>>
    BY <1>0, <2>2, <2>4 DEF TypeInv, loopVars
  <2> QED
    BY <1>2, <2>3, <2>4 DEF Slice
<1>3. ASSUME NEW c \in Filters, Get(c)
      PROVE  TypeInv'
  <2>1. /\ outcome = "start" /\ Filter(c)
        /\ Query("get", addConditioner(c), 0, 2)
    BY <1>3 DEF Get
  <2>2. CondTypeOK'
    BY <1>0, <2>1, CondTypeKept
  <2>3. ~RangeRefused(0, 2) /\ 0 \in Int /\ 2 \in Int
    BY DEF RangeRefused
  <2> QED
    BY <2>1, <2>2, <2>3, QueryTypes
<1>4. CASE LoadRow
  <2>1. /\ rows # <<>> /\ rows' = Tail(rows) /\ heap' = Append(heap, Head(rows))
        /\ result' = Append(result, Len(heap')) /\ table' = table
        /\ outcome = "loop" /\ outcome' = outcome /\ UNCHANGED condVars
    BY <1>4 DEF LoadRow
  <2>2. Head(rows) \in DOMAIN table /\ Tail(rows) \in Seq(DOMAIN table)
    BY <1>0, <2>1
  <2>3. Head(rows) \in 0 .. Len(Table)
    BY <1>0, <2>2, TableIs DEF Numbers
  <2>4. /\ heap' \in Seq(0 .. Len(Table)) /\ Len(heap') = Len(heap) + 1
        /\ result' \in Seq(1 .. Len(heap'))
    <3>1. /\ Append(heap, Head(rows)) \in Seq(0 .. Len(Table))
          /\ Len(Append(heap, Head(rows))) = Len(heap) + 1
          /\ Append(result, Len(heap) + 1) \in Seq(1 .. Len(heap) + 1)
      BY <1>0, <2>3, ReadOn
    <3> QED
      BY <2>1, <3>1
  <2>5. CondTypeOK'
    BY <1>0, <2>1 DEF condVars, CondTypeOK
  <2> QED
    BY <1>0, <2>1, <2>2, <2>4, <2>5 DEF TypeInv
<1>5. CASE GetRow
  <2>1. /\ rows # <<>> /\ rows' = Tail(rows) /\ table' = table
        /\ outcome = "loop" /\ outcome' \in {"loop", "multiple"}
        /\ UNCHANGED condVars
        /\ \/ heap' = <<Head(rows)>> /\ result' = <<1>>
           \/ heap' = heap /\ result' = result
    BY <1>5 DEF GetRow
  <2>2. Head(rows) \in DOMAIN table /\ Tail(rows) \in Seq(DOMAIN table)
    BY <1>0, <2>1
  <2>3. Head(rows) \in 0 .. Len(Table)
    BY <1>0, <2>2, TableIs DEF Numbers
  <2>4. heap' \in Seq(0 .. Len(Table)) /\ result' \in Seq(1 .. Len(heap'))
    <3>1. /\ <<Head(rows)>> \in Seq(0 .. Len(Table)) /\ Len(<<Head(rows)>>) = 1
          /\ <<1>> \in Seq(1 .. 1)
      BY <2>3
    <3> QED
      BY <1>0, <2>1, <3>1
  <2>5. CondTypeOK'
    BY <1>0, <2>1 DEF condVars, CondTypeOK
  <2> QED
    BY <1>0, <2>1, <2>2, <2>4, <2>5 DEF TypeInv
<1>6. CASE ScanFails \/ Break \/ Done
  <2>1. /\ UNCHANGED <<condVars, table, rows, heap, result>>
        /\ outcome = "loop" /\ outcome' \in {"loop", "error", "ok", "missing", "found"}
    BY <1>6 DEF ScanFails, Break, Done, loopVars
  <2> QED
    BY <1>0, <2>1 DEF TypeInv, condVars, CondTypeOK
<1>7. ASSUME NEW values \in Updates, Update(values)
      PROVE  TypeInv'
  <2> DEFINE all == Matching(cond, Assigned(values))
             hit == {all[i] : i \in DOMAIN all}
             new == [i \in DOMAIN table |->
                        IF i \in hit THEN Set(table[i], values) ELSE table[i]]
  <2>1. Written("update", new)
    BY <1>7 DEF Update
  <2> HIDE DEF hit
  <2>2. DOMAIN new = DOMAIN table /\ \A i \in DOMAIN new : new[i] \in Rows
    BY <1>0, SetIsRow
  <2> HIDE DEF new
  <2> QED
    BY <2>1, <2>2, WrittenTypes
<1>8. CASE Delete
  <2> DEFINE all == Matching(cond, <<>>)
             hit == {all[i] : i \in DOMAIN all}
             new == [i \in DOMAIN table \ hit |-> table[i]]
  <2>1. Written("delete", new)
    BY <1>8 DEF Delete
  <2> HIDE DEF hit
  <2>2. DOMAIN new \subseteq DOMAIN table /\ \A i \in DOMAIN new : new[i] \in Rows
    BY <1>0
  <2> HIDE DEF new
  <2> QED
    BY <2>1, <2>2, WrittenTypes
<1>9. CASE UNCHANGED vars
  BY <1>9 DEF vars, condVars, loopVars, TypeInv, CondTypeOK
<1> QED
  BY <1>1, <1>2, <1>3, <1>4, <1>5, <1>6, <1>7, <1>8, <1>9 DEF Next

------------------------------------------------------------------------------
(* Load, Slice and Get *)

\* What a query is for stays the same while its cursor is read.
LEMMA WantedSame ==
    ASSUME UNCHANGED <<cond, table, call>>
    PROVE  Wanted' = Wanted
BY DEF Wanted, Matching

\* A query is for the rows its cursor gives.
LEMMA WantedNew ==
    ASSUME NEW op, NEW c, NEW from, NEW to, Query(op, c, from, to), cond' = c
    PROVE  Wanted' = GetRows(Matching(c, <<>>), from, to)
<1>1. table' = table /\ call'.from = from /\ call'.to = to
  BY DEF Query
<1> QED
  BY <1>1 DEF Wanted, Matching

\* Nothing is read when there are no instances.
LEMMA ReadNothing ==
    /\ result = <<>> => Read = <<>>
    /\ result' = <<>> => Read' = <<>>
BY DEF Read

\* A query starts its loop with all it is for.
LEMMA LoopQuery ==
    ASSUME TypeInv, outcome = "start", NEW op \in {"slice", "get"}, NEW c,
           NEW from \in Int, NEW to \in Int, ~RangeRefused(from, to),
           Query(op, c, from, to), cond' = c, op = "get" => from = 0 /\ to = 2
    PROVE  LoopInv'
<1>1. /\ call'.op = op /\ call'.from = from /\ call'.to = to
      /\ result' = result /\ result = <<>>
      /\ \/ outcome' \in {"error", "panic"}
         \/ outcome' = "loop" /\ rows' = GetRows(Matching(c, <<>>), from, to)
  BY DEF Query, TypeInv
<1>2. CASE outcome' \in {"error", "panic"}
  BY <1>2 DEF LoopInv, SliceInv, GetInv
<1>3. CASE outcome' = "loop" /\ rows' = GetRows(Matching(c, <<>>), from, to)
  <2>1. rows' = Wanted' /\ Read' = <<>>
    BY <1>1, <1>3, WantedNew, ReadNothing
  <2>2. rows' \in Seq(DOMAIN table)
    <3>1. Matching(c, <<>>) \in Seq(DOMAIN table)
      BY MatchingIs DEF TypeInv
    <3> QED
      BY <1>3, <3>1, GetRowsType
  <2>3. Read' \o rows' = Wanted'
    BY <2>1, <2>2, ConcatEmptySeq
  <2>4. SliceInv'
    BY <1>1, <1>3, <2>3 DEF SliceInv
  <2>5. GetInv'
    BY <1>1, <1>3, <2>1 DEF GetInv
  <2> QED
    BY <1>1, <1>3, <2>4, <2>5 DEF LoopInv
<1> QED
  BY <1>1, <1>2, <1>3

\* The loop of Load takes a row from the cursor and gives it an instance.
LEMMA LoopLoadRow ==
    ASSUME TypeInv, LoopInv, LoadRow
    PROVE  LoopInv'
<1>1. /\ outcome = "loop" /\ call.op = "slice" /\ rows # <<>>
      /\ outcome' = "loop" /\ rows' = Tail(rows)
      /\ heap' = Append(heap, Head(rows))
      /\ result' = Append(result, Len(heap'))
      /\ UNCHANGED <<cond, table, call>>
  BY DEF LoadRow, condVars
<1>2. /\ rows \in Seq(DOMAIN table) /\ heap \in Seq(0 .. Len(Table))
      /\ result \in Seq(1 .. Len(heap)) /\ DOMAIN table \subseteq 0 .. Len(Table)
  BY TableIs DEF TypeInv, Numbers
<1>3. /\ call.from \in Int /\ call.to \in Int
      /\ ~RangeRefused(call.from, call.to)
      /\ Read \o rows = Wanted
  BY <1>1 DEF LoopInv, SliceInv
<1> DEFINE S == 0 .. Len(Table)
           x == Head(rows)
<1>4. x \in S /\ rows \in Seq(S) /\ Tail(rows) \in Seq(S)
      /\ rows = <<x>> \o Tail(rows)
  <2>1. rows \in Seq(S)
    BY <1>2
  <2> HIDE DEF S
  <2>2. Head(rows) \in S /\ Tail(rows) \in Seq(S)
    BY <1>1, <2>1
  <2>3. rows = <<Head(rows)>> \o Tail(rows)
    BY <1>1, <2>1
  <2> QED
    BY <2>1, <2>2, <2>3
<1>5. Read' = Append(Read, x) /\ Read \in Seq(S)
  <2> HIDE DEF S, x
  <2>1. /\ Len(Append(heap, x)) = Len(heap) + 1
        /\ ReadOf(Append(heap, x), Append(result, Len(heap) + 1)) =
            Append(ReadOf(heap, result), x)
        /\ ReadOf(heap, result) \in Seq(S)
    <3>1. heap \in Seq(S) /\ result \in Seq(1 .. Len(heap))
      BY <1>2 DEF S
    <3> QED
      BY <1>4, <3>1, ReadOn
  <2>2. heap' = Append(heap, x) /\ result' = Append(result, Len(heap) + 1)
    BY <1>1, <2>1 DEF x
  <2> QED
    BY <2>1, <2>2 DEF Read, ReadOf
<1>6. Read' \o rows' = Read \o rows
  <2> HIDE DEF S, x
  <2>1. Append(Read, x) = Read \o <<x>> /\ <<x>> \in Seq(S)
    BY <1>4, <1>5, AppendIsConcat
  <2>2. (Read \o <<x>>) \o Tail(rows) = Read \o (<<x>> \o Tail(rows))
    BY <1>4, <1>5, <2>1, ConcatAssociative
  <2> QED
    BY <1>1, <1>4, <1>5, <2>1, <2>2
<1>7. Wanted' = Wanted
  BY <1>1, WantedSame
<1>8. call' = call
  BY <1>1
<1> QED
  BY <1>1, <1>3, <1>6, <1>7, <1>8 DEF LoopInv, SliceInv, GetInv

\* The loop of Get takes the first row, and stops at the second.
LEMMA LoopGetRow ==
    ASSUME TypeInv, LoopInv, GetRow
    PROVE  LoopInv'
<1>1. /\ outcome = "loop" /\ call.op = "get" /\ rows # <<>>
      /\ rows' = Tail(rows) /\ UNCHANGED <<cond, table, call>>
      /\ \/ /\ result = <<>> /\ heap' = <<Head(rows)>> /\ result' = <<1>>
            /\ outcome' = "loop"
         \/ /\ result # <<>> /\ heap' = heap /\ result' = result
            /\ outcome' = "multiple"
  BY DEF GetRow, condVars
<1>2. /\ call.from = 0 /\ call.to = 2
      /\ result = <<>> => rows = Wanted
      /\ result # <<>> => /\ Wanted # <<>> /\ Read = <<Wanted[1]>>
                          /\ rows = Tail(Wanted)
  BY <1>1 DEF LoopInv, GetInv
<1>3. Wanted' = Wanted /\ call' = call
  BY <1>1, WantedSame
<1>4. CASE result = <<>>
  <2>1. /\ heap' = <<Head(rows)>> /\ result' = <<1>> /\ outcome' = "loop"
        /\ rows = Wanted
    BY <1>1, <1>2, <1>4
  <2>2. Head(rows) = Wanted[1]
    BY <2>1, <1>1 DEF TypeInv
  <2>3. Read' = <<Wanted[1]>>
    BY <2>1, <2>2 DEF Read
  <2> QED
    BY <1>1, <1>2, <1>3, <2>1, <2>3 DEF LoopInv, SliceInv, GetInv
<1>5. CASE result # <<>>
  <2>1. /\ heap' = heap /\ result' = result /\ outcome' = "multiple"
        /\ Wanted # <<>> /\ Read = <<Wanted[1]>> /\ Tail(Wanted) # <<>>
    BY <1>1, <1>2, <1>5
  <2>2. Read' = Read
    BY <2>1 DEF Read
  <2> QED
    BY <1>1, <1>2, <1>3, <1>5, <2>1, <2>2 DEF LoopInv, SliceInv, GetInv
<1> QED
  BY <1>4, <1>5

\* Every step keeps what the loops have read.
LEMMA LoopStep ==
    ASSUME TypeInv, LoopInv, [Next]_vars
    PROVE  LoopInv'
<1>1. CASE Narrow
  <2>1. outcome = "start" /\ outcome' = outcome
    BY <1>1 DEF Narrow
  <2> QED
    BY <2>1 DEF LoopInv, SliceInv, GetInv
<1>2. ASSUME NEW from \in Indexes, NEW to \in Indexes, Slice(from, to)
      PROVE  LoopInv'
  <2>1. from \in Int /\ to \in Int
    BY TableAssumption
  <2>2. outcome = "start" /\ cond' = cond
    BY <1>2 DEF Slice, condVars
  <2>3. CASE ~RangeRefused(from, to) /\ Query("slice", cond, from, to)
    BY <2>1, <2>2, <2>3, LoopQuery
  <2>4. CASE outcome' = "refused"
    BY <2>4 DEF LoopInv, SliceInv, GetInv
  <2> QED
    BY <1>2, <2>3, <2>4 DEF Slice
<1>3. ASSUME NEW c \in Filters, Get(c)
      PROVE  LoopInv'
  <2>1. /\ outcome = "start" /\ cond' = addConditioner(c)
        /\ Query("get", addConditioner(c), 0, 2)
    BY <1>3 DEF Get, Filter
  <2>2. ~RangeRefused(0, 2) /\ 0 \in Int /\ 2 \in Int
    BY DEF RangeRefused
  <2> QED
    BY <2>1, <2>2, LoopQuery
<1>4. CASE LoadRow
  BY <1>4, LoopLoadRow
<1>5. CASE GetRow
  BY <1>5, LoopGetRow
<1>6. CASE ScanFails
  <2>1. outcome' = "error"
    BY <1>6 DEF ScanFails
  <2> QED
    BY <2>1 DEF LoopInv, SliceInv, GetInv
<1>7. CASE Break
  <2>1. /\ UNCHANGED <<cond, table, call, rows, heap, result, outcome>>
        /\ outcome = "loop"
    BY <1>7 DEF Break, condVars
  <2>2. Wanted' = Wanted /\ Read' = Read
    BY <2>1, WantedSame DEF Read
  <2> QED
    BY <2>1, <2>2 DEF LoopInv, SliceInv, GetInv
<1>8. CASE Done
  <2>1. /\ UNCHANGED <<cond, table, call, rows, heap, result, broken>>
        /\ outcome = "loop" /\ (broken \/ rows = <<>>)
        /\ outcome' = IF call.op = "slice" THEN (IF broken THEN "error" ELSE "ok")
                      ELSE IF result = <<>> THEN "missing" ELSE "found"
    BY <1>8 DEF Done, condVars, loopVars
  <2>2. Wanted' = Wanted /\ Read' = Read
    BY <2>1, WantedSame DEF Read
  <2>3. CASE call.op = "slice"
    BY <2>1, <2>2, <2>3 DEF LoopInv, SliceInv, GetInv
  <2>4. CASE call.op = "get"
    BY <2>1, <2>2, <2>4 DEF LoopInv, SliceInv, GetInv
  <2> QED
    BY <2>1, <2>3, <2>4 DEF LoopInv
<1>9. CASE (\E values \in Updates : Update(values)) \/ Delete
  <2>1. call'.op \in {"update", "delete"} /\ outcome' \in {"ok", "error"}
    BY <1>9 DEF Update, Delete, Written
  <2> QED
    BY <2>1 DEF LoopInv, SliceInv, GetInv
<1>10. CASE UNCHANGED vars
  <2>1. UNCHANGED <<cond, table, call, rows, heap, result, broken, outcome>>
    BY <1>10 DEF vars, condVars, loopVars
  <2>2. Wanted' = Wanted /\ Read' = Read
    BY <2>1, WantedSame DEF Read
  <2> QED
    BY <2>1, <2>2 DEF LoopInv, SliceInv, GetInv
<1> QED
  BY <1>1, <1>2, <1>3, <1>4, <1>5, <1>6, <1>7, <1>8, <1>9, <1>10 DEF Next

\* What a loop that ended has read is what the slice asked for.
LEMMA LoadOfLoop ==
    ASSUME TypeInv, LoopInv
    PROVE  LoadIsSlice
<1> SUFFICES ASSUME call.op = "slice", outcome = "ok" PROVE LoadIsSlice
  BY DEF LoadIsSlice
<1> DEFINE all == Matching(cond, <<>>)
           last == IF call.to = -1 \/ call.to > Len(all) THEN Len(all) ELSE call.to
<1>1. /\ call.from \in Int /\ call.to \in Int /\ ~RangeRefused(call.from, call.to)
      /\ Read \o rows = Wanted /\ rows = <<>>
  BY DEF LoopInv, SliceInv
<1>2. all \in Seq(DOMAIN table)
  BY MatchingIs DEF TypeInv
<1>3. GetRows(all, call.from, call.to) = SubSeq(all, call.from + 1, last)
  <2> HIDE DEF all
  <2> QED
    BY <1>1, <1>2, GetRowsType
<1>4. Read \in Seq(0 .. Len(Table))
  <2>1. heap \in Seq(0 .. Len(Table)) /\ result \in Seq(1 .. Len(heap))
    BY DEF TypeInv
  <2>2. 0 \in 0 .. Len(Table)
    BY TableIs
  <2>3. ReadOf(heap, result) \in Seq(0 .. Len(Table))
    BY <2>1, <2>2, ReadOn
  <2> QED
    BY <2>3 DEF Read, ReadOf
<1>5. Read = Wanted
  BY <1>1, <1>4, ConcatEmptySeq
<1> QED
  BY <1>3, <1>5 DEF LoadIsSlice, Wanted

\* A sequence is empty when it has no length.
LEMMA EmptyIs ==
    ASSUME NEW S, NEW s \in Seq(S)
    PROVE  Len(s) \in Nat /\ (s = <<>> <=> Len(s) = 0)
OBVIOUS

\* The first rows, at most two, that Get asks for.
LEMMA FirstTwo ==
    ASSUME NEW S, NEW all \in Seq(S)
    PROVE  LET two == GetRows(all, 0, 2)
           IN  /\ two = <<>> <=> all = <<>>
               /\ two # <<>> =>
                    two[1] = all[1] /\ (Tail(two) = <<>> <=> Len(all) = 1)
<1> DEFINE n == Len(all)
           two == GetRows(all, 0, 2)
           last == IF 2 > n THEN n ELSE 2
<1>1. n \in Nat /\ (n = 0 <=> all = <<>>) /\ \A i \in 1 .. n : all[i] \in S
  OBVIOUS
<1>2. ~RangeRefused(0, 2) /\ 0 \in Int /\ 2 \in Int
  BY DEF RangeRefused
<1>3. two \in Seq(S) /\ two = SubSeq(all, 1, last)
  BY <1>2, GetRowsType
<1> HIDE DEF two, n
<1>4. last \in Int /\ \A i \in 1 .. last : all[i] \in S
  BY <1>1
<1> HIDE DEF last
<1>5. /\ Len(two) = IF 1 <= last THEN last - 1 + 1 ELSE 0
      /\ \A i \in 1 .. last - 1 + 1 : two[i] = all[1 + i - 1]
  BY <1>3, <1>4, SubSeqProperties
<1>6. /\ Len(two) = IF 2 > n THEN n ELSE 2
      /\ Len(two) > 0 => two[1] = all[1]
  <2>1. Len(two) = last
    BY <1>1, <1>4, <1>5 DEF last
  <2>2. last > 0 => two[1] = all[1]
    BY <1>4, <1>5
  <2> QED
    BY <2>1, <2>2 DEF last
<1>7. Len(two) \in Nat /\ (two = <<>> <=> Len(two) = 0)
  BY <1>3, EmptyIs
<1>8. two # <<>> => Tail(two) \in Seq(S) /\ Len(Tail(two)) = Len(two) - 1
  BY <1>3, HeadTailProperties
<1>9. two # <<>> => (Tail(two) = <<>> <=> Len(two) = 1)
  <2> SUFFICES ASSUME two # <<>> PROVE Tail(two) = <<>> <=> Len(two) = 1
    OBVIOUS
  <2> DEFINE tail == Tail(two)
  <2>1. tail \in Seq(S) /\ Len(tail) = Len(two) - 1
    BY <1>8
  <2> HIDE DEF tail
  <2>2. tail = <<>> <=> Len(tail) = 0
    BY <2>1, EmptyIs
  <2>3. tail = <<>> <=> Len(two) = 1
    BY <1>7, <2>1, <2>2
  <2> QED
    BY <2>3 DEF tail
<1>10. two = <<>> <=> all = <<>>
  BY <1>1, <1>6, <1>7
<1>11. two # <<>> => two[1] = all[1] /\ (Len(two) = 1 <=> n = 1)
  BY <1>1, <1>6, <1>7
<1>12. two # <<>> => two[1] = all[1] /\ (Tail(two) = <<>> <=> n = 1)
  BY <1>9, <1>11
<1> QED
  BY <1>10, <1>12 DEF two, n

\* What Get returns follows from what it has read.
LEMMA GetOfLoop ==
    ASSUME TypeInv, LoopInv
    PROVE  GetIsExact
<1> DEFINE all == Matching(cond, <<>>)
<1> SUFFICES ASSUME outcome \in {"found", "missing", "multiple"}
             PROVE  GetIsExact
  BY DEF GetIsExact
<1>1. /\ call.from = 0 /\ call.to = 2
      /\ result = <<>> => rows = Wanted /\ outcome \in {"loop", "missing"}
      /\ result # <<>> =>
            /\ outcome # "missing" /\ Wanted # <<>> /\ Read = <<Wanted[1]>>
            /\ IF outcome = "multiple" THEN Tail(Wanted) # <<>>
               ELSE rows = Tail(Wanted)
      /\ outcome \in {"found", "missing"} => broken \/ rows = <<>>
  BY DEF LoopInv, GetInv
<1>2. Wanted = GetRows(all, 0, 2)
  BY <1>1 DEF Wanted
<1>3. all \in Seq(DOMAIN table)
  BY MatchingIs DEF TypeInv
<1> HIDE DEF all
<1>4. /\ Wanted = <<>> <=> all = <<>>
      /\ Wanted # <<>> =>
            Wanted[1] = all[1] /\ (Tail(Wanted) = <<>> <=> Len(all) = 1)
  BY <1>2, <1>3, FirstTwo
<1>6. outcome = "found" =>
        all # <<>> /\ Read = <<all[1]>> /\ (broken \/ Len(all) = 1)
  BY <1>1, <1>4
<1>7. outcome = "missing" => broken \/ all = <<>>
  BY <1>1, <1>4
<1>8. outcome = "multiple" => Len(all) > 1
  <2> SUFFICES ASSUME outcome = "multiple" PROVE Len(all) > 1
    OBVIOUS
  <2>1. Wanted # <<>> /\ Tail(Wanted) # <<>>
    BY <1>1
  <2>2. all # <<>> /\ Len(all) # 1
    BY <1>4, <2>1
  <2>3. Len(all) \in Nat /\ Len(all) # 0
    BY <1>3, <2>2, EmptyIs
  <2>4. \A n \in Nat : n # 0 /\ n # 1 => n > 1
    OBVIOUS
  <2> QED
    BY <2>2, <2>3, <2>4
<1> QED
  BY <1>6, <1>7, <1>8 DEF GetIsExact, all

------------------------------------------------------------------------------
(* Statements *)

\* Every step keeps the invariant of the conditions.
LEMMA CondStep ==
    ASSUME NoEmptyQ, CondInv, [Next]_vars
    PROVE  CondInv'
<1>1. ASSUME NEW c \in Filters, Filter(c) PROVE CondInv'
  BY <1>1, FilterKeeps
<1>2. ASSUME NEW c \in Excludes, Exclude(c) PROVE CondInv'
  BY <1>2, ExcludeKeeps
<1>3. CASE UNCHANGED condVars
  BY <1>3 DEF condVars, CondInv, CondTypeOK
<1>4. \/ \E c \in Filters : Filter(c)
      \/ \E c \in Excludes : Exclude(c)
      \/ UNCHANGED condVars
  BY DEF Next, vars, Narrow, Slice, Get, LoadRow, GetRow, ScanFails, Break,
         Done, Update, Delete, Written
<1> QED
  BY <1>1, <1>2, <1>3, <1>4

\* And that of the rows without NULL.
LEMMA FullStep ==
    ASSUME NoEmptyQ, NilTested, CondInv, FullInv, [Next]_vars
    PROVE  FullInv'
<1>1. ASSUME NEW c \in Filters, Filter(c) PROVE FullInv'
  BY <1>1, FilterKeepsFull
<1>2. ASSUME NEW c \in Excludes, Exclude(c) PROVE FullInv'
  BY <1>2, ExcludeKeepsFull
<1>3. CASE UNCHANGED condVars
  BY <1>3 DEF condVars, FullInv
<1>4. \/ \E c \in Filters : Filter(c)
      \/ \E c \in Excludes : Exclude(c)
      \/ UNCHANGED condVars
  BY DEF Next, vars, Narrow, Slice, Get, LoadRow, GetRow, ScanFails, Break,
         Done, Update, Delete, Written
<1> QED
  BY <1>1, <1>2, <1>3, <1>4

\* A statement can be run exactly when none of the calls was a mistake, and it
\* then selects rows that were asked for.
LEMMA RunsMeans ==
    ASSUME NoEmptyQ, CondInv
    PROVE  /\ wrong <=> ~Runs(cond)
           /\ ~wrong =>
                \A assigned \in Seq(Values) : \A from \in SUBSET Rows :
                    /\ Selected(cond, assigned, from) \subseteq meant
                    /\ cond = Null => Selected(cond, assigned, from) = from
                    /\ cond # Null => Selected(cond, assigned, from) =
                            {row \in from : Meaning[cond][row] = "true"}
<1>1. CASE cond = Null
  BY <1>1 DEF CondInv, Runs, Selected
<1>2. CASE cond # Null
  <2>1. /\ cond \in Conditioners /\ cond # Q(<<>>) /\ (wrong <=> Mistaken[cond])
        /\ ~wrong => \A row \in Rows :
                Meaning[cond][row] = "true" => row \in meant
    BY <1>2 DEF CondInv, CondTypeOK
  <2>2. /\ Mistaken[cond] <=> ~Runs(cond)
        /\ ~Mistaken[cond] =>
                \A assigned \in Seq(Values) : \A from \in SUBSET Rows :
                    Selected(cond, assigned, from) =
                        {row \in from : Meaning[cond][row] = "true"}
    BY <2>1, StatementMeans
  <2> QED
    BY <1>2, <2>1, <2>2
<1> QED
  BY <1>1, <1>2

\* Whatever the conditions, the placeholders of a statement match its values.
LEMMA HolesMatch ==
    ASSUME CondTypeOK
    PROVE  PlaceholdersMatch
<1> SUFFICES ASSUME cond # Null, NEW assigned \in {<<>>, << 0 >>, <<0, 0>>}
             PROVE  LET s == Statement(cond, assigned)
                    IN  s.stmt.holes = [k \in DOMAIN s.args |-> Len(assigned) + k]
  BY DEF PlaceholdersMatch
<1> DEFINE p == Len(assigned) + 1
           s == Predicate[cond][p]
<1>1. cond \in Conditioners /\ Len(assigned) \in Nat /\ p \in Nat
  BY DEF CondTypeOK
<1>2. Statement(cond, assigned) = s
  BY DEF Statement
<1>3. s \in Results /\ InPlace(s, p)
  <2> HIDE DEF p
  <2> QED
    BY <1>1, PredicateIs, AnswersInPlace
<1> HIDE DEF s
<1>4. s.args \in Seq(Values) /\ s.stmt.holes = Numbered(p, s.args)
  BY <1>3 DEF Results, InPlace
<1>5. \A k \in Nat : p - 1 + k = Len(assigned) + k
  BY <1>1
<1>6. Numbered(p, s.args) = [k \in DOMAIN s.args |-> Len(assigned) + k]
  BY <1>4, <1>5 DEF Numbered
<1> QED
  BY <1>2, <1>4, <1>6

\* The rows a statement that runs is for are rows that were asked for.
LEMMA MatchingMeant ==
    ASSUME NoEmptyQ, TypeInv, CondInv, Runs(cond), NEW assigned \in Seq(Values)
    PROVE  \A i \in DOMAIN Matching(cond, assigned) :
                table[Matching(cond, assigned)[i]] \in meant
<1> DEFINE from == {table[j] : j \in DOMAIN table}
<1>1. from \in SUBSET Rows
  BY DEF TypeInv
<1> HIDE DEF from
<1>2. Selected(cond, assigned, from) \subseteq meant
  BY <1>1, RunsMeans
<1>3. \A i \in DOMAIN Matching(cond, assigned) :
        table[Matching(cond, assigned)[i]] \in Selected(cond, assigned, from)
  BY MatchingIs DEF TypeInv, from
<1> QED
  BY <1>2, <1>3

\* Every step leaves the rows that were not asked for.
LEMMA OthersStep ==
    ASSUME NoEmptyQ, TypeInv, CondInv, OthersStay, [Next]_vars
    PROVE  OthersStay'
<1>0. outcome = "start" => table = Table
  BY DEF TypeInv
<1>1. CASE Narrow \/ \E c \in Filters : Get(c)
  <2>1. table' = Table
    BY <1>0, <1>1 DEF Narrow, Get, Query
  <2> QED
    BY <2>1 DEF OthersStay
<1>2. CASE UNCHANGED <<table, condVars>>
  BY <1>2 DEF OthersStay, condVars
<1>3. ASSUME NEW values \in Updates, Update(values)
      PROVE  OthersStay'
  <2> DEFINE all == Matching(cond, Assigned(values))
             hit == {all[i] : i \in DOMAIN all}
             new == [i \in DOMAIN table |->
                        IF i \in hit THEN Set(table[i], values) ELSE table[i]]
  <2>1. Written("update", new)
    BY <1>3 DEF Update
  <2>2. Runs(cond) => \A i \in hit : table[i] \in meant
    <3>1. Assigned(values) \in Seq(Values)
      BY AssignedIs
    <3> QED
      BY <3>1, MatchingMeant
  <2> HIDE DEF hit
  <2>3. \A i \in DOMAIN table : i \notin hit => i \in DOMAIN new /\ new[i] = table[i]
    OBVIOUS
  <2>4. /\ table = Table /\ meant' = meant
        /\ (Runs(cond) /\ table' = new) \/ table' = table
    BY <1>0, <2>1 DEF Written, condVars
  <2> HIDE DEF new
  <2> QED
    BY <2>2, <2>3, <2>4 DEF OthersStay
<1>4. CASE Delete
  <2> DEFINE all == Matching(cond, <<>>)
             hit == {all[i] : i \in DOMAIN all}
             new == [i \in DOMAIN table \ hit |-> table[i]]
  <2>1. Written("delete", new)
    BY <1>4 DEF Delete
  <2>2. Runs(cond) => \A i \in hit : table[i] \in meant
    <3>1. <<>> \in Seq(Values)
      OBVIOUS
    <3> QED
      BY <3>1, MatchingMeant
  <2> HIDE DEF hit
  <2>3. \A i \in DOMAIN table : i \notin hit => i \in DOMAIN new /\ new[i] = table[i]
    OBVIOUS
  <2>4. /\ table = Table /\ meant' = meant
        /\ (Runs(cond) /\ table' = new) \/ table' = table
    BY <1>0, <2>1 DEF Written, condVars
  <2> HIDE DEF new
  <2> QED
    BY <2>2, <2>3, <2>4 DEF OthersStay
<1>5. CASE \E from, to \in Indexes : Slice(from, to)
  BY <1>2, <1>5 DEF Slice, Query
<1>6. CASE LoadRow \/ GetRow \/ ScanFails \/ Break \/ Done
  BY <1>2, <1>6 DEF LoadRow, GetRow, ScanFails, Break, Done
<1>7. CASE UNCHANGED vars
  BY <1>2, <1>7 DEF vars
<1> QED
  BY <1>1, <1>3, <1>4, <1>5, <1>6, <1>7 DEF Next

------------------------------------------------------------------------------
(* Theorems *)

\* The invariants hold before the first call.
LEMMA InvInit ==
    Init => TypeInv /\ LoopInv /\ CondInv /\ FullInv /\ OthersStay
<1> SUFFICES ASSUME Init
             PROVE  TypeInv /\ LoopInv /\ CondInv /\ FullInv /\ OthersStay
  OBVIOUS
<1>1. TypeInv
  BY TypeInit
<1>2. outcome = "start" /\ table = Table
  BY DEF Init
<1>3. cond = Null /\ meant = Rows /\ wrong = FALSE
  BY DEF Init, CondInit
<1>4. LoopInv
  BY <1>2 DEF LoopInv, SliceInv, GetInv
<1>5. CondInv /\ FullInv
  BY <1>1, <1>3 DEF CondInv, FullInv, TypeInv
<1>6. OthersStay
  BY <1>2, TableIs DEF OthersStay
<1> QED
  BY <1>1, <1>4, <1>5, <1>6

\* Whatever the conditions, the container and the calls, the variables have
\* their types: what load and Get return are containers that were made, each
\* with a row of the table.
THEOREM QuerySetTyped == Spec => []TypeOK
<1>1. Init => TypeInv
  BY InvInit
<1>2. TypeInv /\ [Next]_vars => TypeInv'
  BY TypeStep
<1>3. TypeInv => TypeOK
  BY TableIs DEF TypeInv, TypeOK
<1> QED
  BY <1>1, <1>2, <1>3, PTL DEF Spec

\* Whatever the conditions, mistaken ones and empty ones too, the k-th
\* placeholder of a predicate stands for the k-th of its values, after those
\* that UpdateRows assigns (predicate, UpdateRows).
THEOREM PlaceholdersMatchValues == Spec => []PlaceholdersMatch
<1>1. Init => TypeInv
  BY InvInit
<1>2. TypeInv /\ [Next]_vars => TypeInv'
  BY TypeStep
<1>3. TypeInv => PlaceholdersMatch
  BY HolesMatch DEF TypeInv
<1> QED
  BY <1>1, <1>2, <1>3, PTL DEF Spec

\* Whatever the table, the slice and the moment the connection breaks, a list
\* that is returned holds each row of the slice once, in order, in an instance
\* of its own (load, GetRows).
THEOREM LoadReturnsSlice == Spec => []LoadIsSlice
<1>1. Init => TypeInv /\ LoopInv
  BY InvInit
<1>2. TypeInv /\ LoopInv /\ [Next]_vars => (TypeInv /\ LoopInv)'
  BY TypeStep, LoopStep
<1>3. TypeInv /\ LoopInv => LoadIsSlice
  BY LoadOfLoop
<1> QED
  BY <1>1, <1>2, <1>3, PTL DEF Spec

\* What Get returns, or the error it returns, is what its comment says of the
\* rows that match, on a connection that holds (Get).
THEOREM GetReturnsTheOne == Spec => []GetIsExact
<1>1. Init => TypeInv /\ LoopInv
  BY InvInit
<1>2. TypeInv /\ LoopInv /\ [Next]_vars => (TypeInv /\ LoopInv)'
  BY TypeStep, LoopStep
<1>3. TypeInv /\ LoopInv => GetIsExact
  BY GetOfLoop
<1> QED
  BY <1>1, <1>2, <1>3, PTL DEF Spec

\* Without an empty Q, conditions without mistakes always give a statement that
\* the database can read, with a value for each placeholder (predicate).
THEOREM StatementsReadable ==
    ASSUME NoEmptyQ
    PROVE  Spec => []StatementInv
<1>1. Init => TypeInv /\ CondInv
  BY InvInit
<1>2. TypeInv /\ CondInv /\ [Next]_vars => (TypeInv /\ CondInv)'
  BY NoEmptyQ, TypeStep, CondStep
<1>3. TypeInv /\ CondInv => StatementInv
  <2> SUFFICES ASSUME TypeInv, CondInv PROVE StatementInv
    OBVIOUS
  <2>1. TypeOK
    BY TableIs DEF TypeInv, TypeOK
  <2>2. Readable
    BY NoEmptyQ, RunsMeans DEF Readable
  <2>3. PlaceholdersMatch
    BY HolesMatch DEF TypeInv
  <2> QED
    BY <2>1, <2>2, <2>3 DEF StatementInv
<1> QED
  BY <1>1, <1>2, <1>3, PTL DEF Spec

\* Without an empty Q, a name or an operator that the model or the engine does
\* not have is an error of every call that reads or writes rows (predicate).
THEOREM MistakesAreErrors ==
    ASSUME NoEmptyQ
    PROVE  Spec => []MistakesSurface
<1>1. Init => CondInv
  BY InvInit
<1>2. CondInv /\ [Next]_vars => CondInv'
  BY NoEmptyQ, CondStep
<1>3. CondInv => MistakesSurface
  BY NoEmptyQ, RunsMeans DEF MistakesSurface
<1> QED
  BY <1>1, <1>2, <1>3, PTL DEF Spec

\* Without an empty Q, and with nil compared with "=" only, the rows a
\* statement selects are rows that Filter and Exclude ask for, and all of those
\* without NULL (Filter, Exclude, predicate).
THEOREM SelectionIsMeant ==
    ASSUME NoEmptyQ, NilTested
    PROVE  Spec => []SelectsMeant
<1>1. Init => CondInv /\ FullInv
  BY InvInit
<1>2. CondInv /\ FullInv /\ [Next]_vars => (CondInv /\ FullInv)'
  BY NoEmptyQ, NilTested, CondStep, FullStep
<1>3. CondInv /\ FullInv => SelectsMeant
  <2> SUFFICES ASSUME CondInv, FullInv, ~wrong PROVE SelectsMeant
    BY DEF SelectsMeant
  <2> DEFINE selected == Selected(cond, <<>>, Rows)
  <2>1. <<>> \in Seq(Values) /\ Rows \in SUBSET Rows
    OBVIOUS
  <2>2. /\ selected \subseteq meant
        /\ cond = Null => selected = Rows
        /\ cond # Null => selected = {row \in Rows : Meaning[cond][row] = "true"}
    BY NoEmptyQ, <2>1, RunsMeans
  <2>3. meant \subseteq Rows
    BY DEF CondInv, CondTypeOK
  <2> HIDE DEF selected
  <2>4. \A row \in meant \ selected : ~Full(row)
    BY <2>2, <2>3 DEF FullInv
  <2> QED
    BY <2>2, <2>4 DEF SelectsMeant, Full, selected
<1> QED
  BY <1>1, <1>2, <1>3, PTL DEF Spec

\* Without an empty Q, Update and Delete touch no row that the conditions leave
\* out, whatever values are assigned in front of those of the predicate, and
\* none when a condition is a mistake (UpdateRows, DeleteRows).
THEOREM OthersUntouched ==
    ASSUME NoEmptyQ
    PROVE  Spec => []OthersStay
<1>1. Init => TypeInv /\ CondInv /\ OthersStay
  BY InvInit
<1>2. TypeInv /\ CondInv /\ OthersStay /\ [Next]_vars
        => (TypeInv /\ CondInv /\ OthersStay)'
  BY NoEmptyQ, TypeStep, CondStep, OthersStep
<1> QED
  BY <1>1, <1>2, PTL DEF Spec
=============================================================================
