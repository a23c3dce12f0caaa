------------------------------ MODULE MCQuerySet ------------------------------
(***************************************************************************)
(* Instances of QuerySet for TLC.                                          *)
(***************************************************************************)
EXTENDS QuerySet, TLC

CONSTANTS a, b, typo, MaxCalls

A1 == Q(<<Cond(a, "=", 1)>>)
ANull == Q(<<Cond(a, "=", Null)>>)
BGt0 == Q(<<Cond(b, ">", 0)>>)
Both == Q(<<Cond(a, "=", 0), Cond(b, "=", 1)>>)
Typo == Q(<<Cond(typo, "=", 1)>>)
Like == Q(<<Cond(a, "like", 1)>>)
Free == Q(<<>>)

\* Simple ones, pairs joined every way, a chain as either operand, mistakes in
\* either place.
Given ==
    {A1, ANull, BGt0, Both, Typo, Like, AndNot(Both, A1), Or(A1, Both), OrNot(BGt0, ANull),
     Or(And(A1, BGt0), AndNot(ANull, Both)), And(A1, Like), AndNot(Typo, A1)}

\* A caller that starts from Q{} and adds its conditions one by one.
FromEmpty == {Free, A1, Typo}

\* What MaxCalls calls to Filter and Exclude make of them, and its parts.
RECURSIVE Made(_, _)
Made(given, n) ==
    IF n = 1 THEN given \cup {AndNot(Free, d) : d \in given}
    ELSE LET before == Made(given, n - 1)
         IN  before \cup {And(c, d) : c \in before, d \in given}
                    \cup {AndNot(c, d) : c \in before, d \in given}

RECURSIVE Parts(_), Joins(_)
Parts(c) == {c} \cup IF c.kind = "q" THEN {} ELSE Parts(c.root) \cup Parts(c.next)
Joins(c) == IF c.kind = "q" THEN 0
            ELSE LET r == Joins(c.root)
                     n == Joins(c.next)
                 IN  1 + IF r > n THEN r ELSE n

MadeOf(given) == {c : c \in UNION {Parts(d) : d \in Made(given, MaxCalls)}}

\* Computed once, and then given to the constants.
AllOfGiven == MadeOf(Given)
AllFromEmpty == MadeOf(FromEmpty)

CondsOf(conditioners) == UNION {{c.conds[k] : k \in DOMAIN c.conds} :
                                c \in {d \in conditioners : d.kind = "q"}}
MadeOfGiven == AllOfGiven
CondsOfGiven == CondsOf(AllOfGiven)
DepthOfGiven == [c \in AllOfGiven |-> Joins(c)]
MadeFromEmpty == AllFromEmpty
CondsFromEmpty == CondsOf(AllFromEmpty)
DepthFromEmpty == [c \in AllFromEmpty |-> Joins(c)]

Row(x, y) == a :> x @@ b :> y
Rows4 == <<Row(1, 1), Row(0, 1), Row(Null, 0), Row(1, Null)>>

\* What the theorems suppose holds of the conditioners of the passing run.
ASSUME Filters = Given => NoEmptyQ /\ NilTested

SliceIndexes == -2 .. 3
UpdateSets == {<<<<b, 0>>>>, <<<<b, 0>>, <<a, 1>>>>}
=============================================================================
