---------------------------- MODULE MCHistoryLoad ----------------------------
(***************************************************************************)
(* Instances of HistoryLoad for TLC.                                       *)
(***************************************************************************)
EXTENDS HistoryLoad

CONSTANTS a, b, m, f, g

Ref(app, number, name) == [app |-> app, number |-> number, name |-> name]
AllNodes == {<<a, 1>>, <<a, 2>>, <<b, 1>>}
Good == {Ref(n[1], n[2], "exact") : n \in AllNodes}
Bad == {Ref(a, 1, "other"), Ref(a, 3, "exact"), Ref(b, 0, "exact"),
        Ref("unknown", 1, "exact"), Ref(b, 1, "malformed")}

\* No dependency or one of any kind; two that are well formed.
Lists == {<<>>} \cup {<<r>> : r \in Good \cup Bad}
Pairs == {<<r, s>> : r \in Good, s \in Good}

Ops == (<<a, 1>> :> <<CreateModel(m, {})>>) @@
       (<<a, 2>> :> <<AddFields(m, {f})>>) @@
       (<<b, 1>> :> <<CreateModel(m, {f})>>)

\* Any dependencies between three nodes.
GraphInputs ==
    {[files |-> (a :> <<1, 2>>) @@ (b :> <<1>>), deps |-> d, ops |-> Ops] :
        d \in [AllNodes -> Lists]
              \cup [AllNodes -> {<<>>} \cup Pairs]}

\* Any numbers in the names of up to three files.
NumberInputs ==
    {[files |-> (a :> l) @@ (b :> <<1>>),
      deps |-> [n \in {a, b} \X (1 .. 3) |-> <<>>],
      ops |-> [n \in {a, b} \X (1 .. 3) |-> <<>>]] :
        l \in {<<>>, <<0>>, <<1>>, <<2>>, <<BadName>>, <<0, 1>>, <<1, 1>>,
               <<1, 2>>, <<1, 3>>, <<1, BadName>>, <<1, 2, 3>>, <<1, 1, 2>>,
               <<2, 2, 3>>, <<1, 2, 2>>, <<1, 2, 4>>}}

\* Chained files whose operations may or may not fit.
ChainInputs ==
    {[files |-> (a :> <<1, 2>>) @@ (b :> <<1>>),
      deps |-> (<<a, 1>> :> x) @@ (<<a, 2>> :> <<Ref(a, 1, "exact")>> \o x)
                @@ (<<b, 1>> :> y),
      ops |-> o] :
        x \in {<<>>, <<Ref(b, 1, "exact")>>}, y \in {<<>>, <<Ref(a, 1, "exact")>>,
                                                       <<Ref(a, 2, "exact")>>},
        o \in [AllNodes -> {<<CreateModel(m, {})>>, <<DeleteModel(m)>>,
                            <<AddFields(m, {f})>>, <<RemoveFields(m, {f})>>}]}

\* Four files in a row, the third of which may need b, and b the first or the
\* second: nodes before the fourth that are met twice.
DiamondInputs ==
    {[files |-> (a :> <<1, 2, 3, 4>>) @@ (b :> <<1>>),
      deps |-> (<<a, 1>> :> <<>>) @@ (<<a, 2>> :> <<Ref(a, 1, "exact")>>)
                @@ (<<a, 3>> :> x) @@ (<<a, 4>> :> <<Ref(a, 3, "exact")>>)
                @@ (<<b, 1>> :> y),
      ops |-> (<<a, 1>> :> <<CreateModel(m, {f})>>) @@ (<<a, 2>> :> <<o>>)
                @@ (<<a, 3>> :> <<q>>) @@ (<<a, 4>> :> <<>>)
                @@ (<<b, 1>> :> <<CreateModel(m, {f})>>)] :
        x \in {<<Ref(a, 2, "exact")>>, <<Ref(a, 2, "exact"), Ref(b, 1, "exact")>>,
               <<Ref(b, 1, "exact"), Ref(a, 2, "exact")>>},
        y \in {<<>>, <<Ref(a, 1, "exact")>>, <<Ref(a, 2, "exact")>>},
        o, q \in {DeleteModel(m), CreateModel(m, {g}), AddFields(m, {g}), AddFields(m, {f, g}),
                 RemoveFields(m, {f}), RemoveFields(m, {f, g}),
                 AddIndex(m, g, {f}), RemoveIndex(m, g)}}

AllInputs == GraphInputs \cup NumberInputs \cup ChainInputs \cup DiamondInputs

\* Folders in order: nothing depends on anything, or each file on the last.
RepairedInputs ==
    {[files |-> (a :> <<1, 2>>) @@ (b :> <<1>>), ops |-> Ops,
      deps |-> (<<a, 1>> :> <<>>) @@ (<<a, 2>> :> <<Ref(a, 1, "exact")>>)
                @@ (<<b, 1>> :> x)] :
        x \in {<<>>, <<Ref(a, 2, "exact")>>}}
=============================================================================
