---------------------------- MODULE MCAppRegistry ----------------------------
(***************************************************************************)
(* Two names of applications and three models: one whose key is indexed,   *)
(* one of the same name whose container is not valid, one with two keys.   *)
(***************************************************************************)
EXTENDS AppRegistry

CONSTANTS a, b, main, aux, item, twin, double, f, g

AllNames == (item :> item) @@ (twin :> item) @@ (double :> double)

Declared(pks, indexed, valid) ==
    [pks |-> pks, indexed |-> indexed, namedPk |-> FALSE,
     validIndexes |-> TRUE, validContainer |-> valid]

AllDefs ==
    (item :> Declared({f}, {f}, TRUE)) @@
    (twin :> Declared({}, {}, FALSE)) @@
    (double :> Declared({f, g}, {f, g}, TRUE))

App(name, models) == [name |-> name, models |-> models]

\* One application, or two that share a model or not.
AllCalls ==
    {<<App(name, models)>> :
        name \in {a, b},
        models \in {<<>>, <<item, double>>, <<double, item>>, <<item, twin>>}}
    \cup {<<App(a, <<item>>), App(b, models)>> : models \in {<<>>, <<item>>, <<twin>>}}

AnyDatabases == SUBSET Names
=============================================================================
