-------------------------- MODULE MCSchemaEvolution --------------------------
(***************************************************************************)
(* Instances of SchemaEvolution for TLC.                                   *)
(***************************************************************************)
EXTENDS SchemaEvolution

CONSTANTS m, n, f, g, h, i, j

Def(F, idx) == [fields |-> F, indexes |-> idx]

IndexesOf(p, x) == DOMAIN p[x].indexes

\* The programs without the needy field h.
Usual == {p \in Programs : \A x \in DOMAIN p : h \notin p[x].fields}

\* Models come and go, without indexes.
Plain ==
    {p \in Usual :
        /\ \A x \in DOMAIN p : IndexesOf(p, x) = {}
        /\ n \in DOMAIN p => p[n].fields = {f}}

\* Two models that stay, each with an index name of its own.
Indexed ==
    {p \in Usual :
        /\ DOMAIN p = {m, n}
        /\ f \in p[m].fields /\ IndexesOf(p, m) \subseteq {i}
        /\ p[n].fields = {f} /\ IndexesOf(p, n) \subseteq {j}}

\* One model with any index i, and a second index that can only be over f.
OneModel ==
    {p \in Usual :
        /\ DOMAIN p = {m}
        /\ j \in IndexesOf(p, m) => p[m].indexes[j] = {f}}

\* A model, its index, and the program without it.
Deleted == {m :> Def({f}, i :> {f}), m :> Def({f}, <<>>), <<>>}

\* Two models between which an index moves.
Traded ==
    {p \in Usual :
        /\ DOMAIN p = {m, n}
        /\ p[m].fields = {f} /\ p[n].fields = {f}
        /\ DOMAIN p[m].indexes \cup DOMAIN p[n].indexes = {i}
        /\ DOMAIN p[m].indexes \cap DOMAIN p[n].indexes = {}}

\* A model that gains and loses the needy field h and the plain field g.
Wanting == {<<>>} \cup {m :> Def({f} \cup F, <<>>) : F \in SUBSET {g, h}}

AllHistories == {Plain, Indexed, OneModel, Deleted, Traded, Wanting}
=============================================================================
