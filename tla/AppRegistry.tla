----------------------------- MODULE AppRegistry -----------------------------
(***************************************************************************)
(* The registry of applications next to that of databases: Register takes  *)
(* applications one by one and their models one by one, and panics on the  *)
(* first that is not right, leaving what it did; Model.Register writes its *)
(* findings into the model itself, where they outlive ClearRegistry and a  *)
(* panic.  Start adds an application of its own, for the model of the      *)
(* applied nodes.                                                          *)
(***************************************************************************)
EXTENDS DbRegistry, Sequences, SequencesExt

CONSTANTS
    Models,         \* the models of the program
    Name,           \* Name[m]: the name of a model
    Def,            \* Def[m]: its definition (see ModelsAssumption)
    Calls,          \* what Register is called with: lists of settings
    Reserved,       \* the application name "gomodel"
    NoKey, Id       \* a model without primary key, and the field "id"

\* A definition has fields declared as primary key, fields declared with an
\* index, perhaps another field named "pk", and indexes and a container that
\* are valid or not.  A setting has the name of an application and its models.
ASSUME ModelsAssumption ==
    /\ DOMAIN Name = Models /\ DOMAIN Def = Models
    /\ \A m \in Models :
        /\ DOMAIN Def[m] = {"pks", "indexed", "namedPk", "validIndexes",
                            "validContainer"}
        /\ IsFiniteSet(Def[m].pks) /\ NoKey \notin Def[m].pks
    /\ Id # NoKey
    /\ \A call \in Calls :
        /\ call \in Seq({call[i] : i \in DOMAIN call})
        /\ \A i \in DOMAIN call :
            /\ DOMAIN call[i] = {"name", "models"}
            /\ call[i].models \in Seq(Models)

VARIABLES
    registry,       \* registry[a]: the models of application a by name
    meta,           \* meta[m]: the key and indexes registering gave the model
    appOf,          \* appOf[m]: the application the model says it is of, m.app
    queue,          \* the settings the running Register has yet to look at
    current,        \* the application it is at, and the models left
    status,         \* what Register came to, or "registering"
    before          \* history: apps, models and call when Register began

appVars == <<registry, meta, appOf, queue, current, status, before>>

Untouched == [pk |-> NoKey, autos |-> {}]

Unknown == [apps |-> {}, meta |-> [m \in Models |-> Untouched], call |-> <<>>]

AppInit ==
    /\ Init
    /\ registry = <<>>
    /\ meta = [m \in Models |-> Untouched]
    /\ appOf = <<>>
    /\ queue = <<>>
    /\ current = [name |-> Reserved, models |-> <<>>]
    /\ status = "none"
    /\ before = Unknown

------------------------------------------------------------------------------
(* Model.Register *)

\* SetupPrimaryKey, the fields in any order: the key it has set by the time it
\* finds an error stays, and a model with a key is not looked at again.
Keys(m) ==
    LET pks == Def[m].pks
    IN  IF meta[m].pk # NoKey THEN {[ok |-> TRUE, pk |-> meta[m].pk]}
        ELSE IF Cardinality(pks) > 1 \/ Def[m].namedPk
        THEN {[ok |-> FALSE, pk |-> k] :
                k \in pks \cup (IF Def[m].namedPk THEN {NoKey} ELSE {})}
        ELSE IF pks = {} THEN {[ok |-> TRUE, pk |-> Id]}
        ELSE {[ok |-> TRUE, pk |-> k] : k \in pks}

\* SetupIndexes: an index named after the application for each field that asks
\* for one, in any order, up to one that is there already.
Autos(m, a) ==
    LET wanted == {a} \X Def[m].indexed
        had == meta[m].autos
    IN  IF ~Def[m].validIndexes THEN {[ok |-> FALSE, autos |-> had]}
        ELSE IF wanted \cap had = {} THEN {[ok |-> TRUE, autos |-> had \cup wanted]}
        ELSE {[ok |-> FALSE, autos |-> had \cup S] : S \in SUBSET (wanted \ had)}

\* Mutant: the container is not looked at.
SetupAnyContainer(m, a) ==
    UNION {IF ~k.ok THEN {[ok |-> FALSE, meta |-> [meta[m] EXCEPT !.pk = k.pk]]}
           ELSE {[ok |-> i.ok, meta |-> [pk |-> k.pk, autos |-> i.autos]] :
                    i \in Autos(m, a)} :
           k \in Keys(m)}

\* Both, and the container.
Setup(m, a) ==
    UNION {IF ~k.ok THEN {[ok |-> FALSE, meta |-> [meta[m] EXCEPT !.pk = k.pk]]}
           ELSE {[ok |-> i.ok /\ Def[m].validContainer,
                  meta |-> [pk |-> k.pk, autos |-> i.autos]] : i \in Autos(m, a)} :
           k \in Keys(m)}

------------------------------------------------------------------------------
(* Register, ClearRegistry *)

Quiet == status # "registering" /\ outcome # "starting"

Register(call) ==
    /\ Quiet
    /\ queue' = call
    /\ current' = [name |-> Reserved, models |-> <<>>]
    /\ status' = "registering"
    /\ before' = [apps |-> DOMAIN registry, meta |-> meta, call |-> call]
    /\ UNCHANGED <<vars, registry, meta, appOf>>

Panic ==
    /\ status' = "panic"
    /\ UNCHANGED <<vars, queue, current, before>>

RegisterApp ==
    /\ status = "registering"
    /\ current.models = <<>>
    /\ queue # <<>>
    /\ LET app == Head(queue).name
       IN  \/ /\ app \in DOMAIN registry \cup {Reserved}
              /\ Panic
              /\ UNCHANGED <<registry, meta, appOf>>
           \/ /\ app \notin DOMAIN registry \cup {Reserved}
              /\ registry' = With(registry, app, <<>>)
              /\ current' = Head(queue)
              /\ queue' = Tail(queue)
              /\ UNCHANGED <<vars, meta, appOf, status, before>>

\* Mutant: the model is added to the application before it is set up.
RegisterModelFirst ==
    /\ status = "registering"
    /\ current.models # <<>>
    /\ LET m == Head(current.models)
           app == current.name
       IN  /\ Name[m] \notin DOMAIN registry[app]
           /\ registry' = [registry EXCEPT ![app] = With(@, Name[m], m)]
           /\ appOf' = With(appOf, m, app)
           /\ \E s \in Setup(m, app) :
                /\ meta' = [meta EXCEPT ![m] = s.meta]
                /\ \/ ~s.ok /\ Panic
                   \/ /\ s.ok
                      /\ current' = [current EXCEPT !.models = Tail(@)]
                      /\ UNCHANGED <<vars, queue, status, before>>

\* A model of a new name is of the application from then on, and stays so when
\* it turns out not to be right.
RegisterModel ==
    /\ status = "registering"
    /\ current.models # <<>>
    /\ LET m == Head(current.models)
           app == current.name
       IN  \/ /\ Name[m] \in DOMAIN registry[app]
              /\ Panic
              /\ UNCHANGED <<registry, meta, appOf>>
           \/ /\ Name[m] \notin DOMAIN registry[app]
              /\ appOf' = With(appOf, m, app)
              /\ \E s \in Setup(m, app) :
                    /\ meta' = [meta EXCEPT ![m] = s.meta]
                    /\ \/ /\ ~s.ok
                          /\ Panic
                          /\ UNCHANGED registry
                       \/ /\ s.ok
                          /\ registry' =
                                [registry EXCEPT ![app] = With(@, Name[m], m)]
                          /\ current' = [current EXCEPT !.models = Tail(@)]
                          /\ UNCHANGED <<vars, queue, status, before>>

Registered ==
    /\ status = "registering"
    /\ current.models = <<>>
    /\ queue = <<>>
    /\ status' = "registered"
    /\ UNCHANGED <<vars, registry, meta, appOf, queue, current, before>>

\* What a Register was about is over when something else is called.
Over ==
    /\ queue' = <<>>
    /\ current' = [name |-> Reserved, models |-> <<>>]
    /\ status' = "none"
    /\ before' = Unknown

\* The application of the migrations goes with the others.
ClearRegistry ==
    /\ Quiet
    /\ registry' = <<>>
    /\ gomodelApp' = FALSE
    /\ Over
    /\ UNCHANGED <<dbRegistry, opened, open, given, options, outcome>>
    /\ UNCHANGED <<meta, appOf>>

AppNext ==
    \/ /\ status # "registering" /\ Next /\ Over
       /\ UNCHANGED <<registry, meta, appOf>>
    \/ \E call \in Calls : Register(call)
    \/ RegisterApp
    \/ RegisterModel
    \/ Registered
    \/ ClearRegistry

AppSpec == AppInit /\ [][AppNext]_<<vars, appVars>>

------------------------------------------------------------------------------
(* Properties *)

\* Every model that can be reached through the registry is ready for use, also
\* after a Register that panicked half way: it has a primary key and the
\* indexes its fields ask for (Model.Register).
ReadyModels ==
    \A a \in DOMAIN registry : \A name \in DOMAIN registry[a] :
        LET m == registry[a][name]
        IN  /\ name = Name[m]
            /\ meta[m].pk # NoKey
            /\ {a} \X Def[m].indexed \subseteq meta[m].autos

\* The application such a model says it is of is there, though another Register
\* may have changed it, or ClearRegistry taken away the one it had
\* (Model.Register).
OwnedModels ==
    \A a \in DOMAIN registry : \A name \in DOMAIN registry[a] :
        LET m == registry[a][name]
        IN  m \in DOMAIN appOf /\ appOf[m] \in DOMAIN registry

\* The types of the databases' part, and models that are ready and owned.
RegistryInv == TypeOK /\ ReadyModels /\ OwnedModels

Asked == {before.call[i] : i \in DOMAIN before.call}
Asks(s) == {s.models[i] : i \in DOMAIN s.models}
Sound(m) ==
    /\ Cardinality(Def[m].pks) <= 1 /\ ~Def[m].namedPk
    /\ Def[m].validIndexes /\ Def[m].validContainer

\* Two settings of one name, or two models of one name in one of them.
Repeated ==
    \/ \E i, j \in DOMAIN before.call :
        i # j /\ before.call[i].name = before.call[j].name
    \/ \E s \in Asked : \E i, j \in DOMAIN s.models :
        i # j /\ Name[s.models[i]] = Name[s.models[j]]

\* Register returns only when every application it was given is there with all
\* its models, and it panics only with a reason: a name that is taken, a model
\* that is not sound, or one that still has the indexes of the last time it
\* was registered under that name.  A model that is not sound gets through
\* only if an earlier panic left it with a key.
RegisterVerdict ==
    /\ status = "registered" => \A s \in Asked :
        /\ s.name \in DOMAIN registry
        /\ \A m \in Asks(s) :
            /\ Name[m] \in DOMAIN registry[s.name]
            /\ Sound(m) \/ before.meta[m].pk # NoKey
    /\ status = "panic" =>
        \/ Repeated
        \/ \E s \in Asked :
            \/ s.name \in before.apps \cup {Reserved}
            \/ \E m \in Asks(s) :
                \/ ~Sound(m)
                \/ \E f \in Def[m].indexed : <<s.name, f>> \in before.meta[m].autos
=============================================================================
