-------------------------- MODULE AppRegistryProofs --------------------------
(***************************************************************************)
(* Proofs about DbRegistry and AppRegistry, for any databases, models and  *)
(* calls: what Start, Stop, Register and a panic in the middle of them     *)
(* leave behind.                                                           *)
(***************************************************************************)
EXTENDS AppRegistry, SequenceTheorems, FiniteSetTheorems, TLAPS

------------------------------------------------------------------------------
(* The registry of databases *)

\* What Start has opened so far of what it was given is not closed.
OpenedSoFar ==
    outcome = "starting" =>
        \A n \in given \ options :
            n \in DOMAIN dbRegistry /\ dbRegistry[n] \in open

DbInv == TypeOK /\ OpenedSoFar /\ StartOpensAll /\ StoppedMeansClosed

\* Nothing is registered at first.
LEMMA DbStarts == Init => DbInv
<1>1. Init => TypeOK
  <2> SUFFICES ASSUME Init
               PROVE  TypeOK
    OBVIOUS
  <2>1. DOMAIN dbRegistry = {} /\ opened \in 0 .. MaxOpens
    BY RegistryAssumption DEF Init
  <2> QED
    BY <2>1 DEF Init, TypeOK
<1> QED
  BY <1>1 DEF Init, DbInv, OpenedSoFar, StartOpensAll, StoppedMeansClosed

\* Start and Stop keep the invariant, and so does what leaves the databases
\* alone.
LEMMA DbKeeps ==
    ASSUME DbInv,
           \/ Next
           \/ /\ UNCHANGED <<dbRegistry, opened, open, given, options,
                            outcome>>
              /\ gomodelApp' \in BOOLEAN
    PROVE  DbInv'
<1> USE DEF DbInv, OpenedSoFar, StartOpensAll, StoppedMeansClosed
<1>1. ASSUME NEW names \in Options, Start(names)
      PROVE  DbInv'
  BY <1>1, RegistryAssumption DEF Start, TypeOK
<1>2. ASSUME NEW n \in Names, OpenDb(n)
      PROVE  DbInv'
  <2>1. /\ opened \in Nat /\ opened' = opened + 1 /\ opened' \in 0 .. MaxOpens
        /\ DOMAIN dbRegistry' = {n} \cup DOMAIN dbRegistry
        /\ dbRegistry'[n] = opened'
        /\ \A k \in DOMAIN dbRegistry : k # n => dbRegistry'[k] = dbRegistry[k]
        /\ open' = open \cup {opened'}
        /\ outcome = "starting" /\ outcome' = outcome /\ given' = given
        /\ options' = options \ {n} /\ gomodelApp' = gomodelApp
    BY <1>2, RegistryAssumption DEF OpenDb, With, TypeOK
  <2>2. TypeOK'
    BY <2>1 DEF TypeOK
  <2>3. OpenedSoFar'
    BY <2>1
  <2> QED
    BY <2>1, <2>2, <2>3
<1>3. ASSUME NEW n \in Names, OpenFails(n)
      PROVE  DbInv'
  BY <1>3 DEF OpenFails, TypeOK
<1>4. CASE Started
  BY <1>4 DEF Started, TypeOK
<1>5. CASE Stop
  BY <1>5 DEF Stop, TypeOK
<1>6. CASE /\ UNCHANGED <<dbRegistry, opened, open, given, options, outcome>>
           /\ gomodelApp' \in BOOLEAN
  BY <1>6 DEF TypeOK
<1> QED
  BY <1>1, <1>2, <1>3, <1>4, <1>5, <1>6 DEF Next

\* Of the whole program, only these steps touch the databases.
LEMMA DbInvariant == AppSpec => []DbInv
<1>1. AppInit => DbInv
  BY DbStarts DEF AppInit
<1>2. DbInv /\ [AppNext]_<<vars, appVars>> => DbInv'
  <2> SUFFICES ASSUME DbInv, [AppNext]_<<vars, appVars>>
               PROVE  DbInv'
    OBVIOUS
  <2>1. \/ Next
        \/ /\ UNCHANGED <<dbRegistry, opened, open, given, options, outcome>>
           /\ gomodelApp' \in BOOLEAN
    BY DEF AppNext, Register, RegisterApp, RegisterModel, Registered, Panic,
           ClearRegistry, vars, DbInv, TypeOK
  <2> QED
    BY <2>1, DbKeeps
<1> QED
  BY <1>1, <1>2, PTL DEF AppSpec

\* When Start returns there is a default database and each one it was given
\* has a handle that is not closed, after whatever panics and Stops came before.
\* (Whether the database answers is another matter.)
THEOREM StartIsComplete == AppSpec => []StartOpensAll
<1>1. DbInv => StartOpensAll
  BY DEF DbInv
<1> QED
  BY <1>1, DbInvariant, PTL

\* A Stop that returns nil leaves no registered handle open.
THEOREM StopIsComplete == AppSpec => []StoppedMeansClosed
<1>1. DbInv => StoppedMeansClosed
  BY DEF DbInv
<1> QED
  BY <1>1, DbInvariant, PTL

------------------------------------------------------------------------------
(* Model.Register *)

KeySound(m) == Cardinality(Def[m].pks) <= 1 /\ ~Def[m].namedPk

\* What registering writes into a model, per model.
IsMeta(x) == x = [pk |-> x.pk, autos |-> x.autos]

\* SetupPrimaryKey leaves a key alone, and finds one exactly when there is one
\* or at most one is declared.
LEMMA KeysFound ==
    ASSUME NEW m \in Models, NEW k \in Keys(m)
    PROVE  /\ meta[m].pk # NoKey => k.ok /\ k.pk = meta[m].pk
           /\ k.ok => k.pk # NoKey
           /\ k.ok /\ meta[m].pk = NoKey => KeySound(m)
           /\ ~k.ok => ~KeySound(m)
<1>1. /\ IsFiniteSet(Def[m].pks) /\ NoKey \notin Def[m].pks /\ Id # NoKey
      /\ Cardinality(Def[m].pks) \in Nat
  BY ModelsAssumption, FS_CardinalityType
<1>2. CASE meta[m].pk # NoKey
  BY <1>2 DEF Keys
<1>3. CASE /\ meta[m].pk = NoKey
           /\ Cardinality(Def[m].pks) > 1 \/ Def[m].namedPk
  <2>1. k.ok = FALSE
    BY <1>3 DEF Keys
  <2>2. ~KeySound(m)
    BY <1>1, <1>3 DEF KeySound
  <2> QED
    BY <1>3, <2>1, <2>2
<1>4. CASE /\ meta[m].pk = NoKey
           /\ ~(Cardinality(Def[m].pks) > 1 \/ Def[m].namedPk)
  <2>1. KeySound(m)
    BY <1>1, <1>4 DEF KeySound
  <2>2. k.ok = TRUE /\ k.pk # NoKey
    BY <1>1, <1>4 DEF Keys
  <2> QED
    BY <1>4, <2>1, <2>2
<1> QED
  BY <1>2, <1>3, <1>4

\* SetupIndexes keeps the indexes there are, and adds those the fields ask for
\* or fails.
LEMMA AutosMade ==
    ASSUME NEW m \in Models, NEW a, NEW i \in Autos(m, a)
    PROVE  /\ meta[m].autos \subseteq i.autos
           /\ i.autos \subseteq meta[m].autos \cup ({a} \X Def[m].indexed)
           /\ i.ok => /\ Def[m].validIndexes
                      /\ {a} \X Def[m].indexed \subseteq i.autos
           /\ ~i.ok => \/ ~Def[m].validIndexes
                       \/ \E f \in Def[m].indexed : <<a, f>> \in meta[m].autos
<1> DEFINE wanted == {a} \X Def[m].indexed
           had == meta[m].autos
<1>1. CASE ~Def[m].validIndexes
  BY <1>1 DEF Autos
<1>2. CASE Def[m].validIndexes /\ wanted \cap had = {}
  BY <1>2 DEF Autos
<1>3. CASE Def[m].validIndexes /\ wanted \cap had # {}
  <2>1. PICK S \in SUBSET (wanted \ had) :
            i = [ok |-> FALSE, autos |-> had \cup S]
    BY <1>3 DEF Autos
  <2>2. PICK x \in wanted : x \in had
    BY <1>3
  <2>3. PICK f \in Def[m].indexed : x = <<a, f>>
    BY <2>2
  <2> QED
    BY <2>1, <2>2, <2>3
<1> QED
  BY <1>1, <1>2, <1>3

\* A model that is set up is sound but perhaps for a key it had, and ready; one
\* that is not has a reason.
LEMMA SetupMeans ==
    ASSUME NEW m \in Models, IsMeta(meta[m]), NEW a, NEW s \in Setup(m, a)
    PROVE  /\ IsMeta(s.meta)
           /\ meta[m].pk # NoKey => s.meta.pk = meta[m].pk
           /\ meta[m].autos \subseteq s.meta.autos
           /\ s.meta.autos \subseteq meta[m].autos \cup ({a} \X Def[m].indexed)
           /\ s.ok => /\ s.meta.pk # NoKey
                      /\ {a} \X Def[m].indexed \subseteq s.meta.autos
                      /\ Def[m].validIndexes /\ Def[m].validContainer
                      /\ meta[m].pk # NoKey \/ KeySound(m)
           /\ ~s.ok => \/ ~Sound(m)
                       \/ \E f \in Def[m].indexed : <<a, f>> \in meta[m].autos
<1>1. PICK k \in Keys(m) :
        s \in IF ~k.ok THEN {[ok |-> FALSE, meta |-> [meta[m] EXCEPT !.pk = k.pk]]}
              ELSE {[ok |-> i.ok /\ Def[m].validContainer,
                     meta |-> [pk |-> k.pk, autos |-> i.autos]] : i \in Autos(m, a)}
  BY Zenon DEF Setup
<1>2. CASE ~k.ok
  <2>1. /\ s = [ok |-> FALSE, meta |-> [meta[m] EXCEPT !.pk = k.pk]]
        /\ [meta[m] EXCEPT !.pk = k.pk] = [pk |-> k.pk, autos |-> meta[m].autos]
    BY <1>1, <1>2 DEF IsMeta
  <2>2. /\ s.ok = FALSE
        /\ s.meta = [pk |-> k.pk, autos |-> meta[m].autos]
    BY <2>1
  <2>3. meta[m].pk = NoKey /\ ~KeySound(m)
    BY <1>2, KeysFound
  <2>4. ~Sound(m)
    BY <2>3 DEF Sound, KeySound
  <2> QED
    BY <2>2, <2>3, <2>4 DEF IsMeta
<1>3. CASE k.ok
  <2>1. PICK i \in Autos(m, a) :
            s = [ok |-> i.ok /\ Def[m].validContainer,
                 meta |-> [pk |-> k.pk, autos |-> i.autos]]
    BY <1>1, <1>3
  <2>2. /\ s.ok = (i.ok /\ Def[m].validContainer)
        /\ s.meta = [pk |-> k.pk, autos |-> i.autos]
    BY <2>1
  <2>3. IsMeta(s.meta) /\ s.meta.pk = k.pk /\ s.meta.autos = i.autos
    BY <2>2 DEF IsMeta
  <2>4. /\ meta[m].pk # NoKey => k.pk = meta[m].pk
        /\ k.pk # NoKey
        /\ meta[m].pk # NoKey \/ KeySound(m)
    BY <1>3, KeysFound
  <2>5. ~s.ok => \/ ~Sound(m)
                 \/ \E f \in Def[m].indexed : <<a, f>> \in meta[m].autos
    BY <2>2, AutosMade DEF Sound
  <2>6. s.ok => /\ {a} \X Def[m].indexed \subseteq i.autos
                /\ Def[m].validIndexes /\ Def[m].validContainer
    BY <2>2, AutosMade
  <2>7. /\ meta[m].autos \subseteq i.autos
        /\ i.autos \subseteq meta[m].autos \cup ({a} \X Def[m].indexed)
    BY AutosMade
  <2> QED
    BY <2>3, <2>4, <2>5, <2>6, <2>7
<1> QED
  BY <1>2, <1>3

------------------------------------------------------------------------------
(* The registry of applications *)

RegTypes ==
    /\ DOMAIN meta = Models
    /\ \A m \in Models : IsMeta(meta[m])
    /\ \A a \in DOMAIN registry : \A name \in DOMAIN registry[a] :
        registry[a][name] \in Models

\* The model m is in the application named a, and it had a reason to be.
Done(a, m) ==
    /\ Name[m] \in DOMAIN registry[a]
    /\ Sound(m) \/ before.meta[m].pk # NoKey

\* A running Register is past k settings, the k-th being the current one, of
\* which it is past j models.
Past(k, j) ==
    LET call == before.call
        models == call[k].models
    IN  /\ call \in Calls
        /\ k \in 0 .. Len(call)
        /\ queue \in Seq(Range(call)) /\ Len(queue) = Len(call) - k
        /\ \A i \in 1 .. Len(call) - k : queue[i] = call[k + i]
        /\ \A i \in 1 .. k : call[i].name \in DOMAIN registry
        /\ DOMAIN registry \subseteq before.apps \cup {call[i].name : i \in 1 .. k}
        /\ \A i \in 1 .. k - 1 : \A m \in Asks(call[i]) : Done(call[i].name, m)
        /\ DOMAIN current = {"name", "models"}
        /\ k = 0 => current.models = <<>>
        /\ k > 0 =>
            /\ current.name = call[k].name
            /\ j \in 0 .. Len(models)
            /\ current.models \in Seq(Models)
            /\ Len(current.models) = Len(models) - j
            /\ \A i \in 1 .. Len(models) - j : current.models[i] = models[j + i]
            /\ \A i \in 1 .. j : Done(call[k].name, models[i])
            /\ DOMAIN registry[call[k].name] = {Name[models[i]] : i \in 1 .. j}

\* Of the keys and the indexes that were not there before the call, the keys
\* are of sound models, and the indexes of models the application has.
Marked ==
    \A m \in Models :
        /\ meta[m].pk # NoKey => before.meta[m].pk # NoKey \/ KeySound(m)
        /\ \A x \in meta[m].autos :
            \/ x \in before.meta[m].autos
            \/ x[1] \in DOMAIN registry /\ Name[m] \in DOMAIN registry[x[1]]

Registering == status = "registering" => Marked /\ \E k, j \in Nat : Past(k, j)

RegInv == RegTypes /\ ReadyModels /\ Registering /\ RegisterVerdict

\* What Register may be called with.
LEMMA CallFacts ==
    ASSUME NEW c \in Calls
    PROVE  /\ Len(c) \in Nat /\ DOMAIN c = 1 .. Len(c)
           /\ c \in Seq(Range(c))
           /\ \A i \in 1 .. Len(c) :
                /\ DOMAIN c[i] = {"name", "models"}
                /\ c[i].models \in Seq(Models)
                /\ Len(c[i].models) \in Nat
                /\ DOMAIN c[i].models = 1 .. Len(c[i].models)
<1>1. /\ c \in Seq({c[i] : i \in DOMAIN c})
      /\ \A i \in DOMAIN c :
            DOMAIN c[i] = {"name", "models"} /\ c[i].models \in Seq(Models)
  BY ModelsAssumption, Zenon
<1>2. c \in Seq(Range(c))
  BY <1>1, Zenon DEF Range
<1>3. Len(c) \in Nat /\ DOMAIN c = 1 .. Len(c)
  BY <1>2
<1> QED
  BY <1>1, <1>2, <1>3

\* Nothing is registered at first.
LEMMA RegStarts ==
    ASSUME AppInit
    PROVE  RegInv
<1>1. DOMAIN registry = {} /\ status = "none" /\ DOMAIN meta = Models
  BY DEF AppInit
<1>2. \A m \in Models : IsMeta(meta[m])
  BY DEF AppInit, IsMeta, Untouched
<1> QED
  BY <1>1, <1>2
  DEF RegInv, RegTypes, ReadyModels, Registering, RegisterVerdict

\* A step that leaves the registry alone, or clears it, and ends what a
\* Register was about.
LEMMA OverKeeps ==
    ASSUME RegInv, meta' = meta, registry' = registry \/ registry' = <<>>,
           status' = "none"
    PROVE  RegInv'
<1>1. registry' = registry \/ DOMAIN registry' = {}
  OBVIOUS
<1> QED
  BY <1>1 DEF RegInv, RegTypes, ReadyModels, Registering, RegisterVerdict

\* Register begins.
LEMMA RegisterKeeps ==
    ASSUME RegInv, NEW c \in Calls, Register(c)
    PROVE  RegInv'
<1>1. /\ queue' = c /\ current'.models = <<>> /\ status' = "registering"
      /\ DOMAIN current' = {"name", "models"}
      /\ before'.apps = DOMAIN registry /\ before'.meta = meta
      /\ before'.call = c
      /\ registry' = registry /\ meta' = meta
  BY DEF Register
<1>2. /\ Len(c) \in Nat /\ c \in Seq(Range(c))
      /\ 0 \in 0 .. Len(c) /\ 0 \in Nat /\ Len(c) = Len(c) - 0
      /\ \A i \in 1 .. Len(c) - 0 : c[i] = c[0 + i]
      /\ 1 .. 0 = {} /\ 1 .. 0 - 1 = {} /\ ~(0 > 0)
  BY CallFacts
<1>3. Past(0, 0)'
  BY <1>1, <1>2 DEF Past
<1>4. Marked'
  BY <1>1 DEF Marked
<1> QED
  BY <1>1, <1>2, <1>3, <1>4
  DEF RegInv, RegTypes, ReadyModels, Registering, RegisterVerdict

\* Where a running Register is.
LEMMA Where ==
    ASSUME NEW k \in Nat, NEW j \in Nat, Past(k, j)
    PROVE  /\ Len(before.call) \in Nat
           /\ DOMAIN before.call = 1 .. Len(before.call)
           /\ k \in 0 .. Len(before.call)
           /\ \A i \in 1 .. Len(before.call) :
                /\ before.call[i] \in Asked
                /\ before.call[i].models \in Seq(Models)
                /\ Len(before.call[i].models) \in Nat
                /\ DOMAIN before.call[i].models = 1 .. Len(before.call[i].models)
           /\ queue # <<>> =>
                /\ k + 1 \in 1 .. Len(before.call)
                /\ Head(queue) = before.call[k + 1]
           /\ queue = <<>> => k = Len(before.call)
<1> DEFINE c == before.call
<1>1. /\ c \in Calls /\ k \in 0 .. Len(c)
      /\ queue \in Seq(Range(c)) /\ Len(queue) = Len(c) - k
      /\ \A i \in 1 .. Len(c) - k : queue[i] = c[k + i]
  BY DEF Past
<1>2. /\ Len(c) \in Nat /\ DOMAIN c = 1 .. Len(c)
      /\ \A i \in 1 .. Len(c) :
            /\ c[i].models \in Seq(Models)
            /\ Len(c[i].models) \in Nat
            /\ DOMAIN c[i].models = 1 .. Len(c[i].models)
  BY <1>1, CallFacts
<1>3. \A i \in 1 .. Len(c) : c[i] \in Asked
  BY <1>2 DEF Asked
<1>4. ASSUME queue # <<>>
      PROVE  k + 1 \in 1 .. Len(c) /\ Head(queue) = c[k + 1]
  <2>1. Len(queue) > 0 /\ Head(queue) = queue[1] /\ Len(queue) \in Nat
    BY <1>1, <1>4
  <2> HIDE DEF c
  <2>2. 1 \in 1 .. Len(c) - k /\ k + 1 \in 1 .. Len(c)
    BY <1>1, <1>2, <2>1
  <2> QED
    BY <1>1, <2>1, <2>2
<1>5. ASSUME queue = <<>>
      PROVE  k = Len(c)
  <2>1. Len(queue) = 0
    BY <1>5
  <2> HIDE DEF c
  <2> QED
    BY <1>1, <1>2, <2>1
<1> QED
  BY <1>1, <1>2, <1>3, <1>4, <1>5

\* The models of the setting that is done are all there.
LEMMA SettingDone ==
    ASSUME NEW k \in Nat, NEW j \in Nat, Past(k, j), current.models = <<>>,
           NEW i \in 1 .. k, NEW m \in Asks(before.call[i])
    PROVE  Done(before.call[i].name, m)
<1> DEFINE c == before.call
<1>1. CASE i \in 1 .. k - 1
  BY <1>1 DEF Past
<1>2. CASE i = k
  <2>1. /\ k > 0 /\ j \in 0 .. Len(c[k].models)
        /\ Len(current.models) = Len(c[k].models) - j
        /\ \A l \in 1 .. j : Done(c[k].name, c[k].models[l])
        /\ DOMAIN c[k].models = 1 .. Len(c[k].models)
        /\ Len(c[k].models) \in Nat
    <3>1. k > 0 /\ k \in 1 .. Len(c)
      BY Where
    <3> QED
      BY <3>1, Where DEF Past
  <2>2. j = Len(c[k].models)
    <3>1. Len(current.models) = 0
      OBVIOUS
    <3> HIDE DEF c
    <3> QED
      BY <2>1, <3>1
  <2>3. PICK l \in DOMAIN c[k].models : m = c[k].models[l]
    BY <1>2 DEF Asks
  <2> QED
    BY <1>2, <2>1, <2>2, <2>3
<1> QED
  BY <1>1, <1>2

\* The next setting: its name is taken, or the application is there, empty.
LEMMA RegisterAppKeeps ==
    ASSUME RegInv, RegisterApp
    PROVE  RegInv'
<1>1. PICK k \in Nat, j \in Nat : Past(k, j) /\ Marked
  BY DEF RegInv, Registering, RegisterApp
<1> DEFINE app == Head(queue).name
<1>0. PICK c : c = before.call
  OBVIOUS
<1>2. /\ status = "registering" /\ current.models = <<>> /\ queue # <<>>
      /\ before' = before /\ meta' = meta
  BY DEF RegisterApp, Panic
<1>3. /\ Len(c) \in Nat /\ k \in 0 .. Len(c) /\ k + 1 \in 1 .. Len(c)
      /\ Head(queue) = c[k + 1]
      /\ \A i \in 1 .. Len(c) :
            /\ c[i] \in Asked /\ c[i].models \in Seq(Models)
            /\ Len(c[i].models) \in Nat
            /\ DOMAIN c[i].models = 1 .. Len(c[i].models)
      /\ DOMAIN c = 1 .. Len(c)
  BY <1>0, <1>1, <1>2, Where
<1>4. /\ queue \in Seq(Range(c)) /\ Len(queue) = Len(c) - k /\ c \in Calls
      /\ \A i \in 1 .. Len(c) - k : queue[i] = c[k + i]
      /\ \A i \in 1 .. k : c[i].name \in DOMAIN registry
      /\ DOMAIN registry \subseteq before.apps \cup {c[i].name : i \in 1 .. k}
  BY <1>0, <1>1 DEF Past
<1>5. CASE app \in DOMAIN registry \cup {Reserved} /\ Panic /\ registry' = registry
  <2>1. CASE app \in before.apps \cup {Reserved}
    <3>1. c[k + 1] \in Asked
      BY <1>3
    <3>2. RegisterVerdict'
      BY <1>0, <1>2, <1>3, <1>5, <2>1, <3>1
      DEF Panic, RegisterVerdict, Asked
    <3> QED
      BY <1>2, <1>5, <3>2 DEF RegInv, RegTypes, ReadyModels, Registering, Panic
  <2>2. CASE app \notin before.apps \cup {Reserved}
    <3>1. PICK i \in 1 .. k : app = c[i].name
      BY <1>4, <1>5, <2>2
    <3>2. /\ i \in DOMAIN c /\ k + 1 \in DOMAIN c /\ i # k + 1
          /\ c[i].name = c[k + 1].name
      BY <1>3, <3>1
    <3>3. Repeated'
      BY <1>0, <1>2, <3>2 DEF Repeated
    <3>4. RegisterVerdict'
      BY <1>5, <3>3 DEF Panic, RegisterVerdict
    <3> QED
      BY <1>2, <1>5, <3>4 DEF RegInv, RegTypes, ReadyModels, Registering, Panic
  <2> QED
    BY <2>1, <2>2
<1>6. CASE /\ app \notin DOMAIN registry \cup {Reserved}
           /\ registry' = With(registry, app, <<>>)
           /\ current' = Head(queue)
           /\ queue' = Tail(queue)
           /\ status' = status
  <2>1. /\ DOMAIN registry' = {app} \cup DOMAIN registry
        /\ DOMAIN registry'[app] = {}
        /\ \A a \in DOMAIN registry : a # app /\ registry'[a] = registry[a]
    BY <1>6 DEF With
  <2>2. RegTypes' /\ ReadyModels'
    BY <1>2, <2>1 DEF RegInv, RegTypes, ReadyModels
  <2>3. Marked'
    BY <1>1, <1>2, <2>1 DEF Marked
  <2>4. Past(k + 1, 0)'
    <3>1. /\ queue' \in Seq(Range(c)) /\ Len(queue') = Len(c) - (k + 1)
          /\ \A i \in 1 .. Len(c) - (k + 1) : queue'[i] = c[(k + 1) + i]
      <4>1. /\ Tail(queue) \in Seq(Range(c))
            /\ Len(Tail(queue)) = Len(queue) - 1
            /\ \A i \in 1 .. Len(Tail(queue)) : Tail(queue)[i] = queue[i + 1]
        BY <1>2, <1>4, HeadTailProperties
      <4> DEFINE n == Len(c)
                 t == Len(Tail(queue))
      <4>2. /\ n \in Nat /\ t = (n - k) - 1
            /\ \A i \in 1 .. t : Tail(queue)[i] = queue[i + 1]
            /\ \A i \in 1 .. n - k : queue[i] = c[k + i]
        BY <1>3, <1>4, <4>1
      <4> HIDE DEF n, t
      <4>3. t = n - (k + 1)
        BY <4>2
      <4>4. ASSUME NEW i \in 1 .. n - (k + 1)
            PROVE  Tail(queue)[i] = c[(k + 1) + i]
        <5>1. /\ i + 1 \in 1 .. n - k /\ k + (i + 1) = (k + 1) + i
              /\ i \in 1 .. t
          BY <4>2, <4>3
        <5> QED
          BY <4>2, <5>1
      <4> QED
        BY <1>6, <4>1, <4>3, <4>4 DEF n, t
    <3>2. /\ \A i \in 1 .. k + 1 : c[i].name \in DOMAIN registry'
          /\ DOMAIN registry' \subseteq
                before.apps \cup {c[i].name : i \in 1 .. k + 1}
      <4>1. /\ \A i \in 1 .. k + 1 : i \in 1 .. k \/ i = k + 1
            /\ \A i \in 1 .. k : i \in 1 .. k + 1
            /\ k + 1 \in 1 .. k + 1
        OBVIOUS
      <4>2. app = c[k + 1].name
        BY <1>3
      <4>3. ASSUME NEW i \in 1 .. k + 1
            PROVE  c[i].name \in DOMAIN registry'
        BY <1>4, <2>1, <4>1, <4>2
      <4>4. ASSUME NEW x \in DOMAIN registry', x \notin before.apps
            PROVE  x \in {c[i].name : i \in 1 .. k + 1}
        <5>1. CASE x = app
          BY <4>1, <4>2, <5>1
        <5>2. CASE x # app
          <6>1. x \in {c[i].name : i \in 1 .. k}
            BY <1>4, <2>1, <4>4, <5>2
          <6>2. PICK i \in 1 .. k : x = c[i].name
            BY <6>1
          <6> QED
            BY <4>1, <6>2
        <5> QED
          BY <5>1, <5>2
      <4> QED
        BY <4>3, <4>4
    <3>3. ASSUME NEW i \in 1 .. (k + 1) - 1, NEW m \in Asks(c[i])
          PROVE  /\ Name[m] \in DOMAIN registry'[c[i].name]
                 /\ Sound(m) \/ before.meta[m].pk # NoKey
      <4>1. i \in 1 .. k
        OBVIOUS
      <4>2. Done(c[i].name, m)
        BY <1>0, <1>1, <1>2, <4>1, SettingDone
      <4> QED
        BY <1>4, <2>1, <4>1, <4>2 DEF Done
    <3>4. /\ k + 1 \in 0 .. Len(c) /\ ~(k + 1 = 0) /\ k + 1 > 0
          /\ 0 \in 0 .. Len(c[k + 1].models)
          /\ current' = c[k + 1]
          /\ c[k + 1].models \in Seq(Models)
          /\ Len(c[k + 1].models) = Len(c[k + 1].models) - 0
          /\ \A i \in 1 .. Len(c[k + 1].models) - 0 :
                c[k + 1].models[i] = c[k + 1].models[0 + i]
          /\ 1 .. 0 = {}
          /\ app = c[k + 1].name
      <4>1. Len(c[k + 1].models) \in Nat /\ current' = c[k + 1]
        BY <1>3, <1>6
      <4> DEFINE models == c[k + 1].models
      <4>2. models \in Seq(Models) /\ Len(models) \in Nat
        BY <1>3
      <4> HIDE DEF models
      <4>3. /\ 0 \in 0 .. Len(models)
            /\ Len(models) = Len(models) - 0
            /\ \A i \in 1 .. Len(models) - 0 : models[i] = models[0 + i]
            /\ 1 .. 0 = {}
        BY <4>2
      <4> QED
        BY <1>3, <4>1, <4>2, <4>3 DEF models
    <3>5. \A i \in 1 .. (k + 1) - 1 : \A m \in Asks(c[i]) :
                Done(c[i].name, m)'
      BY <1>2, <3>3 DEF Done
    <3>6. /\ current'.name = c[k + 1].name
          /\ current'.models = c[k + 1].models
          /\ DOMAIN current' = {"name", "models"}
          /\ DOMAIN registry'[c[k + 1].name] = {}
          /\ before'.call = c /\ before'.apps = before.apps
      BY <1>0, <1>2, <1>3, <1>4, <2>1, <3>4, CallFacts
    <3>7. \A i \in 1 .. 0 : Done(c[k + 1].name, c[k + 1].models[i])'
      BY <3>4
    <3>8. {Name[c[k + 1].models[i]] : i \in 1 .. 0} = {}
      BY <3>4
    <3> QED
      <4>1. /\ before'.call \in Calls /\ k + 1 \in 0 .. Len(before'.call)
            /\ queue' \in Seq(Range(before'.call))
            /\ Len(queue') = Len(before'.call) - (k + 1)
            /\ \A i \in 1 .. Len(before'.call) - (k + 1) :
                    queue'[i] = before'.call[(k + 1) + i]
            /\ \A i \in 1 .. k + 1 : before'.call[i].name \in DOMAIN registry'
            /\ DOMAIN registry' \subseteq
                    before'.apps \cup {before'.call[i].name : i \in 1 .. k + 1}
        BY <1>4, <3>1, <3>2, <3>4, <3>6
      <4>2. \A i \in 1 .. (k + 1) - 1 : \A m \in Asks(before'.call[i]) :
                Done(before.call[i].name, m)'
        BY <1>0, <1>2, <3>5, <3>6
      <4>3. /\ current'.name = before'.call[k + 1].name
            /\ 0 \in 0 .. Len(before'.call[k + 1].models)
            /\ current'.models \in Seq(Models)
            /\ Len(current'.models) = Len(before'.call[k + 1].models) - 0
            /\ \A i \in 1 .. Len(before'.call[k + 1].models) - 0 :
                    current'.models[i] = before'.call[k + 1].models[0 + i]
            /\ DOMAIN registry'[before'.call[k + 1].name] =
                    {Name[before'.call[k + 1].models[i]] : i \in 1 .. 0}
        BY <3>4, <3>6, <3>8
      <4> QED
        BY <3>4, <3>6, <4>1, <4>2, <4>3 DEF Past, Asks
  <2>5. Registering' /\ RegisterVerdict'
    <3>1. k + 1 \in Nat /\ 0 \in Nat
      OBVIOUS
    <3> QED
      BY <1>2, <1>6, <2>3, <2>4, <3>1 DEF Registering, RegisterVerdict
  <2> QED
    BY <2>2, <2>5 DEF RegInv
<1> QED
  BY <1>2, <1>5, <1>6 DEF RegisterApp

\* The next model of an application: its name is taken, it is not set up, or it
\* is added.
LEMMA RegisterModelKeeps ==
    ASSUME RegInv, RegisterModel
    PROVE  RegInv'
<1>1. PICK k \in Nat, j \in Nat : Past(k, j) /\ Marked
  BY DEF RegInv, Registering, RegisterModel
<1>2. PICK c, ms, a, m :
        /\ c = before.call /\ ms = c[k].models /\ a = c[k].name
        /\ m = Head(current.models)
  OBVIOUS
<1>3. /\ status = "registering" /\ current.models # <<>> /\ before' = before
  BY DEF RegisterModel, Panic
<1>4. k > 0
  BY <1>1, <1>3 DEF Past
<1>5. /\ k \in 1 .. Len(c) /\ DOMAIN c = 1 .. Len(c)
      /\ c[k] \in Asked /\ ms \in Seq(Models) /\ Len(ms) \in Nat
      /\ DOMAIN ms = 1 .. Len(ms)
  BY <1>1, <1>2, <1>4, Where
<1>6. /\ queue \in Seq(Range(c)) /\ Len(queue) = Len(c) - k /\ c \in Calls
      /\ \A i \in 1 .. Len(c) - k : queue[i] = c[k + i]
      /\ \A i \in 1 .. k : c[i].name \in DOMAIN registry
      /\ DOMAIN registry \subseteq before.apps \cup {c[i].name : i \in 1 .. k}
      /\ \A i \in 1 .. k - 1 : \A x \in Asks(c[i]) : Done(c[i].name, x)
      /\ current.name = a /\ DOMAIN current = {"name", "models"}
      /\ j \in 0 .. Len(ms)
      /\ current.models \in Seq(Models)
      /\ Len(current.models) = Len(ms) - j
      /\ \A i \in 1 .. Len(ms) - j : current.models[i] = ms[j + i]
      /\ \A i \in 1 .. j : Done(a, ms[i])
      /\ DOMAIN registry[a] = {Name[ms[i]] : i \in 1 .. j}
  <2>1. /\ queue \in Seq(Range(c)) /\ Len(queue) = Len(c) - k /\ c \in Calls
        /\ \A i \in 1 .. Len(c) - k : queue[i] = c[k + i]
    BY <1>1, <1>2 DEF Past
  <2>2. /\ \A i \in 1 .. k : c[i].name \in DOMAIN registry
        /\ DOMAIN registry \subseteq before.apps \cup {c[i].name : i \in 1 .. k}
    BY <1>1, <1>2 DEF Past
  <2>3. \A i \in 1 .. k - 1 : \A x \in Asks(c[i]) : Done(c[i].name, x)
    BY <1>1, <1>2 DEF Past
  <2>4. /\ current.name = a /\ DOMAIN current = {"name", "models"}
        /\ j \in 0 .. Len(ms)
        /\ current.models \in Seq(Models)
        /\ Len(current.models) = Len(ms) - j
    BY <1>1, <1>2, <1>4 DEF Past
  <2>5. \A i \in 1 .. Len(ms) - j : current.models[i] = ms[j + i]
    BY <1>1, <1>2, <1>4 DEF Past
  <2>6. \A i \in 1 .. j : Done(a, ms[i])
    BY <1>1, <1>2, <1>4 DEF Past
  <2>7. DOMAIN registry[a] = {Name[ms[i]] : i \in 1 .. j}
    BY <1>1, <1>2, <1>4 DEF Past
  <2> QED
    BY <2>1, <2>2, <2>3, <2>4, <2>5, <2>6, <2>7
<1>7. /\ j + 1 \in 1 .. Len(ms) /\ m = ms[j + 1] /\ m \in Models
      /\ m \in Asks(c[k])
      /\ Tail(current.models) \in Seq(Models)
      /\ Len(Tail(current.models)) = Len(ms) - (j + 1)
      /\ \A i \in 1 .. Len(ms) - (j + 1) :
            Tail(current.models)[i] = ms[(j + 1) + i]
  <2> DEFINE n == Len(ms)
             l == Len(current.models)
             t == Tail(current.models)
  <2>1. /\ l > 0 /\ m = current.models[1] /\ m \in Models
        /\ t \in Seq(Models) /\ Len(t) = l - 1
        /\ \A i \in 1 .. Len(t) : t[i] = current.models[i + 1]
    BY <1>2, <1>3, <1>6, HeadTailProperties
  <2>2. /\ n \in Nat /\ l = n - j /\ j \in 0 .. n
        /\ \A i \in 1 .. n - j : current.models[i] = ms[j + i]
    BY <1>5, <1>6
  <2> HIDE DEF n, l, t
  <2>3. 1 \in 1 .. n - j /\ j + 1 \in 1 .. n /\ Len(t) = n - (j + 1)
    BY <2>1, <2>2
  <2>4. m = ms[j + 1]
    BY <2>1, <2>2, <2>3
  <2>5. ASSUME NEW i \in 1 .. n - (j + 1)
        PROVE  t[i] = ms[(j + 1) + i]
    <3>1. /\ i \in 1 .. Len(t) /\ i + 1 \in 1 .. n - j
          /\ j + (i + 1) = (j + 1) + i
      BY <2>2, <2>3
    <3> QED
      BY <2>1, <2>2, <3>1
  <2>6. m \in Asks(c[k])
    BY <1>2, <1>5, <2>3, <2>4 DEF Asks, n
  <2> QED
    BY <2>1, <2>3, <2>4, <2>5, <2>6 DEF n, t
<1>8. IsMeta(meta[m]) /\ DOMAIN meta = Models /\ a \in DOMAIN registry
  <2>1. IsMeta(meta[m]) /\ DOMAIN meta = Models
    BY <1>7 DEF RegInv, RegTypes
  <2>2. k \in 1 .. k
    BY <1>4
  <2>3. c[k].name \in DOMAIN registry
    BY <1>6, <2>2
  <2> QED
    BY <1>2, <2>1, <2>3
<1>9. CASE Name[m] \in DOMAIN registry[a] /\ Panic /\ UNCHANGED <<registry, meta>>
  <2>1. PICK i \in 1 .. j : Name[m] = Name[ms[i]]
    BY <1>6, <1>9
  <2>2. i \in DOMAIN ms /\ j + 1 \in DOMAIN ms /\ i # j + 1
    <3> DEFINE n == Len(ms)
    <3>1. n \in Nat /\ DOMAIN ms = 1 .. n /\ j + 1 \in 1 .. n
      BY <1>5, <1>7
    <3> HIDE DEF n
    <3> QED
      BY <2>1, <3>1
  <2>3. Repeated'
    <3>1. c[k] \in Asked' /\ c[k].models = ms /\ Name[ms[i]] = Name[ms[j + 1]]
      BY <1>2, <1>3, <1>5, <1>7, <2>1 DEF Asked
    <3> QED
      BY <2>2, <3>1 DEF Repeated
  <2>4. RegisterVerdict'
    BY <1>9, <2>3 DEF Panic, RegisterVerdict
  <2> QED
    BY <1>9, <2>4 DEF RegInv, RegTypes, ReadyModels, Registering, Panic
<1>10. ASSUME NEW s \in Setup(m, a), meta' = [meta EXCEPT ![m] = s.meta],
              Name[m] \notin DOMAIN registry[a]
       PROVE  /\ registry' = registry => RegTypes' /\ ReadyModels'
              /\ DOMAIN meta' = Models /\ \A x \in Models : IsMeta(meta'[x])
              /\ meta'[m] = s.meta
              /\ \A x \in Models : x # m => meta'[x] = meta[x]
  <2>1. /\ DOMAIN meta' = Models /\ meta'[m] = s.meta
        /\ \A x \in Models : x # m => meta'[x] = meta[x]
    BY <1>7, <1>8, <1>10
  <2>2. \A x \in Models : IsMeta(meta'[x])
    BY <1>7, <1>8, <2>1, SetupMeans DEF RegInv, RegTypes
  <2>3. ASSUME registry' = registry
        PROVE  RegTypes' /\ ReadyModels'
    <3>1. RegTypes'
      BY <2>1, <2>2, <2>3 DEF RegInv, RegTypes
    <3>2. ASSUME NEW b \in DOMAIN registry, NEW name \in DOMAIN registry[b]
          PROVE  /\ name = Name[registry[b][name]]
                 /\ meta'[registry[b][name]].pk # NoKey
                 /\ {b} \X Def[registry[b][name]].indexed
                        \subseteq meta'[registry[b][name]].autos
      <4> DEFINE x == registry[b][name]
      <4>1. /\ x \in Models /\ name = Name[x] /\ meta[x].pk # NoKey
            /\ {b} \X Def[x].indexed \subseteq meta[x].autos
        BY DEF RegInv, RegTypes, ReadyModels
      <4> HIDE DEF x
      <4>2. /\ meta'[x].pk # NoKey /\ meta[x].autos \subseteq meta'[x].autos
        BY <1>7, <1>8, <2>1, <4>1, SetupMeans
      <4> QED
        BY <4>1, <4>2 DEF x
    <3> QED
      BY <2>3, <3>1, <3>2 DEF ReadyModels
  <2> QED
    BY <2>1, <2>2, <2>3
<1>11. ASSUME NEW s \in Setup(m, a), meta' = [meta EXCEPT ![m] = s.meta],
              Name[m] \notin DOMAIN registry[a], ~s.ok, Panic,
              registry' = registry
       PROVE  RegInv'
  <2>1. \/ ~Sound(m)
        \/ \E f \in Def[m].indexed : <<a, f>> \in meta[m].autos
    BY <1>7, <1>8, <1>11, SetupMeans
  <2>2. ASSUME NEW f \in Def[m].indexed, <<a, f>> \in meta[m].autos
        PROVE  <<a, f>> \in before.meta[m].autos
    BY <1>1, <1>7, <1>11, <2>2 DEF Marked
  <2>3. RegisterVerdict'
    <3>1. \/ ~Sound(m)
          \/ \E f \in Def[m].indexed : <<c[k].name, f>> \in before.meta[m].autos
      BY <1>2, <2>1, <2>2
    <3>2. c[k] \in Asked' /\ status' = "panic"
      BY <1>3, <1>5, <1>11 DEF Asked, Panic
    <3> QED
      BY <1>3, <1>7, <3>1, <3>2 DEF RegisterVerdict
  <2>4. Registering'
    BY <1>11 DEF Registering, Panic
  <2> QED
    BY <1>10, <1>11, <2>3, <2>4 DEF RegInv
<1>12. ASSUME NEW s \in Setup(m, a), meta' = [meta EXCEPT ![m] = s.meta],
              Name[m] \notin DOMAIN registry[a], s.ok,
              registry' = [registry EXCEPT ![a] = With(@, Name[m], m)],
              current' = [current EXCEPT !.models = Tail(@)],
              UNCHANGED <<queue, status, before>>
       PROVE  RegInv'
  <2>1. /\ DOMAIN registry' = DOMAIN registry
        /\ \A b \in DOMAIN registry : b # a => registry'[b] = registry[b]
        /\ DOMAIN registry'[a] = {Name[m]} \cup DOMAIN registry[a]
        /\ registry'[a][Name[m]] = m
        /\ \A x \in DOMAIN registry[a] :
            x # Name[m] /\ registry'[a][x] = registry[a][x]
    BY <1>8, <1>12 DEF With
  <2>2. /\ DOMAIN meta' = Models /\ \A x \in Models : IsMeta(meta'[x])
        /\ meta'[m] = s.meta
        /\ \A x \in Models : x # m => meta'[x] = meta[x]
    BY <1>10, <1>12
  <2>3. /\ s.meta.pk # NoKey
        /\ meta[m].pk # NoKey => s.meta.pk = meta[m].pk
        /\ meta[m].autos \subseteq s.meta.autos
        /\ s.meta.autos \subseteq meta[m].autos \cup ({a} \X Def[m].indexed)
        /\ {a} \X Def[m].indexed \subseteq s.meta.autos
        /\ Def[m].validIndexes /\ Def[m].validContainer
        /\ meta[m].pk # NoKey \/ KeySound(m)
    BY <1>7, <1>8, <1>12, SetupMeans
  <2>4. RegTypes'
    BY <1>7, <1>8, <2>1, <2>2 DEF RegInv, RegTypes
  <2>5. ReadyModels'
    <3>1. ASSUME NEW b \in DOMAIN registry', NEW name \in DOMAIN registry'[b]
          PROVE  /\ name = Name[registry'[b][name]]
                 /\ meta'[registry'[b][name]].pk # NoKey
                 /\ {b} \X Def[registry'[b][name]].indexed
                        \subseteq meta'[registry'[b][name]].autos
      <4>1. CASE b = a /\ name = Name[m]
        BY <2>1, <2>2, <2>3, <4>1
      <4>2. CASE ~(b = a /\ name = Name[m])
        <5>1. /\ b \in DOMAIN registry /\ name \in DOMAIN registry[b]
              /\ registry'[b][name] = registry[b][name]
          BY <2>1, <4>2
        <5> DEFINE x == registry[b][name]
        <5>2. /\ x \in Models /\ name = Name[x] /\ meta[x].pk # NoKey
              /\ {b} \X Def[x].indexed \subseteq meta[x].autos
          BY <5>1 DEF RegInv, RegTypes, ReadyModels
        <5>3. registry'[b][name] = x
          BY <5>1
        <5> HIDE DEF x
        <5>4. /\ meta'[x].pk # NoKey /\ meta[x].autos \subseteq meta'[x].autos
          BY <2>2, <2>3, <5>2
        <5> QED
          BY <5>2, <5>3, <5>4
      <4> QED
        BY <4>1, <4>2
    <3> QED
      BY <3>1 DEF ReadyModels
  <2>6. Marked'
    <3>1. ASSUME NEW x \in Models
          PROVE  /\ meta'[x].pk # NoKey =>
                        before.meta[x].pk # NoKey \/ KeySound(x)
                 /\ \A y \in meta'[x].autos :
                        \/ y \in before.meta[x].autos
                        \/ /\ y[1] \in DOMAIN registry'
                           /\ Name[x] \in DOMAIN registry'[y[1]]
      <4>1. /\ meta[x].pk # NoKey => before.meta[x].pk # NoKey \/ KeySound(x)
            /\ \A y \in meta[x].autos :
                \/ y \in before.meta[x].autos
                \/ y[1] \in DOMAIN registry' /\ Name[x] \in DOMAIN registry'[y[1]]
        BY <1>1, <2>1 DEF Marked
      <4>2. CASE x # m
        BY <2>2, <4>1, <4>2
      <4>3. CASE x = m
        <5>1. \A y \in {a} \X Def[m].indexed :
                y[1] \in DOMAIN registry' /\ Name[m] \in DOMAIN registry'[y[1]]
          BY <1>8, <2>1
        <5> QED
          BY <2>2, <2>3, <4>1, <4>3, <5>1
      <4> QED
        BY <4>2, <4>3
    <3> QED
      BY <1>3, <3>1 DEF Marked
  <2>7. ASSUME NEW b, NEW x, b \in DOMAIN registry, Done(b, x)
        PROVE  Done(b, x)'
    BY <1>3, <2>1, <2>7 DEF Done
  <2>8. Done(a, m)'
    BY <1>1, <1>3, <1>7, <2>1, <2>3 DEF Done, Marked, Sound, KeySound
  <2>9. Past(k, j + 1)'
    <3>1. /\ current'.name = a /\ current'.models = Tail(current.models)
          /\ DOMAIN current' = {"name", "models"}
      BY <1>6, <1>12
    <3>2. \A i \in 1 .. j + 1 : Done(a, ms[i])'
      <4>1. \A i \in 1 .. j + 1 : i \in 1 .. j \/ i = j + 1
        BY <1>6
      <4> QED
        BY <1>6, <1>7, <1>8, <2>7, <2>8, <4>1
    <3>3. DOMAIN registry'[a] = {Name[ms[i]] : i \in 1 .. j + 1}
      <4>1. \A i \in 1 .. j + 1 : i \in 1 .. j \/ i = j + 1
        BY <1>6
      <4>2. j + 1 \in 1 .. j + 1 /\ \A i \in 1 .. j : i \in 1 .. j + 1
        BY <1>6
      <4>3. /\ DOMAIN registry'[a] = {Name[m]} \cup {Name[ms[i]] : i \in 1 .. j}
            /\ m = ms[j + 1]
        BY <1>6, <1>7, <2>1
      <4>4. ASSUME NEW x \in {Name[m]} \cup {Name[ms[i]] : i \in 1 .. j}
            PROVE  x \in {Name[ms[i]] : i \in 1 .. j + 1}
        <5>1. CASE x = Name[m]
          BY <4>2, <4>3, <5>1
        <5>2. CASE x \in {Name[ms[i]] : i \in 1 .. j}
          BY <4>2, <5>2
        <5> QED
          BY <4>4, <5>1, <5>2
      <4>5. ASSUME NEW x \in {Name[ms[i]] : i \in 1 .. j + 1}
            PROVE  x \in {Name[m]} \cup {Name[ms[i]] : i \in 1 .. j}
        <5>1. PICK i \in 1 .. j + 1 : x = Name[ms[i]]
          BY <4>5
        <5> QED
          BY <4>1, <4>3, <5>1
      <4> QED
        BY <4>3, <4>4, <4>5
    <3>4. \A i \in 1 .. k - 1 : \A x \in Asks(c[i]) : Done(c[i].name, x)'
      <4>1. \A i \in 1 .. k - 1 : i \in 1 .. k
        OBVIOUS
      <4> QED
        BY <1>6, <2>7, <4>1
    <3>5. /\ before'.call = c /\ before'.apps = before.apps /\ queue' = queue
          /\ j + 1 \in 0 .. Len(ms) /\ k \in 0 .. Len(c) /\ ~(k = 0)
      BY <1>2, <1>3, <1>4, <1>5, <1>7, <1>12
    <3> QED
      <4>1. /\ before'.call \in Calls /\ k \in 0 .. Len(before'.call)
            /\ queue' \in Seq(Range(before'.call))
            /\ Len(queue') = Len(before'.call) - k
            /\ \A i \in 1 .. Len(before'.call) - k :
                    queue'[i] = before'.call[k + i]
            /\ \A i \in 1 .. k : before'.call[i].name \in DOMAIN registry'
            /\ DOMAIN registry' \subseteq
                    before'.apps \cup {before'.call[i].name : i \in 1 .. k}
        BY <1>6, <2>1, <3>5
      <4>2. \A i \in 1 .. k - 1 : \A x \in Asks(before'.call[i]) :
                /\ Name[x] \in DOMAIN registry'[before'.call[i].name]
                /\ Sound(x) \/ before'.meta[x].pk # NoKey
        BY <1>2, <1>3, <3>4 DEF Done
      <4>3. /\ current'.name = before'.call[k].name
            /\ j + 1 \in 0 .. Len(before'.call[k].models)
            /\ current'.models \in Seq(Models)
            /\ Len(current'.models) = Len(before'.call[k].models) - (j + 1)
            /\ \A i \in 1 .. Len(before'.call[k].models) - (j + 1) :
                    current'.models[i] = before'.call[k].models[(j + 1) + i]
            /\ DOMAIN registry'[before'.call[k].name] =
                    {Name[before'.call[k].models[i]] : i \in 1 .. j + 1}
        BY <1>2, <1>7, <3>1, <3>3, <3>5
      <4>4. \A i \in 1 .. j + 1 :
                /\ Name[before'.call[k].models[i]] \in
                        DOMAIN registry'[before'.call[k].name]
                /\ \/ Sound(before'.call[k].models[i])
                   \/ before'.meta[before'.call[k].models[i]].pk # NoKey
        BY <1>2, <1>3, <3>2 DEF Done
      <4> QED
        BY <3>1, <3>5, <4>1, <4>2, <4>3, <4>4 DEF Past, Done, Asks
  <2>10. Registering' /\ RegisterVerdict'
    <3>1. j + 1 \in Nat
      OBVIOUS
    <3> QED
      BY <1>3, <1>12, <2>6, <2>9, <3>1 DEF Registering, RegisterVerdict
  <2> QED
    BY <2>4, <2>5, <2>10 DEF RegInv
<1>13. current.name = a
  BY <1>6
<1> QED
  BY <1>2, <1>9, <1>11, <1>12, <1>13 DEF RegisterModel

\* Register returns: all the settings are done.
LEMMA RegisteredKeeps ==
    ASSUME RegInv, Registered
    PROVE  RegInv'
<1>1. PICK k \in Nat, j \in Nat : Past(k, j)
  BY DEF RegInv, Registering, Registered
<1>2. /\ current.models = <<>> /\ queue = <<>> /\ status' = "registered"
      /\ UNCHANGED <<registry, meta, before>>
  BY DEF Registered
<1>3. /\ k = Len(before.call) /\ DOMAIN before.call = 1 .. k
      /\ \A i \in 1 .. k : before.call[i].name \in DOMAIN registry
  BY <1>1, <1>2, Where DEF Past
<1>4. ASSUME NEW s \in Asked
      PROVE  /\ s.name \in DOMAIN registry
             /\ \A m \in Asks(s) : Done(s.name, m)
  <2>1. PICK i \in 1 .. k : s = before.call[i]
    BY <1>3 DEF Asked
  <2> QED
    BY <1>1, <1>2, <1>3, <2>1, SettingDone
<1>5. RegisterVerdict'
  BY <1>2, <1>4 DEF RegisterVerdict, Done, Asked
<1> QED
  BY <1>2, <1>5 DEF RegInv, RegTypes, ReadyModels, Registering

\* A step that touches nothing of the registry.
LEMMA RegStutters ==
    ASSUME RegInv, UNCHANGED appVars
    PROVE  RegInv'
<1>1. /\ registry' = registry /\ meta' = meta /\ queue' = queue
      /\ current' = current /\ status' = status /\ before' = before
  BY DEF appVars
<1>2. ASSUME NEW k \in Nat, NEW j \in Nat, Past(k, j)
      PROVE  Past(k, j)'
  BY <1>1, <1>2 DEF Past, Done
<1> QED
  <2>1. Registering'
    BY <1>1, <1>2 DEF RegInv, Registering, Marked
  <2>2. RegisterVerdict'
    BY <1>1 DEF RegInv, RegisterVerdict, Asked, Repeated
  <2>3. RegTypes' /\ ReadyModels'
    BY <1>1 DEF RegInv, RegTypes, ReadyModels
  <2> QED
    BY <2>1, <2>2, <2>3 DEF RegInv

\* The registry of applications, through every call and every panic.
LEMMA RegInvariant == AppSpec => []RegInv
<1>1. RegInv /\ [AppNext]_<<vars, appVars>> => RegInv'
  <2> SUFFICES ASSUME RegInv, [AppNext]_<<vars, appVars>>
               PROVE  RegInv'
    OBVIOUS
  <2>1. CASE Next /\ Over /\ UNCHANGED <<registry, meta>>
    BY <2>1, OverKeeps DEF Over
  <2>2. ASSUME NEW call \in Calls, Register(call)
        PROVE  RegInv'
    BY <2>2, RegisterKeeps
  <2>3. CASE ClearRegistry
    BY <2>3, OverKeeps DEF ClearRegistry, Over
  <2>4. CASE UNCHANGED <<vars, appVars>>
    BY <2>4, RegStutters
  <2> QED
    BY <2>1, <2>2, <2>3, <2>4, RegisterAppKeeps, RegisterModelKeeps,
       RegisteredKeeps DEF AppNext
<1> QED
  BY <1>1, RegStarts, PTL DEF AppSpec

\* The application a running Register is at is there.
LEMMA CurrentIsThere ==
    ASSUME RegInv, status = "registering", current.models # <<>>
    PROVE  current.name \in DOMAIN registry
<1>1. PICK k \in Nat, j \in Nat : Past(k, j)
  BY DEF RegInv, Registering
<1>2. k > 0
  BY <1>1 DEF Past
<1>3. k \in 1 .. k /\ current.name = before.call[k].name
  BY <1>1, <1>2 DEF Past
<1> QED
  BY <1>1, <1>3 DEF Past

\* A model belongs to the application that last tried to register it, which is
\* there as long as the model can be reached.
LEMMA OwnedKeeps ==
    ASSUME RegInv, OwnedModels, [AppNext]_<<vars, appVars>>
    PROVE  OwnedModels'
<1>1. CASE registry' = registry /\ appOf' = appOf
  BY <1>1 DEF OwnedModels
<1>2. CASE ClearRegistry
  <2>1. DOMAIN registry' = {}
    BY <1>2 DEF ClearRegistry
  <2> QED
    BY <2>1 DEF OwnedModels
<1>3. CASE RegisterApp /\ registry' # registry
  <2>1. PICK app : /\ app \notin DOMAIN registry
                   /\ registry' = With(registry, app, <<>>) /\ appOf' = appOf
    BY <1>3 DEF RegisterApp
  <2>2. /\ DOMAIN registry' = {app} \cup DOMAIN registry
        /\ DOMAIN registry'[app] = {}
        /\ \A a \in DOMAIN registry : registry'[a] = registry[a]
    BY <2>1 DEF With
  <2> QED
    BY <2>1, <2>2 DEF OwnedModels
<1>4. CASE RegisterModel
  <2>1. PICK m, app : m = Head(current.models) /\ app = current.name
    OBVIOUS
  <2>2. app \in DOMAIN registry
    BY <1>4, <2>1, CurrentIsThere DEF RegisterModel
  <2>3. CASE UNCHANGED <<registry, appOf>>
    BY <1>1, <2>3
  <2>4. CASE /\ appOf' = With(appOf, m, app)
             /\ \/ registry' = registry
                \/ registry' = [registry EXCEPT ![app] = With(@, Name[m], m)]
    <3>1. /\ DOMAIN appOf' = {m} \cup DOMAIN appOf /\ appOf'[m] = app
          /\ \A x \in DOMAIN appOf : x # m => appOf'[x] = appOf[x]
      BY <2>4 DEF With
    <3>2. DOMAIN registry' = DOMAIN registry
      BY <2>4
    <3>3. ASSUME NEW a \in DOMAIN registry', NEW name \in DOMAIN registry'[a]
          PROVE  /\ registry'[a][name] \in DOMAIN appOf'
                 /\ appOf'[registry'[a][name]] \in DOMAIN registry'
      <4>1. CASE registry'[a][name] = m
        BY <2>2, <3>1, <3>2, <4>1
      <4>2. CASE registry'[a][name] # m
        <5>1. /\ a \in DOMAIN registry /\ name \in DOMAIN registry[a]
              /\ registry'[a][name] = registry[a][name]
          BY <2>2, <2>4, <3>2, <3>3, <4>2 DEF With
        <5> QED
          BY <3>1, <3>2, <4>2, <5>1 DEF OwnedModels
      <4> QED
        BY <4>1, <4>2
    <3> QED
      BY <3>3 DEF OwnedModels
  <2> QED
    BY <1>4, <2>1, <2>3, <2>4 DEF RegisterModel
<1>5. \/ registry' = registry /\ appOf' = appOf
      \/ ClearRegistry \/ RegisterModel
      \/ RegisterApp /\ registry' # registry
  BY DEF AppNext, Register, RegisterApp, Registered, appVars
<1> QED
  BY <1>1, <1>2, <1>3, <1>4, <1>5

\* Whatever Register was stopped by, a model that can be reached through the
\* registry has a primary key and the indexes its fields ask for, and belongs to
\* an application that is there.
THEOREM ModelsAreReady == AppSpec => []RegistryInv
<1>1. AppInit => OwnedModels
  <2> SUFFICES ASSUME AppInit
               PROVE  OwnedModels
    OBVIOUS
  <2>1. DOMAIN registry = {}
    BY DEF AppInit
  <2> QED
    BY <2>1 DEF OwnedModels
<1>2. RegInv /\ OwnedModels /\ [AppNext]_<<vars, appVars>> => OwnedModels'
  BY OwnedKeeps
<1>3. DbInv /\ RegInv /\ OwnedModels => RegistryInv
  BY DEF DbInv, RegInv, RegistryInv
<1> QED
  BY <1>1, <1>2, <1>3, DbInvariant, RegInvariant, PTL DEF AppSpec

\* Register returns only when all it was given is there, and panics only with
\* a reason, whatever was registered, cleared or left half done before it.
THEOREM RegisterHasReason == AppSpec => []RegisterVerdict
<1>1. RegInv => RegisterVerdict
  BY DEF RegInv
<1> QED
  BY <1>1, RegInvariant, PTL
=============================================================================
