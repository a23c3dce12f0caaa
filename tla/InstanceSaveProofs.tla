------------------------- MODULE InstanceSaveProofs --------------------------
(***************************************************************************)
(* Proofs about InstanceSave, for any goroutines, values and setups in     *)
(* which New, which hands out the container of the model, is used by one   *)
(* goroutine at most.                                                      *)
(***************************************************************************)
EXTENDS InstanceSave, FiniteSetTheorems, TLAPS

\* One goroutine at most has the container of the model (Dispatcher.New).
OneSharer ==
    \A s \in Setups : \A g, h \in Holders :
        "new" \in s.makes[g] /\ "new" \in s.makes[h] => g = h

Contents == [pk : Pks \cup {Zero, Nil}, val : Vals \cup {Nil, Null}]

\* The keys of an instance in a container of its own or in that of the model.
Fits(where, k) ==
    /\ where = "none" => k = Nil
    /\ where = "own" => k \in Keys \cup IF AutoPk THEN {Nil} ELSE {}
    /\ where = "model" => k \in Keys

\* The types, of what TypeOK leaves out too.
Types ==
    /\ setup \in Setups
    /\ DOMAIN rows \subseteq Pks
    /\ \A p \in DOMAIN rows : rows[p] \in Vals \cup {Null}
    /\ lastPk \in 0 .. setup.max
    /\ held \in [Holders -> {"none", "own", "model"}]
    /\ given \in [Holders -> Vals \cup {Nil, Null}]
    /\ pc \in [Holders -> {"idle", "update", "insert"}]
    /\ answer \in [who : Holders, result : {"none", "ok", "saved", "error"}]
    /\ own \in [Holders -> Contents]
    /\ meta \in Contents
    /\ save \in [Holders -> [pk : Pks \cup {Zero, Nil},
                             fields : {"all", "value"}]]

\* Each instance has a key that fits its container, and what it was given;
\* while it is saved it is not set.
Holds(h) ==
    /\ held[h] = "model" => "new" \in setup.makes[h]
    /\ held[h] = "none" => own[h].pk = Nil
    /\ Fits(held[h], Content(h).pk)
    /\ held[h] # "none" => Content(h).val = given[h]
    /\ pc[h] # "idle" => held[h] # "none" /\ save[h].pk = Content(h).pk

Inv == Types /\ \A h \in Holders : Holds(h)

------------------------------------------------------------------------------
(* Containers *)

\* A container is put in the instance of h: nobody else's is touched.
LEMMA PutKeeps ==
    ASSUME OneSharer, Inv, NEW h \in Holders, NEW where \in {"own", "model"},
           where = "model" => "new" \in setup.makes[h],
           NEW c \in Contents, Fits(where, c.pk), Put(h, where, c),
           setup' = setup, given' = [given EXCEPT ![h] = c.val]
    PROVE  /\ held' \in [Holders -> {"none", "own", "model"}]
           /\ given' \in [Holders -> Vals \cup {Nil, Null}]
           /\ own' \in [Holders -> Contents] /\ meta' \in Contents
           /\ held'[h] = where /\ Content(h)' = c /\ given'[h] = c.val
           /\ \A g \in Holders : g # h =>
                /\ held'[g] = held[g] /\ own'[g] = own[g]
                /\ Content(g)' = Content(g) /\ given'[g] = given[g]
<1>1. /\ held \in [Holders -> {"none", "own", "model"}]
      /\ given \in [Holders -> Vals \cup {Nil, Null}]
      /\ own \in [Holders -> Contents] /\ meta \in Contents /\ setup \in Setups
      /\ \A g \in Holders : held[g] = "model" => "new" \in setup.makes[g]
      /\ c.val \in Vals \cup {Nil, Null}
  BY DEF Inv, Types, Holds, Contents
<1>2. /\ held' = [held EXCEPT ![h] = where]
      /\ IF where = "model" THEN meta' = c /\ own' = own
         ELSE own' = [own EXCEPT ![h] = c] /\ meta' = meta
  BY DEF Put
<1>3. /\ held' \in [Holders -> {"none", "own", "model"}]
      /\ given' \in [Holders -> Vals \cup {Nil, Null}]
      /\ held'[h] = where /\ given'[h] = c.val
      /\ \A g \in Holders : g # h => held'[g] = held[g] /\ given'[g] = given[g]
  BY <1>1, <1>2
<1>4. CASE where = "model"
  <2>1. own' = own /\ meta' = c
    BY <1>2, <1>4
  <2>2. \A g \in Holders : g # h => held[g] # "model"
    BY <1>1, <1>4 DEF OneSharer
  <2> QED
    BY <1>1, <1>3, <1>4, <2>1, <2>2 DEF Content
<1>5. CASE where # "model"
  <2>1. meta' = meta /\ own' = [own EXCEPT ![h] = c]
    BY <1>2, <1>5
  <2>2. /\ own' \in [Holders -> Contents] /\ own'[h] = c
        /\ \A g \in Holders : g # h => own'[g] = own[g]
    BY <1>1, <2>1
  <2> QED
    BY <1>1, <1>3, <1>5, <2>1, <2>2 DEF Content
<1> QED
  BY <1>4, <1>5

\* So it keeps the invariant, if the call is at its end or its key is that of
\* the Save.
LEMMA PutInv ==
    ASSUME OneSharer, Inv, NEW h \in Holders, NEW where \in {"own", "model"},
           where = "model" => "new" \in setup.makes[h],
           NEW c \in Contents, Fits(where, c.pk), Put(h, where, c),
           setup' = setup, given' = [given EXCEPT ![h] = c.val],
           save' = save,
           \/ pc' = pc /\ pc[h] = "idle"
           \/ pc' = [pc EXCEPT ![h] = "idle"]
           \/ pc' = [pc EXCEPT ![h] = "insert"] /\ save[h].pk = c.pk,
           DOMAIN rows' \subseteq Pks,
           \A p \in DOMAIN rows' : rows'[p] \in Vals \cup {Null},
           lastPk' \in 0 .. setup.max,
           NEW result \in {"none", "ok", "saved", "error"}, Return(h, result)
    PROVE  Inv'
<1>1. /\ held' \in [Holders -> {"none", "own", "model"}]
      /\ given' \in [Holders -> Vals \cup {Nil, Null}]
      /\ own' \in [Holders -> Contents] /\ meta' \in Contents
      /\ held'[h] = where /\ Content(h)' = c /\ given'[h] = c.val
      /\ \A g \in Holders : g # h =>
            /\ held'[g] = held[g] /\ own'[g] = own[g]
            /\ Content(g)' = Content(g) /\ given'[g] = given[g]
  BY PutKeeps
<1>2. Keys' = Keys /\ Pks' = Pks /\ AutoPk' = AutoPk /\ Contents' = Contents
  BY DEF Keys, Pks, AutoPk, Contents
<1>3. /\ pc \in [Holders -> {"idle", "update", "insert"}]
      /\ setup \in Setups
      /\ save \in [Holders -> [pk : Pks \cup {Zero, Nil},
                               fields : {"all", "value"}]]
  BY DEF Inv, Types
<1>4. /\ pc' \in [Holders -> {"idle", "update", "insert"}]
      /\ \A g \in Holders : g # h => pc'[g] = pc[g]
      /\ pc'[h] # "idle" => save[h].pk = c.pk
  BY <1>3
<1>5. answer' \in [who : Holders, result : {"none", "ok", "saved", "error"}]
  BY DEF Return
<1>6. Types'
  BY <1>1, <1>2, <1>3, <1>4, <1>5 DEF Types
<1>7. ASSUME NEW g \in Holders, g # h
      PROVE  Holds(g)'
  <2>1. Holds(g)
    BY DEF Inv
  <2>2. Fits(held[g], Content(g).pk)'
    BY <1>1, <1>2, <1>7, <2>1 DEF Holds, Fits
  <2> QED
    BY <1>1, <1>4, <1>7, <2>1, <2>2 DEF Holds
<1>8. Holds(h)'
  <2>1. Fits(held[h], Content(h).pk)'
    BY <1>1, <1>2 DEF Fits
  <2> QED
    BY <1>1, <1>4, <2>1 DEF Holds
<1> QED
  BY <1>6, <1>7, <1>8 DEF Inv

\* What a container of an instance is.
LEMMA ContentIs ==
    ASSUME Inv, NEW h \in Holders
    PROVE  /\ Content(h) \in Contents
           /\ Content(h).pk \in Pks \cup {Zero, Nil}
           /\ Content(h).val \in Vals \cup {Nil, Null}
           /\ \A v \in Vals \cup {Nil, Null} :
                /\ [Content(h) EXCEPT !.val = v] \in Contents
                /\ [Content(h) EXCEPT !.val = v].pk = Content(h).pk
                /\ [Content(h) EXCEPT !.val = v].val = v
           /\ \A p \in Keys :
                /\ [Content(h) EXCEPT !.pk = p] \in Contents
                /\ [Content(h) EXCEPT !.pk = p].pk = p
                /\ [Content(h) EXCEPT !.pk = p].val = Content(h).val
<1>1. Content(h) \in Contents
  BY DEF Inv, Types, Content
<1> QED
  BY <1>1 DEF Contents, Keys

------------------------------------------------------------------------------
(* Statements *)

\* An INSERT adds one row, whose key it sends or the database chooses.
LEMMA InsertsOne ==
    ASSUME Types, NEW p, NEW v, NEW pk, Inserts(p, v, pk)
    PROVE  /\ pk \in Pks \ DOMAIN rows
           /\ DOMAIN rows' = {pk} \cup DOMAIN rows
           /\ \A k \in DOMAIN rows : rows'[k] = rows[k]
           /\ rows'[pk] = IF v \in Vals THEN v ELSE Null
           /\ DOMAIN rows' \subseteq Pks
           /\ \A k \in DOMAIN rows' : rows'[k] \in Vals \cup {Null}
           /\ lastPk' \in 0 .. setup.max
           /\ p # Nil => pk = p
           /\ p = Nil => AutoPk \/ (setup.pk = "integer" /\ setup.driver = "sqlite3")
<1>1. setup.max \in Nat
  BY InstanceAssumption DEF Types
<1>2. pk \in Pks \ DOMAIN rows /\ pk \in 0 .. setup.max
  BY <1>1 DEF Inserts, Pks
<1> QED
  BY <1>2 DEF Inserts, Types

\* An INSERT that returns an error added a row or none.
LEMMA MayInsertOne ==
    ASSUME Types, NEW p, NEW v, MayInsert(p, v)
    PROVE  /\ DOMAIN rows' \subseteq Pks
           /\ \A k \in DOMAIN rows' : rows'[k] \in Vals \cup {Null}
           /\ lastPk' \in 0 .. setup.max
           /\ DOMAIN rows \subseteq DOMAIN rows'
           /\ \A k \in DOMAIN rows : rows'[k] = rows[k]
           /\ \/ rows' = rows
              \/ \E pk \in Pks \ DOMAIN rows : DOMAIN rows' = {pk} \cup DOMAIN rows
<1>1. CASE UNCHANGED <<rows, lastPk>>
  BY <1>1 DEF Types
<1>2. ASSUME NEW pk \in Pks, Inserts(p, v, pk)
      PROVE  /\ pk \in Pks \ DOMAIN rows
             /\ DOMAIN rows' = {pk} \cup DOMAIN rows
             /\ \A k \in DOMAIN rows : rows'[k] = rows[k]
             /\ DOMAIN rows' \subseteq Pks
             /\ \A k \in DOMAIN rows' : rows'[k] \in Vals \cup {Null}
             /\ lastPk' \in 0 .. setup.max
  BY <1>2, InsertsOne
<1> QED
  BY <1>1, <1>2 DEF MayInsert

\* What a Save sends is of the type of the column, or nil.
LEMMA SavesValues ==
    ASSUME Types, NEW v \in Vals \cup {Nil, Null}
    PROVE  /\ Otherwise(v) \in Vals \cup {Nil, Null}
           /\ \A creating \in BOOLEAN : ToSave(v, creating) \subseteq
                Vals \cup {Nil, Null}
<1>1. setup.default \in Vals
  BY InstanceAssumption DEF Types
<1> QED
  BY <1>1 DEF Otherwise, ToSave

\* An UPDATE changes one row at most.
LEMMA UpdatesOne ==
    ASSUME Types, NEW h \in Holders, NEW v \in Vals \cup {Nil, Null},
           rows' = Updated(h, v)
    PROVE  /\ DOMAIN rows' = DOMAIN rows
           /\ \A p \in DOMAIN rows : rows'[p] \in Vals \cup {Null}
           /\ \A p \in DOMAIN rows : p # save[h].pk => rows'[p] = rows[p]
           /\ save[h].pk \in DOMAIN rows =>
                rows'[save[h].pk] = IF v # Nil THEN v ELSE rows[save[h].pk]
BY DEF Updated, Types

------------------------------------------------------------------------------
(* The steps *)

\* There are no instances at first.
LEMMA Starts == Init => Inv
<1> SUFFICES ASSUME Init
             PROVE  Inv
  OBVIOUS
<1>1. setup.max \in Nat /\ setup \in Setups /\ DOMAIN rows = {}
  BY InstanceAssumption DEF Init
<1>2. Empty \in Contents /\ Empty.pk = Nil
  BY DEF Empty, Contents
<1>3. Types
  BY <1>1, <1>2 DEF Init, Types
<1>4. ASSUME NEW h \in Holders
      PROVE  Holds(h)
  BY <1>2 DEF Init, Holds, Fits, Content
<1> QED
  BY <1>3, <1>4 DEF Inv

\* Create, with the row it leaves or does not leave.
LEMMA CreateKeeps ==
    ASSUME OneSharer, Inv, NEW h \in Holders, NEW x \in Vals \cup {Nil},
           Create(h, x)
    PROVE  Inv'
<1>1. PICK p \in IF AutoPk THEN {Nil} ELSE Pks,
           v \in IF setup.field = "created" THEN Vals ELSE {Otherwise(x)} :
        /\ given' = [given EXCEPT ![h] = v]
        /\ \/ \E pk \in Pks :
                /\ KeyIsRead
                /\ Inserts(p, v, pk)
                /\ Put(h, "own", [pk |-> pk, val |-> v])
                /\ Return(h, "ok")
           \/ /\ MayInsert(p, v)
              /\ Put(h, "own", [pk |-> p, val |-> v])
              /\ Return(h, "error")
  BY DEF Create
<1>2. Types /\ pc[h] = "idle" /\ pc' = pc /\ save' = save /\ setup' = setup
  BY DEF Create, Inv, Idle
<1>3. v \in Vals \cup {Nil, Null}
  BY <1>2, SavesValues
<1>4. ASSUME NEW pk \in Pks, Inserts(p, v, pk),
             Put(h, "own", [pk |-> pk, val |-> v]), Return(h, "ok")
      PROVE  Inv'
  <2>1. /\ [pk |-> pk, val |-> v] \in Contents
        /\ [pk |-> pk, val |-> v].val = v
        /\ Fits("own", [pk |-> pk, val |-> v].pk)
    BY <1>3 DEF Contents, Fits, Keys
  <2>2. /\ DOMAIN rows' \subseteq Pks /\ lastPk' \in 0 .. setup.max
        /\ \A k \in DOMAIN rows' : rows'[k] \in Vals \cup {Null}
    BY <1>2, <1>4, InsertsOne
  <2> QED
    BY <1>1, <1>2, <1>4, <2>1, <2>2, PutInv
<1>5. ASSUME MayInsert(p, v), Put(h, "own", [pk |-> p, val |-> v]),
             Return(h, "error")
      PROVE  Inv'
  <2>1. /\ [pk |-> p, val |-> v] \in Contents
        /\ [pk |-> p, val |-> v].val = v
        /\ Fits("own", [pk |-> p, val |-> v].pk)
    BY <1>3 DEF Contents, Fits, Keys
  <2>2. /\ DOMAIN rows' \subseteq Pks /\ lastPk' \in 0 .. setup.max
        /\ \A k \in DOMAIN rows' : rows'[k] \in Vals \cup {Null}
    BY <1>2, <1>5, MayInsertOne
  <2> QED
    BY <1>1, <1>2, <1>5, <2>1, <2>2, PutInv
<1> QED
  BY <1>1, <1>4, <1>5

\* The ways of getting an instance without a statement of its own.
LEMMA MakeKeeps ==
    ASSUME OneSharer, Inv, NEW h \in Holders,
           \/ \E x \in Vals \cup {Nil} : New(h, x)
           \/ \E p \in Pks, v \in Vals \cup {Nil, Null} : Get(h, p, v)
    PROVE  Inv'
<1>1. Types /\ pc[h] = "idle" /\ pc' = pc /\ save' = save /\ setup' = setup
      /\ rows' = rows /\ lastPk' = lastPk
  BY DEF New, Get, Inv, Idle
<1>2. /\ DOMAIN rows' \subseteq Pks /\ lastPk' \in 0 .. setup.max
      /\ \A k \in DOMAIN rows' : rows'[k] \in Vals \cup {Null}
  BY <1>1 DEF Types
<1>3. ASSUME NEW x \in Vals \cup {Nil}, New(h, x)
      PROVE  Inv'
  <2>1. PICK p \in Keys :
            Put(h, "model", [pk |-> p, val |-> NewValue(x)])
    BY <1>3 DEF New
  <2>2. NewValue(x) \in Vals \cup {Nil, Null}
    BY <1>1, SavesValues DEF NewValue
  <2>3. /\ [pk |-> p, val |-> NewValue(x)] \in Contents
        /\ [pk |-> p, val |-> NewValue(x)].val = NewValue(x)
        /\ Fits("model", [pk |-> p, val |-> NewValue(x)].pk)
    BY <2>2 DEF Contents, Fits, Keys
  <2> QED
    BY <1>1, <1>2, <1>3, <2>1, <2>3, PutInv DEF New
<1>4. ASSUME NEW p \in Pks, NEW v \in Vals \cup {Nil, Null}, Get(h, p, v)
      PROVE  Inv'
  <2>1. /\ [pk |-> p, val |-> v] \in Contents
        /\ [pk |-> p, val |-> v].val = v
        /\ Fits("own", [pk |-> p, val |-> v].pk)
    BY DEF Contents, Fits, Keys
  <2> QED
    BY <1>1, <1>2, <1>4, <2>1, PutInv DEF Get
<1> QED
  BY <1>3, <1>4

\* New fails: it may have written to the container of the model, which no
\* other instance has.
LEMMA NewFailsKeeps ==
    ASSUME OneSharer, Inv, NEW h \in Holders, NEW x \in Vals \cup {Nil},
           NewFails(h, x)
    PROVE  Inv'
<1>1. /\ Types /\ pc[h] = "idle" /\ "new" \in setup.makes[h]
      /\ held' = [held EXCEPT ![h] = "none"] /\ own' = [own EXCEPT ![h] = Empty]
      /\ UNCHANGED <<setup, rows, lastPk, given, pc, save>>
      /\ Return(h, "error")
  BY DEF NewFails, Inv, Idle
<1>2. Keys' = Keys /\ Pks' = Pks /\ AutoPk' = AutoPk /\ Contents' = Contents
  BY <1>1 DEF Keys, Pks, AutoPk, Contents
<1>3. meta' \in Contents
  <2>1. NewValue(x) \in Vals \cup {Nil, Null}
    BY <1>1, SavesValues DEF NewValue
  <2>2. meta \in Contents
    BY <1>1 DEF Types
  <2> QED
    BY <2>1, <2>2 DEF NewFails, Contents, Keys
<1>4. Empty \in Contents /\ Empty.pk = Nil
  BY DEF Empty, Contents
<1>5. /\ held' \in [Holders -> {"none", "own", "model"}]
      /\ own' \in [Holders -> Contents]
      /\ held'[h] = "none" /\ own'[h].pk = Nil
      /\ \A g \in Holders : g # h =>
            held'[g] = held[g] /\ own'[g] = own[g] /\ held[g] # "model"
  BY <1>1, <1>4 DEF Types, Inv, Holds, OneSharer
<1>6. answer' \in [who : Holders, result : {"none", "ok", "saved", "error"}]
  BY <1>1 DEF Return
<1>7. Types'
  BY <1>1, <1>2, <1>3, <1>5, <1>6 DEF Types
<1>8. ASSUME NEW g \in Holders
      PROVE  Holds(g)'
  <2>1. CASE g # h
    <3>1. Holds(g) /\ Content(g)' = Content(g)
      BY <1>5, <2>1 DEF Inv, Content
    <3>2. Fits(held[g], Content(g).pk)'
      BY <1>2, <1>5, <2>1, <3>1 DEF Holds, Fits
    <3> QED
      BY <1>1, <1>5, <2>1, <3>1, <3>2 DEF Holds
  <2>2. CASE g = h
    BY <1>1, <1>5, <2>2 DEF Holds, Fits, Content
  <2> QED
    BY <2>1, <2>2
<1> QED
  BY <1>7, <1>8 DEF Inv

\* The ways of changing an instance.
LEMMA SetKeeps ==
    ASSUME OneSharer, Inv, NEW h \in Holders,
           \/ \E v \in Vals \cup {Null} : Set(h, v)
           \/ \E p \in Keys : SetPk(h, p)
    PROVE  Inv'
<1>1. /\ Types /\ pc[h] = "idle" /\ pc' = pc /\ save' = save /\ setup' = setup
      /\ rows' = rows /\ lastPk' = lastPk /\ held[h] \in {"own", "model"}
  BY DEF Set, SetPk, Inv, Types, Idle, Has
<1>2. /\ DOMAIN rows' \subseteq Pks /\ lastPk' \in 0 .. setup.max
      /\ \A k \in DOMAIN rows' : rows'[k] \in Vals \cup {Null}
  BY <1>1 DEF Types
<1>3. /\ held[h] = "model" => "new" \in setup.makes[h]
      /\ Fits(held[h], Content(h).pk) /\ Content(h).val = given[h]
  BY <1>1 DEF Inv, Holds
<1>4. ASSUME NEW v \in Vals \cup {Null}, Set(h, v)
      PROVE  Inv'
  <2>1. PICK c : c = [Content(h) EXCEPT !.val = v]
    OBVIOUS
  <2>2. c \in Contents /\ c.pk = Content(h).pk /\ c.val = v
    BY <2>1, ContentIs
  <2>3. /\ Put(h, held[h], c) /\ given' = [given EXCEPT ![h] = v]
        /\ Return(h, "ok")
    BY <1>4, <2>1 DEF Set
  <2> QED
    BY <1>1, <1>2, <1>3, <2>2, <2>3, PutInv
<1>5. ASSUME NEW p \in Keys, SetPk(h, p)
      PROVE  Inv'
  <2>1. Fits(held[h], p)
    BY <1>1, <1>5 DEF SetPk, Fits
  <2>2. given' = [given EXCEPT ![h] = Content(h).val]
    BY <1>1, <1>3, <1>5 DEF SetPk, Types
  <2> QED
    <3>1. PICK c : c = [Content(h) EXCEPT !.pk = p]
      OBVIOUS
    <3>2. c \in Contents /\ c.pk = p /\ c.val = Content(h).val
      BY <3>1, ContentIs
    <3>3. Put(h, held[h], c) /\ Return(h, "ok")
      BY <1>5, <3>1 DEF SetPk
    <3> QED
      BY <1>1, <1>2, <1>3, <2>1, <2>2, <3>2, <3>3, PutInv
<1> QED
  BY <1>4, <1>5

\* A Save begins, with the key of its instance.
LEMMA SaveKeeps ==
    ASSUME Inv, NEW h \in Holders, NEW f \in {"all", "value"}, Save(h, f)
    PROVE  Inv'
<1>1. /\ Types /\ held[h] # "none" /\ Return(h, "none")
      /\ save' = [save EXCEPT ![h] = [pk |-> Content(h).pk, fields |-> f]]
      /\ pc' = [pc EXCEPT ![h] =
                    IF Keyless(Content(h).pk) THEN "insert" ELSE "update"]
      /\ UNCHANGED <<setup, rows, lastPk, held, own, meta, given>>
  BY DEF Save, Has, Inv
<1>2. Keys' = Keys /\ Pks' = Pks /\ AutoPk' = AutoPk /\ Contents' = Contents
  BY <1>1 DEF Keys, Pks, AutoPk, Contents
<1>3. \A g \in Holders : Content(g)' = Content(g)
  BY <1>1 DEF Content
<1>4. Types'
  <2>1. Content(h).pk \in Pks \cup {Zero, Nil}
    BY ContentIs
  <2> QED
    BY <1>1, <1>2, <2>1 DEF Types, Return
<1>5. ASSUME NEW g \in Holders
      PROVE  Holds(g)'
  <2>1. Holds(g) /\ Fits(held[g], Content(g).pk)'
    BY <1>1, <1>2, <1>3 DEF Inv, Holds, Fits
  <2> QED
    BY <1>1, <1>3, <2>1 DEF Holds, Types
<1> QED
  BY <1>4, <1>5 DEF Inv

\* What a call that runs knows of its instance.
LEMMA Running ==
    ASSUME Inv, NEW h \in Holders, pc[h] # "idle"
    PROVE  /\ held[h] \in {"own", "model"}
           /\ held[h] = "model" => "new" \in setup.makes[h]
           /\ Fits(held[h], Content(h).pk)
           /\ Content(h).val = given[h]
           /\ save[h].pk = Content(h).pk
           /\ \A creating \in BOOLEAN :
                ToSave(Content(h).val, creating) \subseteq Vals \cup {Nil, Null}
<1>1. held[h] \in {"none", "own", "model"} /\ Types /\ Holds(h)
  BY DEF Inv, Types
<1>2. Content(h).val \in Vals \cup {Nil, Null}
  BY ContentIs
<1> QED
  BY <1>1, <1>2, SavesValues DEF Holds

\* The UPDATE of a Save: it finds the row, or not.
LEMMA UpdateKeeps ==
    ASSUME OneSharer, Inv, NEW h \in Holders, Update(h)
    PROVE  Inv'
<1>1. /\ Types /\ pc[h] = "update" /\ setup' = setup /\ save' = save
      /\ lastPk' = lastPk
      /\ \/ pc' = [pc EXCEPT ![h] = "idle"] /\ Return(h, "saved")
         \/ pc' = [pc EXCEPT ![h] = "insert"] /\ Return(h, "none")
  BY DEF Update, Inv
<1>2. PICK v \in ToSave(Content(h).val, FALSE) :
        Gives(h, v) /\ rows' = Updated(h, v)
  BY DEF Update
<1>3. v \in Vals \cup {Nil, Null}
  BY <1>1, Running
<1>4. /\ DOMAIN rows' \subseteq Pks /\ lastPk' \in 0 .. setup.max
      /\ \A k \in DOMAIN rows' : rows'[k] \in Vals \cup {Null}
  BY <1>1, <1>2, <1>3, UpdatesOne DEF Types
<1> QED
  <2>1. PICK c : c = [Content(h) EXCEPT !.val = v]
    OBVIOUS
  <2>2. c \in Contents /\ c.pk = Content(h).pk /\ c.val = v
    BY <1>3, <2>1, ContentIs
  <2>3. Put(h, held[h], c) /\ given' = [given EXCEPT ![h] = v]
    BY <1>2, <2>1 DEF Gives
  <2>4. /\ held[h] \in {"own", "model"}
        /\ held[h] = "model" => "new" \in setup.makes[h]
        /\ Fits(held[h], c.pk) /\ save[h].pk = c.pk
    BY <1>1, <2>2, Running
  <2> QED
    BY <1>1, <1>4, <2>2, <2>3, <2>4, PutInv

\* The INSERT of a Save.
LEMMA InsertKeeps ==
    ASSUME OneSharer, Inv, NEW h \in Holders, Insert(h)
    PROVE  Inv'
<1>1. /\ Types /\ pc[h] = "insert" /\ setup' = setup /\ save' = save
      /\ pc' = [pc EXCEPT ![h] = "idle"] /\ Return(h, "saved")
  BY DEF Insert, Inv
<1>2. PICK pk \in Pks, v \in ToSave(Content(h).val, TRUE) :
        /\ Inserts(SentPk(h), v, pk)
        /\ LET key == IF Keyless(save[h].pk) THEN pk ELSE Content(h).pk
           IN Put(h, held[h], [pk |-> key, val |-> v])
        /\ given' = [given EXCEPT ![h] = v]
  BY DEF Insert
<1> DEFINE key == IF Keyless(save[h].pk) THEN pk ELSE Content(h).pk
<1>3. v \in Vals \cup {Nil, Null} /\ Content(h).pk \in Pks \cup {Zero, Nil}
  BY <1>1, Running, ContentIs
<1>4. /\ [pk |-> key, val |-> v] \in Contents
      /\ [pk |-> key, val |-> v].val = v
      /\ [pk |-> key, val |-> v].pk = key
  BY <1>3 DEF Contents
<1>5. Fits(held[h], key)
  BY <1>1, Running DEF Fits, Keys
<1>6. /\ DOMAIN rows' \subseteq Pks /\ lastPk' \in 0 .. setup.max
      /\ \A k \in DOMAIN rows' : rows'[k] \in Vals \cup {Null}
  BY <1>1, <1>2, InsertsOne
<1> QED
  BY <1>1, <1>2, <1>4, <1>5, <1>6, Running, PutInv

\* A Save that returns an error.
LEMMA SaveFailsKeeps ==
    ASSUME OneSharer, Inv, NEW h \in Holders, SaveFails(h)
    PROVE  Inv'
<1>1. PICK v \in ToSave(Content(h).val, pc[h] = "insert") :
        /\ Gives(h, v)
        /\ \/ /\ pc[h] = "update"
              /\ rows' = rows \/ (Updates(h, v) /\ rows' = Updated(h, v))
              /\ UNCHANGED lastPk
           \/ pc[h] = "insert" /\ MayInsert(SentPk(h), v)
  BY DEF SaveFails
<1>2. /\ Types /\ pc[h] # "idle" /\ setup' = setup /\ save' = save
      /\ pc' = [pc EXCEPT ![h] = "idle"] /\ Return(h, "error")
  BY <1>1 DEF SaveFails, Inv
<1>3. v \in Vals \cup {Nil, Null}
  BY <1>2, Running
<1>4. /\ DOMAIN rows' \subseteq Pks /\ lastPk' \in 0 .. setup.max
      /\ \A k \in DOMAIN rows' : rows'[k] \in Vals \cup {Null}
  BY <1>1, <1>2, <1>3, UpdatesOne, MayInsertOne DEF Types
<1> QED
  BY <1>1, <1>2, <1>3, <1>4, Running, ContentIs, PutInv DEF Gives

\* A step that leaves the instances alone.
LEMMA OthersKeep ==
    ASSUME Inv, UNCHANGED <<setup, lastPk, held, own, meta, given, pc, save>>,
           DOMAIN rows' \subseteq DOMAIN rows,
           \A p \in DOMAIN rows' : rows'[p] = rows[p],
           \/ answer' = answer
           \/ \E h \in Holders, result \in {"ok", "error"} : Return(h, result)
    PROVE  Inv'
<1>1. Keys' = Keys /\ Pks' = Pks /\ AutoPk' = AutoPk /\ Contents' = Contents
  BY DEF Keys, Pks, AutoPk, Contents
<1>2. Types'
  BY <1>1 DEF Inv, Types, Return
<1>3. ASSUME NEW g \in Holders
      PROVE  Holds(g)'
  <2>1. Holds(g) /\ Content(g)' = Content(g)
    BY DEF Inv, Content
  <2>2. Fits(held[g], Content(g).pk)'
    BY <1>1, <2>1 DEF Holds, Fits
  <2> QED
    BY <2>1, <2>2 DEF Holds
<1> QED
  BY <1>2, <1>3 DEF Inv

\* A Delete leaves the other rows.
LEMMA DeleteIs ==
    ASSUME NEW h \in Holders, Delete(h)
    PROVE  /\ DOMAIN rows' \subseteq DOMAIN rows
           /\ \A p \in DOMAIN rows' : rows'[p] = rows[p]
           /\ \E result \in {"ok", "error"} : Return(h, result)
           /\ h \in setup.deleters
           /\ UNCHANGED <<setup, lastPk, held, own, meta, given, pc, save>>
BY DEF Delete, Restrict

\* Every step keeps the invariant.
LEMMA Keeps ==
    ASSUME OneSharer, Inv, [Next]_vars
    PROVE  Inv'
<1>1. CASE UNCHANGED vars
  BY <1>1, OthersKeep DEF vars
<1>2. ASSUME NEW h \in Holders, Delete(h)
      PROVE  Inv'
  BY <1>2, DeleteIs, OthersKeep
<1> QED
  BY <1>1, <1>2, CreateKeeps, MakeKeeps, NewFailsKeeps, SetKeeps, SaveKeeps,
     UpdateKeeps, InsertKeeps, SaveFailsKeeps DEF Next

\* The invariant of every interleaving.
LEMMA Invariant ==
    ASSUME OneSharer
    PROVE  Spec => []Inv
BY Starts, Keeps, PTL DEF Spec

------------------------------------------------------------------------------
(* What an instance is *)

\* Each instance has a key its container allows and holds what it was given,
\* by its program or by its field, and never what another was given.
THEOREM InstancesAreSeparate ==
    ASSUME OneSharer
    PROVE  Spec => []InstanceInv
<1>1. Inv => InstanceInv
  <2> SUFFICES ASSUME Inv
               PROVE  InstanceInv
    OBVIOUS
  <2>1. \A h \in Holders :
            Content(h).pk \in
                CASE held[h] = "none" -> {Nil}
                  [] held[h] = "own" -> Keys \cup IF AutoPk THEN {Nil} ELSE {}
                  [] held[h] = "model" -> Keys
    <3> SUFFICES ASSUME NEW h \in Holders
                 PROVE  Content(h).pk \in
                            CASE held[h] = "none" -> {Nil}
                              [] held[h] = "own" ->
                                    Keys \cup IF AutoPk THEN {Nil} ELSE {}
                              [] held[h] = "model" -> Keys
      OBVIOUS
    <3>1. held[h] \in {"none", "own", "model"} /\ Fits(held[h], Content(h).pk)
      BY DEF Inv, Types, Holds
    <3> QED
      BY <3>1 DEF Fits
  <2> QED
    BY <2>1 DEF Inv, Types, Holds, InstanceInv, TypeOK, Separate
<1> QED
  BY <1>1, Invariant, PTL

------------------------------------------------------------------------------
(* What a Save does *)

\* The step of h that ends a Save with nil is its UPDATE or its INSERT.
LEMMA SavesBy ==
    ASSUME Types, Next, NEW h \in Holders, Saves(h)
    PROVE  \/ Update(h) /\ save[h].pk \in DOMAIN rows
           \/ Insert(h)
<1>1. PICK g \in Holders :
        \/ \E x \in Vals \cup {Nil} : Create(g, x) \/ New(g, x) \/ NewFails(g, x)
        \/ \E v \in Vals \cup {Null} : Set(g, v)
        \/ \E p \in Keys : SetPk(g, p)
        \/ \E p \in Pks, v \in Vals \cup {Nil, Null} : Get(g, p, v)
        \/ \E f \in {"all", "value"} : Save(g, f)
        \/ Update(g)
        \/ Insert(g)
        \/ SaveFails(g)
        \/ Delete(g)
  BY DEF Next
<1>2. answer' = [who |-> h, result |-> "saved"]
  BY DEF Saves
<1>3. \/ Update(g) /\ Return(g, "saved")
      \/ Insert(g) /\ Return(g, "saved")
  BY <1>1, <1>2
  DEF Create, New, NewFails, Set, SetPk, Get, Save, Update, Insert, SaveFails,
      Delete, Return
<1>4. g = h
  BY <1>2, <1>3 DEF Return
<1>5. CASE Update(g) /\ Return(g, "saved")
  BY <1>4, <1>5 DEF Update, Return
<1> QED
  BY <1>3, <1>4, <1>5

\* A Save that finds a row with the key of its instance leaves the value or
\* writes what the instance held already: the Save adds no default and no moment
\* of creation, though another statement may come between its UPDATE and its
\* INSERT.
THEOREM FoundRowsKeep ==
    ASSUME OneSharer
    PROVE  Spec => FoundRowKeeps
<1>1. ASSUME Inv, Next, NEW h \in Holders, Saves(h),
             Content(h).pk \in DOMAIN rows, setup.field # "updated"
      PROVE  rows'[Content(h).pk] \in {rows[Content(h).pk], Content(h).val}
  <2>0. Types
    BY <1>1 DEF Inv
  <2>1. CASE Update(h)
    <3>1. PICK v \in ToSave(Content(h).val, FALSE) : rows' = Updated(h, v)
      BY <2>1 DEF Update
    <3>2. pc[h] # "idle"
      BY <2>1 DEF Update
    <3>3. /\ Content(h).val = given[h] /\ save[h].pk = Content(h).pk
          /\ v \in Vals \cup {Nil, Null}
      BY <1>1, <3>2, Running
    <3>4. v = given[h]
      <4>1. ToSave(Content(h).val, FALSE) = {Content(h).val}
        BY <1>1 DEF ToSave
      <4> QED
        BY <3>1, <3>3, <4>1
    <3>5. rows'[save[h].pk] = IF v # Nil THEN v ELSE rows[save[h].pk]
      BY <1>1, <2>0, <3>1, <3>3, UpdatesOne
    <3> QED
      BY <3>3, <3>4, <3>5
  <2>2. CASE Insert(h)
    BY <1>1, <2>0, <2>2, InsertsOne DEF Insert
  <2> QED
    BY <1>1, <2>0, <2>1, <2>2, SavesBy
<1>2. Inv /\ [Next]_vars =>
        [\A h \in Holders :
            LET key == Content(h).pk IN
            Saves(h) /\ key \in DOMAIN rows /\ setup.field # "updated" =>
                rows'[key] \in {rows[key], Content(h).val}]_vars
  BY <1>1
<1> QED
  BY <1>2, Invariant, PTL DEF Spec, FoundRowKeeps

------------------------------------------------------------------------------
(* Where the object is saved *)

\* The row an INSERT of a Save leaves has the key its instance then has, unless
\* it strays.
LEMMA InsertTells ==
    ASSUME OneSharer, Inv, NEW h \in Holders, Insert(h)
    PROVE  \E pk \in Pks, v \in Vals \cup {Nil, Null} :
            /\ Inserts(SentPk(h), v, pk)
            /\ Content(h)'.pk = pk \/ Strays(h)
            /\ given'[h] = v
<1>1. PICK pk \in Pks, v \in ToSave(Content(h).val, TRUE) :
        /\ Inserts(SentPk(h), v, pk)
        /\ LET key == IF Keyless(save[h].pk) THEN pk ELSE Content(h).pk
           IN Put(h, held[h], [pk |-> key, val |-> v])
        /\ given' = [given EXCEPT ![h] = v]
  BY DEF Insert
<1>2. PICK key : key = IF Keyless(save[h].pk) THEN pk ELSE Content(h).pk
  OBVIOUS
<1>3. PICK c : c = [pk |-> key, val |-> v]
  OBVIOUS
<1>4. /\ pc[h] = "insert" /\ Types /\ Holds(h) /\ setup' = setup
      /\ Put(h, held[h], c)
  BY <1>1, <1>2, <1>3 DEF Insert, Inv
<1>5. /\ held[h] \in {"own", "model"}
      /\ held[h] = "model" => "new" \in setup.makes[h]
      /\ Fits(held[h], Content(h).pk) /\ save[h].pk = Content(h).pk
      /\ v \in Vals \cup {Nil, Null}
      /\ Content(h).pk \in Pks \cup {Zero, Nil}
  BY <1>4, Running, ContentIs
<1>6. c \in Contents /\ c.pk = key /\ c.val = v /\ Fits(held[h], c.pk)
  BY <1>2, <1>3, <1>5 DEF Contents, Fits, Keys
<1>7. Content(h)' = c /\ given'[h] = v
  <2>1. given' = [given EXCEPT ![h] = c.val]
    BY <1>1, <1>6
  <2>2. Content(h)' = c
    BY <1>4, <1>5 DEF Content, Put, Types
  <2> QED
    BY <1>4, <1>6, <2>1, <2>2 DEF Types
<1>8. key = pk \/ Strays(h)
  <2>1. CASE ~Keyless(save[h].pk) /\ SentPk(h) # Nil
    <3>1. SentPk(h) = Content(h).pk
      BY <2>1 DEF SentPk
    <3> QED
      BY <1>1, <1>2, <1>4, <2>1, <3>1, InsertsOne
  <2>2. CASE ~Keyless(save[h].pk) /\ SentPk(h) = Nil
    BY <1>4, <2>2 DEF Strays
  <2> QED
    BY <1>2, <2>1, <2>2
<1> QED
  BY <1>1, <1>5, <1>6, <1>7, <1>8

\* The row an UPDATE may change has the key of the instance, which it keeps.
LEMMA UpdateTells ==
    ASSUME OneSharer, Inv, NEW h \in Holders, pc[h] # "idle",
           NEW v \in Vals \cup {Nil, Null}, Gives(h, v), setup' = setup
    PROVE  Content(h)'.pk = save[h].pk /\ given'[h] = v
<1>1. PICK c : c = [Content(h) EXCEPT !.val = v]
  OBVIOUS
<1>2. c \in Contents /\ c.pk = Content(h).pk /\ c.val = v
  BY <1>1, ContentIs
<1>3. Put(h, held[h], c) /\ given' = [given EXCEPT ![h] = v]
  BY <1>1 DEF Gives
<1>4. /\ held[h] \in {"own", "model"}
      /\ held[h] = "model" => "new" \in setup.makes[h]
      /\ Fits(held[h], c.pk) /\ save[h].pk = c.pk
  BY <1>2, Running
<1> QED
  BY <1>2, <1>3, <1>4, PutKeeps

\* When Save returns nil the table has a row with the value the instance holds,
\* under its key or, for a Save that strays, a new one: whatever other instances
\* did between the UPDATE and the INSERT.
THEOREM SavedIsInTable ==
    ASSUME OneSharer
    PROVE  Spec => SavedIsThere
<1> DEFINE There(h) ==
        \E p \in DOMAIN rows' :
            /\ p = Content(h)'.pk \/ (Strays(h) /\ p \notin DOMAIN rows)
            /\ given'[h] \in {Nil, rows'[p]}
<1>1. ASSUME Inv, Next, NEW h \in Holders, Saves(h)
      PROVE  There(h)
  <2>0. Types
    BY <1>1 DEF Inv
  <2>1. CASE Update(h) /\ save[h].pk \in DOMAIN rows
    <3>1. PICK v \in ToSave(Content(h).val, FALSE) :
            Gives(h, v) /\ rows' = Updated(h, v)
      BY <2>1 DEF Update
    <3>2. pc[h] # "idle" /\ setup' = setup
      BY <2>1 DEF Update
    <3>3. v \in Vals \cup {Nil, Null}
      BY <1>1, <3>2, Running
    <3>4. Content(h)'.pk = save[h].pk /\ given'[h] = v
      BY <1>1, <3>1, <3>2, <3>3, UpdateTells
    <3>5. /\ save[h].pk \in DOMAIN rows'
          /\ rows'[save[h].pk] = IF v # Nil THEN v ELSE rows[save[h].pk]
      BY <2>0, <2>1, <3>1, <3>3, UpdatesOne
    <3> QED
      BY <3>4, <3>5
  <2>2. CASE Insert(h)
    <3>1. PICK pk \in Pks, v \in Vals \cup {Nil, Null} :
            /\ Inserts(SentPk(h), v, pk)
            /\ Content(h)'.pk = pk \/ Strays(h)
            /\ given'[h] = v
      BY <1>1, <2>2, InsertTells
    <3>2. pk \in DOMAIN rows' /\ pk \notin DOMAIN rows /\ rows'[pk] = IF v \in Vals THEN v ELSE Null
      <4>1. DOMAIN rows' = {pk} \cup DOMAIN rows
        BY <2>0, <3>1, InsertsOne
      <4> QED
        BY <2>0, <3>1, <4>1, InsertsOne
    <3> QED
      BY <3>1, <3>2
  <2> QED
    BY <1>1, <2>0, <2>1, <2>2, SavesBy
<1>2. Inv /\ [Next]_vars => [\A h \in Holders : Saves(h) => There(h)]_vars
  <2> HIDE DEF There
  <2> QED
    BY <1>1
<1> QED
  BY <1>2, Invariant, PTL DEF Spec, SavedIsThere

\* A call writes no row but that of its instance; one that returns an error, or
\* a Save that strays, may have left one new row whose key the database chose.
THEOREM OnlyOwnRow ==
    ASSUME OneSharer
    PROVE  Spec => OnlyItsRow
<1> DEFINE Own == \E h \in Holders :
            /\ answer'.who = h
            /\ \/ Written \subseteq {Content(h)'.pk}
               \/ /\ answer'.result = "error" \/ Strays(h)
                  /\ Written \cap DOMAIN rows = {}
                  /\ Cardinality(Written) = 1
<1>1. ASSUME NEW h \in Holders, NEW result, Return(h, result),
             Written \subseteq {Content(h)'.pk}
      PROVE  Own
  BY <1>1 DEF Return
<1>2. ASSUME NEW h \in Holders, NEW result, Return(h, result),
             DOMAIN rows' \subseteq DOMAIN rows,
             \A p \in DOMAIN rows' : rows'[p] = rows[p]
      PROVE  Own
  BY <1>1, <1>2 DEF Written
<1>3. ASSUME Types, NEW h \in Holders, NEW p, NEW v, MayInsert(p, v),
             Return(h, "error")
      PROVE  Own
  <2>1. CASE rows' = rows
    BY <1>2, <1>3, <2>1
  <2>2. ASSUME NEW pk \in Pks \ DOMAIN rows, DOMAIN rows' = {pk} \cup DOMAIN rows
        PROVE  Own
    <3>1. Written = {pk}
      BY <1>3, <2>2, MayInsertOne DEF Written
    <3>2. Cardinality(Written) = 1
      BY <3>1, FS_Singleton
    <3> QED
      BY <1>3, <3>1, <3>2 DEF Return
  <2> QED
    BY <1>3, <2>1, <2>2, MayInsertOne
<1>4. ASSUME Inv, NEW h \in Holders, pc[h] # "idle", setup' = setup,
             NEW v \in ToSave(Content(h).val, FALSE), Gives(h, v),
             rows' = Updated(h, v), NEW result, Return(h, result)
      PROVE  Own
  <2>1. Types /\ v \in Vals \cup {Nil, Null}
    BY <1>4, Running DEF Inv
  <2>2. Content(h)'.pk = save[h].pk
    BY <1>4, <2>1, UpdateTells
  <2>3. Written \subseteq {save[h].pk}
    BY <1>4, <2>1, UpdatesOne DEF Written
  <2> QED
    BY <1>1, <1>4, <2>2, <2>3
<1>5. ASSUME Inv, NEW h \in Holders, NEW x \in Vals \cup {Nil}, Create(h, x)
      PROVE  Own
  <2>1. PICK p \in IF AutoPk THEN {Nil} ELSE Pks,
             v \in IF setup.field = "created" THEN Vals ELSE {Otherwise(x)} :
          /\ given' = [given EXCEPT ![h] = v]
          /\ \/ \E pk \in Pks :
                  /\ Inserts(p, v, pk)
                  /\ Put(h, "own", [pk |-> pk, val |-> v])
                  /\ Return(h, "ok")
             \/ MayInsert(p, v) /\ Return(h, "error")
    BY <1>5 DEF Create
  <2>2. Types /\ setup' = setup
    BY <1>5 DEF Inv, Create
  <2>3. ASSUME NEW pk \in Pks, Inserts(p, v, pk),
               Put(h, "own", [pk |-> pk, val |-> v]), Return(h, "ok")
        PROVE  Own
    <3>1. Written \subseteq {pk}
      BY <2>2, <2>3, InsertsOne DEF Written
    <3>2. Content(h)' = [pk |-> pk, val |-> v]
      BY <2>2, <2>3 DEF Put, Content, Types
    <3> QED
      BY <1>1, <2>3, <3>1, <3>2
  <2> QED
    BY <1>3, <2>1, <2>2, <2>3
<1>6. ASSUME Inv, NEW h \in Holders, Insert(h)
      PROVE  Own
  <2>1. PICK pk \in Pks, v \in Vals \cup {Nil, Null} :
          /\ Inserts(SentPk(h), v, pk)
          /\ Content(h)'.pk = pk \/ Strays(h)
    BY <1>6, InsertTells
  <2>2. Written = {pk} \/ Written = {}
    BY <1>6, <2>1, InsertsOne DEF Written, Inv
  <2>3. pk \notin DOMAIN rows /\ DOMAIN rows' = {pk} \cup DOMAIN rows
    BY <1>6, <2>1, InsertsOne DEF Inv
  <2>4. Written = {pk} /\ Cardinality(Written) = 1
    BY <2>2, <2>3, FS_Singleton DEF Written
  <2>5. Return(h, "saved")
    BY <1>6 DEF Insert
  <2>6. CASE Content(h)'.pk = pk
    BY <1>1, <2>4, <2>5, <2>6
  <2>7. CASE Strays(h)
    BY <2>3, <2>4, <2>5, <2>7 DEF Return
  <2> QED
    BY <2>1, <2>6, <2>7
<1>7. ASSUME Inv, NEW h \in Holders, SaveFails(h)
      PROVE  Own
  <2>1. PICK v \in ToSave(Content(h).val, pc[h] = "insert") :
          /\ Gives(h, v)
          /\ \/ /\ pc[h] = "update"
                /\ rows' = rows \/ (Updates(h, v) /\ rows' = Updated(h, v))
             \/ pc[h] = "insert" /\ MayInsert(SentPk(h), v)
    BY <1>7 DEF SaveFails
  <2>2. setup' = setup /\ Return(h, "error") /\ Types
    BY <1>7 DEF SaveFails, Inv
  <2>3. CASE rows' = rows
    BY <1>2, <2>2, <2>3
  <2>4. CASE pc[h] = "update" /\ rows' = Updated(h, v)
    BY <1>4, <1>7, <2>1, <2>2, <2>4
  <2>5. CASE MayInsert(SentPk(h), v)
    BY <1>3, <2>2, <2>5
  <2> QED
    BY <2>1, <2>3, <2>4, <2>5
<1>8. ASSUME NEW h \in Holders,
             \/ \E x \in Vals \cup {Nil} : New(h, x) \/ NewFails(h, x)
             \/ \E v \in Vals \cup {Null} : Set(h, v)
             \/ \E p \in Keys : SetPk(h, p)
             \/ \E p \in Pks, v \in Vals \cup {Nil, Null} : Get(h, p, v)
             \/ \E f \in {"all", "value"} : Save(h, f)
      PROVE  Own
  <2>1. /\ rows' = rows
        /\ \E result \in {"none", "ok", "error"} : Return(h, result)
    BY <1>8 DEF New, NewFails, Set, SetPk, Get, Save
  <2> QED
    BY <1>2, <2>1
<1>9. ASSUME Inv, NEW h \in Holders, Update(h)
      PROVE  Own
  BY <1>4, <1>9 DEF Update
<1>10. ASSUME NEW h \in Holders, Delete(h)
       PROVE  Own
  BY <1>2, <1>10, DeleteIs
<1>11. Inv /\ [Next]_vars => [Own]_vars
  <2> HIDE DEF Own
  <2> QED
    BY <1>5, <1>6, <1>7, <1>8, <1>9, <1>10 DEF Next
<1> QED
  BY <1>11, Invariant, PTL DEF Spec, OnlyItsRow
=============================================================================
