----------------------------- MODULE DbRegistry ------------------------------
(***************************************************************************)
(* The registry of databases: Start opens each database of a map, which is *)
(* to make a handle that connects when it is first used, and panics on the *)
(* first it cannot make; Stop closes the handles, and every query and      *)
(* instance looks its database up by name.                                 *)
(***************************************************************************)
EXTENDS Naturals, FiniteSets, TLC

CONSTANTS
    Names,          \* the names of databases
    Main,           \* the name "default"
    Options,        \* the maps Start is called with: sets of names
    MaxOpens        \* bound: how many handles are made

ASSUME RegistryAssumption ==
    /\ Main \in Names
    /\ Options \subseteq SUBSET Names
    /\ MaxOpens \in Nat

VARIABLES
    dbRegistry,     \* dbRegistry[name]: the handle of the database
    opened,         \* how many handles were made
    open,           \* which of them were not closed
    given,          \* the databases the latest Start was given
    options,        \* the databases the running Start has yet to open
    outcome,        \* what Start and Stop returned, or "starting"
    gomodelApp      \* whether the application of the migrations is registered

\* The map f with the key x set to v.
With(f, x, v) == [z \in {x} \cup DOMAIN f |-> IF z = x THEN v ELSE f[z]]

vars == <<dbRegistry, opened, open, given, options, outcome, gomodelApp>>

\* The types; what is registered are handles that were made (Start).
TypeOK ==
    /\ DOMAIN dbRegistry \subseteq Names
    /\ \A n \in DOMAIN dbRegistry : dbRegistry[n] \in 1 .. opened
    /\ opened \in 0 .. MaxOpens
    /\ open \subseteq 1 .. opened
    /\ given \subseteq Names /\ options \subseteq given
    /\ outcome \in {"none", "starting", "started", "panic", "stopped",
                    "stopError"}
    /\ gomodelApp \in BOOLEAN

Init ==
    /\ dbRegistry = <<>>
    /\ opened = 0
    /\ open = {}
    /\ given = {}
    /\ options = {}
    /\ outcome = "none"
    /\ gomodelApp = FALSE

Start(names) ==
    /\ outcome # "starting"
    /\ given' = names
    /\ options' = names
    /\ outcome' = "starting"
    /\ UNCHANGED <<dbRegistry, opened, open, gomodelApp>>

\* The next database of the map, in any order.  sql.Open makes a handle and
\* connects to nothing, so it makes one for a database that is down as well,
\* and the first query finds out.
\* The handle the name may have had is forgotten, not closed.
OpenDb(n) ==
    /\ outcome = "starting"
    /\ n \in options
    /\ opened < MaxOpens
    /\ opened' = opened + 1
    /\ open' = open \cup {opened'}
    /\ dbRegistry' = With(dbRegistry, n, opened')
    /\ options' = options \ {n}
    /\ UNCHANGED <<given, outcome, gomodelApp>>

\* An unsupported driver, or one that makes nothing of the name it is given.
OpenFails(n) ==
    /\ outcome = "starting"
    /\ n \in options
    /\ options' = {}
    /\ outcome' = "panic"
    /\ UNCHANGED <<dbRegistry, opened, open, given, gomodelApp>>

\* Mutant: the default database is not looked for.
StartedAnyway ==
    /\ outcome = "starting"
    /\ options = {}
    /\ outcome' = "started" /\ gomodelApp' = TRUE
    /\ UNCHANGED <<dbRegistry, opened, open, given, options>>

Started ==
    /\ outcome = "starting"
    /\ options = {}
    /\ \/ /\ Main \in DOMAIN dbRegistry
          /\ outcome' = "started" /\ gomodelApp' = TRUE
       \/ /\ Main \notin DOMAIN dbRegistry
          /\ outcome' = "panic" /\ UNCHANGED gomodelApp
    /\ UNCHANGED <<dbRegistry, opened, open, given, options>>

\* Mutant: the error of a database is lost with the next one.
StopLosesError ==
    /\ outcome # "starting"
    /\ \E failed \in SUBSET {dbRegistry[n] : n \in DOMAIN dbRegistry} :
        /\ open' = (open \ {dbRegistry[n] : n \in DOMAIN dbRegistry})
                        \cup (open \cap failed)
        /\ outcome' = IF Cardinality(failed) < 2 THEN "stopped" ELSE "stopError"
    /\ UNCHANGED <<dbRegistry, opened, given, options, gomodelApp>>

\* Every registered connection is told to close; some may answer with an
\* error.  The registry keeps them all.
Stop ==
    /\ outcome # "starting"
    /\ \E failed \in SUBSET {dbRegistry[n] : n \in DOMAIN dbRegistry} :
        /\ open' = (open \ {dbRegistry[n] : n \in DOMAIN dbRegistry})
                        \cup (open \cap failed)
        /\ outcome' = IF failed = {} THEN "stopped" ELSE "stopError"
    /\ UNCHANGED <<dbRegistry, opened, given, options, gomodelApp>>

Next ==
    \/ \E names \in Options : Start(names)
    \/ \E n \in Names : OpenDb(n) \/ OpenFails(n)
    \/ Started
    \/ Stop

Spec == Init /\ [][Next]_vars

------------------------------------------------------------------------------
(* Properties *)

\* When Start returns there is a default database, and every database it was
\* given has a handle that is not closed: also after an earlier Start panicked
\* half way, or a Stop (Start).  That the database answers is not said: no
\* connection was made, though the comment of Start speaks of one (db.go:70).
StartOpensAll ==
    outcome = "started" =>
        /\ Main \in DOMAIN dbRegistry
        /\ \A n \in given : n \in DOMAIN dbRegistry /\ dbRegistry[n] \in open

\* A Stop that returned nil leaves no handle open that the program could reach
\* (Stop).
StoppedMeansClosed ==
    outcome = "stopped" =>
        \A n \in DOMAIN dbRegistry : dbRegistry[n] \notin open
=============================================================================
