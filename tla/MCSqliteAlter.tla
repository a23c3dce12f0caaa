---------------------------- MODULE MCSqliteAlter ----------------------------
(***************************************************************************)
(* Instances of SqliteAlter for TLC.                                       *)
(***************************************************************************)
EXTENDS SqliteAlter

CONSTANTS id, name, note, score, title, i, j

\* Every column but one is named like its field: to keep that one is a panic.
Columned == [f \in Fields |-> IF f = score THEN title ELSE f]
Plain == [f \in Fields |-> f]

\* The names and notes are texts, the rest are numbers.
TextOrNumber == [c \in Range(ColumnOf) |->
                    IF c \in {name, note} THEN "TEXT" ELSE "INTEGER"]

IndexName == (i :> {name}) @@ (j :> {id, name})
NoIndex == <<>>

DropSome == {{note}, {score}, {note, score}}
=============================================================================
