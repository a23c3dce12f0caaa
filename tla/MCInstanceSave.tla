--------------------------- MODULE MCInstanceSave ----------------------------
(***************************************************************************)
(* Instances of InstanceSave for TLC.                                      *)
(***************************************************************************)
EXTENDS InstanceSave, TLC

CONSTANTS p, q

\* Keys of the program's choice; both goroutines create, read and delete.
Chosen == [pk |-> "char", driver |-> "sqlite3", max |-> 2,
           field |-> "plain", default |-> 1,
           makes |-> [h \in Holders |-> {"create", "get"}],
           deleters |-> Holders]

\* The same on postgres, where every INSERT returns an error.
Unread == [Chosen EXCEPT !.driver = "postgres", !.deleters = {},
                         !.makes = (p :> {"create"}) @@ (q :> {"get"})]

\* Keys of the database, or of the program in their place; one goroutine uses
\* New, the other deletes where the key is a rowid.
Serial == [pk |-> "auto", driver |-> "postgres", max |-> 2,
           field |-> "plain", default |-> 1,
           makes |-> (p :> {"create"}) @@ (q :> {"new"}),
           deleters |-> {}]
RowId == [Serial EXCEPT !.driver = "sqlite3", !.deleters = {p}]

\* The fields that set themselves: one goroutine creates and deletes, the other
\* reads, whole or in part, and makes instances with New.
Field(kind) == [Chosen EXCEPT !.max = 1, !.field = kind, !.deleters = {p},
                !.makes = (p :> {"create"}) @@ (q :> {"get", "new"})]
FieldKinds == {Field(kind) : kind \in {"null", "default", "created", "updated"}}

\* An integer key of SQLite, which is a rowid, saved in part.
Partial == [Chosen EXCEPT !.pk = "integer", !.deleters = {p},
                          !.makes = (p :> {"create"}) @@ (q :> {"new"})]

AllSetups == {Chosen, Unread, Serial, RowId, Partial} \cup FieldKinds
=============================================================================
