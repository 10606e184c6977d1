------------------------------ MODULE MCLogins ------------------------------
(* A small instance of Logins. *)
EXTENDS Logins, TLC

Row(pw, role) == [pw |-> pw, role |-> role]
Table(ann, bob) == [u \in {"ann", "bob"} |-> IF u = "ann" THEN ann ELSE bob]
SomeUsers == Table(Row(1, "admin"), Row(1, "viewer"))
SomeEdits == {Table(Row(2, "admin"), None)}

UsersDelete == <<"users", "delete">>
SomePermissions == {UsersDelete, <<"bogus", "read">>}
SomeValid == {UsersDelete}
SomePolicy == [r \in {"admin", "viewer"} |-> IF r = "admin" THEN {UsersDelete} ELSE {}]
=============================================================================
