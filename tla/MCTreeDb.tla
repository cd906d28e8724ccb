------------------------------ MODULE MCTreeDb ------------------------------
(* Departments have users (a dict hook, a string fkey) and departments (a   *)
(* list hook, a list fkey).                                                 *)
EXTENDS TreeDb, TLC

CONSTANTS d1, d2

Dept1 == <<"departments", d1>>
Dept2 == <<"departments", d2>>
User1 == <<"users", "u1">>

Users  == [parent |-> "departments", hook |-> "users", dict |-> TRUE,
           child |-> "users", fkey |-> "department_id", kind |-> "string"]
Depts  == [parent |-> "departments", hook |-> "departments", dict |-> FALSE,
           child |-> "departments", fkey |-> "departments", kind |-> "list"]

MCKeys  == {Dept1, Dept2, User1}
MCHooks == {Users, Depts}
MCKeyed == {"users"}

DeptSymmetry == Permutations({d1, d2})
=============================================================================
