--------------------------- MODULE MCOrganisation ---------------------------
(***************************************************************************)
(* Organisation on small sets: a chain of three departments, or a branch   *)
(* with one beside it, for what is done to departments; an administrator,  *)
(* and others who register, sign up, are changed, leave and are put on     *)
(* the lists.                                                              *)
(***************************************************************************)
EXTENDS Organisation, TLC

MCBefore ==
  {<<"kitchen", "resort">>, <<"kitchen", "slopes">>, <<"resort", "slopes">>}

NoDepts    == [d \in Depts |-> Null]
NoEmps     == [e \in Emps |-> Null]
NoAccounts == [a \in Accounts |-> Null]

emp1 == CHOOSE e \in Emps : TRUE
emp2 == CHOOSE e \in Emps \ {emp1} : TRUE
account1 == CHOOSE a \in Accounts : TRUE

Boss == [email |-> "boss@", account |-> account1, role |-> "admin", dept |-> Null]

Row(parent, name) == [parent |-> parent, name |-> name]

\* A branch of two and a department beside it, and the chain of the three.
Trees ==
  {[NoDepts EXCEPT !["resort"] = Row(Root, a), !["kitchen"] = Row("resort", a),
                   !["slopes"] = Row(p, b)] :
     a, b \in Names, p \in {Root, "kitchen"}}

OneDept == [NoDepts EXCEPT !["resort"] = Row(Root, CHOOSE n \in Names : TRUE)]

MCStart ==
  LET boss == [NoEmps EXCEPT ![emp1] = Boss]
      acct == [NoAccounts EXCEPT ![account1] = "boss@"]
      kim(a) == [boss EXCEPT ![emp2] =
        [email |-> "kim@", account |-> a, role |-> "staff", dept |-> "resort"]]
  IN  {[dept |-> t, emp |-> boss, account |-> acct,
        ops |-> {"create", "change", "delete"}] :
         t \in {t \in Trees : t["resort"].name # t["slopes"].name}}
      \union
      {[dept |-> NoDepts, emp |-> boss, account |-> acct,
        ops |-> {"register", "signup", "employee", "fire"}],
       [dept |-> OneDept, emp |-> kim(Null), account |-> acct,
        ops |-> {"delete", "signup", "employee"}],
       [dept |-> OneDept, emp |-> kim(Null), account |-> acct,
        ops |-> {"delete", "fire", "approvers", "recipients"}]}

Interchangeable ==
  Permutations(Requests) \union Permutations(Pages) \union Permutations(Names)
    \union Permutations(Emps) \union Permutations(Accounts)
=============================================================================
