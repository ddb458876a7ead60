----------------------------- MODULE MCAccounts -----------------------------
(***************************************************************************)
(* Accounts on small sets.  Each workload lets other requests meet: those  *)
(* about one account's password and status, the changes whose old password *)
(* comes as no string, the attempts of two addresses, and the sessions in  *)
(* time.                                                                   *)
(***************************************************************************)
EXTENDS Accounts, TLC

MCWorkloads ==
  {[ops |-> {"login", "change", "admin", "unlock", "logout"},
    from |-> {<<"kim", "lobby">>}, slips |-> FALSE, texts |-> {TRUE}],
   [ops |-> {"login", "change", "admin"},
    from |-> {<<"kim", "lobby">>}, slips |-> FALSE, texts |-> {FALSE}],
   [ops |-> {"login", "unlock", "time", "logout"},
    from |-> {<<"kim", "lobby">>, <<"kim", "office">>, <<"nobody", "lobby">>},
    slips |-> TRUE, texts |-> {}],
   [ops |-> {"login", "logout", "visit"},
    from |-> {<<"kim", "lobby">>}, slips |-> FALSE, texts |-> {}]}

Interchangeable ==
  Permutations(Tokens) \union Permutations(Requests) \union Permutations(Chosen)
=============================================================================
