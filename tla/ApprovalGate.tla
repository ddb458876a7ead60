---------------------------- MODULE ApprovalGate ----------------------------
(***************************************************************************)
(* What the alert pipeline promises to the people who receive its messages,*)
(* without handlers, transactions or rounds: the service raises alerts and *)
(* composes drafts, but what reaches people is an alert that an approver   *)
(* approved, in words that an approver submitted, and they are told that    *)
(* it is over only if they could have been told that it began.             *)
(***************************************************************************)
CONSTANTS Alerts, Authors

VARIABLES
  raised,     \* the alerts there have been
  approved,   \* the alerts an approver approved
  told,       \* <<alert, author>>: what reached at least one person
  released    \* the alerts people were told are over

vars == <<raised, approved, told, released>>

Init == raised = {} /\ approved = {} /\ told = {} /\ released = {}

\* The service finds a criterion met.
Raise(a) ==
  /\ a \notin raised
  /\ raised' = raised \union {a}
  /\ UNCHANGED <<approved, told, released>>

Approve(a) ==
  /\ a \in raised
  /\ approved' = approved \union {a}
  /\ UNCHANGED <<raised, told, released>>

\* People receive an alert, in the words of a person.
Tell(a, author) ==
  /\ a \in approved
  /\ told' = told \union {<<a, author>>}
  /\ UNCHANGED <<raised, approved, released>>

\* People are told that an alert is over.
Release(a) ==
  /\ a \in approved
  /\ released' = released \union {a}
  /\ UNCHANGED <<raised, approved, told>>

Next ==
  \E a \in Alerts :
     \/ Raise(a) \/ Approve(a) \/ Release(a)
     \/ \E author \in Authors : Tell(a, author)

Spec == Init /\ [][Next]_vars
=============================================================================
