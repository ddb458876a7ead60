CONSTANTS
  Root = "root"
  Before <- MCBefore
  Depts = {"resort", "kitchen", "slopes"}
  Names = {A, B}
  Emps = {emp_1, emp_2}
  Accounts = {account_1, account_2}
  Emails = {"boss@", "kim@"}
  Requests = {r1, r2}
  Pages = {p1, p2}
  Start <- MCStart
  Approvers = "approvers"
  Keep = Keep
  Null = Null
SYMMETRY Interchangeable
SPECIFICATION Spec
\* It may stop: two administrators who step down at once leave nobody who may do anything.
CHECK_DEADLOCK FALSE
INVARIANTS
  TreeIsShownWhole
  TreeStaysATree
  AnAdminRemains
  AccountsMatchEmployees
  ListIsWhatWasAsked
