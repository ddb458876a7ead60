---------------------------- MODULE Organisation ----------------------------
(***************************************************************************)
(* Departments, employees with their accounts, and the lists of recipients *)
(* and approvers (server/src/api/org.ts, the signing up of auth/routes.ts) *)
(* with the screens that ask for their changes (DeptModal, Employees,      *)
(* Criteria).                                                              *)
(*                                                                         *)
(* A request is one transaction at READ COMMITTED.  What it reads and      *)
(* judges is one step, what it writes another: others commit in between.   *)
(* Where the write judges again by itself, through a key or an index, the  *)
(* two are one step.  A refusal (400, 403, 404, 409) ends the request, as  *)
(* does a violated key (500): the transaction rolls back.                  *)
(*                                                                         *)
(* Names, numbers and texts are not looked at, but for the names that      *)
(* siblings must not share and the emails that join an account with an     *)
(* employee.  The name snapshots in other tables are left out: those rows  *)
(* carry the name since they were written.                                 *)
(*                                                                         *)
(* A definition marked "Variant" is a later one with a plausible bug.      *)
(***************************************************************************)
EXTENDS DeptTree

CONSTANTS
  Depts,      \* ids of departments
  Names,      \* names of departments
  Emps,       \* ids of employees
  Accounts,   \* ids of accounts
  Emails,
  Requests,   \* bound: requests and deletions of subtrees under way at once
  Pages,      \* browsers that show the list of approvers
  Start,      \* bound: the states and the workloads a behaviour may begin with
  Approvers,  \* names alert_recipients among the lists
  Keep,       \* a key the body does not have
  Null

VARIABLES
  dept,     \* departments: the rows by id
  emp,      \* employees
  account,  \* auth_accounts: the email by id
  list,     \* alert_recipients, and recipients by department
  req,      \* the requests under way
  page,     \* the list of approvers as a browser holds it
  ops,      \* the workload (bound)
  \* For the properties:
  asked,    \* what the last accepted replacement of a list asked for
  overlap   \* two requests have been under way at once

vars == <<dept, emp, account, list, req, page, ops, asked, overlap>>

Roles == {"admin", "staff"}

DeptRow == [parent : Depts \union {Root}, name : Names]

EmpRow == [email : Emails, account : Accounts \union {Null}, role : Roles,
           dept : Depts \union {Null}]

ASSUME DeptsAssumption == IsFiniteSet(Depts) /\ Root \notin Depts

\* The comparison tells any two apart: where order and name are the same, the place in
\* the list does (Array.sort() is stable).
ASSUME OrderAssumption ==
  \A a, b, c \in Depts :
    /\ <<a, a>> \notin Before
    /\ a # b => <<a, b>> \in Before \/ <<b, a>> \in Before
    /\ <<a, b>> \in Before /\ <<b, c>> \in Before => <<a, c>> \in Before

ASSUME NullAssumption == Null \notin DeptRow \union EmpRow \union Emails \union Accounts

ASSUME KeepAssumption ==
  /\ Keep \notin Depts \union {Root, Null}
  /\ Keep \notin Names /\ Keep \notin Emails /\ Keep \notin Roles

Idle == [op |-> "idle"]

\* A request begins.
Begin(r, it) ==
  /\ req[r] = Idle /\ req' = [req EXCEPT ![r] = it]
  /\ overlap' = (overlap \/ \E s \in Requests : req[s] # Idle)
  /\ UNCHANGED ops

\* One that is a single step.
AtOnce(r) == Begin(r, Idle)

End(r) == req' = [req EXCEPT ![r] = Idle] /\ UNCHANGED <<ops, overlap>>

Present(rows) == {k \in DOMAIN rows : rows[k] # Null}

ParentsOf(rows) == [d \in Present(rows) |-> rows[d].parent]

Parents == ParentsOf(dept)

Siblings(p, n) == {d \in Present(dept) : dept[d] = [parent |-> p, name |-> n]}

\* The accounts whose session passes requireAdmin.
Admins == {emp[e].account : e \in {e \in Present(emp) : emp[e].role = "admin"}} \ {Null}

-----------------------------------------------------------------------------
(* Departments                                                             *)

\* POST /departments: the parent and the siblings are looked at,
CreateRead(r, p, n) ==
  /\ "create" \in ops /\ p \in Present(dept) \union {Root} /\ Siblings(p, n) = {}
  /\ Begin(r, [op |-> "create", parent |-> p, name |-> n])
  /\ UNCHANGED <<dept, emp, account, list, page, asked>>

\* then the row is inserted.  Only the parent is a key.  (Bound: when no id is left the
\* insertion fails as well.)
CreateWrite(r) ==
  /\ req[r].op = "create" /\ End(r)
  /\ \/ /\ req[r].parent \in Present(dept) \union {Root}
        /\ \E d \in Depts \ Present(dept) :
             dept' = [dept EXCEPT ![d] = [parent |-> req[r].parent, name |-> req[r].name]]
     \/ /\ req[r].parent \notin Present(dept) \union {Root} \/ Depts \subseteq Present(dept)
        /\ UNCHANGED dept
  /\ UNCHANGED <<emp, account, list, page, asked>>

\* The row with the keys that the body has.
Changed(row, it) ==
  [parent |-> IF it.parent = Keep THEN row.parent ELSE it.parent,
   name   |-> IF it.name = Keep THEN row.name ELSE it.name]

InCycle(d) == \E c \in Present(dept) : dept[c].parent = d /\ d \in Subtree(Parents, c)

\* Variant: a department may go below its own.
MayMoveAnywhere(d, p) == p = Root \/ (p \in Present(dept) /\ p # d)

\* PATCH /departments/:id: not under itself, nor under one of its own.  The query
\* that collects its own goes round and round when there is a cycle (union all).
MayMove(d, p) ==
  p = Root \/ (p \in Present(dept) /\ p \notin Subtree(Parents, d) /\ ~InCycle(d))

ChangeRead(r, d, p, n) ==
  /\ "change" \in ops /\ d \in Present(dept) /\ <<p, n>> # <<Keep, Keep>>
  /\ p # Keep => MayMove(d, p)
  /\ LET next == Changed(dept[d], [parent |-> p, name |-> n])
     IN  Siblings(next.parent, next.name) \subseteq {d}
  /\ Begin(r, [op |-> "change", id |-> d, parent |-> p, name |-> n])
  /\ UNCHANGED <<dept, emp, account, list, page, asked>>

ChangeWrite(r) ==
  /\ req[r].op = "change" /\ End(r)
  /\ LET d == req[r].id IN
     IF d \in Present(dept) /\ req[r].parent \in Present(dept) \union {Root, Keep}
     THEN dept' = [dept EXCEPT ![d] = Changed(@, req[r])]
     ELSE UNCHANGED dept
  /\ UNCHANGED <<emp, account, list, page, asked>>

\* Nothing hangs below it: looked at, and on delete restrict.
Removable(d) == d \in Present(dept) /\ \A c \in Present(dept) : dept[c].parent # d

\* The row goes, its recipients with it, and its employees are left without one.
RemoveDept(d) ==
  /\ dept' = [dept EXCEPT ![d] = Null]
  /\ emp' = [e \in Emps |->
       IF emp[e] # Null /\ emp[e].dept = d THEN [emp[e] EXCEPT !.dept = Null] ELSE emp[e]]
  /\ list' = [list EXCEPT ![d] = {}] /\ asked' = [asked EXCEPT ![d] = {}]
  /\ UNCHANGED <<account, page>>

\* DeptModal: the whole subtree is deleted by one DELETE /departments/:id after the
\* other, in an order that is taken from the list the browser has then.
DeleteSubtree(r, d) ==
  /\ "delete" \in ops /\ d \in Present(dept)
  /\ Begin(r, [op |-> "delete", order |-> DeleteOrder(Parents, d)])
  /\ UNCHANGED <<dept, emp, account, list, page, asked>>

\* The first refusal stops it.
DeleteNext(r) ==
  /\ req[r].op = "delete"
  /\ LET order == req[r].order IN
     IF order # <<>> /\ Removable(Head(order))
     THEN /\ RemoveDept(Head(order))
          /\ req' = [req EXCEPT ![r].order = Tail(order)] /\ UNCHANGED <<ops, overlap>>
     ELSE /\ End(r)
          /\ UNCHANGED <<dept, emp, account, list, page, asked>>

-----------------------------------------------------------------------------
(* Employees and their accounts                                            *)

EmployeeWith(email) == {e \in Present(emp) : emp[e].email = email}

\* POST /employees registers one in advance.
Register(r, email, role) ==
  /\ "register" \in ops /\ EmployeeWith(email) = {}
  /\ \E e \in Emps \ Present(emp), d \in Present(dept) \union {Null} :
       emp' = [emp EXCEPT ![e] =
         [email |-> email, account |-> Null, role |-> role, dept |-> d]]
  /\ AtOnce(r)
  /\ UNCHANGED <<dept, account, list, page, asked>>

\* POST /signup: an account, and the employee it is joined with or who is made for
\* it; one that has an account already is not taken over.
Signup(r, email, d) ==
  /\ "signup" \in ops /\ d \in Present(dept) \union {Null}
  /\ \A a \in Accounts : account[a] # email
  /\ \A e \in EmployeeWith(email) : emp[e].account = Null
  /\ \E a \in {a \in Accounts : account[a] = Null} :
       /\ account' = [account EXCEPT ![a] = email]
       /\ \/ \E e \in EmployeeWith(email) :
               emp' = [emp EXCEPT ![e].account = a,
                                  ![e].dept = IF d = Null THEN @ ELSE d]
          \/ /\ EmployeeWith(email) = {}
             /\ \E e \in Emps \ Present(emp) :
                  emp' = [emp EXCEPT ![e] =
                    [email |-> email, account |-> a, role |-> "staff", dept |-> d]]
  /\ AtOnce(r)
  /\ UNCHANGED <<dept, list, page, asked>>

\* Variant: the guard of the last administrator is left out.
MayStepDownAlone(by, e, role) == TRUE

\* Who gives up the role by his own request must not be the only one who has it.
MayStepDown(by, e, role) ==
  (emp[e].role = "admin" /\ role = "staff" /\ emp[e].account = by)
    => Cardinality({x \in Present(emp) : emp[x].role = "admin"}) > 1

\* PATCH /employees/:id, by an administrator's account.
EmployeeRead(r, by, e, change) ==
  /\ "employee" \in ops /\ by \in Admins /\ e \in Present(emp)
  /\ MayStepDown(by, e, change.role)
  /\ Begin(r, [op |-> "employee", id |-> e, change |-> change,
               seen |-> emp[e].email, account |-> emp[e].account])
  /\ UNCHANGED <<dept, emp, account, list, page, asked>>

\* Variant: the email of the account stays what it was.
AccountKeepsEmail(it) == account

\* The account that was read follows the email of the employee.
AccountFollows(it) ==
  IF it.account \in Present(account) /\ it.change.email \notin {Keep, it.seen}
  THEN [account EXCEPT ![it.account] = it.change.email] ELSE account

\* Two indexes keep emails unique, a key the department; either rolls all of it back.
EmployeeWrite(r) ==
  /\ req[r].op = "employee" /\ End(r)
  /\ LET it  == req[r]
         c   == it.change
         new == [k \in DOMAIN c |-> IF c[k] = Keep THEN emp[it.id][k] ELSE c[k]]
     IN  IF /\ it.id \in Present(emp)
            /\ EmployeeWith(new.email) \subseteq {it.id}
            /\ new.dept \in Present(dept) \union {Null}
            /\ \A a, b \in Present(AccountFollows(it)) :
                 AccountFollows(it)[a] = AccountFollows(it)[b] => a = b
         THEN /\ emp' = [emp EXCEPT ![it.id] =
                   [email |-> new.email, account |-> @.account,
                    role |-> new.role, dept |-> new.dept]]
              /\ account' = AccountFollows(it)
         ELSE UNCHANGED <<emp, account>>
  /\ UNCHANGED <<dept, list, page, asked>>

\* DELETE /employees/:id: not oneself.
FireRead(r, by, e) ==
  /\ "fire" \in ops /\ by \in Admins /\ e \in Present(emp) /\ emp[e].account # by
  /\ Begin(r, [op |-> "fire", id |-> e, account |-> emp[e].account])
  /\ UNCHANGED <<dept, emp, account, list, page, asked>>

\* The employee goes from the lists too, and the account that was read goes; an
\* employee who has that one is left without an account.
FireWrite(r) ==
  /\ req[r].op = "fire" /\ End(r)
  /\ LET e == req[r].id
         a == req[r].account
     IN  /\ emp' = [x \in Emps |->
              IF x = e THEN Null
              ELSE IF emp[x] # Null /\ a # Null /\ emp[x].account = a
                   THEN [emp[x] EXCEPT !.account = Null] ELSE emp[x]]
         /\ account' = [x \in Accounts |-> IF x = a THEN Null ELSE account[x]]
         /\ list' = [l \in DOMAIN list |-> list[l] \ {e}]
         /\ asked' = [l \in DOMAIN asked |-> asked[l] \ {e}]
  /\ UNCHANGED <<dept, page>>

-----------------------------------------------------------------------------
(* The lists: PUT /alert-recipients, PUT /recipients/:departmentId         *)

\* GET /alert-recipients, when a screen is opened.
LoadPage(p) ==
  /\ "approvers" \in ops
  /\ page' = [page EXCEPT ![p] = list[Approvers]]
  /\ UNCHANGED <<dept, emp, account, list, req, ops, asked, overlap>>

\* A screen sends the whole list, its own copy with one more or one less (Criteria,
\* and Employees when somebody loses a role).
SubmitPage(r, p, ids) ==
  /\ "approvers" \in ops /\ Cardinality(SymDiff(ids, page[p])) = 1
  /\ Begin(r, [op |-> "list", of |-> Approvers, ids |-> ids, page |-> p,
               gone |-> list[Approvers]])
  /\ UNCHANGED <<dept, emp, account, list, page, asked>>

\* Guidelines sends what is ticked for its department.
SubmitRecipients(r, d, ids) ==
  /\ "recipients" \in ops /\ d \in Present(dept)
  /\ Begin(r, [op |-> "list", of |-> d, ids |-> ids, page |-> Null, gone |-> list[d]])
  /\ UNCHANGED <<dept, emp, account, list, page, asked>>

\* Variant: what was there stays.
ReplacedPartly(it) == list[it.of] \union it.ids

\* The delete takes the rows that its statement sees; others inserted since stay.
Replaced(it) == (list[it.of] \ it.gone) \union it.ids

\* Somebody who is not there, a department that is not, or a row that another
\* replacement has inserted: it is rolled back.
ReplaceWrite(r) ==
  /\ req[r].op = "list" /\ End(r)
  /\ LET it == req[r] IN
     IF /\ it.of \in Present(dept) \union {Approvers}
        /\ it.ids \subseteq Present(emp)
        /\ it.ids \intersect (list[it.of] \ it.gone) = {}
     THEN /\ list' = [list EXCEPT ![it.of] = Replaced(it)]
          /\ asked' = [asked EXCEPT ![it.of] = it.ids]
          /\ page' = [p \in Pages |-> IF p = it.page THEN it.ids ELSE page[p]]
     ELSE UNCHANGED <<list, asked, page>>
  /\ UNCHANGED <<dept, emp, account>>

-----------------------------------------------------------------------------
Init ==
  /\ \E s \in Start :
       /\ dept = s.dept /\ emp = s.emp /\ account = s.account /\ ops = s.ops
  /\ list = [l \in Depts \union {Approvers} |-> {}]
  /\ asked = list
  /\ req = [r \in Requests |-> Idle]
  /\ page = [p \in Pages |-> {}]
  /\ overlap = FALSE

(* What the screens ask for: DeptModal and Employees.                      *)

AddDept(r) == \E p \in Depts \union {Root}, n \in Names : CreateRead(r, p, n)

RenameDept(r) == \E d \in Depts, n \in Names : ChangeRead(r, d, Keep, n)

MoveDept(r) == \E d \in Depts, p \in Depts \union {Root} : ChangeRead(r, d, p, Keep)

\* submitForm() sends the whole form, which was filled when it was opened.
Forms == [email : Emails, role : Roles, dept : Depts \union {Null}]

\* changeRole() and assignDept() send one key.
RoleChanges == [email : {Keep}, role : Roles, dept : {Keep}]
Assignments == [email : {Keep}, role : {Keep}, dept : Depts \union {Null}]

Departments(r) ==
  \/ AddDept(r) \/ RenameDept(r) \/ MoveDept(r)
  \/ \E d \in Depts : DeleteSubtree(r, d)
  \/ CreateWrite(r) \/ ChangeWrite(r) \/ DeleteNext(r)

People(r) ==
  \/ \E m \in Emails, x \in Roles : Register(r, m, x)
  \/ \E m \in Emails, d \in Depts \union {Null} : Signup(r, m, d)
  \/ \E by \in Accounts, e \in Emps :
       \/ FireRead(r, by, e)
       \/ \E c \in Forms \union RoleChanges \union Assignments : EmployeeRead(r, by, e, c)
  \/ EmployeeWrite(r) \/ FireWrite(r)

Lists(r) ==
  \/ \E p \in Pages, ids \in SUBSET Emps : SubmitPage(r, p, ids)
  \/ \E d \in Depts, ids \in SUBSET Emps : SubmitRecipients(r, d, ids)
  \/ ReplaceWrite(r)

Next ==
  \/ \E r \in Requests : Departments(r) \/ People(r) \/ Lists(r)
  \/ \E p \in Pages : LoadPage(p)

Spec == Init /\ [][Next]_vars

-----------------------------------------------------------------------------
\* deptTree.ts 6-14, 58-60: every department is shown, once, whatever the parents
\* are, a cycle that two requests made together included; and without one a subtree
\* is deleted whole, each before what it hangs under.
TreeIsShownWhole ==
  LET rows == Parents
      flat == Flat(rows)
  IN  /\ Len(flat) = Cardinality(DOMAIN rows) /\ Ids(flat) = DOMAIN rows
      /\ IsForest(rows) => \A d \in DOMAIN rows :
           LET order == DeleteOrder(rows, d) IN
           /\ ToSet(order) = Subtree(rows, d)
           /\ \A i, j \in DOMAIN order : rows[order[i]] = order[j] => i < j

\* No cycle among the departments, and siblings have different names.
ATree(rows) ==
  /\ IsForest(ParentsOf(rows))
  /\ \A c, d \in Present(rows) : rows[c] = rows[d] => c = d

AnAdmin(emps) == \E e \in Present(emps) : emps[e].role = "admin"

\* Each account belongs to one employee and both have the same email.
Matched(emps, accounts) ==
  \A a \in Present(accounts) :
    \E e \in Present(emps) :
      /\ emps[e].account = a /\ emps[e].email = accounts[a]
      /\ \A x \in Present(emps) : emps[x].account = a => x = e

\* What is there before: migrations, the first administrator, requests that ended.
ASSUME StartAssumption ==
  \A s \in Start :
    /\ s.dept \in [Depts -> DeptRow \union {Null}]
    /\ s.emp \in [Emps -> EmpRow \union {Null}]
    /\ s.account \in [Accounts -> Emails \union {Null}]
    /\ \A d \in Present(s.dept) : s.dept[d].parent \in Present(s.dept) \union {Root}
    /\ \A e \in Present(s.emp) : s.emp[e].account \in Present(s.account) \union {Null}
    /\ ATree(s.dept) /\ AnAdmin(s.emp) /\ Matched(s.emp, s.account)

\* org.ts 123-131, 193-219: as long as requests come one after the other the
\* departments stay a tree, whose siblings have different names.
TreeStaysATree == overlap \/ ATree(dept)

\* org.ts 461-480: as long as requests come one after the other somebody has the
\* role of an administrator.
AnAdminRemains == overlap \/ AnAdmin(emp)

\* org.ts 533-549, 433-442: as long as requests come one after the other each
\* account belongs to one employee and both have the same email, so that nobody
\* signs in whom the screens do not show.
AccountsMatchEmployees == overlap \/ Matched(emp, account)

\* org.ts 760-763: as long as requests come one after the other a list is what was
\* asked for last, less those who are gone since.
ListIsWhatWasAsked == overlap \/ list = asked
=============================================================================
