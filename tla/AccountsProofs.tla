---------------------------- MODULE AccountsProofs ----------------------------
(***************************************************************************)
(* What holds of accounts, sessions and the limiter for every number of    *)
(* accounts, addresses, sessions and requests under way, whatever they are *)
(* about and however they overlap, with restarts anywhere.                 *)
(***************************************************************************)
EXTENDS Accounts, FiniteSetTheorems, TLAPS

-----------------------------------------------------------------------------
(* Types                                                                   *)

\* What a request knows at each of its steps.
RequestOK(q) ==
  /\ q \in RequestState
  /\ q.pc \in {"count", "countWrite", "reset", "clear", "issue", "changeVerify",
               "changeWrite", "resetWrite", "clearOnly"} => q.email \in Accounts
  /\ q.pc \in {"read", "count", "countWrite", "record"} => q.email \in Emails /\ q.ip \in Addresses
  /\ q.pc \in {"read", "reset", "clear", "issue", "changeVerify"} => q.typed \in Secrets
  /\ q.pc \in {"changeVerify", "changeWrite"} => q.token \in Tokens /\ q.next \in Secrets

AccountsOK ==
  /\ account \in [Accounts -> AccountState]
  /\ \A a \in Accounts : account[a].must <=> account[a].expiry # "none"
SessionsOK == session \in [Tokens -> SessionState]
LimiterOK ==
  hits \in [Emails \X Addresses -> Nat] /\ ipHits \in [Addresses -> Nat]
RequestsOK == req \in [Requests -> RequestState] /\ \A r \in Requests : RequestOK(req[r])
HistoryOK ==
  /\ streak \in [Accounts -> Nat] /\ overtaken \subseteq Requests /\ carried \subseteq Accounts
  /\ tried \subseteq Addresses /\ issued \subseteq Temps

Types ==
  AccountsOK /\ SessionsOK /\ LimiterOK /\ RequestsOK /\ HistoryOK /\ work \in Workloads

\* A request that moves on, or ends, still knows what its next step needs.
LEMMA EndedIsTyped ==
  ASSUME RequestsOK, NEW r \in Requests, Ended(r)
  PROVE  RequestsOK'
<1>1. RequestOK(Idle)
  BY DEF RequestOK, RequestState, Idle
<1>2. Idle \in RequestState
  BY DEF RequestState, Idle
<1> QED
  BY <1>1, <1>2 DEF RequestsOK, Ended

LEMMA StartIsTyped ==
  ASSUME RequestsOK, NEW r \in Requests, NEW q, RequestOK(q), req' = [req EXCEPT ![r] = q]
  PROVE  RequestsOK'
BY DEF RequestsOK, RequestOK

LEMMA GotoIsTyped ==
  ASSUME RequestsOK, NEW r \in Requests, NEW pc, Goto(r, pc), RequestOK([req[r] EXCEPT !.pc = pc])
  PROVE  RequestsOK'
<1> DEFINE q == [req[r] EXCEPT !.pc = pc]
<1>1. req' = [req EXCEPT ![r] = q]
  BY DEF Goto, RequestsOK
<1> HIDE DEF q
<1> QED
  BY <1>1, StartIsTyped DEF q

\* What reading the next count makes of a request.
LEMMA SnapshotEffect ==
  ASSUME AccountsOK, RequestsOK, NEW r \in Requests, LoginSnapshot(r)
  PROVE  /\ req[r].pc = "count" /\ req[r].email \in Accounts
         /\ \A o \in Requests \ {r} : req'[o] = req[o]
         /\ req'[r].pc = "countWrite"
         /\ req'[r].email = req[r].email /\ req'[r].ip = req[r].ip
         /\ req'[r].failed = NextFailed(account[req[r].email])
         /\ RequestsOK'
<1> DEFINE n == NextFailed(account[req[r].email])
           q == [req[r] EXCEPT !.pc = "countWrite", !.failed = n]
<1>1. /\ req[r].pc = "count" /\ req[r].email \in Accounts /\ req[r].ip \in Addresses
      /\ req[r].email \in Emails
  BY DEF LoginSnapshot, RequestsOK, RequestOK
<1>2. account[req[r].email] \in AccountState
  BY <1>1 DEF AccountsOK
<1>3. n \in Nat
  BY <1>2 DEF NextFailed, AccountState
<1>4. req' = [req EXCEPT ![r] = q]
  BY DEF LoginSnapshot, RequestsOK
<1> HIDE DEF n
<1>5. /\ q.pc = "countWrite" /\ q.email = req[r].email /\ q.ip = req[r].ip /\ q.failed = n
      /\ q \in RequestState
  BY <1>3 DEF RequestsOK, RequestState
<1> HIDE DEF q
<1>6. RequestOK(q)
  BY <1>1, <1>5 DEF RequestOK
<1>7. RequestsOK'
  BY <1>4, <1>6, StartIsTyped
<1>8. req'[r] = q /\ \A o \in Requests \ {r} : req'[o] = req[o]
  BY <1>4 DEF RequestsOK
<1> QED
  BY <1>1, <1>5, <1>7, <1>8 DEF n

\* Opening an account leaves what counts its failures in order.
LEMMA OpenedIsTyped ==
  ASSUME HistoryOK, NEW a \in Accounts, Opened(a), tried' = tried, issued' \subseteq Temps
  PROVE  HistoryOK'
<1>1. streak' \in [Accounts -> Nat]
  BY DEF HistoryOK, Opened
<1>2. overtaken' \subseteq Requests /\ carried' \subseteq Accounts
  BY DEF HistoryOK, Opened
<1> QED
  BY <1>1, <1>2 DEF HistoryOK

LEMMA ClearIsTyped ==
  ASSUME LimiterOK, NEW e, Clear(e)
  PROVE  LimiterOK'
BY DEF LimiterOK, Clear

LEMMA RecordIsTyped ==
  ASSUME LimiterOK, NEW e \in Emails, NEW i \in Addresses, Record(e, i)
  PROVE  LimiterOK'
BY DEF LimiterOK, Record

LEMMA WithoutIsTyped ==
  ASSUME SessionsOK, NEW a, NEW keep
  PROVE  Without(a, keep) \in [Tokens -> SessionState]
<1>1. None \in SessionState
  BY AccountsAssumption DEF None, SessionState
<1> QED
  BY <1>1 DEF SessionsOK, Without

\* Sliding touches the use and the end of one session.
LEMMA SlideIsTyped ==
  ASSUME SessionsOK, NEW t \in Tokens
  PROVE  /\ Slide(t) \in [Tokens -> SessionState]
         /\ \A o \in Tokens \ {t} : Slide(t)[o] = session[o]
         /\ Slide(t)[t].account = session[t].account
         /\ Slide(t)[t].proof = session[t].proof
         /\ Slide(t)[t].late = session[t].late
         /\ Slide(t)[t].unused = 0
         /\ Slide(t)[t].left = IF session[t].left < SlideUnder THEN Ttl ELSE session[t].left
<1> DEFINE new == [session[t] EXCEPT !.unused = 0,
                     !.left = IF session[t].left < SlideUnder THEN Ttl ELSE session[t].left]
<1>1. session[t] \in SessionState
  BY DEF SessionsOK
<1>2. new \in SessionState
  <2>1. (IF session[t].left < SlideUnder THEN Ttl ELSE session[t].left) \in 0 .. Ttl
    BY <1>1, AccountsAssumption DEF SessionState
  <2> QED
    BY <1>1, <2>1 DEF SessionState
<1>3. /\ new.account = session[t].account /\ new.proof = session[t].proof
      /\ new.late = session[t].late /\ new.unused = 0
      /\ new.left = IF session[t].left < SlideUnder THEN Ttl ELSE session[t].left
  BY <1>1 DEF SessionState
<1>4. Slide(t) = [session EXCEPT ![t] = new]
  BY <1>1 DEF Slide, SessionsOK, SessionState
<1> HIDE DEF new
<1> QED
  BY <1>2, <1>3, <1>4 DEF SessionsOK

\* What counting a failure does to the accounts.
LEMMA CountEffect ==
  ASSUME AccountsOK, RequestsOK, NEW r \in Requests, LoginCount(r)
  PROVE  LET e == req[r].email IN
         /\ e \in Accounts
         /\ account' \in [Accounts -> AccountState]
         /\ \A a \in Accounts \ {e} : account'[a] = account[a]
         /\ account'[e].secret = account[e].secret /\ account'[e].status = account[e].status
         /\ account'[e].must = account[e].must /\ account'[e].expiry = account[e].expiry
         /\ account'[e].failed = req[r].failed
         /\ account'[e].lock = IF req[r].failed >= MaxAttempts THEN "on" ELSE "no"
<1> DEFINE e == req[r].email
           n == req[r].failed
           l == IF n >= MaxAttempts THEN "on" ELSE "no"
<1>1. e \in Accounts
  BY DEF LoginCount, RequestsOK, RequestOK
<1>2. account[e] \in AccountState
  BY <1>1 DEF AccountsOK
<1>3. n \in Nat /\ l \in {"no", "on", "over"}
  BY DEF RequestsOK, RequestState
<1>4. account' = [account EXCEPT ![e].failed = n, ![e].lock = l]
  BY DEF LoginCount
<1> HIDE DEF e, n, l
<1> DEFINE row == [account[e] EXCEPT !.failed = n, !.lock = l]
<1>5. account' = [account EXCEPT ![e] = row]
  BY <1>1, <1>4 DEF AccountsOK
<1>6. /\ row \in AccountState
      /\ row.secret = account[e].secret /\ row.status = account[e].status
      /\ row.must = account[e].must /\ row.expiry = account[e].expiry
      /\ row.failed = n /\ row.lock = l
  BY <1>2, <1>3 DEF AccountState
<1> HIDE DEF row
<1>7. account'[e] = row /\ \A a \in Accounts \ {e} : account'[a] = account[a]
  BY <1>1, <1>5 DEF AccountsOK
<1>8. account' \in [Accounts -> AccountState]
  BY <1>1, <1>5, <1>6 DEF AccountsOK
<1> QED
  BY <1>1, <1>6, <1>7, <1>8 DEF e, n, l

\* What the right secret does to them.
LEMMA ResetEffect ==
  ASSUME AccountsOK, RequestsOK, NEW r \in Requests, LoginReset(r)
  PROVE  LET e == req[r].email IN
         /\ e \in Accounts
         /\ account' \in [Accounts -> AccountState]
         /\ \A a \in Accounts \ {e} : account'[a] = account[a]
         /\ account'[e].secret = account[e].secret /\ account'[e].status = account[e].status
         /\ account'[e].must = account[e].must /\ account'[e].expiry = account[e].expiry
         /\ account'[e].failed = 0 /\ account'[e].lock = "no"
<1> DEFINE e == req[r].email
           row == [account[e] EXCEPT !.failed = 0, !.lock = "no"]
<1>1. e \in Accounts
  BY DEF LoginReset, RequestsOK, RequestOK
<1>2. account[e] \in AccountState
  BY <1>1 DEF AccountsOK
<1>3. account' = [account EXCEPT ![e].failed = 0, ![e].lock = "no"]
  BY DEF LoginReset
<1> HIDE DEF e
<1>4. account' = [account EXCEPT ![e] = row]
  BY <1>1, <1>3 DEF AccountsOK
<1>5. /\ row \in AccountState
      /\ row.secret = account[e].secret /\ row.status = account[e].status
      /\ row.must = account[e].must /\ row.expiry = account[e].expiry
      /\ row.failed = 0 /\ row.lock = "no"
  BY <1>2 DEF AccountState
<1> HIDE DEF row
<1>6. account'[e] = row /\ \A a \in Accounts \ {e} : account'[a] = account[a]
  BY <1>1, <1>4 DEF AccountsOK
<1>7. account' \in [Accounts -> AccountState]
  BY <1>1, <1>4, <1>5 DEF AccountsOK
<1> QED
  BY <1>1, <1>5, <1>6, <1>7 DEF e

\* What the writing of a changed password does to them.
LEMMA ChangeEffect ==
  ASSUME AccountsOK, RequestsOK, NEW r \in Requests, ChangeWrite(r)
  PROVE  LET e == req[r].email IN
         /\ e \in Accounts /\ req[r].token \in Tokens /\ req[r].next \in Secrets
         /\ account' \in [Accounts -> AccountState]
         /\ \A a \in Accounts \ {e} : account'[a] = account[a]
         /\ account'[e].secret = req[r].next /\ account'[e].status = account[e].status
         /\ account'[e].must = FALSE /\ account'[e].expiry = "none"
         /\ account'[e].failed = account[e].failed /\ account'[e].lock = account[e].lock
<1> DEFINE e == req[r].email
           s == req[r].next
           row == [account[e] EXCEPT !.secret = s, !.must = FALSE, !.expiry = "none"]
<1>1. e \in Accounts /\ req[r].token \in Tokens /\ s \in Secrets
  BY DEF ChangeWrite, RequestsOK, RequestOK
<1>2. account[e] \in AccountState
  BY <1>1 DEF AccountsOK
<1>3. account' = [account EXCEPT ![e].secret = s, ![e].must = FALSE, ![e].expiry = "none"]
  BY DEF ChangeWrite
<1> HIDE DEF e, s
<1>4. account' = [account EXCEPT ![e] = row]
  BY <1>1, <1>3 DEF AccountsOK
<1>5. /\ row \in AccountState
      /\ row.secret = s /\ row.status = account[e].status
      /\ row.must = FALSE /\ row.expiry = "none"
      /\ row.failed = account[e].failed /\ row.lock = account[e].lock
  BY <1>1, <1>2 DEF AccountState
<1> HIDE DEF row
<1>6. account'[e] = row /\ \A a \in Accounts \ {e} : account'[a] = account[a]
  BY <1>1, <1>4 DEF AccountsOK
<1>7. account' \in [Accounts -> AccountState]
  BY <1>1, <1>4, <1>5 DEF AccountsOK
<1> QED
  BY <1>1, <1>5, <1>6, <1>7 DEF e, s

LEMMA LoginKeepsTypes ==
  ASSUME Types, NEW r \in Requests, Login(r)
  PROVE  Types'
<1> USE DEF Types
<1>1. ASSUME NEW p \in work.from, NEW s \in Known, LoginGate(r, p[1], p[2], s) PROVE Types'
  <2>1. p[1] \in Emails /\ p[2] \in Addresses /\ s \in Secrets
    BY AccountsAssumption DEF Known, Secrets, HistoryOK
  <2>2. RequestOK([Idle EXCEPT !.pc = "read", !.email = p[1], !.ip = p[2], !.typed = s])
    BY <2>1 DEF Idle, RequestOK, RequestState
  <2>3. RequestsOK'
    BY <1>1, <2>2, StartIsTyped DEF LoginGate
  <2> QED
    BY <1>1, <2>3 DEF LoginGate, rows, limiter, history, counting, AccountsOK, SessionsOK, LimiterOK, HistoryOK
<1>2. CASE LoginVerify(r)
  <2>1. UNCHANGED <<account, session, hits, ipHits, work, streak, overtaken, carried, tried, issued>>
    BY <1>2 DEF LoginVerify, rows, limiter, history, counting
  <2>2. RequestsOK'
    <3>1. CASE Ended(r)
      BY <3>1, EndedIsTyped
    <3>2. ASSUME NEW pc \in {"count", "record", "reset"}, Goto(r, pc),
                 pc # "record" => req[r].email \in Accounts
          PROVE  RequestsOK'
      <4>1. RequestOK([req[r] EXCEPT !.pc = pc])
        BY <1>2, <3>2 DEF LoginVerify, RequestsOK, RequestOK, RequestState
      <4> QED
        BY <3>2, <4>1, GotoIsTyped
    <3>3. \A row, typed : Verdict(row, typed) \in {"record", "count", "refuse", "reset"}
      BY DEF Verdict
    <3> QED
      BY <1>2, <3>1, <3>2, <3>3 DEF LoginVerify
  <2> QED
    BY <2>1, <2>2 DEF AccountsOK, SessionsOK, LimiterOK, HistoryOK
<1>3. CASE LoginCount(r)
  <2>1. req[r].email \in Accounts
    BY <1>3 DEF LoginCount, RequestsOK, RequestOK
  <2>2. RequestsOK'
    <3>1. RequestOK([req[r] EXCEPT !.pc = "record"])
      BY <1>3, <2>1 DEF LoginCount, RequestsOK, RequestOK, RequestState
    <3> QED
      BY <1>3, <3>1, GotoIsTyped DEF LoginCount
  <2>3. AccountsOK'
    BY <1>3, CountEffect DEF AccountsOK
  <2>4. HistoryOK'
    <3>1. streak' \in [Accounts -> Nat]
      BY <1>3, <2>1 DEF LoginCount, HistoryOK
    <3> QED
      BY <1>3, <2>1, <3>1 DEF LoginCount, HistoryOK
  <2> QED
    BY <1>3, <2>2, <2>3, <2>4 DEF LoginCount, limiter, SessionsOK, LimiterOK
<1>4. CASE LoginRecord(r)
  <2>1. req[r].email \in Emails /\ req[r].ip \in Addresses
    BY <1>4 DEF LoginRecord, RequestsOK, RequestOK
  <2> QED
    BY <1>4, <2>1, EndedIsTyped, RecordIsTyped DEF LoginRecord, rows, counting, AccountsOK, SessionsOK, HistoryOK
<1>5. CASE LoginReset(r)
  <2>1. req[r].email \in Accounts
    BY <1>5 DEF LoginReset, RequestsOK, RequestOK
  <2>2. RequestsOK'
    <3>1. RequestOK([req[r] EXCEPT !.pc = "clear"])
      BY <1>5, <2>1 DEF LoginReset, RequestsOK, RequestOK, RequestState
    <3> QED
      BY <1>5, <3>1, GotoIsTyped DEF LoginReset
  <2>3. AccountsOK' /\ HistoryOK'
    <3>1. AccountsOK'
      BY <1>5, ResetEffect DEF AccountsOK
    <3> QED
      BY <1>5, <2>1, <3>1, OpenedIsTyped DEF LoginReset, HistoryOK
  <2> QED
    BY <1>5, <2>2, <2>3 DEF LoginReset, limiter, SessionsOK, LimiterOK
<1>6. CASE LoginClear(r)
  <2>1. RequestOK([req[r] EXCEPT !.pc = "issue"])
    BY <1>6 DEF LoginClear, RequestsOK, RequestOK, RequestState
  <2> QED
    BY <1>6, <2>1, GotoIsTyped, ClearIsTyped DEF LoginClear, rows, history, counting, AccountsOK, SessionsOK, HistoryOK
<1>7. CASE LoginIssue(r)
  <2>1. req[r].email \in Accounts /\ req[r].typed \in Secrets
    BY <1>7 DEF LoginIssue, RequestsOK, RequestOK
  <2>2. SessionsOK'
    BY <1>7, <2>1, AccountsAssumption DEF LoginIssue, SessionsOK, SessionState
  <2> QED
    BY <1>7, <2>2, EndedIsTyped DEF LoginIssue, limiter, history, counting, AccountsOK, LimiterOK, HistoryOK
<1>8. CASE LoginSnapshot(r)
  BY <1>8, SnapshotEffect DEF LoginSnapshot, rows, limiter, history, counting, AccountsOK, SessionsOK, LimiterOK, HistoryOK
<1> QED
  BY <1>1, <1>2, <1>3, <1>4, <1>5, <1>6, <1>7, <1>8 DEF Login

LEMMA ChangeKeepsTypes ==
  ASSUME Types, NEW r \in Requests, Change(r)
  PROVE  Types'
<1> USE DEF Types
<1>1. ASSUME NEW t \in Tokens, NEW current \in Known, NEW next \in Known,
             NEW text \in BOOLEAN, ChangeStart(r, t, current, text, next)
      PROVE  Types'
  <2>1. /\ current \in Secrets /\ next \in Secrets
        /\ session[t].account \in Accounts
    BY <1>1 DEF ChangeStart, Live, Held, Known, Secrets, HistoryOK, SessionsOK, SessionState
  <2>2. RequestOK([Idle EXCEPT !.pc = "changeVerify", !.email = session[t].account,
                               !.token = t, !.typed = current, !.text = text, !.next = next])
    BY <2>1 DEF Idle, RequestOK, RequestState, Emails
  <2>3. RequestsOK'
    BY <1>1, <2>2, StartIsTyped DEF ChangeStart
  <2>4. SessionsOK'
    BY <1>1, SlideIsTyped DEF ChangeStart, SessionsOK
  <2> QED
    BY <1>1, <2>3, <2>4 DEF ChangeStart, limiter, history, counting, AccountsOK, LimiterOK, HistoryOK
<1>2. CASE ChangeVerify(r)
  <2>1. RequestOK([req[r] EXCEPT !.pc = "changeWrite"])
    BY <1>2 DEF ChangeVerify, RequestsOK, RequestOK, RequestState
  <2>2. RequestsOK'
    BY <1>2, <2>1, GotoIsTyped, EndedIsTyped DEF ChangeVerify
  <2> QED
    BY <1>2, <2>2 DEF ChangeVerify, rows, limiter, history, counting, AccountsOK, SessionsOK, LimiterOK, HistoryOK
<1>3. CASE ChangeWrite(r)
  <2>1. req[r].email \in Accounts /\ req[r].token \in Tokens /\ req[r].next \in Secrets
    BY <1>3 DEF ChangeWrite, RequestsOK, RequestOK
  <2>2. AccountsOK'
    BY <1>3, ChangeEffect DEF AccountsOK
  <2>3. SessionsOK'
    <3> DEFINE left == Without(req[r].email, {req[r].token})
    <3>1. left \in [Tokens -> SessionState]
      BY WithoutIsTyped
    <3>2. session' = [left EXCEPT ![req[r].token].proof =
                        IF session[req[r].token].account = req[r].email THEN req[r].next ELSE @]
      BY <1>3 DEF ChangeWrite
    <3> HIDE DEF left
    <3> QED
      BY <2>1, <3>1, <3>2 DEF SessionsOK, SessionState
  <2> QED
    BY <1>3, <2>2, <2>3, EndedIsTyped DEF ChangeWrite, limiter, history, counting, LimiterOK, HistoryOK
<1> QED
  BY <1>1, <1>2, <1>3 DEF Change

LEMMA AdministerKeepsTypes ==
  ASSUME Types, NEW r \in Requests, Administer(r)
  PROVE  Types'
<1> USE DEF Types
<1>1. ASSUME NEW a \in Accounts, Disable(a) PROVE Types'
  <2>1. AccountsOK'
    BY <1>1 DEF Disable, AccountsOK, AccountState
  <2>2. SessionsOK'
    BY <1>1, WithoutIsTyped DEF Disable, SessionsEnd, SessionsOK
  <2> QED
    BY <1>1, <2>1, <2>2 DEF Disable, limiter, history, counting, LimiterOK, RequestsOK, RequestOK, HistoryOK
<1>2. ASSUME NEW a \in Accounts, Enable(r, a) PROVE Types'
  <2>1. AccountsOK' /\ HistoryOK'
    <3> DEFINE row == [account[a] EXCEPT !.status = "active", !.failed = 0, !.lock = "no"]
    <3>1. row \in AccountState /\ (row.must <=> row.expiry # "none")
      BY DEF AccountsOK, AccountState
    <3>2. account' = [account EXCEPT ![a] = row]
      BY <1>2 DEF Enable, AccountsOK, AccountState
    <3> HIDE DEF row
    <3>3. AccountsOK'
      BY <3>1, <3>2 DEF AccountsOK
    <3>4. HistoryOK'
      BY <1>2, OpenedIsTyped DEF Enable, HistoryOK
    <3> QED
      BY <3>3, <3>4
  <2>2. RequestOK([Idle EXCEPT !.pc = "clearOnly", !.email = a])
    BY DEF Idle, RequestOK, RequestState, Emails
  <2> QED
    BY <1>2, <2>1, <2>2, StartIsTyped DEF Enable, limiter, SessionsOK, LimiterOK
<1>3. ASSUME NEW a \in Accounts, ResetStart(r, a) PROVE Types'
  <2>1. RequestOK([Idle EXCEPT !.pc = "resetWrite", !.email = a])
    BY DEF Idle, RequestOK, RequestState, Emails
  <2> QED
    BY <1>3, <2>1, StartIsTyped DEF ResetStart, rows, limiter, history, counting, AccountsOK, SessionsOK, LimiterOK, HistoryOK
<1>4. CASE ResetWrite(r)
  <2>1. req[r].email \in Accounts
    BY <1>4 DEF ResetWrite, RequestsOK, RequestOK
  <2>2. AccountsOK' /\ HistoryOK'
    <3>1. PICK s \in Temps \ issued :
            /\ account' = [account EXCEPT ![req[r].email] =
                 [@ EXCEPT !.secret = s, !.must = TRUE, !.expiry = "ahead",
                           !.failed = 0, !.lock = "no"]]
            /\ issued' = issued \union {s}
      BY <1>4 DEF ResetWrite
    <3> DEFINE row == [account[req[r].email] EXCEPT !.secret = s, !.must = TRUE,
                         !.expiry = "ahead", !.failed = 0, !.lock = "no"]
    <3>2. row \in AccountState /\ row.must /\ row.expiry # "none"
      <4>1. account[req[r].email] \in AccountState /\ s \in Secrets
        BY <2>1 DEF AccountsOK, Secrets
      <4> QED
        BY <4>1 DEF AccountState
    <3>3. account' = [account EXCEPT ![req[r].email] = row]
      BY <2>1, <3>1 DEF AccountsOK, AccountState
    <3> HIDE DEF row
    <3>4. AccountsOK'
      BY <2>1, <3>2, <3>3 DEF AccountsOK
    <3>5. HistoryOK'
      BY <1>4, <2>1, <3>1, OpenedIsTyped DEF ResetWrite, HistoryOK
    <3> QED
      BY <3>4, <3>5
  <2>3. SessionsOK'
    BY <1>4, WithoutIsTyped DEF ResetWrite, SessionsEnd, SessionsOK
  <2>4. RequestOK([req[r] EXCEPT !.pc = "clearOnly"])
    BY <1>4, <2>1 DEF ResetWrite, RequestsOK, RequestOK, RequestState
  <2> QED
    BY <1>4, <2>2, <2>3, <2>4, GotoIsTyped DEF ResetWrite, limiter, LimiterOK
<1>5. CASE ClearOnly(r)
  BY <1>5, ClearIsTyped, EndedIsTyped DEF ClearOnly, rows, history, counting, AccountsOK, SessionsOK, HistoryOK
<1> QED
  BY <1>1, <1>2, <1>3, <1>4, <1>5 DEF Administer

\* Those who use a session, and time.
LEMMA OthersKeepTypes ==
  ASSUME Types,
         \/ \E t \in Tokens : Visit(t) \/ Logout(t)
         \/ \E a \in Accounts : LockPasses(a) \/ TempPasses(a)
         \/ \E e \in Emails, i \in Addresses : EmailWindowPasses(e, i)
         \/ \E i \in Addresses : IpWindowPasses(i)
         \/ SessionsAge \/ Purge \/ Restart \/ UNCHANGED vars
  PROVE  Types'
<1> USE DEF Types
<1>0. None \in SessionState
  BY AccountsAssumption DEF None, SessionState
<1>1. ASSUME NEW t \in Tokens, Visit(t) PROVE Types'
  BY <1>1, SlideIsTyped DEF Visit, limiter, history, counting, AccountsOK, SessionsOK, LimiterOK, RequestsOK, RequestOK, HistoryOK
<1>2. ASSUME NEW t \in Tokens, Logout(t) PROVE Types'
  BY <1>0, <1>2 DEF Logout, limiter, history, counting, AccountsOK, SessionsOK, LimiterOK, RequestsOK, RequestOK, HistoryOK
<1>3. ASSUME NEW a \in Accounts, LockPasses(a) PROVE Types'
  <2>1. AccountsOK' /\ HistoryOK'
    BY <1>3, OpenedIsTyped DEF LockPasses, AccountsOK, AccountState, HistoryOK
  <2> QED
    BY <1>3, <2>1 DEF LockPasses, limiter, SessionsOK, LimiterOK, RequestsOK, RequestOK
<1>4. ASSUME NEW a \in Accounts, TempPasses(a) PROVE Types'
  <2>1. AccountsOK'
    BY <1>4 DEF TempPasses, AccountsOK, AccountState
  <2> QED
    BY <1>4, <2>1 DEF TempPasses, limiter, history, counting, SessionsOK, LimiterOK, RequestsOK, RequestOK, HistoryOK
<1>5. ASSUME NEW e \in Emails, NEW i \in Addresses, EmailWindowPasses(e, i) PROVE Types'
  BY <1>5 DEF EmailWindowPasses, rows, history, counting, AccountsOK, SessionsOK, LimiterOK, RequestsOK, RequestOK, HistoryOK
<1>6. ASSUME NEW i \in Addresses, IpWindowPasses(i) PROVE Types'
  BY <1>6 DEF IpWindowPasses, rows, history, counting, AccountsOK, SessionsOK, LimiterOK, RequestsOK, RequestOK, HistoryOK
<1>7. CASE SessionsAge
  <2>1. \A t \in Tokens : session[t].left > 0 =>
          [session[t] EXCEPT !.left = @ - 1, !.unused = @ + 1] \in SessionState
    <3> SUFFICES ASSUME NEW t \in Tokens, session[t].left > 0
                 PROVE  [session[t] EXCEPT !.left = @ - 1, !.unused = @ + 1] \in SessionState
      OBVIOUS
    <3>1. session[t] \in SessionState
      BY DEF SessionsOK
    <3>2. session[t].left - 1 \in 0 .. Ttl /\ session[t].unused + 1 \in Nat
      BY <3>1, AccountsAssumption DEF SessionState
    <3> QED
      BY <3>1, <3>2 DEF SessionState
  <2>2. SessionsOK'
    BY <1>7, <2>1 DEF SessionsAge, SessionsOK
  <2> QED
    BY <1>7, <2>2 DEF SessionsAge, limiter, history, counting, AccountsOK, LimiterOK, RequestsOK, RequestOK, HistoryOK
<1>8. CASE Purge
  BY <1>0, <1>8 DEF Purge, limiter, history, counting, AccountsOK, SessionsOK, LimiterOK, RequestsOK, RequestOK, HistoryOK
<1>9. CASE Restart
  <2>1. RequestOK(Idle) /\ Idle \in RequestState
    BY DEF RequestOK, RequestState, Idle
  <2>2. RequestsOK' /\ LimiterOK'
    BY <1>9, <2>1 DEF Restart, RequestsOK, LimiterOK
  <2> QED
    BY <1>9, <2>2 DEF Restart, rows, history, counting, AccountsOK, SessionsOK, HistoryOK
<1>10. CASE UNCHANGED vars
  BY <1>10 DEF vars, AccountsOK, SessionsOK, LimiterOK, RequestsOK, RequestOK, HistoryOK
<1> QED
  BY <1>1, <1>2, <1>3, <1>4, <1>5, <1>6, <1>7, <1>8, <1>9, <1>10

\* Rows, counters and requests keep their types.
THEOREM TypesInvariant == Spec => []Types
<1>1. Init => Types
  <2> SUFFICES ASSUME Init PROVE Types
    OBVIOUS
  <2>1. AccountsOK
    BY DEF Init, AccountsOK, AccountState, Secrets
  <2>2. SessionsOK
    BY AccountsAssumption DEF Init, SessionsOK, SessionState, None
  <2>3. RequestsOK
    BY DEF Init, RequestsOK, RequestOK, RequestState, Idle
  <2> QED
    BY <2>1, <2>2, <2>3 DEF Init, Types, LimiterOK, HistoryOK
<1>2. Types /\ [Next]_vars => Types'
  BY LoginKeepsTypes, ChangeKeepsTypes, AdministerKeepsTypes, OthersKeepTypes DEF Next
<1> QED
  BY <1>1, <1>2, PTL DEF Spec

\* The rows and counters have their types; a password has an end exactly while it
\* must be changed (auth/routes.ts).
THEOREM AccountsTypeInvariant == Spec => []TypeOK
<1>1. Types => TypeOK
  BY DEF Types, AccountsOK, SessionsOK, LimiterOK, RequestsOK, HistoryOK, TypeOK
<1> QED
  BY <1>1, TypesInvariant, PTL

-----------------------------------------------------------------------------
(* What the steps may touch                                                *)

\* Only recording, a success, an unlocking, a window that passes and a restart touch
\* the limiter.
LEMMA LimiterSteps ==
  ASSUME [Next]_vars
  PROVE  \/ \E r \in Requests : LoginRecord(r) \/ LoginClear(r) \/ ClearOnly(r)
         \/ \E e \in Emails, i \in Addresses : EmailWindowPasses(e, i)
         \/ \E i \in Addresses : IpWindowPasses(i)
         \/ Restart
         \/ UNCHANGED <<hits, ipHits, tried>>
<1>1. ASSUME NEW r \in Requests, Login(r)
      PROVE  LoginRecord(r) \/ LoginClear(r) \/ UNCHANGED <<hits, ipHits, tried>>
  BY <1>1 DEF Login, LoginGate, LoginVerify, LoginSnapshot, LoginCount, LoginReset, LoginIssue, limiter, history, counting
<1>2. ASSUME NEW r \in Requests, Change(r) \/ Administer(r)
      PROVE  ClearOnly(r) \/ UNCHANGED <<hits, ipHits, tried>>
  BY <1>2 DEF Change, ChangeStart, ChangeVerify, ChangeWrite,
              Administer, Disable, Enable, ResetStart, ResetWrite, limiter, history, counting
<1> QED
  BY <1>1, <1>2 DEF Next, Visit, Logout, LockPasses, TempPasses, SessionsAge, Purge,
                    limiter, history, counting, vars

\* Only these touch an account or the failures that count for it.
LEMMA AccountSteps ==
  ASSUME [Next]_vars
  PROVE  \/ \E r \in Requests : LoginCount(r) \/ LoginReset(r) \/ ChangeWrite(r) \/ ResetWrite(r)
         \/ \E r \in Requests, a \in Accounts : Disable(a) \/ Enable(r, a)
         \/ \E a \in Accounts : LockPasses(a) \/ TempPasses(a)
         \/ UNCHANGED <<account, streak>>
<1>1. ASSUME NEW r \in Requests, Login(r)
      PROVE  LoginCount(r) \/ LoginReset(r) \/ UNCHANGED <<account, streak>>
  BY <1>1 DEF Login, LoginGate, LoginVerify, LoginSnapshot, LoginRecord, LoginClear, LoginIssue, rows, history, counting
<1>2. ASSUME NEW r \in Requests, Change(r) PROVE ChangeWrite(r) \/ UNCHANGED <<account, streak>>
  BY <1>2 DEF Change, ChangeStart, ChangeVerify, rows, history, counting
<1>3. ASSUME NEW r \in Requests, Administer(r)
      PROVE  \/ ResetWrite(r) \/ \E a \in Accounts : Disable(a) \/ Enable(r, a)
             \/ UNCHANGED <<account, streak>>
  BY <1>3 DEF Administer, ResetStart, ClearOnly, rows, history, counting
<1> QED
  BY <1>1, <1>2, <1>3 DEF Next, Visit, Logout, EmailWindowPasses, IpWindowPasses,
                          SessionsAge, Purge, Restart, rows, history, counting, vars

\* Only these touch a session.
LEMMA SessionSteps ==
  ASSUME [Next]_vars
  PROVE  \/ \E r \in Requests : LoginIssue(r) \/ ChangeWrite(r) \/ ResetWrite(r)
         \/ \E r \in Requests, t \in Tokens, current, next \in Known, text \in BOOLEAN :
              ChangeStart(r, t, current, text, next)
         \/ \E a \in Accounts : Disable(a)
         \/ \E t \in Tokens : Visit(t) \/ Logout(t)
         \/ SessionsAge \/ Purge
         \/ UNCHANGED session
<1>1. ASSUME NEW r \in Requests, Login(r) PROVE LoginIssue(r) \/ UNCHANGED session
  BY <1>1 DEF Login, LoginGate, LoginVerify, LoginSnapshot, LoginCount, LoginRecord, LoginReset, LoginClear, rows
<1>2. ASSUME NEW r \in Requests, Administer(r)
      PROVE  \/ ResetWrite(r) \/ \E a \in Accounts : Disable(a)
             \/ UNCHANGED session
  BY <1>2 DEF Administer, Enable, ResetStart, ClearOnly, rows
<1>3. ASSUME NEW r \in Requests, ChangeVerify(r) PROVE UNCHANGED session
  BY <1>3 DEF ChangeVerify, rows
<1> QED
  BY <1>1, <1>2, <1>3 DEF Next, Change, LockPasses, TempPasses, EmailWindowPasses, IpWindowPasses,
                          Restart, rows, vars

Changing == {"changeVerify", "changeWrite"}

\* Where a request carries what it was given, or has read, to its next step.
Carrying == Changing \union {"countWrite"}

\* Nobody gets further in a change, and nobody reads what he will count.
Elsewhere ==
  /\ \A r \in Requests : req'[r].pc \in Carrying => req'[r] = req[r]
  /\ issued \subseteq issued'

LEMMA ElsewhereSteps ==
  ASSUME Types, [Next]_vars
  PROVE  \/ Elsewhere
         \/ \E r \in Requests, t \in Tokens, current, next \in Known, text \in BOOLEAN :
              ChangeStart(r, t, current, text, next)
         \/ \E r \in Requests : ChangeVerify(r) \/ LoginSnapshot(r)
<1> USE DEF Carrying, Changing
<1>1. ASSUME NEW r \in Requests, Ended(r), issued \subseteq issued' PROVE Elsewhere
  BY <1>1 DEF Ended, Idle, Elsewhere, Types, RequestsOK
<1>2. ASSUME NEW r \in Requests, NEW pc, Goto(r, pc), pc \notin Carrying, issued \subseteq issued'
      PROVE  Elsewhere
  BY <1>2 DEF Goto, Elsewhere, Types, RequestsOK, RequestState
<1>3. ASSUME NEW r \in Requests, NEW q, req' = [req EXCEPT ![r] = q], q.pc \notin Carrying,
             issued \subseteq issued'
      PROVE  Elsewhere
  BY <1>3 DEF Elsewhere, Types, RequestsOK
<1>4. ASSUME NEW r \in Requests, Login(r), ~LoginSnapshot(r) PROVE Elsewhere
  <2>1. ASSUME NEW p \in work.from, NEW s \in Known, LoginGate(r, p[1], p[2], s) PROVE Elsewhere
    <3> DEFINE q == [Idle EXCEPT !.pc = "read", !.email = p[1], !.ip = p[2], !.typed = s]
    <3>1. q.pc \notin Carrying
      BY DEF Idle
    <3>2. req' = [req EXCEPT ![r] = q] /\ issued \subseteq issued'
      BY <2>1 DEF LoginGate, history, counting
    <3> QED
      BY <1>3, <3>1, <3>2
  <2>2. CASE LoginVerify(r)
    <3>1. \A row, typed : Verdict(row, typed) \in {"record", "count", "refuse", "reset"}
      BY DEF Verdict
    <3>2. issued \subseteq issued'
      BY <2>2 DEF LoginVerify, history, counting
    <3>3. Ended(r) \/ \E pc \in {"record", "count", "reset"} : Goto(r, pc)
      BY <2>2, <3>1 DEF LoginVerify
    <3> QED
      BY <1>1, <1>2, <3>2, <3>3
  <2>3. CASE LoginCount(r)
    BY <1>2, <2>3 DEF LoginCount
  <2>4. CASE LoginRecord(r)
    BY <1>1, <2>4 DEF LoginRecord
  <2>5. CASE LoginReset(r)
    BY <1>2, <2>5 DEF LoginReset
  <2>6. CASE LoginClear(r)
    BY <1>2, <2>6 DEF LoginClear, history, counting
  <2>7. CASE LoginIssue(r)
    BY <1>1, <2>7 DEF LoginIssue, history, counting
  <2> QED
    BY <1>4, <2>1, <2>2, <2>3, <2>4, <2>5, <2>6, <2>7 DEF Login
<1>5. ASSUME NEW r \in Requests, ChangeWrite(r) PROVE Elsewhere
  BY <1>1, <1>5 DEF ChangeWrite, history, counting
<1>6. ASSUME NEW r \in Requests, Administer(r) PROVE Elsewhere
  <2>1. ASSUME NEW a \in Accounts, Disable(a) PROVE Elsewhere
    <3>1. UNCHANGED <<req, issued>>
      BY <2>1 DEF Disable, history, counting
    <3> QED
      BY <3>1 DEF Elsewhere
  <2>2. ASSUME NEW a \in Accounts, Enable(r, a) PROVE Elsewhere
    <3> DEFINE q == [Idle EXCEPT !.pc = "clearOnly", !.email = a]
    <3>1. q.pc \notin Carrying
      BY DEF Idle
    <3>2. req' = [req EXCEPT ![r] = q] /\ issued \subseteq issued'
      BY <2>2 DEF Enable
    <3> QED
      BY <1>3, <3>1, <3>2
  <2>3. ASSUME NEW a \in Accounts, ResetStart(r, a) PROVE Elsewhere
    <3> DEFINE q == [Idle EXCEPT !.pc = "resetWrite", !.email = a]
    <3>1. q.pc \notin Carrying
      BY DEF Idle
    <3>2. req' = [req EXCEPT ![r] = q] /\ issued \subseteq issued'
      BY <2>3 DEF ResetStart, history, counting
    <3> QED
      BY <1>3, <3>1, <3>2
  <2>4. CASE ResetWrite(r)
    BY <1>2, <2>4 DEF ResetWrite
  <2>5. CASE ClearOnly(r)
    BY <1>1, <2>5 DEF ClearOnly, history, counting
  <2> QED
    BY <1>6, <2>1, <2>2, <2>3, <2>4, <2>5 DEF Administer
<1>7. CASE Restart
  BY <1>7 DEF Restart, Idle, Elsewhere, history, counting
<1>8. CASE UNCHANGED <<req, issued>>
  BY <1>8 DEF Elsewhere
<1> QED
  BY <1>4, <1>5, <1>6, <1>7, <1>8 DEF Next, Change, Visit, Logout, LockPasses, TempPasses,
     EmailWindowPasses, IpWindowPasses, SessionsAge, Purge, history, counting, vars

-----------------------------------------------------------------------------
(* The failures of others keep nobody out                                  *)

\* Whatever counts in a window was recorded for its address.
Paid ==
  \A i \in Addresses :
    ipHits[i] > 0 \/ (\E e \in Emails : hits[<<e, i>>] > 0) => i \in tried

LEMMA FallingKeepsPaid ==
  ASSUME Paid, tried' = tried,
         \A p \in Emails \X Addresses : hits'[p] > 0 => hits[p] > 0,
         \A i \in Addresses : ipHits'[i] > 0 => ipHits[i] > 0
  PROVE  Paid'
BY DEF Paid

\* What counts in a window was always recorded by somebody at its address.
THEOREM PaidInvariant == Spec => []Paid
<1>1. Init => Paid
  <2> SUFFICES ASSUME Init PROVE Paid
    OBVIOUS
  <2>1. /\ \A e \in Emails, i \in Addresses : hits[<<e, i>>] = 0
        /\ \A i \in Addresses : ipHits[i] = 0
    BY DEF Init
  <2>2. ~ 0 > 0
    OBVIOUS
  <2> QED
    BY <2>1, <2>2, Zenon DEF Paid
<1>2. Types /\ Paid /\ [Next]_vars => Paid'
  <2> SUFFICES ASSUME Types, Paid, [Next]_vars PROVE Paid'
    OBVIOUS
  <2>1. ASSUME NEW r \in Requests, LoginRecord(r) PROVE Paid'
    <3>1. req[r].email \in Emails /\ req[r].ip \in Addresses
      BY <2>1 DEF LoginRecord, Types, RequestsOK, RequestOK
    <3>2. \A i \in Addresses \ {req[r].ip} :
            /\ ipHits'[i] = ipHits[i]
            /\ \A e \in Emails : hits'[<<e, i>>] = hits[<<e, i>>]
      BY <2>1, <3>1 DEF LoginRecord, Record, Types, LimiterOK
    <3>3. tried' = tried \union {req[r].ip}
      BY <2>1 DEF LoginRecord
    <3> QED
      BY <3>2, <3>3 DEF Paid
  <2>2. ASSUME NEW r \in Requests, LoginClear(r) \/ ClearOnly(r) PROVE Paid'
    BY <2>2, FallingKeepsPaid DEF LoginClear, ClearOnly, Clear, history, counting, Types, LimiterOK
  <2>3. ASSUME NEW e \in Emails, NEW i \in Addresses, EmailWindowPasses(e, i) PROVE Paid'
    BY <2>3, FallingKeepsPaid DEF EmailWindowPasses, history, counting, Types, LimiterOK
  <2>4. ASSUME NEW i \in Addresses, IpWindowPasses(i) PROVE Paid'
    BY <2>4, FallingKeepsPaid DEF IpWindowPasses, history, counting, Types, LimiterOK
  <2>5. CASE Restart
    BY <2>5, FallingKeepsPaid DEF Restart, history, counting, Types, LimiterOK
  <2>6. CASE UNCHANGED <<hits, ipHits, tried>>
    BY <2>6 DEF Paid
  <2> QED
    BY <2>1, <2>2, <2>3, <2>4, <2>5, <2>6, LimiterSteps
<1> QED
  BY <1>1, <1>2, TypesInvariant, PTL DEF Spec

\* Whoever the limiter turns away is at an address that failures were recorded for
\* (auth/rateLimit.ts 64).
THEOREM NobodyElsePays == Spec => []CostStaysWithItsMaker
<1>1. Types /\ Paid => CostStaysWithItsMaker
  BY AccountsAssumption DEF Types, LimiterOK, Paid, CostStaysWithItsMaker, Limited
<1> QED
  BY <1>1, TypesInvariant, PaidInvariant, PTL

-----------------------------------------------------------------------------
(* A lock is earned                                                        *)

\* Nobody reads what he will count.
Waiting == \A r \in Requests : req'[r].pc = "countWrite" => req'[r] = req[r]

LEMMA WaitingSteps ==
  ASSUME Types, [Next]_vars
  PROVE  Waiting \/ \E r \in Requests : LoginSnapshot(r)
<1>1. CASE Elsewhere
  BY <1>1 DEF Elsewhere, Carrying, Waiting
<1>2. ASSUME NEW r \in Requests, NEW t \in Tokens, NEW current \in Known, NEW next \in Known,
             NEW text \in BOOLEAN, ChangeStart(r, t, current, text, next)
      PROVE  Waiting
  <2> DEFINE q == [Idle EXCEPT !.pc = "changeVerify", !.email = session[t].account,
                               !.token = t, !.typed = current, !.text = text, !.next = next]
  <2>1. q.pc # "countWrite"
    BY DEF Idle
  <2>2. req' = [req EXCEPT ![r] = q]
    BY <1>2 DEF ChangeStart
  <2> HIDE DEF q
  <2> QED
    BY <2>1, <2>2 DEF Waiting, Types, RequestsOK
<1>3. ASSUME NEW r \in Requests, ChangeVerify(r) PROVE Waiting
  <2>1. CASE Ended(r)
    BY <2>1 DEF Ended, Idle, Waiting, Types, RequestsOK
  <2>2. CASE Goto(r, "changeWrite")
    BY <2>2 DEF Goto, Waiting, Types, RequestsOK, RequestState
  <2> QED
    BY <1>3, <2>1, <2>2 DEF ChangeVerify
<1> QED
  BY <1>1, <1>2, <1>3, ElsewhereSteps

\* Only these touch what counts the failures.
LEMMA CountingSteps ==
  ASSUME [Next]_vars
  PROVE  \/ \E r \in Requests : LoginCount(r) \/ LoginReset(r) \/ ResetWrite(r)
         \/ \E r \in Requests, a \in Accounts : Enable(r, a)
         \/ \E a \in Accounts : LockPasses(a)
         \/ Restart
         \/ UNCHANGED counting
<1>1. ASSUME NEW r \in Requests, Login(r)
      PROVE  LoginCount(r) \/ LoginReset(r) \/ UNCHANGED counting
  BY <1>1 DEF Login, LoginGate, LoginVerify, LoginSnapshot, LoginRecord, LoginClear, LoginIssue, history
<1>2. ASSUME NEW r \in Requests, Change(r) PROVE UNCHANGED counting
  BY <1>2 DEF Change, ChangeStart, ChangeVerify, ChangeWrite, history
<1>3. ASSUME NEW r \in Requests, Administer(r)
      PROVE  \/ ResetWrite(r) \/ \E a \in Accounts : Enable(r, a)
             \/ UNCHANGED counting
  BY <1>3 DEF Administer, Disable, ResetStart, ClearOnly, history
<1> QED
  BY <1>1, <1>2, <1>3 DEF Next, Visit, Logout, TempPasses, EmailWindowPasses, IpWindowPasses,
                          SessionsAge, Purge, history, counting, vars

\* While no lock has just run out, the counter of a row counts nothing but failures since
\* the account was last opened, unless a count from before was carried into it; and what
\* a request is about to write is one more than that at most, unless the account was
\* opened since it was read.  (The failures are counted as far as MAX_ATTEMPTS.)
Counted ==
  /\ \A a \in Accounts \ carried :
       /\ account[a].lock # "over" => account[a].failed <= streak[a] \/ streak[a] >= MaxAttempts
       /\ account[a].lock = "on" => streak[a] >= MaxAttempts
  /\ \A r \in Requests \ overtaken :
       req[r].pc = "countWrite" /\ req[r].email \notin carried =>
         \/ req[r].failed <= streak[req[r].email] + 1
         \/ streak[req[r].email] >= MaxAttempts

\* Opening an account starts its count anew; whoever is about to write an older one is
\* overtaken.
LEMMA OpenedKeepsCounted ==
  ASSUME Types, Counted, Waiting, NEW a \in Accounts, Opened(a),
         \A o \in Accounts \ {a} : account'[o].failed = account[o].failed
                                   /\ account'[o].lock = account[o].lock,
         account'[a].lock = "over" \/ (account'[a].lock = "no" /\ account'[a].failed = 0)
  PROVE  Counted'
<1> USE DEF Types, HistoryOK
<1>1. /\ streak'[a] = 0 /\ \A o \in Accounts \ {a} : streak'[o] = streak[o]
      /\ carried' = carried \ {a}
      /\ overtaken' = overtaken \union
           {r \in Requests : req[r].pc = "countWrite" /\ req[r].email = a}
  BY DEF Opened
<1>2. ASSUME NEW o \in Accounts \ carried'
      PROVE  /\ account'[o].lock # "over" =>
                  account'[o].failed <= streak'[o] \/ streak'[o] >= MaxAttempts
             /\ account'[o].lock = "on" => streak'[o] >= MaxAttempts
  <2>1. CASE o = a
    BY <1>1, <2>1
  <2>2. CASE o # a
    BY <1>1, <1>2, <2>2 DEF Counted
  <2> QED
    BY <2>1, <2>2
<1>3. ASSUME NEW r \in Requests \ overtaken', req'[r].pc = "countWrite",
             req'[r].email \notin carried'
      PROVE  \/ req'[r].failed <= streak'[req'[r].email] + 1
             \/ streak'[req'[r].email] >= MaxAttempts
  <2>1. req'[r] = req[r]
    BY <1>3 DEF Waiting
  <2>2. req[r].email \in Accounts \ {a} /\ r \notin overtaken /\ req[r].email \notin carried
    BY <1>1, <1>3, <2>1 DEF RequestsOK, RequestOK
  <2> QED
    BY <1>1, <1>3, <2>1, <2>2 DEF Counted
<1> QED
  BY <1>2, <1>3 DEF Counted

\* Writing a count adds one failure, and carries along what the account was opened for
\* since it was read.
LEMMA CountKeepsCounted ==
  ASSUME Types, Counted, Waiting, NEW r \in Requests, LoginCount(r)
  PROVE  Counted'
<1> USE DEF Types, HistoryOK
<1> DEFINE e == req[r].email
           n == req[r].failed
<1>1. /\ e \in Accounts /\ n \in Nat /\ req[r].pc = "countWrite"
  BY DEF LoginCount, RequestsOK, RequestOK, RequestState
<1>2. /\ streak'[e] = IF streak[e] < MaxAttempts THEN streak[e] + 1 ELSE streak[e]
      /\ \A o \in Accounts \ {e} : streak'[o] = streak[o]
  BY <1>1 DEF LoginCount
<1>3. /\ carried' = IF r \in overtaken THEN carried \union {e} ELSE carried
      /\ overtaken' = overtaken \ {r} /\ req'[r].pc = "record"
  BY DEF LoginCount, Goto, RequestsOK, RequestState
<1>4. /\ account'[e].failed = n
      /\ account'[e].lock = IF n >= MaxAttempts THEN "on" ELSE "no"
      /\ \A o \in Accounts \ {e} : account'[o] = account[o]
  BY CountEffect
<1>5. /\ \A o \in Accounts : streak[o] \in Nat
      /\ MaxAttempts \in Nat
  BY AccountsAssumption
<1>6. e \notin carried' =>
        e \notin carried /\ (n <= streak[e] + 1 \/ streak[e] >= MaxAttempts)
  BY <1>1, <1>3 DEF Counted
<1> HIDE DEF e, n
<1>7. ASSUME NEW o \in Accounts \ carried'
      PROVE  /\ account'[o].lock # "over" =>
                  account'[o].failed <= streak'[o] \/ streak'[o] >= MaxAttempts
             /\ account'[o].lock = "on" => streak'[o] >= MaxAttempts
  <2>1. CASE o = e
    BY <1>1, <1>2, <1>4, <1>5, <1>6, <2>1
  <2>2. CASE o # e
    BY <1>2, <1>3, <1>4, <1>7, <2>2 DEF Counted
  <2> QED
    BY <2>1, <2>2
<1>8. ASSUME NEW o \in Requests \ overtaken', req'[o].pc = "countWrite",
             req'[o].email \notin carried'
      PROVE  \/ req'[o].failed <= streak'[req'[o].email] + 1
             \/ streak'[req'[o].email] >= MaxAttempts
  <2>1. o # r /\ req'[o] = req[o]
    BY <1>3, <1>8 DEF Waiting
  <2>2. /\ o \notin overtaken /\ req[o].email \notin carried /\ req[o].email \in Accounts
        /\ req[o].failed \in Nat
    BY <1>3, <1>8, <2>1 DEF RequestsOK, RequestOK, RequestState
  <2>3. \/ req[o].failed <= streak[req[o].email] + 1
        \/ streak[req[o].email] >= MaxAttempts
    BY <1>8, <2>1, <2>2 DEF Counted
  <2>4. streak'[req[o].email] >= streak[req[o].email] /\ streak'[req[o].email] \in Nat
    BY <1>1, <1>2, <1>5, <2>2
  <2> QED
    BY <1>5, <2>1, <2>2, <2>3, <2>4
<1> QED
  BY <1>7, <1>8 DEF Counted

\* The counter of a row is never ahead of the failures since the account was opened,
\* unless a lock has run out (auth/routes.ts 246-252) or a count read before the opening
\* was written after it (262-271).
THEOREM CountedInvariant == Spec => []Counted
<1>1. Init => Counted
  BY DEF Init, Idle, Counted
<1>2. Types /\ Counted /\ [Next]_vars => Counted'
  <2> SUFFICES ASSUME Types, Counted, [Next]_vars PROVE Counted'
    OBVIOUS
  <2> DEFINE Same == \A a \in Accounts :
               account'[a].failed = account[a].failed /\ account'[a].lock = account[a].lock
  <2> USE DEF Types, AccountsOK, AccountState
  <2>1. ASSUME NEW r \in Requests, LoginSnapshot(r) PROVE Counted'
    <3>1. UNCHANGED <<account, streak, overtaken, carried>>
      BY <2>1 DEF LoginSnapshot, rows, history, counting
    <3>2. NextFailed(account[req[r].email]) <= streak[req[r].email] + 1
          \/ streak[req[r].email] >= MaxAttempts \/ req[r].email \in carried
      BY <2>1, SnapshotEffect DEF Counted, NextFailed, HistoryOK
    <3> HIDE DEF AccountsOK, AccountState
    <3> QED
      BY <2>1, <3>1, <3>2, SnapshotEffect DEF Counted
  <2>2. ASSUME Waiting, NEW r \in Requests, LoginReset(r) PROVE Counted'
    BY <2>2, ResetEffect, OpenedKeepsCounted DEF LoginReset
  <2>3. ASSUME Waiting, NEW r \in Requests, ResetWrite(r) PROVE Counted'
    <3>1. req[r].email \in Accounts
      BY <2>3 DEF ResetWrite, RequestsOK, RequestOK
    <3>2. /\ account'[req[r].email].lock = "no" /\ account'[req[r].email].failed = 0
          /\ \A o \in Accounts \ {req[r].email} : account'[o] = account[o]
      BY <2>3, <3>1 DEF ResetWrite
    <3> QED
      BY <2>3, <3>1, <3>2, OpenedKeepsCounted DEF ResetWrite
  <2>4. ASSUME Waiting, NEW r \in Requests, NEW a \in Accounts, Enable(r, a) PROVE Counted'
    <3>1. /\ account'[a].lock = "no" /\ account'[a].failed = 0
          /\ \A o \in Accounts \ {a} : account'[o] = account[o]
      BY <2>4 DEF Enable
    <3> QED
      BY <2>4, <3>1, OpenedKeepsCounted DEF Enable
  <2>5. ASSUME Waiting, NEW a \in Accounts, LockPasses(a) PROVE Counted'
    <3>1. /\ account'[a].lock = "over"
          /\ \A o \in Accounts \ {a} : account'[o] = account[o]
      BY <2>5 DEF LockPasses
    <3> QED
      BY <2>5, <3>1, OpenedKeepsCounted DEF LockPasses
  <2>6. ASSUME Restart PROVE Counted'
    <3>1. /\ UNCHANGED <<account, streak, carried>>
          /\ \A r \in Requests : req'[r].pc = "idle"
      BY <2>6 DEF Restart, rows, Idle
    <3> QED
      BY <3>1 DEF Counted
  <2>7. ASSUME Waiting, Same, UNCHANGED counting PROVE Counted'
    BY <2>7 DEF Counted, Waiting, counting
  <2>8. ASSUME ~ \E r \in Requests : LoginCount(r) \/ LoginReset(r) \/ ResetWrite(r),
               ~ \E r \in Requests, a \in Accounts : Enable(r, a),
               ~ \E a \in Accounts : LockPasses(a)
        PROVE  Same
    <3>1. ASSUME NEW r \in Requests, ChangeWrite(r) PROVE Same
      BY <3>1, ChangeEffect
    <3>2. ASSUME NEW a \in Accounts, Disable(a) PROVE Same
      BY <3>2 DEF Disable
    <3>3. ASSUME NEW a \in Accounts, TempPasses(a) PROVE Same
      BY <3>3 DEF TempPasses
    <3>4. CASE UNCHANGED <<account, streak>>
      BY <3>4
    <3> HIDE DEF Same
    <3> QED
      BY <2>8, <3>1, <3>2, <3>3, <3>4, AccountSteps
  <2> HIDE DEF Same
  <2> QED
    BY <2>1, <2>2, <2>3, <2>4, <2>5, <2>6, <2>7, <2>8, CountKeepsCounted, WaitingSteps, CountingSteps
<1> QED
  BY <1>1, <1>2, TypesInvariant, PTL DEF Spec

\* An account is locked only after MAX_ATTEMPTS failures since it was last opened or
\* unlocked, or a lock of it ran out (auth/routes.ts 246-252); but for a count that was
\* read before and written after that (262-271), until the next opening.
THEOREM LocksAreEarned == Spec => []LockIsEarned
<1>1. Counted => LockIsEarned
  BY DEF Counted, LockIsEarned
<1> QED
  BY <1>1, CountedInvariant, PTL

-----------------------------------------------------------------------------
(* The window holds                                                        *)

Trying == {"read", "count", "countWrite", "record"}

\* The requests that passed the gate for p and have not recorded yet.
InFlight(p) ==
  {r \in Requests : req[r].pc \in Trying /\ <<req[r].email, req[r].ip>> = p}

FromAddress(i) ==
  {r \in Requests : req[r].pc \in Trying /\ req[r].ip = i}

\* A failure is counted for as long as its request is in flight.
Room ==
  /\ \A p \in Emails \X Addresses :
       hits[p] + Cardinality(InFlight(p)) <= EmailIpLimit - 1 + Cardinality(Requests)
  /\ \A i \in Addresses :
       ipHits[i] + Cardinality(FromAddress(i)) <= IpLimit - 1 + Cardinality(Requests)

LEMMA InFlightIsFinite ==
  /\ Cardinality(Requests) \in Nat
  /\ \A p : InFlight(p) \subseteq Requests /\ IsFiniteSet(InFlight(p))
            /\ Cardinality(InFlight(p)) \in Nat /\ Cardinality(InFlight(p)) <= Cardinality(Requests)
  /\ \A i : FromAddress(i) \subseteq Requests /\ IsFiniteSet(FromAddress(i))
            /\ Cardinality(FromAddress(i)) \in Nat /\ Cardinality(FromAddress(i)) <= Cardinality(Requests)
<1>1. IsFiniteSet(Requests)
  BY AccountsAssumption
<1>2. \A p : InFlight(p) \subseteq Requests
  BY DEF InFlight, Trying
<1>3. \A i : FromAddress(i) \subseteq Requests
  BY DEF FromAddress, Trying
<1> QED
  BY <1>1, <1>2, <1>3, FS_Subset, FS_CardinalityType

\* Who is in flight was so before, about the same address.
Onward ==
  \A r \in Requests : req'[r].pc \in Trying =>
    req[r].pc \in Trying /\ req'[r].email = req[r].email /\ req'[r].ip = req[r].ip

LEMMA OnwardSteps ==
  ASSUME Types, [Next]_vars
  PROVE  \/ Onward
         \/ \E r \in Requests, p \in work.from, s \in Known : LoginGate(r, p[1], p[2], s)
<1> USE DEF Trying
<1>1. ASSUME NEW r \in Requests, Ended(r) PROVE Onward
  BY <1>1 DEF Ended, Idle, Onward, Types, RequestsOK
<1>2. ASSUME NEW r \in Requests, NEW pc, Goto(r, pc), pc \in Trying => req[r].pc \in Trying
      PROVE  Onward
  BY <1>2 DEF Goto, Onward, Types, RequestsOK, RequestState
<1>3. ASSUME NEW r \in Requests, NEW q, req' = [req EXCEPT ![r] = q], q.pc \notin Trying
      PROVE  Onward
  BY <1>3 DEF Onward, Types, RequestsOK
<1>4. CASE UNCHANGED req
  BY <1>4 DEF Onward
<1>5. ASSUME NEW r \in Requests, Login(r),
             ~ \E p \in work.from, s \in Known : LoginGate(r, p[1], p[2], s)
      PROVE  Onward
  <2>1. CASE LoginVerify(r)
    <3>1. CASE Ended(r)
      BY <1>1, <3>1
    <3>2. ASSUME NEW pc, Goto(r, pc) PROVE Onward
      BY <1>2, <2>1, <3>2 DEF LoginVerify
    <3> QED
      BY <2>1, <3>1, <3>2 DEF LoginVerify
  <2>2. CASE LoginCount(r)
    BY <1>2, <2>2 DEF LoginCount
  <2>3. CASE LoginRecord(r)
    BY <1>1, <2>3 DEF LoginRecord
  <2>4. CASE LoginReset(r)
    BY <1>2, <2>4 DEF LoginReset
  <2>5. CASE LoginClear(r)
    BY <1>2, <2>5 DEF LoginClear
  <2>6. CASE LoginIssue(r)
    BY <1>1, <2>6 DEF LoginIssue
  <2>7. CASE LoginSnapshot(r)
    BY <2>7, SnapshotEffect DEF Onward, Types
  <2> QED
    BY <1>5, <2>1, <2>2, <2>3, <2>4, <2>5, <2>6, <2>7 DEF Login
<1>6. ASSUME NEW r \in Requests, Change(r) PROVE Onward
  <2>1. ASSUME NEW t \in Tokens, NEW current \in Known, NEW next \in Known,
               NEW text \in BOOLEAN, ChangeStart(r, t, current, text, next)
        PROVE  Onward
    <3> DEFINE q == [Idle EXCEPT !.pc = "changeVerify", !.email = session[t].account,
                                 !.token = t, !.typed = current, !.text = text, !.next = next]
    <3>1. q.pc \notin Trying
      BY DEF Idle
    <3>2. req' = [req EXCEPT ![r] = q]
      BY <2>1 DEF ChangeStart
    <3> QED
      BY <1>3, <3>1, <3>2
  <2>2. CASE ChangeVerify(r)
    BY <1>1, <1>2, <2>2 DEF ChangeVerify
  <2>3. CASE ChangeWrite(r)
    BY <1>1, <2>3 DEF ChangeWrite
  <2> QED
    BY <1>6, <2>1, <2>2, <2>3 DEF Change
<1>7. ASSUME NEW r \in Requests, Administer(r) PROVE Onward
  <2>1. ASSUME NEW a \in Accounts, Disable(a) PROVE Onward
    <3>1. UNCHANGED req
      BY <2>1 DEF Disable
    <3> QED
      BY <3>1 DEF Onward
  <2>2. ASSUME NEW a \in Accounts, Enable(r, a) PROVE Onward
    <3> DEFINE q == [Idle EXCEPT !.pc = "clearOnly", !.email = a]
    <3>1. q.pc \notin Trying
      BY DEF Idle
    <3>2. req' = [req EXCEPT ![r] = q]
      BY <2>2 DEF Enable
    <3> QED
      BY <1>3, <3>1, <3>2
  <2>3. ASSUME NEW a \in Accounts, ResetStart(r, a) PROVE Onward
    <3> DEFINE q == [Idle EXCEPT !.pc = "resetWrite", !.email = a]
    <3>1. q.pc \notin Trying
      BY DEF Idle
    <3>2. req' = [req EXCEPT ![r] = q]
      BY <2>3 DEF ResetStart
    <3> QED
      BY <1>3, <3>1, <3>2
  <2>4. CASE ResetWrite(r)
    BY <1>2, <2>4 DEF ResetWrite
  <2>5. CASE ClearOnly(r)
    BY <1>1, <2>5 DEF ClearOnly
  <2> QED
    BY <1>7, <2>1, <2>2, <2>3, <2>4, <2>5 DEF Administer
<1>8. CASE Restart
  BY <1>8 DEF Restart, Idle, Onward
<1> QED
  BY <1>4, <1>5, <1>6, <1>7, <1>8 DEF Next, Visit, Logout, LockPasses, TempPasses,
     EmailWindowPasses, IpWindowPasses, SessionsAge, Purge, vars

\* Fewer in flight take less room.
LEMMA FewerKeepRoom ==
  ASSUME Types, Types', Room, Onward,
         \A p \in Emails \X Addresses : hits'[p] <= hits[p],
         \A i \in Addresses : ipHits'[i] <= ipHits[i]
  PROVE  Room'
<1>1. \A p \in Emails \X Addresses : InFlight(p)' \subseteq InFlight(p)
  BY DEF Onward, InFlight, Trying
<1>2. \A i \in Addresses : FromAddress(i)' \subseteq FromAddress(i)
  BY DEF Onward, FromAddress, Trying
<1>3. ASSUME NEW p \in Emails \X Addresses
      PROVE  hits'[p] + Cardinality(InFlight(p)') <= EmailIpLimit - 1 + Cardinality(Requests)
  <2>1. /\ Cardinality(InFlight(p)') <= Cardinality(InFlight(p))
        /\ Cardinality(InFlight(p)') \in Nat /\ Cardinality(InFlight(p)) \in Nat
    BY <1>1, InFlightIsFinite, FS_Subset, FS_CardinalityType
  <2>2. hits'[p] \in Nat /\ hits[p] \in Nat /\ hits'[p] <= hits[p]
    BY DEF Types, LimiterOK
  <2>3. hits[p] + Cardinality(InFlight(p)) <= EmailIpLimit - 1 + Cardinality(Requests)
    BY DEF Room
  <2> QED
    BY <2>1, <2>2, <2>3, InFlightIsFinite, AccountsAssumption
<1>4. ASSUME NEW i \in Addresses
      PROVE  ipHits'[i] + Cardinality(FromAddress(i)') <= IpLimit - 1 + Cardinality(Requests)
  <2>1. /\ Cardinality(FromAddress(i)') <= Cardinality(FromAddress(i))
        /\ Cardinality(FromAddress(i)') \in Nat /\ Cardinality(FromAddress(i)) \in Nat
    BY <1>2, InFlightIsFinite, FS_Subset, FS_CardinalityType
  <2>2. ipHits'[i] \in Nat /\ ipHits[i] \in Nat /\ ipHits'[i] <= ipHits[i]
    BY DEF Types, LimiterOK
  <2>3. ipHits[i] + Cardinality(FromAddress(i)) <= IpLimit - 1 + Cardinality(Requests)
    BY DEF Room
  <2> QED
    BY <2>1, <2>2, <2>3, InFlightIsFinite, AccountsAssumption
<1> QED
  BY <1>3, <1>4 DEF Room

\* A request that passes the gate takes the room that Requests leaves for it.
LEMMA GateKeepsRoom ==
  ASSUME Types, Types', Room,
         NEW r \in Requests, NEW e \in Emails, NEW i \in Addresses, NEW s, LoginGate(r, e, i, s)
  PROVE  Room'
<1>1. /\ UNCHANGED <<hits, ipHits>>
      /\ hits[<<e, i>>] <= EmailIpLimit - 1 /\ ipHits[i] <= IpLimit - 1
  BY AccountsAssumption DEF LoginGate, Limited, limiter, Types, LimiterOK
<1> DEFINE q == [Idle EXCEPT !.pc = "read", !.email = e, !.ip = i, !.typed = s]
<1>2. req' = [req EXCEPT ![r] = q] /\ q.email = e /\ q.ip = i
  BY DEF LoginGate, Idle
<1> HIDE DEF q
<1>3. ASSUME NEW p \in Emails \X Addresses
      PROVE  hits'[p] + Cardinality(InFlight(p)') <= EmailIpLimit - 1 + Cardinality(Requests)
  <2>1. /\ InFlight(p)' \subseteq Requests
        /\ Cardinality(InFlight(p)') \in Nat /\ Cardinality(InFlight(p)') <= Cardinality(Requests)
    <3>1. InFlight(p)' \subseteq Requests
      BY DEF InFlight, Trying
    <3> QED
      BY <3>1, AccountsAssumption, FS_Subset, FS_CardinalityType
  <2>2. hits[p] \in Nat
    BY DEF Types, LimiterOK
  <2>3. CASE p = <<e, i>>
    BY <1>1, <2>1, <2>2, <2>3, InFlightIsFinite, AccountsAssumption
  <2>4. CASE p # <<e, i>>
    <3>1. InFlight(p)' \subseteq InFlight(p)
      BY <1>2, <2>4 DEF InFlight, Trying, Types, RequestsOK
    <3>2. Cardinality(InFlight(p)') <= Cardinality(InFlight(p)) /\ Cardinality(InFlight(p)) \in Nat
      BY <3>1, InFlightIsFinite, FS_Subset
    <3>3. hits[p] + Cardinality(InFlight(p)) <= EmailIpLimit - 1 + Cardinality(Requests)
      BY DEF Room
    <3> QED
      BY <1>1, <2>1, <2>2, <3>2, <3>3, InFlightIsFinite, AccountsAssumption
  <2> QED
    BY <2>3, <2>4
<1>4. ASSUME NEW o \in Addresses
      PROVE  ipHits'[o] + Cardinality(FromAddress(o)') <= IpLimit - 1 + Cardinality(Requests)
  <2>1. /\ FromAddress(o)' \subseteq Requests
        /\ Cardinality(FromAddress(o)') \in Nat /\ Cardinality(FromAddress(o)') <= Cardinality(Requests)
    <3>1. FromAddress(o)' \subseteq Requests
      BY DEF FromAddress, Trying
    <3> QED
      BY <3>1, AccountsAssumption, FS_Subset, FS_CardinalityType
  <2>2. ipHits[o] \in Nat
    BY DEF Types, LimiterOK
  <2>3. CASE o = i
    BY <1>1, <2>1, <2>2, <2>3, InFlightIsFinite, AccountsAssumption
  <2>4. CASE o # i
    <3>1. FromAddress(o)' \subseteq FromAddress(o)
      BY <1>2, <2>4 DEF FromAddress, Trying, Types, RequestsOK
    <3>2. Cardinality(FromAddress(o)') <= Cardinality(FromAddress(o)) /\ Cardinality(FromAddress(o)) \in Nat
      BY <3>1, InFlightIsFinite, FS_Subset
    <3>3. ipHits[o] + Cardinality(FromAddress(o)) <= IpLimit - 1 + Cardinality(Requests)
      BY DEF Room
    <3> QED
      BY <1>1, <2>1, <2>2, <3>2, <3>3, InFlightIsFinite, AccountsAssumption
  <2> QED
    BY <2>3, <2>4
<1> QED
  BY <1>3, <1>4 DEF Room

\* Recording a failure turns a request in flight into a hit.
LEMMA RecordKeepsRoom ==
  ASSUME Types, Types', Room, NEW r \in Requests, LoginRecord(r)
  PROVE  Room'
<1> DEFINE mine == <<req[r].email, req[r].ip>>
           i == req[r].ip
<1>1. req[r].email \in Emails /\ i \in Addresses /\ req[r].pc = "record"
  BY DEF LoginRecord, Types, RequestsOK, RequestOK
<1>2. /\ hits' = [hits EXCEPT ![mine] = @ + 1] /\ ipHits' = [ipHits EXCEPT ![i] = @ + 1]
      /\ req' = [req EXCEPT ![r] = Idle]
  BY DEF LoginRecord, Record, Ended
<1>3. Idle.pc = "idle"
  BY DEF Idle
<1>4. ASSUME NEW p \in Emails \X Addresses
      PROVE  hits'[p] + Cardinality(InFlight(p)') <= EmailIpLimit - 1 + Cardinality(Requests)
  <2>1. InFlight(p)' = InFlight(p) \ {r}
    BY <1>2, <1>3 DEF InFlight, Trying, Types, RequestsOK
  <2>2. r \in InFlight(p) <=> p = mine
    BY <1>1 DEF InFlight, Trying
  <2>3. /\ Cardinality(InFlight(p)') = IF p = mine THEN Cardinality(InFlight(p)) - 1
                                                  ELSE Cardinality(InFlight(p))
        /\ Cardinality(InFlight(p)) \in Nat
    BY <2>1, <2>2, InFlightIsFinite, FS_RemoveElement
  <2>4. hits[p] \in Nat /\ hits'[p] = IF p = mine THEN hits[p] + 1 ELSE hits[p]
    BY <1>2 DEF Types, LimiterOK
  <2>5. hits[p] + Cardinality(InFlight(p)) <= EmailIpLimit - 1 + Cardinality(Requests)
    BY DEF Room
  <2> HIDE DEF mine
  <2> QED
    BY <2>3, <2>4, <2>5, InFlightIsFinite, AccountsAssumption
<1>5. ASSUME NEW o \in Addresses
      PROVE  ipHits'[o] + Cardinality(FromAddress(o)') <= IpLimit - 1 + Cardinality(Requests)
  <2>1. FromAddress(o)' = FromAddress(o) \ {r}
    BY <1>2, <1>3 DEF FromAddress, Trying, Types, RequestsOK
  <2>2. r \in FromAddress(o) <=> o = i
    BY <1>1 DEF FromAddress, Trying
  <2>3. /\ Cardinality(FromAddress(o)') = IF o = i THEN Cardinality(FromAddress(o)) - 1
                                                   ELSE Cardinality(FromAddress(o))
        /\ Cardinality(FromAddress(o)) \in Nat
    BY <2>1, <2>2, InFlightIsFinite, FS_RemoveElement
  <2>4. ipHits[o] \in Nat /\ ipHits'[o] = IF o = i THEN ipHits[o] + 1 ELSE ipHits[o]
    BY <1>2 DEF Types, LimiterOK
  <2>5. ipHits[o] + Cardinality(FromAddress(o)) <= IpLimit - 1 + Cardinality(Requests)
    BY DEF Room
  <2> HIDE DEF i
  <2> QED
    BY <2>3, <2>4, <2>5, InFlightIsFinite, AccountsAssumption
<1> QED
  BY <1>4, <1>5 DEF Room

\* The counted failures and those in flight never take more room than the window and
\* the requests together.
THEOREM RoomInvariant == Spec => []Room
<1>1. Init => Room
  <2> SUFFICES ASSUME Init PROVE Room
    OBVIOUS
  <2>1. /\ \A p \in Emails \X Addresses : hits[p] = 0
        /\ \A i \in Addresses : ipHits[i] = 0
    BY DEF Init
  <2>2. /\ \A p : Cardinality(InFlight(p)) \in Nat /\ Cardinality(InFlight(p)) <= Cardinality(Requests)
        /\ \A i : Cardinality(FromAddress(i)) \in Nat /\ Cardinality(FromAddress(i)) <= Cardinality(Requests)
        /\ Cardinality(Requests) \in Nat
    BY InFlightIsFinite
  <2> QED
    BY <2>1, <2>2, AccountsAssumption DEF Room
<1>2. Types /\ Types' /\ Room /\ [Next]_vars => Room'
  <2> SUFFICES ASSUME Types, Types', Room, [Next]_vars PROVE Room'
    OBVIOUS
  <2>1. ASSUME NEW r \in Requests, NEW p \in work.from, NEW s \in Known, LoginGate(r, p[1], p[2], s)
        PROVE  Room'
    <3>1. p[1] \in Emails /\ p[2] \in Addresses
      BY AccountsAssumption DEF Types
    <3> QED
      BY <2>1, <3>1, GateKeepsRoom
  <2>2. ASSUME NEW r \in Requests, LoginRecord(r) PROVE Room'
    BY <2>2, RecordKeepsRoom
  <2>3. CASE Onward /\ ~ \E r \in Requests : LoginRecord(r)
    <3>1. /\ \A p \in Emails \X Addresses : hits'[p] <= hits[p]
          /\ \A i \in Addresses : ipHits'[i] <= ipHits[i]
      <4> USE DEF Types, LimiterOK
      <4>1. ASSUME NEW r \in Requests, LoginClear(r) \/ ClearOnly(r) PROVE <3>1!1 /\ <3>1!2
        BY <4>1 DEF LoginClear, ClearOnly, Clear
      <4>2. ASSUME NEW e \in Emails, NEW i \in Addresses, EmailWindowPasses(e, i) PROVE <3>1!1 /\ <3>1!2
        BY <4>2 DEF EmailWindowPasses
      <4>3. ASSUME NEW i \in Addresses, IpWindowPasses(i) PROVE <3>1!1 /\ <3>1!2
        BY <4>3 DEF IpWindowPasses
      <4>4. CASE Restart
        BY <4>4 DEF Restart
      <4>5. CASE UNCHANGED <<hits, ipHits, tried>>
        BY <4>5
      <4> QED
        BY <2>3, <4>1, <4>2, <4>3, <4>4, <4>5, LimiterSteps
    <3> QED
      BY <2>3, <3>1, FewerKeepRoom
  <2> QED
    BY <2>1, <2>2, <2>3, OnwardSteps
<1> QED
  BY <1>1, <1>2, TypesInvariant, PTL DEF Spec

\* The windows overshoot by no more than may be under way at once (auth/rateLimit.ts
\* 90-94).
THEOREM TheGateHolds == Spec => []GateHolds
<1>1. Types /\ Room => GateHolds
  <2> SUFFICES ASSUME Types, Room PROVE GateHolds
    OBVIOUS
  <2>1. /\ \A p : Cardinality(InFlight(p)) \in Nat
        /\ \A i : Cardinality(FromAddress(i)) \in Nat
        /\ Cardinality(Requests) \in Nat
    BY InFlightIsFinite
  <2>2. /\ \A p \in Emails \X Addresses : hits[p] \in Nat
        /\ \A i \in Addresses : ipHits[i] \in Nat
    BY DEF Types, LimiterOK
  <2> QED
    BY <2>1, <2>2, AccountsAssumption DEF Room, GateHolds
<1> QED
  BY <1>1, TypesInvariant, RoomInvariant, PTL

-----------------------------------------------------------------------------
(* No session is left behind                                               *)

\* What happens to neither the account nor the session of a session that is held.
Alike ==
  /\ \A a \in Accounts : account'[a].secret = account[a].secret
                        /\ account'[a].status = account[a].status
  /\ \A t \in Tokens : session'[t].account # Null =>
        /\ session'[t].account = session[t].account
        /\ session'[t].proof = session[t].proof /\ session'[t].late = session[t].late

LEMMA AlikeLeavesNone ==
  ASSUME Types, NoSessionIsLeftBehind, Alike
  PROVE  NoSessionIsLeftBehind'
<1> SUFFICES ASSUME NEW t \in Tokens, session'[t].account # Null, ~session'[t].late
             PROVE  /\ account'[session'[t].account].status = "active"
                    /\ session'[t].proof = account'[session'[t].account].secret
  BY DEF NoSessionIsLeftBehind, Held
<1>1. session'[t].account = session[t].account /\ session[t].account \in Accounts
  BY DEF Alike, Types, SessionsOK, SessionState
<1>2. session'[t].proof = session[t].proof /\ session'[t].late = session[t].late
  BY DEF Alike
<1>3. /\ account[session[t].account].status = "active"
      /\ session[t].proof = account[session[t].account].secret
  BY <1>1, <1>2 DEF NoSessionIsLeftBehind, Held
<1> QED
  BY <1>1, <1>2, <1>3 DEF Alike

\* A session that Without leaves is the one there was, of another account or kept.
LEMMA WithoutLeaves ==
  ASSUME NEW a, NEW keep, NEW t \in Tokens, Without(a, keep)[t].account # Null
  PROVE  Without(a, keep)[t] = session[t] /\ (session[t].account # a \/ t \in keep)
<1>1. Without(a, keep)[t] = IF session[t].account = a /\ t \notin keep THEN None ELSE session[t]
  BY DEF Without
<1>2. None.account = Null
  BY DEF None
<1> QED
  BY <1>1, <1>2

\* An account whose sessions are deleted may change.
LEMMA EndedLeavesNone ==
  ASSUME Types, NoSessionIsLeftBehind, NEW a \in Accounts, session' = SessionsEnd(a),
         \A o \in Accounts \ {a} : account'[o] = account[o]
  PROVE  NoSessionIsLeftBehind'
<1> SUFFICES ASSUME NEW t \in Tokens, session'[t].account # Null, ~session'[t].late
             PROVE  /\ account'[session'[t].account].status = "active"
                    /\ session'[t].proof = account'[session'[t].account].secret
  BY DEF NoSessionIsLeftBehind, Held
<1>1. session'[t] = session[t] /\ session[t].account # a
  BY WithoutLeaves DEF SessionsEnd
<1>2. session[t].account \in Accounts
  BY <1>1 DEF Types, SessionsOK, SessionState
<1> QED
  BY <1>1, <1>2 DEF NoSessionIsLeftBehind, Held

LEMMA IssueLeavesNone ==
  ASSUME Types, NoSessionIsLeftBehind, NEW r \in Requests, LoginIssue(r)
  PROVE  NoSessionIsLeftBehind'
<1>1. account' = account
  BY DEF LoginIssue
<1>2. PICK t \in Tokens : session' = [session EXCEPT ![t] =
        [account |-> req[r].email, proof |-> req[r].typed, left |-> Ttl, unused |-> 0,
         late |-> account[req[r].email].secret # req[r].typed
                  \/ account[req[r].email].status # "active"]]
  BY DEF LoginIssue
<1> DEFINE new == [account |-> req[r].email, proof |-> req[r].typed, left |-> Ttl, unused |-> 0,
                   late |-> account[req[r].email].secret # req[r].typed
                            \/ account[req[r].email].status # "active"]
<1>3. /\ new.account = req[r].email /\ new.proof = req[r].typed
      /\ new.late \/ ( /\ account[req[r].email].status = "active"
                       /\ account[req[r].email].secret = req[r].typed )
  OBVIOUS
<1>4. session' = [session EXCEPT ![t] = new]
  BY <1>2
<1> HIDE DEF new
<1>5. session'[t] = new /\ \A o \in Tokens \ {t} : session'[o] = session[o]
  BY <1>4 DEF Types, SessionsOK
<1> QED
  BY <1>1, <1>3, <1>5 DEF NoSessionIsLeftBehind, Held

LEMMA ChangeLeavesNone ==
  ASSUME Types, NoSessionIsLeftBehind, NEW r \in Requests, ChangeWrite(r)
  PROVE  NoSessionIsLeftBehind'
<1> DEFINE a == req[r].email
           mine == req[r].token
           left == Without(a, {mine})
<1>1. a \in Accounts /\ mine \in Tokens /\ req[r].next \in Secrets
  BY DEF ChangeWrite, Types, RequestsOK, RequestOK
<1>2. left \in [Tokens -> SessionState]
  BY WithoutIsTyped DEF Types
<1>3. session' = [left EXCEPT ![mine].proof =
                    IF session[mine].account = a THEN req[r].next ELSE @]
  BY DEF ChangeWrite
<1>4. /\ account'[a].secret = req[r].next /\ account'[a].status = account[a].status
      /\ \A o \in Accounts \ {a} : account'[o] = account[o]
  BY ChangeEffect DEF Types
<1>5. \A t \in Tokens : left[t].account # Null =>
        left[t] = session[t] /\ (session[t].account # a \/ t = mine)
  BY WithoutLeaves
<1> HIDE DEF a, mine, left
<1>6. /\ \A t \in Tokens \ {mine} : session'[t] = left[t]
      /\ session'[mine].account = left[mine].account /\ session'[mine].late = left[mine].late
      /\ session'[mine].proof = IF session[mine].account = a THEN req[r].next ELSE left[mine].proof
  BY <1>1, <1>2, <1>3 DEF SessionState
<1> SUFFICES ASSUME NEW t \in Tokens, session'[t].account # Null, ~session'[t].late
             PROVE  /\ account'[session'[t].account].status = "active"
                    /\ session'[t].proof = account'[session'[t].account].secret
  BY DEF NoSessionIsLeftBehind, Held
<1>7. /\ left[t] = session[t] /\ session'[t].account = session[t].account
      /\ session[t].account # Null /\ ~session[t].late
      /\ session[t].account # a \/ t = mine
  BY <1>1, <1>5, <1>6
<1>8. session[t].account \in Accounts
  BY <1>7 DEF Types, SessionsOK, SessionState
<1>9. /\ account[session[t].account].status = "active"
      /\ session[t].proof = account[session[t].account].secret
  BY <1>7 DEF NoSessionIsLeftBehind, Held
<1> QED
  BY <1>4, <1>6, <1>7, <1>8, <1>9

\* A change of the password, a reset and a disabling leave no session behind that was
\* opened with what is no longer true, but for a login that had verified before
\* (auth/routes.ts 363-366, 414, 477).
THEOREM NoneLeftBehind == Spec => []NoSessionIsLeftBehind
<1>1. Init => NoSessionIsLeftBehind
  <2> SUFFICES ASSUME Init, NEW t \in Tokens PROVE ~Held(t)
    BY DEF NoSessionIsLeftBehind
  <2> QED
    BY DEF Init, Held, None
<1>2. Types /\ Types' /\ NoSessionIsLeftBehind /\ [Next]_vars => NoSessionIsLeftBehind'
  <2> SUFFICES ASSUME Types, Types', NoSessionIsLeftBehind, [Next]_vars
               PROVE  NoSessionIsLeftBehind'
    OBVIOUS
  <2>1. ASSUME NEW r \in Requests, LoginIssue(r) PROVE NoSessionIsLeftBehind'
    BY <2>1, IssueLeavesNone
  <2>2. ASSUME NEW r \in Requests, ChangeWrite(r) PROVE NoSessionIsLeftBehind'
    BY <2>2, ChangeLeavesNone
  <2>3. ASSUME NEW r \in Requests, ResetWrite(r) PROVE NoSessionIsLeftBehind'
    <3>1. req[r].email \in Accounts
      BY <2>3 DEF ResetWrite, Types, RequestsOK, RequestOK
    <3>2. \A o \in Accounts \ {req[r].email} : account'[o] = account[o]
      BY <2>3 DEF ResetWrite, Types, AccountsOK
    <3> QED
      BY <2>3, <3>1, <3>2, EndedLeavesNone DEF ResetWrite
  <2>4. ASSUME NEW a \in Accounts, Disable(a) PROVE NoSessionIsLeftBehind'
    <3>1. \A o \in Accounts \ {a} : account'[o] = account[o]
      BY <2>4 DEF Disable, Types, AccountsOK
    <3> QED
      BY <2>4, <3>1, EndedLeavesNone DEF Disable
  <2>5. ASSUME NEW r \in Requests, NEW a \in Accounts, Enable(r, a) PROVE NoSessionIsLeftBehind'
    <3>1. /\ account'[a].status = "active" /\ account'[a].secret = account[a].secret
          /\ \A o \in Accounts \ {a} : account'[o] = account[o]
          /\ session' = session
      BY <2>5 DEF Enable, Types, AccountsOK, AccountState
    <3>2. \A t \in Tokens : session[t].account # Null => session[t].account \in Accounts
      BY DEF Types, SessionsOK, SessionState
    <3> QED
      BY <3>1, <3>2 DEF NoSessionIsLeftBehind, Held
  <2>6. ASSUME \/ \E r \in Requests : LoginCount(r) \/ LoginReset(r)
               \/ \E a \in Accounts : LockPasses(a) \/ TempPasses(a)
        PROVE  NoSessionIsLeftBehind'
    <3>1. UNCHANGED session
      BY <2>6 DEF LoginCount, LoginReset, LockPasses, TempPasses
    <3>2. \A a \in Accounts : account'[a].secret = account[a].secret
                             /\ account'[a].status = account[a].status
      <4> USE DEF Types, AccountsOK, AccountState
      <4>1. ASSUME NEW r \in Requests, LoginCount(r) PROVE <3>2
        BY <4>1, CountEffect
      <4>2. ASSUME NEW r \in Requests, LoginReset(r) PROVE <3>2
        BY <4>2, ResetEffect
      <4>3. ASSUME NEW a \in Accounts, LockPasses(a) PROVE <3>2
        BY <4>3 DEF LockPasses
      <4>4. ASSUME NEW a \in Accounts, TempPasses(a) PROVE <3>2
        BY <4>4 DEF TempPasses
      <4> QED
        BY <2>6, <4>1, <4>2, <4>3, <4>4
    <3> QED
      BY <3>1, <3>2, AlikeLeavesNone DEF Alike
  <2>7. ASSUME UNCHANGED <<account, streak>>,
               ~ \E r \in Requests : LoginIssue(r) \/ ChangeWrite(r) \/ ResetWrite(r),
               ~ \E a \in Accounts : Disable(a)
        PROVE  NoSessionIsLeftBehind'
    <3> DEFINE Same == \A t \in Tokens : session'[t].account # Null =>
                 /\ session'[t].account = session[t].account
                 /\ session'[t].proof = session[t].proof /\ session'[t].late = session[t].late
    <3>0. None.account = Null
      BY DEF None
    <3>1. ASSUME NEW t \in Tokens, session' = Slide(t) PROVE Same
      BY <3>1, SlideIsTyped DEF Types
    <3>2. ASSUME NEW t \in Tokens, Logout(t) PROVE Same
      BY <3>0, <3>2 DEF Logout, Types, SessionsOK
    <3>3. ASSUME SessionsAge PROVE Same
      BY <3>3 DEF SessionsAge, Types, SessionsOK, SessionState
    <3>4. ASSUME Purge PROVE Same
      BY <3>0, <3>4 DEF Purge
    <3>5. ASSUME UNCHANGED session PROVE Same
      BY <3>5
    <3>6. Same
      BY <2>7, <3>1, <3>2, <3>3, <3>4, <3>5, SessionSteps DEF Visit, ChangeStart
    <3> QED
      BY <2>7, <3>6, AlikeLeavesNone DEF Alike
  <2> QED
    BY <2>1, <2>2, <2>3, <2>4, <2>5, <2>6, <2>7, AccountSteps
<1> QED
  BY <1>1, <1>2, TypesInvariant, PTL DEF Spec

-----------------------------------------------------------------------------
(* Use keeps the session                                                   *)

\* The end of a session is never nearer to its last use than the sliding allows
\* (auth/session.ts 8-27).
THEOREM UseKeeps == Spec => []UseKeepsTheSession
<1>0. None.account = Null
  BY DEF None
<1>1. Init => UseKeepsTheSession
  BY <1>0 DEF Init, UseKeepsTheSession, Held
<1>2. Types /\ Types' /\ UseKeepsTheSession /\ [Next]_vars => UseKeepsTheSession'
  <2> SUFFICES ASSUME Types, Types', UseKeepsTheSession, [Next]_vars
               PROVE  UseKeepsTheSession'
    OBVIOUS
  <2> DEFINE Fresh(s) == s.account # Null => s.left + s.unused >= SlideUnder
  <2>1. \A t \in Tokens : session[t] \in SessionState /\ Fresh(session[t])
    BY DEF Types, SessionsOK, UseKeepsTheSession, Held
  <2>2. SUFFICES \A t \in Tokens : Fresh(session'[t])
    BY DEF UseKeepsTheSession, Held
  <2>3. ASSUME NEW r \in Requests, LoginIssue(r) PROVE \A t \in Tokens : Fresh(session'[t])
    <3>1. PICK t \in Tokens, late \in BOOLEAN : session' = [session EXCEPT ![t] =
            [account |-> req[r].email, proof |-> req[r].typed, left |-> Ttl, unused |-> 0,
             late |-> late]]
      BY <2>3 DEF LoginIssue
    <3> DEFINE new == [account |-> req[r].email, proof |-> req[r].typed, left |-> Ttl,
                       unused |-> 0, late |-> late]
    <3>2. Fresh(new)
      BY AccountsAssumption
    <3>3. session' = [session EXCEPT ![t] = new]
      BY <3>1
    <3> HIDE DEF new, Fresh
    <3> QED
      BY <2>1, <3>2, <3>3 DEF Types, SessionsOK
  <2>4. ASSUME NEW a, NEW keep, session' = Without(a, keep)
        PROVE  \A t \in Tokens : Fresh(session'[t])
    BY <2>1, <2>4, WithoutLeaves
  <2>5. ASSUME NEW r \in Requests, ChangeWrite(r) PROVE \A t \in Tokens : Fresh(session'[t])
    <3> DEFINE left == Without(req[r].email, {req[r].token})
    <3>1. /\ left \in [Tokens -> SessionState]
          /\ \A t \in Tokens : Fresh(left[t])
      BY <2>1, WithoutIsTyped, WithoutLeaves DEF Types
    <3>2. PICK p : session' = [left EXCEPT ![req[r].token].proof = p]
      <4>1. session' = [left EXCEPT ![req[r].token].proof =
              IF session[req[r].token].account = req[r].email THEN req[r].next ELSE @]
        BY <2>5 DEF ChangeWrite
      <4> QED
        BY <4>1
    <3> HIDE DEF left
    <3>3. \A t \in Tokens : /\ session'[t].account = left[t].account
                            /\ session'[t].left = left[t].left /\ session'[t].unused = left[t].unused
      BY <3>1, <3>2 DEF SessionState
    <3> QED
      BY <3>1, <3>3
  <2>6. ASSUME NEW t \in Tokens, session' = Slide(t) PROVE \A o \in Tokens : Fresh(session'[o])
    <3>1. Fresh(session'[t])
      BY <2>1, <2>6, SlideIsTyped, AccountsAssumption DEF Types, SessionState
    <3> QED
      BY <2>1, <2>6, <3>1, SlideIsTyped DEF Types
  <2>7. ASSUME NEW t \in Tokens, Logout(t) PROVE \A o \in Tokens : Fresh(session'[o])
    BY <1>0, <2>1, <2>7 DEF Logout, Types, SessionsOK
  <2>8. ASSUME SessionsAge PROVE \A t \in Tokens : Fresh(session'[t])
    <3> SUFFICES ASSUME NEW t \in Tokens PROVE Fresh(session'[t])
      OBVIOUS
    <3>1. CASE Held(t) /\ session[t].left > 0
      <4>1. session'[t] = [session[t] EXCEPT !.left = @ - 1, !.unused = @ + 1]
        BY <2>8, <3>1 DEF SessionsAge
      <4>2. /\ session'[t].account = session[t].account
            /\ session'[t].left = session[t].left - 1 /\ session'[t].unused = session[t].unused + 1
        BY <2>1, <4>1 DEF SessionState
      <4> QED
        BY <2>1, <4>2, AccountsAssumption DEF SessionState
    <3>2. CASE ~(Held(t) /\ session[t].left > 0)
      BY <2>1, <2>8, <3>2 DEF SessionsAge
    <3> QED
      BY <3>1, <3>2
  <2>9. ASSUME Purge PROVE \A t \in Tokens : Fresh(session'[t])
    BY <1>0, <2>1, <2>9 DEF Purge
  <2>10. ASSUME UNCHANGED session PROVE \A t \in Tokens : Fresh(session'[t])
    BY <2>1, <2>10
  <2> HIDE DEF Fresh
  <2> QED
    BY <2>3, <2>4, <2>5, <2>6, <2>7, <2>8, <2>9, <2>10, SessionSteps
       DEF ResetWrite, Disable, SessionsEnd, ChangeStart, Visit
<1> QED
  BY <1>1, <1>2, TypesInvariant, PTL DEF Spec

-----------------------------------------------------------------------------
(* A temporary password is replaced                                        *)

\* Who changes a password has given two known ones.  If the old one came as a string
\* they differ, and while the account still has to change it, the new one is not the one
\* that is stored: a reset in between stores one that nobody knew when the request was
\* made.
Replacing ==
  \A r \in Requests :
    /\ req[r].pc \in {"changeVerify", "changeWrite"} => req[r].next \in Known
    /\ req[r].pc = "changeVerify" /\ req[r].text => req[r].next # req[r].typed
    /\ req[r].pc = "changeWrite" /\ req[r].text /\ account[req[r].email].must =>
         req[r].next # account[req[r].email].secret

\* No account has to change its password that had not before; its secret stays.
MustAlike ==
  \A a \in Accounts : account'[a].must => account[a].must /\ account'[a].secret = account[a].secret

\* Only a reset makes an account change its password.
LEMMA MustSteps ==
  ASSUME Types, [Next]_vars
  PROVE  MustAlike \/ \E r \in Requests : ResetWrite(r)
<1> USE DEF MustAlike, Types, AccountsOK, AccountState
<1>1. ASSUME NEW r \in Requests, LoginCount(r) PROVE MustAlike
  BY <1>1, CountEffect
<1>2. ASSUME NEW r \in Requests, LoginReset(r) PROVE MustAlike
  BY <1>2, ResetEffect
<1>3. ASSUME NEW r \in Requests, ChangeWrite(r) PROVE MustAlike
  BY <1>3, ChangeEffect
<1>4. ASSUME NEW a \in Accounts, Disable(a) PROVE MustAlike
  BY <1>4 DEF Disable
<1>5. ASSUME NEW r \in Requests, NEW a \in Accounts, Enable(r, a) PROVE MustAlike
  BY <1>5 DEF Enable
<1>6. ASSUME NEW a \in Accounts, LockPasses(a) PROVE MustAlike
  BY <1>6 DEF LockPasses
<1>7. ASSUME NEW a \in Accounts, TempPasses(a) PROVE MustAlike
  BY <1>7 DEF TempPasses
<1>8. CASE UNCHANGED <<account, streak>>
  BY <1>8
<1> HIDE DEF MustAlike
<1> QED
  BY <1>1, <1>2, <1>3, <1>4, <1>5, <1>6, <1>7, <1>8, AccountSteps

LEMMA ResetKeepsReplacing ==
  ASSUME Types, Replacing, NEW r \in Requests, ResetWrite(r), Elsewhere
  PROVE  Replacing'
<1>1. PICK s \in Temps \ issued :
        /\ account' = [account EXCEPT ![req[r].email] =
             [@ EXCEPT !.secret = s, !.must = TRUE, !.expiry = "ahead", !.failed = 0, !.lock = "no"]]
        /\ issued' = issued \union {s}
  BY DEF ResetWrite
<1>2. s \notin Known
  BY AccountsAssumption DEF Known
<1>3. req[r].email \in Accounts
  BY DEF ResetWrite, Types, RequestsOK, RequestOK
<1>4. /\ account'[req[r].email].secret = s
      /\ \A a \in Accounts \ {req[r].email} : account'[a] = account[a]
  BY <1>1, <1>3 DEF Types, AccountsOK, AccountState
<1>5. Known \subseteq Known'
  BY <1>1 DEF Known
<1> SUFFICES ASSUME NEW o \in Requests, req'[o].pc \in Changing
             PROVE  /\ req'[o].next \in Known'
                    /\ req'[o].pc = "changeVerify" /\ req'[o].text => req'[o].next # req'[o].typed
                    /\ req'[o].pc = "changeWrite" /\ req'[o].text /\ account'[req'[o].email].must =>
                         req'[o].next # account'[req'[o].email].secret
  BY DEF Replacing, Changing
<1>6. req'[o] = req[o] /\ req[o].next \in Known /\ req[o].email \in Accounts
  BY DEF Elsewhere, Carrying, Changing, Replacing, Types, RequestsOK, RequestOK
<1>7. CASE req[o].email = req[r].email
  BY <1>2, <1>4, <1>5, <1>6, <1>7 DEF Replacing
<1>8. CASE req[o].email # req[r].email
  <2>1. account'[req[o].email] = account[req[o].email]
    BY <1>4, <1>6, <1>8
  <2> QED
    BY <1>5, <1>6, <2>1 DEF Replacing
<1> QED
  BY <1>7, <1>8

\* A change under way whose old password came as a string never puts a temporary
\* password in the place of itself (auth/routes.ts 337).
THEOREM ReplacingInvariant == Spec => []Replacing
<1>1. Init => Replacing
  BY DEF Init, Idle, Replacing
<1>2. Types /\ Replacing /\ [Next]_vars => Replacing'
  <2> SUFFICES ASSUME Types, Replacing, [Next]_vars PROVE Replacing'
    OBVIOUS
  <2>1. ASSUME NEW r \in Requests, NEW t \in Tokens, NEW current \in Known, NEW next \in Known,
               NEW text \in BOOLEAN, ChangeStart(r, t, current, text, next)
        PROVE  Replacing'
    <3> DEFINE q == [Idle EXCEPT !.pc = "changeVerify", !.email = session[t].account,
                                 !.token = t, !.typed = current, !.text = text, !.next = next]
    <3>1. req' = [req EXCEPT ![r] = q] /\ UNCHANGED <<account, issued>>
          /\ (text => next # current)
      BY <2>1 DEF ChangeStart, MayReplace, history, counting
    <3>2. q.pc = "changeVerify" /\ q.next = next /\ q.typed = current /\ q.text = text
      BY DEF Idle
    <3> HIDE DEF q
    <3> QED
      BY <3>1, <3>2 DEF Replacing, Known, Types, RequestsOK
  <2>2. ASSUME NEW r \in Requests, ChangeVerify(r) PROVE Replacing'
    <3>1. UNCHANGED <<account, issued>>
      BY <2>2 DEF ChangeVerify, rows, history, counting
    <3>2. CASE Ended(r)
      BY <3>1, <3>2 DEF Ended, Idle, Replacing, Known, Types, RequestsOK
    <3>3. CASE Goto(r, "changeWrite") /\ account[req[r].email].secret = req[r].typed
      <4>1. /\ req'[r].pc = "changeWrite" /\ req'[r].next = req[r].next
            /\ req'[r].email = req[r].email /\ req'[r].text = req[r].text
            /\ \A o \in Requests \ {r} : req'[o] = req[o]
        BY <3>3 DEF Goto, Types, RequestsOK, RequestState
      <4>2. req[r].next \in Known /\ (req[r].text => req[r].next # req[r].typed)
        BY <2>2 DEF ChangeVerify, Replacing
      <4> QED
        BY <3>1, <3>3, <4>1, <4>2 DEF Replacing, Known
    <3> QED
      BY <2>2, <3>2, <3>3 DEF ChangeVerify
  <2>3. ASSUME Elsewhere, MustAlike PROVE Replacing'
    <3>1. Known \subseteq Known'
      BY <2>3 DEF Elsewhere, Known
    <3> SUFFICES ASSUME NEW o \in Requests, req'[o].pc \in Changing
                 PROVE  /\ req'[o].next \in Known'
                        /\ req'[o].pc = "changeVerify" /\ req'[o].text => req'[o].next # req'[o].typed
                        /\ req'[o].pc = "changeWrite" /\ req'[o].text /\ account'[req'[o].email].must =>
                             req'[o].next # account'[req'[o].email].secret
      BY DEF Replacing, Changing
    <3>2. req'[o] = req[o] /\ req[o].email \in Accounts
      BY <2>3 DEF Elsewhere, Carrying, Changing, Types, RequestsOK, RequestOK
    <3> QED
      BY <2>3, <3>1, <3>2 DEF MustAlike, Replacing, Changing
  <2>4. ASSUME Elsewhere, NEW r \in Requests, ResetWrite(r) PROVE Replacing'
    BY <2>4, ResetKeepsReplacing
  <2>5. ASSUME NEW r \in Requests, LoginSnapshot(r) PROVE Replacing'
    <3>1. UNCHANGED <<account, issued>>
      BY <2>5 DEF LoginSnapshot, rows, history
    <3> QED
      BY <2>5, <3>1, SnapshotEffect DEF Replacing, Known, Types
  <2> QED
    BY <2>1, <2>2, <2>3, <2>4, <2>5, ElsewhereSteps, MustSteps
<1> QED
  BY <1>1, <1>2, TypesInvariant, PTL DEF Spec

\* A temporary password is left only for another one (auth/routes.ts 331-336), but for
\* a request whose old password was no string (337, 348).
THEOREM TemporaryIsLeft == Spec => TemporaryIsReplaced
<1> DEFINE Left == \A a \in Accounts :
             account[a].must /\ ~account'[a].must =>
               \/ account'[a].secret # account[a].secret
               \/ \E r \in Requests : /\ req[r].pc = "changeWrite" /\ req[r].email = a /\ ~req[r].text
                                      /\ req'[r] # req[r]
<1>1. Types /\ Replacing /\ [Next]_vars => Left
  <2> SUFFICES ASSUME Types, Replacing, [Next]_vars PROVE Left
    OBVIOUS
  <2> USE DEF Types, AccountsOK, AccountState
  <2>1. ASSUME NEW r \in Requests, LoginCount(r) PROVE Left
    BY <2>1, CountEffect
  <2>2. ASSUME NEW r \in Requests, LoginReset(r) PROVE Left
    BY <2>2, ResetEffect
  <2>3. ASSUME NEW r \in Requests, ChangeWrite(r) PROVE Left
    <3>1. account[req[r].email].must /\ req[r].text =>
            req[r].next # account[req[r].email].secret
      BY <2>3 DEF ChangeWrite, Replacing
    <3>0. req[r].pc = "changeWrite" /\ req'[r].pc = "idle"
      BY <2>3 DEF ChangeWrite, Ended, Idle, RequestsOK
    <3>2. /\ account'[req[r].email].secret = req[r].next
          /\ \A a \in Accounts \ {req[r].email} : account'[a] = account[a]
      BY <2>3, ChangeEffect
    <3> HIDE DEF Types, AccountsOK, AccountState
    <3> QED
      BY <3>0, <3>1, <3>2
  <2>4. ASSUME NEW r \in Requests, ResetWrite(r) PROVE Left
    BY <2>4 DEF ResetWrite
  <2>5. ASSUME NEW a \in Accounts, Disable(a) PROVE Left
    BY <2>5 DEF Disable
  <2>6. ASSUME NEW r \in Requests, NEW a \in Accounts, Enable(r, a) PROVE Left
    BY <2>6 DEF Enable
  <2>7. ASSUME NEW a \in Accounts, LockPasses(a) PROVE Left
    BY <2>7 DEF LockPasses
  <2>8. ASSUME NEW a \in Accounts, TempPasses(a) PROVE Left
    BY <2>8 DEF TempPasses
  <2>9. CASE UNCHANGED <<account, streak>>
    BY <2>9
  <2> HIDE DEF Left
  <2> QED
    BY <2>1, <2>2, <2>3, <2>4, <2>5, <2>6, <2>7, <2>8, <2>9, AccountSteps
<1> QED
  BY <1>1, TypesInvariant, ReplacingInvariant, PTL DEF Spec, TemporaryIsReplaced
=============================================================================
