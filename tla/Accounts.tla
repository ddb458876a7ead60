------------------------------ MODULE Accounts ------------------------------
(***************************************************************************)
(* Accounts, sessions and the login (server/src/auth): signing in with its *)
(* counting of failures, the locks on an account and the limiter of        *)
(* attempts, the sessions that slide while they are used, the change of a  *)
(* password, and what an administrator may do to an account.               *)
(*                                                                         *)
(* One step is one transaction, or one stretch of a handler between two    *)
(* awaits that touches the limiter.  The limiter lives in the memory of    *)
(* the process and is lost with it, as are the requests under way; the     *)
(* accounts and sessions are rows.  Between a request's steps the others   *)
(* run: a password that was verified may be another one when the session   *)
(* is issued.                                                              *)
(*                                                                         *)
(* An answer that changes nothing (400, 403, 404, 409, 429) is a request   *)
(* that ends, or one that is not made.  An administrator's request has     *)
(* passed requireAdmin and is about somebody else's account.  Hashing is a *)
(* secret's identity: verify tells exactly whether the secret is the same; *)
(* a value of a body that is no string is verified as the string that      *)
(* String() makes of it.                                                   *)
(*                                                                         *)
(* A definition marked "Variant" is a later one with a plausible bug.      *)
(***************************************************************************)
EXTENDS Naturals, FiniteSets

CONSTANTS
  Accounts,      \* the rows of auth_accounts, named by their email
  Strangers,     \* addresses that are typed and belong to nobody
  Addresses,     \* what req.ip may be
  Chosen,        \* passwords that people choose
  Temps,         \* temporary passwords the server may hand out
  Tokens,        \* sessions there may be at once
  Requests,      \* requests that may be under way at once
  MaxAttempts,   \* MAX_ATTEMPTS
  EmailIpLimit,  \* EMAIL_IP_LIMIT
  IpLimit,       \* IP_LIMIT
  Ttl,           \* IDLE_TTL_HOURS, in periods
  SlideUnder,    \* SLIDE_WHEN_REMAINING_UNDER_MIN, in the same periods
  MaxFailed,     \* bound: how high overlapping counts may carry failed_attempts
  Workloads,     \* bound: what the requests of one behaviour are drawn from
  Null

Emails  == Accounts \union Strangers
Secrets == Chosen \union Temps

ASSUME AccountsAssumption ==
  /\ IsFiniteSet(Requests)
  /\ MaxAttempts \in Nat \ {0} /\ EmailIpLimit \in Nat \ {0} /\ IpLimit \in Nat \ {0}
  /\ Ttl \in Nat \ {0} /\ SlideUnder \in 1 .. Ttl
  /\ Accounts \intersect Strangers = {} /\ Chosen \intersect Temps = {}
  /\ Null \notin Emails \union Secrets \union Tokens \union Addresses
  /\ \A w \in Workloads : w.from \subseteq Emails \X Addresses

VARIABLES
  account,  \* auth_accounts
  session,  \* auth_sessions
  hits,     \* LoginRateLimiter.byEmailIp: how many are in the window
  ipHits,   \* LoginRateLimiter.byIp
  req,      \* the requests under way
  work,     \* the workload (bound)
  \* What happened, for the properties:
  streak,   \* failures counted since the last success, unlocking or end of a lock, as
            \* far as MAX_ATTEMPTS
  overtaken,\* requests about to write a count read before their account was opened
  carried,  \* accounts for which such a count was written since they were opened
  tried,    \* addresses that a failure was recorded for
  issued    \* temporary passwords handed out

rows    == <<account, session>>
limiter == <<hits, ipHits>>
counting == <<streak, overtaken, carried>>
history == <<counting, tried, issued>>
vars    == <<account, session, hits, ipHits, req, work, streak, overtaken, carried,
             tried, issued>>

\* failed: the count that is about to be written; text: what was typed came as a string.
Idle == [pc |-> "idle", email |-> Null, ip |-> Null, typed |-> Null, text |-> TRUE,
         next |-> Null, token |-> Null, failed |-> 0]

Ended(r) == req' = [req EXCEPT ![r] = Idle]
Goto(r, pc) == req' = [req EXCEPT ![r].pc = pc]

\* A session no one holds.  What it was proved with is kept for the properties.
None == [account |-> Null, proof |-> Null, left |-> 0, unused |-> 0, late |-> FALSE]

Held(t) == session[t].account # Null

\* An account is opened: no failure up to now counts any more, but in counts that
\* were read and are not written yet.
Opened(a) ==
  /\ streak' = [streak EXCEPT ![a] = 0]
  /\ overtaken' = overtaken \union {r \in Requests : req[r].pc = "countWrite" /\ req[r].email = a}
  /\ carried' = carried \ {a}

\* The sessions of account a, but for those in keep, are deleted.
Without(a, keep) ==
  [t \in Tokens |-> IF session[t].account = a /\ t \notin keep THEN None ELSE session[t]]

-----------------------------------------------------------------------------
(* LoginRateLimiter                                                        *)

\* Variant: off by one.
LimitedLate(e, i) == hits[<<e, i>>] > EmailIpLimit \/ ipHits[i] > IpLimit

\* check().  It records nothing: a request that is turned away does not lengthen
\* the wait.
Limited(e, i) == hits[<<e, i>>] >= EmailIpLimit \/ ipHits[i] >= IpLimit

\* Variant: the window belongs to the email alone.
RecordForAll(e, i) ==
  /\ hits' = [p \in DOMAIN hits |-> IF p[1] = e THEN hits[p] + 1 ELSE hits[p]]
  /\ ipHits' = [ipHits EXCEPT ![i] = @ + 1]

\* record()
Record(e, i) ==
  /\ hits' = [hits EXCEPT ![<<e, i>>] = @ + 1]
  /\ ipHits' = [ipHits EXCEPT ![i] = @ + 1]

\* clear(): the windows of an email at every address; those of the addresses stay.
Clear(e) ==
  /\ hits' = [p \in DOMAIN hits |-> IF p[1] = e THEN 0 ELSE hits[p]]
  /\ UNCHANGED ipHits

\* prune(): a window has passed.
EmailWindowPasses(e, i) ==
  /\ "time" \in work.ops /\ hits[<<e, i>>] > 0
  /\ hits' = [hits EXCEPT ![<<e, i>>] = 0]
  /\ UNCHANGED <<rows, ipHits, req, work, history>>

IpWindowPasses(i) ==
  /\ "time" \in work.ops /\ ipHits[i] > 0
  /\ ipHits' = [ipHits EXCEPT ![i] = 0]
  /\ UNCHANGED <<rows, hits, req, work, history>>

-----------------------------------------------------------------------------
(* POST /login                                                             *)

\* (Within the workload nobody mistypes a password, or anybody may.)
LoginGate(r, e, i, s) ==
  /\ "login" \in work.ops /\ req[r].pc = "idle" /\ ~Limited(e, i)
  /\ work.slips \/ (e \in Accounts /\ s = account[e].secret)
  /\ req' = [req EXCEPT ![r] =
       [Idle EXCEPT !.pc = "read", !.email = e, !.ip = i, !.typed = s]]
  /\ UNCHANGED <<rows, limiter, work, history>>

\* What becomes of a login is decided by the row as it is read: how it is locked,
\* whether the secret is right, whether the account may be used and whether its
\* temporary password has run out.
Verdict(row, typed) ==
  LET right == typed = row.secret IN
  CASE row.lock = "on" /\ ~right -> "record"
    [] row.lock # "on" /\ ~right -> "count"
    [] right /\ (row.status # "active" \/ (row.must /\ row.expiry = "past")) -> "refuse"
    [] OTHER -> "reset"

LoginVerify(r) ==
  /\ req[r].pc = "read"
  /\ LET e == req[r].email
         v == IF e \in Accounts THEN Verdict(account[e], req[r].typed) ELSE "record"
     IN  IF v = "refuse" THEN Ended(r) ELSE Goto(r, v)
  /\ UNCHANGED <<rows, limiter, work, history>>

\* Variant: the count goes on where it was when the lock ran out.
NextFailedOn(row) == row.failed + 1

\* next_failed, one after a lock that ran out.
NextFailed(row) == IF row.lock = "over" THEN 1 ELSE row.failed + 1

\* The statement that counts takes next_failed from the row as it finds it when it
\* begins, by a subquery that locks nothing.  (Within the bound on the count.)
LoginSnapshot(r) ==
  /\ req[r].pc = "count" /\ NextFailed(account[req[r].email]) <= MaxFailed
  /\ req' = [req EXCEPT ![r] = [@ EXCEPT !.pc = "countWrite",
                                        !.failed = NextFailed(account[req[r].email])]]
  /\ UNCHANGED <<rows, limiter, work, history>>

\* It writes that when it has the row, whatever others have written there meanwhile:
\* of a row it had to wait for, nothing but the id is compared again.
LoginCount(r) ==
  /\ req[r].pc = "countWrite"
  /\ LET e == req[r].email
         n == req[r].failed
     IN  /\ account' = [account EXCEPT ![e].failed = n,
                          ![e].lock = IF n >= MaxAttempts THEN "on" ELSE "no"]
         /\ streak' = [streak EXCEPT ![e] = IF @ < MaxAttempts THEN @ + 1 ELSE @]
         /\ carried' = IF r \in overtaken THEN carried \union {e} ELSE carried
  /\ overtaken' = overtaken \ {r}
  /\ Goto(r, "record")
  /\ UNCHANGED <<session, limiter, work, tried, issued>>

LoginRecord(r) ==
  /\ req[r].pc = "record"
  /\ Record(req[r].email, req[r].ip)
  /\ tried' = tried \union {req[r].ip}
  /\ Ended(r)
  /\ UNCHANGED <<rows, work, counting, issued>>

\* The right secret opens a locked account too.
LoginReset(r) ==
  /\ req[r].pc = "reset"
  /\ account' = [account EXCEPT ![req[r].email].failed = 0, ![req[r].email].lock = "no"]
  /\ Opened(req[r].email)
  /\ Goto(r, "clear")
  /\ UNCHANGED <<session, limiter, work, tried, issued>>

LoginClear(r) ==
  /\ req[r].pc = "clear"
  /\ Clear(req[r].email)
  /\ Goto(r, "issue")
  /\ UNCHANGED <<rows, work, history>>

\* issue(): the account is not looked at again.  (Within the bound on sessions.)
LoginIssue(r) ==
  /\ req[r].pc = "issue"
  /\ \E t \in Tokens :
       /\ ~Held(t)
       /\ LET a == req[r].email IN
          session' = [session EXCEPT ![t] =
            [account |-> a, proof |-> req[r].typed, left |-> Ttl, unused |-> 0,
             late |-> account[a].secret # req[r].typed \/ account[a].status # "active"]]
  /\ Ended(r)
  /\ UNCHANGED <<account, limiter, work, history>>

-----------------------------------------------------------------------------
(* Sessions                                                                *)

\* lookup() finds the session of an account that may be used.
Live(t) == Held(t) /\ session[t].left > 0 /\ account[session[t].account].status = "active"

\* Variant: only what is about to end slides.
SlideAtTheEnd(t) ==
  [session EXCEPT ![t].unused = 0, ![t].left = IF @ < SlideUnder - 1 THEN Ttl ELSE @]

\* lookup() puts off the end, but not at every request.
Slide(t) ==
  [session EXCEPT ![t].unused = 0, ![t].left = IF @ < SlideUnder THEN Ttl ELSE @]

\* A request that does nothing else to an account: GET /me, or any other one.
Visit(t) ==
  /\ "visit" \in work.ops /\ Live(t)
  /\ session' = Slide(t)
  /\ UNCHANGED <<account, limiter, req, work, history>>

\* POST /logout asks for no session: revoke().
Logout(t) ==
  /\ "logout" \in work.ops /\ Held(t)
  /\ session' = [session EXCEPT ![t] = None]
  /\ UNCHANGED <<account, limiter, req, work, history>>

\* A period goes by.
SessionsAge ==
  /\ "visit" \in work.ops /\ \E t \in Tokens : Held(t) /\ session[t].left > 0
  /\ session' = [t \in Tokens |->
       IF Held(t) /\ session[t].left > 0
       THEN [session[t] EXCEPT !.left = @ - 1, !.unused = @ + 1] ELSE session[t]]
  /\ UNCHANGED <<account, limiter, req, work, history>>

\* purgeExpired(), once a day.
Purge ==
  /\ \E t \in Tokens : Held(t) /\ session[t].left = 0
  /\ session' = [t \in Tokens |-> IF session[t].left = 0 THEN None ELSE session[t]]
  /\ UNCHANGED <<account, limiter, req, work, history>>

-----------------------------------------------------------------------------
(* POST /change-password                                                   *)

\* What a person may type: what is chosen, and what was handed out.
Known == Chosen \union issued

\* Variant: the new one may be the old one.
MayReplaceSame(current, text, next) == TRUE

\* Only strings are compared.
MayReplace(current, text, next) == text => next # current

ChangeStart(r, t, current, text, next) ==
  /\ "change" \in work.ops /\ req[r].pc = "idle" /\ Live(t)
  /\ text \in work.texts /\ MayReplace(current, text, next)
  /\ session' = Slide(t)
  /\ req' = [req EXCEPT ![r] =
       [Idle EXCEPT !.pc = "changeVerify", !.email = session[t].account,
                    !.token = t, !.typed = current, !.text = text, !.next = next]]
  /\ UNCHANGED <<account, limiter, work, history>>

ChangeVerify(r) ==
  /\ req[r].pc = "changeVerify"
  /\ IF account[req[r].email].secret = req[r].typed THEN Goto(r, "changeWrite") ELSE Ended(r)
  /\ UNCHANGED <<rows, limiter, work, history>>

\* Variant: temp_password_expires_at is forgotten.
ChangeKeepsEnd(r) ==
  /\ req[r].pc = "changeWrite"
  /\ LET a == req[r].email
         t == req[r].token
     IN  /\ account' = [account EXCEPT ![a].secret = req[r].next, ![a].must = FALSE]
         /\ session' = [Without(a, {t}) EXCEPT ![t].proof =
                          IF session[t].account = a THEN req[r].next ELSE @]
  /\ Ended(r)
  /\ UNCHANGED <<limiter, work, history>>

\* The request's own session stays, and has proved the new secret.
ChangeWrite(r) ==
  /\ req[r].pc = "changeWrite"
  /\ LET a == req[r].email
         t == req[r].token
     IN  /\ account' = [account EXCEPT ![a].secret = req[r].next, ![a].must = FALSE,
                                       ![a].expiry = "none"]
         /\ session' = [Without(a, {t}) EXCEPT ![t].proof =
                          IF session[t].account = a THEN req[r].next ELSE @]
  /\ Ended(r)
  /\ UNCHANGED <<limiter, work, history>>

-----------------------------------------------------------------------------
(* What an administrator does: PATCH /:id/status, POST /:id/reset-password *)

\* Variant: the sessions are left alone.
SessionsStay(a) == session

\* auth_sessions of the account are deleted in the same transaction.
SessionsEnd(a) == Without(a, {})

Disable(a) ==
  /\ "admin" \in work.ops
  /\ account' = [account EXCEPT ![a].status = "disabled"]
  /\ session' = SessionsEnd(a)
  /\ UNCHANGED <<limiter, req, work, history>>

\* Activating is also how a lock is taken off.
Enable(r, a) ==
  /\ "unlock" \in work.ops /\ req[r].pc = "idle"
  /\ account' = [account EXCEPT ![a].status = "active", ![a].failed = 0, ![a].lock = "no"]
  /\ Opened(a)
  /\ req' = [req EXCEPT ![r] = [Idle EXCEPT !.pc = "clearOnly", !.email = a]]
  /\ UNCHANGED <<session, limiter, work, tried, issued>>

\* The account is read first, and must be active.
ResetStart(r, a) ==
  /\ "admin" \in work.ops /\ req[r].pc = "idle" /\ account[a].status = "active"
  /\ req' = [req EXCEPT ![r] = [Idle EXCEPT !.pc = "resetWrite", !.email = a]]
  /\ UNCHANGED <<rows, limiter, work, history>>

\* A password nobody has seen before.
ResetWrite(r) ==
  /\ req[r].pc = "resetWrite"
  /\ \E s \in Temps \ issued :
       /\ account' = [account EXCEPT ![req[r].email] =
            [@ EXCEPT !.secret = s, !.must = TRUE, !.expiry = "ahead",
                      !.failed = 0, !.lock = "no"]]
       /\ issued' = issued \union {s}
  /\ session' = SessionsEnd(req[r].email)
  /\ Opened(req[r].email)
  /\ Goto(r, "clearOnly")
  /\ UNCHANGED <<limiter, work, tried>>

ClearOnly(r) ==
  /\ req[r].pc = "clearOnly"
  /\ Clear(req[r].email)
  /\ Ended(r)
  /\ UNCHANGED <<rows, work, history>>

-----------------------------------------------------------------------------
(* Time and restarts                                                       *)

\* locked_until passes.
LockPasses(a) ==
  /\ "time" \in work.ops /\ account[a].lock = "on"
  /\ account' = [account EXCEPT ![a].lock = "over"]
  /\ Opened(a)
  /\ UNCHANGED <<session, limiter, req, work, tried, issued>>

\* temp_password_expires_at passes.
TempPasses(a) ==
  /\ account[a].expiry = "ahead"
  /\ account' = [account EXCEPT ![a].expiry = "past"]
  /\ UNCHANGED <<session, limiter, req, work, history>>

Restart ==
  /\ req' = [r \in Requests |-> Idle]
  /\ hits' = [p \in DOMAIN hits |-> 0]
  /\ ipHits' = [i \in Addresses |-> 0]
  /\ overtaken' = {}
  /\ UNCHANGED <<rows, work, streak, carried, tried, issued>>

-----------------------------------------------------------------------------
\* Everybody has signed up with a password of their own (the first one chosen).
Init ==
  /\ \E s \in Chosen : account = [a \in Accounts |->
       [secret |-> s, status |-> "active", must |-> FALSE, expiry |-> "none",
        failed |-> 0, lock |-> "no"]]
  /\ session = [t \in Tokens |-> None]
  /\ hits = [p \in Emails \X Addresses |-> 0]
  /\ ipHits = [i \in Addresses |-> 0]
  /\ req = [r \in Requests |-> Idle]
  /\ work \in Workloads
  /\ streak = [a \in Accounts |-> 0]
  /\ overtaken = {} /\ carried = {}
  /\ tried = {} /\ issued = {}

Login(r) ==
  \/ \E p \in work.from, s \in Known : LoginGate(r, p[1], p[2], s)
  \/ LoginVerify(r) \/ LoginSnapshot(r) \/ LoginCount(r) \/ LoginRecord(r)
  \/ LoginReset(r) \/ LoginClear(r) \/ LoginIssue(r)

Change(r) ==
  \/ \E t \in Tokens, current, next \in Known, text \in BOOLEAN :
       ChangeStart(r, t, current, text, next)
  \/ ChangeVerify(r) \/ ChangeWrite(r)

Administer(r) ==
  \/ \E a \in Accounts : Disable(a) \/ Enable(r, a) \/ ResetStart(r, a)
  \/ ResetWrite(r) \/ ClearOnly(r)

Next ==
  \/ \E r \in Requests : Login(r) \/ Change(r) \/ Administer(r)
  \/ \E t \in Tokens : Visit(t) \/ Logout(t)
  \/ \E a \in Accounts : LockPasses(a) \/ TempPasses(a)
  \/ \E e \in Emails, i \in Addresses : EmailWindowPasses(e, i)
  \/ \E i \in Addresses : IpWindowPasses(i)
  \/ SessionsAge \/ Purge \/ Restart

Spec == Init /\ [][Next]_vars

-----------------------------------------------------------------------------
AccountState ==
  [secret : Secrets, status : {"active", "disabled"}, must : BOOLEAN,
   expiry : {"none", "ahead", "past"}, failed : Nat, lock : {"no", "on", "over"}]

SessionState ==
  [account : Accounts \union {Null}, proof : Secrets \union {Null}, left : 0 .. Ttl,
   unused : Nat, late : BOOLEAN]

RequestState ==
  [pc : {"idle", "read", "count", "countWrite", "record", "reset", "clear", "issue",
         "changeVerify", "changeWrite", "resetWrite", "clearOnly"},
   email : Emails \union {Null}, ip : Addresses \union {Null},
   typed : Secrets \union {Null}, text : BOOLEAN, next : Secrets \union {Null},
   token : Tokens \union {Null}, failed : Nat]

\* The rows and counters have their types; a password has an end exactly while it
\* must be changed.
TypeOK ==
  /\ account \in [Accounts -> AccountState]
  /\ \A a \in Accounts : account[a].must <=> account[a].expiry # "none"
  /\ session \in [Tokens -> SessionState]
  /\ hits \in [Emails \X Addresses -> Nat] /\ ipHits \in [Addresses -> Nat]
  /\ req \in [Requests -> RequestState]
  /\ streak \in [Accounts -> Nat] /\ overtaken \subseteq Requests /\ carried \subseteq Accounts
  /\ tried \subseteq Addresses /\ issued \subseteq Temps

\* routes.ts 363-366, 414, 477: a change of the password, a reset and a disabling
\* leave no session behind that was opened with what is no longer true.  Only a
\* login that had verified the old state before may bring one (late).
NoSessionIsLeftBehind ==
  \A t \in Tokens : Held(t) =>
    \/ session[t].late
    \/ LET a == session[t].account
       IN  account[a].status = "active" /\ session[t].proof = account[a].secret

\* rateLimit.ts 90-94: the gate is looked at before the hash is computed and the
\* failure recorded after, so requests that are under way together overshoot the
\* limit, but by no more than there are of them.
GateHolds ==
  /\ \A p \in Emails \X Addresses : hits[p] <= EmailIpLimit - 1 + Cardinality(Requests)
  /\ \A i \in Addresses : ipHits[i] <= IpLimit - 1 + Cardinality(Requests)

\* rateLimit.ts 64: the failures of others keep nobody out: whoever is turned away
\* is at an address that failures were recorded for.
CostStaysWithItsMaker ==
  \A e \in Emails, i \in Addresses : Limited(e, i) => i \in tried

\* routes.ts 246-252: an account is locked after MAX_ATTEMPTS failures since it was
\* last opened or unlocked or a lock ran out; whoever comes back after a lock has
\* all the attempts again.  But for a count that was read before the opening and
\* written after it: what it brings along (carried) lasts until the next opening.
LockIsEarned ==
  \A a \in Accounts \ carried : account[a].lock = "on" => streak[a] >= MaxAttempts

\* session.ts 8-27: the screen on the wall asks every minute and stays signed in:
\* the end of a session is never nearer to its last use than the sliding allows.
UseKeepsTheSession ==
  \A t \in Tokens : Held(t) => session[t].left + session[t].unused >= SlideUnder

\* routes.ts 331-336: a temporary password is left only for another one, never
\* confirmed as the permanent one, whatever resets come between; but for a request
\* whose current password was no string, which is verified and not compared (337, 348).
TemporaryIsReplaced ==
  [][\A a \in Accounts : account[a].must /\ ~account'[a].must =>
       \/ account'[a].secret # account[a].secret
       \/ \E r \in Requests : /\ req[r].pc = "changeWrite" /\ req[r].email = a /\ ~req[r].text
                              /\ req'[r] # req[r]]_vars
=============================================================================
