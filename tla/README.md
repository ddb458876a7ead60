# Weather alerts: TLA+ models, checks and proofs

TLA+ specifications of the server of *날씨경영* (weather management), a service
that watches the hourly weather of one site, drafts a message to the departments
when a criterion is met, has a person approve it, sends it, repeats it and
announces the end. The promise of the product is *human in the loop*: the machine
detects and drafts, a registered approver decides. What can break that promise,
and what a test of one handler at a time does not reach, is the order of things:
an hourly job that works on rows it read before a network call, several approvers
clicking at once, sending outside the transactions, approvals taken back, restarts.

Paths below are relative to the repository (`server/src/...`).

## 1. The system

| Component | State | Operations | Interacts with |
|---|---|---|---|
| Judgement engine (`shared/engine.ts`) | none: a pure function | `evaluate(obs, criteria, settings, open)` → create / escalate / repeat / resolve | called by the weather tick; its output this hour is part of its input the next |
| Weather tick (`jobs/weatherTick.ts`) | `weather_observations`, `weather_events`, `messages`, `dispatches`, `heartbeats` | load → call the weather service → save → judge → act | engine, sending channel, all of sending's tables |
| Approval and sending (`jobs/send.ts`) | `weather_events`, `messages`, `dispatches` | approve, resend, dismiss, test; `dispatch()`, `unapprove()` | shares its rows with the tick, the draft editor, the reminders |
| Draft editor (`api/content.ts`) | `messages`, `action_guidelines` | save a draft, edit guidelines, history | shares `messages` with sending |
| Reminders (`jobs/remindTick.ts`) | `remind_count`, `last_reminded_at` of `weather_events` | remind, count, hand over to the administrators | reads what tick and sending write |
| Scheduler (`jobs/scheduler.ts`) | timers | cron for five jobs, catch-up at start, `guarded()` | starts the jobs and does not wait for them |
| Criteria, settings (`api/dashboard.ts`, `api/org.ts`) | `weather_criteria`, `alert_settings`, `site_settings` | PUT | read by every tick |
| Weather service client, derivations (`shared/kma.ts`, `shared/derive.ts`) | none | base hour, fetch with three attempts, snow, apparent temperature | tick |
| Database layer (`db.ts`, `db/migrations`) | tables, unique indexes, row policies | `withService`, `withUser`: one transaction each, READ COMMITTED | everything |
| Accounts, sessions (`auth/*`) | `auth_accounts`, `auth_sessions` | register, login, change / reset password, disable | every request |
| Login rate limiter (`auth/rateLimit.ts`) | two maps in memory | check, record, clear | login, administration |
| Organisation (`api/org.ts`) | departments, employees, recipients, approvers | create, change, remove; replace a list | decides who receives and who approves |
| Watchdog (`jobs/watchdog.ts`) | none | check health, report | reads everything |
| Forecast (`jobs/forecastTick.ts`, `forecastRules.ts`, ...) | `weather_forecasts` | fetch, prune, rules for the screen | the dashboard, the watchdog |
| Texts, numbers (`shared/template.ts`, `shared/sms.ts`, `phone.ts`, `guidelineContent.ts`) | none | compose, cut to LMS length, validate | tick, sending, watchdog |
| Web application (`apps/web/src`) | what each screen loaded and what was edited since | load, edit, save whole, delete subtrees | writes back copies of the server's rows, later |
| HTTP server, ops scripts | – | – | – |

What makes each of them correct, and what is hard about it:

* **Engine and tick as a loop.** One alert per hazard; a criterion that is met is
  covered by an alert; when the weather has passed every alert ends. Hard because
  readings are three-valued (a missing reading neither repeats nor resolves), a
  dismissed alert still suppresses, criteria and policies change while alerts are
  open, and the same hour may be judged twice.
* **Pipeline.** Nothing goes out without an approval, and only what an approver
  submitted; the status says what happened (active: somebody received it; waiting:
  nobody did); rounds are numbered without gaps; who heard of the beginning hears
  of the end; what is over stays over. Hard because of READ COMMITTED
  check-then-write, sending between transactions, and an approval that is taken
  back afterwards.
* **Reminders.** Bounded, and never silent at the bound. Hard because the list is
  read before the sending and counting and handing over are two steps.
* **Accounts.** After a reset, a change or a disabling no older credential keeps a
  session; locks and windows cost those who fail and nobody else. Hard because the
  hash is computed between the check and the writing, in several requests at once,
  and because half of the state is in memory and half in rows.
* **Organisation, settings.** A tree, an administrator, warning at or above watch, a
  list as it was asked for. Hard because of check-then-write and screens that write
  back what they loaded.
* **Readiness.** When everything is green an alert reaches somebody, whole; the
  indicators do not contradict each other. Hard because each counts by queries of its
  own over the same rows.
* **Who hears of an alert.** The departments that were told are told that it is over.
  Hard because blocks of departments travel from the draft to a screen, back, into the
  history, into another screen and back again, while lists and numbers change.
* **Forecast.** Three selections over the same rows agree.

`PROJECT.json` lists the hazards one by one, at their lines, with the properties
that cover them.

## 2. Modules

| Module | What it models |
|---|---|
| `Engine` | `shared/engine.ts`, definition by definition |
| `JudgementLoop` | engine + collection + actions of the tick, hour after hour, one kind of weather, sequential |
| `AlertPipeline` | the acting half of the tick and all requests on alerts as interleaved steps over the shared tables |
| `ApprovalGate` | the abstract promise of the pipeline: raise, approve, tell, release |
| `RemindTick` | the reminder job and the watchdog's look at waiting alerts, with the alert's life around them |
| `Accounts` | login, sessions, limiter, change of password, administration of accounts, as interleaved steps |
| `DeptTree` | the functions of `lib/deptTree.ts` on the list of departments |
| `Organisation` | the transactions on departments, employees, accounts and lists, and the screens that send them |
| `CriteriaFields`, `MessageText`, `Forecast` | pure: validity and order of criteria; composing and cutting a text; the selections over the forecast |
| `Settings` | `PUT /criteria`, alert settings, site, with their screens |
| `Content` | guidelines and recipients, with `Guidelines.tsx` |
| `Review` | one alert with its departments and people: draft, `EventReview.tsx`, rounds, `History.tsx`, release |
| `Collection` | heartbeat, last observations, rows of the forecast |
| `Readiness` | composes the four before with approvers, numbers and channel; watchdog and checklist |
| `EngineProofs`, `JudgementProofs`, `AlertPipelineProofs`, `SerialProofs`, `RemindProofs`, `AccountsProofs`, `OrganisationProofs`, `ReadinessProofs` | theorems; `JudgementProofs` and `AlertPipelineProofs` are over `EngineProofs`, `SerialProofs` is over `AlertPipelineProofs` |
| `MCJudgementLoop`, `MCAlertPipeline`, `MCAccounts`, `MCOrganisation`, `MCReadiness` | small values for TLC (`RemindTick` needs none) |

`Readiness` EXTENDs `Settings` (over `CriteriaFields`), `Review` (over `Content`, which
is over `CriteriaFields`, `MessageText` and `DeptTree`) and `Collection` (over
`Forecast`).

`JudgementLoop` and `AlertPipeline` both EXTEND `Engine`, so every action list a
tick carries out is computed by the translation of the code's own engine.
`AlertPipeline` INSTANCEs `ApprovalGate` with a refinement mapping.

Definitions marked **Variant** are plausible bugs (a dropped guard, a missing
reset). No specification uses them; each is put in the place of the definition
after it to see that a property notices.

### Engine

Readings, thresholds and rows may be `Null`; a comparison with `Null` is
`"unknown"`, as `null` is in the code. `Exceeds`, `FallingNow`,
`RepeatConditionMet`, `ResolveConditionMet` are the functions of those names;
`Raise` and `Follow` are the two halves of the loop body of `evaluate()`,
`OpenOf` is its `openOf` (the first row of that kind and grade).

### JudgementLoop

State: `setting` and `criteria` (the rows of one kind), `hour` and `day` (the
clock and `todayAccums`), `open` (the rows of `weather_events` that are not
closed), `obs`, `done` (the last judgement and its actions). `Tick` and
`TickMissing` are the hour collected or not; `Rejudge` is the same hour collected
again (`scheduler.ts` runs the catch-up and the cron independently; an upsert
overwrites the row); `Approve`, `Dismiss`, `PutAlertSettings`, `PutCriteria` come
between ticks. Closing takes a row out of `open`; ids are reused.

One detail of the code carries weight: the tick of hour *h* runs at *h*:05 and
judges the hour before (`baseDateTime`), while `todayAccums` sums from the midnight
before *now*. The first tick of a day therefore has no row to sum: the day's sums
are `Null`, and a snow alert cannot be judged in that hour.

Left out: the kinds' independence is used (one kind per behaviour, all four are
initial states); sums above `SumCap` are not told apart.

### AlertPipeline

Tables: `event` (status, closed, `repeat_count`), `message` (status and who wrote
the content last), `dispatches` (number, whether anybody was reached), `heartbeat`.
Handlers: `tick[t]` and `req[r]`, each with a `pc` and its local variables. History,
for the properties only: `approved`, `told`, `released`.

A step is one transaction, one statement of a transaction that another handler can
get in front of, or one round of sending:

| Code | Steps |
|---|---|
| `runWeatherTick` | `TickLoad`, `TickJudge` or `TickCollectFails`, then per action the ones below, `TickFinish` |
| – create | `TickCreate` (one transaction, gives way to the partial unique index) |
| – escalate | `TickEscalate`, `TickRaiseWarning` (two transactions) |
| – repeat | `TickRepeatRead`, `TickRepeatSend`, `TickRepeatNumber`, `TickRepeatCommit` |
| – resolve | `TickResolveRead`, `TickResolveCommit`, `TickRelease` |
| approve | `ApproveRead`, `ApproveCommit`, `Send`, `Record`, `Unapprove` when nobody was reached |
| resend | `ResendCheck`, `ResendRead` (takes the row lock), `ResendCommit`, `Send`, `Record` |
| dismiss | `Dismiss` (one guarded update) |
| PATCH /messages/:id | `SaveRead`, `SaveCommit` |
| exceptions, restart | `TickThrows`, `TickDies`, `ReqThrows`, `Crash` |

An exception inside an action ends the action (the tick catches it); outside, it
ends the run without a heartbeat; in a request it ends the request, except that
`dispatch()` and `unapprove()` swallow theirs. A restart ends every handler;
committed rows stay. A Postgres deadlock abort is one of the failed transactions.

A round of sending reaches somebody or nobody. The recipients of a repetition are
read anew and there may be none, which is not a failure; an approval with no target
is refused before anything changes. Notices to approvers ("a draft waits") and to
administrators are not in `told`: that variable is what the departments receive.
`released` means that the announcement was made.

Requests are approvers' (the permission check is the first thing `runSend` does);
a request answered with 4xx changes nothing and is not a step.

`SpecSerial` is the same system with one handler at a time and no faults: what the
code promises to a single user, and what the repository's own tests exercise.
`SpecFaultless` interleaves without faults. `Spec` has everything.

### RemindTick

`Load` reads the due list with the counters, `Remind` sends, `Count` counts in one
update, `HandOver` tells the administrators. Around it `Raise`, `Settle` and `Reopen`
are what `AlertPipeline` does in detail to the status, reduced to what the job reads.
`Elapse` is the passing of the interval, by the database's clock. Whether runs may fail
(`Abort`) is chosen at the start of a behaviour (`faulty`). `GrowOld` and `Watch` are
the other guard: the watchdog names every six hours the alerts that have waited for
REMIND_LIMIT intervals or have used up their reminders. Whether a reminder is received
is not looked at by the code, nor here; that there is an administrator with a usable
number is assumed (the code only logs that there is none).

### Accounts

Rows `account` (secret, status, failures, lock, must change, expiry) and `session`;
memory `hits` and `ipHits` (the two windows of `LoginRateLimiter`, as counters that
fill and pass); requests with a `pc`. A login is `LoginGate` (both windows), `LoginVerify`
(read and hash), then `LoginSnapshot`, `LoginCount` and `LoginRecord`, or `LoginReset`,
`LoginClear` and `LoginIssue`. Counting is one statement of the code and two steps here:
its new count comes from a subquery that locks nothing (`routes.ts` 262-271), so that at
READ COMMITTED a statement that waits for the row writes what it read before it waited.
A change is `ChangeStart`, `ChangeVerify`, `ChangeWrite`; an administrator disables, enables,
resets (`ResetStart`, `ResetWrite`), unlocks. `Visit` slides a session; sessions,
locks, windows and temporary passwords age; `Restart` loses memory and requests.
Times are periods; a lock is on, over or off. `Without` is what is left of the
sessions after a delete.

A change of the password compares the new one with the old one only if that came as a
string (`text`; `routes.ts` 337), and verifies whatever came as a string (348).

History: `streak` (failures since the last opening), `overtaken` (requests with a count
that was read before the account was opened), `carried` (accounts to which such a count
was written), `tried` (addresses a failure was
recorded for), `proof` and `late` of a session (what it was opened with, and whether
its login had verified before something changed).

### DeptTree, Organisation

A list of departments is a function from ids to parents. `Flat` is what the screens
show (`buildDeptTree` and `flattenDepartments`, with the roots they make up for cycles
and orphans), `Subtree` and `DeleteOrder` what they delete. The recursion of `build()` is
a list of what waits to be built (`Built`): a `Visit` shows the first of it and puts its
own before the rest, so that what is shown at that moment is `seen` as it is when
`build()` decides which children to go to. `CutLoose` is the loop over what no root has
reached. Sorting puts each where as many come before it as the comparison says
(`Sorted`); `Before` is the comparison, as a set of pairs. A request of `Organisation`
is what it reads (`...Read`) and what it writes (`...Write`), one step where the write
judges by a key itself; a browser's deletion of a subtree is a series of requests.
`SubmitPage` sends the list of approvers a browser loaded earlier. A department that is
made again gets an id of its own in the code; here ids are reused.

Two facts of the code that the model keeps: the query that collects what is below a
department (`org.ts` 197-206, `union all`) does not end on a cycle, so that a move in one
is never answered (`InCycle`); and the guard of the last administrator
(`org.ts` 476) counts roles, whether or not there is an account that can sign in.

### Settings, Content, Review, Collection, Readiness

Each screen is a record of what it loaded, or `Null`. `CriteriaLoad` ... `SaveCriteria`,
`SettingsLoad` ... `SaveSite`, `GuidelinesLoad` ... `SaveGuideline`, `SaveRecipients`,
`ReviewLoad` ... `Approve`, `OpenRound` ... `Resend` are the functions of the screens
together with the handlers they call; other clients call the handlers with bodies of
their own. `PutRead` and `PutWrite` are the two transactions of `PUT /criteria`. A
guideline and its recipients are saved by two calls (`Guidelines.tsx` 256-268); between
them the second may fail.

A text is the sequence of the lengths in bytes of its characters, so that cutting and
counting are the code's (`FitToLms`, `ContentBytes`). A department's block in `Review`
carries people with the state of the number that was read with them; approving and
resending use those, repeating and releasing read anew (`Refreshed`). The history's page
is a round and what somebody turned off there (`off`); it is sent again changed
(`submitResend`) or as it was (`quickResend`), and becomes the message
(`MessageBecomes`). History of `Review`: `owed` (departments that were told and nobody has
turned off since), `missed` (for each round and for the message, those of them that it is
without because they were told only after it was put together), `ended`.

`Reasons` is `checkHealth()` reason by reason, `Checklist` and `Done` are the queries of
`Dashboard.tsx` and `computeSetupChecklist`. `MarkExceeds`, `FindUpcoming`, `SnoSum` are
the functions of these names; `Strip` is the part of `api/forecast.ts` that picks hours.

Other things the code does that the models show, none of them against a statement of
the repository:

* an hour without any answer, alternating with hours whose fields are missing, never
  counts as a dead field: `watchdog.ts` 133-148 wants three collected ones of the last
  three;
* the budget that `sms.ts` 110-121 leaves for a guideline assumes a header of 400 bytes;
  a site name of 40 characters is longer than that leaves room for, and the text is cut
  (with notice) while the watchdog is content. `Ordinary` is that assumption;
* the checklist counts leaves, the watchdog every department;
* "healthy" means that some kind and grade has a guideline, not that each has;
* an approval whose record is refused leaves the review screen on "waiting" while the
  alert is active; what it then sends is refused (409);
* a count of failures that was read before an account was opened (a login, a reset, an
  unlocking, the end of a lock) and is written after it brings the old failures back: the
  account may be locked after one, or a lock be taken off (`auth/routes.ts` 253-273).

Two things it does are at odds with what the repository says. The properties next to
them leave them out, and say so:

* a resend becomes the message, and the later repetitions and the release go by it. Who
  turns a department off there takes it out of the release; and an old round sent again
  as it was (`History.tsx` 245-249) takes out those that were told only later, although
  nobody turned them off. `weatherTick.ts` 239-242 and 389 and `Settings.tsx` 551 say that
  the release goes to the departments that were sent the alert (`TheEndReachesTheTold`
  without `\ missed[0]` is violated by approving with one department off, sending the
  round again with both, and then the first round as it was);
* a change of the password whose old one is no string, such as an array holding it, is
  verified by what `String()` makes of it and compared with nothing, so that a temporary
  password can be kept as the permanent one, which `auth/routes.ts` 331-336 means to
  exclude (`TemporaryIsReplaced` without its second alternative is violated by that one
  request). The screen sends strings.

## 3. What is checked

| Run | Specification and bounds | Shows |
|---|---|---|
| `judgement_loop` | each kind with every policy and both switch positions, days of 3 ticks, sums up to 3, readings around the two criteria and missing | `OneAlertPerHazard`, `HazardIsCovered`, `RejudgingClosesNothing`; liveness `QuietWeatherCloses`, `DisabledKindCloses` |
| `pipeline_serial` | `SpecSerial`, 3 alerts, 1 tick, 1 request, any number of runs | `ActiveMeansReached`, `PendingMeansUntold`, `ApprovedSnapshotOnly`, `NumberedWithoutGap`, `ReleaseReachesTheTold`, `EscalationRaisesWarning`, `OverStaysOver` |
| `pipeline_concurrent` | `Spec`, 2 alerts, 2 ticks, 3 requests, each handler once | `HumanInTheLoop`, `OverForGood`, refinement `ImplementsGate` |
| `reminders` | 2 alerts, 1 run at a time, limit 2, runs that fail and runs that do not | `RemindersAreLimited`, `LimitIsHandedOver`; liveness `NobodyAnswersIsNoticed`, `WaitingIsReported` |
| `accounts` | 1 account, 1 stranger, 2 addresses, 2 sessions, 2 requests at once, limits 2, 1 and 2; counts up to 3; four workloads | `NoSessionIsLeftBehind`, `GateHolds`, `CostStaysWithItsMaker`, `LockIsEarned`, `UseKeepsTheSession`, `TemporaryIsReplaced` |
| `organisation` | 3 departments, first a chain or a branch and one beside it, 2 employees and accounts, 2 requests at once, 2 browsers; workloads by table | `TreeIsShownWhole`, `TreeStaysATree`, `AnAdminRemains`, `AccountsMatchEmployees`, `ListIsWhatWasAsked` |
| `readiness` | 2 departments, 2 people, 2 kinds, an LMS of 40 bytes, 3 rounds, 2 hours; one part at work at a time | `WarningIsNotBelowWatch`, `GreenMeansDelivered`, `IndicatorsAgree`, `FitsOneLms`, `UpcomingAgreesWithMarks`, `NewestForecastCounts`, `TheEndReachesTheTold` |

`TypeOK` is checked in `pipeline_concurrent`, `reminders` and `accounts`. In five more
runs TLC finds a statement of the repository violated:

| Run | Statement | What happens |
|---|---|---|
| `snow_flap` | when the snow stops the alert is released (`engine.ts` 31-34, `jobs.test.ts` 1041) | detection still looks at the day's sum: the alert is raised again the next dry hour, released the one after, until midnight |
| `unrecorded` | an approval taken back can be approved again and goes out (`send.ts` 113-116, `jobs.test.ts` 1653) | it goes out, but the failed round already holds number 1: the record of the delivery is refused |
| `told_yet_pending` | an approval that reached somebody is not taken back (`jobs.test.ts` 1721-1724) | two approvals at once, one of which reaches nobody |
| `saved_over_approved` | only the approved snapshot is sent (design document, 181; `content.ts` 212-214) | a save overlapping an approval overwrites the approved text |
| `silent_limit` | at the limit the administrators are told (`remindTick.ts` 89-91, `jobs.test.ts` 641) | a restart between the count and the notice; only the watchdog's periodic reason is left |

`unrecorded` needs no concurrency. `told_yet_pending` and `saved_over_approved` use
`SpecFaultless`: the interleaving alone is enough. Three of the five violated
properties hold where nothing interleaves and nothing fails, which is what the
repository's tests can see: `PendingMeansUntold` and `ApprovedSnapshotOnly` in
`pipeline_serial`, `SilenceIsHandedOver` in `reminders` (as `LimitIsHandedOver`, for
behaviours in which no run fails).

### Why the bounds are enough

* *Judgement loop.* The engine only compares: readings below, at and above each of
  two criteria, zero and missing are all there is to tell apart. A day needs a first
  tick without sums, one with, and one after; three ticks give every order of rain
  and sums, and the behaviours run over any number of days. At most two rows are
  ever open, so three ids leave room for a third to show up (`OneAlertPerHazard`).
* *Serial pipeline.* Three alerts are a watch, the warning it escalates to, and one
  more; the numbers 1 to 2 are an approval and a repetition or resend of it.
* *Concurrent pipeline.* Two ticks and three requests are one more than the pairs
  every race found needs; each runs once, since a second run of a handler starts from
  its initial state again. A tick may still carry out several actions and the alerts
  may go through their whole life. The unbounded case is what the proofs are for.
* *Reminders.* A limit of two has a reminder that is the last and one that is not; two
  alerts are one that is decided and one that is not. Two runs that overlap are left out:
  both may count one alert, neither takes its reminder for the last, and then it is never
  due again. TLC shows that at once with `Runs = {r1, r2}`; a run outlasts its ten
  minutes only when sending hangs.
* *Accounts.* Every property is about an account, a session or an address at a time, and
  what it could be violated by is one other request between two steps of this one. The
  limits are the smallest at which a failure may be the first, the last and one too
  many. A workload (`Start` of the other two modules likewise) says which operations a
  behaviour draws from, so that each group meets itself and those it shares rows with;
  the theorems are about any workload, all operations together included. Old passwords
  that are no strings have a workload of their own (`texts`). The chosen passwords are
  symmetric, as they are only compared. `MaxFailed` ends the climb of a counter that
  overlapping counts and openings can carry up without end; one above the limit is where
  nothing new can happen, and the theorems hold for any value of it.
* *Organisation.* Three departments make a chain, a branch and a cycle of two beside a
  third; two employees are the administrator and another, who may be one too. Names,
  employees, accounts, requests and browsers are symmetric; `Before` orders the
  departments, so they are not.
* *Readiness.* Texts are of a few characters of one to three bytes, with budgets of the
  same size, on both sides of every limit. Two hours of time and three of horizon give
  forecasts of two ages over the same hours and two days. Three rounds are an approval,
  a round that is taken for the number of another, and one after. `AlertLasts`: an alert
  that is over is not followed further.
* *Stopping.* `accounts` has no deadlock. `organisation` may stop: two administrators who
  step down at the same time leave nobody who may do anything, which is the overlap
  `AnAdminRemains` concedes. `readiness` stops when the alert or the time is over.
* *Bounds in the guards:* `WithinBounds` (a tick does not decide on more new alerts
  than there are unused rows, nor on a repetition above `MaxRepeat`), `MaxRepeat` in
  `ResendCheck`, `OneShot`. They only remove behaviours that need a larger instance.

### Properties with a condition

* `HazardIsCovered` and `RejudgingClosesNothing` are about policies whose release is
  the opposite of their detection (`Plain`). The API accepts the accumulation policy
  for wind and heat as well, where rain then decides the release; and for snow see
  `snow_flap`.
* `HazardIsCovered` concedes the hour in which a warning falls back to watch level:
  the code resolves the warning and raises the watch one hour later.
* `OverForGood` concedes an approval in flight: `ApproveCommit` does not look at the
  status again. That nothing else reopens an alert is the content.
* `SilenceIsHandedOver` is about moments without a run under way; `LimitIsHandedOver` and
  `RemindersAreLimited` about behaviours in which runs do not fail. A run that fails
  after a reminder and before its counting sends it again, uncounted.
* `NoSessionIsLeftBehind` concedes a session whose login had verified before the change
  (`late`): nothing is looked at again between the hash and the insert. `GateHolds` says
  by how much the windows overshoot: by what is in flight.
* `LockIsEarned` concedes an account to which a count was written that had been read
  before its last opening (`carried`), until the next one: the code's statement does that
  (section 2). Without the concession TLC finds it at once. What is left is that nothing
  else locks early, whatever runs between the reading and the writing.
* `TemporaryIsReplaced` concedes a request whose old password was no string (section 2).
* `TreeStaysATree`, `AnAdminRemains`, `AccountsMatchEmployees`, `ListIsWhatWasAsked` are
  about behaviours in which requests come one after the other (`overlap`): that is what
  the code's guards give. `TreeIsShownWhole` has no such condition: a cycle that two
  moves made is shown all the same.
* `WarningIsNotBelowWatch` concedes a body that does not bring every row and was judged
  beside rows that changed before it was written (`mixed`); the screen brings every row.
  Two partial bodies that overlap, which is the race itself, are not caught.
* `GreenMeansDelivered` is about headers within the reserve that `sms.ts` plans for.
* `IndicatorsAgree` leaves out the guidelines of departments that are no leaves.
* `UpcomingAgreesWithMarks` and `NewestForecastCounts` are about answers that come whole
  and go equally far.
* `TheEndReachesTheTold` leaves out the departments that somebody turned off before a
  resend (they leave `owed`), and those that an older round which was sent again is
  without (`missed`; section 2). What is left is every other order of saving, approving,
  taking back, repeating and sending again. That a repetition renews who is on a list is
  why it speaks of lists and not of people.

### Fairness

* `JudgementLoop`: weak fairness of `Collect`. The cron fires every hour and a failed
  hour is an hour too (`TickMissing`), so nothing forces an hour to be collected; the
  liveness properties have "from some point on collected and quiet" as hypothesis.
  Nobody has to approve, dismiss or change anything.
* `RemindTick`: weak fairness of `Elapse` and `GrowOld` (time passes), of `Watch` (cron
  every six hours; it only reads) and of a run's `Step` (cron every ten minutes; a run
  that started goes on, or fails). None for the people.
* The other modules: none; their properties are safety.

## 4. What is proved

All proofs are checked by TLAPS, for every value of the constants that satisfies the
named assumptions. TLC evaluates each assumption on the values of the runs, and each
inductive invariant was checked by TLC on those runs before it was proved.

The library's induction theorems take an operator as a parameter, which the provers
here cannot instantiate. Induction is done in the open instead: the set of the numbers
at which a claim fails would have a smallest element (`SmallestOf`, from
`WellFoundedInduction`), and that is refuted. So recursive *functions* can be reasoned
about (`Carried`, `Subtree`, `Built`, `Flat`, `ByteLength`, `Lines`, `Said`, `Series`,
`SnoSum`): a function that is computed round by round exists (`Computation`, `Rounds`), and
a claim climbs along its rounds (`Climb`). Operators of the community modules that take an
operator (folds, `SetToSortSeq`) cannot be expanded either, so that what is proved about
does not use them.

**Engine and pipeline** (`NullAssumption`, `PipelineAssumption`): any number of
alerts, ticks and requests. Nothing is assumed of the observations, the criteria
and the settings: whatever they are, the engine's answer is well-typed, and that is
all the pipeline needs of it.

* `EngineProofs!EvaluateType`: the engine answers a list of actions each of which,
  creations aside, names a row it was given. `EvaluateIsAboutItsRows`: it names the row
  by its kind and its grade as well, which is what makes "the warning in the place of
  the watch" true. One lemma per definition.
* `AlertPipelineProofs!Invariant`: `Spec => []IInv`, with
  `IInv == TypeOK /\ Backed`. From it `TypeInvariant`, `ConsentIsNeeded`
  (`HumanInTheLoop`), `Implementation` (`ImplementsGate`) and `NothingElseReopens`
  (`OverForGood`).

Why `Backed`. `HumanInTheLoop` speaks of what has been sent; whether the *next* round
respects it depends on what a handler has in its hands. `Backed` says where each gets
its right from:

* an approved message belongs to an alert an approver approved, and its content is a
  person's (`MessageBacked`);
* a tick that is about to repeat has such a content, one that is about to announce a
  release has an approved alert (`TickBacked`);
* a request past its first commit is about an alert that is approved or raised
  (`ReqBacked`).

`TypeOK` is not inductive on its own: a tick at `repeatSend` has a content only
because `TickRepeatRead` found an approved message.

The preservation proof goes by the groups of `Next` (a tick's step, a request's
step, a start, a fault), one lemma for `TypeOK` and one for `Backed` in each, with
one step per action; handlers not moving keep their part because `approved` only
grows. `Implementation` shows `Init` maps to `Init` and each step to `Raise`,
`Approve`, `Tell`, `Release` or a stutter; only `TickCreate`/`TickRaiseWarning`,
`ApproveCommit`, `TickRepeatSend`/`TickThrows`/`Send` and `TickRelease` can be
anything but a stutter.
`NothingElseReopens` goes through the actions that write a status: `Insert` picks an
unused row, `Unapprove` looks for an active one, the rest write a status that is over,
and `ApproveCommit` is the conceded case.

**The pipeline, one handler at a time** (the same assumptions; `SpecSerial`): the six
invariants and the action property of `pipeline_serial`, for any number of alerts, ticks,
requests and rounds. They hold between the handlers (`Quiescent`), so that none of them
is inductive: in the middle of an approval the alert is active and nobody has been told.
`Current` says what is true at every step:

* at most one handler is in the middle of anything (`OneAtATime`);
* what it has read is still so, place by place (`TickCurrent`, `ReqCurrent`): a
  repetition about to be counted has the number after the counter, an approval about to
  be taken back has told nobody;
* what a tick has loaded is about alerts that stand, of the kind it takes them for
  (`NamesAlerts`, which is where `EvaluateIsAboutItsRows` is needed);
* for each alert the status of the message follows that of the alert (`InStep`), told are
  those whose message is approved (`ToldInStep`), the rounds have no gap (`Numbered`),
  the release follows (`Released`), an escalated watch has its warning (`Replaced`), each
  but for what the handler under way still owes.

`PendingMeansUntold` and `ApprovedSnapshotOnly` are theorems here and violated in
`told_yet_pending` and `saved_over_approved`: what separates the two is exactly
`OneAtATime`.

**The loop of judgement** (`LoopAssumption`, `RowAssumption`, `CriteriaAssumption`,
`SampleAssumption`): any readings, criteria and policies. Assumed are the types, and that
a stored criterion is a number above 0 or none, which `validateThreshold`
(`api/dashboard.ts` 98-119) sees to. `Inv` is the two properties, what a row is, and
`NothingLeftToClose`: after a judgement no open row is one that it should have closed;
without that the second judgement of an hour (`RejudgingClosesNothing`) could close
something. First the loop over the engine's list, by induction on it: what is open
afterwards is what was open without what was closed, and what was raised, and nothing is
raised in the place of something. The order of the rows of the query does not matter
because there is one per grade (`OneAlertPerHazard`), which is proved at the same time.
`SwitchedOffIsClosed` is the step that `DisabledKindCloses` rests on.

**Organisation** (`DeptsAssumption`, `OrderAssumption`, `NullAssumption`, `KeepAssumption`,
`StartAssumption`): any number of departments, names, employees, accounts, requests,
browsers, from any tables that are in order. `Inv` is the types and keys, and, unless
requests overlapped, `InOrder`: one request, tables in order (`Sound`), and what the
request has read and judged is still so when it writes (`StillHolds`). That the tree
stays one is the hard part: a department moves where `InCycle` did not find it, which
looks at `deptSubtreeIds()`, a loop; `SubtreeIsClosed` and `SubtreeIsLeast` say what that
computes (the loop runs long enough, as a set that grows each time outgrows the
departments), and from that a leaf added, a leaf removed and a subtree moved outside of
itself leave a tree (`ForestWithOneMore`, `ForestWithLess`, `ForestWithOneMoved`).

`TreesAreShownWhole` needs no more of `Inv` than types: it is about `deptTree.ts`, for any
parents, cycles and orphans included, and so for whatever overlapping moves have made
(`TreeIsShownWhole`). Assumed is that the comparison tells any two departments apart
(`OrderAssumption`): a stable sort compares the places in the list last.
`SortedIsInOrder`: ranks are all different, so each place has one. Along the visits of
`build()` nothing is shown or waits twice (`Apart`): a child that waited already would
have its parent shown already. As there are as many visits as departments nothing waits
at the end (`BuiltShows`), and the loop over the loose ones leaves none out (`FlatShows`).
Where there is no cycle nothing is loose (`ForestHangsUnderRoots`: of what no root
reaches, the parent of the one with the largest subtree would have a larger one), so that
each is one deeper than its parent (`Reached`, `ChildrenAreDeeper`), and sorting by depth
deletes each before what it hangs under (`DeletedFromBelow`).

**Accounts** (`AccountsAssumption`: finitely many requests at once, limits of at least
one, names told apart): any number of accounts, addresses, sessions and requests, every
workload. Each property has an invariant of its own, as they are about different rows:

* `Types`: beside the types, what a request knows at each `pc` (`RequestOK`); from it
  `AccountsTypeInvariant`;
* `Paid`: what counts in a window was recorded for its address; `NobodyElsePays`;
* `Counted`: while no lock has just run out the counter of the row is not ahead of the
  failures since the account was opened, and what a request is about to write is one more
  at most, but for `carried` accounts and `overtaken` requests; `LocksAreEarned`.
  `LockIsEarned` alone says nothing of an account one failure away from its lock, nor of
  a count that is read and not written;
* `Room`: hits in a window and requests on their way to one together stay within the
  limit and what may be in flight. A request that passes the gate takes a place, one that
  records turns a place into a hit; cardinalities over `Requests`. `TheGateHolds`;
* `NoneLeftBehind` is inductive over `Types`: what issues a session compares, what
  changes an account deletes;
* `UseKeeps`: likewise, over the ages of sessions;
* `Replacing`: a change under way whose old password is a string holds two known secrets
  that differ, and while the account still has to change, its new one is not the one stored, since a reset in
  between stores one that nobody knew when the request was made. `TemporaryIsLeft` is an
  action property from it.

`LimiterSteps`, `AccountSteps`, `SessionSteps` say which actions touch which part, so that
each preservation proof has one step for all others.

**Readiness** (`BlankAssumption`, `CriteriaAssumption`, `LmsAssumption`,
`ContentAssumption`, `HorizonAssumption`, `PointsAssumption`, `StartAssumption`): any
departments, people, guidelines, texts, hours and numbers, all operations at work
together. Assumed are the types of what is typed, stored and configured (a criterion is a
number not below 0 or no number at all), that no amount of snow is below 0, as
`parseAmount` reads digits alone, and that the notice of a cut text and the reserve fit an
LMS, which `sms.ts` computes them to do. `ReadinessInv` has a part for each component; the steps of
the others leave it alone:

* `SettingsInv` adds to `WarningIsNotBelowWatch` what a request that was judged and is
  not written yet still guarantees: beside the rows it was compared with, its body is in
  order; and if it brings every row, by itself. `WarningStaysAbove` (of the settings
  alone), `CriteriaStayInOrder`;
* `NumbersInv`: what is stored, typed or under way of the criteria are numbers or blanks,
  and what is on are kinds, so that what the forecast is judged by can be compared;
* `ContentInv`: a guideline, stored or on the screen, is one for which all lengths are
  defined, through `handleSave()` and its trimming as well; departments come and go
  among the ones there may be;
* `CollectionInv`: no row is from after now or for later than its forecast goes, so that
  a new forecast covers whatever is ahead of it. `NewestCounts`;
* `ReviewInv`: while an alert is active its message is approved and whoever was told, was
  not turned off since and is not missed has his block selected in it; so in each round
  (`RoundsOK`), and so, but for what was turned off there, on the history's screen
  (`RoundPageOK`), from where a round becomes the message again. Before the approval
  nobody was told, and only then may screens save. `TheEndReaches`, an action property: what the release is
  sent to are those blocks with the people of their lists.

On texts: `WhatIsSentFits` is about `fitToLms()` alone, for every text; the byte length is
additive (`ByteLengthAdds`), the prefix the code looks for exists (`ACutThere`).
`WhateverIsSentFits` adds that the composed text of a draft is a text. `GreenIsDelivered`
and `IndicatorsDoAgree` are about two indicators that count: `checkHealth()` compares the
number of departments without a recipient that can be reached to the number of those
without any, the checklist the number of leaves with a guideline to that of leaves;
`CountsTell` and the cardinality lemmas say that the counts mean what they are taken for.

`UpcomingAgrees` is about three computations over one forecast: `findUpcoming()` looks for
the first hour of the highest grade, `markExceeds()` for the grade of each hour, and
`summarizeDaily()` adds up a day. `MarkedAt` relates the first two for one kind, without
looking at the values; for snow, `SnowAddsUp` and `DayTotal` show that the running value of
the rules and the total of the summary are the same sum, and `TotalsGrow` that a sum of
amounts only grows, so that a day reaches a criterion at some hour exactly when its total
does.

**Reminders** (`RemindAssumption`), one run at a time (`Runs = {R}`): any number of
alerts and any limit. `UpToDate`: what the run read is still so, because nobody else
counts, and an alert is in the list once. `Accounted`: what was sent is what is counted,
but for the one the run is between sending and counting; an alert at its limit was
handed over, or the run is about to. `Limited` and `LimitIsTold` follow.

Model-checked only:

* liveness (`QuietWeatherCloses`, `DisabledKindCloses`, `NobodyAnswersIsNoticed`,
  `WaitingIsReported`): the prover has no ENABLED.

## 5. Not modelled

* *Minutes.* The staleness tests of the catch-ups (`scheduler.ts`) are left out; the
  overlap of a catch-up with the cron is in `JudgementLoop` and `AlertPipeline`. A server
  that is down at five past the hour and back within ten minutes finds a heartbeat
  younger than 70 minutes and does not collect that hour; the models have hours that are
  not collected, whatever the reason.
* *Observations and forecasts as data.* The apparent temperature, the parsing of the
  service's answers, the day's highest and lowest temperature and the sky, and forecasts
  that arrive in part.
* *Wording*: of drafts beyond their composition, of notices, of reasons and refusals.
* *Row policies and roles* of the database (27 policies): a request in the models has the
  right to be made. That an approver who is removed while he approves still does is
  therefore not shown either.
* *The web application* where it only shows what the server answers, polls, signs in or
  draws charts.
* *HTTP server*: routers and static files. *Migrations, backup, restore*: SQL that runs
  once and shell around `pg_dump`.
* *The provider behind the channel*: a text reaches or does not.

## 6. Order of the work, and what could follow

The modules were written in the order of the table in section 2, each with its run
before its proofs; the most important behaviour, the pipeline, first.

What would add to it:

1. Two overlapping reminder runs, with the lost hand-over, if sending without a timeout
   becomes a case to be dealt with in the code.
2. Catch-up and heartbeats in minutes.
3. An abstract specification of accounts or of the organisation that their modules
   implement, as `ApprovalGate` is for the pipeline.
