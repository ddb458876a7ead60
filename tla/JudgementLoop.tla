--------------------------- MODULE JudgementLoop ---------------------------
(***************************************************************************)
(* The hourly judgement of one kind of weather, with nothing concurrent:   *)
(* the tick of server/src/jobs/weatherTick.ts collects one hour, calls     *)
(* evaluate() of shared/engine.ts with the alerts that are open and        *)
(* carries its actions out; people approve or dismiss alerts and change    *)
(* the criteria and the settings between two ticks.                        *)
(*                                                                         *)
(* The module is about the feedback between the two halves: the engine is  *)
(* a pure function of one hour, and what it decides this hour is the       *)
(* `open' it is given the next one.  AlertPipeline has the interleavings.  *)
(*                                                                         *)
(* The day: the tick of hour h runs at h:05 and judges the observation of  *)
(* the hour before (baseDateTime of shared/kma.ts), while todayAccums sums *)
(* from the midnight before `now'.  So the first tick of a day judges the  *)
(* last hour of the day before and finds no row to sum: both sums are null.*)
(***************************************************************************)
EXTENDS Engine, FiniteSets, SequencesExt

CONSTANTS
  Samples,       \* [Kinds -> sets of samples] what the weather service may report
  Settings,      \* [Kinds -> sets of settings] what PUT /alert-settings may store
  CriteriaOf,    \* [Kinds -> sets of criteria] what PUT /criteria may store
  HoursPerDay,   \* length of a day, in ticks
  SumCap         \* the day's sums are not told apart above this

ASSUME LoopAssumption == HoursPerDay \in Nat \ {0} /\ SumCap \in Nat

VARIABLES
  kind,       \* the kind this behaviour is about
  setting,    \* its row of alert_settings
  criteria,   \* its two rows of weather_criteria, by grade
  hour,       \* 0 is the tick just after midnight
  day,        \* the sums of the day so far, or Null while it has no row
  obs,        \* the observation last judged, Null after an hour that is missing
  open,       \* the rows of weather_events that are not closed
  done,       \* the actions of the last judgement
  settled     \* no criterion or setting has changed since the last judgement

vars == <<kind, setting, criteria, hour, day, obs, open, done, settled>>

\* The ids of three rows that could be open together: one more than the grades.
Ids == 1 .. 3

ASSUME RowAssumption == Null \notin Rows(Ids) \union Threshold

\* validateThreshold: a number that is stored is above 0.
ASSUME CriteriaAssumption ==
  LET number == (Nat \ {0}) \union {Null}
  IN  \A k \in Kinds : \A c \in CriteriaOf[k] :
        c \in [Grades -> [value : number, feels : number]]

ASSUME SampleAssumption == \A k \in Kinds : \A sample \in Samples[k] : sample.rain \in Reading

Live(row) == row.status \in {"PENDING_APPROVAL", "ACTIVE"}

-----------------------------------------------------------------------------
\* snowNewCm: the hour's precipitation when it falls as snow; 1 mm is 1 cm.
SnowNew(sample) ==
  IF sample.rain = Null THEN Null ELSE IF sample.snowing THEN sample.rain ELSE 0

Value(v) == IF v = Null THEN 0 ELSE v

Capped(n) == IF n > SumCap THEN SumCap ELSE n

\* todayAccums once the hour's row is saved: rows with a null reading count as 0.
SumsAfter(sample) ==
  IF hour = 0 THEN Null
  ELSE LET before == IF day = Null THEN [rain |-> 0, snow |-> 0] ELSE day
       IN  [rain |-> Capped(before.rain + Value(sample.rain)),
            snow |-> Capped(before.snow + Value(SnowNew(sample)))]

Observe(sample, sums) ==
  [rain |-> sample.rain, snowNew |-> SnowNew(sample),
   rainToday |-> IF sums = Null THEN Null ELSE sums.rain,
   snowToday |-> IF sums = Null THEN Null ELSE sums.snow,
   temp |-> sample.temp, feels |-> sample.feels, wind |-> sample.wind]

-----------------------------------------------------------------------------
\* createEvent: the insert gives way to a live row of the same kind and grade.
Created(rows, k, grade) ==
  IF \E r \in rows : r.kind = k /\ r.grade = grade /\ Live(r) THEN rows
  ELSE rows \union
         {[id |-> CHOOSE i \in Ids : \A r \in rows : r.id # i,
           kind |-> k, grade |-> grade, status |-> "PENDING_APPROVAL"]}

Closed(rows, id) == {r \in rows : r.id # id}

\* What one action of the list leaves of the open rows.
Carry(rows, a) ==
  CASE a.type = "create"   -> Created(rows, a.kind, a.grade)
    [] a.type = "escalate" -> Created(Closed(rows, a.id), a.kind, "warning")
    [] a.type = "repeat"   -> rows
    [] a.type = "resolve"  -> Closed(rows, a.id)

\* The loop over the list, one action after the other.
Carried(rows, list) ==
  LET after[n \in 0 .. Len(list)] ==
        IF n = 0 THEN rows ELSE Carry(after[n - 1], list[n])
  IN  after[Len(list)]

\* Disabled kinds are skipped by evaluate(); the tick closes what they left live.
DisabledResolves ==
  IF setting.enabled THEN <<>>
  ELSE LET live == SetToSeq({r \in open : Live(r)})
       IN  [i \in DOMAIN live |-> Action("resolve", live[i].id, kind, live[i].grade)]

\* Variant: nobody closes the alerts of a kind that was switched off.
DecideEngineOnly(o) ==
  EvaluateKind(kind, o, [k \in {kind} |-> criteria], setting, SetToSeq(open))

\* The order of the query's rows is the database's; OneAlertPerHazard makes it immaterial.
Decide(o) ==
  EvaluateKind(kind, o, [k \in {kind} |-> criteria], setting, SetToSeq(open))
    \o DisabledResolves

Judge(o) ==
  /\ obs' = o
  /\ done' = Decide(o)
  /\ open' = Carried(open, Decide(o))
  /\ settled' = TRUE

-----------------------------------------------------------------------------
Init ==
  /\ kind \in Kinds
  /\ setting \in Settings[kind]
  /\ criteria \in CriteriaOf[kind]
  /\ hour \in 0 .. HoursPerDay - 1
  /\ day = Null
  /\ obs = Null
  /\ open = {}
  /\ done = <<>>
  /\ settled = TRUE

NextHour == hour' = (hour + 1) % HoursPerDay

\* An hour is collected and judged.
Tick(sample) ==
  /\ NextHour
  /\ day' = SumsAfter(sample)
  /\ Judge(Observe(sample, SumsAfter(sample)))
  /\ UNCHANGED <<kind, setting, criteria>>

\* An hour is not collected: it is saved as missing and nothing is judged.
TickMissing ==
  /\ NextHour
  /\ day' = IF hour = 0 THEN Null ELSE day
  /\ obs' = Null
  /\ done' = <<>>
  /\ UNCHANGED <<kind, setting, criteria, open, settled>>

\* The hour just judged is collected again (a catch-up at start and then the
\* cron, or a run by hand): the row is overwritten with the same readings.
Rejudge ==
  /\ obs # Null
  /\ Judge(obs)
  /\ UNCHANGED <<kind, setting, criteria, hour, day>>

\* runSend, approve and dismiss, of an alert that waits for approval.
SetStatus(row, status) ==
  /\ row.status = "PENDING_APPROVAL"
  /\ open' = (open \ {row}) \union {[row EXCEPT !.status = status]}
  /\ UNCHANGED <<kind, setting, criteria, hour, day, obs, done, settled>>

Approve == \E r \in open : SetStatus(r, "ACTIVE")

Dismiss == \E r \in open : SetStatus(r, "DISMISSED")

PutAlertSettings ==
  /\ setting' \in Settings[kind] \ {setting}
  /\ settled' = FALSE
  /\ UNCHANGED <<kind, criteria, hour, day, obs, open, done>>

PutCriteria ==
  /\ criteria' \in CriteriaOf[kind] \ {criteria}
  /\ settled' = FALSE
  /\ UNCHANGED <<kind, setting, hour, day, obs, open, done>>

Collect == TickMissing \/ \E sample \in Samples[kind] : Tick(sample)

Next == \/ Collect \/ Rejudge
        \/ Approve \/ Dismiss
        \/ PutAlertSettings \/ PutCriteria

\* The cron fires every hour; nobody has to approve, dismiss or change anything.
Spec == Init /\ [][Next]_vars /\ WF_vars(Collect)

-----------------------------------------------------------------------------
(* Properties                                                              *)

\* At most one row of a grade is unresolved, a dismissed one included: the partial
\* unique index only speaks of live rows, and that a dismissed alert is not doubled by
\* a live one rests on openOf() and on the escalation branch, which creates a warning
\* without looking for one.  And no watch is waiting or active beside an unresolved
\* warning, which the two branches of the engine exclude only together (engine.ts 75-92).
OneAlertPerHazard ==
  \A r, s \in open :
    /\ r.grade = s.grade => r = s
    /\ r.grade = "watch" /\ Live(r) => s.grade # "warning"

\* Policies whose release condition is the opposite of the detection condition.
\* Accumulated snow outlasts the snowfall, and rain says nothing of wind or heat.
Plain == kind = "rain" \/ setting.policy # "until_daily_accum_below"

Hit(grade) == obs # Null /\ Exceeds(kind, obs, criteria[grade]) = "hit"

JustResolved(grade) ==
  \E i \in DOMAIN done : done[i].type = "resolve" /\ done[i].grade = grade

\* After a judgement that finds a criterion met, somebody has been told: a
\* warning-level hour leaves an unresolved warning, a watch-level hour an
\* unresolved alert.  The one exception the code makes: the hour in which a
\* warning falls back to watch level, whose watch is only raised an hour later.
HazardIsCovered ==
  settled /\ setting.enabled /\ Plain =>
    /\ Hit("warning") => \E r \in open : r.grade = "warning"
    /\ Hit("watch") => open # {} \/ JustResolved("warning")

\* Judging the same hour again (catch-up and cron) never closes an alert that
\* is open, unless a criterion or a setting has changed in between: what the
\* first judgement raised, or left open, the second one leaves.
RejudgingClosesNothing ==
  [][Rejudge /\ settled /\ setting.enabled /\ Plain
       => \A r \in open : r \in open']_vars

\* A reading at which no criterion can be met and nothing falls.
Quiet ==
  obs # Null /\ obs.rain = 0 /\ obs.wind = 0 /\ obs.temp = 0 /\ obs.feels = 0

\* Once every hour is collected and quiet, every alert of an enabled kind is
\* closed, whatever its status, its policy and the day's sums were: the sums
\* only fall at midnight, and one tick a day has none to judge.
QuietWeatherCloses ==
  <>[](Quiet /\ setting.enabled) => <>[](open = {})

\* A kind that is switched off keeps no alert waiting or active: the engine
\* skips it, the tick closes it ("대응 중" for ever otherwise, weatherTick.ts
\* 229-242).
DisabledKindCloses ==
  <>[](~setting.enabled /\ obs # Null) => <>[](\A r \in open : ~Live(r))

-----------------------------------------------------------------------------
\* engine.ts 31-34 and jobs.test.ts 1041: when the snow stops the alert is
\* released, since the day's sum cannot fall before midnight and is only a
\* reason to go on repeating.  So a dry hour after a dry hour should not raise
\* a snow alert again out of the sum alone.
Dry(o) == o # Null /\ o.snowNew = 0

StoppedSnowStaysReleased ==
  [][/\ kind = "snow" /\ settled /\ open = {}
      /\ Dry(obs) /\ Dry(obs') /\ hour' # hour
       => open' = {}]_vars
=============================================================================
