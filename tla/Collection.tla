------------------------------ MODULE Collection ------------------------------
(***************************************************************************)
(* What is fetched from the weather service, as far as the watchdog and    *)
(* the forecast of the dashboard look at it: the heartbeat and the last    *)
(* observations that the weather tick leaves behind, and the rows of the   *)
(* forecast tick (server/src/jobs/forecastTick.ts, api/forecast.ts).       *)
(* What the weather tick makes of an observation is in JudgementLoop.      *)
(*                                                                         *)
(* Time passes by the hour.  The heartbeat of the forecast tick is left    *)
(* out: nothing here looks at it.                                          *)
(***************************************************************************)
EXTENDS Forecast

CONSTANTS
  MaxHour,           \* bound of time
  Horizon,           \* hours that a forecast is for
  Points,            \* bound: the values of one hour
  ObsFields,         \* VALUE_FIELDS
  MissingStreak,     \* MISSING_STREAK
  CollectStale,      \* COLLECT_STALE_MIN, in hours
  WindowHours        \* HOURLY_WINDOW_HOURS

ASSUME HorizonAssumption == Horizon \in Nat

\* parseAmount(): no amount is below 0.
ASSUME PointsAssumption == \A p \in Points : p["snow_cm"] \in Nat \union {Null}

VARIABLES
  now,
  beat,     \* heartbeats 'weather-tick': when, and whether it went well; or Null
  recent,   \* the last observations: the fields that came, or Null for a missing one
  rows      \* weather_forecasts by hour: the values, and when they were fetched

collectionVars == <<now, beat, recent, rows>>

Newest(s) == IF Len(s) <= MissingStreak THEN s ELSE SubSeq(s, 1, MissingStreak)

\* The weather tick, once in an hour: nothing is fetched,
TickFails ==
  /\ beat # Null => beat.at < now
  /\ beat' = [at |-> now, ok |-> FALSE] /\ recent' = Newest(<<Null>> \o recent)
  /\ UNCHANGED <<now, rows>>

\* or something is, and what it leads to is done or fails.
TickCollects(fields, ok) ==
  /\ beat # Null => beat.at < now
  /\ beat' = [at |-> now, ok |-> ok] /\ recent' = Newest(<<fields>> \o recent)
  /\ UNCHANGED <<now, rows>>

Kept(hours) == {h \in hours : h + HoursPerDay >= now}

\* Variant: a row that is there stays as it is (on conflict do nothing).
ComesBesideOld(fetched) ==
  /\ rows' = [h \in Kept(DOMAIN rows \union DOMAIN fetched) |->
                IF h \in DOMAIN rows THEN rows[h] ELSE [point |-> fetched[h], fetched |-> now]]
  /\ UNCHANGED <<now, beat, recent>>

\* runForecastTick(): what was fetched replaces what there is of those hours; what is
\* older than a day goes.  Where nothing is fetched the rows stay as they are.
ForecastComes(fetched) ==
  /\ rows' = [h \in Kept(DOMAIN rows \union DOMAIN fetched) |->
                IF h \in DOMAIN fetched THEN [point |-> fetched[h], fetched |-> now] ELSE rows[h]]
  /\ UNCHANGED <<now, beat, recent>>

HourPasses ==
  /\ now < MaxHour /\ now' = now + 1
  /\ UNCHANGED <<beat, recent, rows>>

\* GET /forecast looks at the hours to come.
Ahead == [h \in {h \in DOMAIN rows : h >= now} |-> rows[h].point]

\* The marks of the strip; a mark beyond it is not drawn.
Strip(criteria, enabled) ==
  {m \in MarkExceeds(Ahead, criteria, enabled) : m.at <= now + WindowHours}
=============================================================================
