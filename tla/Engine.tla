------------------------------- MODULE Engine -------------------------------
(***************************************************************************)
(* The judgement engine, server/src/shared/engine.ts: a pure function from *)
(* one hourly observation, the criteria, the alert settings and the events *)
(* that are open to the list of actions the weather tick carries out.      *)
(*                                                                         *)
(* A reading the weather service did not give is Null.  A comparison with  *)
(* it has no answer, so a verdict has three values: "hit", "miss" and      *)
(* "unknown" (true, false and null in the code).                           *)
(*                                                                         *)
(* A definition marked "Variant" is the one after it with a plausible bug. *)
(* Nothing uses it: it is put in that one's place to see a property fail.  *)
(***************************************************************************)
EXTENDS Integers, Sequences

CONSTANT Null          \* an absent reading, threshold, criterion or row

ASSUME NullAssumption == Null \notin Int

Kinds    == {"rain", "snow", "wind", "heat"}
Grades   == {"watch", "warning"}
Policies == {"once", "hourly_until_below", "until_daily_accum_below"}

Reading == Int \union {Null}

\* One observation with the day's sums, `Obs' of types.ts.
Observation == [rain : Reading, snowNew : Reading, snowToday : Reading,
                rainToday : Reading, temp : Reading, feels : Reading,
                wind : Reading]

\* The one or two numbers of a criterion: `value' for rain, snow and wind and
\* for the temperature of heat, `feels' for the apparent temperature of heat.
Threshold == [value : Reading, feels : Reading]

Setting == [enabled : BOOLEAN, policy : Policies, accum : Reading,
            basis : {"temp", "feels"}]

-----------------------------------------------------------------------------
AtLeast(v, t) == t # Null /\ v >= t

Verdict(b) == IF b THEN "hit" ELSE "miss"

\* The quantity each kind is judged on; snow is judged on the day's sum.
Measured(kind, obs) ==
  CASE kind = "rain" -> obs.rain
    [] kind = "snow" -> obs.snowToday
    [] kind = "wind" -> obs.wind
    [] kind = "heat" -> obs.temp

Exceeds(kind, obs, th) ==
  IF kind = "heat"
  THEN IF obs.temp = Null /\ obs.feels = Null
       THEN "unknown"
       ELSE Verdict(\/ obs.temp # Null /\ AtLeast(obs.temp, th.value)
                    \/ obs.feels # Null /\ AtLeast(obs.feels, th.feels))
  ELSE IF Measured(kind, obs) = Null
       THEN "unknown"
       ELSE Verdict(AtLeast(Measured(kind, obs), th.value))

\* Is it raining or snowing in this very hour?
FallingNow(kind, obs) ==
  LET v == IF kind = "snow" THEN obs.snowNew ELSE obs.rain
  IN  IF v = Null THEN "unknown" ELSE Verdict(v > 0)

Accumulated(kind, obs) == IF kind = "snow" THEN obs.snowToday ELSE obs.rainToday

RepeatConditionMet(kind, s, obs, th) ==
  CASE s.policy = "once" -> FALSE
    [] s.policy = "until_daily_accum_below" ->
         /\ FallingNow(kind, obs) = "hit"
         /\ \/ Exceeds(kind, obs, th) = "hit"
            \/ /\ Accumulated(kind, obs) # Null
               /\ s.accum # Null
               /\ Accumulated(kind, obs) > s.accum
    [] s.policy = "hourly_until_below" /\ kind = "heat" ->
         IF s.basis = "feels"
         THEN obs.feels # Null /\ AtLeast(obs.feels, th.feels)
         ELSE obs.temp # Null /\ AtLeast(obs.temp, th.value)
    [] OTHER -> Exceeds(kind, obs, th) = "hit"

\* Variant: an alert is over as soon as it is not to be repeated.
ResolveUnlessRepeated(kind, s, obs, th) == ~RepeatConditionMet(kind, s, obs, th)

ResolveConditionMet(kind, s, obs, th) ==
  IF s.policy = "until_daily_accum_below"
  THEN FallingNow(kind, obs) = "miss"
  ELSE Exceeds(kind, obs, th) = "miss"

-----------------------------------------------------------------------------
(* Events as the engine sees them: rows [id, kind, grade, status], in the  *)
(* order the query returned them.  The caller has already left out every   *)
(* closed event, so a DISMISSED row is one whose weather has not passed.   *)

Rows(Ids) ==
  [id : Ids, kind : Kinds, grade : Grades,
   status : {"PENDING_APPROVAL", "ACTIVE", "DISMISSED"}]

\* Variant: a dismissed alert is forgotten.
IsOpenLive(row) == row.status \in {"PENDING_APPROVAL", "ACTIVE"}

IsOpen(row) == row.status \in {"PENDING_APPROVAL", "ACTIVE", "DISMISSED"}

\* Array.prototype.find: the first row of that kind and grade, or Null.
OpenOf(rows, kind, grade) ==
  LET hits == {i \in DOMAIN rows : /\ rows[i].kind = kind
                                   /\ rows[i].grade = grade
                                   /\ IsOpen(rows[i])}
  IN  IF hits = {} THEN Null
      ELSE rows[CHOOSE i \in hits : \A j \in hits : i <= j]

Action(type, id, kind, grade) ==
  [type |-> type, id |-> id, kind |-> kind, grade |-> grade]

\* Every action but a creation is about a row the engine was given.
Actions(Ids) ==
  {a \in [type : {"create", "escalate", "repeat", "resolve"},
          id : Ids \union {Null}, kind : Kinds, grade : Grades] :
     a.type # "create" => a.id \in Ids}

If(cond, act) == IF cond THEN <<act>> ELSE <<>>

\* Variant: who dismissed the watch hears nothing of the warning.
RaiseUnlessDismissed(kind, watchHit, warnHit, openWatch, openWarning) ==
  IF warnHit = "hit"
  THEN IF openWatch # Null
       THEN If(openWatch.status # "DISMISSED", Action("escalate", openWatch.id, kind, "watch"))
       ELSE If(openWarning = Null, Action("create", Null, kind, "warning"))
  ELSE If(watchHit = "hit" /\ openWatch = Null /\ openWarning = Null,
          Action("create", Null, kind, "watch"))

\* Detection and escalation, the first half of the loop body of evaluate().
Raise(kind, watchHit, warnHit, openWatch, openWarning) ==
  IF warnHit = "hit"
  THEN IF openWatch # Null /\ openWatch.status # "DISMISSED"
       THEN <<Action("escalate", openWatch.id, kind, "watch")>>
       ELSE If(openWarning = Null, Action("create", Null, kind, "warning"))
  ELSE If(watchHit = "hit" /\ openWatch = Null /\ openWarning = Null,
          Action("create", Null, kind, "watch"))

\* Variant: only an active alert is resolved; a draft waits for ever.
FollowActiveOnly(kind, s, obs, th, row) ==
  IF row = Null \/ th = Null \/ row.status # "ACTIVE" THEN <<>>
  ELSE IF RepeatConditionMet(kind, s, obs, th)
       THEN <<Action("repeat", row.id, kind, row.grade)>>
       ELSE If(ResolveConditionMet(kind, s, obs, th),
               Action("resolve", row.id, kind, row.grade))

\* Repetition or resolution of one event that is already open.
Follow(kind, s, obs, th, row) ==
  IF row = Null \/ th = Null THEN <<>>
  ELSE IF row.status = "ACTIVE" /\ RepeatConditionMet(kind, s, obs, th)
       THEN <<Action("repeat", row.id, kind, row.grade)>>
       ELSE If(ResolveConditionMet(kind, s, obs, th),
               Action("resolve", row.id, kind, row.grade))

EvaluateKind(kind, obs, criteria, s, rows) ==
  LET watch       == criteria[kind]["watch"]
      warning     == criteria[kind]["warning"]
      watchHit    == IF watch = Null THEN "unknown" ELSE Exceeds(kind, obs, watch)
      warnHit     == IF warning = Null THEN "unknown" ELSE Exceeds(kind, obs, warning)
      openWatch   == OpenOf(rows, kind, "watch")
      openWarning == OpenOf(rows, kind, "warning")
      raised      == Raise(kind, watchHit, warnHit, openWatch, openWarning)
      escalated   == /\ warnHit = "hit"
                     /\ openWatch # Null
                     /\ openWatch.status # "DISMISSED"
  IN  IF ~s.enabled \/ (watchHit = "unknown" /\ warnHit = "unknown")
      THEN <<>>
      ELSE raised
           \o (IF escalated THEN <<>> ELSE Follow(kind, s, obs, watch, openWatch))
           \o Follow(kind, s, obs, warning, openWarning)

Evaluate(obs, criteria, settings, rows) ==
  EvaluateKind("rain", obs, criteria, settings["rain"], rows)
    \o EvaluateKind("snow", obs, criteria, settings["snow"], rows)
    \o EvaluateKind("wind", obs, criteria, settings["wind"], rows)
    \o EvaluateKind("heat", obs, criteria, settings["heat"], rows)
=============================================================================
