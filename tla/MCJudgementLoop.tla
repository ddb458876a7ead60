-------------------------- MODULE MCJudgementLoop --------------------------
(***************************************************************************)
(* Small readings: 0 quiet, 1 below every criterion of the first set, 2 at *)
(* the watch, 3 at the warning.  Only rain also has a second set of        *)
(* criteria, one lower, for PUT /criteria.                                 *)
(***************************************************************************)
EXTENDS JudgementLoop

Sample(rain, snowing, temp, feels, wind) ==
  [rain |-> rain, snowing |-> snowing, temp |-> temp, feels |-> feels, wind |-> wind]

MCSamples ==
  [rain |-> {Sample(r, FALSE, 0, 0, 0) : r \in {Null, 0, 1, 2, 3}},
   snow |-> {Sample(r, TRUE, 0, 0, 0) : r \in {Null, 1, 2}}
              \union {Sample(r, FALSE, 0, 0, 0) : r \in {0, 1}},
   wind |-> {Sample(r, FALSE, 0, 0, w) : r \in {0, 1}, w \in {Null, 0, 3}}
              \union {Sample(0, FALSE, 0, 0, 2)},
   heat |-> {Sample(0, FALSE, t, f, 0) : t \in {Null, 0, 3}, f \in {Null, 0, 2}}
              \union {Sample(1, FALSE, 2, 3, 0)}]

Set(enabled, policy, accum, basis) ==
  [enabled |-> enabled, policy |-> policy, accum |-> accum, basis |-> basis]

\* Every policy for every kind: PUT /alert-settings accepts them all.  A disabled
\* kind is not judged, so its policy makes no difference.
MCSettings ==
  [k \in Kinds |->
     {Set(TRUE, p, IF k = "rain" THEN 2 ELSE Null, "temp") : p \in Policies}
       \union {Set(FALSE, "once", Null, "temp")}
       \union (IF k = "heat" THEN {Set(TRUE, "hourly_until_below", Null, "feels")}
               ELSE {})]

Criterion(w, g) ==
  [watch |-> [value |-> w, feels |-> w], warning |-> [value |-> g, feels |-> g]]

MCCriteria ==
  [k \in Kinds |-> {Criterion(2, 3)}
                     \union (IF k = "rain" THEN {Criterion(1, 2)} ELSE {})]

\* seed.sql and 0015: snow is released by the end of the snowfall, no sum given.
SeedSettings ==
  [k \in Kinds |->
     {[enabled |-> TRUE, policy |-> "until_daily_accum_below", accum |-> Null,
       basis |-> "temp"]}]
=============================================================================
