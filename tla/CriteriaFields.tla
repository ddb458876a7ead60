---------------------------- MODULE CriteriaFields ----------------------------
(***************************************************************************)
(* What a criterion consists of, for those who store it, judge by it and   *)
(* watch over it (server/src/criteriaFields.ts).                           *)
(***************************************************************************)
EXTENDS Naturals, FiniteSets

CONSTANTS
  Kinds,   \* a subset of {"rain", "snow", "wind", "heat"}
  Null

\* What is blank is no number.
ASSUME BlankAssumption == Null \notin Nat

\* CRITERIA_FIELDS
Fields(kind) ==
  CASE kind = "rain" -> {"rain_mm_per_hr"} [] kind = "snow" -> {"snow_cm"}
    [] kind = "wind" -> {"wind_ms"} [] kind = "heat" -> {"temp_c", "feels_c"}

\* The rows of weather_criteria.
Criteria == Kinds \X {"watch", "warning"}

\* What is in some of them; numbers are in units of the last digit that is stored.
Rows(rows) ==
  \A c \in Criteria \intersect DOMAIN rows : rows[c] \in [Fields(c[1]) -> Nat \union {Null}]

\* thresholdUsable(): every field a number above 0, which any weather reaches.
ThresholdUsable(kind, t) == \A f \in Fields(kind) : t[f] # Null /\ t[f] > 0

\* No criterion of a warning below that of the watch, where both are numbers.
Ordered(kind, watch, warning) ==
  \A f \in Fields(kind) : watch[f] # Null /\ warning[f] # Null => watch[f] <= warning[f]
=============================================================================
