------------------------------- MODULE Forecast -------------------------------
(***************************************************************************)
(* What the forecast says of the alerts to come: the banner ("upcoming"),  *)
(* the marks of the hourly strip and the summary by days                   *)
(* (server/src/forecastRules.ts, forecastSummary.ts).                      *)
(*                                                                         *)
(* Time is in hours since a midnight in Korea.  A forecast is a function   *)
(* from hours to the values of those hours, each by the key it has in the  *)
(* criteria, Null where the weather service gave none.                     *)
(*                                                                         *)
(* A definition marked "Variant" is a later one with a plausible bug.      *)
(***************************************************************************)
EXTENDS CriteriaFields, FiniteSetsExt, SequencesExt

CONSTANT HoursPerDay

\* The one that a forecast has.
Key(kind) == IF kind = "heat" THEN "temp_c" ELSE CHOOSE f \in Fields(kind) : TRUE

DayOf(h) == h \div HoursPerDay

\* By the hours whose value came, what a kind is judged by: snow adds up within a day.
Series(points, kind) ==
  LET known == {h \in DOMAIN points : points[h][Key(kind)] # Null}
      before(h) == {g \in known : g < h /\ DayOf(g) = DayOf(h)}
      value[h \in known] ==
        IF kind = "snow" /\ before(h) # {}
        THEN value[Max(before(h))] + points[h][Key(kind)] ELSE points[h][Key(kind)]
  IN  value

\* The grades of a kind that can be judged, and the higher one of some.
UsableGrades(kind, criteria) ==
  {g \in {"watch", "warning"} : ThresholdUsable(kind, criteria[<<kind, g>>])}

Highest(grades) == IF "warning" \in grades THEN "warning" ELSE "watch"

\* The hours at which a grade is reached, and the grades that are.
Hits(points, k, g, criteria) ==
  LET series == Series(points, k)
  IN  {h \in DOMAIN series : series[h] >= criteria[<<k, g>>][Key(k)]}

Reached(points, k, criteria) ==
  {g \in UsableGrades(k, criteria) : Hits(points, k, g, criteria) # {}}

Upcoming(points, k, g, criteria) ==
  LET first == Min(Hits(points, k, g, criteria))
  IN  [kind |-> k, grade |-> g, at |-> first, value |-> Series(points, k)[first]]

\* Variant: the lower grade is looked for first.
UpcomingLowestFirst(points, criteria, enabled) ==
  {Upcoming(points, k, IF "watch" \in Reached(points, k, criteria) THEN "watch" ELSE "warning",
            criteria) :
     k \in {k \in enabled : Reached(points, k, criteria) # {}}}

\* findUpcoming(): of each kind that is on, the highest grade that is reached, and when first.
FindUpcoming(points, criteria, enabled) ==
  {Upcoming(points, k, Highest(Reached(points, k, criteria)), criteria) :
     k \in {k \in enabled : Reached(points, k, criteria) # {}}}

\* markExceeds(): at each hour the highest grade that is reached.
MarkExceeds(points, criteria, enabled) ==
  UNION {LET series == Series(points, k)
             over(h) == {g \in UsableGrades(k, criteria) : series[h] >= criteria[<<k, g>>][Key(k)]}
         IN  {[at |-> h, kind |-> k, grade |-> Highest(over(h))] :
                h \in {h \in DOMAIN series : over(h) # {}}} :
           k \in enabled}

\* summarizeDaily(), the snow: a day of which nothing is known has no total, not one of 0.
SnoSum(points, d) ==
  LET known == {h \in DOMAIN points : DayOf(h) = d /\ points[h]["snow_cm"] # Null}
      sum[h \in 0 .. Max(known) + 1] ==
        IF h = 0 THEN 0
        ELSE sum[h - 1] + (IF h - 1 \in known THEN points[h - 1]["snow_cm"] ELSE 0)
  IN  IF known = {} THEN Null ELSE sum[Max(known) + 1]
=============================================================================
