-------------------------- MODULE MCAlertPipeline --------------------------
(***************************************************************************)
(* One kind of weather on a scale of three: calm, at the watch, at the     *)
(* warning; its setting is on or off.                                      *)
(***************************************************************************)
EXTENDS AlertPipeline, TLC

Rain(r) == [rain |-> r, snowNew |-> 0, snowToday |-> 0, rainToday |-> 0,
            temp |-> 0, feels |-> 0, wind |-> 0]

MCObservations == {Rain(0), Rain(1), Rain(2)}

MCCriteria ==
  [k \in Kinds |-> [watch   |-> [value |-> 1, feels |-> Null],
                    warning |-> [value |-> 2, feels |-> Null]]]

Switch(on) ==
  [k \in Kinds |-> [enabled |-> on /\ k = "rain", policy |-> "hourly_until_below",
                    accum |-> Null, basis |-> "temp"]]

MCSettingsSets == {Switch(TRUE), Switch(FALSE)}

\* What is on stays on: the interleavings are many enough.
AlwaysOn == {Switch(TRUE)}

Symmetry == Permutations(EventIds) \union Permutations(Ticks) \union Permutations(Requests)
=============================================================================
