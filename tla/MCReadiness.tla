---------------------------- MODULE MCReadiness ----------------------------
(***************************************************************************)
(* Readiness on small sets, a part of it at work at a time: the criteria,  *)
(* the site, the contents with the people, the screen of the guidelines,   *)
(* the collection, the forecast, an alert on its screens.  A character has *)
(* up to three bytes; an LMS has 40.                                       *)
(***************************************************************************)
EXTENDS Readiness

CONSTANTS kim, lee   \* People

MCNotice   == <<Space, 3, 1>>
MCHeading  == <<3>>
MCBullet   == <<3, Space>>
MCTitles   == {<<3>>, <<3, 3, 3, 3>>}
MCObsLines == {<<3, 1>>}

MCBefore == {<<"kitchen", "resort">>}

MCParentOf == "resort" :> Root @@ "kitchen" :> "resort"

Snow(cm) == [snow_cm |-> cm]
Heat(temp, feels) == [temp_c |-> temp, feels_c |-> feels]

Row(kind, grade, t) == <<kind, grade>> :> t

Standard ==
  Row("snow", "watch", Snow(2)) @@ Row("snow", "warning", Snow(3))
    @@ Row("heat", "watch", Heat(2, 2)) @@ Row("heat", "warning", Heat(2, 3))

MCPreset == Standard

MCTyped ==
  {<<"heat", "watch", "temp_c", 3>>, <<"heat", "warning", "temp_c", 3>>,
   <<"snow", "watch", "snow_cm", Null>>}

MCBodies ==
  {Row("heat", "watch", Heat(3, 3)), Row("heat", "warning", Heat(2, 3)),
   Row("snow", "warning", Snow(4)),
   Row("snow", "watch", Snow(1)) @@ Row("snow", "warning", Snow(1))}

MCGrids == {[nx |-> 1, ny |-> 2], [nx |-> 2, ny |-> 1], [nx |-> 0, ny |-> 1], [nx |-> 1, ny |-> 3]}

Says(actions, notice) == [actions |-> actions, notice |-> notice]

MCTexts == {Says(<<<<Space>>, <<3>>>>, <<>>)}

MCContents == {Says(<<<<3, 3>>>>, <<3, 3, 3, 1>>), Says(<<<<3>>>>, <<>>), Says(<<<<Space>>>>, <<>>)}

\* Nothing; what fits; what is on the edge of the budget and of the LMS, and beyond;
\* more actions, a longer one or a longer notice than the handler takes.
MCLengths ==
  {Says(<<>>, <<>>), Says(<<<<Space>>>>, <<>>), Says(<<<<3>>>>, <<>>),
   Says(<<<<3, 3>>>>, <<3, 3, 3>>), Says(<<<<3, 3>>>>, <<3, 3, 3, 1>>),
   Says(<<<<3, 3>>, <<3, 3>>>>, <<3>>), Says(<<<<3, 3, 3, 3>>, <<3, 3, 3, 3>>>>, <<2, 3, 3, 3>>),
   Says(<<<<3>>, <<3>>, <<3>>>>, <<>>), Says(<<<<3, 3, 3, 3, 3>>>>, <<>>),
   Says(<<>>, <<3, 3, 3, 3, 3>>)}

MCUsed == {<<d, CHOOSE k \in Kinds : TRUE, "watch">> : d \in Depts}

MCViewed == {<<"kitchen", CHOOSE k \in Kinds : TRUE, g>> : g \in {"watch", "warning"}}

MCSwapped == {<<"kitchen", lee>>}

MCPoints ==
  {[snow_cm |-> s, temp_c |-> 2] : s \in 1 .. 2}
    \union {[snow_cm |-> Null, temp_c |-> t] : t \in {Null, 1}}

MCStart ==
  LET ready == [criteria |-> Standard, enabled |-> Kinds, site |-> [nx |-> 1, ny |-> 1],
                dept |-> Depts, recipients |-> [d \in Depts |-> {kim}],
                guideline |-> [s \in Slots |-> IF s \in MCUsed THEN Says(<<<<3>>>>, <<>>) ELSE Null],
                approvers |-> {kim}, phone |-> [p \in People |-> "good"], logOnly |-> FALSE,
                beat |-> [at |-> 0, ok |-> TRUE], recent |-> <<ObsFields>>]
      does(s, w) == s @@ [work |-> w]
      broken == Row("heat", "watch", Heat(2, Null)) @@ Standard
      noGrid == [ready EXCEPT !.site = [nx |-> 0, ny |-> 1]]
  IN  {does(ready, {w}) : w \in {"criteria", "site", "texts", "lists", "weather", "forecast"}}
      \union {does([ready EXCEPT !.recipients["kitchen"] = {}], {"review", "moves"}),
              does([ready EXCEPT !.recipients["kitchen"] = {lee}, !.phone[lee] = "bad"],
                   {"review", "numbers"})}
      \union {does([ready EXCEPT !.criteria = broken], {"criteria"}), does(noGrid, {"site"}),
              does([ready EXCEPT !.dept = {"resort"},
                                 !.guideline = [s \in Slots |-> Null],
                                 !.recipients = [d \in Depts |-> {}]], {"guidelines"}),
              does([noGrid EXCEPT !.beat = Null, !.recent = <<>>], {"weather"}),
              does([ready EXCEPT !.criteria = broken], {"forecast"})}
=============================================================================
