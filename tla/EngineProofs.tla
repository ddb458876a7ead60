---------------------------- MODULE EngineProofs ----------------------------
(***************************************************************************)
(* What the engine returns: a list of actions, each of which, a creation   *)
(* apart, is about a row the engine was given and about that row's kind of *)
(* weather.  This is what lets the tick update weather_events by the id of *)
(* an action, and raise a warning of its kind, without looking it up.      *)
(***************************************************************************)
EXTENDS Engine, WellFoundedInduction, SequenceTheorems, TLAPS

\* The actions that are about one of the rows in R, if they are about any.
About(R, Ids) ==
  {a \in Actions(Ids) :
     a.type # "create" => \E row \in R : row.id = a.id /\ row.kind = a.kind}

\* A set of numbers has a smallest one: what an induction is made of here.
LEMMA SmallestOf ==
  ASSUME NEW S \in SUBSET Nat, S # {}
  PROVE  \E m \in S : \A j \in S : m <= j
<1> DEFINE less == {p \in Nat \X Nat : p[1] < p[2]}
<1>1. IsWellFoundedOn(less, Nat)
  BY NatLessThanWellFounded DEF OpToRel
<1>2. \E m \in S : \A j \in S : <<j, m>> \notin less
  <2> HIDE DEF less
  <2> QED BY <1>1, WFMin
<1>3. \A i, j \in Nat : <<j, i>> \notin less => i <= j
  OBVIOUS
<1> HIDE DEF less
<1> QED
  BY <1>2, <1>3

\* find() finds a row when there is one it looks for.
LEMMA FirstOf ==
  ASSUME NEW R, NEW rows \in Seq(R), NEW kind, NEW grade, NEW i \in DOMAIN rows,
         rows[i].kind = kind, rows[i].grade = grade, IsOpen(rows[i])
  PROVE  /\ OpenOf(rows, kind, grade) \in R
         /\ OpenOf(rows, kind, grade).kind = kind
         /\ OpenOf(rows, kind, grade).grade = grade
<1> DEFINE hits == {j \in DOMAIN rows : /\ rows[j].kind = kind
                                        /\ rows[j].grade = grade
                                        /\ IsOpen(rows[j])}
<1>1. i \in hits
  OBVIOUS
<1>2. hits \in SUBSET Nat
  BY DOMAIN rows = 1 .. Len(rows), Len(rows) \in Nat
<1>3. \E j \in hits : \A k \in hits : j <= k
  <2> HIDE DEF hits
  <2> QED BY <1>1, <1>2, SmallestOf
<1>4. OpenOf(rows, kind, grade) = rows[CHOOSE j \in hits : \A k \in hits : j <= k]
  BY <1>1 DEF OpenOf
<1>5. (CHOOSE j \in hits : \A k \in hits : j <= k) \in hits
  BY <1>3
<1> QED
  BY <1>4, <1>5, ElementOfSeq

\* find() gives back one of the rows it looks through, and one of those it looks
\* for, or nothing.
LEMMA OpenOfType ==
  ASSUME NEW R, NEW rows \in Seq(R), NEW kind, NEW grade
  PROVE  \/ OpenOf(rows, kind, grade) = Null
         \/ /\ OpenOf(rows, kind, grade) \in R
            /\ OpenOf(rows, kind, grade).kind = kind
            /\ OpenOf(rows, kind, grade).grade = grade
<1>1. CASE \E i \in DOMAIN rows :
             rows[i].kind = kind /\ rows[i].grade = grade /\ IsOpen(rows[i])
  BY <1>1, FirstOf
<1>2. CASE ~ \E i \in DOMAIN rows :
             rows[i].kind = kind /\ rows[i].grade = grade /\ IsOpen(rows[i])
  BY <1>2 DEF OpenOf
<1> QED
  BY <1>1, <1>2

LEMMA ActionIsTyped ==
  ASSUME NEW Ids, NEW R, NEW kind \in Kinds, NEW grade \in Grades,
         NEW type \in {"create", "escalate", "repeat", "resolve"},
         NEW id \in Ids \union {Null},
         type # "create" => id \in Ids /\ \E row \in R : row.id = id /\ row.kind = kind
  PROVE  <<Action(type, id, kind, grade)>> \in Seq(About(R, Ids))
<1>1. Action(type, id, kind, grade) \in About(R, Ids)
  BY DEF Action, Actions, About
<1> QED
  BY <1>1

LEMMA RaiseType ==
  ASSUME NEW Ids, NEW R \in SUBSET Rows(Ids), NEW kind \in Kinds, NEW watchHit, NEW warnHit,
         NEW openWatch, openWatch = Null \/ (openWatch \in R /\ openWatch.kind = kind),
         NEW openWarning
  PROVE  Raise(kind, watchHit, warnHit, openWatch, openWarning) \in Seq(About(R, Ids))
<1>1. /\ <<Action("create", Null, kind, "warning")>> \in Seq(About(R, Ids))
      /\ <<Action("create", Null, kind, "watch")>> \in Seq(About(R, Ids))
  BY ActionIsTyped DEF Grades
<1>2. openWatch # Null =>
        <<Action("escalate", openWatch.id, kind, "watch")>> \in Seq(About(R, Ids))
  <2>1. openWatch # Null => openWatch.id \in Ids
    BY DEF Rows
  <2> QED
    BY <2>1, ActionIsTyped DEF Grades
<1>3. << >> \in Seq(About(R, Ids))
  OBVIOUS
<1> QED
  BY <1>1, <1>2, <1>3 DEF Raise, If

LEMMA FollowType ==
  ASSUME NEW Ids, NEW R \in SUBSET Rows(Ids), NEW kind \in Kinds, NEW s, NEW obs, NEW th,
         NEW row, row = Null \/ (row \in R /\ row.kind = kind)
  PROVE  Follow(kind, s, obs, th, row) \in Seq(About(R, Ids))
<1>1. CASE row = Null
  BY <1>1 DEF Follow
<1>2. CASE row # Null
  <2>1. row.id \in Ids /\ row.grade \in Grades
    BY <1>2 DEF Rows
  <2>2. /\ <<Action("repeat", row.id, kind, row.grade)>> \in Seq(About(R, Ids))
        /\ <<Action("resolve", row.id, kind, row.grade)>> \in Seq(About(R, Ids))
    BY <1>2, <2>1, ActionIsTyped
  <2>3. << >> \in Seq(About(R, Ids))
    OBVIOUS
  <2> QED
    BY <2>2, <2>3 DEF Follow, If
<1> QED
  BY <1>1, <1>2

LEMMA EvaluateKindType ==
  ASSUME NEW Ids, NEW R \in SUBSET Rows(Ids), NEW rows \in Seq(R),
         NEW kind \in Kinds, NEW obs, NEW criteria, NEW s
  PROVE  EvaluateKind(kind, obs, criteria, s, rows) \in Seq(About(R, Ids))
<1> DEFINE watch       == criteria[kind]["watch"]
           warning     == criteria[kind]["warning"]
           watchHit    == IF watch = Null THEN "unknown" ELSE Exceeds(kind, obs, watch)
           warnHit     == IF warning = Null THEN "unknown" ELSE Exceeds(kind, obs, warning)
           openWatch   == OpenOf(rows, kind, "watch")
           openWarning == OpenOf(rows, kind, "warning")
           raised      == Raise(kind, watchHit, warnHit, openWatch, openWarning)
           escalated   == /\ warnHit = "hit"
                          /\ openWatch # Null
                          /\ openWatch.status # "DISMISSED"
           followed    == IF escalated THEN <<>> ELSE Follow(kind, s, obs, watch, openWatch)
           last        == Follow(kind, s, obs, warning, openWarning)
<1>1. /\ openWatch = Null \/ (openWatch \in R /\ openWatch.kind = kind)
      /\ openWarning = Null \/ (openWarning \in R /\ openWarning.kind = kind)
  BY OpenOfType
<1>2. raised \in Seq(About(R, Ids))
  BY <1>1, RaiseType
<1>3. followed \in Seq(About(R, Ids))
  BY <1>1, FollowType
<1>4. last \in Seq(About(R, Ids))
  BY <1>1, FollowType
<1>5. raised \o followed \o last \in Seq(About(R, Ids))
  BY <1>2, <1>3, <1>4, ConcatProperties
<1>6. EvaluateKind(kind, obs, criteria, s, rows) = <<>>
      \/ EvaluateKind(kind, obs, criteria, s, rows) = raised \o followed \o last
  BY DEF EvaluateKind
<1> HIDE DEF raised, followed, last
<1> QED
  BY <1>5, <1>6, EmptySeq

\* Whatever the hour, the criteria and the settings are, the list that evaluate()
\* returns is about rows that it was given, and about their kinds of weather.
THEOREM EvaluateIsAboutItsRows ==
  ASSUME NEW Ids, NEW R \in SUBSET Rows(Ids), NEW rows \in Seq(R),
         NEW obs, NEW criteria, NEW settings
  PROVE  Evaluate(obs, criteria, settings, rows) \in Seq(About(R, Ids))
<1>1. \A kind \in Kinds :
        EvaluateKind(kind, obs, criteria, settings[kind], rows) \in Seq(About(R, Ids))
  BY EvaluateKindType
<1>2. {"rain", "snow", "wind", "heat"} \subseteq Kinds
  BY DEF Kinds
<1> QED
  BY <1>1, <1>2, ConcatProperties DEF Evaluate

\* In particular it names only rows that it was given.
THEOREM EvaluateType ==
  ASSUME NEW Ids, NEW rows \in Seq(Rows(Ids)), NEW obs, NEW criteria, NEW settings
  PROVE  Evaluate(obs, criteria, settings, rows) \in Seq(Actions(Ids))
<1>1. About(Rows(Ids), Ids) \subseteq Actions(Ids)
  BY DEF About
<1>2. Evaluate(obs, criteria, settings, rows) \in Seq(About(Rows(Ids), Ids))
  BY EvaluateIsAboutItsRows
<1> QED
  BY <1>1, <1>2
=============================================================================
