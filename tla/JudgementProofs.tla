--------------------------- MODULE JudgementProofs ---------------------------
(***************************************************************************)
(* The loop of judgement: what the engine decides this hour is what is     *)
(* open in the next.                                                       *)
(*                                                                         *)
(* The inductive invariant adds to the two properties of the runs what the *)
(* rows are (StateOK) and that a judgement leaves nothing open that it     *)
(* should have closed (NothingLeftToClose): without that nothing could be  *)
(* said of the same hour being judged a second time.                       *)
(*                                                                         *)
(* First what the loop over the list of actions does to the rows, by       *)
(* induction on the list: a smallest index where the claim fails cannot    *)
(* exist.  Then what a judgement does to them (EnabledJudgement,           *)
(* DisabledJudgement), and last the steps of the specification.            *)
(***************************************************************************)
EXTENDS JudgementLoop, EngineProofs, FiniteSetTheorems

\* What the readings and the rows are.
StateOK ==
  /\ kind \in Kinds
  /\ criteria \in CriteriaOf[kind]
  /\ obs # Null => obs.rain \in Reading
  /\ \A r \in open : r \in Rows(Ids) /\ r.kind = kind
  /\ \A r, s \in open : r.id = s.id => r = s

\* After a judgement no open row is one that the judgement should have closed.
NothingLeftToClose ==
  settled /\ setting.enabled /\ Plain /\ obs # Null =>
    \A r \in open : ~ResolveConditionMet(kind, setting, obs, criteria[r.grade])

Inv == StateOK /\ OneAlertPerHazard /\ HazardIsCovered /\ NothingLeftToClose

-----------------------------------------------------------------------------
\* The loop has a run: the rows after none of the actions, after one, and so on.
LEMMA CarriedStepwise ==
  ASSUME NEW rows, NEW list, Len(list) \in Nat
  PROVE  \E after :
           /\ after[0] = rows
           /\ \A n \in 1 .. Len(list) : after[n] = Carry(after[n - 1], list[n])
           /\ Carried(rows, list) = after[Len(list)]
<1> DEFINE Runs(f, m) ==
      f = [n \in 0 .. m |-> IF n = 0 THEN rows ELSE Carry(f[n - 1], list[n])]
    Bad == {m \in Nat : ~ \E f : Runs(f, m)}
<1>1. Bad = {}
  <2> SUFFICES ASSUME Bad # {} PROVE FALSE
    OBVIOUS
  <2>1. PICK m \in Bad : \A j \in Bad : m <= j
    <3>1. Bad \in SUBSET Nat
      OBVIOUS
    <3> HIDE DEF Bad
    <3> QED BY <3>1, SmallestOf
  <2>2. CASE m = 0
    <3> DEFINE f == [n \in 0 .. 0 |-> rows]
    <3>1. Runs(f, 0)
      OBVIOUS
    <3> QED BY <3>1, <2>2
  <2>3. CASE m # 0
    <3>1. m \in Nat /\ m - 1 \in Nat /\ ~(m <= m - 1)
      BY <2>3
    <3>2. m - 1 \notin Bad
      BY <2>1, <3>1
    <3>3. PICK g : Runs(g, m - 1)
      BY <3>1, <3>2
    <3> DEFINE f == [n \in 0 .. m |-> IF n = m THEN Carry(g[m - 1], list[m]) ELSE g[n]]
    <3>4. \A n \in 0 .. m : f[n] = IF n = 0 THEN rows ELSE Carry(f[n - 1], list[n])
      <4> TAKE n \in 0 .. m
      <4>1. CASE n = m
        <5>1. f[m] = Carry(g[m - 1], list[m]) /\ f[m - 1] = g[m - 1]
          BY <3>1
        <5> QED BY <4>1, <5>1, <2>3
      <4>2. CASE n # m
        <5>1. n \in 0 .. (m - 1)
          BY <3>1, <4>2
        <5>2. f[n] = g[n] /\ (n # 0 => f[n - 1] = g[n - 1])
          BY <5>1, <3>1
        <5>3. g[n] = IF n = 0 THEN rows ELSE Carry(g[n - 1], list[n])
          BY <3>3, <5>1
        <5> HIDE DEF f
        <5> QED BY <5>2, <5>3
      <4> QED BY <4>1, <4>2
    <3>5. Runs(f, m)
      <4>1. f = [n \in 0 .. m |-> f[n]]
        OBVIOUS
      <4> HIDE DEF f
      <4> QED BY <4>1, <3>4
    <3> QED BY <3>1, <3>5, <2>1
  <2> QED BY <2>2, <2>3
<1>2. Len(list) \in Nat
  OBVIOUS
<1>3. \E f : Runs(f, Len(list))
  BY <1>1, <1>2
<1> DEFINE after == CHOOSE f : Runs(f, Len(list))
<1>4. Runs(after, Len(list))
  BY <1>3
<1>5. Carried(rows, list) = after[Len(list)]
  BY DEF Carried
<1>6. after[0] = rows /\ \A n \in 1 .. Len(list) : after[n] = Carry(after[n - 1], list[n])
  <2> HIDE DEF after
  <2>1. \A n \in 0 .. Len(list) :
          after[n] = IF n = 0 THEN rows ELSE Carry(after[n - 1], list[n])
    <3> DEFINE body == [n \in 0 .. Len(list) |->
                         IF n = 0 THEN rows ELSE Carry(after[n - 1], list[n])]
    <3>1. after = body
      BY <1>4
    <3>2. \A n \in 0 .. Len(list) :
            body[n] = IF n = 0 THEN rows ELSE Carry(after[n - 1], list[n])
      OBVIOUS
    <3> HIDE DEF body
    <3> QED BY <3>1, <3>2
  <2> QED BY <2>1, <1>2
<1>7. /\ after[0] = rows
      /\ \A n \in 1 .. Len(list) : after[n] = Carry(after[n - 1], list[n])
      /\ Carried(rows, list) = after[Len(list)]
  BY <1>5, <1>6
<1> HIDE DEF after
<1> QED
  BY <1>7

LEMMA CarriedEmpty ==
  ASSUME NEW rows
  PROVE  Carried(rows, << >>) = rows
<1>1. Len(<< >>) = 0
  OBVIOUS
<1> QED
  BY <1>1, CarriedStepwise

\* One more action at the end of the list is carried out on what the others leave.
LEMMA CarriedAppend ==
  ASSUME NEW rows, NEW A, NEW list \in Seq(A), NEW a \in A
  PROVE  Carried(rows, Append(list, a)) = Carry(Carried(rows, list), a)
<1> DEFINE more == Append(list, a)
<1>1. /\ more \in Seq(A) /\ Len(list) \in Nat /\ Len(more) = Len(list) + 1
      /\ more[Len(list) + 1] = a
      /\ \A n \in 1 .. Len(list) : more[n] = list[n]
  OBVIOUS
<1> HIDE DEF more
<1>2. PICK f :
        /\ f[0] = rows
        /\ \A n \in 1 .. Len(list) : f[n] = Carry(f[n - 1], list[n])
        /\ Carried(rows, list) = f[Len(list)]
  BY CarriedStepwise
<1>3. PICK g :
        /\ g[0] = rows
        /\ \A n \in 1 .. Len(more) : g[n] = Carry(g[n - 1], more[n])
        /\ Carried(rows, more) = g[Len(more)]
  <2>1. Len(more) \in Nat
    BY <1>1
  <2> QED BY <2>1, CarriedStepwise
<1> DEFINE Bad == {n \in 0 .. Len(list) : f[n] # g[n]}
<1>4. Bad = {}
  <2> SUFFICES ASSUME Bad # {} PROVE FALSE
    OBVIOUS
  <2>1. PICK m \in Bad : \A j \in Bad : m <= j
    <3>1. Bad \in SUBSET Nat
      BY <1>1
    <3> HIDE DEF Bad
    <3> QED BY <3>1, SmallestOf
  <2>2. m \in 1 .. Len(list)
    BY <1>1, <1>2, <1>3
  <2>3. m - 1 \in 0 .. Len(list) /\ ~(m <= m - 1)
    BY <1>1, <2>2
  <2>4. f[m - 1] = g[m - 1]
    BY <2>1, <2>3
  <2>5. m \in 1 .. Len(more)
    BY <1>1, <2>2
  <2>6. f[m] = g[m]
    BY <1>1, <1>2, <1>3, <2>2, <2>4, <2>5
  <2> QED BY <2>1, <2>6
<1>5. f[Len(list)] = g[Len(list)]
  BY <1>1, <1>4
<1>6. g[Len(more)] = Carry(g[Len(more) - 1], more[Len(more)])
  BY <1>1, <1>3
<1>7. Len(more) - 1 = Len(list)
  BY <1>1
<1>8. Carried(rows, more) = Carry(Carried(rows, list), a)
  BY <1>1, <1>2, <1>3, <1>5, <1>6, <1>7
<1> QED
  BY <1>8 DEF more

LEMMA CarriedOne ==
  ASSUME NEW rows, NEW a
  PROVE  Carried(rows, <<a>>) = Carry(rows, a)
<1>1. << >> \in Seq({a}) /\ a \in {a} /\ Append(<< >>, a) = <<a>>
  OBVIOUS
<1>2. Carried(rows, Append(<< >>, a)) = Carry(Carried(rows, << >>), a)
  BY <1>1, CarriedAppend
<1> QED
  BY <1>1, <1>2, CarriedEmpty

LEMMA ListOfOne ==
  ASSUME NEW A, NEW a, <<a>> \in Seq(A)
  PROVE  a \in A
<1>1. a = <<a>>[1]
  OBVIOUS
<1> QED BY <1>1

Has(list, a) == \E i \in DOMAIN list : list[i] = a

LEMMA IsInTheList ==
  ASSUME NEW A, NEW l1 \in Seq(A), NEW l2 \in Seq(A), NEW a \in A
  PROVE  Has((l1 \o <<a>>) \o l2, a)
<1> DEFINE l == (l1 \o <<a>>) \o l2
<1>1. /\ l \in Seq(A) /\ Len(l1) \in Nat /\ Len(l2) \in Nat
      /\ Len(l) = Len(l1) + 1 + Len(l2)
      /\ l[Len(l1) + 1] = a
  OBVIOUS
<1>2. Len(l1) + 1 \in DOMAIN l
  <2> HIDE DEF l
  <2>1. DOMAIN l = 1 .. Len(l)
    BY <1>1
  <2> QED BY <1>1, <2>1
<1> HIDE DEF l
<1>3. Has(l, a)
  BY <1>1, <1>2 DEF Has
<1> QED
  BY <1>3 DEF l

\* A list made of a finite set has all its elements.
LEMMA Enumerated ==
  ASSUME NEW S, IsFiniteSet(S)
  PROVE  /\ SetToSeq(S) \in Seq(S)
         /\ \A x \in S : \E i \in DOMAIN SetToSeq(S) : SetToSeq(S)[i] = x
<1> DEFINE n == Cardinality(S)
<1>1. n \in Nat /\ ExistsBijection(1 .. n, S)
  BY FS_CardinalityType
<1>2. PICK f \in [1 .. n -> S] : IsInjective(f)
  <2>1. PICK f : f \in Bijection(1 .. n, S)
    BY <1>1 DEF ExistsBijection
  <2>2. f \in [1 .. n -> S] /\ IsInjective(f)
    BY <2>1 DEF Bijection, Injection, Surjection
  <2> QED BY <2>2
<1>3. SetToSeq(S) \in [1 .. n -> S] /\ IsInjective(SetToSeq(S))
  BY <1>2 DEF SetToSeq
<1>4. SetToSeq(S) \in Injection(1 .. n, S)
  BY <1>3 DEF Injection
<1>5. IsFiniteSet(1 .. n) /\ Cardinality(1 .. n) = n
  BY <1>1, FS_Interval
<1>6. SetToSeq(S) \in Surjection(1 .. n, S)
  BY <1>4, <1>5, FS_Injection
<1>7. \A x \in S : \E i \in 1 .. n : SetToSeq(S)[i] = x
  BY <1>6 DEF Surjection
<1>8. DOMAIN SetToSeq(S) = 1 .. n
  BY <1>3
<1>9. SetToSeq(S) \in Seq(S)
  BY <1>1, <1>3
<1> QED
  BY <1>7, <1>8, <1>9

\* There are no more open rows than ids.
LEMMA OpenIsFinite ==
  ASSUME StateOK
  PROVE  IsFiniteSet(open)
<1> DEFINE f == [r \in open |-> r.id]
<1>1. f \in [open -> Ids] /\ \A r, s \in open : f[r] = f[s] => r = s
  BY DEF StateOK, Rows
<1>2. f \in Injection(open, Ids)
  <2> HIDE DEF f
  <2> QED BY <1>1 DEF Injection, IsInjective
<1>3. IsFiniteSet(1 .. 3)
  <2>1. 1 \in Int /\ 3 \in Int
    OBVIOUS
  <2> QED BY <2>1, FS_Interval, Zenon
<1> QED
  BY <1>2, <1>3, FS_Injection DEF Ids

\* What the engine finds in the open rows: the row of that grade, if there is one.
LEMMA FindsTheRow ==
  ASSUME StateOK, OneAlertPerHazard, NEW grade \in Grades
  PROVE  LET found == OpenOf(SetToSeq(open), kind, grade)
         IN  /\ found # Null => found \in open /\ found.grade = grade
             /\ found = Null => \A r \in open : r.grade # grade
             /\ found # Null => \A r \in open : r.grade = grade => r = found
<1> DEFINE rows == SetToSeq(open)
           found == OpenOf(rows, kind, grade)
<1>1. rows \in Seq(open) /\ \A x \in open : \E i \in DOMAIN rows : rows[i] = x
  BY OpenIsFinite, Enumerated
<1>2. found = Null \/ (found \in open /\ found.grade = grade)
  BY <1>1, OpenOfType
<1>3. found # Null => \A r \in open : r.grade = grade => r = found
  BY <1>2 DEF OneAlertPerHazard
<1>4. ASSUME found = Null, NEW r \in open, r.grade = grade PROVE FALSE
  <2> DEFINE hits == {i \in DOMAIN rows : /\ rows[i].kind = kind
                                          /\ rows[i].grade = grade
                                          /\ IsOpen(rows[i])}
  <2>1. r.kind = kind /\ IsOpen(r)
    BY DEF StateOK, Rows, IsOpen
  <2>2. PICK i \in DOMAIN rows : rows[i] = r
    BY <1>1
  <2>3. i \in hits
    BY <1>4, <2>1, <2>2
  <2>4. found \in open
    BY <1>1, <2>3, FirstOf
  <2>5. Null \notin open
    BY RowAssumption DEF StateOK
  <2> QED BY <1>4, <2>4, <2>5
<1> QED
  BY <1>2, <1>3, <1>4

-----------------------------------------------------------------------------
\* A row that Follow closes.
Over(s, o, r) ==
  /\ ResolveConditionMet(kind, s, o, criteria[r.grade])
  /\ ~(r.status = "ACTIVE" /\ RepeatConditionMet(kind, s, o, criteria[r.grade]))

LEMMA FollowCarried ==
  ASSUME NEW A, NEW rows, NEW list \in Seq(A), NEW s, NEW o, NEW r, r # Null,
         criteria[r.grade] # Null,
         Follow(kind, s, o, criteria[r.grade], r) \in Seq(A)
  PROVE  Carried(rows, list \o Follow(kind, s, o, criteria[r.grade], r))
           = IF Over(s, o, r) THEN Closed(Carried(rows, list), r.id) ELSE Carried(rows, list)
<1> DEFINE fol == Follow(kind, s, o, criteria[r.grade], r)
           rep == Action("repeat", r.id, kind, r.grade)
           res == Action("resolve", r.id, kind, r.grade)
<1>0. \A x : <<x>> \in Seq(A) => x \in A /\ list \o <<x>> = Append(list, x)
  <2> SUFFICES ASSUME NEW x, <<x>> \in Seq(A) PROVE x \in A /\ list \o <<x>> = Append(list, x)
    OBVIOUS
  <2>1. x = <<x>>[1]
    OBVIOUS
  <2>2. x \in A
    BY <2>1
  <2> QED BY <2>2
<1>1. CASE r.status = "ACTIVE" /\ RepeatConditionMet(kind, s, o, criteria[r.grade])
  <2>1. fol = <<rep>>
    BY <1>1 DEF Follow
  <2>2. Carried(rows, list \o fol) = Carry(Carried(rows, list), rep)
    <3>1. <<rep>> \in Seq(A)
      BY <2>1
    <3> HIDE DEF rep, fol
    <3>2. rep \in A /\ list \o fol = Append(list, rep)
      BY <2>1, <3>1, <1>0
    <3> QED BY <3>2, CarriedAppend
  <2>3. Carry(Carried(rows, list), rep) = Carried(rows, list)
    BY DEF Carry, Action
  <2> QED BY <2>2, <2>3, <1>1 DEF Over
<1>2. CASE Over(s, o, r)
  <2>1. fol = <<res>>
    BY <1>2 DEF Follow, Over, If
  <2>2. Carried(rows, list \o fol) = Carry(Carried(rows, list), res)
    <3>1. <<res>> \in Seq(A)
      BY <2>1
    <3> HIDE DEF res, fol
    <3>2. res \in A /\ list \o fol = Append(list, res)
      BY <2>1, <3>1, <1>0
    <3> QED BY <3>2, CarriedAppend
  <2>3. Carry(Carried(rows, list), res) = Closed(Carried(rows, list), r.id)
    BY DEF Carry, Action
  <2> QED BY <2>2, <2>3, <1>2
<1>3. CASE /\ ~ResolveConditionMet(kind, s, o, criteria[r.grade])
           /\ ~(r.status = "ACTIVE" /\ RepeatConditionMet(kind, s, o, criteria[r.grade]))
  <2>1. fol = << >>
    BY <1>3 DEF Follow, If
  <2>2. list \o fol = list
    BY <2>1
  <2> QED BY <2>2, <1>3 DEF Over
<1> QED
  BY <1>1, <1>2, <1>3 DEF Over

\* Of the policies that are the opposite of the detection, none closes an alert
\* in an hour that meets its criterion, or that cannot tell,
LEMMA HitIsNotOver ==
  ASSUME StateOK, Plain, NEW o, o.rain \in Reading, NEW grade \in Grades,
         Exceeds(kind, o, criteria[grade]) # "miss"
  PROVE  ~ResolveConditionMet(kind, setting, o, criteria[grade])
<1>1. CASE setting.policy # "until_daily_accum_below"
  BY <1>1 DEF ResolveConditionMet
<1>2. CASE setting.policy = "until_daily_accum_below"
  <2>1. kind = "rain"
    BY <1>2 DEF Plain
  <2>2. criteria[grade].value \in (Nat \ {0}) \union {Null}
    BY CriteriaAssumption DEF StateOK
  <2>3. o.rain # Null => o.rain \in Int /\ o.rain > 0
    <3>1. Exceeds(kind, o, criteria[grade])
            = IF o.rain = Null THEN "unknown" ELSE Verdict(AtLeast(o.rain, criteria[grade].value))
      BY <2>1 DEF Exceeds, Measured
    <3>2. o.rain # Null => AtLeast(o.rain, criteria[grade].value)
      BY <3>1 DEF Verdict
    <3> QED BY <2>2, <3>2 DEF AtLeast, Reading
  <2>4. FallingNow(kind, o) # "miss"
    BY <2>1, <2>3 DEF FallingNow, Verdict
  <2> QED BY <2>4, <1>2 DEF ResolveConditionMet
<1> QED
  BY <1>1, <1>2

\* and none closes an alert that it repeats.
LEMMA RepeatedIsNotOver ==
  ASSUME StateOK, Plain, NEW o, NEW th,
         RepeatConditionMet(kind, setting, o, th)
  PROVE  ~ResolveConditionMet(kind, setting, o, th)
<1>1. CASE setting.policy = "until_daily_accum_below"
  BY <1>1 DEF RepeatConditionMet, ResolveConditionMet
<1>2. CASE setting.policy # "until_daily_accum_below"
  <2>1. Exceeds(kind, o, th) = "hit"
    BY <1>2 DEF RepeatConditionMet, Exceeds, Verdict
  <2> QED BY <1>2, <2>1 DEF ResolveConditionMet
<1> QED
  BY <1>1, <1>2

-----------------------------------------------------------------------------
\* The row that createEvent inserts.
IsNew(n, grade) ==
  /\ n \in Rows(Ids) /\ n.kind = kind /\ n.grade = grade
  /\ n.status = "PENDING_APPROVAL"
  /\ \A r \in open : r.id # n.id

\* One row of the open ones leaves an id free.
LEMMA CreatesTheRow ==
  ASSUME StateOK, NEW rows \in SUBSET open, \A r, s \in rows : r = s,
         NEW grade \in Grades,
         \A r \in rows : Live(r) => r.grade # grade
  PROVE  \E n : /\ Created(rows, kind, grade) = rows \union {n}
                /\ n \in Rows(Ids) /\ n.kind = kind /\ n.grade = grade
                /\ n.status = "PENDING_APPROVAL"
                /\ \A r \in rows : r.id # n.id
<1> DEFINE free == CHOOSE i \in Ids : \A r \in rows : r.id # i
           n == [id |-> free, kind |-> kind, grade |-> grade, status |-> "PENDING_APPROVAL"]
<1>1. \E i \in Ids : \A r \in rows : r.id # i
  <2>1. 1 \in Ids /\ 2 \in Ids
    BY DEF Ids
  <2>2. CASE rows = {}
    BY <2>1, <2>2
  <2>3. CASE rows # {}
    <3>1. PICK r \in rows : rows = {r}
      BY <2>3
    <3>2. r.id # 1 \/ r.id # 2
      OBVIOUS
    <3> QED BY <2>1, <3>1, <3>2
  <2> QED BY <2>2, <2>3
<1>2. free \in Ids /\ \A r \in rows : r.id # free
  BY <1>1
<1>3. Created(rows, kind, grade) = rows \union {n}
  BY DEF Created
<1>4. /\ n \in Rows(Ids) /\ n.kind = kind /\ n.grade = grade /\ n.id = free
      /\ n.status = "PENDING_APPROVAL"
  <2> HIDE DEF free
  <2> QED BY <1>2 DEF Rows, StateOK
<1> HIDE DEF n, free
<1> QED
  BY <1>2, <1>3, <1>4

\* The rows that are not over stay, and with them what is raised: at most one row,
\* when its criterion is met, nobody has been told of it and nothing is live beside it.
Judged(o, raised) ==
  /\ open' = raised \union {r \in open : ~Over(setting, o, r)}
  /\ \A n \in raised : IsNew(n, n.grade) /\ Exceeds(kind, o, criteria[n.grade]) = "hit"
  /\ \A n, m \in raised : n = m
  /\ \A n \in raised : n.grade = "warning" => \A r \in open : r.grade = "watch" /\ ~Live(r)
  /\ \A n \in raised : n.grade = "watch" => open = {}
  /\ Exceeds(kind, o, criteria["warning"]) = "hit" =>
       \E r \in raised \union open : r.grade = "warning"
  /\ Exceeds(kind, o, criteria["watch"]) = "hit" => raised \union open # {}
  /\ \A r \in open : Over(setting, o, r) =>
       \E i \in DOMAIN done' : done'[i].type = "resolve" /\ done'[i].grade = r.grade

\* What a judgement makes of the open rows while the kind is enabled: nothing when
\* the hour cannot tell; the warning alone when a watch is escalated; else the rows
\* that are not over, with a new one when nobody has been told.
LEMMA EnabledJudgement ==
  ASSUME StateOK, OneAlertPerHazard, setting.enabled, NEW o, Judge(o)
  PROVE  \/ /\ open' = open
            /\ \A g \in Grades : Exceeds(kind, o, criteria[g]) = "unknown"
         \/ /\ Exceeds(kind, o, criteria["warning"]) = "hit"
            /\ \A r \in open : r.grade # "warning"
            /\ \E n \in Rows(Ids) : n.kind = kind /\ n.grade = "warning" /\ open' = {n}
         \/ \E raised : Judged(o, raised)
<1> DEFINE rows == SetToSeq(open)
           A == About(open, Ids)
           watchHit == Exceeds(kind, o, criteria["watch"])
           warnHit  == Exceeds(kind, o, criteria["warning"])
           W == OpenOf(rows, kind, "watch")
           N == OpenOf(rows, kind, "warning")
           raise == Raise(kind, watchHit, warnHit, W, N)
           escalated == warnHit = "hit" /\ W # Null /\ W.status # "DISMISSED"
           followW == Follow(kind, setting, o, criteria["watch"], W)
           followN == Follow(kind, setting, o, criteria["warning"], N)
<1>1. /\ rows \in Seq(open) /\ open \in SUBSET Rows(Ids) /\ kind \in Kinds
      /\ "watch" \in Grades /\ "warning" \in Grades
  BY OpenIsFinite, Enumerated DEF StateOK, Grades
<1>2. \A g \in Grades : criteria[g] # Null
  BY CriteriaAssumption, RowAssumption DEF StateOK, Threshold, Reading
<1>3. /\ W # Null => W \in open /\ W.grade = "watch"
      /\ W = Null => \A r \in open : r.grade # "watch"
      /\ W # Null => \A r \in open : r.grade = "watch" => r = W
      /\ N # Null => N \in open /\ N.grade = "warning"
      /\ N = Null => \A r \in open : r.grade # "warning"
      /\ N # Null => \A r \in open : r.grade = "warning" => r = N
  BY <1>1, FindsTheRow
<1>4. \A r \in open : r.grade \in {"watch", "warning"} /\ r.kind = kind
                      /\ (Live(r) <=> r.status # "DISMISSED")
  BY DEF StateOK, Rows, Grades, Live
<1>5. /\ raise \in Seq(A) /\ followW \in Seq(A) /\ followN \in Seq(A)
  BY <1>1, <1>3, <1>4, RaiseType, FollowType
<1>6. /\ DisabledResolves = << >>
      /\ Decide(o) = IF watchHit = "unknown" /\ warnHit = "unknown" THEN << >>
                     ELSE raise \o (IF escalated THEN << >> ELSE followW) \o followN
  <2>1. DisabledResolves = << >>
    BY DEF DisabledResolves
  <2>2. EvaluateKind(kind, o, [k \in {kind} |-> criteria], setting, rows)
          = IF watchHit = "unknown" /\ warnHit = "unknown" THEN << >>
            ELSE raise \o (IF escalated THEN << >> ELSE followW) \o followN
    BY <1>1, <1>2 DEF EvaluateKind
  <2>3. \A l : l \in Seq(A) => l \o << >> = l
    OBVIOUS
  <2>4. EvaluateKind(kind, o, [k \in {kind} |-> criteria], setting, rows) \in Seq(A)
    BY <1>1, EvaluateKindType
  <2> QED BY <2>1, <2>2, <2>3, <2>4 DEF Decide
<1>7. open' = Carried(open, Decide(o)) /\ done' = Decide(o)
  BY DEF Judge
<1>8. CASE watchHit = "unknown" /\ warnHit = "unknown"
  <2>1. open' = open
    BY <1>6, <1>7, <1>8, CarriedEmpty
  <2> QED BY <2>1, <1>8 DEF Grades
<1>9. CASE escalated
  <2>1. \A r \in open : r = W
    BY <1>3, <1>4, <1>9 DEF OneAlertPerHazard
  <2>2. N = Null
    BY <2>1, <1>3, <1>9
  <2>3. followN = << >> /\ raise = <<Action("escalate", W.id, kind, "watch")>>
    BY <2>2, <1>9 DEF Follow, Raise
  <2>4. Decide(o) = <<Action("escalate", W.id, kind, "watch")>>
    <3>1. (raise \o << >>) \o << >> = raise
      BY <1>5
    <3> HIDE DEF raise, followN, followW, watchHit
    <3> QED BY <2>3, <3>1, <1>6, <1>9
  <2>5. open' = Created(Closed(open, W.id), kind, "warning")
    <3> DEFINE act == Action("escalate", W.id, kind, "watch")
    <3>3. Carried(open, <<act>>) = Carry(open, act)
      BY CarriedOne
    <3>4. Carry(open, act) = Created(Closed(open, W.id), kind, "warning")
      BY DEF Carry, Action
    <3> QED BY <3>3, <3>4, <2>4, <1>7
  <2>6. Closed(open, W.id) = {}
    BY <2>1 DEF Closed
  <2>7. \E n \in Rows(Ids) : n.kind = kind /\ n.grade = "warning" /\ open' = {n}
    BY <2>5, <2>6, <1>1, CreatesTheRow
  <2> QED BY <2>7, <2>2, <1>3, <1>9
<1>10. CASE ~(watchHit = "unknown" /\ warnHit = "unknown") /\ ~escalated
  <2>1. Decide(o) = raise \o followW \o followN
    BY <1>6, <1>10
  <2> DEFINE told(raised) ==
        /\ \A n \in raised : IsNew(n, n.grade) /\ Exceeds(kind, o, criteria[n.grade]) = "hit"
        /\ \A n, m \in raised : n = m
        /\ \A n \in raised : n.grade = "warning" =>
             \A r \in open : r.grade = "watch" /\ ~Live(r)
        /\ \A n \in raised : n.grade = "watch" => open = {}
        /\ warnHit = "hit" => \E r \in raised \union open : r.grade = "warning"
        /\ watchHit = "hit" => raised \union open # {}
  <2>2. \E raised : Carried(open, raise) = raised \union open /\ told(raised)
    <3> DEFINE create(g) == Action("create", Null, kind, g)
    <3>0. ASSUME NEW g \in Grades, raise = <<create(g)>>
          PROVE  Carried(open, raise) = Created(open, kind, g)
      <4>3. Carry(open, create(g)) = Created(open, kind, g)
        BY DEF Carry, Action
      <4> HIDE DEF create
      <4> QED BY <3>0, <4>3, CarriedOne
    <3>1. CASE warnHit = "hit" /\ N = Null
      <4>1. raise = <<create("warning")>>
        BY <3>1, <1>10 DEF Raise, If
      <4>2. \A r \in open : r = W /\ r.grade = "watch" /\ ~Live(r)
        BY <3>1, <1>10, <1>3, <1>4
      <4>3. PICK n : /\ Created(open, kind, "warning") = open \union {n}
                     /\ IsNew(n, "warning")
        <5>1. /\ open \in SUBSET open /\ \A r, s \in open : r = s
              /\ \A r \in open : Live(r) => r.grade # "warning"
          BY <4>2
        <5> QED BY <5>1, <1>1, CreatesTheRow DEF IsNew
      <4>4. n.grade = "warning"
        BY <4>3 DEF IsNew
      <4>5. told({n})
        BY <3>1, <4>2, <4>3, <4>4
      <4>6. Carried(open, raise) = {n} \union open
        BY <3>0, <4>1, <4>3, <1>1
      <4> HIDE DEF told, raise
      <4> QED BY <4>5, <4>6
    <3>2. CASE ~(warnHit = "hit") /\ watchHit = "hit" /\ W = Null /\ N = Null
      <4>1. raise = <<create("watch")>>
        BY <3>2 DEF Raise, If
      <4>2. open = {}
        BY <3>2, <1>3, <1>4
      <4>3. PICK n : /\ Created(open, kind, "watch") = open \union {n}
                     /\ IsNew(n, "watch")
        <5>1. /\ open \in SUBSET open /\ \A r, s \in open : r = s
              /\ \A r \in open : Live(r) => r.grade # "watch"
          BY <4>2
        <5> QED BY <5>1, <1>1, CreatesTheRow DEF IsNew
      <4>4. n.grade = "watch"
        BY <4>3 DEF IsNew
      <4>5. told({n})
        BY <3>2, <4>2, <4>3, <4>4
      <4>6. Carried(open, raise) = {n} \union open
        BY <3>0, <4>1, <4>3, <1>1
      <4> HIDE DEF told, raise
      <4> QED BY <4>5, <4>6
    <3>3. CASE /\ ~(warnHit = "hit" /\ N = Null)
               /\ ~(~(warnHit = "hit") /\ watchHit = "hit" /\ W = Null /\ N = Null)
      <4>1. raise = << >>
        BY <3>3, <1>10 DEF Raise, If
      <4>2. told({})
        BY <3>3, <1>3
      <4>3. Carried(open, raise) = {} \union open
        BY <4>1, CarriedEmpty
      <4> HIDE DEF told, raise
      <4> QED BY <4>2, <4>3
    <3> QED BY <3>1, <3>2, <3>3
  <2>3. PICK raised : Carried(open, raise) = raised \union open /\ told(raised)
    BY <2>2
  <2> DEFINE left == Carried(open, raise \o followW)
  <2>4. /\ raise \o followW \in Seq(A)
        /\ left = IF W # Null /\ Over(setting, o, W)
                  THEN Closed(raised \union open, W.id) ELSE raised \union open
    <3>1. raise \o followW \in Seq(A)
      BY <1>5
    <3>2. CASE W = Null
      <4>1. followW = << >>
        BY <3>2 DEF Follow
      <4>2. raise \o << >> = raise
        BY <1>5
      <4> HIDE DEF raise, followW, W
      <4> QED BY <3>1, <3>2, <4>1, <4>2, <2>3
    <3>3. CASE W # Null
      <4>1. W.grade = "watch" /\ criteria[W.grade] # Null
        BY <3>3, <1>1, <1>2, <1>3
      <4>2. /\ followW = Follow(kind, setting, o, criteria[W.grade], W)
            /\ Follow(kind, setting, o, criteria[W.grade], W) \in Seq(A)
        BY <4>1, <1>5
      <4>3. Carried(open, raise \o Follow(kind, setting, o, criteria[W.grade], W))
              = IF Over(setting, o, W) THEN Closed(Carried(open, raise), W.id)
                ELSE Carried(open, raise)
        <5> HIDE DEF raise, W, A
        <5> QED BY <3>3, <4>1, <4>2, <1>5, FollowCarried
      <4> HIDE DEF raise, followW, W, A
      <4> QED BY <3>1, <3>3, <4>2, <4>3, <2>3
    <3> QED BY <3>2, <3>3
  <2>5. open' = IF N # Null /\ Over(setting, o, N) THEN Closed(left, N.id) ELSE left
    <3>2. CASE N = Null
      <4>1. followN = << >>
        BY <3>2 DEF Follow
      <4>2. (raise \o followW) \o << >> = raise \o followW
        BY <2>4
      <4> HIDE DEF raise, followW, followN, N
      <4> QED BY <3>2, <4>1, <4>2, <2>1, <1>7
    <3>3. CASE N # Null
      <4>1. N.grade = "warning" /\ criteria[N.grade] # Null
        BY <3>3, <1>1, <1>2, <1>3
      <4>2. /\ followN = Follow(kind, setting, o, criteria[N.grade], N)
            /\ Follow(kind, setting, o, criteria[N.grade], N) \in Seq(A)
        BY <4>1, <1>5
      <4>3. Carried(open, (raise \o followW) \o Follow(kind, setting, o, criteria[N.grade], N))
              = IF Over(setting, o, N) THEN Closed(left, N.id) ELSE left
        <5> DEFINE l1 == raise \o followW
        <5> HIDE DEF N, A, l1
        <5>1. l1 \in Seq(A)
          BY <2>4 DEF l1
        <5>2. Carried(open, l1 \o Follow(kind, setting, o, criteria[N.grade], N))
                = IF Over(setting, o, N) THEN Closed(Carried(open, l1), N.id)
                  ELSE Carried(open, l1)
          BY <3>3, <4>1, <4>2, <5>1, FollowCarried
        <5> QED BY <5>2 DEF l1
      <4> HIDE DEF raise, followW, N, A, followN, left
      <4> QED BY <3>3, <4>2, <4>3, <2>1, <1>7
    <3> QED BY <3>2, <3>3
  <2>6. open' = raised \union {r \in open : ~Over(setting, o, r)}
    <3>1. \A n \in raised, r \in open : n.id # r.id
      BY <2>3 DEF IsNew
    <3>2. \A r, s \in open : r.id = s.id => r = s
      BY DEF StateOK
    <3>3. \A r \in open : (W # Null /\ r = W) \/ (N # Null /\ r = N)
      BY <1>3, <1>4
    <3>4. \A x : x \in left <=>
            x \in raised \/ (x \in open /\ ~(W # Null /\ x = W /\ Over(setting, o, W)))
      <4> HIDE DEF left, W, raise
      <4> QED BY <2>4, <3>1, <3>2, <1>3 DEF Closed
    <3>5. \A x : x \in open' <=>
            x \in left /\ ~(N # Null /\ x = N /\ Over(setting, o, N))
      <4> HIDE DEF left, N, W
      <4> QED BY <2>5, <3>1, <3>2, <3>4, <1>3 DEF Closed
    <3>6. \A n \in raised : ~(N # Null /\ n = N)
      BY <3>1, <1>3
    <3>7. \A x : x \in open' <=>
            x \in raised \/ (x \in open /\ ~Over(setting, o, x))
      <4> HIDE DEF left, N, W
      <4> QED BY <3>3, <3>4, <3>5, <3>6
    <3> HIDE DEF left, N, W
    <3> QED BY <3>7
  <2>7. \A r \in open : Over(setting, o, r) =>
          \E i \in DOMAIN done' : done'[i].type = "resolve" /\ done'[i].grade = r.grade
    <3> SUFFICES ASSUME NEW r \in open, Over(setting, o, r)
                 PROVE  \E i \in DOMAIN done' : done'[i].type = "resolve" /\ done'[i].grade = r.grade
      OBVIOUS
    <3> DEFINE act == Action("resolve", r.id, kind, r.grade)
    <3>1. CASE r.grade = "watch"
      <4>1. W # Null /\ r = W
        BY <3>1, <1>3
      <4>2. followW = <<act>>
        BY <4>1, <3>1, <1>1, <1>2 DEF Follow, Over, If
      <4>3. act \in A
        <5> HIDE DEF followW, act, A
        <5> QED BY <4>2, <1>5, ListOfOne
      <4>4. done' = (raise \o <<act>>) \o followN
        <5> HIDE DEF raise, followW, followN, act, W
        <5> QED BY <4>2, <2>1, <1>5, <1>7
      <4>5. \E i \in DOMAIN done' : done'[i] = act
        <5> HIDE DEF raise, followN, act, W, A
        <5>1. Has((raise \o <<act>>) \o followN, act)
          BY <4>3, <1>5, IsInTheList
        <5>2. Has(done', act)
          BY <4>4, <5>1
        <5> QED BY <5>2 DEF Has
      <4> QED BY <4>5 DEF Action
    <3>2. CASE r.grade = "warning"
      <4>1. N # Null /\ r = N
        BY <3>2, <1>3
      <4>2. followN = <<act>>
        BY <4>1, <3>2, <1>1, <1>2 DEF Follow, Over, If
      <4>3. act \in A
        <5> HIDE DEF followN, act, A
        <5> QED BY <4>2, <1>5, ListOfOne
      <4>4. /\ done' = ((raise \o followW) \o <<act>>) \o << >>
            /\ << >> \in Seq(A)
        <5> HIDE DEF raise, followW, followN, act, N, A
        <5>1. (raise \o followW) \o <<act>> \in Seq(A)
          BY <2>4, <4>3
        <5> QED BY <4>2, <2>1, <1>5, <1>7, <5>1
      <4>5. \E i \in DOMAIN done' : done'[i] = act
        <5> HIDE DEF raise, followW, act, N, A
        <5> DEFINE l1 == raise \o followW
        <5> HIDE DEF l1
        <5>1. l1 \in Seq(A)
          BY <2>4 DEF l1
        <5>2. Has((l1 \o <<act>>) \o << >>, act)
          BY <4>3, <4>4, <5>1, IsInTheList
        <5>3. Has(done', act)
          BY <4>4, <5>2 DEF l1
        <5> QED BY <5>3 DEF Has
      <4> QED BY <4>5 DEF Action
    <3> QED BY <3>1, <3>2, <1>4
  <2>8. Judged(o, raised)
    BY <2>3, <2>6, <2>7 DEF Judged
  <2> QED BY <2>8
<1> QED
  BY <1>8, <1>9, <1>10

\* And while it is disabled: the alerts that wait or are active go, and nothing else.
LEMMA DisabledJudgement ==
  ASSUME StateOK, ~setting.enabled, NEW o, Judge(o)
  PROVE  open' = {r \in open : ~Live(r)}
<1> DEFINE L == {r \in open : Live(r)}
           live == SetToSeq(L)
           list == [i \in DOMAIN live |-> Action("resolve", live[i].id, kind, live[i].grade)]
           len == Len(live)
<1>1. /\ live \in Seq(L) /\ \A r \in L : \E i \in DOMAIN live : live[i] = r
  <2>1. IsFiniteSet(L)
    BY OpenIsFinite, FS_Subset
  <2> HIDE DEF L
  <2> QED BY <2>1, Enumerated
<1>2. len \in Nat /\ DOMAIN live = 1 .. len
  BY <1>1
<1>3. /\ Len(list) = len
      /\ \A i \in 1 .. len : list[i].type = "resolve" /\ list[i].id = live[i].id
  <2>1. DOMAIN list = 1 .. len
    BY <1>2
  <2>2. Len(list) = len
    <3> HIDE DEF live
    <3> QED BY <1>2
  <2> QED BY <1>2, <2>2 DEF Action
<1>4. open' = Carried(open, list)
  <2>1. EvaluateKind(kind, o, [k \in {kind} |-> criteria], setting, SetToSeq(open)) = << >>
    BY DEF EvaluateKind
  <2>2. list \in Seq({list[i] : i \in 1 .. len})
    <3> HIDE DEF live
    <3> QED BY <1>2
  <2>3. << >> \o list = list
    <3> HIDE DEF list
    <3> QED BY <2>2
  <2>4. DisabledResolves = list
    BY DEF DisabledResolves
  <2>5. Decide(o) = list
    <3> HIDE DEF list
    <3> QED BY <2>1, <2>3, <2>4 DEF Decide
  <2> QED BY <2>5 DEF Judge
<1> HIDE DEF list
<1>5. PICK f :
        /\ f[0] = open
        /\ \A n \in 1 .. len : f[n] = Carry(f[n - 1], list[n])
        /\ Carried(open, list) = f[len]
  <2>1. Len(list) \in Nat
    BY <1>2, <1>3
  <2> HIDE DEF len
  <2> QED BY <2>1, <1>3, CarriedStepwise
<1> HIDE DEF live, L, len
<1> DEFINE without(n) == {r \in open : \A i \in 1 .. n : live[i].id # r.id}
           Bad == {n \in 0 .. len : f[n] # without(n)}
<1>6. Bad = {}
  <2> SUFFICES ASSUME Bad # {} PROVE FALSE
    OBVIOUS
  <2>1. PICK m \in Bad : \A j \in Bad : m <= j
    <3>1. Bad \in SUBSET Nat
      BY <1>2
    <3> HIDE DEF Bad
    <3> QED BY <3>1, SmallestOf
  <2>2. m # 0
    BY <1>5, <2>1
  <2>3. m \in 1 .. len /\ m - 1 \in 0 .. len /\ ~(m <= m - 1)
    BY <1>2, <2>1, <2>2
  <2>4. f[m - 1] = without(m - 1)
    BY <2>1, <2>3
  <2>5. f[m] = Closed(f[m - 1], live[m].id)
    <3>1. f[m] = Carry(f[m - 1], list[m])
      BY <1>5, <2>3
    <3>2. list[m].type = "resolve" /\ list[m].id = live[m].id
      BY <1>3, <2>3
    <3> QED BY <3>1, <3>2 DEF Carry
  <2>6. 1 .. m = (1 .. (m - 1)) \union {m}
    BY <1>2, <2>3
  <2>7. f[m] = without(m)
    BY <2>4, <2>5, <2>6 DEF Closed
  <2> QED BY <2>1, <2>7
<1>7. open' = without(len)
  BY <1>2, <1>4, <1>5, <1>6
<1>8. \A i \in 1 .. len : live[i] \in open /\ Live(live[i])
  <2>1. \A i \in 1 .. len : live[i] \in L
    BY <1>1, <1>2
  <2> QED BY <2>1 DEF L
<1>9. \A r \in open : (\A i \in 1 .. len : live[i].id # r.id) <=> ~Live(r)
  <2>1. \A r, s \in open : r.id = s.id => r = s
    BY DEF StateOK
  <2>2. \A r \in open : Live(r) => \E i \in 1 .. len : live[i] = r
    BY <1>1, <1>2 DEF L
  <2> QED BY <1>8, <2>1, <2>2
<1> QED
  BY <1>7, <1>9

-----------------------------------------------------------------------------
\* A judgement keeps the invariant, and says nothing of what was before it.
LEMMA JudgeKeeps ==
  ASSUME StateOK, OneAlertPerHazard, NEW o, o.rain \in Reading, Judge(o),
         UNCHANGED <<kind, setting, criteria>>
  PROVE  Inv'
<1>1. obs' = o /\ settled' /\ (Plain' <=> Plain)
  BY DEF Judge, Plain
<1>2. \A r \in open : r.grade \in Grades /\ r.grade \in {"watch", "warning"}
  BY DEF StateOK, Rows, Grades
<1>3. ASSUME \A r \in open' : r \in Rows(Ids) /\ r.kind = kind,
             \A r, s \in open' : r.id = s.id => r = s
      PROVE  StateOK'
  BY <1>1, <1>3 DEF StateOK
<1>4. CASE ~setting.enabled
  <2>1. open' = {r \in open : ~Live(r)}
    BY <1>4, DisabledJudgement
  <2>2. StateOK'
    BY <2>1, <1>3 DEF StateOK
  <2>3. OneAlertPerHazard'
    BY <2>1 DEF OneAlertPerHazard
  <2>4. HazardIsCovered' /\ NothingLeftToClose'
    BY <1>4 DEF HazardIsCovered, NothingLeftToClose
  <2> QED BY <2>2, <2>3, <2>4 DEF Inv
<1>5. CASE setting.enabled
  <2> DEFINE hit(g) == Exceeds(kind, o, criteria[g]) = "hit"
  <2>0. /\ (Hit("warning") <=> obs # Null /\ Exceeds(kind, obs, criteria["warning"]) = "hit")'
        /\ (Hit("watch") <=> obs # Null /\ Exceeds(kind, obs, criteria["watch"]) = "hit")'
    BY DEF Hit
  <2>1. \A g \in Grades : Plain /\ Exceeds(kind, o, criteria[g]) # "miss" =>
          ~ResolveConditionMet(kind, setting, o, criteria[g])
    BY HitIsNotOver
  <2>2. ASSUME open' = open,
               \A g \in Grades : Exceeds(kind, o, criteria[g]) = "unknown"
        PROVE  Inv'
    <3>1. StateOK' /\ OneAlertPerHazard'
      BY <2>2, <1>3 DEF StateOK, OneAlertPerHazard
    <3>2. HazardIsCovered'
      BY <2>0, <2>2, <1>1 DEF HazardIsCovered, Grades
    <3>3. NothingLeftToClose'
      BY <2>1, <2>2, <1>1, <1>2 DEF NothingLeftToClose
    <3> QED BY <3>1, <3>2, <3>3 DEF Inv
  <2>3. ASSUME NEW n \in Rows(Ids), n.kind = kind, n.grade = "warning", open' = {n},
               hit("warning")
        PROVE  Inv'
    <3>1. StateOK' /\ OneAlertPerHazard'
      BY <2>3, <1>3 DEF OneAlertPerHazard
    <3>2. HazardIsCovered'
      BY <2>3 DEF HazardIsCovered
    <3>3. NothingLeftToClose'
      BY <2>1, <2>3, <1>1 DEF NothingLeftToClose, Grades
    <3> QED BY <3>1, <3>2, <3>3 DEF Inv
  <2>4. ASSUME NEW raised, Judged(o, raised)
        PROVE  Inv'
    <3> USE <2>4 DEF Judged
    <3>0. \A n \in raised : n \in Rows(Ids) /\ n.kind = kind /\ n.grade \in {"watch", "warning"}
                           /\ \A r \in open : r.id # n.id
      BY <2>4 DEF IsNew, Rows, Grades
    <3>1. StateOK'
      <4>1. \A r \in open' : r \in Rows(Ids) /\ r.kind = kind
        BY <2>4, <3>0 DEF StateOK
      <4>2. \A r, s \in open' : r.id = s.id => r = s
        BY <2>4, <3>0 DEF StateOK
      <4> QED BY <4>1, <4>2, <1>3
    <3>2. OneAlertPerHazard'
      <4>1. \A r, s \in open' : /\ r.grade = s.grade => r = s
                                /\ r.grade = "watch" /\ Live(r) => s.grade # "warning"
        BY <2>4, <3>0, <1>2 DEF OneAlertPerHazard
      <4> QED BY <4>1 DEF OneAlertPerHazard
    <3>3. \A r \in open : Plain /\ hit(r.grade) => ~Over(setting, o, r)
      BY <2>1, <1>2 DEF Over
    <3>4. HazardIsCovered'
      <4>1. Plain /\ hit("warning") => \E r \in open' : r.grade = "warning"
        BY <2>4, <3>3
      <4>2. Plain /\ hit("watch") => open' # {} \/ JustResolved("warning")'
        <5> SUFFICES ASSUME Plain, hit("watch"), open' = {}
                     PROVE  JustResolved("warning")'
          OBVIOUS
        <5>1. PICK r \in open : Over(setting, o, r)
          BY <2>4
        <5>2. r.grade = "warning"
          BY <5>1, <3>3, <1>2
        <5> QED BY <5>1, <5>2, <2>4 DEF JustResolved
      <4> QED BY <4>1, <4>2, <2>0, <1>1 DEF HazardIsCovered
    <3>5. NothingLeftToClose'
      <4>1. \A r \in open : Plain /\ ~Over(setting, o, r) =>
              ~ResolveConditionMet(kind, setting, o, criteria[r.grade])
        BY RepeatedIsNotOver DEF Over
      <4>2. \A n \in raised : Plain => ~ResolveConditionMet(kind, setting, o, criteria[n.grade])
        BY <2>1, <2>4, <3>0 DEF Grades
      <4>3. Plain => \A r \in open' : ~ResolveConditionMet(kind, setting, o, criteria[r.grade])
        BY <4>1, <4>2, <2>4
      <4> QED BY <4>3, <1>1 DEF NothingLeftToClose
    <3> QED BY <3>1, <3>2, <3>4, <3>5 DEF Inv
  <2> QED
    <3>1. \/ /\ open' = open
             /\ \A g \in Grades : Exceeds(kind, o, criteria[g]) = "unknown"
          \/ \E n \in Rows(Ids) : /\ n.kind = kind /\ n.grade = "warning" /\ open' = {n}
                                  /\ hit("warning")
          \/ \E raised : Judged(o, raised)
      BY <1>5, EnabledJudgement
    <3> HIDE DEF hit
    <3> QED BY <3>1, <2>2, <2>3, <2>4
<1> QED
  BY <1>4, <1>5

\* Approving or dismissing changes the status of one row that waits.
LEMMA SetStatusKeeps ==
  ASSUME Inv, NEW r \in open, NEW status \in {"ACTIVE", "DISMISSED"}, SetStatus(r, status)
  PROVE  Inv'
<1> DEFINE s == [r EXCEPT !.status = status]
<1>1. /\ r \in Rows(Ids) /\ r.kind = kind /\ r.status = "PENDING_APPROVAL"
      /\ open' = (open \ {r}) \union {s}
      /\ UNCHANGED <<kind, setting, criteria, hour, day, obs, done, settled>>
  BY DEF SetStatus, Inv, StateOK
<1>2. /\ s \in Rows(Ids) /\ s.id = r.id /\ s.kind = r.kind /\ s.grade = r.grade
      /\ s.status = status
  BY <1>1 DEF Rows
<1> HIDE DEF s
<1>3. Live(r) /\ (Live(s) => Live(r))
  BY <1>1 DEF Live
<1>4. StateOK'
  <2>1. \A x \in open' : x \in Rows(Ids) /\ x.kind = kind
    BY <1>1, <1>2 DEF Inv, StateOK
  <2>2. \A x, y \in open' : x.id = y.id => x = y
    BY <1>1, <1>2 DEF Inv, StateOK
  <2> QED BY <2>1, <2>2, <1>1 DEF Inv, StateOK
<1>5. OneAlertPerHazard'
  BY <1>1, <1>2, <1>3 DEF Inv, OneAlertPerHazard
<1>6. /\ (\E x \in open : x.grade = "warning") => \E x \in open' : x.grade = "warning"
      /\ open' # {}
  BY <1>1, <1>2
<1>7. HazardIsCovered'
  <2>1. /\ Hit("warning")' <=> Hit("warning")
        /\ Hit("watch")' <=> Hit("watch")
        /\ Plain' <=> Plain
    BY <1>1 DEF Hit, Plain
  <2> QED BY <1>1, <1>6, <2>1 DEF Inv, HazardIsCovered
<1>8. NothingLeftToClose'
  BY <1>1, <1>2 DEF Inv, NothingLeftToClose, Plain
<1> QED
  BY <1>4, <1>5, <1>7, <1>8 DEF Inv

LEMMA InitKeeps == Init => Inv
  BY DEF Init, Inv, StateOK, OneAlertPerHazard, HazardIsCovered, NothingLeftToClose, Hit

LEMMA NextKeeps == Inv /\ [Next]_vars => Inv'
<1> SUFFICES ASSUME Inv, [Next]_vars PROVE Inv'
  OBVIOUS
<1>1. ASSUME NEW sample \in Samples[kind], Tick(sample) PROVE Inv'
  <2> DEFINE o == Observe(sample, SumsAfter(sample))
  <2>1. o.rain = sample.rain
    BY DEF Observe
  <2>2. o.rain \in Reading
    BY <2>1, SampleAssumption DEF Inv, StateOK
  <2>3. Judge(o) /\ UNCHANGED <<kind, setting, criteria>>
    BY <1>1 DEF Tick
  <2> HIDE DEF o
  <2> QED BY <2>2, <2>3, JudgeKeeps DEF Inv
<1>2. CASE TickMissing
  <2>1. /\ obs' = Null
        /\ UNCHANGED <<kind, setting, criteria, open, settled>>
    BY <1>2 DEF TickMissing
  <2>2. StateOK' /\ OneAlertPerHazard'
    BY <2>1 DEF Inv, StateOK, OneAlertPerHazard
  <2>3. HazardIsCovered' /\ NothingLeftToClose'
    BY <2>1 DEF HazardIsCovered, NothingLeftToClose, Hit
  <2> QED BY <2>2, <2>3 DEF Inv
<1>3. CASE Rejudge
  <2>1. obs.rain \in Reading /\ Judge(obs) /\ UNCHANGED <<kind, setting, criteria>>
    BY <1>3 DEF Rejudge, Inv, StateOK
  <2> QED BY <2>1, JudgeKeeps DEF Inv
<1>4. CASE Approve
  BY <1>4, SetStatusKeeps DEF Approve
<1>5. CASE Dismiss
  BY <1>5, SetStatusKeeps DEF Dismiss
<1>6. CASE PutAlertSettings \/ PutCriteria
  <2>1. /\ ~settled'
        /\ criteria' \in CriteriaOf[kind]
        /\ UNCHANGED <<kind, obs, open>>
    BY <1>6 DEF PutAlertSettings, PutCriteria, Inv, StateOK
  <2>2. StateOK' /\ OneAlertPerHazard'
    BY <2>1 DEF Inv, StateOK, OneAlertPerHazard
  <2>3. HazardIsCovered' /\ NothingLeftToClose'
    BY <2>1 DEF HazardIsCovered, NothingLeftToClose
  <2> QED BY <2>2, <2>3 DEF Inv
<1>7. CASE UNCHANGED vars
  <2>1. StateOK' /\ OneAlertPerHazard'
    BY <1>7 DEF vars, Inv, StateOK, OneAlertPerHazard
  <2>2. HazardIsCovered' /\ NothingLeftToClose'
    BY <1>7 DEF vars, Inv, HazardIsCovered, NothingLeftToClose, Hit, Plain, JustResolved
  <2> QED BY <2>1, <2>2 DEF Inv
<1> QED
  BY <1>1, <1>2, <1>3, <1>4, <1>5, <1>6, <1>7 DEF Next, Collect

\* The loop of judgement, hour after hour, with everything people do between two hours.
THEOREM JudgementInvariant == Spec => []Inv
<1> QED
  BY InitKeeps, NextKeeps, PTL DEF Spec

\* At most one unresolved alert of a grade, and no live watch beside a warning.
THEOREM OnlyOneAlert == Spec => []OneAlertPerHazard
<1>1. Inv => OneAlertPerHazard
  BY DEF Inv
<1> QED
  BY <1>1, JudgementInvariant, PTL

\* Somebody has been told of the hour that meets a criterion.
THEOREM HazardsAreCovered == Spec => []HazardIsCovered
<1>1. Inv => HazardIsCovered
  BY DEF Inv
<1> QED
  BY <1>1, JudgementInvariant, PTL

\* The second judgement of an hour leaves what the first one left.
THEOREM SecondJudgementIsHarmless == Spec => RejudgingClosesNothing
<1>1. Inv /\ [Next]_vars =>
        [Rejudge /\ settled /\ setting.enabled /\ Plain => \A r \in open : r \in open']_vars
  <2> SUFFICES ASSUME Inv, Rejudge, settled, setting.enabled, Plain
               PROVE  \A r \in open : r \in open'
    OBVIOUS
  <2>1. StateOK /\ OneAlertPerHazard /\ Judge(obs) /\ obs # Null
    BY DEF Inv, Rejudge
  <2>2. \A r \in open : ~Over(setting, obs, r)
    BY <2>1 DEF Inv, NothingLeftToClose, Over
  <2>3. Exceeds(kind, obs, criteria["warning"]) = "hit" => \E r \in open : r.grade = "warning"
    BY <2>1 DEF Inv, HazardIsCovered, Hit
  <2>4. open' = open \/ \E raised : Judged(obs, raised)
    BY <2>1, <2>3, EnabledJudgement
  <2> QED BY <2>2, <2>4 DEF Judged
<1> QED
  BY <1>1, JudgementInvariant, PTL DEF Spec, RejudgingClosesNothing

\* An hour is judged.
Judges == Rejudge \/ \E sample \in Samples[kind] : Tick(sample)

\* A judgement closes what a kind that is switched off left waiting or active, and
\* nothing else (weatherTick.ts 229-251): the step behind DisabledKindCloses.
THEOREM SwitchedOffIsClosed ==
  Spec => [][Judges /\ ~setting.enabled => open' = {r \in open : ~Live(r)}]_vars
<1>1. Inv /\ [Next]_vars =>
        [Judges /\ ~setting.enabled => open' = {r \in open : ~Live(r)}]_vars
  <2> SUFFICES ASSUME Inv, Judges, ~setting.enabled
               PROVE  open' = {r \in open : ~Live(r)}
    OBVIOUS
  <2>1. CASE Rejudge
    BY <2>1, DisabledJudgement DEF Inv, Rejudge
  <2>2. ASSUME NEW sample \in Samples[kind], Tick(sample)
        PROVE  open' = {r \in open : ~Live(r)}
    <3> DEFINE o == Observe(sample, SumsAfter(sample))
    <3>1. Judge(o)
      BY <2>2 DEF Tick
    <3> HIDE DEF o
    <3> QED BY <3>1, DisabledJudgement DEF Inv
  <2> QED BY <2>1, <2>2 DEF Judges
<1> QED
  BY <1>1, JudgementInvariant, PTL DEF Spec
=============================================================================
