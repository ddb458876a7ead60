------------------------------- MODULE Readiness -------------------------------
(***************************************************************************)
(* Whether an alert would reach people: the settings, the contents and the *)
(* collection of the weather together with the people and the channel, and *)
(* the two that judge the whole, the watchdog (server/src/jobs/watchdog.ts)*)
(* and the checklist of the dashboard (apps/web/src/lib/setup.ts,          *)
(* Dashboard.tsx), each by its own queries.                                *)
(*                                                                         *)
(* The watchdog's look at alerts that nobody approves is in RemindTick.  The *)
(* dashboard fetches its lists one by one; here it sees one moment.        *)
(*                                                                         *)
(* A definition marked "Variant" is a later one with a plausible bug.      *)
(***************************************************************************)
EXTENDS Settings, Review, Collection

CONSTANTS
  Titles,     \* bound: the title lines, with the names, of a text
  ObsLines,   \* bound: the lines of the observation
  Start       \* bound: the states and the workloads a behaviour may begin with

ASSUME StartAssumption ==
  /\ Titles \union ObsLines \subseteq Text
  /\ \A s \in Start :
       /\ s.dept \subseteq Depts /\ s.guideline \in [Slots -> Guides \union {Null}]
       /\ Criteria \subseteq DOMAIN s.criteria /\ Rows(s.criteria) /\ s.enabled \subseteq Kinds

VARIABLES
  approvers,   \* alert_recipients
  logOnly,     \* isLogOnlyChannel() of the channel of the process
  work         \* the workload (bound)

peopleVars == <<approvers, phone, logOnly>>

vars == <<settingsVars, contentVars, collectionVars, peopleVars, reviewVars, work>>

\* sendablePhoneSql(), isSendablePhone()
Sendable(p) == phone[p] = "good"

\* alertRecipientPhones(), alertRecipientReachCounts()
Reachable(people) == {p \in people : Sendable(p)}

\* dispatch(): who gets the text of a block.
Told(b) == IF logOnly THEN {} ELSE Reachable(b.recipients)

-----------------------------------------------------------------------------
(* checkHealth()                                                           *)

CollectReasons ==
  LET collected == SelectSeq(recent, LAMBDA o : o # Null)
      dead == {f \in ObsFields : \A i \in DOMAIN collected : f \notin collected[i]}
      given(reason, holds) == IF holds THEN {reason} ELSE {}
  IN  given("stopped", beat = Null \/ now > beat.at + CollectStale)
      \union given("failed", beat # Null /\ ~beat.ok)
      \union given("missing", Len(recent) >= MissingStreak /\ collected = <<>>)
      \union given("nothing comes", Len(collected) >= MissingStreak /\ dead = ObsFields)
      \union given("a field is dead",
                   Len(collected) >= MissingStreak /\ dead \notin {{}, ObsFields})
      \union given("grid", ~ValidGrid(site))

\* The departments with a guideline that says something, and those of them whose
\* recipients are none, or cannot be sent to.
WithContent ==
  {s[1] : s \in {s \in Slots : guideline[s] # Null /\ HasGuidelineContent(guideline[s])}}

\* Variant: a recipient counts for reached whatever his phone is.
ReachReasonsOfListed ==
  LET given(reason, holds) == IF holds THEN {reason} ELSE {}
  IN  given("no approver", approvers = {})
      \union given("no approver is reachable", approvers # {} /\ Reachable(approvers) = {})
      \union given("log only", logOnly)
      \union given("no guideline", WithContent = {})
      \union given("no recipient", \E d \in WithContent : recipients[d] = {})

ReachReasons ==
  LET guided == WithContent
      noRecipient == {d \in guided : recipients[d] = {}}
      noReachable == {d \in guided : Reachable(recipients[d]) = {}}
      given(reason, holds) == IF holds THEN {reason} ELSE {}
  IN  given("no approver", approvers = {})
      \union given("no approver is reachable", approvers # {} /\ Reachable(approvers) = {})
      \union given("log only", logOnly)
      \union given("no guideline", guided = {})
      \union given("no recipient", noRecipient # {})
      \union given("no recipient is reachable",
                   guided # {} /\ Cardinality(noReachable) > Cardinality(noRecipient))

JudgeReasons ==
  LET given(reason, holds) == IF holds THEN {reason} ELSE {}
  IN  given("all off", enabled = {})
      \union given("criteria",
                   \E c \in Criteria : ~ThresholdUsable(c[1], criteria[c]))
      \union given("too long", \E s \in Slots : guideline[s] # Null /\ TooLong(guideline[s]))

Reasons == CollectReasons \union ReachReasons \union JudgeReasons

-----------------------------------------------------------------------------
(* computeSetupChecklist()                                                 *)

\* Variant: a department is served once somebody is on its list.
ChecklistOfListed ==
  LET leaves == Leaves(ListOf(dept))
      guided == WithContent \intersect leaves
  IN  [site |-> ValidGrid(site), criteria |-> DOMAIN criteria = Criteria,
       departments |-> leaves # {},
       guidelines |-> leaves # {} /\ Cardinality(guided) >= Cardinality(leaves),
       recipients |-> guided # {} /\ (\A d \in guided : recipients[d] # {}),
       approvers |-> approvers # {}, phones |-> Reachable(approvers) # {},
       realChannel |-> ~logOnly]

\* Of the leaves of the tree alone, and of the rows of the criteria whatever is in them.
Checklist ==
  LET leaves == Leaves(ListOf(dept))
      guided == WithContent \intersect leaves
  IN  [site         |-> ValidGrid(site),
       criteria     |-> DOMAIN criteria = Criteria,
       departments  |-> leaves # {},
       guidelines   |-> leaves # {} /\ Cardinality(guided) >= Cardinality(leaves),
       recipients   |-> /\ guided # {}
                        /\ {d \in guided : recipients[d] = {}} = {}
                        /\ {d \in guided : recipients[d] # {} /\ Reachable(recipients[d]) = {}} = {},
       approvers    |-> approvers # {},
       phones       |-> Reachable(approvers) # {},
       realChannel  |-> ~logOnly]

Done == LET list == Checklist IN {item \in DOMAIN list : list[item]}

-----------------------------------------------------------------------------
Init ==
  /\ \E s \in Start :
       /\ criteria = s.criteria /\ enabled = s.enabled /\ site = s.site
       /\ dept = s.dept /\ guideline = s.guideline /\ recipients = s.recipients
       /\ approvers = s.approvers /\ phone = s.phone /\ logOnly = s.logOnly
       /\ beat = s.beat /\ recent = s.recent /\ work = s.work
  /\ SettingsInit
  /\ now = 0 /\ rows = <<>> /\ guidePage = Null
  /\ alert = NoAlert /\ message = [status |-> "none", blocks |-> <<>>]
  /\ rounds = [no \in 1 .. MaxRounds |-> Null]
  /\ reviewPage = Null /\ historyPage = Null /\ ended = {}
  /\ owed = {} /\ missed = [o \in {0} \union DOMAIN rounds |-> {}]

\* A phone is entered or taken out; people are put on the list of approvers and
\* taken off; the process starts with another channel.
PeopleNext ==
  \/ \E p \in People, v \in {"bad", "good"} :
       phone' = [phone EXCEPT ![p] = v] /\ UNCHANGED <<approvers, logOnly>>
  \/ \E ids \in SUBSET People : approvers' = ids /\ UNCHANGED <<phone, logOnly>>
  \/ logOnly' = ~logOnly /\ UNCHANGED <<approvers, phone>>

\* The service answers for a site that it has.
ForecastTick ==
  /\ ValidGrid(site)
  /\ \E fetched \in {<<>>} \union [now + 1 .. now + Horizon -> Points] : ForecastComes(fetched)

WeatherTick ==
  \/ TickFails
  \/ /\ ValidGrid(site)
     /\ \E fields \in SUBSET ObsFields, ok \in BOOLEAN : TickCollects(fields, ok)

\* Bound: an alert that is over is not looked at any more.
AlertLasts == alert.status \notin {"RESOLVED", "DISMISSED"}

\* Somebody is put on the list of a department or taken off it, or a phone is
\* corrected, while an alert is looked at and sent.
ListMoves ==
  \E s \in Swapped :
    /\ PutRecipients(s[1], (recipients[s[1]] \ {s[2]}) \union ({s[2]} \ recipients[s[1]]))
    /\ UNCHANGED <<dept, guideline, guidePage>>

PhoneMoves ==
  \E s \in Swapped : phone' = [phone EXCEPT ![s[2]] = "good"] /\ UNCHANGED <<approvers, logOnly>>

Next ==
  /\ UNCHANGED work
  /\ \/ "criteria" \in work /\ CriteriaNext
          /\ UNCHANGED <<contentVars, collectionVars, peopleVars, reviewVars>>
     \/ "site" \in work /\ SiteNext
          /\ UNCHANGED <<contentVars, collectionVars, peopleVars, reviewVars>>
     \/ "texts" \in work /\ OthersNext(Lengths, {})
          /\ UNCHANGED <<settingsVars, collectionVars, peopleVars, reviewVars>>
     \/ "lists" \in work /\ (OthersNext(Contents, People) \/ DeptsNext)
          /\ UNCHANGED <<settingsVars, collectionVars, peopleVars, reviewVars>>
     \/ "lists" \in work /\ PeopleNext
          /\ UNCHANGED <<settingsVars, contentVars, collectionVars, reviewVars>>
     \/ "guidelines" \in work /\ (DeptsNext \/ PageNext)
          /\ UNCHANGED <<settingsVars, collectionVars, peopleVars, reviewVars>>
     \/ "weather" \in work /\ WeatherTick
          /\ UNCHANGED <<settingsVars, contentVars, peopleVars, reviewVars>>
     \/ "forecast" \in work /\ ForecastTick
          /\ UNCHANGED <<settingsVars, contentVars, peopleVars, reviewVars>>
     \/ {"weather", "forecast"} \intersect work # {} /\ HourPasses
          /\ UNCHANGED <<settingsVars, contentVars, peopleVars, reviewVars>>
     \/ "moves" \in work /\ AlertLasts /\ ListMoves
          /\ UNCHANGED <<settingsVars, collectionVars, peopleVars, reviewVars>>
     \/ "numbers" \in work /\ AlertLasts /\ PhoneMoves
          /\ UNCHANGED <<settingsVars, contentVars, collectionVars, reviewVars>>
     \/ "review" \in work /\ AlertLasts /\ ReviewNext
          /\ UNCHANGED <<settingsVars, contentVars, collectionVars, peopleVars>>

Spec == Init /\ [][Next]_vars

-----------------------------------------------------------------------------
(* Properties                                                              *)

Ordinary(b, title, obsLine) ==
  ByteLength(RenderMessage(b, title, obsLine))
    - ContentBytes([actions |-> b.actions, notice |-> b.notice]) <= Reserve

\* When the watchdog has nothing to say, somebody is asked to approve, some kind is
\* judged, and each block of each draft that the weather tick would make is sent to
\* somebody, whole if what is around the guideline is within the reserve.
GreenMeansDelivered ==
  Reasons = {} =>
    /\ ~logOnly /\ Reachable(approvers) # {}
    /\ \E k \in enabled : \A c \in Criteria : c[1] = k => ThresholdUsable(k, criteria[c])
    /\ \E c \in Criteria : Draft(c[1], c[2]) # {}
    /\ \A c \in Criteria : \A b \in Draft(c[1], c[2]) :
         /\ Told(b) # {}
         /\ \A t \in Titles, o \in ObsLines :
              Ordinary(b, t, o) => FitToLms(RenderMessage(b, t, o)) = RenderMessage(b, t, o)

\* The checklist and the watchdog, which count by queries of their own, do not
\* contradict each other, but for a guideline of a department that is no leaf.
IndicatorsAgree ==
  LET leaves == Leaves(ListOf(dept))
      guided == WithContent
      reasons == Reasons
      done == Done
  IN  /\ done = DOMAIN Checklist =>
           /\ reasons \intersect {"grid", "no approver", "no approver is reachable",
                                  "log only", "no guideline"} = {}
           /\ reasons \intersect {"no recipient", "no recipient is reachable"} # {}
                => ~(guided \subseteq leaves)
      /\ reasons = {} =>
           /\ {"site", "approvers", "phones", "realChannel"} \subseteq done
           /\ "recipients" \in done \/ guided \intersect leaves = {}

\* What is sent fits one LMS.  It is the text, or what of it fits in front of the notice
\* that says so, to the last character (fitToLms, shared/sms.ts).
FitsOneLms ==
  \A c \in Criteria : \A b \in Draft(c[1], c[2]), t \in Titles, o \in ObsLines :
    LET text == RenderMessage(b, t, o)
        sent == FitToLms(text)
        kept == Len(sent) - Len(Notice)
    IN  /\ ByteLength(sent) <= MaxBytes
        /\ sent # text =>
             /\ ByteLength(text) > MaxBytes /\ kept < Len(text)
             /\ sent = SubSeq(text, 1, kept) \o Notice
             /\ ByteLength(SubSeq(text, 1, kept + 1) \o Notice) > MaxBytes

\* The banner, the strip and the summary, computed apart, say the same: a kind is
\* announced exactly when it has marks, by its highest grade and from the first hour of
\* that, which the strip shows if it goes so far; and a day is marked for snow exactly
\* when its total reaches a criterion (forecastRules.ts, forecastSummary.ts, api/forecast.ts).
UpcomingAgreesWithMarks ==
  LET marks == MarkExceeds(Ahead, criteria, enabled)
      announced == FindUpcoming(Ahead, criteria, enabled)
  IN  /\ \A k \in Kinds :
           LET mine == {m \in marks : m.kind = k}
               top == IF \E m \in mine : m.grade = "warning" THEN "warning" ELSE "watch"
           IN  {[grade |-> u.grade, at |-> u.at] : u \in {u \in announced : u.kind = k}}
               = IF mine = {} THEN {}
                 ELSE {[grade |-> top, at |-> Min({m.at : m \in {m \in mine : m.grade = top}})]}
      /\ \A u \in announced : u.at <= now + WindowHours =>
           [at |-> u.at, kind |-> u.kind, grade |-> u.grade] \in Strip(criteria, enabled)
      /\ "snow" \in enabled => \A d \in {DayOf(h) : h \in DOMAIN Ahead} :
           (\E m \in marks : m.kind = "snow" /\ DayOf(m.at) = d)
           <=> /\ SnoSum(Ahead, d) # Null
               /\ \E g \in UsableGrades("snow", criteria) :
                    SnoSum(Ahead, d) >= criteria[<<"snow", g>>]["snow_cm"]

\* What is announced is of the newest forecast, as long as every answer comes whole and
\* goes as far as the others (parseForecastResponse() would take one with holes): no hour
\* later than its making has values of an older one, so that the age of the newest row,
\* which alone is looked at, is that of all (runForecastTick(), and the stale of
\* api/forecast.ts and watchdog.ts).
NewestForecastCounts ==
  \A h, i \in DOMAIN rows : h > rows[i].fetched => rows[h].fetched >= rows[i].fetched

\* Once an alert is over, everybody on the lists of the departments that were sent the
\* alert is sent that it is over (weatherTick.ts 389, Settings.tsx 551), whatever screens
\* were open and whatever of them was saved, sent or sent again in which order; but for
\* two whom the message is without: departments that somebody turned off on the screen
\* before it was sent again, and those that nobody did (missed): they had been told only
\* after a round that was sent again as it was.
TheEndReachesTheTold ==
  [][(alert.status # "RESOLVED" /\ alert'.status = "RESOLVED")
       => {t \in (owed \ missed[0]) \X People : t[2] \in Reachable(recipients[t[1]])}
            \subseteq ended']_vars
=============================================================================
