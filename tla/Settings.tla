------------------------------- MODULE Settings -------------------------------
(***************************************************************************)
(* The criteria of the alerts, the kinds that are on and the site: the     *)
(* handlers that store them (server/src/api/dashboard.ts, org.ts) and the  *)
(* two screens that send the changes (Criteria.tsx, Settings.tsx), one     *)
(* browser of each; other clients use the same handlers.                   *)
(*                                                                         *)
(* PUT /criteria reads in one transaction and writes in another: they are  *)
(* two steps.  A refused request ends without a trace.                     *)
(*                                                                         *)
(* A definition marked "Variant" is a later one with a plausible bug.      *)
(***************************************************************************)
EXTENDS CriteriaFields

CONSTANTS
  MaxValue,      \* the max of every field
  Preset,        \* PRESET of the screen
  Typed,         \* bound: what is typed, <<kind, grade, field, value>>
  Bodies,        \* bound: what other clients put, some rows each
  GridNxMax, GridNyMax,
  Grids          \* bound: the coordinates that are typed

\* validateThreshold(), the inputs of the screen: numbers, or blank.
ASSUME CriteriaAssumption ==
  /\ \A rows \in Bodies \union {Preset} : Rows(rows)
  /\ \A t \in Typed : t[4] \in Nat \union {Null}
  /\ Criteria \subseteq DOMAIN Preset

VARIABLES
  criteria,    \* weather_criteria by kind and grade: the fields, Null for what is no number
  put,         \* the PUT /criteria under way, of the screen and of another client
  criteriaPage,
  mixed,       \* for the properties: a part was written over what nobody compared it with
  enabled,     \* alert_settings: the kinds that are on
  site,        \* site_settings: the coordinates
  settingsPage

settingsVars == <<criteria, put, criteriaPage, mixed, enabled, site, settingsPage>>

Overlaid(body, stored) ==
  [c \in Criteria |-> IF c \in DOMAIN body THEN body[c] ELSE stored[c]]

\* validateThreshold()
ThresholdValid(kind, t) == ThresholdUsable(kind, t) /\ \A f \in Fields(kind) : t[f] <= MaxValue

\* Variant: the rows of the body are compared with each other alone.
ComparedInBody(body, stored) ==
  \A c \in DOMAIN body : LET w == <<c[1], "watch">>
                             g == <<c[1], "warning">>
                         IN  {w, g} \subseteq DOMAIN body => Ordered(c[1], body[w], body[g])

\* As they will be: the other grade may be the stored one.
ComparedWithStored(body, stored) ==
  LET next == Overlaid(body, stored) IN
  \A c \in DOMAIN body : Ordered(c[1], next[<<c[1], "watch">>], next[<<c[1], "warning">>])

\* PUT /criteria: judged,
PutRead(by, body) ==
  /\ put[by] = Null
  /\ \A c \in DOMAIN body : ThresholdValid(c[1], body[c])
  /\ ComparedWithStored(body, criteria)
  /\ put' = [put EXCEPT ![by] = [body |-> body, current |-> TRUE]]
  /\ UNCHANGED <<criteria, criteriaPage, mixed>>

\* and written, all its rows.
PutWrite(by) ==
  /\ put[by] # Null
  /\ LET next == Overlaid(put[by].body, criteria) IN
     /\ criteria' = next
     /\ put' = [o \in DOMAIN put |->
                  IF o = by THEN Null
                  ELSE IF put[o] = Null \/ next = criteria THEN put[o]
                  ELSE [put[o] EXCEPT !.current = FALSE]]
  /\ mixed' = (mixed \/ (~put[by].current /\ DOMAIN put[by].body # Criteria))
  /\ UNCHANGED criteriaPage

-----------------------------------------------------------------------------
(* Criteria.tsx                                                            *)

\* What is stored; what is not a number is blank.
CriteriaLoad ==
  /\ criteriaPage' = criteria
  /\ UNCHANGED <<criteria, put, mixed>>

SetField(kind, grade, field, value) ==
  /\ criteriaPage # Null
  /\ criteriaPage' = [criteriaPage EXCEPT ![<<kind, grade>>][field] = value]
  /\ UNCHANGED <<criteria, put, mixed>>

LoadPreset ==
  /\ criteriaPage # Null /\ put["page"] = Null
  /\ criteriaPage' = Preset
  /\ UNCHANGED <<criteria, put, mixed>>

\* validationError(), handleSave(): the whole form.
SaveCriteria ==
  /\ criteriaPage # Null
  /\ \A c \in Criteria : ThresholdUsable(c[1], criteriaPage[c])
  /\ \A k \in Kinds : Ordered(k, criteriaPage[<<k, "watch">>], criteriaPage[<<k, "warning">>])
  /\ PutRead("page", criteriaPage)

CriteriaNext ==
  /\ \/ \E body \in Bodies : PutRead("client", body)
     \/ \E by \in DOMAIN put : PutWrite(by)
     \/ CriteriaLoad
     \/ \E t \in Typed : SetField(t[1], t[2], t[3], t[4])
     \/ LoadPreset
     \/ SaveCriteria
  /\ UNCHANGED <<enabled, site, settingsPage>>

-----------------------------------------------------------------------------
(* Settings.tsx                                                            *)

\* isValidGrid(), and the rules of PATCH /site-settings for nx and ny.
ValidGrid(grid) == grid.nx \in 1 .. GridNxMax /\ grid.ny \in 1 .. GridNyMax

SettingsLoad ==
  /\ settingsPage' = [enabled |-> enabled, site |-> site, saving |-> Null]
  /\ UNCHANGED <<enabled, site>>

\* updateAlert(), updateSite()
EditSettings ==
  /\ settingsPage # Null
  /\ \/ \E k \in Kinds : settingsPage' = [settingsPage EXCEPT !.enabled = (@ \ {k}) \union ({k} \ @)]
     \/ \E grid \in Grids : settingsPage' = [settingsPage EXCEPT !.site = grid]
  /\ UNCHANGED <<enabled, site>>

\* handleSave(): first PUT /alert-settings, for all kinds,
SaveAlertSettings ==
  /\ settingsPage # Null /\ settingsPage.saving = Null
  /\ ValidGrid(settingsPage.site)
  /\ enabled' = settingsPage.enabled
  /\ settingsPage' = [settingsPage EXCEPT !.saving = settingsPage.site]
  /\ UNCHANGED site

\* then PATCH /site-settings with the site of that moment.  It may not get there.
SaveSite ==
  /\ settingsPage # Null /\ settingsPage.saving # Null
  /\ site' \in {site, settingsPage.saving} /\ ValidGrid(settingsPage.saving)
  /\ settingsPage' = [settingsPage EXCEPT !.saving = Null]
  /\ UNCHANGED enabled

SiteNext ==
  /\ SettingsLoad \/ EditSettings \/ SaveAlertSettings \/ SaveSite
  /\ UNCHANGED <<criteria, put, criteriaPage, mixed>>
-----------------------------------------------------------------------------
\* What the installation leaves (seed.sql), or what was stored since.
SettingsInit ==
  /\ \A k \in Kinds : Ordered(k, criteria[<<k, "watch">>], criteria[<<k, "warning">>])
  /\ put = [by \in {"page", "client"} |-> Null] /\ mixed = FALSE
  /\ criteriaPage = Null /\ settingsPage = Null

SettingsNext == CriteriaNext \/ SiteNext

\* The settings alone.
SettingsSpec == SettingsInit /\ [][SettingsNext]_settingsVars

\* No criterion of a warning is below that of its watch, however the screen and other
\* clients write over each other, as long as what is compared with a stored row is
\* written before that row changes (PUT /criteria, api/dashboard.ts).
WarningIsNotBelowWatch ==
  mixed \/ \A k \in Kinds : Ordered(k, criteria[<<k, "watch">>], criteria[<<k, "warning">>])
=============================================================================
