--------------------------- MODULE AlertPipeline ---------------------------
(***************************************************************************)
(* The life of an alert from detection to release: the action half of the  *)
(* hourly tick (server/src/jobs/weatherTick.ts), the requests of the       *)
(* approvers (server/src/jobs/send.ts, and the draft editor of             *)
(* server/src/api/content.ts), and the three tables they share:            *)
(* weather_events, messages and dispatches.                                *)
(*                                                                         *)
(* One step is one database transaction, one statement of a transaction    *)
(* that reads what a later statement writes, or one round of sending.  The *)
(* transactions are READ COMMITTED, and sending happens outside them, so   *)
(* every handler is a sequence of steps between which the others run: the  *)
(* cron and the catch-up at start may overlap, and any number of approvers *)
(* click at the same time.                                                 *)
(*                                                                         *)
(* A request here has passed the permission check of runSend, or the row   *)
(* policy of messages: it is an approver's.  A request that the code       *)
(* answers with 4xx changes nothing and is not a step.                     *)
(*                                                                         *)
(* A definition marked "Variant" is a later one with a plausible bug, put  *)
(* in its place only to see a property fail.                               *)
(***************************************************************************)
EXTENDS Engine, FiniteSets

CONSTANTS
  EventIds,      \* the rows weather_events may ever hold
  Ticks,         \* runs of runWeatherTick that may overlap
  Requests,      \* requests of approvers that may overlap
  Observations,  \* what an hour may bring
  Criteria,      \* the criteria table
  SettingsSets,  \* the contents alert_settings may have
  ResolveNotice, \* site_settings.resolve_notice
  MaxRepeat,     \* bound: no round is started on an alert that has had this many
  OneShot        \* bound: whether a member of Ticks or Requests runs only once

\* A message's text is told apart by who put it there last: composeDraft, an
\* approver who saved the draft, or an approver who approved or sent again.
Origins == {"composed", "saved", "approved"}

ASSUME PipelineAssumption ==
  /\ Null \notin Origins /\ Null \notin EventIds
  /\ IsFiniteSet(EventIds)
  /\ ResolveNotice \in BOOLEAN /\ OneShot \in BOOLEAN
  /\ MaxRepeat \in Nat

VARIABLES
  event,       \* weather_events
  message,     \* messages: one row for each event
  dispatches,  \* dispatches: the numbered rounds and what became of them
  heartbeat,   \* the row weather-tick of heartbeats
  tick,        \* the runs of the tick
  req,         \* the requests
  \* What happened, for the properties:
  approved,    \* alerts that an approver's commit made active
  told,        \* <<alert, origin>> of the texts that reached at least one person
  released     \* alerts whose departments were told that it is over

tables  == <<event, message, dispatches, heartbeat>>
history == <<approved, told, released>>
vars    == <<event, message, dispatches, heartbeat, tick, req,
             approved, told, released>>

-----------------------------------------------------------------------------
LiveStatus == {"PENDING_APPROVAL", "ACTIVE"}
Statuses   == {"none", "PENDING_APPROVAL", "ACTIVE", "DISMISSED",
               "ESCALATED", "RESOLVED"}

NoEvent   == [kind |-> "rain", grade |-> "watch", status |-> "none",
              closed |-> FALSE, count |-> 0]
NoMessage == [status |-> "none", content |-> "composed"]

IdleTick == [pc |-> "idle", open |-> {}, todo |-> <<>>, content |-> Null,
             no |-> 0, reached |-> FALSE, failed |-> FALSE]
IdleReq  == [pc |-> "idle", op |-> "approve", ev |-> Null, no |-> 0, reached |-> FALSE]

\* A handler that has ended; within the bound it does not start again.
EndPc == IF OneShot THEN "done" ELSE "idle"

EndedTick == [IdleTick EXCEPT !.pc = EndPc]
EndedReq  == [IdleReq EXCEPT !.pc = EndPc]

Live(e) == event[e].status \in LiveStatus

\* The partial unique index one_open_event.
Occupied(kind, grade, others) ==
  \E e \in others : Live(e) /\ event[e].kind = kind /\ event[e].grade = grade

\* The unique index dispatches_event_repeat_uniq.
Recorded(e, no) == \E d \in dispatches : d.event = e /\ d.no = no

\* The update that opens the resend transaction holds the message's row lock
\* until the commit.
Locked(e) == \E r \in Requests : req[r].pc = "resendCommit" /\ req[r].ev = e

Unused == {e \in EventIds : event[e].status = "none"}

\* A round of sending, in which at least one person was reached or nobody was.
Round(e, origin, reached) ==
  told' = IF reached THEN told \union {<<e, origin>>} ELSE told

-----------------------------------------------------------------------------
(* The tick: load, collect, judge                                          *)

\* loadEngineInputs: a dismissed alert stays in view until it is closed.
OpenRows ==
  {[id |-> e, kind |-> event[e].kind, grade |-> event[e].grade,
    status |-> event[e].status] :
     e \in {x \in EventIds : \/ Live(x)
                             \/ event[x].status = "DISMISSED" /\ ~event[x].closed}}

TickLoad(t) ==
  /\ tick[t].pc = "idle"
  /\ tick' = [tick EXCEPT ![t] = [IdleTick EXCEPT !.pc = "fetch", !.open = OpenRows]]
  /\ UNCHANGED <<tables, req, history>>

\* The rows come in whatever order the database returns them.
Orders(S) ==
  {f \in [1 .. Cardinality(S) -> S] : \A x \in S : \E i \in DOMAIN f : f[i] = x}

\* Kinds that are switched off: the engine skips them, the tick closes them.
DisabledResolves(rows, settings) ==
  LET left == {i \in DOMAIN rows : /\ ~settings[rows[i].kind].enabled
                                   /\ rows[i].status \in LiveStatus}
      close(i) == Action("resolve", rows[i].id, rows[i].kind, rows[i].grade)
  IN  {[j \in DOMAIN f |-> close(f[j])] : f \in Orders(left)}

\* What the model can hold: a row for every alert to be raised, rounds to spare.
WithinBounds(acts) ==
  /\ Cardinality({i \in DOMAIN acts : acts[i].type \in {"create", "escalate"}})
       <= Cardinality(Unused)
  /\ \A i \in DOMAIN acts : acts[i].type = "repeat" => event[acts[i].id].count < MaxRepeat

\* The observation is in; the judgement is about the rows as they were loaded,
\* before the weather service was called.  The settings are read with the rows:
\* any contents the table may have.
TickJudge(t) ==
  /\ tick[t].pc = "fetch"
  /\ \E obs \in Observations, settings \in SettingsSets, rows \in Orders(tick[t].open) :
       \E closing \in DisabledResolves(rows, settings) :
         LET acts == Evaluate(obs, Criteria, settings, rows) \o closing
         IN  /\ WithinBounds(acts)
             /\ tick' = [tick EXCEPT ![t] = [IdleTick EXCEPT !.pc = "act", !.todo = acts]]
  /\ UNCHANGED <<tables, req, history>>

\* The hour is missing, or it failed and is there already: nothing is judged.
TickCollectFails(t) ==
  /\ tick[t].pc = "fetch"
  /\ heartbeat' = "failed"
  /\ tick' = [tick EXCEPT ![t] = EndedTick]
  /\ UNCHANGED <<event, message, dispatches, req, history>>

-----------------------------------------------------------------------------
(* The tick: the actions, one after the other                              *)

Doing(t, type) ==
  tick[t].pc = "act" /\ tick[t].todo # <<>> /\ Head(tick[t].todo).type = type

Target(t) == Head(tick[t].todo).id

\* Variant: the next action starts in the middle.
ActionDoneKeepsPlace(t, ok) ==
  tick' = [tick EXCEPT ![t].todo = Tail(@), ![t].failed = @ \/ ~ok]

\* The action is over; a failure is remembered for the heartbeat.
ActionDone(t, ok) ==
  tick' = [tick EXCEPT ![t] = [IdleTick EXCEPT
             !.pc = "act", !.todo = Tail(tick[t].todo), !.failed = tick[t].failed \/ ~ok]]

\* createEvent: alert and draft in one transaction, unless one is live already.
Insert(kind, grade) ==
  IF Occupied(kind, grade, EventIds)
  THEN UNCHANGED <<event, message>>
  ELSE \E e \in Unused :
         /\ event' = [event EXCEPT ![e] =
              [kind |-> kind, grade |-> grade, status |-> "PENDING_APPROVAL",
               closed |-> FALSE, count |-> 0]]
         /\ message' = [message EXCEPT ![e] = [status |-> "draft", content |-> "composed"]]

TickCreate(t) ==
  /\ Doing(t, "create")
  /\ Insert(Head(tick[t].todo).kind, Head(tick[t].todo).grade)
  /\ ActionDone(t, TRUE)
  /\ UNCHANGED <<dispatches, heartbeat, req, history>>

\* Variant: the watch is closed and that is all.
TickEscalateOnly(t) ==
  /\ Doing(t, "escalate")
  /\ event' = [event EXCEPT ![Target(t)].status = "ESCALATED",
                            ![Target(t)].closed = TRUE]
  /\ ActionDone(t, TRUE)
  /\ UNCHANGED <<message, dispatches, heartbeat, req, history>>

\* Escalation closes the watch in a transaction of its own, whatever has become
\* of it since it was loaded, and only then raises the warning.
TickEscalate(t) ==
  /\ Doing(t, "escalate")
  /\ event' = [event EXCEPT ![Target(t)].status = "ESCALATED",
                            ![Target(t)].closed = TRUE]
  /\ tick' = [tick EXCEPT ![t].pc = "escalated"]
  /\ UNCHANGED <<message, dispatches, heartbeat, req, history>>

TickRaiseWarning(t) ==
  /\ tick[t].pc = "escalated"
  /\ Insert(Head(tick[t].todo).kind, "warning")
  /\ ActionDone(t, TRUE)
  /\ UNCHANGED <<dispatches, heartbeat, req, history>>

\* A repetition sends the approved message; without one it is skipped.
TickRepeatRead(t) ==
  /\ Doing(t, "repeat")
  /\ IF message[Target(t)].status = "approved"
     THEN tick' = [tick EXCEPT ![t].pc = "repeatSend",
                               ![t].content = message[Target(t)].content]
     ELSE ActionDone(t, TRUE)
  /\ UNCHANGED <<tables, req, history>>

\* The recipients are read anew for every round.  There may be none, which is
\* only logged, and those there are may all fail, which counts as a failure.
TickRepeatSend(t) ==
  /\ tick[t].pc = "repeatSend"
  /\ \E reached, nobody \in BOOLEAN :
       /\ reached => ~nobody
       /\ Round(Target(t), tick[t].content, reached)
       /\ tick' = [tick EXCEPT ![t].pc = "repeatRecord", ![t].reached = reached,
                               ![t].failed = @ \/ ~(reached \/ nobody)]
  /\ UNCHANGED <<tables, req, approved, released>>

\* The round is numbered after it was sent, from the counter as it is now.
TickRepeatNumber(t) ==
  /\ tick[t].pc = "repeatRecord"
  /\ tick' = [tick EXCEPT ![t].pc = "repeatCommit",
                          ![t].no = event[Target(t)].count + 1]
  /\ UNCHANGED <<tables, req, history>>

\* Variant: the counter stays where it was.
TickRepeatUncounted(t) ==
  /\ tick[t].pc = "repeatCommit"
  /\ IF Recorded(Target(t), tick[t].no)
     THEN ActionDone(t, FALSE) /\ UNCHANGED dispatches
     ELSE /\ dispatches' = dispatches \union
               {[event |-> Target(t), no |-> tick[t].no, reached |-> tick[t].reached]}
          /\ ActionDone(t, TRUE)
  /\ UNCHANGED <<event, message, heartbeat, req, history>>

\* A number that is taken aborts the transaction: the round leaves no trace.
TickRepeatCommit(t) ==
  /\ tick[t].pc = "repeatCommit"
  /\ IF Recorded(Target(t), tick[t].no)
     THEN ActionDone(t, FALSE) /\ UNCHANGED <<event, dispatches>>
     ELSE /\ dispatches' = dispatches \union
               {[event |-> Target(t), no |-> tick[t].no, reached |-> tick[t].reached]}
          /\ event' = [event EXCEPT ![Target(t)].count = tick[t].no]
          /\ ActionDone(t, TRUE)
  /\ UNCHANGED <<message, heartbeat, req, history>>

\* Variant: the release is announced whether or not the draft was approved.
TickResolveReadAny(t) ==
  /\ Doing(t, "resolve")
  /\ tick' = [tick EXCEPT ![t].pc = "resolveCommit",
                          ![t].content = message[Target(t)].content]
  /\ UNCHANGED <<tables, req, history>>

\* Was the message approved?  Decides who is told of the release.
TickResolveRead(t) ==
  /\ Doing(t, "resolve")
  /\ tick' = [tick EXCEPT ![t].pc = "resolveCommit",
       ![t].content = IF message[Target(t)].status = "approved"
                      THEN message[Target(t)].content ELSE Null]
  /\ UNCHANGED <<tables, req, history>>

TickResolveCommit(t) ==
  /\ tick[t].pc = "resolveCommit"
  /\ event' = [event EXCEPT ![Target(t)].status = "RESOLVED",
                            ![Target(t)].closed = TRUE]
  /\ IF tick[t].content # Null /\ ResolveNotice
     THEN tick' = [tick EXCEPT ![t].pc = "release"]
     ELSE ActionDone(t, TRUE)
  /\ UNCHANGED <<message, dispatches, heartbeat, req, history>>

TickRelease(t) ==
  /\ tick[t].pc = "release"
  /\ released' = released \union {Target(t)}
  /\ ActionDone(t, TRUE)
  /\ UNCHANGED <<tables, req, approved, told>>

TickFinish(t) ==
  /\ tick[t].pc = "act" /\ tick[t].todo = <<>>
  /\ heartbeat' = IF tick[t].failed THEN "failed" ELSE "ok"
  /\ tick' = [tick EXCEPT ![t] = EndedTick]
  /\ UNCHANGED <<event, message, dispatches, req, history>>

-----------------------------------------------------------------------------
(* The requests of the approvers                                           *)

ReqDone(r) == req' = [req EXCEPT ![r] = EndedReq]

Ask(r, pc, op, e) ==
  req' = [req EXCEPT ![r] = [IdleReq EXCEPT !.pc = pc, !.op = op, !.ev = e]]

\* Variant: any alert can be approved.
ApproveReadAny(r, e) ==
  /\ req[r].pc = "idle"
  /\ event[e].status # "none"
  /\ Ask(r, "approveCommit", "approve", e)
  /\ UNCHANGED <<tables, tick, history>>

\* approve: the alert waits for approval when the transaction reads it ...
ApproveRead(r, e) ==
  /\ req[r].pc = "idle"
  /\ event[e].status = "PENDING_APPROVAL"
  /\ Ask(r, "approveCommit", "approve", e)
  /\ UNCHANGED <<tables, tick, history>>

\* ... and is made active by updates that no longer look at its status.  Only
\* the unique index can refuse them, when another alert took the place.
ApproveCommit(r) ==
  LET e == req[r].ev
  IN  /\ req[r].pc = "approveCommit" /\ ~Locked(e)
      /\ IF Occupied(event[e].kind, event[e].grade, EventIds \ {e})
         THEN ReqDone(r) /\ UNCHANGED <<event, message, approved>>
         ELSE /\ message' = [message EXCEPT ![e] =
                               [status |-> "approved", content |-> "approved"]]
              /\ event' = [event EXCEPT ![e].status = "ACTIVE", ![e].count = 1]
              /\ approved' = approved \union {e}
              /\ req' = [req EXCEPT ![r].pc = "send", ![r].no = 1]
      /\ UNCHANGED <<dispatches, heartbeat, tick, told, released>>

\* dispatch(): there is somebody to send to (0 targets were refused before).
Send(r) ==
  /\ req[r].pc = "send"
  /\ \E reached \in BOOLEAN :
       /\ Round(req[r].ev, "approved", reached)
       /\ req' = [req EXCEPT ![r].pc = "record", ![r].reached = reached]
  /\ UNCHANGED <<tables, tick, approved, released>>

\* Variant: the approval stands whatever became of the round.
AfterRoundStands(r, reached) == ReqDone(r)

\* Variant: an approval whose round cannot be recorded is taken back as well.
AfterRoundStrict(r, reached) ==
  IF req[r].op = "approve" /\ (~reached \/ Recorded(req[r].ev, req[r].no))
  THEN req' = [req EXCEPT ![r].pc = "unapprove"]
  ELSE ReqDone(r)

\* What follows the round: an approval that reached nobody is taken back.
AfterRound(r, reached) ==
  IF req[r].op = "approve" /\ ~reached
  THEN req' = [req EXCEPT ![r].pc = "unapprove"]
  ELSE ReqDone(r)

\* The insert fails on a number that is taken; the round is not recorded then.
Record(r) ==
  /\ req[r].pc = "record"
  /\ dispatches' = IF Recorded(req[r].ev, req[r].no) THEN dispatches
                   ELSE dispatches \union {[event |-> req[r].ev, no |-> req[r].no,
                                            reached |-> req[r].reached]}
  /\ AfterRound(r, req[r].reached)
  /\ UNCHANGED <<event, message, heartbeat, tick, history>>

\* Variant: the alert goes back to waiting whatever it has become.
UnapproveAny(r) ==
  LET e == req[r].ev
  IN  /\ req[r].pc = "unapprove" /\ ~Locked(e)
      /\ event' = [event EXCEPT ![e].status = "PENDING_APPROVAL", ![e].count = 0]
      /\ message' = [message EXCEPT ![e].status = "draft"]
      /\ ReqDone(r)
      /\ UNCHANGED <<dispatches, heartbeat, tick, history>>

\* Variant: the message stays approved.
UnapproveEventOnly(r) ==
  LET e == req[r].ev
  IN  /\ req[r].pc = "unapprove" /\ ~Locked(e)
      /\ event' = IF event[e].status = "ACTIVE"
                  THEN [event EXCEPT ![e].status = "PENDING_APPROVAL", ![e].count = 0]
                  ELSE event
      /\ ReqDone(r)
      /\ UNCHANGED <<message, dispatches, heartbeat, tick, history>>

\* unapprove(): the alert goes back to waiting only if it is still active, the
\* message goes back to a draft in any case.
Unapprove(r) ==
  LET e == req[r].ev
  IN  /\ req[r].pc = "unapprove" /\ ~Locked(e)
      /\ event' = IF event[e].status = "ACTIVE"
                  THEN [event EXCEPT ![e].status = "PENDING_APPROVAL", ![e].count = 0]
                  ELSE event
      /\ message' = [message EXCEPT ![e].status = "draft"]
      /\ ReqDone(r)
      /\ UNCHANGED <<dispatches, heartbeat, tick, history>>

\* Variant: a draft can be resent.
ResendCheckDraft(r, e) ==
  /\ req[r].pc = "idle"
  /\ Live(e)
  /\ event[e].count < MaxRepeat
  /\ Ask(r, "resendRead", "resend", e)
  /\ UNCHANGED <<tables, tick, history>>

\* resend: one transaction checks that the alert is open and approved ...
ResendCheck(r, e) ==
  /\ req[r].pc = "idle"
  /\ Live(e) /\ message[e].status = "approved"
  /\ event[e].count < MaxRepeat
  /\ Ask(r, "resendRead", "resend", e)
  /\ UNCHANGED <<tables, tick, history>>

\* ... a second one takes the message's lock and reads the counter ...
ResendRead(r) ==
  LET e == req[r].ev
  IN  /\ req[r].pc = "resendRead" /\ ~Locked(e)
      /\ req' = [req EXCEPT ![r].pc = "resendCommit", ![r].no = event[e].count + 1]
      /\ UNCHANGED <<tables, tick, history>>

\* ... and writes the message's content and the counter.
ResendCommit(r) ==
  LET e == req[r].ev
  IN  /\ req[r].pc = "resendCommit"
      /\ message' = [message EXCEPT ![e].content = "approved"]
      /\ event' = [event EXCEPT ![e].count = req[r].no]
      /\ req' = [req EXCEPT ![r].pc = "send"]
      /\ UNCHANGED <<dispatches, heartbeat, tick, history>>

\* dismiss: one guarded update.
Dismiss(e) ==
  /\ event[e].status = "PENDING_APPROVAL"
  /\ event' = [event EXCEPT ![e].status = "DISMISSED"]
  /\ UNCHANGED <<message, dispatches, heartbeat, tick, req, history>>

\* Variant: an approved message can be edited.
SaveReadAny(r, e) ==
  /\ req[r].pc = "idle"
  /\ message[e].status # "none"
  /\ Ask(r, "saveCommit", "save", e)
  /\ UNCHANGED <<tables, tick, history>>

\* PATCH /messages/:id: the status is read by one statement ...
SaveRead(r, e) ==
  /\ req[r].pc = "idle"
  /\ message[e].status = "draft"
  /\ Ask(r, "saveCommit", "save", e)
  /\ UNCHANGED <<tables, tick, history>>

\* ... and the content is written by another, which does not look at it.
SaveCommit(r) ==
  LET e == req[r].ev
  IN  /\ req[r].pc = "saveCommit" /\ ~Locked(e)
      /\ message' = [message EXCEPT ![e].content = "saved"]
      /\ ReqDone(r)
      /\ UNCHANGED <<event, dispatches, heartbeat, tick, history>>

-----------------------------------------------------------------------------
(* Faults                                                                  *)

InAction(t) == tick[t].pc \notin {"idle", "fetch", "done"} /\ tick[t].todo # <<>>

\* An exception in an action (a transaction that fails, a channel that throws)
\* ends that action only.  A round may have reached somebody before it.
TickThrows(t) ==
  /\ InAction(t)
  /\ IF tick[t].pc = "repeatSend"
     THEN \E reached \in BOOLEAN : Round(Target(t), tick[t].content, reached)
     ELSE UNCHANGED told
  /\ ActionDone(t, FALSE)
  /\ UNCHANGED <<tables, req, approved, released>>

\* Outside the actions nothing catches an exception but guarded(): the run ends
\* there and leaves no heartbeat.
TickDies(t) ==
  /\ \/ tick[t].pc = "fetch"
     \/ tick[t].pc = "act" /\ tick[t].todo = <<>>
  /\ tick' = [tick EXCEPT ![t] = EndedTick]
  /\ UNCHANGED <<tables, req, history>>

\* A transaction of a request fails, or the channel throws before anybody was
\* tried: then there is nothing to record.  A record that cannot be written is
\* only logged, and so is an approval that cannot be taken back.
ReqThrows(r) ==
  /\ req[r].pc \notin {"idle", "done"}
  /\ CASE req[r].pc = "send"   -> AfterRound(r, FALSE)
       [] req[r].pc = "record" -> AfterRound(r, req[r].reached)
       [] OTHER                -> ReqDone(r)
  /\ UNCHANGED <<tables, tick, history>>

\* The process stops and starts again; open transactions are rolled back.
Crash ==
  /\ tick' = [t \in Ticks |-> IF tick[t].pc = "idle" THEN tick[t] ELSE EndedTick]
  /\ req' = [r \in Requests |-> IF req[r].pc = "idle" THEN req[r] ELSE EndedReq]
  /\ UNCHANGED <<tables, history>>

-----------------------------------------------------------------------------
Init ==
  /\ event = [e \in EventIds |-> NoEvent]
  /\ message = [e \in EventIds |-> NoMessage]
  /\ dispatches = {}
  /\ heartbeat = "none"
  /\ tick = [t \in Ticks |-> IdleTick]
  /\ req = [r \in Requests |-> IdleReq]
  /\ approved = {} /\ told = {} /\ released = {}

\* A handler starts ...
Start ==
  \/ \E t \in Ticks : TickLoad(t)
  \/ \E e \in EventIds : Dismiss(e)
  \/ \E r \in Requests, e \in EventIds :
       \/ ApproveRead(r, e)
       \/ ResendCheck(r, e)
       \/ SaveRead(r, e)

\* ... and goes on.
TickStep(t) ==
  \/ TickJudge(t) \/ TickCollectFails(t)
  \/ TickCreate(t) \/ TickEscalate(t) \/ TickRaiseWarning(t)
  \/ TickRepeatRead(t) \/ TickRepeatSend(t) \/ TickRepeatNumber(t) \/ TickRepeatCommit(t)
  \/ TickResolveRead(t) \/ TickResolveCommit(t) \/ TickRelease(t)
  \/ TickFinish(t)

ReqStep(r) ==
  \/ ApproveCommit(r) \/ Send(r) \/ Record(r) \/ Unapprove(r)
  \/ ResendRead(r) \/ ResendCommit(r) \/ SaveCommit(r)

Continue == (\E t \in Ticks : TickStep(t)) \/ (\E r \in Requests : ReqStep(r))

Faults ==
  \/ Crash
  \/ \E t \in Ticks : TickThrows(t) \/ TickDies(t)
  \/ \E r \in Requests : ReqThrows(r)

Next == Start \/ Continue \/ Faults

Spec == Init /\ [][Next]_vars

\* Every interleaving, but nothing fails.
SpecFaultless == Init /\ [][Start \/ Continue]_vars

\* Nothing is in the middle of anything.
Quiescent ==
  /\ \A t \in Ticks : tick[t].pc \in {"idle", "done"}
  /\ \A r \in Requests : req[r].pc \in {"idle", "done"}

\* The same handlers one at a time and without faults, as the tests run them.
NextSerial == (Quiescent /\ Start) \/ Continue

SpecSerial == Init /\ [][NextSerial]_vars

-----------------------------------------------------------------------------
(* Properties of every interleaving                                        *)

TickPcs == {"idle", "fetch", "act", "escalated", "repeatSend", "repeatRecord",
            "repeatCommit", "resolveCommit", "release", "done"}
ReqPcs  == {"idle", "approveCommit", "send", "record", "unapprove",
            "resendRead", "resendCommit", "saveCommit", "done"}

EventState   == [kind : Kinds, grade : Grades, status : Statuses,
                 closed : BOOLEAN, count : Nat]
MessageState == [status : {"none", "draft", "approved"}, content : Origins]
Dispatch     == [event : EventIds, no : Nat, reached : BOOLEAN]
TickState    == [pc : TickPcs, open : SUBSET Rows(EventIds),
                 todo : Seq(Actions(EventIds)), content : Origins \union {Null},
                 no : Nat, reached : BOOLEAN, failed : BOOLEAN]
ReqState     == [pc : ReqPcs, op : {"approve", "resend", "save"},
                 ev : EventIds \union {Null}, no : Nat, reached : BOOLEAN]

TablesOK ==
  /\ event \in [EventIds -> EventState]
  /\ message \in [EventIds -> MessageState]
  /\ dispatches \subseteq Dispatch
  /\ heartbeat \in {"none", "ok", "failed"}

\* In the middle of an action: that action is the first one still to be done.
Midway(t) == tick[t].pc \notin {"idle", "fetch", "act", "done"}

TickOK ==
  /\ tick \in [Ticks -> TickState]
  /\ \A t \in Ticks : Midway(t) =>
       tick[t].todo # <<>> /\ Head(tick[t].todo).type # "create"

ReqOK ==
  /\ req \in [Requests -> ReqState]
  /\ \A r \in Requests : req[r].pc \notin {"idle", "done"} => req[r].ev \in EventIds

HistoryOK ==
  /\ approved \subseteq EventIds
  /\ told \subseteq EventIds \X Origins
  /\ released \subseteq EventIds

\* The tables and the handlers hold what their types allow; a tick that is in
\* the middle of an action has that action, and the alert it is about, at the
\* head of its list.
TypeOK == TablesOK /\ TickOK /\ ReqOK /\ HistoryOK

\* A person stands behind everything that is sent: nobody receives an alert
\* that no approver approved, nor a text that no approver submitted, whatever
\* the tick had loaded, read or numbered before.  The draft the machine
\* composed never goes out on its own.
HumanInTheLoop ==
  told \subseteq approved \X {"saved", "approved"}

Over(e) == event[e].status \in {"DISMISSED", "ESCALATED", "RESOLVED"}

ApprovalInFlight(e) == \E r \in Requests : req[r].pc = "approveCommit" /\ req[r].ev = e

\* An alert that is over can only come back by an approval that had read it as
\* waiting before it was over: ApproveCommit does not look again.  Once no such
\* approval is in flight the alert is over for good, whatever ticks, resends
\* and taken-back approvals are still running.
OverForGood ==
  [][\A e \in EventIds : Over(e) /\ ~ApprovalInFlight(e)
        => (Over(e) /\ ~ApprovalInFlight(e))']_vars

\* What the pipeline promises, without its steps: ApprovalGate.
Gate == INSTANCE ApprovalGate WITH
          Alerts   <- EventIds,
          Authors  <- {"saved", "approved"},
          raised   <- {e \in EventIds : event[e].status # "none"},
          approved <- approved,
          told     <- told,
          released <- released

ImplementsGate == Gate!Spec

-----------------------------------------------------------------------------
(* Properties of handlers that run one at a time, without faults           *)

\* Somebody has received this alert.
Told(e) == \E v \in told : v[1] = e

\* send.ts 314-320: an approval that reached nobody is as if it had not been.
\* So an alert that stands as active has reached somebody.
ActiveMeansReached ==
  Quiescent => \A e \in EventIds : event[e].status = "ACTIVE" => Told(e)

\* ... and one that reached somebody does not stand as waiting: "a worse state,
\* told and yet waiting for approval" (jobs.test.ts 1721-1724).
PendingMeansUntold ==
  Quiescent => \A e \in EventIds : event[e].status = "PENDING_APPROVAL" => ~Told(e)

\* An alert that is over stays so.
OverStaysOver == [][\A e \in EventIds : Over(e) => Over(e)']_vars

\* Sending is always of a text an approver approved or resent, never of a draft
\* saved in between (2026-08-12-weather-management-design.md 181: the approved
\* snapshot only).
ApprovedSnapshotOnly == \A v \in told : v[2] = "approved"

\* 0005: approval is round 1, every repetition and resend the next one, all of
\* them counted by repeat_count: the history of an alert has no gap.
NumberedWithoutGap ==
  Quiescent => \A e \in EventIds : event[e].count > 0 =>
    {d.no : d \in {x \in dispatches : x.event = e}} = 1 .. event[e].count

\* Who was told that it begins is told that it is over, and nobody else
\* (weatherTick.ts 239-242).
ReleaseReachesTheTold ==
  Quiescent /\ ResolveNotice => \A e \in EventIds : event[e].status = "RESOLVED" =>
    (Told(e) <=> e \in released)

\* A watch that was escalated has a warning in its place.
EscalationRaisesWarning ==
  Quiescent => \A e \in EventIds : event[e].status = "ESCALATED" =>
    \E w \in EventIds : event[w].kind = event[e].kind /\ event[w].grade = "warning"
                          /\ event[w].status # "none"

\* An alert that reached somebody has a round in the history that says so; it
\* is to keep the number free for the round that is tried again that send.ts
\* 111-116 leaves out the row of a round that failed at once.
NothingUnrecorded ==
  Quiescent => \A e \in EventIds :
    Told(e) => \E d \in dispatches : d.event = e /\ d.reached
=============================================================================
