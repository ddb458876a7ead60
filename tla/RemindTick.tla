----------------------------- MODULE RemindTick -----------------------------
(***************************************************************************)
(* The reminders (server/src/jobs/remindTick.ts): every ten minutes the    *)
(* alerts that have waited for an approval longer than the interval are    *)
(* brought to the approvers' attention again, REMIND_LIMIT times at most,  *)
(* and then the administrators are told that nobody answers.               *)
(*                                                                         *)
(* A run reads the alerts that are due, with their counters, in one        *)
(* transaction, and then works the list off, sending outside any           *)
(* transaction and counting in one update for each alert.  Meanwhile the   *)
(* alerts are approved, dismissed, escalated, resolved and taken back      *)
(* (Raise, Settle, Reopen: what AlertPipeline does in detail), and another *)
(* run may start: the scheduler does not wait for the last one.  Whether a *)
(* reminder was received is not looked at.                                 *)
(*                                                                         *)
(* Behind the reminders there is the watchdog (server/src/jobs/watchdog.ts *)
(* 344-361, 400-443): every six hours it names to the approvers the alerts *)
(* that have waited too long, whatever became of the reminders.            *)
(*                                                                         *)
(* A definition marked "Variant" is the one after it with a plausible bug. *)
(***************************************************************************)
EXTENDS Naturals, FiniteSets

CONSTANTS
  EventIds,     \* rows of weather_events
  Runs,         \* runs of runRemindTick that may overlap
  RemindLimit   \* REMIND_LIMIT

ASSUME RemindAssumption == RemindLimit \in Nat \ {0} /\ "nobody" \notin EventIds

VARIABLES
  status,     \* weather_events.status
  count,      \* weather_events.remind_count
  waited,     \* the interval has passed since the detection or the last reminder
  run,        \* the runs
  old,        \* REMIND_LIMIT intervals have passed since the detection
  reported,   \* the alerts that the last report of the watchdog names
  reminded,   \* reminders sent for the alert, no more counted than are too many (for the properties)
  handed,     \* alerts the administrators were told about (for the properties)
  faulty      \* whether runs may fail in this behaviour

events == <<status, count, waited>>
watch  == <<old, reported, faulty>>
vars   == <<status, count, waited, old, reported, run, reminded, handed, faulty>>

IdleRun == [pc |-> "idle", due |-> {}, id |-> "nobody", nth |-> 0]

-----------------------------------------------------------------------------
(* What the rest of the server does to an alert                            *)

Raise(e) ==
  /\ status[e] = "none"
  /\ status' = [status EXCEPT ![e] = "PENDING_APPROVAL"]
  /\ UNCHANGED <<count, waited, watch, run, reminded, handed>>

\* Approved (even if it is over, when the approval had been read before: see
\* AlertPipeline), or over: dismissed, escalated, resolved.
Settle(e) ==
  /\ \/ /\ status[e] \in {"PENDING_APPROVAL", "over"}
        /\ status' = [status EXCEPT ![e] = "ACTIVE"]
     \/ /\ status[e] \in {"PENDING_APPROVAL", "ACTIVE"}
        /\ status' = [status EXCEPT ![e] = "over"]
  /\ UNCHANGED <<count, waited, watch, run, reminded, handed>>

\* Variant: the reminders start again with the alert.
ReopenAfresh(e) ==
  /\ status[e] = "ACTIVE"
  /\ status' = [status EXCEPT ![e] = "PENDING_APPROVAL"]
  /\ count' = [count EXCEPT ![e] = 0]
  /\ UNCHANGED <<waited, watch, run, reminded, handed>>

\* unapprove() leaves the counter and the time of the last reminder alone.
Reopen(e) ==
  /\ status[e] = "ACTIVE"
  /\ status' = [status EXCEPT ![e] = "PENDING_APPROVAL"]
  /\ UNCHANGED <<count, waited, watch, run, reminded, handed>>

\* remind_interval_min go by.
Elapse(e) ==
  /\ status[e] # "none" /\ ~waited[e]
  /\ waited' = [waited EXCEPT ![e] = TRUE]
  /\ UNCHANGED <<status, count, watch, run, reminded, handed>>

\* So much time that all reminders would have been sent; the first at least is due.
GrowOld(e) ==
  /\ status[e] # "none" /\ ~old[e]
  /\ waited[e] \/ count[e] > 0
  /\ old' = [old EXCEPT ![e] = TRUE]
  /\ UNCHANGED <<events, reported, run, reminded, handed, faulty>>

-----------------------------------------------------------------------------
(* A run                                                                   *)

\* Variant: there is no limit.
DueForEver == {e \in EventIds : status[e] = "PENDING_APPROVAL" /\ waited[e]}

Due == {e \in EventIds : status[e] = "PENDING_APPROVAL" /\ count[e] < RemindLimit /\ waited[e]}

Load(r) ==
  /\ run[r].pc = "idle"
  /\ run' = [run EXCEPT ![r] =
       [pc |-> "next", due |-> {[id |-> e, count |-> count[e]] : e \in Due},
        id |-> "nobody", nth |-> 0]]
  /\ UNCHANGED <<events, watch, reminded, handed>>

\* The reminder of the next alert goes out; which one is next is the database's
\* choice.  The alert is not looked at again.
Remind(r) ==
  /\ run[r].pc = "next"
  /\ \E d \in run[r].due :
       /\ reminded' = [reminded EXCEPT ![d.id] = IF @ > RemindLimit THEN @ ELSE @ + 1]
       /\ run' = [run EXCEPT ![r] = [pc |-> "count", due |-> run[r].due \ {d},
                                     id |-> d.id, nth |-> d.count + 1]]
  /\ UNCHANGED <<events, watch, handed>>

\* Variant: the last reminder is not taken for the last.
CountOneMore(r) ==
  /\ run[r].pc = "count"
  /\ count' = [count EXCEPT ![run[r].id] = @ + 1]
  /\ waited' = [waited EXCEPT ![run[r].id] = FALSE]
  /\ run' = [run EXCEPT ![r].pc = IF run[r].nth > RemindLimit THEN "handOver" ELSE "next"]
  /\ UNCHANGED <<status, watch, reminded, handed>>

\* The counter goes up by one from what it is now; the limit is judged by what
\* it was when the list was read.
Count(r) ==
  /\ run[r].pc = "count"
  /\ count' = [count EXCEPT ![run[r].id] = @ + 1]
  /\ waited' = [waited EXCEPT ![run[r].id] = FALSE]
  /\ run' = [run EXCEPT ![r].pc = IF run[r].nth >= RemindLimit THEN "handOver" ELSE "next"]
  /\ UNCHANGED <<status, watch, reminded, handed>>

\* Variant: the administrators are spared an alert that was decided meanwhile.
HandOverIfWaiting(r) ==
  /\ run[r].pc = "handOver"
  /\ handed' = IF status[run[r].id] = "PENDING_APPROVAL"
               THEN handed \union {run[r].id} ELSE handed
  /\ run' = [run EXCEPT ![r].pc = "next"]
  /\ UNCHANGED <<events, watch, reminded>>

\* The administrators there are.
HandOver(r) ==
  /\ run[r].pc = "handOver"
  /\ handed' = handed \union {run[r].id}
  /\ run' = [run EXCEPT ![r].pc = "next"]
  /\ UNCHANGED <<events, watch, reminded>>

Finish(r) ==
  /\ run[r].pc = "next" /\ run[r].due = {}
  /\ run' = [run EXCEPT ![r] = IdleRun]
  /\ UNCHANGED <<events, watch, reminded, handed>>

\* A channel that throws, a failed transaction or a restart: nothing catches an
\* exception inside the run, and guarded() only logs it.
Abort(r) ==
  /\ faulty
  /\ run[r].pc # "idle"
  /\ run' = [run EXCEPT ![r] = IdleRun]
  /\ UNCHANGED <<events, watch, reminded, handed>>

-----------------------------------------------------------------------------
(* The watchdog                                                            *)

\* Variant: only the reminders that were counted say how long an alert has waited.
StalledByCount == {e \in EventIds : status[e] = "PENDING_APPROVAL" /\ count[e] >= RemindLimit}

Stalled ==
  {e \in EventIds : status[e] = "PENDING_APPROVAL" /\ (count[e] >= RemindLimit \/ old[e])}

\* checkHealth(), reportIfUnhealthy()
Watch ==
  /\ reported' = Stalled
  /\ UNCHANGED <<events, old, run, reminded, handed, faulty>>

-----------------------------------------------------------------------------
Init ==
  /\ status = [e \in EventIds |-> "none"]
  /\ count = [e \in EventIds |-> 0]
  /\ waited = [e \in EventIds |-> FALSE]
  /\ old = [e \in EventIds |-> FALSE]
  /\ reported = {}
  /\ faulty \in BOOLEAN
  /\ run = [r \in Runs |-> IdleRun]
  /\ reminded = [e \in EventIds |-> 0]
  /\ handed = {}

Environment == \E e \in EventIds : Raise(e) \/ Settle(e) \/ Reopen(e)

Step(r) == Load(r) \/ Remind(r) \/ Count(r) \/ HandOver(r) \/ Finish(r)

Next ==
  \/ Environment
  \/ \E e \in EventIds : Elapse(e) \/ GrowOld(e)
  \/ \E r \in Runs : Step(r) \/ Abort(r)
  \/ Watch

\* Time passes, the scheduler starts the jobs, and a run that has started goes
\* on to its end, or to where it fails.
Fairness ==
  /\ \A e \in EventIds : WF_vars(Elapse(e)) /\ WF_vars(GrowOld(e))
  /\ \A r \in Runs : WF_vars(Step(r))
  /\ WF_vars(Watch)

Spec == Init /\ [][Next]_vars /\ Fairness

-----------------------------------------------------------------------------
Statuses == {"none", "PENDING_APPROVAL", "ACTIVE", "over"}

RunState ==
  [pc : {"idle", "next", "count", "handOver"},
   due : SUBSET [id : EventIds, count : 0 .. RemindLimit - 1],
   id : EventIds \union {"nobody"}, nth : 0 .. RemindLimit]

\* The counters stay within the limit, and a run that has sent a reminder
\* knows for which alert.
TypeOK ==
  /\ status \in [EventIds -> Statuses]
  /\ count \in [EventIds -> 0 .. RemindLimit]
  /\ waited \in [EventIds -> BOOLEAN]
  /\ run \in [Runs -> RunState]
  /\ \A r \in Runs : run[r].pc \in {"count", "handOver"} => run[r].id \in EventIds
  /\ reminded \in [EventIds -> Nat]
  /\ handed \subseteq EventIds
  /\ old \in [EventIds -> BOOLEAN] /\ reported \subseteq EventIds /\ faulty \in BOOLEAN

\* However often an alert is approved and taken back, and whenever that happens
\* while a run is under way, the approvers hear of it REMIND_LIMIT times at most.
\* (A run that fails between a reminder and its counting sends it again.)
RemindersAreLimited == ~faulty => \A e \in EventIds : reminded[e] <= RemindLimit

\* jobs.test.ts 641: when the limit is reached the reminders stop and the
\* administrators are told.  (Once no run is under way.)
SilenceIsHandedOver ==
  (\A r \in Runs : run[r].pc = "idle")
    => \A e \in EventIds : count[e] >= RemindLimit => e \in handed

\* The same as long as every run gets to its end: in no order of approvals, takings
\* back and runs do the reminders of an alert stop in silence (remindTick.ts 89-101).
LimitIsHandedOver == ~faulty => SilenceIsHandedOver

\* An alert that nobody ever decides about comes before the administrators:
\* it does not harden into waiting without anybody knowing (remindTick.ts 89-91).
NobodyAnswersIsNoticed ==
  \A e \in EventIds :
    ~faulty /\ <>[](status[e] = "PENDING_APPROVAL") => <>(e \in handed)

\* Where runs fail, even all of them, such an alert is in every report of the watchdog
\* from some time on, who goes by the age of the alert as well as by what the reminders
\* have counted (watchdog.ts 328-352).
WaitingIsReported ==
  \A e \in EventIds :
    <>[](status[e] = "PENDING_APPROVAL") => <>[](e \in reported)
=============================================================================
