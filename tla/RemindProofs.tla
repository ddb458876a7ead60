---------------------------- MODULE RemindProofs ----------------------------
(***************************************************************************)
(* The reminders for every number of alerts and every REMIND_LIMIT, one    *)
(* run at a time (two that overlap may both count an alert and neither     *)
(* take its reminder for the last).                                        *)
(*                                                                         *)
(* What a run does later rests on what it read at its start: the invariant *)
(* says that this is still so, because nobody else counts, and where each  *)
(* reminder is accounted for while the run is between sending and counting *)
(* it.                                                                     *)
(***************************************************************************)
EXTENDS RemindTick, TLAPS

Types ==
  /\ status \in [EventIds -> Statuses]
  /\ count \in [EventIds -> 0 .. RemindLimit]
  /\ waited \in [EventIds -> BOOLEAN]
  /\ run \in [Runs -> RunState]
  /\ reminded \in [EventIds -> Nat]
  /\ handed \subseteq EventIds
  /\ old \in [EventIds -> BOOLEAN] /\ reported \subseteq EventIds /\ faulty \in BOOLEAN

\* What run r read still holds.
UpToDate(r) ==
  /\ \A d \in run[r].due : d.count = count[d.id]
  /\ run[r].pc \in {"count", "handOver"} => run[r].id \in EventIds
  /\ run[r].pc = "count" =>
       /\ run[r].nth = count[run[r].id] + 1 /\ run[r].nth <= RemindLimit
       /\ \A d \in run[r].due : d.id # run[r].id

\* Where no run fails, what was sent is counted, but for what r is about to count, and
\* the last reminder is handed over, or r is about to.
Accounted(r) ==
  \A e \in EventIds :
    /\ reminded[e] = IF run[r].pc = "count" /\ run[r].id = e THEN count[e] + 1 ELSE count[e]
    /\ count[e] = RemindLimit =>
         e \in handed \/ (run[r].pc = "handOver" /\ run[r].id = e)

IInv(r) == Types /\ UpToDate(r) /\ (~faulty => Accounted(r))

\* Whatever happens to an alert meanwhile, the counters are the run's.
LEMMA OthersKeepRuns ==
  ASSUME NEW r \in Runs, IInv(r), UNCHANGED <<count, run, reminded, handed, faulty>>,
         status' \in [EventIds -> Statuses], waited' \in [EventIds -> BOOLEAN],
         old' \in [EventIds -> BOOLEAN], reported' \subseteq EventIds
  PROVE  IInv(r)'
<1>1. Types'
  BY DEF IInv, Types
<1>2. UpToDate(r)'
  BY DEF IInv, UpToDate
<1>3. ~faulty' => Accounted(r)'
  BY DEF IInv, Accounted
<1> QED
  BY <1>1, <1>2, <1>3 DEF IInv

\* A run that starts, or is over.
LEMMA EmptyRun ==
  ASSUME NEW r, NEW due \in SUBSET [id : EventIds, count : 0 .. RemindLimit - 1]
  PROVE  /\ IdleRun \in RunState /\ IdleRun.pc = "idle" /\ IdleRun.due = {}
         /\ LET begun == [pc |-> "next", due |-> due, id |-> "nobody", nth |-> 0]
            IN  begun \in RunState /\ begun.pc = "next" /\ begun.due = due
<1>1. 0 \in 0 .. RemindLimit
  BY RemindAssumption
<1>2. IdleRun \in RunState /\ IdleRun.pc = "idle" /\ IdleRun.due = {}
  BY <1>1 DEF IdleRun, RunState
<1> QED
  BY <1>1, <1>2 DEF RunState

LEMMA LoadKeeps ==
  ASSUME NEW r \in Runs, IInv(r), Load(r)
  PROVE  IInv(r)'
<1> DEFINE due == {[id |-> e, count |-> count[e]] : e \in Due}
           begun == [pc |-> "next", due |-> due, id |-> "nobody", nth |-> 0]
<1>1. due \in SUBSET [id : EventIds, count : 0 .. RemindLimit - 1]
  BY RemindAssumption DEF Due, IInv, Types
<1>2. \A d \in due : d.count = count[d.id]
  OBVIOUS
<1>3. begun \in RunState /\ begun.pc = "next" /\ begun.due = due
  BY <1>1, EmptyRun
<1>4. /\ run' = [run EXCEPT ![r] = begun] /\ run[r].pc = "idle"
      /\ UNCHANGED <<status, count, waited, old, reported, reminded, handed, faulty>>
  BY DEF Load, events, watch
<1> HIDE DEF begun, due
<1>5. Types'
  BY <1>3, <1>4 DEF IInv, Types
<1>6. run'[r] = begun
  BY <1>4 DEF IInv, Types
<1>7. UpToDate(r)'
  BY <1>2, <1>3, <1>4, <1>6 DEF UpToDate
<1>8. ~faulty' => Accounted(r)'
  BY <1>3, <1>4, <1>6 DEF IInv, Accounted
<1> QED
  BY <1>5, <1>7, <1>8 DEF IInv

LEMMA RemindKeeps ==
  ASSUME NEW r \in Runs, IInv(r), Remind(r)
  PROVE  IInv(r)'
<1>1. PICK d \in run[r].due :
        /\ reminded' = [reminded EXCEPT ![d.id] = IF @ > RemindLimit THEN @ ELSE @ + 1]
        /\ run' = [run EXCEPT ![r] = [pc |-> "count", due |-> run[r].due \ {d},
                                      id |-> d.id, nth |-> d.count + 1]]
  BY DEF Remind
<1>2. /\ UNCHANGED <<status, count, waited, old, reported, handed, faulty>>
      /\ run[r].pc = "next"
  BY DEF Remind, events, watch
<1>3. /\ run[r].due \subseteq [id : EventIds, count : 0 .. RemindLimit - 1]
      /\ d \in [id : EventIds, count : 0 .. RemindLimit - 1]
  BY DEF IInv, Types, RunState
<1>4. d.id \in EventIds /\ d.count = count[d.id] /\ d.count \in 0 .. RemindLimit - 1
  BY <1>3 DEF IInv, UpToDate
<1> DEFINE at == [pc |-> "count", due |-> run[r].due \ {d}, id |-> d.id, nth |-> d.count + 1]
<1>5. at \in RunState
  BY <1>3, <1>4, RemindAssumption DEF RunState
<1>6. /\ at.pc = "count" /\ at.due = run[r].due \ {d} /\ at.id = d.id /\ at.nth = d.count + 1
  OBVIOUS
<1>7. run' = [run EXCEPT ![r] = at]
  BY <1>1
<1> HIDE DEF at
<1>8. run'[r] = at
  BY <1>7 DEF IInv, Types
<1>9. Types'
  <2>1. reminded' \in [EventIds -> Nat]
    BY <1>1, <1>4, RemindAssumption DEF IInv, Types
  <2> QED
    BY <1>2, <1>5, <1>7, <2>1 DEF IInv, Types
<1>10. UpToDate(r)'
  <2>1. \A o \in at.due : o.count = count[o.id] /\ o.id # d.id
    <3> SUFFICES ASSUME NEW o \in run[r].due, o # d PROVE o.count = count[o.id] /\ o.id # d.id
      BY <1>6
    <3>1. o \in [id : EventIds, count : 0 .. RemindLimit - 1] /\ o.count = count[o.id]
      BY <1>3 DEF IInv, UpToDate
    <3>2. o = [id |-> o.id, count |-> o.count] /\ d = [id |-> d.id, count |-> d.count]
      BY <1>3, <3>1
    <3> QED
      BY <1>4, <3>1, <3>2
  <2>2. at.nth = count[at.id] + 1 /\ at.nth <= RemindLimit /\ at.id \in EventIds
    BY <1>4, <1>6, RemindAssumption
  <2> QED
    BY <1>2, <1>6, <1>8, <2>1, <2>2 DEF UpToDate
<1>11. ~faulty' => Accounted(r)'
  <2> SUFFICES ASSUME ~faulty, NEW e \in EventIds
               PROVE  /\ reminded'[e] = IF e = d.id THEN count[e] + 1 ELSE count[e]
                      /\ count[e] = RemindLimit => e \in handed
    BY <1>2, <1>6, <1>8 DEF Accounted
  <2>1. /\ reminded[e] = count[e] /\ count[e] \in 0 .. RemindLimit
        /\ count[e] = RemindLimit => e \in handed
    BY <1>2 DEF IInv, Accounted, Types
  <2>2. reminded'[e] = IF e = d.id THEN (IF reminded[e] > RemindLimit THEN reminded[e] ELSE reminded[e] + 1)
                       ELSE reminded[e]
    BY <1>1, <1>4 DEF IInv, Types
  <2> QED
    BY <2>1, <2>2, RemindAssumption
<1> QED
  BY <1>9, <1>10, <1>11 DEF IInv

LEMMA CountKeeps ==
  ASSUME NEW r \in Runs, IInv(r), Count(r)
  PROVE  IInv(r)'
<1> DEFINE i == run[r].id
           pc == IF run[r].nth >= RemindLimit THEN "handOver" ELSE "next"
           at == [run[r] EXCEPT !.pc = pc]
<1>1. /\ i \in EventIds /\ run[r] \in RunState /\ run[r].pc = "count"
      /\ run[r].nth = count[i] + 1 /\ run[r].nth <= RemindLimit
      /\ count[i] \in 0 .. RemindLimit
      /\ \A d \in run[r].due : d.id # i /\ d.count = count[d.id]
  BY DEF Count, IInv, UpToDate, Types
<1>2. /\ count' = [count EXCEPT ![i] = @ + 1] /\ waited' = [waited EXCEPT ![i] = FALSE]
      /\ run' = [run EXCEPT ![r] = at]
      /\ UNCHANGED <<status, old, reported, reminded, handed, faulty>>
  BY DEF Count, watch, IInv, Types
<1>3. /\ at \in RunState /\ at.pc = pc /\ at.id = i /\ at.due = run[r].due
  BY <1>1 DEF RunState
<1>4. /\ count'[i] = count[i] + 1 /\ count'[i] \in 0 .. RemindLimit
      /\ \A e \in EventIds \ {i} : count'[e] = count[e]
      /\ pc = "next" => count'[i] # RemindLimit
      /\ pc \in {"next", "handOver"}
  BY <1>1, <1>2, RemindAssumption DEF IInv, Types
<1> HIDE DEF i, pc, at
<1>5. run'[r] = at
  BY <1>2 DEF IInv, Types
<1>6. Types'
  <2>1. count' \in [EventIds -> 0 .. RemindLimit]
    BY <1>1, <1>2, <1>4 DEF IInv, Types
  <2> QED
    BY <1>2, <1>3, <2>1 DEF IInv, Types
<1>7. UpToDate(r)'
  <2>1. \A d \in run[r].due : d.id \in EventIds
    BY <1>1 DEF RunState
  <2> QED
    BY <1>1, <1>3, <1>4, <1>5, <2>1 DEF UpToDate
<1>8. ~faulty' => Accounted(r)'
  <2> SUFFICES ASSUME ~faulty, NEW e \in EventIds
               PROVE  /\ reminded[e] = count'[e]
                      /\ count'[e] = RemindLimit => e \in handed \/ (pc = "handOver" /\ e = i)
    BY <1>2, <1>3, <1>4, <1>5 DEF Accounted
  <2>1. /\ reminded[e] = IF e = i THEN count[e] + 1 ELSE count[e]
        /\ count[e] = RemindLimit => e \in handed
    BY <1>1 DEF IInv, Accounted, i
  <2> QED
    BY <1>4, <2>1
<1> QED
  BY <1>6, <1>7, <1>8 DEF IInv

LEMMA HandOverKeeps ==
  ASSUME NEW r \in Runs, IInv(r), HandOver(r)
  PROVE  IInv(r)'
<1> DEFINE at == [run[r] EXCEPT !.pc = "next"]
<1>1. /\ run[r] \in RunState /\ run[r].pc = "handOver" /\ run[r].id \in EventIds
  BY DEF HandOver, IInv, UpToDate, Types
<1>2. /\ handed' = handed \union {run[r].id} /\ run' = [run EXCEPT ![r] = at]
      /\ UNCHANGED <<status, count, waited, old, reported, reminded, faulty>>
  BY DEF HandOver, events, watch, IInv, Types
<1>3. at \in RunState /\ at.pc = "next" /\ at.due = run[r].due
  BY <1>1 DEF RunState
<1> HIDE DEF at
<1>4. run'[r] = at
  BY <1>2 DEF IInv, Types
<1>5. Types'
  BY <1>1, <1>2, <1>3 DEF IInv, Types
<1>6. UpToDate(r)'
  BY <1>2, <1>3, <1>4 DEF IInv, UpToDate
<1>7. ~faulty' => Accounted(r)'
  BY <1>1, <1>2, <1>3, <1>4 DEF IInv, Accounted
<1> QED
  BY <1>5, <1>6, <1>7 DEF IInv

\* A run ends with nothing left to do, or, where runs fail, anywhere.
LEMMA EndKeeps ==
  ASSUME NEW r \in Runs, IInv(r), Finish(r) \/ Abort(r)
  PROVE  IInv(r)'
<1>1. /\ run' = [run EXCEPT ![r] = IdleRun]
      /\ UNCHANGED <<status, count, waited, old, reported, reminded, handed, faulty>>
      /\ faulty \/ run[r].pc = "next"
  BY DEF Finish, Abort, events, watch
<1>2. IdleRun \in RunState /\ IdleRun.pc = "idle" /\ IdleRun.due = {}
  BY EmptyRun
<1>3. run'[r] = IdleRun
  BY <1>1 DEF IInv, Types
<1>4. Types'
  BY <1>1, <1>2 DEF IInv, Types
<1>5. UpToDate(r)'
  BY <1>2, <1>3 DEF UpToDate
<1>6. ~faulty' => Accounted(r)'
  BY <1>1, <1>2, <1>3 DEF IInv, Accounted
<1> QED
  BY <1>4, <1>5, <1>6 DEF IInv

\* The invariant of the one run.
THEOREM RunInvariant ==
  ASSUME NEW R, Runs = {R}
  PROVE  Spec => []IInv(R)
<1>1. Init => IInv(R)
  <2> SUFFICES ASSUME Init PROVE IInv(R)
    OBVIOUS
  <2>1. IdleRun \in RunState /\ IdleRun.pc = "idle" /\ IdleRun.due = {}
    BY EmptyRun
  <2>2. run[R] = IdleRun
    BY DEF Init
  <2>3. Types
    BY <2>1, RemindAssumption DEF Init, Types, Statuses
  <2>4. UpToDate(R)
    BY <2>1, <2>2 DEF UpToDate
  <2>5. Accounted(R)
    BY <2>1, <2>2, RemindAssumption DEF Init, Accounted
  <2> QED
    BY <2>3, <2>4, <2>5 DEF IInv
<1>2. IInv(R) /\ [Next]_vars => IInv(R)'
  <2> SUFFICES ASSUME IInv(R), [Next]_vars PROVE IInv(R)'
    OBVIOUS
  <2>1. ASSUME NEW e \in EventIds, Raise(e) \/ Settle(e) \/ Reopen(e) PROVE IInv(R)'
    <3>1. /\ UNCHANGED <<count, waited, old, reported, run, reminded, handed, faulty>>
          /\ status' \in [EventIds -> Statuses]
      BY <2>1 DEF Raise, Settle, Reopen, watch, IInv, Types, Statuses
    <3>2. /\ waited' \in [EventIds -> BOOLEAN] /\ old' \in [EventIds -> BOOLEAN]
          /\ reported' \subseteq EventIds
      BY <3>1 DEF IInv, Types
    <3> QED
      BY <3>1, <3>2, OthersKeepRuns
  <2>2. ASSUME NEW e \in EventIds, Elapse(e) \/ GrowOld(e) PROVE IInv(R)'
    <3>1. UNCHANGED <<status, count, reported, run, reminded, handed, faulty>>
      BY <2>2 DEF Elapse, GrowOld, watch, events
    <3>2. waited' \in [EventIds -> BOOLEAN] /\ old' \in [EventIds -> BOOLEAN]
      BY <2>2 DEF Elapse, GrowOld, watch, events, IInv, Types
    <3>3. status' \in [EventIds -> Statuses] /\ reported' \subseteq EventIds
      BY <3>1 DEF IInv, Types
    <3> QED
      BY <3>1, <3>2, <3>3, OthersKeepRuns
  <2>3. CASE Watch
    <3>1. /\ UNCHANGED <<status, count, waited, old, run, reminded, handed, faulty>>
          /\ reported' \subseteq EventIds
      BY <2>3 DEF Watch, Stalled, events
    <3>2. /\ status' \in [EventIds -> Statuses] /\ waited' \in [EventIds -> BOOLEAN]
          /\ old' \in [EventIds -> BOOLEAN]
      BY <3>1 DEF IInv, Types
    <3> QED
      BY <3>1, <3>2, OthersKeepRuns
  <2>4. CASE Step(R)
    BY <2>4, LoadKeeps, RemindKeeps, CountKeeps, HandOverKeeps, EndKeeps DEF Step
  <2>5. CASE Abort(R)
    BY <2>5, EndKeeps
  <2>6. CASE UNCHANGED vars
    <3>1. UNCHANGED <<status, count, waited, old, reported, run, reminded, handed, faulty>>
      BY <2>6 DEF vars
    <3>2. /\ status' \in [EventIds -> Statuses] /\ waited' \in [EventIds -> BOOLEAN]
          /\ old' \in [EventIds -> BOOLEAN] /\ reported' \subseteq EventIds
      BY <3>1 DEF IInv, Types
    <3> QED
      BY <3>1, <3>2, OthersKeepRuns
  <2> QED
    BY <2>1, <2>2, <2>3, <2>4, <2>5, <2>6 DEF Next, Environment
<1> QED
  BY <1>1, <1>2, PTL DEF Spec

\* The counters stay within the limit (remindTick.ts 43, 82-86).
THEOREM RemindTypeInvariant ==
  ASSUME NEW R, Runs = {R}
  PROVE  Spec => []TypeOK
<1>1. IInv(R) => TypeOK
  BY DEF IInv, Types, UpToDate, TypeOK
<1> QED
  BY <1>1, RunInvariant, PTL

\* The approvers hear of an alert REMIND_LIMIT times at most, however often it is
\* approved and taken back.
THEOREM Limited ==
  ASSUME NEW R, Runs = {R}
  PROVE  Spec => []RemindersAreLimited
<1>1. IInv(R) => RemindersAreLimited
  <2> SUFFICES ASSUME IInv(R), ~faulty, NEW e \in EventIds PROVE reminded[e] <= RemindLimit
    BY DEF RemindersAreLimited
  <2>1. CASE run[R].pc = "count" /\ run[R].id = e
    BY <2>1 DEF IInv, UpToDate, Accounted
  <2>2. CASE ~(run[R].pc = "count" /\ run[R].id = e)
    BY <2>2, RemindAssumption DEF IInv, Accounted, Types
  <2> QED
    BY <2>1, <2>2
<1> QED
  BY <1>1, RunInvariant, PTL

\* In no order of approvals, takings back and runs do the reminders of an alert stop in
\* silence (remindTick.ts 89-101).
THEOREM LimitIsTold ==
  ASSUME NEW R, Runs = {R}
  PROVE  Spec => []LimitIsHandedOver
<1>1. IInv(R) => LimitIsHandedOver
  <2> SUFFICES ASSUME IInv(R), ~faulty, run[R].pc = "idle",
                      NEW e \in EventIds, count[e] >= RemindLimit
               PROVE  e \in handed
    BY DEF LimitIsHandedOver, SilenceIsHandedOver
  <2>1. count[e] = RemindLimit
    BY RemindAssumption DEF IInv, Types
  <2> QED
    BY <2>1 DEF IInv, Accounted
<1> QED
  BY <1>1, RunInvariant, PTL
=============================================================================
