------------------------ MODULE AlertPipelineProofs ------------------------
(***************************************************************************)
(* What holds of the alert pipeline for every set of alerts, of runs of    *)
(* the tick and of requests, for every criteria table, weather and         *)
(* settings, under every interleaving, failure and crash.                  *)
(***************************************************************************)
EXTENDS AlertPipeline, EngineProofs, FiniteSetTheorems, FunctionTheorems

-----------------------------------------------------------------------------
(* The actions of a tick are typed                                         *)

LEMMA HeadIsTyped ==
  ASSUME NEW t \in Ticks, TickOK, tick[t].todo # <<>>
  PROVE  /\ tick[t].todo \in Seq(Actions(EventIds))
         /\ Head(tick[t].todo) \in Actions(EventIds)
         /\ Tail(tick[t].todo) \in Seq(Actions(EventIds))
<1>1. tick[t].todo \in Seq(Actions(EventIds))
  BY DEF TickOK, TickState
<1> QED
  BY <1>1, HeadTailProperties

LEMMA TargetIsTyped ==
  ASSUME NEW t \in Ticks, TickOK, tick[t].todo # <<>>,
         Head(tick[t].todo).type # "create"
  PROVE  Target(t) \in EventIds
BY HeadIsTyped DEF Target, Actions

LEMMA ActionDoneType ==
  ASSUME NEW t \in Ticks, NEW ok \in BOOLEAN, TickOK, tick[t].todo # <<>>,
         ActionDone(t, ok)
  PROVE  TickOK'
<1> DEFINE next == [IdleTick EXCEPT !.pc = "act", !.todo = Tail(tick[t].todo),
                                    !.failed = tick[t].failed \/ ~ok]
<1>1. next \in TickState
  <2>1. Tail(tick[t].todo) \in Seq(Actions(EventIds)) /\ tick[t].failed \in BOOLEAN
    BY HeadIsTyped DEF TickOK, TickState
  <2> QED
    BY <2>1 DEF IdleTick, TickState, TickPcs
<1>2. tick' = [tick EXCEPT ![t] = next]
  BY DEF ActionDone
<1>3. next.pc = "act"
  BY DEF IdleTick
<1> HIDE DEF next
<1> QED
  BY <1>1, <1>2, <1>3 DEF TickOK, Midway

LEMMA EndedTickType ==
  ASSUME NEW t \in Ticks, TickOK, tick' = [tick EXCEPT ![t] = EndedTick]
  PROVE  TickOK'
<1>1. EndedTick \in TickState /\ EndedTick.pc \in {"idle", "done"}
  BY EmptySeq DEF EndedTick, IdleTick, EndPc, TickState, TickPcs
<1> HIDE DEF EndedTick
<1> QED
  BY <1>1 DEF TickOK, Midway

LEMMA ReqDoneType ==
  ASSUME NEW r \in Requests, ReqOK, ReqDone(r)
  PROVE  ReqOK'
<1>1. EndedReq \in ReqState /\ EndedReq.pc \in {"idle", "done"}
  BY DEF EndedReq, IdleReq, EndPc, ReqState, ReqPcs
<1> QED
  BY <1>1 DEF ReqDone, ReqOK

LEMMA AskType ==
  ASSUME NEW r \in Requests, NEW e \in EventIds, ReqOK,
         NEW pc \in ReqPcs, NEW op \in {"approve", "resend", "save"},
         Ask(r, pc, op, e)
  PROVE  ReqOK'
<1> DEFINE next == [IdleReq EXCEPT !.pc = pc, !.op = op, !.ev = e]
<1>1. next \in ReqState /\ next.ev = e
  BY DEF IdleReq, ReqState, ReqPcs
<1>2. req' = [req EXCEPT ![r] = next]
  BY DEF Ask
<1> HIDE DEF next
<1> QED
  BY <1>1, <1>2 DEF ReqOK

LEMMA InsertType ==
  ASSUME TablesOK, NEW kind \in Kinds, NEW grade \in Grades, Insert(kind, grade),
         UNCHANGED <<dispatches, heartbeat>>
  PROVE  TablesOK'
<1>1. CASE UNCHANGED <<event, message>>
  BY <1>1 DEF TablesOK
<1>2. ASSUME NEW e \in Unused,
             event' = [event EXCEPT ![e] =
               [kind |-> kind, grade |-> grade, status |-> "PENDING_APPROVAL",
                closed |-> FALSE, count |-> 0]],
             message' = [message EXCEPT ![e] = [status |-> "draft", content |-> "composed"]]
      PROVE  TablesOK'
  BY <1>2 DEF TablesOK, EventState, MessageState, Statuses, Origins
<1> QED
  BY <1>1, <1>2 DEF Insert

-----------------------------------------------------------------------------
(* The list a tick works off is typed                                      *)

LEMMA RowsAreFinite == IsFiniteSet(Rows(EventIds))
<1> DEFINE Sts    == {"PENDING_APPROVAL", "ACTIVE", "DISMISSED"}
           fields == ((EventIds \X Kinds) \X Grades) \X Sts
           row    == [p \in fields |-> [id |-> p[1][1][1], kind |-> p[1][1][2],
                                       grade |-> p[1][2], status |-> p[2]]]
<1>1. IsFiniteSet(Kinds) /\ IsFiniteSet(Grades) /\ IsFiniteSet(Sts)
  <2>1. IsFiniteSet({"rain"} \union {"snow"} \union {"wind"} \union {"heat"})
    BY FS_Singleton, FS_Union
  <2>2. IsFiniteSet({"watch"} \union {"warning"})
    BY FS_Singleton, FS_Union
  <2>3. IsFiniteSet({"PENDING_APPROVAL"} \union {"ACTIVE"} \union {"DISMISSED"})
    BY FS_Singleton, FS_Union
  <2>4. /\ Kinds = {"rain"} \union {"snow"} \union {"wind"} \union {"heat"}
        /\ Grades = {"watch"} \union {"warning"}
        /\ Sts = {"PENDING_APPROVAL"} \union {"ACTIVE"} \union {"DISMISSED"}
    BY DEF Kinds, Grades
  <2> QED
    BY <2>1, <2>2, <2>3, <2>4
<1>2. IsFiniteSet(fields)
  BY <1>1, FS_Product, PipelineAssumption
<1>3. row \in Surjection(fields, Rows(EventIds))
  <2>1. row \in [fields -> Rows(EventIds)]
    BY DEF Rows
  <2>2. ASSUME NEW r \in Rows(EventIds)
        PROVE  \E p \in fields : row[p] = r
    <3>1. <<<<<<r.id, r.kind>>, r.grade>>, r.status>> \in fields
      BY DEF Rows
    <3>2. row[<<<<<<r.id, r.kind>>, r.grade>>, r.status>>] = r
      BY <3>1 DEF Rows
    <3> QED
      BY <3>1, <3>2
  <2> QED
    BY <2>1, <2>2 DEF Surjection
<1> QED
  BY <1>2, <1>3, FS_Surjection

LEMMA OrdersType ==
  ASSUME NEW S, NEW T, S \subseteq T, IsFiniteSet(S), NEW f \in Orders(S)
  PROVE  f \in Seq(T)
<1>1. Cardinality(S) \in Nat
  BY FS_CardinalityType
<1>2. f \in [1 .. Cardinality(S) -> T]
  BY DEF Orders
<1> QED
  BY <1>1, <1>2

\* The releases of the kinds that are switched off are about loaded rows, too.
LEMMA ClosingIsAboutItsRows ==
  ASSUME NEW R \in SUBSET Rows(EventIds), NEW rows \in Seq(R), NEW settings,
         NEW closing \in DisabledResolves(rows, settings)
  PROVE  closing \in Seq(About(R, EventIds))
<1> DEFINE left == {i \in DOMAIN rows : /\ ~settings[rows[i].kind].enabled
                                        /\ rows[i].status \in LiveStatus}
           close(i) == Action("resolve", rows[i].id, rows[i].kind, rows[i].grade)
<1>1. PICK f \in Orders(left) : closing = [j \in DOMAIN f |-> close(f[j])]
  BY DEF DisabledResolves
<1>2. left \subseteq 1 .. Len(rows) /\ 1 \in Int /\ Len(rows) \in Int
  OBVIOUS
<1>3. IsFiniteSet(left)
  <2> HIDE DEF left
  <2>1. IsFiniteSet(1 .. Len(rows))
    BY <1>2, FS_Interval
  <2> QED
    BY <1>2, <2>1, FS_Subset
<1>4. Cardinality(left) \in Nat
  <2> HIDE DEF left
  <2> QED
    BY <1>3, FS_CardinalityType
<1>5. \A i \in left : close(i) \in About(R, EventIds)
  <2>1. ASSUME NEW i \in left
        PROVE  rows[i] \in R
    BY <1>2, <2>1, ElementOfSeq
  <2> QED
    BY <2>1 DEF Action, Actions, About, Rows
<1>6. f \in [1 .. Cardinality(left) -> left]
  BY <1>1 DEF Orders
<1> HIDE DEF left, close
<1>7. closing \in [1 .. Cardinality(left) -> About(R, EventIds)]
  BY <1>1, <1>5, <1>6
<1> QED
  BY <1>4, <1>7

\* What the tick is to do is about the alerts it has loaded.
LEMMA JudgeIsAboutItsRows ==
  ASSUME NEW t \in Ticks, TickOK, TickJudge(t)
  PROVE  \E acts \in Seq(About(tick[t].open, EventIds)) :
           tick' = [tick EXCEPT ![t] = [IdleTick EXCEPT !.pc = "act", !.todo = acts]]
<1> DEFINE R == tick[t].open
<1>1. PICK obs \in Observations, settings \in SettingsSets, rows \in Orders(R) :
        \E closing \in DisabledResolves(rows, settings) :
          tick' = [tick EXCEPT ![t] = [IdleTick EXCEPT !.pc = "act",
                     !.todo = Evaluate(obs, Criteria, settings, rows) \o closing]]
  BY DEF TickJudge
<1>2. PICK closing \in DisabledResolves(rows, settings) :
          tick' = [tick EXCEPT ![t] = [IdleTick EXCEPT !.pc = "act",
                     !.todo = Evaluate(obs, Criteria, settings, rows) \o closing]]
  BY <1>1
<1>3. R \in SUBSET Rows(EventIds)
  BY DEF TickOK, TickState
<1>4. rows \in Seq(R)
  <2>1. IsFiniteSet(R)
    BY <1>3, RowsAreFinite, FS_Subset
  <2> HIDE DEF R
  <2> QED
    BY <2>1, OrdersType
<1> HIDE DEF R
<1>5. /\ Evaluate(obs, Criteria, settings, rows) \in Seq(About(R, EventIds))
      /\ closing \in Seq(About(R, EventIds))
  BY <1>3, <1>4, EvaluateIsAboutItsRows, ClosingIsAboutItsRows
<1>6. Evaluate(obs, Criteria, settings, rows) \o closing \in Seq(About(R, EventIds))
  BY <1>5, ConcatProperties
<1> QED
  BY <1>2, <1>6 DEF R

LEMMA OpenRowsType ==
  ASSUME TablesOK
  PROVE  OpenRows \subseteq Rows(EventIds)
BY DEF OpenRows, Live, LiveStatus, TablesOK, EventState, Rows

LEMMA LoadType ==
  ASSUME NEW t \in Ticks, TablesOK, TickOK, TickLoad(t)
  PROVE  TickOK'
<1> DEFINE next == [IdleTick EXCEPT !.pc = "fetch", !.open = OpenRows]
<1>1. next \in TickState /\ next.pc = "fetch"
  BY OpenRowsType, EmptySeq DEF IdleTick, TickState, TickPcs
<1>2. tick' = [tick EXCEPT ![t] = next]
  BY DEF TickLoad
<1> HIDE DEF next
<1> QED
  BY <1>1, <1>2 DEF TickOK, Midway

LEMMA JudgeType ==
  ASSUME NEW t \in Ticks, TickOK, TickJudge(t)
  PROVE  TickOK'
<1>1. PICK acts \in Seq(About(tick[t].open, EventIds)) :
        tick' = [tick EXCEPT ![t] = [IdleTick EXCEPT !.pc = "act", !.todo = acts]]
  BY JudgeIsAboutItsRows
<1> DEFINE next == [IdleTick EXCEPT !.pc = "act", !.todo = acts]
<1>2. acts \in Seq(Actions(EventIds))
  BY DEF About
<1>3. tick' = [tick EXCEPT ![t] = next]
  BY <1>1
<1>4. next \in TickState /\ next.pc = "act"
  BY <1>2 DEF IdleTick, TickState, TickPcs
<1> HIDE DEF next
<1> QED
  BY <1>3, <1>4 DEF TickOK, Midway

-----------------------------------------------------------------------------
(* The inductive invariant                                                 *)

Words == {"saved", "approved"}

\* The consent that everything in the middle of being sent rests on.  It is the
\* handlers' local state that makes HumanInTheLoop inductive: a tick that has
\* read an approved message still sends it after the approval was taken back,
\* and a request that has passed its check sends whatever the alert becomes.
MessageBacked(e) ==
  message[e].status = "approved" => e \in approved /\ message[e].content \in Words

TickBacked(t) ==
  /\ tick[t].pc = "repeatSend" => Target(t) \in approved /\ tick[t].content \in Words
  /\ tick[t].pc = "resolveCommit" /\ tick[t].content # Null => Target(t) \in approved
  /\ tick[t].pc = "release" => Target(t) \in approved

ReqBacked(r) ==
  /\ req[r].pc \in {"send", "resendRead", "resendCommit"} => req[r].ev \in approved
  /\ req[r].pc = "approveCommit" => event[req[r].ev].status # "none"

Backed ==
  /\ \A e \in EventIds : MessageBacked(e)
  /\ \A t \in Ticks : TickBacked(t)
  /\ \A r \in Requests : ReqBacked(r)
  /\ HumanInTheLoop
  /\ released \subseteq approved

IInv == TypeOK /\ Backed

-----------------------------------------------------------------------------
(* Each action of a tick keeps the types                                   *)

LEMMA MoveType ==
  ASSUME NEW t \in Ticks, TickOK,
         tick[t].todo # <<>>, Head(tick[t].todo).type # "create",
         NEW next \in TickState, next.todo = tick[t].todo,
         tick' = [tick EXCEPT ![t] = next]
  PROVE  TickOK'
BY DEF TickOK, Midway

LEMMA MidwayFacts ==
  ASSUME NEW t \in Ticks, TickOK, Midway(t)
  PROVE  /\ tick[t] \in TickState
         /\ tick[t].todo # <<>> /\ Head(tick[t].todo).type # "create"
         /\ Target(t) \in EventIds
BY TargetIsTyped DEF TickOK

LEMMA DoingFacts ==
  ASSUME NEW t \in Ticks, TickOK, NEW type, type # "create", Doing(t, type)
  PROVE  /\ tick[t] \in TickState
         /\ tick[t].todo # <<>> /\ Head(tick[t].todo).type # "create"
         /\ Target(t) \in EventIds
BY TargetIsTyped DEF TickOK, Doing

\* Closing an alert is a matter of that alert alone.
LEMMA CloseFacts ==
  ASSUME TablesOK, NEW e \in EventIds, NEW status \in Statuses,
         event' = [event EXCEPT ![e].status = status, ![e].closed = TRUE]
  PROVE  /\ event' \in [EventIds -> EventState]
         /\ event'[e].status = status
         /\ event'[e].kind = event[e].kind /\ event'[e].grade = event[e].grade
         /\ event'[e].count = event[e].count
         /\ \A x \in EventIds \ {e} : event'[x] = event[x]
<1> DEFINE row == [event[e] EXCEPT !.status = status, !.closed = TRUE]
<1>1. event \in [EventIds -> EventState] /\ event[e] \in EventState
  BY DEF TablesOK
<1>2. /\ row \in EventState /\ row.status = status /\ row.count = event[e].count
      /\ row.kind = event[e].kind /\ row.grade = event[e].grade
  BY <1>1 DEF EventState
<1>3. event' = [event EXCEPT ![e] = row]
  OBVIOUS
<1> HIDE DEF row
<1> QED
  BY <1>1, <1>2, <1>3

\* ... and so is numbering its rounds, which leaves the status alone.
LEMMA CountFacts ==
  ASSUME TablesOK, NEW e \in EventIds, NEW no,
         event' = [event EXCEPT ![e].count = no]
  PROVE  /\ \A x \in EventIds : event'[x].status = event[x].status
         /\ event'[e].kind = event[e].kind /\ event'[e].grade = event[e].grade
         /\ event'[e].count = no
         /\ \A x \in EventIds \ {e} : event'[x] = event[x]
<1> DEFINE row == [event[e] EXCEPT !.count = no]
<1>1. event \in [EventIds -> EventState] /\ event[e] \in EventState
  BY DEF TablesOK
<1>2. /\ row.status = event[e].status /\ row.count = no
      /\ row.kind = event[e].kind /\ row.grade = event[e].grade
  BY <1>1 DEF EventState
<1>3. event' = [event EXCEPT ![e] = row]
  OBVIOUS
<1> HIDE DEF row
<1> QED
  BY <1>1, <1>2, <1>3

LEMMA TickStepType ==
  ASSUME IInv, NEW t \in Ticks, TickStep(t)
  PROVE  TypeOK'
<1> USE DEF TypeOK, IInv
<1>1. CASE TickJudge(t)
  <2>1. TickOK'
    BY <1>1, JudgeType
  <2> QED
    BY <1>1, <2>1 DEF TickJudge, TablesOK, ReqOK, HistoryOK, tables, history
<1>2. CASE TickCollectFails(t)
  <2>1. TickOK'
    BY <1>2, EndedTickType DEF TickCollectFails
  <2> QED
    BY <1>2, <2>1 DEF TickCollectFails, TablesOK, ReqOK, HistoryOK, history
<1>3. CASE TickCreate(t)
  <2>1. Head(tick[t].todo) \in Actions(EventIds) /\ tick[t].todo # <<>>
    BY <1>3, HeadIsTyped DEF TickCreate, Doing
  <2>2. TablesOK'
    BY <1>3, <2>1, InsertType DEF TickCreate, Actions
  <2>3. TickOK'
    BY <1>3, <2>1, ActionDoneType DEF TickCreate
  <2> QED
    BY <1>3, <2>2, <2>3 DEF TickCreate, ReqOK, HistoryOK, history
<1>4. CASE TickEscalate(t)
  <2> DEFINE next == [tick[t] EXCEPT !.pc = "escalated"]
  <2>1. /\ tick[t] \in TickState /\ Target(t) \in EventIds
        /\ tick[t].todo # <<>> /\ Head(tick[t].todo).type # "create"
    BY <1>4, DoingFacts DEF TickEscalate
  <2>2. tick' = [tick EXCEPT ![t] = next]
    BY <1>4 DEF TickEscalate
  <2>3. next \in TickState /\ next.todo = tick[t].todo
    BY <2>1 DEF TickState, TickPcs
  <2>4. TickOK'
    BY <2>1, <2>2, <2>3, MoveType
  <2>5. TablesOK'
    BY <1>4, <2>1, CloseFacts DEF TickEscalate, TablesOK, Statuses
  <2> QED
    BY <1>4, <2>4, <2>5 DEF TickEscalate, ReqOK, HistoryOK, history
<1>5. CASE TickRaiseWarning(t)
  <2>1. Midway(t) /\ Head(tick[t].todo) \in Actions(EventIds) /\ tick[t].todo # <<>>
    BY <1>5, MidwayFacts, HeadIsTyped DEF TickRaiseWarning, Midway
  <2>2. TablesOK'
    BY <1>5, <2>1, InsertType DEF TickRaiseWarning, Actions, Grades
  <2>3. TickOK'
    BY <1>5, <2>1, ActionDoneType DEF TickRaiseWarning
  <2> QED
    BY <1>5, <2>2, <2>3 DEF TickRaiseWarning, ReqOK, HistoryOK, history
<1>6. CASE TickRepeatRead(t)
  <2> DEFINE next == [tick[t] EXCEPT !.pc = "repeatSend", !.content = message[Target(t)].content]
  <2>1. /\ tick[t] \in TickState /\ Target(t) \in EventIds
        /\ tick[t].todo # <<>> /\ Head(tick[t].todo).type # "create"
    BY <1>6, DoingFacts DEF TickRepeatRead
  <2>2. CASE message[Target(t)].status = "approved"
    <3>1. tick' = [tick EXCEPT ![t] = next]
      BY <1>6, <2>2 DEF TickRepeatRead
    <3>2. next \in TickState /\ next.todo = tick[t].todo
      BY <2>1 DEF TickState, TickPcs, TablesOK, MessageState
    <3> QED
      BY <1>6, <2>1, <3>1, <3>2, MoveType
      DEF TickRepeatRead, TablesOK, ReqOK, HistoryOK, tables, history
  <2>3. CASE message[Target(t)].status # "approved"
    <3>1. TickOK'
      BY <1>6, <2>1, <2>3, ActionDoneType DEF TickRepeatRead
    <3> QED
      BY <1>6, <3>1 DEF TickRepeatRead, TablesOK, ReqOK, HistoryOK, tables, history
  <2> QED
    BY <2>2, <2>3
<1>7. CASE TickRepeatSend(t)
  <2>1. /\ Midway(t) /\ tick[t] \in TickState /\ Target(t) \in EventIds
        /\ tick[t].todo # <<>> /\ Head(tick[t].todo).type # "create"
    BY <1>7, MidwayFacts DEF TickRepeatSend, Midway
  <2>2. PICK reached \in BOOLEAN, nobody \in BOOLEAN :
          /\ Round(Target(t), tick[t].content, reached)
          /\ tick' = [tick EXCEPT ![t].pc = "repeatRecord", ![t].reached = reached,
                                  ![t].failed = @ \/ ~(reached \/ nobody)]
    BY <1>7 DEF TickRepeatSend
  <2> DEFINE next == [tick[t] EXCEPT !.pc = "repeatRecord", !.reached = reached,
                                     !.failed = @ \/ ~(reached \/ nobody)]
  <2>3. tick' = [tick EXCEPT ![t] = next]
    BY <2>2
  <2>4. next \in TickState /\ next.todo = tick[t].todo
    <3>1. (tick[t].failed \/ ~(reached \/ nobody)) \in BOOLEAN
      BY <2>1 DEF TickState
    <3> QED
      BY <2>1, <3>1 DEF TickState, TickPcs
  <2>5. TickOK'
    BY <2>1, <2>3, <2>4, MoveType
  <2>6. told' \subseteq EventIds \X Origins
    BY <1>7, <2>1, <2>2 DEF TickRepeatSend, Backed, TickBacked, Words, Round, Origins, HistoryOK
  <2> QED
    BY <1>7, <2>5, <2>6 DEF TickRepeatSend, TablesOK, ReqOK, HistoryOK, tables
<1>8. CASE TickRepeatNumber(t)
  <2> DEFINE next == [tick[t] EXCEPT !.pc = "repeatCommit", !.no = event[Target(t)].count + 1]
  <2>1. /\ Midway(t) /\ tick[t] \in TickState /\ Target(t) \in EventIds
        /\ tick[t].todo # <<>> /\ Head(tick[t].todo).type # "create"
    BY <1>8, MidwayFacts DEF TickRepeatNumber, Midway
  <2>2. tick' = [tick EXCEPT ![t] = next]
    BY <1>8 DEF TickRepeatNumber
  <2>3. next \in TickState /\ next.todo = tick[t].todo
    <3>1. event[Target(t)].count + 1 \in Nat
      BY <2>1 DEF TablesOK, EventState
    <3> QED
      BY <2>1, <3>1 DEF TickState, TickPcs
  <2> QED
    BY <1>8, <2>1, <2>2, <2>3, MoveType
    DEF TickRepeatNumber, TablesOK, ReqOK, HistoryOK, tables, history
<1>9. CASE TickRepeatCommit(t)
  <2>1. /\ Midway(t) /\ tick[t] \in TickState /\ Target(t) \in EventIds
        /\ tick[t].todo # <<>>
    BY <1>9, MidwayFacts DEF TickRepeatCommit, Midway
  <2>2. TickOK'
    BY <1>9, <2>1, ActionDoneType DEF TickRepeatCommit
  <2>3. tick[t].no \in Nat /\ tick[t].reached \in BOOLEAN
    BY <2>1 DEF TickState
  <2>4. CASE Recorded(Target(t), tick[t].no)
    BY <1>9, <2>2, <2>4 DEF TickRepeatCommit, TablesOK, ReqOK, HistoryOK, history
  <2>5. CASE ~Recorded(Target(t), tick[t].no)
    <3> DEFINE row == [event |-> Target(t), no |-> tick[t].no, reached |-> tick[t].reached]
    <3>1. row \in Dispatch
      BY <2>1, <2>3 DEF Dispatch
    <3>2. dispatches' = dispatches \union {row}
      BY <1>9, <2>5 DEF TickRepeatCommit
    <3>3. event' \in [EventIds -> EventState]
      BY <1>9, <2>1, <2>3, <2>5 DEF TickRepeatCommit, TablesOK, EventState
    <3> HIDE DEF row
    <3> QED
      BY <1>9, <2>2, <3>1, <3>2, <3>3 DEF TickRepeatCommit, TablesOK, ReqOK, HistoryOK, history
  <2> QED
    BY <2>4, <2>5
<1>10. CASE TickResolveRead(t)
  <2> DEFINE text == IF message[Target(t)].status = "approved"
                     THEN message[Target(t)].content ELSE Null
             next == [tick[t] EXCEPT !.pc = "resolveCommit", !.content = text]
  <2>1. /\ tick[t] \in TickState /\ Target(t) \in EventIds
        /\ tick[t].todo # <<>> /\ Head(tick[t].todo).type # "create"
    BY <1>10, DoingFacts DEF TickResolveRead
  <2>2. tick' = [tick EXCEPT ![t] = next]
    BY <1>10 DEF TickResolveRead
  <2>3. next \in TickState /\ next.todo = tick[t].todo
    <3>1. text \in Origins \union {Null}
      BY <2>1 DEF TablesOK, MessageState
    <3> HIDE DEF text
    <3> QED
      BY <2>1, <3>1 DEF TickState, TickPcs
  <2> QED
    BY <1>10, <2>1, <2>2, <2>3, MoveType
    DEF TickResolveRead, TablesOK, ReqOK, HistoryOK, tables, history
<1>11. CASE TickResolveCommit(t)
  <2> DEFINE next == [tick[t] EXCEPT !.pc = "release"]
  <2>1. /\ Midway(t) /\ tick[t] \in TickState /\ Target(t) \in EventIds
        /\ tick[t].todo # <<>> /\ Head(tick[t].todo).type # "create"
    BY <1>11, MidwayFacts DEF TickResolveCommit, Midway
  <2>2. ASSUME tick' = [tick EXCEPT ![t] = next]
        PROVE  TickOK'
    <3>1. next \in TickState /\ next.todo = tick[t].todo
      BY <2>1 DEF TickState, TickPcs
    <3> QED
      BY <2>1, <2>2, <3>1, MoveType
  <2>3. ASSUME ActionDone(t, TRUE)
        PROVE  TickOK'
    BY <2>1, <2>3, ActionDoneType
  <2>4. TickOK'
    BY <1>11, <2>2, <2>3 DEF TickResolveCommit
  <2>5. TablesOK'
    BY <1>11, <2>1, CloseFacts DEF TickResolveCommit, TablesOK, Statuses
  <2> QED
    BY <1>11, <2>4, <2>5 DEF TickResolveCommit, ReqOK, HistoryOK, history
<1>12. CASE TickRelease(t)
  <2>1. Midway(t) /\ Target(t) \in EventIds /\ tick[t].todo # <<>>
    BY <1>12, MidwayFacts DEF TickRelease, Midway
  <2>2. TickOK'
    BY <1>12, <2>1, ActionDoneType DEF TickRelease
  <2> QED
    BY <1>12, <2>1, <2>2 DEF TickRelease, TablesOK, ReqOK, HistoryOK, tables
<1>13. CASE TickFinish(t)
  <2>1. TickOK'
    BY <1>13, EndedTickType DEF TickFinish
  <2> QED
    BY <1>13, <2>1 DEF TickFinish, TablesOK, ReqOK, HistoryOK, history
<1> QED
  BY <1>1, <1>2, <1>3, <1>4, <1>5, <1>6, <1>7, <1>8, <1>9, <1>10, <1>11, <1>12,
     <1>13 DEF TickStep

-----------------------------------------------------------------------------
(* ... and so does each action of a request, and each fault                *)

LEMMA AdvanceType ==
  ASSUME NEW r \in Requests, ReqOK, req[r].pc \notin {"idle", "done"},
         NEW next \in ReqState, next.ev = req[r].ev,
         req' = [req EXCEPT ![r] = next]
  PROVE  ReqOK'
BY DEF ReqOK

LEMMA AskedFacts ==
  ASSUME NEW r \in Requests, ReqOK, req[r].pc \notin {"idle", "done"}
  PROVE  req[r] \in ReqState /\ req[r].ev \in EventIds
BY DEF ReqOK

LEMMA AfterRoundType ==
  ASSUME NEW r \in Requests, ReqOK, req[r].pc \notin {"idle", "done"},
         NEW reached \in BOOLEAN, AfterRound(r, reached)
  PROVE  ReqOK'
<1> DEFINE next == [req[r] EXCEPT !.pc = "unapprove"]
<1>1. ASSUME ReqDone(r)
      PROVE  ReqOK'
  BY <1>1, ReqDoneType
<1>2. ASSUME req' = [req EXCEPT ![r] = next]
      PROVE  ReqOK'
  <2>1. next \in ReqState /\ next.ev = req[r].ev
    BY AskedFacts DEF ReqState, ReqPcs
  <2> QED
    BY <1>2, <2>1, AdvanceType
<1> QED
  BY <1>1, <1>2 DEF AfterRound

LEMMA ReqStepType ==
  ASSUME IInv, NEW r \in Requests, ReqStep(r)
  PROVE  TypeOK'
<1> USE DEF TypeOK, IInv
<1>1. CASE ApproveCommit(r)
  <2> DEFINE e == req[r].ev
             next == [req[r] EXCEPT !.pc = "send", !.no = 1]
  <2>1. /\ req[r].pc \notin {"idle", "done"}
        /\ req[r] \in ReqState /\ e \in EventIds
    BY <1>1, AskedFacts DEF ApproveCommit
  <2>2. TablesOK'
    <3>1. message' \in [EventIds -> MessageState]
      BY <1>1, <2>1 DEF ApproveCommit, TablesOK, MessageState, Origins
    <3>2. event' \in [EventIds -> EventState]
      BY <1>1, <2>1 DEF ApproveCommit, TablesOK, EventState, Statuses
    <3> QED
      BY <1>1, <3>1, <3>2 DEF ApproveCommit, TablesOK
  <2>3. ASSUME ReqDone(r)
        PROVE  ReqOK'
    BY <2>3, ReqDoneType
  <2>4. ASSUME req' = [req EXCEPT ![r] = next]
        PROVE  ReqOK'
    <3>1. next \in ReqState /\ next.ev = req[r].ev
      BY <2>1 DEF ReqState, ReqPcs
    <3> QED
      BY <2>1, <2>4, <3>1, AdvanceType
  <2>5. ReqOK'
    BY <1>1, <2>3, <2>4 DEF ApproveCommit
  <2>6. HistoryOK'
    BY <1>1, <2>1 DEF ApproveCommit, HistoryOK
  <2> QED
    BY <1>1, <2>2, <2>5, <2>6 DEF ApproveCommit, TickOK, Midway
<1>2. CASE Send(r)
  <2>1. /\ req[r].pc \notin {"idle", "done"}
        /\ req[r] \in ReqState /\ req[r].ev \in EventIds
    BY <1>2, AskedFacts DEF Send
  <2>2. PICK reached \in BOOLEAN :
          /\ Round(req[r].ev, "approved", reached)
          /\ req' = [req EXCEPT ![r].pc = "record", ![r].reached = reached]
    BY <1>2 DEF Send
  <2> DEFINE next == [req[r] EXCEPT !.pc = "record", !.reached = reached]
  <2>3. req' = [req EXCEPT ![r] = next]
    BY <2>2
  <2>4. next \in ReqState /\ next.ev = req[r].ev
    BY <2>1 DEF ReqState, ReqPcs
  <2>5. ReqOK'
    BY <2>1, <2>3, <2>4, AdvanceType
  <2>6. told' \subseteq EventIds \X Origins
    BY <2>1, <2>2 DEF Round, Origins, HistoryOK
  <2> QED
    BY <1>2, <2>5, <2>6 DEF Send, TablesOK, TickOK, Midway, HistoryOK, tables
<1>3. CASE Record(r)
  <2>1. /\ req[r].pc \notin {"idle", "done"}
        /\ req[r] \in ReqState /\ req[r].ev \in EventIds
    BY <1>3, AskedFacts DEF Record
  <2>2. req[r].no \in Nat /\ req[r].reached \in BOOLEAN
    BY <2>1 DEF ReqState
  <2>3. ReqOK'
    BY <1>3, <2>1, <2>2, AfterRoundType DEF Record
  <2>4. dispatches' \subseteq Dispatch
    BY <1>3, <2>1, <2>2 DEF Record, Dispatch, TablesOK
  <2> QED
    BY <1>3, <2>3, <2>4 DEF Record, TablesOK, TickOK, Midway, HistoryOK, history
<1>4. CASE Unapprove(r)
  <2>1. req[r].ev \in EventIds
    BY <1>4, AskedFacts DEF Unapprove
  <2>2. ReqOK'
    BY <1>4, ReqDoneType DEF Unapprove
  <2>3. event' \in [EventIds -> EventState]
    <3>1. CASE event[req[r].ev].status = "ACTIVE"
      <4>1. event' = [event EXCEPT ![req[r].ev].status = "PENDING_APPROVAL",
                                   ![req[r].ev].count = 0]
        BY <1>4, <3>1 DEF Unapprove
      <4> QED
        BY <2>1, <4>1 DEF TablesOK, EventState, Statuses
    <3>2. CASE event[req[r].ev].status # "ACTIVE"
      BY <1>4, <3>2 DEF Unapprove, TablesOK
    <3> QED
      BY <3>1, <3>2
  <2>4. message' \in [EventIds -> MessageState]
    BY <1>4, <2>1 DEF Unapprove, TablesOK, MessageState
  <2> QED
    BY <1>4, <2>2, <2>3, <2>4 DEF Unapprove, TablesOK, TickOK, Midway, HistoryOK, history
<1>5. CASE ResendRead(r)
  <2> DEFINE next == [req[r] EXCEPT !.pc = "resendCommit", !.no = event[req[r].ev].count + 1]
  <2>1. /\ req[r].pc \notin {"idle", "done"}
        /\ req[r] \in ReqState /\ req[r].ev \in EventIds
    BY <1>5, AskedFacts DEF ResendRead
  <2>2. req' = [req EXCEPT ![r] = next]
    BY <1>5 DEF ResendRead
  <2>3. next \in ReqState /\ next.ev = req[r].ev
    <3>1. event[req[r].ev].count + 1 \in Nat
      BY <2>1 DEF TablesOK, EventState
    <3> QED
      BY <2>1, <3>1 DEF ReqState, ReqPcs
  <2>4. ReqOK'
    BY <2>1, <2>2, <2>3, AdvanceType
  <2> QED
    BY <1>5, <2>4 DEF ResendRead, TablesOK, TickOK, Midway, HistoryOK, history, tables
<1>6. CASE ResendCommit(r)
  <2> DEFINE next == [req[r] EXCEPT !.pc = "send"]
  <2>1. /\ req[r].pc \notin {"idle", "done"}
        /\ req[r] \in ReqState /\ req[r].ev \in EventIds
    BY <1>6, AskedFacts DEF ResendCommit
  <2>2. req' = [req EXCEPT ![r] = next]
    BY <1>6 DEF ResendCommit
  <2>3. next \in ReqState /\ next.ev = req[r].ev
    BY <2>1 DEF ReqState, ReqPcs
  <2>4. ReqOK'
    BY <2>1, <2>2, <2>3, AdvanceType
  <2>5. event' \in [EventIds -> EventState]
    BY <1>6, <2>1 DEF ResendCommit, TablesOK, EventState, ReqState
  <2>6. message' \in [EventIds -> MessageState]
    BY <1>6, <2>1 DEF ResendCommit, TablesOK, MessageState, Origins
  <2> QED
    BY <1>6, <2>4, <2>5, <2>6 DEF ResendCommit, TablesOK, TickOK, Midway, HistoryOK, history
<1>7. CASE SaveCommit(r)
  <2>1. req[r].ev \in EventIds
    BY <1>7, AskedFacts DEF SaveCommit
  <2>2. ReqOK'
    BY <1>7, ReqDoneType DEF SaveCommit
  <2>3. message' \in [EventIds -> MessageState]
    BY <1>7, <2>1 DEF SaveCommit, TablesOK, MessageState, Origins
  <2> QED
    BY <1>7, <2>2, <2>3 DEF SaveCommit, TablesOK, TickOK, Midway, HistoryOK, history
<1> QED
  BY <1>1, <1>2, <1>3, <1>4, <1>5, <1>6, <1>7 DEF ReqStep

LEMMA StartType ==
  ASSUME IInv, Start
  PROVE  TypeOK'
<1> USE DEF TypeOK, IInv
<1>1. ASSUME NEW t \in Ticks, TickLoad(t)
      PROVE  TypeOK'
  <2>1. TickOK'
    BY <1>1, LoadType
  <2> QED
    BY <1>1, <2>1 DEF TickLoad, TablesOK, ReqOK, HistoryOK, tables, history
<1>2. ASSUME NEW e \in EventIds, Dismiss(e)
      PROVE  TypeOK'
  <2>1. event' \in [EventIds -> EventState]
    BY <1>2 DEF Dismiss, TablesOK, EventState, Statuses
  <2> QED
    BY <1>2, <2>1 DEF Dismiss, TablesOK, TickOK, Midway, ReqOK, HistoryOK, history
<1>3. ASSUME NEW r \in Requests, NEW e \in EventIds,
             ApproveRead(r, e) \/ ResendCheck(r, e) \/ SaveRead(r, e)
      PROVE  TypeOK'
  <2>1. PICK pc \in {"approveCommit", "resendRead", "saveCommit"},
             op \in {"approve", "resend", "save"} : Ask(r, pc, op, e)
    BY <1>3 DEF ApproveRead, ResendCheck, SaveRead
  <2>2. pc \in ReqPcs
    BY DEF ReqPcs
  <2>3. ReqOK'
    BY <2>1, <2>2, AskType
  <2> QED
    BY <1>3, <2>3 DEF ApproveRead, ResendCheck, SaveRead, TablesOK, TickOK, Midway,
                      HistoryOK, tables, history
<1> QED
  BY <1>1, <1>2, <1>3 DEF Start

LEMMA FaultsType ==
  ASSUME IInv, Faults
  PROVE  TypeOK'
<1> USE DEF TypeOK, IInv
<1>1. CASE Crash
  <2>1. EndedTick \in TickState /\ EndedTick.pc \in {"idle", "done"}
    BY EmptySeq DEF EndedTick, IdleTick, EndPc, TickState, TickPcs
  <2>2. EndedReq \in ReqState /\ EndedReq.pc \in {"idle", "done"}
    BY DEF EndedReq, IdleReq, EndPc, ReqState, ReqPcs
  <2> HIDE DEF EndedTick, EndedReq
  <2>3. TickOK'
    BY <1>1, <2>1 DEF Crash, TickOK, Midway
  <2>4. ReqOK'
    BY <1>1, <2>2 DEF Crash, ReqOK
  <2> QED
    BY <1>1, <2>3, <2>4 DEF Crash, TablesOK, HistoryOK, tables, history
<1>2. ASSUME NEW t \in Ticks, TickThrows(t)
      PROVE  TypeOK'
  <2>1. TickOK'
    BY <1>2, ActionDoneType DEF TickThrows, InAction
  <2>2. told' \subseteq EventIds \X Origins
    <3>1. CASE tick[t].pc = "repeatSend"
      BY <1>2, <3>1, MidwayFacts
      DEF TickThrows, Midway, Backed, TickBacked, Words, Round, Origins, HistoryOK
    <3>2. CASE tick[t].pc # "repeatSend"
      BY <1>2, <3>2 DEF TickThrows, HistoryOK
    <3> QED
      BY <3>1, <3>2
  <2> QED
    BY <1>2, <2>1, <2>2 DEF TickThrows, TablesOK, ReqOK, HistoryOK, tables
<1>3. ASSUME NEW r \in Requests, ReqThrows(r)
      PROVE  TypeOK'
  <2>1. req[r].pc \notin {"idle", "done"} /\ req[r].reached \in BOOLEAN
    BY <1>3, AskedFacts DEF ReqThrows, ReqState
  <2>2. ReqOK'
    <3>1. \/ AfterRound(r, FALSE)
          \/ AfterRound(r, req[r].reached)
          \/ ReqDone(r)
      BY <1>3 DEF ReqThrows
    <3> QED
      BY <2>1, <3>1, AfterRoundType, ReqDoneType
  <2> QED
    BY <1>3, <2>2 DEF ReqThrows, TablesOK, TickOK, Midway, HistoryOK, tables, history
<1>4. ASSUME NEW t \in Ticks, TickDies(t)
      PROVE  TypeOK'
  <2>1. TickOK'
    BY <1>4, EndedTickType DEF TickDies
  <2> QED
    BY <1>4, <2>1 DEF TickDies, TablesOK, ReqOK, HistoryOK, tables, history
<1> QED
  BY <1>1, <1>2, <1>3, <1>4 DEF Faults

-----------------------------------------------------------------------------
(* Consent is kept                                                         *)

LEMMA ActionDoneBacked ==
  ASSUME NEW t \in Ticks, NEW ok, TickOK, \A x \in Ticks : TickBacked(x),
         ActionDone(t, ok), approved' = approved
  PROVE  \A x \in Ticks : TickBacked(x)'
BY DEF TickOK, TickBacked, Target, ActionDone, IdleTick

LEMMA EndedTickBacked ==
  ASSUME NEW t \in Ticks, TickOK, \A x \in Ticks : TickBacked(x),
         tick' = [tick EXCEPT ![t] = EndedTick], approved' = approved
  PROVE  \A x \in Ticks : TickBacked(x)'
BY DEF TickOK, TickBacked, Target, EndedTick, IdleTick, EndPc

LEMMA ReqDoneBacked ==
  ASSUME NEW r \in Requests, ReqOK, \A x \in Requests : ReqBacked(x),
         ReqDone(r), approved' = approved,
         \A e \in EventIds : event[e].status # "none" => event'[e].status # "none"
  PROVE  \A x \in Requests : ReqBacked(x)'
BY DEF ReqOK, ReqBacked, ReqDone, EndedReq, IdleReq, EndPc

LEMMA InsertBacked ==
  ASSUME TablesOK, NEW kind, NEW grade, Insert(kind, grade), approved' = approved,
         \A e \in EventIds : MessageBacked(e)
  PROVE  /\ \A e \in EventIds : MessageBacked(e)'
         /\ \A e \in EventIds : event[e].status # "none" => event'[e].status # "none"
BY DEF TablesOK, Insert, MessageBacked, Unused

\* What the requests rest on does not move unless a request does.
LEMMA OthersBacked ==
  ASSUME ReqOK, \A x \in Requests : ReqBacked(x),
         req' = req, approved' = approved,
         \A e \in EventIds : event[e].status # "none" => event'[e].status # "none"
  PROVE  \A x \in Requests : ReqBacked(x)'
BY DEF ReqOK, ReqBacked

LEMMA TickStepBacked ==
  ASSUME IInv, NEW t \in Ticks, TickStep(t)
  PROVE  Backed'
<1> USE DEF IInv, TypeOK
<1>1. approved' = approved /\ req' = req
  BY DEF TickStep, TickJudge, TickCollectFails, TickCreate, TickEscalate,
         TickRaiseWarning, TickRepeatRead, TickRepeatSend, TickRepeatNumber,
         TickRepeatCommit, TickResolveRead, TickResolveCommit, TickRelease,
         TickFinish, history
<1>2. CASE TickJudge(t) \/ TickCollectFails(t) \/ TickFinish(t)
  <2>1. \A x \in Ticks : TickBacked(x)'
    <3>1. CASE TickJudge(t)
      BY <1>1, <3>1 DEF TickJudge, Backed, TickOK, TickBacked, Target, IdleTick
    <3>2. CASE TickCollectFails(t) \/ TickFinish(t)
      BY <1>1, <3>2, EndedTickBacked DEF TickCollectFails, TickFinish, Backed
    <3> QED
      BY <1>2, <3>1, <3>2
  <2> QED
    BY <1>1, <1>2, <2>1 DEF TickJudge, TickCollectFails, TickFinish, Backed,
       MessageBacked, ReqBacked, HumanInTheLoop, tables, history
<1>3. CASE TickCreate(t) \/ TickRaiseWarning(t)
  <2>1. PICK kind, grade : Insert(kind, grade)
    BY <1>3 DEF TickCreate, TickRaiseWarning
  <2>2. ActionDone(t, TRUE)
    BY <1>3 DEF TickCreate, TickRaiseWarning
  <2>3. \A x \in Ticks : TickBacked(x)'
    BY <1>1, <2>2, ActionDoneBacked DEF Backed
  <2>4. /\ \A e \in EventIds : MessageBacked(e)'
        /\ \A e \in EventIds : event[e].status # "none" => event'[e].status # "none"
    BY <1>1, <2>1, InsertBacked DEF Backed
  <2>5. \A x \in Requests : ReqBacked(x)'
    BY <1>1, <2>4, OthersBacked DEF Backed
  <2> QED
    BY <1>1, <1>3, <2>3, <2>4, <2>5
    DEF TickCreate, TickRaiseWarning, Backed, HumanInTheLoop, history
<1>4. CASE TickEscalate(t)
  <2>1. Target(t) \in EventIds
    BY <1>4, DoingFacts DEF TickEscalate
  <2>2. \A e \in EventIds : event[e].status # "none" => event'[e].status # "none"
    BY <1>4, <2>1 DEF TickEscalate, TablesOK, EventState
  <2>3. \A x \in Requests : ReqBacked(x)'
    BY <1>1, <2>2, OthersBacked DEF Backed
  <2>4. \A x \in Ticks : TickBacked(x)'
    BY <1>1, <1>4 DEF TickEscalate, Backed, TickOK, TickState, TickBacked, Target
  <2> QED
    BY <1>1, <1>4, <2>3, <2>4 DEF TickEscalate, Backed, MessageBacked, HumanInTheLoop, history
<1>5. CASE TickRepeatRead(t) \/ TickResolveRead(t)
  <2>1. Target(t) \in EventIds
    BY <1>5, DoingFacts DEF TickRepeatRead, TickResolveRead
  <2>2. MessageBacked(Target(t))
    BY <2>1 DEF Backed
  <2>3. ASSUME NEW text, NEW pc,
               tick' = [tick EXCEPT ![t].pc = pc, ![t].content = text],
               \/ pc = "repeatSend" /\ Target(t) \in approved /\ text \in Words
               \/ pc = "resolveCommit" /\ (text # Null => Target(t) \in approved)
        PROVE  \A x \in Ticks : TickBacked(x)'
    BY <1>1, <2>3 DEF Backed, TickOK, TickState, TickBacked, Target
  <2>4. \A x \in Ticks : TickBacked(x)'
    <3>1. CASE TickRepeatRead(t) /\ message[Target(t)].status = "approved"
      BY <2>2, <2>3, <3>1 DEF TickRepeatRead, MessageBacked
    <3>2. CASE TickRepeatRead(t) /\ message[Target(t)].status # "approved"
      BY <1>1, <3>2, ActionDoneBacked DEF TickRepeatRead, Backed
    <3>3. CASE TickResolveRead(t)
      BY <2>2, <2>3, <3>3 DEF TickResolveRead, MessageBacked
    <3> QED
      BY <1>5, <3>1, <3>2, <3>3
  <2> QED
    BY <1>1, <1>5, <2>4 DEF TickRepeatRead, TickResolveRead, Backed, MessageBacked,
       ReqBacked, HumanInTheLoop, tables, history
<1>6. CASE TickRepeatSend(t)
  <2>1. \A x \in Ticks : TickBacked(x)'
    BY <1>1, <1>6 DEF TickRepeatSend, Backed, TickOK, TickState, TickBacked, Target
  <2>2. HumanInTheLoop'
    BY <1>1, <1>6 DEF TickRepeatSend, Round, Backed, TickBacked, Words, HumanInTheLoop
  <2> QED
    BY <1>1, <1>6, <2>1, <2>2 DEF TickRepeatSend, Backed, MessageBacked, ReqBacked, tables
<1>7. CASE TickRepeatNumber(t)
  <2>1. \A x \in Ticks : TickBacked(x)'
    BY <1>1, <1>7 DEF TickRepeatNumber, Backed, TickOK, TickState, TickBacked, Target
  <2> QED
    BY <1>1, <1>7, <2>1 DEF TickRepeatNumber, Backed, MessageBacked, ReqBacked,
       HumanInTheLoop, tables, history
<1>8. CASE TickRepeatCommit(t)
  <2>1. Target(t) \in EventIds
    BY <1>8, MidwayFacts DEF TickRepeatCommit, Midway
  <2>2. \A e \in EventIds : event[e].status # "none" => event'[e].status # "none"
    BY <1>8, <2>1, CountFacts DEF TickRepeatCommit
  <2>3. \A x \in Requests : ReqBacked(x)'
    BY <1>1, <2>2, OthersBacked DEF Backed
  <2>4. \A x \in Ticks : TickBacked(x)'
    BY <1>1, <1>8, ActionDoneBacked DEF TickRepeatCommit, Backed
  <2> QED
    BY <1>1, <1>8, <2>3, <2>4
    DEF TickRepeatCommit, Backed, MessageBacked, HumanInTheLoop, history
<1>9. CASE TickResolveCommit(t)
  <2>1. Target(t) \in EventIds
    BY <1>9, MidwayFacts DEF TickResolveCommit, Midway
  <2>2. \A e \in EventIds : event[e].status # "none" => event'[e].status # "none"
    BY <1>9, <2>1 DEF TickResolveCommit, TablesOK, EventState
  <2>3. \A x \in Requests : ReqBacked(x)'
    BY <1>1, <2>2, OthersBacked DEF Backed
  <2>4. \A x \in Ticks : TickBacked(x)'
    <3>1. CASE tick[t].content # Null /\ ResolveNotice
      BY <1>1, <1>9, <3>1
      DEF TickResolveCommit, Backed, TickOK, TickState, TickBacked, Target
    <3>2. CASE ~(tick[t].content # Null /\ ResolveNotice)
      BY <1>1, <1>9, <3>2, ActionDoneBacked DEF TickResolveCommit, Backed
    <3> QED
      BY <3>1, <3>2
  <2> QED
    BY <1>1, <1>9, <2>3, <2>4
    DEF TickResolveCommit, Backed, MessageBacked, HumanInTheLoop, history
<1>10. CASE TickRelease(t)
  <2>1. \A x \in Ticks : TickBacked(x)'
    BY <1>1, <1>10, ActionDoneBacked DEF TickRelease, Backed
  <2>2. released' \subseteq approved'
    BY <1>1, <1>10 DEF TickRelease, Backed, TickBacked
  <2> QED
    BY <1>1, <1>10, <2>1, <2>2 DEF TickRelease, Backed, MessageBacked, ReqBacked,
       HumanInTheLoop, tables
<1> QED
  BY <1>2, <1>3, <1>4, <1>5, <1>6, <1>7, <1>8, <1>9, <1>10 DEF TickStep

LEMMA ReqStepBacked ==
  ASSUME IInv, NEW r \in Requests, ReqStep(r)
  PROVE  Backed'
<1> USE DEF IInv, TypeOK
<1>1. tick' = tick /\ released' = released
  BY DEF ReqStep, ApproveCommit, Send, Record, Unapprove, ResendRead, ResendCommit,
         SaveCommit, history
<1>2. /\ req[r].pc \notin {"idle", "done"}
      /\ req[r] \in ReqState /\ req[r].ev \in EventIds
  BY AskedFacts DEF ReqStep, ApproveCommit, Send, Record, Unapprove, ResendRead,
                    ResendCommit, SaveCommit
<1>3. approved \subseteq approved' => \A t \in Ticks : TickBacked(t)'
  BY <1>1 DEF Backed, TickBacked, Target
<1>4. CASE ApproveCommit(r)
  <2>1. CASE ReqDone(r) /\ UNCHANGED <<event, message, approved>>
    <3>1. \A x \in Requests : ReqBacked(x)'
      BY <2>1, ReqDoneBacked DEF Backed
    <3> QED
      BY <1>1, <1>3, <1>4, <2>1, <3>1 DEF ApproveCommit, Backed, MessageBacked, HumanInTheLoop
  <2>2. CASE /\ message' = [message EXCEPT ![req[r].ev] =
                              [status |-> "approved", content |-> "approved"]]
             /\ event' = [event EXCEPT ![req[r].ev].status = "ACTIVE",
                                       ![req[r].ev].count = 1]
             /\ approved' = approved \union {req[r].ev}
             /\ req' = [req EXCEPT ![r].pc = "send", ![r].no = 1]
    <3>1. \A e \in EventIds : MessageBacked(e)'
      BY <1>2, <2>2 DEF Backed, MessageBacked, TablesOK, MessageState, Words
    <3>2. \A e \in EventIds : event[e].status # "none" => event'[e].status # "none"
      BY <1>2, <2>2 DEF TablesOK, EventState
    <3>3. \A x \in Requests : ReqBacked(x)'
      BY <1>2, <2>2, <3>2 DEF Backed, ReqBacked, ReqOK, ReqState
    <3> QED
      BY <1>1, <1>3, <1>4, <2>2, <3>1, <3>3 DEF ApproveCommit, Backed, HumanInTheLoop
  <2> QED
    BY <1>4, <2>1, <2>2 DEF ApproveCommit
<1>5. CASE Send(r)
  <2>1. \A x \in Requests : ReqBacked(x)'
    BY <1>2, <1>5 DEF Send, Backed, ReqBacked, ReqOK, ReqState, tables
  <2>2. HumanInTheLoop'
    BY <1>5 DEF Send, Round, Backed, ReqBacked, HumanInTheLoop
  <2> QED
    BY <1>1, <1>3, <1>5, <2>1, <2>2 DEF Send, Backed, MessageBacked, tables
<1>6. CASE Record(r)
  <2>1. \A x \in Requests : ReqBacked(x)'
    <3>1. CASE ReqDone(r)
      BY <1>6, <3>1, ReqDoneBacked DEF Record, Backed, history
    <3>2. CASE req' = [req EXCEPT ![r].pc = "unapprove"]
      BY <1>2, <1>6, <3>2 DEF Record, Backed, ReqBacked, ReqOK, ReqState, history
    <3> QED
      BY <1>6, <3>1, <3>2 DEF Record, AfterRound
  <2> QED
    BY <1>1, <1>3, <1>6, <2>1 DEF Record, Backed, MessageBacked, HumanInTheLoop, history
<1>7. CASE Unapprove(r)
  <2>1. \A e \in EventIds : event[e].status # "none" => event'[e].status # "none"
    BY <1>2, <1>7 DEF Unapprove, TablesOK, EventState
  <2>2. \A x \in Requests : ReqBacked(x)'
    BY <1>7, <2>1, ReqDoneBacked DEF Unapprove, Backed, history
  <2>3. \A e \in EventIds : MessageBacked(e)'
    BY <1>2, <1>7 DEF Unapprove, Backed, MessageBacked, TablesOK, MessageState, history
  <2> QED
    BY <1>1, <1>3, <1>7, <2>2, <2>3 DEF Unapprove, Backed, HumanInTheLoop, history
<1>8. CASE ResendRead(r)
  <2>1. \A x \in Requests : ReqBacked(x)'
    BY <1>2, <1>8 DEF ResendRead, Backed, ReqBacked, ReqOK, ReqState, tables, history
  <2> QED
    BY <1>1, <1>3, <1>8, <2>1
    DEF ResendRead, Backed, MessageBacked, HumanInTheLoop, tables, history
<1>9. CASE ResendCommit(r)
  <2>1. \A e \in EventIds : event[e].status # "none" => event'[e].status # "none"
    BY <1>2, <1>9 DEF ResendCommit, TablesOK, EventState
  <2>2. \A x \in Requests : ReqBacked(x)'
    BY <1>2, <1>9, <2>1 DEF ResendCommit, Backed, ReqBacked, ReqOK, ReqState, history
  <2>3. \A e \in EventIds : MessageBacked(e)'
    BY <1>2, <1>9 DEF ResendCommit, Backed, MessageBacked, TablesOK, MessageState, Words, history
  <2> QED
    BY <1>1, <1>3, <1>9, <2>2, <2>3 DEF ResendCommit, Backed, HumanInTheLoop, history
<1>10. CASE SaveCommit(r)
  <2>1. \A x \in Requests : ReqBacked(x)'
    BY <1>10, ReqDoneBacked DEF SaveCommit, Backed, history
  <2>2. \A e \in EventIds : MessageBacked(e)'
    BY <1>2, <1>10 DEF SaveCommit, Backed, MessageBacked, TablesOK, MessageState, Words, history
  <2> QED
    BY <1>1, <1>3, <1>10, <2>1, <2>2 DEF SaveCommit, Backed, HumanInTheLoop, history
<1> QED
  BY <1>4, <1>5, <1>6, <1>7, <1>8, <1>9, <1>10 DEF ReqStep

LEMMA StartBacked ==
  ASSUME IInv, Start
  PROVE  Backed'
<1> USE DEF IInv, TypeOK
<1>1. ASSUME NEW t \in Ticks, TickLoad(t)
      PROVE  Backed'
  <2>1. \A x \in Ticks : TickBacked(x)'
    BY <1>1 DEF TickLoad, Backed, TickOK, TickBacked, Target, IdleTick, history
  <2> QED
    BY <1>1, <2>1
    DEF TickLoad, Backed, MessageBacked, ReqBacked, HumanInTheLoop, tables, history
<1>2. ASSUME NEW e \in EventIds, Dismiss(e)
      PROVE  Backed'
  <2>1. \A x \in EventIds : event[x].status # "none" => event'[x].status # "none"
    BY <1>2 DEF Dismiss, TablesOK, EventState
  <2>2. \A x \in Requests : ReqBacked(x)'
    BY <1>2, <2>1, OthersBacked DEF Dismiss, Backed, history
  <2> QED
    BY <1>2, <2>2
    DEF Dismiss, Backed, MessageBacked, TickBacked, Target, HumanInTheLoop, history
<1>3. ASSUME NEW r \in Requests, NEW e \in EventIds,
             ApproveRead(r, e) \/ ResendCheck(r, e) \/ SaveRead(r, e)
      PROVE  Backed'
  <2>1. \A x \in Requests : ReqBacked(x)'
    <3>1. CASE ApproveRead(r, e)
      BY <3>1 DEF ApproveRead, Ask, IdleReq, Backed, ReqBacked, ReqOK, tables, history
    <3>2. CASE ResendCheck(r, e)
      BY <3>2 DEF ResendCheck, Ask, IdleReq, Backed, MessageBacked, ReqBacked, ReqOK,
                  tables, history
    <3>3. CASE SaveRead(r, e)
      BY <3>3 DEF SaveRead, Ask, IdleReq, Backed, ReqBacked, ReqOK, tables, history
    <3> QED
      BY <1>3, <3>1, <3>2, <3>3
  <2> QED
    BY <1>3, <2>1 DEF ApproveRead, ResendCheck, SaveRead, Backed, MessageBacked,
       TickBacked, Target, HumanInTheLoop, tables, history
<1> QED
  BY <1>1, <1>2, <1>3 DEF Start

LEMMA FaultsBacked ==
  ASSUME IInv, Faults
  PROVE  Backed'
<1> USE DEF IInv, TypeOK
<1>1. CASE Crash
  <2>1. \A t \in Ticks : TickBacked(t)'
    BY <1>1 DEF Crash, Backed, TickBacked, Target, EndedTick, IdleTick, EndPc, history
  <2>2. \A r \in Requests : ReqBacked(r)'
    BY <1>1 DEF Crash, Backed, ReqBacked, EndedReq, IdleReq, EndPc, tables, history
  <2> QED
    BY <1>1, <2>1, <2>2 DEF Crash, Backed, MessageBacked, HumanInTheLoop, tables, history
<1>2. ASSUME NEW t \in Ticks, TickThrows(t)
      PROVE  Backed'
  <2>1. \A x \in Ticks : TickBacked(x)'
    BY <1>2, ActionDoneBacked DEF TickThrows, Backed
  <2>2. HumanInTheLoop'
    BY <1>2 DEF TickThrows, Round, Backed, TickBacked, Words, HumanInTheLoop
  <2> QED
    BY <1>2, <2>1, <2>2 DEF TickThrows, Backed, MessageBacked, ReqBacked, tables
<1>3. ASSUME NEW r \in Requests, ReqThrows(r)
      PROVE  Backed'
  <2>1. req[r] \in ReqState
    BY <1>3, AskedFacts DEF ReqThrows
  <2>2. ReqDone(r) \/ req' = [req EXCEPT ![r].pc = "unapprove"]
    BY <1>3 DEF ReqThrows, AfterRound
  <2>3. \A x \in Requests : ReqBacked(x)'
    <3>1. CASE ReqDone(r)
      BY <1>3, <3>1, ReqDoneBacked DEF ReqThrows, Backed, tables, history
    <3>2. CASE req' = [req EXCEPT ![r].pc = "unapprove"]
      BY <1>3, <2>1, <3>2 DEF ReqThrows, Backed, ReqBacked, ReqOK, ReqState, tables, history
    <3> QED
      BY <2>2, <3>1, <3>2
  <2> QED
    BY <1>3, <2>3 DEF ReqThrows, Backed, MessageBacked, TickBacked, Target,
       HumanInTheLoop, tables, history
<1>4. ASSUME NEW t \in Ticks, TickDies(t)
      PROVE  Backed'
  <2>1. \A x \in Ticks : TickBacked(x)'
    BY <1>4, EndedTickBacked DEF TickDies, Backed, history
  <2> QED
    BY <1>4, <2>1 DEF TickDies, Backed, MessageBacked, ReqBacked, HumanInTheLoop,
       tables, history
<1> QED
  BY <1>1, <1>2, <1>3, <1>4 DEF Faults

-----------------------------------------------------------------------------
(* The theorems                                                            *)

LEMMA InitIInv ==
  Init => IInv
<1> SUFFICES ASSUME Init
             PROVE  IInv
  OBVIOUS
<1>1. TablesOK /\ HistoryOK
  BY DEF Init, TablesOK, HistoryOK, EventState, MessageState, NoEvent, NoMessage,
         Kinds, Grades, Statuses, Origins
<1>2. TickOK
  <2>1. IdleTick \in TickState /\ IdleTick.pc = "idle"
    BY EmptySeq DEF IdleTick, TickState, TickPcs
  <2> QED
    BY <2>1 DEF Init, TickOK, Midway
<1>3. ReqOK
  BY DEF Init, ReqOK, ReqState, ReqPcs, IdleReq
<1>4. Backed
  BY DEF Init, Backed, MessageBacked, TickBacked, ReqBacked, NoMessage, IdleTick,
         IdleReq, HumanInTheLoop
<1> QED
  BY <1>1, <1>2, <1>3, <1>4 DEF IInv, TypeOK

LEMMA StutterIInv ==
  ASSUME IInv, UNCHANGED vars
  PROVE  IInv'
BY DEF IInv, TypeOK, TablesOK, TickOK, Midway, ReqOK, HistoryOK, Backed, MessageBacked,
       TickBacked, Target, ReqBacked, HumanInTheLoop, vars

LEMMA NextIInv ==
  IInv /\ [Next]_vars => IInv'
<1> SUFFICES ASSUME IInv, [Next]_vars
             PROVE  IInv'
  OBVIOUS
<1>1. CASE Start
  BY <1>1, StartType, StartBacked DEF IInv
<1>2. CASE Continue
  BY <1>2, TickStepType, TickStepBacked, ReqStepType, ReqStepBacked DEF Continue, IInv
<1>3. CASE Faults
  BY <1>3, FaultsType, FaultsBacked DEF IInv
<1>4. CASE UNCHANGED vars
  BY <1>4, StutterIInv
<1> QED
  BY <1>1, <1>2, <1>3, <1>4 DEF Next

\* IInv holds of every state of every behaviour.
THEOREM Invariant == Spec => []IInv
<1>1. Init => IInv
  BY InitIInv
<1>2. IInv /\ [Next]_vars => IInv'
  BY NextIInv
<1> QED
  BY <1>1, <1>2, PTL DEF Spec

\* The tables and the local state of the handlers keep their types, and a tick
\* in the middle of an action always has the alert it is about at hand.
THEOREM TypeInvariant == Spec => []TypeOK
<1>1. IInv => TypeOK
  BY DEF IInv
<1> QED
  BY <1>1, Invariant, PTL

\* Nobody ever receives an alert that no approver approved, or words that no
\* approver submitted: for any number of ticks, requests and alerts, whatever
\* fails and whenever the process stops.
THEOREM ConsentIsNeeded == Spec => []HumanInTheLoop
<1>1. IInv => HumanInTheLoop
  BY DEF IInv, Backed
<1> QED
  BY <1>1, Invariant, PTL

-----------------------------------------------------------------------------
(* The pipeline implements the gate                                        *)

Raised == {e \in EventIds : event[e].status # "none"}

LEMMA SilentStep ==
  ASSUME UNCHANGED history, \A e \in EventIds : event'[e].status = event[e].status
  PROVE  UNCHANGED Gate!vars
BY DEF history, Gate!vars

LEMMA RaiseStep ==
  ASSUME UNCHANGED history, NEW e \in EventIds,
         \A x \in EventIds \ {e} : event'[x].status = event[x].status,
         event'[e].status # "none"
  PROVE  [Gate!Next]_(Gate!vars)
<1>1. CASE event[e].status = "none"
  <2>1. Gate!Raise(e)
    BY <1>1 DEF Gate!Raise, history
  <2> QED
    BY <2>1 DEF Gate!Next
<1>2. CASE event[e].status # "none"
  <2>1. Raised' = Raised
    BY <1>2 DEF Raised
  <2> QED
    BY <2>1 DEF Raised, history, Gate!vars
<1> QED
  BY <1>1, <1>2

LEMMA TellStep ==
  ASSUME UNCHANGED <<event, approved, released>>,
         NEW e \in EventIds, e \in approved, NEW text \in Words,
         NEW reached, Round(e, text, reached)
  PROVE  [Gate!Next]_(Gate!vars)
<1>1. CASE reached
  <2>1. Gate!Tell(e, text)
    BY <1>1 DEF Gate!Tell, Round
  <2> QED
    BY <2>1 DEF Gate!Next, Words
<1>2. CASE ~reached
  BY <1>2 DEF Round, Gate!vars
<1> QED
  BY <1>1, <1>2

LEMMA InsertStep ==
  ASSUME TablesOK, NEW kind, NEW grade, Insert(kind, grade), UNCHANGED history
  PROVE  [Gate!Next]_(Gate!vars)
<1>1. CASE UNCHANGED event
  BY <1>1, SilentStep
<1>2. CASE ~UNCHANGED event
  <2>1. PICK e \in Unused :
          event' = [event EXCEPT ![e] =
               [kind |-> kind, grade |-> grade, status |-> "PENDING_APPROVAL",
                closed |-> FALSE, count |-> 0]]
    BY <1>2 DEF Insert
  <2> QED
    BY <2>1, RaiseStep DEF Unused, TablesOK
<1> QED
  BY <1>1, <1>2

LEMMA TickStepGate ==
  ASSUME IInv, NEW t \in Ticks, TickStep(t)
  PROVE  [Gate!Next]_(Gate!vars)
<1> USE DEF IInv, TypeOK
<1>1. CASE \/ TickJudge(t) \/ TickCollectFails(t) \/ TickRepeatRead(t)
           \/ TickRepeatNumber(t) \/ TickResolveRead(t) \/ TickFinish(t)
  BY <1>1, SilentStep DEF TickJudge, TickCollectFails, TickRepeatRead,
     TickRepeatNumber, TickResolveRead, TickFinish, tables
<1>2. CASE TickCreate(t) \/ TickRaiseWarning(t)
  BY <1>2, InsertStep DEF TickCreate, TickRaiseWarning
<1>3. CASE TickEscalate(t) \/ TickResolveCommit(t)
  <2>1. Target(t) \in EventIds
    BY <1>3, DoingFacts, MidwayFacts DEF TickEscalate, TickResolveCommit, Midway
  <2>2. /\ \A x \in EventIds \ {Target(t)} : event'[x].status = event[x].status
        /\ event'[Target(t)].status # "none"
    BY <1>3, <2>1, CloseFacts DEF TickEscalate, TickResolveCommit, Statuses
  <2> QED
    BY <1>3, <2>1, <2>2, RaiseStep DEF TickEscalate, TickResolveCommit
<1>4. CASE TickRepeatSend(t)
  <2>1. Target(t) \in EventIds
    BY <1>4, MidwayFacts DEF TickRepeatSend, Midway
  <2>2. Target(t) \in approved /\ tick[t].content \in Words
    BY <1>4 DEF TickRepeatSend, Backed, TickBacked
  <2>3. \E reached : Round(Target(t), tick[t].content, reached)
    BY <1>4 DEF TickRepeatSend
  <2> QED
    BY <1>4, <2>1, <2>2, <2>3, TellStep DEF TickRepeatSend, tables
<1>5. CASE TickRepeatCommit(t)
  <2>1. Target(t) \in EventIds
    BY <1>5, MidwayFacts DEF TickRepeatCommit, Midway
  <2>2. \A e \in EventIds : event'[e].status = event[e].status
    BY <1>5, <2>1, CountFacts DEF TickRepeatCommit
  <2> QED
    BY <1>5, <2>2, SilentStep DEF TickRepeatCommit
<1>6. CASE TickRelease(t)
  <2>1. Target(t) \in EventIds /\ Target(t) \in approved
    BY <1>6, MidwayFacts DEF TickRelease, Midway, Backed, TickBacked
  <2>2. Gate!Release(Target(t))
    BY <1>6, <2>1 DEF TickRelease, tables, Gate!Release
  <2> QED
    BY <2>1, <2>2 DEF Gate!Next
<1> QED
  BY <1>1, <1>2, <1>3, <1>4, <1>5, <1>6 DEF TickStep

LEMMA ReqStepGate ==
  ASSUME IInv, NEW r \in Requests, ReqStep(r)
  PROVE  [Gate!Next]_(Gate!vars)
<1> USE DEF IInv, TypeOK
<1>1. req[r].ev \in EventIds
  BY AskedFacts DEF ReqStep, ApproveCommit, Send, Record, Unapprove, ResendRead,
                    ResendCommit, SaveCommit
<1>2. CASE ApproveCommit(r)
  <2>1. CASE UNCHANGED <<event, approved>>
    BY <1>2, <2>1, SilentStep DEF ApproveCommit, history
  <2>2. CASE /\ event' = [event EXCEPT ![req[r].ev].status = "ACTIVE",
                                       ![req[r].ev].count = 1]
             /\ approved' = approved \union {req[r].ev}
    <3>1. event[req[r].ev].status # "none"
      BY <1>2 DEF ApproveCommit, Backed, ReqBacked
    <3>2. Raised' = Raised
      BY <1>1, <2>2, <3>1 DEF Raised, TablesOK, EventState
    <3>3. Gate!Approve(req[r].ev)
      BY <1>1, <1>2, <2>2, <3>1, <3>2 DEF ApproveCommit, Raised, Gate!Approve
    <3> QED
      BY <1>1, <3>3 DEF Gate!Next
  <2> QED
    BY <1>2, <2>1, <2>2 DEF ApproveCommit
<1>3. CASE Send(r)
  <2>1. req[r].ev \in approved /\ "approved" \in Words
    BY <1>3 DEF Send, Backed, ReqBacked, Words
  <2>2. \E reached : Round(req[r].ev, "approved", reached)
    BY <1>3 DEF Send
  <2> QED
    BY <1>1, <1>3, <2>1, <2>2, TellStep DEF Send, tables
<1>4. CASE Record(r) \/ ResendRead(r) \/ SaveCommit(r)
  BY <1>4, SilentStep DEF Record, ResendRead, SaveCommit, tables
<1>5. CASE Unapprove(r) \/ ResendCommit(r)
  <2>1. /\ \A x \in EventIds \ {req[r].ev} : event'[x].status = event[x].status
        /\ \/ event'[req[r].ev].status # "none"
           \/ event'[req[r].ev].status = event[req[r].ev].status
    BY <1>1, <1>5 DEF Unapprove, ResendCommit, TablesOK, EventState
  <2> QED
    BY <1>1, <1>5, <2>1, RaiseStep, SilentStep DEF Unapprove, ResendCommit
<1> QED
  BY <1>2, <1>3, <1>4, <1>5 DEF ReqStep

LEMMA StartGate ==
  ASSUME IInv, Start
  PROVE  [Gate!Next]_(Gate!vars)
<1>1. ASSUME NEW e \in EventIds, Dismiss(e)
      PROVE  [Gate!Next]_(Gate!vars)
  <2>1. /\ \A x \in EventIds \ {e} : event'[x].status = event[x].status
        /\ event'[e].status # "none"
    BY <1>1 DEF Dismiss, IInv, TypeOK, TablesOK, EventState
  <2> QED
    BY <1>1, <2>1, RaiseStep DEF Dismiss
<1>2. ASSUME \/ \E t \in Ticks : TickLoad(t)
             \/ \E r \in Requests, e \in EventIds :
                  ApproveRead(r, e) \/ ResendCheck(r, e) \/ SaveRead(r, e)
      PROVE  [Gate!Next]_(Gate!vars)
  BY <1>2, SilentStep DEF TickLoad, ApproveRead, ResendCheck, SaveRead, tables
<1> QED
  BY <1>1, <1>2 DEF Start

LEMMA FaultsGate ==
  ASSUME IInv, Faults
  PROVE  [Gate!Next]_(Gate!vars)
<1>1. ASSUME NEW t \in Ticks, TickThrows(t), tick[t].pc = "repeatSend"
      PROVE  [Gate!Next]_(Gate!vars)
  <2>1. Target(t) \in EventIds
    BY <1>1, MidwayFacts DEF Midway, IInv, TypeOK
  <2>2. Target(t) \in approved /\ tick[t].content \in Words
    BY <1>1 DEF IInv, Backed, TickBacked
  <2>3. \E reached : Round(Target(t), tick[t].content, reached)
    BY <1>1 DEF TickThrows
  <2> QED
    BY <1>1, <2>1, <2>2, <2>3, TellStep DEF TickThrows, tables
<1>2. ASSUME NEW t \in Ticks, TickThrows(t), tick[t].pc # "repeatSend"
      PROVE  [Gate!Next]_(Gate!vars)
  BY <1>2, SilentStep DEF TickThrows, tables, history
<1>3. CASE Crash \/ \E r \in Requests : ReqThrows(r)
  BY <1>3, SilentStep DEF Crash, ReqThrows, tables
<1>4. ASSUME NEW t \in Ticks, TickDies(t)
      PROVE  [Gate!Next]_(Gate!vars)
  BY <1>4, SilentStep DEF TickDies, tables
<1> QED
  BY <1>1, <1>2, <1>3, <1>4 DEF Faults

\* Every step of the pipeline, faults included, is a step of the gate or none:
\* people are told only what a person approved, and hear that an alert is over
\* only if it had been approved.
THEOREM Implementation == Spec => ImplementsGate
<1>1. Init => Gate!Init
  BY DEF Init, Gate!Init, NoEvent
<1>2. IInv /\ [Next]_vars => [Gate!Next]_(Gate!vars)
  <2> SUFFICES ASSUME IInv, [Next]_vars
               PROVE  [Gate!Next]_(Gate!vars)
    OBVIOUS
  <2>1. CASE Start
    BY <2>1, StartGate
  <2>2. CASE Continue
    BY <2>2, TickStepGate, ReqStepGate DEF Continue
  <2>3. CASE Faults
    BY <2>3, FaultsGate
  <2>4. CASE UNCHANGED vars
    BY <2>4, SilentStep DEF vars, history
  <2> QED
    BY <2>1, <2>2, <2>3, <2>4 DEF Next
<1> QED
  BY <1>1, <1>2, Invariant, PTL DEF Spec, ImplementsGate, Gate!Spec

-----------------------------------------------------------------------------
(* What is over comes back only by an approval that was in flight          *)

\* No step but the first read of an approval puts one in flight.
LEMMA FlightKept ==
  ASSUME ReqOK, NEW r \in Requests, NEW e \in EventIds,
         \A x \in Requests \ {r} : req'[x] = req[x],
         req'[r].pc # "approveCommit", ~ApprovalInFlight(e)
  PROVE  ~ApprovalInFlight(e)'
BY DEF ApprovalInFlight

LEMMA InsertOver ==
  ASSUME TablesOK, NEW kind, NEW grade, Insert(kind, grade),
         NEW e \in EventIds, Over(e)
  PROVE  Over(e)'
<1>1. CASE UNCHANGED event
  BY <1>1 DEF Over
<1>2. CASE ~UNCHANGED event
  <2>1. PICK x \in Unused : event' = [event EXCEPT ![x] =
               [kind |-> kind, grade |-> grade, status |-> "PENDING_APPROVAL",
                closed |-> FALSE, count |-> 0]]
    BY <1>2 DEF Insert
  <2>2. e # x
    BY <2>1 DEF Over, Unused
  <2> QED
    BY <2>1, <2>2 DEF Over, TablesOK
<1> QED
  BY <1>1, <1>2

LEMMA TickStepOver ==
  ASSUME IInv, NEW t \in Ticks, TickStep(t), NEW e \in EventIds, Over(e)
  PROVE  Over(e)'
<1> USE DEF IInv, TypeOK
<1>1. CASE TickCreate(t) \/ TickRaiseWarning(t)
  BY <1>1, InsertOver DEF TickCreate, TickRaiseWarning
<1>2. CASE TickEscalate(t) \/ TickResolveCommit(t)
  <2>1. Target(t) \in EventIds
    BY <1>2, DoingFacts, MidwayFacts DEF TickEscalate, TickResolveCommit, Midway
  <2>2. PICK status \in {"ESCALATED", "RESOLVED"} :
          event' = [event EXCEPT ![Target(t)].status = status,
                                 ![Target(t)].closed = TRUE]
    BY <1>2 DEF TickEscalate, TickResolveCommit
  <2>3. \/ event'[e].status = event[e].status
        \/ event'[e].status = status
    BY <2>1, <2>2, CloseFacts DEF Statuses
  <2> QED
    BY <2>3 DEF Over
<1>3. CASE TickRepeatCommit(t)
  <2>1. Target(t) \in EventIds
    BY <1>3, MidwayFacts DEF TickRepeatCommit, Midway
  <2>2. event' = event \/ event' = [event EXCEPT ![Target(t)].count = tick[t].no]
    BY <1>3 DEF TickRepeatCommit
  <2> QED
    BY <2>1, <2>2, CountFacts DEF Over
<1>4. CASE \/ TickJudge(t) \/ TickCollectFails(t) \/ TickRepeatRead(t)
           \/ TickRepeatSend(t) \/ TickRepeatNumber(t) \/ TickResolveRead(t)
           \/ TickRelease(t) \/ TickFinish(t)
  BY <1>4 DEF TickJudge, TickCollectFails, TickRepeatRead, TickRepeatSend,
     TickRepeatNumber, TickResolveRead, TickRelease, TickFinish, Over, tables
<1> QED
  BY <1>1, <1>2, <1>3, <1>4 DEF TickStep

LEMMA ReqStepOver ==
  ASSUME IInv, NEW r \in Requests, ReqStep(r),
         NEW e \in EventIds, Over(e), ~ApprovalInFlight(e)
  PROVE  Over(e)' /\ ~ApprovalInFlight(e)'
<1> USE DEF IInv, TypeOK
<1>1. req[r] \in ReqState /\ req[r].ev \in EventIds
  BY AskedFacts DEF ReqStep, ApproveCommit, Send, Record, Unapprove, ResendRead,
                    ResendCommit, SaveCommit
<1>2. Over(e)'
  <2>1. CASE ApproveCommit(r)
    <3>1. e # req[r].ev
      BY <2>1 DEF ApproveCommit, ApprovalInFlight
    <3> QED
      BY <1>1, <2>1, <3>1 DEF ApproveCommit, Over, TablesOK, EventState
  <2>2. CASE Unapprove(r)
    <3>1. CASE event[req[r].ev].status = "ACTIVE"
      BY <1>1, <2>2, <3>1 DEF Unapprove, Over, TablesOK, EventState
    <3>2. CASE event[req[r].ev].status # "ACTIVE"
      BY <2>2, <3>2 DEF Unapprove, Over
    <3> QED
      BY <3>1, <3>2
  <2>3. CASE ResendCommit(r)
    BY <1>1, <2>3 DEF ResendCommit, Over, TablesOK, EventState
  <2>4. CASE Send(r) \/ Record(r) \/ ResendRead(r) \/ SaveCommit(r)
    BY <2>4 DEF Send, Record, ResendRead, SaveCommit, Over, tables
  <2> QED
    BY <2>1, <2>2, <2>3, <2>4 DEF ReqStep
<1>3. /\ \A x \in Requests \ {r} : req'[x] = req[x]
      /\ req'[r].pc # "approveCommit"
  <2>1. \/ ReqDone(r)
        \/ \E pc \in {"send", "record", "unapprove", "resendCommit"} :
              /\ \A x \in Requests \ {r} : req'[x] = req[x]
              /\ req'[r].pc = pc
    BY <1>1 DEF ReqStep, ApproveCommit, Send, Record, AfterRound, Unapprove, ResendRead,
                ResendCommit, SaveCommit, ReqOK, ReqState
  <2> QED
    BY <2>1 DEF ReqDone, EndedReq, IdleReq, EndPc, ReqOK
<1>4. ~ApprovalInFlight(e)'
  BY <1>3, FlightKept
<1> QED
  BY <1>2, <1>4

LEMMA StartOver ==
  ASSUME IInv, Start, NEW e \in EventIds, Over(e), ~ApprovalInFlight(e)
  PROVE  Over(e)' /\ ~ApprovalInFlight(e)'
<1> USE DEF IInv, TypeOK
<1>1. ASSUME NEW x \in EventIds, Dismiss(x)
      PROVE  Over(e)' /\ ~ApprovalInFlight(e)'
  BY <1>1 DEF Dismiss, Over, ApprovalInFlight, TablesOK, EventState
<1>2. ASSUME NEW t \in Ticks, TickLoad(t)
      PROVE  Over(e)' /\ ~ApprovalInFlight(e)'
  BY <1>2 DEF TickLoad, Over, ApprovalInFlight, tables
<1>3. ASSUME NEW r \in Requests, NEW x \in EventIds, ApproveRead(r, x)
      PROVE  Over(e)' /\ ~ApprovalInFlight(e)'
  <2>1. x # e
    BY <1>3 DEF ApproveRead, Over
  <2> QED
    BY <1>3, <2>1 DEF ApproveRead, Ask, IdleReq, Over, ApprovalInFlight, ReqOK, tables
<1>4. ASSUME NEW r \in Requests, NEW x \in EventIds, ResendCheck(r, x) \/ SaveRead(r, x)
      PROVE  Over(e)' /\ ~ApprovalInFlight(e)'
  <2>1. /\ \A y \in Requests \ {r} : req'[y] = req[y]
        /\ req'[r].pc # "approveCommit"
    BY <1>4 DEF ResendCheck, SaveRead, Ask, IdleReq, ReqOK
  <2> QED
    BY <1>4, <2>1, FlightKept DEF ResendCheck, SaveRead, Over, tables
<1> QED
  BY <1>1, <1>2, <1>3, <1>4 DEF Start

LEMMA FaultsOver ==
  ASSUME IInv, Faults, NEW e \in EventIds, Over(e), ~ApprovalInFlight(e)
  PROVE  Over(e)' /\ ~ApprovalInFlight(e)'
<1> USE DEF IInv, TypeOK
<1>1. event' = event
  BY DEF Faults, Crash, TickThrows, TickDies, ReqThrows, tables
<1>2. ~ApprovalInFlight(e)'
  <2>1. CASE Crash
    BY <2>1 DEF Crash, ApprovalInFlight, EndedReq, IdleReq, EndPc
  <2>2. ASSUME NEW t \in Ticks, TickThrows(t) \/ TickDies(t)
        PROVE  ~ApprovalInFlight(e)'
    BY <2>2 DEF TickThrows, TickDies, ApprovalInFlight
  <2>3. ASSUME NEW r \in Requests, ReqThrows(r)
        PROVE  ~ApprovalInFlight(e)'
    <3>1. ReqDone(r) \/ req' = [req EXCEPT ![r].pc = "unapprove"]
      BY <2>3 DEF ReqThrows, AfterRound
    <3>2. /\ \A x \in Requests \ {r} : req'[x] = req[x]
          /\ req'[r].pc # "approveCommit"
      BY <3>1 DEF ReqDone, EndedReq, IdleReq, EndPc, ReqOK, ReqState
    <3> QED
      BY <3>2, FlightKept
  <2> QED
    BY <2>1, <2>2, <2>3 DEF Faults
<1> QED
  BY <1>1, <1>2 DEF Over

\* An alert that is over, with no approval in flight that had read it as
\* waiting, never comes back: no tick, resend, taken-back approval, fault or
\* restart reopens it.
THEOREM NothingElseReopens == Spec => OverForGood
<1>1. IInv /\ [Next]_vars =>
        [\A e \in EventIds : Over(e) /\ ~ApprovalInFlight(e)
           => (Over(e) /\ ~ApprovalInFlight(e))']_vars
  <2> SUFFICES ASSUME IInv, Next, NEW e \in EventIds, Over(e), ~ApprovalInFlight(e)
               PROVE  Over(e)' /\ ~ApprovalInFlight(e)'
    OBVIOUS
  <2>1. CASE Start
    BY <2>1, StartOver
  <2>2. ASSUME NEW t \in Ticks, TickStep(t)
        PROVE  Over(e)' /\ ~ApprovalInFlight(e)'
    <3>1. req' = req
      BY <2>2 DEF TickStep, TickJudge, TickCollectFails, TickCreate, TickEscalate,
         TickRaiseWarning, TickRepeatRead, TickRepeatSend, TickRepeatNumber,
         TickRepeatCommit, TickResolveRead, TickResolveCommit, TickRelease, TickFinish
    <3> QED
      BY <2>2, <3>1, TickStepOver DEF ApprovalInFlight
  <2>3. ASSUME NEW r \in Requests, ReqStep(r)
        PROVE  Over(e)' /\ ~ApprovalInFlight(e)'
    BY <2>3, ReqStepOver
  <2>4. CASE Faults
    BY <2>4, FaultsOver
  <2> QED
    BY <2>1, <2>2, <2>3, <2>4 DEF Next, Continue
<1> QED
  BY <1>1, Invariant, PTL DEF Spec, OverForGood
=============================================================================
