---------------------------- MODULE SerialProofs ----------------------------
(***************************************************************************)
(* What holds of the alert pipeline when its handlers run one at a time    *)
(* and nothing fails, as the tests run them: for every set of alerts, of   *)
(* runs of the tick and of requests, for every criteria table, weather and *)
(* settings.  These are the properties that the interleavings break.       *)
(***************************************************************************)
EXTENDS AlertPipelineProofs

-----------------------------------------------------------------------------
(* The inductive invariant                                                 *)

TickBusy(t) == tick[t].pc \notin {"idle", "done"}
ReqBusy(r)  == req[r].pc \notin {"idle", "done"}

\* At most one handler is in the middle of anything.
OneAtATime ==
  /\ \A t, u \in Ticks : TickBusy(t) /\ TickBusy(u) => t = u
  /\ \A r, s \in Requests : ReqBusy(r) /\ ReqBusy(s) => r = s
  /\ \A t \in Ticks, r \in Requests : ~(TickBusy(t) /\ ReqBusy(r))

\* Alert e has been raised, and its weather is of this kind: neither changes.
Stands(e, kind) == event[e].status # "none" /\ event[e].kind = kind

\* What a tick has loaded, and what it still has to do, is about alerts that
\* there are, and about their kind of weather.
NamesAlerts(t) ==
  /\ \A row \in tick[t].open : Stands(row.id, row.kind)
  /\ \A i \in DOMAIN tick[t].todo :
       tick[t].todo[i].type # "create" => Stands(tick[t].todo[i].id, tick[t].todo[i].kind)

\* An approval, from its commit to its being taken back.
Approving(e) ==
  \E r \in Requests : /\ req[r].pc \in {"send", "record", "unapprove"}
                      /\ req[r].op = "approve" /\ req[r].ev = e

\* A round of a request that has its number and is not in the history yet.
Recording(e) == \E r \in Requests : req[r].pc \in {"send", "record"} /\ req[r].ev = e

Releasing(e) == \E t \in Ticks : tick[t].pc = "release" /\ Target(t) = e

Escalating(e) == \E t \in Ticks : tick[t].pc = "escalated" /\ Target(t) = e

\* The status of the message follows that of the alert.
InStep(e) ==
  /\ event[e].status = "none" <=> message[e].status = "none"
  /\ event[e].status \in {"PENDING_APPROVAL", "DISMISSED"} => message[e].status = "draft"
  /\ event[e].status = "ACTIVE" => message[e].status = "approved"
  /\ message[e].status = "approved" <=> event[e].count > 0
  /\ message[e].status = "approved" => message[e].content = "approved"

\* Those have been told whose message is approved; while an approval is under
\* way it is approved and the round may not have reached anybody yet.
ToldInStep(e) ==
  /\ Told(e) => message[e].status = "approved"
  /\ message[e].status = "approved" /\ ~Approving(e) => Told(e)

\* The rounds of an alert are numbered up to its counter.  The round of an
\* approval that was taken back keeps the number 1.
Numbered(e) ==
  /\ \A d \in dispatches : d.event = e => d.no >= 1 /\ (d.no <= event[e].count \/ d.no = 1)
  /\ \A n \in Nat : 1 <= n /\ n < event[e].count => Recorded(e, n)
  /\ event[e].count > 0 /\ ~Recording(e) => Recorded(e, event[e].count)

Released(e) ==
  /\ e \in released => Told(e)
  /\ ResolveNotice /\ event[e].status = "RESOLVED" /\ Told(e) /\ ~Releasing(e)
       => e \in released

HasWarning(e) ==
  \E w \in EventIds : event[w].kind = event[e].kind /\ event[w].grade = "warning"
                        /\ event[w].status # "none"

Replaced(e) == event[e].status = "ESCALATED" /\ ~Escalating(e) => HasWarning(e)

AlertOK(e) == InStep(e) /\ ToldInStep(e) /\ Numbered(e) /\ Released(e) /\ Replaced(e)

\* What a tick in the middle of an action has read is still so ...
TickCurrent(t) ==
  LET e == Target(t)
  IN  /\ tick[t].pc = "repeatSend" =>
           message[e].status = "approved" /\ tick[t].content = "approved"
      /\ tick[t].pc = "repeatRecord" => message[e].status = "approved"
      /\ tick[t].pc = "repeatCommit" =>
           message[e].status = "approved" /\ tick[t].no = event[e].count + 1
      /\ tick[t].pc = "resolveCommit" =>
           (tick[t].content # Null <=> message[e].status = "approved")
      /\ tick[t].pc = "release" => event[e].status = "RESOLVED" /\ Told(e)

\* ... and so is what a request has read.
ReqCurrent(r) ==
  LET e == req[r].ev
  IN  /\ req[r].pc = "approveCommit" =>
           req[r].op = "approve" /\ event[e].status = "PENDING_APPROVAL"
      /\ req[r].pc = "saveCommit" => message[e].status = "draft"
      /\ req[r].pc \in {"resendRead", "resendCommit"} =>
           req[r].op = "resend" /\ event[e].status = "ACTIVE"
      /\ req[r].pc = "resendCommit" => req[r].no = event[e].count + 1
      /\ req[r].pc \in {"send", "record", "unapprove"} =>
           event[e].status = "ACTIVE" /\ req[r].no = event[e].count
      /\ req[r].pc = "send" /\ req[r].op = "approve" => ~Told(e)
      /\ req[r].pc \in {"send", "record"} /\ req[r].op = "approve" => req[r].no = 1
      /\ req[r].pc = "record" /\ req[r].op = "approve" => (Told(e) <=> req[r].reached)
      /\ req[r].pc = "unapprove" => req[r].op = "approve" /\ req[r].no = 1 /\ ~Told(e)

Current ==
  /\ OneAtATime
  /\ \A t \in Ticks : NamesAlerts(t) /\ TickCurrent(t)
  /\ \A r \in Requests : ReqCurrent(r)
  /\ \A e \in EventIds : AlertOK(e)
  /\ ApprovedSnapshotOnly

-----------------------------------------------------------------------------
(* Alerts stand                                                            *)

\* An alert that has been raised keeps its kind and its grade.
Kept(e) ==
  event[e].status # "none" =>
    /\ event'[e].status # "none"
    /\ event'[e].kind = event[e].kind /\ event'[e].grade = event[e].grade

LEMMA InsertKeeps ==
  ASSUME TablesOK, NEW kind, NEW grade, Insert(kind, grade), NEW e \in EventIds
  PROVE  Kept(e)
<1>1. CASE UNCHANGED event
  BY <1>1 DEF Kept
<1>2. CASE ~UNCHANGED event
  <2>1. PICK x \in Unused : event' = [event EXCEPT ![x] =
               [kind |-> kind, grade |-> grade, status |-> "PENDING_APPROVAL",
                closed |-> FALSE, count |-> 0]]
    BY <1>2 DEF Insert
  <2> QED
    BY <2>1 DEF Kept, Unused, TablesOK
<1> QED
  BY <1>1, <1>2

LEMMA AlertsAreKept ==
  ASSUME IInv, Start \/ Continue, NEW e \in EventIds
  PROVE  Kept(e)
<1> USE DEF IInv, TypeOK
<1>1. ASSUME NEW t \in Ticks, TickStep(t)
      PROVE  Kept(e)
  <2>1. CASE TickCreate(t) \/ TickRaiseWarning(t)
    BY <2>1, InsertKeeps DEF TickCreate, TickRaiseWarning
  <2>2. CASE TickEscalate(t) \/ TickResolveCommit(t) \/ TickRepeatCommit(t)
    <3>1. Target(t) \in EventIds
      BY <2>2, DoingFacts, MidwayFacts
      DEF TickEscalate, TickResolveCommit, TickRepeatCommit, Midway
    <3>2. CASE TickEscalate(t) \/ TickResolveCommit(t)
      BY <3>1, <3>2, CloseFacts DEF TickEscalate, TickResolveCommit, Statuses, Kept
    <3>3. CASE TickRepeatCommit(t)
      BY <3>1, <3>3, CountFacts DEF TickRepeatCommit, Kept
    <3> QED
      BY <2>2, <3>2, <3>3
  <2>3. CASE \/ TickJudge(t) \/ TickCollectFails(t) \/ TickRepeatRead(t)
             \/ TickRepeatSend(t) \/ TickRepeatNumber(t) \/ TickResolveRead(t)
             \/ TickRelease(t) \/ TickFinish(t)
    BY <2>3 DEF TickJudge, TickCollectFails, TickRepeatRead, TickRepeatSend,
       TickRepeatNumber, TickResolveRead, TickRelease, TickFinish, Kept, tables
  <2> QED
    BY <1>1, <2>1, <2>2, <2>3 DEF TickStep
<1>2. ASSUME NEW r \in Requests, ReqStep(r)
      PROVE  Kept(e)
  <2>1. req[r].ev \in EventIds
    BY <1>2, AskedFacts DEF ReqStep, ApproveCommit, Send, Record, Unapprove, ResendRead,
                            ResendCommit, SaveCommit
  <2>2. CASE ApproveCommit(r)
    <3>1. event[req[r].ev].status # "none"
      BY <2>2 DEF ApproveCommit, Backed, ReqBacked
    <3> QED
      BY <2>1, <2>2, <3>1 DEF ApproveCommit, TablesOK, EventState, Kept
  <2>3. CASE Unapprove(r) \/ ResendCommit(r)
    BY <2>1, <2>3 DEF Unapprove, ResendCommit, TablesOK, EventState, Kept
  <2>4. CASE Send(r) \/ Record(r) \/ ResendRead(r) \/ SaveCommit(r)
    BY <2>4 DEF Send, Record, ResendRead, SaveCommit, Kept, tables
  <2> QED
    BY <1>2, <2>2, <2>3, <2>4 DEF ReqStep
<1>3. CASE Start
  <2>1. ASSUME NEW x \in EventIds, Dismiss(x)
        PROVE  Kept(e)
    BY <2>1 DEF Dismiss, TablesOK, EventState, Kept
  <2>2. ASSUME \/ \E t \in Ticks : TickLoad(t)
               \/ \E r \in Requests, x \in EventIds :
                    ApproveRead(r, x) \/ ResendCheck(r, x) \/ SaveRead(r, x)
        PROVE  Kept(e)
    BY <2>2 DEF TickLoad, ApproveRead, ResendCheck, SaveRead, Kept, tables
  <2> QED
    BY <1>3, <2>1, <2>2 DEF Start
<1> QED
  BY <1>1, <1>2, <1>3 DEF Continue

-----------------------------------------------------------------------------
(* One handler at a time                                                   *)

LEMMA TickMoves ==
  ASSUME TypeOK, NEW t \in Ticks, TickStep(t)
  PROVE  /\ TickBusy(t)
         /\ \A u \in Ticks \ {t} : tick'[u] = tick[u]
         /\ UNCHANGED req
<1>1. UNCHANGED req
  BY DEF TickStep, TickJudge, TickCollectFails, TickCreate, TickEscalate,
         TickRaiseWarning, TickRepeatRead, TickRepeatSend, TickRepeatNumber,
         TickRepeatCommit, TickResolveRead, TickResolveCommit, TickRelease,
         TickFinish
<1>2. TickBusy(t)
  BY DEF TickStep, TickJudge, TickCollectFails, TickCreate, TickEscalate,
         TickRaiseWarning, TickRepeatRead, TickRepeatSend, TickRepeatNumber,
         TickRepeatCommit, TickResolveRead, TickResolveCommit, TickRelease,
         TickFinish, Doing, TickBusy
<1>3. \A u \in Ticks \ {t} : tick'[u] = tick[u]
  BY DEF TickStep, TickJudge, TickCollectFails, TickCreate, TickEscalate,
         TickRaiseWarning, TickRepeatRead, TickRepeatSend, TickRepeatNumber,
         TickRepeatCommit, TickResolveRead, TickResolveCommit, TickRelease,
         TickFinish, ActionDone, TypeOK, TickOK
<1> QED
  BY <1>1, <1>2, <1>3

LEMMA ReqMoves ==
  ASSUME TypeOK, NEW r \in Requests, ReqStep(r)
  PROVE  /\ ReqBusy(r)
         /\ req[r] \in ReqState /\ req[r].ev \in EventIds
         /\ \A s \in Requests \ {r} : req'[s] = req[s]
         /\ UNCHANGED <<tick, released>>
<1>1. ReqBusy(r) /\ UNCHANGED <<tick, released>>
  BY DEF ReqStep, ApproveCommit, Send, Record, Unapprove, ResendRead, ResendCommit,
         SaveCommit, ReqBusy, history
<1>2. \A s \in Requests \ {r} : req'[s] = req[s]
  BY DEF ReqStep, ApproveCommit, Send, Record, AfterRound, Unapprove, ResendRead,
         ResendCommit, SaveCommit, ReqDone, TypeOK, ReqOK
<1> QED
  BY <1>1, <1>2, AskedFacts DEF TypeOK, ReqBusy

LEMMA BusyKept ==
  ASSUME TypeOK, OneAtATime, NextSerial
  PROVE  OneAtATime'
<1>1. ASSUME NEW t \in Ticks, TickStep(t)
      PROVE  OneAtATime'
  BY <1>1, TickMoves DEF OneAtATime, TickBusy, ReqBusy
<1>2. ASSUME NEW r \in Requests, ReqStep(r)
      PROVE  OneAtATime'
  BY <1>2, ReqMoves DEF OneAtATime, TickBusy, ReqBusy
<1>3. CASE Quiescent /\ Start
  <2>1. ASSUME NEW t \in Ticks, TickLoad(t)
        PROVE  OneAtATime'
    <3>1. UNCHANGED req /\ \A u \in Ticks \ {t} : tick'[u] = tick[u]
      BY <2>1 DEF TickLoad, TypeOK, TickOK
    <3> QED
      BY <1>3, <3>1 DEF Quiescent, OneAtATime, TickBusy, ReqBusy
  <2>2. ASSUME NEW e \in EventIds, Dismiss(e)
        PROVE  OneAtATime'
    BY <2>2 DEF Dismiss, OneAtATime, TickBusy, ReqBusy
  <2>3. ASSUME NEW r \in Requests, NEW e \in EventIds,
               ApproveRead(r, e) \/ ResendCheck(r, e) \/ SaveRead(r, e)
        PROVE  OneAtATime'
    <3>1. UNCHANGED tick /\ \A s \in Requests \ {r} : req'[s] = req[s]
      BY <2>3 DEF ApproveRead, ResendCheck, SaveRead, Ask, TypeOK, ReqOK
    <3> QED
      BY <1>3, <3>1 DEF Quiescent, OneAtATime, TickBusy, ReqBusy
  <2> QED
    BY <1>3, <2>1, <2>2, <2>3 DEF Start
<1> QED
  BY <1>1, <1>2, <1>3 DEF NextSerial, Continue

\* While a tick is at work no request is.
LEMMA TickAlone ==
  ASSUME TypeOK, OneAtATime, NEW t \in Ticks, TickStep(t)
  PROVE  /\ \A u \in Ticks \ {t} : ~TickBusy(u) /\ ~TickBusy(u)'
         /\ \A r \in Requests : ~ReqBusy(r) /\ ~ReqBusy(r)'
         /\ \A e : ~Approving(e) /\ ~Recording(e)
         /\ \A e : Releasing(e) <=> tick[t].pc = "release" /\ Target(t) = e
         /\ \A e : Escalating(e) <=> tick[t].pc = "escalated" /\ Target(t) = e
         /\ \A e : Releasing(e)' <=> tick'[t].pc = "release" /\ Target(t)' = e
         /\ \A e : Escalating(e)' <=> tick'[t].pc = "escalated" /\ Target(t)' = e
<1>1. /\ \A u \in Ticks \ {t} : ~TickBusy(u) /\ ~TickBusy(u)'
      /\ \A r \in Requests : ~ReqBusy(r) /\ ~ReqBusy(r)'
  BY TickMoves DEF OneAtATime, TickBusy, ReqBusy
<1> QED
  BY <1>1 DEF TickBusy, ReqBusy, Approving, Recording, Releasing, Escalating

\* While a request is at work no tick is, and no other request.
LEMMA ReqAlone ==
  ASSUME TypeOK, OneAtATime, NEW r \in Requests, ReqStep(r)
  PROVE  /\ \A t \in Ticks : ~TickBusy(t) /\ ~TickBusy(t)'
         /\ \A s \in Requests \ {r} : ~ReqBusy(s) /\ ~ReqBusy(s)'
         /\ \A e : ~Releasing(e) /\ ~Escalating(e)
         /\ \A e : Approving(e) <=> /\ req[r].pc \in {"send", "record", "unapprove"}
                                    /\ req[r].op = "approve" /\ req[r].ev = e
         /\ \A e : Recording(e) <=> req[r].pc \in {"send", "record"} /\ req[r].ev = e
         /\ \A e : Approving(e)' <=> /\ req'[r].pc \in {"send", "record", "unapprove"}
                                     /\ req'[r].op = "approve" /\ req'[r].ev = e
         /\ \A e : Recording(e)' <=> req'[r].pc \in {"send", "record"} /\ req'[r].ev = e
<1>1. /\ \A t \in Ticks : ~TickBusy(t) /\ ~TickBusy(t)'
      /\ \A s \in Requests \ {r} : ~ReqBusy(s) /\ ~ReqBusy(s)'
  BY ReqMoves DEF OneAtATime, TickBusy, ReqBusy
<1> QED
  BY <1>1 DEF TickBusy, ReqBusy, Approving, Recording, Releasing, Escalating

-----------------------------------------------------------------------------
(* What a tick has in hand is about alerts that there are                  *)

LEMMA ListedFacts ==
  ASSUME TickOK, NEW t \in Ticks
  PROVE  /\ \A row \in tick[t].open : row.id \in EventIds /\ row.kind \in Kinds
         /\ \A i \in DOMAIN tick[t].todo : tick[t].todo[i].type # "create" =>
              tick[t].todo[i].id \in EventIds /\ tick[t].todo[i].kind \in Kinds
<1>1. \A row \in tick[t].open : row.id \in EventIds /\ row.kind \in Kinds
  BY DEF TickOK, TickState, Rows
<1>2. tick[t].todo \in Seq(Actions(EventIds))
  BY DEF TickOK, TickState
<1>3. \A i \in DOMAIN tick[t].todo : tick[t].todo[i] \in Actions(EventIds)
  BY <1>2, ElementOfSeq
<1> QED
  BY <1>1, <1>3 DEF Actions

\* Past the judgement, a tick only works off its list, or ends.
LEMMA ListMoves ==
  ASSUME TickOK, NEW t \in Ticks, TickStep(t), ~TickJudge(t)
  PROVE  \/ tick'[t].open = {} /\ tick'[t].todo = <<>>
         \/ tick[t].todo # <<>> /\ tick'[t].open = {} /\ tick'[t].todo = Tail(tick[t].todo)
         \/ tick'[t].open = tick[t].open /\ tick'[t].todo = tick[t].todo
<1>1. tick \in [Ticks -> TickState] /\ tick[t] \in TickState
  BY DEF TickOK
<1>2. CASE TickCollectFails(t) \/ TickFinish(t)
  BY <1>1, <1>2 DEF TickCollectFails, TickFinish, EndedTick, IdleTick
<1>3. ASSUME NEW ok, ActionDone(t, ok)
      PROVE  tick'[t].open = {} /\ tick'[t].todo = Tail(tick[t].todo)
  BY <1>1, <1>3 DEF ActionDone, IdleTick
<1>4. CASE \/ TickCreate(t) \/ TickRaiseWarning(t) \/ TickRepeatCommit(t) \/ TickRelease(t)
  <2>1. tick[t].todo # <<>>
    BY <1>4, MidwayFacts DEF Midway, TickCreate, Doing, TickRaiseWarning, TickRepeatCommit,
                             TickRelease
  <2> QED
    BY <1>3, <1>4, <2>1 DEF TickCreate, TickRaiseWarning, TickRepeatCommit, TickRelease
<1>5. CASE TickEscalate(t) \/ TickRepeatNumber(t) \/ TickResolveRead(t)
  BY <1>1, <1>5 DEF TickEscalate, TickRepeatNumber, TickResolveRead, TickState
<1>6. CASE TickRepeatSend(t)
  <2>1. PICK reached \in BOOLEAN, nobody \in BOOLEAN :
          tick' = [tick EXCEPT ![t].pc = "repeatRecord", ![t].reached = reached,
                               ![t].failed = @ \/ ~(reached \/ nobody)]
    BY <1>6 DEF TickRepeatSend
  <2> QED
    BY <1>1, <2>1 DEF TickState
<1>7. CASE TickRepeatRead(t)
  <2>1. tick[t].todo # <<>>
    BY <1>7 DEF TickRepeatRead, Doing
  <2>2. CASE message[Target(t)].status = "approved"
    <3>1. tick' = [tick EXCEPT ![t].pc = "repeatSend",
                               ![t].content = message[Target(t)].content]
      BY <1>7, <2>2 DEF TickRepeatRead
    <3> QED
      BY <1>1, <3>1 DEF TickState
  <2>3. CASE message[Target(t)].status # "approved"
    BY <1>3, <1>7, <2>1, <2>3 DEF TickRepeatRead
  <2> QED
    BY <2>2, <2>3
<1>8. CASE TickResolveCommit(t)
  <2>1. tick[t].todo # <<>>
    BY <1>8, MidwayFacts DEF TickResolveCommit, Midway
  <2> QED
    BY <1>1, <1>3, <1>8, <2>1 DEF TickResolveCommit, TickState
<1> QED
  BY <1>2, <1>4, <1>5, <1>6, <1>7, <1>8 DEF TickStep

LEMMA NamesKept ==
  ASSUME IInv, \A t \in Ticks : NamesAlerts(t), Start \/ Continue
  PROVE  \A t \in Ticks : NamesAlerts(t)'
<1> USE DEF IInv, TypeOK
<1>1. \A e \in EventIds, kind \in Kinds : Stands(e, kind) => Stands(e, kind)'
  BY AlertsAreKept DEF Kept, Stands
<1>2. ASSUME NEW t \in Ticks, tick'[t].open = tick[t].open, tick'[t].todo = tick[t].todo
      PROVE  NamesAlerts(t)'
  BY <1>1, <1>2, ListedFacts DEF NamesAlerts
<1>3. ASSUME NEW t \in Ticks, TickStep(t), ~TickJudge(t)
      PROVE  NamesAlerts(t)'
  <2>1. /\ tick[t] \in TickState
        /\ tick[t].todo \in Seq(Actions(EventIds))
    BY DEF TickOK, TickState
  <2>2. \/ tick'[t].open = {} /\ tick'[t].todo = <<>>
        \/ tick[t].todo # <<>> /\ tick'[t].open = {} /\ tick'[t].todo = Tail(tick[t].todo)
        \/ tick'[t].open = tick[t].open /\ tick'[t].todo = tick[t].todo
    BY <1>3, <2>1, ListMoves
  <2>3. CASE tick'[t].open = {} /\ tick'[t].todo = <<>>
    BY <2>3 DEF NamesAlerts
  <2>4. CASE tick[t].todo # <<>> /\ tick'[t].open = {} /\ tick'[t].todo = Tail(tick[t].todo)
    <3>1. ASSUME NEW i \in DOMAIN tick'[t].todo
          PROVE  /\ i + 1 \in DOMAIN tick[t].todo
                 /\ tick'[t].todo[i] = tick[t].todo[i + 1]
      BY <2>1, <2>4, HeadTailProperties
    <3>2. ASSUME NEW i \in DOMAIN tick[t].todo, NEW act, act = tick[t].todo[i],
                 act.type # "create"
          PROVE  Stands(act.id, act.kind)'
      BY <1>1, <2>1, <3>2, ListedFacts DEF NamesAlerts
    <3> QED
      BY <2>4, <3>1, <3>2 DEF NamesAlerts
  <2>5. CASE tick'[t].open = tick[t].open /\ tick'[t].todo = tick[t].todo
    BY <1>2, <2>5
  <2> QED
    BY <2>2, <2>3, <2>4, <2>5
<1>4. ASSUME NEW t \in Ticks, TickJudge(t)
      PROVE  NamesAlerts(t)'
  <2>1. PICK acts \in Seq(About(tick[t].open, EventIds)) :
          tick' = [tick EXCEPT ![t] = [IdleTick EXCEPT !.pc = "act", !.todo = acts]]
    BY <1>4, JudgeIsAboutItsRows
  <2>2. tick'[t].open = {} /\ tick'[t].todo = acts
    BY <2>1 DEF TickOK, IdleTick
  <2>3. UNCHANGED event
    BY <1>4 DEF TickJudge, tables
  <2>4. ASSUME NEW i \in DOMAIN acts, acts[i].type # "create"
        PROVE  Stands(acts[i].id, acts[i].kind)'
    <3>1. acts[i] \in About(tick[t].open, EventIds)
      BY ElementOfSeq
    <3> QED
      BY <2>3, <2>4, <3>1 DEF About, NamesAlerts, Stands
  <2> QED
    BY <2>2, <2>4 DEF NamesAlerts
<1>5. ASSUME NEW t \in Ticks, TickLoad(t)
      PROVE  NamesAlerts(t)'
  <2>1. tick'[t].open = OpenRows /\ tick'[t].todo = <<>> /\ UNCHANGED event
    BY <1>5 DEF TickLoad, IdleTick, TickOK, tables
  <2>2. \A row \in OpenRows : Stands(row.id, row.kind)
    BY DEF OpenRows, Live, LiveStatus, Stands
  <2> QED
    BY <2>1, <2>2 DEF NamesAlerts, Stands
<1> TAKE t \in Ticks
<1>6. CASE \E u \in Ticks : TickStep(u)
  <2>1. PICK u \in Ticks : TickStep(u)
    BY <1>6
  <2> QED
    BY <1>2, <1>3, <1>4, <2>1, TickMoves
<1>7. CASE \E u \in Ticks : TickLoad(u)
  <2>1. PICK u \in Ticks : TickLoad(u)
    BY <1>7
  <2>2. u # t => tick'[t] = tick[t]
    BY <2>1 DEF TickLoad, TickOK
  <2> QED
    BY <1>2, <1>5, <2>1, <2>2
<1>8. CASE UNCHANGED tick
  BY <1>2, <1>8
<1>9. \/ \E u \in Ticks : TickStep(u)
      \/ \E u \in Ticks : TickLoad(u)
      \/ UNCHANGED tick
  BY ReqMoves DEF Start, Continue, Dismiss, ApproveRead, ResendCheck, SaveRead
<1> QED
  BY <1>6, <1>7, <1>8, <1>9

-----------------------------------------------------------------------------
(* Alert by alert                                                          *)

\* A step that has nothing to do with an alert leaves it as it should be.
LEMMA AlertFrame ==
  ASSUME NEW e \in EventIds, AlertOK(e),
         event'[e] = event[e], message'[e] = message[e],
         Told(e)' <=> Told(e), e \in released' <=> e \in released,
         \A n \in Nat : Recorded(e, n) => Recorded(e, n)',
         \A d \in dispatches' : d.event = e => d \in dispatches,
         event[e].count \in Nat,
         Approving(e) => Approving(e)', Recording(e) => Recording(e)',
         Releasing(e) => Releasing(e)', Escalating(e) => Escalating(e)' \/ HasWarning(e)',
         \A w \in EventIds : Kept(w)
  PROVE  AlertOK(e)'
<1>1. InStep(e)' /\ ToldInStep(e)' /\ Released(e)'
  BY DEF AlertOK, InStep, ToldInStep, Released
<1>2. Numbered(e)'
  BY DEF AlertOK, Numbered
<1>3. Replaced(e)'
  BY DEF AlertOK, Replaced, HasWarning, Kept
<1> QED
  BY <1>1, <1>2, <1>3 DEF AlertOK

\* A round tells one alert's recipients, and nothing of the others.
LEMMA RoundFacts ==
  ASSUME NEW e, NEW origin, NEW reached \in BOOLEAN, Round(e, origin, reached)
  PROVE  /\ \A x : x # e => (Told(x)' <=> Told(x))
         /\ Told(e)' <=> Told(e) \/ reached
         /\ ApprovedSnapshotOnly /\ origin = "approved" => ApprovedSnapshotOnly'
<1>1. told' = IF reached THEN told \union {<<e, origin>>} ELSE told
  BY DEF Round
<1>2. \A x : x # e => (Told(x)' <=> Told(x))
  BY <1>1 DEF Told
<1>3. Told(e)' <=> Told(e) \/ reached
  <2>1. CASE reached
    <3>1. <<e, origin>> \in told' /\ <<e, origin>>[1] = e
      BY <1>1, <2>1
    <3> QED
      BY <2>1, <3>1, Zenon DEF Told
  <2>2. CASE ~reached
    BY <1>1, <2>2 DEF Told
  <2> QED
    BY <2>1, <2>2
<1>4. ApprovedSnapshotOnly /\ origin = "approved" => ApprovedSnapshotOnly'
  BY <1>1 DEF ApprovedSnapshotOnly
<1> QED
  BY <1>2, <1>3, <1>4

\* A row in the history is a row about one alert.
LEMMA RowFacts ==
  ASSUME NEW row, dispatches' = dispatches \union {row}
  PROVE  /\ \A x, n : Recorded(x, n)' <=> Recorded(x, n) \/ (row.event = x /\ row.no = n)
         /\ \A x : x # row.event => \A d \in dispatches' : d.event = x => d \in dispatches
BY DEF Recorded

LEMMA Counts ==
  ASSUME TypeOK, NEW e \in EventIds
  PROVE  event[e].count \in Nat
BY DEF TypeOK, TablesOK, EventState

\* Steps that change no table, and tell nobody, leave every alert as it is but
\* for the handlers that are at it.
LEMMA QuietFrame ==
  ASSUME TypeOK, \A e \in EventIds : AlertOK(e),
         UNCHANGED <<event, message, dispatches, told, released>>,
         NEW e \in EventIds,
         Approving(e) => Approving(e)', Recording(e) => Recording(e)',
         Releasing(e) => Releasing(e)', Escalating(e) => Escalating(e)' \/ HasWarning(e)'
  PROVE  AlertOK(e)'
<1>1. \A w \in EventIds : Kept(w)
  BY DEF Kept
<1>2. Told(e)' <=> Told(e)
  BY DEF Told
<1>3. \A n \in Nat : Recorded(e, n) => Recorded(e, n)'
  BY DEF Recorded
<1> QED
  BY <1>1, <1>2, <1>3, AlertFrame, Counts

LEMMA InsertAlerts ==
  ASSUME TypeOK, \A e \in EventIds : AlertOK(e), ApprovedSnapshotOnly,
         NEW kind \in Kinds, NEW grade \in Grades, Insert(kind, grade),
         UNCHANGED <<dispatches, told, released>>,
         NEW e \in EventIds,
         Approving(e) => Approving(e)', Recording(e) => Recording(e)',
         Releasing(e) => Releasing(e)', Escalating(e) => Escalating(e)' \/ HasWarning(e)'
  PROVE  AlertOK(e)'
<1>1. CASE UNCHANGED <<event, message>>
  BY <1>1, QuietFrame
<1>2. ASSUME NEW x \in Unused,
             event' = [event EXCEPT ![x] =
               [kind |-> kind, grade |-> grade, status |-> "PENDING_APPROVAL",
                closed |-> FALSE, count |-> 0]],
             message' = [message EXCEPT ![x] = [status |-> "draft", content |-> "composed"]]
      PROVE  AlertOK(e)'
  <2>1. /\ Told(e)' <=> Told(e)
        /\ \A n \in Nat : Recorded(e, n) => Recorded(e, n)'
    BY DEF Told, Recorded
  <2>2. CASE e # x
    <3>1. \A w \in EventIds : Kept(w)
      BY <1>2 DEF Kept, Unused, TypeOK, TablesOK
    <3>2. event'[e] = event[e] /\ message'[e] = message[e]
      BY <1>2, <2>2 DEF TypeOK, TablesOK
    <3> QED
      BY <2>1, <3>1, <3>2, AlertFrame, Counts
  <2>3. CASE e = x
    <3>1. /\ event'[e].status = "PENDING_APPROVAL" /\ event'[e].count = 0
          /\ message'[e].status = "draft"
      BY <1>2, <2>3 DEF TypeOK, TablesOK
    <3>2. /\ event[e].status = "none" /\ message[e].status = "none"
          /\ ~Told(e) /\ event[e].count = 0 /\ e \notin released
      BY <2>3, Counts DEF Unused, AlertOK, InStep, ToldInStep, Released
    <3>3. InStep(e)' /\ ToldInStep(e)' /\ Released(e)' /\ Replaced(e)'
      BY <2>1, <3>1, <3>2 DEF InStep, ToldInStep, Released, Replaced
    <3>4. Numbered(e)'
      BY <3>1, <3>2 DEF AlertOK, Numbered
    <3> QED
      BY <3>3, <3>4 DEF AlertOK
  <2> QED
    BY <2>2, <2>3
<1> QED
  BY <1>1, <1>2 DEF Insert

\* An insert leaves a live alert of that kind and grade behind.
LEMMA InsertLeavesOne ==
  ASSUME TypeOK, NEW kind, NEW grade, Insert(kind, grade)
  PROVE  \E w \in EventIds : /\ event'[w].kind = kind /\ event'[w].grade = grade
                             /\ event'[w].status # "none"
<1>1. CASE Occupied(kind, grade, EventIds) /\ UNCHANGED event
  BY <1>1 DEF Occupied, Live, LiveStatus
<1>2. CASE \E e \in Unused :
         event' = [event EXCEPT ![e] =
              [kind |-> kind, grade |-> grade, status |-> "PENDING_APPROVAL",
               closed |-> FALSE, count |-> 0]]
  BY <1>2 DEF Unused, TypeOK, TablesOK
<1> QED
  BY <1>1, <1>2 DEF Insert

-----------------------------------------------------------------------------
(* The steps of a tick                                                     *)

LEMMA TickFacts ==
  ASSUME IInv, Current, NEW t \in Ticks, TickStep(t),
         tick[t].pc # "fetch", tick[t].todo # <<>>, Head(tick[t].todo).type # "create"
  PROVE  /\ Target(t) \in EventIds
         /\ Head(tick[t].todo).kind \in Kinds
         /\ Stands(Target(t), Head(tick[t].todo).kind)
<1> USE DEF IInv, TypeOK
<1>1. Head(tick[t].todo) \in Actions(EventIds)
  BY HeadIsTyped
<1>2. 1 \in DOMAIN tick[t].todo /\ Head(tick[t].todo) = tick[t].todo[1]
  <2>1. tick[t].todo \in Seq(Actions(EventIds))
    BY DEF TickOK, TickState
  <2> QED
    BY <2>1
<1> QED
  BY <1>1, <1>2 DEF Current, NamesAlerts, Target, Actions

LEMMA TickStepAlerts ==
  ASSUME IInv, Current, NEW t \in Ticks, TickStep(t), NEW e \in EventIds
  PROVE  AlertOK(e)'
<1> USE DEF IInv, TypeOK
<1>1. /\ ~Approving(e) /\ ~Recording(e)
      /\ Releasing(e) <=> tick[t].pc = "release" /\ Target(t) = e
      /\ Escalating(e) <=> tick[t].pc = "escalated" /\ Target(t) = e
      /\ Releasing(e)' <=> tick'[t].pc = "release" /\ Target(t)' = e
      /\ Escalating(e)' <=> tick'[t].pc = "escalated" /\ Target(t)' = e
  BY TickAlone DEF Current
<1>2. \A x \in EventIds : AlertOK(x)
  BY DEF Current
<1>3. \A x \in EventIds : Kept(x)
  BY AlertsAreKept DEF Continue
<1>4. event[e].count \in Nat
  BY Counts
<1>5. CASE \/ TickJudge(t) \/ TickCollectFails(t) \/ TickRepeatRead(t)
           \/ TickRepeatNumber(t) \/ TickResolveRead(t) \/ TickFinish(t)
  <2>1. UNCHANGED <<event, message, dispatches, told, released>>
    BY <1>5 DEF TickJudge, TickCollectFails, TickRepeatRead, TickRepeatNumber,
                TickResolveRead, TickFinish, tables, history
  <2>2. tick[t].pc \notin {"release", "escalated"}
    BY <1>5 DEF TickJudge, TickCollectFails, TickRepeatRead, TickRepeatNumber,
                TickResolveRead, TickFinish, Doing
  <2> QED
    BY <1>1, <1>2, <2>1, <2>2, QuietFrame
<1>6. CASE TickCreate(t)
  <2>1. Head(tick[t].todo) \in Actions(EventIds) /\ tick[t].pc = "act"
    BY <1>6, HeadIsTyped DEF TickCreate, Doing
  <2>2. /\ Insert(Head(tick[t].todo).kind, Head(tick[t].todo).grade)
        /\ UNCHANGED <<dispatches, told, released>>
    BY <1>6 DEF TickCreate, history
  <2> QED
    BY <1>1, <1>2, <2>1, <2>2, InsertAlerts DEF Current, Actions
<1>7. CASE TickRaiseWarning(t)
  <2>1. /\ tick[t].pc = "escalated" /\ Insert(Head(tick[t].todo).kind, "warning")
        /\ UNCHANGED <<dispatches, told, released>>
    BY <1>7 DEF TickRaiseWarning, history
  <2>2. /\ Target(t) \in EventIds /\ Head(tick[t].todo).kind \in Kinds
        /\ Stands(Target(t), Head(tick[t].todo).kind)
    BY <2>1, MidwayFacts, TickFacts DEF Midway
  <2>3. Target(t) = e => HasWarning(e)'
    BY <1>3, <2>1, <2>2, InsertLeavesOne DEF HasWarning, Stands, Kept
  <2> QED
    BY <1>1, <1>2, <2>1, <2>2, <2>3, InsertAlerts DEF Current, Grades
<1>8. CASE TickEscalate(t)
  <2>1. /\ Target(t) \in EventIds /\ tick[t].pc = "act"
        /\ Stands(Target(t), Head(tick[t].todo).kind)
    BY <1>8, DoingFacts, TickFacts DEF TickEscalate, Doing
  <2>2. /\ event'[Target(t)].status = "ESCALATED"
        /\ event'[Target(t)].count = event[Target(t)].count
        /\ \A x \in EventIds \ {Target(t)} : event'[x] = event[x]
        /\ UNCHANGED <<message, dispatches, told, released>>
    BY <1>8, <2>1, CloseFacts DEF TickEscalate, Statuses, history
  <2>3. tick'[t].pc = "escalated" /\ Target(t)' = Target(t)
    BY <1>8 DEF TickEscalate, TickOK, TickState, Target
  <2>4. /\ Told(e)' <=> Told(e)
        /\ \A n \in Nat : Recorded(e, n)' <=> Recorded(e, n)
    BY <2>2 DEF Told, Recorded
  <2>5. CASE e # Target(t)
    BY <1>1, <1>2, <1>3, <1>4, <2>1, <2>2, <2>4, <2>5, AlertFrame
  <2>6. CASE e = Target(t)
    <3>1. Escalating(e)'
      BY <1>1, <2>3, <2>6
    <3>2. InStep(e)' /\ ToldInStep(e)'
      BY <1>1, <1>2, <2>1, <2>2, <2>4, <2>6 DEF AlertOK, InStep, ToldInStep, Stands
    <3>3. Released(e)' /\ Replaced(e)'
      BY <1>2, <2>2, <2>4, <2>6, <3>1 DEF AlertOK, Released, Replaced
    <3>4. Numbered(e)'
      BY <1>1, <1>2, <1>4, <2>2, <2>4, <2>6 DEF AlertOK, Numbered
    <3> QED
      BY <3>2, <3>3, <3>4 DEF AlertOK
  <2> QED
    BY <2>5, <2>6
<1>9. CASE TickRepeatSend(t)
  <2>1. /\ Target(t) \in EventIds /\ tick[t].pc = "repeatSend"
        /\ message[Target(t)].status = "approved"
        /\ UNCHANGED <<event, message, dispatches, released>>
    BY <1>9, MidwayFacts DEF TickRepeatSend, Midway, Current, TickCurrent, tables
  <2>2. PICK reached \in BOOLEAN : Round(Target(t), tick[t].content, reached)
    BY <1>9 DEF TickRepeatSend
  <2>3. \A x \in EventIds : Told(x)' <=> Told(x)
    <3>1. ASSUME NEW x \in EventIds, x # Target(t)
          PROVE  Told(x)' <=> Told(x)
      BY <2>2, <3>1, RoundFacts
    <3>2. ASSUME NEW x \in EventIds, x = Target(t)
          PROVE  Told(x)' <=> Told(x)
      <4>1. Told(x)
        BY <2>1, <3>2, TickAlone DEF Current, AlertOK, ToldInStep
      <4>2. Told(x)' <=> Told(x) \/ reached
        BY <2>2, <3>2, RoundFacts
      <4> QED
        BY <4>1, <4>2
    <3> QED
      BY <3>1, <3>2
  <2>4. \A n \in Nat : Recorded(e, n) => Recorded(e, n)'
    BY <2>1 DEF Recorded
  <2> QED
    BY <1>1, <1>2, <1>3, <1>4, <2>1, <2>3, <2>4, AlertFrame
<1>10. CASE TickRepeatCommit(t)
  <2>1. /\ Target(t) \in EventIds /\ tick[t].pc = "repeatCommit"
        /\ message[Target(t)].status = "approved"
        /\ tick[t].no = event[Target(t)].count + 1
        /\ UNCHANGED <<message, told, released>>
    BY <1>10, MidwayFacts DEF TickRepeatCommit, Midway, Current, TickCurrent, history
  <2>2. CASE Recorded(Target(t), tick[t].no)
    <3>1. UNCHANGED <<event, dispatches>>
      BY <1>10, <2>2 DEF TickRepeatCommit
    <3> QED
      BY <1>1, <1>2, <2>1, <3>1, QuietFrame
  <2>3. CASE ~Recorded(Target(t), tick[t].no)
    <3> DEFINE row == [event |-> Target(t), no |-> tick[t].no, reached |-> tick[t].reached]
    <3>1. dispatches' = dispatches \union {row} /\ row.event = Target(t) /\ row.no = tick[t].no
      BY <1>10, <2>3 DEF TickRepeatCommit
    <3>2. event' = [event EXCEPT ![Target(t)].count = tick[t].no]
      BY <1>10, <2>3 DEF TickRepeatCommit
    <3>3. /\ \A x \in EventIds : event'[x].status = event[x].status
          /\ event'[Target(t)].count = tick[t].no
          /\ \A x \in EventIds \ {Target(t)} : event'[x] = event[x]
      BY <2>1, <3>2, CountFacts
    <3> HIDE DEF row
    <3>4. /\ \A n : Recorded(e, n)' <=> Recorded(e, n) \/ (row.event = e /\ row.no = n)
          /\ e # row.event => \A d \in dispatches' : d.event = e => d \in dispatches
      BY <3>1, RowFacts
    <3>5. Told(e)' <=> Told(e)
      BY <2>1 DEF Told
    <3>6. CASE e # Target(t)
      BY <1>1, <1>2, <1>3, <1>4, <2>1, <3>1, <3>3, <3>4, <3>5, <3>6, AlertFrame
    <3>7. CASE e = Target(t)
      <4>1. InStep(e)' /\ ToldInStep(e)'
        BY <1>1, <1>2, <1>4, <2>1, <3>3, <3>5, <3>7 DEF AlertOK, InStep, ToldInStep
      <4>2. Released(e)'
        BY <1>1, <1>2, <2>1, <3>3, <3>5, <3>7 DEF AlertOK, Released
      <4>3. Replaced(e)'
        BY <1>1, <1>2, <1>3, <2>1, <3>3, <3>7 DEF AlertOK, Replaced, HasWarning, Kept
      <4>4. Numbered(e)'
        <5>1. event[e].count > 0
          BY <1>2, <2>1, <3>7 DEF AlertOK, InStep
        <5>2. event'[e].count = event[e].count + 1
          BY <2>1, <3>3, <3>7
        <5>3. \A d \in dispatches' : d.event = e =>
                 d.no >= 1 /\ (d.no <= event'[e].count \/ d.no = 1)
          <6>1. ASSUME NEW d \in dispatches, d.event = e
                PROVE  d.no >= 1 /\ (d.no <= event'[e].count \/ d.no = 1)
            <7>1. d.no \in Nat
              BY DEF TablesOK, Dispatch
            <7> QED
              BY <1>2, <1>4, <5>2, <6>1, <7>1 DEF AlertOK, Numbered
          <6>2. row.no >= 1 /\ row.no <= event'[e].count
            BY <1>4, <2>1, <3>1, <3>7, <5>2
          <6> QED
            BY <3>1, <6>1, <6>2
        <5>4. ASSUME NEW n \in Nat, 1 <= n, n < event'[e].count
              PROVE  Recorded(e, n)'
          <6>1. Recorded(e, n)
            BY <1>1, <1>2, <1>4, <5>1, <5>2, <5>4 DEF AlertOK, Numbered
          <6> QED
            BY <3>4, <6>1
        <5>5. Recorded(e, event[e].count)'
          BY <3>1, <3>3, <3>4, <3>7
        <5> QED
          BY <5>2, <5>3, <5>4, <5>5 DEF Numbered
      <4> QED
        BY <4>1, <4>2, <4>3, <4>4 DEF AlertOK
    <3> QED
      BY <3>6, <3>7
  <2> QED
    BY <2>2, <2>3
<1>11. CASE TickResolveCommit(t)
  <2>1. /\ Target(t) \in EventIds /\ tick[t].pc = "resolveCommit"
        /\ tick[t].content # Null <=> message[Target(t)].status = "approved"
        /\ Stands(Target(t), Head(tick[t].todo).kind)
    BY <1>11, MidwayFacts, TickFacts DEF TickResolveCommit, Midway, Current, TickCurrent
  <2>2. /\ event'[Target(t)].status = "RESOLVED"
        /\ event'[Target(t)].count = event[Target(t)].count
        /\ \A x \in EventIds \ {Target(t)} : event'[x] = event[x]
        /\ UNCHANGED <<message, dispatches, told, released>>
    BY <1>11, <2>1, CloseFacts DEF TickResolveCommit, Statuses, history
  <2>3. tick[t].content # Null /\ ResolveNotice =>
          tick'[t].pc = "release" /\ Target(t)' = Target(t)
    BY <1>11 DEF TickResolveCommit, TickOK, TickState, Target
  <2>4. /\ Told(e)' <=> Told(e)
        /\ \A n \in Nat : Recorded(e, n)' <=> Recorded(e, n)
    BY <2>2 DEF Told, Recorded
  <2>5. CASE e # Target(t)
    BY <1>1, <1>2, <1>3, <1>4, <2>1, <2>2, <2>4, <2>5, AlertFrame
  <2>6. CASE e = Target(t)
    <3>1. InStep(e)' /\ ToldInStep(e)'
      BY <1>1, <1>2, <2>1, <2>2, <2>4, <2>6 DEF AlertOK, InStep, ToldInStep, Stands
    <3>2. Released(e)'
      BY <1>1, <1>2, <2>1, <2>2, <2>3, <2>4, <2>6 DEF AlertOK, Released, ToldInStep
    <3>3. Replaced(e)'
      BY <2>2, <2>6 DEF Replaced
    <3>4. Numbered(e)'
      BY <1>1, <1>2, <1>4, <2>2, <2>4, <2>6 DEF AlertOK, Numbered
    <3> QED
      BY <3>1, <3>2, <3>3, <3>4 DEF AlertOK
  <2> QED
    BY <2>5, <2>6
<1>12. CASE TickRelease(t)
  <2>1. /\ tick[t].pc = "release" /\ released' = released \union {Target(t)}
        /\ UNCHANGED <<event, message, dispatches, told>>
        /\ Told(Target(t))
    BY <1>12 DEF TickRelease, tables, Current, TickCurrent
  <2>2. /\ Told(e)' <=> Told(e)
        /\ \A n \in Nat : Recorded(e, n)' <=> Recorded(e, n)
    BY <2>1 DEF Told, Recorded
  <2>3. CASE e # Target(t)
    BY <1>1, <1>2, <1>3, <1>4, <2>1, <2>2, <2>3, AlertFrame
  <2>4. CASE e = Target(t)
    <3>1. InStep(e)' /\ ToldInStep(e)'
      BY <1>1, <1>2, <2>1, <2>2 DEF AlertOK, InStep, ToldInStep
    <3>2. Released(e)'
      BY <2>1, <2>2, <2>4 DEF Released
    <3>3. Replaced(e)'
      BY <1>1, <1>2, <1>3, <2>1 DEF AlertOK, Replaced, HasWarning, Kept
    <3>4. Numbered(e)'
      BY <1>1, <1>2, <1>4, <2>1, <2>2 DEF AlertOK, Numbered
    <3> QED
      BY <3>1, <3>2, <3>3, <3>4 DEF AlertOK
  <2> QED
    BY <2>3, <2>4
<1> QED
  BY <1>5, <1>6, <1>7, <1>8, <1>9, <1>10, <1>11, <1>12 DEF TickStep

LEMMA TickStepCurrent ==
  ASSUME IInv, Current, NEW t \in Ticks, TickStep(t)
  PROVE  /\ \A u \in Ticks : TickCurrent(u)'
         /\ \A r \in Requests : ReqCurrent(r)'
         /\ ApprovedSnapshotOnly'
<1> USE DEF IInv, TypeOK
<1>1. \A r \in Requests : ReqCurrent(r)'
  BY TickAlone DEF Current, ReqCurrent, ReqBusy
<1>2. \A u \in Ticks \ {t} : TickCurrent(u)'
  BY TickAlone DEF Current, TickCurrent, TickBusy
<1>3. ApprovedSnapshotOnly'
  <2>1. CASE TickRepeatSend(t)
    <3>1. tick[t].content = "approved"
      BY <2>1 DEF TickRepeatSend, Current, TickCurrent
    <3> QED
      BY <2>1, <3>1, RoundFacts DEF TickRepeatSend, Current
  <2>2. CASE ~TickRepeatSend(t)
    <3>1. UNCHANGED told
      BY <2>2 DEF TickStep, TickJudge, TickCollectFails, TickCreate, TickEscalate,
         TickRaiseWarning, TickRepeatRead, TickRepeatNumber, TickRepeatCommit,
         TickResolveRead, TickResolveCommit, TickRelease, TickFinish, history
    <3> QED
      BY <3>1 DEF Current, ApprovedSnapshotOnly
  <2> QED
    BY <2>1, <2>2
<1>4. tick[t] \in TickState
  BY DEF TickOK
<1> SUFFICES TickCurrent(t)'
  BY <1>1, <1>2, <1>3
<1>5. ASSUME tick'[t].pc \in {"idle", "act", "escalated", "done"}
      PROVE  TickCurrent(t)'
  BY <1>5 DEF TickCurrent
<1>6. ASSUME NEW ok, ActionDone(t, ok)
      PROVE  TickCurrent(t)'
  BY <1>5, <1>6 DEF ActionDone, IdleTick, TickOK
<1>7. CASE TickJudge(t) \/ TickCollectFails(t) \/ TickFinish(t)
  BY <1>5, <1>7 DEF TickJudge, TickCollectFails, TickFinish, EndedTick, EndPc, IdleTick,
                    TickOK
<1>8. CASE TickCreate(t) \/ TickRaiseWarning(t) \/ TickRepeatCommit(t) \/ TickRelease(t)
  BY <1>6, <1>8 DEF TickCreate, TickRaiseWarning, TickRepeatCommit, TickRelease
<1>9. CASE TickEscalate(t)
  BY <1>4, <1>5, <1>9 DEF TickEscalate, TickOK, TickState
<1>10. CASE TickRepeatRead(t)
  <2>1. CASE message[Target(t)].status = "approved"
    <3>1. tick' = [tick EXCEPT ![t].pc = "repeatSend",
                               ![t].content = message[Target(t)].content]
      BY <1>10, <2>1 DEF TickRepeatRead
    <3>2. Target(t) \in EventIds
      BY <1>10, DoingFacts DEF TickRepeatRead
    <3>3. message[Target(t)].content = "approved"
      BY <2>1, <3>2 DEF Current, AlertOK, InStep
    <3>4. /\ tick'[t].pc = "repeatSend" /\ Target(t)' = Target(t)
          /\ tick'[t].content = "approved"
      BY <1>4, <3>1, <3>3 DEF TickOK, TickState, Target
    <3>5. UNCHANGED message
      BY <1>10 DEF TickRepeatRead, tables
    <3> QED
      BY <2>1, <3>4, <3>5 DEF TickCurrent
  <2>2. CASE message[Target(t)].status # "approved"
    BY <1>6, <1>10, <2>2 DEF TickRepeatRead
  <2> QED
    BY <2>1, <2>2
<1>11. CASE TickRepeatSend(t)
  <2>1. message[Target(t)].status = "approved" /\ UNCHANGED message
    BY <1>11 DEF TickRepeatSend, Current, TickCurrent, tables
  <2>2. tick'[t].pc = "repeatRecord" /\ Target(t)' = Target(t)
    <3>1. PICK reached \in BOOLEAN, nobody \in BOOLEAN :
            tick' = [tick EXCEPT ![t].pc = "repeatRecord", ![t].reached = reached,
                                 ![t].failed = @ \/ ~(reached \/ nobody)]
      BY <1>11 DEF TickRepeatSend
    <3> QED
      BY <1>4, <3>1 DEF TickOK, TickState, Target
  <2> QED
    BY <2>1, <2>2 DEF TickCurrent
<1>12. CASE TickRepeatNumber(t)
  <2>1. message[Target(t)].status = "approved" /\ UNCHANGED <<event, message>>
    BY <1>12 DEF TickRepeatNumber, Current, TickCurrent, tables
  <2>2. /\ tick'[t].pc = "repeatCommit" /\ Target(t)' = Target(t)
        /\ tick'[t].no = event[Target(t)].count + 1
    BY <1>4, <1>12 DEF TickRepeatNumber, TickOK, TickState, Target
  <2> QED
    BY <2>1, <2>2 DEF TickCurrent
<1>13. CASE TickResolveRead(t)
  <2>1. Target(t) \in EventIds /\ UNCHANGED message
    BY <1>13, DoingFacts DEF TickResolveRead, tables
  <2>2. message[Target(t)].content # Null
    BY <2>1, PipelineAssumption DEF TablesOK, MessageState
  <2>3. /\ tick'[t].pc = "resolveCommit" /\ Target(t)' = Target(t)
        /\ tick'[t].content = IF message[Target(t)].status = "approved"
                              THEN message[Target(t)].content ELSE Null
    BY <1>4, <1>13 DEF TickResolveRead, TickOK, TickState, Target
  <2> QED
    BY <2>1, <2>2, <2>3 DEF TickCurrent
<1>14. CASE TickResolveCommit(t)
  <2>1. CASE tick[t].content # Null /\ ResolveNotice
    <3>1. /\ Target(t) \in EventIds /\ UNCHANGED told
          /\ message[Target(t)].status = "approved"
      BY <1>14, <2>1, MidwayFacts
      DEF TickResolveCommit, Midway, Current, TickCurrent, history
    <3>2. event'[Target(t)].status = "RESOLVED"
      BY <1>14, <3>1, CloseFacts DEF TickResolveCommit, Statuses
    <3>3. Told(Target(t))
      BY <3>1, TickAlone DEF Current, AlertOK, ToldInStep
    <3>4. tick'[t].pc = "release" /\ Target(t)' = Target(t)
      BY <1>4, <1>14, <2>1 DEF TickResolveCommit, TickOK, TickState, Target
    <3> QED
      BY <3>1, <3>2, <3>3, <3>4 DEF TickCurrent, Told
  <2>2. CASE ~(tick[t].content # Null /\ ResolveNotice)
    BY <1>6, <1>14, <2>2 DEF TickResolveCommit
  <2> QED
    BY <2>1, <2>2
<1> QED
  BY <1>7, <1>8, <1>9, <1>10, <1>11, <1>12, <1>13, <1>14 DEF TickStep

-----------------------------------------------------------------------------
(* The steps of a request                                                  *)

LEMMA ReqStepAlerts ==
  ASSUME IInv, Current, NEW r \in Requests, ReqStep(r), NEW e \in EventIds
  PROVE  AlertOK(e)'
<1> USE DEF IInv, TypeOK
<1> DEFINE x == req[r].ev
<1>1. /\ ~Releasing(e) /\ ~Escalating(e)
      /\ Approving(e) <=> /\ req[r].pc \in {"send", "record", "unapprove"}
                          /\ req[r].op = "approve" /\ req[r].ev = e
      /\ Recording(e) <=> req[r].pc \in {"send", "record"} /\ req[r].ev = e
      /\ Approving(e)' <=> /\ req'[r].pc \in {"send", "record", "unapprove"}
                           /\ req'[r].op = "approve" /\ req'[r].ev = e
      /\ Recording(e)' <=> req'[r].pc \in {"send", "record"} /\ req'[r].ev = e
  BY ReqAlone DEF Current
<1>2. \A a \in EventIds : AlertOK(a)
  BY DEF Current
<1>3. \A a \in EventIds : Kept(a)
  BY AlertsAreKept DEF Continue
<1>4. event[e].count \in Nat
  BY Counts
<1>5. x \in EventIds /\ req[r] \in ReqState /\ UNCHANGED released
  BY ReqMoves
<1>6. ReqCurrent(r)
  BY DEF Current
<1>7. CASE ApproveCommit(r)
  <2>1. /\ req[r].pc = "approveCommit" /\ req[r].op = "approve"
        /\ event[x].status = "PENDING_APPROVAL"
        /\ UNCHANGED <<dispatches, told>>
    BY <1>6, <1>7 DEF ApproveCommit, ReqCurrent
  <2>2. CASE ReqDone(r) /\ UNCHANGED <<event, message, approved>>
    BY <1>1, <1>2, <1>5, <2>1, <2>2, QuietFrame
  <2>3. CASE /\ message' = [message EXCEPT ![x] =
                              [status |-> "approved", content |-> "approved"]]
             /\ event' = [event EXCEPT ![x].status = "ACTIVE", ![x].count = 1]
             /\ req' = [req EXCEPT ![r].pc = "send", ![r].no = 1]
    <3>1. /\ Told(e)' <=> Told(e)
          /\ \A n \in Nat : Recorded(e, n)' <=> Recorded(e, n)
      BY <2>1 DEF Told, Recorded
    <3>2. CASE e # x
      <4>1. event'[e] = event[e] /\ message'[e] = message[e]
        BY <1>5, <2>3, <3>2 DEF TablesOK
      <4> QED
        BY <1>1, <1>2, <1>3, <1>4, <1>5, <2>1, <3>1, <3>2, <4>1, AlertFrame
    <3>3. CASE e = x
      <4>1. /\ event'[e].status = "ACTIVE" /\ event'[e].count = 1
            /\ message'[e].status = "approved" /\ message'[e].content = "approved"
        BY <1>5, <2>3, <3>3 DEF TablesOK, EventState
      <4>2. req'[r].pc = "send" /\ req'[r].op = "approve" /\ req'[r].ev = e
        BY <1>5, <2>1, <2>3, <3>3 DEF ReqOK, ReqState
      <4>3. Approving(e)' /\ Recording(e)'
        BY <1>1, <4>2
      <4>4. InStep(e)' /\ ToldInStep(e)' /\ Released(e)' /\ Replaced(e)'
        BY <1>2, <1>5, <3>1, <4>1, <4>3
        DEF AlertOK, InStep, ToldInStep, Released, Replaced
      <4>5. event[e].count = 0
        BY <1>2, <1>4, <2>1, <3>3 DEF AlertOK, InStep
      <4>6. \A d \in dispatches : d.event = e => d.no = 1
        <5>1. \A d \in dispatches : d.no \in Nat
          BY DEF TablesOK, Dispatch
        <5> QED
          BY <1>2, <4>5, <5>1 DEF AlertOK, Numbered
      <4>7. Numbered(e)'
        BY <2>1, <4>1, <4>3, <4>6 DEF Numbered
      <4> QED
        BY <4>4, <4>7 DEF AlertOK
    <3> QED
      BY <3>2, <3>3
  <2> QED
    BY <1>7, <2>2, <2>3 DEF ApproveCommit
<1>8. CASE Send(r)
  <2>1. req[r].pc = "send" /\ UNCHANGED <<event, message, dispatches>>
    BY <1>8 DEF Send, tables
  <2>2. PICK reached \in BOOLEAN :
          /\ Round(x, "approved", reached)
          /\ req' = [req EXCEPT ![r].pc = "record", ![r].reached = reached]
    BY <1>8 DEF Send
  <2>3. /\ req'[r].pc = "record" /\ req'[r].op = req[r].op /\ req'[r].ev = x
    BY <1>5, <2>2 DEF ReqOK, ReqState
  <2>4. /\ x # e => (Told(e)' <=> Told(e))
        /\ x = e => (Told(e)' <=> Told(e) \/ reached)
    BY <2>2, RoundFacts
  <2>5. \A n \in Nat : Recorded(e, n)' <=> Recorded(e, n)
    BY <2>1 DEF Recorded
  <2>6. CASE e # x
    BY <1>1, <1>2, <1>3, <1>4, <1>5, <2>1, <2>3, <2>4, <2>5, <2>6, AlertFrame
  <2>7. CASE e = x
    <3>1. event[e].status = "ACTIVE" /\ message[e].status = "approved"
      BY <1>2, <1>6, <2>1, <2>7 DEF ReqCurrent, AlertOK, InStep
    <3>2. InStep(e)' /\ Replaced(e)'
      BY <1>2, <2>1, <3>1 DEF AlertOK, InStep, Replaced
    <3>3. ToldInStep(e)' /\ Released(e)'
      BY <1>1, <1>2, <1>5, <2>1, <2>3, <2>4, <2>7, <3>1 DEF AlertOK, ToldInStep, Released
    <3>4. Numbered(e)'
      BY <1>1, <1>2, <1>4, <2>1, <2>3, <2>5, <2>7 DEF AlertOK, Numbered
    <3> QED
      BY <3>2, <3>3, <3>4 DEF AlertOK
  <2> QED
    BY <2>6, <2>7
<1>9. CASE Record(r)
  <2> DEFINE row == [event |-> x, no |-> req[r].no, reached |-> req[r].reached]
  <2>1. req[r].pc = "record" /\ UNCHANGED <<event, message, told>>
    BY <1>9 DEF Record, history
  <2>2. event[x].status = "ACTIVE" /\ req[r].no = event[x].count
    BY <1>6, <2>1 DEF ReqCurrent
  <2>3. /\ row.event = x /\ row.no = event[x].count
        /\ \/ dispatches' = dispatches \union {row}
           \/ dispatches' = dispatches /\ Recorded(x, event[x].count)
    BY <1>9, <2>2 DEF Record
  <2> HIDE DEF row
  <2>4. /\ \A n : Recorded(e, n) => Recorded(e, n)'
        /\ e = x => Recorded(e, event[e].count)'
        /\ e # x => \A d \in dispatches' : d.event = e => d \in dispatches
        /\ \A d \in dispatches' : d \in dispatches \/ d.no = event[x].count
    BY <2>1, <2>3 DEF Recorded
  <2>5. Told(e)' <=> Told(e)
    BY <2>1 DEF Told
  <2>6. CASE e # x
    BY <1>1, <1>2, <1>3, <1>4, <1>5, <2>1, <2>4, <2>5, <2>6, AlertFrame
  <2>7. CASE e = x
    <3>1. message[e].status = "approved" /\ event[e].count > 0
      BY <1>2, <2>2, <2>7 DEF AlertOK, InStep
    <3>2. Told(e) \/ Approving(e)'
      <4>1. CASE req[r].op = "approve" /\ ~req[r].reached
        <5>1. req' = [req EXCEPT ![r].pc = "unapprove"]
          BY <1>9, <4>1 DEF Record, AfterRound
        <5>2. req'[r].pc = "unapprove" /\ req'[r].op = "approve" /\ req'[r].ev = e
          BY <1>5, <2>7, <4>1, <5>1 DEF ReqOK, ReqState
        <5> QED
          BY <1>1, <5>2
      <4>2. CASE req[r].op = "approve" /\ req[r].reached
        BY <1>6, <2>1, <2>7, <4>2 DEF ReqCurrent
      <4>3. CASE req[r].op # "approve"
        BY <1>1, <1>2, <2>7, <3>1, <4>3 DEF AlertOK, ToldInStep
      <4> QED
        BY <4>1, <4>2, <4>3
    <3>3. InStep(e)' /\ Replaced(e)' /\ ToldInStep(e)' /\ Released(e)'
      BY <1>1, <1>2, <1>5, <2>1, <2>2, <2>5, <2>7, <3>1, <3>2
      DEF AlertOK, InStep, Replaced, ToldInStep, Released
    <3>4. Numbered(e)'
      <4>1. \A d \in dispatches' : d.event = e =>
               d.no >= 1 /\ (d.no <= event'[e].count \/ d.no = 1)
        BY <1>2, <1>4, <2>1, <2>4, <2>7, <3>1 DEF AlertOK, Numbered
      <4>2. \A n \in Nat : 1 <= n /\ n < event'[e].count => Recorded(e, n)'
        BY <1>2, <2>1, <2>4 DEF AlertOK, Numbered
      <4> QED
        BY <2>4, <2>7, <4>1, <4>2 DEF Numbered
    <3> QED
      BY <3>3, <3>4 DEF AlertOK
  <2> QED
    BY <2>6, <2>7
<1>10. CASE Unapprove(r)
  <2>1. /\ req[r].pc = "unapprove" /\ req[r].op = "approve" /\ req[r].no = 1 /\ ~Told(x)
        /\ event[x].status = "ACTIVE" /\ event[x].count = 1
        /\ UNCHANGED <<dispatches, told>>
    BY <1>6, <1>10 DEF Unapprove, ReqCurrent, history
  <2>2. /\ event' = [event EXCEPT ![x].status = "PENDING_APPROVAL", ![x].count = 0]
        /\ message' = [message EXCEPT ![x].status = "draft"]
    BY <1>10, <2>1 DEF Unapprove
  <2>3. /\ Told(e)' <=> Told(e)
        /\ \A n \in Nat : Recorded(e, n)' <=> Recorded(e, n)
    BY <2>1 DEF Told, Recorded
  <2>4. CASE e # x
    <3>1. event'[e] = event[e] /\ message'[e] = message[e]
      BY <1>5, <2>2, <2>4 DEF TablesOK
    <3> QED
      BY <1>1, <1>2, <1>3, <1>4, <1>5, <2>1, <2>3, <2>4, <3>1, AlertFrame
  <2>5. CASE e = x
    <3>1. /\ event'[e].status = "PENDING_APPROVAL" /\ event'[e].count = 0
          /\ message'[e].status = "draft"
      BY <1>5, <2>2, <2>5 DEF TablesOK, EventState, MessageState
    <3>2. InStep(e)' /\ ToldInStep(e)' /\ Released(e)' /\ Replaced(e)'
      BY <1>2, <1>5, <2>1, <2>3, <2>5, <3>1
      DEF AlertOK, InStep, ToldInStep, Released, Replaced
    <3>3. \A d \in dispatches : d.no \in Nat
      BY DEF TablesOK, Dispatch
    <3>4. Numbered(e)'
      BY <1>2, <2>1, <2>5, <3>1, <3>3 DEF AlertOK, Numbered
    <3> QED
      BY <3>2, <3>4 DEF AlertOK
  <2> QED
    BY <2>4, <2>5
<1>11. CASE ResendRead(r)
  <2>1. req[r].pc = "resendRead" /\ UNCHANGED <<event, message, dispatches, told>>
    BY <1>11 DEF ResendRead, tables, history
  <2> QED
    BY <1>1, <1>2, <1>5, <2>1, QuietFrame
<1>12. CASE ResendCommit(r)
  <2>1. /\ req[r].pc = "resendCommit" /\ req[r].op = "resend"
        /\ event[x].status = "ACTIVE" /\ req[r].no = event[x].count + 1
        /\ UNCHANGED <<dispatches, told>>
    BY <1>6, <1>12 DEF ResendCommit, ReqCurrent, history
  <2>2. /\ event' = [event EXCEPT ![x].count = req[r].no]
        /\ message' = [message EXCEPT ![x].content = "approved"]
        /\ req' = [req EXCEPT ![r].pc = "send"]
    BY <1>12 DEF ResendCommit
  <2>3. /\ Told(e)' <=> Told(e)
        /\ \A n \in Nat : Recorded(e, n)' <=> Recorded(e, n)
    BY <2>1 DEF Told, Recorded
  <2>4. CASE e # x
    <3>1. event'[e] = event[e] /\ message'[e] = message[e]
      BY <1>5, <2>2, <2>4 DEF TablesOK
    <3> QED
      BY <1>1, <1>2, <1>3, <1>4, <1>5, <2>1, <2>3, <2>4, <3>1, AlertFrame
  <2>5. CASE e = x
    <3>1. /\ event'[e].status = "ACTIVE" /\ event'[e].count = event[e].count + 1
          /\ message'[e].status = message[e].status /\ message'[e].content = "approved"
      BY <1>5, <2>1, <2>2, <2>5 DEF TablesOK, EventState, MessageState
    <3>2. Recording(e)'
      BY <1>1, <1>5, <2>2, <2>5 DEF ReqOK, ReqState
    <3>3. message[e].status = "approved" /\ event[e].count > 0
      BY <1>2, <2>1, <2>5 DEF AlertOK, InStep
    <3>4. InStep(e)' /\ ToldInStep(e)' /\ Released(e)' /\ Replaced(e)'
      BY <1>1, <1>2, <1>4, <1>5, <2>1, <2>3, <3>1, <3>3
      DEF AlertOK, InStep, ToldInStep, Released, Replaced
    <3>5. Numbered(e)'
      <4>1. \A d \in dispatches : d.no \in Nat
        BY DEF TablesOK, Dispatch
      <4>2. \A d \in dispatches' : d.event = e =>
               d.no >= 1 /\ (d.no <= event'[e].count \/ d.no = 1)
        BY <1>2, <1>4, <2>1, <3>1, <4>1 DEF AlertOK, Numbered
      <4>3. ASSUME NEW n \in Nat, 1 <= n, n < event'[e].count
            PROVE  Recorded(e, n)'
        <5>1. Recorded(e, n)
          BY <1>1, <1>2, <1>4, <2>1, <3>1, <3>3, <4>3 DEF AlertOK, Numbered
        <5> QED
          BY <2>3, <5>1
      <4> QED
        BY <3>2, <4>2, <4>3 DEF Numbered
    <3> QED
      BY <3>4, <3>5 DEF AlertOK
  <2> QED
    BY <2>4, <2>5
<1>13. CASE SaveCommit(r)
  <2>1. /\ req[r].pc = "saveCommit" /\ message[x].status = "draft"
        /\ message' = [message EXCEPT ![x].content = "saved"]
        /\ UNCHANGED <<event, dispatches, told>>
    BY <1>6, <1>13 DEF SaveCommit, ReqCurrent, history
  <2>2. /\ Told(e)' <=> Told(e)
        /\ \A n \in Nat : Recorded(e, n)' <=> Recorded(e, n)
    BY <2>1 DEF Told, Recorded
  <2>3. CASE e # x
    <3>1. message'[e] = message[e]
      BY <1>5, <2>1, <2>3 DEF TablesOK
    <3> QED
      BY <1>1, <1>2, <1>3, <1>4, <1>5, <2>1, <2>2, <3>1, AlertFrame
  <2>4. CASE e = x
    <3>1. message'[e].status = "draft"
      BY <1>5, <2>1, <2>4 DEF TablesOK, MessageState
    <3>2. InStep(e)' /\ ToldInStep(e)' /\ Released(e)' /\ Replaced(e)'
      BY <1>1, <1>2, <1>3, <1>5, <2>1, <2>2, <2>4, <3>1
      DEF AlertOK, InStep, ToldInStep, Released, Replaced, HasWarning, Kept
    <3>3. Numbered(e)'
      BY <1>1, <1>2, <1>4, <2>1, <2>2 DEF AlertOK, Numbered
    <3> QED
      BY <3>2, <3>3 DEF AlertOK
  <2> QED
    BY <2>3, <2>4
<1> QED
  BY <1>7, <1>8, <1>9, <1>10, <1>11, <1>12, <1>13 DEF ReqStep

LEMMA ReqStepCurrent ==
  ASSUME IInv, Current, NEW r \in Requests, ReqStep(r)
  PROVE  /\ \A t \in Ticks : TickCurrent(t)'
         /\ \A s \in Requests : ReqCurrent(s)'
         /\ ApprovedSnapshotOnly'
<1> USE DEF IInv, TypeOK
<1> DEFINE x == req[r].ev
<1>1. \A t \in Ticks : TickCurrent(t)'
  BY ReqAlone DEF Current, TickCurrent, TickBusy
<1>2. \A s \in Requests \ {r} : ReqCurrent(s)'
  BY ReqAlone DEF Current, ReqCurrent, ReqBusy
<1>3. ApprovedSnapshotOnly'
  <2>1. CASE Send(r)
    BY <2>1, RoundFacts DEF Send, Current
  <2>2. CASE ~Send(r)
    <3>1. UNCHANGED told
      BY <2>2 DEF ReqStep, ApproveCommit, Record, Unapprove, ResendRead, ResendCommit,
                  SaveCommit, history
    <3> QED
      BY <3>1 DEF Current, ApprovedSnapshotOnly
  <2> QED
    BY <2>1, <2>2
<1> SUFFICES ReqCurrent(r)'
  BY <1>1, <1>2, <1>3
<1>4. x \in EventIds /\ req[r] \in ReqState
  BY ReqMoves
<1>5. ReqCurrent(r)
  BY DEF Current
<1>6. AlertOK(x)
  BY <1>4 DEF Current
<1>7. ASSUME ReqDone(r)
      PROVE  ReqCurrent(r)'
  <2>1. req'[r].pc \in {"idle", "done"}
    BY <1>7 DEF ReqDone, EndedReq, IdleReq, EndPc, ReqOK
  <2> QED
    BY <2>1 DEF ReqCurrent
<1>8. CASE ApproveCommit(r)
  <2>1. /\ req[r].pc = "approveCommit" /\ req[r].op = "approve"
        /\ event[x].status = "PENDING_APPROVAL" /\ UNCHANGED told
    BY <1>5, <1>8 DEF ApproveCommit, ReqCurrent
  <2>2. CASE /\ event' = [event EXCEPT ![x].status = "ACTIVE", ![x].count = 1]
             /\ req' = [req EXCEPT ![r].pc = "send", ![r].no = 1]
    <3>1. event'[x].status = "ACTIVE" /\ event'[x].count = 1
      BY <1>4, <2>2 DEF TablesOK, EventState
    <3>2. /\ req'[r].pc = "send" /\ req'[r].op = "approve" /\ req'[r].ev = x
          /\ req'[r].no = 1
      BY <1>4, <2>1, <2>2 DEF ReqOK, ReqState
    <3>3. ~Told(x)
      BY <1>6, <2>1 DEF AlertOK, InStep, ToldInStep
    <3> QED
      BY <2>1, <3>1, <3>2, <3>3 DEF ReqCurrent, Told
  <2> QED
    BY <1>7, <1>8, <2>2 DEF ApproveCommit
<1>9. CASE Send(r)
  <2>1. /\ req[r].pc = "send" /\ event[x].status = "ACTIVE" /\ req[r].no = event[x].count
        /\ req[r].op = "approve" => ~Told(x) /\ req[r].no = 1
        /\ UNCHANGED event
    BY <1>5, <1>9 DEF Send, ReqCurrent, tables
  <2>2. PICK reached \in BOOLEAN :
          /\ Round(x, "approved", reached)
          /\ req' = [req EXCEPT ![r].pc = "record", ![r].reached = reached]
    BY <1>9 DEF Send
  <2>3. /\ req'[r].pc = "record" /\ req'[r].op = req[r].op /\ req'[r].ev = x
        /\ req'[r].no = req[r].no /\ req'[r].reached = reached
    BY <1>4, <2>2 DEF ReqOK, ReqState
  <2>4. Told(req[r].ev)' <=> Told(x) \/ reached
    <3>1. ASSUME NEW e, e = x
          PROVE  Told(e)' <=> Told(e) \/ reached
      BY <2>2, <3>1, RoundFacts
    <3> QED
      BY <2>3, <3>1 DEF Told
  <2> QED
    BY <2>1, <2>3, <2>4 DEF ReqCurrent
<1>10. CASE Record(r)
  <2>1. /\ req[r].pc = "record" /\ event[x].status = "ACTIVE" /\ req[r].no = event[x].count
        /\ req[r].op = "approve" => req[r].no = 1 /\ (Told(x) <=> req[r].reached)
        /\ UNCHANGED <<event, told>>
    BY <1>5, <1>10 DEF Record, ReqCurrent, history
  <2>2. CASE req[r].op = "approve" /\ ~req[r].reached
    <3>1. req' = [req EXCEPT ![r].pc = "unapprove"]
      BY <1>10, <2>2 DEF Record, AfterRound
    <3>2. /\ req'[r].pc = "unapprove" /\ req'[r].op = "approve" /\ req'[r].ev = x
          /\ req'[r].no = req[r].no
      BY <1>4, <2>2, <3>1 DEF ReqOK, ReqState
    <3> QED
      BY <2>1, <2>2, <3>2 DEF ReqCurrent, Told
  <2>3. CASE ~(req[r].op = "approve" /\ ~req[r].reached)
    BY <1>7, <1>10, <2>3 DEF Record, AfterRound
  <2> QED
    BY <2>2, <2>3
<1>11. CASE Unapprove(r) \/ SaveCommit(r)
  BY <1>7, <1>11 DEF Unapprove, SaveCommit
<1>12. CASE ResendRead(r)
  <2>1. /\ req[r].pc = "resendRead" /\ req[r].op = "resend" /\ event[x].status = "ACTIVE"
        /\ UNCHANGED event
    BY <1>5, <1>12 DEF ResendRead, ReqCurrent, tables
  <2>2. /\ req'[r].pc = "resendCommit" /\ req'[r].op = "resend" /\ req'[r].ev = x
        /\ req'[r].no = event[x].count + 1
    BY <1>4, <1>12, <2>1 DEF ResendRead, ReqOK, ReqState
  <2> QED
    BY <2>1, <2>2 DEF ReqCurrent
<1>13. CASE ResendCommit(r)
  <2>1. /\ req[r].pc = "resendCommit" /\ req[r].op = "resend" /\ event[x].status = "ACTIVE"
    BY <1>5, <1>13 DEF ResendCommit, ReqCurrent
  <2>2. event'[x].status = "ACTIVE" /\ event'[x].count = req[r].no
    BY <1>4, <1>13, <2>1 DEF ResendCommit, TablesOK, EventState
  <2>3. /\ req'[r].pc = "send" /\ req'[r].op = "resend" /\ req'[r].ev = x
        /\ req'[r].no = req[r].no
    BY <1>4, <1>13, <2>1 DEF ResendCommit, ReqOK, ReqState
  <2> QED
    BY <2>2, <2>3 DEF ReqCurrent
<1> QED
  BY <1>8, <1>9, <1>10, <1>11, <1>12, <1>13 DEF ReqStep

-----------------------------------------------------------------------------
(* The start of a handler                                                  *)

LEMMA StartCurrent ==
  ASSUME IInv, Current, Quiescent, Start
  PROVE  /\ \A e \in EventIds : AlertOK(e)'
         /\ \A t \in Ticks : TickCurrent(t)'
         /\ \A s \in Requests : ReqCurrent(s)'
         /\ ApprovedSnapshotOnly'
<1> USE DEF IInv, TypeOK
<1>1. /\ \A e : ~Approving(e) /\ ~Recording(e) /\ ~Releasing(e) /\ ~Escalating(e)
      /\ \A e \in EventIds : AlertOK(e) /\ event[e].count \in Nat
  BY Counts DEF Quiescent, Approving, Recording, Releasing, Escalating, Current
<1>2. UNCHANGED <<message, dispatches, told, released>>
  BY DEF Start, TickLoad, Dismiss, ApproveRead, ResendCheck, SaveRead, tables, history
<1>3. ApprovedSnapshotOnly'
  BY <1>2 DEF Current, ApprovedSnapshotOnly
<1>4. ASSUME NEW t \in Ticks, tick'[t].pc \in {"idle", "done", "fetch"}
      PROVE  TickCurrent(t)'
  BY <1>4 DEF TickCurrent
<1>5. ASSUME NEW s \in Requests, req'[s].pc \in {"idle", "done"}
      PROVE  ReqCurrent(s)'
  BY <1>5 DEF ReqCurrent
<1>6. ASSUME NEW t \in Ticks, TickLoad(t)
      PROVE  /\ \A e \in EventIds : AlertOK(e)'
             /\ \A u \in Ticks : TickCurrent(u)'
             /\ \A s \in Requests : ReqCurrent(s)'
  <2>1. UNCHANGED <<event, req>>
    BY <1>6 DEF TickLoad, tables
  <2>2. \A e \in EventIds : AlertOK(e)'
    BY <1>1, <1>2, <2>1, QuietFrame
  <2>3. \A u \in Ticks : tick'[u].pc \in {"idle", "done", "fetch"}
    BY <1>6 DEF TickLoad, IdleTick, TickOK, Quiescent
  <2> QED
    BY <1>4, <1>5, <2>1, <2>2, <2>3 DEF Quiescent
<1>7. ASSUME NEW x \in EventIds, Dismiss(x)
      PROVE  /\ \A e \in EventIds : AlertOK(e)'
             /\ \A u \in Ticks : TickCurrent(u)'
             /\ \A s \in Requests : ReqCurrent(s)'
  <2>1. UNCHANGED <<tick, req>> /\ event[x].status = "PENDING_APPROVAL"
    BY <1>7 DEF Dismiss
  <2>2. /\ \A e \in EventIds \ {x} : event'[e] = event[e]
        /\ event'[x].status = "DISMISSED" /\ event'[x].count = event[x].count
    BY <1>7 DEF Dismiss, TablesOK, EventState
  <2>3. \A e \in EventIds : Kept(e)
    BY AlertsAreKept
  <2>4. ASSUME NEW e \in EventIds
        PROVE  AlertOK(e)'
    <3>1. /\ Told(e)' <=> Told(e)
          /\ \A n \in Nat : Recorded(e, n)' <=> Recorded(e, n)
      BY <1>2 DEF Told, Recorded
    <3>2. CASE e # x
      BY <1>1, <1>2, <2>2, <2>3, <3>1, <3>2, AlertFrame
    <3>3. CASE e = x
      <4>1. message[e].status = "draft"
        BY <1>1, <2>1, <3>3 DEF AlertOK, InStep
      <4>2. InStep(e)' /\ ToldInStep(e)' /\ Released(e)' /\ Replaced(e)'
        BY <1>1, <1>2, <2>1, <2>2, <3>1, <3>3, <4>1
        DEF AlertOK, InStep, ToldInStep, Released, Replaced
      <4>3. Numbered(e)'
        BY <1>1, <1>2, <2>2, <3>1, <3>3 DEF AlertOK, Numbered
      <4> QED
        BY <4>2, <4>3 DEF AlertOK
    <3> QED
      BY <3>2, <3>3
  <2> QED
    BY <1>4, <1>5, <2>1, <2>4 DEF Quiescent
<1>8. ASSUME NEW r \in Requests, NEW x \in EventIds,
             ApproveRead(r, x) \/ ResendCheck(r, x) \/ SaveRead(r, x)
      PROVE  /\ \A e \in EventIds : AlertOK(e)'
             /\ \A u \in Ticks : TickCurrent(u)'
             /\ \A s \in Requests : ReqCurrent(s)'
  <2>1. UNCHANGED <<event, tick>>
    BY <1>8 DEF ApproveRead, ResendCheck, SaveRead, tables
  <2>2. \A e \in EventIds : AlertOK(e)'
    BY <1>1, <1>2, <2>1, QuietFrame
  <2>3. \A u \in Ticks : TickCurrent(u)'
    BY <1>4, <2>1 DEF Quiescent
  <2>4. ASSUME NEW s \in Requests \ {r}
        PROVE  ReqCurrent(s)'
    <3>1. req'[s] = req[s]
      BY <1>8 DEF ApproveRead, ResendCheck, SaveRead, Ask, ReqOK
    <3> QED
      BY <1>5, <3>1 DEF Quiescent
  <2>5. ASSUME NEW pc, NEW op, Ask(r, pc, op, x)
        PROVE  req'[r].pc = pc /\ req'[r].op = op /\ req'[r].ev = x
    BY <2>5 DEF Ask, IdleReq, ReqOK
  <2>6. ReqCurrent(r)'
    <3>1. CASE ApproveRead(r, x)
      <4>1. req'[r].pc = "approveCommit" /\ req'[r].op = "approve" /\ req'[r].ev = x
        BY <2>5, <3>1 DEF ApproveRead
      <4> QED
        BY <2>1, <3>1, <4>1 DEF ApproveRead, ReqCurrent
    <3>2. CASE ResendCheck(r, x)
      <4>1. req'[r].pc = "resendRead" /\ req'[r].op = "resend" /\ req'[r].ev = x
        BY <2>5, <3>2 DEF ResendCheck
      <4>2. event[x].status = "ACTIVE"
        BY <1>1, <3>2 DEF ResendCheck, Live, LiveStatus, AlertOK, InStep
      <4> QED
        BY <2>1, <4>1, <4>2 DEF ReqCurrent
    <3>3. CASE SaveRead(r, x)
      <4>1. req'[r].pc = "saveCommit" /\ req'[r].op = "save" /\ req'[r].ev = x
        BY <2>5, <3>3 DEF SaveRead
      <4> QED
        BY <1>2, <3>3, <4>1 DEF SaveRead, ReqCurrent
    <3> QED
      BY <1>8, <3>1, <3>2, <3>3
  <2> QED
    BY <2>2, <2>3, <2>4, <2>6
<1> QED
  BY <1>3, <1>6, <1>7, <1>8 DEF Start

-----------------------------------------------------------------------------
(* The theorems                                                            *)

LEMMA InitCurrent ==
  Init => Current
<1> SUFFICES ASSUME Init
             PROVE  Current
  OBVIOUS
<1>1. OneAtATime
  BY DEF Init, OneAtATime, TickBusy, IdleTick, ReqBusy, IdleReq
<1>2. \A t \in Ticks : NamesAlerts(t) /\ TickCurrent(t)
  BY DEF Init, NamesAlerts, TickCurrent, IdleTick
<1>3. \A r \in Requests : ReqCurrent(r)
  BY DEF Init, ReqCurrent, IdleReq
<1>4. \A e \in EventIds : AlertOK(e)
  <2> TAKE e \in EventIds
  <2>1. /\ event[e].status = "none" /\ event[e].count = 0 /\ message[e].status = "none"
        /\ ~Told(e) /\ released = {} /\ dispatches = {}
    BY DEF Init, NoEvent, NoMessage, Told
  <2> QED
    BY <2>1 DEF AlertOK, InStep, ToldInStep, Numbered, Released, Replaced
<1>5. ApprovedSnapshotOnly
  BY DEF Init, ApprovedSnapshotOnly
<1> QED
  BY <1>1, <1>2, <1>3, <1>4, <1>5 DEF Current

LEMMA NextCurrent ==
  IInv /\ Current /\ [NextSerial]_vars => Current'
<1> SUFFICES ASSUME IInv, Current, [NextSerial]_vars
             PROVE  Current'
  OBVIOUS
<1>1. CASE NextSerial
  <2>1. OneAtATime'
    BY <1>1, BusyKept DEF Current, IInv
  <2>2. \A t \in Ticks : NamesAlerts(t)'
    BY <1>1, NamesKept DEF NextSerial, Current
  <2>3. ASSUME NEW t \in Ticks, TickStep(t)
        PROVE  Current'
    BY <2>1, <2>2, <2>3, TickStepAlerts, TickStepCurrent DEF Current
  <2>4. ASSUME NEW r \in Requests, ReqStep(r)
        PROVE  Current'
    BY <2>1, <2>2, <2>4, ReqStepAlerts, ReqStepCurrent DEF Current
  <2>5. CASE Quiescent /\ Start
    BY <2>1, <2>2, <2>5, StartCurrent DEF Current
  <2> QED
    BY <1>1, <2>3, <2>4, <2>5 DEF NextSerial, Continue
<1>2. CASE UNCHANGED vars
  <2>1. OneAtATime' /\ \A t \in Ticks : NamesAlerts(t)'
    BY <1>2 DEF vars, Current, OneAtATime, TickBusy, ReqBusy, NamesAlerts, Stands
  <2>2. \A t \in Ticks : TickCurrent(t)'
    BY <1>2 DEF vars, Current, TickCurrent, Target, Told
  <2>3. \A r \in Requests : ReqCurrent(r)'
    BY <1>2 DEF vars, Current, ReqCurrent, Told
  <2>4. \A e \in EventIds : AlertOK(e)'
    <3>1. \A e : /\ Approving(e)' <=> Approving(e)
                 /\ Recording(e)' <=> Recording(e)
                 /\ Releasing(e)' <=> Releasing(e)
                 /\ Escalating(e)' <=> Escalating(e)
      BY <1>2 DEF vars, Approving, Recording, Releasing, Escalating, Target
    <3> QED
      BY <1>2, <3>1, QuietFrame DEF vars, Current, IInv
  <2>5. ApprovedSnapshotOnly'
    BY <1>2 DEF vars, Current, ApprovedSnapshotOnly
  <2> QED
    BY <2>1, <2>2, <2>3, <2>4, <2>5 DEF Current
<1> QED
  BY <1>1, <1>2

\* When the handlers run one at a time and nothing fails, what a handler has
\* read is still so when it acts on it, and between the handlers the tables
\* agree with one another and with what people were told.
THEOREM SerialInvariant == SpecSerial => [](IInv /\ Current)
<1>1. Init => IInv /\ Current
  BY InitIInv, InitCurrent
<1>2. IInv /\ Current /\ [NextSerial]_vars => (IInv /\ Current)'
  <2>1. [NextSerial]_vars => [Next]_vars
    BY DEF NextSerial, Next
  <2> QED
    BY <2>1, NextIInv, NextCurrent
<1> QED
  BY <1>1, <1>2, PTL DEF SpecSerial

LEMMA QuietAlerts ==
  ASSUME Current, Quiescent, NEW e \in EventIds
  PROVE  AlertOK(e) /\ ~Approving(e) /\ ~Recording(e) /\ ~Releasing(e) /\ ~Escalating(e)
BY DEF Current, Quiescent, Approving, Recording, Releasing, Escalating

\* An alert that stands as active has reached somebody: an approval whose round
\* reached nobody has been taken back.
THEOREM ActiveHasReached == SpecSerial => []ActiveMeansReached
<1>1. Current => ActiveMeansReached
  BY QuietAlerts DEF ActiveMeansReached, AlertOK, InStep, ToldInStep
<1> QED
  BY <1>1, SerialInvariant, PTL

\* Nobody has been told of an alert that waits for approval.
THEOREM PendingIsUntold == SpecSerial => []PendingMeansUntold
<1>1. Current => PendingMeansUntold
  BY QuietAlerts DEF PendingMeansUntold, AlertOK, InStep, ToldInStep
<1> QED
  BY <1>1, SerialInvariant, PTL

\* Only what an approver approved or resent is ever sent.
THEOREM SnapshotIsSent == SpecSerial => []ApprovedSnapshotOnly
<1>1. Current => ApprovedSnapshotOnly
  BY DEF Current
<1> QED
  BY <1>1, SerialInvariant, PTL

\* The rounds in the history of an alert are those from 1 up to its counter.
THEOREM HistoryHasNoGap == SpecSerial => []NumberedWithoutGap
<1>1. IInv /\ Current => NumberedWithoutGap
  <2> SUFFICES ASSUME IInv, Current, Quiescent, NEW e \in EventIds, event[e].count > 0
               PROVE  {d.no : d \in {x \in dispatches : x.event = e}} = 1 .. event[e].count
    BY DEF NumberedWithoutGap
  <2>1. Numbered(e) /\ ~Recording(e) /\ event[e].count \in Nat
    BY QuietAlerts, Counts DEF AlertOK, IInv
  <2>2. ASSUME NEW d \in dispatches, d.event = e
        PROVE  d.no \in 1 .. event[e].count
    <3>1. d.no \in Nat
      BY DEF IInv, TypeOK, TablesOK, Dispatch
    <3> QED
      BY <2>1, <2>2, <3>1 DEF Numbered
  <2>3. ASSUME NEW n \in 1 .. event[e].count
        PROVE  \E d \in dispatches : d.event = e /\ d.no = n
    BY <2>1 DEF Numbered, Recorded
  <2> QED
    BY <2>2, <2>3
<1> QED
  BY <1>1, SerialInvariant, PTL

\* Those who were told of an alert that is over have been told that it is over,
\* and nobody else.
THEOREM ReleaseFollowsTheTold == SpecSerial => []ReleaseReachesTheTold
<1>1. Current => ReleaseReachesTheTold
  BY QuietAlerts DEF ReleaseReachesTheTold, AlertOK, Released
<1> QED
  BY <1>1, SerialInvariant, PTL

\* An escalated watch has a warning of its kind in its place.
THEOREM EscalationIsRaised == SpecSerial => []EscalationRaisesWarning
<1>1. Current => EscalationRaisesWarning
  BY QuietAlerts DEF EscalationRaisesWarning, AlertOK, Replaced, HasWarning
<1> QED
  BY <1>1, SerialInvariant, PTL

\* An alert that is over stays so: one at a time, no approval is in flight that
\* could bring it back.
THEOREM OverIsOver == SpecSerial => OverStaysOver
<1>1. IInv /\ Current /\ [NextSerial]_vars =>
        [\A e \in EventIds : Over(e) => Over(e)']_vars
  <2> SUFFICES ASSUME IInv, Current, NextSerial, NEW e \in EventIds, Over(e)
               PROVE  Over(e)'
    OBVIOUS
  <2>1. ~ApprovalInFlight(e)
    BY DEF Current, ReqCurrent, ApprovalInFlight, Over
  <2> QED
    BY <2>1, StartOver, TickStepOver, ReqStepOver DEF NextSerial, Continue
<1> QED
  BY <1>1, SerialInvariant, PTL DEF SpecSerial, OverStaysOver
=============================================================================
