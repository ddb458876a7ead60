-------------------------------- MODULE Review --------------------------------
(***************************************************************************)
(* Who is sent an alert: its blocks, one for each department, from the     *)
(* draft over the screen where an approver looks at them                   *)
(* (EventReview.tsx) to what is sent and recorded (server/src/jobs/send.ts,*)
(* weatherTick.ts), and back from the records to the screen that sends     *)
(* them again (History.tsx).                                               *)
(*                                                                         *)
(* A block carries the people that it is for, each with the number that    *)
(* was read when he was put there.  Screens hold copies and send them      *)
(* whole; the tick reads the people anew for every round.                  *)
(*                                                                         *)
(* One alert.  A handler is one step: AlertPipeline has the steps between  *)
(* which others run, and the faults.  Texts are left out.                  *)
(*                                                                         *)
(* A definition marked "Variant" is a later one with a plausible bug.      *)
(***************************************************************************)
EXTENDS Content

CONSTANTS
  Turned,        \* bound: the departments that are turned on and off on a screen
  Swapped,       \* bound: <<department, person>> that are removed and added there
  MaxRounds      \* bound: no round follows this one

VARIABLES
  phone,         \* employees.phone: "good", or none, or one saved before there was a check of it
  alert,         \* weather_events
  message,       \* messages
  rounds,        \* dispatches: by number, what was sent
  reviewPage,
  historyPage,
  \* For the properties:
  owed,          \* departments that were told, and that nobody has turned off since
  missed,        \* by round, and for the message (0): departments that it is without
                 \* because they were told only after the round was put together
  ended          \* <<department, person>> that were told that it is over

told       == <<owed, missed>>
reviewVars == <<alert, message, rounds, reviewPage, historyPage, owed, missed, ended>>

NoAlert == [status |-> "none", count |-> 0]

\* A person as he is put on a block now.
Numbered(people) == {<<p, phone[p]>> : p \in people}

\* The draft of an alert as the weather tick composes it now.
Draft(kind, grade) ==
  ComposeDraft({<<d, guideline[<<d, kind, grade>>]>> :
                  d \in {d \in Depts : guideline[<<d, kind, grade>>] # Null}}, recipients)

\* createEvent()
Raise(kind, grade) ==
  /\ alert.status = "none"
  /\ alert' = [status |-> "PENDING_APPROVAL", count |-> 0]
  /\ LET draft == Draft(kind, grade) IN
     message' = [status |-> "draft",
                 blocks |-> [d \in {b.dept : b \in draft} |->
                   [selected |-> TRUE,
                    to |-> UNION {Numbered(b.recipients) : b \in {b \in draft : b.dept = d}}]]]
  /\ UNCHANGED <<rounds, reviewPage, historyPage, told, ended>>

Selected(blocks) == {d \in DOMAIN blocks : blocks[d].selected}

\* countTargets() = 0
Nobody(blocks) == \A d \in Selected(blocks) : blocks[d].to = {}

\* Those to whom a text of the blocks goes out.
Sent(blocks) ==
  UNION {{<<d, t[1]>> : t \in {t \in blocks[d].to : t[2] = "good"}} : d \in Selected(blocks)}

\* refreshRecipients()
Refreshed(blocks) ==
  [d \in DOMAIN blocks |-> [blocks[d] EXCEPT !.to = Numbered(recipients[d])]]

\* A number that is taken is not recorded again.
Recorded(no, blocks) ==
  rounds' = IF rounds[no] # Null THEN rounds ELSE [rounds EXCEPT ![no] = blocks]

DeptsOf(got) == {t[1] : t \in got}

\* Those of got are told; the message, and round no if it is recorded now, are without
\* those of lacking.
Tells(got, no, lacking) ==
  missed' = [o \in DOMAIN missed |->
    IF o = 0 \/ (o = no /\ rounds[o] = Null) THEN lacking
    ELSE IF rounds[o] = Null THEN {}
    ELSE missed[o] \union (DeptsOf(got) \ Selected(rounds[o]))]

-----------------------------------------------------------------------------
(* EventReview.tsx                                                         *)

\* The alert is among those that are open; the people that may be added are
\* those of the lists of its departments.
ReviewLoad ==
  /\ alert.status \in {"PENDING_APPROVAL", "ACTIVE"}
  /\ reviewPage' = [status |-> alert.status, blocks |-> message.blocks,
                    candidates |-> [d \in DOMAIN message.blocks |-> Numbered(recipients[d])]]
  /\ UNCHANGED <<alert, message, rounds, historyPage, told, ended>>

CanEdit == reviewPage # Null /\ reviewPage.status = "PENDING_APPROVAL"

\* toggleBlockSelected()
TurnReview(d) ==
  /\ CanEdit /\ d \in DOMAIN reviewPage.blocks
  /\ reviewPage' = [reviewPage EXCEPT !.blocks[d].selected = ~@]
  /\ UNCHANGED <<alert, message, rounds, historyPage, told, ended>>

\* removeRecipient(), addRecipient()
SwapRecipient(d, p) ==
  /\ CanEdit /\ d \in DOMAIN reviewPage.blocks
  /\ LET to    == reviewPage.blocks[d].to
         there == {t \in to : t[1] = p}
         new   == {t \in reviewPage.candidates[d] : t[1] = p}
     IN  reviewPage' = [reviewPage EXCEPT !.blocks[d].to =
           IF there # {} THEN to \ there ELSE to \union new]
  /\ UNCHANGED <<alert, message, rounds, historyPage, told, ended>>

\* handleSaveDraft(), PATCH /messages/:id
SaveDraft ==
  /\ CanEdit /\ message.status = "draft"
  /\ message' = [message EXCEPT !.blocks = reviewPage.blocks]
  /\ UNCHANGED <<alert, rounds, reviewPage, historyPage, told, ended>>

\* handleApprove(), runSend(): what the screen has goes out, to the numbers that it
\* has.  When nobody was reached the approval is taken back, and the blocks stay.
\* The screen is left when all went well, and as it was when the answer is an error.
Approve ==
  /\ CanEdit /\ alert.status = "PENDING_APPROVAL" /\ ~Nobody(reviewPage.blocks)
  /\ \E got \in SUBSET Sent(reviewPage.blocks) :
       /\ alert' = IF got = {} THEN [status |-> "PENDING_APPROVAL", count |-> 0]
                   ELSE [status |-> "ACTIVE", count |-> 1]
       /\ message' = [status |-> IF got = {} THEN "draft" ELSE "approved",
                      blocks |-> reviewPage.blocks]
       /\ owed' = owed \union DeptsOf(got)
       /\ Tells(got, 1, {})
       /\ reviewPage' = IF got = {} \/ rounds[1] # Null THEN reviewPage
                        ELSE IF \A d \in Selected(reviewPage.blocks) :
                                  \A t \in reviewPage.blocks[d].to : <<d, t[1]>> \in got
                        THEN Null ELSE [reviewPage EXCEPT !.status = "ACTIVE"]
  /\ Recorded(1, reviewPage.blocks)
  /\ UNCHANGED <<historyPage, ended>>

\* handleDismissConfirmed()
DismissReviewed ==
  /\ CanEdit /\ alert.status = "PENDING_APPROVAL"
  /\ alert' = [alert EXCEPT !.status = "DISMISSED"]
  /\ reviewPage' = Null
  /\ UNCHANGED <<message, rounds, historyPage, told, ended>>

-----------------------------------------------------------------------------
(* History.tsx                                                             *)

\* openModal(): any round, what was recorded of it.  (off: whom somebody turns off.)
OpenRound(no) ==
  /\ rounds[no] # Null
  /\ historyPage' = [no |-> no, blocks |-> rounds[no], off |-> {}]
  /\ UNCHANGED <<alert, message, rounds, reviewPage, told, ended>>

\* toggleBlockSelected()
TurnRound(d) ==
  /\ historyPage # Null /\ d \in DOMAIN historyPage.blocks
  /\ historyPage' = [historyPage EXCEPT
       !.blocks[d].selected = ~@,
       !.off = IF historyPage.blocks[d].selected THEN @ \union {d} ELSE @ \ {d}]
  /\ UNCHANGED <<alert, message, rounds, reviewPage, told, ended>>

\* Variant: what is sent again is recorded as a round and nothing else.
MessageStays(blocks) == UNCHANGED message

\* What is sent again becomes the message of the alert.
MessageBecomes(blocks) == message' = [message EXCEPT !.blocks = blocks]

\* submitResend(), quickResend(), runSend(): any round, changed or as it was, becomes the
\* message of the alert, whatever becomes of it.  The modal closes when all went well.
Resend ==
  /\ historyPage # Null
  /\ alert.status \in {"PENDING_APPROVAL", "ACTIVE"} /\ message.status = "approved"
  /\ ~Nobody(historyPage.blocks) /\ alert.count < MaxRounds
  /\ alert' = [alert EXCEPT !.count = @ + 1]
  /\ Recorded(alert.count + 1, historyPage.blocks)
  /\ MessageBecomes(historyPage.blocks)
  /\ \E got \in SUBSET Sent(historyPage.blocks) :
       /\ owed' = (owed \ historyPage.off) \union DeptsOf(got)
       /\ Tells(got, alert.count + 1, missed[historyPage.no] \ Selected(historyPage.blocks))
       /\ historyPage' = IF got = {} \/ rounds[alert.count + 1] # Null THEN historyPage ELSE Null
  /\ UNCHANGED <<reviewPage, ended>>

-----------------------------------------------------------------------------
(* The tick                                                                *)

\* A number that is taken takes the whole record back.
Repeat ==
  /\ alert.status = "ACTIVE" /\ message.status = "approved" /\ alert.count < MaxRounds
  /\ LET blocks == Refreshed(message.blocks)
         no     == alert.count + 1
     IN  /\ \E got \in SUBSET Sent(blocks) :
              owed' = owed \union DeptsOf(got) /\ Tells(got, no, missed[0])
         /\ Recorded(no, blocks)
         /\ alert' = IF rounds[no] # Null THEN alert ELSE [alert EXCEPT !.count = no]
  /\ UNCHANGED <<message, reviewPage, historyPage, ended>>

\* With resolve_notice on, those are told that it is over who would be sent the next
\* round.
Resolve ==
  /\ alert.status \in {"PENDING_APPROVAL", "ACTIVE"}
  /\ alert' = [alert EXCEPT !.status = "RESOLVED"]
  /\ ended' = IF message.status = "approved" THEN Sent(Refreshed(message.blocks)) ELSE {}
  /\ UNCHANGED <<message, rounds, reviewPage, historyPage, told>>

ReviewNext ==
  \/ \E k \in Kinds, g \in {"watch", "warning"} : Raise(k, g)
  \/ ReviewLoad \/ SaveDraft \/ Approve \/ DismissReviewed
  \/ \E d \in Turned : TurnReview(d) \/ TurnRound(d)
  \/ \E s \in Swapped : SwapRecipient(s[1], s[2])
  \/ \E no \in DOMAIN rounds : OpenRound(no)
  \/ Resend \/ Repeat \/ Resolve
=============================================================================
