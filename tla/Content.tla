-------------------------------- MODULE Content --------------------------------
(***************************************************************************)
(* The guidelines of the departments and who gets them: the handlers of    *)
(* server/src/api/content.ts and org.ts, and the screen that asks for the  *)
(* changes (Guidelines.tsx), one browser of it; other clients use the same *)
(* handlers.  Departments come and go meanwhile, as far as it matters here *)
(* (Organisation has the rest of that).                                    *)
(*                                                                         *)
(* Each handler writes in one transaction.  The department of a guideline  *)
(* is looked at in one before that, but is a key too: when it is gone the  *)
(* request fails either way.                                               *)
(***************************************************************************)
EXTENDS CriteriaFields, MessageText, DeptTree

CONSTANTS
  Depts, People,
  ParentOf,      \* of each department, Root for the top
  Contents,      \* bound: what is put, [actions, notice]
  Lengths,       \* bound: the same, where it is all about their lengths
  Texts,         \* bound: what is typed into the screen
  Clicked,       \* bound: who is clicked on and off there
  Used,          \* bound: the department, kind and grade of what other clients put
  Viewed,        \* bound: those that the screen turns to
  MaxActionItems, MaxActionLen, MaxGuestNotice

VARIABLES
  dept,        \* departments: the ids there are
  guideline,   \* action_guidelines by <<department, kind, grade>>
  recipients,  \* recipients by department
  guidePage

contentVars == <<dept, guideline, recipients, guidePage>>

Slots == Depts \X Kinds \X {"watch", "warning"}

ASSUME ContentAssumption ==
  /\ IsFiniteSet(Depts) /\ Kinds # {}
  /\ Contents \union Lengths \union Texts \subseteq Guides
  /\ Viewed \subseteq Slots

ListOf(ds) == [d \in ds |-> ParentOf[d]]

\* PUT /guidelines, a row.  Lengths are in characters.
ContentValid(g) ==
  /\ Len(g.actions) <= MaxActionItems /\ Len(g.notice) <= MaxGuestNotice
  /\ \A i \in DOMAIN g.actions : Len(g.actions[i]) <= MaxActionLen

PutGuideline(s, g) ==
  /\ s[1] \in dept /\ ContentValid(g)
  /\ guideline' = [guideline EXCEPT ![s] = g]

\* PUT /recipients/:departmentId
PutRecipients(d, ids) ==
  /\ d \in dept
  /\ recipients' = [recipients EXCEPT ![d] = ids]

\* DELETE /departments/:id takes its guidelines and recipients with it.
DeptGoes(d) ==
  /\ d \in dept /\ \A c \in dept : ParentOf[c] # d
  /\ dept' = dept \ {d}
  /\ guideline' = [s \in Slots |-> IF s[1] = d THEN Null ELSE guideline[s]]
  /\ recipients' = [recipients EXCEPT ![d] = {}]
  /\ UNCHANGED guidePage

DeptComes(d) ==
  /\ d \notin dept /\ ParentOf[d] \in dept \union {Root}
  /\ dept' = dept \union {d}
  /\ UNCHANGED <<guideline, recipients, guidePage>>

-----------------------------------------------------------------------------
(* Guidelines.tsx                                                          *)

\* editBufferFor(): what the lists of the page have on the selected guideline.
Buffered(page) ==
  LET g == IF page.slot = Null THEN Null ELSE page.guides[page.slot] IN
  [page EXCEPT !.text = IF g = Null THEN [actions |-> <<>>, notice |-> <<>>] ELSE g,
               !.ids = IF page.slot = Null THEN {} ELSE page.recs[page.slot[1]]]

\* The first leaf in the tree is selected, and the first kind and grade.
GuidelinesLoad ==
  /\ LET leaves == Leaves(ListOf(dept))
         flat == SelectSeq(Flat(ListOf(dept)), LAMBDA f : f.id \in leaves)
     IN  guidePage' = Buffered(
           [leaves |-> leaves, guides |-> guideline, recs |-> recipients,
            slot |-> IF flat = <<>> THEN Null
                     ELSE <<Head(flat).id, CHOOSE k \in Kinds : TRUE, "watch">>,
            text |-> Null, ids |-> {}, saving |-> Null])
  /\ UNCHANGED <<dept, guideline, recipients>>

SelectSlot(s) ==
  /\ guidePage # Null /\ s[1] \in guidePage.leaves /\ s # guidePage.slot
  /\ guidePage' = Buffered([guidePage EXCEPT !.slot = s])
  /\ UNCHANGED <<dept, guideline, recipients>>

\* The actions and the notice are typed, recipients added and removed.
EditGuideline ==
  /\ guidePage # Null /\ guidePage.slot # Null
  /\ \/ \E g \in Texts : Len(g.actions) <= MaxActionItems
                             /\ guidePage' = [guidePage EXCEPT !.text = g]
     \/ \E p \in Clicked : guidePage' = [guidePage EXCEPT !.ids = (@ \ {p}) \union ({p} \ @)]
  /\ UNCHANGED <<dept, guideline, recipients>>

Cancel ==
  /\ guidePage # Null /\ guidePage.saving = Null
  /\ guidePage' = Buffered(guidePage)
  /\ UNCHANGED <<dept, guideline, recipients>>

\* trim()
Trimmed(text) ==
  LET said == {i \in DOMAIN text : text[i] # Space}
  IN  IF said = {} THEN <<>> ELSE SubSeq(text, Min(said), Max(said))

\* filter(): those that say something.
Said(texts) ==
  LET said[n \in 0 .. Len(texts)] ==
        IF n = 0 THEN <<>>
        ELSE IF texts[n] = <<>> THEN said[n - 1] ELSE Append(said[n - 1], texts[n])
  IN  said[Len(texts)]

Cleaned(g) ==
  [g EXCEPT !.actions = Said([i \in DOMAIN g.actions |-> Trimmed(g.actions[i])])]

\* handleSave(): the guideline first,
SaveGuideline ==
  /\ guidePage # Null /\ guidePage.saving = Null /\ guidePage.slot # Null
  /\ PutGuideline(guidePage.slot, Cleaned(guidePage.text))
  /\ guidePage' = [guidePage EXCEPT !.saving =
                     [next |-> "recipients", dept |-> guidePage.slot[1], ids |-> guidePage.ids]]
  /\ UNCHANGED <<dept, recipients>>

\* then the recipients of that moment,
SaveRecipients ==
  /\ guidePage # Null /\ guidePage.saving # Null /\ guidePage.saving.next = "recipients"
  /\ PutRecipients(guidePage.saving.dept, guidePage.saving.ids)
  /\ guidePage' = [guidePage EXCEPT !.saving.next = "lists"]
  /\ UNCHANGED <<dept, guideline>>

\* or not, and the page goes on with the lists it had.
SaveFails ==
  /\ guidePage # Null /\ guidePage.saving # Null
  /\ guidePage' = [guidePage EXCEPT !.saving = Null]
  /\ UNCHANGED <<dept, guideline, recipients>>

\* handleDelete()
DeleteGuideline ==
  /\ guidePage # Null /\ guidePage.saving = Null /\ guidePage.slot # Null
  /\ guidePage.guides[guidePage.slot] # Null /\ guideline[guidePage.slot] # Null
  /\ guideline' = [guideline EXCEPT ![guidePage.slot] = Null]
  /\ guidePage' = [guidePage EXCEPT !.saving = [next |-> "guidelines"]]
  /\ UNCHANGED <<dept, recipients>>

\* The lists are fetched again, and what was typed since is gone.
Refetch ==
  /\ guidePage # Null /\ guidePage.saving # Null
  /\ guidePage.saving.next \in {"lists", "guidelines"}
  /\ guidePage' = Buffered([guidePage EXCEPT !.guides = guideline,
       !.recs = IF guidePage.saving.next = "lists" THEN recipients ELSE @, !.saving = Null])
  /\ UNCHANGED <<dept, guideline, recipients>>

OthersNext(contents, people) ==
  \/ \E s \in Used, g \in contents : PutGuideline(s, g) /\ UNCHANGED <<dept, recipients, guidePage>>
  \/ \E d \in Depts, ids \in SUBSET people :
       PutRecipients(d, ids) /\ UNCHANGED <<dept, guideline, guidePage>>

DeptsNext == \E d \in Depts : DeptGoes(d) \/ DeptComes(d)

PageNext ==
  \/ GuidelinesLoad \/ EditGuideline \/ Cancel
  \/ \E s \in Viewed : SelectSlot(s)
  \/ SaveGuideline \/ SaveRecipients \/ SaveFails
  \/ DeleteGuideline \/ Refetch
=============================================================================
