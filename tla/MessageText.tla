----------------------------- MODULE MessageText -----------------------------
(***************************************************************************)
(* From a guideline to the text that is sent: the draft of an alert, the   *)
(* text of one department's block and what fits one LMS                    *)
(* (server/src/shared/template.ts, shared/sms.ts, guidelineContent.ts).    *)
(*                                                                         *)
(* A text is a sequence of characters, a character the number of bytes it  *)
(* takes in UTF-8 (1 to 4), or Space for white space of one byte: nothing  *)
(* else about it matters to the length, or to whether a text is blank.     *)
(*                                                                         *)
(* A definition marked "Variant" is a later one with a plausible bug.      *)
(***************************************************************************)
EXTENDS Naturals, FiniteSets, SequencesExt

CONSTANTS
  MaxBytes,      \* LMS_MAX_BYTES
  Notice,        \* truncationNotice(APP_BASE_URL)
  Reserve,       \* what LMS_CONTENT_BUDGET_BYTES sets aside for the rest of a text
  StaffHeading, GuestHeading, Bullet

Space == 0

Text == Seq(0 .. 4)

Guides == [actions : Seq(Text), notice : Text]

ByteLength(text) ==
  LET bytes[n \in 0 .. Len(text)] ==
        IF n = 0 THEN 0 ELSE bytes[n - 1] + (IF text[n] = Space THEN 1 ELSE text[n])
  IN  bytes[Len(text)]

ASSUME LmsAssumption ==
  /\ MaxBytes \in Nat /\ Reserve \in Nat
  /\ {Notice, StaffHeading, GuestHeading, Bullet} \subseteq Text
  /\ ByteLength(Notice) <= MaxBytes /\ Reserve <= MaxBytes

Blank(text) == \A i \in DOMAIN text : text[i] = Space

\* join("\n"), array_to_string(..., chr(10))
Lines(texts) ==
  LET joined[n \in 0 .. Len(texts)] ==
        IF n = 0 THEN <<>>
        ELSE IF n = 1 THEN texts[1] ELSE Append(joined[n - 1], Space) \o texts[n]
  IN  joined[Len(texts)]

\* What a guideline says: its actions, and the notice for the guests.
HasGuidelineContent(g) ==
  (\E i \in DOMAIN g.actions : ~Blank(g.actions[i])) \/ ~Blank(g.notice)

\* createEvent(), composeDraft(): a block per department that has something to say.  The
\* guidelines are <<department, guideline>>; with the people of each department.
ComposeDraft(guidelines, recipients) ==
  {[dept |-> g[1], actions |-> g[2].actions, notice |-> g[2].notice, recipients |-> recipients[g[1]]] :
     g \in {g \in guidelines : HasGuidelineContent(g[2])}}

\* The title line, with the names, and the line of the observation are given.
RenderMessage(b, title, obsLine) ==
  Lines(<<title, obsLine, <<>>, StaffHeading>>
        \o [i \in DOMAIN b.actions |-> Bullet \o b.actions[i]]
        \o (IF b.notice = <<>> THEN <<>> ELSE <<<<>>, GuestHeading, b.notice>>))

LongestPrefix(text, bytes) ==
  SubSeq(text, 1, CHOOSE n \in 0 .. Len(text) :
                    /\ ByteLength(SubSeq(text, 1, n)) <= bytes
                    /\ n < Len(text) => ByteLength(SubSeq(text, 1, n + 1)) > bytes)

\* Variant: the notice is not taken off before the text is cut.
FitForgetsNotice(text) ==
  IF ByteLength(text) <= MaxBytes THEN text
  ELSE LongestPrefix(text, MaxBytes) \o Notice

\* fitToLms(): cut between characters.
FitToLms(text) ==
  IF ByteLength(text) <= MaxBytes THEN text
  ELSE LongestPrefix(text, MaxBytes - ByteLength(Notice)) \o Notice

\* The length checkHealth() takes of a guideline, before there is any message.
ContentBytes(g) == ByteLength(Lines(g.actions)) + ByteLength(g.notice)

TooLong(g) == ContentBytes(g) > MaxBytes - Reserve
=============================================================================
