--------------------------- MODULE ReadinessProofs ---------------------------
(***************************************************************************)
(* Readiness for any departments, people, texts and numbers: the criteria  *)
(* stay in order, what is sent fits, what the watchdog and the checklist   *)
(* say of it holds, the banner, the strip and the summary of the forecast  *)
(* agree, and the end of an alert reaches those who were told.             *)
(*                                                                         *)
(* The inductive invariant has a part for each of the components, which    *)
(* step apart from each other: what a judged request still guarantees of   *)
(* the criteria, and that they are numbers or blanks; that a guideline, on *)
(* the server or on the screen, is one for which all lengths are defined;  *)
(* that no row of the forecast is from after now; and that whoever was     *)
(* told has his block selected in the message that the next round and the  *)
(* end are sent from.                                                      *)
(***************************************************************************)
EXTENDS Readiness, FiniteSetTheorems, SequenceTheorems, WellFoundedInduction, TLAPS

-----------------------------------------------------------------------------
(* Counting                                                                *)

\* A set of numbers has a smallest one.
LEMMA SmallestOf ==
  ASSUME NEW S \in SUBSET Nat, S # {}
  PROVE  \E m \in S : \A j \in S : m <= j
<1> DEFINE less == {p \in Nat \X Nat : p[1] < p[2]}
<1>1. IsWellFoundedOn(less, Nat)
  BY NatLessThanWellFounded DEF OpToRel
<1>2. \E m \in S : \A j \in S : <<j, m>> \notin less
  <2> HIDE DEF less
  <2> QED BY <1>1, WFMin
<1>3. \A i, j \in Nat : <<j, i>> \notin less => i <= j
  OBVIOUS
<1> HIDE DEF less
<1> QED
  BY <1>2, <1>3

\* Induction up to N, for a set of numbers.
LEMMA Climb ==
  ASSUME NEW N \in Nat, NEW P, 0 \in P, \A n \in 1 .. N : n - 1 \in P => n \in P
  PROVE  \A n \in 0 .. N : n \in P
<1> DEFINE Bad == {n \in 0 .. N : n \notin P}
<1>1. Bad = {}
  <2> SUFFICES ASSUME Bad # {} PROVE FALSE
    OBVIOUS
  <2>1. PICK m \in Bad : \A j \in Bad : m <= j
    <3>1. Bad \in SUBSET Nat
      OBVIOUS
    <3> HIDE DEF Bad
    <3> QED BY <3>1, SmallestOf
  <2>2. m \in 1 .. N /\ m - 1 \in 0 .. N /\ ~(m <= m - 1)
    BY <2>1
  <2> QED BY <2>1, <2>2
<1> QED
  BY <1>1

\* The smallest and the largest of some numbers.
LEMMA EndsOf ==
  ASSUME NEW N \in Nat, NEW S \in SUBSET (0 .. N), S # {}
  PROVE  /\ Min(S) \in S /\ \A j \in S : Min(S) <= j
         /\ Max(S) \in S /\ \A j \in S : Max(S) >= j
<1>1. \E m \in S : \A j \in S : m <= j
  BY SmallestOf
<1>2. \E m \in S : \A j \in S : m >= j
  <2> DEFINE T == {N - j : j \in S}
  <2>1. T \in SUBSET Nat /\ T # {}
    <3>1. \A j \in S : j \in 0 .. N /\ N - j \in Nat
      OBVIOUS
    <3> QED BY <3>1
  <2>2. PICK t \in T : \A u \in T : t <= u
    <3> HIDE DEF T
    <3> QED BY <2>1, SmallestOf
  <2>3. PICK m \in S : t = N - m
    OBVIOUS
  <2>4. \A j \in S : N - m <= N - j
    BY <2>2, <2>3
  <2>5. \A j \in S : m >= j
    BY <2>4
  <2> QED BY <2>5
<1> QED
  BY <1>1, <1>2 DEF Min, Max

Computed(f, N, S, base, step) ==
  f \in [0 .. N -> S] /\ f[0] = base /\ \A n \in 1 .. N : f[n] = step[<<n, f[n - 1]>>]

\* A computation of N rounds, each from what the one before has left.
LEMMA Rounds ==
  ASSUME NEW N \in Nat, NEW S, NEW base \in S, NEW step \in [(1 .. N) \X S -> S]
  PROVE  \E f : Computed(f, N, S, base, step)
<1> DEFINE good(f, m) == /\ f \in [0 .. m -> S] /\ f[0] = base
                         /\ \A n \in 1 .. m : f[n] = step[<<n, f[n - 1]>>]
           P == {m \in 0 .. N : \E f : good(f, m)}
<1>1. 0 \in P
  <2>1. good([n \in 0 .. 0 |-> base], 0)
    OBVIOUS
  <2> HIDE DEF good
  <2> QED BY <2>1
<1>2. ASSUME NEW m \in 1 .. N, m - 1 \in P PROVE m \in P
  <2>1. PICK f : good(f, m - 1)
    BY <1>2
  <2> DEFINE g == [n \in 0 .. m |-> IF n = m THEN step[<<m, f[m - 1]>>] ELSE f[n]]
  <2>2. /\ m \in Nat /\ m - 1 \in 0 .. (m - 1) /\ m - 1 \in 0 .. m /\ m # 0
        /\ \A n \in 0 .. m : n # m => n \in 0 .. (m - 1)
        /\ \A n \in 1 .. m : n # m => n \in 1 .. (m - 1) /\ n - 1 \in 0 .. m /\ n - 1 # m
        /\ \A n \in 1 .. m : n \in 0 .. m
    OBVIOUS
  <2>3. f \in [0 .. (m - 1) -> S]
    BY <2>1
  <2>4. step[<<m, f[m - 1]>>] \in S
    BY <1>2, <2>2, <2>3
  <2>5. g \in [0 .. m -> S]
    <3>1. \A n \in 0 .. m : (IF n = m THEN step[<<m, f[m - 1]>>] ELSE f[n]) \in S
      BY <2>2, <2>3, <2>4
    <3> QED BY <3>1
  <2>6. g[0] = base
    BY <2>1, <2>2
  <2>7. ASSUME NEW n \in 1 .. m PROVE g[n] = step[<<n, g[n - 1]>>]
    <3>1. CASE n = m
      BY <2>2, <3>1
    <3>2. CASE n # m
      <4>1. g[n] = f[n] /\ g[n - 1] = f[n - 1] /\ n \in 1 .. (m - 1)
        BY <2>2, <3>2
      <4> HIDE DEF g
      <4> QED BY <2>1, <4>1
    <3> QED BY <3>1, <3>2
  <2> HIDE DEF g
  <2>8. good(g, m)
    BY <2>5, <2>6, <2>7
  <2> QED BY <2>8
<1>3. N \in P
  <2>1. N \in 0 .. N
    OBVIOUS
  <2> HIDE DEF P
  <2> QED BY <1>1, <1>2, <2>1, Climb
<1> QED
  BY <1>3 DEF Computed

-----------------------------------------------------------------------------
(* The length of a text                                                    *)

Bytes(c) == IF c = Space THEN 1 ELSE c

Counts(text, f) ==
  /\ f \in [0 .. Len(text) -> Nat] /\ f[0] = 0
  /\ \A n \in 1 .. Len(text) : f[n] = f[n - 1] + Bytes(text[n])
  /\ ByteLength(text) = f[Len(text)]

\* Buffer.byteLength(), character by character.
LEMMA TextIsCounted ==
  ASSUME NEW text \in Text
  PROVE  \E f : Counts(text, f)
<1> DEFINE N == Len(text)
           step == [p \in (1 .. N) \X Nat |-> p[2] + Bytes(text[p[1]])]
           Runs(f) == f = [n \in 0 .. N |->
                            IF n = 0 THEN 0
                            ELSE f[n - 1] + (IF text[n] = Space THEN 1 ELSE text[n])]
<1>1. N \in Nat /\ \A n \in 1 .. N : Bytes(text[n]) \in Nat
  BY DEF Text, Bytes
<1>2. step \in [(1 .. N) \X Nat -> Nat]
  <2> HIDE DEF N
  <2> QED BY <1>1
<1>3. \A n \in 1 .. N, x \in Nat : step[<<n, x>>] = x + Bytes(text[n])
  OBVIOUS
<1> HIDE DEF N, step
<1>4. PICK g : Computed(g, N, Nat, 0, step)
  <2>1. 0 \in Nat
    OBVIOUS
  <2> QED BY <1>1, <1>2, <2>1, Rounds
<1>5. /\ g \in [0 .. N -> Nat] /\ g[0] = 0
      /\ \A n \in 1 .. N : n - 1 \in 0 .. N /\ g[n] = g[n - 1] + Bytes(text[n])
  <2>1. /\ g \in [0 .. N -> Nat] /\ g[0] = 0
        /\ \A n \in 1 .. N : g[n] = step[<<n, g[n - 1]>>]
    BY <1>4 DEF Computed
  <2>2. \A n \in 1 .. N : n - 1 \in 0 .. N
    BY <1>1
  <2>3. \A n \in 1 .. N : g[n - 1] \in Nat
    BY <2>1, <2>2
  <2> QED BY <1>3, <2>1, <2>2, <2>3
<1>6. Runs(g)
  <2>1. \A n \in 0 .. N : n # 0 => n \in 1 .. N
    BY <1>1
  <2>2. \A n \in 0 .. N : g[n] = IF n = 0 THEN 0
                                 ELSE g[n - 1] + (IF text[n] = Space THEN 1 ELSE text[n])
    BY <1>5, <2>1 DEF Bytes
  <2> QED BY <1>5, <2>2
<1> DEFINE f == CHOOSE f : Runs(f)
<1>7. ByteLength(text) = f[N]
  BY DEF ByteLength, N
<1>8. Runs(f)
  BY <1>6
<1> HIDE DEF f
<1>9. f[0] = 0 /\ \A n \in 1 .. N : f[n] = f[n - 1] + Bytes(text[n])
  <2>1. 0 \in 0 .. N /\ \A n \in 1 .. N : n \in 0 .. N /\ n # 0
    BY <1>1
  <2>2. \A n \in 0 .. N : f[n] = IF n = 0 THEN 0
                                 ELSE f[n - 1] + (IF text[n] = Space THEN 1 ELSE text[n])
    BY <1>8
  <2> HIDE DEF Runs
  <2> QED BY <2>1, <2>2 DEF Bytes
<1>10. \A n \in 0 .. N : f[n] = g[n]
  <2> DEFINE P == {n \in 0 .. N : f[n] = g[n]}
  <2>1. 0 \in P
    BY <1>1, <1>5, <1>9
  <2>2. \A n \in 1 .. N : n - 1 \in P => n \in P
    BY <1>1, <1>5, <1>9
  <2>3. \A n \in 0 .. N : n \in P
    <3> HIDE DEF P
    <3> QED BY <1>1, <2>1, <2>2, Climb
  <2> QED BY <2>3
<1>11. f \in [0 .. N -> Nat]
  <2>1. f = [n \in 0 .. N |-> f[n]]
    <3> DEFINE body == [n \in 0 .. N |->
                            IF n = 0 THEN 0
                            ELSE f[n - 1] + (IF text[n] = Space THEN 1 ELSE text[n])]
    <3>1. f = body
      BY <1>8
    <3>2. body = [n \in 0 .. N |-> body[n]]
      OBVIOUS
    <3> HIDE DEF body
    <3> QED BY <3>1, <3>2
  <2> QED BY <1>5, <1>10, <2>1
<1> HIDE DEF Runs
<1>12. Counts(text, f)
  BY <1>7, <1>9, <1>11 DEF Counts, N
<1> QED
  BY <1>12

LEMMA ByteLengthType ==
  ASSUME NEW text \in Text
  PROVE  ByteLength(text) \in Nat
<1>1. PICK f : Counts(text, f)
  BY TextIsCounted
<1>2. Len(text) \in 0 .. Len(text)
  BY DEF Text
<1> QED
  BY <1>1, <1>2 DEF Counts

\* Two texts one after the other.
LEMMA ByteLengthAdds ==
  ASSUME NEW s \in Text, NEW t \in Text
  PROVE  s \o t \in Text /\ ByteLength(s \o t) = ByteLength(s) + ByteLength(t)
<1> DEFINE M == Len(s)
           N == Len(t)
           both == s \o t
<1>1. /\ M \in Nat /\ N \in Nat /\ both \in Text /\ Len(both) = M + N
      /\ \A n \in 1 .. M : both[n] = s[n]
      /\ \A n \in 1 .. N : both[M + n] = t[n]
  BY DEF Text
<1>2. PICK f : Counts(s, f)
  BY TextIsCounted
<1>3. PICK g : Counts(t, g)
  BY TextIsCounted
<1>4. PICK h : Counts(both, h)
  BY <1>1, TextIsCounted
<1> HIDE DEF M, N, both
<1>5. /\ f[0] = 0 /\ \A n \in 1 .. M : f[n] = f[n - 1] + Bytes(s[n])
      /\ g[0] = 0 /\ \A n \in 1 .. N : g[n] = g[n - 1] + Bytes(t[n])
      /\ h[0] = 0 /\ \A n \in 1 .. (M + N) : h[n] = h[n - 1] + Bytes(both[n])
      /\ ByteLength(s) = f[M] /\ ByteLength(t) = g[N] /\ ByteLength(both) = h[M + N]
      /\ f[M] \in Nat /\ \A n \in 0 .. N : g[n] \in Nat
  <2>1. M \in 0 .. M
    BY <1>1
  <2> QED BY <1>1, <1>2, <1>3, <1>4, <2>1 DEF Counts, M, N
<1>6. \A n \in 0 .. M : h[n] = f[n]
  <2> DEFINE P == {n \in 0 .. M : h[n] = f[n]}
  <2>1. 0 \in P
    BY <1>1, <1>5
  <2>2. \A n \in 1 .. M : n - 1 \in P => n \in P
    <3>1. \A n \in 1 .. M : n \in 1 .. (M + N) /\ n \in 0 .. M
      BY <1>1
    <3> QED BY <1>1, <1>5, <3>1
  <2>3. \A n \in 0 .. M : n \in P
    <3> HIDE DEF P
    <3> QED BY <1>1, <2>1, <2>2, Climb
  <2> QED BY <2>3
<1>7. \A n \in 0 .. N : h[M + n] = f[M] + g[n]
  <2> DEFINE P == {n \in 0 .. N : h[M + n] = f[M] + g[n]}
  <2>1. 0 \in P
    <3>1. M \in 0 .. M /\ M + 0 = M /\ 0 \in 0 .. N
      BY <1>1
    <3> QED BY <1>5, <1>6, <3>1
  <2>2. ASSUME NEW n \in 1 .. N, n - 1 \in P PROVE n \in P
    <3>1. M + n \in 1 .. (M + N) /\ (M + n) - 1 = M + (n - 1) /\ n \in 0 .. N /\ n - 1 \in 0 .. N
      BY <1>1
    <3>2. h[M + n] = h[M + (n - 1)] + Bytes(t[n]) /\ g[n] = g[n - 1] + Bytes(t[n])
      BY <1>1, <1>5, <3>1
    <3>3. h[M + (n - 1)] = f[M] + g[n - 1]
      BY <2>2
    <3>4. Bytes(t[n]) \in Nat
      BY DEF Bytes, Text, N
    <3> QED BY <1>5, <3>1, <3>2, <3>3, <3>4
  <2>3. \A n \in 0 .. N : n \in P
    <3> HIDE DEF P
    <3> QED BY <1>1, <2>1, <2>2, Climb
  <2> QED BY <2>3
<1>8. N \in 0 .. N
  BY <1>1
<1> QED
  BY <1>1, <1>5, <1>7, <1>8 DEF both

-----------------------------------------------------------------------------
(* What is sent                                                            *)

LEMMA PartOfText ==
  ASSUME NEW text \in Text, NEW a \in Nat, NEW b \in Nat, 1 <= a, b <= Len(text)
  PROVE  SubSeq(text, a, b) \in Text
<1>1. \A i \in a .. b : i \in 1 .. Len(text)
  BY DEF Text
<1> QED
  BY <1>1 DEF Text

\* The cut: as many characters as fit, and no more would.
Cut(text, bytes, n) ==
  /\ n \in 0 .. Len(text)
  /\ ByteLength(SubSeq(text, 1, n)) <= bytes
  /\ n < Len(text) => ByteLength(SubSeq(text, 1, n + 1)) > bytes

LEMMA ACutThere ==
  ASSUME NEW text \in Text, NEW bytes \in Nat
  PROVE  \E n : Cut(text, bytes, n) /\ LongestPrefix(text, bytes) = SubSeq(text, 1, n)
<1> DEFINE N == Len(text)
           size(n) == ByteLength(SubSeq(text, 1, n))
           S == {n \in 0 .. N : n < N => size(n + 1) > bytes}
<1>1. N \in Nat /\ N \in S
  BY DEF Text
<1>2. PICK m \in S : \A j \in S : m <= j
  <2>1. S \in SUBSET Nat /\ S # {}
    BY <1>1
  <2> HIDE DEF S
  <2> QED BY <2>1, SmallestOf
<1>3. size(m) <= bytes
  <2>1. CASE m = 0
    <3>1. SubSeq(text, 1, 0) = <<>> /\ <<>> \in Text
      BY DEF Text
    <3>2. ByteLength(<<>>) = 0
      <4>1. PICK f : Counts(<<>>, f)
        BY <3>1, TextIsCounted
      <4> QED BY <4>1 DEF Counts
    <3>3. SubSeq(text, 1, m) = <<>>
      BY <2>1, <3>1
    <3>4. 0 <= bytes
      OBVIOUS
    <3> QED BY <3>2, <3>3, <3>4
  <2>2. CASE m # 0
    <3>1. m - 1 \in 0 .. N /\ m - 1 < N /\ ~(m <= m - 1) /\ (m - 1) + 1 = m /\ m \in 0 .. N
      BY <1>1, <1>2, <2>2
    <3>2. ~(size(m) > bytes)
      <4> HIDE DEF size, N
      <4>1. m - 1 \notin S
        BY <1>2, <3>1
      <4> QED BY <3>1, <4>1
    <3>3. size(m) \in Nat
      <4>1. SubSeq(text, 1, m) \in Text
        BY <3>1, PartOfText
      <4> QED BY <4>1, ByteLengthType
    <3> HIDE DEF size
    <3> QED BY <3>2, <3>3
  <2> QED BY <2>1, <2>2
<1>4. Cut(text, bytes, m)
  BY <1>2, <1>3 DEF Cut
<1> DEFINE n == CHOOSE n \in 0 .. Len(text) :
                  /\ ByteLength(SubSeq(text, 1, n)) <= bytes
                  /\ n < Len(text) => ByteLength(SubSeq(text, 1, n + 1)) > bytes
<1>5. Cut(text, bytes, n)
  <2>1. \E k \in 0 .. Len(text) :
          /\ ByteLength(SubSeq(text, 1, k)) <= bytes
          /\ k < Len(text) => ByteLength(SubSeq(text, 1, k + 1)) > bytes
    BY <1>4 DEF Cut
  <2> QED BY <2>1 DEF Cut
<1>6. LongestPrefix(text, bytes) = SubSeq(text, 1, n)
  BY DEF LongestPrefix
<1> HIDE DEF n
<1> QED
  BY <1>5, <1>6

\* fitToLms(), shared/sms.ts: whatever the text is, what is sent takes one LMS; and when
\* it is not the text, it is as much of it as fits before the notice, which a character
\* more would not, and there is something that it lacks.
THEOREM WhatIsSentFits ==
  ASSUME NEW text \in Text
  PROVE  LET sent == FitToLms(text)
             kept == Len(sent) - Len(Notice)
         IN  /\ ByteLength(sent) <= MaxBytes
             /\ sent # text =>
                  /\ ByteLength(text) > MaxBytes /\ kept < Len(text)
                  /\ sent = SubSeq(text, 1, kept) \o Notice
                  /\ ByteLength(SubSeq(text, 1, kept + 1) \o Notice) > MaxBytes
<1>0. /\ MaxBytes \in Nat /\ Notice \in Text /\ ByteLength(Notice) \in Nat
      /\ ByteLength(text) \in Nat /\ ByteLength(Notice) <= MaxBytes
  BY LmsAssumption, ByteLengthType
<1>1. CASE ByteLength(text) <= MaxBytes
  BY <1>1 DEF FitToLms
<1>2. CASE ~(ByteLength(text) <= MaxBytes)
  <2> DEFINE bytes == MaxBytes - ByteLength(Notice)
             sent == FitToLms(text)
             kept == Len(sent) - Len(Notice)
  <2>1. bytes \in Nat
    BY <1>0
  <2>2. PICK n : Cut(text, bytes, n) /\ LongestPrefix(text, bytes) = SubSeq(text, 1, n)
    BY <2>1, ACutThere
  <2>3. sent = SubSeq(text, 1, n) \o Notice
    BY <1>2, <2>2 DEF FitToLms
  <2>4. n \in 0 .. Len(text) /\ Len(text) \in Nat
    BY <2>2 DEF Cut, Text
  <2>5. SubSeq(text, 1, n) \in Text
    BY <2>4, PartOfText
  <2>6. ByteLength(sent) = ByteLength(SubSeq(text, 1, n)) + ByteLength(Notice)
    BY <1>0, <2>3, <2>5, ByteLengthAdds
  <2>7. ByteLength(sent) <= MaxBytes
    <3>1. ByteLength(SubSeq(text, 1, n)) <= bytes /\ ByteLength(SubSeq(text, 1, n)) \in Nat
      BY <2>2, <2>5, ByteLengthType DEF Cut
    <3> QED BY <1>0, <2>6, <3>1
  <2>8. kept = n
    <3>1. Len(SubSeq(text, 1, n)) = n
      BY <2>4 DEF Text
    <3>2. Len(sent) = n + Len(Notice) /\ Len(Notice) \in Nat
      BY <1>0, <2>3, <2>5, <3>1 DEF Text
    <3> HIDE DEF sent
    <3> QED BY <2>4, <3>2
  <2>9. n < Len(text)
    <3>1. CASE n = Len(text)
      <4>1. SubSeq(text, 1, n) = text
        BY <3>1 DEF Text
      <4>2. ByteLength(text) <= bytes
        BY <2>2, <4>1 DEF Cut
      <4> QED BY <1>0, <1>2, <4>2
    <3> QED BY <2>4, <3>1
  <2>10. ByteLength(SubSeq(text, 1, n + 1) \o Notice) > MaxBytes
    <3>1. SubSeq(text, 1, n + 1) \in Text
      BY <2>4, <2>9, PartOfText
    <3>2. ByteLength(SubSeq(text, 1, n + 1)) \in Nat /\ ByteLength(SubSeq(text, 1, n + 1)) > bytes
      BY <2>2, <2>9, <3>1, ByteLengthType DEF Cut
    <3>3. ByteLength(SubSeq(text, 1, n + 1) \o Notice)
            = ByteLength(SubSeq(text, 1, n + 1)) + ByteLength(Notice)
      BY <1>0, <3>1, ByteLengthAdds
    <3> QED BY <1>0, <3>2, <3>3
  <2>11. ByteLength(text) > MaxBytes
    BY <1>0, <1>2
  <2> HIDE DEF sent, bytes
  <2> QED BY <2>3, <2>7, <2>8, <2>9, <2>10, <2>11 DEF sent
<1> QED
  BY <1>1, <1>2

-----------------------------------------------------------------------------
(* Texts are made of texts                                                 *)

\* Whatever follows the rounds of a computation has its values.
LEMMA SameRounds ==
  ASSUME NEW N \in Nat, NEW S, NEW base, NEW step, NEW g, Computed(g, N, S, base, step),
         NEW f, f[0] = base,
         \A n \in 1 .. N : f[n - 1] \in S => f[n] = step[<<n, f[n - 1]>>]
  PROVE  \A n \in 0 .. N : f[n] = g[n] /\ f[n] \in S
<1> DEFINE P == {n \in 0 .. N : f[n] = g[n] /\ f[n] \in S}
<1>1. /\ g \in [0 .. N -> S] /\ g[0] = base
      /\ \A n \in 1 .. N : g[n] = step[<<n, g[n - 1]>>]
  BY DEF Computed
<1>2. 0 \in P
  BY <1>1
<1>3. ASSUME NEW n \in 1 .. N, n - 1 \in P PROVE n \in P
  <2>1. n \in 0 .. N /\ f[n - 1] = g[n - 1] /\ f[n - 1] \in S
    BY <1>3
  <2>2. f[n] = g[n]
    BY <1>1, <2>1
  <2>3. g[n] \in S
    BY <1>1, <2>1
  <2> QED BY <2>1, <2>2, <2>3
<1>4. \A n \in 0 .. N : n \in P
  <2> HIDE DEF P
  <2> QED BY <1>2, <1>3, Climb
<1> QED
  BY <1>4

LEMMA LinesType ==
  ASSUME NEW texts \in Seq(Text)
  PROVE  Lines(texts) \in Text
<1> DEFINE N == Len(texts)
           next(n, before) == IF n = 1 THEN texts[1] ELSE Append(before, Space) \o texts[n]
           step == [p \in (1 .. N) \X Text |-> next(p[1], p[2])]
           Runs(f) == f = [n \in 0 .. N |->
             IF n = 0 THEN <<>>
             ELSE IF n = 1 THEN texts[1] ELSE Append(f[n - 1], Space) \o texts[n]]
<1>1. N \in Nat /\ <<>> \in Text
  BY DEF Text
<1>2. \A n \in 1 .. N, t \in Text : next(n, t) \in Text
  <2>1. \A n \in 1 .. N : texts[n] \in Text
    OBVIOUS
  <2>2. \A t \in Text : Append(t, Space) \in Text
    BY DEF Text, Space
  <2>3. \A s, t \in Text : s \o t \in Text
    BY DEF Text
  <2> HIDE DEF N
  <2> QED BY <1>1, <2>1, <2>2, <2>3
<1>3. /\ step \in [(1 .. N) \X Text -> Text]
      /\ \A n \in 1 .. N, t \in Text : step[<<n, t>>] = next(n, t)
  <2> HIDE DEF next, N
  <2> QED BY <1>2
<1> HIDE DEF N, step
<1>4. PICK g : Computed(g, N, Text, <<>>, step)
  BY <1>1, <1>3, Rounds
<1>5. /\ g \in [0 .. N -> Text] /\ g[0] = <<>>
      /\ \A n \in 1 .. N : n - 1 \in 0 .. N /\ g[n] = next(n, g[n - 1])
  <2>1. /\ g \in [0 .. N -> Text] /\ g[0] = <<>>
        /\ \A n \in 1 .. N : g[n] = step[<<n, g[n - 1]>>]
    BY <1>4 DEF Computed
  <2>2. \A n \in 1 .. N : n - 1 \in 0 .. N
    BY <1>1
  <2>3. \A n \in 1 .. N : g[n - 1] \in Text
    BY <2>1, <2>2
  <2> HIDE DEF next
  <2> QED BY <1>3, <2>1, <2>2, <2>3
<1>6. Runs(g)
  <2>1. \A n \in 0 .. N : n # 0 => n \in 1 .. N
    BY <1>1
  <2>2. \A n \in 0 .. N : g[n] = IF n = 0 THEN <<>>
          ELSE IF n = 1 THEN texts[1] ELSE Append(g[n - 1], Space) \o texts[n]
    BY <1>5, <2>1
  <2> QED BY <1>5, <2>2
<1> DEFINE f == CHOOSE f : Runs(f)
<1>7. Lines(texts) = f[N]
  BY DEF Lines, N
<1>8. Runs(f)
  BY <1>6
<1> HIDE DEF f
<1>9. f[0] = <<>> /\ \A n \in 1 .. N : f[n] = next(n, f[n - 1])
  <2>1. 0 \in 0 .. N /\ \A n \in 1 .. N : n \in 0 .. N /\ n # 0
    BY <1>1
  <2>2. \A n \in 0 .. N : f[n] = IF n = 0 THEN <<>>
          ELSE IF n = 1 THEN texts[1] ELSE Append(f[n - 1], Space) \o texts[n]
    BY <1>8
  <2> HIDE DEF Runs
  <2> QED BY <2>1, <2>2
<1> HIDE DEF Runs, next
<1>10. \A n \in 1 .. N : f[n - 1] \in Text => f[n] = step[<<n, f[n - 1]>>]
  BY <1>3, <1>9
<1>11. N \in 0 .. N
  BY <1>1
<1>12. f[N] \in Text
  BY <1>1, <1>4, <1>9, <1>10, <1>11, SameRounds
<1> QED
  BY <1>7, <1>12

LEMMA SaidType ==
  ASSUME NEW texts \in Seq(Text)
  PROVE  Said(texts) \in Seq(Text)
<1> DEFINE N == Len(texts)
           next(n, before) == IF texts[n] = <<>> THEN before ELSE Append(before, texts[n])
           step == [p \in (1 .. N) \X Seq(Text) |-> next(p[1], p[2])]
           Runs(f) == f = [n \in 0 .. N |->
             IF n = 0 THEN <<>>
             ELSE IF texts[n] = <<>> THEN f[n - 1] ELSE Append(f[n - 1], texts[n])]
<1>1. N \in Nat /\ <<>> \in Seq(Text)
  OBVIOUS
<1>2. \A n \in 1 .. N, t \in Seq(Text) : next(n, t) \in Seq(Text)
  <2>1. \A n \in 1 .. N : texts[n] \in Text
    OBVIOUS
  <2> HIDE DEF N
  <2> QED BY <2>1
<1>3. /\ step \in [(1 .. N) \X Seq(Text) -> Seq(Text)]
      /\ \A n \in 1 .. N, t \in Seq(Text) : step[<<n, t>>] = next(n, t)
  <2> HIDE DEF next, N
  <2> QED BY <1>2
<1> HIDE DEF N, step
<1>4. PICK g : Computed(g, N, Seq(Text), <<>>, step)
  BY <1>1, <1>3, Rounds
<1>5. /\ g \in [0 .. N -> Seq(Text)] /\ g[0] = <<>>
      /\ \A n \in 1 .. N : n - 1 \in 0 .. N /\ g[n] = next(n, g[n - 1])
  <2>1. /\ g \in [0 .. N -> Seq(Text)] /\ g[0] = <<>>
        /\ \A n \in 1 .. N : g[n] = step[<<n, g[n - 1]>>]
    BY <1>4 DEF Computed
  <2>2. \A n \in 1 .. N : n - 1 \in 0 .. N
    BY <1>1
  <2>3. \A n \in 1 .. N : g[n - 1] \in Seq(Text)
    BY <2>1, <2>2
  <2> HIDE DEF next
  <2> QED BY <1>3, <2>1, <2>2, <2>3
<1>6. Runs(g)
  <2>1. \A n \in 0 .. N : n # 0 => n \in 1 .. N
    BY <1>1
  <2>2. \A n \in 0 .. N : g[n] = IF n = 0 THEN <<>>
          ELSE IF texts[n] = <<>> THEN g[n - 1] ELSE Append(g[n - 1], texts[n])
    BY <1>5, <2>1
  <2> QED BY <1>5, <2>2
<1> DEFINE f == CHOOSE f : Runs(f)
<1>7. Said(texts) = f[N]
  BY DEF Said, N
<1>8. Runs(f)
  BY <1>6
<1> HIDE DEF f
<1>9. f[0] = <<>> /\ \A n \in 1 .. N : f[n] = next(n, f[n - 1])
  <2>1. 0 \in 0 .. N /\ \A n \in 1 .. N : n \in 0 .. N /\ n # 0
    BY <1>1
  <2>2. \A n \in 0 .. N : f[n] = IF n = 0 THEN <<>>
          ELSE IF texts[n] = <<>> THEN f[n - 1] ELSE Append(f[n - 1], texts[n])
    BY <1>8
  <2> HIDE DEF Runs
  <2> QED BY <2>1, <2>2
<1> HIDE DEF Runs, next
<1>10. \A n \in 1 .. N : f[n - 1] \in Seq(Text) => f[n] = step[<<n, f[n - 1]>>]
  BY <1>3, <1>9
<1>11. N \in 0 .. N
  BY <1>1
<1>12. f[N] \in Seq(Text)
  BY <1>1, <1>4, <1>9, <1>10, <1>11, SameRounds
<1> QED
  BY <1>7, <1>12

LEMMA TrimmedType ==
  ASSUME NEW text \in Text
  PROVE  Trimmed(text) \in Text
<1> DEFINE said == {i \in DOMAIN text : text[i] # Space}
<1>1. /\ said \in SUBSET (1 .. Len(text)) /\ said \in SUBSET (0 .. Len(text))
      /\ Len(text) \in Nat
  BY DEF Text
<1>2. CASE said = {}
  BY <1>2 DEF Trimmed, Text
<1>3. CASE said # {}
  <2>1. Min(said) \in 1 .. Len(text) /\ Max(said) \in 1 .. Len(text)
    <3> HIDE DEF said
    <3> QED BY <1>1, <1>3, EndsOf
  <2>2. SubSeq(text, Min(said), Max(said)) \in Text
    <3> HIDE DEF said
    <3> QED BY <1>1, <2>1, PartOfText
  <2> QED BY <1>3, <2>2 DEF Trimmed
<1> QED
  BY <1>2, <1>3

\* What the screen of the guidelines puts is a guideline.
LEMMA CleanedType ==
  ASSUME NEW g \in Guides
  PROVE  Cleaned(g) \in Guides
<1>1. g.actions \in Seq(Text) /\ g.notice \in Text
  BY DEF Guides
<1> DEFINE each == [i \in DOMAIN g.actions |-> Trimmed(g.actions[i])]
<1>2. each \in Seq(Text)
  <2>1. \A i \in 1 .. Len(g.actions) : g.actions[i] \in Text
    BY <1>1
  <2>2. \A i \in 1 .. Len(g.actions) : Trimmed(g.actions[i]) \in Text
    BY <2>1, TrimmedType
  <2>3. DOMAIN g.actions = 1 .. Len(g.actions) /\ Len(g.actions) \in Nat
    BY <1>1
  <2> QED BY <2>2, <2>3
<1> HIDE DEF each
<1>3. Said(each) \in Seq(Text)
  BY <1>2, SaidType
<1> QED
  BY <1>1, <1>3 DEF Cleaned, Guides, each

\* The text of a block is a text.
LEMMA RenderedType ==
  ASSUME NEW b, b.actions \in Seq(Text), b.notice \in Text, NEW title \in Text, NEW obsLine \in Text
  PROVE  RenderMessage(b, title, obsLine) \in Text
<1> DEFINE head == <<title, obsLine, <<>>, StaffHeading>>
           acts == [i \in DOMAIN b.actions |-> Bullet \o b.actions[i]]
           foot == IF b.notice = <<>> THEN <<>> ELSE <<<<>>, GuestHeading, b.notice>>
<1>1. <<>> \in Text /\ StaffHeading \in Text /\ GuestHeading \in Text /\ Bullet \in Text
  BY LmsAssumption DEF Text
<1>2. head \in Seq(Text)
  BY <1>1
<1>3. acts \in Seq(Text)
  <2>1. \A i \in 1 .. Len(b.actions) : b.actions[i] \in Text
    OBVIOUS
  <2>2. \A i \in 1 .. Len(b.actions) : Bullet \o b.actions[i] \in Text
    BY <1>1, <2>1, ByteLengthAdds
  <2>3. DOMAIN b.actions = 1 .. Len(b.actions) /\ Len(b.actions) \in Nat
    OBVIOUS
  <2> QED BY <2>2, <2>3
<1>4. foot \in Seq(Text)
  BY <1>1
<1> HIDE DEF head, acts, foot
<1>5. head \o acts \o foot \in Seq(Text)
  BY <1>2, <1>3, <1>4
<1> QED
  BY <1>5, LinesType DEF RenderMessage, head, acts, foot

-----------------------------------------------------------------------------
(* The criteria                                                            *)
(*                                                                         *)
(* That the warning is not below the watch is not inductive alone: it      *)
(* rests on what a request that was judged and is not yet written still    *)
(* guarantees.  While the stored rows are those it was compared with, the  *)
(* comparison; afterwards, only what its own rows say of each other, which *)
(* is enough when they are all there.                                      *)

Clients == {"page", "client"}

\* What is stored is in order.
StoredInOrder == \A k \in Kinds : Ordered(k, criteria[<<k, "watch">>], criteria[<<k, "warning">>])

\* A body that brings every row is in order by itself.
InOrderAlone(body) ==
  DOMAIN body = Criteria => \A k \in Kinds : Ordered(k, body[<<k, "watch">>], body[<<k, "warning">>])

\* What is known of a request between its two transactions.
Judged(p, stored) ==
  /\ p = [body |-> p.body, current |-> p.current] /\ p.current \in BOOLEAN
  /\ p.current => ComparedWithStored(p.body, stored)
  /\ InOrderAlone(p.body)

SettingsInv ==
  /\ mixed \in BOOLEAN
  /\ DOMAIN put = Clients
  /\ \A by \in Clients : put[by] # Null => Judged(put[by], criteria)
  /\ mixed \/ StoredInOrder

\* A body that was compared with all it does not bring is in order by itself.
LEMMA ComparedAlone ==
  ASSUME NEW body, NEW stored, ComparedWithStored(body, stored)
  PROVE  InOrderAlone(body)
<1> SUFFICES ASSUME DOMAIN body = Criteria, NEW k \in Kinds
             PROVE  Ordered(k, body[<<k, "watch">>], body[<<k, "warning">>])
  BY DEF InOrderAlone
<1>1. /\ <<k, "watch">> \in Criteria /\ <<k, "warning">> \in Criteria
      /\ <<k, "watch">>[1] = k
  BY DEF Criteria
<1>2. /\ Overlaid(body, stored)[<<k, "watch">>] = body[<<k, "watch">>]
      /\ Overlaid(body, stored)[<<k, "warning">>] = body[<<k, "warning">>]
  BY <1>1 DEF Overlaid
<1>3. Ordered(k, Overlaid(body, stored)[<<k, "watch">>], Overlaid(body, stored)[<<k, "warning">>])
  BY <1>1 DEF ComparedWithStored
<1> QED
  BY <1>2, <1>3

\* Rows in order, overlaid with rows that were compared with them, are in order.
LEMMA OverlayIsInOrder ==
  ASSUME NEW body, ComparedWithStored(body, criteria), StoredInOrder, NEW k \in Kinds
  PROVE  Ordered(k, Overlaid(body, criteria)[<<k, "watch">>], Overlaid(body, criteria)[<<k, "warning">>])
<1>1. /\ <<k, "watch">> \in Criteria /\ <<k, "warning">> \in Criteria
      /\ <<k, "watch">>[1] = k /\ <<k, "warning">>[1] = k
  BY DEF Criteria
<1>2. CASE <<k, "watch">> \in DOMAIN body \/ <<k, "warning">> \in DOMAIN body
  BY <1>1, <1>2 DEF ComparedWithStored
<1>3. CASE <<k, "watch">> \notin DOMAIN body /\ <<k, "warning">> \notin DOMAIN body
  <2>1. /\ Overlaid(body, criteria)[<<k, "watch">>] = criteria[<<k, "watch">>]
        /\ Overlaid(body, criteria)[<<k, "warning">>] = criteria[<<k, "warning">>]
    BY <1>1, <1>3 DEF Overlaid
  <2> QED
    BY <2>1 DEF StoredInOrder
<1> QED
  BY <1>2, <1>3

\* Judging a request leaves behind what its writing rests on.
LEMMA ReadKeeps ==
  ASSUME SettingsInv, NEW by \in Clients, NEW body, PutRead(by, body)
  PROVE  SettingsInv'
<1> DEFINE new == [body |-> body, current |-> TRUE]
<1>1. /\ put' = [put EXCEPT ![by] = new]
      /\ criteria' = criteria /\ mixed' = mixed
      /\ ComparedWithStored(body, criteria)
  BY DEF PutRead
<1>2. Judged(new, criteria)
  BY <1>1, ComparedAlone DEF Judged
<1> HIDE DEF new
<1>3. \A o \in Clients : put'[o] # Null => Judged(put'[o], criteria')
  BY <1>1, <1>2 DEF SettingsInv
<1>4. DOMAIN put' = Clients
  BY <1>1 DEF SettingsInv
<1> QED
  BY <1>1, <1>3, <1>4 DEF SettingsInv, StoredInOrder

\* Writing one leaves the stored rows in order, or tells that it mixed them.
LEMMA WriteKeeps ==
  ASSUME SettingsInv, NEW by \in Clients, PutWrite(by)
  PROVE  SettingsInv'
<1> DEFINE next == Overlaid(put[by].body, criteria)
<1>1. /\ put[by] # Null /\ Judged(put[by], criteria)
      /\ criteria' = next
      /\ mixed' = (mixed \/ (~put[by].current /\ DOMAIN put[by].body # Criteria))
  BY DEF PutWrite, SettingsInv
<1>2. put' = [o \in Clients |-> IF o = by THEN Null
                               ELSE IF put[o] = Null \/ next = criteria THEN put[o]
                               ELSE [put[o] EXCEPT !.current = FALSE]]
  BY DEF PutWrite, SettingsInv
<1>3. mixed' \in BOOLEAN
  BY <1>1
<1>4. mixed' \/ StoredInOrder'
  <2>1. CASE mixed
    BY <1>1, <2>1
  <2>2. CASE ~mixed /\ put[by].current
    BY <1>1, <2>2, OverlayIsInOrder DEF SettingsInv, Judged, StoredInOrder
  <2>3. CASE ~mixed /\ ~put[by].current /\ DOMAIN put[by].body = Criteria
    <3>1. \A c \in Criteria : next[c] = put[by].body[c]
      BY <2>3 DEF Overlaid
    <3>2. \A k \in Kinds : <<k, "watch">> \in Criteria /\ <<k, "warning">> \in Criteria
      BY DEF Criteria
    <3> HIDE DEF next
    <3> QED
      BY <1>1, <2>3, <3>1, <3>2 DEF Judged, InOrderAlone, StoredInOrder
  <2>4. CASE ~mixed /\ ~put[by].current /\ DOMAIN put[by].body # Criteria
    BY <1>1, <2>4
  <2> QED
    BY <2>1, <2>2, <2>3, <2>4
<1>5. \A o \in Clients : put'[o] # Null => Judged(put'[o], criteria')
  <2> HIDE DEF next
  <2> SUFFICES ASSUME NEW o \in Clients, put'[o] # Null PROVE Judged(put'[o], criteria')
    OBVIOUS
  <2>1. o # by /\ put[o] # Null
    BY <1>2
  <2>2. Judged(put[o], criteria)
    BY <2>1 DEF SettingsInv
  <2>3. CASE next = criteria
    BY <1>1, <1>2, <2>1, <2>2, <2>3
  <2>4. CASE next # criteria
    <3>1. put'[o] = [put[o] EXCEPT !.current = FALSE]
      BY <1>2, <2>1, <2>4
    <3>2. put'[o] = [body |-> put[o].body, current |-> FALSE]
      BY <2>2, <3>1 DEF Judged
    <3> QED
      BY <2>2, <3>2 DEF Judged
  <2> QED
    BY <2>3, <2>4
<1>6. DOMAIN put' = Clients
  BY <1>2
<1> QED
  BY <1>3, <1>4, <1>5, <1>6 DEF SettingsInv

LEMMA OthersKeep ==
  ASSUME SettingsInv, UNCHANGED <<criteria, put, mixed>>
  PROVE  SettingsInv'
BY DEF SettingsInv, StoredInOrder

\* Each step of the two screens and of the other clients.
LEMMA SettingsKept ==
  ASSUME SettingsInv, [SettingsNext]_settingsVars
  PROVE  SettingsInv'
<1>1. ASSUME NEW body \in Bodies, PutRead("client", body) PROVE SettingsInv'
  BY <1>1, ReadKeeps DEF Clients
<1>2. ASSUME NEW by \in DOMAIN put, PutWrite(by) PROVE SettingsInv'
  BY <1>2, WriteKeeps DEF SettingsInv
<1>3. CASE CriteriaLoad
  BY <1>3, OthersKeep DEF CriteriaLoad
<1>4. ASSUME NEW t \in Typed, SetField(t[1], t[2], t[3], t[4]) PROVE SettingsInv'
  BY <1>4, OthersKeep DEF SetField
<1>5. CASE LoadPreset
  BY <1>5, OthersKeep DEF LoadPreset
<1>6. CASE SaveCriteria
  BY <1>6, ReadKeeps DEF SaveCriteria, Clients
<1>7. CASE SiteNext
  BY <1>7, OthersKeep DEF SiteNext
<1>8. CASE UNCHANGED settingsVars
  BY <1>8, OthersKeep DEF settingsVars
<1> QED
  BY <1>1, <1>2, <1>3, <1>4, <1>5, <1>6, <1>7, <1>8 DEF SettingsNext, CriteriaNext

\* PUT /criteria: the inductive invariant, of the settings alone.
THEOREM SettingsInvariant == SettingsSpec => []SettingsInv
<1>1. SettingsInit => SettingsInv
  BY DEF SettingsInit, SettingsInv, Clients, StoredInOrder
<1>2. SettingsInv /\ [SettingsNext]_settingsVars => SettingsInv'
  BY SettingsKept
<1> QED
  BY <1>1, <1>2, PTL DEF SettingsSpec

\* No criterion of a warning is below that of its watch (PUT /criteria), as far as the
\* settings alone go.
THEOREM WarningStaysAbove == SettingsSpec => []WarningIsNotBelowWatch
<1>1. SettingsInv => WarningIsNotBelowWatch
  BY DEF SettingsInv, StoredInOrder, WarningIsNotBelowWatch
<1> QED
  BY <1>1, SettingsInvariant, PTL

\* What the rows and the screens hold: what may be compared.
NumbersInv ==
  /\ Criteria \subseteq DOMAIN criteria /\ Rows(criteria)
  /\ \A by \in DOMAIN put : put[by] # Null => Rows(put[by].body)
  /\ criteriaPage # Null => Rows(criteriaPage)
  /\ enabled \subseteq Kinds
  /\ settingsPage # Null =>
       DOMAIN settingsPage = {"enabled", "site", "saving"} /\ settingsPage.enabled \subseteq Kinds

\* The other screen.
LEMMA SwitchesKept ==
  ASSUME NumbersInv, SiteNext
  PROVE  NumbersInv'
<1>0. UNCHANGED <<criteria, put, criteriaPage>>
  BY DEF SiteNext
<1>1. /\ enabled' \subseteq Kinds
      /\ settingsPage' # Null =>
           /\ DOMAIN settingsPage' = {"enabled", "site", "saving"}
           /\ settingsPage'.enabled \subseteq Kinds
  <2>1. CASE SettingsLoad
    BY <2>1 DEF SettingsLoad, NumbersInv
  <2>2. CASE EditSettings
    <3>1. ASSUME NEW k \in Kinds,
                 settingsPage' = [settingsPage EXCEPT
                   !.enabled = (settingsPage.enabled \ {k}) \union ({k} \ settingsPage.enabled)]
          PROVE  /\ DOMAIN settingsPage' = {"enabled", "site", "saving"}
                 /\ settingsPage'.enabled \subseteq Kinds
      BY <2>2, <3>1 DEF EditSettings, NumbersInv
    <3> QED BY <2>2, <3>1 DEF EditSettings, NumbersInv
  <2>3. CASE SaveAlertSettings \/ SaveSite
    BY <2>3 DEF SaveAlertSettings, SaveSite, NumbersInv
  <2> QED BY <2>1, <2>2, <2>3 DEF SiteNext
<1> QED
  BY <1>0, <1>1 DEF NumbersInv

LEMMA NumbersKept ==
  ASSUME SettingsInv, NumbersInv, [SettingsNext]_settingsVars
  PROVE  NumbersInv'
<1>1. ASSUME NEW by \in Clients, NEW body, Rows(body), PutRead(by, body),
             UNCHANGED <<enabled, site, settingsPage>>
      PROVE  NumbersInv'
  <2>1. /\ put' = [put EXCEPT ![by] = [body |-> body, current |-> TRUE]]
        /\ UNCHANGED <<criteria, criteriaPage>>
    BY <1>1 DEF PutRead
  <2>2. \A o \in DOMAIN put' : put'[o] # Null => Rows(put'[o].body)
    BY <1>1, <2>1 DEF NumbersInv
  <2> QED BY <1>1, <2>1, <2>2 DEF NumbersInv
<1>2. ASSUME NEW by \in DOMAIN put, PutWrite(by), UNCHANGED <<enabled, site, settingsPage>>
      PROVE  NumbersInv'
  <2> DEFINE next == Overlaid(put[by].body, criteria)
  <2>1. /\ put[by] # Null /\ Rows(put[by].body) /\ criteria' = next
        /\ UNCHANGED criteriaPage
        /\ put' = [o \in DOMAIN put |->
                     IF o = by THEN Null
                     ELSE IF put[o] = Null \/ next = criteria THEN put[o]
                     ELSE [put[o] EXCEPT !.current = FALSE]]
    BY <1>2 DEF PutWrite, NumbersInv
  <2>2. \A c \in Criteria : next[c] \in {put[by].body[c], criteria[c]}
                              /\ (next[c] # criteria[c] => c \in DOMAIN put[by].body)
    BY DEF Overlaid
  <2>3. Criteria \subseteq DOMAIN next /\ Rows(next)
    BY <2>1, <2>2 DEF NumbersInv, Rows, Overlaid
  <2> HIDE DEF next
  <2>4. ASSUME NEW o \in DOMAIN put', put'[o] # Null PROVE Rows(put'[o].body)
    <3>1. o \in DOMAIN put /\ put[o] # Null /\ put'[o] \in {put[o], [put[o] EXCEPT !.current = FALSE]}
      BY <2>1, <2>4
    <3>2. put[o] = [body |-> put[o].body, current |-> put[o].current] /\ Rows(put[o].body)
      BY <3>1 DEF SettingsInv, Judged, NumbersInv
    <3>3. put'[o].body = put[o].body
      BY <3>1, <3>2
    <3> QED BY <3>2, <3>3
  <2> QED BY <1>2, <2>1, <2>3, <2>4 DEF NumbersInv
<1>3. CASE CriteriaLoad /\ UNCHANGED <<enabled, site, settingsPage>>
  BY <1>3 DEF CriteriaLoad, NumbersInv
<1>4. ASSUME NEW t \in Typed, SetField(t[1], t[2], t[3], t[4]), UNCHANGED <<enabled, site, settingsPage>>
      PROVE  NumbersInv'
  <2>1. /\ Rows(criteriaPage) /\ t[4] \in Nat \union {Null}
        /\ criteriaPage' = [criteriaPage EXCEPT ![<<t[1], t[2]>>][t[3]] = t[4]]
        /\ UNCHANGED <<criteria, put>>
    BY <1>4, CriteriaAssumption DEF SetField, NumbersInv
  <2>2. PICK d, f, v : /\ v \in Nat \union {Null}
                       /\ criteriaPage' = [criteriaPage EXCEPT ![d] = [criteriaPage[d] EXCEPT ![f] = v]]
    BY <2>1
  <2>3. ASSUME NEW c \in Criteria \intersect DOMAIN criteriaPage'
        PROVE  criteriaPage'[c] \in [Fields(c[1]) -> Nat \union {Null}]
    <3>1. c \in DOMAIN criteriaPage /\ criteriaPage[c] \in [Fields(c[1]) -> Nat \union {Null}]
      BY <2>1, <2>2, <2>3 DEF Rows
    <3>2. criteriaPage'[c] \in {criteriaPage[c], [criteriaPage[c] EXCEPT ![f] = v]}
      BY <2>2, <3>1
    <3> QED BY <2>2, <3>1, <3>2
  <2>4. Rows(criteriaPage')
    BY <2>3 DEF Rows
  <2> QED BY <1>4, <2>1, <2>4 DEF NumbersInv
<1>5. CASE LoadPreset /\ UNCHANGED <<enabled, site, settingsPage>>
  BY <1>5, CriteriaAssumption DEF LoadPreset, NumbersInv
<1>6. ASSUME NEW body \in Bodies, PutRead("client", body), UNCHANGED <<enabled, site, settingsPage>>
      PROVE  NumbersInv'
  BY <1>1, <1>6, CriteriaAssumption DEF Clients
<1>7. CASE SaveCriteria /\ UNCHANGED <<enabled, site, settingsPage>>
  <2>1. PutRead("page", criteriaPage) /\ Rows(criteriaPage)
    BY <1>7 DEF SaveCriteria, NumbersInv
  <2> QED BY <1>1, <1>7, <2>1 DEF Clients
<1>8. CASE UNCHANGED settingsVars
  BY <1>8 DEF settingsVars, NumbersInv
<1>9. CASE CriteriaNext
  BY <1>2, <1>3, <1>4, <1>5, <1>6, <1>7, <1>9 DEF CriteriaNext
<1> QED
  BY <1>8, <1>9, SwitchesKept DEF SettingsNext

-----------------------------------------------------------------------------
(* The guidelines                                                          *)

Stored == [Slots -> Guides \union {Null}]

\* The screen: its own copy of the guidelines, and what is typed.  What it has selected
\* is a department of the tree it shows, which may be none that is there.
PageOK(page) ==
  /\ DOMAIN page = {"leaves", "guides", "recs", "slot", "text", "ids", "saving"}
  /\ page.guides \in Stored
  /\ page.slot # Null =>
       page.slot \in {page.slot[1]} \X Kinds \X {"watch", "warning"}
  /\ page.slot \in Slots \ {Null} => page.text \in Guides

ContentInv ==
  /\ dept \subseteq Depts
  /\ guideline \in Stored
  /\ guidePage # Null => PageOK(guidePage)

LEMMA BufferedOK ==
  ASSUME NEW page,
         DOMAIN page = {"leaves", "guides", "recs", "slot", "text", "ids", "saving"},
         page.guides \in Stored,
         page.slot # Null => page.slot \in {page.slot[1]} \X Kinds \X {"watch", "warning"}
  PROVE  PageOK(Buffered(page))
<1> DEFINE g == IF page.slot = Null THEN Null ELSE page.guides[page.slot]
           text == IF g = Null THEN [actions |-> <<>>, notice |-> <<>>] ELSE g
           ids == IF page.slot = Null THEN {} ELSE page.recs[page.slot[1]]
           next == [page EXCEPT !.text = text, !.ids = ids]
<1>1. Buffered(page) = next
  BY DEF Buffered
<1>2. page.slot \in Slots \ {Null} => text \in Guides
  <2>1. [actions |-> <<>>, notice |-> <<>>] \in Guides
    BY DEF Guides, Text
  <2> QED BY <2>1 DEF Stored
<1> HIDE DEF text, ids
<1>3. /\ DOMAIN next = {"leaves", "guides", "recs", "slot", "text", "ids", "saving"}
      /\ next.guides = page.guides /\ next.slot = page.slot /\ next.text = text
  OBVIOUS
<1> HIDE DEF next
<1> QED
  BY <1>1, <1>2, <1>3 DEF PageOK

\* What other clients put, and the coming and going of departments.
LEMMA OthersKeepContent ==
  ASSUME ContentInv, UNCHANGED guidePage,
         dept' \subseteq Depts, guideline' \in Stored
  PROVE  ContentInv'
BY DEF ContentInv

LEMMA PutKeeps ==
  ASSUME guideline \in Stored, NEW s, NEW g \in Guides, PutGuideline(s, g)
  PROVE  guideline' \in Stored
BY DEF PutGuideline, Stored

LEMMA DeptsKeep ==
  ASSUME ContentInv, DeptsNext
  PROVE  ContentInv'
<1>1. ASSUME NEW d \in Depts, DeptGoes(d) PROVE ContentInv'
  <2>1. guideline' = [s \in Slots |-> IF s[1] = d THEN Null ELSE guideline[s]]
    BY <1>1 DEF DeptGoes
  <2>2. guideline' \in Stored
    BY <2>1 DEF Stored, ContentInv
  <2> QED BY <1>1, <2>2, OthersKeepContent DEF DeptGoes, ContentInv
<1>2. ASSUME NEW d \in Depts, DeptComes(d) PROVE ContentInv'
  BY <1>2, OthersKeepContent DEF DeptComes, ContentInv
<1> QED
  BY <1>1, <1>2 DEF DeptsNext

LEMMA ClientsKeep ==
  ASSUME ContentInv, NEW contents \in SUBSET Guides, NEW people, OthersNext(contents, people)
  PROVE  ContentInv'
<1>1. ASSUME NEW s \in Used, NEW g \in contents, PutGuideline(s, g),
             UNCHANGED <<dept, recipients, guidePage>>
      PROVE  ContentInv'
  BY <1>1, PutKeeps, OthersKeepContent DEF ContentInv
<1>2. ASSUME NEW d \in Depts, NEW ids \in SUBSET people, PutRecipients(d, ids),
             UNCHANGED <<dept, guideline, guidePage>>
      PROVE  ContentInv'
  BY <1>2, OthersKeepContent DEF ContentInv
<1> QED
  BY <1>1, <1>2 DEF OthersNext

LEMMA PageKeeps ==
  ASSUME ContentInv, PageNext
  PROVE  ContentInv'
<1> DEFINE keys == {"leaves", "guides", "recs", "slot", "text", "ids", "saving"}
<1>0. guidePage # Null => PageOK(guidePage)
  BY DEF ContentInv
<1>1. CASE GuidelinesLoad
  <2> DEFINE leaves == Leaves(ListOf(dept))
             flat == SelectSeq(Flat(ListOf(dept)), LAMBDA f : f.id \in leaves)
             slot == IF flat = <<>> THEN Null
                     ELSE <<Head(flat).id, CHOOSE k \in Kinds : TRUE, "watch">>
             page == [leaves |-> leaves, guides |-> guideline, recs |-> recipients,
                      slot |-> slot, text |-> Null, ids |-> {}, saving |-> Null]
  <2>1. guidePage' = Buffered(page) /\ UNCHANGED <<dept, guideline, recipients>>
    BY <1>1 DEF GuidelinesLoad
  <2>2. slot # Null => slot \in {slot[1]} \X Kinds \X {"watch", "warning"}
    <3>1. (CHOOSE k \in Kinds : TRUE) \in Kinds
      BY ContentAssumption
    <3> HIDE DEF flat
    <3> QED BY <3>1
  <2> HIDE DEF slot, leaves
  <2>3. DOMAIN page = keys /\ page.guides = guideline /\ page.slot = slot
    OBVIOUS
  <2> HIDE DEF page
  <2>4. PageOK(Buffered(page))
    BY <2>2, <2>3, BufferedOK DEF ContentInv
  <2> QED BY <2>1, <2>4 DEF ContentInv
<1>2. ASSUME NEW s \in Viewed, SelectSlot(s) PROVE ContentInv'
  <2> DEFINE page == [guidePage EXCEPT !.slot = s]
  <2>1. /\ guidePage' = Buffered(page) /\ UNCHANGED <<dept, guideline, recipients>>
        /\ PageOK(guidePage)
    BY <1>0, <1>2 DEF SelectSlot
  <2>2. s \in {s[1]} \X Kinds \X {"watch", "warning"}
    BY ContentAssumption DEF Slots
  <2>3. DOMAIN page = keys /\ page.guides \in Stored /\ page.slot = s
    BY <2>1 DEF PageOK
  <2> HIDE DEF page
  <2>4. PageOK(Buffered(page))
    BY <2>2, <2>3, BufferedOK
  <2> QED BY <2>1, <2>4 DEF ContentInv
<1>3. CASE EditGuideline
  <2>1. PageOK(guidePage) /\ UNCHANGED <<dept, guideline, recipients>>
    BY <1>0, <1>3 DEF EditGuideline
  <2>2. ASSUME NEW g \in Texts, guidePage' = [guidePage EXCEPT !.text = g]
        PROVE  PageOK(guidePage')
    <3>1. g \in Guides
      BY ContentAssumption
    <3>2. /\ DOMAIN guidePage' = keys /\ guidePage'.guides = guidePage.guides
          /\ guidePage'.slot = guidePage.slot /\ guidePage'.text = g
      BY <2>1, <2>2 DEF PageOK
    <3> QED BY <2>1, <3>1, <3>2 DEF PageOK
  <2>3. ASSUME NEW ids, guidePage' = [guidePage EXCEPT !.ids = ids]
        PROVE  PageOK(guidePage')
    <3>1. /\ DOMAIN guidePage' = keys /\ guidePage'.guides = guidePage.guides
          /\ guidePage'.slot = guidePage.slot /\ guidePage'.text = guidePage.text
      BY <2>1, <2>3 DEF PageOK
    <3> QED BY <2>1, <3>1 DEF PageOK
  <2>4. ASSUME NEW p, guidePage' = [guidePage EXCEPT !.ids = (@ \ {p}) \union ({p} \ @)]
        PROVE  PageOK(guidePage')
    BY <2>3, <2>4
  <2>5. PageOK(guidePage')
    BY <1>3, <2>2, <2>4 DEF EditGuideline
  <2> QED BY <2>1, <2>5 DEF ContentInv
<1>4. CASE Cancel
  <2>1. /\ guidePage' = Buffered(guidePage) /\ UNCHANGED <<dept, guideline, recipients>>
        /\ PageOK(guidePage)
    BY <1>0, <1>4 DEF Cancel
  <2>2. PageOK(Buffered(guidePage))
    BY <2>1, BufferedOK DEF PageOK
  <2> QED BY <2>1, <2>2 DEF ContentInv
<1>5. ASSUME NEW s, guidePage # Null, guidePage' = [guidePage EXCEPT !.saving = s]
      PROVE  PageOK(guidePage')
  <2>1. /\ DOMAIN guidePage' = keys /\ guidePage'.guides = guidePage.guides
        /\ guidePage'.slot = guidePage.slot /\ guidePage'.text = guidePage.text
    BY <1>0, <1>5 DEF PageOK
  <2> QED BY <1>0, <1>5, <2>1 DEF PageOK
<1>6. CASE SaveGuideline
  <2> DEFINE slot == guidePage.slot
  <2>1. /\ guidePage # Null /\ slot # Null /\ PageOK(guidePage)
        /\ PutGuideline(slot, Cleaned(guidePage.text))
        /\ UNCHANGED <<dept, recipients>>
    BY <1>0, <1>6 DEF SaveGuideline
  <2>2. slot \in Slots
    <3>1. slot[1] \in Depts
      BY <2>1 DEF PutGuideline, ContentInv
    <3>2. slot \in {slot[1]} \X Kinds \X {"watch", "warning"}
      BY <2>1 DEF PageOK
    <3> HIDE DEF slot
    <3> QED BY <3>1, <3>2 DEF Slots
  <2>3. Cleaned(guidePage.text) \in Guides
    BY <2>1, <2>2, CleanedType DEF PageOK
  <2>4. guideline' \in Stored
    BY <2>1, <2>3, PutKeeps DEF ContentInv
  <2>5. PageOK(guidePage')
    BY <1>5, <1>6 DEF SaveGuideline
  <2> QED BY <2>1, <2>4, <2>5 DEF ContentInv
<1>7. CASE SaveRecipients
  <2>1. PageOK(guidePage')
    BY <1>5, <1>7 DEF SaveRecipients
  <2> QED BY <1>7, <2>1 DEF SaveRecipients, ContentInv
<1>8. CASE SaveFails
  <2>1. PageOK(guidePage')
    BY <1>5, <1>8 DEF SaveFails
  <2> QED BY <1>8, <2>1 DEF SaveFails, ContentInv
<1>9. CASE DeleteGuideline
  <2>1. PageOK(guidePage')
    BY <1>5, <1>9 DEF DeleteGuideline
  <2>2. guideline' \in Stored
    BY <1>9 DEF DeleteGuideline, ContentInv, Stored
  <2> QED BY <1>9, <2>1, <2>2 DEF DeleteGuideline, ContentInv
<1>10. CASE Refetch
  <2> DEFINE page == [guidePage EXCEPT !.guides = guideline,
               !.recs = IF guidePage.saving.next = "lists" THEN recipients ELSE @, !.saving = Null]
  <2>1. /\ guidePage' = Buffered(page) /\ UNCHANGED <<dept, guideline, recipients>>
        /\ PageOK(guidePage)
    BY <1>0, <1>10 DEF Refetch
  <2>2. DOMAIN page = keys /\ page.guides = guideline /\ page.slot = guidePage.slot
    BY <2>1 DEF PageOK
  <2> HIDE DEF page
  <2>3. PageOK(Buffered(page))
    BY <2>1, <2>2, BufferedOK DEF PageOK, ContentInv
  <2> QED BY <2>1, <2>3 DEF ContentInv
<1> QED
  BY <1>1, <1>2, <1>3, <1>4, <1>6, <1>7, <1>8, <1>9, <1>10 DEF PageNext

-----------------------------------------------------------------------------
(* The forecast                                                            *)

\* No row is from after now, or for later than its forecast goes.
CollectionInv ==
  /\ now \in Nat
  /\ \A h \in DOMAIN rows : rows[h].point \in Points
  /\ \A h \in DOMAIN rows :
       h \in Nat /\ rows[h].fetched \in 0 .. now /\ h <= rows[h].fetched + Horizon
  /\ NewestForecastCounts

LEMMA ForecastKeeps ==
  ASSUME CollectionInv, NEW fetched,
         DOMAIN fetched = {} \/ DOMAIN fetched = now + 1 .. now + Horizon,
         \A h \in DOMAIN fetched : fetched[h] \in Points,
         ForecastComes(fetched)
  PROVE  CollectionInv'
<1> DEFINE hours == Kept(DOMAIN rows \union DOMAIN fetched)
<1>0. now \in Nat /\ Horizon \in Nat /\ now' = now
  BY HorizonAssumption DEF CollectionInv, ForecastComes
<1>1. hours \subseteq DOMAIN rows \union DOMAIN fetched
  BY DEF Kept
<1>2. rows' = [h \in hours |->
        IF h \in DOMAIN fetched THEN [point |-> fetched[h], fetched |-> now] ELSE rows[h]]
  BY DEF ForecastComes
<1> HIDE DEF hours
<1>3. /\ DOMAIN rows' = hours
      /\ \A h \in hours : rows'[h].fetched = IF h \in DOMAIN fetched THEN now ELSE rows[h].fetched
      /\ \A h \in hours : rows'[h].point = IF h \in DOMAIN fetched THEN fetched[h] ELSE rows[h].point
  BY <1>2
<1>4. \A h \in DOMAIN fetched : h \in Nat /\ h <= now + Horizon
  BY <1>0
<1>5. \A h \in hours : h \in Nat /\ rows'[h].fetched \in 0 .. now
                       /\ h <= rows'[h].fetched + Horizon
  <2> TAKE h \in hours
  <2>1. CASE h \in DOMAIN fetched
    BY <1>0, <1>3, <1>4, <2>1
  <2>2. CASE h \notin DOMAIN fetched
    BY <1>0, <1>1, <1>3, <2>2 DEF CollectionInv
  <2> QED BY <2>1, <2>2
<1>6. ASSUME NEW h \in hours, NEW i \in hours, h > rows'[i].fetched
      PROVE  rows'[h].fetched >= rows'[i].fetched
  <2>1. CASE h \in DOMAIN fetched
    BY <1>0, <1>3, <1>5, <2>1
  <2>2. CASE h \notin DOMAIN fetched /\ i \notin DOMAIN fetched
    BY <1>1, <1>3, <1>6, <2>2 DEF CollectionInv, NewestForecastCounts
  <2>3. CASE h \notin DOMAIN fetched /\ i \in DOMAIN fetched
    <3>1. h > now /\ h <= now + Horizon /\ h \in Nat
      <4>1. rows'[i].fetched = now
        BY <1>3, <2>3
      <4>2. h \in DOMAIN rows
        BY <1>1, <2>3
      <4> QED BY <1>0, <1>6, <4>1, <4>2 DEF CollectionInv
    <3>2. h \in DOMAIN fetched
      BY <1>0, <2>3, <3>1
    <3> QED BY <2>3, <3>2
  <2> QED BY <2>1, <2>2, <2>3
<1>7. \A h \in hours : rows'[h].point \in Points
  BY <1>1, <1>3 DEF CollectionInv
<1> QED
  BY <1>0, <1>3, <1>5, <1>6, <1>7 DEF CollectionInv, NewestForecastCounts

\* The two ticks, and time.
LEMMA CollectionKept ==
  ASSUME CollectionInv, WeatherTick \/ ForecastTick \/ HourPasses \/ UNCHANGED <<now, rows>>
  PROVE  CollectionInv'
<1>1. CASE UNCHANGED <<now, rows>>
  BY <1>1 DEF CollectionInv, NewestForecastCounts
<1>2. CASE WeatherTick
  <2>1. UNCHANGED <<now, rows>>
    BY <1>2 DEF WeatherTick, TickFails, TickCollects
  <2> QED BY <1>1, <2>1
<1>3. CASE ForecastTick
  <2>1. PICK fetched \in {<<>>} \union [now + 1 .. now + Horizon -> Points] : ForecastComes(fetched)
    BY <1>3 DEF ForecastTick
  <2>2. DOMAIN fetched = {} \/ DOMAIN fetched = now + 1 .. now + Horizon
    OBVIOUS
  <2>3. \A h \in DOMAIN fetched : fetched[h] \in Points
    <3>1. CASE fetched = <<>>
      BY <3>1
    <3>2. CASE fetched \in [now + 1 .. now + Horizon -> Points]
      BY <3>2
    <3> QED BY <3>1, <3>2
  <2> QED BY <2>1, <2>2, <2>3, ForecastKeeps
<1>4. CASE HourPasses
  BY <1>4 DEF HourPasses, CollectionInv, NewestForecastCounts
<1> QED
  BY <1>1, <1>2, <1>3, <1>4

-----------------------------------------------------------------------------
(* Who is told                                                             *)

BlocksOK(blocks) == \A d \in DOMAIN blocks : DOMAIN blocks[d] = {"selected", "to"}

\* Whoever was told, and has not been turned off since, is in each round that was put
\* together after that.
RoundsOK ==
  /\ DOMAIN missed = {0} \union DOMAIN rounds /\ 0 \notin DOMAIN rounds
  /\ \A no \in DOMAIN rounds : rounds[no] # Null =>
       BlocksOK(rounds[no]) /\ owed \ missed[no] \subseteq Selected(rounds[no])

\* A screen of the history holds what was recorded, but for what was turned there.
RoundPageOK(page) ==
  /\ DOMAIN page = {"no", "blocks", "off"} /\ BlocksOK(page.blocks)
  /\ page.no \in DOMAIN rounds /\ rounds[page.no] # Null
  /\ Selected(rounds[page.no]) \ page.off \subseteq Selected(page.blocks)

\* Whoever was told, has not been turned off since and is not missed has his block
\* selected in the message, which is what the next round and the end are sent to; before
\* the approval nobody was told, and the message is a draft that screens may save.
ReviewInv ==
  /\ DOMAIN alert = {"status", "count"} /\ DOMAIN message = {"status", "blocks"}
  /\ BlocksOK(message.blocks)
  /\ RoundsOK
  /\ reviewPage # Null =>
       /\ DOMAIN reviewPage = {"status", "blocks", "candidates"}
       /\ BlocksOK(reviewPage.blocks)
  /\ historyPage # Null => RoundPageOK(historyPage)
  /\ alert.status \in {"none", "PENDING_APPROVAL"} =>
       owed = {} /\ message.status # "approved"
  /\ alert.status = "ACTIVE" =>
       owed \ missed[0] \subseteq Selected(message.blocks) /\ message.status = "approved"

\* A block is turned on or off, or gets other people.
LEMMA BlocksStayOK ==
  ASSUME NEW blocks, BlocksOK(blocks), NEW d, NEW x
  PROVE  /\ BlocksOK([blocks EXCEPT ![d].selected = x])
         /\ BlocksOK([blocks EXCEPT ![d].to = x])
BY DEF BlocksOK

\* What a round is sent to is of selected blocks.
LEMMA ToldAreSelected ==
  ASSUME NEW blocks, NEW got \in SUBSET Sent(blocks)
  PROVE  DeptsOf(got) \subseteq Selected(blocks)
BY DEF DeptsOf, Sent

LEMMA RefreshedAre ==
  ASSUME NEW blocks, BlocksOK(blocks)
  PROVE  /\ Selected(Refreshed(blocks)) = Selected(blocks)
         /\ \A d \in DOMAIN blocks : Refreshed(blocks)[d].to = Numbered(recipients[d])
         /\ BlocksOK(Refreshed(blocks))
<1>1. /\ DOMAIN Refreshed(blocks) = DOMAIN blocks
      /\ \A d \in DOMAIN blocks :
           Refreshed(blocks)[d] = [blocks[d] EXCEPT !.to = Numbered(recipients[d])]
  BY DEF Refreshed
<1>2. \A d \in DOMAIN blocks :
        /\ Refreshed(blocks)[d].to = Numbered(recipients[d])
        /\ Refreshed(blocks)[d].selected = blocks[d].selected
        /\ DOMAIN Refreshed(blocks)[d] = {"selected", "to"}
  BY <1>1 DEF BlocksOK
<1> QED
  BY <1>1, <1>2 DEF Selected, BlocksOK

\* A record is not written twice.
LEMMA RecordsStay ==
  ASSUME NEW no, NEW blocks, Recorded(no, blocks)
  PROVE  /\ DOMAIN rounds' = DOMAIN rounds
         /\ \A o \in DOMAIN rounds : rounds[o] # Null => rounds'[o] = rounds[o]
         /\ \A o \in DOMAIN rounds : rounds[o] = Null /\ rounds'[o] # Null =>
              o = no /\ rounds'[o] = blocks
BY DEF Recorded

\* A round is sent, and recorded if its number is free.
LEMMA RoundKeeps ==
  ASSUME RoundsOK, NEW no, NEW blocks, NEW got, NEW lacking, NEW off,
         Recorded(no, blocks), Tells(got, no, lacking), BlocksOK(blocks),
         owed' = (owed \ off) \union DeptsOf(got),
         DeptsOf(got) \subseteq Selected(blocks),
         (owed \ off) \ lacking \subseteq Selected(blocks)
  PROVE  /\ RoundsOK' /\ missed'[0] = lacking
         /\ owed' \ missed'[0] \subseteq Selected(blocks)
         /\ historyPage # Null /\ RoundPageOK(historyPage) /\ historyPage' = historyPage
              => RoundPageOK(historyPage)'
<1>1. /\ DOMAIN rounds' = DOMAIN rounds /\ DOMAIN missed' = DOMAIN missed
      /\ missed'[0] = lacking
  BY RecordsStay DEF Tells, RoundsOK
<1>2. ASSUME NEW o \in DOMAIN rounds, rounds'[o] # Null
      PROVE  BlocksOK(rounds'[o]) /\ owed' \ missed'[o] \subseteq Selected(rounds'[o])
  <2>1. CASE rounds[o] = Null
    <3>1. o = no /\ rounds'[o] = blocks
      BY <1>2, <2>1, RecordsStay
    <3>2. missed'[o] = lacking
      BY <2>1, <3>1 DEF Tells, RoundsOK
    <3> QED BY <3>1, <3>2
  <2>2. CASE rounds[o] # Null
    <3>1. rounds'[o] = rounds[o]
      BY <2>2, RecordsStay
    <3>2. missed'[o] = missed[o] \union (DeptsOf(got) \ Selected(rounds[o]))
      BY <2>2 DEF Tells, RoundsOK
    <3>3. BlocksOK(rounds[o]) /\ owed \ missed[o] \subseteq Selected(rounds[o])
      BY <2>2 DEF RoundsOK
    <3> QED BY <3>1, <3>2, <3>3
  <2> QED BY <2>1, <2>2
<1>3. RoundsOK'
  BY <1>1, <1>2 DEF RoundsOK
<1>4. owed' \ missed'[0] \subseteq Selected(blocks)
  BY <1>1
<1>5. ASSUME historyPage # Null, RoundPageOK(historyPage), historyPage' = historyPage
      PROVE  RoundPageOK(historyPage)'
  BY <1>1, <1>5, RecordsStay DEF RoundPageOK
<1> QED
  BY <1>1, <1>3, <1>4, <1>5

\* A department is turned on or off on a screen of the history.
LEMMA TurnKeeps ==
  ASSUME NEW d, historyPage # Null, RoundPageOK(historyPage), TurnRound(d)
  PROVE  RoundPageOK(historyPage)'
<1> DEFINE next == [historyPage.blocks EXCEPT ![d].selected = ~@]
           off == IF historyPage.blocks[d].selected THEN historyPage.off \union {d}
                                                    ELSE historyPage.off \ {d}
<1>1. /\ d \in DOMAIN historyPage.blocks /\ rounds' = rounds
      /\ historyPage' = [historyPage EXCEPT !.blocks = next, !.off = off]
  BY DEF TurnRound, RoundPageOK
<1>2. BlocksOK(next)
  BY BlocksStayOK DEF RoundPageOK
<1>3. \A x : x \in Selected(next) <=>
        IF x = d THEN ~historyPage.blocks[d].selected ELSE x \in Selected(historyPage.blocks)
  <2>1. /\ DOMAIN next = DOMAIN historyPage.blocks
        /\ \A x \in DOMAIN next \ {d} : next[x] = historyPage.blocks[x]
        /\ next[d].selected = ~historyPage.blocks[d].selected
    BY <1>1 DEF RoundPageOK, BlocksOK
  <2> HIDE DEF next
  <2> QED BY <1>1, <2>1 DEF Selected
<1>4. Selected(rounds[historyPage.no]) \ off \subseteq Selected(next)
  <2>1. Selected(rounds[historyPage.no]) \ historyPage.off \subseteq Selected(historyPage.blocks)
    BY DEF RoundPageOK
  <2> HIDE DEF next
  <2> QED BY <1>3, <2>1
<1> HIDE DEF next, off
<1>5. /\ DOMAIN historyPage' = {"no", "blocks", "off"}
      /\ historyPage'.no = historyPage.no /\ historyPage'.blocks = next /\ historyPage'.off = off
  BY <1>1 DEF RoundPageOK
<1> QED
  BY <1>1, <1>2, <1>4, <1>5 DEF RoundPageOK

LEMMA ReviewStep ==
  ASSUME ReviewInv, ReviewNext
  PROVE  /\ ReviewInv'
         /\ alert.status # "RESOLVED" /\ alert'.status = "RESOLVED" => Resolve
<1>1. ASSUME NEW kind, NEW grade, Raise(kind, grade) PROVE ReviewInv' /\ alert'.status # "RESOLVED"
  <2> DEFINE draft == Draft(kind, grade)
             blocks == [d \in {b.dept : b \in draft} |->
                         [selected |-> TRUE,
                          to |-> UNION {Numbered(b.recipients) : b \in {b \in draft : b.dept = d}}]]
  <2>1. /\ alert.status = "none" /\ alert' = [status |-> "PENDING_APPROVAL", count |-> 0]
        /\ message' = [status |-> "draft", blocks |-> blocks]
        /\ UNCHANGED <<rounds, reviewPage, historyPage, owed, missed>>
    BY <1>1 DEF Raise, told
  <2>2. BlocksOK(blocks)
    BY DEF BlocksOK
  <2> HIDE DEF blocks
  <2> QED BY <2>1, <2>2 DEF ReviewInv, RoundsOK, RoundPageOK
<1>2. CASE ReviewLoad
  <2>1. /\ reviewPage' = [status |-> alert.status, blocks |-> message.blocks,
                          candidates |-> [d \in DOMAIN message.blocks |-> Numbered(recipients[d])]]
        /\ UNCHANGED <<alert, message, rounds, historyPage, owed, missed>>
    BY <1>2 DEF ReviewLoad, told
  <2> QED BY <2>1 DEF ReviewInv, RoundsOK, RoundPageOK
<1>3. ASSUME NEW d, TurnReview(d) PROVE ReviewInv'
  <2>1. /\ reviewPage # Null /\ UNCHANGED <<alert, message, rounds, historyPage, owed, missed>>
        /\ reviewPage' = [reviewPage EXCEPT !.blocks =
                            [reviewPage.blocks EXCEPT ![d].selected = ~reviewPage.blocks[d].selected]]
    BY <1>3 DEF TurnReview, CanEdit, told
  <2>2. BlocksOK([reviewPage.blocks EXCEPT ![d].selected = ~reviewPage.blocks[d].selected])
    BY <2>1, BlocksStayOK DEF ReviewInv
  <2> QED BY <2>1, <2>2 DEF ReviewInv, RoundsOK, RoundPageOK
<1>4. ASSUME NEW d, NEW p, SwapRecipient(d, p) PROVE ReviewInv'
  <2>1. PICK next :
          /\ reviewPage # Null /\ UNCHANGED <<alert, message, rounds, historyPage, owed, missed>>
          /\ reviewPage' = [reviewPage EXCEPT !.blocks = [reviewPage.blocks EXCEPT ![d].to = next]]
    BY <1>4 DEF SwapRecipient, CanEdit, told
  <2>2. BlocksOK([reviewPage.blocks EXCEPT ![d].to = next])
    BY <2>1, BlocksStayOK DEF ReviewInv
  <2> QED BY <2>1, <2>2 DEF ReviewInv, RoundsOK, RoundPageOK
<1>5. CASE SaveDraft
  <2>1. /\ reviewPage # Null /\ message.status = "draft"
        /\ message' = [message EXCEPT !.blocks = reviewPage.blocks]
        /\ UNCHANGED <<alert, rounds, reviewPage, historyPage, owed, missed>>
    BY <1>5 DEF SaveDraft, CanEdit, told
  <2> QED BY <2>1 DEF ReviewInv, RoundsOK, RoundPageOK
<1>6. CASE Approve
  <2>1. PICK got \in SUBSET Sent(reviewPage.blocks) :
          /\ alert' = IF got = {} THEN [status |-> "PENDING_APPROVAL", count |-> 0]
                      ELSE [status |-> "ACTIVE", count |-> 1]
          /\ message' = [status |-> IF got = {} THEN "draft" ELSE "approved",
                         blocks |-> reviewPage.blocks]
          /\ owed' = owed \union DeptsOf(got) /\ Tells(got, 1, {})
          /\ reviewPage' \in {reviewPage, Null, [reviewPage EXCEPT !.status = "ACTIVE"]}
    BY <1>6 DEF Approve
  <2>2. /\ reviewPage # Null /\ alert.status = "PENDING_APPROVAL"
        /\ Recorded(1, reviewPage.blocks) /\ UNCHANGED historyPage
    BY <1>6 DEF Approve, CanEdit
  <2>3. owed = {} /\ BlocksOK(reviewPage.blocks)
    BY <2>2 DEF ReviewInv
  <2>4. DeptsOf(got) \subseteq Selected(reviewPage.blocks) /\ (got = {} => DeptsOf(got) = {})
    BY ToldAreSelected DEF DeptsOf
  <2>5. /\ RoundsOK' /\ owed' \ missed'[0] \subseteq Selected(reviewPage.blocks)
        /\ historyPage' # Null => RoundPageOK(historyPage)'
    <3>1. owed' = (owed \ {}) \union DeptsOf(got) /\ RoundsOK
      BY <2>1 DEF ReviewInv
    <3>2. (owed \ {}) \ {} \subseteq Selected(reviewPage.blocks)
      BY <2>3
    <3> QED BY <2>1, <2>2, <2>3, <2>4, <3>1, <3>2, RoundKeeps DEF ReviewInv
  <2>6. reviewPage' # Null =>
          /\ DOMAIN reviewPage' = {"status", "blocks", "candidates"}
          /\ BlocksOK(reviewPage'.blocks)
    BY <2>1, <2>2 DEF ReviewInv
  <2> QED BY <2>1, <2>2, <2>3, <2>4, <2>5, <2>6 DEF ReviewInv
<1>7. CASE DismissReviewed
  BY <1>7 DEF DismissReviewed, told, ReviewInv, RoundsOK, RoundPageOK
<1>8. ASSUME NEW no \in DOMAIN rounds, OpenRound(no) PROVE ReviewInv'
  <2>1. /\ historyPage' = [no |-> no, blocks |-> rounds[no], off |-> {}] /\ rounds[no] # Null
        /\ UNCHANGED <<alert, message, rounds, reviewPage, owed, missed>>
    BY <1>8 DEF OpenRound, told
  <2>2. RoundPageOK(historyPage)'
    BY <2>1 DEF RoundPageOK, ReviewInv, RoundsOK
  <2> QED BY <2>1, <2>2 DEF ReviewInv, RoundsOK
<1>9. ASSUME NEW d, TurnRound(d) PROVE ReviewInv'
  <2>1. /\ historyPage # Null /\ UNCHANGED <<alert, message, rounds, reviewPage, owed, missed>>
    BY <1>9 DEF TurnRound, told
  <2>2. RoundPageOK(historyPage)'
    BY <1>9, <2>1, TurnKeeps DEF ReviewInv
  <2> QED BY <2>1, <2>2 DEF ReviewInv, RoundsOK
<1>10. CASE Resend
  <2> DEFINE blocks == historyPage.blocks
             lacking == missed[historyPage.no] \ Selected(blocks)
  <2>1. PICK got \in SUBSET Sent(blocks) :
          /\ message' = [message EXCEPT !.blocks = blocks]
          /\ owed' = (owed \ historyPage.off) \union DeptsOf(got)
          /\ Tells(got, alert.count + 1, lacking)
          /\ historyPage' \in {historyPage, Null}
    BY <1>10 DEF Resend, MessageBecomes
  <2>2. /\ historyPage # Null /\ message.status = "approved"
        /\ alert.status \in {"PENDING_APPROVAL", "ACTIVE"}
        /\ alert' = [alert EXCEPT !.count = @ + 1]
        /\ Recorded(alert.count + 1, blocks) /\ UNCHANGED reviewPage
    BY <1>10 DEF Resend
  <2>3. alert.status = "ACTIVE" /\ RoundPageOK(historyPage) /\ BlocksOK(blocks) /\ RoundsOK
    BY <2>2 DEF ReviewInv, RoundPageOK
  <2>4. DeptsOf(got) \subseteq Selected(blocks)
    BY ToldAreSelected
  <2>5. (owed \ historyPage.off) \ lacking \subseteq Selected(blocks)
    <3>1. owed \ missed[historyPage.no] \subseteq Selected(rounds[historyPage.no])
      BY <2>3 DEF RoundsOK, RoundPageOK
    <3>2. Selected(rounds[historyPage.no]) \ historyPage.off \subseteq Selected(blocks)
      BY <2>3 DEF RoundPageOK
    <3> QED BY <3>1, <3>2
  <2>6. /\ DOMAIN alert' = {"status", "count"} /\ alert'.status = "ACTIVE"
        /\ DOMAIN message' = {"status", "blocks"} /\ message'.status = "approved"
        /\ message'.blocks = blocks
    BY <2>1, <2>2, <2>3 DEF ReviewInv
  <2> HIDE DEF blocks, lacking
  <2>7. /\ RoundsOK' /\ owed' \ missed'[0] \subseteq Selected(blocks)
        /\ historyPage' # Null => RoundPageOK(historyPage)'
    BY <2>1, <2>2, <2>3, <2>4, <2>5, RoundKeeps
  <2> QED BY <2>2, <2>3, <2>6, <2>7 DEF ReviewInv
<1>11. CASE Repeat
  <2> DEFINE blocks == Refreshed(message.blocks)
             no == alert.count + 1
  <2>1. PICK got \in SUBSET Sent(blocks) :
          owed' = owed \union DeptsOf(got) /\ Tells(got, no, missed[0])
    BY <1>11 DEF Repeat
  <2>2. /\ alert.status = "ACTIVE"
        /\ Recorded(no, blocks)
        /\ alert' \in {alert, [alert EXCEPT !.count = no]}
        /\ UNCHANGED <<message, reviewPage, historyPage>>
    BY <1>11 DEF Repeat
  <2>3. Selected(blocks) = Selected(message.blocks) /\ BlocksOK(blocks)
    BY RefreshedAre DEF ReviewInv
  <2> HIDE DEF blocks, no
  <2>4. DeptsOf(got) \subseteq Selected(blocks)
    BY ToldAreSelected
  <2>5. /\ RoundsOK' /\ owed' \ missed'[0] \subseteq Selected(blocks)
        /\ historyPage' # Null => RoundPageOK(historyPage)'
    <3>1. owed' = (owed \ {}) \union DeptsOf(got) /\ RoundsOK
      BY <2>1 DEF ReviewInv
    <3>2. (owed \ {}) \ missed[0] \subseteq Selected(blocks)
      BY <2>2, <2>3 DEF ReviewInv
    <3> QED BY <2>1, <2>2, <2>3, <2>4, <3>1, <3>2, RoundKeeps DEF ReviewInv
  <2>6. DOMAIN alert' = {"status", "count"} /\ alert'.status = "ACTIVE"
    BY <2>2 DEF ReviewInv
  <2> QED BY <2>1, <2>2, <2>3, <2>4, <2>5, <2>6 DEF ReviewInv
<1>12. CASE Resolve
  BY <1>12 DEF Resolve, told, ReviewInv, RoundsOK, RoundPageOK
<1>13. alert.status # "RESOLVED" /\ alert'.status = "RESOLVED" => Resolve
  <2> DEFINE stays == alert'.status = "RESOLVED" => alert.status = "RESOLVED"
  <2>1. ASSUME NEW k, NEW g, Raise(k, g) PROVE stays
    BY <1>1, <2>1
  <2>2. Approve => stays
    BY DEF Approve
  <2>3. DismissReviewed => stays
    BY DEF DismissReviewed, ReviewInv
  <2>4. Resend \/ Repeat => stays
    BY DEF Resend, Repeat, ReviewInv
  <2>5. ReviewLoad \/ SaveDraft \/ (\E d \in Turned : TurnReview(d) \/ TurnRound(d))
          \/ (\E s \in Swapped : SwapRecipient(s[1], s[2]))
          \/ (\E no \in DOMAIN rounds : OpenRound(no)) => stays
    BY DEF ReviewLoad, SaveDraft, TurnReview, TurnRound, SwapRecipient, OpenRound
  <2> QED BY <2>1, <2>2, <2>3, <2>4, <2>5 DEF ReviewNext
<1> QED
  BY <1>1, <1>2, <1>3, <1>4, <1>5, <1>6, <1>7, <1>8, <1>9, <1>10, <1>11, <1>12, <1>13
     DEF ReviewNext

-----------------------------------------------------------------------------
(* The whole                                                               *)

ReadinessInv == SettingsInv /\ NumbersInv /\ ContentInv /\ CollectionInv /\ ReviewInv

\* Each part steps alone, or with nothing that another part rests on.
LEMMA ReadinessStep ==
  ASSUME ReadinessInv, [Next]_vars
  PROVE  ReadinessInv'
<1>0. SettingsInv /\ NumbersInv /\ ContentInv /\ CollectionInv /\ ReviewInv
  BY DEF ReadinessInv
<1>1. UNCHANGED settingsVars => SettingsInv' /\ NumbersInv'
  BY <1>0, SettingsKept, NumbersKept
<1>2. UNCHANGED contentVars => ContentInv'
  BY <1>0 DEF contentVars, ContentInv
<1>3. UNCHANGED collectionVars => CollectionInv'
  BY <1>0, CollectionKept DEF collectionVars
<1>4. UNCHANGED reviewVars => ReviewInv'
  BY <1>0 DEF reviewVars, ReviewInv, RoundsOK, RoundPageOK
<1>5. CASE UNCHANGED vars
  BY <1>1, <1>2, <1>3, <1>4, <1>5 DEF vars, ReadinessInv
<1>6. CriteriaNext \/ SiteNext => SettingsInv' /\ NumbersInv'
  BY <1>0, SettingsKept, NumbersKept DEF SettingsNext
<1>7. OthersNext(Lengths, {}) \/ OthersNext(Contents, People) \/ DeptsNext \/ PageNext => ContentInv'
  <2>1. Lengths \in SUBSET Guides /\ Contents \in SUBSET Guides
    BY ContentAssumption
  <2> QED BY <1>0, <2>1, ClientsKeep, DeptsKeep, PageKeeps
<1>8. ListMoves => ContentInv'
  BY <1>0 DEF ListMoves, PutRecipients, ContentInv
<1>9. WeatherTick \/ ForecastTick \/ HourPasses => CollectionInv'
  BY <1>0, CollectionKept
<1>10. ReviewNext => ReviewInv'
  BY <1>0, ReviewStep
<1>11. CASE Next
  BY <1>1, <1>2, <1>3, <1>4, <1>6, <1>7, <1>8, <1>9, <1>10, <1>11 DEF Next, ReadinessInv
<1> QED
  BY <1>5, <1>11

\* The inductive invariant of the whole.
THEOREM ReadinessInvariant == Spec => []ReadinessInv
<1>1. Init => ReadinessInv
  <2> SUFFICES ASSUME Init PROVE ReadinessInv
    OBVIOUS
  <2>1. SettingsInv
    BY DEF Init, SettingsInit, SettingsInv, Clients, StoredInOrder
  <2>2. ContentInv
    BY StartAssumption DEF Init, ContentInv, Stored
  <2>5. NumbersInv
    BY StartAssumption DEF Init, SettingsInit, NumbersInv
  <2>3. CollectionInv
    <3>1. now = 0 /\ rows = <<>>
      BY DEF Init
    <3>2. DOMAIN rows = {}
      BY <3>1
    <3> QED BY <3>1, <3>2 DEF CollectionInv, NewestForecastCounts
  <2>4. ReviewInv
    <3>1. /\ alert = [status |-> "none", count |-> 0]
          /\ message = [status |-> "none", blocks |-> <<>>]
          /\ rounds = [no \in 1 .. MaxRounds |-> Null]
          /\ reviewPage = Null /\ historyPage = Null /\ owed = {}
          /\ missed = [o \in {0} \union DOMAIN rounds |-> {}]
      BY DEF Init, NoAlert
    <3>2. BlocksOK(message.blocks)
      BY <3>1 DEF BlocksOK
    <3>3. RoundsOK
      BY <3>1 DEF RoundsOK
    <3> QED BY <3>1, <3>2, <3>3 DEF ReviewInv
  <2> QED BY <2>1, <2>2, <2>3, <2>4, <2>5 DEF ReadinessInv
<1>2. ReadinessInv /\ [Next]_vars => ReadinessInv'
  BY ReadinessStep
<1> QED
  BY <1>1, <1>2, PTL DEF Spec

\* PUT /criteria: no criterion of a warning is below that of its watch, whatever else
\* goes on.
THEOREM CriteriaStayInOrder == Spec => []WarningIsNotBelowWatch
<1>1. ReadinessInv => WarningIsNotBelowWatch
  BY DEF ReadinessInv, SettingsInv, StoredInOrder, WarningIsNotBelowWatch
<1> QED
  BY <1>1, ReadinessInvariant, PTL

\* runForecastTick(): the age of the newest row is that of all that is ahead of it, as
\* long as every answer comes whole and goes as far as the others.
THEOREM NewestCounts == Spec => []NewestForecastCounts
<1>1. ReadinessInv => NewestForecastCounts
  BY DEF ReadinessInv, CollectionInv
<1> QED
  BY <1>1, ReadinessInvariant, PTL

\* What a block of a draft is made of.
LEMMA OfADraft ==
  ASSUME ContentInv, NEW kind \in Kinds, NEW grade \in {"watch", "warning"},
         NEW b \in Draft(kind, grade)
  PROVE  \E d \in Depts :
           LET g == guideline[<<d, kind, grade>>] IN
           /\ g # Null /\ g \in Guides /\ HasGuidelineContent(g)
           /\ b.dept = d /\ b.recipients = recipients[d]
           /\ b.actions = g.actions /\ b.notice = g.notice
<1>1. PICK t \in {<<d, guideline[<<d, kind, grade>>]>> :
                    d \in {d \in Depts : guideline[<<d, kind, grade>>] # Null}} :
        /\ HasGuidelineContent(t[2])
        /\ b = [dept |-> t[1], actions |-> t[2].actions, notice |-> t[2].notice,
                recipients |-> recipients[t[1]]]
  BY DEF Draft, ComposeDraft
<1>2. PICK d \in Depts : guideline[<<d, kind, grade>>] # Null /\ t = <<d, guideline[<<d, kind, grade>>]>>
  OBVIOUS
<1>3. guideline[<<d, kind, grade>>] \in Guides
  <2>1. <<d, kind, grade>> \in Slots
    BY DEF Slots
  <2> QED BY <1>2, <2>1 DEF ContentInv, Stored
<1> QED
  BY <1>1, <1>2, <1>3

\* fitToLms(): whatever guidelines, title and observation are, what is sent of them fits.
THEOREM WhateverIsSentFits == Spec => []FitsOneLms
<1>1. ReadinessInv => FitsOneLms
  <2> SUFFICES ASSUME ReadinessInv, NEW c \in Criteria, NEW b \in Draft(c[1], c[2]),
                      NEW t \in Titles, NEW o \in ObsLines
               PROVE  LET text == RenderMessage(b, t, o)
                          sent == FitToLms(text)
                          kept == Len(sent) - Len(Notice)
                      IN  /\ ByteLength(sent) <= MaxBytes
                          /\ sent # text =>
                               /\ ByteLength(text) > MaxBytes /\ kept < Len(text)
                               /\ sent = SubSeq(text, 1, kept) \o Notice
                               /\ ByteLength(SubSeq(text, 1, kept + 1) \o Notice) > MaxBytes
    BY DEF FitsOneLms
  <2>1. c[1] \in Kinds /\ c[2] \in {"watch", "warning"} /\ ContentInv
    BY DEF Criteria, ReadinessInv
  <2>2. PICK d \in Depts : /\ guideline[<<d, c[1], c[2]>>] \in Guides
                           /\ b.actions = guideline[<<d, c[1], c[2]>>].actions
                           /\ b.notice = guideline[<<d, c[1], c[2]>>].notice
    BY <2>1, OfADraft
  <2>3. b.actions \in Seq(Text) /\ b.notice \in Text
    BY <2>2 DEF Guides
  <2>4. RenderMessage(b, t, o) \in Text
    BY <2>3, RenderedType, StartAssumption
  <2> QED BY <2>4, WhatIsSentFits
<1> QED
  BY <1>1, ReadinessInvariant, PTL

\* Who is on the list of a selected block, with a number that can be sent to, is sent
\* what the tick sends of it.
LEMMA RefreshedReaches ==
  ASSUME NEW blocks, BlocksOK(blocks), NEW d \in Selected(blocks),
         NEW p \in recipients[d], phone[p] = "good"
  PROVE  <<d, p>> \in Sent(Refreshed(blocks))
<1>1. d \in DOMAIN blocks /\ d \in Selected(Refreshed(blocks))
  BY RefreshedAre DEF Selected
<1>2. <<p, "good">> \in Refreshed(blocks)[d].to
  BY <1>1, RefreshedAre DEF Numbered
<1>3. <<d, p>> \in {<<d, t[1]>> : t \in {t \in Refreshed(blocks)[d].to : t[2] = "good"}}
  BY <1>2
<1> QED
  BY <1>1, <1>3 DEF Sent

\* The release of the tick reaches whoever is on the list of a department that was sent
\* the alert (jobs/weatherTick.ts 389), but for those that somebody turned off and those
\* that were told only after a round that was sent again (pages/History.tsx 245-249).
THEOREM TheEndReaches == Spec => TheEndReachesTheTold
<1>1. ReadinessInv /\ [Next]_vars =>
        [(alert.status # "RESOLVED" /\ alert'.status = "RESOLVED")
           => {t \in (owed \ missed[0]) \X People : t[2] \in Reachable(recipients[t[1]])}
                \subseteq ended']_vars
  <2> SUFFICES ASSUME ReadinessInv, [Next]_vars,
                      alert.status # "RESOLVED", alert'.status = "RESOLVED",
                      NEW t \in (owed \ missed[0]) \X People, t[2] \in Reachable(recipients[t[1]])
               PROVE  t \in ended'
    OBVIOUS
  <2>0. ReviewInv
    BY DEF ReadinessInv
  <2>1. ReviewNext
    BY DEF Next, vars, reviewVars
  <2>2. Resolve
    BY <2>0, <2>1, ReviewStep
  <2>3. alert.status = "ACTIVE"
    BY <2>0, <2>2 DEF Resolve, ReviewInv
  <2>4. /\ t[1] \in Selected(message.blocks) /\ BlocksOK(message.blocks)
        /\ ended' = Sent(Refreshed(message.blocks))
    BY <2>0, <2>2, <2>3 DEF ReviewInv, Resolve
  <2>5. t[2] \in recipients[t[1]] /\ phone[t[2]] = "good" /\ t = <<t[1], t[2]>>
    BY DEF Reachable, Sendable
  <2> QED BY <2>4, <2>5, RefreshedReaches
<1> QED
  BY <1>1, ReadinessInvariant, PTL DEF Spec, TheEndReachesTheTold

-----------------------------------------------------------------------------
(* The watchdog and the checklist                                          *)

\* A guideline that says something is of a department, which are finite in number.
LEMMA GuidedAreFew ==
  /\ WithContent \subseteq Depts /\ IsFiniteSet(WithContent)
  /\ \A d \in WithContent :
       \E s \in Slots : s[1] = d /\ guideline[s] # Null /\ HasGuidelineContent(guideline[s])
<1>1. WithContent \subseteq Depts
  BY DEF WithContent, Slots
<1> QED
  BY <1>1, ContentAssumption, FS_Subset DEF WithContent

\* checkHealth() says that nobody can be reached by a difference of two counts: no
\* difference, and each list that has somebody has somebody who can be.
LEMMA CountsTell ==
  LET noRecipient == {d \in WithContent : recipients[d] = {}}
      noReachable == {d \in WithContent : Reachable(recipients[d]) = {}}
  IN  Cardinality(noReachable) > Cardinality(noRecipient) <=> noRecipient # noReachable
<1> DEFINE noRecipient == {d \in WithContent : recipients[d] = {}}
           noReachable == {d \in WithContent : Reachable(recipients[d]) = {}}
<1>1. noRecipient \subseteq noReachable
  BY DEF Reachable
<1>2. IsFiniteSet(noReachable) /\ IsFiniteSet(noRecipient)
  <2>1. noReachable \subseteq WithContent /\ noRecipient \subseteq WithContent
    OBVIOUS
  <2> HIDE DEF noReachable, noRecipient
  <2> QED BY <2>1, GuidedAreFew, FS_Subset
<1> HIDE DEF noReachable, noRecipient
<1>3. /\ Cardinality(noRecipient) \in Nat /\ Cardinality(noReachable) \in Nat
      /\ Cardinality(noRecipient) <= Cardinality(noReachable)
      /\ Cardinality(noRecipient) = Cardinality(noReachable) => noRecipient = noReachable
  BY <1>1, <1>2, FS_Subset, FS_CardinalityType
<1>4. Cardinality(noReachable) > Cardinality(noRecipient) <=> noRecipient # noReachable
  BY <1>3
<1> QED
  BY <1>4 DEF noReachable, noRecipient

\* What it means that checkHealth() has nothing to say of the reach, reason by reason.
LEMMA NoReason ==
  /\ "no approver" \in Reasons <=> approvers = {}
  /\ "no approver is reachable" \in Reasons <=> approvers # {} /\ Reachable(approvers) = {}
  /\ "log only" \in Reasons <=> logOnly
  /\ "no guideline" \in Reasons <=> WithContent = {}
  /\ "no recipient" \in Reasons <=> \E d \in WithContent : recipients[d] = {}
  /\ "no recipient is reachable" \in Reasons <=>
       \E d \in WithContent : recipients[d] # {} /\ Reachable(recipients[d]) = {}
  /\ "grid" \in Reasons <=> ~ValidGrid(site)
  /\ "all off" \in Reasons <=> enabled = {}
  /\ "criteria" \in Reasons <=> \E c \in Criteria : ~ThresholdUsable(c[1], criteria[c])
  /\ "too long" \in Reasons <=> \E s \in Slots : guideline[s] # Null /\ TooLong(guideline[s])
<1> DEFINE noRecipient == {d \in WithContent : recipients[d] = {}}
           noReachable == {d \in WithContent : Reachable(recipients[d]) = {}}
           more == Cardinality(noReachable) > Cardinality(noRecipient)
<1>1. more <=> noRecipient # noReachable
  BY CountsTell
<1>2. noRecipient # noReachable
        <=> \E d \in WithContent : recipients[d] # {} /\ Reachable(recipients[d]) = {}
  BY DEF Reachable
<1>3. /\ "no recipient is reachable" \in ReachReasons <=> WithContent # {} /\ more
      /\ "no recipient" \in ReachReasons <=> noRecipient # {}
      /\ "no approver" \in ReachReasons <=> approvers = {}
      /\ "no approver is reachable" \in ReachReasons <=> approvers # {} /\ Reachable(approvers) = {}
      /\ "log only" \in ReachReasons <=> logOnly
      /\ "no guideline" \in ReachReasons <=> WithContent = {}
      /\ ReachReasons \subseteq {"no approver", "no approver is reachable", "log only",
                                 "no guideline", "no recipient", "no recipient is reachable"}
  BY Zenon DEF ReachReasons
<1> HIDE DEF more
<1>4. /\ "grid" \in CollectReasons <=> ~ValidGrid(site)
      /\ CollectReasons \subseteq {"stopped", "failed", "missing", "nothing comes", "a field is dead", "grid"}
  BY DEF CollectReasons
<1>5. /\ "all off" \in JudgeReasons <=> enabled = {}
      /\ "criteria" \in JudgeReasons <=> \E c \in Criteria : ~ThresholdUsable(c[1], criteria[c])
      /\ "too long" \in JudgeReasons <=> \E s \in Slots : guideline[s] # Null /\ TooLong(guideline[s])
      /\ JudgeReasons \subseteq {"all off", "criteria", "too long"}
  BY DEF JudgeReasons
<1> QED
  BY <1>1, <1>2, <1>3, <1>4, <1>5 DEF Reasons

\* checkHealth(): when it has nothing to say, somebody is asked to approve, some kind is
\* judged, and every block of every draft is sent to somebody, whole if what is around
\* the guideline is within the reserve.
THEOREM GreenIsDelivered == Spec => []GreenMeansDelivered
<1>1. ReadinessInv => GreenMeansDelivered
  <2> SUFFICES ASSUME ReadinessInv, Reasons = {}
               PROVE  /\ ~logOnly /\ Reachable(approvers) # {}
                      /\ \E k \in enabled : \A c \in Criteria : c[1] = k => ThresholdUsable(k, criteria[c])
                      /\ \E c \in Criteria : Draft(c[1], c[2]) # {}
                      /\ \A c \in Criteria : \A b \in Draft(c[1], c[2]) :
                           /\ Told(b) # {}
                           /\ \A t \in Titles, o \in ObsLines :
                                Ordinary(b, t, o) =>
                                  FitToLms(RenderMessage(b, t, o)) = RenderMessage(b, t, o)
    BY DEF GreenMeansDelivered
  <2>1. ContentInv
    BY DEF ReadinessInv
  <2>2. /\ ~logOnly /\ approvers # {} /\ Reachable(approvers) # {} /\ enabled # {} /\ WithContent # {}
        /\ \A d \in WithContent : Reachable(recipients[d]) # {}
        /\ \A c \in Criteria : ThresholdUsable(c[1], criteria[c])
        /\ \A s \in Slots : guideline[s] # Null => ~TooLong(guideline[s])
    BY NoReason DEF Reachable
  <2>3. \E k \in enabled : \A c \in Criteria : c[1] = k => ThresholdUsable(k, criteria[c])
    BY <2>2
  <2>4. \E c \in Criteria : Draft(c[1], c[2]) # {}
    <3>1. PICK d \in WithContent : TRUE
      BY <2>2
    <3>2. PICK s \in Slots : guideline[s] # Null /\ HasGuidelineContent(guideline[s])
      BY <3>1, GuidedAreFew
    <3>3. /\ s[1] \in Depts /\ <<s[2], s[3]>> \in Criteria /\ s = <<s[1], s[2], s[3]>>
      BY DEF Slots, Criteria
    <3> DEFINE all == {<<e, guideline[<<e, s[2], s[3]>>]>> :
                         e \in {e \in Depts : guideline[<<e, s[2], s[3]>>] # Null}}
    <3>4. <<s[1], guideline[s]>> \in {g \in all : HasGuidelineContent(g[2])}
      BY <3>2, <3>3
    <3> HIDE DEF all
    <3>5. ComposeDraft(all, recipients) # {}
      BY <3>4 DEF ComposeDraft
    <3>6. Draft(s[2], s[3]) # {}
      BY <3>5 DEF Draft, all
    <3>7. <<s[2], s[3]>>[1] = s[2] /\ <<s[2], s[3]>>[2] = s[3]
      OBVIOUS
    <3> QED BY <3>3, <3>6, <3>7
  <2>5. ASSUME NEW c \in Criteria, NEW b \in Draft(c[1], c[2])
        PROVE  /\ Told(b) # {}
               /\ \A t \in Titles, o \in ObsLines :
                    Ordinary(b, t, o) => FitToLms(RenderMessage(b, t, o)) = RenderMessage(b, t, o)
    <3>1. c[1] \in Kinds /\ c[2] \in {"watch", "warning"}
      BY DEF Criteria
    <3>2. PICK d \in Depts :
            LET g == guideline[<<d, c[1], c[2]>>] IN
            /\ g # Null /\ g \in Guides /\ HasGuidelineContent(g)
            /\ b.dept = d /\ b.recipients = recipients[d]
            /\ b.actions = g.actions /\ b.notice = g.notice
      BY <2>1, <3>1, OfADraft
    <3> DEFINE s == <<d, c[1], c[2]>>
               g == guideline[s]
    <3>3. s \in Slots /\ s[1] = d
      BY <3>1 DEF Slots
    <3>4. d \in WithContent
      BY <3>2, <3>3 DEF WithContent
    <3>5. Told(b) # {}
      BY <2>2, <3>2, <3>4 DEF Told
    <3>6. b.actions \in Seq(Text) /\ b.notice \in Text
      BY <3>2 DEF Guides
    <3>7. ByteLength(Lines(b.actions)) + ByteLength(b.notice) <= MaxBytes - Reserve
      <4>1. ~TooLong(g)
        BY <2>2, <3>2, <3>3
      <4>2. Lines(b.actions) \in Text
        BY <3>6, LinesType
      <4>3. ByteLength(Lines(b.actions)) \in Nat /\ ByteLength(b.notice) \in Nat
        BY <3>6, <4>2, ByteLengthType
      <4> QED BY <3>2, <4>1, <4>3, LmsAssumption DEF TooLong, ContentBytes
    <3>8. ASSUME NEW t \in Titles, NEW o \in ObsLines, Ordinary(b, t, o)
          PROVE  FitToLms(RenderMessage(b, t, o)) = RenderMessage(b, t, o)
      <4> DEFINE text == RenderMessage(b, t, o)
      <4>1. text \in Text
        BY <3>6, RenderedType, StartAssumption
      <4>2. ByteLength(text) - (ByteLength(Lines(b.actions)) + ByteLength(b.notice)) <= Reserve
        BY <3>8 DEF Ordinary, ContentBytes
      <4>3. ByteLength(text) \in Nat /\ Lines(b.actions) \in Text
        BY <3>6, <4>1, ByteLengthType, LinesType
      <4> HIDE DEF text
      <4>4. ByteLength(Lines(b.actions)) \in Nat /\ ByteLength(b.notice) \in Nat
        BY <3>6, <4>3, ByteLengthType
      <4>5. ByteLength(text) <= MaxBytes
        BY <3>7, <4>2, <4>3, <4>4, LmsAssumption
      <4> QED BY <4>5 DEF FitToLms, text
    <3> QED BY <3>5, <3>8
  <2> QED BY <2>2, <2>3, <2>4, <2>5
<1> QED
  BY <1>1, ReadinessInvariant, PTL

\* computeSetupChecklist() and checkHealth(), which count by queries of their own, do not
\* contradict each other, but for a guideline of a department that is no leaf.
THEOREM IndicatorsDoAgree == Spec => []IndicatorsAgree
<1>1. ReadinessInv => IndicatorsAgree
  <2> DEFINE leaves == Leaves(ListOf(dept))
             guided == WithContent \intersect leaves
             list == Checklist
  <2> SUFFICES ASSUME ReadinessInv PROVE IndicatorsAgree
    OBVIOUS
  <2>1. IsFiniteSet(leaves) /\ Cardinality(leaves) \in Nat
    <3>1. leaves \subseteq dept /\ dept \subseteq Depts
      BY DEF Leaves, ListOf, ReadinessInv, ContentInv
    <3> HIDE DEF leaves
    <3> QED BY <3>1, ContentAssumption, FS_Subset, FS_CardinalityType
  <2>2. Cardinality(guided) >= Cardinality(leaves) => guided = leaves
    <3>1. guided \subseteq leaves
      OBVIOUS
    <3> HIDE DEF guided, leaves
    <3>2. IsFiniteSet(guided) /\ Cardinality(guided) \in Nat /\ Cardinality(guided) <= Cardinality(leaves)
      BY <2>1, <3>1, FS_Subset, FS_CardinalityType
    <3> QED BY <2>1, <3>1, <3>2, FS_Subset
  <2>3. /\ DOMAIN list = {"site", "criteria", "departments", "guidelines", "recipients",
                          "approvers", "phones", "realChannel"}
        /\ list.site <=> ValidGrid(site)
        /\ list.departments <=> leaves # {}
        /\ list.guidelines <=> leaves # {} /\ Cardinality(guided) >= Cardinality(leaves)
        /\ list.recipients <=>
             guided # {} /\ \A d \in guided : recipients[d] # {} /\ Reachable(recipients[d]) # {}
        /\ list.approvers <=> approvers # {}
        /\ list.phones <=> Reachable(approvers) # {}
        /\ list.realChannel <=> ~logOnly
    BY DEF Checklist, Reachable
  <2>4. Done = {item \in DOMAIN list : list[item]}
    BY DEF Done
  <2> HIDE DEF list
  <2>5. ASSUME Done = DOMAIN Checklist
        PROVE  /\ Reasons \intersect {"grid", "no approver", "no approver is reachable",
                                      "log only", "no guideline"} = {}
               /\ Reasons \intersect {"no recipient", "no recipient is reachable"} # {}
                    => ~(WithContent \subseteq leaves)
    <3>1. \A item \in DOMAIN list : list[item]
      BY <2>4, <2>5 DEF list
    <3>2. /\ ValidGrid(site) /\ approvers # {} /\ Reachable(approvers) # {} /\ ~logOnly
          /\ guided # {} /\ \A d \in guided : recipients[d] # {} /\ Reachable(recipients[d]) # {}
      BY <2>3, <3>1
    <3>3. WithContent # {}
      BY <3>2
    <3>4. WithContent \subseteq leaves => guided = WithContent
      OBVIOUS
    <3> HIDE DEF guided, leaves
    <3> QED BY <3>2, <3>3, <3>4, NoReason
  <2>6. ASSUME Reasons = {}
        PROVE  /\ {"site", "approvers", "phones", "realChannel"} \subseteq Done
               /\ "recipients" \in Done \/ WithContent \intersect leaves = {}
    <3>1. /\ ValidGrid(site) /\ approvers # {} /\ Reachable(approvers) # {} /\ ~logOnly
          /\ \A d \in WithContent : recipients[d] # {} /\ Reachable(recipients[d]) # {}
      BY <2>6, NoReason
    <3>2. list.site /\ list.approvers /\ list.phones /\ list.realChannel
      BY <2>3, <3>1
    <3>3. list.recipients \/ guided = {}
      BY <2>3, <3>1
    <3> HIDE DEF leaves
    <3> QED BY <2>3, <2>4, <3>2, <3>3
  <2> QED BY <2>5, <2>6 DEF IndicatorsAgree
<1> QED
  BY <1>1, ReadinessInvariant, PTL

-----------------------------------------------------------------------------
(* The banner, the strip and the summary                                   *)
(*                                                                         *)
(* The series of the rules and the totals of the summary are computed      *)
(* apart, hour by hour.  Both are compared with the totals that a day has  *)
(* by each hour, which only grow.                                          *)

\* What a series is made from.
Known(points, kind) == {h \in DOMAIN points : points[h][Key(kind)] # Null}
Earlier(points, kind, h) == {g \in Known(points, kind) : g < h /\ DayOf(g) = DayOf(h)}

Follows(f, points, kind) ==
  f = [h \in Known(points, kind) |->
        IF kind = "snow" /\ Earlier(points, kind, h) # {}
        THEN f[Max(Earlier(points, kind, h))] + points[h][Key(kind)]
        ELSE points[h][Key(kind)]]

LEMMA SeriesFollows ==
  ASSUME NEW points, NEW kind, NEW f, Follows(f, points, kind)
  PROVE  Follows(Series(points, kind), points, kind)
<1> DEFINE r == CHOOSE r : Follows(r, points, kind)
<1>1. Follows(r, points, kind)
  OBVIOUS
<1>2. Series(points, kind) = r
  BY DEF Series, Follows, Known, Earlier
<1> QED
  BY <1>1, <1>2

\* The hours of a day whose snow is known, and the snow of the day by each hour.
SnowOf(points, d) == {h \in DOMAIN points : DayOf(h) = d /\ points[h]["snow_cm"] # Null}

Snowy(points, N) ==
  \A h \in DOMAIN points : h \in 0 .. (N - 1) /\ points[h]["snow_cm"] \in Nat \union {Null}

Adds(s, points, d, N) ==
  /\ s \in [0 .. N -> Nat] /\ s[0] = 0
  /\ \A n \in 1 .. N :
       s[n] = s[n - 1] + (IF n - 1 \in SnowOf(points, d) THEN points[n - 1]["snow_cm"] ELSE 0)

LEMMA TotalsThere ==
  ASSUME NEW N \in Nat, NEW points, Snowy(points, N), NEW d
  PROVE  \E s : Adds(s, points, d, N)
<1> DEFINE more(n) == IF n - 1 \in SnowOf(points, d) THEN points[n - 1]["snow_cm"] ELSE 0
           step == [p \in (1 .. N) \X Nat |-> p[2] + more(p[1])]
<1>1. \A n \in 1 .. N : more(n) \in Nat
  BY DEF Snowy, SnowOf
<1> HIDE DEF more
<1>2. /\ step \in [(1 .. N) \X Nat -> Nat]
      /\ \A n \in 1 .. N, x \in Nat : step[<<n, x>>] = x + more(n)
  BY <1>1
<1> HIDE DEF step
<1>3. PICK s : Computed(s, N, Nat, 0, step)
  <2>1. 0 \in Nat
    OBVIOUS
  <2> QED BY <1>2, <2>1, Rounds
<1>4. /\ s \in [0 .. N -> Nat] /\ s[0] = 0
      /\ \A n \in 1 .. N : s[n] = s[n - 1] + more(n)
  <2>1. /\ s \in [0 .. N -> Nat] /\ s[0] = 0
        /\ \A n \in 1 .. N : s[n] = step[<<n, s[n - 1]>>]
    BY <1>3 DEF Computed
  <2>2. \A n \in 1 .. N : n - 1 \in 0 .. N
    OBVIOUS
  <2>3. \A n \in 1 .. N : s[n - 1] \in Nat
    BY <2>1, <2>2
  <2> QED BY <1>2, <2>1, <2>3
<1> QED
  BY <1>4 DEF Adds, more

\* They grow, and only where an hour is known.
LEMMA TotalsGrow ==
  ASSUME NEW N \in Nat, NEW points, Snowy(points, N), NEW d, NEW s, Adds(s, points, d, N),
         NEW m \in 0 .. N
  PROVE  \A n \in m .. N :
           /\ s[m] <= s[n]
           /\ (\A g \in SnowOf(points, d) : ~(m <= g /\ g < n)) => s[m] = s[n]
<1> DEFINE still(n) == \A g \in SnowOf(points, d) : ~(m <= g /\ g < n)
           P == {n \in 0 .. N : m <= n => s[m] <= s[n] /\ (still(n) => s[m] = s[n])}
           more(n) == IF n - 1 \in SnowOf(points, d) THEN points[n - 1]["snow_cm"] ELSE 0
<1>1. \A n \in 0 .. N : s[n] \in Nat
  BY DEF Adds
<1>2. 0 \in P
  <2>1. m <= 0 => m = 0
    OBVIOUS
  <2>2. 0 \in 0 .. N /\ s[0] <= s[0]
    BY <1>1
  <2> HIDE DEF still
  <2> QED BY <2>1, <2>2
<1>3. ASSUME NEW n \in 1 .. N, n - 1 \in P PROVE n \in P
  <2>1. n \in 0 .. N /\ n - 1 \in 0 .. N
    OBVIOUS
  <2>2. s[n] = s[n - 1] + more(n) /\ more(n) \in Nat
    BY <1>3 DEF Adds, Snowy, SnowOf
  <2>3. CASE m <= n - 1
    <3>1. s[m] <= s[n - 1] /\ (still(n - 1) => s[m] = s[n - 1])
      BY <1>3, <2>3
    <3>2. still(n) => still(n - 1) /\ more(n) = 0
      <4>1. \A g \in SnowOf(points, d) : g \in Nat
        BY DEF SnowOf, Snowy
      <4>2. \A g \in SnowOf(points, d) : g < n - 1 => g < n
        BY <4>1
      <4>3. m <= n - 1 /\ n - 1 < n
        BY <2>3
      <4> QED BY <4>2, <4>3
    <3> HIDE DEF still, more
    <3> QED BY <1>1, <2>1, <2>2, <3>1, <3>2
  <2>4. CASE ~(m <= n - 1)
    <3>1. m <= n => m = n
      BY <2>4
    <3> HIDE DEF still
    <3> QED BY <1>1, <2>1, <3>1
  <2> QED BY <2>3, <2>4
<1>4. \A n \in 0 .. N : n \in P
  <2> HIDE DEF P
  <2> QED BY <1>2, <1>3, Climb
<1> QED
  BY <1>4

\* Of snow, a series is what the day has so far.
LEMMA SnowAddsUp ==
  ASSUME NEW N \in Nat, NEW points, Snowy(points, N)
  PROVE  /\ DOMAIN Series(points, "snow") = Known(points, "snow")
         /\ \A h \in Known(points, "snow") : \A s :
              Adds(s, points, DayOf(h), N) => Series(points, "snow")[h] = s[h + 1]
<1> DEFINE K == Known(points, "snow")
           total(d) == CHOOSE s : Adds(s, points, d, N)
           f == [h \in K |-> total(DayOf(h))[h + 1]]
           r == Series(points, "snow")
           E(h) == Earlier(points, "snow", h)
<1>0. Key("snow") = "snow_cm"
  BY DEF Key, Fields
<1>1. \A h \in K : /\ h \in DOMAIN points /\ h \in 0 .. (N - 1) /\ h \in 0 .. N /\ h + 1 \in 1 .. N
                   /\ (h + 1) - 1 = h
                   /\ points[h]["snow_cm"] \in Nat
  BY <1>0 DEF Known, Snowy
<1>2. \A d : Adds(total(d), points, d, N)
  <2>1. \A d : \E s : Adds(s, points, d, N)
    BY TotalsThere
  <2> QED BY <2>1
<1> HIDE DEF total
<1>3. \A h \in K : h \in SnowOf(points, DayOf(h))
  BY <1>0 DEF Known, SnowOf
<1>4. \A h, g : g \in SnowOf(points, DayOf(h)) <=> g \in K /\ DayOf(g) = DayOf(h)
  BY <1>0 DEF Known, SnowOf
<1>5. \A h : E(h) = {g \in K : g < h /\ DayOf(g) = DayOf(h)}
  BY DEF Earlier
<1> HIDE DEF K, E
<1>6. ASSUME NEW h \in K, E(h) # {}
      PROVE  /\ Max(E(h)) \in E(h) /\ Max(E(h)) \in K /\ Max(E(h)) < h
             /\ DayOf(Max(E(h))) = DayOf(h)
             /\ \A g \in E(h) : Max(E(h)) >= g
  <2>1. E(h) \in SUBSET (0 .. N)
    BY <1>1, <1>5
  <2>2. Max(E(h)) \in E(h) /\ \A g \in E(h) : Max(E(h)) >= g
    BY <1>6, <2>1, EndsOf
  <2> QED BY <1>5, <2>2
<1>7. ASSUME NEW h \in K, NEW s, Adds(s, points, DayOf(h), N)
      PROVE  s[h + 1] = IF E(h) # {} THEN s[Max(E(h)) + 1] + points[h]["snow_cm"]
                        ELSE points[h]["snow_cm"]
  <2>1. s[h + 1] = s[h] + points[h]["snow_cm"] /\ s[0] = 0 /\ s[h] \in Nat
    <3>1. h + 1 \in 1 .. N /\ (h + 1) - 1 = h /\ h \in SnowOf(points, DayOf(h)) /\ h \in 0 .. N
      BY <1>1, <1>3
    <3> QED BY <1>7, <3>1 DEF Adds
  <2>2. ASSUME NEW m \in 0 .. N, m <= h, \A g \in SnowOf(points, DayOf(h)) : ~(m <= g /\ g < h)
        PROVE  s[m] = s[h]
    <3>1. h \in m .. N
      BY <1>1, <2>2
    <3> QED BY <1>7, <2>2, <3>1, TotalsGrow
  <2>3. CASE E(h) = {}
    <3>1. \A g \in SnowOf(points, DayOf(h)) : ~(0 <= g /\ g < h)
      BY <1>4, <1>5, <2>3
    <3>2. 0 \in 0 .. N /\ 0 <= h
      BY <1>1
    <3>3. s[h] = 0
      BY <2>1, <2>2, <3>1, <3>2
    <3> QED BY <1>1, <2>1, <2>3, <3>3
  <2>4. CASE E(h) # {}
    <3> DEFINE g == Max(E(h))
    <3>1. g \in K /\ g < h /\ \A i \in E(h) : g >= i
      BY <1>6, <2>4
    <3> HIDE DEF g
    <3>2. g + 1 \in 0 .. N /\ g + 1 <= h
      BY <1>1, <3>1
    <3>3. \A i \in SnowOf(points, DayOf(h)) : ~(g + 1 <= i /\ i < h)
      BY <1>1, <1>4, <1>5, <3>1
    <3>4. s[g + 1] = s[h]
      BY <2>2, <3>2, <3>3
    <3> QED BY <2>1, <2>4, <3>4 DEF g
  <2> QED BY <2>3, <2>4
<1>8. Follows(f, points, "snow")
  <2>1. \A h \in K : f[h] = IF "snow" = "snow" /\ E(h) # {}
                            THEN f[Max(E(h))] + points[h][Key("snow")] ELSE points[h][Key("snow")]
    <3> TAKE h \in K
    <3>1. f[h] = total(DayOf(h))[h + 1]
      OBVIOUS
    <3>2. E(h) # {} => f[Max(E(h))] = total(DayOf(h))[Max(E(h)) + 1]
      BY <1>6
    <3> HIDE DEF f
    <3> QED BY <1>0, <1>2, <1>7, <3>1, <3>2
  <2>2. f = [h \in K |-> f[h]]
    OBVIOUS
  <2> HIDE DEF f
  <2> QED BY <2>1, <2>2 DEF Follows, K, E
<1>9. Follows(r, points, "snow")
  BY <1>8, SeriesFollows
<1> HIDE DEF r
<1>10. DOMAIN r = K
  BY <1>9 DEF Follows, K
<1>11. \A h \in K : r[h] = IF E(h) # {} THEN r[Max(E(h))] + points[h]["snow_cm"]
                           ELSE points[h]["snow_cm"]
  BY <1>0, <1>9 DEF Follows, K, E
<1>12. \A h \in K : r[h] = total(DayOf(h))[h + 1]
  <2> DEFINE P == {n \in 0 .. N : \A h \in K : h < n => r[h] = total(DayOf(h))[h + 1]}
  <2>1. 0 \in P
    <3>1. \A h \in K : ~(h < 0)
      BY <1>1
    <3> QED BY <3>1
  <2>2. ASSUME NEW n \in 1 .. N, n - 1 \in P PROVE n \in P
    <3>1. ASSUME NEW h \in K, h < n PROVE r[h] = total(DayOf(h))[h + 1]
      <4>1. h < n - 1 \/ h = n - 1
        BY <1>1, <3>1
      <4>2. CASE h < n - 1
        BY <2>2, <4>2
      <4>3. CASE h = n - 1
        <5>1. E(h) # {} => r[Max(E(h))] = total(DayOf(h))[Max(E(h)) + 1]
          BY <1>6, <2>2, <4>3
        <5> HIDE DEF P
        <5> QED BY <1>2, <1>7, <1>11, <5>1
      <4> QED BY <4>1, <4>2, <4>3
    <3> QED BY <3>1
  <2>3. \A n \in 0 .. N : n \in P
    <3> HIDE DEF P
    <3> QED BY <2>1, <2>2, Climb
  <2>4. N \in P /\ \A h \in K : h < N
    BY <1>1, <2>3
  <2> QED BY <2>4
<1>13. ASSUME NEW h \in K, NEW s, Adds(s, points, DayOf(h), N) PROVE r[h] = s[h + 1]
  <2>1. \A n \in 0 .. N : s[n] = total(DayOf(h))[n]
    <3> DEFINE t == total(DayOf(h))
               P == {n \in 0 .. N : s[n] = t[n]}
    <3>1. Adds(t, points, DayOf(h), N)
      BY <1>2
    <3> HIDE DEF t
    <3>2. 0 \in P
      BY <1>13, <3>1 DEF Adds
    <3>3. \A n \in 1 .. N : n - 1 \in P => n \in P
      BY <1>13, <3>1 DEF Adds
    <3>4. \A n \in 0 .. N : n \in P
      <4> HIDE DEF P
      <4> QED BY <3>2, <3>3, Climb
    <3> QED BY <3>4 DEF t
  <2>2. h + 1 \in 0 .. N
    BY <1>1
  <2> QED BY <1>12, <2>1, <2>2
<1> QED
  BY <1>10, <1>13 DEF r, K

\* The total of a day is what it has by its last hour that is known.
LEMMA DayTotal ==
  ASSUME NEW N \in Nat, NEW points, Snowy(points, N), NEW d, NEW s, Adds(s, points, d, N)
  PROVE  SnoSum(points, d) = IF SnowOf(points, d) = {} THEN Null
                             ELSE s[Max(SnowOf(points, d)) + 1]
<1> DEFINE K == SnowOf(points, d)
           M == Max(K) + 1
           more(h) == IF h - 1 \in K THEN points[h - 1]["snow_cm"] ELSE 0
           Runs(f) == f = [h \in 0 .. M |-> IF h = 0 THEN 0 ELSE f[h - 1] + more(h)]
           f == CHOOSE f : Runs(f)
<1>1. SnoSum(points, d) = IF K = {} THEN Null ELSE f[M]
  BY DEF SnoSum, SnowOf
<1>2. CASE K = {}
  BY <1>1, <1>2
<1>3. CASE K # {}
  <2>1. M \in 1 .. N
    <3>1. K \in SUBSET (0 .. N) /\ \A h \in K : h \in 0 .. (N - 1)
      BY DEF SnowOf, Snowy
    <3>2. Max(K) \in K
      <4> HIDE DEF K
      <4> QED BY <1>3, <3>1, EndsOf
    <3> QED BY <3>1, <3>2
  <2> HIDE DEF K, M
  <2>2. /\ s[0] = 0 /\ \A n \in 1 .. M : n \in 0 .. M /\ n - 1 \in 0 .. M /\ s[n] = s[n - 1] + more(n)
    <3>1. \A n \in 1 .. M : n \in 1 .. N /\ n \in 0 .. M /\ n - 1 \in 0 .. M
      BY <2>1
    <3> QED BY <3>1 DEF Adds, K
  <2> HIDE DEF more
  <2>3. Runs([n \in 0 .. M |-> s[n]])
    <3> DEFINE g == [n \in 0 .. M |-> s[n]]
    <3>1. \A n \in 0 .. M : n # 0 => n \in 1 .. M
      BY <2>1
    <3>2. \A n \in 0 .. M : g[n] = IF n = 0 THEN 0 ELSE g[n - 1] + more(n)
      BY <2>2, <3>1
    <3>3. g = [n \in 0 .. M |-> g[n]]
      OBVIOUS
    <3> HIDE DEF g
    <3> QED BY <3>2, <3>3 DEF g
  <2>4. Runs(f)
    BY <2>3
  <2> HIDE DEF f
  <2>5. f[0] = 0 /\ \A n \in 1 .. M : f[n] = f[n - 1] + more(n)
    <3>1. 0 \in 0 .. M /\ \A n \in 1 .. M : n \in 0 .. M /\ n # 0
      BY <2>1
    <3>2. \A n \in 0 .. M : f[n] = IF n = 0 THEN 0 ELSE f[n - 1] + more(n)
      BY <2>4
    <3> HIDE DEF Runs
    <3> QED BY <3>1, <3>2
  <2>6. \A n \in 0 .. M : f[n] = s[n]
    <3> DEFINE P == {n \in 0 .. M : f[n] = s[n]}
    <3> HIDE DEF Runs
    <3>1. M \in Nat /\ 0 \in P
      BY <2>1, <2>2, <2>5
    <3>2. \A n \in 1 .. M : n - 1 \in P => n \in P
      BY <2>2, <2>5
    <3>3. \A n \in 0 .. M : n \in P
      <4> HIDE DEF P
      <4> QED BY <3>1, <3>2, Climb
    <3> QED BY <3>3
  <2>7. M \in 0 .. M
    BY <2>1
  <2> QED BY <1>1, <1>3, <2>6, <2>7 DEF K, M
<1> QED
  BY <1>2, <1>3

\* forecastRules.ts and forecastSummary.ts: a day has an hour by which its snow has come to
\* an amount exactly when its total has.
LEMMA DayIsMarkedByItsTotal ==
  ASSUME NEW N \in Nat, NEW points, Snowy(points, N), NEW d, NEW c \in Nat, Null \notin Nat
  PROVE  (\E h \in Known(points, "snow") : DayOf(h) = d /\ Series(points, "snow")[h] >= c)
         <=> SnoSum(points, d) # Null /\ SnoSum(points, d) >= c
<1> DEFINE K == SnowOf(points, d)
<1>1. PICK s : Adds(s, points, d, N)
  BY TotalsThere
<1>2. \A h : h \in K <=> h \in Known(points, "snow") /\ DayOf(h) = d
  BY DEF SnowOf, Known, Key, Fields
<1>3. \A h \in K : h \in 0 .. (N - 1) /\ h + 1 \in 0 .. N /\ s[h + 1] \in Nat
  <2>1. \A h \in K : h \in 0 .. (N - 1) /\ h + 1 \in 0 .. N
    BY DEF SnowOf, Snowy
  <2> QED BY <1>1, <2>1 DEF Adds
<1>4. \A h \in K : Series(points, "snow")[h] = s[h + 1]
  BY <1>1, <1>2, SnowAddsUp
<1>5. SnoSum(points, d) = IF K = {} THEN Null ELSE s[Max(K) + 1]
  BY <1>1, DayTotal
<1> HIDE DEF K
<1>6. CASE K = {}
  BY <1>2, <1>5, <1>6
<1>7. CASE K # {}
  <2>1. K \in SUBSET (0 .. N)
    BY <1>3
  <2>2. Max(K) \in K /\ \A h \in K : Max(K) >= h
    BY <1>7, <2>1, EndsOf
  <2>3. ASSUME NEW h \in K PROVE s[h + 1] <= s[Max(K) + 1]
    <3>1. h + 1 \in 0 .. N /\ Max(K) + 1 \in h + 1 .. N
      BY <1>3, <2>2
    <3> QED BY <1>1, <3>1, TotalsGrow
  <2>4. SnoSum(points, d) = s[Max(K) + 1] /\ s[Max(K) + 1] \in Nat
    BY <1>3, <1>5, <1>7, <2>2
  <2>5. (\E h \in K : s[h + 1] >= c) <=> s[Max(K) + 1] >= c
    BY <1>3, <2>2, <2>3
  <2> QED BY <1>2, <1>4, <2>4, <2>5
<1> QED
  BY <1>6, <1>7

\* The marks of one kind, and what one is of.
MarksOf(points, crit, on, k) == {m \in MarkExceeds(points, crit, on) : m.kind = k}

OverAt(points, crit, k, h) ==
  {g \in UsableGrades(k, crit) : Series(points, k)[h] >= crit[<<k, g>>][Key(k)]}

MarkAt(points, crit, k, h) ==
  [at |-> h, kind |-> k, grade |-> Highest(OverAt(points, crit, k, h))]

LEMMA MarksOfKind ==
  ASSUME NEW points, NEW crit, NEW on, NEW k
  PROVE  /\ \A m : m \in MarksOf(points, crit, on, k) <=>
                     /\ k \in on
                     /\ \E h \in DOMAIN Series(points, k) :
                          OverAt(points, crit, k, h) # {} /\ m = MarkAt(points, crit, k, h)
         /\ \A h : MarkAt(points, crit, k, h).at = h /\ MarkAt(points, crit, k, h).kind = k
<1> DEFINE over(l, h) == {g \in UsableGrades(l, crit) :
                            Series(points, l)[h] >= crit[<<l, g>>][Key(l)]}
           of(l) == {[at |-> h, kind |-> l, grade |-> Highest(over(l, h))] :
                       h \in {h \in DOMAIN Series(points, l) : over(l, h) # {}}}
           marks == MarkExceeds(points, crit, on)
<1>1. marks = UNION {of(l) : l \in on}
  BY DEF MarkExceeds
<1>2. \A l, h : over(l, h) = OverAt(points, crit, l, h)
  BY DEF OverAt
<1> HIDE DEF over, marks
<1>3. \A l, m : m \in of(l) <=> \E h \in DOMAIN Series(points, l) :
                  OverAt(points, crit, l, h) # {} /\ m = MarkAt(points, crit, l, h)
  BY <1>2 DEF MarkAt
<1>4. \A l, h : MarkAt(points, crit, l, h).kind = l /\ MarkAt(points, crit, l, h).at = h
  BY DEF MarkAt
<1> HIDE DEF of
<1>5. \A m : m \in MarksOf(points, crit, on, k) <=> k \in on /\ m \in of(k)
  BY <1>1, <1>3, <1>4 DEF MarksOf, marks
<1> QED
  BY <1>3, <1>4, <1>5

\* markExceeds() and findUpcoming(), of a kind that is on: it has marks exactly when it
\* reaches a grade, and those of the highest that it reaches are at the hours that reach it.
LEMMA MarkedAt ==
  ASSUME NEW points, NEW crit, NEW on, NEW k \in on
  PROVE  LET mine == MarksOf(points, crit, on, k)
             reached == Reached(points, k, crit)
             hits == Hits(points, k, Highest(reached), crit)
         IN  /\ mine = {} <=> reached = {}
             /\ (\E m \in mine : m.grade = "warning") <=> "warning" \in reached
             /\ reached # {} =>
                  /\ hits # {}
                  /\ {m.at : m \in {m \in mine : m.grade = Highest(reached)}} = hits
                  /\ \A h \in hits : [at |-> h, kind |-> k, grade |-> Highest(reached)] \in mine
<1> DEFINE mine == MarksOf(points, crit, on, k)
           reached == Reached(points, k, crit)
           top == Highest(reached)
           D == DOMAIN Series(points, k)
           U == UsableGrades(k, crit)
           H(g) == Hits(points, k, g, crit)
           over(h) == OverAt(points, crit, k, h)
           mark(h) == MarkAt(points, crit, k, h)
<1>1. U \subseteq {"watch", "warning"}
  BY DEF UsableGrades
<1>2. \A g : H(g) \subseteq D
  BY DEF Hits
<1>3. \A h \in D : \A g : g \in over(h) <=> g \in U /\ h \in H(g)
  BY DEF Hits, OverAt
<1>4. reached = {g \in U : H(g) # {}}
  BY DEF Reached
<1>5. \A h : /\ mark(h).at = h /\ mark(h).kind = k /\ mark(h).grade = Highest(over(h))
             /\ mark(h) = [at |-> h, kind |-> k, grade |-> mark(h).grade]
  BY DEF MarkAt
<1>6. \A m : m \in mine <=> \E h \in D : over(h) # {} /\ m = mark(h)
  BY MarksOfKind
<1> HIDE DEF D, U, H, mine, reached, over, mark
<1>7. \A h \in D : over(h) \subseteq {"watch", "warning"}
  BY <1>1, <1>3
<1>8. mine = {} <=> reached = {}
  <2>1. mine = {} <=> \A h \in D : over(h) = {}
    BY <1>6
  <2>2. (\A h \in D : over(h) = {}) <=> \A g \in U : H(g) = {}
    BY <1>2, <1>3
  <2> QED BY <1>4, <2>1, <2>2
<1>9. \A h : mark(h).grade = "warning" <=> "warning" \in over(h)
  BY <1>5 DEF Highest
<1>10. (\E m \in mine : m.grade = "warning") <=> "warning" \in reached
  <2>1. (\E m \in mine : m.grade = "warning") <=> \E h \in D : "warning" \in over(h)
    BY <1>6, <1>9
  <2> QED BY <1>2, <1>3, <1>4, <2>1
<1>11. ASSUME reached # {}
       PROVE  /\ H(top) # {}
              /\ \A h \in D : (over(h) # {} /\ mark(h).grade = top) <=> h \in H(top)
  <2>1. CASE "warning" \in reached
    <3>1. top = "warning" /\ top \in U /\ H(top) # {}
      BY <1>4, <2>1 DEF Highest
    <3>2. \A h \in D : "warning" \in over(h) <=> h \in H("warning")
      BY <1>3, <3>1
    <3> QED BY <1>9, <3>1, <3>2
  <2>2. CASE "warning" \notin reached
    <3>1. top = "watch" /\ top \in U /\ H(top) # {} /\ ("warning" \in U => H("warning") = {})
      BY <1>1, <1>4, <1>11, <2>2 DEF Highest
    <3>2. \A h \in D : "warning" \notin over(h) /\ (over(h) # {} <=> h \in H("watch"))
      BY <1>1, <1>3, <3>1
    <3>3. \A h \in D : mark(h).grade = "watch"
      BY <1>5, <3>2 DEF Highest
    <3> QED BY <3>1, <3>2, <3>3
  <2> QED BY <2>1, <2>2
<1>12. ASSUME reached # {}
       PROVE  /\ {m.at : m \in {m \in mine : m.grade = top}} = H(top)
              /\ \A h \in H(top) : [at |-> h, kind |-> k, grade |-> top] \in mine
  <2> HIDE DEF top
  <2>1. \A h \in H(top) : mark(h) \in mine /\ mark(h).grade = top
    BY <1>2, <1>6, <1>11, <1>12
  <2>2. \A m \in mine : m.grade = top => m.at \in H(top)
    BY <1>5, <1>6, <1>11, <1>12
  <2> QED BY <1>5, <2>1, <2>2
<1> QED
  BY <1>8, <1>10, <1>11, <1>12, Zenon DEF mine, reached, H

LEMMA AnnouncedOf ==
  ASSUME NEW points, NEW crit, NEW on, NEW k
  PROVE  {u \in FindUpcoming(points, crit, on) : u.kind = k}
         = IF k \in on /\ Reached(points, k, crit) # {}
           THEN {Upcoming(points, k, Highest(Reached(points, k, crit)), crit)} ELSE {}
<1> DEFINE reached(l) == Reached(points, l, crit)
           up(l) == Upcoming(points, l, Highest(reached(l)), crit)
<1>1. FindUpcoming(points, crit, on) = {up(l) : l \in {l \in on : reached(l) # {}}}
  BY DEF FindUpcoming
<1>2. \A l : up(l).kind = l
  BY DEF Upcoming
<1> HIDE DEF up, reached
<1>3. {u \in FindUpcoming(points, crit, on) : u.kind = k}
      = IF k \in on /\ reached(k) # {} THEN {up(k)} ELSE {}
  BY <1>1, <1>2
<1> QED
  BY <1>3 DEF up, reached

\* findUpcoming(), markExceeds() and summarizeDaily(), each by its own computation, say
\* the same, whatever forecast and criteria are.
THEOREM UpcomingAgrees == Spec => []UpcomingAgreesWithMarks
<1>1. ReadinessInv => UpcomingAgreesWithMarks
  <2> SUFFICES ASSUME ReadinessInv PROVE UpcomingAgreesWithMarks
    OBVIOUS
  <2> DEFINE N == now + Horizon + 1
             marks == MarkExceeds(Ahead, criteria, enabled)
             announced == FindUpcoming(Ahead, criteria, enabled)
             mine(k) == MarksOf(Ahead, criteria, enabled, k)
             reached(k) == Reached(Ahead, k, criteria)
             hits(k) == Hits(Ahead, k, Highest(reached(k)), criteria)
  <2>1. N \in Nat /\ Snowy(Ahead, N) /\ DOMAIN Ahead \in SUBSET (0 .. N)
    <3>1. now \in Nat /\ Horizon \in Nat
      BY HorizonAssumption DEF ReadinessInv, CollectionInv
    <3>2. \A h \in DOMAIN Ahead : h \in DOMAIN rows /\ Ahead[h] = rows[h].point
      BY DEF Ahead
    <3>3. \A h \in DOMAIN rows : /\ h \in 0 .. (N - 1)
                                 /\ rows[h].point["snow_cm"] \in Nat \union {Null}
      BY <3>1, PointsAssumption DEF ReadinessInv, CollectionInv
    <3>4. \A h \in 0 .. (N - 1) : h \in 0 .. N
      BY <3>1
    <3> HIDE DEF N
    <3>5. N \in Nat
      BY <3>1 DEF N
    <3> QED BY <3>2, <3>3, <3>4, <3>5 DEF Snowy
  <2> HIDE DEF N
  <2>2. \A k : \A h \in hits(k) : h \in DOMAIN Ahead
    <3>1. \A k : DOMAIN Series(Ahead, k) \subseteq DOMAIN Ahead
      <4> TAKE k
      <4>1. CASE k = "snow"
        BY <2>1, <4>1, SnowAddsUp DEF Known
      <4>2. CASE k # "snow"
        <5> DEFINE f == [h \in Known(Ahead, k) |-> Ahead[h][Key(k)]]
        <5>1. Follows(f, Ahead, k)
          BY <4>2 DEF Follows
        <5> HIDE DEF f
        <5>2. Follows(Series(Ahead, k), Ahead, k)
          BY <5>1, SeriesFollows
        <5> QED BY <5>2 DEF Follows, Known
      <4> QED BY <4>1, <4>2
    <3> QED BY <3>1 DEF Hits
  <2>3. ASSUME NEW k \in enabled
        PROVE  /\ mine(k) = {} <=> reached(k) = {}
               /\ (\E m \in mine(k) : m.grade = "warning") <=> "warning" \in reached(k)
               /\ reached(k) # {} =>
                    /\ hits(k) # {}
                    /\ {m.at : m \in {m \in mine(k) : m.grade = Highest(reached(k))}} = hits(k)
                    /\ \A h \in hits(k) : [at |-> h, kind |-> k, grade |-> Highest(reached(k))] \in mine(k)
    BY MarkedAt, Zenon
  <2>4. \A k : {u \in announced : u.kind = k}
               = IF k \in enabled /\ reached(k) # {}
                 THEN {Upcoming(Ahead, k, Highest(reached(k)), criteria)} ELSE {}
    BY AnnouncedOf, Zenon
  <2>5. \A k : LET u == Upcoming(Ahead, k, Highest(reached(k)), criteria)
               IN  u.kind = k /\ u.grade = Highest(reached(k)) /\ u.at = Min(hits(k))
    BY DEF Upcoming
  <2> HIDE DEF hits, reached
  <2>6. ASSUME NEW k
        PROVE  LET top == IF \E m \in mine(k) : m.grade = "warning" THEN "warning" ELSE "watch"
               IN  {[grade |-> u.grade, at |-> u.at] : u \in {u \in announced : u.kind = k}}
                   = IF mine(k) = {} THEN {}
                     ELSE {[grade |-> top, at |-> Min({m.at : m \in {m \in mine(k) : m.grade = top}})]}
    <3> DEFINE top == IF \E m \in mine(k) : m.grade = "warning" THEN "warning" ELSE "watch"
    <3>1. CASE k \notin enabled
      <4>1. mine(k) = {}
        BY <3>1, MarksOfKind
      <4> QED BY <2>4, <3>1, <4>1
    <3>2. CASE k \in enabled /\ reached(k) = {}
      BY <2>3, <2>4, <3>2
    <3>3. CASE k \in enabled /\ reached(k) # {}
      <4>1. mine(k) # {} /\ top = Highest(reached(k))
        BY <2>3, <3>3 DEF Highest
      <4>2. {m.at : m \in {m \in mine(k) : m.grade = top}} = hits(k)
        BY <2>3, <3>3, <4>1
      <4> HIDE DEF top, mine, announced
      <4>3. {u \in announced : u.kind = k} = {Upcoming(Ahead, k, top, criteria)}
        BY <2>4, <3>3, <4>1
      <4>4. {[grade |-> u.grade, at |-> u.at] : u \in {Upcoming(Ahead, k, top, criteria)}}
            = {[grade |-> top, at |-> Min(hits(k))]}
        BY <2>5, <4>1
      <4> QED BY <4>1, <4>2, <4>3, <4>4 DEF top
    <3> QED BY <3>1, <3>2, <3>3
  <2>7. ASSUME NEW u \in announced, u.at <= now + WindowHours
        PROVE  [at |-> u.at, kind |-> u.kind, grade |-> u.grade] \in Strip(criteria, enabled)
    <3> DEFINE k == u.kind
               m == [at |-> u.at, kind |-> u.kind, grade |-> u.grade]
    <3>1. u \in {v \in announced : v.kind = k}
      OBVIOUS
    <3>2. k \in enabled /\ reached(k) # {} /\ u = Upcoming(Ahead, k, Highest(reached(k)), criteria)
      BY <2>4, <3>1
    <3>3. u.grade = Highest(reached(k)) /\ u.at = Min(hits(k))
      BY <2>5, <3>2
    <3>4. hits(k) # {} /\ hits(k) \in SUBSET (0 .. N)
      BY <2>1, <2>2, <2>3, <3>2
    <3>5. Min(hits(k)) \in hits(k)
      BY <2>1, <3>4, EndsOf
    <3>6. m \in marks
      BY <2>3, <3>2, <3>3, <3>5 DEF MarksOf
    <3> QED BY <2>7, <3>6 DEF Strip
  <2>8. ASSUME "snow" \in enabled, NEW d
        PROVE  (\E m \in marks : m.kind = "snow" /\ DayOf(m.at) = d)
               <=> /\ SnoSum(Ahead, d) # Null
                   /\ \E g \in UsableGrades("snow", criteria) :
                        SnoSum(Ahead, d) >= criteria[<<"snow", g>>]["snow_cm"]
    <3> DEFINE U == UsableGrades("snow", criteria)
               r == Series(Ahead, "snow")
               c(g) == criteria[<<"snow", g>>]["snow_cm"]
    <3>1. \A g \in U : c(g) \in Nat
      <4>1. ASSUME NEW g \in U PROVE c(g) \in Nat
        <5>1. <<"snow", g>> \in Criteria /\ <<"snow", g>>[1] = "snow" /\ Fields("snow") = {"snow_cm"}
          BY <2>8 DEF UsableGrades, Criteria, Fields, ReadinessInv, NumbersInv
        <5>2. criteria[<<"snow", g>>] \in [{"snow_cm"} -> Nat \union {Null}]
          BY <5>1 DEF ReadinessInv, NumbersInv, Rows
        <5>3. criteria[<<"snow", g>>]["snow_cm"] # Null
          BY <5>1 DEF UsableGrades, ThresholdUsable
        <5> QED BY <5>2, <5>3
      <4> QED BY <4>1
    <3>2. Key("snow") = "snow_cm"
      BY DEF Key, Fields
    <3>3. DOMAIN r = Known(Ahead, "snow")
      BY <2>1, SnowAddsUp
    <3>4. (\E m \in marks : m.kind = "snow" /\ DayOf(m.at) = d)
          <=> \E h \in DOMAIN r : DayOf(h) = d /\ \E g \in U : r[h] >= c(g)
      <4>1. (\E m \in marks : m.kind = "snow" /\ DayOf(m.at) = d)
            <=> \E m \in mine("snow") : DayOf(m.at) = d
        BY DEF MarksOf
      <4>2. (\E m \in mine("snow") : DayOf(m.at) = d)
            <=> \E h \in DOMAIN r : OverAt(Ahead, criteria, "snow", h) # {} /\ DayOf(h) = d
        BY <2>8, MarksOfKind
      <4>3. \A h : OverAt(Ahead, criteria, "snow", h) # {} <=> \E g \in U : r[h] >= c(g)
        BY <3>2 DEF OverAt
      <4> QED BY <4>1, <4>2, <4>3
    <3>5. \A g \in U : (\E h \in DOMAIN r : DayOf(h) = d /\ r[h] >= c(g))
                       <=> SnoSum(Ahead, d) # Null /\ SnoSum(Ahead, d) >= c(g)
      BY <2>1, <3>1, <3>3, BlankAssumption, DayIsMarkedByItsTotal
    <3> HIDE DEF r, c, U, marks
    <3>6. (\E m \in marks : m.kind = "snow" /\ DayOf(m.at) = d)
          <=> SnoSum(Ahead, d) # Null /\ \E g \in U : SnoSum(Ahead, d) >= c(g)
      BY <3>4, <3>5
    <3> QED BY <3>6 DEF c, U
  <2> QED BY <2>6, <2>7, <2>8, Zenon DEF UpcomingAgreesWithMarks, MarksOf
<1> QED
  BY <1>1, ReadinessInvariant, PTL
=============================================================================
