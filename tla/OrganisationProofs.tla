-------------------------- MODULE OrganisationProofs --------------------------
(***************************************************************************)
(* What requests that do not overlap keep of departments, employees,       *)
(* accounts and lists, for any number of each.                             *)
(*                                                                         *)
(* The properties of Organisation are about the tables.  None of them is   *)
(* inductive: a request judges in one step and writes in another, so that  *)
(* the invariant has what the one under way has read and judged (names     *)
(* that are free, a parent that is not below, another administrator, the   *)
(* account and the email of the employee, the rows of the list) as still   *)
(* true when it writes.  That a move keeps a tree a tree rests on what     *)
(* deptSubtreeIds() computes: the least set with the department that is    *)
(* closed under what hangs below (SubtreeIsClosed, SubtreeIsLeast).        *)
(*                                                                         *)
(* That the screens show every department once needs the types alone: it   *)
(* is about what build() computes from any parents (BuiltShows, FlatShows) *)
(* and, where no cycle is, about the depths that the order of deletion is  *)
(* taken from (ForestHangsUnderRoots, ChildrenAreDeeper).                  *)
(***************************************************************************)
EXTENDS Organisation, FiniteSetTheorems, SequenceTheorems, WellFoundedInduction, TLAPS

-----------------------------------------------------------------------------
(* Subtrees                                                                *)

\* A set of numbers has a smallest one: what an induction is made of here.
LEMMA SmallestOf ==
  ASSUME NEW S \in SUBSET Nat, S # {}
  PROVE  \E m \in S : \A j \in S : m <= j
<1> DEFINE less == {p \in Nat \X Nat : p[1] < p[2]}
<1>1. IsWellFoundedOn(less, Nat)
  BY NatLessThanWellFounded DEF OpToRel
<1>2. \E m \in S : \A j \in S : <<j, m>> \notin less
  <2> HIDE DEF less
  <2> QED BY <1>1, WFMin
<1>3. \A i, j \in Nat : <<j, i>> \notin less => i <= j
  OBVIOUS
<1> HIDE DEF less
<1> QED
  BY <1>2, <1>3

\* Induction up to N, for a set of numbers.
LEMMA Climb ==
  ASSUME NEW N \in Nat, NEW P, 0 \in P, \A n \in 1 .. N : n - 1 \in P => n \in P
  PROVE  \A n \in 0 .. N : n \in P
<1> DEFINE Bad == {n \in 0 .. N : n \notin P}
<1>1. Bad = {}
  <2> SUFFICES ASSUME Bad # {} PROVE FALSE
    OBVIOUS
  <2>1. PICK m \in Bad : \A j \in Bad : m <= j
    <3>1. Bad \in SUBSET Nat
      OBVIOUS
    <3> HIDE DEF Bad
    <3> QED BY <3>1, SmallestOf
  <2>2. m \in 1 .. N /\ m - 1 \in 0 .. N /\ ~(m <= m - 1)
    BY <2>1
  <2> QED BY <2>1, <2>2
<1> QED
  BY <1>1

Computed(f, N, S, base, step) ==
  f \in [0 .. N -> S] /\ f[0] = base /\ \A n \in 1 .. N : f[n] = step[<<n, f[n - 1]>>]

\* A computation of N rounds, each from what the one before has left.
LEMMA Computation ==
  ASSUME NEW N \in Nat, NEW S, NEW base \in S, NEW step \in [(1 .. N) \X S -> S]
  PROVE  \E f : Computed(f, N, S, base, step)
<1> DEFINE good(f, m) == /\ f \in [0 .. m -> S] /\ f[0] = base
                         /\ \A n \in 1 .. m : f[n] = step[<<n, f[n - 1]>>]
           P == {m \in 0 .. N : \E f : good(f, m)}
<1>1. 0 \in P
  <2>1. good([n \in 0 .. 0 |-> base], 0)
    OBVIOUS
  <2> HIDE DEF good
  <2> QED BY <2>1
<1>2. ASSUME NEW m \in 1 .. N, m - 1 \in P PROVE m \in P
  <2>1. PICK f : good(f, m - 1)
    BY <1>2
  <2> DEFINE g == [n \in 0 .. m |-> IF n = m THEN step[<<m, f[m - 1]>>] ELSE f[n]]
  <2>2. /\ m \in Nat /\ m - 1 \in 0 .. (m - 1) /\ m - 1 \in 0 .. m /\ m # 0
        /\ \A n \in 0 .. m : n # m => n \in 0 .. (m - 1)
        /\ \A n \in 1 .. m : n # m => n \in 1 .. (m - 1) /\ n - 1 \in 0 .. m /\ n - 1 # m
        /\ \A n \in 1 .. m : n \in 0 .. m
    OBVIOUS
  <2>3. f \in [0 .. (m - 1) -> S]
    BY <2>1
  <2>4. step[<<m, f[m - 1]>>] \in S
    BY <1>2, <2>2, <2>3
  <2>5. g \in [0 .. m -> S]
    <3>1. \A n \in 0 .. m : (IF n = m THEN step[<<m, f[m - 1]>>] ELSE f[n]) \in S
      BY <2>2, <2>3, <2>4
    <3> QED BY <3>1
  <2>6. g[0] = base
    BY <2>1, <2>2
  <2>7. ASSUME NEW n \in 1 .. m PROVE g[n] = step[<<n, g[n - 1]>>]
    <3>1. CASE n = m
      BY <2>2, <3>1
    <3>2. CASE n # m
      <4>1. g[n] = f[n] /\ g[n - 1] = f[n - 1] /\ n \in 1 .. (m - 1)
        BY <2>2, <3>2
      <4> HIDE DEF g
      <4> QED BY <2>1, <4>1
    <3> QED BY <3>1, <3>2
  <2> HIDE DEF g
  <2>8. good(g, m)
    BY <2>5, <2>6, <2>7
  <2> QED BY <2>8
<1>3. N \in P
  <2>1. N \in 0 .. N
    OBVIOUS
  <2> HIDE DEF P
  <2> QED BY <1>1, <1>2, <2>1, Climb
<1> QED
  BY <1>3 DEF Computed

\* What hangs directly under a set of departments.
Below(rows, S) == {c \in DOMAIN rows : rows[c] \in S}

Rounds(rows, d, grown) ==
  LET N == Cardinality(DOMAIN rows)
  IN  /\ grown[0] = {d}
      /\ \A n \in 1 .. N : grown[n] = grown[n - 1] \union Below(rows, grown[n - 1])
      /\ Subtree(rows, d) = grown[N]

\* The set that deptSubtreeIds() grows, round after round.
LEMMA SubtreeGrows ==
  ASSUME NEW rows, NEW d, IsFiniteSet(DOMAIN rows)
  PROVE  \E grown : Rounds(rows, d, grown)
<1> DEFINE N == Cardinality(DOMAIN rows)
<1>0. N \in Nat
  BY FS_CardinalityType
<1> DEFINE Runs(f, m) ==
      f = [n \in 0 .. m |->
             IF n = 0 THEN {d}
             ELSE f[n - 1] \union {c \in DOMAIN rows : rows[c] \in f[n - 1]}]
    Bad == {m \in Nat : ~ \E f : Runs(f, m)}
<1>1. Bad = {}
  <2> SUFFICES ASSUME Bad # {} PROVE FALSE
    OBVIOUS
  <2>1. PICK m \in Bad : \A j \in Bad : m <= j
    <3>1. Bad \in SUBSET Nat
      OBVIOUS
    <3> HIDE DEF Bad
    <3> QED BY <3>1, SmallestOf
  <2>2. CASE m = 0
    <3> DEFINE f == [n \in 0 .. 0 |-> {d}]
    <3>1. Runs(f, 0)
      OBVIOUS
    <3> QED BY <3>1, <2>2
  <2>3. CASE m # 0
    <3>1. m \in Nat /\ m - 1 \in Nat /\ ~(m <= m - 1)
      BY <2>3
    <3>2. m - 1 \notin Bad
      BY <2>1, <3>1
    <3>3. PICK g : Runs(g, m - 1)
      BY <3>1, <3>2
    <3> DEFINE next(S) == S \union {c \in DOMAIN rows : rows[c] \in S}
               f == [n \in 0 .. m |-> IF n = m THEN next(g[m - 1]) ELSE g[n]]
    <3>4. \A n \in 0 .. m : f[n] = IF n = 0 THEN {d} ELSE next(f[n - 1])
      <4> HIDE DEF next
      <4> TAKE n \in 0 .. m
      <4>1. CASE n = m
        <5>1. f[m] = next(g[m - 1]) /\ f[m - 1] = g[m - 1]
          BY <3>1
        <5> QED BY <4>1, <5>1, <2>3
      <4>2. CASE n # m
        <5>1. n \in 0 .. (m - 1)
          BY <3>1, <4>2
        <5>2. f[n] = g[n] /\ (n # 0 => f[n - 1] = g[n - 1])
          BY <5>1, <3>1
        <5>3. g[n] = IF n = 0 THEN {d} ELSE next(g[n - 1])
          BY <3>3, <5>1 DEF next
        <5> HIDE DEF f
        <5> QED BY <5>2, <5>3
      <4> QED BY <4>1, <4>2
    <3>5. Runs(f, m)
      <4>1. f = [n \in 0 .. m |-> f[n]]
        OBVIOUS
      <4> HIDE DEF f
      <4> QED BY <4>1, <3>4
    <3> QED BY <3>1, <3>5, <2>1
  <2> QED BY <2>2, <2>3
<1> HIDE DEF N
<1>2. \E f : Runs(f, N)
  <2> HIDE DEF Runs
  <2> QED BY <1>0, <1>1
<1> DEFINE grown == CHOOSE f : Runs(f, N)
<1>3. Runs(grown, N)
  BY <1>2
<1>4. Subtree(rows, d) = grown[N]
  BY DEF Subtree, N
<1> HIDE DEF grown
<1>5. \A n \in 0 .. N :
        grown[n] = IF n = 0 THEN {d}
                   ELSE grown[n - 1] \union {c \in DOMAIN rows : rows[c] \in grown[n - 1]}
  <2> DEFINE body == [n \in 0 .. N |->
                       IF n = 0 THEN {d}
                       ELSE grown[n - 1] \union {c \in DOMAIN rows : rows[c] \in grown[n - 1]}]
  <2>1. grown = body
    BY <1>3
  <2>2. \A n \in 0 .. N :
          body[n] = IF n = 0 THEN {d}
                    ELSE grown[n - 1] \union {c \in DOMAIN rows : rows[c] \in grown[n - 1]}
    OBVIOUS
  <2> HIDE DEF body
  <2> QED BY <2>1, <2>2
<1>6. /\ grown[0] = {d}
      /\ \A n \in 1 .. N : grown[n] = grown[n - 1] \union Below(rows, grown[n - 1])
  <2>1. 0 \in 0 .. N /\ \A n \in 1 .. N : n \in 0 .. N /\ n # 0
    BY <1>0
  <2> HIDE DEF Runs, Bad
  <2> QED BY <1>5, <2>1 DEF Below
<1> HIDE DEF Runs, Bad
<1>7. Rounds(rows, d, grown)
  BY <1>4, <1>6 DEF Rounds, N
<1> QED
  BY <1>7

\* It takes in the department, is closed under what hangs below it, the rounds being
\* as many as there are departments, and has nothing else.
LEMMA SubtreeIsClosed ==
  ASSUME NEW rows, IsFiniteSet(DOMAIN rows), NEW d \in DOMAIN rows
  PROVE  /\ d \in Subtree(rows, d)
         /\ Subtree(rows, d) \subseteq DOMAIN rows
         /\ \A c \in DOMAIN rows : rows[c] \in Subtree(rows, d) => c \in Subtree(rows, d)
<1> DEFINE N == Cardinality(DOMAIN rows)
<1>1. N \in Nat
  BY FS_CardinalityType
<1>2. PICK grown :
        /\ grown[0] = {d}
        /\ \A n \in 1 .. N : grown[n] = grown[n - 1] \union Below(rows, grown[n - 1])
        /\ Subtree(rows, d) = grown[N]
  BY SubtreeGrows DEF Rounds
<1> DEFINE full(n) == Below(rows, grown[n]) \subseteq grown[n]
           good(n) == /\ d \in grown[n] /\ grown[n] \subseteq DOMAIN rows
                      /\ full(n) \/ Cardinality(grown[n]) >= n + 1
           Bad == {n \in 0 .. N : ~good(n)}
<1> HIDE DEF N
<1>3. Bad = {}
  <2> SUFFICES ASSUME Bad # {} PROVE FALSE
    OBVIOUS
  <2>1. PICK m \in Bad : \A j \in Bad : m <= j
    <3>1. Bad \in SUBSET Nat
      BY <1>1
    <3> HIDE DEF Bad
    <3> QED BY <3>1, SmallestOf
  <2>2. m # 0
    <3>1. d \in grown[0] /\ grown[0] \subseteq DOMAIN rows
      BY <1>2
    <3>2. Cardinality(grown[0]) = 1
      BY <1>2, FS_Singleton
    <3> QED BY <3>1, <3>2, <2>1
  <2>3. m \in 1 .. N /\ m - 1 \in 0 .. N /\ ~(m <= m - 1)
    BY <1>1, <2>1, <2>2
  <2>4. good(m - 1)
    <3> HIDE DEF good
    <3> QED BY <2>1, <2>3
  <2> DEFINE A == grown[m - 1]
             B == grown[m]
  <2>5. B = A \union Below(rows, A)
    BY <1>2, <2>3
  <2>6. d \in B /\ B \subseteq DOMAIN rows
    BY <2>4, <2>5 DEF Below
  <2>7. CASE full(m - 1)
    <3>1. B = A
      BY <2>5, <2>7
    <3>2. full(m)
      BY <3>1, <2>7
    <3> QED BY <2>1, <2>6, <3>2
  <2>8. CASE ~full(m - 1)
    <3>1. IsFiniteSet(A) /\ IsFiniteSet(B)
      <4> HIDE DEF A, B
      <4> QED BY <2>4, <2>6, FS_Subset DEF A
    <3>2. A \subseteq B /\ A # B
      BY <2>5, <2>8
    <3>3. Cardinality(A) < Cardinality(B)
      <4> HIDE DEF A, B
      <4>1. /\ Cardinality(A) <= Cardinality(B)
            /\ Cardinality(A) # Cardinality(B)
        BY <3>1, <3>2, FS_Subset
      <4>2. Cardinality(A) \in Nat /\ Cardinality(B) \in Nat
        BY <3>1, FS_CardinalityType
      <4> QED BY <4>1, <4>2
    <3>4. Cardinality(A) >= m
      BY <2>4, <2>8, <2>3
    <3>5. Cardinality(B) >= m + 1
      <4>1. Cardinality(A) \in Nat /\ Cardinality(B) \in Nat
        BY <3>1, FS_CardinalityType
      <4> HIDE DEF A, B
      <4> QED BY <3>3, <3>4, <4>1, <2>3
    <3> QED BY <2>1, <2>6, <3>5
  <2> QED BY <2>7, <2>8
<1>4. good(N)
  <2>1. N \in 0 .. N
    BY <1>1
  <2> HIDE DEF good
  <2> QED BY <1>3, <2>1
<1>5. full(N)
  <2>1. Cardinality(grown[N]) <= N
    BY <1>4, FS_Subset DEF N
  <2>2. IsFiniteSet(grown[N])
    BY <1>4, FS_Subset
  <2>3. Cardinality(grown[N]) \in Nat
    BY <2>2, FS_CardinalityType
  <2> QED BY <1>1, <1>4, <2>1, <2>3
<1> QED
  BY <1>2, <1>4, <1>5 DEF Below

\* It is within every set that has the department and what hangs below what it has.
LEMMA SubtreeIsLeast ==
  ASSUME NEW rows, IsFiniteSet(DOMAIN rows), NEW d, NEW T, d \in T,
         \A c \in DOMAIN rows : rows[c] \in T => c \in T
  PROVE  Subtree(rows, d) \subseteq T
<1> DEFINE N == Cardinality(DOMAIN rows)
<1>1. N \in Nat
  BY FS_CardinalityType
<1>2. PICK grown :
        /\ grown[0] = {d}
        /\ \A n \in 1 .. N : grown[n] = grown[n - 1] \union Below(rows, grown[n - 1])
        /\ Subtree(rows, d) = grown[N]
  BY SubtreeGrows DEF Rounds
<1> DEFINE Bad == {n \in 0 .. N : ~(grown[n] \subseteq T)}
<1> HIDE DEF N
<1>3. Bad = {}
  <2> SUFFICES ASSUME Bad # {} PROVE FALSE
    OBVIOUS
  <2>1. PICK m \in Bad : \A j \in Bad : m <= j
    <3>1. Bad \in SUBSET Nat
      BY <1>1
    <3> HIDE DEF Bad
    <3> QED BY <3>1, SmallestOf
  <2>2. m # 0
    BY <1>2, <2>1
  <2>3. m \in 1 .. N /\ m - 1 \in 0 .. N /\ ~(m <= m - 1)
    BY <1>1, <2>1, <2>2
  <2>4. grown[m - 1] \subseteq T
    BY <2>1, <2>3
  <2>5. grown[m] = grown[m - 1] \union Below(rows, grown[m - 1])
    BY <1>2, <2>3
  <2> QED BY <2>1, <2>4, <2>5 DEF Below
<1> QED
  BY <1>1, <1>2, <1>3

-----------------------------------------------------------------------------
(* What keeps a forest a forest                                            *)

\* A new department hangs under one that was there, and nothing under it.
LEMMA ForestWithOneMore ==
  ASSUME NEW rows, IsFiniteSet(DOMAIN rows), IsForest(rows),
         NEW x, x \notin DOMAIN rows, \A c \in DOMAIN rows : rows[c] # x,
         NEW more, DOMAIN more = DOMAIN rows \union {x}, more[x] # x,
         \A c \in DOMAIN rows : more[c] = rows[c]
  PROVE  IsForest(more)
<1>0. IsFiniteSet(DOMAIN more)
  BY FS_AddElement
<1> SUFFICES ASSUME NEW d \in DOMAIN more, NEW c \in DOMAIN more, more[c] = d
             PROVE  d \notin Subtree(more, c)
  BY DEF IsForest
<1>1. \A y \in DOMAIN more : more[y] # x
  OBVIOUS
<1>2. CASE c = x
  <2>1. Subtree(more, x) \subseteq {x}
    BY <1>0, <1>1, SubtreeIsLeast
  <2> QED BY <1>2, <2>1
<1>3. CASE c # x
  <2>1. c \in DOMAIN rows /\ d \in DOMAIN rows /\ rows[c] = d
    BY <1>1, <1>3
  <2>2. d \notin Subtree(rows, c)
    BY <2>1 DEF IsForest
  <2> DEFINE T == Subtree(rows, c) \union {x}
  <2>3. c \in T /\ \A y \in DOMAIN more : more[y] \in T => y \in T
    BY <1>1, <2>1, SubtreeIsClosed
  <2>4. Subtree(more, c) \subseteq T
    <3> HIDE DEF T
    <3> QED BY <1>0, <2>3, SubtreeIsLeast
  <2> QED BY <2>1, <2>2, <2>4
<1> QED
  BY <1>2, <1>3

\* Departments go.
LEMMA ForestWithLess ==
  ASSUME NEW rows, IsFiniteSet(DOMAIN rows), IsForest(rows),
         NEW fewer, DOMAIN fewer \subseteq DOMAIN rows,
         \A c \in DOMAIN fewer : fewer[c] = rows[c]
  PROVE  IsForest(fewer)
<1>0. IsFiniteSet(DOMAIN fewer)
  BY FS_Subset
<1> SUFFICES ASSUME NEW d \in DOMAIN fewer, NEW c \in DOMAIN fewer, fewer[c] = d
             PROVE  d \notin Subtree(fewer, c)
  BY DEF IsForest
<1>1. d \notin Subtree(rows, c)
  BY DEF IsForest
<1>2. /\ c \in Subtree(rows, c)
      /\ \A y \in DOMAIN fewer : fewer[y] \in Subtree(rows, c) => y \in Subtree(rows, c)
  BY SubtreeIsClosed
<1>3. Subtree(fewer, c) \subseteq Subtree(rows, c)
  BY <1>0, <1>2, SubtreeIsLeast
<1> QED
  BY <1>1, <1>3

\* A department moves to where nothing of its own is.
LEMMA ForestWithOneMoved ==
  ASSUME NEW rows, IsFiniteSet(DOMAIN rows), IsForest(rows),
         NEW x \in DOMAIN rows,
         NEW moved, DOMAIN moved = DOMAIN rows, moved[x] \notin Subtree(rows, x),
         \A c \in DOMAIN rows \ {x} : moved[c] = rows[c]
  PROVE  IsForest(moved)
<1> SUFFICES ASSUME NEW d \in DOMAIN rows, NEW c \in DOMAIN rows, moved[c] = d
             PROVE  d \notin Subtree(moved, c)
  BY DEF IsForest
<1> DEFINE own == Subtree(rows, x)
<1>1. x \in own /\ \A y \in DOMAIN rows : rows[y] \in own => y \in own
  BY SubtreeIsClosed
<1>2. \A y \in DOMAIN moved : moved[y] \in own => y \in own
  <2> HIDE DEF own
  <2> QED BY <1>1
<1>3. CASE c = x
  <2>1. Subtree(moved, c) \subseteq own
    <3> HIDE DEF own
    <3> QED BY <1>1, <1>2, <1>3, SubtreeIsLeast
  <2> QED BY <1>3, <2>1
<1>4. CASE c # x
  <2> DEFINE its == Subtree(rows, c)
  <2>1. /\ d = rows[c] /\ d \notin its
        /\ c \in its /\ \A y \in DOMAIN rows : rows[y] \in its => y \in its
    BY <1>4, SubtreeIsClosed DEF IsForest
  <2>2. CASE moved[x] \notin its
    <3>1. \A y \in DOMAIN moved : moved[y] \in its => y \in its
      <4> HIDE DEF its
      <4> QED BY <2>1, <2>2
    <3>2. Subtree(moved, c) \subseteq its
      <4> HIDE DEF its
      <4> QED BY <2>1, <3>1, SubtreeIsLeast
    <3> QED BY <2>1, <3>2
  <2>3. CASE moved[x] \in its
    <3> DEFINE T == its \union own
    <3>1. c \in T /\ \A y \in DOMAIN moved : moved[y] \in T => y \in T
      <4> HIDE DEF its, own
      <4> QED BY <2>1, <1>1
    <3>2. Subtree(moved, c) \subseteq T
      <4> HIDE DEF T
      <4> QED BY <3>1, SubtreeIsLeast
    <3>3. d \notin own
      <4> SUFFICES ASSUME d \in own PROVE FALSE
        OBVIOUS
      <4>1. c \in own
        <5> HIDE DEF own
        <5> QED BY <1>1, <2>1
      <4>2. its \subseteq own
        <5> HIDE DEF own
        <5> QED BY <1>1, <4>1, SubtreeIsLeast
      <4> QED BY <2>3, <4>2
    <3> QED BY <2>1, <3>2, <3>3
  <2> QED BY <2>2, <2>3
<1> QED
  BY <1>3, <1>4

-----------------------------------------------------------------------------
(* Lists in order                                                          *)

Orders(less, S) ==
  \A a, b, c \in S :
    /\ <<a, a>> \notin less
    /\ a # b => <<a, b>> \in less \/ <<b, a>> \in less
    /\ <<a, b>> \in less /\ <<b, c>> \in less => <<a, c>> \in less

\* Each once, in order.
InOrderOf(s, S, less) ==
  /\ s \in [1 .. Cardinality(S) -> S]
  /\ \A d \in S : \E i \in 1 .. Cardinality(S) : s[i] = d
  /\ \A i, j \in 1 .. Cardinality(S) : s[i] = s[j] => i = j
  /\ \A i, j \in 1 .. Cardinality(S) : <<s[i], s[j]>> \in less => i < j

\* Of a set in order each is where as many come before it as there are.
LEMMA SortedIsInOrder ==
  ASSUME NEW S, IsFiniteSet(S), NEW less, Orders(less, S)
  PROVE  InOrderOf(Sorted(S, less), S, less)
<1> DEFINE N == Cardinality(S)
           before(d) == {e \in S : <<e, d>> \in less}
           rank(d) == Cardinality(before(d))
           s == Sorted(S, less)
<1>0. s = [i \in 1 .. N |-> CHOOSE d \in S : rank(d) = i - 1]
  BY DEF Sorted
<1> HIDE DEF s
<1>1. N \in Nat
  BY FS_CardinalityType
<1>2. \A d \in S : IsFiniteSet(before(d)) /\ rank(d) \in Nat /\ rank(d) < N
  <2> TAKE d \in S
  <2>1. before(d) \in SUBSET S /\ before(d) # S
    BY DEF Orders
  <2> HIDE DEF before
  <2>2. IsFiniteSet(before(d)) /\ rank(d) <= N /\ rank(d) # N
    BY <2>1, FS_Subset
  <2>3. rank(d) \in Nat
    BY <2>2, FS_CardinalityType
  <2> HIDE DEF rank, N
  <2> QED BY <1>1, <2>2, <2>3
<1>3. \A a, b \in S : <<a, b>> \in less => rank(a) < rank(b)
  <2> SUFFICES ASSUME NEW a \in S, NEW b \in S, <<a, b>> \in less PROVE rank(a) < rank(b)
    OBVIOUS
  <2>1. before(a) \in SUBSET before(b) /\ before(a) # before(b)
    BY DEF Orders
  <2> HIDE DEF before
  <2>2. rank(a) <= rank(b) /\ rank(a) # rank(b)
    BY <1>2, <2>1, FS_Subset
  <2> HIDE DEF rank
  <2> QED BY <1>2, <2>2
<1> HIDE DEF rank, before
<1>4. \A d \in S : rank(d) \in Nat /\ rank(d) < N
  BY <1>2
<1>5. \A a, b \in S : rank(a) = rank(b) => a = b
  <2> SUFFICES ASSUME NEW a \in S, NEW b \in S, a # b PROVE rank(a) # rank(b)
    OBVIOUS
  <2>1. <<a, b>> \in less \/ <<b, a>> \in less
    BY DEF Orders
  <2>2. rank(a) < rank(b) \/ rank(b) < rank(a)
    BY <1>3, <2>1
  <2>3. rank(a) \in Nat /\ rank(b) \in Nat
    BY <1>4
  <2> QED BY <2>2, <2>3
<1>6. \A i \in 1 .. N : \E d \in S : rank(d) = i - 1
  <2> DEFINE f == [d \in S |-> rank(d) + 1]
  <2>1. f \in Injection(S, 1 .. N)
    <3>1. f \in [S -> 1 .. N]
      <4> HIDE DEF N
      <4>1. \A d \in S : rank(d) + 1 \in 1 .. N
        BY <1>1, <1>4
      <4> QED BY <4>1
    <3>2. \A a, b \in S : f[a] = f[b] => a = b
      <4>1. \A a, b \in S : rank(a) + 1 = rank(b) + 1 => rank(a) = rank(b)
        BY <1>4
      <4> QED BY <1>5, <4>1
    <3> HIDE DEF f, N
    <3> QED BY <3>1, <3>2 DEF Injection, IsInjective
  <2>2. IsFiniteSet(1 .. N) /\ Cardinality(1 .. N) = N
    <3> HIDE DEF N
    <3> QED BY <1>1, FS_Interval
  <2>3. f \in Surjection(S, 1 .. N)
    <3> HIDE DEF f
    <3> QED BY <2>1, <2>2, FS_Injection
  <2>4. \A i \in 1 .. N : \E d \in S : f[d] = i
    <3> HIDE DEF f, N
    <3> QED BY <2>3 DEF Surjection
  <2> TAKE i \in 1 .. N
  <2>5. PICK d \in S : rank(d) + 1 = i
    BY <2>4
  <2> HIDE DEF N
  <2> QED BY <1>4, <2>5
<1> HIDE DEF N
<1>7. \A i \in 1 .. N : s[i] \in S /\ rank(s[i]) = i - 1
  <2> TAKE i \in 1 .. N
  <2>1. s[i] = CHOOSE d \in S : rank(d) = i - 1
    BY <1>0
  <2> QED BY <1>6, <2>1
<1>8. s \in [1 .. N -> S]
  BY <1>0, <1>7
<1>9. \A d \in S : \E i \in 1 .. N : s[i] = d
  <2> TAKE d \in S
  <2>1. rank(d) + 1 \in 1 .. N /\ (rank(d) + 1) - 1 = rank(d)
    BY <1>1, <1>4
  <2>2. s[rank(d) + 1] = d
    BY <1>5, <1>7, <2>1
  <2> QED BY <2>1, <2>2
<1>10. \A i, j \in 1 .. N : s[i] = s[j] => i = j
  <2> SUFFICES ASSUME NEW i \in 1 .. N, NEW j \in 1 .. N, s[i] = s[j] PROVE i = j
    OBVIOUS
  <2>1. i - 1 = j - 1
    BY <1>7
  <2> QED BY <2>1
<1>11. \A i, j \in 1 .. N : <<s[i], s[j]>> \in less => i < j
  <2> SUFFICES ASSUME NEW i \in 1 .. N, NEW j \in 1 .. N, <<s[i], s[j]>> \in less
               PROVE  i < j
    OBVIOUS
  <2>1. i - 1 < j - 1
    BY <1>3, <1>7
  <2> QED BY <2>1
<1> QED
  BY <1>8, <1>9, <1>10, <1>11 DEF InOrderOf, N, s

-----------------------------------------------------------------------------
(* Flattened lists                                                         *)

Entry(rows) == [id : DOMAIN rows, depth : Nat]

\* No department twice.
Once(s) == \A i, j \in DOMAIN s : s[i].id = s[j].id => i = j

\* Of departments that are there once, there are as many as the list is long.
LEMMA OnceIsCounted ==
  ASSUME NEW rows, IsFiniteSet(DOMAIN rows), NEW s \in Seq(Entry(rows)), Once(s)
  PROVE  /\ Ids(s) \subseteq DOMAIN rows
         /\ Len(s) = Cardinality(Ids(s))
         /\ Len(s) \in Nat /\ Len(s) <= Cardinality(DOMAIN rows)
<1>1. /\ Len(s) \in Nat /\ DOMAIN s = 1 .. Len(s)
      /\ \A i \in 1 .. Len(s) : s[i] \in Entry(rows)
  OBVIOUS
<1>2. Ids(s) \subseteq DOMAIN rows
  BY <1>1 DEF Ids, Entry
<1> DEFINE f == [i \in 1 .. Len(s) |-> s[i].id]
<1>3. f \in [1 .. Len(s) -> Ids(s)]
  BY <1>1 DEF Ids
<1>4. \A i, j \in 1 .. Len(s) : f[i] = f[j] => i = j
  BY <1>1 DEF Once
<1>5. \A x \in Ids(s) : \E i \in 1 .. Len(s) : f[i] = x
  BY <1>1 DEF Ids
<1>6. ExistsBijection(1 .. Len(s), Ids(s))
  <2> HIDE DEF f
  <2> QED
    BY <1>3, <1>4, <1>5
    DEF ExistsBijection, Bijection, Injection, Surjection, IsInjective
<1>7. Cardinality(Ids(s)) = Len(s)
  BY <1>1, <1>6, FS_CountingElements
<1> QED
  BY <1>1, <1>2, <1>7, FS_Subset

\* One more at the end.
LEMMA OneMore ==
  ASSUME NEW rows, NEW s \in Seq(Entry(rows)), NEW e \in Entry(rows),
         Once(s), e.id \notin Ids(s)
  PROVE  /\ Append(s, e) \in Seq(Entry(rows)) /\ Once(Append(s, e))
         /\ Ids(Append(s, e)) = Ids(s) \union {e.id}
<1> DEFINE t == Append(s, e)
<1>1. /\ t \in Seq(Entry(rows)) /\ Len(s) \in Nat /\ DOMAIN s = 1 .. Len(s)
      /\ DOMAIN t = 1 .. (Len(s) + 1) /\ t[Len(s) + 1] = e
      /\ \A i \in 1 .. Len(s) : t[i] = s[i]
  OBVIOUS
<1> HIDE DEF t
<1>2. \A i \in DOMAIN t : i = Len(s) + 1 \/ i \in DOMAIN s
  BY <1>1
<1>3. \A i \in DOMAIN s : i \in DOMAIN t /\ t[i] = s[i] /\ i # Len(s) + 1
  BY <1>1
<1>4. Len(s) + 1 \in DOMAIN t
  BY <1>1
<1>5. Ids(t) = Ids(s) \union {e.id}
  <2>1. \A x : x \in Ids(t) <=> \E i \in DOMAIN t : x = t[i].id
    BY DEF Ids
  <2>2. \A x : x \in Ids(s) <=> \E i \in DOMAIN s : x = s[i].id
    BY DEF Ids
  <2> QED BY <1>1, <1>2, <1>3, <1>4, <2>1, <2>2
<1>6. Once(t)
  <2> SUFFICES ASSUME NEW i \in DOMAIN t, NEW j \in DOMAIN t, t[i].id = t[j].id PROVE i = j
    BY DEF Once
  <2>1. \A k \in DOMAIN s : s[k].id \in Ids(s)
    BY DEF Ids
  <2> QED BY <1>1, <1>2, <1>3, <2>1 DEF Once
<1> QED
  BY <1>1, <1>5, <1>6 DEF t

\* One list after the other.
LEMMA OneAfterTheOther ==
  ASSUME NEW rows, NEW s \in Seq(Entry(rows)), NEW t \in Seq(Entry(rows)),
         Once(s), Once(t), Ids(s) \intersect Ids(t) = {}
  PROVE  /\ s \o t \in Seq(Entry(rows)) /\ Once(s \o t)
         /\ Ids(s \o t) = Ids(s) \union Ids(t)
         /\ \A i \in DOMAIN (s \o t) :
              \/ i \in DOMAIN s /\ (s \o t)[i] = s[i]
              \/ \E j \in DOMAIN t : (s \o t)[i] = t[j]
<1> DEFINE u == s \o t
<1>1. /\ u \in Seq(Entry(rows)) /\ Len(s) \in Nat /\ Len(t) \in Nat
      /\ DOMAIN s = 1 .. Len(s) /\ DOMAIN t = 1 .. Len(t)
      /\ DOMAIN u = 1 .. (Len(s) + Len(t))
      /\ \A i \in 1 .. (Len(s) + Len(t)) :
           u[i] = IF i <= Len(s) THEN s[i] ELSE t[i - Len(s)]
  BY ConcatProperties
<1> HIDE DEF u
<1>2. \A i \in DOMAIN u :
        \/ i \in DOMAIN s /\ u[i] = s[i]
        \/ i - Len(s) \in DOMAIN t /\ u[i] = t[i - Len(s)]
  BY <1>1
<1>3. \A i \in DOMAIN s : i \in DOMAIN u /\ u[i] = s[i]
  BY <1>1
<1>4. \A j \in DOMAIN t : Len(s) + j \in DOMAIN u /\ u[Len(s) + j] = t[j]
  <2> TAKE j \in DOMAIN t
  <2>1. /\ Len(s) + j \in 1 .. (Len(s) + Len(t))
        /\ ~(Len(s) + j <= Len(s)) /\ (Len(s) + j) - Len(s) = j
    BY <1>1
  <2> QED BY <1>1, <2>1
<1>5. Ids(u) = Ids(s) \union Ids(t)
  <2>1. \A x : x \in Ids(u) <=> \E i \in DOMAIN u : x = u[i].id
    BY DEF Ids
  <2>2. \A x : x \in Ids(s) <=> \E i \in DOMAIN s : x = s[i].id
    BY DEF Ids
  <2>3. \A x : x \in Ids(t) <=> \E i \in DOMAIN t : x = t[i].id
    BY DEF Ids
  <2>4. \A x : x \in Ids(u) => x \in Ids(s) \union Ids(t)
    BY <1>2, <2>1, <2>2, <2>3
  <2>5. \A x : x \in Ids(s) => x \in Ids(u)
    BY <1>3, <2>1, <2>2
  <2>6. \A x : x \in Ids(t) => x \in Ids(u)
    BY <1>4, <2>1, <2>3
  <2> QED BY <2>4, <2>5, <2>6
<1>6. Once(u)
  <2> SUFFICES ASSUME NEW i \in DOMAIN u, NEW j \in DOMAIN u, u[i].id = u[j].id PROVE i = j
    BY DEF Once
  <2>1. (\A k \in DOMAIN s : s[k].id \in Ids(s)) /\ \A k \in DOMAIN t : t[k].id \in Ids(t)
    BY DEF Ids
  <2>2. i \in Int /\ j \in Int
    BY <1>1
  <2>3. CASE i \in DOMAIN s /\ u[i] = s[i]
    <3>1. j \in DOMAIN s /\ u[j] = s[j]
      BY <1>2, <2>1, <2>3
    <3> QED BY <2>3, <3>1 DEF Once
  <2>4. CASE i - Len(s) \in DOMAIN t /\ u[i] = t[i - Len(s)]
    <3>1. j - Len(s) \in DOMAIN t /\ u[j] = t[j - Len(s)]
      BY <1>2, <2>1, <2>4
    <3>2. i - Len(s) = j - Len(s)
      BY <2>4, <3>1 DEF Once
    <3> QED BY <1>1, <2>2, <3>2
  <2> QED BY <1>2, <2>3, <2>4
<1> QED
  BY <1>1, <1>2, <1>5, <1>6 DEF u

\* The first and the rest.
LEMMA FirstAndRest ==
  ASSUME NEW rows, NEW s \in Seq(Entry(rows)), Once(s), s # <<>>
  PROVE  /\ Head(s) \in Entry(rows) /\ Tail(s) \in Seq(Entry(rows)) /\ Once(Tail(s))
         /\ Ids(s) = {Head(s).id} \union Ids(Tail(s)) /\ Head(s).id \notin Ids(Tail(s))
         /\ Head(s) = s[1] /\ 1 \in DOMAIN s
         /\ \A i \in DOMAIN Tail(s) : \E j \in DOMAIN s : Tail(s)[i] = s[j]
         /\ (Len(s) <= 1 => Ids(Tail(s)) = {})
<1> DEFINE t == Tail(s)
<1>1. /\ t \in Seq(Entry(rows)) /\ Len(s) \in Nat /\ Len(s) # 0 /\ Head(s) \in Entry(rows)
      /\ DOMAIN s = 1 .. Len(s) /\ DOMAIN t = 1 .. (Len(s) - 1) /\ Head(s) = s[1]
      /\ \A i \in 1 .. (Len(s) - 1) : t[i] = s[i + 1]
  <2>1. t \in Seq(Entry(rows)) /\ Len(t) = Len(s) - 1 /\ Head(s) \in Entry(rows)
        /\ \A i \in 1 .. Len(t) : t[i] = s[i + 1]
    BY HeadTailProperties
  <2>2. Len(s) \in Nat /\ Len(s) # 0 /\ DOMAIN s = 1 .. Len(s) /\ Head(s) = s[1]
    BY EmptySeq
  <2>3. DOMAIN t = 1 .. Len(t)
    BY <2>1
  <2> HIDE DEF t
  <2> QED BY <2>1, <2>2, <2>3
<1> HIDE DEF t
<1>2. \A i \in DOMAIN t : i + 1 \in DOMAIN s /\ t[i] = s[i + 1] /\ i + 1 # 1
  BY <1>1
<1>3. \A i \in DOMAIN s : i = 1 \/ (i - 1 \in DOMAIN t /\ s[i] = t[i - 1])
  BY <1>1
<1>4. \A x : /\ x \in Ids(s) <=> \E i \in DOMAIN s : x = s[i].id
             /\ x \in Ids(t) <=> \E i \in DOMAIN t : x = t[i].id
  BY DEF Ids
<1>5. 1 \in DOMAIN s
  BY <1>1
<1>6. Ids(s) = {Head(s).id} \union Ids(t)
  <2>1. \A x : x \in Ids(s) => x \in {Head(s).id} \union Ids(t)
    BY <1>1, <1>3, <1>4
  <2>2. \A x : x \in {Head(s).id} \union Ids(t) => x \in Ids(s)
    BY <1>1, <1>2, <1>4, <1>5
  <2> QED BY <2>1, <2>2
<1>7. Head(s).id \notin Ids(t)
  BY <1>1, <1>2, <1>4, <1>5 DEF Once
<1>8. Once(t)
  <2> SUFFICES ASSUME NEW i \in DOMAIN t, NEW j \in DOMAIN t, t[i].id = t[j].id PROVE i = j
    BY DEF Once
  <2>1. i + 1 = j + 1
    BY <1>2 DEF Once
  <2> QED BY <1>1, <2>1
<1>9. Len(s) <= 1 => Ids(t) = {}
  <2>1. Len(s) <= 1 => DOMAIN t = {}
    BY <1>1
  <2> QED BY <1>4, <2>1
<1> QED
  BY <1>1, <1>2, <1>5, <1>6, <1>7, <1>8, <1>9 DEF t

\* What At() puts there.
LEMMA PutThere ==
  ASSUME NEW rows, IsFiniteSet(DOMAIN rows), Orders(Before, DOMAIN rows),
         NEW ids \in SUBSET DOMAIN rows, NEW depth \in Nat
  PROVE  /\ At(ids, depth) \in Seq(Entry(rows)) /\ Once(At(ids, depth))
         /\ Ids(At(ids, depth)) = ids
         /\ \A i \in DOMAIN At(ids, depth) : At(ids, depth)[i].depth = depth
<1> DEFINE N == Cardinality(ids)
           s == Sorted(ids, Before)
           a == At(ids, depth)
<1>1. IsFiniteSet(ids) /\ N \in Nat
  BY FS_Subset, FS_CardinalityType
<1>2. Orders(Before, ids)
  BY DEF Orders
<1>3. InOrderOf(s, ids, Before)
  BY <1>1, <1>2, SortedIsInOrder
<1>4. a = [i \in 1 .. N |-> [id |-> s[i], depth |-> depth]]
  BY DEF At
<1>5. /\ s \in [1 .. N -> ids]
      /\ \A d \in ids : \E i \in 1 .. N : s[i] = d
      /\ \A i, j \in 1 .. N : s[i] = s[j] => i = j
  BY <1>3 DEF InOrderOf
<1> HIDE DEF N, s, a
<1>6. /\ DOMAIN a = 1 .. N
      /\ \A i \in 1 .. N : a[i].id = s[i] /\ a[i].depth = depth /\ a[i] \in Entry(rows)
  BY <1>4, <1>5 DEF Entry
<1>7. a \in Seq(Entry(rows))
  <2>1. a \in [1 .. N -> Entry(rows)]
    BY <1>4, <1>6
  <2> QED BY <1>1, <2>1, SeqDef
<1>8. Once(a)
  BY <1>5, <1>6 DEF Once
<1>9. Ids(a) = ids
  <2>1. \A x : x \in Ids(a) <=> \E i \in DOMAIN a : x = a[i].id
    BY DEF Ids
  <2>2. \A x \in Ids(a) : x \in ids
    BY <1>5, <1>6, <2>1
  <2>3. \A x \in ids : x \in Ids(a)
    BY <1>5, <1>6, <2>1
  <2> QED BY <2>2, <2>3
<1> QED
  BY <1>6, <1>7, <1>8, <1>9 DEF a

-----------------------------------------------------------------------------
(* What build() leaves                                                     *)

Listed(rows) ==
  IsFiniteSet(DOMAIN rows) /\ Root \notin DOMAIN rows /\ Orders(Before, DOMAIN rows)

Work(rows) == [out : Seq(Entry(rows)), todo : Seq(Entry(rows))]

\* What is shown and what waits are each there once.  What waits hangs under something
\* shown, unless it is all that waits.
Apart(rows, out, todo) ==
  /\ Once(out) /\ Once(todo) /\ Ids(out) \intersect Ids(todo) = {}
  /\ \/ Len(todo) <= 1
     \/ \A c \in Ids(todo) : ShownParent(rows, c) \in Ids(out) \union {Root}

\* One below a root is shown one deeper than its parent.
Placed(rows, s, out) ==
  \A i \in DOMAIN s :
    \/ ShownParent(rows, s[i].id) = Root
    \/ \E j \in DOMAIN out :
         out[j].id = ShownParent(rows, s[i].id) /\ s[i].depth = out[j].depth + 1

\* What hangs under what is shown is shown or waits.
Reached(rows, out, todo) ==
  /\ Placed(rows, out, out) /\ Placed(rows, todo, out)
  /\ \A c \in DOMAIN rows :
       ShownParent(rows, c) \in Ids(out) => c \in Ids(out) \union Ids(todo)

\* One that waits is shown, and its own wait instead.
Visited(rows, s, t, row, kids) ==
  /\ row = Head(s.todo) /\ kids = Kids(rows, row.id) \ (Ids(s.out) \union {row.id})
  /\ t.out = Append(s.out, row)
  /\ t.todo = At(kids, row.depth + 1) \o Tail(s.todo)

\* A visit when something waits.
LEMMA VisitOfOne ==
  ASSUME NEW rows, NEW s, s.todo # <<>>
  PROVE  \E row, kids : Visited(rows, s, Visit(rows, s), row, kids)
<1> DEFINE row == Head(s.todo)
           kids == Kids(rows, row.id) \ (Ids(s.out) \union {row.id})
<1>1. Visit(rows, s) = [out |-> Append(s.out, row),
                        todo |-> At(kids, row.depth + 1) \o Tail(s.todo)]
  BY DEF Visit
<1>2. Visited(rows, s, Visit(rows, s), row, kids)
  <2> DEFINE out == Append(s.out, row)
             todo == At(kids, row.depth + 1) \o Tail(s.todo)
  <2>1. Visit(rows, s) = [out |-> out, todo |-> todo]
    BY <1>1
  <2> HIDE DEF row, kids, out, todo
  <2>2. Visit(rows, s).out = out /\ Visit(rows, s).todo = todo
    BY <2>1
  <2> QED BY <2>2 DEF Visited, row, kids, out, todo
<1> QED
  BY <1>2

\* A visit leaves lists of departments.
LEMMA VisitKeepsType ==
  ASSUME NEW rows, Listed(rows), NEW s \in Work(rows)
  PROVE  Visit(rows, s) \in Work(rows)
<1>1. CASE s.todo = <<>>
  BY <1>1 DEF Visit
<1>2. CASE s.todo # <<>>
  <2> DEFINE row == Head(s.todo)
             kids == Kids(rows, row.id) \ (Ids(s.out) \union {row.id})
  <2>1. Visit(rows, s) = [out |-> Append(s.out, row),
                          todo |-> At(kids, row.depth + 1) \o Tail(s.todo)]
    BY <1>2 DEF Visit
  <2>2. s.out \in Seq(Entry(rows)) /\ s.todo \in Seq(Entry(rows))
    BY DEF Work
  <2>3. row \in Entry(rows) /\ Tail(s.todo) \in Seq(Entry(rows))
    BY <1>2, <2>2, HeadTailProperties
  <2>4. kids \in SUBSET DOMAIN rows
    BY DEF Kids
  <2> HIDE DEF row, kids
  <2>5. row.depth + 1 \in Nat
    BY <2>3 DEF Entry
  <2>6. At(kids, row.depth + 1) \in Seq(Entry(rows))
    BY <2>4, <2>5, PutThere DEF Listed
  <2>7. Append(s.out, row) \in Seq(Entry(rows))
    BY <2>2, <2>3
  <2>8. At(kids, row.depth + 1) \o Tail(s.todo) \in Seq(Entry(rows))
    BY <2>3, <2>6, ConcatProperties
  <2> QED BY <2>1, <2>7, <2>8 DEF Work
<1> QED
  BY <1>1, <1>2

OneShown(s, t, row, kids) ==
  /\ Ids(t.out) = Ids(s.out) \union {row.id}
  /\ Ids(t.todo) = kids \union Ids(Tail(s.todo))
  /\ Ids(s.todo) = {row.id} \union Ids(Tail(s.todo))
  /\ Len(t.out) = Len(s.out) + 1 /\ Len(s.out) \in Nat
  /\ \A i \in DOMAIN t.out : t.out[i] = row \/ (i \in DOMAIN s.out /\ t.out[i] = s.out[i])
  /\ \A i \in DOMAIN s.out : i \in DOMAIN t.out /\ t.out[i] = s.out[i]
  /\ \E j \in DOMAIN t.out : t.out[j] = row
  /\ \E j \in DOMAIN s.todo : s.todo[j] = row
  /\ \A i \in DOMAIN t.todo :
       \/ t.todo[i].id \in kids /\ t.todo[i].depth = row.depth + 1
       \/ \E j \in DOMAIN s.todo : t.todo[i] = s.todo[j]

\* The one that was first is shown then, and nothing is there twice.
LEMMA VisitKeepsApart ==
  ASSUME NEW rows, Listed(rows), NEW s \in Work(rows), s.todo # <<>>,
         Apart(rows, s.out, s.todo),
         NEW t \in Work(rows), NEW row, NEW kids, Visited(rows, s, t, row, kids)
  PROVE  Apart(rows, t.out, t.todo) /\ OneShown(s, t, row, kids)
<1> DEFINE rest == Tail(s.todo)
           put == At(kids, row.depth + 1)
<1>1. /\ s.out \in Seq(Entry(rows)) /\ s.todo \in Seq(Entry(rows))
      /\ Once(s.out) /\ Once(s.todo)
      /\ Ids(s.out) \intersect Ids(s.todo) = {}
  BY DEF Work, Apart
<1>2. /\ row \in Entry(rows) /\ rest \in Seq(Entry(rows)) /\ Once(rest)
      /\ Ids(s.todo) = {row.id} \union Ids(rest) /\ row.id \notin Ids(rest)
      /\ row = s.todo[1] /\ 1 \in DOMAIN s.todo
      /\ \A i \in DOMAIN rest : \E j \in DOMAIN s.todo : rest[i] = s.todo[j]
      /\ (Len(s.todo) <= 1 => Ids(rest) = {})
  <2>1. row = Head(s.todo)
    BY DEF Visited
  <2> QED BY <1>1, <2>1, FirstAndRest
<1>3. /\ kids \in SUBSET DOMAIN rows
      /\ \A c \in kids : ShownParent(rows, c) = row.id /\ c \notin Ids(s.out) /\ c # row.id
  BY DEF Visited, Kids
<1>4. /\ put \in Seq(Entry(rows)) /\ Once(put) /\ Ids(put) = kids
      /\ \A i \in DOMAIN put : put[i].depth = row.depth + 1
  <2>1. row.depth + 1 \in Nat
    BY <1>2 DEF Entry
  <2> QED BY <1>3, <2>1, PutThere DEF Listed
<1> HIDE DEF put, rest
<1>5. t.out = Append(s.out, row) /\ t.todo = put \o rest
  BY DEF Visited, put, rest
<1>6. Once(t.out) /\ Ids(t.out) = Ids(s.out) \union {row.id}
  BY <1>1, <1>2, <1>5, OneMore
<1>7. Ids(put) \intersect Ids(rest) = {}
  <2> SUFFICES ASSUME NEW c \in kids, c \in Ids(rest) PROVE FALSE
    BY <1>4
  <2>1. ~(Len(s.todo) <= 1)
    BY <1>2
  <2>2. ShownParent(rows, c) \in Ids(s.out) \union {Root}
    BY <1>2, <2>1 DEF Apart
  <2>3. row.id # Root
    BY <1>2 DEF Listed, Entry
  <2> QED BY <1>1, <1>2, <1>3, <2>2, <2>3
<1>8. /\ Once(put \o rest) /\ Ids(put \o rest) = Ids(put) \union Ids(rest)
      /\ \A i \in DOMAIN (put \o rest) :
           \/ i \in DOMAIN put /\ (put \o rest)[i] = put[i]
           \/ \E j \in DOMAIN rest : (put \o rest)[i] = rest[j]
  <2>1. /\ Once(put \o rest) /\ Ids(put \o rest) = Ids(put) \union Ids(rest)
        /\ \A i \in DOMAIN (put \o rest) :
             \/ i \in DOMAIN put /\ (put \o rest)[i] = put[i]
             \/ \E j \in DOMAIN rest : (put \o rest)[i] = rest[j]
    BY <1>2, <1>4, <1>7, OneAfterTheOther
  <2> QED BY <2>1
<1>9. Once(t.todo) /\ Ids(t.todo) = kids \union Ids(rest)
  BY <1>4, <1>5, <1>8
<1>10. Ids(t.out) \intersect Ids(t.todo) = {}
  BY <1>1, <1>2, <1>3, <1>6, <1>9
<1>11. \A c \in Ids(t.todo) : ShownParent(rows, c) \in Ids(t.out) \union {Root}
  <2> TAKE c \in Ids(t.todo)
  <2>1. CASE c \in kids
    BY <1>3, <1>6, <2>1
  <2>2. CASE c \in Ids(rest)
    <3>1. ~(Len(s.todo) <= 1)
      BY <1>2, <2>2
    <3>2. ShownParent(rows, c) \in Ids(s.out) \union {Root}
      BY <1>2, <2>2, <3>1 DEF Apart
    <3> QED BY <1>6, <3>2
  <2> QED BY <1>9, <2>1, <2>2
<1>12. Apart(rows, t.out, t.todo)
  BY <1>6, <1>9, <1>10, <1>11 DEF Apart
<1>13. /\ Len(s.out) \in Nat /\ Len(t.out) = Len(s.out) + 1
       /\ DOMAIN s.out = 1 .. Len(s.out) /\ DOMAIN t.out = 1 .. (Len(s.out) + 1)
       /\ t.out[Len(s.out) + 1] = row
       /\ \A i \in 1 .. Len(s.out) : t.out[i] = s.out[i]
  <2>1. s.out \in Seq(Entry(rows)) /\ t.out = Append(s.out, row) /\ row \in Entry(rows)
    BY <1>1, <1>2, <1>5
  <2> QED BY <2>1, AppendProperties, LenProperties
<1>14. /\ \A i \in DOMAIN t.out :
            t.out[i] = row \/ (i \in DOMAIN s.out /\ t.out[i] = s.out[i])
       /\ \A i \in DOMAIN s.out : i \in DOMAIN t.out /\ t.out[i] = s.out[i]
       /\ \E j \in DOMAIN t.out : t.out[j] = row
  BY <1>13
<1>15. \A i \in DOMAIN t.todo :
         \/ t.todo[i].id \in kids /\ t.todo[i].depth = row.depth + 1
         \/ \E j \in DOMAIN s.todo : t.todo[i] = s.todo[j]
  <2> TAKE i \in DOMAIN t.todo
  <2>1. CASE i \in DOMAIN put /\ t.todo[i] = put[i]
    <3>1. put[i].id \in Ids(put)
      BY <2>1 DEF Ids
    <3> QED BY <1>4, <2>1, <3>1
  <2>2. CASE \E j \in DOMAIN rest : t.todo[i] = rest[j]
    BY <1>2, <2>2
  <2> QED BY <1>5, <1>8, <2>1, <2>2
<1> QED
  BY <1>2, <1>6, <1>9, <1>12, <1>13, <1>14, <1>15 DEF rest, OneShown

\* Nothing under what is shown is lost, and each is one deeper than its parent.
LEMMA VisitKeepsReached ==
  ASSUME NEW rows, Listed(rows), NEW s \in Work(rows), s.todo # <<>>,
         Apart(rows, s.out, s.todo), Reached(rows, s.out, s.todo),
         NEW t \in Work(rows), NEW row, NEW kids, Visited(rows, s, t, row, kids)
  PROVE  Reached(rows, t.out, t.todo)
<1>1. /\ Ids(t.out) = Ids(s.out) \union {row.id}
      /\ Ids(t.todo) = kids \union Ids(Tail(s.todo))
      /\ Ids(s.todo) = {row.id} \union Ids(Tail(s.todo))
      /\ \A i \in DOMAIN t.out :
           t.out[i] = row \/ (i \in DOMAIN s.out /\ t.out[i] = s.out[i])
      /\ \A i \in DOMAIN s.out : i \in DOMAIN t.out /\ t.out[i] = s.out[i]
      /\ \E j \in DOMAIN t.out : t.out[j] = row
      /\ \E j \in DOMAIN s.todo : s.todo[j] = row
      /\ \A i \in DOMAIN t.todo :
           \/ t.todo[i].id \in kids /\ t.todo[i].depth = row.depth + 1
           \/ \E j \in DOMAIN s.todo : t.todo[i] = s.todo[j]
  <2>1. OneShown(s, t, row, kids)
    BY VisitKeepsApart
  <2> QED BY <2>1 DEF OneShown
<1> DEFINE fits(e, out) ==
      \/ ShownParent(rows, e.id) = Root
      \/ \E j \in DOMAIN out :
           out[j].id = ShownParent(rows, e.id) /\ e.depth = out[j].depth + 1
<1>2. /\ \A i \in DOMAIN s.out : fits(s.out[i], s.out)
      /\ \A i \in DOMAIN s.todo : fits(s.todo[i], s.out)
  BY DEF Reached, Placed
<1>3. \A e : fits(e, s.out) => fits(e, t.out)
  BY <1>1
<1>4. \A c \in kids : ShownParent(rows, c) = row.id
  BY DEF Visited, Kids
<1>5. \A e : e.id \in kids /\ e.depth = row.depth + 1 => fits(e, t.out)
  BY <1>1, <1>4
<1> HIDE DEF fits
<1>6. fits(row, s.out)
  BY <1>1, <1>2
<1>7. \A i \in DOMAIN t.out : fits(t.out[i], t.out)
  BY <1>1, <1>2, <1>3, <1>6
<1>8. \A i \in DOMAIN t.todo : fits(t.todo[i], t.out)
  BY <1>1, <1>2, <1>3, <1>5
<1>9. Placed(rows, t.out, t.out) /\ Placed(rows, t.todo, t.out)
  BY <1>7, <1>8 DEF Placed, fits
<1>10. ASSUME NEW c \in DOMAIN rows, ShownParent(rows, c) \in Ids(t.out)
       PROVE  c \in Ids(t.out) \union Ids(t.todo)
  <2>1. CASE ShownParent(rows, c) = row.id
    <3>1. c \in Kids(rows, row.id)
      BY <2>1 DEF Kids
    <3>2. c \in kids \/ c \in Ids(s.out) \/ c = row.id
      BY <3>1 DEF Visited
    <3> QED BY <1>1, <3>2
  <2>2. CASE ShownParent(rows, c) \in Ids(s.out)
    <3>1. c \in Ids(s.out) \union Ids(s.todo)
      BY <2>2 DEF Reached
    <3> QED BY <1>1, <3>1
  <2> QED BY <1>1, <1>10, <2>1, <2>2
<1> QED
  BY <1>9, <1>10 DEF Reached

Walks(rows, flat, start, w) ==
  LET N == Cardinality(DOMAIN rows)
  IN  /\ \A n \in 0 .. N : w[n] \in Work(rows)
      /\ w[0].out = flat /\ w[0].todo = start
      /\ \A n \in 1 .. N : w[n] = Visit(rows, w[n - 1])
      /\ Built(rows, flat, start) = w[N].out

\* The visits, one after the other.
LEMMA VisitsOfBuilt ==
  ASSUME NEW rows, Listed(rows), NEW flat \in Seq(Entry(rows)),
         NEW start \in Seq(Entry(rows))
  PROVE  \E w : Walks(rows, flat, start, w)
<1> DEFINE N == Cardinality(DOMAIN rows)
           S == Work(rows)
           base == [out |-> flat, todo |-> start]
           step == [p \in (1 .. N) \X S |-> Visit(rows, p[2])]
           Runs(f) == f = [n \in 0 .. N |->
                            IF n = 0 THEN [out |-> flat, todo |-> start]
                            ELSE Visit(rows, f[n - 1])]
<1>1. N \in Nat
  BY FS_CardinalityType DEF Listed
<1>2. base \in S /\ base.out = flat /\ base.todo = start
  BY DEF Work
<1>3. \A s \in S : Visit(rows, s) \in S
  BY VisitKeepsType
<1>4. Built(rows, flat, start) = (CHOOSE f : Runs(f))[N].out
  BY DEF Built
<1> HIDE DEF N, S
<1>5. step \in [(1 .. N) \X S -> S]
  BY <1>3
<1>6. \A n \in 1 .. N, s \in S : step[<<n, s>>] = Visit(rows, s)
  OBVIOUS
<1> HIDE DEF step
<1>7. PICK g : Computed(g, N, S, base, step)
  <2> HIDE DEF base
  <2> QED BY <1>1, <1>2, <1>5, Computation
<1>8. /\ g \in [0 .. N -> S] /\ g[0] = base
      /\ \A n \in 1 .. N : g[n] = Visit(rows, g[n - 1])
  <2> HIDE DEF base
  <2>1. /\ g \in [0 .. N -> S] /\ g[0] = base
        /\ \A n \in 1 .. N : g[n] = step[<<n, g[n - 1]>>]
    BY <1>7 DEF Computed
  <2>2. \A n \in 1 .. N : n - 1 \in 0 .. N
    BY <1>1
  <2>3. \A n \in 1 .. N : g[n - 1] \in S
    BY <2>1, <2>2
  <2> QED BY <1>6, <2>1, <2>3
<1>9. Runs(g)
  <2>1. \A n \in 0 .. N : g[n] = IF n = 0 THEN base ELSE Visit(rows, g[n - 1])
    <3>1. \A n \in 0 .. N : n = 0 \/ n \in 1 .. N
      BY <1>1
    <3> HIDE DEF base
    <3> QED BY <1>8, <3>1
  <2>2. g = [n \in 0 .. N |-> g[n]]
    BY <1>8
  <2> QED BY <2>1, <2>2
<1> DEFINE w == CHOOSE f : Runs(f)
<1>10. Runs(w)
  <2> HIDE DEF Runs
  <2> QED BY <1>9
<1> HIDE DEF w
<1>11. \A n \in 0 .. N : w[n] = IF n = 0 THEN base ELSE Visit(rows, w[n - 1])
  <2> DEFINE body == [n \in 0 .. N |-> IF n = 0 THEN base ELSE Visit(rows, w[n - 1])]
  <2>1. w = body
    BY <1>10
  <2>2. \A n \in 0 .. N : body[n] = IF n = 0 THEN base ELSE Visit(rows, w[n - 1])
    OBVIOUS
  <2> HIDE DEF body, base
  <2> QED BY <2>1, <2>2
<1> HIDE DEF Runs
<1>12. w[0] = base /\ \A n \in 1 .. N : w[n] = Visit(rows, w[n - 1])
  <2>1. 0 \in 0 .. N /\ \A n \in 1 .. N : n \in 0 .. N /\ n # 0
    BY <1>1
  <2> HIDE DEF base
  <2> QED BY <1>11, <2>1
<1>13. \A n \in 0 .. N : w[n] \in S
  <2> DEFINE P == {n \in 0 .. N : w[n] \in S}
  <2>1. 0 \in P
    <3> HIDE DEF base
    <3> QED BY <1>1, <1>2, <1>12
  <2>2. \A n \in 1 .. N : n - 1 \in P => n \in P
    <3>1. \A n \in 1 .. N : n \in 0 .. N
      OBVIOUS
    <3> HIDE DEF base
    <3> QED BY <1>3, <1>12, <3>1
  <2>3. \A n \in 0 .. N : n \in P
    <3> HIDE DEF P
    <3> QED BY <1>1, <2>1, <2>2, Climb
  <2> QED BY <2>3
<1>14. w[0].out = flat /\ w[0].todo = start
  <2> HIDE DEF base
  <2> QED BY <1>2, <1>12
<1>15. Built(rows, flat, start) = w[N].out
  BY <1>4 DEF w
<1>16. Walks(rows, flat, start, w)
  <2> HIDE DEF base
  <2> QED BY <1>12, <1>13, <1>14, <1>15 DEF Walks, N, S
<1> QED
  BY <1>16

\* Nothing waits at the end, since there are as many visits as departments.
LEMMA BuiltShows ==
  ASSUME NEW rows, Listed(rows), NEW flat \in Seq(Entry(rows)),
         NEW start \in Seq(Entry(rows)),
         Apart(rows, flat, start)
  PROVE  LET all == Built(rows, flat, start)
         IN  /\ all \in Seq(Entry(rows)) /\ Once(all)
             /\ Ids(flat) \union Ids(start) \subseteq Ids(all)
             /\ Reached(rows, flat, start) => Reached(rows, all, <<>>)
<1> DEFINE N == Cardinality(DOMAIN rows)
<1>1. N \in Nat /\ IsFiniteSet(DOMAIN rows)
  BY FS_CardinalityType DEF Listed
<1>2. PICK w : Walks(rows, flat, start, w)
  BY VisitsOfBuilt
<1>3. /\ \A n \in 0 .. N : w[n] \in Work(rows)
      /\ w[0].out = flat /\ w[0].todo = start
      /\ \A n \in 1 .. N : w[n] = Visit(rows, w[n - 1])
      /\ Built(rows, flat, start) = w[N].out
  BY <1>2 DEF Walks
<1> DEFINE good(s, n) ==
             /\ Apart(rows, s.out, s.todo)
             /\ Ids(flat) \union Ids(start) \subseteq Ids(s.out) \union Ids(s.todo)
             /\ Reached(rows, flat, start) => Reached(rows, s.out, s.todo)
             /\ s.todo = <<>> \/ Len(s.out) >= n
           P == {n \in 0 .. N : good(w[n], n)}
<1> HIDE DEF N
<1>4. 0 \in P
  <2>1. Len(flat) >= 0
    OBVIOUS
  <2>2. good(w[0], 0)
    BY <1>3, <2>1
  <2> HIDE DEF good
  <2> QED BY <1>1, <2>2
<1>5. ASSUME NEW n \in 1 .. N, n - 1 \in P PROVE n \in P
  <2> DEFINE s == w[n - 1]
             t == w[n]
  <2>1. n \in 0 .. N /\ n - 1 \in 0 .. N
    BY <1>1
  <2>2. t = Visit(rows, s) /\ s \in Work(rows) /\ t \in Work(rows)
    BY <1>3, <2>1
  <2>3. good(s, n - 1)
    BY <1>5
  <2> HIDE DEF s, t
  <2>4. CASE s.todo = <<>>
    <3>1. t = s
      BY <2>2, <2>4 DEF Visit
    <3>2. good(t, n)
      BY <2>3, <2>4, <3>1
    <3> HIDE DEF good
    <3> QED BY <2>1, <3>2 DEF t
  <2>5. CASE s.todo # <<>>
    <3>1. PICK row, kids : Visited(rows, s, t, row, kids)
      BY <2>2, <2>5, VisitOfOne
    <3>2. Apart(rows, t.out, t.todo) /\ OneShown(s, t, row, kids)
      BY <2>2, <2>3, <2>5, <3>1, VisitKeepsApart
    <3>3. Ids(s.out) \union Ids(s.todo) \subseteq Ids(t.out) \union Ids(t.todo)
      BY <3>2 DEF OneShown
    <3>4. Reached(rows, s.out, s.todo) => Reached(rows, t.out, t.todo)
      BY <2>2, <2>3, <2>5, <3>1, VisitKeepsReached
    <3>5. Len(t.out) >= n
      <4>1. Len(s.out) >= n - 1
        BY <2>3, <2>5
      <4> QED BY <3>2, <4>1 DEF OneShown
    <3>6. good(t, n)
      BY <2>3, <3>2, <3>3, <3>4, <3>5
    <3> HIDE DEF good
    <3> QED BY <2>1, <3>6 DEF t
  <2> QED BY <2>4, <2>5
<1>6. good(w[N], N)
  <2>1. \A n \in 0 .. N : n \in P
    <3> HIDE DEF P
    <3> QED BY <1>1, <1>4, <1>5, Climb
  <2>2. N \in 0 .. N
    BY <1>1
  <2> QED BY <2>1, <2>2
<1> DEFINE s == w[N]
<1>7. s \in Work(rows) /\ good(s, N) /\ Built(rows, flat, start) = s.out
  <2>1. N \in 0 .. N
    BY <1>1
  <2> HIDE DEF good
  <2> QED BY <1>3, <1>6, <2>1
<1> HIDE DEF s
<1>8. s.out \in Seq(Entry(rows)) /\ s.todo \in Seq(Entry(rows))
  BY <1>7 DEF Work
<1>9. s.todo = <<>>
  <2> SUFFICES ASSUME s.todo # <<>> PROVE FALSE
    OBVIOUS
  <2> DEFINE more == Append(s.out, Head(s.todo))
  <2>1. Len(s.out) >= N /\ Len(s.out) \in Nat
    BY <1>7, <1>8
  <2>2. Once(s.out) /\ Once(s.todo) /\ Ids(s.out) \intersect Ids(s.todo) = {}
    BY <1>7 DEF Apart
  <2>3. Head(s.todo) \in Entry(rows) /\ Head(s.todo).id \in Ids(s.todo)
    BY <1>8, <2>2, FirstAndRest
  <2>4. more \in Seq(Entry(rows)) /\ Once(more)
    BY <1>8, <2>2, <2>3, OneMore
  <2>5. Len(more) = Len(s.out) + 1
    BY <1>8, <2>3, AppendProperties
  <2> HIDE DEF more
  <2>6. Len(more) <= N
    BY <1>1, <2>4, OnceIsCounted DEF N
  <2> QED BY <1>1, <2>1, <2>5, <2>6
<1>10. Ids(s.todo) = {}
  BY <1>9 DEF Ids
<1>11. /\ s.out \in Seq(Entry(rows)) /\ Once(s.out)
       /\ Ids(flat) \union Ids(start) \subseteq Ids(s.out)
       /\ Reached(rows, flat, start) => Reached(rows, s.out, <<>>)
  BY <1>7, <1>8, <1>9, <1>10 DEF Apart
<1> QED
  BY <1>7, <1>11

Shown(rows) == {s \in Seq(Entry(rows)) : Once(s)}

\* What is cut loose is shown with it, and nothing that is shown is lost.
LEMMA CutLooseShows ==
  ASSUME NEW rows, Listed(rows), NEW flat \in Shown(rows), NEW d \in DOMAIN rows
  PROVE  /\ CutLoose(rows, flat, d) \in Shown(rows)
         /\ Ids(flat) \union {d} \subseteq Ids(CutLoose(rows, flat, d))
<1>1. CASE d \in Ids(flat)
  BY <1>1 DEF CutLoose
<1>2. CASE d \notin Ids(flat)
  <2> DEFINE start == <<[id |-> d, depth |-> 0]>>
  <2>1. /\ start \in Seq(Entry(rows)) /\ Len(start) = 1
        /\ DOMAIN start = {1} /\ start[1].id = d
    <3>1. [id |-> d, depth |-> 0] \in Entry(rows) /\ [id |-> d, depth |-> 0].id = d
      BY DEF Entry
    <3> DEFINE e == [id |-> d, depth |-> 0]
    <3> HIDE DEF e
    <3>2. <<e>> \in Seq(Entry(rows)) /\ Len(<<e>>) = 1 /\ DOMAIN <<e>> = {1} /\ <<e>>[1] = e
      BY <3>1 DEF e
    <3> QED BY <3>1, <3>2 DEF e
  <2>2. flat \in Seq(Entry(rows)) /\ Once(flat)
    BY DEF Shown
  <2>3. CutLoose(rows, flat, d) = Built(rows, flat, start)
    BY <1>2 DEF CutLoose
  <2> HIDE DEF start
  <2>4. Once(start) /\ Ids(start) = {d}
    BY <2>1 DEF Once, Ids
  <2>5. Len(start) <= 1
    BY <2>1
  <2>6. Apart(rows, flat, start)
    BY <1>2, <2>2, <2>4, <2>5 DEF Apart
  <2>7. /\ Built(rows, flat, start) \in Seq(Entry(rows)) /\ Once(Built(rows, flat, start))
        /\ Ids(flat) \union Ids(start) \subseteq Ids(Built(rows, flat, start))
    BY <2>1, <2>2, <2>6, BuiltShows
  <2> QED BY <2>3, <2>4, <2>7 DEF Shown
<1> QED
  BY <1>1, <1>2

UnderRoots(rows) == Built(rows, <<>>, At(Kids(rows, Root), 0))

\* What hangs under a root.
LEMMA RootsShow ==
  ASSUME NEW rows, Listed(rows)
  PROVE  /\ UnderRoots(rows) \in Shown(rows)
         /\ Kids(rows, Root) \subseteq Ids(UnderRoots(rows))
         /\ Reached(rows, UnderRoots(rows), <<>>)
<1> DEFINE ids == Kids(rows, Root)
           start == At(ids, 0)
<1>1. ids \in SUBSET DOMAIN rows /\ \A c \in ids : ShownParent(rows, c) = Root
  BY DEF Kids
<1> HIDE DEF ids
<1>2. /\ start \in Seq(Entry(rows)) /\ Once(start) /\ Ids(start) = ids
  <2>1. 0 \in Nat
    OBVIOUS
  <2> QED BY <1>1, <2>1, PutThere DEF Listed
<1> HIDE DEF start
<1>3. <<>> \in Seq(Entry(rows)) /\ Once(<<>>) /\ Ids(<<>>) = {} /\ DOMAIN <<>> = {}
  <2>1. DOMAIN <<>> = {}
    OBVIOUS
  <2> QED BY <2>1 DEF Once, Ids
<1>4. Apart(rows, <<>>, start)
  BY <1>1, <1>2, <1>3 DEF Apart
<1>5. Reached(rows, <<>>, start)
  <2>1. Placed(rows, <<>>, <<>>)
    BY <1>3 DEF Placed
  <2>2. Placed(rows, start, <<>>)
    <3>1. \A i \in DOMAIN start : start[i].id \in Ids(start)
      BY DEF Ids
    <3> QED BY <1>1, <1>2, <3>1 DEF Placed
  <2> QED BY <1>3, <2>1, <2>2 DEF Reached
<1>6. UnderRoots(rows) = Built(rows, <<>>, start)
  BY DEF UnderRoots, start, ids
<1>7. /\ Built(rows, <<>>, start) \in Seq(Entry(rows)) /\ Once(Built(rows, <<>>, start))
      /\ Ids(<<>>) \union Ids(start) \subseteq Ids(Built(rows, <<>>, start))
      /\ Reached(rows, <<>>, start) => Reached(rows, Built(rows, <<>>, start), <<>>)
  BY <1>2, <1>3, <1>4, BuiltShows
<1> QED
  BY <1>2, <1>5, <1>6, <1>7 DEF Shown, ids

Cuts(rows, cut) ==
  LET N == Cardinality(DOMAIN rows)
  IN  /\ \A n \in 0 .. N : cut[n] \in Shown(rows)
      /\ cut[0] = UnderRoots(rows)
      /\ \A n \in 1 .. N :
           cut[n] = CutLoose(rows, cut[n - 1], Sorted(DOMAIN rows, Before)[n])
      /\ Flat(rows) = cut[N]

\* The loose ones, one after the other.
LEMMA CutsOfFlat ==
  ASSUME NEW rows, Listed(rows)
  PROVE  \E cut : Cuts(rows, cut)
<1> DEFINE N == Cardinality(DOMAIN rows)
           S == Shown(rows)
           all == Sorted(DOMAIN rows, Before)
           base == UnderRoots(rows)
           step == [p \in (1 .. N) \X S |-> CutLoose(rows, p[2], all[p[1]])]
           Runs(f) == f = [n \in 0 .. N |->
                            IF n = 0 THEN Built(rows, <<>>, At(Kids(rows, Root), 0))
                            ELSE CutLoose(rows, f[n - 1], all[n])]
<1>1. N \in Nat
  BY FS_CardinalityType DEF Listed
<1>2. base \in S
  BY RootsShow
<1>3. all \in [1 .. N -> DOMAIN rows]
  <2>1. InOrderOf(all, DOMAIN rows, Before)
    BY SortedIsInOrder DEF Listed
  <2> QED BY <2>1 DEF InOrderOf
<1>4. Flat(rows) = (CHOOSE f : Runs(f))[N]
  BY DEF Flat
<1>5. base = Built(rows, <<>>, At(Kids(rows, Root), 0))
  BY DEF UnderRoots
<1> HIDE DEF all, base
<1>6. \A n \in 1 .. N, s \in S : CutLoose(rows, s, all[n]) \in S
  <2> SUFFICES ASSUME NEW n \in 1 .. N, NEW s \in S PROVE CutLoose(rows, s, all[n]) \in S
    OBVIOUS
  <2>1. all[n] \in DOMAIN rows
    BY <1>3
  <2> QED BY <2>1, CutLooseShows
<1> HIDE DEF N, S
<1>7. /\ step \in [(1 .. N) \X S -> S]
      /\ \A n \in 1 .. N, s \in S : step[<<n, s>>] = CutLoose(rows, s, all[n])
  BY <1>6
<1> HIDE DEF step
<1>8. PICK g : Computed(g, N, S, base, step)
  BY <1>1, <1>2, <1>7, Computation
<1>9. /\ g \in [0 .. N -> S] /\ g[0] = base
      /\ \A n \in 1 .. N : g[n] = CutLoose(rows, g[n - 1], all[n])
  <2>1. /\ g \in [0 .. N -> S] /\ g[0] = base
        /\ \A n \in 1 .. N : g[n] = step[<<n, g[n - 1]>>]
    BY <1>8 DEF Computed
  <2>2. \A n \in 1 .. N : n - 1 \in 0 .. N
    BY <1>1
  <2>3. \A n \in 1 .. N : g[n - 1] \in S
    BY <2>1, <2>2
  <2> QED BY <1>7, <2>1, <2>3
<1>10. Runs(g)
  <2>1. \A n \in 0 .. N : g[n] = IF n = 0 THEN base ELSE CutLoose(rows, g[n - 1], all[n])
    <3>1. \A n \in 0 .. N : n = 0 \/ n \in 1 .. N
      BY <1>1
    <3> QED BY <1>9, <3>1
  <2>2. g = [n \in 0 .. N |-> g[n]]
    BY <1>9
  <2> QED BY <1>5, <2>1, <2>2
<1> DEFINE cut == CHOOSE f : Runs(f)
<1>11. Runs(cut)
  <2> HIDE DEF Runs
  <2> QED BY <1>10
<1> HIDE DEF cut
<1>12. \A n \in 0 .. N : cut[n] = IF n = 0 THEN base ELSE CutLoose(rows, cut[n - 1], all[n])
  <2> DEFINE body == [n \in 0 .. N |->
                       IF n = 0 THEN base ELSE CutLoose(rows, cut[n - 1], all[n])]
  <2>1. cut = body
    BY <1>5, <1>11
  <2>2. \A n \in 0 .. N :
          body[n] = IF n = 0 THEN base ELSE CutLoose(rows, cut[n - 1], all[n])
    OBVIOUS
  <2> HIDE DEF body
  <2> QED BY <2>1, <2>2
<1> HIDE DEF Runs
<1>13. cut[0] = base /\ \A n \in 1 .. N : cut[n] = CutLoose(rows, cut[n - 1], all[n])
  <2>1. 0 \in 0 .. N /\ \A n \in 1 .. N : n \in 0 .. N /\ n # 0
    BY <1>1
  <2> QED BY <1>12, <2>1
<1>14. \A n \in 0 .. N : cut[n] \in S
  <2> DEFINE P == {n \in 0 .. N : cut[n] \in S}
  <2>1. 0 \in P
    BY <1>1, <1>2, <1>13
  <2>2. \A n \in 1 .. N : n - 1 \in P => n \in P
    <3>1. \A n \in 1 .. N : n \in 0 .. N
      OBVIOUS
    <3> QED BY <1>6, <1>13, <3>1
  <2>3. \A n \in 0 .. N : n \in P
    <3> HIDE DEF P
    <3> QED BY <1>1, <2>1, <2>2, Climb
  <2> QED BY <2>3
<1>15. Flat(rows) = cut[N]
  BY <1>4 DEF cut
<1> QED
  BY <1>13, <1>14, <1>15 DEF Cuts, N, S, all, base

\* Each department is there once, whatever hangs under what; and what is under the
\* roots is all there is when every one is.
LEMMA FlatShows ==
  ASSUME NEW rows, Listed(rows)
  PROVE  /\ Flat(rows) \in Shown(rows) /\ Ids(Flat(rows)) = DOMAIN rows
         /\ Ids(UnderRoots(rows)) = DOMAIN rows => Flat(rows) = UnderRoots(rows)
<1> DEFINE N == Cardinality(DOMAIN rows)
           all == Sorted(DOMAIN rows, Before)
<1>1. N \in Nat /\ IsFiniteSet(DOMAIN rows)
  BY FS_CardinalityType DEF Listed
<1>2. PICK cut : Cuts(rows, cut)
  BY CutsOfFlat
<1>3. /\ \A n \in 0 .. N : cut[n] \in Shown(rows)
      /\ cut[0] = UnderRoots(rows)
      /\ \A n \in 1 .. N : cut[n] = CutLoose(rows, cut[n - 1], all[n])
      /\ Flat(rows) = cut[N]
  BY <1>2 DEF Cuts
<1>4. /\ \A n \in 1 .. N : all[n] \in DOMAIN rows
      /\ \A d \in DOMAIN rows : \E i \in 1 .. N : all[i] = d
  <2>1. InOrderOf(all, DOMAIN rows, Before)
    BY SortedIsInOrder DEF Listed
  <2> QED BY <2>1 DEF InOrderOf
<1> HIDE DEF N, all
<1>5. \A n \in 1 .. N : n \in 0 .. N /\ n - 1 \in 0 .. N
  BY <1>1
<1>6. \A n \in 1 .. N : Ids(cut[n - 1]) \union {all[n]} \subseteq Ids(cut[n])
  BY <1>3, <1>4, <1>5, CutLooseShows
<1>7. N \in 0 .. N /\ 0 \in 0 .. N
  BY <1>1
<1>8. \A n \in 0 .. N : \A m \in 1 .. n : all[m] \in Ids(cut[n])
  <2> DEFINE P == {n \in 0 .. N : \A m \in 1 .. n : all[m] \in Ids(cut[n])}
  <2>1. 0 \in P
    BY <1>7
  <2>2. ASSUME NEW n \in 1 .. N, n - 1 \in P PROVE n \in P
    <3>1. \A m \in 1 .. n : m = n \/ m \in 1 .. (n - 1)
      BY <1>1
    <3> QED BY <1>5, <1>6, <2>2, <3>1
  <2>3. \A n \in 0 .. N : n \in P
    <3> HIDE DEF P
    <3> QED BY <1>1, <2>1, <2>2, Climb
  <2> QED BY <2>3
<1>9. Flat(rows) \in Seq(Entry(rows)) /\ Once(Flat(rows))
  BY <1>3, <1>7 DEF Shown
<1>10. Ids(Flat(rows)) = DOMAIN rows
  <2>1. Ids(Flat(rows)) \subseteq DOMAIN rows
    BY <1>1, <1>9, OnceIsCounted
  <2>2. \A d \in DOMAIN rows : d \in Ids(Flat(rows))
    BY <1>3, <1>4, <1>7, <1>8
  <2> QED BY <2>1, <2>2
<1>11. ASSUME Ids(UnderRoots(rows)) = DOMAIN rows PROVE Flat(rows) = UnderRoots(rows)
  <2> DEFINE P == {n \in 0 .. N : cut[n] = UnderRoots(rows)}
  <2>1. 0 \in P
    BY <1>3, <1>7
  <2>2. ASSUME NEW n \in 1 .. N, n - 1 \in P PROVE n \in P
    <3>1. all[n] \in Ids(cut[n - 1])
      BY <1>4, <1>11, <2>2
    <3>2. cut[n] = cut[n - 1]
      BY <1>3, <3>1 DEF CutLoose
    <3> QED BY <1>5, <2>2, <3>2
  <2>3. \A n \in 0 .. N : n \in P
    <3> HIDE DEF P
    <3> QED BY <1>1, <2>1, <2>2, Climb
  <2> QED BY <1>3, <1>7, <2>3
<1> QED
  BY <1>9, <1>10, <1>11 DEF Shown

-----------------------------------------------------------------------------
(* Forests                                                                 *)

\* What no root reaches would be below itself: of what is not shown take one with
\* the largest subtree.  Its parent is not shown either and has a larger one.
LEMMA ForestHangsUnderRoots ==
  ASSUME NEW rows, Listed(rows), IsForest(rows)
  PROVE  Ids(UnderRoots(rows)) = DOMAIN rows
<1> DEFINE N == Cardinality(DOMAIN rows)
           U == Ids(UnderRoots(rows))
           X == DOMAIN rows \ U
           size(d) == Cardinality(Subtree(rows, d))
<1>1. N \in Nat /\ IsFiniteSet(DOMAIN rows)
  BY FS_CardinalityType DEF Listed
<1>2. U \subseteq DOMAIN rows
  BY <1>1, RootsShow, OnceIsCounted DEF Shown
<1>3. \A d \in DOMAIN rows :
        IsFiniteSet(Subtree(rows, d)) /\ size(d) \in Nat /\ size(d) <= N
  <2> TAKE d \in DOMAIN rows
  <2>1. Subtree(rows, d) \in SUBSET DOMAIN rows
    BY <1>1, SubtreeIsClosed
  <2> QED BY <1>1, <2>1, FS_Subset, FS_CardinalityType
<1>4. ASSUME NEW c \in X
      PROVE  rows[c] \in X /\ size(c) < size(rows[c])
  <2>1. ShownParent(rows, c) # Root
    <3>1. c \notin Kids(rows, Root)
      BY RootsShow
    <3> QED BY <3>1 DEF Kids
  <2>2. rows[c] \in DOMAIN rows /\ ShownParent(rows, c) = rows[c]
    BY <2>1 DEF ShownParent
  <2>3. rows[c] \notin U
    <3>1. Reached(rows, UnderRoots(rows), <<>>)
      BY RootsShow
    <3>2. Ids(<<>>) = {}
      BY DEF Ids
    <3> QED BY <2>2, <3>1, <3>2 DEF Reached
  <2> DEFINE p == rows[c]
  <2>4. p \in X /\ c \in DOMAIN rows /\ rows[c] = p
    BY <2>2, <2>3
  <2> HIDE DEF p, U
  <2>5. p \in DOMAIN rows
    BY <2>4
  <2>6. /\ p \in Subtree(rows, p)
        /\ \A y \in DOMAIN rows : rows[y] \in Subtree(rows, p) => y \in Subtree(rows, p)
    BY <1>1, <2>5, SubtreeIsClosed
  <2>7. c \in Subtree(rows, p)
    BY <2>4, <2>6
  <2>8. Subtree(rows, c) \subseteq Subtree(rows, p)
    BY <1>1, <2>6, <2>7, SubtreeIsLeast
  <2>9. p \notin Subtree(rows, c)
    BY <2>4, <2>5 DEF IsForest
  <2>10. size(c) <= size(p) /\ size(c) # size(p)
    BY <1>3, <2>5, <2>6, <2>8, <2>9, FS_Subset
  <2>11. size(c) \in Nat /\ size(p) \in Nat
    BY <1>3, <2>4
  <2> HIDE DEF size
  <2>12. size(c) < size(p)
    BY <2>10, <2>11
  <2> QED BY <2>4, <2>12 DEF p
<1> HIDE DEF N, U, size
<1>5. X = {}
  <2> SUFFICES ASSUME X # {} PROVE FALSE
    OBVIOUS
  <2> DEFINE left == {N - size(x) : x \in X}
  <2>1. \A x \in X : size(x) \in Nat /\ N - size(x) \in Nat
    BY <1>1, <1>3
  <2>2. left \in SUBSET Nat /\ left # {}
    BY <2>1
  <2>3. PICK m \in left : \A j \in left : m <= j
    <3> HIDE DEF left
    <3> QED BY <2>2, SmallestOf
  <2>4. PICK d \in X : m = N - size(d)
    BY <2>3
  <2>5. rows[d] \in X /\ size(d) < size(rows[d])
    BY <1>4
  <2>6. N - size(d) <= N - size(rows[d])
    BY <2>3, <2>4, <2>5
  <2> QED BY <1>1, <2>1, <2>5, <2>6
<1> QED
  BY <1>2, <1>5 DEF U

Depth(flat, d) == flat[CHOOSE i \in DOMAIN flat : flat[i].id = d].depth

\* Where no cycle is, each is one deeper than its parent.
LEMMA ChildrenAreDeeper ==
  ASSUME NEW rows, Listed(rows), IsForest(rows)
  PROVE  /\ \A d \in DOMAIN rows : Depth(Flat(rows), d) \in Nat
         /\ \A c \in DOMAIN rows : rows[c] \in DOMAIN rows =>
              Depth(Flat(rows), c) = Depth(Flat(rows), rows[c]) + 1
<1> DEFINE flat == Flat(rows)
           at(d) == CHOOSE i \in DOMAIN flat : flat[i].id = d
<1>1. flat \in Seq(Entry(rows)) /\ Once(flat) /\ Ids(flat) = DOMAIN rows
  BY FlatShows DEF Shown
<1>2. Placed(rows, flat, flat)
  <2>1. flat = UnderRoots(rows)
    BY ForestHangsUnderRoots, FlatShows
  <2>2. Reached(rows, UnderRoots(rows), <<>>)
    BY RootsShow
  <2> QED BY <2>1, <2>2 DEF Reached
<1> HIDE DEF flat
<1>3. \A d \in DOMAIN rows : at(d) \in DOMAIN flat /\ flat[at(d)].id = d
  <2> TAKE d \in DOMAIN rows
  <2>1. \E i \in DOMAIN flat : flat[i].id = d
    BY <1>1 DEF Ids
  <2> QED BY <2>1
<1>4. \A d : Depth(flat, d) = flat[at(d)].depth
  BY DEF Depth
<1> HIDE DEF at
<1>5. \A d \in DOMAIN rows : Depth(flat, d) \in Nat
  <2>1. \A i \in DOMAIN flat : flat[i] \in Entry(rows)
    BY <1>1
  <2>2. \A i \in DOMAIN flat : flat[i].depth \in Nat
    BY <2>1 DEF Entry
  <2> QED BY <1>3, <1>4, <2>2
<1>6. ASSUME NEW c \in DOMAIN rows, rows[c] \in DOMAIN rows
      PROVE  Depth(flat, c) = Depth(flat, rows[c]) + 1
  <2>1. rows[c] # c
    <3>1. c \in Subtree(rows, c)
      BY SubtreeIsClosed DEF Listed
    <3> QED BY <3>1 DEF IsForest
  <2>2. ShownParent(rows, c) = rows[c] /\ rows[c] # Root
    BY <1>6, <2>1 DEF ShownParent, Listed
  <2>3. PICK j \in DOMAIN flat :
          flat[j].id = rows[c] /\ flat[at(c)].depth = flat[j].depth + 1
    BY <1>2, <1>3, <2>2 DEF Placed
  <2>4. j = at(rows[c])
    BY <1>1, <1>3, <1>6, <2>3 DEF Once
  <2> QED BY <1>4, <2>3, <2>4
<1> QED
  BY <1>5, <1>6 DEF flat

\* A subtree is deleted whole, each before what it hangs under.
LEMMA DeletedFromBelow ==
  ASSUME NEW rows, Listed(rows), IsForest(rows), NEW d \in DOMAIN rows
  PROVE  LET order == DeleteOrder(rows, d)
         IN  /\ ToSet(order) = Subtree(rows, d)
             /\ \A i, j \in DOMAIN order : rows[order[i]] = order[j] => i < j
<1> DEFINE S == Subtree(rows, d)
           ids == S \intersect DOMAIN rows
           less == Deeper(Flat(rows), ids)
           order == DeleteOrder(rows, d)
           N == Cardinality(ids)
           depth(x) == Depth(Flat(rows), x)
<1>1. S \subseteq DOMAIN rows
  BY SubtreeIsClosed DEF Listed
<1>2. order = Sorted(ids, less)
  BY DEF DeleteOrder
<1>3. \A a, b \in ids : <<a, b>> \in less <=>
        depth(a) > depth(b) \/ (depth(a) = depth(b) /\ <<a, b>> \in Before)
  BY DEF Deeper, Depth
<1>4. \A x \in ids : depth(x) \in Nat
  BY ChildrenAreDeeper
<1>5. \A c \in ids : rows[c] \in ids => depth(c) = depth(rows[c]) + 1
  BY ChildrenAreDeeper
<1>6. ids \subseteq DOMAIN rows /\ ids = S
  BY <1>1
<1> HIDE DEF S, ids, less, order, depth
<1>7. IsFiniteSet(ids)
  BY <1>6, FS_Subset DEF Listed
<1>8. Orders(less, ids)
  <2> SUFFICES ASSUME NEW a \in ids, NEW b \in ids, NEW c \in ids
               PROVE  /\ <<a, a>> \notin less
                      /\ a # b => <<a, b>> \in less \/ <<b, a>> \in less
                      /\ <<a, b>> \in less /\ <<b, c>> \in less => <<a, c>> \in less
    BY DEF Orders
  <2>1. /\ <<a, a>> \notin Before
        /\ a # b => <<a, b>> \in Before \/ <<b, a>> \in Before
        /\ <<a, b>> \in Before /\ <<b, c>> \in Before => <<a, c>> \in Before
    BY <1>6 DEF Listed, Orders
  <2>2. depth(a) \in Nat /\ depth(b) \in Nat /\ depth(c) \in Nat
    BY <1>4
  <2>3. <<a, a>> \notin less
    BY <1>3, <2>1, <2>2
  <2>4. a # b => <<a, b>> \in less \/ <<b, a>> \in less
    BY <1>3, <2>1, <2>2
  <2>5. <<a, b>> \in less /\ <<b, c>> \in less => <<a, c>> \in less
    BY <1>3, <2>1, <2>2
  <2> QED BY <2>3, <2>4, <2>5
<1>9. InOrderOf(order, ids, less)
  BY <1>2, <1>7, <1>8, SortedIsInOrder
<1>10. /\ order \in [1 .. N -> ids]
       /\ \A x \in ids : \E i \in 1 .. N : order[i] = x
       /\ \A i, j \in 1 .. N : <<order[i], order[j]>> \in less => i < j
  BY <1>9 DEF InOrderOf
<1> HIDE DEF N
<1>11. ToSet(order) = ids
  <2>1. \A x : x \in ToSet(order) <=> \E i \in DOMAIN order : x = order[i]
    BY DEF ToSet
  <2>2. DOMAIN order = 1 .. N /\ \A i \in 1 .. N : order[i] \in ids
    BY <1>10
  <2>3. \A x \in ToSet(order) : x \in ids
    BY <2>1, <2>2
  <2>4. \A x \in ids : x \in ToSet(order)
    BY <1>10, <2>1, <2>2
  <2> QED BY <2>3, <2>4
<1>12. ASSUME NEW i \in DOMAIN order, NEW j \in DOMAIN order, rows[order[i]] = order[j]
       PROVE  i < j
  <2>1. i \in 1 .. N /\ j \in 1 .. N /\ order[i] \in ids /\ order[j] \in ids
    BY <1>10
  <2>2. depth(order[i]) = depth(order[j]) + 1
    BY <1>5, <1>12, <2>1
  <2>3. depth(order[i]) > depth(order[j])
    BY <1>4, <2>1, <2>2
  <2>4. <<order[i], order[j]>> \in less
    BY <1>3, <2>1, <2>3
  <2> QED BY <1>10, <2>1, <2>4
<1> QED
  BY <1>6, <1>11, <1>12 DEF S, order

\* The list is all of them, and where no cycle is a subtree is deleted from below.
LEMMA ShownWhole ==
  ASSUME NEW rows, Listed(rows)
  PROVE  LET flat == Flat(rows)
         IN  /\ Len(flat) = Cardinality(DOMAIN rows) /\ Ids(flat) = DOMAIN rows
             /\ IsForest(rows) => \A d \in DOMAIN rows :
                  LET order == DeleteOrder(rows, d) IN
                  /\ ToSet(order) = Subtree(rows, d)
                  /\ \A i, j \in DOMAIN order : rows[order[i]] = order[j] => i < j
<1>1. Flat(rows) \in Seq(Entry(rows)) /\ Once(Flat(rows)) /\ Ids(Flat(rows)) = DOMAIN rows
  BY FlatShows DEF Shown
<1>2. Len(Flat(rows)) = Cardinality(DOMAIN rows)
  BY <1>1, OnceIsCounted DEF Listed
<1>3. ASSUME IsForest(rows), NEW d \in DOMAIN rows
      PROVE  /\ ToSet(DeleteOrder(rows, d)) = Subtree(rows, d)
             /\ \A i, j \in DOMAIN DeleteOrder(rows, d) :
                  rows[DeleteOrder(rows, d)[i]] = DeleteOrder(rows, d)[j] => i < j
  BY <1>3, DeletedFromBelow
<1> QED
  BY <1>1, <1>2, <1>3

-----------------------------------------------------------------------------
(* The invariant                                                           *)

\* What a request under way holds.
AnyChange == [email : Emails \union {Keep}, role : Roles \union {Keep},
              dept : Depts \union {Null, Keep}]

RequestOK(q) ==
  \/ q = Idle
  \/ q.op = "create" /\ q.parent \in Depts \union {Root} /\ q.name \in Names
  \/ /\ q.op = "change" /\ q.id \in Depts
     /\ q.parent \in Depts \union {Root, Keep} /\ q.name \in Names \union {Keep}
  \/ q.op = "delete" /\ q = [op |-> "delete", order |-> q.order]
  \/ q.op = "employee" /\ q.id \in Emps /\ q.change \in AnyChange
  \/ q.op = "fire" /\ q.id \in Emps
  \/ q.op = "list"

TablesOK ==
  /\ dept \in [Depts -> DeptRow \union {Null}]
  /\ emp \in [Emps -> EmpRow \union {Null}]
  /\ account \in [Accounts -> Emails \union {Null}]

TypeOK ==
  /\ TablesOK
  /\ req = [r \in Requests |-> req[r]]
  /\ \A r \in Requests : RequestOK(req[r])

\* The keys of the tables.
KeysHold ==
  \A d \in Present(dept) : dept[d].parent \in Present(dept) \union {Root}

AnotherAdmin(e) == \E x \in Present(emp) \ {e} : emp[x].role = "admin"

\* What a request has read and judged is still so.
StillHolds(q) ==
  /\ q.op = "create" => Siblings(q.parent, q.name) = {}
  /\ q.op = "change" =>
       /\ q.id \in Present(dept)
       /\ q.parent # Keep => q.parent = Root \/ q.parent \notin Subtree(Parents, q.id)
       /\ LET next == Changed(dept[q.id], q)
          IN  Siblings(next.parent, next.name) \subseteq {q.id}
  /\ q.op \in {"employee", "fire"} =>
       q.id \in Present(emp) /\ q.account = emp[q.id].account
  /\ q.op = "employee" =>
       q.seen = emp[q.id].email /\ (q.change.role = "staff" => AnotherAdmin(q.id))
  /\ q.op = "fire" => AnotherAdmin(q.id)
  /\ q.op = "list" => q.gone = list[q.of]

OneRequest == \A r, s \in Requests : req[r] # Idle /\ req[s] # Idle => r = s

\* What the tables are when no requests overlap.
Sound ==
  /\ ATree(dept)
  /\ AnAdmin(emp)
  /\ Matched(emp, account)
  /\ \A e \in Present(emp) : emp[e].account \in Present(account) \union {Null}
  /\ list = asked

InOrder == OneRequest /\ Sound /\ \A r \in Requests : StillHolds(req[r])

Inv == TypeOK /\ KeysHold /\ (overlap \/ InOrder)

-----------------------------------------------------------------------------
(* Requests                                                                *)

LEMMA IdleHolds == RequestOK(Idle) /\ StillHolds(Idle)
  BY DEF RequestOK, StillHolds, Idle

\* A request that begins: when none overlaps there is no other.
LEMMA Beginning ==
  ASSUME Inv, NEW r \in Requests, NEW it, RequestOK(it), Begin(r, it)
  PROVE  /\ req' = [s \in Requests |-> req'[s]]
         /\ \A s \in Requests : RequestOK(req'[s])
         /\ ~overlap' => /\ InOrder
                         /\ \A s \in Requests : req'[s] = IF s = r THEN it ELSE Idle
<1>1. /\ req[r] = Idle /\ req' = [req EXCEPT ![r] = it]
      /\ overlap' = (overlap \/ \E s \in Requests : req[s] # Idle)
  BY DEF Begin
<1>2. /\ req' = [s \in Requests |-> IF s = r THEN it ELSE req[s]]
      /\ \A s \in Requests : RequestOK(req[s])
  BY <1>1 DEF Inv, TypeOK
<1>3. \A s \in Requests : req'[s] = IF s = r THEN it ELSE req[s]
  BY <1>2
<1>4. ~overlap' => ~overlap /\ \A s \in Requests : req[s] = Idle
  BY <1>1
<1>5. req' = [s \in Requests |-> req'[s]]
  BY <1>2
<1>6. \A s \in Requests : RequestOK(req'[s])
  BY <1>2, <1>3
<1>7. ~overlap' => InOrder
  BY <1>4 DEF Inv
<1> QED
  BY <1>3, <1>4, <1>5, <1>6, <1>7

\* One that ends: when none has overlapped there is none left.
LEMMA Ending ==
  ASSUME Inv, NEW r \in Requests, req[r] # Idle, End(r)
  PROVE  /\ req' = [s \in Requests |-> req'[s]]
         /\ \A s \in Requests : RequestOK(req'[s])
         /\ ~overlap' => InOrder /\ \A s \in Requests : req'[s] = Idle
<1>1. /\ req' = [s \in Requests |-> IF s = r THEN Idle ELSE req[s]]
      /\ overlap' = overlap
      /\ \A s \in Requests : RequestOK(req[s])
  BY DEF End, Inv, TypeOK
<1>2. \A s \in Requests : req'[s] = IF s = r THEN Idle ELSE req[s]
  BY <1>1
<1>3. req' = [s \in Requests |-> req'[s]]
  BY <1>1
<1>4. \A s \in Requests : RequestOK(req'[s])
  BY <1>1, <1>2, IdleHolds
<1>5. ~overlap' => InOrder
  BY <1>1 DEF Inv
<1>6. ~overlap' => \A s \in Requests : s # r => req[s] = Idle
  BY <1>5 DEF InOrder, OneRequest
<1> QED
  BY <1>2, <1>3, <1>4, <1>5, <1>6

\* In order, one request under way is all there is to look at.
LEMMA OnlyOne ==
  ASSUME NEW r \in Requests, NEW it,
         \A s \in Requests : req'[s] = IF s = r THEN it ELSE Idle
  PROVE  OneRequest' /\ (StillHolds(it)' => \A s \in Requests : StillHolds(req[s])')
<1>1. OneRequest'
  BY DEF OneRequest
<1>2. ASSUME StillHolds(it)', NEW s \in Requests PROVE StillHolds(req[s])'
  <2>1. StillHolds(Idle)'
    BY DEF StillHolds, Idle
  <2>2. CASE s = r
    BY <1>2, <2>2 DEF StillHolds
  <2>3. CASE s # r
    <3>1. req'[s] = Idle
      BY <2>3
    <3> QED BY <2>1, <3>1 DEF StillHolds
  <2> QED BY <2>2, <2>3
<1> QED
  BY <1>1, <1>2

\* A step that begins a request and changes no table.
LEMMA BeginKeeps ==
  ASSUME Inv, NEW r \in Requests, NEW it, RequestOK(it), Begin(r, it),
         UNCHANGED <<dept, emp, account, list, asked>>,
         InOrder => StillHolds(it)
  PROVE  Inv'
<1>1. TypeOK' /\ KeysHold'
  BY Beginning DEF Inv, TypeOK, TablesOK, KeysHold
<1>2. ASSUME ~overlap' PROVE InOrder'
  <2>1. InOrder /\ \A s \in Requests : req'[s] = IF s = r THEN it ELSE Idle
    BY <1>2, Beginning
  <2>2. StillHolds(it)'
    BY <2>1 DEF StillHolds, Siblings, Changed, Parents, AnotherAdmin
  <2>3. OneRequest' /\ \A s \in Requests : StillHolds(req[s])'
    BY <2>1, <2>2, OnlyOne
  <2> QED BY <2>1, <2>3 DEF InOrder, Sound
<1> QED
  BY <1>1, <1>2 DEF Inv

-----------------------------------------------------------------------------
(* The steps that read                                                     *)

LEMMA CreateReadKeeps ==
  ASSUME Inv, NEW r \in Requests, NEW p \in Depts \union {Root}, NEW n \in Names,
         CreateRead(r, p, n)
  PROVE  Inv'
<1> DEFINE it == [op |-> "create", parent |-> p, name |-> n]
<1>1. /\ Siblings(p, n) = {} /\ Begin(r, it)
      /\ UNCHANGED <<dept, emp, account, list, asked>>
  BY DEF CreateRead
<1>2. RequestOK(it) /\ StillHolds(it)
  BY <1>1 DEF RequestOK, StillHolds
<1> HIDE DEF it
<1> QED
  BY <1>1, <1>2, BeginKeeps

LEMMA ChangeReadKeeps ==
  ASSUME Inv, NEW r \in Requests, NEW d \in Depts, NEW p \in Depts \union {Root, Keep},
         NEW n \in Names \union {Keep}, ChangeRead(r, d, p, n)
  PROVE  Inv'
<1> DEFINE it == [op |-> "change", id |-> d, parent |-> p, name |-> n]
           asks == [parent |-> p, name |-> n]
<1>1. /\ d \in Present(dept) /\ Begin(r, it)
      /\ p # Keep => MayMove(d, p)
      /\ Siblings(Changed(dept[d], asks).parent, Changed(dept[d], asks).name) \subseteq {d}
      /\ UNCHANGED <<dept, emp, account, list, asked>>
  BY DEF ChangeRead
<1>2. Changed(dept[d], asks) = Changed(dept[d], it)
  BY DEF Changed
<1>3. RequestOK(it)
  BY DEF RequestOK
<1>4. StillHolds(it)
  BY <1>1, <1>2 DEF StillHolds, MayMove
<1> HIDE DEF it
<1> QED
  BY <1>1, <1>3, <1>4, BeginKeeps

LEMMA DeleteSubtreeKeeps ==
  ASSUME Inv, NEW r \in Requests, NEW d, DeleteSubtree(r, d)
  PROVE  Inv'
<1> DEFINE it == [op |-> "delete", order |-> DeleteOrder(Parents, d)]
<1>1. /\ Begin(r, it)
      /\ UNCHANGED <<dept, emp, account, list, asked>>
  BY DEF DeleteSubtree
<1>2. RequestOK(it) /\ StillHolds(it)
  BY DEF RequestOK, StillHolds
<1> HIDE DEF it
<1> QED
  BY <1>1, <1>2, BeginKeeps

\* An administrator's request that takes the role from another leaves his own, and
\* one that gives it up himself was not the last.
LEMMA AdminsRemain ==
  ASSUME NEW by \in Admins, NEW e \in Present(emp), NEW role,
         role = "staff" => MayStepDown(by, e, role),
         role = "staff" \/ emp[e].account # by
  PROVE  AnotherAdmin(e)
<1>1. PICK x \in Present(emp) : emp[x].role = "admin" /\ emp[x].account = by
  BY DEF Admins
<1>2. CASE x # e
  BY <1>1, <1>2 DEF AnotherAdmin
<1>3. CASE x = e
  <2> DEFINE all == {y \in Present(emp) : emp[y].role = "admin"}
  <2>1. Cardinality(all) > 1
    BY <1>1, <1>3 DEF MayStepDown
  <2>2. Cardinality({e}) = 1
    BY FS_Singleton
  <2>3. all # {e}
    <3> HIDE DEF all
    <3> QED BY <2>1, <2>2
  <2>4. e \in all
    BY <1>1, <1>3
  <2>5. PICK y \in all : y # e
    <3> HIDE DEF all
    <3> QED BY <2>3, <2>4
  <2> QED BY <2>5 DEF AnotherAdmin
<1> QED
  BY <1>2, <1>3

LEMMA EmployeeReadKeeps ==
  ASSUME Inv, NEW r \in Requests, NEW by, NEW e \in Emps,
         NEW change \in Forms \union RoleChanges \union Assignments,
         EmployeeRead(r, by, e, change)
  PROVE  Inv'
<1> DEFINE it == [op |-> "employee", id |-> e, change |-> change,
                  seen |-> emp[e].email, account |-> emp[e].account]
<1>1. /\ by \in Admins /\ e \in Present(emp) /\ MayStepDown(by, e, change.role)
      /\ Begin(r, it)
      /\ UNCHANGED <<dept, emp, account, list, asked>>
  BY DEF EmployeeRead
<1>2. change \in AnyChange
  BY DEF Forms, RoleChanges, Assignments, AnyChange
<1>3. RequestOK(it)
  BY <1>2 DEF RequestOK
<1>4. change.role = "staff" => AnotherAdmin(e)
  BY <1>1, AdminsRemain
<1>5. StillHolds(it)
  BY <1>1, <1>4 DEF StillHolds
<1> HIDE DEF it
<1> QED
  BY <1>1, <1>3, <1>5, BeginKeeps

LEMMA FireReadKeeps ==
  ASSUME Inv, NEW r \in Requests, NEW by, NEW e \in Emps, FireRead(r, by, e)
  PROVE  Inv'
<1> DEFINE it == [op |-> "fire", id |-> e, account |-> emp[e].account]
<1>1. /\ by \in Admins /\ e \in Present(emp) /\ emp[e].account # by
      /\ Begin(r, it)
      /\ UNCHANGED <<dept, emp, account, list, asked>>
  BY DEF FireRead
<1>2. RequestOK(it)
  BY DEF RequestOK
<1>3. AnotherAdmin(e)
  <2>1. "admin" = "staff" => MayStepDown(by, e, "admin")
    OBVIOUS
  <2> QED BY <1>1, <2>1, AdminsRemain
<1>4. StillHolds(it)
  BY <1>1, <1>3 DEF StillHolds
<1> HIDE DEF it
<1> QED
  BY <1>1, <1>2, <1>4, BeginKeeps

LEMMA SubmitKeeps ==
  ASSUME Inv, NEW r \in Requests, NEW l, NEW ids,
         \/ \E p \in Pages : SubmitPage(r, p, ids) 
         \/ SubmitRecipients(r, l, ids)
  PROVE  Inv'
<1>1. PICK of, p : /\ Begin(r, [op |-> "list", of |-> of, ids |-> ids, page |-> p,
                                gone |-> list[of]])
                   /\ UNCHANGED <<dept, emp, account, list, asked>>
  BY DEF SubmitPage, SubmitRecipients
<1> DEFINE it == [op |-> "list", of |-> of, ids |-> ids, page |-> p, gone |-> list[of]]
<1>2. RequestOK(it) /\ StillHolds(it)
  BY DEF RequestOK, StillHolds
<1> HIDE DEF it
<1> QED
  BY <1>1, <1>2, BeginKeeps DEF it

-----------------------------------------------------------------------------
(* The steps that write                                                    *)

\* A step that ends a request, or is a request of its own: no other is there when none
\* overlaps, so that only the tables are to be looked at.
LEMMA Settles ==
  ASSUME Inv, NEW r \in Requests,
         (req[r] # Idle /\ End(r)) \/ AtOnce(r),
         TablesOK', KeysHold', InOrder => Sound'
  PROVE  Inv'
<1>1. /\ req' = [s \in Requests |-> req'[s]]
      /\ \A s \in Requests : RequestOK(req'[s])
      /\ ~overlap' => InOrder /\ \A s \in Requests : req'[s] = Idle
  <2>1. CASE req[r] # Idle /\ End(r)
    BY <2>1, Ending
  <2>2. CASE AtOnce(r)
    BY <2>2, Beginning, IdleHolds DEF AtOnce
  <2> QED BY <2>1, <2>2
<1>2. TypeOK'
  BY <1>1 DEF TypeOK
<1>3. ASSUME ~overlap' PROVE InOrder'
  <2>1. Sound' /\ \A s \in Requests : req'[s] = IF s = r THEN Idle ELSE Idle
    BY <1>1, <1>3
  <2>2. StillHolds(Idle)'
    BY DEF StillHolds, Idle
  <2>3. OneRequest' /\ \A s \in Requests : StillHolds(req[s])'
    BY <2>1, <2>2, OnlyOne
  <2> QED BY <2>1, <2>3 DEF InOrder
<1> QED
  BY <1>2, <1>3 DEF Inv

LEMMA CreateWriteKeeps ==
  ASSUME Inv, NEW r \in Requests, CreateWrite(r)
  PROVE  Inv'
<1> DEFINE q == req[r]
           new == [parent |-> q.parent, name |-> q.name]
<1>1. /\ q.op = "create" /\ End(r)
      /\ UNCHANGED <<emp, account, list, asked>>
  BY DEF CreateWrite
<1>2. q # Idle /\ q.parent \in Depts \union {Root} /\ q.name \in Names
  BY <1>1 DEF Inv, TypeOK, RequestOK, Idle
<1>3. TablesOK
  BY DEF Inv, TypeOK
<1>4. CASE UNCHANGED dept
  <2>1. TablesOK' /\ KeysHold' /\ (InOrder => Sound')
    BY <1>1, <1>3, <1>4 DEF Inv, InOrder, TablesOK, KeysHold, Sound
  <2> QED BY <1>1, <1>2, <2>1, Settles
<1>5. ASSUME q.parent \in Present(dept) \union {Root},
             NEW d \in Depts \ Present(dept), dept' = [dept EXCEPT ![d] = new]
      PROVE  Inv'
  <2>1. new \in DeptRow /\ new # Null
    BY <1>2, NullAssumption DEF DeptRow
  <2>2. /\ dept[d] = Null
        /\ dept' \in [Depts -> DeptRow \union {Null}]
        /\ \A x \in Depts : dept'[x] = IF x = d THEN new ELSE dept[x]
    <3> HIDE DEF new
    <3> QED BY <1>3, <1>5, <2>1 DEF TablesOK, Present
  <2>3. TablesOK'
    BY <1>1, <1>3, <2>2 DEF TablesOK
  <2>4. Present(dept') = Present(dept) \union {d}
    <3> HIDE DEF new
    <3> QED BY <1>3, <2>1, <2>2 DEF TablesOK, Present
  <2>5. KeysHold'
    <3>1. \A x \in Present(dept') : dept'[x].parent \in Present(dept) \union {Root}
      <4> TAKE x \in Present(dept')
      <4>1. CASE x = d
        BY <1>5, <2>2, <4>1
      <4>2. CASE x # d
        <5>1. x \in Present(dept) /\ x \in Depts
          BY <2>4, <4>2, <1>3 DEF Present, TablesOK
        <5>2. dept'[x] = dept[x]
          <6> HIDE DEF new
          <6> QED BY <2>2, <4>2, <5>1
        <5> QED BY <5>1, <5>2 DEF Inv, KeysHold
      <4> QED BY <4>1, <4>2
    <3> QED BY <3>1, <2>4 DEF KeysHold
  <2>6. ASSUME InOrder PROVE Sound'
    <3>1. IsForest(ParentsOf(dept'))
      <4> DEFINE rows == ParentsOf(dept)
                 more == ParentsOf(dept')
      <4>1. /\ DOMAIN rows = Present(dept) /\ DOMAIN more = Present(dept) \union {d}
            /\ \A x \in Present(dept) : rows[x] = dept[x].parent
            /\ \A x \in Present(dept) \union {d} : more[x] = dept'[x].parent
        BY <2>4 DEF ParentsOf
      <4>2. IsFiniteSet(Present(dept)) /\ Present(dept) \subseteq Depts
        <5>1. Present(dept) \subseteq Depts
          BY <1>3 DEF Present, TablesOK
        <5> QED BY <5>1, DeptsAssumption, FS_Subset
      <4>3. \A x \in Present(dept) : more[x] = rows[x]
        BY <2>2, <4>1, <4>2
      <4>4. \A x \in Present(dept) : rows[x] # d
        BY <4>1, DeptsAssumption DEF Inv, KeysHold
      <4>5. more[d] # d
        <5>1. dept'[d] = new
          <6> HIDE DEF new
          <6> QED BY <2>2
        <5>2. new.parent # d
          BY <1>5, DeptsAssumption
        <5> HIDE DEF new, more
        <5> QED BY <4>1, <5>1, <5>2
      <4>6. IsForest(rows)
        BY <2>6 DEF InOrder, Sound, ATree
      <4> HIDE DEF rows, more
      <4>7. IsForest(more)
        BY <4>1, <4>2, <4>3, <4>4, <4>5, <4>6, ForestWithOneMore
      <4> QED BY <4>7 DEF more
    <3>2. ASSUME NEW c \in Present(dept'), NEW x \in Present(dept'), dept'[c] = dept'[x]
          PROVE  c = x
      <4>1. \A y \in Present(dept) : dept[y] # new
        BY <2>6, <1>1 DEF InOrder, StillHolds, Siblings
      <4>2. \A y \in Present(dept) : y # d /\ dept'[y] = dept[y]
        <5> HIDE DEF new
        <5> QED BY <2>2, <1>3 DEF Present, TablesOK
      <4>3. dept'[d] = new
        BY <2>2
      <4>4. \A y, z \in Present(dept) : dept[y] = dept[z] => y = z
        BY <2>6 DEF InOrder, Sound, ATree
      <4> HIDE DEF new
      <4> QED BY <3>2, <2>4, <4>1, <4>2, <4>3, <4>4
    <3> QED BY <3>1, <3>2, <1>1, <2>6 DEF InOrder, Sound, ATree
  <2> QED BY <1>1, <1>2, <2>3, <2>5, <2>6, Settles
<1>6. UNCHANGED dept \/ (/\ q.parent \in Present(dept) \union {Root}
                         /\ \E d \in Depts \ Present(dept) : dept' = [dept EXCEPT ![d] = new])
  BY DEF CreateWrite
<1> QED
  BY <1>4, <1>5, <1>6

LEMMA ChangeWriteKeeps ==
  ASSUME Inv, NEW r \in Requests, ChangeWrite(r)
  PROVE  Inv'
<1> DEFINE q == req[r]
           d == q.id
           new == Changed(dept[d], q)
<1>1. /\ q.op = "change" /\ End(r)
      /\ UNCHANGED <<emp, account, list, asked>>
  BY DEF ChangeWrite
<1>2. /\ q # Idle /\ d \in Depts
      /\ q.parent \in Depts \union {Root, Keep} /\ q.name \in Names \union {Keep}
  BY <1>1 DEF Inv, TypeOK, RequestOK, Idle
<1>3. TablesOK
  BY DEF Inv, TypeOK
<1>4. CASE UNCHANGED dept
  <2>1. TablesOK' /\ KeysHold' /\ (InOrder => Sound')
    BY <1>1, <1>3, <1>4 DEF Inv, InOrder, TablesOK, KeysHold, Sound
  <2> QED BY <1>1, <1>2, <2>1, Settles
<1>5. ASSUME d \in Present(dept), q.parent \in Present(dept) \union {Root, Keep},
             dept' = [dept EXCEPT ![d] = new]
      PROVE  Inv'
  <2>1. /\ dept[d] \in DeptRow
        /\ dept[d].parent \in Present(dept) \union {Root}
    BY <1>2, <1>3, <1>5 DEF TablesOK, Present, Inv, KeysHold
  <2>2. /\ new \in DeptRow
        /\ new.parent \in Present(dept) \union {Root}
        /\ new.parent = IF q.parent = Keep THEN dept[d].parent ELSE q.parent
    <3>1. dept[d].parent \in Depts \union {Root} /\ dept[d].name \in Names
      BY <2>1 DEF DeptRow
    <3>2. /\ new.parent = IF q.parent = Keep THEN dept[d].parent ELSE q.parent
          /\ new.name = IF q.name = Keep THEN dept[d].name ELSE q.name
          /\ new = [parent |-> new.parent, name |-> new.name]
      BY DEF Changed
    <3>3. new.parent \in Depts \union {Root} /\ new.name \in Names
      <4> HIDE DEF new, q
      <4> QED BY <1>2, <3>1, <3>2
    <3>4. new.parent \in Present(dept) \union {Root}
      <4> HIDE DEF new, q
      <4> QED BY <1>5, <2>1, <3>2
    <3> HIDE DEF new
    <3> QED BY <3>2, <3>3, <3>4 DEF DeptRow
  <2> HIDE DEF new
  <2>3. /\ dept' \in [Depts -> DeptRow \union {Null}]
        /\ \A x \in Depts : dept'[x] = IF x = d THEN new ELSE dept[x]
    BY <1>3, <1>5, <2>2 DEF TablesOK
  <2>4. TablesOK'
    BY <1>1, <1>3, <2>3 DEF TablesOK
  <2>5. Present(dept') = Present(dept) /\ Present(dept) \subseteq Depts
    BY <1>3, <1>5, <2>2, <2>3, NullAssumption DEF TablesOK, Present
  <2>6. KeysHold'
    <3>1. \A x \in Present(dept) : dept'[x].parent \in Present(dept) \union {Root}
      BY <2>2, <2>3, <2>5 DEF Inv, KeysHold
    <3> QED BY <3>1, <2>5 DEF KeysHold
  <2>7. ASSUME InOrder PROVE Sound'
    <3> DEFINE rows == ParentsOf(dept)
               moved == ParentsOf(dept')
    <3>1. /\ DOMAIN rows = Present(dept) /\ DOMAIN moved = Present(dept)
          /\ \A x \in Present(dept) : rows[x] = dept[x].parent /\ moved[x] = dept'[x].parent
      BY <2>5 DEF ParentsOf
    <3>2. IsFiniteSet(Present(dept))
      BY <2>5, DeptsAssumption, FS_Subset
    <3>3. IsForest(rows)
      BY <2>7 DEF InOrder, Sound, ATree
    <3>4. rows[d] = dept[d].parent /\ moved[d] = new.parent
      BY <1>5, <2>3, <2>5, <3>1
    <3>5. \A x \in Present(dept) \ {d} : moved[x] = rows[x]
      BY <2>3, <2>5, <3>1
    <3>6. moved[d] \notin Subtree(rows, d)
      <4>1. Subtree(rows, d) \subseteq Depts
        <5> HIDE DEF rows
        <5> QED BY <1>5, <2>5, <3>1, <3>2, SubtreeIsClosed
      <4>2. CASE new.parent = Root
        BY <3>4, <4>1, <4>2, DeptsAssumption
      <4>3. CASE q.parent = Keep /\ new.parent # Root
        <5>1. rows[d] = moved[d] /\ rows[d] \in DOMAIN rows
          BY <2>2, <3>1, <3>4, <4>3
        <5> QED BY <1>5, <3>1, <3>3, <5>1 DEF IsForest
      <4>4. CASE q.parent # Keep /\ new.parent # Root
        BY <1>1, <2>2, <2>7, <3>4, <4>4 DEF InOrder, StillHolds, Parents
      <4> QED BY <4>2, <4>3, <4>4
    <3>7. IsForest(moved)
      <4> HIDE DEF rows, moved
      <4> QED BY <1>5, <3>1, <3>2, <3>3, <3>5, <3>6, ForestWithOneMoved
    <3>8. ASSUME NEW c \in Present(dept'), NEW x \in Present(dept'), dept'[c] = dept'[x]
          PROVE  c = x
      <4>1. Siblings(new.parent, new.name) \subseteq {d}
        BY <1>1, <2>7 DEF InOrder, StillHolds, new
      <4>2. \A y \in Present(dept) \ {d} : dept[y] # new
        <5>1. new = [parent |-> new.parent, name |-> new.name]
          BY <2>2 DEF DeptRow
        <5> QED BY <4>1, <5>1 DEF Siblings
      <4>3. \A y, z \in Present(dept) : dept[y] = dept[z] => y = z
        BY <2>7 DEF InOrder, Sound, ATree
      <4> QED BY <3>8, <2>3, <2>5, <4>2, <4>3
    <3> HIDE DEF moved, rows
    <3> QED BY <3>7, <3>8, <1>1, <2>7 DEF InOrder, Sound, ATree, moved
  <2> QED BY <1>1, <1>2, <2>4, <2>6, <2>7, Settles
<1>6. UNCHANGED dept \/ (/\ d \in Present(dept)
                         /\ q.parent \in Present(dept) \union {Root, Keep}
                         /\ dept' = [dept EXCEPT ![d] = new])
  BY DEF ChangeWrite
<1> QED
  BY <1>4, <1>5, <1>6

LEMMA DeleteNextKeeps ==
  ASSUME Inv, NEW r \in Requests, DeleteNext(r)
  PROVE  Inv'
<1> DEFINE q == req[r]
           order == q.order
           d == Head(order)
<1>1. /\ q.op = "delete" /\ q # Idle
      /\ q = [op |-> "delete", order |-> q.order]
  BY DEF DeleteNext, Inv, TypeOK, RequestOK, Idle
<1>2. TablesOK
  BY DEF Inv, TypeOK
<1>3. ASSUME End(r), UNCHANGED <<dept, emp, account, list, page, asked>>
      PROVE  Inv'
  <2>1. TablesOK' /\ KeysHold' /\ (InOrder => Sound')
    BY <1>2, <1>3 DEF Inv, InOrder, TablesOK, KeysHold, Sound
  <2> QED BY <1>1, <1>3, <2>1, Settles
<1>4. ASSUME Removable(d), RemoveDept(d),
             req' = [req EXCEPT ![r].order = Tail(order)], UNCHANGED <<ops, overlap>>
      PROVE  Inv'
  <2> HIDE DEF order, d
  <2>1. /\ d \in Present(dept) /\ d \in Depts
        /\ \A c \in Present(dept) : dept[c].parent # d
    BY <1>2, <1>4 DEF Removable, Present, TablesOK
  <2>2. /\ dept' \in [Depts -> DeptRow \union {Null}]
        /\ \A x \in Depts : dept'[x] = IF x = d THEN Null ELSE dept[x]
    BY <1>2, <1>4 DEF RemoveDept, TablesOK
  <2>3. Present(dept') = Present(dept) \ {d} /\ Present(dept) \subseteq Depts
    BY <1>2, <2>1, <2>2 DEF TablesOK, Present
  <2>4. \A e \in Emps : emp'[e] = IF emp[e] # Null /\ emp[e].dept = d
                                  THEN [emp[e] EXCEPT !.dept = Null] ELSE emp[e]
    BY <1>4 DEF RemoveDept
  <2>5. \A e \in Emps : emp[e] # Null /\ emp[e].dept = d =>
          /\ emp'[e] \in EmpRow /\ emp'[e].email = emp[e].email
          /\ emp'[e].account = emp[e].account /\ emp'[e].role = emp[e].role
    BY <1>2, <2>4 DEF TablesOK, EmpRow
  <2>6. \A e \in Emps :
          /\ emp'[e] \in EmpRow \union {Null}
          /\ emp'[e] = Null <=> emp[e] = Null
          /\ emp[e] # Null => /\ emp'[e].email = emp[e].email
                              /\ emp'[e].account = emp[e].account
                              /\ emp'[e].role = emp[e].role
    <3> TAKE e \in Emps
    <3>1. CASE emp[e] # Null /\ emp[e].dept = d
      BY <2>5, <3>1, NullAssumption
    <3>2. CASE ~(emp[e] # Null /\ emp[e].dept = d)
      BY <1>2, <2>4, <3>2 DEF TablesOK
    <3> QED BY <3>1, <3>2
  <2>7. emp' \in [Emps -> EmpRow \union {Null}]
    <3>1. emp' = [e \in Emps |-> emp'[e]]
      BY <1>4 DEF RemoveDept
    <3> QED BY <2>6, <3>1
  <2>8. Present(emp') = Present(emp) /\ Present(emp) \subseteq Emps
    BY <1>2, <2>6, <2>7 DEF TablesOK, Present
  <2> PICK left : left = Tail(order)
    OBVIOUS
  <2> DEFINE it == [op |-> "delete", order |-> left]
  <2>0. req' = [s \in Requests |-> IF s = r THEN it ELSE req[s]]
    <3>1. q = [op |-> "delete", order |-> order] /\ req = [s \in Requests |-> req[s]]
      BY <1>1 DEF order, Inv, TypeOK
    <3>2. req' = [req EXCEPT ![r] = [q EXCEPT !.order = left]]
      BY <1>4
    <3>3. [q EXCEPT !.order = left] = it
      <4> HIDE DEF q
      <4>1. q \in [op : {"delete"}, order : {order}]
        BY <3>1
      <4>2. [q EXCEPT !.order = left] \in [op : {"delete"}, order : {left}]
        BY <4>1
      <4> DEFINE f == [q EXCEPT !.order = left]
      <4> HIDE DEF f
      <4>3. f \in [op : {"delete"}, order : {left}]
        BY <4>2 DEF f
      <4>4. f = it
        BY <4>3
      <4> QED BY <4>4 DEF f
    <3> HIDE DEF it
    <3> QED BY <3>1, <3>2, <3>3
  <2>9. req' = [s \in Requests |-> req'[s]] /\ \A s \in Requests : RequestOK(req'[s])
    <3>2. RequestOK(it)
      BY DEF RequestOK
    <3>3. req' = [s \in Requests |-> IF s = r THEN it ELSE req[s]]
      BY <2>0
    <3> HIDE DEF it
    <3>4. \A s \in Requests : req'[s] = IF s = r THEN it ELSE req[s]
      BY <3>3
    <3>5. \A s \in Requests : RequestOK(req'[s])
      BY <3>2, <3>4 DEF Inv, TypeOK
    <3> QED BY <3>3, <3>5
  <2>10. TypeOK'
    BY <1>2, <1>4, <2>2, <2>7, <2>9 DEF TypeOK, TablesOK, RemoveDept
  <2>11. KeysHold'
    <3>1. \A x \in Present(dept) \ {d} :
            dept'[x].parent \in (Present(dept) \ {d}) \union {Root}
      BY <2>1, <2>2, <2>3 DEF Inv, KeysHold
    <3> QED BY <3>1, <2>3 DEF KeysHold
  <2>12. ASSUME ~overlap' PROVE InOrder'
    <3>1. InOrder
      BY <1>4, <2>12 DEF Inv
    <3>2. \A s \in Requests : s # r => req[s] = Idle
      BY <1>1, <3>1 DEF InOrder, OneRequest
    <3>3. OneRequest' /\ \A s \in Requests : StillHolds(req[s])'
      <4>1. \A s \in Requests : req'[s] = IF s = r THEN it ELSE Idle
        <5> HIDE DEF it
        <5> QED BY <2>0, <3>2
      <4>2. StillHolds(it)'
        BY DEF StillHolds
      <4> HIDE DEF it
      <4> QED BY <4>1, <4>2, OnlyOne
    <3>4. IsForest(ParentsOf(dept'))
      <4> DEFINE rows == ParentsOf(dept)
                 fewer == ParentsOf(dept')
      <4>1. /\ DOMAIN rows = Present(dept) /\ DOMAIN fewer = Present(dept) \ {d}
            /\ \A x \in Present(dept) \ {d} : fewer[x] = rows[x]
        <5>1. /\ \A x \in Present(dept) : rows[x] = dept[x].parent
              /\ \A x \in Present(dept) \ {d} : fewer[x] = dept'[x].parent
          BY <2>3 DEF ParentsOf
        <5>2. \A x \in Present(dept) \ {d} : dept'[x] = dept[x]
          BY <2>2, <2>3
        <5>3. DOMAIN rows = Present(dept) /\ DOMAIN fewer = Present(dept) \ {d}
          BY <2>3 DEF ParentsOf
        <5> HIDE DEF rows, fewer
        <5> QED BY <5>1, <5>2, <5>3
      <4>2. IsFiniteSet(Present(dept))
        BY <2>3, DeptsAssumption, FS_Subset
      <4>3. IsForest(rows)
        BY <3>1 DEF InOrder, Sound, ATree
      <4> HIDE DEF rows, fewer
      <4>4. IsForest(fewer)
        BY <4>1, <4>2, <4>3, ForestWithLess
      <4> QED BY <4>4 DEF fewer
    <3>5. ATree(dept)'
      <4>1. \A c, x \in Present(dept') : dept'[c] = dept'[x] => c = x
        BY <2>2, <2>3, <3>1 DEF InOrder, Sound, ATree
      <4> QED BY <3>4, <4>1 DEF ATree
    <3>6. AnAdmin(emp)'
      BY <2>6, <2>8, <3>1 DEF InOrder, Sound, AnAdmin
    <3>7. /\ Matched(emp, account)'
          /\ \A e \in Present(emp') : emp'[e].account \in Present(account') \union {Null}
      <4>1. account' = account
        BY <1>4 DEF RemoveDept
      <4>2. \A e \in Present(emp) : /\ emp'[e].email = emp[e].email
                                    /\ emp'[e].account = emp[e].account
        BY <2>6, <2>8 DEF Present
      <4> QED BY <2>8, <3>1, <4>1, <4>2 DEF InOrder, Sound, Matched
    <3>8. list' = asked'
      BY <1>4, <3>1 DEF InOrder, Sound, RemoveDept
    <3> QED BY <3>3, <3>5, <3>6, <3>7, <3>8 DEF InOrder, Sound
  <2> QED BY <2>10, <2>11, <2>12 DEF Inv
<1> QED
  BY <1>3, <1>4 DEF DeleteNext

LEMMA RegisterKeeps ==
  ASSUME Inv, NEW r \in Requests, NEW email \in Emails, NEW role \in Roles,
         Register(r, email, role)
  PROVE  Inv'
<1>0. TablesOK
  BY DEF Inv, TypeOK
<1>1. /\ AtOnce(r)
      /\ UNCHANGED <<dept, account, list, asked>>
  BY DEF Register
<1>2. PICK e \in Emps \ Present(emp), d \in Present(dept) \union {Null} :
        emp' = [emp EXCEPT ![e] =
          [email |-> email, account |-> Null, role |-> role, dept |-> d]]
  BY DEF Register
<1> DEFINE new == [email |-> email, account |-> Null, role |-> role, dept |-> d]
<1>3. new \in EmpRow /\ new # Null
  <2>1. d \in Depts \union {Null}
    BY <1>0 DEF TablesOK, Present
  <2>2. new \in EmpRow
    BY <2>1 DEF EmpRow
  <2> HIDE DEF new
  <2> QED BY <2>2, NullAssumption
<1>4. new.account = Null
  OBVIOUS
<1> HIDE DEF new
<1>5. /\ emp' \in [Emps -> EmpRow \union {Null}]
      /\ \A x \in Emps : emp'[x] = IF x = e THEN new ELSE emp[x]
      /\ Present(emp') = Present(emp) \union {e}
      /\ e \notin Present(emp) /\ Present(emp) \subseteq Emps
  <2>1. emp' = [emp EXCEPT ![e] = new]
    BY <1>2 DEF new
  <2> QED BY <1>0, <1>3, <2>1 DEF TablesOK, Present
<1>6. TablesOK' /\ KeysHold'
  BY <1>0, <1>1, <1>5 DEF TablesOK, KeysHold, Inv
<1>7. ASSUME InOrder PROVE Sound'
  <2>0. /\ \A x \in Present(emp) : emp'[x] = emp[x]
        /\ emp'[e] = new
    BY <1>5
  <2>1. ATree(dept)' /\ list' = asked'
    BY <1>1, <1>7 DEF InOrder, Sound, ATree
  <2>2. AnAdmin(emp)'
    BY <1>5, <1>7, <2>0 DEF InOrder, Sound, AnAdmin
  <2>3. \A x \in Present(emp') : emp'[x].account \in Present(account') \union {Null}
    BY <1>1, <1>4, <1>5, <1>7, <2>0 DEF InOrder, Sound
  <2>4. Matched(emp, account)'
    <3>1. \A a \in Present(account) : a # Null
      BY <1>0, NullAssumption DEF Present, TablesOK
    <3> QED BY <1>1, <1>4, <1>5, <1>7, <2>0, <3>1 DEF InOrder, Sound, Matched
  <2> QED BY <2>1, <2>2, <2>3, <2>4 DEF Sound
<1> QED
  BY <1>1, <1>6, <1>7, Settles

\* A new account, for an employee who has none or is new.
LEMMA JoiningKeeps ==
  ASSUME Inv, NEW r \in Requests, AtOnce(r), UNCHANGED <<dept, list, asked>>,
         NEW email \in Emails, NEW a \in Accounts, account[a] = Null,
         account' = [account EXCEPT ![a] = email],
         NEW e \in Emps, NEW new \in EmpRow, emp' = [emp EXCEPT ![e] = new],
         new.account = a, new.email = email,
         e \in Present(emp) => emp[e].account = Null /\ new.role = emp[e].role
  PROVE  Inv'
<1>0. TablesOK
  BY DEF Inv, TypeOK
<1>1. /\ account' \in [Accounts -> Emails \union {Null}]
      /\ \A b \in Accounts : account'[b] = IF b = a THEN email ELSE account[b]
      /\ Present(account') = Present(account) \union {a}
      /\ a \notin Present(account) /\ Present(account) \subseteq Accounts
  BY <1>0, NullAssumption DEF TablesOK, Present
<1>2. /\ emp' \in [Emps -> EmpRow \union {Null}]
      /\ \A x \in Emps : emp'[x] = IF x = e THEN new ELSE emp[x]
      /\ Present(emp') = Present(emp) \union {e}
      /\ Present(emp) \subseteq Emps
  BY <1>0, NullAssumption DEF TablesOK, Present
<1>3. \A b \in Accounts : b # Null
  BY NullAssumption
<1>4. TablesOK' /\ KeysHold'
  BY <1>0, <1>1, <1>2 DEF TablesOK, KeysHold, Inv
<1>5. ASSUME InOrder PROVE Sound'
  <2>1. /\ \A x \in Present(emp) \ {e} : emp'[x] = emp[x]
        /\ emp'[e] = new
        /\ \A x \in Present(emp) : emp[x].account \in Present(account) \union {Null}
    BY <1>2, <1>5 DEF InOrder, Sound
  <2>2. ATree(dept)' /\ list' = asked'
    BY <1>5 DEF InOrder, Sound, ATree
  <2>3. AnAdmin(emp)'
    BY <1>2, <1>5, <2>1 DEF InOrder, Sound, AnAdmin
  <2>4. \A x \in Present(emp') : emp'[x].account \in Present(account') \union {Null}
    BY <1>1, <1>2, <2>1
  <2>5. Matched(emp, account)'
    <3> SUFFICES ASSUME NEW b \in Present(account')
                 PROVE  \E x \in Present(emp') :
                          /\ emp'[x].account = b /\ emp'[x].email = account'[b]
                          /\ \A y \in Present(emp') : emp'[y].account = b => y = x
      BY DEF Matched
    <3>1. CASE b = a
      <4>1. account'[b] = email
        BY <1>1, <3>1
      <4>2. \A y \in Present(emp') : emp'[y].account = a => y = e
        BY <1>1, <1>2, <1>3, <2>1
      <4> QED BY <3>1, <4>1, <4>2, <1>2, <2>1
    <3>2. CASE b # a
      <4>1. b \in Present(account) /\ b \in Accounts /\ account'[b] = account[b]
        BY <1>1, <3>2
      <4>2. PICK x \in Present(emp) :
              /\ emp[x].account = b /\ emp[x].email = account[b]
              /\ \A y \in Present(emp) : emp[y].account = b => y = x
        BY <1>5, <4>1 DEF InOrder, Sound, Matched
      <4>3. x # e
        BY <1>3, <4>1, <4>2
      <4>4. emp'[x] = emp[x] /\ x \in Present(emp')
        BY <1>2, <2>1, <4>3
      <4>5. ASSUME NEW y \in Present(emp'), emp'[y].account = b PROVE y = x
        <5>1. y # e
          BY <2>1, <3>2, <4>5
        <5>2. y \in Present(emp) /\ emp'[y] = emp[y]
          BY <1>2, <2>1, <5>1
        <5> QED BY <4>2, <4>5, <5>2
      <4> QED BY <4>1, <4>2, <4>4, <4>5
    <3> QED BY <3>1, <3>2
  <2> QED BY <2>2, <2>3, <2>4, <2>5 DEF Sound
<1> QED
  BY <1>4, <1>5, Settles

LEMMA SignupKeeps ==
  ASSUME Inv, NEW r \in Requests, NEW email \in Emails, NEW d \in Depts \union {Null},
         Signup(r, email, d)
  PROVE  Inv'
<1>0. TablesOK
  BY DEF Inv, TypeOK
<1>1. /\ AtOnce(r)
      /\ \A e \in EmployeeWith(email) : emp[e].account = Null
      /\ UNCHANGED <<dept, list, asked>>
  BY DEF Signup
<1>2. PICK a \in Accounts :
        /\ account[a] = Null
        /\ account' = [account EXCEPT ![a] = email]
        /\ \/ \E e \in EmployeeWith(email) :
                emp' = [emp EXCEPT ![e].account = a,
                                   ![e].dept = IF d = Null THEN @ ELSE d]
           \/ \E e \in Emps \ Present(emp) :
                emp' = [emp EXCEPT ![e] =
                  [email |-> email, account |-> a, role |-> "staff", dept |-> d]]
  BY DEF Signup
<1>3. ASSUME NEW e \in EmployeeWith(email),
             emp' = [emp EXCEPT ![e].account = a,
                                ![e].dept = IF d = Null THEN @ ELSE d]
      PROVE  Inv'
  <2> DEFINE new == [email |-> emp[e].email, account |-> a, role |-> emp[e].role,
                     dept |-> IF d = Null THEN emp[e].dept ELSE d]
             row == [[emp[e] EXCEPT !.account = a] EXCEPT !.dept = IF d = Null THEN @ ELSE d]
  <2>1. e \in Emps /\ emp[e] \in EmpRow /\ emp[e].email = email /\ emp[e].account = Null
    BY <1>0, <1>1 DEF EmployeeWith, Present, TablesOK
  <2>2. /\ row \in EmpRow /\ row.email = emp[e].email /\ row.account = a
        /\ row.role = emp[e].role
    BY <2>1 DEF EmpRow
  <2>3. emp' = [emp EXCEPT ![e] = row]
    BY <1>3, <2>1, <1>0 DEF TablesOK
  <2> HIDE DEF row
  <2> QED BY <1>1, <1>2, <2>1, <2>2, <2>3, JoiningKeeps
<1>4. ASSUME NEW e \in Emps \ Present(emp),
             emp' = [emp EXCEPT ![e] =
               [email |-> email, account |-> a, role |-> "staff", dept |-> d]]
      PROVE  Inv'
  <2> DEFINE new == [email |-> email, account |-> a, role |-> "staff", dept |-> d]
  <2>1. new \in EmpRow /\ new.account = a /\ new.email = email
    BY DEF EmpRow, Roles
  <2>2. emp' = [emp EXCEPT ![e] = new]
    BY <1>4
  <2> HIDE DEF new
  <2> QED BY <1>1, <1>2, <2>1, <2>2, JoiningKeeps
<1> QED
  BY <1>2, <1>3, <1>4

LEMMA EmployeeWriteKeeps ==
  ASSUME Inv, NEW r \in Requests, EmployeeWrite(r)
  PROVE  Inv'
<1> DEFINE it == req[r]
           e == it.id
           c == it.change
           new == [k \in DOMAIN c |-> IF c[k] = Keep THEN emp[e][k] ELSE c[k]]
           row == [email |-> new.email, account |-> emp[e].account,
                   role |-> new.role, dept |-> new.dept]
<1>0. TablesOK
  BY DEF Inv, TypeOK
<1>1. /\ it.op = "employee" /\ End(r)
      /\ UNCHANGED <<dept, list, asked>>
  BY DEF EmployeeWrite
<1>2. it # Idle /\ e \in Emps /\ c \in AnyChange
  BY <1>1 DEF Inv, TypeOK, RequestOK, Idle
<1>3. CASE UNCHANGED <<emp, account>>
  <2>1. TablesOK' /\ KeysHold' /\ (InOrder => Sound')
    BY <1>1, <1>0, <1>3 DEF Inv, InOrder, TablesOK, KeysHold, Sound
  <2> QED BY <1>1, <1>2, <2>1, Settles
<1>4. ASSUME e \in Present(emp), emp' = [emp EXCEPT ![e] = row],
             new.dept \in Present(dept) \union {Null},
             account' = AccountFollows(it)
      PROVE  Inv'
  <2>1. /\ emp[e] \in EmpRow
        /\ c.email \in Emails \union {Keep} /\ c.role \in Roles \union {Keep}
        /\ c.dept \in Depts \union {Null, Keep} /\ DOMAIN c = {"email", "role", "dept"}
    BY <1>0, <1>2, <1>4 DEF TablesOK, Present, AnyChange
  <2>2. /\ emp[e].email \in Emails /\ emp[e].account \in Accounts \union {Null}
        /\ emp[e].role \in Roles /\ emp[e].dept \in Depts \union {Null}
    BY <2>1 DEF EmpRow
  <2>3. /\ new.email = IF c.email = Keep THEN emp[e].email ELSE c.email
        /\ new.role = IF c.role = Keep THEN emp[e].role ELSE c.role
        /\ new.dept = IF c.dept = Keep THEN emp[e].dept ELSE c.dept
    <3> HIDE DEF c
    <3> QED BY <2>1
  <2> HIDE DEF new
  <2>4. new.email \in Emails /\ new.role \in Roles /\ new.dept \in Depts \union {Null}
    <3> HIDE DEF c, e
    <3> QED BY <2>1, <2>2, <2>3
  <2>5. /\ row \in EmpRow /\ row.email = new.email /\ row.account = emp[e].account
        /\ row.role = new.role
    BY <2>2, <2>4 DEF EmpRow
  <2> HIDE DEF row
  <2>6. /\ emp' \in [Emps -> EmpRow \union {Null}]
        /\ \A x \in Emps : emp'[x] = IF x = e THEN row ELSE emp[x]
        /\ Present(emp') = Present(emp) /\ Present(emp) \subseteq Emps
    <3> HIDE DEF e
    <3> QED BY <1>0, <1>2, <1>4, <2>5, NullAssumption DEF TablesOK, Present
  <2> DEFINE follows == it.account \in Present(account) /\ c.email \notin {Keep, it.seen}
  <2>7. /\ account' \in [Accounts -> Emails \union {Null}]
        /\ \A b \in Accounts :
             account'[b] = IF follows /\ b = it.account THEN c.email ELSE account[b]
        /\ Present(account') = Present(account) /\ Present(account) \subseteq Accounts
    <3>1. follows => c.email \in Emails /\ c.email # Null /\ it.account \in Accounts
      BY <1>0, <2>1, NullAssumption DEF TablesOK, Present
    <3>2. account' = IF follows THEN [account EXCEPT ![it.account] = c.email] ELSE account
      BY <1>4 DEF AccountFollows
    <3>3. CASE follows
      <4> PICK b, m : b = it.account /\ m = c.email
        OBVIOUS
      <4>1. /\ m \in Emails /\ m # Null /\ b \in Accounts /\ b \in Present(account)
            /\ account' = [account EXCEPT ![b] = m]
        BY <3>1, <3>2, <3>3
      <4>2. /\ account' \in [Accounts -> Emails \union {Null}]
            /\ \A x \in Accounts : account'[x] = IF x = b THEN m ELSE account[x]
            /\ Present(account') = Present(account) /\ Present(account) \subseteq Accounts
        BY <1>0, <4>1 DEF TablesOK, Present
      <4> HIDE DEF follows, c, it
      <4> QED BY <3>3, <4>2
    <3>4. CASE ~follows
      <4> HIDE DEF follows, c, it
      <4> QED BY <1>0, <3>2, <3>4 DEF TablesOK, Present
    <3> QED BY <3>3, <3>4
  <2> HIDE DEF follows
  <2>8. TablesOK' /\ KeysHold'
    BY <1>0, <1>1, <2>6, <2>7 DEF TablesOK, KeysHold, Inv
  <2>9. ASSUME InOrder PROVE Sound'
    <3>1. /\ it.account = emp[e].account /\ it.seen = emp[e].email
          /\ c.role = "staff" => AnotherAdmin(e)
          /\ \A x \in Present(emp) : emp[x].account \in Present(account) \union {Null}
      BY <1>1, <2>9 DEF InOrder, StillHolds, Sound
    <3>2. /\ \A x \in Present(emp) \ {e} : emp'[x] = emp[x]
          /\ emp'[e] = row
      BY <1>2, <2>6
    <3>3. ATree(dept)' /\ list' = asked'
      BY <1>1, <2>9 DEF InOrder, Sound, ATree
    <3>4. AnAdmin(emp)'
      <4>1. CASE c.role = "staff"
        BY <2>6, <3>1, <3>2, <4>1 DEF AnotherAdmin, AnAdmin
      <4>2. CASE c.role # "staff"
        <5>1. PICK x \in Present(emp) : emp[x].role = "admin"
          BY <2>9 DEF InOrder, Sound, AnAdmin
        <5>2. CASE x # e
          BY <2>6, <3>2, <5>1, <5>2 DEF AnAdmin
        <5>3. CASE x = e
          <6>1. c.role \in {"admin", Keep} /\ emp[e].role = "admin"
            BY <2>1, <4>2, <5>1, <5>3 DEF Roles
          <6>2. row.role = "admin"
            <7> HIDE DEF c, e
            <7> QED BY <2>3, <2>5, <6>1
          <6> QED BY <1>4, <2>6, <3>2, <6>2 DEF AnAdmin
        <5> QED BY <5>2, <5>3
      <4> QED BY <4>1, <4>2
    <3>5. /\ \A x \in Present(emp) : emp'[x].account = emp[x].account
          /\ \A x \in Present(emp') : emp'[x].account \in Present(account') \union {Null}
      BY <2>5, <2>6, <2>7, <3>1, <3>2
    <3>6. Matched(emp, account)'
      <4> SUFFICES ASSUME NEW b \in Present(account)
                   PROVE  \E x \in Present(emp') :
                            /\ emp'[x].account = b /\ emp'[x].email = account'[b]
                            /\ \A y \in Present(emp') : emp'[y].account = b => y = x
        BY <2>7 DEF Matched
      <4>1. PICK x \in Present(emp) :
              /\ emp[x].account = b /\ emp[x].email = account[b]
              /\ \A y \in Present(emp) : emp[y].account = b => y = x
        BY <2>9 DEF InOrder, Sound, Matched
      <4>2. emp'[x].account = b /\ \A y \in Present(emp') : emp'[y].account = b => y = x
        BY <2>6, <3>5, <4>1
      <4>3. b \in Accounts
        BY <2>7
      <4>4. emp'[x].email = account'[b]
        <5>1. CASE x = e
          <6>1. it.account = b /\ account[b] = it.seen
            BY <3>1, <4>1, <5>1
          <6>2. emp'[x].email = new.email
            BY <2>5, <3>2, <5>1
          <6>3. new.email = IF c.email = Keep THEN it.seen ELSE c.email
            BY <2>3, <3>1
          <6>4. account'[b] = IF c.email \notin {Keep, it.seen} THEN c.email ELSE account[b]
            BY <2>7, <4>3, <6>1 DEF follows
          <6> HIDE DEF c
          <6> QED BY <6>1, <6>2, <6>3, <6>4
        <5>2. CASE x # e
          <6>1. it.account # b
            BY <1>4, <3>1, <4>1, <5>2
          <6> QED BY <2>7, <3>2, <4>1, <4>3, <5>2, <6>1
        <5> QED BY <5>1, <5>2
      <4> QED BY <2>6, <4>2, <4>4
    <3> QED BY <3>3, <3>4, <3>5, <3>6 DEF Sound
  <2> QED BY <1>1, <1>2, <2>8, <2>9, Settles
<1>5. UNCHANGED <<emp, account>> \/
        (/\ e \in Present(emp) /\ emp' = [emp EXCEPT ![e] = row]
         /\ new.dept \in Present(dept) \union {Null}
         /\ account' = AccountFollows(it))
  BY DEF EmployeeWrite
<1> QED
  BY <1>3, <1>4, <1>5

LEMMA FireWriteKeeps ==
  ASSUME Inv, NEW r \in Requests, FireWrite(r)
  PROVE  Inv'
<1> DEFINE e == req[r].id
           a == req[r].account
<1>0. TablesOK
  BY DEF Inv, TypeOK
<1>1. /\ req[r].op = "fire" /\ End(r) /\ UNCHANGED dept
      /\ emp' = [x \in Emps |->
           IF x = e THEN Null
           ELSE IF emp[x] # Null /\ a # Null /\ emp[x].account = a
                THEN [emp[x] EXCEPT !.account = Null] ELSE emp[x]]
      /\ account' = [x \in Accounts |-> IF x = a THEN Null ELSE account[x]]
      /\ list' = [l \in DOMAIN list |-> list[l] \ {e}]
      /\ asked' = [l \in DOMAIN asked |-> asked[l] \ {e}]
  BY DEF FireWrite
<1>2. req[r] # Idle /\ e \in Emps
  BY <1>1 DEF Inv, TypeOK, RequestOK, Idle
<1>3. StillHolds(req[r]) => /\ e \in Present(emp) /\ a = emp[e].account /\ AnotherAdmin(e)
  BY <1>1 DEF StillHolds
<1> HIDE DEF e, a
<1>4. \A x \in Emps :
        emp'[x] = IF x = e THEN Null
                  ELSE IF emp[x] # Null /\ a # Null /\ emp[x].account = a
                       THEN [emp[x] EXCEPT !.account = Null] ELSE emp[x]
  BY <1>1
<1>5. \A x \in Emps : emp[x] # Null =>
        /\ [emp[x] EXCEPT !.account = Null] \in EmpRow
        /\ [emp[x] EXCEPT !.account = Null].account = Null
        /\ [emp[x] EXCEPT !.account = Null].role = emp[x].role
  BY <1>0 DEF TablesOK, EmpRow
<1>6. \A x \in Emps : emp'[x] \in EmpRow \union {Null}
  BY <1>0, <1>4, <1>5 DEF TablesOK
<1>7. emp' \in [Emps -> EmpRow \union {Null}]
  <2>1. emp' = [x \in Emps |-> emp'[x]]
    BY <1>1
  <2> QED BY <1>6, <2>1
<1>8. Present(emp') = Present(emp) \ {e} /\ Present(emp) \subseteq Emps
  <2>1. \A x \in Emps : x # e => (emp'[x] = Null <=> emp[x] = Null)
    BY <1>4, <1>5, NullAssumption
  <2>2. emp'[e] = Null
    BY <1>2, <1>4
  <2> QED BY <1>0, <1>7, <2>1, <2>2 DEF TablesOK, Present
<1>9. /\ account' \in [Accounts -> Emails \union {Null}]
      /\ \A b \in Accounts : b # a => account'[b] = account[b]
      /\ Present(account') = Present(account) \ {a} /\ Present(account) \subseteq Accounts
  BY <1>0, <1>1 DEF TablesOK, Present
<1>10. TablesOK' /\ KeysHold'
  BY <1>0, <1>1, <1>7, <1>9 DEF TablesOK, KeysHold, Inv
<1>11. ASSUME InOrder PROVE Sound'
  <2>1. /\ e \in Present(emp) /\ a = emp[e].account /\ AnotherAdmin(e)
        /\ \A x \in Present(emp) : emp[x].account \in Present(account) \union {Null}
    BY <1>3, <1>11 DEF InOrder, Sound
  <2>2. \A x \in Present(emp) \ {e} :
          /\ emp[x].account # a \/ a = Null => emp'[x] = emp[x]
          /\ emp[x].account = a => emp'[x].account = Null
          /\ emp'[x].role = emp[x].role
    BY <1>4, <1>5, <1>8 DEF Present
  <2>3. ATree(dept)' /\ list' = asked'
    BY <1>1, <1>11 DEF InOrder, Sound, ATree
  <2>4. AnAdmin(emp)'
    BY <1>8, <2>1, <2>2 DEF AnotherAdmin, AnAdmin
  <2>5. \A x \in Present(emp') : emp'[x].account \in Present(account') \union {Null}
    BY <1>8, <1>9, <2>1, <2>2
  <2>6. Matched(emp, account)'
    <3> SUFFICES ASSUME NEW b \in Present(account) \ {a}
                 PROVE  \E x \in Present(emp') :
                          /\ emp'[x].account = b /\ emp'[x].email = account'[b]
                          /\ \A y \in Present(emp') : emp'[y].account = b => y = x
      BY <1>9 DEF Matched
    <3>1. PICK x \in Present(emp) :
            /\ emp[x].account = b /\ emp[x].email = account[b]
            /\ \A y \in Present(emp) : emp[y].account = b => y = x
      BY <1>11 DEF InOrder, Sound, Matched
    <3>2. x \in Present(emp') /\ emp'[x] = emp[x] /\ account'[b] = account[b]
      BY <1>8, <1>9, <2>1, <2>2, <3>1
    <3>3. b # Null
      BY <1>9, NullAssumption
    <3>4. ASSUME NEW y \in Present(emp'), emp'[y].account = b PROVE y = x
      BY <1>8, <2>2, <3>1, <3>3, <3>4
    <3> QED BY <3>1, <3>2, <3>4
  <2> QED BY <2>3, <2>4, <2>5, <2>6 DEF Sound
<1> QED
  BY <1>1, <1>2, <1>10, <1>11, Settles

LEMMA ReplaceWriteKeeps ==
  ASSUME Inv, NEW r \in Requests, ReplaceWrite(r)
  PROVE  Inv'
<1> DEFINE it == req[r]
<1>0. TablesOK
  BY DEF Inv, TypeOK
<1>1. /\ it.op = "list" /\ End(r) /\ it # Idle
      /\ UNCHANGED <<dept, emp, account>>
  BY DEF ReplaceWrite, Idle
<1>2. TablesOK' /\ KeysHold'
  BY <1>0, <1>1 DEF TablesOK, KeysHold, Inv
<1>3. ASSUME InOrder PROVE Sound'
  <2>1. it.gone = list[it.of] /\ list = asked
    BY <1>1, <1>3 DEF InOrder, StillHolds, Sound
  <2>2. Replaced(it) = it.ids
    BY <2>1 DEF Replaced
  <2>3. list' = asked'
    BY <2>1, <2>2 DEF ReplaceWrite
  <2> QED BY <1>1, <1>3, <2>3 DEF InOrder, Sound, ATree, Matched, AnAdmin
<1> QED
  BY <1>1, <1>2, <1>3, Settles

-----------------------------------------------------------------------------
(* Every step                                                              *)

LEMMA DepartmentsKeep ==
  ASSUME Inv, NEW r \in Requests, Departments(r)
  PROVE  Inv'
<1>1. CASE AddDept(r)
  BY <1>1, CreateReadKeeps DEF AddDept
<1>2. CASE RenameDept(r)
  BY <1>2, ChangeReadKeeps DEF RenameDept
<1>3. CASE MoveDept(r)
  BY <1>3, ChangeReadKeeps DEF MoveDept
<1>4. CASE \E d \in Depts : DeleteSubtree(r, d)
  BY <1>4, DeleteSubtreeKeeps
<1> QED
  BY <1>1, <1>2, <1>3, <1>4, CreateWriteKeeps, ChangeWriteKeeps, DeleteNextKeeps
     DEF Departments

LEMMA PeopleKeep ==
  ASSUME Inv, NEW r \in Requests, People(r)
  PROVE  Inv'
<1>1. CASE \E m \in Emails, x \in Roles : Register(r, m, x)
  BY <1>1, RegisterKeeps
<1>2. CASE \E m \in Emails, d \in Depts \union {Null} : Signup(r, m, d)
  BY <1>2, SignupKeeps
<1>3. CASE \E by \in Accounts, e \in Emps : FireRead(r, by, e)
  BY <1>3, FireReadKeeps
<1>4. CASE \E by \in Accounts, e \in Emps :
             \E c \in Forms \union RoleChanges \union Assignments : EmployeeRead(r, by, e, c)
  BY <1>4, EmployeeReadKeeps
<1>5. CASE EmployeeWrite(r)
  BY <1>5, EmployeeWriteKeeps
<1>6. CASE FireWrite(r)
  BY <1>6, FireWriteKeeps
<1> QED
  BY <1>1, <1>2, <1>3, <1>4, <1>5, <1>6 DEF People

LEMMA ListsKeep ==
  ASSUME Inv, NEW r \in Requests, Lists(r)
  PROVE  Inv'
<1>1. CASE \E p \in Pages, ids \in SUBSET Emps : SubmitPage(r, p, ids)
  BY <1>1, SubmitKeeps
<1>2. CASE \E d \in Depts, ids \in SUBSET Emps : SubmitRecipients(r, d, ids)
  BY <1>2, SubmitKeeps
<1>3. CASE ReplaceWrite(r)
  BY <1>3, ReplaceWriteKeeps
<1> QED
  BY <1>1, <1>2, <1>3 DEF Lists

\* A step after which requests and tables are the same.
LEMMA SameTables ==
  ASSUME Inv, UNCHANGED <<dept, emp, account, list, req, asked, overlap>>
  PROVE  Inv'
<1>1. TypeOK' /\ KeysHold'
  BY DEF Inv, TypeOK, TablesOK, KeysHold
<1>2. Sound => Sound'
  BY DEF Sound, ATree, AnAdmin, Matched
<1>3. ASSUME NEW r \in Requests, StillHolds(req[r]) PROVE StillHolds(req[r])'
  BY <1>3 DEF StillHolds, Siblings, Changed, Parents, AnotherAdmin
<1>4. OneRequest => OneRequest'
  BY DEF OneRequest
<1> QED
  BY <1>1, <1>2, <1>3, <1>4 DEF Inv, InOrder

\* What there is before the first request.
LEMMA InitSound == Init => Inv
<1> SUFFICES ASSUME Init PROVE Inv
  OBVIOUS
<1>1. PICK s \in Start : dept = s.dept /\ emp = s.emp /\ account = s.account
  BY DEF Init
<1>2. list = asked /\ \A r \in Requests : req[r] = Idle
  BY DEF Init
<1>3. TypeOK
  BY <1>1, <1>2, StartAssumption, IdleHolds DEF Init, TypeOK, TablesOK
<1>4. KeysHold
  BY <1>1, StartAssumption DEF KeysHold
<1>5. Sound
  BY <1>1, <1>2, StartAssumption DEF Sound
<1>6. OneRequest /\ \A r \in Requests : StillHolds(req[r])
  BY <1>2, IdleHolds DEF OneRequest
<1> QED
  BY <1>3, <1>4, <1>5, <1>6 DEF Inv, InOrder

\* org.ts 123-219, 461-549, 760-763, auth/routes.ts 433-442: the tables have their
\* types and the departments their keys however requests interleave; and as long as
\* requests come one after the other, what the one under way has read and judged is
\* so when it writes.
THEOREM OrganisationInvariant == Spec => []Inv
<1>1. Inv /\ [Next]_vars => Inv'
  <2> SUFFICES ASSUME Inv, [Next]_vars PROVE Inv'
    OBVIOUS
  <2>1. CASE \E r \in Requests : Departments(r) \/ People(r) \/ Lists(r)
    BY <2>1, DepartmentsKeep, PeopleKeep, ListsKeep
  <2>2. CASE \E p \in Pages : LoadPage(p)
    BY <2>2, SameTables DEF LoadPage
  <2>3. CASE UNCHANGED vars
    BY <2>3, SameTables DEF vars
  <2> QED BY <2>1, <2>2, <2>3 DEF Next
<1> QED
  BY <1>1, InitSound, PTL DEF Spec

\* org.ts 123-131, 193-219: from a tree whose siblings have different names, any number
\* of departments made, renamed, moved and removed leave one, when no requests overlap.
THEOREM DepartmentsStayATree == Spec => []TreeStaysATree
<1>1. Inv => TreeStaysATree
  BY DEF Inv, InOrder, Sound, TreeStaysATree
<1> QED
  BY <1>1, OrganisationInvariant, PTL

\* org.ts 461-480: whoever gives up the role, is changed or goes, somebody else still
\* has it, when no requests overlap.
THEOREM AdministratorsRemain == Spec => []AnAdminRemains
<1>1. Inv => AnAdminRemains
  BY DEF Inv, InOrder, Sound, AnAdminRemains
<1> QED
  BY <1>1, OrganisationInvariant, PTL

\* org.ts 533-549, 433-442, auth/routes.ts: whoever signs up, changes an email or goes,
\* each account is one employee's and has his email, when no requests overlap.
THEOREM AccountsStayMatched == Spec => []AccountsMatchEmployees
<1>1. Inv => AccountsMatchEmployees
  BY DEF Inv, InOrder, Sound, AccountsMatchEmployees
<1> QED
  BY <1>1, OrganisationInvariant, PTL

\* org.ts 760-763: a list that was replaced has nothing left of what it was before, when
\* no requests overlap.
THEOREM ListsAreReplaced == Spec => []ListIsWhatWasAsked
<1>1. Inv => ListIsWhatWasAsked
  BY DEF Inv, InOrder, Sound, ListIsWhatWasAsked
<1> QED
  BY <1>1, OrganisationInvariant, PTL

\* deptTree.ts 45-61, 72-80, 122-129: whatever requests that overlap have made of the
\* parents, cycles included, the flattened list has every department once; and where
\* there is no cycle a subtree is deleted whole, each before what it hangs under.
THEOREM TreesAreShownWhole == Spec => []TreeIsShownWhole
<1>1. Inv => TreeIsShownWhole
  <2> SUFFICES ASSUME Inv PROVE TreeIsShownWhole
    OBVIOUS
  <2>1. DOMAIN Parents \subseteq Depts
    BY DEF Inv, TypeOK, TablesOK, Parents, ParentsOf, Present
  <2>2. Listed(Parents)
    <3>1. IsFiniteSet(DOMAIN Parents) /\ Root \notin DOMAIN Parents
      BY <2>1, DeptsAssumption, FS_Subset
    <3>2. Orders(Before, DOMAIN Parents)
      BY <2>1, OrderAssumption DEF Orders
    <3> QED BY <3>1, <3>2 DEF Listed
  <2> QED BY <2>2, ShownWhole DEF TreeIsShownWhole
<1> QED
  BY <1>1, OrganisationInvariant, PTL
=============================================================================
