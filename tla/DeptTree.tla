------------------------------ MODULE DeptTree ------------------------------
(***************************************************************************)
(* The tree of departments as the screens compute it from a flat list      *)
(* (apps/web/src/lib/deptTree.ts).  A list is a function from the ids in   *)
(* it to their parents; Root is the parent of a top-level department.      *)
(* The server does not keep cycles out by a constraint, so that a list may *)
(* hold one, or name a parent that is not in it.                           *)
(***************************************************************************)
EXTENDS Naturals, FiniteSets, SequencesExt

CONSTANTS
  Root,    \* parent_id null
  Before   \* bySortThenName: the pairs of departments of which the first comes first

\* Array.sort(): each where as many come before it as the comparison puts there.
Sorted(ids, less) ==
  [i \in 1 .. Cardinality(ids) |->
     CHOOSE d \in ids : Cardinality({e \in ids : <<e, d>> \in less}) = i - 1]

\* The parent a screen hangs a department under.
ShownParent(rows, d) == IF rows[d] \in DOMAIN rows \ {d} THEN rows[d] ELSE Root

Kids(rows, p) == {d \in DOMAIN rows : ShownParent(rows, d) = p}

Ids(flat) == {flat[i].id : i \in DOMAIN flat}

At(ids, depth) ==
  [i \in 1 .. Cardinality(ids) |-> [id |-> Sorted(ids, Before)[i], depth |-> depth]]

\* build() of the next row, with what waits to be built after it: first its own.
Visit(rows, s) ==
  IF s.todo = <<>> THEN s
  ELSE LET row  == Head(s.todo)
           kids == Kids(rows, row.id) \ (Ids(s.out) \union {row.id})
       IN  [out  |-> Append(s.out, row),
            todo |-> At(kids, row.depth + 1) \o Tail(s.todo)]

\* What start and all below it add to a flattened list.
Built(rows, flat, start) ==
  LET walk[n \in 0 .. Cardinality(DOMAIN rows)] ==
        IF n = 0 THEN [out |-> flat, todo |-> start] ELSE Visit(rows, walk[n - 1])
  IN  walk[Cardinality(DOMAIN rows)].out

\* Variant: only what hangs under a root is shown.
FlatFromRoots(rows) == Built(rows, <<>>, At(Kids(rows, Root), 0))

\* One that no root reaches is cut loose and shown as a root.
CutLoose(rows, flat, d) ==
  IF d \in Ids(flat) THEN flat ELSE Built(rows, flat, <<[id |-> d, depth |-> 0]>>)

\* flattenDepartments()
Flat(rows) ==
  LET cut[n \in 0 .. Cardinality(DOMAIN rows)] ==
        IF n = 0 THEN Built(rows, <<>>, At(Kids(rows, Root), 0))
        ELSE CutLoose(rows, cut[n - 1], Sorted(DOMAIN rows, Before)[n])
  IN  cut[Cardinality(DOMAIN rows)]

Leaves(rows) == {d \in DOMAIN rows : \A c \in DOMAIN rows \ {d} : rows[c] # d}

\* deptSubtreeIds(): d and all below it, as long as the set grows.
Subtree(rows, d) ==
  LET grown[n \in 0 .. Cardinality(DOMAIN rows)] ==
        IF n = 0 THEN {d}
        ELSE grown[n - 1] \union {c \in DOMAIN rows : rows[c] \in grown[n - 1]}
  IN  grown[Cardinality(DOMAIN rows)]

\* The deepest first; those at one depth as the list has them.
Deeper(flat, ids) ==
  LET depth(d) == flat[CHOOSE i \in DOMAIN flat : flat[i].id = d].depth
  IN  {p \in ids \X ids : depth(p[1]) > depth(p[2])
                          \/ (depth(p[1]) = depth(p[2]) /\ p \in Before)}

\* deptDeleteOrder()
DeleteOrder(rows, d) ==
  LET ids == Subtree(rows, d) \intersect DOMAIN rows
  IN  Sorted(ids, Deeper(Flat(rows), ids))

\* No department is below itself.
IsForest(rows) ==
  \A d, c \in DOMAIN rows : rows[c] = d => d \notin Subtree(rows, c)
=============================================================================
