---------------------------- MODULE SoftAggView ----------------------------
(***************************************************************************)
(* Maintained views (views.rs): for each group code of a table the state   *)
(* (m, num, den) and a row count n, for one query vector x and temperature *)
(* above 0.  Rows are those of QueryStats; a stored f32 key scores as the  *)
(* f64 key it was cast from, which for the integers here is exact.         *)
(***************************************************************************)
EXTENDS AnchoredSum, Selection

EmptyGroup == [sum |-> EmptySum, n |-> 0]

\* The groups up to code g exist.
ResizedTo(groups, g) == [i \in 1..Larger(Len(groups), g) |->
                          IF i <= Len(groups) THEN groups[i] ELSE EmptyGroup]

\* SoftAggView::apply_insert.
ApplyInsert(v, r) ==
  LET groups == ResizedTo(v.groups, r.g)
      st     == groups[r.g]
  IN  [v EXCEPT !.groups = [groups EXCEPT ![r.g] =
         [sum |-> Added(st.sum, r.k * v.x, r.v, v.eps), n |-> st.n + 1]]]

\* SoftAggView::build: a state per label, and every row inserted.
BuildView(name, table, t, x, eps) ==
  FoldLeft(ApplyInsert,
           [name |-> name, table |-> table, x |-> x, eps |-> eps,
            groups |-> [g \in DOMAIN t.dict |-> EmptyGroup]],
           t.rows)

\* The positions of the rows of one group.
InGroup(rows, g) == {i \in DOMAIN rows : rows[i].g = g}

\* The bounded pass over the rows of one group that stay.
Reanchored(v, g, survivors) ==
  LET rows == Select(survivors, InGroup(survivors, g))
  IN  [sum |-> FoldLeft(LAMBDA st, r : Added(st, r.k * v.x, r.v, v.eps), EmptySum, rows),
       n   |-> Len(rows)]

\* Does deleting r re-anchor its group?
Tops(v, r) == Anchors(v.groups[r.g].sum, r.k * v.x)

\* SoftAggView::on_delete.
OnDelete(v, r, survivors) ==
  LET st == v.groups[r.g]
  IN  [v EXCEPT !.groups[r.g] =
         IF Tops(v, r) THEN Reanchored(v, r.g, survivors)
         ELSE [sum |-> Subtracted(st.sum, r.k * v.x, r.v, v.eps), n |-> Larger(st.n - 1, 0)]]

\* Mutated form: a doomed row is subtracted from a group that was re-anchored without it.
DeleteEachRow(v, doomed, survivors) ==
  FoldLeft(LAMBDA w, r : OnDelete(w, r, survivors), v, doomed)

\* One doomed row; a re-anchored group is settled.
DeleteRow(acc, r, survivors) ==
  IF r.g \in acc.settled THEN acc
  ELSE [view    |-> OnDelete(acc.view, r, survivors),
        settled |-> IF Tops(acc.view, r) THEN acc.settled \cup {r.g} ELSE acc.settled]

\* The doomed rows of one delete in row order.
DeleteRows(v, doomed, survivors) ==
  FoldLeft(LAMBDA acc, r : DeleteRow(acc, r, survivors),
           [view |-> v, settled |-> {}], doomed).view

\* SoftAggView::read: the groups with rows and a positive denominator.
Covered(v) == {g \in DOMAIN v.groups :
                v.groups[g].n > 0 /\ v.groups[g].sum.den # NaN /\ v.groups[g].sum.den > 0}

\* SoftAggView::matches.
Serves(v, table, x, eps) == v.table = table /\ v.x = x /\ v.eps = eps
=============================================================================
