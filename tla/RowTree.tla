------------------------------- MODULE RowTree -------------------------------
(***************************************************************************)
(* The rows of a QAbstractItemModel.  A row is named as on the wire, by    *)
(* the row numbers that lead to it (Protocol::ModelIndex); the root is     *)
(* << >>.  A tree is a function from the paths of its rows, closed under   *)
(* prefixes, and rearranging rows renames paths.                           *)
(***************************************************************************)
EXTENDS Integers, Sequences, FiniteSets

Root == << >>

\* q is a row below p, at any depth; Row(p, q) is where its branch starts.
Below(p, q) == Len(q) > Len(p) /\ SubSeq(q, 1, Len(p)) = p
Row(p, q)   == q[Len(p) + 1]
InRows(p, q, f, n) == Below(p, q) /\ Row(p, q) \in f..(f + n - 1)

RowAt(p, i)    == Append(p, i)
Rows(t, p)     == {q \in DOMAIN t : Len(q) = Len(p) + 1 /\ Below(p, q)}
RowCount(t, p) == Cardinality(Rows(t, p))

\* Where the rows of p from f on go when n rows enter or leave there.
Shifted(q, p, f, n) ==
  IF Below(p, q) /\ Row(p, q) >= f THEN [q EXCEPT ![Len(p) + 1] = @ + n] ELSE q

Restricted(t, S) == [q \in S |-> t[q]]

\* Room for n rows at f: no path leads there yet.
Opened(t, p, f, n) ==
  [q \in {Shifted(r, p, f, n) : r \in DOMAIN t} |-> t[Shifted(q, p, f + n, -n)]]

\* The rows f .. f + n - 1 of p are gone with all below them.
Closed(t, p, f, n) ==
  LET kept == {q \in DOMAIN t : ~InRows(p, q, f, n)}
  IN  [q \in {Shifted(r, p, f + n, -n) : r \in kept} |-> t[Shifted(q, p, f, n)]]

\* n rows from f of p, the i-th with the value new[i].
Filled(t, p, f, n, new) ==
  LET rows == {RowAt(p, f + i - 1) : i \in 1..n}
  IN  [q \in DOMAIN t \cup rows |-> IF q \in rows THEN new[Row(p, q) - f + 1] ELSE t[q]]

Inserted(t, p, f, n, new) == Filled(Opened(t, p, f, n), p, f, n, new)

\* The n rows of p that start at f in the opened tree go to the room at d of dp,
\* with all below them.
Landed(q, p, f, dp, d) ==
  dp \o <<Row(p, q) - f + d>> \o SubSeq(q, Len(p) + 2, Len(q))

Transferred(t, p, f, n, dp, d) ==
  LET block == {q \in DOMAIN t : InRows(p, q, f, n)}
      moved == {Landed(q, p, f, dp, d) : q \in block}
  IN  [q \in DOMAIN t \cup moved |-> IF q \in moved THEN t[Landed(q, dp, d, p, f)] ELSE t[q]]

\* Make room in the destination, move the rows that are then at f, shrink the source.
Moved(t, sp, f, n, dp, d) ==
  LET source == Shifted(sp, dp, d, n)
      opened == Opened(t, dp, d, n)
  IN  Closed(Transferred(opened, source, f, n, dp, d), source, f, n)

\* The rows of p in the opposite order, each with all below it.
Mirrored(q, t, p) ==
  IF Below(p, q) THEN [q EXCEPT ![Len(p) + 1] = RowCount(t, p) - 1 - @] ELSE q

Reversed(t, p) ==
  [q \in {Mirrored(r, t, p) : r \in DOMAIN t} |-> t[Mirrored(q, t, p)]]

\* Everything below p is gone.
Pruned(t, p) == Restricted(t, {q \in DOMAIN t : ~Below(p, q)})
=============================================================================
