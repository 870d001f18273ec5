--------------------------- MODULE MCRemoteModel ---------------------------
EXTENDS RemoteModel

\* What flags() may say of a new row.
NoLeaves  == {FALSE}
AllLeaves == {TRUE}

\* Rows moved up within one parent are left out: doMoveRows() takes other rows there.
AllButMoveUp == OperationKinds \ {"moveUp"}
MoveAcross   == {"moveAcross"}

-----------------------------------------------------------------------------
(* RowTree against lists: rows a and rows b, each under a parent of its own. *)

Taken(s, f, n)    == SubSeq(s, 1, f) \o SubSeq(s, f + n + 1, Len(s))
Put(s, d, new)    == SubSeq(s, 1, d) \o new \o SubSeq(s, d + 1, Len(s))
Block(s, f, n)    == SubSeq(s, f + 1, f + n)
Children(t, p)    == [i \in 1..RowCount(t, p) |-> t[RowAt(p, i - 1)]]

Parents(a, b) ==
  LET top == Filled([p \in {Root} |-> 0], Root, 0, 2, <<0, 0>>)
  IN  Filled(Filled(top, <<0>>, 0, Len(a), a), <<1>>, 0, Len(b), b)

Lists == {[i \in 1..n |-> 10 + i] : n \in 0..4}

\* A block goes to another parent, or to another place under its own, in the order
\* it has; the destination is given as it was before the block was taken out.
ASSUME RowTreeMovesRows ==
  \A a \in Lists, b \in {<<21>>, <<21, 22>>} :
    LET t == Parents(a, b) IN
    \A f \in 0..(Len(a) - 1) : \A n \in 1..(Len(a) - f) :
      /\ \A d \in 0..Len(b) :
           LET r == Moved(t, <<0>>, f, n, <<1>>, d)
           IN  /\ Children(r, <<0>>) = Taken(a, f, n)
               /\ Children(r, <<1>>) = Put(b, d, Block(a, f, n))
      /\ \A d \in (0..Len(a)) \ (f..(f + n)) :
           LET r == Moved(t, <<0>>, IF d <= f THEN f + n ELSE f, n, <<0>>, d)
           IN  Children(r, <<0>>) =
                 Put(Taken(a, f, n), IF d < f THEN d ELSE d - n, Block(a, f, n))

\* Top level rows take what is below them along, and shift what comes after them.
ASSUME RowTreeMovesBranches ==
  \A a \in Lists, b \in {<<21>>, <<21, 22>>} :
    LET t == Parents(a, b)
        into  == Moved(t, Root, 0, 1, <<1>>, 1)
        swap  == Moved(t, Root, 0, 1, Root, 2)
        upper == Reversed(t, Root)
    IN  /\ Children(into, <<0, 1>>) = a /\ Children(into, <<0>>) = Put(b, 1, <<0>>)
        /\ Children(swap, <<0>>) = b /\ Children(swap, <<1>>) = a
        /\ Children(upper, <<0>>) = b /\ Children(upper, <<1>>) = a
        /\ Children(Closed(t, Root, 0, 1), <<0>>) = b
        /\ Children(Inserted(t, Root, 0, 1, <<0>>), <<1>>) = a
=============================================================================
