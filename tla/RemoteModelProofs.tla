------------------------- MODULE RemoteModelProofs -------------------------
(***************************************************************************)
(* Proofs about RemoteModel, for models of any number of rows and levels   *)
(* and any number of messages on the wire: the client's copy is coherent,  *)
(* no row waits for an answer that will not come, and the headers stay as  *)
(* many as the rows.                                                       *)
(*                                                                         *)
(* The first half is about RowTree: where a row is after others came, went *)
(* or moved, that rows stay without a gap, and what that makes of a model  *)
(* and of a copy of it.  The second half is about the two processes: what  *)
(* is on the wire leads from a model of which the client has a copy to the *)
(* present one, and every message takes the copy one step further; and who *)
(* waits for an answer has a request or the answer to it on that wire.     *)
(***************************************************************************)
EXTENDS RemoteModel, SequenceTheorems, FiniteSetTheorems, WellFoundedInduction, TLAPS

-----------------------------------------------------------------------------
(***************************************************************************)
(* Paths.                                                                  *)
(***************************************************************************)

Path == Seq(Nat)

\* A path with one more row number.
LEMMA ChildIs ==
  ASSUME NEW q \in Path, NEW i \in Nat
  PROVE  /\ RowAt(q, i) \in Path /\ Len(RowAt(q, i)) = Len(q) + 1
         /\ RowAt(q, i)[Len(q) + 1] = i
         /\ \A k \in 1..Len(q) : RowAt(q, i)[k] = q[k]
         /\ RowAt(q, i) # Root /\ Len(q) \in Nat
  BY AppendProperties DEF Path, RowAt, Root

\* It is another path.
LEMMA ChildIsNot ==
  ASSUME NEW q \in Path, NEW i \in Nat
  PROVE  RowAt(q, i) # q
<1>1. Len(RowAt(q, i)) = Len(q) + 1 /\ Len(q) \in Nat
  BY ChildIs
<1> QED
  BY <1>1

\* It has one parent and one number.
LEMMA ChildUnique ==
  ASSUME NEW q \in Path, NEW i \in Nat, NEW r \in Path, NEW j \in Nat
  PROVE  RowAt(q, i) = RowAt(r, j) <=> q = r /\ i = j
  BY AppendInjective DEF Path, RowAt

\* Every path but the root's has them.
LEMMA RootOrChild ==
  ASSUME NEW q \in Path
  PROVE  Root \in Path /\ (q = Root \/ \E r \in Path, i \in Nat : q = RowAt(r, i))
  BY SequenceEmptyOrAppend DEF Path, RowAt, Root

\* A path is below another one that it begins with.
LEMMA BelowIs ==
  ASSUME NEW p \in Path, NEW q \in Path
  PROVE  /\ Len(p) \in Nat /\ Len(q) \in Nat
         /\ Below(p, q) <=> Len(q) > Len(p) /\ \A k \in 1..Len(p) : q[k] = p[k]
         /\ Below(p, q) => Row(p, q) \in Nat /\ Row(p, q) = q[Len(p) + 1] /\ Len(p) + 1 \in 1..Len(q)
<1>1. /\ Len(p) \in Nat /\ Len(q) \in Nat
      /\ \A k \in 1..Len(p) : p[k] \in Nat
      /\ \A k \in 1..Len(q) : q[k] \in Nat
  BY LenProperties, ElementOfSeq DEF Path
<1>2. Below(p, q) => Len(p) + 1 \in 1..Len(q)
  BY <1>1 DEF Below
<1>3. ASSUME Len(q) > Len(p)
      PROVE  SubSeq(q, 1, Len(p)) = p <=> \A k \in 1..Len(p) : q[k] = p[k]
  <2> DEFINE n == Len(p)
             s == SubSeq(q, 1, n)
  <2>1. n \in Nat /\ 1 \in Int /\ n \in Int /\ \A i \in 1..n : q[i] \in Nat
    BY <1>1, <1>3
  <2> HIDE DEF n
  <2>2. /\ s \in Seq(Nat) /\ Len(s) = IF 1 <= n THEN n - 1 + 1 ELSE 0
        /\ \A i \in 1..n - 1 + 1 : s[i] = q[1 + i - 1]
    BY <2>1, SubSeqProperties
  <2>3. Len(s) = n
    BY <2>1, <2>2
  <2>4. \A i \in 1..n : s[i] = q[i]
    <3> SUFFICES ASSUME NEW i \in 1..n PROVE s[i] = q[i]
      OBVIOUS
    <3>1. i \in 1..n - 1 + 1 /\ 1 + i - 1 = i
      BY <2>1
    <3> QED
      BY <2>2, <3>1
  <2> HIDE DEF s
  <2>5. s = p <=> \A k \in 1..n : q[k] = p[k]
    <3>1. s = p => \A k \in 1..n : q[k] = p[k]
      BY <2>4
    <3>2. (\A k \in 1..n : q[k] = p[k]) => s = p
      BY <2>2, <2>3, <2>4, SeqEqual DEF Path, n
    <3> QED
      BY <3>1, <3>2
  <2> QED
    BY <2>5 DEF s, n
<1> QED
  BY <1>1, <1>2, <1>3 DEF Below, Row

\* What is below a row, and where the branch starts.
LEMMA BelowChild ==
  ASSUME NEW p \in Path, NEW q \in Path, NEW i \in Nat
  PROVE  /\ Below(p, RowAt(q, i)) <=> p = q \/ Below(p, q)
         /\ Below(p, q) => Row(p, RowAt(q, i)) = Row(p, q) /\ p # q
         /\ Row(q, RowAt(q, i)) = i
         /\ ~Below(RowAt(q, i), q)
<1> DEFINE r == RowAt(q, i)
<1>1. /\ r \in Path /\ Len(r) = Len(q) + 1 /\ r[Len(q) + 1] = i
      /\ \A k \in 1..Len(q) : r[k] = q[k]
  BY ChildIs
<1> HIDE DEF r
<1>2. /\ Len(p) \in Nat /\ Len(q) \in Nat
      /\ Below(p, q) <=> Len(q) > Len(p) /\ \A k \in 1..Len(p) : q[k] = p[k]
      /\ Below(p, r) <=> Len(r) > Len(p) /\ \A k \in 1..Len(p) : r[k] = p[k]
      /\ Below(r, q) => Len(q) > Len(r)
  BY <1>1, BelowIs
<1>3. Below(p, r) <=> p = q \/ Below(p, q)
  <2>1. CASE Len(q) > Len(p)
    BY <1>1, <1>2, <2>1
  <2>2. CASE Len(q) = Len(p)
    <3>1. Below(p, r) <=> \A k \in 1..Len(q) : q[k] = p[k]
      BY <1>1, <1>2, <2>2
    <3>2. (\A k \in 1..Len(q) : q[k] = p[k]) => q = p
      BY <2>2, SeqEqual DEF Path
    <3> QED
      BY <1>2, <2>2, <3>1, <3>2
  <2>3. CASE Len(q) < Len(p)
    BY <1>1, <1>2, <2>3
  <2> QED
    BY <1>2, <2>1, <2>2, <2>3
<1>4. Below(p, q) => r[Len(p) + 1] = q[Len(p) + 1] /\ p # q
  BY <1>1, <1>2
<1> QED
  BY <1>1, <1>2, <1>3, <1>4 DEF r, Row

\* Of two paths above a third one is above the other.
LEMMA BelowBoth ==
  ASSUME NEW p \in Path, NEW q \in Path, NEW r \in Path, Below(p, r), Below(q, r)
  PROVE  \/ p = q
         \/ Below(p, q) /\ Row(p, q) = Row(p, r)
         \/ Below(q, p) /\ Row(q, p) = Row(q, r)
<1>1. /\ Len(p) \in Nat /\ Len(q) \in Nat /\ Len(r) \in Nat
      /\ Len(r) > Len(p) /\ Len(r) > Len(q)
      /\ \A k \in 1..Len(p) : r[k] = p[k]
      /\ \A k \in 1..Len(q) : r[k] = q[k]
  BY BelowIs
<1>2. CASE Len(p) = Len(q)
  <2>1. \A k \in 1..Len(p) : p[k] = q[k]
    BY <1>1, <1>2
  <2> QED
    BY <1>2, <2>1, SeqEqual DEF Path
<1>3. ASSUME NEW a \in Path, NEW b \in Path, Len(a) \in Nat, Len(b) \in Nat, Len(a) < Len(b),
             \A k \in 1..Len(a) : r[k] = a[k], \A k \in 1..Len(b) : r[k] = b[k]
      PROVE  Below(a, b) /\ Row(a, b) = Row(a, r)
  <2>1. \A k \in 1..Len(a) : b[k] = a[k]
    BY <1>3
  <2>2. b[Len(a) + 1] = r[Len(a) + 1]
    BY <1>3
  <2> QED
    BY <1>3, <2>1, <2>2, BelowIs DEF Row
<1> QED
  BY <1>1, <1>2, <1>3

\* Below is transitive.
LEMMA BelowBelow ==
  ASSUME NEW p \in Path, NEW q \in Path, NEW r \in Path, Below(p, q), Below(q, r)
  PROVE  Below(p, r) /\ Row(p, r) = Row(p, q)
<1>1. /\ Len(p) \in Nat /\ Len(q) \in Nat /\ Len(r) \in Nat
      /\ Len(q) > Len(p) /\ Len(r) > Len(q)
      /\ \A k \in 1..Len(p) : q[k] = p[k]
      /\ \A k \in 1..Len(q) : r[k] = q[k]
  BY BelowIs
<1>2. \A k \in 1..Len(p) : r[k] = p[k]
  BY <1>1
<1>3. r[Len(p) + 1] = q[Len(p) + 1]
  BY <1>1
<1> QED
  BY <1>1, <1>2, <1>3, BelowIs DEF Row

-----------------------------------------------------------------------------
(***************************************************************************)
(* Shifting.                                                               *)
(***************************************************************************)

\* Where row i is when n rows enter or leave before row f.
Offset(i, f, n) == IF i >= f THEN i + n ELSE i

\* Row numbers stay numbers.
Shiftable(q, p, f, n) == Below(p, q) /\ Row(p, q) >= f => Row(p, q) + n \in Nat

\* A shifted path differs in one row number.
LEMMA ShiftedIs ==
  ASSUME NEW p \in Path, NEW q \in Path, NEW f \in Nat, NEW n \in Int, Shiftable(q, p, f, n)
  PROVE  LET r == Shifted(q, p, f, n) IN
         /\ r \in Path /\ Len(r) = Len(q)
         /\ ~(Below(p, q) /\ Row(p, q) >= f) => r = q
         /\ Below(p, r) <=> Below(p, q)
         /\ Below(p, q) => Row(p, r) = Offset(Row(p, q), f, n)
         /\ \A k \in 1..Len(q) : k # Len(p) + 1 => r[k] = q[k]
<1> DEFINE r == Shifted(q, p, f, n)
<1>1. CASE ~(Below(p, q) /\ Row(p, q) >= f)
  BY <1>1 DEF Shifted, Offset
<1>2. CASE Below(p, q) /\ Row(p, q) >= f
  <2>1. /\ Len(p) \in Nat /\ Len(q) \in Nat /\ Len(p) + 1 \in 1..Len(q)
        /\ Row(p, q) = q[Len(p) + 1] /\ Row(p, q) + n \in Nat
        /\ \A k \in 1..Len(p) : q[k] = p[k]
    BY <1>2, BelowIs DEF Shiftable
  <2> PICK m \in 1..Len(q) : m = Len(p) + 1
    BY <2>1
  <2> PICK v \in Nat : v = q[m] + n
    BY <2>1
  <2>2. r = [q EXCEPT ![m] = v]
    BY <1>2 DEF Shifted
  <2>3. /\ r \in Path /\ Len(r) = Len(q)
        /\ \A k \in 1..Len(q) : r[k] = IF k = m THEN v ELSE q[k]
    BY <2>2, ExceptSeq DEF Path
  <2> HIDE DEF r
  <2>4. \A k \in 1..Len(p) : r[k] = p[k]
    BY <2>1, <2>3
  <2>5. Below(p, r)
    BY <1>2, <2>1, <2>3, <2>4, BelowIs
  <2>6. Row(p, r) = v /\ v = Row(p, q) + n
    BY <2>1, <2>3 DEF Row
  <2> QED
    BY <1>2, <2>1, <2>3, <2>5, <2>6 DEF Offset, r
<1> QED
  BY <1>1, <1>2

\* Two shifts that undo each other.
LEMMA ShiftedTwice ==
  ASSUME NEW p \in Path, NEW q \in Path, NEW f \in Nat, NEW n \in Int, Shiftable(q, p, f, n),
         NEW g \in Nat, Below(p, q) /\ Row(p, q) >= f => Row(p, q) + n >= g,
         Below(p, q) /\ Row(p, q) < f => Row(p, q) < g
  PROVE  Shifted(Shifted(q, p, f, n), p, g, -n) = q
<1> DEFINE r == Shifted(q, p, f, n)
           s == Shifted(r, p, g, -n)
<1>1. /\ r \in Path /\ Len(r) = Len(q)
      /\ ~(Below(p, q) /\ Row(p, q) >= f) => r = q
      /\ Below(p, r) <=> Below(p, q)
      /\ Below(p, q) => Row(p, r) = Offset(Row(p, q), f, n)
      /\ \A k \in 1..Len(q) : k # Len(p) + 1 => r[k] = q[k]
  BY ShiftedIs
<1> HIDE DEF r
<1>2. Below(p, q) => Row(p, q) \in Nat
  BY BelowIs
<1>3. CASE Below(p, q) /\ Row(p, q) >= f
  <2>1. Row(p, r) = Row(p, q) + n /\ Row(p, r) >= g /\ -n \in Int /\ Row(p, r) + -n = Row(p, q)
    BY <1>1, <1>2, <1>3 DEF Offset
  <2>2. Shiftable(r, p, g, -n)
    BY <1>2, <1>3, <2>1 DEF Shiftable
  <2>3. /\ s \in Path /\ Len(s) = Len(r)
        /\ Below(p, s) /\ Row(p, s) = Offset(Row(p, r), g, -n)
        /\ \A k \in 1..Len(r) : k # Len(p) + 1 => s[k] = r[k]
    BY <1>1, <1>3, <2>1, <2>2, ShiftedIs
  <2>4. Row(p, s) = Row(p, q)
    BY <2>1, <2>3 DEF Offset
  <2> HIDE DEF s
  <2>5. \A k \in 1..Len(q) : s[k] = q[k]
    BY <1>1, <2>3, <2>4 DEF Row
  <2> QED
    BY <1>1, <2>3, <2>5, SeqEqual DEF Path, s, r
<1>4. CASE ~(Below(p, q) /\ Row(p, q) >= f)
  <2>1. r = q
    BY <1>1, <1>4
  <2>2. ~(Below(p, r) /\ Row(p, r) >= g)
    BY <1>2, <1>4, <2>1
  <2>3. s = r
    BY <2>2 DEF Shifted
  <2> QED
    BY <2>1, <2>3 DEF r, s
<1> QED
  BY <1>3, <1>4

\* What is in some rows of p, and shifting there.
LEMMA InRowsIs ==
  ASSUME NEW p \in Path, NEW q \in Path, NEW f \in Nat, NEW n \in Nat
  PROVE  InRows(p, q, f, n) <=> Below(p, q) /\ f <= Row(p, q) /\ Row(p, q) < f + n
  BY BelowIs DEF InRows

\* The rows of q are among or below n rows of p when q is, or when they are of p.
LEMMA InRowsChild ==
  ASSUME NEW p \in Path, NEW q \in Path, NEW i \in Nat, NEW f \in Nat, NEW n \in Nat
  PROVE  InRows(p, RowAt(q, i), f, n) <=> (p = q /\ f <= i /\ i < f + n) \/ InRows(p, q, f, n)
<1>1. RowAt(q, i) \in Path
  BY ChildIs
<1> QED
  BY <1>1, BelowChild, InRowsIs, BelowIs

\* Room is made and given up.
LEMMA ShiftUp ==
  ASSUME NEW p \in Path, NEW q \in Path, NEW f \in Nat, NEW n \in Nat
  PROVE  /\ Shiftable(q, p, f, n) /\ Shifted(q, p, f, n) \in Path
         /\ ~InRows(p, Shifted(q, p, f, n), f, n)
         /\ Shifted(Shifted(q, p, f, n), p, f + n, -n) = q
<1>1. Below(p, q) => Row(p, q) \in Nat
  BY BelowIs
<1>2. Shiftable(q, p, f, n)
  BY <1>1 DEF Shiftable
<1>3. n \in Int /\ f + n \in Nat
  OBVIOUS
<1>4. /\ Shifted(q, p, f, n) \in Path
      /\ Below(p, Shifted(q, p, f, n)) <=> Below(p, q)
      /\ Below(p, q) => Row(p, Shifted(q, p, f, n)) = Offset(Row(p, q), f, n)
  BY <1>2, <1>3, ShiftedIs
<1>5. ~InRows(p, Shifted(q, p, f, n), f, n)
  BY <1>1, <1>4, InRowsIs DEF Offset
<1>6. /\ Below(p, q) /\ Row(p, q) >= f => Row(p, q) + n >= f + n
      /\ Below(p, q) /\ Row(p, q) < f => Row(p, q) < f + n
  BY <1>1
<1> QED
  BY <1>2, <1>3, <1>4, <1>5, <1>6, ShiftedTwice

\* Rows move up by n, and back.
LEMMA ShiftDown ==
  ASSUME NEW p \in Path, NEW q \in Path, NEW f \in Nat, NEW n \in Nat
  PROVE  /\ Shiftable(q, p, f + n, -n) /\ Shifted(q, p, f + n, -n) \in Path
         /\ ~InRows(p, q, f, n) => Shifted(Shifted(q, p, f + n, -n), p, f, n) = q
<1>1. Below(p, q) => Row(p, q) \in Nat
  BY BelowIs
<1>2. Shiftable(q, p, f + n, -n)
  BY <1>1 DEF Shiftable
<1>3. -n \in Int /\ f + n \in Nat /\ -(-n) = n
  OBVIOUS
<1>4. Shifted(q, p, f + n, -n) \in Path
  BY <1>2, <1>3, ShiftedIs
<1>5. ASSUME ~InRows(p, q, f, n)
      PROVE  /\ Below(p, q) /\ Row(p, q) >= f + n => Row(p, q) + (-n) >= f
             /\ Below(p, q) /\ Row(p, q) < f + n => Row(p, q) < f
  BY <1>1, <1>5, InRowsIs
<1>6. ASSUME ~InRows(p, q, f, n)
      PROVE  Shifted(Shifted(q, p, f + n, -n), p, f, -(-n)) = q
  <2> PICK m \in Int : m = -n
    BY <1>3
  <2> PICK g \in Nat : g = f + n
    BY <1>3
  <2>1. /\ Below(p, q) /\ Row(p, q) >= g => Row(p, q) + m >= f
        /\ Below(p, q) /\ Row(p, q) < g => Row(p, q) < f
        /\ Shiftable(q, p, g, m)
    BY <1>2, <1>5, <1>6
  <2>2. Shifted(Shifted(q, p, g, m), p, f, -m) = q
    BY <2>1, ShiftedTwice
  <2> QED
    BY <2>2
<1> QED
  BY <1>2, <1>3, <1>4, <1>6

\* A row of a shifted row.
LEMMA ShiftedChild ==
  ASSUME NEW p \in Path, NEW q \in Path, NEW i \in Nat, NEW f \in Nat, NEW n \in Int,
         Shiftable(RowAt(q, i), p, f, n)
  PROVE  /\ p = q => Offset(i, f, n) \in Nat
                     /\ Shifted(RowAt(q, i), p, f, n) = RowAt(q, Offset(i, f, n))
         /\ p # q => Shifted(RowAt(q, i), p, f, n) = RowAt(Shifted(q, p, f, n), i)
         /\ Shiftable(q, p, f, n)
<1> DEFINE r == RowAt(q, i)
           t == Shifted(r, p, f, n)
           s == Shifted(q, p, f, n)
<1>1. /\ r \in Path /\ Len(r) = Len(q) + 1 /\ r[Len(q) + 1] = i /\ Len(q) \in Nat
      /\ \A k \in 1..Len(q) : r[k] = q[k]
  BY ChildIs
<1>2. /\ Below(p, r) <=> p = q \/ Below(p, q)
      /\ Below(p, q) => Row(p, r) = Row(p, q) /\ p # q
      /\ p = q => Row(p, r) = i /\ ~Below(p, q)
  BY BelowChild, BelowIs
<1>3. Shiftable(q, p, f, n)
  BY <1>2 DEF Shiftable
<1>4. /\ t \in Path /\ Len(t) = Len(r)
      /\ ~(Below(p, r) /\ Row(p, r) >= f) => t = r
      /\ Below(p, t) <=> Below(p, r)
      /\ Below(p, r) => Row(p, t) = Offset(Row(p, r), f, n)
      /\ \A k \in 1..Len(r) : k # Len(p) + 1 => t[k] = r[k]
  BY <1>1, ShiftedIs
<1>5. /\ s \in Path /\ Len(s) = Len(q)
      /\ ~(Below(p, q) /\ Row(p, q) >= f) => s = q
      /\ Below(p, s) <=> Below(p, q)
      /\ Below(p, q) => Row(p, s) = Offset(Row(p, q), f, n)
      /\ \A k \in 1..Len(q) : k # Len(p) + 1 => s[k] = q[k]
  BY <1>3, ShiftedIs
<1> HIDE DEF r, s, t
<1>6. CASE p = q
  <2>1. Offset(i, f, n) \in Nat
    BY <1>2, <1>6 DEF Shiftable, Offset, r
  <2> PICK j \in Nat : j = Offset(i, f, n)
    BY <2>1
  <2>2. t[Len(q) + 1] = j
    BY <1>2, <1>4, <1>6 DEF Row
  <2>3. /\ RowAt(q, j) \in Path /\ Len(RowAt(q, j)) = Len(q) + 1
        /\ RowAt(q, j)[Len(q) + 1] = j
        /\ \A k \in 1..Len(q) : RowAt(q, j)[k] = q[k]
    BY ChildIs
  <2>4. \A k \in 1..Len(t) : t[k] = RowAt(q, j)[k]
    <3> SUFFICES ASSUME NEW k \in 1..Len(q) + 1 PROVE t[k] = RowAt(q, j)[k]
      BY <1>1, <1>4
    <3>1. CASE k = Len(q) + 1
      BY <2>2, <2>3, <3>1
    <3>2. CASE k # Len(q) + 1
      BY <1>1, <1>4, <1>6, <2>3, <3>2
    <3> QED
      BY <3>1, <3>2
  <2>5. t = RowAt(q, j)
    BY <1>1, <1>4, <2>3, <2>4, SeqEqual DEF Path
  <2> QED
    BY <1>3, <1>6, <2>1, <2>5 DEF t, r
<1>7. CASE p # q
  <2>1. /\ RowAt(s, i) \in Path /\ Len(RowAt(s, i)) = Len(s) + 1
        /\ RowAt(s, i)[Len(s) + 1] = i
        /\ \A k \in 1..Len(s) : RowAt(s, i)[k] = s[k]
    BY <1>5, ChildIs
  <2>2. CASE Below(p, q)
    <3>1. /\ Len(p) \in Nat /\ Len(p) + 1 \in 1..Len(q)
          /\ t[Len(p) + 1] = s[Len(p) + 1]
      BY <1>2, <1>4, <1>5, <2>2, BelowIs DEF Row
    <3>2. \A k \in 1..Len(t) : t[k] = RowAt(s, i)[k]
      <4> SUFFICES ASSUME NEW k \in 1..Len(q) + 1 PROVE t[k] = RowAt(s, i)[k]
        BY <1>1, <1>4
      <4>1. CASE k = Len(q) + 1
        BY <1>1, <1>4, <1>5, <2>1, <3>1, <4>1
      <4>2. CASE k = Len(p) + 1
        BY <1>5, <2>1, <3>1, <4>2
      <4>3. CASE k # Len(q) + 1 /\ k # Len(p) + 1
        <5>1. k \in 1..Len(q) /\ k \in 1..Len(r)
          BY <1>1, <4>3
        <5> QED
          BY <1>1, <1>4, <1>5, <2>1, <4>3, <5>1
      <4> QED
        BY <4>1, <4>2, <4>3
    <3>3. t = RowAt(s, i)
      BY <1>1, <1>4, <1>5, <2>1, <3>2, SeqEqual DEF Path
    <3> QED
      BY <1>3, <1>7, <3>3 DEF t, r, s
  <2>3. CASE ~Below(p, q)
    BY <1>2, <1>3, <1>4, <1>5, <1>7, <2>3 DEF t, r, s
  <2> QED
    BY <2>2, <2>3
<1> QED
  BY <1>6, <1>7

-----------------------------------------------------------------------------
(***************************************************************************)
(* Rows of rows.                                                           *)
(***************************************************************************)

\* The numbers of the rows of q, and that there are k of them without a gap.
Idx(x, q)        == {i \in Nat : RowAt(q, i) \in DOMAIN x}
Counted(x, q, k) == Idx(x, q) = 0..(k - 1)

\* All rows are rows of rows.
Closure(x) == DOMAIN x \subseteq Path /\ \A q \in Path, i \in Nat : RowAt(q, i) \in DOMAIN x => q \in DOMAIN x

\* Counted() by number.
LEMMA CountedIs ==
  ASSUME NEW x, NEW q, NEW k \in Int
  PROVE  Counted(x, q, k) <=> \A i \in Nat : i \in Idx(x, q) <=> i < k
<1>1. Idx(x, q) \subseteq Nat /\ \A i \in Nat : i \in 0..(k - 1) <=> i < k
  BY DEF Idx
<1>2. 0..(k - 1) \subseteq Nat
  OBVIOUS
<1> DEFINE S == 0..(k - 1)
           T == Idx(x, q)
<1>3. (T = S) <=> \A i \in Nat : i \in T <=> i \in S
  <2>1. S \subseteq Nat /\ T \subseteq Nat
    BY <1>1, <1>2
  <2> HIDE DEF S, T
  <2> QED
    BY <2>1
<1> QED
  BY <1>1, <1>3 DEF Counted

\* Rows() by number.
LEMMA RowsIs ==
  ASSUME NEW x, DOMAIN x \subseteq Path, NEW q \in Path
  PROVE  Rows(x, q) = {RowAt(q, i) : i \in Idx(x, q)}
<1>1. ASSUME NEW r \in Rows(x, q)
      PROVE  r \in {RowAt(q, i) : i \in Idx(x, q)}
  <2>1. r \in DOMAIN x /\ r \in Path /\ Len(r) = Len(q) + 1 /\ Below(q, r)
    BY <1>1 DEF Rows
  <2>2. Len(q) \in Nat /\ \A k \in 1..Len(q) : r[k] = q[k]
    BY <2>1, BelowIs
  <2> PICK i \in Nat : i = r[Len(q) + 1]
    BY <2>1, BelowIs
  <2>3. /\ RowAt(q, i) \in Path /\ Len(RowAt(q, i)) = Len(q) + 1
        /\ RowAt(q, i)[Len(q) + 1] = i /\ \A k \in 1..Len(q) : RowAt(q, i)[k] = q[k]
    BY ChildIs
  <2>4. \A k \in 1..Len(r) : r[k] = RowAt(q, i)[k]
    BY <2>1, <2>2, <2>3
  <2>5. r = RowAt(q, i)
    BY <2>1, <2>3, <2>4, SeqEqual DEF Path
  <2> QED
    BY <2>1, <2>5 DEF Idx
<1>2. ASSUME NEW i \in Idx(x, q)
      PROVE  RowAt(q, i) \in Rows(x, q)
  <2>1. i \in Nat /\ RowAt(q, i) \in DOMAIN x
    BY <1>2 DEF Idx
  <2> QED
    BY <2>1, ChildIs, BelowChild DEF Rows
<1> QED
  BY <1>1, <1>2

\* RowCount() when there is no gap.
LEMMA CountIs ==
  ASSUME NEW x, DOMAIN x \subseteq Path, NEW q \in Path, NEW k \in Nat, Counted(x, q, k)
  PROVE  RowCount(x, q) = k
<1> DEFINE S == 0..(k - 1)
           T == Rows(x, q)
           g == [i \in S |-> RowAt(q, i)]
<1>1. T = {RowAt(q, i) : i \in S}
  BY RowsIs DEF Counted
<1> HIDE DEF T
<1>2. g \in Bijection(S, T)
  <2>1. g \in [S -> T] /\ \A y \in T : \E i \in S : g[i] = y
    BY <1>1
  <2>2. \A i, j \in S : g[i] = g[j] => i = j
    BY ChildUnique
  <2> QED
    BY <2>1, <2>2 DEF Bijection, Injection, Surjection, IsInjective
<1>3. IsFiniteSet(S) /\ Cardinality(S) = k
  <2>1. 0 \in Int /\ k - 1 \in Int
    OBVIOUS
  <2>2. IsFiniteSet(S) /\ Cardinality(S) = IF 0 > k - 1 THEN 0 ELSE k - 1 - 0 + 1
    BY <2>1, FS_Interval
  <2> QED
    BY <2>2
<1>4. Cardinality(T) = Cardinality(S)
  <2> HIDE DEF S, g
  <2>1. ExistsBijection(S, T)
    BY <1>2 DEF ExistsBijection
  <2> QED
    BY <1>3, <2>1, FS_Bijection
<1> QED
  BY <1>3, <1>4 DEF RowCount, T

\* Counts agree when rows do.
LEMMA CountedOnce ==
  ASSUME NEW x, NEW q, NEW j \in Nat, NEW k \in Nat, Counted(x, q, j), Counted(x, q, k)
  PROVE  j = k
<1>1. 0..(j - 1) = 0..(k - 1)
  BY DEF Counted
<1> QED
  BY <1>1

\* Above a row there are only rows.
LEMMA Ancestor ==
  ASSUME NEW x, Closure(x), NEW p \in Path, NEW q \in DOMAIN x, Below(p, q)
  PROVE  p \in DOMAIN x /\ Row(p, q) \in Idx(x, p)
<1> DEFINE N == {n \in Nat : \E r \in DOMAIN x : /\ Len(r) = n /\ Below(p, r)
                                                  /\ Row(p, r) = Row(p, q)}
<1>1. q \in Path /\ Len(q) \in N
  BY BelowIs DEF Closure
<1>2. PICK n \in N : \A m \in N : ~(m < n)
  <2>1. IsWellFoundedOn(OpToRel(<, Nat), Nat)
    BY NatLessThanWellFounded
  <2>2. N \subseteq Nat /\ N # {}
    BY <1>1
  <2> HIDE DEF N
  <2>3. \E n \in N : \A m \in N : <<m, n>> \notin OpToRel(<, Nat)
    BY <2>1, <2>2, WFMin
  <2> QED
    BY <2>2, <2>3 DEF OpToRel
<1>3. PICK r \in DOMAIN x : Len(r) = n /\ Below(p, r) /\ Row(p, r) = Row(p, q)
  BY <1>2
<1>4. r \in Path /\ r # Root
  <2>1. r \in Path
    BY DEF Closure
  <2>2. Len(r) # 0
    BY <1>3, <2>1, BelowIs
  <2> QED
    BY <2>1, <2>2 DEF Root
<1>5. PICK s \in Path, i \in Nat : r = RowAt(s, i)
  BY <1>4, RootOrChild
<1>6. s \in DOMAIN x /\ Len(r) = Len(s) + 1 /\ Len(s) \in Nat
  BY <1>5, ChildIs DEF Closure
<1>7. CASE s = p
  <2>1. Row(p, r) = i
    BY <1>5, <1>7, BelowChild
  <2> QED
    BY <1>3, <1>5, <1>6, <1>7, <2>1 DEF Idx
<1>8. CASE s # p
  <2>1. Below(p, s) /\ Row(p, s) = Row(p, r)
    BY <1>3, <1>5, <1>8, BelowChild
  <2>2. Len(s) \in N
    BY <1>3, <1>6, <2>1
  <2> QED
    BY <1>2, <1>3, <1>6, <2>2
<1> QED
  BY <1>7, <1>8

-----------------------------------------------------------------------------
(***************************************************************************)
(* What the rows are after rows came or went, in terms of those before.    *)
(***************************************************************************)

\* Rows of p went: what is at q was at a shifted place.
LEMMA ClosedIs ==
  ASSUME NEW x, DOMAIN x \subseteq Path, NEW p \in Path, NEW f \in Nat, NEW n \in Nat,
         NEW u, u = Closed(x, p, f, n)
  PROVE  /\ DOMAIN u \subseteq Path
         /\ \A q \in Path : q \in DOMAIN u <=> Shifted(q, p, f, n) \in DOMAIN x
         /\ \A q \in DOMAIN u : u[q] = x[Shifted(q, p, f, n)]
         /\ \A i \in Nat : i \in Idx(u, p) <=> Offset(i, f, n) \in Idx(x, p)
         /\ \A q \in Path : q # p => Idx(u, q) = Idx(x, Shifted(q, p, f, n))
<1> DEFINE kept == {q \in DOMAIN x : ~InRows(p, q, f, n)}
           D == {Shifted(r, p, f + n, -n) : r \in kept}
<1>1. DOMAIN u = D /\ \A q \in D : u[q] = x[Shifted(q, p, f, n)]
  BY DEF Closed
<1>2. D \subseteq Path
  BY ShiftDown
<1>3. \A q \in Path : q \in D <=> Shifted(q, p, f, n) \in DOMAIN x
  <2> SUFFICES ASSUME NEW q \in Path PROVE q \in D <=> Shifted(q, p, f, n) \in DOMAIN x
    OBVIOUS
  <2>1. ASSUME q \in D PROVE Shifted(q, p, f, n) \in DOMAIN x
    <3> PICK r \in kept : q = Shifted(r, p, f + n, -n)
      BY <2>1
    <3>1. Shifted(q, p, f, n) = r
      BY ShiftDown
    <3> QED
      BY <3>1
  <2>2. ASSUME Shifted(q, p, f, n) \in DOMAIN x PROVE q \in D
    <3>1. Shifted(q, p, f, n) \in kept /\ Shifted(Shifted(q, p, f, n), p, f + n, -n) = q
      BY <2>2, ShiftUp
    <3> QED
      BY <3>1
  <2> QED
    BY <2>1, <2>2
<1> HIDE DEF D
<1>4. \A q \in Path : q \in DOMAIN u <=> Shifted(q, p, f, n) \in DOMAIN x
  BY <1>1, <1>3
<1>5. \A q \in Path, i \in Nat :
        /\ RowAt(q, i) \in Path /\ Shifted(q, p, f, n) \in Path
        /\ p = q => Offset(i, f, n) \in Nat
                    /\ Shifted(RowAt(q, i), p, f, n) = RowAt(q, Offset(i, f, n))
        /\ p # q => Shifted(RowAt(q, i), p, f, n) = RowAt(Shifted(q, p, f, n), i)
  <2> SUFFICES ASSUME NEW q \in Path, NEW i \in Nat
               PROVE  /\ RowAt(q, i) \in Path /\ Shifted(q, p, f, n) \in Path
                      /\ p = q => Offset(i, f, n) \in Nat
                                  /\ Shifted(RowAt(q, i), p, f, n) = RowAt(q, Offset(i, f, n))
                      /\ p # q => Shifted(RowAt(q, i), p, f, n) = RowAt(Shifted(q, p, f, n), i)
    OBVIOUS
  <2>1. RowAt(q, i) \in Path
    BY ChildIs
  <2>2. Shiftable(RowAt(q, i), p, f, n) /\ Shifted(q, p, f, n) \in Path /\ n \in Int
    BY <2>1, ShiftUp
  <2> QED
    BY <2>1, <2>2, ShiftedChild
<1>6. \A i \in Nat : i \in Idx(u, p) <=> Offset(i, f, n) \in Idx(x, p)
  BY <1>4, <1>5 DEF Idx
<1>7. \A q \in Path : q # p => Idx(u, q) = Idx(x, Shifted(q, p, f, n))
  BY <1>4, <1>5 DEF Idx
<1> QED
  BY <1>1, <1>2, <1>4, <1>6, <1>7

\* Room is made at p: nothing is there, and what is elsewhere was at a shifted place.
LEMMA OpenedIs ==
  ASSUME NEW x, DOMAIN x \subseteq Path, NEW p \in Path, NEW f \in Nat, NEW n \in Nat,
         NEW u, u = Opened(x, p, f, n)
  PROVE  /\ DOMAIN u \subseteq Path
         /\ \A q \in Path : q \in DOMAIN u <=> /\ ~InRows(p, q, f, n)
                                               /\ Shifted(q, p, f + n, -n) \in DOMAIN x
         /\ \A q \in DOMAIN u : u[q] = x[Shifted(q, p, f + n, -n)]
         /\ \A i \in Nat : i \in Idx(u, p) <=> /\ ~(f <= i /\ i < f + n)
                                               /\ Offset(i, f + n, -n) \in Idx(x, p)
         /\ \A q \in Path : q # p /\ ~InRows(p, q, f, n) => Idx(u, q) = Idx(x, Shifted(q, p, f + n, -n))
         /\ \A q \in Path : InRows(p, q, f, n) => Idx(u, q) = {}
<1> DEFINE D == {Shifted(r, p, f, n) : r \in DOMAIN x}
<1>1. DOMAIN u = D /\ \A q \in D : u[q] = x[Shifted(q, p, f + n, -n)]
  BY DEF Opened
<1>2. D \subseteq Path
  BY ShiftUp
<1>3. \A q \in Path : q \in D <=> ~InRows(p, q, f, n) /\ Shifted(q, p, f + n, -n) \in DOMAIN x
  <2> SUFFICES ASSUME NEW q \in Path
               PROVE  q \in D <=> ~InRows(p, q, f, n) /\ Shifted(q, p, f + n, -n) \in DOMAIN x
    OBVIOUS
  <2>1. ASSUME q \in D PROVE ~InRows(p, q, f, n) /\ Shifted(q, p, f + n, -n) \in DOMAIN x
    <3> PICK r \in DOMAIN x : q = Shifted(r, p, f, n)
      BY <2>1
    <3>1. ~InRows(p, q, f, n) /\ Shifted(q, p, f + n, -n) = r
      BY ShiftUp
    <3> QED
      BY <3>1
  <2>2. ASSUME ~InRows(p, q, f, n), Shifted(q, p, f + n, -n) \in DOMAIN x PROVE q \in D
    <3>1. Shifted(Shifted(q, p, f + n, -n), p, f, n) = q
      BY <2>2, ShiftDown
    <3> QED
      BY <2>2, <3>1
  <2> QED
    BY <2>1, <2>2
<1> HIDE DEF D
<1>4. \A q \in Path : q \in DOMAIN u <=> ~InRows(p, q, f, n) /\ Shifted(q, p, f + n, -n) \in DOMAIN x
  BY <1>1, <1>3
<1>5. \A q \in Path, i \in Nat :
        /\ RowAt(q, i) \in Path /\ Shifted(q, p, f + n, -n) \in Path
        /\ p = q => Offset(i, f + n, -n) \in Nat
                    /\ Shifted(RowAt(q, i), p, f + n, -n) = RowAt(q, Offset(i, f + n, -n))
        /\ p # q => Shifted(RowAt(q, i), p, f + n, -n) = RowAt(Shifted(q, p, f + n, -n), i)
        /\ InRows(p, RowAt(q, i), f, n) <=> (p = q /\ f <= i /\ i < f + n) \/ InRows(p, q, f, n)
  <2> SUFFICES ASSUME NEW q \in Path, NEW i \in Nat
               PROVE  /\ RowAt(q, i) \in Path /\ Shifted(q, p, f + n, -n) \in Path
                      /\ p = q => Offset(i, f + n, -n) \in Nat
                                  /\ Shifted(RowAt(q, i), p, f + n, -n) = RowAt(q, Offset(i, f + n, -n))
                      /\ p # q => Shifted(RowAt(q, i), p, f + n, -n) = RowAt(Shifted(q, p, f + n, -n), i)
                      /\ InRows(p, RowAt(q, i), f, n)
                           <=> (p = q /\ f <= i /\ i < f + n) \/ InRows(p, q, f, n)
    OBVIOUS
  <2>1. RowAt(q, i) \in Path
    BY ChildIs
  <2>2. /\ Shiftable(RowAt(q, i), p, f + n, -n) /\ Shifted(q, p, f + n, -n) \in Path
        /\ f + n \in Nat /\ -n \in Int
    BY <2>1, ShiftDown
  <2>3. PICK m \in Int : m = -n
    BY <2>2
  <2>4. PICK g \in Nat : g = f + n
    BY <2>2
  <2>5. Shiftable(RowAt(q, i), p, g, m)
    BY <2>2, <2>3, <2>4
  <2>6. /\ p = q => Offset(i, g, m) \in Nat
                    /\ Shifted(RowAt(q, i), p, g, m) = RowAt(q, Offset(i, g, m))
        /\ p # q => Shifted(RowAt(q, i), p, g, m) = RowAt(Shifted(q, p, g, m), i)
    BY <2>5, ShiftedChild
  <2>7. InRows(p, RowAt(q, i), f, n) <=> (p = q /\ f <= i /\ i < f + n) \/ InRows(p, q, f, n)
    BY InRowsChild
  <2> QED
    BY <2>1, <2>2, <2>3, <2>4, <2>6, <2>7
<1>6. ~InRows(p, p, f, n)
  BY BelowIs DEF InRows
<1>7. \A i \in Nat : i \in Idx(u, p) <=> /\ ~(f <= i /\ i < f + n)
                                         /\ Offset(i, f + n, -n) \in Idx(x, p)
  <2> SUFFICES ASSUME NEW i \in Nat
               PROVE  i \in Idx(u, p) <=> /\ ~(f <= i /\ i < f + n)
                                         /\ Offset(i, f + n, -n) \in Idx(x, p)
    OBVIOUS
  <2> PICK j \in Nat : j = Offset(i, f + n, -n)
    BY <1>5
  <2>1. /\ RowAt(p, i) \in Path /\ Shifted(RowAt(p, i), p, f + n, -n) = RowAt(p, j)
        /\ InRows(p, RowAt(p, i), f, n) <=> f <= i /\ i < f + n
    BY <1>5, <1>6
  <2> QED
    BY <1>4, <2>1 DEF Idx
<1>8. \A q \in Path : q # p /\ ~InRows(p, q, f, n) => Idx(u, q) = Idx(x, Shifted(q, p, f + n, -n))
  BY <1>4, <1>5 DEF Idx
<1>9. \A q \in Path : InRows(p, q, f, n) => Idx(u, q) = {}
  BY <1>4, <1>5 DEF Idx
<1> QED
  BY <1>1, <1>2, <1>4, <1>7, <1>8, <1>9

\* Rows of p are new.
LEMMA FilledIs ==
  ASSUME NEW x, DOMAIN x \subseteq Path, NEW p \in Path, NEW f \in Nat, NEW n \in Nat, NEW new,
         NEW u, u = Filled(x, p, f, n, new)
  PROVE  /\ DOMAIN u \subseteq Path
         /\ \A i \in Nat : f <= i /\ i < f + n => RowAt(p, i) \in DOMAIN u /\ u[RowAt(p, i)] = new[i - f + 1]
         /\ \A q \in Path : (\A i \in Nat : f <= i /\ i < f + n => q # RowAt(p, i)) =>
              (q \in DOMAIN u <=> q \in DOMAIN x) /\ (q \in DOMAIN u => u[q] = x[q])
         /\ \A q \in DOMAIN x : q \in DOMAIN u
         /\ \A i \in Nat : i \in Idx(u, p) <=> (f <= i /\ i < f + n) \/ i \in Idx(x, p)
         /\ \A q \in Path : q # p => Idx(u, q) = Idx(x, q)
<1> DEFINE rows == {RowAt(p, f + i - 1) : i \in 1..n}
<1>1. /\ DOMAIN u = DOMAIN x \cup rows
      /\ \A q \in DOMAIN x \cup rows : u[q] = IF q \in rows THEN new[Row(p, q) - f + 1] ELSE x[q]
  BY DEF Filled
<1>2. \A q : q \in rows <=> \E i \in Nat : f <= i /\ i < f + n /\ q = RowAt(p, i)
  <2>1. ASSUME NEW q, q \in rows
        PROVE  \E i \in Nat : f <= i /\ i < f + n /\ q = RowAt(p, i)
    <3> PICK i \in 1..n : q = RowAt(p, f + i - 1)
      BY <2>1
    <3> PICK j \in Nat : j = f + i - 1
      OBVIOUS
    <3> QED
      OBVIOUS
  <2>2. ASSUME NEW i \in Nat, f <= i, i < f + n
        PROVE  RowAt(p, i) \in rows
    <3> PICK j \in 1..n : f + j - 1 = i
      <4>1. i - f + 1 \in 1..n /\ f + (i - f + 1) - 1 = i
        BY <2>2
      <4> QED
        BY <4>1
    <3> QED
      OBVIOUS
  <2> QED
    BY <2>1, <2>2
<1> HIDE DEF rows
<1>3. \A q \in Path, i \in Nat : RowAt(q, i) \in Path /\ Row(p, RowAt(p, i)) = i
  BY ChildIs, BelowChild
<1>4. DOMAIN u \subseteq Path
  BY <1>1, <1>2, <1>3
<1>5. \A i \in Nat : f <= i /\ i < f + n => RowAt(p, i) \in DOMAIN u /\ u[RowAt(p, i)] = new[i - f + 1]
  <2> SUFFICES ASSUME NEW i \in Nat, f <= i, i < f + n
               PROVE  RowAt(p, i) \in DOMAIN u /\ u[RowAt(p, i)] = new[i - f + 1]
    OBVIOUS
  <2>1. RowAt(p, i) \in rows
    BY <1>2
  <2>2. Row(p, RowAt(p, i)) = i
    BY <1>3
  <2>3. u[RowAt(p, i)] = new[Row(p, RowAt(p, i)) - f + 1]
    BY <1>1, <2>1
  <2> QED
    BY <1>1, <2>1, <2>2, <2>3
<1>6. \A q \in Path : (\A i \in Nat : f <= i /\ i < f + n => q # RowAt(p, i)) =>
        (q \in DOMAIN u <=> q \in DOMAIN x) /\ (q \in DOMAIN u => u[q] = x[q])
  BY <1>1, <1>2
<1>7. \A q \in Path, i \in Nat : RowAt(q, i) \in rows <=> q = p /\ f <= i /\ i < f + n
  BY <1>2, ChildUnique
<1>8. \A i \in Nat : i \in Idx(u, p) <=> (f <= i /\ i < f + n) \/ i \in Idx(x, p)
  BY <1>1, <1>7 DEF Idx
<1>9. \A q \in Path : q # p => Idx(u, q) = Idx(x, q)
  BY <1>1, <1>7 DEF Idx
<1> QED
  BY <1>1, <1>4, <1>5, <1>6, <1>8, <1>9

-----------------------------------------------------------------------------
(***************************************************************************)
(* Moving.                                                                 *)
(***************************************************************************)

\* r is q with e and d in the place of p and f.
AtLanding(r, q, p, f, e, d) ==
  /\ r \in Path /\ Len(r) = Len(e) + Len(q) - Len(p)
  /\ Below(e, r) /\ Row(e, r) = Row(p, q) - f + d
  /\ \A k \in 2..(Len(q) - Len(p)) : r[Len(e) + k] = q[Len(p) + k]

\* A path that lands elsewhere has another beginning.
LEMMA LandedIs ==
  ASSUME NEW p \in Path, NEW q \in Path, NEW f \in Nat, NEW e \in Path, NEW d \in Nat,
         Below(p, q), f <= Row(p, q)
  PROVE  AtLanding(Landed(q, p, f, e, d), q, p, f, e, d)
<1> DEFINE a == e \o <<Row(p, q) - f + d>>
           b == SubSeq(q, Len(p) + 2, Len(q))
<1>1. /\ Len(p) \in Nat /\ Len(q) \in Nat /\ Len(e) \in Nat /\ Len(q) > Len(p)
      /\ Row(p, q) \in Nat /\ \A k \in 1..Len(q) : q[k] \in Nat
  BY BelowIs, LenProperties, ElementOfSeq DEF Path
<1> PICK v \in Nat : v = Row(p, q) - f + d
  BY <1>1
<1>2. /\ a \in Path /\ Len(a) = Len(e) + 1 /\ a[Len(e) + 1] = v
      /\ \A k \in 1..Len(e) : a[k] = e[k]
  <2>1. <<v>> \in Path /\ Len(<<v>>) = 1 /\ <<v>>[1] = v
    BY DEF Path
  <2>2. /\ e \o <<v>> \in Path /\ Len(e \o <<v>>) = Len(e) + 1
        /\ \A k \in 1..(Len(e) + 1) : (e \o <<v>>)[k] = IF k <= Len(e) THEN e[k] ELSE <<v>>[k - Len(e)]
    BY <2>1, ConcatProperties DEF Path
  <2>3. (e \o <<v>>)[Len(e) + 1] = v
    <3>1. Len(e) + 1 - Len(e) = 1 /\ ~(Len(e) + 1 <= Len(e)) /\ Len(e) + 1 \in 1..(Len(e) + 1)
      BY <1>1
    <3> QED
      BY <2>1, <2>2, <3>1
  <2> QED
    BY <1>1, <2>2, <2>3
<1>3. /\ b \in Path /\ Len(b) = Len(q) - Len(p) - 1
      /\ \A k \in 1..(Len(q) - Len(p) - 1) : b[k] = q[Len(p) + 1 + k]
  <2> PICK m \in Int : m = Len(p) + 2
    BY <1>1
  <2> PICK l \in Int : l = Len(q)
    BY <1>1
  <2>1. \A i \in m..l : q[i] \in Nat
    BY <1>1
  <2>2. /\ SubSeq(q, m, l) \in Seq(Nat)
        /\ Len(SubSeq(q, m, l)) = IF m <= l THEN l - m + 1 ELSE 0
        /\ \A i \in 1..(l - m + 1) : SubSeq(q, m, l)[i] = q[m + i - 1]
    BY <2>1, SubSeqProperties
  <2>3. /\ \A k \in 1..(Len(q) - Len(p) - 1) : k \in 1..(l - m + 1) /\ m + k - 1 = Len(p) + 1 + k
        /\ (IF m <= l THEN l - m + 1 ELSE 0) = Len(q) - Len(p) - 1
    BY <1>1
  <2>4. b = SubSeq(q, m, l)
    OBVIOUS
  <2> HIDE DEF b
  <2>5. b \in Path /\ Len(b) = Len(q) - Len(p) - 1
    BY <2>2, <2>3, <2>4 DEF Path
  <2>6. ASSUME NEW k \in 1..(Len(q) - Len(p) - 1) PROVE b[k] = q[Len(p) + 1 + k]
    <3>1. k \in 1..(l - m + 1) /\ m + k - 1 = Len(p) + 1 + k
      BY <2>3
    <3>2. b[k] = q[m + k - 1]
      BY <2>2, <2>4, <3>1
    <3> QED
      BY <3>1, <3>2
  <2> QED
    BY <2>5, <2>6
<1>4. Landed(q, p, f, e, d) = a \o b
  BY DEF Landed
<1> HIDE DEF a, b
<1>5. /\ a \o b \in Path /\ Len(a \o b) = Len(a) + Len(b)
      /\ \A k \in 1..(Len(a) + Len(b)) : (a \o b)[k] = IF k <= Len(a) THEN a[k] ELSE b[k - Len(a)]
  BY <1>2, <1>3, ConcatProperties DEF Path
<1>11. PICK r \in Path : r = a \o b
  BY <1>5
<1>12. /\ Len(r) = Len(a) + Len(b)
       /\ \A k \in 1..(Len(a) + Len(b)) : r[k] = IF k <= Len(a) THEN a[k] ELSE b[k - Len(a)]
  BY <1>5, <1>11
<1>6. Len(r) = Len(e) + Len(q) - Len(p)
  BY <1>1, <1>2, <1>3, <1>12
<1>7. ASSUME NEW k \in 1..Len(e) PROVE r[k] = e[k]
  <2>1. k \in 1..(Len(a) + Len(b)) /\ k <= Len(a)
    BY <1>1, <1>2, <1>3
  <2> QED
    BY <1>2, <1>12, <2>1
<1>8. r[Len(e) + 1] = v
  <2>1. Len(e) + 1 \in 1..(Len(a) + Len(b)) /\ Len(e) + 1 <= Len(a)
    BY <1>1, <1>2, <1>3
  <2> QED
    BY <1>2, <1>12, <2>1
<1>9. ASSUME NEW k \in 2..(Len(q) - Len(p)) PROVE r[Len(e) + k] = q[Len(p) + k]
  <2> PICK j \in 1..(Len(q) - Len(p) - 1) : j = k - 1
    BY <1>1
  <2>1. /\ Len(e) + k \in 1..(Len(a) + Len(b)) /\ ~(Len(e) + k <= Len(a))
        /\ Len(e) + k - Len(a) = j /\ Len(p) + 1 + j = Len(p) + k
    BY <1>1, <1>2, <1>3
  <2>2. r[Len(e) + k] = b[j]
    BY <1>12, <2>1
  <2> QED
    BY <1>3, <2>1, <2>2
<1>10. Below(e, r)
  BY <1>1, <1>6, <1>7, BelowIs
<1> QED
  <2>1. Row(e, r) = Row(p, q) - f + d
    BY <1>8 DEF Row
  <2>2. AtLanding(r, q, p, f, e, d)
    BY <1>6, <1>9, <1>10, <2>1 DEF AtLanding
  <2> QED
    BY <1>4, <1>11, <2>2

\* It comes back to where it was.
LEMMA LandedTwice ==
  ASSUME NEW p \in Path, NEW q \in Path, NEW f \in Nat, NEW e \in Path, NEW d \in Nat, NEW n \in Nat,
         InRows(p, q, f, n)
  PROVE  /\ Landed(q, p, f, e, d) \in Path /\ InRows(e, Landed(q, p, f, e, d), d, n)
         /\ Landed(Landed(q, p, f, e, d), e, d, p, f) = q
<1>1. /\ Below(p, q) /\ f <= Row(p, q) /\ Row(p, q) < f + n /\ Row(p, q) \in Nat
      /\ Len(p) \in Nat /\ Len(q) \in Nat /\ Len(e) \in Nat /\ Len(q) > Len(p)
      /\ \A k \in 1..Len(p) : q[k] = p[k]
  BY InRowsIs, BelowIs
<1>11. PICK r : r = Landed(q, p, f, e, d) /\ AtLanding(r, q, p, f, e, d)
  BY <1>1, LandedIs
<1>2. /\ r \in Path /\ Len(r) = Len(e) + Len(q) - Len(p)
      /\ Below(e, r) /\ Row(e, r) = Row(p, q) - f + d
      /\ \A k \in 2..(Len(q) - Len(p)) : r[Len(e) + k] = q[Len(p) + k]
  BY <1>11 DEF AtLanding
<1>3. InRows(e, r, d, n) /\ d <= Row(e, r)
  BY <1>1, <1>2, InRowsIs
<1>12. PICK s : s = Landed(r, e, d, p, f) /\ AtLanding(s, r, e, d, p, f)
  BY <1>2, <1>3, LandedIs
<1>4. /\ s \in Path /\ Len(s) = Len(p) + Len(r) - Len(e)
      /\ Below(p, s) /\ Row(p, s) = Row(e, r) - d + f
      /\ \A k \in 2..(Len(r) - Len(e)) : s[Len(p) + k] = r[Len(e) + k]
  BY <1>12 DEF AtLanding
<1>5. Len(s) = Len(q) /\ Row(p, s) = Row(p, q) /\ Len(r) - Len(e) = Len(q) - Len(p)
  BY <1>1, <1>2, <1>4
<1>6. \A k \in 1..Len(p) : s[k] = p[k]
  BY <1>4, BelowIs
<1>7. ASSUME NEW k \in 1..Len(s) PROVE s[k] = q[k]
  <2>1. CASE k <= Len(p)
    BY <1>1, <1>6, <2>1
  <2>2. CASE k = Len(p) + 1
    BY <1>5, <2>2 DEF Row
  <2>3. CASE k > Len(p) + 1
    <3> PICK j \in 2..(Len(q) - Len(p)) : k = Len(p) + j
      <4>1. k - Len(p) \in 2..(Len(q) - Len(p)) /\ k = Len(p) + (k - Len(p))
        BY <1>1, <1>5, <2>3
      <4> QED
        BY <4>1
    <3> QED
      BY <1>2, <1>4, <1>5
  <2> QED
    BY <1>1, <2>1, <2>2, <2>3
<1>8. s = q
  BY <1>4, <1>5, <1>7, SeqEqual DEF Path
<1> QED
  BY <1>2, <1>3, <1>8, <1>11, <1>12

\* A row of a row that lands lands with it.
LEMMA LandedChild ==
  ASSUME NEW p \in Path, NEW q \in Path, NEW i \in Nat, NEW f \in Nat, NEW e \in Path, NEW d \in Nat
  PROVE  /\ p = q /\ f <= i => i - f + d \in Nat /\ Landed(RowAt(q, i), p, f, e, d) = RowAt(e, i - f + d)
         /\ Below(p, q) /\ f <= Row(p, q) =>
              Landed(RowAt(q, i), p, f, e, d) = RowAt(Landed(q, p, f, e, d), i)
<1>6. /\ RowAt(q, i) \in Path /\ Len(RowAt(q, i)) = Len(q) + 1 /\ RowAt(q, i)[Len(q) + 1] = i
      /\ \A k \in 1..Len(q) : RowAt(q, i)[k] = q[k]
      /\ Below(p, RowAt(q, i)) <=> p = q \/ Below(p, q)
      /\ Below(p, q) => Row(p, RowAt(q, i)) = Row(p, q) /\ p # q
      /\ p = q => Row(p, RowAt(q, i)) = i
      /\ Len(p) \in Nat /\ Len(q) \in Nat /\ Len(e) \in Nat
  <2>1. RowAt(q, i) \in Path /\ Len(RowAt(q, i)) = Len(q) + 1 /\ RowAt(q, i)[Len(q) + 1] = i
    BY ChildIs, BelowChild, BelowIs
  <2>2. \A k \in 1..Len(q) : RowAt(q, i)[k] = q[k]
    BY ChildIs, BelowChild, BelowIs
  <2>3. Below(p, RowAt(q, i)) <=> p = q \/ Below(p, q)
    BY ChildIs, BelowChild, BelowIs
  <2>4. Below(p, q) => Row(p, RowAt(q, i)) = Row(p, q) /\ p # q
    BY ChildIs, BelowChild, BelowIs
  <2>5. p = q => Row(p, RowAt(q, i)) = i
    BY ChildIs, BelowChild, BelowIs
  <2>6. Len(p) \in Nat /\ Len(q) \in Nat /\ Len(e) \in Nat
    BY ChildIs, BelowChild, BelowIs
  <2> QED
    BY <2>1, <2>2, <2>3, <2>4, <2>5, <2>6
<1>7. PICK c \in Path : c = RowAt(q, i)
  BY <1>6
<1>1. /\ Len(c) = Len(q) + 1 /\ c[Len(q) + 1] = i
      /\ \A k \in 1..Len(q) : c[k] = q[k]
      /\ Below(p, c) <=> p = q \/ Below(p, q)
      /\ Below(p, q) => Row(p, c) = Row(p, q) /\ p # q
      /\ p = q => Row(p, c) = i
      /\ Len(p) \in Nat /\ Len(q) \in Nat /\ Len(e) \in Nat
  BY <1>6, <1>7
<1>2. CASE p = q /\ f <= i
  <2> PICK j \in Nat : j = i - f + d
    BY <1>2
  <2>6. PICK r : r = Landed(c, p, f, e, d) /\ AtLanding(r, c, p, f, e, d)
    BY <1>1, <1>2, LandedIs
  <2>7. /\ r \in Path /\ Len(r) = Len(e) + Len(c) - Len(p)
        /\ Below(e, r) /\ Row(e, r) = Row(p, c) - f + d
    BY <2>6 DEF AtLanding
  <2>1. r \in Path /\ Len(r) = Len(e) + 1 /\ Below(e, r) /\ Row(e, r) = j
    BY <1>1, <1>2, <2>7
  <2>2. /\ RowAt(e, j) \in Path /\ Len(RowAt(e, j)) = Len(e) + 1 /\ RowAt(e, j)[Len(e) + 1] = j
        /\ \A k \in 1..Len(e) : RowAt(e, j)[k] = e[k]
    BY ChildIs
  <2>3. \A k \in 1..Len(e) : r[k] = e[k]
    BY <2>1, BelowIs
  <2>4. \A k \in 1..Len(r) : r[k] = RowAt(e, j)[k]
    BY <1>1, <2>1, <2>2, <2>3 DEF Row
  <2>5. r = RowAt(e, j)
    BY <2>1, <2>2, <2>4, SeqEqual DEF Path
  <2> QED
    BY <1>1, <1>2, <1>7, <2>5, <2>6
<1>3. CASE Below(p, q) /\ f <= Row(p, q)
  <2>7. PICK r : r = Landed(c, p, f, e, d) /\ AtLanding(r, c, p, f, e, d)
    BY <1>1, <1>3, LandedIs
  <2>8. PICK s : s = Landed(q, p, f, e, d) /\ AtLanding(s, q, p, f, e, d)
    BY <1>3, LandedIs
  <2>1. /\ r \in Path /\ Len(r) = Len(e) + Len(c) - Len(p)
        /\ Below(e, r) /\ Row(e, r) = Row(p, c) - f + d
        /\ \A k \in 2..(Len(c) - Len(p)) : r[Len(e) + k] = c[Len(p) + k]
    BY <2>7 DEF AtLanding
  <2>2. /\ s \in Path /\ Len(s) = Len(e) + Len(q) - Len(p)
        /\ Below(e, s) /\ Row(e, s) = Row(p, q) - f + d
        /\ \A k \in 2..(Len(q) - Len(p)) : s[Len(e) + k] = q[Len(p) + k]
    BY <2>8 DEF AtLanding
  <2>3. /\ RowAt(s, i) \in Path /\ Len(RowAt(s, i)) = Len(s) + 1 /\ RowAt(s, i)[Len(s) + 1] = i
        /\ \A k \in 1..Len(s) : RowAt(s, i)[k] = s[k]
    BY <2>2, ChildIs
  <2>4. /\ Len(q) > Len(p) /\ Len(r) = Len(s) + 1
        /\ \A k \in 1..Len(e) : r[k] = e[k] /\ s[k] = e[k]
        /\ r[Len(e) + 1] = s[Len(e) + 1]
    <3>1. Len(q) > Len(p) /\ Len(r) = Len(s) + 1
      BY <1>1, <1>3, <2>1, <2>2, BelowIs DEF Row
    <3>2. \A k \in 1..Len(e) : r[k] = e[k] /\ s[k] = e[k]
      BY <1>1, <1>3, <2>1, <2>2, BelowIs DEF Row
    <3>3. r[Len(e) + 1] = s[Len(e) + 1]
      BY <1>1, <1>3, <2>1, <2>2, BelowIs DEF Row
    <3> QED
      BY <3>1, <3>2, <3>3
  <2>5. ASSUME NEW k \in 1..Len(r) PROVE r[k] = RowAt(s, i)[k]
    <3>1. CASE k <= Len(e) + 1
      <4>1. k \in 1..Len(s) /\ (k \in 1..Len(e) \/ k = Len(e) + 1)
        BY <1>1, <2>2, <2>4, <3>1
      <4> QED
        BY <2>3, <2>4, <4>1
    <3>2. CASE k > Len(e) + 1
      <4> PICK j \in 2..(Len(c) - Len(p)) : k = Len(e) + j
        <5>1. k - Len(e) \in 2..(Len(c) - Len(p)) /\ k = Len(e) + (k - Len(e))
          BY <1>1, <2>1, <2>2, <2>4, <3>2
        <5> QED
          BY <5>1
      <4>1. r[k] = c[Len(p) + j]
        BY <2>1
      <4>2. CASE j = Len(q) - Len(p) + 1
        <5>1. Len(p) + j = Len(q) + 1 /\ k = Len(s) + 1
          BY <1>1, <2>2, <4>2
        <5> QED
          BY <1>1, <2>3, <4>1, <5>1
      <4>3. CASE j # Len(q) - Len(p) + 1
        <5>1. j <= Len(q) - Len(p) + 1 /\ j >= 2
          BY <1>1
        <5>2. j \in 2..(Len(q) - Len(p)) /\ Len(p) + j \in 1..Len(q) /\ k \in 1..Len(s)
          <6>1. j < Len(q) - Len(p) + 1 /\ Len(p) + j >= 1 /\ Len(p) + j <= Len(q)
            BY <1>1, <4>3, <5>1
          <6>2. k >= 1 /\ k <= Len(s)
            BY <1>1, <2>2, <6>1
          <6> QED
            BY <1>1, <2>2, <5>1, <6>1, <6>2
        <5> QED
          BY <1>1, <2>2, <2>3, <4>1, <5>2
      <4> QED
        BY <4>2, <4>3
    <3> QED
      BY <1>1, <3>1, <3>2
  <2>6. r = RowAt(s, i)
    BY <2>1, <2>3, <2>4, <2>5, SeqEqual DEF Path
  <2> QED
    BY <1>1, <1>3, <1>7, <2>6, <2>7, <2>8
<1>4. CASE ~(p = q /\ f <= i) /\ ~(Below(p, q) /\ f <= Row(p, q))
  BY <1>4
<1>5. ~(p = q /\ Below(p, q))
  BY <1>1
<1> QED
  BY <1>2, <1>3, <1>4, <1>5, <1>7

\* There is no row among those n of p.
Room(x, p, f, n) == \A q \in DOMAIN x : ~InRows(p, q, f, n)

\* Rows of p are put where there is room for them.
LEMMA TransferredIs ==
  ASSUME NEW x, DOMAIN x \subseteq Path, NEW p \in Path, NEW f \in Nat, NEW n \in Nat,
         NEW e \in Path, NEW d \in Nat, Room(x, e, d, n), NEW u, u = Transferred(x, p, f, n, e, d)
  PROVE  /\ DOMAIN u \subseteq Path
         /\ \A q \in Path : InRows(e, q, d, n) =>
              /\ q \in DOMAIN u <=> Landed(q, e, d, p, f) \in DOMAIN x
              /\ q \in DOMAIN u => u[q] = x[Landed(q, e, d, p, f)]
              /\ Idx(u, q) = Idx(x, Landed(q, e, d, p, f))
         /\ \A q \in Path : ~InRows(e, q, d, n) =>
              /\ q \in DOMAIN u <=> q \in DOMAIN x
              /\ q \in DOMAIN u => u[q] = x[q]
              /\ q # e => Idx(u, q) = Idx(x, q)
         /\ \A i \in Nat : i \in Idx(u, e) <=> \/ i \in Idx(x, e)
                                               \/ d <= i /\ i < d + n /\ i - d + f \in Idx(x, p)
<1> DEFINE block == {q \in DOMAIN x : InRows(p, q, f, n)}
           there == {Landed(q, p, f, e, d) : q \in block}
<1>1. /\ DOMAIN u = DOMAIN x \cup there
      /\ \A q \in DOMAIN u : u[q] = IF q \in there THEN x[Landed(q, e, d, p, f)] ELSE x[q]
  BY DEF Transferred
<1>2. \A q \in there : q \in Path /\ InRows(e, q, d, n) /\ Landed(q, e, d, p, f) \in DOMAIN x
  BY LandedTwice
<1>3. ASSUME NEW q \in Path, InRows(e, q, d, n), Landed(q, e, d, p, f) \in DOMAIN x
      PROVE  q \in there
  <2>1. InRows(p, Landed(q, e, d, p, f), f, n) /\ Landed(Landed(q, e, d, p, f), p, f, e, d) = q
    BY <1>3, LandedTwice
  <2>2. Landed(q, e, d, p, f) \in block
    BY <1>3, <2>1
  <2> QED
    BY <2>1, <2>2
<1> HIDE DEF there
<1>4. DOMAIN u \subseteq Path
  BY <1>1, <1>2
<1>5. \A q \in Path : InRows(e, q, d, n) =>
        /\ q \in DOMAIN u <=> Landed(q, e, d, p, f) \in DOMAIN x
        /\ q \in DOMAIN u => u[q] = x[Landed(q, e, d, p, f)]
  BY <1>1, <1>2, <1>3 DEF Room
<1>6. \A q \in Path : ~InRows(e, q, d, n) =>
        /\ q \in DOMAIN u <=> q \in DOMAIN x
        /\ q \in DOMAIN u => u[q] = x[q]
  BY <1>1, <1>2
<1>7. ASSUME NEW q \in Path, NEW i \in Nat
      PROVE  /\ RowAt(q, i) \in Path
             /\ InRows(e, RowAt(q, i), d, n) <=> (e = q /\ d <= i /\ i < d + n) \/ InRows(e, q, d, n)
  BY ChildIs, InRowsChild
<1>8. ASSUME NEW q \in Path, InRows(e, q, d, n)
      PROVE  Idx(u, q) = Idx(x, Landed(q, e, d, p, f))
  <2>1. Below(e, q) /\ d <= Row(e, q)
    BY <1>8, InRowsIs
  <2>2. ASSUME NEW i \in Nat
        PROVE  RowAt(q, i) \in DOMAIN u <=> RowAt(Landed(q, e, d, p, f), i) \in DOMAIN x
    <3>1. Landed(RowAt(q, i), e, d, p, f) = RowAt(Landed(q, e, d, p, f), i)
      BY <2>1, LandedChild
    <3> QED
      BY <1>5, <1>7, <1>8, <3>1
  <2> QED
    BY <2>2 DEF Idx
<1>9. \A q \in Path : ~InRows(e, q, d, n) /\ q # e => Idx(u, q) = Idx(x, q)
  BY <1>6, <1>7 DEF Idx
<1>10. ASSUME NEW i \in Nat
       PROVE  i \in Idx(u, e) <=> \/ i \in Idx(x, e)
                                  \/ d <= i /\ i < d + n /\ i - d + f \in Idx(x, p)
  <2>1. ~InRows(e, e, d, n)
    BY BelowIs DEF InRows
  <2>2. CASE d <= i /\ i < d + n
    <3> PICK j \in Nat : j = i - d + f
      BY <2>2
    <3>1. Landed(RowAt(e, i), e, d, p, f) = RowAt(p, j)
      BY <2>2, LandedChild
    <3>2. RowAt(e, i) \in Path /\ InRows(e, RowAt(e, i), d, n)
      BY <1>7, <2>2
    <3>3. RowAt(e, i) \in DOMAIN u <=> RowAt(p, j) \in DOMAIN x
      BY <1>5, <3>1, <3>2
    <3>4. RowAt(e, i) \notin DOMAIN x
      BY <3>2 DEF Room
    <3> QED
      BY <2>2, <3>3, <3>4 DEF Idx
  <2>3. CASE ~(d <= i /\ i < d + n)
    <3>1. RowAt(e, i) \in Path /\ ~InRows(e, RowAt(e, i), d, n)
      BY <1>7, <2>1, <2>3
    <3> QED
      BY <1>6, <2>3, <3>1 DEF Idx
  <2> QED
    BY <2>2, <2>3
<1> QED
  BY <1>4, <1>5, <1>6, <1>8, <1>9, <1>10

\* Where a row was that is at y after a move.
Entered(y, sp, f, n, dp, d) == Shifted(y, Shifted(sp, dp, d, n), f, n)
Left(z, sp, f, n, dp, d)    == IF InRows(dp, z, d, n) THEN Landed(z, dp, d, Shifted(sp, dp, d, n), f) ELSE z
Origin(y, sp, f, n, dp, d)  ==
  Shifted(Left(Entered(y, sp, f, n, dp, d), sp, f, n, dp, d), dp, d + n, -n)

\* beginMoveRows() has accepted it, and the rows do not move up within their parent.
Movable(sp, f, n, dp, d) == ~InRows(sp, dp, f, n) /\ (sp = dp => f + n <= d)

\* The old parent, when there is room in the new one.
LEMMA SourceIs ==
  ASSUME NEW sp \in Path, NEW dp \in Path, NEW f \in Nat, NEW n \in Nat, NEW d \in Nat,
         Movable(sp, f, n, dp, d)
  PROVE  /\ Shifted(sp, dp, d, n) \in Path
         /\ Shifted(sp, dp, d, n) # sp => Below(dp, sp) /\ Below(dp, Shifted(sp, dp, d, n))
         /\ Shifted(sp, dp, d, n) = dp <=> sp = dp
         /\ ~InRows(dp, Shifted(sp, dp, d, n), d, n)
         /\ ~InRows(Shifted(sp, dp, d, n), dp, f, n)
         /\ Shifted(Shifted(sp, dp, d, n), dp, d + n, -n) = sp
<1>1. PICK s \in Path : s = Shifted(sp, dp, d, n)
  BY ShiftUp
<1>2. /\ ~InRows(dp, Shifted(sp, dp, d, n), d, n)
      /\ Shifted(Shifted(sp, dp, d, n), dp, d + n, -n) = sp
      /\ Shiftable(sp, dp, d, n) /\ n \in Int
  BY ShiftUp
<1>3. /\ Below(dp, Shifted(sp, dp, d, n)) <=> Below(dp, sp)
      /\ ~(Below(dp, sp) /\ Row(dp, sp) >= d) => Shifted(sp, dp, d, n) = sp
  BY <1>2, ShiftedIs
<1>4. /\ Below(dp, s) <=> Below(dp, sp)
      /\ ~(Below(dp, sp) /\ Row(dp, sp) >= d) => s = sp
      /\ ~Below(dp, dp) /\ (Below(dp, s) => ~Below(s, dp))
  <2>1. ~Below(dp, dp) /\ (Below(dp, s) => ~Below(s, dp))
    BY BelowIs
  <2> QED
    BY <1>1, <1>3, <2>1
<1>5. ~InRows(s, dp, f, n)
  <2>1. CASE s = sp
    BY <2>1 DEF Movable
  <2>2. CASE s # sp
    BY <1>4, <2>2 DEF InRows
  <2> QED
    BY <2>1, <2>2
<1>6. s = dp <=> sp = dp
  BY <1>4
<1> QED
  BY <1>1, <1>2, <1>4, <1>5, <1>6

\* A shift keeps p and moves nothing to it; nor does it move another row to a row.
LEMMA ShiftedTo ==
  ASSUME NEW p \in Path, NEW q \in Path, NEW f \in Nat, NEW n \in Nat
  PROVE  /\ Shifted(q, p, f, n) = p <=> q = p
         /\ Shifted(q, p, f + n, -n) = p <=> q = p
         /\ Shifted(Root, p, f, n) = Root /\ Shifted(Root, p, f + n, -n) = Root
<1>1. ~Below(p, p) /\ ~Below(p, Root) /\ Root \in Path
  BY RootOrChild, BelowIs DEF Root
<1>2. Shifted(p, p, f, n) = p /\ Shifted(p, p, f + n, -n) = p
  BY <1>1 DEF Shifted
<1>3. Below(p, Shifted(q, p, f, n)) <=> Below(p, q)
  BY ShiftUp, ShiftedIs
<1>4. Below(p, Shifted(q, p, f + n, -n)) <=> Below(p, q)
  <2>1. f + n \in Nat /\ -n \in Int
    OBVIOUS
  <2>3. Shiftable(q, p, f + n, -n)
    BY ShiftDown
  <2> PICK g \in Nat : g = f + n
    BY <2>1
  <2> PICK m \in Int : m = -n
    BY <2>1
  <2>2. Below(p, Shifted(q, p, g, m)) <=> Below(p, q)
    BY <2>3, ShiftedIs
  <2> QED
    BY <2>2
<1>5. Shifted(q, p, f, n) = p => q = p
  <2>1. Shifted(q, p, f, n) = p => ~Below(p, q)
    BY <1>1, <1>3
  <2> QED
    BY <2>1 DEF Shifted
<1>6. Shifted(q, p, f + n, -n) = p => q = p
  <2>1. Shifted(q, p, f + n, -n) = p => ~Below(p, q)
    BY <1>1, <1>4
  <2> QED
    BY <2>1 DEF Shifted
<1>7. Shifted(Root, p, f, n) = Root /\ Shifted(Root, p, f + n, -n) = Root
  BY <1>1 DEF Shifted
<1> QED
  BY <1>2, <1>5, <1>6, <1>7

\* The parts of a way back.
LEMMA OriginIs ==
  ASSUME NEW sp \in Path, NEW dp \in Path, NEW f \in Nat, NEW n \in Nat, NEW d \in Nat,
         Movable(sp, f, n, dp, d), NEW y \in Path,
         NEW s, s = Shifted(sp, dp, d, n),
         NEW z, z = Entered(y, sp, f, n, dp, d), NEW w, w = Left(z, sp, f, n, dp, d),
         NEW b, b = Origin(y, sp, f, n, dp, d)
  PROVE  /\ z \in Path /\ w \in Path /\ b \in Path
         /\ z = Shifted(y, s, f, n) /\ b = Shifted(w, dp, d + n, -n) /\ ~InRows(dp, w, d, n)
         /\ InRows(dp, z, d, n) => w = Landed(z, dp, d, s, f)
         /\ ~InRows(dp, z, d, n) => w = z
         /\ y = s <=> z = s
         /\ z = s <=> w = s
         /\ w = s <=> b = sp
         /\ z = dp <=> w = dp
         /\ w = dp <=> b = dp
<1>1. /\ s \in Path /\ ~InRows(dp, s, d, n) /\ ~InRows(s, dp, f, n)
      /\ s = dp <=> sp = dp
      /\ s # sp => Below(dp, sp) /\ Below(dp, s)
      /\ Shifted(s, dp, d + n, -n) = sp
  BY SourceIs
<1>12. \A q, r \in Path : Shifted(q, r, f, n) = r <=> q = r
  BY ShiftedTo
<1>13. \A q \in Path : Shifted(q, dp, d + n, -n) = dp <=> q = dp
  BY ShiftedTo
<1>2. z = Shifted(y, s, f, n) /\ z \in Path
  BY <1>1, ShiftUp DEF Entered
<1>3. /\ InRows(dp, z, d, n) => w = Landed(z, dp, d, s, f) /\ w \in Path /\ InRows(s, w, f, n)
      /\ ~InRows(dp, z, d, n) => w = z
  BY <1>1, <1>2, LandedTwice DEF Left
<1>4. w \in Path
  BY <1>2, <1>3
<1>5. b = Shifted(w, dp, d + n, -n) /\ b \in Path
  <2>1. b = Shifted(w, dp, d + n, -n)
    BY DEF Origin
  <2> QED
    BY <1>4, <2>1, ShiftDown
<1>6. ~InRows(dp, w, d, n)
  <2> SUFFICES ASSUME InRows(dp, z, d, n), InRows(dp, w, d, n) PROVE FALSE
    BY <1>3
  <2>1. InRows(s, w, f, n)
    BY <1>3
  <2>2. /\ Below(s, w) /\ f <= Row(s, w) /\ Row(s, w) < f + n /\ Row(s, w) \in Nat
        /\ Below(dp, w) /\ d <= Row(dp, w) /\ Row(dp, w) < d + n /\ Row(dp, w) \in Nat
    BY <1>1, <1>4, <2>1, InRowsIs, BelowIs
  <2>3. CASE s = dp
    BY <1>1, <2>2, <2>3 DEF Movable
  <2>4. CASE Below(dp, s) /\ Row(dp, s) = Row(dp, w)
    BY <1>1, <2>2, <2>4, InRowsIs
  <2>5. CASE Below(s, dp) /\ Row(s, dp) = Row(s, w)
    BY <1>1, <2>2, <2>5, InRowsIs
  <2> QED
    BY <1>1, <1>4, <2>2, <2>3, <2>4, <2>5, BelowBoth
<1>7. y = s <=> z = s
  <2>1. Shifted(y, s, f, n) = s <=> y = s
    BY <1>1, <1>12
  <2> QED
    BY <1>2, <2>1
<1>8. z = s <=> w = s
  <2>1. ~Below(s, s)
    BY <1>1, BelowIs
  <2>2. InRows(dp, z, d, n) => w # s
    BY <1>3, <2>1 DEF InRows
  <2> QED
    BY <1>1, <1>3, <2>2
<1>9. z = dp <=> w = dp
  <2>1. ~InRows(dp, dp, d, n)
    BY BelowIs DEF InRows
  <2> QED
    BY <1>1, <1>3, <2>1
<1>10. w = dp <=> b = dp
  <2>1. Shifted(w, dp, d + n, -n) = dp <=> w = dp
    BY <1>4, <1>13
  <2> QED
    BY <1>5, <2>1
<1>11. w = s <=> b = sp
  <2>1. Shifted(b, dp, d, n) = w
    BY <1>4, <1>5, <1>6, ShiftDown
  <2> QED
    BY <1>1, <1>5, <2>1
<1> QED
  BY <1>2, <1>3, <1>4, <1>5, <1>6, <1>7, <1>8, <1>9, <1>10, <1>11

\* Where the parents are after a move.
LEMMA OriginOfParents ==
  ASSUME NEW sp \in Path, NEW dp \in Path, NEW f \in Nat, NEW n \in Nat, NEW d \in Nat,
         Movable(sp, f, n, dp, d)
  PROVE  /\ Shifted(dp, sp, f + n, -n) \in Path /\ Shifted(sp, dp, d, n) \in Path
         /\ \A y \in Path :
              /\ Origin(y, sp, f, n, dp, d) = sp <=> y = Shifted(sp, dp, d, n)
              /\ Origin(y, sp, f, n, dp, d) = dp <=> y = Shifted(dp, sp, f + n, -n)
         /\ Origin(Root, sp, f, n, dp, d) = Root
<1>1. PICK s \in Path : s = Shifted(sp, dp, d, n)
  BY ShiftUp
<1>2. PICK t \in Path : t = Shifted(dp, sp, f + n, -n)
  BY ShiftDown
<1>3. ~InRows(s, dp, f, n) /\ (s # sp => Below(dp, sp) /\ Below(dp, s))
  BY <1>1, SourceIs
<1>4. t = Shifted(dp, s, f + n, -n)
  <2>1. CASE s = sp
    BY <1>2, <2>1
  <2>2. CASE s # sp
    <3>1. ~Below(sp, dp) /\ ~Below(s, dp)
      BY <1>3, <2>2, BelowIs
    <3>2. t = dp
      BY <1>2, <3>1 DEF Shifted
    <3>3. Shifted(dp, s, f + n, -n) = dp
      BY <3>1 DEF Shifted
    <3> QED
      BY <3>2, <3>3
  <2> QED
    BY <2>1, <2>2
<1>5. ASSUME NEW y \in Path
      PROVE  /\ Origin(y, sp, f, n, dp, d) = sp <=> y = s
             /\ Origin(y, sp, f, n, dp, d) = dp <=> y = t
  <2> PICK z : z = Entered(y, sp, f, n, dp, d)
    OBVIOUS
  <2> PICK w : w = Left(z, sp, f, n, dp, d)
    OBVIOUS
  <2> PICK b : b = Origin(y, sp, f, n, dp, d)
    OBVIOUS
  <2>1. /\ z \in Path /\ z = Shifted(y, s, f, n)
        /\ y = s <=> b = sp
        /\ z = dp <=> b = dp
    BY <1>1, OriginIs
  <2>2. Shifted(y, s, f, n) = dp <=> y = t
    <3>1. Shifted(Shifted(y, s, f, n), s, f + n, -n) = y
      BY ShiftUp
    <3>2. Shifted(Shifted(dp, s, f + n, -n), s, f, n) = dp
      BY <1>3, ShiftDown
    <3> QED
      BY <1>4, <3>1, <3>2
  <2> QED
    BY <2>1, <2>2
<1>6. Origin(Root, sp, f, n, dp, d) = Root
  <2>1. Entered(Root, sp, f, n, dp, d) = Root
    BY <1>1, ShiftedTo DEF Entered
  <2>2. ~InRows(dp, Root, d, n)
    BY RootOrChild, BelowIs DEF InRows, Root
  <2>3. Left(Root, sp, f, n, dp, d) = Root
    BY <2>2 DEF Left
  <2> QED
    BY <2>1, <2>3, ShiftedTo DEF Origin
<1> QED
  BY <1>1, <1>2, <1>5, <1>6

\* Room is left where rows enter.
LEMMA OpenedHasRoom ==
  ASSUME NEW x, DOMAIN x \subseteq Path, NEW p \in Path, NEW f \in Nat, NEW n \in Nat
  PROVE  DOMAIN Opened(x, p, f, n) \subseteq Path /\ Room(Opened(x, p, f, n), p, f, n)
<1> PICK u : u = Opened(x, p, f, n)
  OBVIOUS
<1>1. /\ DOMAIN u \subseteq Path
      /\ \A q \in Path : q \in DOMAIN u <=> /\ ~InRows(p, q, f, n)
                                            /\ Shifted(q, p, f + n, -n) \in DOMAIN x
  BY OpenedIs
<1>2. Room(u, p, f, n)
  BY <1>1 DEF Room
<1> QED
  BY <1>1, <1>2

\* What is at y after a move was at its origin, with as many rows as they were then,
\* but for the two parents.
LEMMA MovedIs ==
  ASSUME NEW x, DOMAIN x \subseteq Path,
         NEW sp \in Path, NEW dp \in Path, NEW f \in Nat, NEW n \in Nat, NEW d \in Nat,
         Movable(sp, f, n, dp, d), NEW u, u = Moved(x, sp, f, n, dp, d)
  PROVE  /\ DOMAIN u \subseteq Path
         /\ \A y \in Path : y \in DOMAIN u <=> Origin(y, sp, f, n, dp, d) \in DOMAIN x
         /\ \A y \in DOMAIN u : u[y] = x[Origin(y, sp, f, n, dp, d)]
         /\ \A y \in Path : Origin(y, sp, f, n, dp, d) \notin {sp, dp} =>
              Idx(u, y) = Idx(x, Origin(y, sp, f, n, dp, d))
         /\ sp # dp => \A y \in Path, i \in Nat :
              /\ Origin(y, sp, f, n, dp, d) = sp =>
                   (i \in Idx(u, y) <=> Offset(i, f, n) \in Idx(x, sp))
              /\ Origin(y, sp, f, n, dp, d) = dp =>
                   (i \in Idx(u, y) <=>
                      \/ ~(d <= i /\ i < d + n) /\ Offset(i, d + n, -n) \in Idx(x, dp)
                      \/ d <= i /\ i < d + n /\ i - d + f \in Idx(x, sp))
         /\ sp = dp => \A y \in Path, i \in Nat :
              Origin(y, sp, f, n, dp, d) = sp =>
                (i \in Idx(u, y) <=>
                   LET j == Offset(i, f, n) IN
                   \/ ~(d <= j /\ j < d + n) /\ Offset(j, d + n, -n) \in Idx(x, sp)
                   \/ d <= j /\ j < d + n /\ j - d + f \in Idx(x, sp))
<1>1. PICK s \in Path : s = Shifted(sp, dp, d, n)
  BY ShiftUp
<1>2. PICK x1 : x1 = Opened(x, dp, d, n)
  OBVIOUS
<1>3. PICK x2 : x2 = Transferred(x1, s, f, n, dp, d)
  OBVIOUS
<1>4. u = Closed(x2, s, f, n)
  BY <1>1, <1>2, <1>3 DEF Moved
<1>5. /\ DOMAIN x1 \subseteq Path /\ Room(x1, dp, d, n)
      /\ \A q \in Path : q \in DOMAIN x1 <=> /\ ~InRows(dp, q, d, n)
                                            /\ Shifted(q, dp, d + n, -n) \in DOMAIN x
      /\ \A q \in DOMAIN x1 : x1[q] = x[Shifted(q, dp, d + n, -n)]
      /\ \A i \in Nat : i \in Idx(x1, dp) <=> /\ ~(d <= i /\ i < d + n)
                                            /\ Offset(i, d + n, -n) \in Idx(x, dp)
      /\ \A q \in Path : q # dp /\ ~InRows(dp, q, d, n) => Idx(x1, q) = Idx(x, Shifted(q, dp, d + n, -n))
  <2>1. DOMAIN x1 \subseteq Path /\ Room(x1, dp, d, n)
    BY <1>2, OpenedHasRoom
  <2>2. \A q \in Path : q \in DOMAIN x1 <=> /\ ~InRows(dp, q, d, n)
                                            /\ Shifted(q, dp, d + n, -n) \in DOMAIN x
    BY <1>2, OpenedIs
  <2>3. \A q \in DOMAIN x1 : x1[q] = x[Shifted(q, dp, d + n, -n)]
    BY <1>2 DEF Opened
  <2>4. \A i \in Nat : i \in Idx(x1, dp) <=> /\ ~(d <= i /\ i < d + n)
                                            /\ Offset(i, d + n, -n) \in Idx(x, dp)
    BY <1>2, OpenedIs
  <2>5. \A q \in Path : q # dp /\ ~InRows(dp, q, d, n) => Idx(x1, q) = Idx(x, Shifted(q, dp, d + n, -n))
    BY <1>2, OpenedIs
  <2> QED
    BY <2>1, <2>2, <2>3, <2>4, <2>5
<1>6. /\ DOMAIN x2 \subseteq Path
      /\ \A q \in Path : InRows(dp, q, d, n) =>
              /\ q \in DOMAIN x2 <=> Landed(q, dp, d, s, f) \in DOMAIN x1
              /\ q \in DOMAIN x2 => x2[q] = x1[Landed(q, dp, d, s, f)]
              /\ Idx(x2, q) = Idx(x1, Landed(q, dp, d, s, f))
      /\ \A q \in Path : ~InRows(dp, q, d, n) =>
              /\ q \in DOMAIN x2 <=> q \in DOMAIN x1
              /\ q \in DOMAIN x2 => x2[q] = x1[q]
              /\ q # dp => Idx(x2, q) = Idx(x1, q)
      /\ \A i \in Nat : i \in Idx(x2, dp) <=> \/ i \in Idx(x1, dp)
                                              \/ d <= i /\ i < d + n /\ i - d + f \in Idx(x1, s)
  BY <1>3, <1>5, TransferredIs
<1>7. /\ DOMAIN u \subseteq Path
      /\ \A q \in Path : q \in DOMAIN u <=> Shifted(q, s, f, n) \in DOMAIN x2
      /\ \A q \in DOMAIN u : u[q] = x2[Shifted(q, s, f, n)]
      /\ \A i \in Nat : i \in Idx(u, s) <=> Offset(i, f, n) \in Idx(x2, s)
      /\ \A q \in Path : q # s => Idx(u, q) = Idx(x2, Shifted(q, s, f, n))
  BY <1>4, <1>6, ClosedIs
<1>8. /\ s = dp <=> sp = dp
      /\ ~InRows(dp, s, d, n) /\ Shifted(s, dp, d + n, -n) = sp
  BY <1>1, SourceIs
<1>9. s # dp => Idx(x1, s) = Idx(x, sp)
  BY <1>5, <1>8
<1> DEFINE At(y, b) ==
      /\ y \in DOMAIN u <=> b \in DOMAIN x
      /\ y \in DOMAIN u => u[y] = x[b]
      /\ b \notin {sp, dp} => Idx(u, y) = Idx(x, b)
      /\ sp # dp /\ b = sp => \A i \in Nat : i \in Idx(u, y) <=> Offset(i, f, n) \in Idx(x, sp)
      /\ sp # dp /\ b = dp => \A i \in Nat : i \in Idx(u, y) <=>
           \/ ~(d <= i /\ i < d + n) /\ Offset(i, d + n, -n) \in Idx(x, dp)
           \/ d <= i /\ i < d + n /\ i - d + f \in Idx(x, sp)
      /\ sp = dp /\ b = sp => \A i \in Nat : i \in Idx(u, y) <=>
           LET j == Offset(i, f, n) IN
           \/ ~(d <= j /\ j < d + n) /\ Offset(j, d + n, -n) \in Idx(x, sp)
           \/ d <= j /\ j < d + n /\ j - d + f \in Idx(x, sp)
<1>10. ASSUME NEW y \in Path
       PROVE  At(y, Origin(y, sp, f, n, dp, d))
  <2>1. PICK z : z = Entered(y, sp, f, n, dp, d)
    OBVIOUS
  <2>2. PICK w : w = Left(z, sp, f, n, dp, d)
    OBVIOUS
  <2>3. PICK b : b = Origin(y, sp, f, n, dp, d)
    OBVIOUS
  <2>4. /\ z \in Path /\ w \in Path /\ b \in Path
        /\ z = Shifted(y, s, f, n) /\ b = Shifted(w, dp, d + n, -n) /\ ~InRows(dp, w, d, n)
        /\ InRows(dp, z, d, n) => w = Landed(z, dp, d, s, f)
        /\ ~InRows(dp, z, d, n) => w = z
        /\ y = s <=> z = s
        /\ z = s <=> w = s
        /\ w = s <=> b = sp
        /\ z = dp <=> w = dp
        /\ w = dp <=> b = dp
    BY <1>1, <2>1, <2>2, <2>3, OriginIs
  <2>5. (y \in DOMAIN u <=> b \in DOMAIN x) /\ (y \in DOMAIN u => u[y] = x[b])
    <3>1. (z \in DOMAIN x2 <=> w \in DOMAIN x1) /\ (z \in DOMAIN x2 => x2[z] = x1[w])
      BY <1>6, <2>4
    <3>2. (w \in DOMAIN x1 <=> b \in DOMAIN x) /\ (w \in DOMAIN x1 => x1[w] = x[b])
      BY <1>5, <2>4
    <3>3. (y \in DOMAIN u <=> z \in DOMAIN x2) /\ (y \in DOMAIN u => u[y] = x2[z])
      BY <1>7, <2>4
    <3> QED
      BY <3>1, <3>2, <3>3
  <2>6. z # dp => Idx(x2, z) = Idx(x1, w)
    BY <1>6, <2>4
  <2>7. w # dp => Idx(x1, w) = Idx(x, b)
    BY <1>5, <2>4
  <2>8. y # s => Idx(u, y) = Idx(x2, z)
    BY <1>7, <2>4
  <2>9. b \notin {sp, dp} => Idx(u, y) = Idx(x, b)
    BY <2>4, <2>6, <2>7, <2>8
  <2>10. ASSUME sp # dp, b = sp, NEW i \in Nat
         PROVE  i \in Idx(u, y) <=> Offset(i, f, n) \in Idx(x, sp)
    <3>1. y = s /\ z = s /\ w = s /\ s # dp
      BY <1>8, <2>4, <2>10
    <3>2. Idx(x2, s) = Idx(x, sp)
      BY <2>6, <2>7, <2>10, <3>1
    <3> QED
      BY <1>7, <3>1, <3>2
  <2>11. ASSUME sp # dp, b = dp, NEW i \in Nat
         PROVE  i \in Idx(u, y) <=>
                  \/ ~(d <= i /\ i < d + n) /\ Offset(i, d + n, -n) \in Idx(x, dp)
                  \/ d <= i /\ i < d + n /\ i - d + f \in Idx(x, sp)
    <3>1. y # s /\ z = dp /\ s # dp
      BY <1>8, <2>4, <2>11
    <3> QED
      BY <1>5, <1>6, <1>9, <2>8, <3>1
  <2>12. ASSUME sp = dp, b = sp, NEW i \in Nat
         PROVE  i \in Idx(u, y) <=>
                  LET j == Offset(i, f, n) IN
                  \/ ~(d <= j /\ j < d + n) /\ Offset(j, d + n, -n) \in Idx(x, sp)
                  \/ d <= j /\ j < d + n /\ j - d + f \in Idx(x, sp)
    <3>1. y = s /\ s = dp /\ s = sp
      BY <1>8, <2>4, <2>12
    <3>2. PICK j \in Nat : j = Offset(i, f, n)
      BY DEF Offset
    <3>3. i \in Idx(u, y) <=> j \in Idx(x2, s)
      BY <1>7, <3>1, <3>2
    <3>4. j \in Idx(x2, s) <=> \/ j \in Idx(x1, s)
                               \/ d <= j /\ j < d + n /\ j - d + f \in Idx(x1, s)
      BY <1>6, <3>1
    <3>5. \A k \in Nat : k \in Idx(x1, s) <=> /\ ~(d <= k /\ k < d + n)
                                             /\ Offset(k, d + n, -n) \in Idx(x, sp)
      BY <1>5, <3>1
    <3>6. ASSUME d <= j, j < d + n
          PROVE  j - d + f \in Nat /\ j - d + f < d + n /\ j - d + f < d
      BY <2>12, <3>6 DEF Movable
    <3>7. d <= j /\ j < d + n => (j - d + f \in Idx(x1, s) <=> j - d + f \in Idx(x, sp))
      <4> SUFFICES ASSUME d <= j, j < d + n
                   PROVE  j - d + f \in Idx(x1, s) <=> j - d + f \in Idx(x, sp)
        OBVIOUS
      <4> PICK k \in Nat : k = j - d + f /\ k < d /\ k < d + n
        BY <3>6
      <4>1. Offset(k, d + n, -n) = k /\ ~(d <= k /\ k < d + n)
        BY DEF Offset
      <4> QED
        BY <3>5, <4>1
    <3> QED
      BY <3>2, <3>3, <3>4, <3>5, <3>7
  <2> QED
    BY <2>3, <2>5, <2>9, <2>10, <2>11, <2>12
<1>11. \A y \in Path : y \in DOMAIN u <=> Origin(y, sp, f, n, dp, d) \in DOMAIN x
  BY <1>10
<1>12. \A y \in DOMAIN u : u[y] = x[Origin(y, sp, f, n, dp, d)]
  BY <1>7, <1>10
<1>13. \A y \in Path : Origin(y, sp, f, n, dp, d) \notin {sp, dp} =>
         Idx(u, y) = Idx(x, Origin(y, sp, f, n, dp, d))
  BY <1>10
<1> QED
  BY <1>7, <1>10, <1>11, <1>12, <1>13

-----------------------------------------------------------------------------
(***************************************************************************)
(* Rows stay without a gap.                                                *)
(***************************************************************************)

\* The same number of rows.
AsMany(x, b, u, y) == \A k \in Int : Counted(x, b, k) => Counted(u, y, k)

\* Nothing but the row numbers of children counts.
LEMMA SameRows ==
  ASSUME NEW x, NEW b, NEW u, NEW y, Idx(u, y) = Idx(x, b)
  PROVE  AsMany(x, b, u, y)
  BY DEF AsMany, Counted

\* After rows of p went.
LEMMA ClosedShape ==
  ASSUME NEW x, Closure(x), NEW p \in DOMAIN x, NEW f \in Nat, NEW n \in Nat,
         NEW u, u = Closed(x, p, f, n)
  PROVE  /\ Closure(u) /\ p \in DOMAIN u /\ (Root \in DOMAIN x => Root \in DOMAIN u)
         /\ \A y \in DOMAIN u :
              /\ Shifted(y, p, f, n) \in DOMAIN x /\ u[y] = x[Shifted(y, p, f, n)]
              /\ Shifted(y, p, f, n) = p <=> y = p
              /\ Shifted(y, p, f, n) = Root <=> y = Root
              /\ y # p => AsMany(x, Shifted(y, p, f, n), u, y)
         /\ \A k \in Nat : Counted(x, p, k) /\ f + n <= k => Counted(u, p, k - n)
<1>1. p \in Path /\ DOMAIN x \subseteq Path
  BY DEF Closure
<1>2. /\ DOMAIN u \subseteq Path
      /\ \A q \in Path : q \in DOMAIN u <=> Shifted(q, p, f, n) \in DOMAIN x
      /\ \A q \in DOMAIN u : u[q] = x[Shifted(q, p, f, n)]
      /\ \A i \in Nat : i \in Idx(u, p) <=> Offset(i, f, n) \in Idx(x, p)
      /\ \A q \in Path : q # p => Idx(u, q) = Idx(x, Shifted(q, p, f, n))
  BY <1>1, ClosedIs
<1>3. Root \in Path /\ \A y \in Path : Shifted(y, p, f, n) \in Path
  BY <1>1, ShiftUp, RootOrChild
<1>4. \A y \in Path : Shifted(y, p, f, n) = p <=> y = p
  BY <1>1, ShiftedTo
<1>5. Shifted(Root, p, f, n) = Root
  BY <1>1, <1>3, ShiftedTo
<1>6. ASSUME NEW y \in Path
      PROVE  Shifted(y, p, f, n) = Root <=> y = Root
  <2>1. Shifted(Shifted(y, p, f, n), p, f + n, -n) = y /\ Shifted(Root, p, f + n, -n) = Root
    BY <1>1, <1>3, ShiftUp, ShiftedTo
  <2> QED
    BY <1>5, <2>1
<1>7. ASSUME NEW q \in Path, NEW i \in Nat, RowAt(q, i) \in DOMAIN u
      PROVE  q \in DOMAIN u
  <2>1. CASE q = p
    BY <1>1, <1>2, <1>4, <2>1
  <2>2. CASE q # p
    <3>1. i \in Idx(x, Shifted(q, p, f, n))
      BY <1>2, <1>7, <2>2 DEF Idx
    <3>2. Shifted(q, p, f, n) \in DOMAIN x
      BY <1>3, <3>1 DEF Idx, Closure
    <3> QED
      BY <1>2, <3>2
  <2> QED
    BY <2>1, <2>2
<1>8. \A y \in DOMAIN u : y # p => AsMany(x, Shifted(y, p, f, n), u, y)
  BY <1>2, SameRows
<1>9. ASSUME NEW k \in Nat, Counted(x, p, k), f + n <= k
      PROVE  Counted(u, p, k - n)
  <2>1. \A i \in Nat : i \in Idx(x, p) <=> i < k
    BY <1>9, CountedIs
  <2>2. \A i \in Nat : Offset(i, f, n) \in Nat /\ (Offset(i, f, n) < k <=> i < k - n)
    BY <1>9 DEF Offset
  <2>3. \A i \in Nat : i \in Idx(u, p) <=> i < k - n
    BY <1>2, <2>1, <2>2
  <2> QED
    BY <2>3, CountedIs
<1>10. Closure(u)
  BY <1>2, <1>7 DEF Closure
<1> QED
  BY <1>1, <1>2, <1>3, <1>4, <1>5, <1>6, <1>8, <1>9, <1>10

\* A row that has just come.
New(y, p, f, n) == \E i \in Nat : f <= i /\ i < f + n /\ y = RowAt(p, i)

\* After rows of p came.
LEMMA InsertedShape ==
  ASSUME NEW x, Closure(x), NEW p \in DOMAIN x, NEW f \in Nat, NEW n \in Nat, NEW new,
         NEW u, u = Inserted(x, p, f, n, new)
  PROVE  /\ Closure(u) /\ p \in DOMAIN u /\ (Root \in DOMAIN x => Root \in DOMAIN u)
         /\ ~New(p, p, f, n) /\ ~New(Root, p, f, n)
         /\ \A y \in DOMAIN u : ~New(y, p, f, n) =>
              /\ Shifted(y, p, f + n, -n) \in DOMAIN x /\ u[y] = x[Shifted(y, p, f + n, -n)]
              /\ ~InRows(p, y, f, n)
              /\ Shifted(y, p, f + n, -n) = p <=> y = p
              /\ Shifted(y, p, f + n, -n) = Root <=> y = Root
              /\ y # p => AsMany(x, Shifted(y, p, f + n, -n), u, y)
         /\ \A i \in Nat : f <= i /\ i < f + n =>
              u[RowAt(p, i)] = new[i - f + 1] /\ Counted(u, RowAt(p, i), 0)
         /\ \A k \in Nat : Counted(x, p, k) /\ f <= k => Counted(u, p, k + n)
<1>1. p \in Path /\ DOMAIN x \subseteq Path
  BY DEF Closure
<1>2. PICK o : o = Opened(x, p, f, n)
  OBVIOUS
<1>3. u = Filled(o, p, f, n, new)
  BY <1>2 DEF Inserted
<1>4. /\ DOMAIN o \subseteq Path
      /\ \A q \in Path : q \in DOMAIN o <=> /\ ~InRows(p, q, f, n)
                                            /\ Shifted(q, p, f + n, -n) \in DOMAIN x
      /\ \A i \in Nat : i \in Idx(o, p) <=> /\ ~(f <= i /\ i < f + n)
                                            /\ Offset(i, f + n, -n) \in Idx(x, p)
      /\ \A q \in Path : q # p /\ ~InRows(p, q, f, n) => Idx(o, q) = Idx(x, Shifted(q, p, f + n, -n))
      /\ \A q \in Path : InRows(p, q, f, n) => Idx(o, q) = {}
  BY <1>1, <1>2, OpenedIs
<1>5. \A q \in DOMAIN o : o[q] = x[Shifted(q, p, f + n, -n)]
  BY <1>2 DEF Opened
<1>6. /\ DOMAIN u \subseteq Path
      /\ \A i \in Nat : f <= i /\ i < f + n => RowAt(p, i) \in DOMAIN u /\ u[RowAt(p, i)] = new[i - f + 1]
      /\ \A q \in Path : (\A i \in Nat : f <= i /\ i < f + n => q # RowAt(p, i)) =>
              (q \in DOMAIN u <=> q \in DOMAIN o) /\ (q \in DOMAIN u => u[q] = o[q])
      /\ \A q \in DOMAIN o : q \in DOMAIN u
      /\ \A i \in Nat : i \in Idx(u, p) <=> (f <= i /\ i < f + n) \/ i \in Idx(o, p)
      /\ \A q \in Path : q # p => Idx(u, q) = Idx(o, q)
  BY <1>1, <1>3, <1>4, FilledIs
<1>7. Root \in Path /\ \A y \in Path : Shifted(y, p, f + n, -n) \in Path
  BY <1>1, ShiftDown, RootOrChild
<1>8. ~InRows(p, p, f, n) /\ ~InRows(p, Root, f, n)
  BY <1>1, <1>7, BelowIs DEF InRows, Root
<1>9. \A i \in Nat : RowAt(p, i) \in Path /\ RowAt(p, i) # Root /\ RowAt(p, i) # p
                     /\ (f <= i /\ i < f + n => InRows(p, RowAt(p, i), f, n))
  <2> SUFFICES ASSUME NEW i \in Nat
               PROVE  RowAt(p, i) \in Path /\ RowAt(p, i) # Root /\ RowAt(p, i) # p
                      /\ (f <= i /\ i < f + n => InRows(p, RowAt(p, i), f, n))
    OBVIOUS
  <2> QED
    BY <1>1, ChildIs, ChildIsNot, InRowsChild
<1>10. /\ \A y \in Path : Shifted(y, p, f + n, -n) = p <=> y = p
       /\ Shifted(Root, p, f + n, -n) = Root
  BY <1>1, <1>7, ShiftedTo
<1>11. ASSUME NEW y \in Path, ~InRows(p, y, f, n)
       PROVE  Shifted(y, p, f + n, -n) = Root <=> y = Root
  <2>1. Shifted(Shifted(y, p, f + n, -n), p, f, n) = y
    BY <1>1, <1>11, ShiftDown
  <2>2. Shifted(Root, p, f, n) = Root
    BY <1>1, <1>7, ShiftedTo
  <2> QED
    BY <1>10, <2>1, <2>2
<1>12. p \in DOMAIN u /\ (Root \in DOMAIN x => Root \in DOMAIN u)
  BY <1>1, <1>4, <1>6, <1>7, <1>8, <1>10
<1>13. ASSUME NEW y \in DOMAIN u, ~New(y, p, f, n)
       PROVE  /\ Shifted(y, p, f + n, -n) \in DOMAIN x /\ u[y] = x[Shifted(y, p, f + n, -n)]
              /\ ~InRows(p, y, f, n)
              /\ y # p => AsMany(x, Shifted(y, p, f + n, -n), u, y)
  <2>1. y \in Path /\ y \in DOMAIN o /\ u[y] = o[y]
    BY <1>6, <1>13 DEF New
  <2>2. ~InRows(p, y, f, n) /\ Shifted(y, p, f + n, -n) \in DOMAIN x
    BY <1>4, <2>1
  <2>3. y # p => Idx(u, y) = Idx(x, Shifted(y, p, f + n, -n))
    BY <1>4, <1>6, <2>1, <2>2
  <2> QED
    BY <1>5, <2>1, <2>2, <2>3, SameRows
<1>14. ASSUME NEW i \in Nat, f <= i, i < f + n
       PROVE  u[RowAt(p, i)] = new[i - f + 1] /\ Counted(u, RowAt(p, i), 0)
  <2>1. Idx(u, RowAt(p, i)) = {}
    BY <1>4, <1>6, <1>9, <1>14
  <2> QED
    BY <1>6, <1>14, <2>1 DEF Counted
<1>15. ASSUME NEW k \in Nat, Counted(x, p, k), f <= k
       PROVE  Counted(u, p, k + n)
  <2>1. \A i \in Nat : i \in Idx(x, p) <=> i < k
    BY <1>15, CountedIs
  <2>2. ASSUME NEW i \in Nat
        PROVE  Offset(i, f + n, -n) \in Nat
               /\ ((f <= i /\ i < f + n) \/ Offset(i, f + n, -n) < k <=> i < k + n)
    BY <1>15 DEF Offset
  <2>3. ASSUME NEW i \in Nat
        PROVE  i \in Idx(u, p) <=> i < k + n
    <3>1. i \in Idx(u, p) <=> (f <= i /\ i < f + n) \/ Offset(i, f + n, -n) \in Idx(x, p)
      BY <1>4, <1>6
    <3> QED
      BY <2>1, <2>2, <3>1
  <2> QED
    BY <2>3, CountedIs
<1>16. ASSUME NEW q \in Path, NEW i \in Nat, RowAt(q, i) \in DOMAIN u
       PROVE  q \in DOMAIN u
  <2>1. CASE q = p
    BY <1>12, <2>1
  <2>2. CASE q # p
    <3>1. i \in Idx(o, q)
      BY <1>6, <1>16, <2>2 DEF Idx
    <3>2. ~InRows(p, q, f, n) /\ i \in Idx(x, Shifted(q, p, f + n, -n))
      BY <1>4, <2>2, <3>1
    <3>3. Shifted(q, p, f + n, -n) \in DOMAIN x
      BY <1>7, <3>2 DEF Idx, Closure
    <3> QED
      BY <1>4, <1>6, <3>2, <3>3
  <2> QED
    BY <2>1, <2>2
<1>17. Closure(u)
  BY <1>6, <1>16 DEF Closure
<1>18. ~New(p, p, f, n) /\ ~New(Root, p, f, n)
  BY <1>9 DEF New
<1> QED
  BY <1>6, <1>10, <1>11, <1>12, <1>13, <1>14, <1>15, <1>17, <1>18

\* After a parent without rows got some.
LEMMA FilledShape ==
  ASSUME NEW x, Closure(x), NEW p \in DOMAIN x, Counted(x, p, 0), NEW n \in Nat, NEW new,
         NEW u, u = Filled(x, p, 0, n, new)
  PROVE  /\ Closure(u) /\ Counted(u, p, n)
         /\ DOMAIN x \subseteq DOMAIN u
         /\ \A y \in DOMAIN u : ~New(y, p, 0, n) => y \in DOMAIN x
         /\ \A y \in DOMAIN x : ~New(y, p, 0, n) /\ u[y] = x[y] /\ (y # p => AsMany(x, y, u, y))
         /\ \A i \in Nat : i < n => u[RowAt(p, i)] = new[i + 1] /\ Counted(u, RowAt(p, i), 0)
<1>1. p \in Path /\ DOMAIN x \subseteq Path /\ 0 \in Nat /\ 0 + n = n
  BY DEF Closure
<1>11. PICK z \in Nat : z = 0
  OBVIOUS
<1>12. u = Filled(x, p, z, n, new)
  BY <1>11
<1>13. /\ DOMAIN u \subseteq Path
       /\ \A i \in Nat : z <= i /\ i < z + n => RowAt(p, i) \in DOMAIN u /\ u[RowAt(p, i)] = new[i - z + 1]
       /\ \A q \in Path : (\A i \in Nat : z <= i /\ i < z + n => q # RowAt(p, i)) =>
              (q \in DOMAIN u <=> q \in DOMAIN x) /\ (q \in DOMAIN u => u[q] = x[q])
       /\ \A q \in DOMAIN x : q \in DOMAIN u
       /\ \A i \in Nat : i \in Idx(u, p) <=> (z <= i /\ i < z + n) \/ i \in Idx(x, p)
       /\ \A q \in Path : q # p => Idx(u, q) = Idx(x, q)
  BY <1>1, <1>12, FilledIs
<1>2. /\ DOMAIN u \subseteq Path
      /\ \A i \in Nat : i < n => RowAt(p, i) \in DOMAIN u /\ u[RowAt(p, i)] = new[i + 1]
      /\ \A q \in Path : (\A i \in Nat : 0 <= i /\ i < 0 + n => q # RowAt(p, i)) =>
              (q \in DOMAIN u <=> q \in DOMAIN x) /\ (q \in DOMAIN u => u[q] = x[q])
      /\ \A q \in DOMAIN x : q \in DOMAIN u
      /\ \A i \in Nat : i \in Idx(u, p) <=> i < n \/ i \in Idx(x, p)
      /\ \A q \in Path : q # p => Idx(u, q) = Idx(x, q)
  <2>1. \A i \in Nat : (z <= i /\ i < z + n <=> i < n) /\ i - z + 1 = i + 1 /\ 0 + n = z + n
    BY <1>11
  <2>2. \A i \in Nat : i < n => RowAt(p, i) \in DOMAIN u /\ u[RowAt(p, i)] = new[i + 1]
    BY <1>13, <2>1
  <2>3. \A i \in Nat : i \in Idx(u, p) <=> i < n \/ i \in Idx(x, p)
    BY <1>13, <2>1
  <2>4. \A q \in Path : (\A i \in Nat : 0 <= i /\ i < 0 + n => q # RowAt(p, i)) =>
              (q \in DOMAIN u <=> q \in DOMAIN x) /\ (q \in DOMAIN u => u[q] = x[q])
    BY <1>11, <1>13
  <2> QED
    BY <1>13, <2>2, <2>3, <2>4
<1>3. Idx(x, p) = {}
  BY DEF Counted
<1>4. \A y \in DOMAIN x : ~New(y, p, 0, n)
  BY <1>3 DEF New, Idx
<1>5. Counted(u, p, n)
  <2>1. \A i \in Nat : i \in Idx(u, p) <=> i < n
    BY <1>2, <1>3
  <2> QED
    BY <2>1, CountedIs
<1>6. \A y \in DOMAIN u : ~New(y, p, 0, n) => y \in DOMAIN x
  BY <1>2 DEF New
<1>7. \A y \in DOMAIN x : u[y] = x[y] /\ (y # p => AsMany(x, y, u, y))
  BY <1>1, <1>2, <1>4, SameRows DEF New
<1>8. ASSUME NEW i \in Nat, i < n
      PROVE  u[RowAt(p, i)] = new[i + 1] /\ Counted(u, RowAt(p, i), 0)
  <2>1. RowAt(p, i) \in Path /\ RowAt(p, i) # p
    BY <1>1, ChildIs, ChildIsNot
  <2>2. RowAt(p, i) \notin DOMAIN x
    BY <1>3 DEF Idx
  <2>3. Idx(x, RowAt(p, i)) = {}
    BY <2>1, <2>2 DEF Idx, Closure
  <2>4. Idx(u, RowAt(p, i)) = {}
    BY <1>2, <2>1, <2>3
  <2> QED
    BY <1>2, <1>8, <2>4 DEF Counted
<1>9. ASSUME NEW q \in Path, NEW i \in Nat, RowAt(q, i) \in DOMAIN u
      PROVE  q \in DOMAIN u
  <2>1. CASE q = p
    BY <1>2, <2>1
  <2>2. CASE q # p
    <3>1. i \in Idx(x, q)
      BY <1>2, <1>9, <2>2 DEF Idx
    <3> QED
      BY <1>2, <3>1 DEF Idx, Closure
  <2> QED
    BY <2>1, <2>2
<1>10. Closure(u)
  BY <1>2, <1>9 DEF Closure
<1> QED
  BY <1>2, <1>4, <1>5, <1>6, <1>7, <1>8, <1>10

\* After rows of sp moved to dp.
LEMMA MovedShape ==
  ASSUME NEW x, Closure(x), NEW sp \in DOMAIN x, NEW dp \in DOMAIN x,
         NEW f \in Nat, NEW n \in Nat, NEW d \in Nat, Movable(sp, f, n, dp, d),
         NEW ks \in Nat, NEW kd \in Nat, Counted(x, sp, ks), Counted(x, dp, kd), f + n <= ks, d <= kd,
         NEW u, u = Moved(x, sp, f, n, dp, d)
  PROVE  /\ Closure(u) /\ (Root \in DOMAIN x => Root \in DOMAIN u)
         /\ \A y \in Path : y \in DOMAIN u <=> Origin(y, sp, f, n, dp, d) \in DOMAIN x
         /\ \A y \in DOMAIN u : u[y] = x[Origin(y, sp, f, n, dp, d)]
         /\ \A y \in Path : Origin(y, sp, f, n, dp, d) \notin {sp, dp} =>
              AsMany(x, Origin(y, sp, f, n, dp, d), u, y)
         /\ \A y \in Path : sp # dp /\ Origin(y, sp, f, n, dp, d) = sp => Counted(u, y, ks - n)
         /\ \A y \in Path : sp # dp /\ Origin(y, sp, f, n, dp, d) = dp => Counted(u, y, kd + n)
         /\ \A y \in Path : sp = dp /\ Origin(y, sp, f, n, dp, d) = sp => Counted(u, y, ks)
<1>1. sp \in Path /\ dp \in Path /\ DOMAIN x \subseteq Path
  BY DEF Closure
<1>2. /\ DOMAIN u \subseteq Path
      /\ \A y \in Path : y \in DOMAIN u <=> Origin(y, sp, f, n, dp, d) \in DOMAIN x
      /\ \A y \in DOMAIN u : u[y] = x[Origin(y, sp, f, n, dp, d)]
      /\ \A y \in Path : Origin(y, sp, f, n, dp, d) \notin {sp, dp} =>
              Idx(u, y) = Idx(x, Origin(y, sp, f, n, dp, d))
      /\ sp # dp => \A y \in Path, i \in Nat :
              /\ Origin(y, sp, f, n, dp, d) = sp =>
                   (i \in Idx(u, y) <=> Offset(i, f, n) \in Idx(x, sp))
              /\ Origin(y, sp, f, n, dp, d) = dp =>
                   (i \in Idx(u, y) <=>
                      \/ ~(d <= i /\ i < d + n) /\ Offset(i, d + n, -n) \in Idx(x, dp)
                      \/ d <= i /\ i < d + n /\ i - d + f \in Idx(x, sp))
      /\ sp = dp => \A y \in Path, i \in Nat :
              Origin(y, sp, f, n, dp, d) = sp =>
                (i \in Idx(u, y) <=>
                   LET j == Offset(i, f, n) IN
                   \/ ~(d <= j /\ j < d + n) /\ Offset(j, d + n, -n) \in Idx(x, sp)
                   \/ d <= j /\ j < d + n /\ j - d + f \in Idx(x, sp))
  BY <1>1, MovedIs
<1>3. \A i \in Nat : (i \in Idx(x, sp) <=> i < ks) /\ (i \in Idx(x, dp) <=> i < kd)
  BY CountedIs
<1>4. \A y \in Path : Origin(y, sp, f, n, dp, d) \notin {sp, dp} =>
        AsMany(x, Origin(y, sp, f, n, dp, d), u, y)
  BY <1>2, SameRows
<1>5. ASSUME NEW y \in Path, sp # dp, Origin(y, sp, f, n, dp, d) = sp
      PROVE  Counted(u, y, ks - n)
  <2>1. ASSUME NEW i \in Nat
        PROVE  i \in Idx(u, y) <=> i < ks - n
    <3>1. i \in Idx(u, y) <=> Offset(i, f, n) \in Idx(x, sp)
      BY <1>2, <1>5
    <3>2. Offset(i, f, n) \in Nat /\ (Offset(i, f, n) < ks <=> i < ks - n)
      BY DEF Offset
    <3> QED
      BY <1>3, <3>1, <3>2
  <2> QED
    BY <2>1, CountedIs
<1>6. ASSUME NEW y \in Path, sp # dp, Origin(y, sp, f, n, dp, d) = dp
      PROVE  Counted(u, y, kd + n)
  <2>1. ASSUME NEW i \in Nat
        PROVE  i \in Idx(u, y) <=> i < kd + n
    <3>1. i \in Idx(u, y) <=> \/ ~(d <= i /\ i < d + n) /\ Offset(i, d + n, -n) \in Idx(x, dp)
                              \/ d <= i /\ i < d + n /\ i - d + f \in Idx(x, sp)
      BY <1>2, <1>6
    <3>2. ~(d <= i /\ i < d + n) =>
            Offset(i, d + n, -n) \in Nat /\ (Offset(i, d + n, -n) < kd <=> i < kd + n)
      BY DEF Offset
    <3>3. d <= i /\ i < d + n => i - d + f \in Nat /\ i - d + f < ks /\ i < kd + n
      OBVIOUS
    <3> QED
      BY <1>3, <3>1, <3>2, <3>3
  <2> QED
    BY <2>1, CountedIs
<1>7. ASSUME NEW y \in Path, sp = dp, Origin(y, sp, f, n, dp, d) = sp
      PROVE  Counted(u, y, ks)
  <2>1. ASSUME NEW i \in Nat
        PROVE  i \in Idx(u, y) <=> i < ks
    <3>1. PICK j \in Nat : j = Offset(i, f, n)
      BY DEF Offset
    <3>2. i \in Idx(u, y) <=> \/ ~(d <= j /\ j < d + n) /\ Offset(j, d + n, -n) \in Idx(x, sp)
                              \/ d <= j /\ j < d + n /\ j - d + f \in Idx(x, sp)
      BY <1>2, <1>7, <3>1
    <3>3. d <= ks /\ f + n <= d
      <4>1. ks = kd
        BY <1>7, CountedOnce
      <4> QED
        BY <1>7, <4>1 DEF Movable
    <3>4. ~(d <= j /\ j < d + n) =>
            Offset(j, d + n, -n) \in Nat /\ (Offset(j, d + n, -n) < ks <=> i < ks)
      BY <3>1, <3>3 DEF Offset
    <3>5. d <= j /\ j < d + n => j - d + f \in Nat /\ j - d + f < ks /\ i < ks
      BY <3>1, <3>3 DEF Offset
    <3> QED
      BY <1>3, <3>2, <3>4, <3>5
  <2> QED
    BY <2>1, CountedIs
<1>8. ASSUME NEW q \in Path, NEW i \in Nat, RowAt(q, i) \in DOMAIN u
      PROVE  q \in DOMAIN u
  <2>1. CASE Origin(q, sp, f, n, dp, d) \in {sp, dp}
    BY <1>2, <2>1
  <2>2. CASE Origin(q, sp, f, n, dp, d) \notin {sp, dp}
    <3>1. i \in Idx(x, Origin(q, sp, f, n, dp, d))
      BY <1>2, <1>8, <2>2 DEF Idx
    <3>2. Origin(q, sp, f, n, dp, d) \in Path
      <4> PICK s : s = Shifted(sp, dp, d, n)
        OBVIOUS
      <4> PICK z : z = Entered(q, sp, f, n, dp, d)
        OBVIOUS
      <4> PICK w : w = Left(z, sp, f, n, dp, d)
        OBVIOUS
      <4> QED
        BY <1>1, OriginIs
    <3>3. Origin(q, sp, f, n, dp, d) \in DOMAIN x
      BY <3>1, <3>2 DEF Idx, Closure
    <3> QED
      BY <1>2, <3>3
  <2> QED
    BY <2>1, <2>2
<1>9. Closure(u)
  BY <1>2, <1>8 DEF Closure
<1>10. Root \in DOMAIN x => Root \in DOMAIN u
  BY <1>1, <1>2, OriginOfParents, RootOrChild
<1> QED
  BY <1>2, <1>4, <1>5, <1>6, <1>7, <1>9, <1>10

\* Where a row is, in the opposite order of k.
Turned(q, p, k) == IF Below(p, q) THEN [q EXCEPT ![Len(p) + 1] = k - 1 - @] ELSE q

\* A row that is turned keeps all of its path but its own place.
LEMMA TurnedIs ==
  ASSUME NEW p \in Path, NEW k \in Nat, NEW q \in Path, Below(p, q) => Row(p, q) < k
  PROVE  /\ Turned(q, p, k) \in Path
         /\ Len(Turned(q, p, k)) = Len(q)
         /\ Below(p, Turned(q, p, k)) <=> Below(p, q)
         /\ Below(p, q) => Row(p, Turned(q, p, k)) = k - 1 - Row(p, q)
         /\ \A j \in 1..Len(q) : j # Len(p) + 1 => Turned(q, p, k)[j] = q[j]
<1>1. CASE ~Below(p, q)
  BY <1>1 DEF Turned
<1>2. CASE Below(p, q)
  <2>1. /\ Len(p) \in Nat /\ Len(q) \in Nat /\ Len(p) + 1 \in 1..Len(q)
        /\ Row(p, q) = q[Len(p) + 1] /\ Row(p, q) \in Nat /\ k - 1 - Row(p, q) \in Nat
        /\ \A j \in 1..Len(p) : q[j] = p[j]
    BY <1>2, BelowIs
  <2>2. PICK m \in 1..Len(q) : m = Len(p) + 1
    BY <2>1
  <2>3. PICK v \in Nat : v = k - 1 - q[m]
    BY <2>1, <2>2
  <2>4. Turned(q, p, k) = [q EXCEPT ![m] = v]
    BY <1>2, <2>2, <2>3 DEF Turned
  <2>5. PICK r : r = [q EXCEPT ![m] = v]
    OBVIOUS
  <2>6. /\ r \in Path /\ Len(r) = Len(q)
        /\ \A j \in 1..Len(q) : r[j] = IF j = m THEN v ELSE q[j]
    BY <2>5, ExceptSeq DEF Path
  <2>7. \A j \in 1..Len(p) : r[j] = p[j]
    BY <2>1, <2>2, <2>6
  <2>8. Below(p, r)
    BY <2>1, <2>6, <2>7, BelowIs
  <2>9. Row(p, r) = k - 1 - Row(p, q)
    BY <2>1, <2>2, <2>3, <2>6 DEF Row
  <2>10. \A j \in 1..Len(q) : j # Len(p) + 1 => r[j] = q[j]
    BY <2>2, <2>6
  <2>11. r = Turned(q, p, k)
    BY <2>4, <2>5
  <2> QED
    BY <1>2, <2>6, <2>8, <2>9, <2>10, <2>11
<1> QED
  BY <1>1, <1>2

\* Turning twice changes nothing.
LEMMA TurnedTwice ==
  ASSUME NEW p \in Path, NEW k \in Nat, NEW q \in Path, Below(p, q) => Row(p, q) < k
  PROVE  /\ Turned(q, p, k) \in Path
         /\ Below(p, Turned(q, p, k)) <=> Below(p, q)
         /\ Below(p, q) => Row(p, Turned(q, p, k)) < k
         /\ Turned(Turned(q, p, k), p, k) = q
<1>1. PICK r \in Path : r = Turned(q, p, k)
  BY TurnedIs
<1>2. /\ Len(r) = Len(q)
      /\ Below(p, r) <=> Below(p, q)
      /\ Below(p, q) => Row(p, r) = k - 1 - Row(p, q)
      /\ \A j \in 1..Len(q) : j # Len(p) + 1 => r[j] = q[j]
  <2>1. Len(Turned(q, p, k)) = Len(q)
    BY TurnedIs
  <2>2. /\ Below(p, Turned(q, p, k)) <=> Below(p, q)
        /\ Below(p, q) => Row(p, Turned(q, p, k)) = k - 1 - Row(p, q)
    BY TurnedIs
  <2>3. \A j \in 1..Len(q) : j # Len(p) + 1 => Turned(q, p, k)[j] = q[j]
    BY TurnedIs
  <2> QED
    BY <1>1, <2>1, <2>2, <2>3
<1>3. Below(p, q) => Row(p, q) \in Nat
  BY BelowIs
<1>4. Below(p, r) => Row(p, r) < k
  BY <1>2, <1>3
<1>5. PICK s \in Path : s = Turned(r, p, k)
  BY <1>4, TurnedIs
<1>6. /\ Len(s) = Len(r)
      /\ Below(p, r) => Row(p, s) = k - 1 - Row(p, r)
      /\ \A j \in 1..Len(r) : j # Len(p) + 1 => s[j] = r[j]
  <2>1. Len(Turned(r, p, k)) = Len(r)
    BY <1>4, TurnedIs
  <2>2. Below(p, r) => Row(p, Turned(r, p, k)) = k - 1 - Row(p, r)
    BY <1>4, TurnedIs
  <2>3. \A j \in 1..Len(r) : j # Len(p) + 1 => Turned(r, p, k)[j] = r[j]
    BY <1>4, TurnedIs
  <2> QED
    BY <1>5, <2>1, <2>2, <2>3
<1>7. s = q
  <2>1. CASE ~Below(p, q)
    BY <1>1, <1>2, <1>5, <2>1 DEF Turned
  <2>2. CASE Below(p, q)
    <3>1. Row(p, s) = Row(p, q)
      BY <1>2, <1>3, <1>6, <2>2
    <3>2. \A j \in 1..Len(q) : s[j] = q[j]
      BY <1>2, <1>6, <3>1 DEF Row
    <3> QED
      BY <1>2, <1>6, <3>2, SeqEqual DEF Path
  <2> QED
    BY <2>1, <2>2
<1>8. Below(p, q) => Row(p, r) < k
  BY <1>2, <1>4
<1> QED
  BY <1>1, <1>2, <1>5, <1>7, <1>8

\* A row of a row turns with it.
LEMMA TurnedChild ==
  ASSUME NEW p \in Path, NEW k \in Nat, NEW q \in Path, NEW i \in Nat
  PROVE  /\ q = p /\ i < k => k - 1 - i \in Nat /\ Turned(RowAt(q, i), p, k) = RowAt(p, k - 1 - i)
         /\ q # p /\ (Below(p, q) => Row(p, q) < k) =>
              Turned(RowAt(q, i), p, k) = RowAt(Turned(q, p, k), i)
<1>1. /\ RowAt(q, i) \in Path /\ Len(RowAt(q, i)) = Len(q) + 1
      /\ RowAt(q, i)[Len(q) + 1] = i /\ \A j \in 1..Len(q) : RowAt(q, i)[j] = q[j]
  BY ChildIs
<1>2. /\ Below(p, RowAt(q, i)) <=> p = q \/ Below(p, q)
      /\ Below(p, q) => Row(p, RowAt(q, i)) = Row(p, q) /\ p # q
      /\ p = q => Row(p, RowAt(q, i)) = i
  BY BelowChild
<1>3. Len(p) \in Nat /\ Len(q) \in Nat
  BY BelowIs
<1>4. PICK c \in Path : c = RowAt(q, i)
  BY <1>1
<1>5. /\ Len(c) = Len(q) + 1 /\ c[Len(q) + 1] = i /\ \A j \in 1..Len(q) : c[j] = q[j]
      /\ Below(p, c) <=> p = q \/ Below(p, q)
      /\ Below(p, q) => Row(p, c) = Row(p, q) /\ p # q
      /\ p = q => Row(p, c) = i
  BY <1>1, <1>2, <1>4
<1> DEFINE AtTurn(r, s) ==
      /\ r \in Path /\ Len(r) = Len(s)
      /\ Below(p, r) <=> Below(p, s)
      /\ Below(p, s) => Row(p, r) = k - 1 - Row(p, s)
      /\ \A j \in 1..Len(s) : j # Len(p) + 1 => r[j] = s[j]
<1>6. ASSUME NEW s \in Path, Below(p, s) => Row(p, s) < k
      PROVE  AtTurn(Turned(s, p, k), s)
  BY <1>6, TurnedIs
<1>7. ASSUME q = p, i < k
      PROVE  k - 1 - i \in Nat /\ Turned(RowAt(q, i), p, k) = RowAt(p, k - 1 - i)
  <2>1. PICK v \in Nat : v = k - 1 - i
    BY <1>7
  <2>2. PICK r : r = Turned(c, p, k) /\ AtTurn(r, c)
    BY <1>5, <1>6, <1>7
  <2>3. /\ r \in Path /\ Len(r) = Len(p) + 1 /\ Row(p, r) = v
        /\ \A j \in 1..Len(p) : r[j] = p[j]
    BY <1>3, <1>5, <1>7, <2>1, <2>2
  <2>4. /\ RowAt(p, v) \in Path /\ Len(RowAt(p, v)) = Len(p) + 1
        /\ RowAt(p, v)[Len(p) + 1] = v /\ \A j \in 1..Len(p) : RowAt(p, v)[j] = p[j]
    BY ChildIs
  <2>5. \A j \in 1..Len(r) : r[j] = RowAt(p, v)[j]
    BY <1>3, <2>3, <2>4 DEF Row
  <2>6. r = RowAt(p, v)
    BY <2>3, <2>4, <2>5, SeqEqual DEF Path
  <2> QED
    BY <1>4, <2>1, <2>2, <2>6
<1>8. ASSUME q # p, Below(p, q) => Row(p, q) < k
      PROVE  Turned(RowAt(q, i), p, k) = RowAt(Turned(q, p, k), i)
  <2>1. PICK r : r = Turned(c, p, k) /\ AtTurn(r, c)
    BY <1>5, <1>6, <1>8
  <2>2. PICK s : s = Turned(q, p, k) /\ AtTurn(s, q)
    BY <1>6, <1>8
  <2>3. s \in Path /\ r \in Path /\ Len(s) = Len(q) /\ Len(r) = Len(q) + 1
    BY <1>5, <2>1, <2>2
  <2>4. /\ RowAt(s, i) \in Path /\ Len(RowAt(s, i)) = Len(s) + 1
        /\ RowAt(s, i)[Len(s) + 1] = i /\ \A j \in 1..Len(s) : RowAt(s, i)[j] = s[j]
    BY <2>3, ChildIs
  <2>5. Len(q) # Len(p) \/ ~Below(p, c)
    BY <1>3, <1>5, <1>8, BelowIs
  <2>6. ASSUME NEW j \in 1..Len(r)
        PROVE  r[j] = RowAt(s, i)[j]
    <3>1. CASE ~Below(p, c)
      <4>1. ~Below(p, q)
        BY <1>5, <3>1
      <4>2. r = c /\ s = q
        BY <2>1, <2>2, <3>1, <4>1 DEF Turned
      <4> QED
        BY <1>4, <4>2
    <3>2. CASE Below(p, c)
      <4>1. Below(p, q) /\ Len(p) + 1 \in 1..Len(q)
        BY <1>5, <1>8, <3>2, BelowIs
      <4>2. r[Len(p) + 1] = s[Len(p) + 1]
        BY <1>5, <2>1, <2>2, <4>1 DEF Row
      <4>3. CASE j = Len(p) + 1
        BY <2>3, <2>4, <4>1, <4>2, <4>3
      <4>4. CASE j = Len(q) + 1
        <5>1. r[j] = c[j]
          BY <1>3, <1>5, <2>1, <2>5, <3>2, <4>4
        <5> QED
          BY <1>5, <2>3, <2>4, <4>4, <5>1
      <4>5. CASE j # Len(p) + 1 /\ j # Len(q) + 1
        <5>1. j \in 1..Len(q)
          BY <1>3, <2>3, <4>5
        <5>2. r[j] = c[j] /\ s[j] = q[j]
          BY <1>3, <1>5, <2>1, <2>2, <4>5, <5>1
        <5> QED
          BY <1>5, <2>3, <2>4, <5>1, <5>2
      <4> QED
        BY <4>3, <4>4, <4>5
    <3> QED
      BY <3>1, <3>2
  <2>7. Len(r) = Len(RowAt(s, i))
    BY <2>3, <2>4
  <2>8. r = RowAt(s, i)
    BY <2>3, <2>4, <2>6, <2>7, SeqEqual DEF Path
  <2> QED
    BY <1>4, <2>1, <2>2, <2>8
<1> QED
  BY <1>7, <1>8

\* After the rows of p turned.
LEMMA ReversedShape ==
  ASSUME NEW x, Closure(x), NEW p \in DOMAIN x, NEW k \in Nat, Counted(x, p, k),
         NEW u, u = Reversed(x, p)
  PROVE  /\ Closure(u) /\ p \in DOMAIN u /\ Counted(u, p, k)
         /\ \A y \in DOMAIN u : /\ Turned(y, p, k) \in DOMAIN x /\ u[y] = x[Turned(y, p, k)]
                                /\ y # p => Turned(y, p, k) # p /\ AsMany(x, Turned(y, p, k), u, y)
         /\ \A y \in DOMAIN x : ~Below(p, y) => y \in DOMAIN u /\ Turned(y, p, k) = y
<1>1. p \in Path /\ DOMAIN x \subseteq Path
  BY DEF Closure
<1>2. RowCount(x, p) = k
  BY <1>1, CountIs
<1>3. \A q : Mirrored(q, x, p) = Turned(q, p, k)
  BY <1>2 DEF Mirrored, Turned
<1> DEFINE D == {Turned(r, p, k) : r \in DOMAIN x}
<1>4. DOMAIN u = D /\ \A q \in D : u[q] = x[Turned(q, p, k)]
  BY <1>3 DEF Reversed
<1>5. \A r \in DOMAIN x : Below(p, r) => Row(p, r) < k
  BY <1>1, Ancestor, CountedIs DEF Idx
<1>6. ASSUME NEW r \in DOMAIN x
      PROVE  /\ r \in Path /\ Turned(r, p, k) \in Path
             /\ Below(p, Turned(r, p, k)) <=> Below(p, r)
             /\ Below(p, Turned(r, p, k)) => Row(p, Turned(r, p, k)) < k
             /\ Turned(Turned(r, p, k), p, k) = r
  BY <1>1, <1>5, TurnedTwice
<1>7. \A y \in D : /\ y \in Path /\ Turned(y, p, k) \in DOMAIN x
                   /\ Below(p, y) => Row(p, y) < k
                   /\ Turned(Turned(y, p, k), p, k) = y
                   /\ Below(p, Turned(y, p, k)) <=> Below(p, y)
  BY <1>6
<1>8. \A r \in DOMAIN x : Turned(r, p, k) \in D
  OBVIOUS
<1> HIDE DEF D
<1>9. ~Below(p, p) /\ \A y : ~Below(p, y) => Turned(y, p, k) = y
  BY <1>1, BelowIs DEF Turned
<1>10. p \in D
  BY <1>8, <1>9
<1>11. ASSUME NEW y \in D
       PROVE  y # p => Turned(y, p, k) # p
  <2>1. Turned(y, p, k) = p => ~Below(p, y)
    BY <1>7, <1>9
  <2> QED
    BY <1>9, <2>1
<1>12. ASSUME NEW y \in D, y # p, NEW i \in Nat
       PROVE  RowAt(y, i) \in D <=> RowAt(Turned(y, p, k), i) \in DOMAIN x
  <2>1. PICK b \in DOMAIN x : b = Turned(y, p, k)
    BY <1>7
  <2>2. /\ y \in Path /\ b \in Path /\ b # p /\ Turned(b, p, k) = y
        /\ Below(p, y) => Row(p, y) < k
        /\ Below(p, b) => Row(p, b) < k
    BY <1>5, <1>6, <1>7, <1>11, <1>12, <2>1
  <2>3. Turned(RowAt(y, i), p, k) = RowAt(b, i) /\ Turned(RowAt(b, i), p, k) = RowAt(y, i)
    <3>1. Turned(RowAt(y, i), p, k) = RowAt(Turned(y, p, k), i)
      BY <1>1, <1>12, <2>2, TurnedChild
    <3>2. Turned(RowAt(b, i), p, k) = RowAt(Turned(b, p, k), i)
      BY <1>1, <2>2, TurnedChild
    <3> QED
      BY <2>1, <2>2, <3>1, <3>2
  <2> QED
    BY <1>7, <1>8, <2>1, <2>3
<1>13. ASSUME NEW y \in D, y # p
       PROVE  AsMany(x, Turned(y, p, k), u, y)
  <2>1. Idx(u, y) = Idx(x, Turned(y, p, k))
    BY <1>4, <1>12, <1>13 DEF Idx
  <2> QED
    BY <2>1, SameRows
<1>14. Counted(u, p, k)
  <2>1. \A i \in Nat : RowAt(p, i) \in DOMAIN x <=> i < k
    BY CountedIs DEF Idx
  <2>2. ASSUME NEW i \in Nat
        PROVE  RowAt(p, i) \in D <=> i < k
    <3>1. CASE i < k
      <4>1. PICK j \in Nat : j = k - 1 - i /\ j < k /\ k - 1 - j = i
        <5>1. k - 1 - i \in Nat /\ k - 1 - i < k /\ k - 1 - (k - 1 - i) = i
          BY <3>1
        <5> QED
          BY <5>1
      <4>2. Turned(RowAt(p, j), p, k) = RowAt(p, k - 1 - j)
        BY <1>1, <4>1, TurnedChild
      <4> QED
        BY <1>8, <2>1, <3>1, <4>1, <4>2
    <3>2. CASE ~(i < k)
      <4>1. Below(p, RowAt(p, i)) /\ Row(p, RowAt(p, i)) = i
        BY <1>1, BelowChild
      <4> QED
        BY <1>7, <3>2, <4>1
    <3> QED
      BY <3>1, <3>2
  <2>3. \A i \in Nat : i \in Idx(u, p) <=> i < k
    BY <1>4, <2>2 DEF Idx
  <2> QED
    BY <2>3, CountedIs
<1>15. ASSUME NEW q \in Path, NEW i \in Nat, RowAt(q, i) \in D
       PROVE  q \in D
  <2>1. CASE q = p
    BY <1>10, <2>1
  <2>2. CASE q # p
    <3>1. Below(p, q) => Row(p, q) < k
      <4>1. Below(p, q) => Below(p, RowAt(q, i)) /\ Row(p, RowAt(q, i)) = Row(p, q)
        BY <1>1, BelowChild
      <4> QED
        BY <1>7, <1>15, <4>1
    <3>2. Turned(RowAt(q, i), p, k) = RowAt(Turned(q, p, k), i)
      BY <1>1, <2>2, <3>1, TurnedChild
    <3>3. Turned(q, p, k) \in Path /\ Turned(Turned(q, p, k), p, k) = q
      BY <1>1, <3>1, TurnedTwice
    <3>4. Turned(q, p, k) \in DOMAIN x
      BY <1>7, <1>15, <3>2, <3>3 DEF Closure
    <3> QED
      BY <1>8, <3>3, <3>4
  <2> QED
    BY <2>1, <2>2
<1>16. Closure(u)
  BY <1>4, <1>7, <1>15 DEF Closure
<1>17. ASSUME NEW y \in DOMAIN x, ~Below(p, y)
       PROVE  y \in DOMAIN u /\ Turned(y, p, k) = y
  BY <1>4, <1>8, <1>9, <1>17
<1> QED
  BY <1>4, <1>7, <1>10, <1>11, <1>13, <1>14, <1>16, <1>17

-----------------------------------------------------------------------------
(***************************************************************************)
(* The model, and the copy of it.                                          *)
(***************************************************************************)

RowOfModel == [value : Int, header : Int, leaf : BOOLEAN]
Node       == [rows : Int, value : Int, outdated : BOOLEAN, loading : BOOLEAN]

\* The rows of a model; a row that never has children has none.
Countable(t, q) ==
  /\ \E k \in Nat : Counted(t, q, k)
  /\ t[q] \in RowOfModel
  /\ t[q].leaf => Counted(t, q, 0)

Tree(t) == Closure(t) /\ \A q \in DOMAIN t : Countable(t, q)

\* The nodes of a client: as many children as they count.
Structured(c) ==
  /\ Closure(c) /\ Root \in DOMAIN c
  /\ \A q \in DOMAIN c : c[q] \in Node /\ Counted(c, q, c[q].rows)

\* A client that knows nothing wrong of a model.
Copies(c, t) ==
  \A q \in DOMAIN c :
    /\ c[q].rows >= 0 => q \in DOMAIN t /\ Counted(t, q, c[q].rows)
    /\ ~c[q].outdated /\ q # Root => q \in DOMAIN t /\ c[q].value = t[q].value

\* No rows, by any negative number.
LEMMA NoRows ==
  ASSUME NEW x, NEW q, NEW k \in Int, k <= 0
  PROVE  Counted(x, q, k) <=> Counted(x, q, 0)
<1>1. \A i \in Nat : ~(i < k) /\ ~(i < 0)
  OBVIOUS
<1> QED
  BY <1>1, CountedIs

\* Nothing is below a node whose rows are not known, nor below a row that is not there.
LEMMA NothingBelow ==
  ASSUME NEW c, Structured(c), NEW p \in Path, p \notin DOMAIN c \/ c[p].rows < 0
  PROVE  \A q \in DOMAIN c : ~Below(p, q)
<1> SUFFICES ASSUME NEW q \in DOMAIN c, Below(p, q) PROVE FALSE
  OBVIOUS
<1>1. p \in DOMAIN c /\ Row(p, q) \in Idx(c, p)
  BY Ancestor DEF Structured
<1>2. c[p].rows \in Int /\ c[p].rows < 0 /\ Counted(c, p, c[p].rows)
  BY <1>1 DEF Structured, Node
<1>3. PICK k \in Int : k = c[p].rows
  BY <1>2
<1>4. \A i \in Nat : i \in Idx(c, p) <=> i < k
  BY <1>2, <1>3, CountedIs
<1>5. Idx(c, p) = {}
  BY <1>2, <1>3, <1>4 DEF Idx
<1> QED
  BY <1>1, <1>5

-----------------------------------------------------------------------------
(***************************************************************************)
(* A changed model is a model.                                             *)
(***************************************************************************)

\* A row that is where another one was.
LEMMA CountableAgain ==
  ASSUME NEW t, NEW b, Countable(t, b), NEW u, NEW y, u[y] = t[b], AsMany(t, b, u, y)
  PROVE  Countable(u, y)
<1>1. PICK k \in Nat : Counted(t, b, k)
  BY DEF Countable
<1>2. Counted(u, y, k) /\ (Counted(t, b, 0) => Counted(u, y, 0))
  BY <1>1 DEF AsMany
<1> QED
  BY <1>2 DEF Countable

\* A model is a model after endRemoveRows().
LEMMA TreeClosed ==
  ASSUME NEW t, Tree(t), NEW p \in DOMAIN t, NEW f \in Nat, NEW n \in Nat,
         NEW k \in Nat, Counted(t, p, k), f + n <= k, NEW u, u = Closed(t, p, f, n)
  PROVE  Tree(u)
<1>1. Closure(t)
  BY DEF Tree
<1>2. /\ Closure(u) /\ p \in DOMAIN u
      /\ \A y \in DOMAIN u :
           /\ Shifted(y, p, f, n) \in DOMAIN t /\ u[y] = t[Shifted(y, p, f, n)]
           /\ Shifted(y, p, f, n) = p <=> y = p
           /\ y # p => AsMany(t, Shifted(y, p, f, n), u, y)
      /\ Counted(u, p, k - n)
  BY <1>1, ClosedShape
<1>3. ASSUME NEW y \in DOMAIN u, y # p
      PROVE  Countable(u, y)
  <2>1. Countable(t, Shifted(y, p, f, n))
    BY <1>2 DEF Tree
  <2> QED
    BY <1>2, <1>3, <2>1, CountableAgain
<1>4. Countable(u, p)
  <2>1. Countable(t, p) /\ u[p] = t[p]
    BY <1>2 DEF Tree
  <2>2. t[p].leaf => k = 0
    BY <2>1, CountedOnce DEF Countable
  <2>3. k - n \in Nat /\ (k = 0 => k - n = 0)
    OBVIOUS
  <2> QED
    BY <1>2, <2>1, <2>2, <2>3 DEF Countable
<1> QED
  BY <1>2, <1>3, <1>4 DEF Tree

\* A model is a model after endInsertRows().
LEMMA TreeInserted ==
  ASSUME NEW t, Tree(t), NEW p \in DOMAIN t, ~t[p].leaf, NEW f \in Nat, NEW n \in Nat, NEW new,
         \A i \in 1..n : new[i] \in RowOfModel,
         NEW k \in Nat, Counted(t, p, k), f <= k, NEW u, u = Inserted(t, p, f, n, new)
  PROVE  Tree(u)
<1>1. Closure(t)
  BY DEF Tree
<1>2. /\ Closure(u) /\ p \in DOMAIN u /\ ~New(p, p, f, n)
      /\ \A y \in DOMAIN u : ~New(y, p, f, n) =>
              /\ Shifted(y, p, f + n, -n) \in DOMAIN t /\ u[y] = t[Shifted(y, p, f + n, -n)]
              /\ Shifted(y, p, f + n, -n) = p <=> y = p
              /\ y # p => AsMany(t, Shifted(y, p, f + n, -n), u, y)
      /\ \A i \in Nat : f <= i /\ i < f + n =>
              u[RowAt(p, i)] = new[i - f + 1] /\ Counted(u, RowAt(p, i), 0)
      /\ Counted(u, p, k + n)
  BY <1>1, InsertedShape
<1>3. ASSUME NEW y \in DOMAIN u, y # p, ~New(y, p, f, n)
      PROVE  Countable(u, y)
  <2>1. Countable(t, Shifted(y, p, f + n, -n))
    BY <1>2, <1>3 DEF Tree
  <2> QED
    BY <1>2, <1>3, <2>1, CountableAgain
<1>4. Countable(u, p)
  <2>1. Countable(t, p) /\ u[p] = t[p]
    BY <1>2 DEF Tree
  <2>2. k + n \in Nat
    OBVIOUS
  <2> QED
    BY <1>2, <2>1, <2>2 DEF Countable
<1>5. ASSUME NEW y \in DOMAIN u, New(y, p, f, n)
      PROVE  Countable(u, y)
  <2>1. PICK i \in Nat : f <= i /\ i < f + n /\ y = RowAt(p, i)
    BY <1>5 DEF New
  <2>2. i - f + 1 \in 1..n
    BY <2>1
  <2>3. u[y] \in RowOfModel /\ Counted(u, y, 0) /\ 0 \in Nat
    BY <1>2, <2>1, <2>2
  <2> QED
    BY <2>3 DEF Countable
<1> QED
  BY <1>2, <1>3, <1>4, <1>5 DEF Tree

\* A row without rows gets some.
LEMMA TreeFilled ==
  ASSUME NEW t, Tree(t), NEW p \in DOMAIN t, ~t[p].leaf, Counted(t, p, 0), NEW n \in Nat, NEW new,
         \A i \in 1..n : new[i] \in RowOfModel, NEW u, u = Filled(t, p, 0, n, new)
  PROVE  Tree(u) /\ DOMAIN t \subseteq DOMAIN u /\ Counted(u, p, n)
         /\ \A y \in DOMAIN t : u[y] = t[y]
         /\ \A i \in Nat : i < n => u[RowAt(p, i)] = new[i + 1] /\ Counted(u, RowAt(p, i), 0)
<1>1. Closure(t)
  BY DEF Tree
<1>2. /\ Closure(u) /\ Counted(u, p, n)
      /\ DOMAIN t \subseteq DOMAIN u
      /\ \A y \in DOMAIN u : ~New(y, p, 0, n) => y \in DOMAIN t
      /\ \A y \in DOMAIN t : ~New(y, p, 0, n) /\ u[y] = t[y] /\ (y # p => AsMany(t, y, u, y))
      /\ \A i \in Nat : i < n => u[RowAt(p, i)] = new[i + 1] /\ Counted(u, RowAt(p, i), 0)
  BY <1>1, FilledShape
<1>3. ASSUME NEW y \in DOMAIN u, y # p, ~New(y, p, 0, n)
      PROVE  Countable(u, y)
  <2>1. y \in DOMAIN t /\ Countable(t, y)
    BY <1>2, <1>3 DEF Tree
  <2> QED
    BY <1>2, <1>3, <2>1, CountableAgain
<1>4. Countable(u, p)
  <2>1. Countable(t, p) /\ u[p] = t[p]
    BY <1>2 DEF Tree
  <2> QED
    BY <1>2, <2>1 DEF Countable
<1>5. ASSUME NEW y \in DOMAIN u, New(y, p, 0, n)
      PROVE  Countable(u, y)
  <2>1. PICK i \in Nat : i < n /\ y = RowAt(p, i)
    BY <1>5 DEF New
  <2>2. i + 1 \in 1..n
    BY <2>1
  <2>3. u[y] \in RowOfModel /\ Counted(u, y, 0) /\ 0 \in Nat
    BY <1>2, <2>1, <2>2
  <2> QED
    BY <2>3 DEF Countable
<1> QED
  BY <1>2, <1>3, <1>4, <1>5 DEF Tree

\* A model is a model after endMoveRows(), unless the rows move up within their parent.
LEMMA TreeMoved ==
  ASSUME NEW t, Tree(t), NEW sp \in DOMAIN t, NEW dp \in DOMAIN t, ~t[dp].leaf,
         NEW f \in Nat, NEW n \in Nat, NEW d \in Nat, Movable(sp, f, n, dp, d),
         NEW ks \in Nat, NEW kd \in Nat, Counted(t, sp, ks), Counted(t, dp, kd), f + n <= ks, d <= kd,
         NEW u, u = Moved(t, sp, f, n, dp, d)
  PROVE  Tree(u)
<1> DEFINE From(y) == Origin(y, sp, f, n, dp, d)
<1>1. Closure(t)
  BY DEF Tree
<1>2. /\ Closure(u)
      /\ \A y \in Path : y \in DOMAIN u <=> From(y) \in DOMAIN t
      /\ \A y \in DOMAIN u : u[y] = t[From(y)]
      /\ \A y \in Path : From(y) \notin {sp, dp} => AsMany(t, From(y), u, y)
      /\ \A y \in Path : sp # dp /\ From(y) = sp => Counted(u, y, ks - n)
      /\ \A y \in Path : sp # dp /\ From(y) = dp => Counted(u, y, kd + n)
      /\ \A y \in Path : sp = dp /\ From(y) = sp => Counted(u, y, ks)
  BY <1>1, MovedShape
<1> HIDE DEF From
<1>3. ASSUME NEW y \in DOMAIN u
      PROVE  y \in Path /\ From(y) \in DOMAIN t /\ u[y] = t[From(y)] /\ Countable(t, From(y))
  BY <1>2 DEF Closure, Tree
<1>4. ASSUME NEW y \in DOMAIN u, From(y) \notin {sp, dp}
      PROVE  Countable(u, y)
  BY <1>2, <1>3, <1>4, CountableAgain
<1>5. ASSUME NEW y \in DOMAIN u, From(y) = sp, sp # dp
      PROVE  Countable(u, y)
  <2>1. t[sp].leaf => ks = 0
    BY CountedOnce DEF Tree, Countable
  <2>2. ks - n \in Nat /\ (ks = 0 => ks - n = 0)
    OBVIOUS
  <2> QED
    BY <1>2, <1>3, <1>5, <2>1, <2>2 DEF Countable
<1>6. ASSUME NEW y \in DOMAIN u, From(y) = dp, sp # dp
      PROVE  Countable(u, y)
  <2>1. kd + n \in Nat
    OBVIOUS
  <2> QED
    BY <1>2, <1>3, <1>6, <2>1 DEF Countable
<1>7. ASSUME NEW y \in DOMAIN u, From(y) = sp, sp = dp
      PROVE  Countable(u, y)
  BY <1>2, <1>3, <1>7 DEF Countable
<1> QED
  BY <1>2, <1>4, <1>5, <1>6, <1>7 DEF Tree

\* A model is a model after its rows were sorted.
LEMMA TreeReversed ==
  ASSUME NEW t, Tree(t), NEW p \in DOMAIN t, NEW u, u = Reversed(t, p)
  PROVE  Tree(u)
<1>1. Closure(t)
  BY DEF Tree
<1>2. PICK k \in Nat : Counted(t, p, k)
  BY DEF Tree, Countable
<1>3. /\ Closure(u) /\ p \in DOMAIN u /\ Counted(u, p, k)
      /\ \A y \in DOMAIN u : /\ Turned(y, p, k) \in DOMAIN t /\ u[y] = t[Turned(y, p, k)]
                             /\ y # p => Turned(y, p, k) # p /\ AsMany(t, Turned(y, p, k), u, y)
  BY <1>1, <1>2, ReversedShape
<1>4. ASSUME NEW y \in DOMAIN u, y # p
      PROVE  Countable(u, y)
  <2>1. Countable(t, Turned(y, p, k))
    BY <1>3 DEF Tree
  <2> QED
    BY <1>3, <1>4, <2>1, CountableAgain
<1>5. Countable(u, p)
  <2>1. Turned(p, p, k) = p
    BY <1>1, BelowIs DEF Turned, Closure
  <2>2. Countable(t, p) /\ u[p] = t[p]
    BY <1>3, <2>1 DEF Tree
  <2>3. t[p].leaf => k = 0
    BY <1>2, <2>2, CountedOnce DEF Countable
  <2> QED
    BY <1>2, <1>3, <2>2, <2>3 DEF Countable
<1> QED
  BY <1>3, <1>4, <1>5 DEF Tree

\* The same rows with other values.
LEMMA TreeOfSameRows ==
  ASSUME NEW t, Tree(t), NEW u, DOMAIN u = DOMAIN t,
         \A q \in DOMAIN t : u[q] \in RowOfModel /\ u[q].leaf = t[q].leaf
  PROVE  Tree(u) /\ \A q, k : Counted(u, q, k) <=> Counted(t, q, k)
<1>1. \A q : Idx(u, q) = Idx(t, q)
  BY DEF Idx
<1>2. \A q, k : Counted(u, q, k) <=> Counted(t, q, k)
  BY <1>1 DEF Counted
<1>3. Closure(u)
  BY DEF Tree, Closure
<1> QED
  BY <1>2, <1>3 DEF Tree, Countable

-----------------------------------------------------------------------------
(***************************************************************************)
(* A client that follows a change has a copy of the changed model.         *)
(***************************************************************************)

\* What the client c has at b, its successor e has at q, and the same goes for models.
Traced(c, t, e, u, q, b) ==
  /\ b \in DOMAIN c /\ (b = Root => q = Root)
  /\ e[q].value = c[b].value /\ e[q].outdated = c[b].outdated
  /\ b \in DOMAIN t => q \in DOMAIN u /\ u[q].value = t[b].value
  /\ e[q].rows >= 0 => c[b].rows >= 0 /\ (Counted(t, b, c[b].rows) => Counted(u, q, e[q].rows))

\* A node of which nothing is known.
Blank(node) == node.outdated /\ ~(node.rows >= 0)

\* Rows that come or go leave their parent, and the root, where they are.
LEMMA ShiftedOnto ==
  ASSUME NEW p \in Path, NEW q \in Path, NEW f \in Nat, NEW n \in Nat
  PROVE  /\ Shifted(q, p, f, n) = p <=> q = p
         /\ Shifted(q, p, f, n) = Root <=> q = Root
<1>1. Shifted(q, p, f, n) = p <=> q = p
  BY ShiftedTo
<1>2. Shifted(q, p, f, n) = Root <=> q = Root
  <2>1. Root \in Path
    BY RootOrChild
  <2>2. Shifted(Shifted(q, p, f, n), p, f + n, -n) = q
    BY ShiftUp
  <2>3. Shifted(Root, p, f, n) = Root /\ Shifted(Root, p, f + n, -n) = Root
    BY ShiftedTo
  <2> QED
    BY <2>2, <2>3
<1> QED
  BY <1>1, <1>2

\* A copy stays one when every node is blank, or traced to one that was right before.
LEMMA CopyStep ==
  ASSUME NEW c, NEW t, Copies(c, t), NEW e, NEW u,
         \A q \in DOMAIN e : Blank(e[q]) \/ \E b : Traced(c, t, e, u, q, b)
  PROVE  Copies(e, u)
<1>1. ASSUME NEW q \in DOMAIN e, Blank(e[q])
      PROVE  /\ e[q].rows >= 0 => q \in DOMAIN u /\ Counted(u, q, e[q].rows)
             /\ ~e[q].outdated /\ q # Root => q \in DOMAIN u /\ e[q].value = u[q].value
  BY <1>1 DEF Blank
<1>2. ASSUME NEW q \in DOMAIN e, NEW b, Traced(c, t, e, u, q, b)
      PROVE  /\ e[q].rows >= 0 => q \in DOMAIN u /\ Counted(u, q, e[q].rows)
             /\ ~e[q].outdated /\ q # Root => q \in DOMAIN u /\ e[q].value = u[q].value
  <2>1. /\ b \in DOMAIN c
        /\ c[b].rows >= 0 => b \in DOMAIN t /\ Counted(t, b, c[b].rows)
        /\ ~c[b].outdated /\ b # Root => b \in DOMAIN t /\ c[b].value = t[b].value
    BY <1>2 DEF Traced, Copies
  <2> QED
    BY <1>2, <2>1 DEF Traced
<1> QED
  BY <1>1, <1>2 DEF Copies

\* A change that is nowhere in the client.
LEMMA CopyUnheard ==
  ASSUME NEW c, NEW t, Copies(c, t), NEW u,
         \A q \in DOMAIN c : q \in DOMAIN t =>
           /\ q \in DOMAIN u /\ u[q].value = t[q].value
           /\ c[q].rows >= 0 => (Counted(t, q, c[q].rows) => Counted(u, q, c[q].rows))
  PROVE  Copies(c, u)
  BY DEF Copies

\* e is u but for the number of rows of p.
Resized(e, u, p, m) ==
  /\ DOMAIN e = DOMAIN u /\ \A q \in DOMAIN u : q # p => e[q] = u[q]
  /\ e[p] \in Node /\ e[p].rows = m /\ e[p].value = u[p].value
  /\ e[p].outdated = u[p].outdated /\ e[p].loading = u[p].loading
  /\ Closure(u) => Closure(e)
  /\ \A q, k : Counted(e, q, k) <=> Counted(u, q, k)

\* Writing a node's count changes nothing but that count.
LEMMA ResizedIs ==
  ASSUME NEW u, NEW p \in DOMAIN u, u[p] \in Node, NEW m \in Int
  PROVE  Resized([u EXCEPT ![p].rows = m], u, p, m)
<1>1. PICK e : e = [u EXCEPT ![p].rows = m]
  OBVIOUS
<1>2. /\ DOMAIN e = DOMAIN u /\ \A q \in DOMAIN u : q # p => e[q] = u[q]
      /\ e[p] = [u[p] EXCEPT !.rows = m]
  BY <1>1
<1>3. /\ e[p] \in Node /\ e[p].rows = m /\ e[p].value = u[p].value
      /\ e[p].outdated = u[p].outdated /\ e[p].loading = u[p].loading
  BY <1>2 DEF Node
<1>4. \A q : Idx(e, q) = Idx(u, q)
  BY <1>2 DEF Idx
<1>5. Resized(e, u, p, m)
  BY <1>2, <1>3, <1>4 DEF Counted, Closure, Resized
<1> QED
  BY <1>1, <1>5

\* New nodes are blank.
LEMMA NewIsBlank ==
  /\ NewNode \in Node /\ NewNode.rows = -1 /\ Blank(NewNode)
  /\ NewRoot = [q \in {Root} |-> NewNode]
  BY DEF NewNode, Node, Unknown, None, Blank, NewRoot

\* The number of rows of a node that is known.
LEMMA KnownRows ==
  ASSUME NEW c, Structured(c), NEW p \in DOMAIN c, c[p].rows >= 0, NEW t, Copies(c, t),
         NEW k \in Nat, Counted(t, p, k)
  PROVE  c[p].rows = k /\ p \in DOMAIN t /\ Counted(c, p, k)
<1>1. c[p].rows \in Nat /\ Counted(c, p, c[p].rows)
  BY DEF Structured, Node
<1>2. p \in DOMAIN t /\ Counted(t, p, c[p].rows)
  BY DEF Copies
<1> QED
  BY <1>1, <1>2, CountedOnce

\* doRemoveRows().
Shrunk(c, p, f, n) == [Closed(c, p, f, n) EXCEPT ![p].rows = @ - n]

\* The client heard that rows of p went, and had counted them (remotemodel.cpp, doRemoveRows()).
LEMMA CopyRemoved ==
  ASSUME NEW c, Structured(c), NEW t, Tree(t), Copies(c, t),
         NEW p \in DOMAIN t, NEW f \in Nat, NEW n \in Nat,
         NEW k \in Nat, Counted(t, p, k), f + n <= k, NEW u, u = Closed(t, p, f, n),
         p \in DOMAIN c, c[p].rows >= 0, NEW e, e = Shrunk(c, p, f, n)
  PROVE  Structured(e) /\ Copies(e, u) /\ e[Root].rows = IF p = Root THEN k - n ELSE c[Root].rows
<1>1. Closure(t) /\ Closure(c) /\ Root \in DOMAIN c
  BY DEF Tree, Structured
<1>2. c[p].rows = k /\ Counted(c, p, k)
  BY KnownRows
<1>3. PICK x : x = Closed(c, p, f, n)
  OBVIOUS
<1>4. /\ Closure(x) /\ p \in DOMAIN x /\ Root \in DOMAIN x
      /\ \A y \in DOMAIN x :
           /\ Shifted(y, p, f, n) \in DOMAIN c /\ x[y] = c[Shifted(y, p, f, n)]
           /\ Shifted(y, p, f, n) = p <=> y = p
           /\ Shifted(y, p, f, n) = Root <=> y = Root
           /\ y # p => AsMany(c, Shifted(y, p, f, n), x, y)
      /\ Counted(x, p, k - n)
  <2>1. Closure(x) /\ p \in DOMAIN x /\ Root \in DOMAIN x
    BY <1>1, <1>2, <1>3, ClosedShape
  <2>2. ASSUME NEW y \in DOMAIN x
        PROVE  /\ Shifted(y, p, f, n) \in DOMAIN c /\ x[y] = c[Shifted(y, p, f, n)]
               /\ Shifted(y, p, f, n) = p <=> y = p
               /\ Shifted(y, p, f, n) = Root <=> y = Root
               /\ y # p => AsMany(c, Shifted(y, p, f, n), x, y)
    <3>1. Shifted(y, p, f, n) \in DOMAIN c /\ x[y] = c[Shifted(y, p, f, n)]
      BY <1>1, <1>2, <1>3, ClosedShape
    <3>2. y \in Path /\ p \in Path /\ Root \in Path
      BY <1>1, <2>1 DEF Closure
    <3>3. (Shifted(y, p, f, n) = p <=> y = p) /\ (Shifted(y, p, f, n) = Root <=> y = Root)
      BY <3>2, ShiftedOnto
    <3>4. y # p => AsMany(c, Shifted(y, p, f, n), x, y)
      BY <1>1, <1>2, <1>3, ClosedShape
    <3> QED
      BY <3>1, <3>2, <3>3, <3>4
  <2>3. Counted(x, p, k - n)
    BY <1>1, <1>2, <1>3, ClosedShape
  <2> QED
    BY <2>1, <2>2, <2>3
<1>5. /\ \A q \in Path : q \in DOMAIN u <=> Shifted(q, p, f, n) \in DOMAIN t
      /\ \A q \in DOMAIN u : u[q] = t[Shifted(q, p, f, n)]
  <2>1. \A q \in Path : q \in DOMAIN u <=> Shifted(q, p, f, n) \in DOMAIN t
    BY <1>1, ClosedIs DEF Closure
  <2>2. \A q \in DOMAIN u : u[q] = t[Shifted(q, p, f, n)]
    BY <1>1, ClosedIs DEF Closure
  <2> QED
    BY <2>1, <2>2
<1>6. /\ \A y \in DOMAIN u : y # p => AsMany(t, Shifted(y, p, f, n), u, y)
      /\ Counted(u, p, k - n) /\ p \in DOMAIN u
  BY <1>1, ClosedShape
<1>7. x[p] = c[p] /\ c[p] \in Node /\ k - n \in Int
  BY <1>4 DEF Structured
<1>8. e = [x EXCEPT ![p].rows = k - n]
  <2>1. x[p].rows = k
    BY <1>2, <1>7
  <2>2. e = [x EXCEPT ![p].rows = x[p].rows - n]
    BY <1>3 DEF Shrunk
  <2> QED
    BY <2>1, <2>2
<1>9. Resized(e, x, p, k - n)
  <2> PICK m \in Int : m = k - n
    BY <1>7
  <2>1. Resized([x EXCEPT ![p].rows = m], x, p, m)
    BY <1>4, <1>7, ResizedIs
  <2> QED
    BY <1>8, <2>1
<1>10. ASSUME NEW q \in DOMAIN e
       PROVE  e[q] \in Node /\ Counted(e, q, e[q].rows)
  <2>1. CASE q = p
    BY <1>4, <1>9, <2>1 DEF Resized
  <2>2. CASE q # p
    <3>1. Shifted(q, p, f, n) \in DOMAIN c /\ e[q] = c[Shifted(q, p, f, n)]
          /\ AsMany(c, Shifted(q, p, f, n), x, q)
      BY <1>4, <1>9, <2>2 DEF Resized
    <3>2. e[q] \in Node /\ Counted(c, Shifted(q, p, f, n), e[q].rows) /\ e[q].rows \in Int
      BY <3>1 DEF Structured, Node
    <3> QED
      BY <1>9, <3>1, <3>2 DEF AsMany, Resized
  <2> QED
    BY <2>1, <2>2
<1>11. Structured(e)
  BY <1>4, <1>9, <1>10 DEF Structured, Resized
<1>12. ASSUME NEW q \in DOMAIN e
       PROVE  Traced(c, t, e, u, q, Shifted(q, p, f, n))
  <2>1. q \in Path /\ q \in DOMAIN x /\ Shifted(q, p, f, n) \in DOMAIN c
    BY <1>4, <1>9 DEF Closure, Resized
  <2>2. CASE q = p
    <3>1. Shifted(q, p, f, n) = p
      BY <1>4, <2>1, <2>2
    <3> QED
      BY <1>2, <1>4, <1>5, <1>6, <1>7, <1>9, <2>1, <2>2, <3>1 DEF Traced, Resized
  <2>3. CASE q # p
    <3>1. PICK b \in DOMAIN c : b = Shifted(q, p, f, n)
      BY <2>1
    <3>2. /\ e[q] = c[b] /\ (b = Root <=> q = Root)
          /\ b \in DOMAIN t => q \in DOMAIN u /\ u[q] = t[b] /\ AsMany(t, b, u, q)
      BY <1>4, <1>5, <1>6, <1>9, <2>1, <2>3, <3>1 DEF Resized
    <3>3. c[b].rows \in Int /\ (c[b].rows >= 0 => b \in DOMAIN t)
      BY DEF Structured, Copies, Node
    <3>4. c[b].rows >= 0 => (Counted(t, b, c[b].rows) => Counted(u, q, c[b].rows))
      BY <3>2, <3>3 DEF AsMany
    <3> QED
      BY <3>1, <3>2, <3>4 DEF Traced
  <2> QED
    BY <2>2, <2>3
<1>13. Copies(e, u)
  BY <1>12, CopyStep
<1>14. e[Root].rows = IF p = Root THEN k - n ELSE c[Root].rows
  BY <1>4, <1>9 DEF Resized
<1> QED
  BY <1>11, <1>13, <1>14

\* Where a row is that was there before rows of p came.
LEMMA InsertedKeeps ==
  ASSUME NEW t, Closure(t), NEW p \in DOMAIN t, NEW f \in Nat, NEW n \in Nat, NEW new,
         NEW u, u = Inserted(t, p, f, n, new),
         NEW q \in Path, ~InRows(p, q, f, n), Shifted(q, p, f + n, -n) \in DOMAIN t
  PROVE  /\ q \in DOMAIN u /\ u[q] = t[Shifted(q, p, f + n, -n)]
         /\ q # p => AsMany(t, Shifted(q, p, f + n, -n), u, q)
<1>1. p \in Path /\ DOMAIN t \subseteq Path
  BY DEF Closure
<1>2. PICK x : x = Opened(t, p, f, n)
  OBVIOUS
<1>3. DOMAIN x \subseteq Path /\ q \in DOMAIN x
  BY <1>1, <1>2, OpenedIs
<1>4. u = Filled(x, p, f, n, new)
  BY <1>2 DEF Inserted
<1>5. q \in DOMAIN u
  BY <1>1, <1>3, <1>4, FilledIs
<1>6. ~New(q, p, f, n)
  BY <1>1, InRowsChild DEF New
<1>7. u[q] = t[Shifted(q, p, f + n, -n)]
  BY <1>5, <1>6, InsertedShape
<1>8. q # p => AsMany(t, Shifted(q, p, f + n, -n), u, q)
  BY <1>5, <1>6, InsertedShape
<1> QED
  BY <1>5, <1>7, <1>8

\* What a client has after it inserted new nodes.
NodeStays(x, c, q, b, p, f, n) ==
  /\ b \in DOMAIN c /\ x[q] = c[b] /\ ~InRows(p, q, f, n)
  /\ (b = p <=> q = p) /\ (b = Root <=> q = Root)
  /\ q # p => AsMany(c, b, x, q)

\* New nodes are blank, and all others are where they went.
LEMMA NodesInserted ==
  ASSUME NEW c, Closure(c), Root \in DOMAIN c, NEW p \in DOMAIN c, NEW f \in Nat, NEW n \in Nat,
         NEW x, x = Inserted(c, p, f, n, [i \in 1..n |-> NewNode])
  PROVE  /\ Closure(x) /\ p \in DOMAIN x /\ Root \in DOMAIN x
         /\ \A q \in DOMAIN x : ~New(q, p, f, n) => NodeStays(x, c, q, Shifted(q, p, f + n, -n), p, f, n)
         /\ \A q \in DOMAIN x : New(q, p, f, n) =>
              x[q] = NewNode /\ Counted(x, q, -1) /\ q # p /\ q # Root
<1>1. Closure(c) /\ p \in Path /\ Root \in Path
  BY DEF Closure
<1>2. PICK new0 : new0 = [j \in 1..n |-> NewNode]
  OBVIOUS
<1>3. x = Inserted(c, p, f, n, new0)
  BY <1>2
<1>4. Closure(x) /\ p \in DOMAIN x /\ Root \in DOMAIN x
  BY <1>1, <1>3, InsertedShape
<1>5. ASSUME NEW q \in DOMAIN x, ~New(q, p, f, n), NEW b, b = Shifted(q, p, f + n, -n)
      PROVE  /\ b \in DOMAIN c /\ x[q] = c[b] /\ ~InRows(p, q, f, n)
             /\ (b = p <=> q = p) /\ (b = Root <=> q = Root)
             /\ q # p => AsMany(c, b, x, q)
  <2>1. b \in DOMAIN c /\ x[q] = c[b]
    BY <1>1, <1>3, <1>5, InsertedShape
  <2>2. ~InRows(p, q, f, n)
    BY <1>1, <1>3, <1>5, InsertedShape
  <2>3. q # p => AsMany(c, b, x, q)
    BY <1>1, <1>3, <1>5, InsertedShape
  <2>4. q \in Path
    BY <1>4 DEF Closure
  <2>5. b = p <=> q = p
    <3>1. Shifted(q, p, f + n, -n) = p <=> q = p
      BY <1>1, <2>4, ShiftedTo
    <3> QED
      BY <1>5, <3>1
  <2>6. b = Root <=> q = Root
    <3>1. Shifted(b, p, f, n) = q
      BY <1>1, <1>5, <2>2, <2>4, ShiftDown
    <3>2. Shifted(Root, p, f, n) = Root /\ Shifted(Root, p, f + n, -n) = Root
      BY <1>1, ShiftedTo
    <3> QED
      BY <1>5, <3>1, <3>2
  <2> QED
    BY <2>1, <2>2, <2>3, <2>5, <2>6
<1>6. ASSUME NEW q \in DOMAIN x, New(q, p, f, n)
      PROVE  x[q] = NewNode /\ Counted(x, q, -1) /\ q # p /\ q # Root
  <2>1. PICK i \in Nat : f <= i /\ i < f + n /\ q = RowAt(p, i)
    BY <1>6 DEF New
  <2>3. x[RowAt(p, i)] = new0[i - f + 1] /\ Counted(x, RowAt(p, i), 0)
    BY <1>1, <1>3, <2>1, InsertedShape
  <2>4. i - f + 1 \in 1..n
    BY <2>1
  <2>5. new0[i - f + 1] = NewNode
    BY <1>2, <2>4
  <2>6. q # p /\ q # Root
    BY <1>1, <2>1, ChildIs, ChildIsNot
  <2>7. Counted(x, q, -1)
    <3> PICK m \in Int : m = -1
      OBVIOUS
    <3>1. m <= 0
      OBVIOUS
    <3> QED
      BY <2>1, <2>3, <3>1, NoRows
  <2> QED
    BY <2>1, <2>3, <2>5, <2>6, <2>7
<1>7. ASSUME NEW q \in DOMAIN x, ~New(q, p, f, n)
      PROVE  NodeStays(x, c, q, Shifted(q, p, f + n, -n), p, f, n)
  <2>1. PICK b : b = Shifted(q, p, f + n, -n)
    OBVIOUS
  <2>2. NodeStays(x, c, q, b, p, f, n)
    BY <1>5, <1>7, <2>1 DEF NodeStays
  <2> QED
    BY <2>1, <2>2
<1> QED
  BY <1>4, <1>6, <1>7

\* doInsertRows().
Grown(c, p, f, n) == [Inserted(c, p, f, n, [i \in 1..n |-> NewNode]) EXCEPT ![p].rows = @ + n]

\* The client heard of new rows of p, and had counted those before (remotemodel.cpp, doInsertRows()).
LEMMA CopyInserted ==
  ASSUME NEW c, Structured(c), NEW t, Tree(t), Copies(c, t),
         NEW p \in DOMAIN t, NEW f \in Nat, NEW n \in Nat,
         NEW k \in Nat, Counted(t, p, k), f <= k, NEW new, NEW u, u = Inserted(t, p, f, n, new),
         p \in DOMAIN c, c[p].rows >= 0,
         NEW e, e = Grown(c, p, f, n)
  PROVE  Structured(e) /\ Copies(e, u) /\ e[Root].rows = IF p = Root THEN k + n ELSE c[Root].rows
<1>1. Closure(t) /\ Closure(c) /\ Root \in DOMAIN c /\ p \in Path /\ Root \in Path
  BY DEF Tree, Structured, Closure
<1>2. c[p].rows = k /\ Counted(c, p, k)
  BY KnownRows
<1>3. PICK x : x = Inserted(c, p, f, n, [i \in 1..n |-> NewNode])
  OBVIOUS
<1>4. Closure(x) /\ p \in DOMAIN x /\ Root \in DOMAIN x
  BY <1>1, <1>3, InsertedShape
<1>5. Counted(x, p, k + n)
  BY <1>1, <1>2, <1>3, InsertedShape
<1>6. ASSUME NEW q \in DOMAIN x, ~New(q, p, f, n), NEW b, b = Shifted(q, p, f + n, -n)
      PROVE  /\ b \in DOMAIN c /\ x[q] = c[b] /\ ~InRows(p, q, f, n)
             /\ (b = p <=> q = p) /\ (b = Root <=> q = Root)
             /\ q # p => AsMany(c, b, x, q)
  <2>1. NodeStays(x, c, q, Shifted(q, p, f + n, -n), p, f, n)
    BY <1>1, <1>3, <1>6, NodesInserted
  <2> QED
    BY <1>6, <2>1 DEF NodeStays
<1>7. ASSUME NEW q \in DOMAIN x, New(q, p, f, n)
      PROVE  x[q] = NewNode /\ Counted(x, q, -1) /\ q # p /\ q # Root
  BY <1>1, <1>3, <1>7, NodesInserted
<1>8. x[p] = c[p] /\ c[p] \in Node /\ k + n \in Int
  <2>1. ~New(p, p, f, n)
    BY <1>4, <1>7
  <2>2. Shifted(p, p, f + n, -n) = p
    BY <1>1, ShiftedTo
  <2>3. PICK b : b = Shifted(p, p, f + n, -n)
    OBVIOUS
  <2> QED
    BY <1>4, <1>6, <2>1, <2>2, <2>3 DEF Structured
<1>9. Resized(e, x, p, k + n)
  <2> PICK m \in Int : m = k + n
    BY <1>8
  <2>1. Resized([x EXCEPT ![p].rows = m], x, p, m)
    BY <1>4, <1>8, ResizedIs
  <2>2. x[p].rows + n = m
    BY <1>2, <1>8
  <2>3. e = [x EXCEPT ![p].rows = x[p].rows + n]
    BY <1>3 DEF Grown
  <2> QED
    BY <2>1, <2>2, <2>3
<1>10. ASSUME NEW q \in DOMAIN e
       PROVE  e[q] \in Node /\ Counted(e, q, e[q].rows)
  <2>0. q \in DOMAIN x
    BY <1>9 DEF Resized
  <2>1. CASE q = p
    BY <1>5, <1>9, <2>1 DEF Resized
  <2>2. CASE New(q, p, f, n)
    <3>1. x[q] = NewNode /\ Counted(x, q, -1) /\ q # p
      BY <1>7, <2>0, <2>2
    <3> QED
      BY <1>9, <2>0, <3>1, NewIsBlank DEF Resized
  <2>3. CASE q # p /\ ~New(q, p, f, n)
    <3>1. PICK b : b = Shifted(q, p, f + n, -n)
      OBVIOUS
    <3>2. b \in DOMAIN c /\ e[q] = c[b] /\ AsMany(c, b, x, q)
      BY <1>6, <1>9, <2>0, <2>3, <3>1 DEF Resized
    <3>3. e[q] \in Node /\ Counted(c, b, e[q].rows) /\ e[q].rows \in Int
      BY <3>2 DEF Structured, Node
    <3> QED
      BY <1>9, <3>2, <3>3 DEF AsMany, Resized
  <2> QED
    BY <2>1, <2>2, <2>3
<1>11. Structured(e)
  BY <1>4, <1>9, <1>10 DEF Structured, Resized
<1>12. ASSUME NEW q \in DOMAIN e
       PROVE  Blank(e[q]) \/ \E b : Traced(c, t, e, u, q, b)
  <2>0. q \in DOMAIN x /\ q \in Path
    BY <1>4, <1>9 DEF Resized, Closure
  <2>1. CASE New(q, p, f, n)
    <3>1. x[q] = NewNode /\ q # p
      BY <1>7, <2>0, <2>1
    <3> QED
      BY <1>9, <2>0, <3>1, NewIsBlank DEF Resized
  <2>2. CASE ~New(q, p, f, n)
    <3>1. PICK b : b = Shifted(q, p, f + n, -n)
      OBVIOUS
    <3>2. /\ b \in DOMAIN c /\ x[q] = c[b] /\ ~InRows(p, q, f, n)
          /\ (b = p <=> q = p) /\ (b = Root <=> q = Root)
      BY <1>6, <2>0, <2>2, <3>1
    <3>3. b \in DOMAIN t => /\ q \in DOMAIN u /\ u[q] = t[b]
                            /\ q # p => AsMany(t, b, u, q)
      BY <1>1, <2>0, <3>1, <3>2, InsertedKeeps
    <3>4. CASE q = p
      <4>1. Counted(u, p, k + n)
        BY <1>1, InsertedShape
      <4> QED
        BY <1>2, <1>8, <1>9, <3>2, <3>3, <3>4, <4>1 DEF Traced, Resized
    <3>5. CASE q # p
      <4>1. e[q] = c[b]
        BY <1>9, <2>0, <3>2, <3>5 DEF Resized
      <4>2. c[b].rows \in Int /\ (c[b].rows >= 0 => b \in DOMAIN t)
        BY <3>2 DEF Structured, Copies, Node
      <4>3. c[b].rows >= 0 => (Counted(t, b, c[b].rows) => Counted(u, q, c[b].rows))
        BY <3>3, <3>5, <4>2 DEF AsMany
      <4> QED
        BY <3>2, <3>3, <4>1, <4>3 DEF Traced
    <3> QED
      BY <3>4, <3>5
  <2> QED
    BY <2>1, <2>2
<1>13. Copies(e, u)
  BY <1>12, CopyStep
<1>14. e[Root].rows = IF p = Root THEN k + n ELSE c[Root].rows
  <2>1. CASE p = Root
    BY <1>9, <2>1 DEF Resized
  <2>2. CASE p # Root
    <3>1. ~New(Root, p, f, n)
      BY <1>4, <1>7
    <3>2. Shifted(Root, p, f + n, -n) = Root
      BY <1>1, ShiftedTo
    <3>3. PICK b : b = Shifted(Root, p, f + n, -n)
      OBVIOUS
    <3>4. x[Root] = c[Root]
      BY <1>4, <1>6, <3>1, <3>2, <3>3
    <3> QED
      BY <1>4, <1>9, <2>2, <3>4 DEF Resized
  <2> QED
    BY <2>1, <2>2
<1> QED
  BY <1>11, <1>13, <1>14

\* Nothing but the root comes from the root.
LEMMA OriginRoot ==
  ASSUME NEW sp \in Path, NEW dp \in Path, NEW f \in Nat, NEW n \in Nat, NEW d \in Nat,
         Movable(sp, f, n, dp, d), NEW y \in Path, Origin(y, sp, f, n, dp, d) = Root
  PROVE  y = Root
<1>0. Root \in Path /\ Shifted(sp, dp, d, n) \in Path
  BY RootOrChild, SourceIs
<1>1. PICK s \in Path : s = Shifted(sp, dp, d, n)
  BY <1>0
<1>2. PICK z : z = Entered(y, sp, f, n, dp, d)
  OBVIOUS
<1>3. PICK w : w = Left(z, sp, f, n, dp, d)
  OBVIOUS
<1>4. PICK b : b = Origin(y, sp, f, n, dp, d)
  OBVIOUS
<1>5. /\ z \in Path /\ w \in Path /\ z = Shifted(y, s, f, n) /\ b = Shifted(w, dp, d + n, -n)
      /\ ~InRows(dp, w, d, n)
  BY <1>1, <1>2, <1>3, <1>4, OriginIs
<1>6. InRows(dp, z, d, n) => w = Landed(z, dp, d, s, f)
  BY <1>1, <1>2, <1>3, <1>4, OriginIs
<1>7. ~InRows(dp, z, d, n) => w = z
  BY <1>1, <1>2, <1>3, <1>4, OriginIs
<1>8. w = Root
  <2>1. Shifted(b, dp, d, n) = w
    BY <1>5, ShiftDown
  <2>2. Shifted(Root, dp, d, n) = Root
    BY ShiftedTo
  <2> QED
    BY <1>4, <2>1, <2>2
<1>9. ~InRows(dp, z, d, n)
  <2> SUFFICES ASSUME InRows(dp, z, d, n) PROVE FALSE
    OBVIOUS
  <2>1. InRows(s, Landed(z, dp, d, s, f), f, n)
    BY <1>5, LandedTwice
  <2>2. Below(s, w)
    BY <1>1, <1>5, <1>6, <2>1, InRowsIs
  <2>3. ~Below(s, Root)
    BY <1>0, BelowIs DEF Root
  <2> QED
    BY <1>8, <2>2, <2>3
<1>10. z = Root
  BY <1>7, <1>8, <1>9
<1>11. \A q, r \in Path : Shifted(q, r, f, n) = Root <=> q = Root
  BY ShiftedOnto
<1> QED
  BY <1>5, <1>10, <1>11

\* doMoveRows() of rows that do not move up within their parent.
Carried(c, sp, f, n, dp, d) ==
  [Moved([c EXCEPT ![sp].rows = @ - n], sp, f, n, dp, d) EXCEPT ![Shifted(dp, sp, f + n, -n)].rows = @ + n]

\* The client knows both parents of rows that moved (remotemodel.cpp, doMoveRows()).
LEMMA CopyMoved ==
  ASSUME NEW c, Structured(c), NEW t, Tree(t), Copies(c, t),
         NEW sp \in DOMAIN t, NEW dp \in DOMAIN t,
         NEW f \in Nat, NEW n \in Nat, NEW d \in Nat, Movable(sp, f, n, dp, d),
         NEW ks \in Nat, NEW kd \in Nat, Counted(t, sp, ks), Counted(t, dp, kd), f + n <= ks, d <= kd,
         NEW u, u = Moved(t, sp, f, n, dp, d),
         sp \in DOMAIN c, c[sp].rows >= 0, dp \in DOMAIN c, c[dp].rows >= 0,
         NEW e, e = Carried(c, sp, f, n, dp, d)
  PROVE  Structured(e) /\ Copies(e, u) /\ (Root \notin {sp, dp} => e[Root].rows = c[Root].rows)
<1>1. Closure(t) /\ Closure(c) /\ Root \in DOMAIN c /\ sp \in Path /\ dp \in Path /\ Root \in Path
  BY DEF Tree, Structured, Closure
<1>2. c[sp].rows = ks /\ Counted(c, sp, ks)
  BY KnownRows
<1>3. c[dp].rows = kd /\ Counted(c, dp, kd)
  BY KnownRows
<1>4. PICK s \in Path : s = Shifted(sp, dp, d, n)
  BY <1>1, OriginOfParents
<1>5. PICK into \in Path : into = Shifted(dp, sp, f + n, -n)
  BY <1>1, OriginOfParents
<1>6. ASSUME NEW y \in Path
      PROVE  /\ Origin(y, sp, f, n, dp, d) = sp <=> y = s
             /\ Origin(y, sp, f, n, dp, d) = dp <=> y = into
  <2>1. Origin(y, sp, f, n, dp, d) = sp <=> y = s
    BY <1>1, <1>4, OriginOfParents
  <2>2. Origin(y, sp, f, n, dp, d) = dp <=> y = into
    BY <1>1, <1>5, OriginOfParents
  <2> QED
    BY <2>1, <2>2
<1>7. PICK c0 : c0 = [c EXCEPT ![sp].rows = @ - n]
  OBVIOUS
<1>8. Resized(c0, c, sp, ks - n)
  <2> PICK m \in Int : m = ks - n
    OBVIOUS
  <2>1. c[sp] \in Node
    BY DEF Structured
  <2>2. Resized([c EXCEPT ![sp].rows = m], c, sp, m)
    BY <2>1, ResizedIs
  <2>3. c0 = [c EXCEPT ![sp].rows = c[sp].rows - n]
    BY <1>7
  <2> QED
    BY <1>2, <2>2, <2>3
<1>9. /\ Closure(c0) /\ DOMAIN c0 = DOMAIN c /\ sp \in DOMAIN c0 /\ dp \in DOMAIN c0
      /\ Counted(c0, sp, ks) /\ Counted(c0, dp, kd)
  BY <1>1, <1>2, <1>3, <1>8 DEF Resized
<1>10. PICK x : x = Moved(c0, sp, f, n, dp, d)
  OBVIOUS
<1>11. Closure(x) /\ Root \in DOMAIN x
  BY <1>1, <1>9, <1>10, MovedShape
<1>12. ASSUME NEW y \in Path, NEW b, b = Origin(y, sp, f, n, dp, d)
       PROVE  /\ y \in DOMAIN x <=> b \in DOMAIN c
              /\ y \in DOMAIN x => x[y] = c0[b]
              /\ b \notin {sp, dp} => AsMany(c0, b, x, y)
  <2>1. y \in DOMAIN x <=> b \in DOMAIN c
    BY <1>1, <1>9, <1>10, <1>12, MovedShape
  <2>2. y \in DOMAIN x => x[y] = c0[b]
    BY <1>1, <1>9, <1>10, <1>12, MovedShape
  <2>3. b \notin {sp, dp} => AsMany(c0, b, x, y)
    BY <1>1, <1>9, <1>10, <1>12, MovedShape
  <2> QED
    BY <2>1, <2>2, <2>3
<1>13. /\ sp # dp => Counted(x, s, ks - n) /\ Counted(x, into, kd + n)
       /\ sp = dp => Counted(x, into, ks)
  <2>1. sp # dp => Counted(x, s, ks - n)
    BY <1>1, <1>6, <1>9, <1>10, MovedShape
  <2>2. sp # dp => Counted(x, into, kd + n)
    BY <1>1, <1>6, <1>9, <1>10, MovedShape
  <2>3. sp = dp => Counted(x, into, ks)
    BY <1>1, <1>6, <1>9, <1>10, MovedShape
  <2> QED
    BY <2>1, <2>2, <2>3
<1>14. ASSUME NEW y \in Path, NEW b, b = Origin(y, sp, f, n, dp, d)
       PROVE  /\ y \in DOMAIN u <=> b \in DOMAIN t
              /\ y \in DOMAIN u => u[y] = t[b]
              /\ b \notin {sp, dp} => AsMany(t, b, u, y)
  <2>1. y \in DOMAIN u <=> b \in DOMAIN t
    <3>1. y \in DOMAIN u <=> Origin(y, sp, f, n, dp, d) \in DOMAIN t
      BY <1>1, MovedShape
    <3> QED
      BY <1>14, <3>1
  <2>2. y \in DOMAIN u => u[y] = t[b]
    <3>1. y \in DOMAIN u => u[y] = t[Origin(y, sp, f, n, dp, d)]
      BY <1>1, MovedShape
    <3> QED
      BY <1>14, <3>1
  <2>3. b \notin {sp, dp} => AsMany(t, b, u, y)
    <3>1. Origin(y, sp, f, n, dp, d) \notin {sp, dp} => AsMany(t, Origin(y, sp, f, n, dp, d), u, y)
      BY <1>1, MovedShape
    <3> QED
      BY <1>14, <3>1
  <2> QED
    BY <2>1, <2>2, <2>3
<1>15. /\ sp # dp => Counted(u, s, ks - n) /\ Counted(u, into, kd + n)
       /\ sp = dp => Counted(u, into, ks)
  <2>1. sp # dp => Counted(u, s, ks - n)
    BY <1>1, <1>6, MovedShape
  <2>2. sp # dp => Counted(u, into, kd + n)
    BY <1>1, <1>6, MovedShape
  <2>3. sp = dp => Counted(u, into, ks)
    BY <1>1, <1>6, MovedShape
  <2> QED
    BY <2>1, <2>2, <2>3
<1>16. s \in DOMAIN x /\ into \in DOMAIN x /\ x[s] = c0[sp] /\ x[into] = c0[dp]
  <2>1. s \in DOMAIN x /\ x[s] = c0[sp]
    BY <1>6, <1>12
  <2>2. into \in DOMAIN x /\ x[into] = c0[dp]
    BY <1>6, <1>12
  <2> QED
    BY <2>1, <2>2
<1>17. PICK m \in Int : m = x[into].rows + n /\ m = IF sp = dp THEN ks ELSE kd + n
  <2>1. c0[dp].rows = IF sp = dp THEN ks - n ELSE kd
    BY <1>3, <1>8 DEF Resized
  <2> QED
    BY <1>16, <2>1
<1>18. x[into] \in Node
  BY <1>8, <1>16 DEF Resized, Structured
<1>19. Resized(e, x, into, m)
  <2>1. Resized([x EXCEPT ![into].rows = m], x, into, m)
    BY <1>16, <1>18, ResizedIs
  <2>2. e = [x EXCEPT ![into].rows = x[into].rows + n]
    BY <1>5, <1>7, <1>10 DEF Carried
  <2> QED
    BY <1>17, <2>1, <2>2
<1>20. Counted(e, into, e[into].rows) /\ e[into] \in Node
  BY <1>13, <1>17, <1>19 DEF Resized
<1>21. s # into <=> sp # dp
  <2>1. Origin(s, sp, f, n, dp, d) = sp /\ Origin(into, sp, f, n, dp, d) = dp
    BY <1>6
  <2>2. sp = dp => s = into
    BY <1>6, <2>1
  <2> QED
    BY <2>1, <2>2
<1>22. s # into => e[s] = c0[sp] /\ e[s].rows = ks - n /\ Counted(e, s, e[s].rows) /\ e[s] \in Node
  BY <1>8, <1>13, <1>16, <1>19, <1>21 DEF Resized
<1>23. ASSUME NEW q \in DOMAIN e, q # into, q # s, NEW b, b = Origin(q, sp, f, n, dp, d)
       PROVE  b \in DOMAIN c /\ b # sp /\ b # dp /\ e[q] = c[b] /\ AsMany(c, b, e, q) /\ q \in Path
  <2>1. q \in DOMAIN x /\ q \in Path /\ e[q] = x[q]
    BY <1>11, <1>19, <1>23 DEF Resized, Closure
  <2>2. b # sp /\ b # dp
    BY <1>6, <1>23, <2>1
  <2>3. b \in DOMAIN c /\ x[q] = c0[b] /\ AsMany(c0, b, x, q)
    BY <1>12, <1>23, <2>1, <2>2
  <2>4. c0[b] = c[b]
    BY <1>8, <2>2, <2>3 DEF Resized
  <2>5. AsMany(c, b, e, q)
    BY <1>8, <1>19, <2>3 DEF AsMany, Resized
  <2> QED
    BY <2>1, <2>2, <2>3, <2>4, <2>5
<1>24. ASSUME NEW q \in DOMAIN e
       PROVE  e[q] \in Node /\ Counted(e, q, e[q].rows)
  <2>1. CASE q = into
    BY <1>20, <2>1
  <2>2. CASE q # into /\ q = s
    BY <1>22, <2>2
  <2>3. CASE q # into /\ q # s
    <3>1. PICK b : b = Origin(q, sp, f, n, dp, d)
      OBVIOUS
    <3>2. b \in DOMAIN c /\ e[q] = c[b] /\ AsMany(c, b, e, q)
      BY <1>23, <2>3, <3>1
    <3>3. e[q] \in Node /\ Counted(c, b, e[q].rows) /\ e[q].rows \in Int
      BY <3>2 DEF Structured, Node
    <3> QED
      BY <3>2, <3>3 DEF AsMany
  <2> QED
    BY <2>1, <2>2, <2>3
<1>25. Structured(e)
  BY <1>11, <1>19, <1>24 DEF Structured, Resized
<1>26. ASSUME NEW q \in DOMAIN e
       PROVE  \E b : Traced(c, t, e, u, q, b)
  <2>1. q \in Path
    BY <1>11, <1>19 DEF Resized, Closure
  <2>2. PICK b : b = Origin(q, sp, f, n, dp, d)
    OBVIOUS
  <2>3. (b = Root => q = Root) /\ (b \in DOMAIN t => q \in DOMAIN u /\ u[q] = t[b])
    BY <1>1, <1>14, <2>1, <2>2, OriginRoot
  <2>4. CASE q = into
    <3>1. b = dp
      BY <1>6, <2>2, <2>4
    <3>2. e[q].value = c[dp].value /\ e[q].outdated = c[dp].outdated
      BY <1>8, <1>16, <1>19, <2>4 DEF Resized
    <3>3. Counted(u, q, e[q].rows)
      BY <1>15, <1>17, <1>19, <2>4 DEF Resized
    <3> QED
      BY <2>3, <3>1, <3>2, <3>3 DEF Traced
  <2>5. CASE q # into /\ q = s
    <3>1. b = sp
      BY <1>6, <2>2, <2>5
    <3>2. e[q].value = c[sp].value /\ e[q].outdated = c[sp].outdated
      BY <1>8, <1>22, <2>5 DEF Resized
    <3>3. Counted(u, q, e[q].rows)
      BY <1>15, <1>21, <1>22, <2>5
    <3> QED
      BY <2>3, <3>1, <3>2, <3>3 DEF Traced
  <2>6. CASE q # into /\ q # s
    <3>1. b \in DOMAIN c /\ b # sp /\ b # dp /\ e[q] = c[b]
      BY <1>23, <2>2, <2>6
    <3>2. AsMany(t, b, u, q)
      BY <1>14, <2>1, <2>2, <3>1
    <3>3. c[b].rows \in Int
      BY <3>1 DEF Structured, Node
    <3>4. c[b].rows >= 0 => (Counted(t, b, c[b].rows) => Counted(u, q, c[b].rows))
      BY <3>2, <3>3 DEF AsMany
    <3> QED
      BY <2>3, <3>1, <3>4 DEF Traced
  <2> QED
    BY <2>4, <2>5, <2>6
<1>27. Copies(e, u)
  BY <1>26, CopyStep
<1>28. Root \notin {sp, dp} => e[Root].rows = c[Root].rows
  <2> SUFFICES ASSUME Root # sp, Root # dp PROVE e[Root].rows = c[Root].rows
    OBVIOUS
  <2>1. Origin(Root, sp, f, n, dp, d) = Root
    BY <1>1, OriginOfParents
  <2>2. Root # into /\ Root # s
    BY <1>1, <1>6, <2>1
  <2>3. Root \in DOMAIN e
    BY <1>11, <1>19 DEF Resized
  <2>4. e[Root] = c[Root]
    BY <1>23, <2>1, <2>2, <2>3
  <2> QED
    BY <2>4
<1> QED
  BY <1>25, <1>27, <1>28

-----------------------------------------------------------------------------
(***************************************************************************)
(* Changes below what a client does not know.                              *)
(***************************************************************************)

\* The client c knows the rows of p.
Knows(c, p) == p \in DOMAIN c /\ c[p].rows >= 0

\* It has nothing below p otherwise.
LEMMA NothingKnown ==
  ASSUME NEW c, Structured(c), NEW p \in Path, ~Knows(c, p)
  PROVE  /\ \A q \in DOMAIN c : q \in Path /\ ~Below(p, q) /\ (q = p => ~(c[q].rows >= 0))
         /\ \A f, n : \A q \in DOMAIN c : Shifted(q, p, f, n) = q
         /\ \A f, n : \A q \in DOMAIN c : ~InRows(p, q, f, n)
<1>1. p \notin DOMAIN c \/ c[p].rows < 0
  BY DEF Knows, Structured, Node
<1>2. \A q \in DOMAIN c : q \in Path /\ ~Below(p, q) /\ (q = p => ~(c[q].rows >= 0))
  BY <1>1, NothingBelow DEF Structured, Closure, Knows
<1> QED
  BY <1>2 DEF Shifted, InRows

\* Rows went that the client never counted.
LEMMA UnheardRemoved ==
  ASSUME NEW c, Structured(c), NEW t, Tree(t), Copies(c, t), NEW p \in DOMAIN t, ~Knows(c, p),
         NEW f \in Nat, NEW n \in Nat, NEW u, u = Closed(t, p, f, n)
  PROVE  Copies(c, u)
<1>1. Closure(t) /\ p \in Path /\ DOMAIN t \subseteq Path
  BY DEF Tree, Closure
<1>2. ASSUME NEW q \in DOMAIN c, q \in DOMAIN t
      PROVE  /\ q \in DOMAIN u /\ u[q].value = t[q].value
             /\ c[q].rows >= 0 => (Counted(t, q, c[q].rows) => Counted(u, q, c[q].rows))
  <2>1. q \in Path /\ Shifted(q, p, f, n) = q /\ (q = p => ~(c[q].rows >= 0)) /\ c[q].rows \in Int
    BY <1>1, NothingKnown DEF Structured, Node
  <2>2. q \in DOMAIN u
    BY <1>1, <1>2, <2>1, ClosedIs
  <2>3. u[q] = t[q]
    BY <1>1, <2>1, <2>2, ClosedIs
  <2>4. q # p => AsMany(t, q, u, q)
    BY <1>1, <2>1, <2>2, ClosedShape
  <2> QED
    BY <2>1, <2>2, <2>3, <2>4 DEF AsMany
<1> QED
  BY <1>2, CopyUnheard

\* Rows came below what the client never counted.
LEMMA UnheardInserted ==
  ASSUME NEW c, Structured(c), NEW t, Tree(t), Copies(c, t), NEW p \in DOMAIN t, ~Knows(c, p),
         NEW f \in Nat, NEW n \in Nat, NEW new, NEW u, u = Inserted(t, p, f, n, new)
  PROVE  Copies(c, u)
<1>1. Closure(t) /\ p \in Path /\ DOMAIN t \subseteq Path
  BY DEF Tree, Closure
<1>2. ASSUME NEW q \in DOMAIN c, q \in DOMAIN t
      PROVE  /\ q \in DOMAIN u /\ u[q].value = t[q].value
             /\ c[q].rows >= 0 => (Counted(t, q, c[q].rows) => Counted(u, q, c[q].rows))
  <2>1. q \in Path /\ (q = p => ~(c[q].rows >= 0)) /\ c[q].rows \in Int
    BY <1>1, NothingKnown DEF Structured, Node
  <2>2. Shifted(q, p, f + n, -n) = q /\ ~InRows(p, q, f, n)
    BY <1>1, NothingKnown
  <2>3. q \in DOMAIN u /\ u[q] = t[q]
    BY <1>1, <1>2, <2>1, <2>2, InsertedKeeps
  <2>4. q # p => AsMany(t, q, u, q)
    BY <1>1, <1>2, <2>1, <2>2, InsertedKeeps
  <2> QED
    BY <2>1, <2>3, <2>4 DEF AsMany
<1> QED
  BY <1>2, CopyUnheard

\* Rows moved between parents the client knows nothing of.
LEMMA UnheardMoved ==
  ASSUME NEW c, Structured(c), NEW t, Tree(t), Copies(c, t),
         NEW sp \in DOMAIN t, NEW dp \in DOMAIN t, ~Knows(c, sp), ~Knows(c, dp),
         NEW f \in Nat, NEW n \in Nat, NEW d \in Nat, Movable(sp, f, n, dp, d),
         NEW ks \in Nat, NEW kd \in Nat, Counted(t, sp, ks), Counted(t, dp, kd), f + n <= ks, d <= kd,
         NEW u, u = Moved(t, sp, f, n, dp, d)
  PROVE  Copies(c, u)
<1>1. Closure(t) /\ sp \in Path /\ dp \in Path /\ DOMAIN t \subseteq Path
  BY DEF Tree, Closure
<1>2. ASSUME NEW q \in DOMAIN c, q \in DOMAIN t
      PROVE  /\ q \in DOMAIN u /\ u[q].value = t[q].value
             /\ c[q].rows >= 0 => (Counted(t, q, c[q].rows) => Counted(u, q, c[q].rows))
  <2>1. q \in Path /\ (q = sp => ~(c[q].rows >= 0)) /\ ~Below(sp, q) /\ c[q].rows \in Int
    BY <1>1, NothingKnown DEF Structured, Node
  <2>2. (q = dp => ~(c[q].rows >= 0)) /\ ~Below(dp, q)
    BY <1>1, NothingKnown
  <2>3. PICK s \in Path : s = Shifted(sp, dp, d, n)
    BY <1>1, SourceIs
  <2>4. s # sp => Below(dp, s)
    BY <1>1, <2>3, SourceIs
  <2>5. ~Below(s, q)
    BY <1>1, <2>1, <2>2, <2>3, <2>4, BelowBelow
  <2>6. Entered(q, sp, f, n, dp, d) = q
    BY <2>3, <2>5 DEF Entered, Shifted
  <2>7. Left(q, sp, f, n, dp, d) = q
    BY <2>2 DEF Left, InRows
  <2>8. Origin(q, sp, f, n, dp, d) = q
    BY <2>2, <2>6, <2>7 DEF Origin, Shifted
  <2>9. q \in DOMAIN u
    BY <1>1, <1>2, <2>1, <2>8, MovedIs
  <2>10. u[q] = t[q]
    <3>1. u[q] = t[Origin(q, sp, f, n, dp, d)]
      BY <1>1, <2>9, MovedShape
    <3> QED
      BY <2>8, <3>1
  <2>11. q # sp /\ q # dp => AsMany(t, q, u, q)
    BY <1>1, <2>1, <2>8, MovedShape
  <2> QED
    BY <2>1, <2>2, <2>9, <2>10, <2>11 DEF AsMany
<1> QED
  BY <1>2, CopyUnheard

\* Rows move where the client does not know the rows.
LEMMA CopyMovedOut ==
  ASSUME NEW c, Structured(c), NEW t, Tree(t), Copies(c, t),
         NEW sp \in DOMAIN t, NEW dp \in DOMAIN t, Knows(c, sp), ~Knows(c, dp),
         NEW f \in Nat, NEW n \in Nat, NEW d \in Nat, Movable(sp, f, n, dp, d),
         NEW ks \in Nat, NEW kd \in Nat, Counted(t, sp, ks), Counted(t, dp, kd), f + n <= ks, d <= kd,
         NEW u, u = Moved(t, sp, f, n, dp, d),
         NEW e, e = Shrunk(c, sp, f, n)
  PROVE  Copies(e, u)
<1>1. Closure(t) /\ Closure(c) /\ sp \in Path /\ dp \in Path /\ DOMAIN t \subseteq Path
  BY DEF Tree, Structured, Closure
<1>2. sp \in DOMAIN c /\ c[sp].rows = ks /\ Counted(c, sp, ks) /\ sp # dp
  BY KnownRows DEF Knows
<1>3. PICK x : x = Closed(c, sp, f, n)
  OBVIOUS
<1>4. Closure(x) /\ sp \in DOMAIN x
  BY <1>1, <1>2, <1>3, ClosedShape
<1>5. \A y \in DOMAIN x : Shifted(y, sp, f, n) \in DOMAIN c /\ x[y] = c[Shifted(y, sp, f, n)]
  BY <1>1, <1>2, <1>3, ClosedShape
<1>6. Shifted(sp, dp, d, n) = sp
  BY <1>1, <1>2, NothingKnown
<1>7. ASSUME NEW q \in DOMAIN x, NEW b, b = Shifted(q, sp, f, n)
      PROVE  /\ q \in Path /\ b \in DOMAIN c /\ x[q] = c[b] /\ Origin(q, sp, f, n, dp, d) = b
             /\ b \in Path /\ (b = dp => ~(c[b].rows >= 0)) /\ (b = sp <=> q = sp)
  <2>1. q \in Path /\ b \in DOMAIN c /\ x[q] = c[b]
    BY <1>4, <1>5, <1>7 DEF Closure
  <2>2. b \in Path /\ ~Below(dp, b) /\ (b = dp => ~(c[b].rows >= 0))
    BY <1>1, <2>1, NothingKnown
  <2>3. Entered(q, sp, f, n, dp, d) = b
    BY <1>6, <1>7 DEF Entered
  <2>4. Left(b, sp, f, n, dp, d) = b
    BY <2>2 DEF Left, InRows
  <2>5. Origin(q, sp, f, n, dp, d) = b
    BY <2>2, <2>3, <2>4 DEF Origin, Shifted
  <2>6. b = sp <=> q = sp
    <3>1. Shifted(q, sp, f, n) = sp <=> q = sp
      BY <1>1, <2>1, ShiftedTo
    <3> QED
      BY <1>7, <3>1
  <2> QED
    BY <2>1, <2>2, <2>5, <2>6
<1>8. x[sp] = c[sp] /\ c[sp] \in Node
  <2> PICK b : b = Shifted(sp, sp, f, n)
    OBVIOUS
  <2> QED
    BY <1>4, <1>7 DEF Structured
<1>9. Resized(e, x, sp, ks - n)
  <2> PICK m \in Int : m = ks - n
    OBVIOUS
  <2>1. Resized([x EXCEPT ![sp].rows = m], x, sp, m)
    BY <1>4, <1>8, ResizedIs
  <2>2. e = [x EXCEPT ![sp].rows = x[sp].rows - n]
    BY <1>3 DEF Shrunk
  <2> QED
    BY <1>2, <1>8, <2>1, <2>2
<1>10. ASSUME NEW q \in DOMAIN e
       PROVE  \E b : Traced(c, t, e, u, q, b)
  <2>1. q \in DOMAIN x
    BY <1>9 DEF Resized
  <2>2. PICK b : b = Shifted(q, sp, f, n)
    OBVIOUS
  <2>3. /\ q \in Path /\ b \in DOMAIN c /\ x[q] = c[b] /\ Origin(q, sp, f, n, dp, d) = b
        /\ b \in Path /\ (b = dp => ~(c[b].rows >= 0)) /\ (b = sp <=> q = sp)
    BY <1>7, <2>1, <2>2
  <2>4. b = Root => q = Root
    BY <1>1, <2>3, OriginRoot
  <2>5. b \in DOMAIN t => q \in DOMAIN u
    <3>1. q \in DOMAIN u <=> Origin(q, sp, f, n, dp, d) \in DOMAIN t
      BY <1>1, <2>3, MovedShape
    <3> QED
      BY <2>3, <3>1
  <2>6. q \in DOMAIN u => u[q] = t[b]
    <3>1. q \in DOMAIN u => u[q] = t[Origin(q, sp, f, n, dp, d)]
      BY <1>1, <2>3, MovedShape
    <3> QED
      BY <2>3, <3>1
  <2>7. CASE q = sp
    <3>1. Counted(u, q, ks - n)
      BY <1>1, <1>2, <2>3, <2>7, MovedShape
    <3>2. e[q].value = c[b].value /\ e[q].outdated = c[b].outdated /\ e[q].rows = ks - n
      BY <1>8, <1>9, <2>3, <2>7 DEF Resized
    <3>3. c[b].rows >= 0
      BY <2>3, <2>7 DEF Knows
    <3> QED
      BY <2>3, <2>4, <2>5, <2>6, <3>1, <3>2, <3>3 DEF Traced
  <2>8. CASE q # sp
    <3>1. e[q] = c[b]
      BY <1>9, <2>1, <2>3, <2>8 DEF Resized
    <3>2. b # dp => AsMany(t, b, u, q)
      BY <1>1, <2>3, <2>8, MovedShape
    <3>3. c[b].rows \in Int
      BY <2>3 DEF Structured, Node
    <3>4. c[b].rows >= 0 => (Counted(t, b, c[b].rows) => Counted(u, q, c[b].rows))
      BY <2>3, <3>2, <3>3 DEF AsMany
    <3> QED
      BY <2>3, <2>4, <2>5, <2>6, <3>1, <3>4 DEF Traced
  <2> QED
    BY <2>7, <2>8
<1> QED
  BY <1>10, CopyStep

\* A shift before a branch, or in it, leaves it a branch.
LEMMA ShiftedBelow ==
  ASSUME NEW s \in Path, NEW q \in Path, Below(s, q), NEW p \in Path, s # p, NEW f \in Nat, NEW n \in Nat
  PROVE  Below(Shifted(s, p, f + n, -n), Shifted(q, p, f + n, -n))
<1>0. PICK g \in Nat : g = f + n
  OBVIOUS
<1>1. PICK m \in Int : m = -n
  OBVIOUS
<1>2. Shiftable(s, p, g, m) /\ Shiftable(q, p, g, m)
  BY <1>0, <1>1, ShiftDown
<1>3. PICK a : a = Shifted(s, p, g, m)
  OBVIOUS
<1>4. PICK b : b = Shifted(q, p, g, m)
  OBVIOUS
<1>5. /\ a \in Path /\ Len(a) = Len(s)
      /\ ~(Below(p, s) /\ Row(p, s) >= g) => a = s
      /\ Below(p, s) => Row(p, a) = Offset(Row(p, s), g, m)
      /\ \A k \in 1..Len(s) : k # Len(p) + 1 => a[k] = s[k]
  BY <1>2, <1>3, ShiftedIs
<1>6. /\ b \in Path /\ Len(b) = Len(q)
      /\ ~(Below(p, q) /\ Row(p, q) >= g) => b = q
      /\ Below(p, q) => Row(p, b) = Offset(Row(p, q), g, m)
      /\ \A k \in 1..Len(q) : k # Len(p) + 1 => b[k] = q[k]
  BY <1>2, <1>4, ShiftedIs
<1>7. Len(s) \in Nat /\ Len(q) \in Nat /\ Len(p) \in Nat /\ Len(q) > Len(s) /\ \A k \in 1..Len(s) : q[k] = s[k]
  BY BelowIs
<1>8. CASE Below(p, s)
  <2>1. Below(p, q) /\ Row(p, q) = Row(p, s)
    BY <1>8, BelowBelow
  <2>2. b[Len(p) + 1] = a[Len(p) + 1]
    BY <1>5, <1>6, <1>8, <2>1 DEF Row
  <2>3. \A k \in 1..Len(s) : b[k] = a[k]
    BY <1>5, <1>6, <1>7, <2>2
  <2> QED
    BY <1>0, <1>1, <1>3, <1>4, <1>5, <1>6, <1>7, <2>3, BelowIs
<1>9. CASE ~Below(p, s)
  <2>1. a = s
    BY <1>5, <1>9
  <2>2. Below(p, q) => Below(s, p)
    BY <1>9, BelowBoth
  <2>3. Below(p, q) => Len(p) > Len(s)
    BY <2>2, BelowIs
  <2>4. \A k \in 1..Len(s) : b[k] = q[k]
    BY <1>6, <1>7, <2>3
  <2> QED
    BY <1>0, <1>1, <1>3, <1>4, <1>5, <1>6, <1>7, <2>1, <2>4, BelowIs
<1> QED
  BY <1>8, <1>9

\* Rows came from where the client knows none: for it they are new (remotemodel.cpp, newMessage()).
LEMMA CopyMovedIn ==
  ASSUME NEW c, Structured(c), NEW t, Tree(t), Copies(c, t),
         NEW sp \in DOMAIN t, NEW dp \in DOMAIN t, ~Knows(c, sp), Knows(c, dp),
         NEW f \in Nat, NEW n \in Nat, NEW d \in Nat, Movable(sp, f, n, dp, d),
         NEW ks \in Nat, NEW kd \in Nat, Counted(t, sp, ks), Counted(t, dp, kd), f + n <= ks, d <= kd,
         NEW u, u = Moved(t, sp, f, n, dp, d),
         NEW e, e = Grown(c, dp, d, n)
  PROVE  Copies(e, u)
<1>1. /\ Closure(t) /\ Closure(c) /\ sp \in Path /\ dp \in Path /\ DOMAIN t \subseteq Path
      /\ Root \in DOMAIN c
  BY DEF Tree, Structured, Closure
<1>2. dp \in DOMAIN c /\ c[dp].rows = kd /\ Counted(c, dp, kd) /\ sp # dp
  BY KnownRows DEF Knows
<1>3. PICK x : x = Inserted(c, dp, d, n, [i \in 1..n |-> NewNode])
  OBVIOUS
<1>4. Closure(x) /\ dp \in DOMAIN x
  BY <1>1, <1>2, <1>3, NodesInserted
<1>5. PICK s \in Path : s = Shifted(sp, dp, d, n)
  BY <1>1, SourceIs
<1>6. Shifted(s, dp, d + n, -n) = sp /\ s # dp
  BY <1>1, <1>2, <1>5, SourceIs
<1>7. ASSUME NEW q \in DOMAIN x, New(q, dp, d, n)
      PROVE  x[q] = NewNode /\ q # dp
  BY <1>1, <1>2, <1>3, <1>7, NodesInserted
<1>8. ASSUME NEW q \in DOMAIN x, ~New(q, dp, d, n), NEW b, b = Shifted(q, dp, d + n, -n)
      PROVE  /\ q \in Path /\ b \in DOMAIN c /\ x[q] = c[b] /\ Origin(q, sp, f, n, dp, d) = b
             /\ b \in Path /\ (b = sp => ~(c[b].rows >= 0)) /\ (b = dp <=> q = dp)
  <2>1. NodeStays(x, c, q, Shifted(q, dp, d + n, -n), dp, d, n)
    BY <1>1, <1>2, <1>3, <1>8, NodesInserted
  <2>2. b \in DOMAIN c /\ x[q] = c[b] /\ ~InRows(dp, q, d, n) /\ (b = dp <=> q = dp) /\ q \in Path
    BY <1>4, <1>8, <2>1 DEF NodeStays, Closure
  <2>3. b \in Path /\ ~Below(sp, b) /\ (b = sp => ~(c[b].rows >= 0))
    BY <1>1, <2>2, NothingKnown
  <2>4. ~Below(s, q)
    BY <1>1, <1>6, <1>8, <2>2, <2>3, ShiftedBelow
  <2>5. Entered(q, sp, f, n, dp, d) = q
    BY <1>5, <2>4 DEF Entered, Shifted
  <2>6. Left(q, sp, f, n, dp, d) = q
    BY <2>2 DEF Left
  <2>7. Origin(q, sp, f, n, dp, d) = b
    BY <1>8, <2>5, <2>6 DEF Origin
  <2> QED
    BY <2>2, <2>3, <2>7
<1>9. ~New(dp, dp, d, n)
  BY <1>4, <1>7
<1>10. x[dp] = c[dp] /\ c[dp] \in Node
  <2> PICK b : b = Shifted(dp, dp, d + n, -n)
    OBVIOUS
  <2> QED
    BY <1>4, <1>8, <1>9 DEF Structured
<1>11. Resized(e, x, dp, kd + n)
  <2> PICK m \in Int : m = kd + n
    OBVIOUS
  <2>1. Resized([x EXCEPT ![dp].rows = m], x, dp, m)
    BY <1>4, <1>10, ResizedIs
  <2>2. e = [x EXCEPT ![dp].rows = x[dp].rows + n]
    BY <1>3 DEF Grown
  <2> QED
    BY <1>2, <1>10, <2>1, <2>2
<1>12. ASSUME NEW q \in DOMAIN e
       PROVE  Blank(e[q]) \/ \E b : Traced(c, t, e, u, q, b)
  <2>1. q \in DOMAIN x
    BY <1>11 DEF Resized
  <2>2. CASE New(q, dp, d, n)
    <3>1. x[q] = NewNode /\ q # dp
      BY <1>7, <2>1, <2>2
    <3> QED
      BY <1>11, <2>1, <3>1, NewIsBlank DEF Resized
  <2>3. CASE ~New(q, dp, d, n)
    <3>1. PICK b : b = Shifted(q, dp, d + n, -n)
      OBVIOUS
    <3>2. /\ q \in Path /\ b \in DOMAIN c /\ x[q] = c[b] /\ Origin(q, sp, f, n, dp, d) = b
          /\ b \in Path /\ (b = sp => ~(c[b].rows >= 0)) /\ (b = dp <=> q = dp)
      BY <1>8, <2>1, <2>3, <3>1
    <3>3. b = Root => q = Root
      BY <1>1, <3>2, OriginRoot
    <3>4. b \in DOMAIN t => q \in DOMAIN u
      <4>1. q \in DOMAIN u <=> Origin(q, sp, f, n, dp, d) \in DOMAIN t
        BY <1>1, <3>2, MovedShape
      <4> QED
        BY <3>2, <4>1
    <3>5. q \in DOMAIN u => u[q] = t[b]
      <4>1. q \in DOMAIN u => u[q] = t[Origin(q, sp, f, n, dp, d)]
        BY <1>1, <3>2, MovedShape
      <4> QED
        BY <3>2, <4>1
    <3>6. CASE q = dp
      <4>1. Counted(u, q, kd + n)
        BY <1>1, <1>2, <3>2, <3>6, MovedShape
      <4>2. e[q].value = c[b].value /\ e[q].outdated = c[b].outdated /\ e[q].rows = kd + n
        BY <1>10, <1>11, <3>2, <3>6 DEF Resized
      <4>3. c[b].rows >= 0
        BY <3>2, <3>6 DEF Knows
      <4> QED
        BY <3>2, <3>3, <3>4, <3>5, <4>1, <4>2, <4>3 DEF Traced
    <3>7. CASE q # dp
      <4>1. e[q] = c[b]
        BY <1>11, <2>1, <3>2, <3>7 DEF Resized
      <4>2. b # sp => AsMany(t, b, u, q)
        BY <1>1, <3>2, <3>7, MovedShape
      <4>3. c[b].rows \in Int
        BY <3>2 DEF Structured, Node
      <4>4. c[b].rows >= 0 => (Counted(t, b, c[b].rows) => Counted(u, q, c[b].rows))
        BY <3>2, <4>2, <4>3 DEF AsMany
      <4> QED
        BY <3>2, <3>3, <3>4, <3>5, <4>1, <4>4 DEF Traced
    <3> QED
      BY <3>6, <3>7
  <2> QED
    BY <2>2, <2>3
<1> QED
  BY <1>12, CopyStep

-----------------------------------------------------------------------------
(***************************************************************************)
(* What else happens to a copy.                                            *)
(***************************************************************************)

\* The same nodes with other marks.
LEMMA Retouched ==
  ASSUME NEW c, Structured(c), NEW e, DOMAIN e = DOMAIN c,
         \A q \in DOMAIN c : e[q] \in Node /\ (e[q].rows = c[q].rows \/ (e[q].rows <= 0 /\ c[q].rows <= 0))
  PROVE  Structured(e)
<1>1. \A q : Idx(e, q) = Idx(c, q)
  BY DEF Idx
<1>2. \A q, k : Counted(e, q, k) <=> Counted(c, q, k)
  BY <1>1 DEF Counted
<1>3. ASSUME NEW q \in DOMAIN c
      PROVE  e[q] \in Node /\ Counted(e, q, e[q].rows)
  <2>1. e[q] \in Node /\ c[q].rows \in Int /\ e[q].rows \in Int /\ Counted(c, q, c[q].rows)
    BY DEF Structured, Node
  <2>2. CASE e[q].rows = c[q].rows
    BY <1>2, <2>1, <2>2
  <2>3. CASE e[q].rows <= 0 /\ c[q].rows <= 0
    <3>1. PICK j \in Int, k \in Int : j = e[q].rows /\ k = c[q].rows
      BY <2>1
    <3>2. Counted(c, q, j)
      BY <2>1, <2>3, <3>1, NoRows
    <3> QED
      BY <1>2, <2>1, <3>1, <3>2
  <2> QED
    BY <2>2, <2>3
<1> QED
  BY <1>1, <1>3 DEF Structured, Closure

\* A copy stays one when nodes forget, or take other marks.
LEMMA CopyRetouched ==
  ASSUME NEW c, NEW t, Copies(c, t), NEW e, DOMAIN e = DOMAIN c,
         \A q \in DOMAIN c :
           /\ e[q].rows >= 0 => e[q].rows = c[q].rows
           /\ e[q].outdated \/ (e[q].value = c[q].value /\ e[q].outdated = c[q].outdated)
  PROVE  Copies(e, t)
  BY DEF Copies

\* What resetLoadingState() makes of a node.
LEMMA LoadlessIs ==
  ASSUME NEW node \in Node
  PROVE  /\ Loadless(node) \in Node /\ Loadless(node).value = node.value
         /\ Loadless(node).outdated = node.outdated
         /\ Loadless(node).rows = node.rows \/ (Loadless(node).rows < 0 /\ node.rows < 0)
<1>1. PICK m \in Int : m = IF node.rows < 0 THEN -1 ELSE node.rows
  BY DEF Node
<1>2. Loadless(node) = [node EXCEPT !.loading = FALSE, !.rows = m]
  BY <1>1 DEF Loadless, Node, Unknown
<1>3. Loadless(node) = [rows |-> m, value |-> node.value, outdated |-> node.outdated, loading |-> FALSE]
  BY <1>2 DEF Node
<1> QED
  BY <1>1, <1>3 DEF Node

\* The count a node was asked for.
Counting(c, p, n) == [Filled(c, p, 0, n, [i \in 1..n |-> NewNode]) EXCEPT ![p].rows = n]

\* The reply to a request for a row count, RowColumnCountReply.
LEMMA CopyCounted ==
  ASSUME NEW c, Structured(c), NEW t, Copies(c, t), NEW p \in DOMAIN c, c[p].rows < 0,
         NEW n \in Int, n = -1 \/ (n \in Nat /\ p \in DOMAIN t /\ Counted(t, p, n)),
         NEW e, e = Counting(c, p, n)
  PROVE  Structured(e) /\ Copies(e, t) /\ e[Root].rows = IF p = Root THEN n ELSE c[Root].rows
<1>1. Closure(c) /\ Root \in DOMAIN c /\ p \in Path /\ c[p] \in Node /\ DOMAIN c \subseteq Path
  BY DEF Structured, Closure
<1>2. Counted(c, p, 0)
  <2>1. PICK k \in Int : k = c[p].rows
    BY <1>1 DEF Node
  <2>2. k <= 0 /\ Counted(c, p, k)
    BY <2>1 DEF Structured
  <2> QED
    BY <2>2, NoRows
<1>3. PICK x : x = Filled(c, p, 0, n, [i \in 1..n |-> NewNode])
  OBVIOUS
<1>4. e = [x EXCEPT ![p].rows = n]
  BY <1>3 DEF Counting
<1>5. CASE n = -1
  <2>1. x = [q \in DOMAIN c |-> c[q]]
    <3>1. {RowAt(p, 0 + i - 1) : i \in 1..n} = {}
      BY <1>5
    <3> QED
      BY <1>3, <3>1 DEF Filled
  <2>2. DOMAIN x = DOMAIN c /\ \A q \in DOMAIN c : x[q] = c[q]
    BY <2>1
  <2>3. Resized(e, x, p, n)
    <3>1. Resized([x EXCEPT ![p].rows = n], x, p, n)
      BY <1>1, <2>2, ResizedIs
    <3> QED
      BY <1>4, <3>1
  <2>4. DOMAIN e = DOMAIN c /\ \A q \in DOMAIN c : q # p => e[q] = c[q]
    BY <2>2, <2>3 DEF Resized
  <2>5. e[p] \in Node /\ e[p].rows = n /\ e[p].value = c[p].value /\ e[p].outdated = c[p].outdated
    BY <2>2, <2>3 DEF Resized
  <2>6. Structured(e)
    <3>1. ASSUME NEW q \in DOMAIN c
          PROVE  e[q] \in Node /\ (e[q].rows = c[q].rows \/ (e[q].rows <= 0 /\ c[q].rows <= 0))
      BY <1>1, <1>5, <2>4, <2>5 DEF Structured, Node
    <3> QED
      BY <2>4, <3>1, Retouched
  <2>7. Copies(e, t)
    <3>1. ASSUME NEW q \in DOMAIN c
          PROVE  /\ e[q].rows >= 0 => e[q].rows = c[q].rows
                 /\ e[q].outdated \/ (e[q].value = c[q].value /\ e[q].outdated = c[q].outdated)
      BY <1>5, <2>4, <2>5
    <3> QED
      BY <2>4, <3>1, CopyRetouched
  <2> QED
    BY <1>1, <2>4, <2>5, <2>6, <2>7
<1>6. CASE n # -1
  <2>1. n \in Nat /\ p \in DOMAIN t /\ Counted(t, p, n)
    BY <1>6
  <2>2. PICK new0 : new0 = [i \in 1..n |-> NewNode]
    OBVIOUS
  <2>3. x = Filled(c, p, 0, n, new0)
    BY <1>3, <2>2
  <2>4. Closure(x) /\ Counted(x, p, n) /\ DOMAIN c \subseteq DOMAIN x
    BY <1>1, <1>2, <2>1, <2>3, FilledShape
  <2>5. ASSUME NEW q \in DOMAIN x, ~New(q, p, 0, n)
        PROVE  q \in DOMAIN c /\ x[q] = c[q] /\ (q # p => AsMany(c, q, x, q))
    <3>1. q \in DOMAIN c
      BY <1>1, <1>2, <2>1, <2>3, <2>5, FilledShape
    <3>2. x[q] = c[q]
      BY <1>1, <1>2, <2>1, <2>3, <3>1, FilledShape
    <3>3. q # p => AsMany(c, q, x, q)
      BY <1>1, <1>2, <2>1, <2>3, <3>1, FilledShape
    <3> QED
      BY <3>1, <3>2, <3>3
  <2>6. ASSUME NEW q \in DOMAIN x, New(q, p, 0, n)
        PROVE  x[q] = NewNode /\ Counted(x, q, -1) /\ q \notin DOMAIN c
    <3>1. PICK i \in Nat : i < n /\ q = RowAt(p, i)
      BY <2>1, <2>6 DEF New
    <3>2. x[RowAt(p, i)] = new0[i + 1] /\ Counted(x, RowAt(p, i), 0)
      BY <1>1, <1>2, <2>1, <2>3, <3>1, FilledShape
    <3>3. new0[i + 1] = NewNode
      BY <2>1, <2>2, <3>1
    <3>4. q \notin DOMAIN c
      BY <1>1, <1>2, <2>1, <2>3, <2>6, FilledShape
    <3>5. PICK m \in Int : m = -1 /\ m <= 0
      OBVIOUS
    <3>6. Counted(x, q, m)
      BY <3>1, <3>2, <3>5, NoRows
    <3> QED
      BY <3>1, <3>2, <3>3, <3>4, <3>5, <3>6
  <2>7. ~New(p, p, 0, n) /\ ~New(Root, p, 0, n)
    BY <1>1, <2>4, <2>6
  <2>8. x[p] = c[p] /\ x[p] \in Node
    BY <1>1, <2>4, <2>5, <2>7
  <2>9. Resized(e, x, p, n)
    <3>1. Resized([x EXCEPT ![p].rows = n], x, p, n)
      BY <2>4, <2>8, ResizedIs
    <3> QED
      BY <1>4, <3>1
  <2>10. ASSUME NEW q \in DOMAIN e
         PROVE  e[q] \in Node /\ Counted(e, q, e[q].rows)
    <3>0. q \in DOMAIN x
      BY <2>9 DEF Resized
    <3>1. CASE q = p
      BY <2>4, <2>9, <3>1 DEF Resized
    <3>2. CASE New(q, p, 0, n)
      <4>1. x[q] = NewNode /\ Counted(x, q, -1) /\ q # p
        BY <1>1, <2>6, <3>0, <3>2
      <4> QED
        BY <2>9, <3>0, <4>1, NewIsBlank DEF Resized
    <3>3. CASE q # p /\ ~New(q, p, 0, n)
      <4>1. q \in DOMAIN c /\ e[q] = c[q] /\ AsMany(c, q, x, q)
        BY <2>5, <2>9, <3>0, <3>3 DEF Resized
      <4>2. e[q] \in Node /\ Counted(c, q, e[q].rows) /\ e[q].rows \in Int
        BY <4>1 DEF Structured, Node
      <4> QED
        BY <2>9, <4>1, <4>2 DEF AsMany, Resized
    <3> QED
      BY <3>1, <3>2, <3>3
  <2>11. Structured(e)
    BY <1>1, <2>4, <2>9, <2>10 DEF Structured, Resized
  <2>12. ASSUME NEW q \in DOMAIN e
         PROVE  /\ e[q].rows >= 0 => q \in DOMAIN t /\ Counted(t, q, e[q].rows)
                /\ ~e[q].outdated /\ q # Root => q \in DOMAIN t /\ e[q].value = t[q].value
    <3>0. q \in DOMAIN x
      BY <2>9 DEF Resized
    <3>1. CASE q = p
      BY <2>1, <2>8, <2>9, <3>1 DEF Resized, Copies
    <3>2. CASE New(q, p, 0, n)
      <4>1. e[q] = NewNode
        BY <1>1, <2>6, <2>9, <3>0, <3>2 DEF Resized
      <4> QED
        BY <4>1, NewIsBlank DEF Blank
    <3>3. CASE q # p /\ ~New(q, p, 0, n)
      <4>1. q \in DOMAIN c /\ e[q] = c[q]
        BY <2>5, <2>9, <3>0, <3>3 DEF Resized
      <4> QED
        BY <4>1 DEF Copies
    <3> QED
      BY <3>1, <3>2, <3>3
  <2>13. Copies(e, t)
    BY <2>12 DEF Copies
  <2>14. e[Root].rows = IF p = Root THEN n ELSE c[Root].rows
    BY <1>1, <2>4, <2>5, <2>7, <2>9 DEF Resized
  <2> QED
    BY <2>11, <2>13, <2>14
<1> QED
  BY <1>5, <1>6

\* The content of a row that was asked for.
Answering(c, p, value, leaf) ==
  [c EXCEPT ![p] = [rows |-> IF leaf THEN 0 ELSE @.rows, value |-> value,
                    outdated |-> FALSE, loading |-> FALSE]]

\* The reply to a request for content, ContentReply.
LEMMA CopyAnswered ==
  ASSUME NEW c, Structured(c), NEW t, Tree(t), Copies(c, t), NEW p \in DOMAIN c, p # Root,
         p \in DOMAIN t, NEW e,
         e = Answering(c, p, t[p].value, t[p].leaf)
  PROVE  Structured(e) /\ Copies(e, t) /\ e[Root] = c[Root]
<1>1. PICK m \in Int : m = IF t[p].leaf THEN 0 ELSE c[p].rows
  BY DEF Structured, Node
<1>2. t[p].value \in Int /\ t[p].leaf \in BOOLEAN /\ c[p] \in Node /\ Root \in DOMAIN c
  BY DEF Tree, Countable, RowOfModel, Structured
<1>3. /\ DOMAIN e = DOMAIN c /\ \A q \in DOMAIN c : q # p => e[q] = c[q]
      /\ e[p] = [rows |-> m, value |-> t[p].value, outdated |-> FALSE, loading |-> FALSE]
  BY <1>1 DEF Answering
<1>4. e[p] \in Node /\ e[p].rows = m /\ e[p].value = t[p].value
  BY <1>2, <1>3 DEF Node
<1>5. c[p].rows >= 0 => m = c[p].rows
  <2>1. c[p].rows >= 0 => c[p].rows \in Nat /\ Counted(t, p, c[p].rows)
    BY <1>2 DEF Copies, Node
  <2>2. t[p].leaf => Counted(t, p, 0)
    BY DEF Tree, Countable
  <2> QED
    BY <1>1, <2>1, <2>2, CountedOnce
<1>6. m = c[p].rows \/ (m = 0 /\ c[p].rows < 0)
  BY <1>1, <1>2, <1>5 DEF Node
<1>7. Structured(e)
  <2>1. ASSUME NEW q \in DOMAIN c
        PROVE  e[q] \in Node /\ (e[q].rows = c[q].rows \/ (e[q].rows <= 0 /\ c[q].rows <= 0))
    <3>1. c[q] \in Node
      BY DEF Structured
    <3>2. CASE q = p
      BY <1>2, <1>4, <1>6, <3>2 DEF Node
    <3>3. CASE q # p
      BY <1>3, <3>1, <3>3
    <3> QED
      BY <3>2, <3>3
  <2> QED
    BY <1>3, <2>1, Retouched
<1>8. m >= 0 => Counted(t, p, m)
  BY <1>1, <1>2 DEF Tree, Countable, Copies
<1>9. Copies(e, t)
  BY <1>3, <1>4, <1>8 DEF Copies
<1> QED
  BY <1>2, <1>3, <1>7, <1>9

\* The rows whose content changed.
Touched(p, q, f, n) == Len(q) = Len(p) + 1 /\ InRows(p, q, f, n)

Outdating(c, p, f, n) ==
  [q \in DOMAIN c |-> IF Touched(p, q, f, n) THEN [c[q] EXCEPT !.outdated = TRUE] ELSE c[q]]

\* Rows whose content changed are marked, ContentChanged.
LEMMA CopyOutdated ==
  ASSUME NEW c, Structured(c), NEW t, Copies(c, t), NEW p, NEW f, NEW n,
         NEW u, DOMAIN u = DOMAIN t, \A q \in DOMAIN t : ~Touched(p, q, f, n) => u[q].value = t[q].value,
         \A q, k : Counted(u, q, k) <=> Counted(t, q, k),
         NEW e, e = Outdating(c, p, f, n)
  PROVE  Structured(e) /\ Copies(e, u) /\ e[Root].rows = c[Root].rows
<1>1. DOMAIN e = DOMAIN c
  BY DEF Outdating
<1>2. ASSUME NEW q \in DOMAIN c
      PROVE  /\ e[q] \in Node /\ e[q].rows = c[q].rows
             /\ e[q].outdated \/ (e[q] = c[q] /\ ~Touched(p, q, f, n))
  <2>1. c[q] \in Node
    BY DEF Structured
  <2>2. CASE Touched(p, q, f, n)
    <3>1. e[q] = [c[q] EXCEPT !.outdated = TRUE]
      BY <2>2 DEF Outdating
    <3> QED
      BY <2>1, <3>1 DEF Node
  <2>3. CASE ~Touched(p, q, f, n)
    <3>1. e[q] = c[q]
      BY <2>3 DEF Outdating
    <3> QED
      BY <2>1, <2>3, <3>1
  <2> QED
    BY <2>2, <2>3
<1>3. Structured(e)
  BY <1>1, <1>2, Retouched
<1>4. Copies(e, u)
  <2>1. ASSUME NEW q \in DOMAIN e
        PROVE  /\ e[q].rows >= 0 => q \in DOMAIN u /\ Counted(u, q, e[q].rows)
               /\ ~e[q].outdated /\ q # Root => q \in DOMAIN u /\ e[q].value = u[q].value
    <3>1. /\ c[q].rows >= 0 => q \in DOMAIN t /\ Counted(t, q, c[q].rows)
          /\ ~c[q].outdated /\ q # Root => q \in DOMAIN t /\ c[q].value = t[q].value
      BY <1>1 DEF Copies
    <3> QED
      BY <1>1, <1>2, <3>1
  <2> QED
    BY <2>1 DEF Copies
<1>5. Root \in DOMAIN c
  BY DEF Structured
<1> QED
  BY <1>2, <1>3, <1>4, <1>5

\* What is not below the rows that turned is where it was.
LEMMA TurnedKeeps ==
  ASSUME NEW t, Tree(t), NEW p0 \in DOMAIN t, NEW u, u = Reversed(t, p0),
         NEW q \in DOMAIN t, ~Below(p0, q)
  PROVE  /\ q \in DOMAIN u /\ u[q] = t[q]
         /\ \A k \in Nat : Counted(t, q, k) => Counted(u, q, k)
<1>1. Closure(t)
  BY DEF Tree
<1>2. PICK k \in Nat : Counted(t, p0, k)
  BY DEF Tree, Countable
<1>3. q \in DOMAIN u /\ Turned(q, p0, k) = q
  BY <1>1, <1>2, ReversedShape
<1>4. u[q] = t[Turned(q, p0, k)]
  BY <1>1, <1>2, <1>3, ReversedShape
<1>5. q # p0 => AsMany(t, Turned(q, p0, k), u, q)
  BY <1>1, <1>2, <1>3, ReversedShape
<1>6. Counted(u, p0, k)
  BY <1>1, <1>2, ReversedShape
<1>7. ASSUME NEW j \in Nat, Counted(t, q, j)
      PROVE  Counted(u, q, j)
  <2>1. CASE q = p0
    BY <1>2, <1>6, <1>7, <2>1, CountedOnce
  <2>2. CASE q # p0
    BY <1>3, <1>5, <1>7, <2>2 DEF AsMany
  <2> QED
    BY <2>1, <2>2
<1> QED
  BY <1>3, <1>4, <1>7

\* All rows are below the root, and none is below itself.
LEMMA BelowRoot ==
  ASSUME NEW q \in Path
  PROVE  /\ Below(Root, q) <=> q # Root
         /\ ~Below(q, Root) /\ ~Below(q, q)
<1>1. Root \in Path /\ Len(Root) = 0
  BY RootOrChild DEF Root
<1>2. Len(q) \in Nat /\ (Len(q) = 0 <=> q = Root)
  BY DEF Path, Root
<1> QED
  BY <1>1, <1>2, BelowIs

\* clearChildrenStructure() and clearChildrenData().
LEMMA CopyForgotten ==
  ASSUME Structured(client), NEW t, Tree(t), Copies(client, t), NEW p0 \in DOMAIN t,
         NEW u, u = Reversed(t, p0), NEW p \in {p0, Root}, p \in DOMAIN client,
         NEW hint \in BOOLEAN, NEW e, e = Forgotten(p, hint)
  PROVE  Structured(e) /\ Copies(e, u)
<1> DEFINE Kept == {q \in DOMAIN client : ~Below(p, q)}
<1>1. /\ Closure(client) /\ DOMAIN client \subseteq Path /\ p \in Path /\ p0 \in Path
      /\ Root \in DOMAIN client /\ Root \in Path
  BY DEF Structured, Tree, Closure
<1>2. p \in Kept /\ Root \in Kept
  BY <1>1, BelowRoot
<1>3. ASSUME NEW q \in Kept
      PROVE  /\ client[q].rows >= 0 => q \in DOMAIN u /\ Counted(u, q, client[q].rows)
             /\ ~client[q].outdated /\ q # Root => q \in DOMAIN u /\ client[q].value = u[q].value
  <2>1. q \in Path /\ ~Below(p0, q)
    BY <1>1, BelowRoot
  <2>2. q \in DOMAIN t => /\ q \in DOMAIN u /\ u[q] = t[q]
                          /\ \A k \in Nat : Counted(t, q, k) => Counted(u, q, k)
    BY <2>1, TurnedKeeps
  <2>3. client[q].rows >= 0 => client[q].rows \in Nat /\ q \in DOMAIN t /\ Counted(t, q, client[q].rows)
    BY DEF Structured, Node, Copies
  <2>4. ~client[q].outdated /\ q # Root => q \in DOMAIN t /\ client[q].value = t[q].value
    BY DEF Copies
  <2> QED
    BY <2>2, <2>3, <2>4
<1>4. ASSUME NEW q \in Path, NEW i \in Nat
      PROVE  Below(p, RowAt(q, i)) <=> p = q \/ Below(p, q)
  BY <1>1, BelowChild
<1>5. CASE hint = TRUE
  <2>1. DOMAIN e = Kept \cup Rows(client, p)
    BY <1>5 DEF Forgotten, Pruned, Restricted
  <2>2. ASSUME NEW q \in Rows(client, p)
        PROVE  q \in DOMAIN client /\ \E i \in Nat : q = RowAt(p, i)
    BY <1>1, RowsIs DEF Rows, Idx
  <2>3. ASSUME NEW i \in Nat, RowAt(p, i) \in DOMAIN client
        PROVE  RowAt(p, i) \in Rows(client, p)
    BY <1>1, <2>3, RowsIs DEF Idx
  <2>4. ASSUME NEW q \in DOMAIN e
        PROVE  e[q] = IF q = p THEN client[p] ELSE IF Below(p, q) THEN NewNode ELSE client[q]
    <3>1. e = [r \in Kept \cup Rows(client, p) |->
                 IF r = p THEN client[p] ELSE IF Below(p, r) THEN NewNode ELSE client[r]]
      BY <1>5 DEF Forgotten, Pruned, Restricted
    <3> QED
      BY <2>1, <3>1
  <2>5. ASSUME NEW q \in Kept
        PROVE  q \in DOMAIN e /\ e[q] = client[q]
    BY <2>1, <2>4
  <2>6. ASSUME NEW q \in Rows(client, p)
        PROVE  q \in DOMAIN e /\ e[q] = NewNode /\ q \in Path /\ q # p /\ Below(p, q)
    <3>1. PICK i \in Nat : q = RowAt(p, i)
      BY <2>2
    <3>2. Below(p, q) /\ q # p /\ q \in Path
      BY <1>1, <1>4, <3>1, ChildIs, ChildIsNot
    <3> QED
      BY <2>1, <2>4, <3>2
  <2>7. ASSUME NEW q \in Path, NEW i \in Nat
        PROVE  RowAt(q, i) \in DOMAIN e <=> RowAt(q, i) \in DOMAIN client /\ (q = p \/ ~Below(p, q))
    <3>1. CASE q = p
      <4>1. RowAt(q, i) \notin Kept
        BY <1>4, <3>1
      <4> QED
        BY <2>1, <2>2, <2>3, <3>1, <4>1
    <3>2. CASE q # p
      <4>1. RowAt(q, i) \notin Rows(client, p)
        <5>1. ASSUME NEW j \in Nat PROVE RowAt(q, i) # RowAt(p, j)
          BY <1>1, <3>2, ChildUnique
        <5> QED
          BY <2>2, <5>1
      <4>2. RowAt(q, i) \in Kept <=> RowAt(q, i) \in DOMAIN client /\ ~Below(p, q)
        BY <1>4, <3>2
      <4> QED
        BY <2>1, <3>2, <4>1, <4>2
    <3> QED
      BY <3>1, <3>2
  <2>8. Closure(e)
    <3>1. DOMAIN e \subseteq Path
      BY <1>1, <2>1, <2>6
    <3>2. ASSUME NEW q \in Path, NEW i \in Nat, RowAt(q, i) \in DOMAIN e
          PROVE  q \in DOMAIN e
      <4>1. q \in DOMAIN client /\ (q = p \/ ~Below(p, q))
        BY <1>1, <2>7, <3>2 DEF Closure
      <4> QED
        BY <1>2, <2>5, <4>1
    <3> QED
      BY <3>1, <3>2 DEF Closure
  <2>9. ASSUME NEW q \in DOMAIN e
        PROVE  e[q] \in Node /\ Counted(e, q, e[q].rows)
    <3>1. CASE q \in Kept
      <4>1. q \in Path /\ q \in DOMAIN client /\ e[q] = client[q]
        BY <1>1, <2>5, <3>1
      <4>2. Idx(e, q) = Idx(client, q)
        BY <2>7, <3>1, <4>1 DEF Idx
      <4> QED
        BY <4>1, <4>2 DEF Structured, Counted
    <3>2. CASE q \notin Kept
      <4>1. q \in Rows(client, p)
        BY <2>1, <3>2
      <4>2. e[q] = NewNode /\ q \in Path /\ q # p /\ Below(p, q)
        BY <2>6, <4>1
      <4>3. Idx(e, q) = {}
        BY <2>7, <4>2 DEF Idx
      <4>4. PICK m \in Int : m = -1 /\ \A i \in Nat : ~(i < m)
        OBVIOUS
      <4>5. Counted(e, q, m)
        BY <4>3, <4>4, CountedIs
      <4> QED
        BY <4>2, <4>4, <4>5, NewIsBlank
    <3> QED
      BY <3>1, <3>2
  <2>10. Structured(e)
    BY <1>2, <2>5, <2>8, <2>9 DEF Structured
  <2>11. ASSUME NEW q \in DOMAIN e
         PROVE  /\ e[q].rows >= 0 => q \in DOMAIN u /\ Counted(u, q, e[q].rows)
                /\ ~e[q].outdated /\ q # Root => q \in DOMAIN u /\ e[q].value = u[q].value
    <3>1. CASE q \in Kept
      BY <1>3, <2>5, <3>1
    <3>2. CASE q \notin Kept
      BY <2>1, <2>6, <3>2, NewIsBlank DEF Blank
    <3> QED
      BY <3>1, <3>2
  <2> QED
    BY <2>10, <2>11 DEF Copies
<1>6. CASE hint = FALSE
  <2>1. PICK x : x = Pruned(client, p)
    OBVIOUS
  <2>2. DOMAIN x = Kept /\ \A q \in Kept : x[q] = client[q]
    BY <2>1 DEF Pruned, Restricted
  <2>3. PICK m \in Int : m = -1
    OBVIOUS
  <2>4. e = [x EXCEPT ![p].rows = m]
    BY <1>6, <2>1, <2>3 DEF Forgotten, Unknown
  <2>5. client[p] \in Node /\ x[p] = client[p]
    BY <1>2, <2>2 DEF Structured
  <2>6. Resized(e, x, p, m)
    <3>1. Resized([x EXCEPT ![p].rows = m], x, p, m)
      BY <1>2, <2>2, <2>5, ResizedIs
    <3> QED
      BY <2>4, <3>1
  <2>7. ASSUME NEW q \in Path, NEW i \in Nat
        PROVE  RowAt(q, i) \in DOMAIN x <=> RowAt(q, i) \in DOMAIN client /\ q # p /\ ~Below(p, q)
    BY <1>4, <2>2
  <2>8. Closure(x)
    BY <1>1, <2>2, <2>7 DEF Closure
  <2>9. ASSUME NEW q \in DOMAIN x
        PROVE  /\ q \in Path /\ q \in DOMAIN client /\ x[q] = client[q]
               /\ q # p => Idx(x, q) = Idx(client, q)
               /\ Idx(x, p) = {}
    BY <1>1, <2>2, <2>7 DEF Idx
  <2>10. ASSUME NEW q \in DOMAIN e
         PROVE  e[q] \in Node /\ Counted(e, q, e[q].rows)
    <3>1. q \in DOMAIN x
      BY <2>6 DEF Resized
    <3>2. CASE q # p
      <4>1. e[q] = client[q] /\ q \in DOMAIN client /\ Idx(x, q) = Idx(client, q)
        BY <2>6, <2>9, <3>1, <3>2 DEF Resized
      <4>2. Counted(x, q, e[q].rows) /\ e[q] \in Node
        BY <4>1 DEF Structured, Counted
      <4> QED
        BY <2>6, <4>2 DEF Resized
    <3>3. CASE q = p
      <4>1. Idx(x, p) = {} /\ \A i \in Nat : ~(i < m)
        BY <2>3, <2>9, <3>1
      <4>2. Counted(x, p, m)
        BY <4>1, CountedIs
      <4> QED
        BY <2>6, <3>3, <4>2 DEF Resized
    <3> QED
      BY <3>2, <3>3
  <2>11. Structured(e)
    BY <1>2, <2>2, <2>6, <2>8, <2>10 DEF Structured, Resized
  <2>12. ASSUME NEW q \in DOMAIN e
         PROVE  /\ e[q].rows >= 0 => q \in DOMAIN u /\ Counted(u, q, e[q].rows)
                /\ ~e[q].outdated /\ q # Root => q \in DOMAIN u /\ e[q].value = u[q].value
    <3>1. q \in Kept
      BY <2>2, <2>6 DEF Resized
    <3>2. CASE q # p
      BY <1>3, <2>2, <2>6, <3>1, <3>2 DEF Resized
    <3>3. CASE q = p
      BY <1>3, <2>2, <2>3, <2>5, <2>6, <3>1, <3>3 DEF Resized
    <3> QED
      BY <3>2, <3>3
  <2> QED
    BY <2>11, <2>12 DEF Copies
<1> QED
  BY <1>5, <1>6

\* A layout that changed where the client has nothing.
LEMMA UnheardLayout ==
  ASSUME NEW c, Structured(c), NEW t, Tree(t), Copies(c, t), NEW p0 \in DOMAIN t, p0 \notin DOMAIN c,
         NEW u, u = Reversed(t, p0)
  PROVE  Copies(c, u)
<1>1. p0 \in Path
  BY DEF Tree, Closure
<1>2. ASSUME NEW q \in DOMAIN c, q \in DOMAIN t
      PROVE  /\ q \in DOMAIN u /\ u[q].value = t[q].value
             /\ c[q].rows >= 0 => (Counted(t, q, c[q].rows) => Counted(u, q, c[q].rows))
  <2>1. ~Below(p0, q)
    BY <1>1, NothingBelow
  <2>2. c[q].rows >= 0 => c[q].rows \in Nat
    BY DEF Structured, Node
  <2>3. /\ q \in DOMAIN u /\ u[q] = t[q]
        /\ \A k \in Nat : Counted(t, q, k) => Counted(u, q, k)
    BY <1>2, <2>1, TurnedKeeps
  <2> QED
    BY <2>2, <2>3
<1> QED
  BY <1>2, CopyUnheard

-----------------------------------------------------------------------------
(***************************************************************************)
(* Marks: who waits, and for what, after the copy took a step.             *)
(***************************************************************************)

Kinds == {"count", "content"}

\* The node q of c is marked as being asked for.
Waits(c, k, q) ==
  q \in DOMAIN c /\ \/ k = "count" /\ c[q].rows = Asked
                    \/ k = "content" /\ c[q].loading = TRUE

\* resetLoadingState() takes its marks back.
Reaches(un, q) == \E v \in un : Below(v[1], q) /\ Row(v[1], q) >= v[2]

\* Who waits in e has waited in c already, unless it is reached.
StillWaits(c, e, un) == \A k, q : Waits(e, k, q) /\ ~Reaches(un, q) => Waits(c, k, q)

\* It is enough that what is not reached stays where it was, with its marks.
LEMMA MarksStay ==
  ASSUME NEW c, NEW e, NEW un,
         \A q \in DOMAIN e : ~Reaches(un, q) =>
           \/ q \in DOMAIN c /\ (e[q].rows = Asked => c[q].rows = Asked)
                             /\ (e[q].loading = TRUE => c[q].loading = TRUE)
           \/ e[q].rows # Asked /\ e[q].loading = FALSE
  PROVE  StillWaits(c, e, un)
  BY DEF StillWaits, Waits

\* What is reached when rows of p are.
LEMMA ReachesOne ==
  ASSUME NEW p, NEW f, NEW q
  PROVE  Reaches({<<p, f>>}, q) <=> Below(p, q) /\ Row(p, q) >= f
  BY DEF Reaches

\* New nodes are not marked.
LEMMA NewIsUnmarked ==
  NewNode.rows # Asked /\ NewNode.loading = FALSE
  BY DEF NewNode, Unknown, Asked

\* doRemoveRows(): the rows after those that went are reached.
LEMMA ShrunkWaits ==
  ASSUME NEW c, Structured(c), NEW p \in DOMAIN c, NEW f \in Nat, NEW n \in Nat,
         NEW k \in Nat, c[p].rows = k, f + n <= k, NEW e, e = Shrunk(c, p, f, n)
  PROVE  StillWaits(c, e, {<<p, f>>})
<1>1. Closure(c) /\ p \in Path /\ DOMAIN c \subseteq Path
  BY DEF Structured, Closure
<1>2. PICK x : x = Closed(c, p, f, n)
  OBVIOUS
<1>3. /\ DOMAIN x \subseteq Path
      /\ \A q \in DOMAIN x : Shifted(q, p, f, n) \in DOMAIN c /\ x[q] = c[Shifted(q, p, f, n)]
  BY <1>1, <1>2, ClosedIs
<1>4. ASSUME NEW q \in DOMAIN e, ~Reaches({<<p, f>>}, q)
      PROVE  \/ q \in DOMAIN c /\ (e[q].rows = Asked => c[q].rows = Asked)
                               /\ (e[q].loading = TRUE => c[q].loading = TRUE)
             \/ e[q].rows # Asked /\ e[q].loading = FALSE
  <2>1. e = [x EXCEPT ![p].rows = x[p].rows - n]
    BY <1>2 DEF Shrunk
  <2>2. q \in DOMAIN x
    BY <2>1
  <2>3. Shifted(q, p, f, n) = q
    BY <1>4, ReachesOne DEF Shifted
  <2>4. q \in DOMAIN c /\ x[q] = c[q]
    BY <1>3, <2>2, <2>3
  <2>5. CASE q # p
    <3>1. e[q] = x[q]
      BY <2>1, <2>2, <2>5
    <3> QED
      BY <2>4, <3>1
  <2>6. CASE q = p
    <3>1. c[p] \in Node /\ k - n \in Int /\ k - n # -2
      BY DEF Structured
    <3>2. e[p] = [c[p] EXCEPT !.rows = k - n]
      BY <2>1, <2>2, <2>4, <2>6
    <3>3. e[p].rows = k - n /\ e[p].loading = c[p].loading
      BY <3>1, <3>2 DEF Node
    <3> QED
      BY <2>4, <2>6, <3>1, <3>3 DEF Asked
  <2> QED
    BY <2>5, <2>6
<1> QED
  BY <1>4, MarksStay

\* doInsertRows(): the last of the new rows is reached, and those after it.
LEMMA GrownWaits ==
  ASSUME NEW c, Structured(c), NEW p \in DOMAIN c, NEW f \in Nat, NEW n \in Nat,
         NEW k \in Nat, c[p].rows = k, NEW e, e = Grown(c, p, f, n)
  PROVE  StillWaits(c, e, {<<p, f + n - 1>>})
<1>1. Closure(c) /\ p \in Path /\ DOMAIN c \subseteq Path /\ Root \in DOMAIN c
  BY DEF Structured, Closure
<1>2. PICK x : x = Inserted(c, p, f, n, [i \in 1..n |-> NewNode])
  OBVIOUS
<1>3. /\ Closure(x)
      /\ \A q \in DOMAIN x : ~New(q, p, f, n) => NodeStays(x, c, q, Shifted(q, p, f + n, -n), p, f, n)
      /\ \A q \in DOMAIN x : New(q, p, f, n) => x[q] = NewNode /\ q # p
  BY <1>1, <1>2, NodesInserted
<1>4. ASSUME NEW q \in DOMAIN e, ~Reaches({<<p, f + n - 1>>}, q)
      PROVE  \/ q \in DOMAIN c /\ (e[q].rows = Asked => c[q].rows = Asked)
                               /\ (e[q].loading = TRUE => c[q].loading = TRUE)
             \/ e[q].rows # Asked /\ e[q].loading = FALSE
  <2>1. e = [x EXCEPT ![p].rows = x[p].rows + n]
    BY <1>2 DEF Grown
  <2>2. q \in DOMAIN x /\ (q # p => e[q] = x[q])
    BY <2>1
  <2>3. CASE New(q, p, f, n)
    BY <1>3, <2>2, <2>3, NewIsUnmarked
  <2>4. CASE ~New(q, p, f, n)
    <3>1. Shifted(q, p, f + n, -n) = q
      <4>1. Below(p, q) => Row(p, q) \in Nat
        BY <1>1, <1>3, <2>2, BelowIs DEF Closure
      <4> PICK w \in Int : w = f + n - 1
        OBVIOUS
      <4>2. ~(Below(p, q) /\ Row(p, q) >= w)
        BY <1>4, ReachesOne
      <4>3. ~(Below(p, q) /\ Row(p, q) >= f + n)
        BY <4>1, <4>2
      <4> QED
        BY <4>3 DEF Shifted
    <3>2. q \in DOMAIN c /\ x[q] = c[q]
      BY <1>3, <2>2, <2>4, <3>1 DEF NodeStays
    <3>3. CASE q # p
      BY <2>2, <3>2, <3>3
    <3>4. CASE q = p
      <4>1. c[p] \in Node /\ k + n \in Int /\ k + n # -2
        BY DEF Structured
      <4>2. e[p] = [c[p] EXCEPT !.rows = k + n]
        BY <2>1, <2>2, <3>2, <3>4
      <4>3. e[p].rows = k + n /\ e[p].loading = c[p].loading
        BY <4>1, <4>2 DEF Node
      <4> QED
        BY <3>2, <3>4, <4>1, <4>3 DEF Asked
    <3> QED
      BY <3>3, <3>4
  <2> QED
    BY <2>3, <2>4
<1> QED
  BY <1>4, MarksStay

\* Rows that a move does not reach are where they were: when one row moves, or several do
\* within their parent.  Of several rows that move to another parent only the last is reached.
LEMMA OriginUnreached ==
  ASSUME NEW sp \in Path, NEW dp \in Path, NEW f \in Nat, NEW n \in Nat, NEW d \in Nat,
         Movable(sp, f, n, dp, d), n = 1 \/ sp = dp,
         NEW y \in Path, ~Reaches({<<Shifted(sp, dp, d, n), f>>, <<Shifted(dp, sp, f + n, -n), d + n - 1>>}, y)
  PROVE  Origin(y, sp, f, n, dp, d) = y
<1>1. PICK s \in Path : s = Shifted(sp, dp, d, n)
  BY SourceIs
<1>2. PICK into \in Path : into = Shifted(dp, sp, f + n, -n)
  BY OriginOfParents
<1>3. /\ ~(Below(s, y) /\ Row(s, y) >= f)
      /\ ~(Below(into, y) /\ Row(into, y) >= d + n - 1)
  BY <1>1, <1>2 DEF Reaches
<1>4. \A q \in Path : Below(q, y) => Row(q, y) \in Nat
  BY BelowIs
<1>5. ~(Below(dp, y) /\ Row(dp, y) >= d)
  <2> SUFFICES ASSUME Below(dp, y), Row(dp, y) >= d PROVE FALSE
    OBVIOUS
  <2>1. CASE sp = dp
    <3>1. s = dp
      BY <1>1, <2>1, SourceIs
    <3>2. f <= d
      BY <2>1 DEF Movable
    <3> QED
      BY <1>3, <1>4, <3>1, <3>2
  <2>2. CASE sp # dp /\ into = dp
    <3>1. n = 1 /\ d + n - 1 = d
      BY <2>2
    <3> QED
      BY <1>3, <2>2, <3>1
  <2>3. CASE sp # dp /\ into # dp
    <3>1. Below(sp, dp) /\ Row(sp, dp) >= f + n
      BY <1>2, <2>3 DEF Shifted
    <3>2. Below(sp, y) /\ Row(sp, y) = Row(sp, dp)
      BY <3>1, BelowBelow
    <3>3. ~Below(dp, sp)
      BY <3>1, BelowIs
    <3>4. s = sp
      BY <1>1, <3>3 DEF Shifted
    <3>5. Row(sp, y) >= f
      BY <1>4, <3>1, <3>2
    <3> QED
      BY <1>3, <3>2, <3>4, <3>5
  <2> QED
    BY <2>1, <2>2, <2>3
<1>6. Entered(y, sp, f, n, dp, d) = y
  BY <1>1, <1>3 DEF Entered, Shifted
<1>7. Left(y, sp, f, n, dp, d) = y
  <2>1. ~InRows(dp, y, d, n)
    BY <1>5, InRowsIs
  <2> QED
    BY <2>1 DEF Left
<1>8. Shifted(y, dp, d + n, -n) = y
  <2>1. ~(Below(dp, y) /\ Row(dp, y) >= d + n)
    BY <1>4, <1>5
  <2> QED
    BY <2>1 DEF Shifted
<1> QED
  BY <1>6, <1>7, <1>8 DEF Origin

\* What a move does to a row, of all that MovedIs says.
LEMMA MovedTakes ==
  ASSUME NEW x, DOMAIN x \subseteq Path,
         NEW sp \in Path, NEW dp \in Path, NEW f \in Nat, NEW n \in Nat, NEW d \in Nat,
         Movable(sp, f, n, dp, d), NEW u, u = Moved(x, sp, f, n, dp, d)
  PROVE  /\ DOMAIN u \subseteq Path
         /\ \A y \in Path : y \in DOMAIN u <=> Origin(y, sp, f, n, dp, d) \in DOMAIN x
         /\ \A y \in DOMAIN u : u[y] = x[Origin(y, sp, f, n, dp, d)]
<1>1. DOMAIN u \subseteq Path
  BY MovedIs
<1>2. \A y \in Path : y \in DOMAIN u <=> Origin(y, sp, f, n, dp, d) \in DOMAIN x
  BY MovedIs
<1>3. \A y \in DOMAIN u : u[y] = x[Origin(y, sp, f, n, dp, d)]
  BY MovedIs
<1> QED
  BY <1>1, <1>2, <1>3

\* doMoveRows().
LEMMA CarriedWaits ==
  ASSUME NEW c, Structured(c), NEW sp \in DOMAIN c, NEW dp \in DOMAIN c,
         NEW f \in Nat, NEW n \in Nat, NEW d \in Nat, Movable(sp, f, n, dp, d), n = 1 \/ sp = dp,
         NEW ks \in Nat, NEW kd \in Nat, c[sp].rows = ks, c[dp].rows = kd, f + n <= ks,
         NEW e, e = Carried(c, sp, f, n, dp, d)
  PROVE  StillWaits(c, e, {<<Shifted(sp, dp, d, n), f>>, <<Shifted(dp, sp, f + n, -n), d + n - 1>>})
<1>1. Closure(c) /\ sp \in Path /\ dp \in Path /\ DOMAIN c \subseteq Path
  BY DEF Structured, Closure
<1>2. PICK into \in Path : into = Shifted(dp, sp, f + n, -n)
  BY <1>1, OriginOfParents
<1>3. PICK un : un = {<<Shifted(sp, dp, d, n), f>>, <<into, d + n - 1>>}
  OBVIOUS
<1>4. PICK c0 : c0 = [c EXCEPT ![sp].rows = @ - n]
  OBVIOUS
<1>5. PICK x : x = Moved(c0, sp, f, n, dp, d)
  OBVIOUS
<1>6. /\ DOMAIN c0 = DOMAIN c
      /\ \A q \in DOMAIN c : q # sp => c0[q] = c[q]
      /\ c0[sp].rows = ks - n /\ c0[sp].loading = c[sp].loading
  <2>1. c[sp] \in Node /\ ks - n \in Int
    BY DEF Structured
  <2>2. c0[sp] = [c[sp] EXCEPT !.rows = ks - n]
    BY <1>4
  <2> QED
    BY <1>4, <2>1, <2>2 DEF Node
<1>7. /\ DOMAIN x \subseteq Path
      /\ \A y \in Path : y \in DOMAIN x <=> Origin(y, sp, f, n, dp, d) \in DOMAIN c0
      /\ \A y \in DOMAIN x : x[y] = c0[Origin(y, sp, f, n, dp, d)]
  <2>1. DOMAIN c0 \subseteq Path
    BY <1>1, <1>6
  <2> QED
    BY <1>1, <1>5, <2>1, MovedTakes
<1>8. e = [x EXCEPT ![into].rows = x[into].rows + n]
  BY <1>2, <1>4, <1>5 DEF Carried
<1>9. x[into].rows \in Nat /\ x[into].loading = c[dp].loading /\ x[into] \in Node
  <2>1. Origin(into, sp, f, n, dp, d) = dp
    BY <1>1, <1>2, OriginOfParents
  <2>2. into \in DOMAIN x /\ x[into] = c0[dp]
    BY <1>6, <1>7, <2>1
  <2>3. CASE sp = dp
    <3>1. c[dp] \in Node /\ c0[dp] = [c[dp] EXCEPT !.rows = ks - n] /\ ks - n \in Nat
      BY <1>4, <2>3 DEF Structured
    <3> QED
      BY <2>2, <3>1 DEF Node
  <2>4. CASE sp # dp
    BY <1>6, <2>2, <2>4 DEF Structured
  <2> QED
    BY <2>3, <2>4
<1>10. ASSUME NEW q \in DOMAIN e, ~Reaches(un, q)
       PROVE  \/ q \in DOMAIN c /\ (e[q].rows = Asked => c[q].rows = Asked)
                                /\ (e[q].loading = TRUE => c[q].loading = TRUE)
              \/ e[q].rows # Asked /\ e[q].loading = FALSE
  <2>1. q \in DOMAIN x /\ q \in Path /\ (q # into => e[q] = x[q])
    BY <1>7, <1>8
  <2>2. Origin(q, sp, f, n, dp, d) = q
    BY <1>1, <1>2, <1>3, <1>10, <2>1, OriginUnreached
  <2>3. q \in DOMAIN c /\ x[q] = c0[q]
    BY <1>6, <1>7, <2>1, <2>2
  <2>4. CASE q = into
    <3>1. into = dp
      BY <1>1, <1>2, <2>1, <2>2, <2>4, OriginOfParents
    <3>2. e[q] = [x[into] EXCEPT !.rows = x[into].rows + n]
      BY <1>8, <2>1, <2>4
    <3>3. e[q].rows = x[into].rows + n /\ e[q].loading = x[into].loading
      BY <1>9, <3>2 DEF Node
    <3>4. e[q].rows # -2
      BY <1>9, <3>3
    <3> QED
      BY <1>9, <2>3, <2>4, <3>1, <3>3, <3>4 DEF Asked
  <2>5. CASE q # into /\ q = sp
    <3>1. e[q].rows = ks - n /\ e[q].loading = c[q].loading
      BY <1>6, <2>1, <2>3, <2>5
    <3>2. ks - n # -2
      OBVIOUS
    <3> QED
      BY <2>3, <3>1, <3>2 DEF Asked
  <2>6. CASE q # into /\ q # sp
    BY <1>6, <2>1, <2>3, <2>6
  <2> QED
    BY <2>4, <2>5, <2>6
<1>11. StillWaits(c, e, un)
  BY <1>10, MarksStay
<1> QED
  BY <1>2, <1>3, <1>11

\* A count that came: its node waits no more, and new nodes do not.
LEMMA CountingWaits ==
  ASSUME NEW c, Structured(c), NEW p \in DOMAIN c, NEW n \in Int, n >= -1,
         NEW e, e = Counting(c, p, n), NEW un
  PROVE  StillWaits(c, e, un) /\ ~Waits(e, "count", p)
<1>1. p \in Path /\ DOMAIN c \subseteq Path /\ c[p] \in Node
  BY DEF Structured, Closure
<1>2. PICK new : new = [i \in 1..n |-> NewNode]
  OBVIOUS
<1>3. PICK x : x = Filled(c, p, 0, n, new)
  OBVIOUS
<1>4. PICK rows : rows = {RowAt(p, 0 + i - 1) : i \in 1..n}
  OBVIOUS
<1>5. x = [q \in DOMAIN c \cup rows |-> IF q \in rows THEN new[Row(p, q) - 0 + 1] ELSE c[q]]
  BY <1>3, <1>4 DEF Filled
<1>6. ASSUME NEW q \in rows
      PROVE  q # p /\ x[q] = NewNode
  <2>1. PICK i \in 1..n : q = RowAt(p, 0 + i - 1)
    BY <1>4, <1>6
  <2>2. PICK j \in Nat : j = 0 + i - 1 /\ j + 1 = i
    BY <2>1
  <2>3. q = RowAt(p, j)
    BY <2>1, <2>2
  <2>4. Row(p, q) = j /\ q # p
    BY <1>1, <2>3, BelowChild, ChildIsNot
  <2>5. x[q] = new[j + 1]
    <3>1. x[q] = new[Row(p, q) - 0 + 1]
      BY <1>5, <1>6
    <3>2. Row(p, q) - 0 + 1 = j + 1
      BY <2>4
    <3> QED
      BY <3>1, <3>2
  <2> QED
    BY <1>2, <2>2, <2>4, <2>5
<1>7. \A q \in DOMAIN c : q \notin rows => x[q] = c[q] /\ q \in DOMAIN x
  BY <1>5
<1>8. e = [x EXCEPT ![p].rows = n] /\ p \notin rows /\ p \in DOMAIN x
  BY <1>2, <1>3, <1>5, <1>6 DEF Counting
<1>9. e[p].rows = n /\ e[p].loading = c[p].loading /\ n # -2
  <2>1. e[p] = [c[p] EXCEPT !.rows = n]
    BY <1>7, <1>8
  <2> QED
    BY <1>1, <2>1 DEF Node
<1>10. ASSUME NEW q \in DOMAIN e
       PROVE  \/ q \in DOMAIN c /\ (e[q].rows = Asked => c[q].rows = Asked)
                                /\ (e[q].loading = TRUE => c[q].loading = TRUE)
              \/ e[q].rows # Asked /\ e[q].loading = FALSE
  <2>1. q \in DOMAIN x /\ (q # p => e[q] = x[q])
    BY <1>8
  <2>2. CASE q = p
    BY <1>9, <2>2 DEF Asked
  <2>3. CASE q # p /\ q \in rows
    BY <1>6, <2>1, <2>3, NewIsUnmarked
  <2>4. CASE q # p /\ q \notin rows
    BY <1>5, <1>7, <2>1, <2>4
  <2> QED
    BY <2>2, <2>3, <2>4
<1>11. StillWaits(c, e, un)
  BY <1>10, MarksStay
<1>12. ~Waits(e, "count", p)
  BY <1>9 DEF Waits, Asked
<1> QED
  BY <1>11, <1>12

\* Content that came: its row waits no more.
LEMMA AnsweringWaits ==
  ASSUME NEW c, Structured(c), NEW p \in DOMAIN c, NEW value, NEW leaf \in BOOLEAN,
         NEW e, e = Answering(c, p, value, leaf), NEW un
  PROVE  StillWaits(c, e, un) /\ ~Waits(e, "content", p)
<1>1. /\ DOMAIN e = DOMAIN c /\ \A q \in DOMAIN c : q # p => e[q] = c[q]
      /\ e[p] = [rows |-> IF leaf THEN 0 ELSE c[p].rows, value |-> value,
                 outdated |-> FALSE, loading |-> FALSE]
  BY DEF Answering
<1>2. (e[p].rows = Asked => c[p].rows = Asked) /\ e[p].loading = FALSE
  BY <1>1 DEF Asked
<1>3. StillWaits(c, e, un)
  BY <1>1, <1>2, MarksStay
<1>4. ~Waits(e, "content", p)
  BY <1>2 DEF Waits
<1> QED
  BY <1>3, <1>4

\* Changed content leaves the marks.
LEMMA OutdatingWaits ==
  ASSUME NEW c, Structured(c), NEW p, NEW f, NEW n, NEW e, e = Outdating(c, p, f, n), NEW un
  PROVE  StillWaits(c, e, un)
<1>1. ASSUME NEW q \in DOMAIN e
      PROVE  q \in DOMAIN c /\ e[q].rows = c[q].rows /\ e[q].loading = c[q].loading
  <2>1. q \in DOMAIN c /\ c[q] \in Node
    BY DEF Outdating, Structured
  <2>2. e[q] = [c[q] EXCEPT !.outdated = TRUE] \/ e[q] = c[q]
    BY <2>1 DEF Outdating
  <2> QED
    BY <2>1, <2>2 DEF Node
<1> QED
  BY <1>1, MarksStay

\* What is forgotten is not marked.
LEMMA ForgottenWaits ==
  ASSUME Structured(client), NEW p \in DOMAIN client, NEW hint \in BOOLEAN,
         NEW e, e = Forgotten(p, hint), NEW un
  PROVE  StillWaits(client, e, un)
<1>1. PICK Kept : Kept = {q \in DOMAIN client : ~Below(p, q)}
  OBVIOUS
<1>2. p \in Kept /\ client[p] \in Node
  <2>1. p \in Path /\ ~Below(p, p)
    BY BelowRoot DEF Structured, Closure
  <2> QED
    BY <1>1, <2>1 DEF Structured
<1>3. ASSUME NEW q \in DOMAIN e
      PROVE  \/ q \in DOMAIN client /\ (e[q].rows = Asked => client[q].rows = Asked)
                                    /\ (e[q].loading = TRUE => client[q].loading = TRUE)
             \/ e[q].rows # Asked /\ e[q].loading = FALSE
  <2>1. CASE hint = TRUE
    <3>1. e = [r \in Kept \cup Rows(client, p) |->
                 IF r = p THEN client[p] ELSE IF Below(p, r) THEN NewNode ELSE client[r]]
      BY <1>1, <2>1 DEF Forgotten, Pruned, Restricted
    <3>2. q \in DOMAIN client
      BY <1>1, <3>1 DEF Rows
    <3>3. e[q] = client[q] \/ e[q] = NewNode
      BY <3>1
    <3> QED
      BY <3>2, <3>3, NewIsUnmarked
  <2>2. CASE hint = FALSE
    <3>1. PICK x : x = [r \in Kept |-> client[r]]
      OBVIOUS
    <3>2. e = [x EXCEPT ![p].rows = Unknown]
      BY <1>1, <2>2, <3>1 DEF Forgotten, Pruned, Restricted
    <3>3. q \in Kept /\ q \in DOMAIN client /\ (q # p => e[q] = client[q])
      BY <1>1, <3>1, <3>2
    <3>4. e[p] = [client[p] EXCEPT !.rows = Unknown]
      BY <1>2, <3>1, <3>2
    <3>5. e[p].rows = Unknown /\ e[p].loading = client[p].loading
      BY <1>2, <3>4 DEF Node
    <3> QED
      BY <3>3, <3>5 DEF Unknown, Asked
  <2> QED
    BY <2>1, <2>2
<1> QED
  BY <1>3, MarksStay

\* After clear() nobody waits.
LEMMA NewRootWaits ==
  \A k, q : ~Waits(NewRoot, k, q)
<1>1. DOMAIN NewRoot = {Root} /\ NewRoot[Root] = NewNode
  BY NewIsBlank
<1> QED
  BY <1>1, NewIsUnmarked DEF Waits

\* resetLoadingState() takes all marks back that are reached.
LEMMA LoadlessWaits ==
  ASSUME NEW node \in Node
  PROVE  Loadless(node).rows # Asked /\ Loadless(node).loading = FALSE
<1>1. PICK m \in Int : m = (IF node.rows < 0 THEN -1 ELSE node.rows) /\ m # -2
  BY DEF Node
<1>2. Loadless(node) = [node EXCEPT !.loading = FALSE, !.rows = m]
  BY <1>1 DEF Loadless, Node, Unknown
<1>3. Loadless(node) = [rows |-> m, value |-> node.value, outdated |-> node.outdated, loading |-> FALSE]
  BY <1>2 DEF Node
<1> QED
  BY <1>1, <1>3 DEF Asked

-----------------------------------------------------------------------------
(***************************************************************************)
(* What is on the wire.                                                    *)
(***************************************************************************)

Barriers == [type : {"SyncBarrier"}, id : Int]

Requests ==
  [type : {"RowColumnCountRequest"}, index : Path]
    \cup [type : {"ContentRequest"}, index : Path \ {Root}]
    \cup [type : {"HeaderRequest"}, section : Nat]

Replies ==
  [type : {"RowColumnCountReply"}, index : Path, rows : Int]
    \cup [type : {"ContentReply"}, index : Path, value : Int, leaf : BOOLEAN]
    \cup [type : {"HeaderReply"}, section : Nat, value : Int]

Notices ==
  [type : {"RowsAdded", "RowsRemoved", "ContentChanged"}, parent : Path, first : Nat, last : Int]
    \cup [type : {"RowsMoved"}, parent : Path, first : Nat, last : Int, dest : Path, child : Nat]
    \cup [type : {"HeaderChanged"}, first : Nat, last : Int]
    \cup [type : {"LayoutChanged"}, parents : SUBSET Path, hint : BOOLEAN]
    \cup [type : {"Reset"}]

Messages == Replies \cup Notices \cup Barriers

\* A reply says what the model t has.
Answers(m, t) ==
  \/ m.type = "RowColumnCountReply" /\
       (m.rows = -1 \/ (m.rows \in Nat /\ m.index \in DOMAIN t /\ Counted(t, m.index, m.rows)))
  \/ m.type = "ContentReply" /\ m.index \in DOMAIN t /\ m.index # Root
       /\ m.value = t[m.index].value /\ m.leaf = t[m.index].leaf
  \/ m.type \in {"HeaderReply", "SyncBarrier"}

\* Rows move one by one, or all within their parent.
Single == MaxAmount = 1 \/ "moveAcross" \notin Operations

\* A notification tells of the change of t that gave u.
TellsInsert(m, t, u) ==
  \E p \in DOMAIN t, f \in Nat, n \in Nat, k \in Nat :
    /\ m.parent = p /\ m.first = f /\ m.last = f + n - 1
    /\ Counted(t, p, k) /\ f <= k /\ \E new : u = Inserted(t, p, f, n, new)

TellsRemove(m, t, u) ==
  \E p \in DOMAIN t, f \in Nat, n \in Nat, k \in Nat :
    /\ m.parent = p /\ m.first = f /\ m.last = f + n - 1
    /\ Counted(t, p, k) /\ f + n <= k /\ u = Closed(t, p, f, n)

TellsMove(m, t, u) ==
  \E sp \in DOMAIN t, dp \in DOMAIN t, f \in Nat, n \in Nat, d \in Nat, ks \in Nat, kd \in Nat :
    /\ m.parent = sp /\ m.first = f /\ m.last = f + n - 1 /\ m.dest = dp /\ m.child = d
    /\ n > 0 /\ Movable(sp, f, n, dp, d) /\ (Single => n = 1 \/ sp = dp)
    /\ Counted(t, sp, ks) /\ Counted(t, dp, kd) /\ f + n <= ks /\ d <= kd
    /\ u = Moved(t, sp, f, n, dp, d)

TellsContent(m, t, u) ==
  /\ DOMAIN u = DOMAIN t
  /\ \A q \in DOMAIN t : ~Touched(m.parent, q, m.first, m.last - m.first + 1) => u[q].value = t[q].value
  /\ \A q, k : Counted(u, q, k) <=> Counted(t, q, k)

TellsHeader(m, t, u) ==
  /\ DOMAIN u = DOMAIN t
  /\ \A q \in DOMAIN t : u[q].value = t[q].value
  /\ \A q, k : Counted(u, q, k) <=> Counted(t, q, k)

TellsLayout(m, t, u) ==
  \E p \in DOMAIN t : m.parents \in {{p}, {}} /\ u = Reversed(t, p)

Explains(m, t, u) ==
  \/ u = t /\ Answers(m, t)
  \/ m.type = "RowsAdded" /\ TellsInsert(m, t, u)
  \/ m.type = "RowsRemoved" /\ TellsRemove(m, t, u)
  \/ m.type = "RowsMoved" /\ TellsMove(m, t, u)
  \/ m.type = "ContentChanged" /\ TellsContent(m, t, u)
  \/ m.type = "HeaderChanged" /\ TellsHeader(m, t, u)
  \/ m.type = "LayoutChanged" /\ "layout" \in Operations /\ TellsLayout(m, t, u)
  \/ m.type = "Reset"

\* All that is on the wire leads from t to u.
Leading(T, t, s, u) ==
  /\ T[0] = t /\ T[Len(s)] = u
  /\ \A i \in 0..Len(s) : Tree(T[i])
  /\ \A i \in 1..Len(s) : Explains(s[i], T[i - 1], T[i])

Leads(t, s, u) == \E T : Leading(T, t, s, u)

\* Nothing on the wire leads nowhere.
LEMMA LeadsNothing ==
  ASSUME NEW t, NEW u
  PROVE  /\ Tree(t) => Leads(t, << >>, t)
         /\ Leads(t, << >>, u) => t = u
<1>1. ASSUME Tree(t) PROVE Leading([i \in {0} |-> t], t, << >>, t)
  BY <1>1 DEF Leading
<1> QED
  BY <1>1 DEF Leads, Leading

\* A message that tells of one more change leads to the model after it.
LEMMA LeadingAppend ==
  ASSUME NEW s \in Seq(Messages), NEW T, NEW t, NEW u, Leading(T, t, s, u), NEW m \in Messages,
         NEW v, Tree(v), Explains(m, u, v)
  PROVE  \E R : Leading(R, t, Append(s, m), v) /\ \A i \in 0..Len(s) : R[i] = T[i]
<1>2. PICK k \in Nat : k = Len(s)
  OBVIOUS
<1>3. PICK r \in Seq(Messages) : r = Append(s, m)
  BY AppendProperties
<1>4. Len(r) = k + 1 /\ r[k + 1] = m /\ \A i \in 1..k : r[i] = s[i]
  BY <1>2, <1>3
<1>5. PICK R : R = [i \in 0..(k + 1) |-> IF i <= k THEN T[i] ELSE v]
  OBVIOUS
<1>6. (\A i \in 0..k : R[i] = T[i]) /\ R[k + 1] = v
  BY <1>5
<1>7. T[0] = t /\ T[k] = u /\ (\A i \in 0..k : Tree(T[i])) /\ \A i \in 1..k : Explains(s[i], T[i - 1], T[i])
  BY <1>2 DEF Leading
<1>8. ASSUME NEW i \in 0..(k + 1) PROVE Tree(R[i])
  <2>1. i \in 0..k \/ i = k + 1
    OBVIOUS
  <2> QED
    BY <1>6, <1>7, <2>1
<1>9. ASSUME NEW i \in 1..(k + 1) PROVE Explains(r[i], R[i - 1], R[i])
  <2>1. CASE i \in 1..k
    <3>1. i - 1 \in 0..k /\ i \in 0..k
      BY <2>1
    <3>2. R[i - 1] = T[i - 1] /\ R[i] = T[i] /\ r[i] = s[i]
      BY <1>4, <1>6, <2>1, <3>1
    <3>3. Explains(s[i], T[i - 1], T[i])
      BY <1>7, <2>1
    <3> QED
      BY <3>2, <3>3
  <2>2. CASE i = k + 1
    <3>1. R[i - 1] = u /\ R[i] = v /\ r[i] = m
      <4>1. i - 1 = k /\ k \in 0..k
        BY <2>2
      <4> QED
        BY <1>4, <1>6, <1>7, <2>2, <4>1
    <3> QED
      BY <3>1
  <2> QED
    BY <2>1, <2>2
<1>10. R[0] = t /\ R[Len(r)] = v
  BY <1>4, <1>6, <1>7
<1>11. Leading(R, t, r, v)
  BY <1>4, <1>8, <1>9, <1>10 DEF Leading
<1> QED
  BY <1>2, <1>3, <1>6, <1>11

\* Whatever the models in between were.
LEMMA LeadsAppend ==
  ASSUME NEW s \in Seq(Messages), NEW t, NEW u, Leads(t, s, u), NEW m \in Messages,
         NEW v, Tree(v), Explains(m, u, v)
  PROVE  Leads(t, Append(s, m), v)
<1>1. PICK T : Leading(T, t, s, u)
  BY DEF Leads
<1> QED
  BY <1>1, LeadingAppend DEF Leads

\* The first message leads to a model from which the others go on.
LEMMA LeadingTail ==
  ASSUME NEW s \in Seq(Messages), s # << >>, NEW T, NEW t, NEW u, Leading(T, t, s, u)
  PROVE  /\ Tree(t) /\ Tree(T[1]) /\ Explains(Head(s), t, T[1])
         /\ \E R : /\ Leading(R, T[1], Tail(s), u) /\ R[0] = T[1]
                   /\ \A i \in 0..Len(s) : i # 0 => R[i - 1] = T[i]
<1>2. PICK k \in Nat : Len(s) = k + 1
  <2>1. Len(s) \in Nat /\ Len(s) # 0
    OBVIOUS
  <2>2. Len(s) - 1 \in Nat
    BY <2>1
  <2> QED
    BY <2>2
<1>3. PICK r \in Seq(Messages) : r = Tail(s)
  BY HeadTailProperties
<1>4. Len(r) = k /\ \A i \in 1..k : r[i] = s[i + 1]
  BY <1>2, <1>3
<1>5. PICK R : R = [i \in 0..k |-> T[i + 1]]
  OBVIOUS
<1>6. T[0] = t /\ T[k + 1] = u /\ (\A i \in 0..(k + 1) : Tree(T[i]))
      /\ \A i \in 1..(k + 1) : Explains(s[i], T[i - 1], T[i])
  BY <1>2 DEF Leading
<1>7. ASSUME NEW i \in 0..k PROVE R[i] = T[i + 1] /\ Tree(R[i])
  <2>1. i + 1 \in 0..(k + 1)
    OBVIOUS
  <2> QED
    BY <1>5, <1>6, <2>1
<1>8. ASSUME NEW i \in 1..k PROVE Explains(r[i], R[i - 1], R[i])
  <2>1. i + 1 \in 1..(k + 1) /\ i - 1 \in 0..k /\ i \in 0..k /\ (i - 1) + 1 = i /\ (i + 1) - 1 = i
    OBVIOUS
  <2>2. Explains(s[i + 1], T[(i + 1) - 1], T[i + 1])
    BY <1>6, <2>1
  <2>3. R[i - 1] = T[(i - 1) + 1] /\ R[i] = T[i + 1]
    BY <1>5, <2>1
  <2> QED
    BY <1>4, <2>1, <2>2, <2>3
<1>9. Leading(R, T[1], r, u)
  <2>1. R[0] = T[1] /\ R[k] = u
    BY <1>5, <1>6
  <2> QED
    BY <1>4, <1>7, <1>8, <2>1 DEF Leading
<1>10. Explains(Head(s), t, T[1])
  <2>1. 1 \in 1..(k + 1) /\ 1 - 1 = 0 /\ Head(s) = s[1]
    OBVIOUS
  <2>2. Explains(s[1], T[1 - 1], T[1])
    BY <1>6, <2>1
  <2> QED
    BY <1>6, <2>1, <2>2
<1>11. Tree(t) /\ Tree(T[1])
  <2>1. 0 \in 0..(k + 1) /\ 1 \in 0..(k + 1)
    OBVIOUS
  <2> QED
    BY <1>6, <2>1
<1>12. R[0] = T[1] /\ \A i \in 0..Len(s) : i # 0 => R[i - 1] = T[i]
  <2>1. ASSUME NEW i \in 0..(k + 1), i # 0 PROVE R[i - 1] = T[i]
    <3>1. i - 1 \in 0..k /\ (i - 1) + 1 = i
      BY <2>1
    <3> QED
      BY <1>7, <3>1
  <2>2. 0 \in 0..k /\ 0 + 1 = 1
    OBVIOUS
  <2> QED
    BY <1>2, <1>7, <2>1, <2>2
<1> QED
  BY <1>3, <1>9, <1>10, <1>11, <1>12

\* Whatever the models after it are.
LEMMA LeadsTail ==
  ASSUME NEW s \in Seq(Messages), s # << >>, NEW t, NEW u, Leads(t, s, u)
  PROVE  \E v : Tree(t) /\ Tree(v) /\ Explains(Head(s), t, v) /\ Leads(v, Tail(s), u)
<1>1. PICK T : Leading(T, t, s, u)
  BY DEF Leads
<1>2. Tree(t) /\ Tree(T[1]) /\ Explains(Head(s), t, T[1]) /\ \E R : Leading(R, T[1], Tail(s), u)
  BY <1>1, LeadingTail
<1> QED
  BY <1>2 DEF Leads

\* There is no barrier on the wire; there is at most one.
NoBarrier(s)  == \A i \in 1..Len(s) : s[i].type # "SyncBarrier"
OneBarrier(s) ==
  \A i, j \in 1..Len(s) : s[i].type = "SyncBarrier" /\ s[j].type = "SyncBarrier" => i = j

\* One more message on the wire.
LEMMA BarrierAppended ==
  ASSUME NEW S, NEW s \in Seq(S), NEW m \in S
  PROVE  /\ Append(s, m) \in Seq(S)
         /\ NoBarrier(s) /\ m.type # "SyncBarrier" => NoBarrier(Append(s, m))
         /\ OneBarrier(s) /\ m.type # "SyncBarrier" => OneBarrier(Append(s, m))
         /\ NoBarrier(s) => OneBarrier(Append(s, m))
<1>1. PICK k \in Nat : k = Len(s)
  OBVIOUS
<1>2. PICK r \in Seq(S) : r = Append(s, m)
  BY AppendProperties
<1>3. Len(r) = k + 1 /\ r[k + 1] = m /\ \A i \in 1..k : r[i] = s[i]
  BY <1>1, <1>2
<1>4. ASSUME NEW i \in 1..(k + 1) PROVE i = k + 1 \/ (i \in 1..k /\ r[i] = s[i])
  BY <1>3
<1>5. NoBarrier(s) /\ m.type # "SyncBarrier" => NoBarrier(r)
  BY <1>1, <1>3, <1>4 DEF NoBarrier
<1>6. OneBarrier(s) /\ m.type # "SyncBarrier" => OneBarrier(r)
  BY <1>1, <1>3, <1>4 DEF OneBarrier
<1>7. NoBarrier(s) => OneBarrier(r)
  BY <1>1, <1>3, <1>4 DEF OneBarrier, NoBarrier
<1> QED
  BY <1>2, <1>5, <1>6, <1>7

\* The first message is taken off the wire.
LEMMA BarrierTaken ==
  ASSUME NEW S, NEW s \in Seq(S), s # << >>
  PROVE  /\ Tail(s) \in Seq(S) /\ Head(s) \in S
         /\ NoBarrier(s) => NoBarrier(Tail(s)) /\ Head(s).type # "SyncBarrier"
         /\ OneBarrier(s) => OneBarrier(Tail(s))
         /\ OneBarrier(s) /\ Head(s).type = "SyncBarrier" => NoBarrier(Tail(s))
<1>1. PICK k \in Nat : Len(s) = k + 1
  <2>1. Len(s) \in Nat /\ Len(s) # 0
    OBVIOUS
  <2>2. Len(s) - 1 \in Nat
    BY <2>1
  <2> QED
    BY <2>2
<1>2. PICK r \in Seq(S) : r = Tail(s)
  BY HeadTailProperties
<1>3. Len(r) = k /\ \A i \in 1..k : r[i] = s[i + 1]
  BY <1>1, <1>2
<1>4. Head(s) = s[1] /\ 1 \in 1..(k + 1) /\ s[1] \in S
  BY <1>1
<1>5. \A i \in 1..k : i + 1 \in 1..(k + 1) /\ i + 1 # 1
  OBVIOUS
<1>6. NoBarrier(s) => NoBarrier(r) /\ s[1].type # "SyncBarrier"
  BY <1>1, <1>3, <1>4, <1>5 DEF NoBarrier
<1>7. OneBarrier(s) => OneBarrier(r)
  <2> SUFFICES ASSUME OneBarrier(s), NEW i \in 1..k, NEW j \in 1..k,
                      r[i].type = "SyncBarrier", r[j].type = "SyncBarrier"
               PROVE  i = j
    BY <1>3 DEF OneBarrier
  <2>1. i + 1 = j + 1
    BY <1>1, <1>3, <1>5 DEF OneBarrier
  <2> QED
    BY <2>1
<1>8. OneBarrier(s) /\ s[1].type = "SyncBarrier" => NoBarrier(r)
  <2> SUFFICES ASSUME OneBarrier(s), s[1].type = "SyncBarrier", NEW i \in 1..k, r[i].type = "SyncBarrier"
               PROVE  FALSE
    BY <1>3 DEF NoBarrier
  <2> QED
    BY <1>1, <1>3, <1>4, <1>5 DEF OneBarrier
<1> QED
  BY <1>2, <1>4, <1>6, <1>7, <1>8

\* Several messages go out, none of them a barrier.
LEMMA BarrierConcat ==
  ASSUME NEW S, NEW s \in Seq(S), NEW r \in Seq(S), NoBarrier(r)
  PROVE  /\ s \o r \in Seq(S)
         /\ NoBarrier(s) => NoBarrier(s \o r)
         /\ OneBarrier(s) => OneBarrier(s \o r)
<1>1. PICK k \in Nat : k = Len(s)
  OBVIOUS
<1>2. PICK l \in Nat : l = Len(r)
  OBVIOUS
<1>3. PICK w \in Seq(S) : w = s \o r
  BY ConcatProperties
<1>4. Len(w) = k + l /\ \A i \in 1..(k + l) : w[i] = IF i <= k THEN s[i] ELSE r[i - k]
  BY <1>1, <1>2, <1>3, ConcatProperties
<1>5. ASSUME NEW i \in 1..(k + l)
      PROVE  (i \in 1..k /\ w[i] = s[i]) \/ w[i].type # "SyncBarrier"
  <2>1. CASE i <= k
    BY <1>4, <2>1
  <2>2. CASE ~(i <= k)
    <3>1. i - k \in 1..l /\ w[i] = r[i - k]
      BY <1>4, <2>2
    <3> QED
      BY <1>2, <3>1 DEF NoBarrier
  <2> QED
    BY <2>1, <2>2
<1>6. NoBarrier(s) => NoBarrier(w)
  BY <1>1, <1>4, <1>5 DEF NoBarrier
<1>7. OneBarrier(s) => OneBarrier(w)
  BY <1>1, <1>4, <1>5 DEF OneBarrier
<1> QED
  BY <1>3, <1>6, <1>7

\* A request is none.
LEMMA RequestsOnly ==
  ASSUME NEW s \in Seq(Requests)
  PROVE  s \in Seq(Requests \cup Barriers) /\ NoBarrier(s)
<1>1. \A i \in 1..Len(s) : s[i] \in Requests
  OBVIOUS
<1>2. \A m \in Requests : m.type # "SyncBarrier" /\ m \in Requests \cup Barriers
  BY DEF Requests
<1>3. NoBarrier(s)
  BY <1>1, <1>2 DEF NoBarrier
<1>4. s \in Seq(Requests \cup Barriers)
  BY <1>1, <1>2
<1> QED
  BY <1>3, <1>4

-----------------------------------------------------------------------------
(***************************************************************************)
(* Requests and replies under way.                                         *)
(***************************************************************************)

\* A request or a reply that concerns what q waits for.
Concerns(m, k, q) ==
  \/ k = "count" /\ m.type \in {"RowColumnCountRequest", "RowColumnCountReply"} /\ m.index = q
  \/ k = "content" /\ m.type \in {"ContentRequest", "ContentReply"} /\ m.index = q

\* No barrier comes after the first i messages; one of those concerns what q waits for.
Open(s, i)     == \A j \in 1..Len(s) : j > i => s[j].type # "SyncBarrier"
Holds(s, k, q) == \E i \in 1..Len(s) : Concerns(s[i], k, q) /\ Open(s, i)

\* A barrier concerns nobody.
LEMMA BarrierConcerns ==
  ASSUME NEW m, NEW k, NEW q, Concerns(m, k, q)
  PROVE  m.type # "SyncBarrier"
  BY DEF Concerns

\* The whole wire is open where no barrier is left.
LEMMA OpenIs ==
  ASSUME NEW S, NEW s \in Seq(S)
  PROVE  /\ Open(s, 0) <=> NoBarrier(s)
         /\ Open(s, Len(s)) /\ Len(s) \in 0..Len(s)
         /\ NoBarrier(s) => \A i : Open(s, i)
<1>1. PICK k \in Nat : k = Len(s)
  OBVIOUS
<1>2. \A j \in 1..k : j > 0 /\ ~(j > k)
  OBVIOUS
<1>3. k \in 0..k
  OBVIOUS
<1> QED
  BY <1>1, <1>2, <1>3 DEF Open, NoBarrier

\* One more message, not a barrier.
LEMMA HoldsAppended ==
  ASSUME NEW S, NEW s \in Seq(S), NEW m \in S, m.type # "SyncBarrier"
  PROVE  /\ \A i \in 0..Len(s) : i \in 0..Len(Append(s, m)) /\ (Open(s, i) => Open(Append(s, m), i))
         /\ \A k, q : Holds(s, k, q) => Holds(Append(s, m), k, q)
         /\ \A k, q : Concerns(m, k, q) => Holds(Append(s, m), k, q)
<1>1. PICK l \in Nat : l = Len(s)
  OBVIOUS
<1>2. PICK r \in Seq(S) : r = Append(s, m)
  BY AppendProperties
<1>3. Len(r) = l + 1 /\ r[l + 1] = m /\ \A i \in 1..l : r[i] = s[i]
  BY <1>1, <1>2
<1>4. ASSUME NEW j \in 1..(l + 1) PROVE j = l + 1 \/ (j \in 1..l /\ r[j] = s[j])
  BY <1>3
<1>5. ASSUME NEW i, Open(s, i) PROVE Open(r, i)
  BY <1>1, <1>3, <1>4, <1>5 DEF Open
<1>6. \A i \in 0..l : i \in 0..(l + 1)
  OBVIOUS
<1>7. ASSUME NEW k, NEW q, Holds(s, k, q) PROVE Holds(r, k, q)
  <2>1. PICK i \in 1..l : Concerns(s[i], k, q) /\ Open(s, i)
    BY <1>1, <1>7 DEF Holds
  <2>2. i \in 1..(l + 1) /\ Concerns(r[i], k, q) /\ Open(r, i)
    BY <1>3, <1>5, <2>1
  <2> QED
    BY <1>3, <2>2 DEF Holds
<1>8. ASSUME NEW k, NEW q, Concerns(m, k, q) PROVE Holds(r, k, q)
  <2>1. Open(r, l + 1)
    <3>1. \A j \in 1..(l + 1) : ~(j > l + 1)
      OBVIOUS
    <3> QED
      BY <1>3, <3>1 DEF Open
  <2>2. l + 1 \in 1..(l + 1) /\ Concerns(r[l + 1], k, q)
    BY <1>3, <1>8
  <2> QED
    BY <1>3, <2>1, <2>2 DEF Holds
<1>9. \A i \in 0..l : i \in 0..Len(r) /\ (Open(s, i) => Open(r, i))
  BY <1>3, <1>5, <1>6
<1> QED
  BY <1>1, <1>2, <1>7, <1>8, <1>9

\* The first message is taken.
LEMMA HoldsTaken ==
  ASSUME NEW S, NEW s \in Seq(S), s # << >>
  PROVE  /\ \A i \in 0..Len(s) : i # 0 => i - 1 \in 0..Len(Tail(s)) /\ (Open(s, i) => Open(Tail(s), i - 1))
         /\ \A k, q : Holds(s, k, q) =>
              Holds(Tail(s), k, q) \/ (Concerns(Head(s), k, q) /\ NoBarrier(s))
<1>1. PICK l \in Nat : Len(s) = l + 1
  <2>1. Len(s) \in Nat /\ Len(s) # 0
    OBVIOUS
  <2>2. Len(s) - 1 \in Nat
    BY <2>1
  <2> QED
    BY <2>2
<1>2. PICK r \in Seq(S) : r = Tail(s)
  BY HeadTailProperties
<1>3. Len(r) = l /\ \A i \in 1..l : r[i] = s[i + 1]
  BY <1>1, <1>2
<1>4. Head(s) = s[1] /\ 1 \in 1..(l + 1)
  BY <1>1
<1>5. ASSUME NEW i \in Nat, NEW j \in Nat, i = j + 1, Open(s, i)
      PROVE  Open(r, j)
  <2> SUFFICES ASSUME NEW h \in 1..l, h > j PROVE r[h].type # "SyncBarrier"
    BY <1>3 DEF Open
  <2>1. PICK g \in 1..(l + 1) : g = h + 1 /\ g > i
    BY <1>5
  <2> QED
    BY <1>1, <1>3, <1>5, <2>1 DEF Open
<1>6. ASSUME NEW i \in 0..(l + 1), i # 0
      PROVE  i - 1 \in 0..l /\ (Open(s, i) => Open(r, i - 1))
  <2>1. PICK j \in 0..l : i = j + 1 /\ i - 1 = j
    BY <1>6
  <2> QED
    BY <1>5, <2>1
<1>7. ASSUME NEW k, NEW q, Holds(s, k, q)
      PROVE  Holds(r, k, q) \/ (Concerns(s[1], k, q) /\ NoBarrier(s))
  <2>1. PICK i \in 1..(l + 1) : Concerns(s[i], k, q) /\ Open(s, i)
    BY <1>1, <1>7 DEF Holds
  <2>2. CASE i = 1
    <3>1. \A j \in 1..(l + 1) : j = 1 \/ j > 1
      OBVIOUS
    <3>2. s[1].type # "SyncBarrier"
      BY <2>1, <2>2, BarrierConcerns
    <3>3. NoBarrier(s)
      BY <1>1, <2>1, <2>2, <3>1, <3>2 DEF NoBarrier, Open
    <3> QED
      BY <2>1, <2>2, <3>3
  <2>3. CASE i # 1
    <3>1. PICK j \in 1..l : i = j + 1
      BY <2>3
    <3>2. Concerns(r[j], k, q) /\ Open(r, j)
      BY <1>3, <1>5, <2>1, <3>1
    <3> QED
      BY <1>3, <3>2 DEF Holds
  <2> QED
    BY <2>2, <2>3
<1> QED
  BY <1>1, <1>2, <1>3, <1>4, <1>6, <1>7

\* Requests go out after those on the wire.
LEMMA HoldsConcat ==
  ASSUME NEW S, NEW s \in Seq(S), NEW r \in Seq(S), NoBarrier(r)
  PROVE  \A k, q : Holds(s, k, q) \/ Holds(r, k, q) => Holds(s \o r, k, q)
<1>1. PICK l \in Nat : l = Len(s)
  OBVIOUS
<1>2. PICK h \in Nat : h = Len(r)
  OBVIOUS
<1>3. PICK w \in Seq(S) : w = s \o r
  BY ConcatProperties
<1>4. Len(w) = l + h /\ \A i \in 1..(l + h) : w[i] = IF i <= l THEN s[i] ELSE r[i - l]
  BY <1>1, <1>2, <1>3, ConcatProperties
<1>5. ASSUME NEW j \in 1..(l + h)
      PROVE  (j \in 1..l /\ w[j] = s[j]) \/ w[j].type # "SyncBarrier"
  <2>1. CASE j <= l
    BY <1>4, <2>1
  <2>2. CASE ~(j <= l)
    <3>1. j - l \in 1..h /\ w[j] = r[j - l]
      BY <1>4, <2>2
    <3> QED
      BY <1>2, <3>1 DEF NoBarrier
  <2> QED
    BY <2>1, <2>2
<1>6. ASSUME NEW k, NEW q, Holds(s, k, q) PROVE Holds(w, k, q)
  <2>1. PICK i \in 1..l : Concerns(s[i], k, q) /\ Open(s, i)
    BY <1>1, <1>6 DEF Holds
  <2>2. i \in 1..(l + h) /\ w[i] = s[i]
    BY <1>4
  <2>3. Open(w, i)
    BY <1>1, <1>4, <1>5, <2>1 DEF Open
  <2> QED
    BY <1>4, <2>1, <2>2, <2>3 DEF Holds
<1>7. ASSUME NEW k, NEW q, Holds(r, k, q) PROVE Holds(w, k, q)
  <2>1. PICK i \in 1..h : Concerns(r[i], k, q)
    BY <1>2, <1>7 DEF Holds
  <2>2. PICK j \in 1..(l + h) : j = l + i
    OBVIOUS
  <2>3. w[j] = r[i]
    <3>1. ~(j <= l) /\ j - l = i
      BY <2>2
    <3> QED
      BY <1>4, <3>1
  <2>4. Open(w, j)
    <3>1. ASSUME NEW g \in 1..(l + h), g > j PROVE g \notin 1..l
      BY <2>2, <3>1
    <3> QED
      BY <1>4, <1>5, <3>1 DEF Open
  <2> QED
    BY <1>4, <2>1, <2>3, <2>4 DEF Holds
<1> QED
  BY <1>3, <1>6, <1>7

\* What of two queues of requests concerns q is in one of them.
LEMMA HoldsPart ==
  ASSUME NEW s \in Seq(Requests), NEW r \in Seq(Requests), NEW k, NEW q, Holds(s \o r, k, q)
  PROVE  Holds(s, k, q) \/ Holds(r, k, q)
<1>1. PICK l \in Nat : l = Len(s)
  OBVIOUS
<1>2. PICK h \in Nat : h = Len(r)
  OBVIOUS
<1>3. PICK w \in Seq(Requests) : w = s \o r
  BY ConcatProperties
<1>4. Len(w) = l + h /\ \A i \in 1..(l + h) : w[i] = IF i <= l THEN s[i] ELSE r[i - l]
  BY <1>1, <1>2, <1>3, ConcatProperties
<1>5. PICK i \in 1..(l + h) : Concerns(w[i], k, q)
  BY <1>3, <1>4 DEF Holds
<1>6. (\A j : Open(s, j)) /\ \A j : Open(r, j)
  BY RequestsOnly, OpenIs
<1>7. CASE i <= l
  <2>1. i \in 1..l /\ w[i] = s[i]
    BY <1>4, <1>7
  <2> QED
    BY <1>1, <1>5, <1>6, <2>1 DEF Holds
<1>8. CASE ~(i <= l)
  <2>1. PICK j \in 1..h : j = i - l /\ w[i] = r[j]
    BY <1>4, <1>8
  <2> QED
    BY <1>2, <1>5, <1>6, <2>1 DEF Holds
<1> QED
  BY <1>7, <1>8

\* All barriers of the wire have the number b.
Bars(s, b) == \A i \in 1..Len(s) : s[i].type = "SyncBarrier" => s[i].id = b

\* Barriers that are on the wire stay there until they are taken.
LEMMA BarsAppended ==
  ASSUME NEW S, NEW s \in Seq(S), NEW m \in S, NEW b
  PROVE  /\ Bars(s, b) /\ (m.type = "SyncBarrier" => m.id = b) => Bars(Append(s, m), b)
         /\ ~NoBarrier(s) \/ m.type = "SyncBarrier" => ~NoBarrier(Append(s, m))
<1>1. PICK l \in Nat : l = Len(s)
  OBVIOUS
<1>2. PICK r \in Seq(S) : r = Append(s, m)
  BY AppendProperties
<1>3. Len(r) = l + 1 /\ r[l + 1] = m /\ \A i \in 1..l : r[i] = s[i]
  BY <1>1, <1>2
<1>4. \A i \in 1..(l + 1) : i = l + 1 \/ i \in 1..l
  OBVIOUS
<1>5. l + 1 \in 1..(l + 1) /\ \A i \in 1..l : i \in 1..(l + 1)
  OBVIOUS
<1>6. Bars(s, b) /\ (m.type = "SyncBarrier" => m.id = b) => Bars(r, b)
  BY <1>1, <1>3, <1>4 DEF Bars
<1>7. ~NoBarrier(s) \/ m.type = "SyncBarrier" => ~NoBarrier(r)
  BY <1>1, <1>3, <1>5 DEF NoBarrier
<1> QED
  BY <1>2, <1>6, <1>7

\* All that are there are the same one, and still are when a message is taken.
LEMMA BarsTaken ==
  ASSUME NEW S, NEW s \in Seq(S), s # << >>, NEW b
  PROVE  /\ Bars(s, b) => Bars(Tail(s), b)
         /\ Bars(s, b) /\ Head(s).type = "SyncBarrier" => Head(s).id = b
         /\ ~NoBarrier(s) => ~NoBarrier(Tail(s)) \/ Head(s).type = "SyncBarrier"
<1>1. PICK l \in Nat : Len(s) = l + 1
  <2>1. Len(s) \in Nat /\ Len(s) # 0
    OBVIOUS
  <2>2. Len(s) - 1 \in Nat
    BY <2>1
  <2> QED
    BY <2>2
<1>2. PICK r \in Seq(S) : r = Tail(s)
  BY HeadTailProperties
<1>3. Len(r) = l /\ \A i \in 1..l : r[i] = s[i + 1]
  BY <1>1, <1>2
<1>4. Head(s) = s[1] /\ 1 \in 1..(l + 1)
  BY <1>1
<1>5. \A i \in 1..l : i + 1 \in 1..(l + 1)
  OBVIOUS
<1>6. Bars(s, b) => Bars(r, b)
  BY <1>1, <1>3, <1>5 DEF Bars
<1>7. Bars(s, b) /\ s[1].type = "SyncBarrier" => s[1].id = b
  BY <1>1, <1>4 DEF Bars
<1>8. ASSUME NoBarrier(r), s[1].type # "SyncBarrier" PROVE NoBarrier(s)
  <2> SUFFICES ASSUME NEW i \in 1..(l + 1) PROVE s[i].type # "SyncBarrier"
    BY <1>1 DEF NoBarrier
  <2>1. CASE i = 1
    BY <1>8, <2>1
  <2>2. CASE i # 1
    <3>1. PICK j \in 1..l : i = j + 1
      BY <2>2
    <3> QED
      BY <1>3, <1>8, <3>1 DEF NoBarrier
  <2> QED
    BY <2>1, <2>2
<1> QED
  BY <1>2, <1>4, <1>6, <1>7, <1>8

\* Requests add none.
LEMMA BarsConcat ==
  ASSUME NEW S, NEW s \in Seq(S), NEW r \in Seq(S), NoBarrier(r), NEW b
  PROVE  /\ Bars(s, b) => Bars(s \o r, b)
         /\ NoBarrier(s) <=> NoBarrier(s \o r)
<1>1. PICK l \in Nat : l = Len(s)
  OBVIOUS
<1>2. PICK h \in Nat : h = Len(r)
  OBVIOUS
<1>3. PICK w \in Seq(S) : w = s \o r
  BY ConcatProperties
<1>4. Len(w) = l + h /\ \A i \in 1..(l + h) : w[i] = IF i <= l THEN s[i] ELSE r[i - l]
  BY <1>1, <1>2, <1>3, ConcatProperties
<1>5. ASSUME NEW j \in 1..(l + h)
      PROVE  (j \in 1..l /\ w[j] = s[j]) \/ w[j].type # "SyncBarrier"
  <2>1. CASE j <= l
    BY <1>4, <2>1
  <2>2. CASE ~(j <= l)
    <3>1. j - l \in 1..h /\ w[j] = r[j - l]
      BY <1>4, <2>2
    <3> QED
      BY <1>2, <3>1 DEF NoBarrier
  <2> QED
    BY <2>1, <2>2
<1>6. \A j \in 1..l : j \in 1..(l + h) /\ w[j] = s[j]
  BY <1>4
<1>7. Bars(s, b) => Bars(w, b)
  BY <1>1, <1>4, <1>5 DEF Bars
<1>8. NoBarrier(s) => NoBarrier(w)
  BY <1>1, <1>4, <1>5 DEF NoBarrier
<1>9. NoBarrier(w) => NoBarrier(s)
  BY <1>1, <1>4, <1>6 DEF NoBarrier
<1> QED
  BY <1>3, <1>7, <1>8, <1>9

-----------------------------------------------------------------------------
(***************************************************************************)
(* The inductive invariant.                                                *)
(***************************************************************************)

Typed ==
  /\ changes \in Nat
  /\ toServer \in Seq(Requests \cup Barriers) /\ toClient \in Seq(Messages)
  /\ pending \in [count : Seq(Requests), data : Seq(Requests)]
  /\ current \in Int /\ target \in Int

\* A barrier is under way only when the client waits for it.
LoneBarrier ==
  /\ OneBarrier(toServer) /\ OneBarrier(toClient) /\ (NoBarrier(toServer) \/ NoBarrier(toClient))
  /\ Settled => NoBarrier(toServer) /\ NoBarrier(toClient)

\* It has forgotten all while it waits.
Forgot == ~Settled => \A q \in DOMAIN client : Blank(client[q])

\* The copy is right, of a model that what is on the wire leads on to the present one.
Heard == ~fault => \E t : Copies(client, t) /\ Leads(t, toClient, model)

IInv == Typed /\ LoneBarrier /\ Tree(model) /\ Structured(client) /\ Forgot /\ Heard

\* A request or a reply is under way that concerns what q waits for, or is collected.
UnderWay(k, q) ==
  \/ Holds(Flushed(pending), k, q) \/ Holds(toServer, k, q)
  \/ NoBarrier(toServer) /\ Holds(toClient, k, q)

\* q is not in all of the models that the messages after the last barrier go through.
Absent(T, q) ==
  NoBarrier(toServer) /\ \E i \in 0..Len(toClient) : Open(toClient, i) /\ q \notin DOMAIN T[i]

\* Nobody waits for nothing, except for rows that resetLoadingState() is about to reach.
Supplied(T) ==
  \A k, q : Waits(client, k, q) /\ ~Reaches(unreset, q) => UnderWay(k, q) \/ Absent(T, q)

Answerable == ~fault => \E T : Copies(client, T[0]) /\ Leading(T, T[0], toClient, model) /\ Supplied(T)

\* While the client waits for a barrier it is under way, and it is the last that was sent.
Barred ==
  /\ ~Settled => ~NoBarrier(toServer) \/ ~NoBarrier(toClient)
  /\ Bars(toServer, target) /\ Bars(toClient, target)

Supply == Barred /\ (Single => Answerable)

\* Who knows nothing knows nothing wrong.
LEMMA CopyBlank ==
  ASSUME NEW c, \A q \in DOMAIN c : Blank(c[q]), NEW t
  PROVE  Copies(c, t)
  BY DEF Copies, Blank

\* A model without rows, and a model of rows without rows.
LEMMA RootIsTree ==
  LET t == [p \in {Root} |-> [value |-> None, header |-> None, leaf |-> FALSE]]
  IN  Tree(t) /\ Root \in DOMAIN t /\ ~t[Root].leaf /\ Counted(t, Root, 0)
<1>1. PICK t : t = [p \in {Root} |-> [value |-> None, header |-> None, leaf |-> FALSE]]
  OBVIOUS
<1>2. DOMAIN t = {Root} /\ t[Root] \in RowOfModel /\ t[Root].leaf = FALSE /\ Root \in Path
  <2>1. DOMAIN t = {Root} /\ t[Root] = [value |-> 0, header |-> 0, leaf |-> FALSE]
    BY <1>1 DEF None
  <2>2. Root \in Path
    BY DEF Root, Path
  <2> QED
    BY <2>1, <2>2 DEF RowOfModel
<1>3. \A q \in Path, i \in Nat : RowAt(q, i) \notin DOMAIN t
  BY <1>2, ChildIs
<1>4. Closure(t)
  BY <1>2, <1>3 DEF Closure
<1>5. Idx(t, Root) = {}
  BY <1>2, <1>3 DEF Idx
<1>6. PICK z \in Nat : z = 0
  OBVIOUS
<1>7. \A i \in Nat : ~(i < z)
  BY <1>6
<1>8. Counted(t, Root, z)
  BY <1>5, <1>7, CountedIs
<1>9. Tree(t)
  BY <1>2, <1>4, <1>6, <1>8 DEF Tree, Countable
<1> QED
  BY <1>1, <1>2, <1>6, <1>8, <1>9

\* The rows the target inserts.
LEMMA NewRowIs ==
  ASSUME NEW k \in Nat, NEW n \in Nat, NEW j \in Nat, NEW leaf \in Leaves
  PROVE  \A i \in 1..n : [l \in 1..n |-> NewRow(k, l + j, leaf)][i] \in RowOfModel
<1>1. MaxRows \in Nat /\ leaf \in BOOLEAN
  BY RemoteModelAssumption
<1>2. PICK v \in Int : v = k * (MaxRows + 1)
  BY <1>1
<1>3. \A l \in Int : Value(k, l) \in Int
  BY <1>2 DEF Value
<1>4. \A l \in Int : NewRow(k, l, leaf) \in RowOfModel
  BY <1>1, <1>3 DEF NewRow, RowOfModel
<1> QED
  BY <1>4

\* A model of n rows, as after a reset.
LEMMA FlatIsTree ==
  ASSUME NEW k \in Nat, NEW n \in Nat, NEW leaf \in BOOLEAN, NEW t, t = FlatModel(k, n, leaf)
  PROVE  /\ Tree(t)
         /\ n > 0 => /\ RowAt(Root, 0) \in DOMAIN t /\ t[RowAt(Root, 0)].leaf = leaf
                     /\ Counted(t, RowAt(Root, 0), 0)
<1>1. MaxRows \in Nat
  BY RemoteModelAssumption
<1>2. PICK v \in Int : v = k * (MaxRows + 1)
  BY <1>1
<1>3. \A l \in Int : Value(k, l) \in Int
  BY <1>2 DEF Value
<1>4. \A l \in Int : NewRow(k, l, leaf) \in RowOfModel /\ NewRow(k, l, leaf).leaf = leaf
  BY <1>3 DEF NewRow, RowOfModel
<1>5. PICK new : new = [i \in 1..n |-> NewRow(k, i, leaf)]
  OBVIOUS
<1>6. \A i \in 1..n : new[i] \in RowOfModel /\ new[i].leaf = leaf
  BY <1>4, <1>5
<1>7. PICK r : r = [p \in {Root} |-> [value |-> None, header |-> None, leaf |-> FALSE]]
  OBVIOUS
<1>8. Tree(r) /\ Root \in DOMAIN r /\ ~r[Root].leaf /\ Counted(r, Root, 0)
  BY <1>7, RootIsTree
<1>9. t = Filled(r, Root, 0, n, new)
  BY <1>5, <1>7 DEF FlatModel
<1>10. Tree(t)
  BY <1>6, <1>8, <1>9, TreeFilled
<1>11. \A i \in Nat : i < n => t[RowAt(Root, i)] = new[i + 1] /\ Counted(t, RowAt(Root, i), 0)
  BY <1>6, <1>8, <1>9, TreeFilled
<1>12. Counted(t, Root, n)
  BY <1>6, <1>8, <1>9, TreeFilled
<1>13. ASSUME n > 0
       PROVE  /\ RowAt(Root, 0) \in DOMAIN t /\ t[RowAt(Root, 0)].leaf = leaf
              /\ Counted(t, RowAt(Root, 0), 0)
  <2>1. PICK z \in Nat : z = 0 /\ z < n /\ z + 1 \in 1..n
    BY <1>13
  <2>2. z \in Idx(t, Root)
    BY <1>12, <2>1, CountedIs
  <2>3. t[RowAt(Root, z)] = new[z + 1] /\ Counted(t, RowAt(Root, z), 0)
    BY <1>11, <2>1
  <2> QED
    BY <1>6, <2>1, <2>2, <2>3 DEF Idx
<1> QED
  BY <1>10, <1>13

\* What clear() leaves.
LEMMA NewRootIs ==
  /\ Structured(NewRoot) /\ (\A q \in DOMAIN NewRoot : Blank(NewRoot[q]))
  /\ NewRoot[Root].rows = -1
<1>1. PICK c : c = NewRoot
  OBVIOUS
<1>2. DOMAIN c = {Root} /\ c[Root] = NewNode
  BY <1>1, NewIsBlank
<1>3. Root \in Path
  BY DEF Root, Path
<1>4. \A q \in Path, i \in Nat : RowAt(q, i) \notin DOMAIN c
  BY <1>2, ChildIs
<1>5. Idx(c, Root) = {}
  BY <1>3, <1>4 DEF Idx
<1>6. PICK m \in Int : m = -1 /\ \A i \in Nat : ~(i < m)
  OBVIOUS
<1>7. Counted(c, Root, m)
  BY <1>5, <1>6, CountedIs
<1>8. Structured(c)
  BY <1>2, <1>3, <1>4, <1>6, <1>7, NewIsBlank DEF Structured, Closure
<1> QED
  BY <1>1, <1>2, <1>8, NewIsBlank

\* What the client may find is a model.
LEMMA StartIsTree ==
  ASSUME NEW t \in StartModels
  PROVE  Tree(t)
<1>1. MaxRows \in Nat /\ Leaves \subseteq BOOLEAN
  BY RemoteModelAssumption
<1>2. PICK z \in Nat : z = 0
  OBVIOUS
<1>3. ASSUME NEW n \in 1..MaxRows, NEW leaf \in Leaves, t = FlatModel(0, n, leaf)
      PROVE  Tree(t)
  <2>1. n \in Nat /\ leaf \in BOOLEAN /\ t = FlatModel(z, n, leaf)
    BY <1>1, <1>2, <1>3
  <2> QED
    BY <2>1, FlatIsTree
<1>4. ASSUME NEW n \in Nat, NEW leaf \in Leaves, t = DeepModel(n, leaf)
      PROVE  Tree(t)
  <2>1. PICK j \in Nat : j = 1
    OBVIOUS
  <2>2. PICK b \in BOOLEAN : b = FALSE
    OBVIOUS
  <2>3. PICK r : r = FlatModel(z, j, b)
    OBVIOUS
  <2>4. j > 0
    BY <2>1
  <2>5. /\ Tree(r) /\ RowAt(Root, 0) \in DOMAIN r /\ r[RowAt(Root, 0)].leaf = b
        /\ Counted(r, RowAt(Root, 0), 0)
    BY <2>3, <2>4, FlatIsTree
  <2>6. PICK new : new = [i \in 1..n |-> NewRow(z, i + j, leaf)]
    OBVIOUS
  <2>7. \A i \in 1..n : new[i] \in RowOfModel
    BY <2>6, NewRowIs
  <2>8. PICK p : p = RowAt(Root, 0)
    OBVIOUS
  <2>9. t = Filled(r, p, 0, n, new)
    BY <1>2, <1>4, <2>1, <2>2, <2>3, <2>6, <2>8 DEF DeepModel
  <2>10. Tree(r) /\ p \in DOMAIN r /\ ~r[p].leaf /\ Counted(r, p, 0)
    BY <2>2, <2>5, <2>8
  <2> QED
    BY <2>7, <2>9, <2>10, TreeFilled
<1>5. \/ \E n \in 1..MaxRows, leaf \in Leaves : t = FlatModel(0, n, leaf)
      \/ \E n \in Nat, leaf \in Leaves : t = DeepModel(n, leaf)
  BY <1>1 DEF StartModels
<1> QED
  BY <1>3, <1>4, <1>5

\* Nothing is on the wire, and the client knows nothing.
LEMMA InitInvariant ==
  ASSUME Init
  PROVE  IInv /\ Supply
<1>1. toServer = << >> /\ toClient = << >> /\ pending = [count |-> << >>, data |-> << >>]
      /\ changes = 0 /\ current = 0 /\ target = 0 /\ client = NewRoot /\ model \in StartModels
  BY DEF Init
<1>2. Typed
  <2>1. << >> \in Seq(Requests \cup Barriers) /\ << >> \in Seq(Messages) /\ << >> \in Seq(Requests)
    OBVIOUS
  <2> QED
    BY <1>1, <2>1 DEF Typed
<1>3. LoneBarrier
  BY <1>1 DEF LoneBarrier, OneBarrier, NoBarrier
<1>4. Tree(model)
  BY <1>1, StartIsTree
<1>5. Structured(client) /\ \A q \in DOMAIN client : Blank(client[q])
  BY <1>1, NewRootIs
<1>6. Forgot
  BY <1>5 DEF Forgot
<1>7. Heard
  <2>1. Copies(client, model)
    BY <1>5, CopyBlank
  <2>2. Leads(model, toClient, model)
    BY <1>1, <1>4, LeadsNothing
  <2> QED
    BY <2>1, <2>2 DEF Heard
<1>8. Barred
  BY <1>1 DEF Barred, Settled, Bars
<1>9. Answerable
  <2>1. PICK T : T = [i \in {0} |-> model]
    OBVIOUS
  <2>2. T[0] = model /\ Leading(T, T[0], toClient, model)
    BY <1>1, <1>4, <2>1 DEF Leading
  <2>3. Copies(client, T[0])
    BY <1>5, CopyBlank
  <2>4. Supplied(T)
    BY <1>1, NewRootWaits DEF Supplied
  <2> QED
    BY <2>2, <2>3, <2>4 DEF Answerable
<1> QED
  BY <1>2, <1>3, <1>4, <1>5, <1>6, <1>7, <1>8, <1>9 DEF IInv, Supply

-----------------------------------------------------------------------------
(* The server: what it sends says what happened to the model. *)

\* Whoever waits for an answer waits for this one, or goes on waiting for another.
LEMMA SupplyTold ==
  ASSUME IInv, Supply, NEW m \in Messages, Tree(model'), Explains(m, model, model'),
         toClient' = Append(toClient, m), m.type # "SyncBarrier",
         \/ toServer' = toServer
         \/ /\ toServer # << >> /\ toServer' = Tail(toServer) /\ Head(toServer).type # "SyncBarrier"
            /\ \A k, q : Concerns(Head(toServer), k, q) => Concerns(m, k, q),
         UNCHANGED <<client, pending, current, target, unreset, fault>>
  PROVE  Supply'
<1>1. Typed /\ Barred /\ (Single => Answerable)
  BY DEF IInv, Supply
<1>2. toServer \in Seq(Requests \cup Barriers) /\ toClient \in Seq(Messages)
  BY <1>1 DEF Typed
<1>3. /\ NoBarrier(toServer) <=> NoBarrier(toServer')
      /\ Bars(toServer, target) => Bars(toServer', target)
  BY <1>2, BarrierTaken, BarsTaken
<1>4. /\ ~NoBarrier(toClient) => ~NoBarrier(toClient')
      /\ Bars(toClient, target) => Bars(toClient', target)
  BY <1>2, BarsAppended
<1>5. Barred'
  BY <1>1, <1>3, <1>4 DEF Barred, Settled
<1>6. ASSUME Single, ~fault
      PROVE  \E T : Copies(client, T[0]) /\ Leading(T, T[0], toClient', model') /\ Supplied(T)'
  <2>1. PICK T : Copies(client, T[0]) /\ Leading(T, T[0], toClient, model) /\ Supplied(T)
    BY <1>1, <1>6 DEF Answerable
  <2>2. PICK R : Leading(R, T[0], toClient', model') /\ \A i \in 0..Len(toClient) : R[i] = T[i]
    BY <1>2, <2>1, LeadingAppend
  <2>3. R[0] = T[0]
    BY <2>2 DEF Leading
  <2>4. ASSUME NEW k, NEW q, Waits(client, k, q), ~Reaches(unreset, q)
        PROVE  UnderWay(k, q)' \/ Absent(R, q)'
    <3>1. UnderWay(k, q) \/ Absent(T, q)
      BY <2>1, <2>4 DEF Supplied
    <3>2. CASE Holds(Flushed(pending), k, q)
      BY <3>2 DEF UnderWay
    <3>3. CASE Holds(toServer, k, q)
      <4>1. Holds(toServer', k, q) \/ (Concerns(m, k, q) /\ NoBarrier(toServer))
        BY <1>2, <3>3, HoldsTaken
      <4>2. Concerns(m, k, q) => Holds(toClient', k, q)
        BY <1>2, HoldsAppended
      <4> QED
        BY <1>3, <4>1, <4>2 DEF UnderWay
    <3>4. CASE NoBarrier(toServer) /\ Holds(toClient, k, q)
      <4>1. Holds(toClient', k, q)
        BY <1>2, <3>4, HoldsAppended
      <4> QED
        BY <1>3, <3>4, <4>1 DEF UnderWay
    <3>5. CASE Absent(T, q)
      <4>1. PICK i \in 0..Len(toClient) : Open(toClient, i) /\ q \notin DOMAIN T[i]
        BY <3>5 DEF Absent
      <4>2. i \in 0..Len(toClient') /\ Open(toClient', i)
        BY <1>2, <4>1, HoldsAppended
      <4>3. q \notin DOMAIN R[i]
        BY <2>2, <4>1
      <4> QED
        BY <1>3, <3>5, <4>2, <4>3 DEF Absent
    <3> QED
      BY <3>1, <3>2, <3>3, <3>4, <3>5 DEF UnderWay
  <2>5. Supplied(R)'
    BY <2>4 DEF Supplied
  <2> QED
    BY <2>1, <2>2, <2>3, <2>5
<1>7. Single => Answerable'
  BY <1>6 DEF Answerable
<1> QED
  BY <1>5, <1>7 DEF Supply

\* The model changes, and a message tells of it; or a reply goes out.
LEMMA Told ==
  ASSUME IInv, NEW m \in Messages, Tree(model'), Explains(m, model, model'), changes' \in Nat,
         toClient' = Append(toClient, m),
         m.type # "SyncBarrier",
         \/ toServer' = toServer
         \/ /\ toServer # << >> /\ toServer' = Tail(toServer) /\ Head(toServer).type # "SyncBarrier"
            /\ \A k, q : Concerns(Head(toServer), k, q) => Concerns(m, k, q),
         UNCHANGED <<client, pending, current, target, unreset, fault>>
  PROVE  IInv' /\ (Supply => Supply')
<1>1. Typed /\ LoneBarrier /\ Tree(model) /\ Structured(client) /\ Forgot /\ Heard
  BY DEF IInv
<1>2. /\ toServer' \in Seq(Requests \cup Barriers)
      /\ NoBarrier(toServer) => NoBarrier(toServer')
      /\ OneBarrier(toServer) => OneBarrier(toServer')
  BY <1>1, BarrierTaken DEF Typed
<1>3. /\ toClient' \in Seq(Messages)
      /\ NoBarrier(toClient) => NoBarrier(toClient')
      /\ OneBarrier(toClient) => OneBarrier(toClient')
  BY <1>1, BarrierAppended DEF Typed
<1>4. Typed'
  BY <1>1, <1>2, <1>3 DEF Typed
<1>5. LoneBarrier'
  BY <1>1, <1>2, <1>3 DEF LoneBarrier, Settled
<1>6. Heard'
  <2> SUFFICES ASSUME ~fault PROVE \E t : Copies(client', t) /\ Leads(t, toClient', model')
    BY DEF Heard
  <2>1. PICK t : Copies(client, t) /\ Leads(t, toClient, model)
    BY <1>1 DEF Heard
  <2>2. Leads(t, Append(toClient, m), model')
    BY <1>1, <2>1, LeadsAppend DEF Typed
  <2> QED
    BY <2>1, <2>2
<1>7. Structured(client)' /\ Forgot'
  BY <1>1 DEF Forgot, Settled
<1>8. IInv'
  BY <1>4, <1>5, <1>6, <1>7 DEF IInv
<1> QED
  BY <1>8, SupplyTold

\* The rows of a model, counted.
LEMMA RowsOfTree ==
  ASSUME NEW t, Tree(t), NEW p \in DOMAIN t
  PROVE  p \in Path /\ \E k \in Nat : Counted(t, p, k) /\ RowCount(t, p) = k
<1>1. Closure(t) /\ p \in Path /\ DOMAIN t \subseteq Path
  BY DEF Tree, Closure
<1>2. PICK k \in Nat : Counted(t, p, k)
  BY DEF Tree, Countable
<1>3. RowCount(t, p) = k
  BY <1>1, <1>2, CountIs
<1> QED
  BY <1>1, <1>2, <1>3

\* The server tells of new rows, RowsAdded.
LEMMA TellsInsertRows ==
  ASSUME IInv, InsertRows
  PROVE  IInv' /\ (Supply => Supply')
<1>1. Tree(model) /\ changes \in Nat /\ changes' = changes + 1
  BY DEF IInv, Typed, InsertRows, Changing
<1>2. PICK p \in DOMAIN model, n \in 1..MaxAmount, leaf \in Leaves : \E f \in 0..RowCount(model, p) :
        /\ ~model[p].leaf
        /\ model' = Inserted(model, p, f, n, [i \in 1..n |-> NewRow(changes + 1, i, leaf)])
        /\ Notify([type |-> "RowsAdded", parent |-> p, first |-> f, last |-> f + n - 1])
  BY DEF InsertRows
<1>2a. PICK f \in 0..RowCount(model, p) :
        /\ ~model[p].leaf
        /\ model' = Inserted(model, p, f, n, [i \in 1..n |-> NewRow(changes + 1, i, leaf)])
        /\ Notify([type |-> "RowsAdded", parent |-> p, first |-> f, last |-> f + n - 1])
  BY <1>2
<1>3. PICK k \in Nat : Counted(model, p, k) /\ RowCount(model, p) = k
  BY <1>1, RowsOfTree
<1>4. MaxAmount \in Nat /\ n \in Nat /\ f \in Nat /\ f <= k /\ p \in Path
  BY <1>1, <1>3, RemoteModelAssumption, RowsOfTree
<1>5. PICK j \in Nat, z \in Nat : j = changes + 1 /\ z = 0
  BY <1>1
<1>6. PICK new : new = [i \in 1..n |-> NewRow(j, i + z, leaf)]
  OBVIOUS
<1>7. \A i \in 1..n : new[i] \in RowOfModel
  BY <1>4, <1>6, NewRowIs
<1>8. model' = Inserted(model, p, f, n, new)
  <2>1. [i \in 1..n |-> NewRow(changes + 1, i, leaf)] = new
    BY <1>5, <1>6
  <2> QED
    BY <1>2a, <2>1
<1>9. PICK m : m = [type |-> "RowsAdded", parent |-> p, first |-> f, last |-> f + n - 1]
  OBVIOUS
<1>10. m \in Messages
  BY <1>4, <1>9 DEF Messages, Notices
<1>11. Tree(model')
  BY <1>1, <1>2a, <1>3, <1>4, <1>7, <1>8, TreeInserted
<1>12. TellsInsert(m, model, model')
  BY <1>3, <1>4, <1>8, <1>9 DEF TellsInsert
<1>13. Explains(m, model, model') /\ m.type # "SyncBarrier"
  BY <1>9, <1>12 DEF Explains
<1>14. Notify(m)
  BY <1>2a, <1>9
<1>15. changes' \in Nat
  BY <1>1
<1> QED
  BY <1>10, <1>11, <1>13, <1>14, <1>15, Told DEF Notify, copy, barriers

\* The server tells of removed rows, RowsRemoved.
LEMMA TellsRemoveRows ==
  ASSUME IInv, RemoveRows
  PROVE  IInv' /\ (Supply => Supply')
<1>1. Tree(model) /\ changes \in Nat /\ changes' = changes + 1
  BY DEF IInv, Typed, RemoveRows, Changing
<1>2. PICK p \in DOMAIN model, n \in 1..MaxAmount : \E f \in 0..(RowCount(model, p) - n) :
        /\ model' = Closed(model, p, f, n)
        /\ Notify([type |-> "RowsRemoved", parent |-> p, first |-> f, last |-> f + n - 1])
  BY DEF RemoveRows
<1>2a. PICK f \in 0..(RowCount(model, p) - n) :
        /\ model' = Closed(model, p, f, n)
        /\ Notify([type |-> "RowsRemoved", parent |-> p, first |-> f, last |-> f + n - 1])
  BY <1>2
<1>3. PICK k \in Nat : Counted(model, p, k) /\ RowCount(model, p) = k
  BY <1>1, RowsOfTree
<1>4. MaxAmount \in Nat /\ n \in Nat /\ f \in Nat /\ f + n <= k /\ p \in Path
  BY <1>1, <1>3, RemoteModelAssumption, RowsOfTree
<1>5. PICK m : m = [type |-> "RowsRemoved", parent |-> p, first |-> f, last |-> f + n - 1]
  OBVIOUS
<1>6. m \in Messages
  BY <1>4, <1>5 DEF Messages, Notices
<1>7. Tree(model')
  BY <1>1, <1>2a, <1>3, <1>4, TreeClosed
<1>8. TellsRemove(m, model, model')
  BY <1>2a, <1>3, <1>4, <1>5 DEF TellsRemove
<1>9. Explains(m, model, model') /\ m.type # "SyncBarrier"
  BY <1>5, <1>8 DEF Explains
<1>10. Notify(m) /\ changes' \in Nat
  BY <1>1, <1>2a, <1>5
<1> QED
  BY <1>6, <1>7, <1>9, <1>10, Told DEF Notify, copy, barriers

\* The server tells of moved rows, RowsMoved.
LEMMA TellsMoveRows ==
  ASSUME IInv, MoveRows, "moveUp" \notin Operations
  PROVE  IInv' /\ (Supply => Supply')
<1>1. Tree(model) /\ changes \in Nat
  BY DEF IInv, Typed
<1>2. PICK sp \in DOMAIN model, dp \in DOMAIN model, n \in 1..MaxAmount :
        \E f \in 0..(RowCount(model, sp) - n), d \in 0..RowCount(model, dp) :
        /\ Changing(MoveKind(sp, f, dp, d))
        /\ ~model[dp].leaf
        /\ ~InRows(sp, dp, f, n) /\ (dp = sp => d \notin f..(f + n))
        /\ model' = Moved(model, sp, IF sp = dp /\ d <= f THEN f + n ELSE f, n, dp, d)
        /\ Notify([type |-> "RowsMoved", parent |-> sp, first |-> f, last |-> f + n - 1,
                   dest |-> dp, child |-> d])
  BY DEF MoveRows
<1>2a. PICK f \in 0..(RowCount(model, sp) - n), d \in 0..RowCount(model, dp) :
        /\ Changing(MoveKind(sp, f, dp, d))
        /\ ~model[dp].leaf
        /\ ~InRows(sp, dp, f, n) /\ (dp = sp => d \notin f..(f + n))
        /\ model' = Moved(model, sp, IF sp = dp /\ d <= f THEN f + n ELSE f, n, dp, d)
        /\ Notify([type |-> "RowsMoved", parent |-> sp, first |-> f, last |-> f + n - 1,
                   dest |-> dp, child |-> d])
  BY <1>2
<1>3. PICK ks \in Nat : Counted(model, sp, ks) /\ RowCount(model, sp) = ks
  BY <1>1, RowsOfTree
<1>4. PICK kd \in Nat : Counted(model, dp, kd) /\ RowCount(model, dp) = kd
  BY <1>1, RowsOfTree
<1>5. /\ MaxAmount \in Nat /\ n \in Nat /\ n > 0 /\ f \in Nat /\ f + n <= ks /\ d \in Nat /\ d <= kd
      /\ sp \in Path /\ dp \in Path
  BY <1>1, <1>3, <1>4, RemoteModelAssumption, RowsOfTree
<1>6. changes' = changes + 1 /\ MoveKind(sp, f, dp, d) # "moveUp"
  BY <1>2a DEF Changing
<1>7. sp = dp => d > f
  BY <1>6 DEF MoveKind
<1>8. sp = dp => f + n <= d
  BY <1>2a, <1>5, <1>7
<1>9. Movable(sp, f, n, dp, d)
  BY <1>2a, <1>8 DEF Movable
<1>10. model' = Moved(model, sp, f, n, dp, d)
  <2>1. ~(sp = dp /\ d <= f)
    BY <1>5, <1>7
  <2> QED
    BY <1>2a, <2>1
<1>11. PICK m : m = [type |-> "RowsMoved", parent |-> sp, first |-> f, last |-> f + n - 1,
                     dest |-> dp, child |-> d]
  OBVIOUS
<1>12. m \in Messages
  BY <1>5, <1>11 DEF Messages, Notices
<1>13. Tree(model')
  BY <1>1, <1>2a, <1>3, <1>4, <1>5, <1>9, <1>10, TreeMoved
<1>13a. Single => n = 1 \/ sp = dp
  BY <1>2a, <1>5 DEF Single, Changing, MoveKind
<1>14. TellsMove(m, model, model')
  BY <1>3, <1>4, <1>5, <1>9, <1>10, <1>11, <1>13a DEF TellsMove
<1>15. Explains(m, model, model') /\ m.type # "SyncBarrier"
  BY <1>11, <1>14 DEF Explains
<1>16. Notify(m) /\ changes' \in Nat
  BY <1>1, <1>2a, <1>6, <1>11
<1> QED
  BY <1>12, <1>13, <1>15, <1>16, Told DEF Notify, copy, barriers

\* The numbers that stand for values.
LEMMA ValueIs ==
  ASSUME NEW k \in Nat, NEW i \in Int
  PROVE  Value(k, i) \in Int
<1>1. MaxRows \in Nat
  BY RemoteModelAssumption
<1>2. PICK v \in Int : v = k * (MaxRows + 1)
  BY <1>1
<1> QED
  BY <1>2 DEF Value

\* The server tells of changed content, ContentChanged.
LEMMA TellsChangeContent ==
  ASSUME IInv, ChangeContent
  PROVE  IInv' /\ (Supply => Supply')
<1>1. Tree(model) /\ changes \in Nat /\ changes' = changes + 1
  BY DEF IInv, Typed, ChangeContent, Changing
<1>2. PICK p \in DOMAIN model, n \in 1..MaxAmount : \E f \in 0..(RowCount(model, p) - n) :
        /\ model' = [q \in DOMAIN model |->
                       IF Len(q) = Len(p) + 1 /\ InRows(p, q, f, n)
                       THEN [model[q] EXCEPT !.value = Value(changes + 1, 1 + Row(p, q) - f)]
                       ELSE model[q]]
        /\ Notify([type |-> "ContentChanged", parent |-> p, first |-> f, last |-> f + n - 1])
  BY DEF ChangeContent
<1>3. PICK f \in 0..(RowCount(model, p) - n) :
        /\ model' = [q \in DOMAIN model |->
                       IF Len(q) = Len(p) + 1 /\ InRows(p, q, f, n)
                       THEN [model[q] EXCEPT !.value = Value(changes + 1, 1 + Row(p, q) - f)]
                       ELSE model[q]]
        /\ Notify([type |-> "ContentChanged", parent |-> p, first |-> f, last |-> f + n - 1])
  BY <1>2
<1>4. PICK k \in Nat : Counted(model, p, k) /\ RowCount(model, p) = k
  BY <1>1, RowsOfTree
<1>5. MaxAmount \in Nat /\ n \in Nat /\ f \in Nat /\ p \in Path
  BY <1>1, <1>4, RemoteModelAssumption, RowsOfTree
<1>6. DOMAIN model' = DOMAIN model
  BY <1>3
<1>7. ASSUME NEW q \in DOMAIN model
      PROVE  /\ model'[q] \in RowOfModel /\ model'[q].leaf = model[q].leaf
             /\ ~Touched(p, q, f, n) => model'[q] = model[q]
  <2>1. model[q] \in RowOfModel /\ q \in Path
    BY <1>1 DEF Tree, Countable, Closure
  <2>2. CASE Touched(p, q, f, n)
    <3>1. Row(p, q) \in Nat
      BY <1>5, <2>1, <2>2, InRowsIs, BelowIs DEF Touched
    <3>2. changes + 1 \in Nat /\ 1 + Row(p, q) - f \in Int
      <4>1. PICK r \in Nat : r = Row(p, q)
        BY <3>1
      <4>2. 1 + r - f \in Int /\ changes + 1 \in Nat
        BY <1>1, <1>5
      <4> QED
        BY <4>1, <4>2
    <3>3. PICK v \in Int : v = Value(changes + 1, 1 + Row(p, q) - f)
      BY <3>2, ValueIs
    <3>4. model'[q] = [model[q] EXCEPT !.value = v]
      BY <1>3, <2>2, <3>3 DEF Touched
    <3> QED
      BY <2>1, <2>2, <3>4 DEF RowOfModel
  <2>3. CASE ~Touched(p, q, f, n)
    <3>1. model'[q] = model[q]
      BY <1>3, <2>3 DEF Touched
    <3> QED
      BY <2>1, <3>1
  <2> QED
    BY <2>2, <2>3
<1>8. Tree(model')
  BY <1>1, <1>6, <1>7, TreeOfSameRows
<1>9. \A q, j : Counted(model', q, j) <=> Counted(model, q, j)
  BY <1>1, <1>6, <1>7, TreeOfSameRows
<1>10. PICK m : m = [type |-> "ContentChanged", parent |-> p, first |-> f, last |-> f + n - 1]
  OBVIOUS
<1>11. m \in Messages
  BY <1>5, <1>10 DEF Messages, Notices
<1>12. m.parent = p /\ m.first = f /\ m.last - m.first + 1 = n /\ m.type = "ContentChanged"
  BY <1>5, <1>10
<1>13. TellsContent(m, model, model')
  <2>1. \A q \in DOMAIN model : ~Touched(m.parent, q, m.first, m.last - m.first + 1) => model'[q].value = model[q].value
    BY <1>7, <1>12
  <2> QED
    BY <1>6, <1>9, <2>1 DEF TellsContent
<1>14. Explains(m, model, model') /\ m.type # "SyncBarrier"
  BY <1>12, <1>13 DEF Explains
<1>15. Notify(m) /\ changes' \in Nat
  BY <1>1, <1>3, <1>10
<1> QED
  BY <1>8, <1>11, <1>14, <1>15, Told DEF Notify, copy, barriers

\* The server tells of changed headers, HeaderChanged.
LEMMA TellsChangeHeader ==
  ASSUME IInv, ChangeHeader
  PROVE  IInv' /\ (Supply => Supply')
<1>1. Tree(model) /\ changes \in Nat /\ changes' = changes + 1
  BY DEF IInv, Typed, ChangeHeader, Changing
<1>2. PICK n \in 1..MaxAmount : HasModel /\ \E f \in 0..(RowCount(model, Root) - n) :
        /\ model' = [q \in DOMAIN model |->
                       IF Len(q) = 1 /\ InRows(Root, q, f, n)
                       THEN [model[q] EXCEPT !.header = Value(changes + 1, 1 + Row(Root, q) - f)]
                       ELSE model[q]]
        /\ Notify([type |-> "HeaderChanged", first |-> f, last |-> f + n - 1])
  BY DEF ChangeHeader
<1>3. PICK f \in 0..(RowCount(model, Root) - n) :
        /\ model' = [q \in DOMAIN model |->
                       IF Len(q) = 1 /\ InRows(Root, q, f, n)
                       THEN [model[q] EXCEPT !.header = Value(changes + 1, 1 + Row(Root, q) - f)]
                       ELSE model[q]]
        /\ Notify([type |-> "HeaderChanged", first |-> f, last |-> f + n - 1])
  BY <1>2
<1>4. MaxAmount \in Nat /\ n \in Nat /\ f \in Nat /\ Root \in Path
  BY RemoteModelAssumption DEF Root, Path
<1>5. DOMAIN model' = DOMAIN model
  BY <1>3
<1>6. ASSUME NEW q \in DOMAIN model
      PROVE  model'[q] \in RowOfModel /\ model'[q].leaf = model[q].leaf /\ model'[q].value = model[q].value
  <2>1. model[q] \in RowOfModel /\ q \in Path
    BY <1>1 DEF Tree, Countable, Closure
  <2>2. CASE Len(q) = 1 /\ InRows(Root, q, f, n)
    <3>1. Row(Root, q) \in Nat
      BY <1>4, <2>1, <2>2, InRowsIs, BelowIs
    <3>2. PICK j \in Nat, i \in Int : j = changes + 1 /\ i = 1 + Row(Root, q) - f
      BY <1>1, <1>4, <3>1
    <3>3. PICK v \in Int : v = Value(changes + 1, 1 + Row(Root, q) - f)
      BY <3>2, ValueIs
    <3>4. model'[q] = [model[q] EXCEPT !.header = v]
      BY <1>3, <2>2, <3>3
    <3> QED
      BY <2>1, <3>4 DEF RowOfModel
  <2>3. CASE ~(Len(q) = 1 /\ InRows(Root, q, f, n))
    <3>1. model'[q] = model[q]
      BY <1>3, <2>3
    <3> QED
      BY <2>1, <3>1
  <2> QED
    BY <2>2, <2>3
<1>7. Tree(model')
  BY <1>1, <1>5, <1>6, TreeOfSameRows
<1>8. \A q, j : Counted(model', q, j) <=> Counted(model, q, j)
  BY <1>1, <1>5, <1>6, TreeOfSameRows
<1>9. PICK m : m = [type |-> "HeaderChanged", first |-> f, last |-> f + n - 1]
  OBVIOUS
<1>10. m \in Messages
  BY <1>4, <1>9 DEF Messages, Notices
<1>11. TellsHeader(m, model, model')
  BY <1>5, <1>6, <1>8 DEF TellsHeader
<1>12. Explains(m, model, model') /\ m.type # "SyncBarrier"
  BY <1>9, <1>11 DEF Explains
<1>13. Notify(m) /\ changes' \in Nat
  BY <1>1, <1>3, <1>9
<1> QED
  BY <1>7, <1>10, <1>12, <1>13, Told DEF Notify, copy, barriers

\* The server tells of sorted rows, LayoutChanged.
LEMMA TellsChangeLayout ==
  ASSUME IInv, ChangeLayout
  PROVE  IInv' /\ (Supply => Supply')
<1>1. Tree(model) /\ changes \in Nat /\ changes' = changes + 1 /\ "layout" \in Operations
  BY DEF IInv, Typed, ChangeLayout, Changing
<1>2. PICK p \in DOMAIN model, hint \in BOOLEAN :
        /\ model' = Reversed(model, p)
        /\ \E parents \in {{p}, {}} :
             Notify([type |-> "LayoutChanged", parents |-> parents, hint |-> hint])
  BY DEF ChangeLayout
<1>3. PICK parents \in {{p}, {}} :
        Notify([type |-> "LayoutChanged", parents |-> parents, hint |-> hint])
  BY <1>2
<1>4. PICK m : m = [type |-> "LayoutChanged", parents |-> parents, hint |-> hint]
  OBVIOUS
<1>5. p \in Path
  BY <1>1, RowsOfTree
<1>6. m \in Messages
  BY <1>4, <1>5 DEF Messages, Notices
<1>7. Tree(model')
  BY <1>1, <1>2, TreeReversed
<1>8. TellsLayout(m, model, model')
  BY <1>2, <1>4 DEF TellsLayout
<1>9. Explains(m, model, model') /\ m.type # "SyncBarrier"
  BY <1>1, <1>4, <1>8 DEF Explains
<1>10. Notify(m) /\ changes' \in Nat
  BY <1>1, <1>3, <1>4
<1> QED
  BY <1>6, <1>7, <1>9, <1>10, Told DEF Notify, copy, barriers

\* The server tells of a new model, Reset: whatever it is.
LEMMA TellsResetModel ==
  ASSUME IInv, ResetModel
  PROVE  IInv' /\ (Supply => Supply')
<1>1. changes \in Nat /\ changes' = changes + 1 /\ Notify([type |-> "Reset"])
  BY DEF IInv, Typed, ResetModel, Changing
<1>2. PICK n \in 1..MaxAmount, leaf \in Leaves : model' \in {NoModel, FlatModel(changes + 1, n, leaf)}
  BY DEF ResetModel
<1>3. Tree(NoModel)
  <2>1. DOMAIN NoModel = {}
    BY DEF NoModel
  <2> QED
    BY <2>1 DEF Tree, Closure
<1>4. Tree(FlatModel(changes + 1, n, leaf))
  <2>1. PICK k \in Nat : k = changes + 1
    BY <1>1
  <2>2. n \in Nat /\ leaf \in BOOLEAN
    BY RemoteModelAssumption
  <2>3. Tree(FlatModel(k, n, leaf))
    BY <2>2, FlatIsTree
  <2> QED
    BY <2>1, <2>3
<1>5. Tree(model')
  BY <1>2, <1>3, <1>4
<1>6. PICK m : m = [type |-> "Reset"]
  OBVIOUS
<1>7. m \in Messages
  BY <1>6 DEF Messages, Notices
<1>8. Explains(m, model, model') /\ m.type # "SyncBarrier"
  BY <1>6 DEF Explains
<1>9. Notify(m) /\ changes' \in Nat
  BY <1>1, <1>6
<1> QED
  BY <1>5, <1>7, <1>8, <1>9, Told DEF Notify, copy, barriers

\* A request is taken from the wire.
LEMMA RequestIs ==
  ASSUME IInv, toServer # << >>
  PROVE  /\ Head(toServer) \in Requests \cup Barriers
         /\ Head(toServer).type = "RowColumnCountRequest" => Head(toServer).index \in Path
         /\ Head(toServer).type = "ContentRequest" =>
              Head(toServer).index \in Path /\ Head(toServer).index # Root
         /\ Head(toServer).type = "HeaderRequest" => Head(toServer).section \in Nat
         /\ Head(toServer).type = "SyncBarrier" => Head(toServer) \in Barriers
<1>1. PICK m : m = Head(toServer)
  OBVIOUS
<1>2. m \in Requests \cup Barriers
  BY <1>1, BarrierTaken DEF IInv, Typed
<1>3. /\ m.type = "RowColumnCountRequest" => m.index \in Path
      /\ m.type = "ContentRequest" => m.index \in Path /\ m.index # Root
      /\ m.type = "HeaderRequest" => m.section \in Nat
      /\ m.type = "SyncBarrier" => m \in Barriers
  BY <1>2 DEF Requests, Barriers
<1> QED
  BY <1>1, <1>2, <1>3

\* Whoever waits for the answer that is not given is not in the model.
LEMMA SupplyUnanswered ==
  ASSUME IInv, Supply, toServer # << >>, toServer' = Tail(toServer), toClient' = toClient,
         Head(toServer).type # "SyncBarrier",
         \A k, q : Concerns(Head(toServer), k, q) => q \notin DOMAIN model,
         UNCHANGED <<model, client, pending, current, target, unreset, fault>>
  PROVE  Supply'
<1>1. Typed /\ Barred /\ (Single => Answerable)
  BY DEF IInv, Supply
<1>2. toServer \in Seq(Requests \cup Barriers) /\ toClient \in Seq(Messages)
  BY <1>1 DEF Typed
<1>3. /\ NoBarrier(toServer) <=> NoBarrier(toServer')
      /\ Bars(toServer, target) => Bars(toServer', target)
  BY <1>2, BarrierTaken, BarsTaken
<1>4. Barred'
  BY <1>1, <1>3 DEF Barred, Settled
<1>5. ASSUME Single, ~fault
      PROVE  \E T : Copies(client, T[0]) /\ Leading(T, T[0], toClient, model) /\ Supplied(T)'
  <2>1. PICK T : Copies(client, T[0]) /\ Leading(T, T[0], toClient, model) /\ Supplied(T)
    BY <1>1, <1>5 DEF Answerable
  <2>2. ASSUME NEW k, NEW q, Waits(client, k, q), ~Reaches(unreset, q)
        PROVE  UnderWay(k, q)' \/ Absent(T, q)'
    <3>1. UnderWay(k, q) \/ Absent(T, q)
      BY <2>1, <2>2 DEF Supplied
    <3>2. CASE Holds(toServer, k, q)
      <4>1. CASE Holds(toServer', k, q)
        BY <4>1 DEF UnderWay
      <4>2. CASE Concerns(Head(toServer), k, q) /\ NoBarrier(toServer)
        <5>1. T[Len(toClient)] = model
          BY <2>1 DEF Leading
        <5>2. q \notin DOMAIN T[Len(toClient)]
          BY <4>2, <5>1
        <5>3. Open(toClient, Len(toClient)) /\ Len(toClient) \in 0..Len(toClient)
          BY <1>2, OpenIs
        <5> QED
          BY <1>3, <4>2, <5>2, <5>3 DEF Absent
      <4> QED
        BY <1>2, <3>2, <4>1, <4>2, HoldsTaken
    <3>3. CASE ~Holds(toServer, k, q)
      BY <1>3, <3>1, <3>3 DEF UnderWay, Absent
    <3> QED
      BY <3>2, <3>3
  <2>3. Supplied(T)'
    BY <2>2 DEF Supplied
  <2> QED
    BY <2>1, <2>3
<1>6. Single => Answerable'
  BY <1>5 DEF Answerable
<1> QED
  BY <1>4, <1>6 DEF Supply

\* A request is taken and nothing goes out.
LEMMA Unanswered ==
  ASSUME IInv, toServer # << >>, toServer' = Tail(toServer), toClient' = toClient,
         Head(toServer).type # "SyncBarrier",
         \A k, q : Concerns(Head(toServer), k, q) => q \notin DOMAIN model,
         UNCHANGED <<model, changes, client, pending, current, target, unreset, fault>>
  PROVE  IInv' /\ (Supply => Supply')
<1>1. Typed /\ LoneBarrier /\ Tree(model) /\ Structured(client) /\ Forgot /\ Heard
  BY DEF IInv
<1>2. /\ toServer' \in Seq(Requests \cup Barriers)
      /\ NoBarrier(toServer) => NoBarrier(toServer')
      /\ OneBarrier(toServer) => OneBarrier(toServer')
  BY <1>1, BarrierTaken DEF Typed
<1>3. Typed' /\ LoneBarrier'
  BY <1>1, <1>2 DEF Typed, LoneBarrier, Settled
<1>4. Tree(model)' /\ Structured(client)' /\ Forgot' /\ Heard'
  BY <1>1 DEF Forgot, Settled, Heard
<1>5. IInv'
  BY <1>3, <1>4 DEF IInv
<1> QED
  BY <1>5, SupplyUnanswered

\* A request is taken and a reply goes out that is right at that time.
LEMMA Answered ==
  ASSUME IInv, toServer # << >>, NEW m \in Replies, Answers(m, model), Reply(<<m>>),
         Head(toServer).type # "SyncBarrier",
         \A k, q : Concerns(Head(toServer), k, q) => Concerns(m, k, q)
  PROVE  IInv' /\ (Supply => Supply')
<1>1. toServer' = Tail(toServer) /\ toClient' = toClient \o <<m>>
      /\ UNCHANGED <<model, changes, client, pending, current, target, unreset, fault>>
  BY DEF Reply, server, copy, barriers
<1>2. m \in Messages /\ m.type # "SyncBarrier"
  BY DEF Messages, Replies
<1>3. toClient' = Append(toClient, m)
  BY <1>1, <1>2 DEF IInv, Typed
<1>4. Tree(model') /\ changes' \in Nat /\ Explains(m, model, model')
  BY <1>1 DEF IInv, Typed, Explains
<1> QED
  BY <1>1, <1>2, <1>3, <1>4, Told

\* Without a model nothing is answered, nor is what asks for the content of a row that is gone.
LEMMA Silent ==
  ASSUME IInv, toServer # << >>, Reply(<< >>), Head(toServer).type # "SyncBarrier",
         \A k, q : Concerns(Head(toServer), k, q) => q \notin DOMAIN model
  PROVE  IInv' /\ (Supply => Supply')
<1>1. toServer' = Tail(toServer) /\ toClient' = toClient \o << >>
      /\ UNCHANGED <<model, changes, client, pending, current, target, unreset, fault>>
  BY DEF Reply, server, copy, barriers
<1>2. toClient' = toClient
  BY <1>1 DEF IInv, Typed
<1> QED
  BY <1>1, <1>2, Unanswered

\* The reply to RowColumnCountRequest.
LEMMA AnswersCount ==
  ASSUME IInv, RowColumnCountRequest
  PROVE  IInv' /\ (Supply => Supply')
<1>1. toServer # << >> /\ Head(toServer).index \in Path
  BY RequestIs DEF RowColumnCountRequest, Request
<1>2. PICK p \in Path : p = Head(toServer).index
  BY <1>1
<1>3. PICK n : n = IF p \in DOMAIN model THEN RowCount(model, p) ELSE Unknown
  OBVIOUS
<1>4. PICK m : m = [type |-> "RowColumnCountReply", index |-> p, rows |-> n]
  OBVIOUS
<1>5. Reply(IF HasModel THEN <<m>> ELSE << >>)
  BY <1>2, <1>3, <1>4 DEF RowColumnCountRequest
<1>6. n = -1 \/ (n \in Nat /\ p \in DOMAIN model /\ Counted(model, p, n))
  <2>1. CASE p \in DOMAIN model
    BY <1>3, <2>1, RowsOfTree DEF IInv
  <2>2. CASE p \notin DOMAIN model
    BY <1>3, <2>2 DEF Unknown
  <2> QED
    BY <2>1, <2>2
<1>7. m \in Replies /\ Answers(m, model)
  BY <1>4, <1>6 DEF Replies, Answers
<1>8. /\ Head(toServer).type # "SyncBarrier"
      /\ \A k, q : Concerns(Head(toServer), k, q) => Concerns(m, k, q)
  <2>1. Head(toServer).type = "RowColumnCountRequest" /\ Head(toServer).index = p
        /\ m.type = "RowColumnCountReply" /\ m.index = p
    BY <1>2, <1>4 DEF RowColumnCountRequest, Request
  <2> QED
    BY <2>1 DEF Concerns
<1>9. CASE HasModel
  BY <1>1, <1>5, <1>7, <1>8, <1>9, Answered
<1>10. CASE ~HasModel
  <2>1. \A k, q : q \notin DOMAIN model
    BY <1>10 DEF HasModel
  <2> QED
    BY <1>1, <1>5, <1>8, <1>10, <2>1, Silent
<1> QED
  BY <1>9, <1>10

\* The reply to ContentRequest.
LEMMA AnswersContent ==
  ASSUME IInv, ContentRequest
  PROVE  IInv' /\ (Supply => Supply')
<1>1. toServer # << >> /\ Head(toServer).index \in Path /\ Head(toServer).index # Root
  BY RequestIs DEF ContentRequest, Request
<1>2. PICK p \in Path : p = Head(toServer).index
  BY <1>1
<1>3. PICK m : m = [type |-> "ContentReply", index |-> p, value |-> model[p].value, leaf |-> model[p].leaf]
  OBVIOUS
<1>4. Reply(IF p \in DOMAIN model THEN <<m>> ELSE << >>)
  BY <1>2, <1>3 DEF ContentRequest
<1>4a. /\ Head(toServer).type # "SyncBarrier"
       /\ \A k, q : Concerns(Head(toServer), k, q) => q = p /\ Concerns(m, k, q)
  <2>1. Head(toServer).type = "ContentRequest" /\ Head(toServer).index = p
        /\ m.type = "ContentReply" /\ m.index = p
    BY <1>2, <1>3 DEF ContentRequest, Request
  <2> QED
    BY <2>1 DEF Concerns
<1>5. CASE p \in DOMAIN model
  <2>1. model[p].value \in Int /\ model[p].leaf \in BOOLEAN
    BY <1>5 DEF IInv, Tree, Countable, RowOfModel
  <2>2. m \in Replies /\ Answers(m, model)
    BY <1>1, <1>2, <1>3, <1>5, <2>1 DEF Replies, Answers
  <2> QED
    BY <1>1, <1>4, <1>4a, <1>5, <2>2, Answered
<1>6. CASE p \notin DOMAIN model
  BY <1>1, <1>4, <1>4a, <1>6, Silent
<1> QED
  BY <1>5, <1>6

\* The reply to HeaderRequest.
LEMMA AnswersHeader ==
  ASSUME IInv, HeaderRequest
  PROVE  IInv' /\ (Supply => Supply')
<1>1. toServer # << >> /\ Head(toServer).section \in Nat
  BY RequestIs DEF HeaderRequest, Request
<1>2. PICK s \in Nat : s = Head(toServer).section
  BY <1>1
<1>3. PICK v : v = IF RowAt(Root, s) \in DOMAIN model THEN model[RowAt(Root, s)].header ELSE Invalid
  OBVIOUS
<1>4. PICK m : m = [type |-> "HeaderReply", section |-> s, value |-> v]
  OBVIOUS
<1>5. Reply(IF HasModel THEN <<m>> ELSE << >>)
  BY <1>2, <1>3, <1>4 DEF HeaderRequest
<1>6. v \in Int
  <2>1. \A q \in DOMAIN model : model[q].header \in Int
    BY DEF IInv, Tree, Countable, RowOfModel
  <2> QED
    BY <1>3, <2>1 DEF Invalid
<1>7. m \in Replies /\ Answers(m, model)
  BY <1>4, <1>6 DEF Replies, Answers
<1>8. /\ Head(toServer).type # "SyncBarrier"
      /\ \A k, q : ~Concerns(Head(toServer), k, q)
  <2>1. Head(toServer).type = "HeaderRequest"
    BY DEF HeaderRequest, Request
  <2> QED
    BY <2>1 DEF Concerns
<1>9. CASE HasModel
  BY <1>1, <1>5, <1>7, <1>8, <1>9, Answered
<1>10. CASE ~HasModel
  BY <1>1, <1>5, <1>8, <1>10, Silent
<1> QED
  BY <1>9, <1>10

\* The barrier comes back whether there is a model or not.
LEMMA AnswersBarrier ==
  ASSUME IInv, BarrierRequest
  PROVE  IInv' /\ (Supply => Supply')
<1>1. /\ toServer # << >> /\ Head(toServer).type = "SyncBarrier"
      /\ toServer' = Tail(toServer) /\ toClient' = toClient \o <<Head(toServer)>>
      /\ UNCHANGED <<model, changes, client, pending, current, target, unreset, fault>>
  BY DEF BarrierRequest, Request, Reply, server, copy, barriers
<1>2. Typed /\ LoneBarrier /\ Tree(model) /\ Structured(client) /\ Forgot /\ Heard
  BY DEF IInv
<1>3. PICK m \in Barriers : m = Head(toServer)
  BY <1>1, RequestIs
<1>4. m \in Messages /\ m.type = "SyncBarrier"
  BY <1>1, <1>3 DEF Messages
<1>5. toClient' = Append(toClient, m)
  BY <1>1, <1>2, <1>3, <1>4 DEF Typed
<1>6. ~NoBarrier(toServer)
  BY <1>1, <1>2, BarrierTaken DEF Typed
<1>7. NoBarrier(toClient) /\ ~Settled /\ OneBarrier(toServer)
  BY <1>2, <1>6 DEF LoneBarrier
<1>8. toServer' \in Seq(Requests \cup Barriers) /\ NoBarrier(toServer') /\ OneBarrier(toServer')
  BY <1>1, <1>2, <1>7, BarrierTaken DEF Typed
<1>9. toClient' \in Seq(Messages) /\ OneBarrier(toClient')
  BY <1>2, <1>4, <1>5, <1>7, BarrierAppended DEF Typed
<1>10. Typed' /\ LoneBarrier'
  BY <1>1, <1>2, <1>7, <1>8, <1>9 DEF Typed, LoneBarrier, Settled
<1>11. Heard'
  <2> SUFFICES ASSUME ~fault PROVE \E t : Copies(client', t) /\ Leads(t, toClient', model')
    BY <1>1 DEF Heard
  <2>1. PICK t : Copies(client, t) /\ Leads(t, toClient, model)
    BY <1>2 DEF Heard
  <2>2. Explains(m, model, model)
    BY <1>4 DEF Explains, Answers
  <2>3. Leads(t, Append(toClient, m), model)
    BY <1>2, <1>4, <2>1, <2>2, LeadsAppend DEF Typed
  <2> QED
    BY <1>1, <1>5, <2>1, <2>3
<1>12. Tree(model)' /\ Structured(client)' /\ Forgot'
  BY <1>1, <1>2 DEF Forgot, Settled
<1>13. ASSUME Supply PROVE Supply'
  <2>1. Barred /\ (Single => Answerable)
    BY <1>13 DEF Supply
  <2>2. m.id = target /\ Bars(toServer', target) /\ Bars(toClient', target) /\ ~NoBarrier(toClient')
    <3>1. Head(toServer).id = target /\ Bars(toServer', target)
      BY <1>1, <1>2, <2>1, BarsTaken DEF Typed, Barred
    <3>2. m.id = target
      BY <1>3, <3>1
    <3> QED
      BY <1>2, <1>4, <1>5, <2>1, <3>1, <3>2, BarsAppended DEF Typed, Barred
  <2>3. Barred'
    BY <1>1, <2>2 DEF Barred
  <2>4. ASSUME Single, ~fault
        PROVE  \E T : Copies(client, T[0]) /\ Leading(T, T[0], toClient', model) /\ Supplied(T)'
    <3>1. PICK T : Copies(client, T[0]) /\ Leading(T, T[0], toClient, model) /\ Supplied(T)
      BY <2>1, <2>4 DEF Answerable
    <3>2. Explains(m, model, model)
      BY <1>4 DEF Explains, Answers
    <3>3. PICK R : Leading(R, T[0], Append(toClient, m), model) /\ \A i \in 0..Len(toClient) : R[i] = T[i]
      BY <1>2, <1>4, <3>1, <3>2, LeadingAppend DEF Typed
    <3>4. R[0] = T[0]
      BY <3>3 DEF Leading
    <3>5. ASSUME NEW k, NEW q, Waits(client, k, q), ~Reaches(unreset, q)
          PROVE  UnderWay(k, q)'
      <4>1. Holds(Flushed(pending), k, q) \/ Holds(toServer, k, q)
        BY <1>6, <3>1, <3>5 DEF Supplied, UnderWay, Absent
      <4>2. ~Concerns(Head(toServer), k, q)
        BY <1>1, BarrierConcerns
      <4>3. Holds(toServer, k, q) => Holds(toServer', k, q)
        BY <1>1, <1>2, <4>2, HoldsTaken DEF Typed
      <4> QED
        BY <1>1, <4>1, <4>3 DEF UnderWay
    <3>6. Supplied(R)'
      BY <1>1, <3>5 DEF Supplied
    <3> QED
      BY <1>5, <3>1, <3>3, <3>4, <3>6
  <2>5. Single => Answerable'
    BY <1>1, <2>4 DEF Answerable
  <2> QED
    BY <2>3, <2>5 DEF Supply
<1>14. IInv'
  BY <1>10, <1>11, <1>12 DEF IInv
<1> QED
  BY <1>13, <1>14

-----------------------------------------------------------------------------
(* The client: its copy follows what it hears. *)

\* The headers are still as many as the rows, if they were.
KeepsUp == headers \in Seq(Int) => headers' \in Seq(Int) /\ (HeadersMatchRows => HeadersMatchRows')

\* Who waits after a message, for what resetLoadingState() does not reach, has waited before, and
\* the message was not the answer.
Stays ==
  \A k, q : Waits(client', k, q) /\ ~Reaches(unreset', q) =>
    Waits(client, k, q) /\ ~Concerns(Head(toClient), k, q)

\* What a message makes of the copy when it leads to v.
Follows(v) == Structured(client') /\ Copies(client', v) /\ (Single => Stays)

\* What a message at the head of the wire tells the client.
Brings(t, v) ==
  /\ Tree(t) /\ Tree(v) /\ Copies(client, t)
  /\ Explains(Head(toClient), t, v) /\ Leads(v, Tail(toClient), model)

\* A message that arrives explains what happened to a model of which the client has a copy.
LEMMA Hearing ==
  ASSUME IInv, ~fault, toClient # << >>
  PROVE  /\ Head(toClient) \in Messages
         /\ \E t, v : Brings(t, v)
<1>1. Typed /\ Heard
  BY DEF IInv
<1>2. Head(toClient) \in Messages
  BY <1>1, BarrierTaken DEF Typed
<1>3. PICK t : Copies(client, t) /\ Leads(t, toClient, model)
  BY <1>1 DEF Heard
<1>4. PICK v : Tree(t) /\ Tree(v) /\ Explains(Head(toClient), t, v) /\ Leads(v, Tail(toClient), model)
  BY <1>1, <1>3, LeadsTail DEF Typed
<1>5. Brings(t, v)
  BY <1>3, <1>4 DEF Brings
<1> QED
  BY <1>2, <1>5

\* A client that has a copy of what the message leads to is where it was before: behind by what is on the wire.
LEMMA Followed ==
  ASSUME IInv, toClient # << >>, toClient' = Tail(toClient), Settled,
         NEW v, Leads(v, Tail(toClient), model), Structured(client'), Copies(client', v),
         UNCHANGED <<model, changes, toServer, pending, current, target>>
  PROVE  IInv'
<1>1. Typed /\ LoneBarrier /\ Tree(model)
  BY DEF IInv
<1>2. /\ toClient' \in Seq(Messages)
      /\ NoBarrier(toClient) => NoBarrier(toClient')
      /\ OneBarrier(toClient) => OneBarrier(toClient')
  BY <1>1, BarrierTaken DEF Typed
<1>3. Typed' /\ LoneBarrier'
  BY <1>1, <1>2 DEF Typed, LoneBarrier, Settled
<1>4. Tree(model)' /\ Forgot'
  BY <1>1 DEF Forgot, Settled
<1>5. Heard'
  BY DEF Heard
<1> QED
  BY <1>3, <1>4, <1>5 DEF IInv

\* Whatever has a node is a row of each model that the client has a copy of, but for the root.
LEMMA NodesAreRows ==
  ASSUME NEW c, Structured(c), NEW t, Copies(c, t), NEW q \in DOMAIN c
  PROVE  q = Root \/ q \in DOMAIN t
<1> SUFFICES ASSUME q # Root PROVE q \in DOMAIN t
  OBVIOUS
<1>1. Closure(c) /\ q \in Path
  BY DEF Structured, Closure
<1>2. PICK r \in Path, i \in Nat : q = RowAt(r, i)
  BY <1>1, RootOrChild
<1>3. r \in DOMAIN c /\ i \in Idx(c, r)
  BY <1>1, <1>2 DEF Closure, Idx
<1>4. i \in 0..(c[r].rows - 1) /\ c[r].rows \in Int
  BY <1>3 DEF Structured, Counted, Node
<1>5. c[r].rows >= 0
  BY <1>4
<1>6. Counted(t, r, c[r].rows)
  BY <1>3, <1>5 DEF Copies
<1>7. i \in Idx(t, r)
  BY <1>4, <1>6 DEF Counted
<1> QED
  BY <1>2, <1>7 DEF Idx

\* There are no rows without a root.
LEMMA RowsHaveRoot ==
  ASSUME NEW t, Tree(t), NEW q \in DOMAIN t
  PROVE  Root \in DOMAIN t
<1>1. Closure(t) /\ q \in Path /\ Root \in Path
  BY RootOrChild DEF Tree, Closure
<1>2. Root = q \/ Below(Root, q)
  BY <1>1, BelowRoot
<1> QED
  BY <1>1, <1>2, Ancestor

\* No model stays no model until it is reset.
LEMMA NoRootNoRows ==
  ASSUME NEW t, Tree(t), Root \notin DOMAIN t, NEW m, NEW u, Explains(m, t, u), m.type # "Reset"
  PROVE  DOMAIN t = {} /\ DOMAIN u = {}
<1>1. DOMAIN t = {}
  BY RowsHaveRoot
<1>2. CASE m.type = "ContentChanged" /\ TellsContent(m, t, u)
  BY <1>1, <1>2 DEF TellsContent
<1>3. CASE m.type = "HeaderChanged" /\ TellsHeader(m, t, u)
  BY <1>1, <1>3 DEF TellsHeader
<1>4. ~TellsInsert(m, t, u) /\ ~TellsRemove(m, t, u) /\ ~TellsMove(m, t, u) /\ ~TellsLayout(m, t, u)
  BY <1>1 DEF TellsInsert, TellsRemove, TellsMove, TellsLayout
<1> QED
  BY <1>1, <1>2, <1>3, <1>4 DEF Explains

\* Whoever still waits, waits for a later message.
LEMMA SupplyFollowed ==
  ASSUME IInv, Supply, ~fault, unreset = {}, toClient # << >>, toClient' = Tail(toClient), Settled,
         Head(toClient).type # "Reset",
         \A t, v : Brings(t, v) => Follows(v),
         UNCHANGED <<model, toServer, pending, current, target>>
  PROVE  Supply'
<1>1. Typed /\ LoneBarrier /\ Structured(client) /\ Barred /\ (Single => Answerable)
  BY DEF IInv, Supply
<1>2. toClient \in Seq(Messages) /\ NoBarrier(toServer) /\ NoBarrier(toClient)
  BY <1>1 DEF Typed, LoneBarrier
<1>3. Bars(toClient', target)
  BY <1>1, <1>2, BarsTaken DEF Barred
<1>4. Barred'
  BY <1>1, <1>3 DEF Barred, Settled
<1>5. ASSUME Single
      PROVE  \E T : Copies(client', T[0]) /\ Leading(T, T[0], toClient', model) /\ Supplied(T)'
  <2>1. PICK T : Copies(client, T[0]) /\ Leading(T, T[0], toClient, model) /\ Supplied(T)
    BY <1>1, <1>5 DEF Answerable
  <2>2. /\ Tree(T[0]) /\ Tree(T[1]) /\ Explains(Head(toClient), T[0], T[1])
        /\ \E R : /\ Leading(R, T[1], toClient', model) /\ R[0] = T[1]
                  /\ \A i \in 0..Len(toClient) : i # 0 => R[i - 1] = T[i]
    BY <1>2, <2>1, LeadingTail
  <2>3. PICK R : /\ Leading(R, T[1], toClient', model) /\ R[0] = T[1]
                 /\ \A i \in 0..Len(toClient) : i # 0 => R[i - 1] = T[i]
    BY <2>2
  <2>4. Brings(T[0], T[1])
    BY <2>1, <2>2, <2>3 DEF Brings, Leads
  <2>5. Copies(client', T[1]) /\ Stays
    BY <1>5, <2>4 DEF Follows
  <2>6. ASSUME NEW k, NEW q, Waits(client', k, q), ~Reaches(unreset', q)
        PROVE  UnderWay(k, q)' \/ Absent(R, q)'
    <3>1. Waits(client, k, q) /\ ~Concerns(Head(toClient), k, q) /\ ~Reaches(unreset, q)
      BY <2>5, <2>6 DEF Stays, Reaches
    <3>2. UnderWay(k, q) \/ Absent(T, q)
      BY <2>1, <3>1 DEF Supplied
    <3>3. CASE Holds(toClient, k, q)
      <4>1. Holds(toClient', k, q)
        BY <1>2, <3>1, <3>3, HoldsTaken
      <4> QED
        BY <1>2, <4>1 DEF UnderWay
    <3>4. CASE Absent(T, q)
      <4>1. PICK i \in 0..Len(toClient) : Open(toClient, i) /\ q \notin DOMAIN T[i]
        BY <3>4 DEF Absent
      <4>2. CASE i # 0
        <5>1. i - 1 \in 0..Len(toClient') /\ Open(toClient', i - 1)
          BY <1>2, <4>1, <4>2, HoldsTaken
        <5>2. R[i - 1] = T[i]
          BY <2>3, <4>2
        <5> QED
          BY <1>2, <4>1, <5>1, <5>2 DEF Absent
      <4>3. CASE i = 0
        <5>1. q \in DOMAIN client /\ q \notin DOMAIN T[0]
          BY <3>1, <4>1, <4>3 DEF Waits
        <5>2. q = Root
          BY <1>1, <2>1, <5>1, NodesAreRows
        <5>3. q \notin DOMAIN R[0]
          BY <2>2, <2>3, <5>1, <5>2, NoRootNoRows
        <5>4. toClient' \in Seq(Messages) /\ NoBarrier(toClient')
          BY <1>2, BarrierTaken
        <5>5. Open(toClient', 0)
          BY <5>4, OpenIs
        <5>6. Len(toClient') \in Nat
          BY <5>4
        <5>7. 0 \in 0..Len(toClient')
          BY <5>6
        <5> QED
          BY <1>2, <5>3, <5>5, <5>7 DEF Absent
      <4> QED
        BY <4>2, <4>3
    <3> QED
      BY <3>2, <3>3, <3>4 DEF UnderWay
  <2>7. Supplied(R)'
    BY <2>6 DEF Supplied
  <2> QED
    BY <2>3, <2>5, <2>7
<1>6. Single => Answerable'
  BY <1>5 DEF Answerable
<1> QED
  BY <1>4, <1>6 DEF Supply

\* A message that is heard.
LEMMA Heeded ==
  ASSUME IInv, ~fault, unreset = {}, toClient # << >>, toClient' = Tail(toClient), Settled,
         Head(toClient).type # "Reset",
         \A t, v : Brings(t, v) => Follows(v),
         UNCHANGED <<model, changes, toServer, pending, current, target>>
  PROVE  IInv' /\ (Supply => Supply')
<1>1. PICK t, v : Brings(t, v)
  BY Hearing
<1>2. Follows(v) /\ Leads(v, Tail(toClient), model)
  BY <1>1 DEF Brings
<1>3. IInv'
  BY <1>2, Followed DEF Follows
<1> QED
  BY <1>3, SupplyFollowed

\* While the client is deaf its requests come after the barrier.
LEMMA SupplyDeaf ==
  ASSUME IInv, Supply, ~fault, unreset = {}, toClient # << >>, toClient' = Tail(toClient), ~Settled,
         IF Head(toClient).type = "SyncBarrier" THEN current' = Head(toClient).id ELSE current' = current,
         UNCHANGED <<model, toServer, client, pending, target, unreset>>
  PROVE  Supply'
<1>1. Typed /\ LoneBarrier /\ Structured(client) /\ Forgot /\ Barred /\ (Single => Answerable)
  BY DEF IInv, Supply
<1>2. toClient \in Seq(Messages)
  BY <1>1 DEF Typed
<1>3. Barred'
  <2>1. Bars(toClient', target)
    BY <1>1, <1>2, BarsTaken DEF Barred
  <2>2. CASE Head(toClient).type = "SyncBarrier"
    <3>1. current' = target
      BY <1>1, <1>2, <2>2, BarsTaken DEF Barred
    <3> QED
      BY <1>1, <2>1, <3>1 DEF Barred, Settled
  <2>3. CASE Head(toClient).type # "SyncBarrier"
    <3>1. ~NoBarrier(toClient) => ~NoBarrier(toClient')
      BY <1>2, <2>3, BarsTaken
    <3> QED
      BY <1>1, <2>1, <2>3, <3>1 DEF Barred, Settled
  <2> QED
    BY <2>2, <2>3
<1>4. NoBarrier(toServer) => ~NoBarrier(toClient)
  BY <1>1 DEF Barred
<1>5. ASSUME Single
      PROVE  \E T : Copies(client, T[0]) /\ Leading(T, T[0], toClient', model) /\ Supplied(T)'
  <2>1. PICK T : Copies(client, T[0]) /\ Leading(T, T[0], toClient, model) /\ Supplied(T)
    BY <1>1, <1>5 DEF Answerable
  <2>2. PICK R : /\ Leading(R, T[1], toClient', model) /\ R[0] = T[1]
                 /\ \A i \in 0..Len(toClient) : i # 0 => R[i - 1] = T[i]
    BY <1>2, <2>1, LeadingTail
  <2>3. Copies(client, R[0])
    BY <1>1, CopyBlank DEF Forgot
  <2>4. ASSUME NEW k, NEW q, Waits(client, k, q), ~Reaches(unreset, q)
        PROVE  UnderWay(k, q)' \/ Absent(R, q)'
    <3>1. UnderWay(k, q) \/ Absent(T, q)
      BY <2>1, <2>4 DEF Supplied
    <3>2. CASE NoBarrier(toServer) /\ Holds(toClient, k, q)
      <4>1. Holds(toClient', k, q)
        BY <1>2, <1>4, <3>2, HoldsTaken
      <4> QED
        BY <3>2, <4>1 DEF UnderWay
    <3>3. CASE Absent(T, q)
      <4>1. PICK i \in 0..Len(toClient) : Open(toClient, i) /\ q \notin DOMAIN T[i]
        BY <3>3 DEF Absent
      <4>2. i # 0
        BY <1>2, <1>4, <3>3, <4>1, OpenIs DEF Absent
      <4>3. i - 1 \in 0..Len(toClient') /\ Open(toClient', i - 1)
        BY <1>2, <4>1, <4>2, HoldsTaken
      <4>4. R[i - 1] = T[i]
        BY <2>2, <4>2
      <4> QED
        BY <3>3, <4>1, <4>3, <4>4 DEF Absent
    <3> QED
      BY <3>1, <3>2, <3>3 DEF UnderWay
  <2>5. Supplied(R)'
    BY <2>4 DEF Supplied
  <2>6. Leading(R, R[0], toClient', model)
    BY <2>2
  <2> QED
    BY <2>3, <2>5, <2>6
<1>6. Single => Answerable'
  BY <1>5 DEF Answerable
<1> QED
  BY <1>3, <1>6 DEF Supply

\* A client that waits for a barrier hears nothing else.
LEMMA Deaf ==
  ASSUME IInv, ~fault, unreset = {}, toClient # << >>, toClient' = Tail(toClient), ~Settled,
         current' \in Int,
         IF Head(toClient).type = "SyncBarrier" THEN current' = Head(toClient).id ELSE current' = current,
         UNCHANGED <<model, changes, toServer, client, pending, target, unreset>>
  PROVE  IInv' /\ (Supply => Supply')
<1>1. Typed /\ LoneBarrier /\ Tree(model) /\ Structured(client) /\ Forgot
  BY DEF IInv
<1>2. \A q \in DOMAIN client : Blank(client[q])
  BY <1>1 DEF Forgot
<1>3. /\ toClient' \in Seq(Messages)
      /\ NoBarrier(toClient) => NoBarrier(toClient')
      /\ OneBarrier(toClient) => OneBarrier(toClient')
      /\ OneBarrier(toClient) /\ Head(toClient).type = "SyncBarrier" => NoBarrier(toClient')
  BY <1>1, BarrierTaken DEF Typed
<1>4. NoBarrier(toClient) => Head(toClient).type # "SyncBarrier"
  BY <1>1, BarrierTaken DEF Typed
<1>5. Typed'
  BY <1>1, <1>3 DEF Typed
<1>6. LoneBarrier'
  <2>1. CASE current' = current
    BY <1>1, <1>3, <2>1 DEF LoneBarrier, Settled
  <2>2. CASE current' # current
    <3>1. ~NoBarrier(toClient) /\ NoBarrier(toServer) /\ NoBarrier(toClient') /\ OneBarrier(toServer)
          /\ OneBarrier(toClient')
      BY <1>1, <1>3, <1>4, <2>2 DEF LoneBarrier
    <3> QED
      BY <3>1 DEF LoneBarrier
  <2> QED
    BY <2>1, <2>2
<1>7. Heard'
  <2>1. PICK t, v : Brings(t, v)
    BY Hearing
  <2>2. Copies(client, v)
    BY <1>2, CopyBlank
  <2> QED
    BY <2>1, <2>2 DEF Heard, Brings
<1>8. Forgot' /\ Tree(model)' /\ Structured(client)'
  BY <1>1, <1>2 DEF Forgot
<1>9. IInv'
  BY <1>5, <1>6, <1>7, <1>8 DEF IInv
<1> QED
  BY <1>9, SupplyDeaf

\* newMessage() returns while it waits for a barrier.
LEMMA IgnoredStep ==
  ASSUME IInv, Ignored
  PROVE  IInv' /\ (Supply => Supply') /\ KeepsUp
<1>1. /\ ~fault /\ unreset = {} /\ toClient # << >> /\ toClient' = Tail(toClient) /\ ~Settled
      /\ Head(toClient).type # "SyncBarrier"
      /\ UNCHANGED <<model, changes, toServer, client, headers, pending, current, target, unreset>>
  BY DEF Ignored, Received, server, copy, barriers
<1>2. current' \in Int
  BY <1>1 DEF IInv, Typed
<1>3. IInv' /\ (Supply => Supply')
  BY <1>1, <1>2, Deaf
<1> QED
  BY <1>1, <1>3 DEF KeepsUp, HeadersMatchRows

\* The barrier that clear() sent comes back.
LEMMA BarrierStep ==
  ASSUME IInv, BarrierReply
  PROVE  IInv' /\ (Supply => Supply') /\ KeepsUp
<1>1. /\ ~fault /\ unreset = {} /\ toClient # << >> /\ toClient' = Tail(toClient)
      /\ Head(toClient).type = "SyncBarrier" /\ current' = Head(toClient).id
      /\ UNCHANGED <<model, changes, toServer, client, headers, pending, target, unreset>>
  BY DEF BarrierReply, Received, server, copy
<1>2. ~NoBarrier(toClient)
  BY <1>1, BarrierTaken DEF IInv, Typed
<1>3. ~Settled
  BY <1>2 DEF IInv, LoneBarrier
<1>4. current' \in Int
  <2>1. PICK m \in Messages : m = Head(toClient)
    BY <1>1, Hearing
  <2>2. m.type = "SyncBarrier"
    BY <1>1, <2>1
  <2>3. m.id \in Int
    BY <2>1, <2>2 DEF Messages, Replies, Notices, Barriers
  <2> QED
    BY <1>1, <2>1, <2>3
<1>5. IInv' /\ (Supply => Supply')
  BY <1>1, <1>3, <1>4, Deaf
<1> QED
  BY <1>1, <1>5 DEF KeepsUp, HeadersMatchRows

\* Part of the headers, and new ones.
LEMMA HeadersPart ==
  ASSUME headers \in Seq(Int), NEW a \in Nat, a > 0, NEW l \in Nat, l <= Len(headers), a <= l + 1
  PROVE  SubSeq(headers, a, l) \in Seq(Int) /\ Len(SubSeq(headers, a, l)) = l - a + 1
<1>1. CASE a <= l
  <2>1. a \in 1..(Len(headers) + 1) /\ l \in (a - 1)..Len(headers)
    BY <1>1
  <2> QED
    BY <1>1, <2>1, SubSeqProperties
<1>2. CASE ~(a <= l)
  <2>1. SubSeq(headers, a, l) = << >>
    BY <1>2
  <2> QED
    BY <1>2, <2>1
<1> QED
  BY <1>1, <1>2

\* m_verticalHeaders.insert(f, n, ...)
LEMMA HeadersGrow ==
  ASSUME headers \in Seq(Int), NEW f \in Nat, NEW n \in Nat, f <= Len(headers)
  PROVE  HeadersInserted(f, n) \in Seq(Int) /\ Len(HeadersInserted(f, n)) = Len(headers) + n
<1>1. PICK o \in Nat, g \in Nat, l \in Nat : o = 1 /\ g = f + 1 /\ l = Len(headers)
  <2>1. 1 \in Nat /\ f + 1 \in Nat /\ Len(headers) \in Nat
    OBVIOUS
  <2> QED
    BY <2>1
<1>2. SubSeq(headers, o, f) \in Seq(Int) /\ Len(SubSeq(headers, o, f)) = f
  BY <1>1, HeadersPart
<1>3. SubSeq(headers, g, l) \in Seq(Int) /\ Len(SubSeq(headers, g, l)) = l - f
  BY <1>1, HeadersPart
<1>4. [i \in 1..n |-> None] \in Seq(Int) /\ Len([i \in 1..n |-> None]) = n
  BY DEF None
<1>5. PICK a \in Seq(Int), b \in Seq(Int), c \in Seq(Int) :
        a = SubSeq(headers, o, f) /\ b = [i \in 1..n |-> None] /\ c = SubSeq(headers, g, l)
  BY <1>2, <1>3, <1>4
<1>6. HeadersInserted(f, n) = a \o b \o c
  BY <1>1, <1>5 DEF HeadersInserted
<1>7. Len(a) = f /\ Len(b) = n /\ Len(c) = l - f
  BY <1>2, <1>3, <1>4, <1>5
<1>8. a \o b \in Seq(Int) /\ Len(a \o b) = Len(a) + Len(b)
  BY ConcatProperties
<1>9. (a \o b) \o c \in Seq(Int) /\ Len((a \o b) \o c) = Len(a \o b) + Len(c)
  BY <1>8, ConcatProperties
<1> QED
  BY <1>1, <1>6, <1>7, <1>8, <1>9

\* m_verticalHeaders.remove(f, n)
LEMMA HeadersShrink ==
  ASSUME headers \in Seq(Int), NEW f \in Nat, NEW n \in Nat, f + n <= Len(headers)
  PROVE  HeadersRemoved(f, n) \in Seq(Int) /\ Len(HeadersRemoved(f, n)) = Len(headers) - n
<1>1. PICK o \in Nat, g \in Nat, l \in Nat : o = 1 /\ g = f + n + 1 /\ l = Len(headers)
  <2>1. 1 \in Nat /\ f + n + 1 \in Nat /\ Len(headers) \in Nat
    OBVIOUS
  <2> QED
    BY <2>1
<1>2. SubSeq(headers, o, f) \in Seq(Int) /\ Len(SubSeq(headers, o, f)) = f
  BY <1>1, HeadersPart
<1>3. SubSeq(headers, g, l) \in Seq(Int) /\ Len(SubSeq(headers, g, l)) = l - f - n
  BY <1>1, HeadersPart
<1>4. PICK a \in Seq(Int), c \in Seq(Int) :
        a = SubSeq(headers, o, f) /\ c = SubSeq(headers, g, l)
  BY <1>2, <1>3
<1>5. HeadersRemoved(f, n) = a \o c
  BY <1>1, <1>4 DEF HeadersRemoved
<1>6. Len(a) = f /\ Len(c) = l - f - n
  BY <1>2, <1>3, <1>4
<1>7. a \o c \in Seq(Int) /\ Len(a \o c) = Len(a) + Len(c)
  BY ConcatProperties
<1> QED
  BY <1>1, <1>5, <1>6, <1>7

\* doInsertRows().
LEMMA InsertsRows ==
  ASSUME Structured(client), NEW t, Tree(t), Copies(client, t), NEW p \in DOMAIN t, Knows(client, p),
         NEW f \in Nat, NEW n \in Nat, NEW k \in Nat, Counted(t, p, k), f <= k,
         DoInsertRows(p, f, f + n - 1)
  PROVE  /\ client' = Grown(client, p, f, n)
         /\ Structured(client') /\ StillWaits(client, client', unreset') /\ KeepsUp
<1>0. (f + n - 1) - f + 1 = n
  OBVIOUS
<1>1. /\ client' = Grown(client, p, f, n)
      /\ IF p # Root \/ headers = << >> THEN UNCHANGED <<headers, fault>>
         ELSE IF f > Len(headers) THEN fault' = TRUE /\ UNCHANGED headers
         ELSE headers' = HeadersInserted(f, n) /\ UNCHANGED fault
      /\ unreset' = {<<p, f + n - 1>>}
  <2>1. PICK w \in Int : w = f + n - 1 /\ w - f + 1 = n
    BY <1>0
  <2>2. DoInsertRows(p, f, w)
    BY <2>1
  <2> QED
    BY <2>1, <2>2 DEF DoInsertRows, Grown
<1>2. PICK e : e = Grown(client, p, f, n)
  OBVIOUS
<1>3. p \in DOMAIN client /\ client[p].rows >= 0
  BY DEF Knows
<1>4. PICK u : u = Inserted(t, p, f, n, [i \in 1..n |-> NewNode])
  OBVIOUS
<1>5. Structured(e) /\ e[Root].rows = IF p = Root THEN k + n ELSE client[Root].rows
  BY <1>2, <1>3, <1>4, CopyInserted
<1>6. client' = e
  BY <1>1, <1>2
<1>7. client[p].rows = k
  BY <1>3, KnownRows
<1>8. ASSUME headers \in Seq(Int)
      PROVE  headers' \in Seq(Int) /\ (HeadersMatchRows => HeadersMatchRows')
  <2>1. CASE headers = << >>
    BY <1>1, <1>8, <2>1 DEF HeadersMatchRows
  <2>2. CASE p # Root
    BY <1>1, <1>5, <1>6, <1>8, <2>2 DEF HeadersMatchRows
  <2>3. CASE p = Root /\ headers # << >> /\ f > Len(headers)
    <3>1. headers' = headers
      BY <1>1, <2>3
    <3>2. Len(headers) # k
      BY <1>8, <2>3
    <3> QED
      BY <1>7, <1>8, <2>3, <3>1, <3>2 DEF HeadersMatchRows
  <2>4. CASE p = Root /\ headers # << >> /\ ~(f > Len(headers))
    <3>1. headers' = HeadersInserted(f, n)
      BY <1>1, <2>4
    <3>2. headers' \in Seq(Int) /\ Len(headers') = Len(headers) + n
      BY <1>8, <2>4, <3>1, HeadersGrow
    <3> QED
      BY <1>5, <1>6, <1>7, <2>4, <3>2 DEF HeadersMatchRows
  <2> QED
    BY <2>1, <2>2, <2>3, <2>4
<1>9. StillWaits(client, e, {<<p, f + n - 1>>})
  BY <1>2, <1>3, <1>7, GrownWaits
<1> QED
  BY <1>1, <1>5, <1>6, <1>8, <1>9 DEF KeepsUp

\* doRemoveRows().
LEMMA RemovesRows ==
  ASSUME Structured(client), NEW t, Tree(t), Copies(client, t), NEW p \in DOMAIN t, Knows(client, p),
         NEW f \in Nat, NEW n \in Nat, NEW k \in Nat, Counted(t, p, k), f + n <= k,
         DoRemoveRows(p, f, f + n - 1)
  PROVE  /\ client' = Shrunk(client, p, f, n)
         /\ Structured(client') /\ StillWaits(client, client', unreset') /\ KeepsUp
<1>1. /\ client' = Shrunk(client, p, f, n)
      /\ IF p # Root \/ headers = << >> THEN UNCHANGED <<headers, fault>>
         ELSE IF f + n - 1 >= Len(headers) THEN fault' = TRUE /\ UNCHANGED headers
         ELSE headers' = HeadersRemoved(f, n) /\ UNCHANGED fault
      /\ unreset' = {<<p, f>>}
  <2>1. PICK w \in Int : w = f + n - 1 /\ w - f + 1 = n
    OBVIOUS
  <2>2. DoRemoveRows(p, f, w)
    BY <2>1
  <2> QED
    BY <2>1, <2>2 DEF DoRemoveRows, Shrunk
<1>2. PICK e : e = Shrunk(client, p, f, n)
  OBVIOUS
<1>3. p \in DOMAIN client /\ client[p].rows >= 0
  BY DEF Knows
<1>4. PICK u : u = Closed(t, p, f, n)
  OBVIOUS
<1>5. Structured(e) /\ e[Root].rows = IF p = Root THEN k - n ELSE client[Root].rows
  <2>1. Structured(e)
    BY <1>2, <1>3, <1>4, CopyRemoved
  <2>2. e[Root].rows = IF p = Root THEN k - n ELSE client[Root].rows
    BY <1>2, <1>3, <1>4, CopyRemoved
  <2> QED
    BY <2>1, <2>2
<1>6. client' = e
  BY <1>1, <1>2
<1>7. client[p].rows = k
  BY <1>3, KnownRows
<1>8. ASSUME headers \in Seq(Int)
      PROVE  headers' \in Seq(Int) /\ (HeadersMatchRows => HeadersMatchRows')
  <2>1. CASE headers = << >>
    BY <1>1, <1>8, <2>1 DEF HeadersMatchRows
  <2>2. CASE p # Root
    BY <1>1, <1>5, <1>6, <1>8, <2>2 DEF HeadersMatchRows
  <2>3. CASE p = Root /\ headers # << >> /\ f + n - 1 >= Len(headers)
    <3>1. headers' = headers
      BY <1>1, <2>3
    <3>2. Len(headers) # k
      BY <1>8, <2>3
    <3> QED
      BY <1>7, <1>8, <2>3, <3>1, <3>2 DEF HeadersMatchRows
  <2>4. CASE p = Root /\ headers # << >> /\ ~(f + n - 1 >= Len(headers))
    <3>1. headers' = HeadersRemoved(f, n)
      BY <1>1, <2>4
    <3>2. headers' \in Seq(Int) /\ Len(headers') = Len(headers) - n
      <4>1. f + n <= Len(headers)
        BY <1>8, <2>4
      <4> QED
        BY <1>8, <3>1, <4>1, HeadersShrink
    <3> QED
      BY <1>5, <1>6, <1>7, <2>4, <3>2 DEF HeadersMatchRows
  <2> QED
    BY <2>1, <2>2, <2>3, <2>4
<1>9. StillWaits(client, e, {<<p, f>>})
  BY <1>2, <1>3, <1>7, ShrunkWaits
<1> QED
  BY <1>1, <1>5, <1>6, <1>8, <1>9 DEF KeepsUp

\* What a message of each type says.
LEMMA Meaning ==
  ASSUME NEW m, NEW t, NEW u, Explains(m, t, u)
  PROVE  /\ m.type = "RowsAdded" => TellsInsert(m, t, u)
         /\ m.type = "RowsRemoved" => TellsRemove(m, t, u)
         /\ m.type = "RowsMoved" => TellsMove(m, t, u)
         /\ m.type = "ContentChanged" => TellsContent(m, t, u)
         /\ m.type = "HeaderChanged" => TellsHeader(m, t, u)
         /\ m.type = "LayoutChanged" => "layout" \in Operations /\ TellsLayout(m, t, u)
         /\ m.type \in {"RowColumnCountReply", "ContentReply", "HeaderReply"} => u = t /\ Answers(m, t)
  BY DEF Explains, Answers

\* A message that is heard.
LEMMA Listening ==
  ASSUME IInv, NEW type, Message(type)
  PROVE  /\ ~fault /\ unreset = {} /\ toClient # << >> /\ toClient' = Tail(toClient) /\ Settled
         /\ Head(toClient).type = type /\ Head(toClient) \in Messages
         /\ Structured(client) /\ \E t, v : Brings(t, v)
<1>1. /\ ~fault /\ unreset = {} /\ toClient # << >> /\ toClient' = Tail(toClient) /\ Settled
      /\ Head(toClient).type = type
  BY DEF Message, Received
<1> QED
  BY <1>1, Hearing DEF IInv

\* It is heeded when the copy follows whatever it says.
LEMMA Listened ==
  ASSUME IInv, NEW type, Message(type), type # "Reset", \A t, v : Brings(t, v) => Follows(v) /\ KeepsUp,
         UNCHANGED <<model, changes, toServer, pending, current, target>>
  PROVE  IInv' /\ (Supply => Supply') /\ KeepsUp
<1>1. /\ ~fault /\ unreset = {} /\ toClient # << >> /\ toClient' = Tail(toClient) /\ Settled
      /\ Head(toClient).type = type
  BY Listening
<1>2. PICK t, v : Brings(t, v)
  BY Listening
<1> QED
  BY <1>1, <1>2, Heeded

\* A notification answers nobody.
LEMMA NoticeStays ==
  ASSUME NEW type, Message(type), type \notin {"RowColumnCountReply", "ContentReply"},
         type \notin {"RowColumnCountRequest", "ContentRequest"},
         StillWaits(client, client', unreset')
  PROVE  Stays
  BY DEF Message, Stays, StillWaits, Concerns

\* What is not heard changes nothing.
LEMMA UnheardStays ==
  ASSUME client' = client
  PROVE  StillWaits(client, client', unreset')
  BY DEF StillWaits

\* newMessage(), RowsAdded.
LEMMA RowsAddedFollows ==
  ASSUME IInv, RowsAdded, NEW t, NEW v, Brings(t, v)
  PROVE  Follows(v) /\ KeepsUp
<1>1. Head(toClient).type = "RowsAdded" /\ Structured(client) /\ Message("RowsAdded")
  BY Listening DEF RowsAdded
<1>2. Tree(t) /\ Tree(v) /\ Copies(client, t) /\ TellsInsert(Head(toClient), t, v)
  BY <1>1, Meaning DEF Brings
<1>3. PICK p \in DOMAIN t, f \in Nat, n \in Nat, k \in Nat :
        /\ Head(toClient).parent = p /\ Head(toClient).first = f /\ Head(toClient).last = f + n - 1
        /\ Counted(t, p, k) /\ f <= k /\ \E new : v = Inserted(t, p, f, n, new)
  BY <1>2 DEF TellsInsert
<1>4. PICK new : v = Inserted(t, p, f, n, new)
  BY <1>3
<1>5. IF Known(p) THEN DoInsertRows(p, f, f + n - 1)
      ELSE UNCHANGED <<client, headers, unreset, fault>>
  BY <1>3 DEF RowsAdded
<1>6. CASE Knows(client, p)
  <2>1. DoInsertRows(p, f, f + n - 1)
    BY <1>5, <1>6 DEF Known, Knows
  <2>2. /\ client' = Grown(client, p, f, n)
        /\ Structured(client') /\ StillWaits(client, client', unreset') /\ KeepsUp
    BY <1>1, <1>2, <1>3, <1>6, <2>1, InsertsRows
  <2>3. PICK e : e = Grown(client, p, f, n)
    OBVIOUS
  <2>4. Copies(e, v)
    BY <1>1, <1>2, <1>3, <1>4, <1>6, <2>3, CopyInserted DEF Knows
  <2>5. Stays
    BY <1>1, <2>2, NoticeStays
  <2> QED
    BY <2>2, <2>3, <2>4, <2>5 DEF Follows
<1>7. CASE ~Knows(client, p)
  <2>1. UNCHANGED <<client, headers>>
    BY <1>5, <1>7 DEF Known, Knows
  <2>2. Copies(client, v)
    BY <1>1, <1>2, <1>3, <1>4, <1>7, UnheardInserted
  <2>3. Stays
    BY <1>1, <2>1, UnheardStays, NoticeStays
  <2> QED
    BY <1>1, <2>1, <2>2, <2>3 DEF Follows, KeepsUp, HeadersMatchRows
<1> QED
  BY <1>6, <1>7

\* So the step that hears it keeps the invariant.
LEMMA RowsAddedStep ==
  ASSUME IInv, RowsAdded
  PROVE  IInv' /\ (Supply => Supply') /\ KeepsUp
<1>1. Message("RowsAdded") /\ UNCHANGED <<model, changes, toServer, pending, current, target>>
  BY DEF RowsAdded, server, barriers
<1> QED
  BY <1>1, RowsAddedFollows, Listened

\* newMessage(), RowsRemoved.
LEMMA RowsRemovedFollows ==
  ASSUME IInv, RowsRemoved, NEW t, NEW v, Brings(t, v)
  PROVE  Follows(v) /\ KeepsUp
<1>1. Head(toClient).type = "RowsRemoved" /\ Structured(client) /\ Message("RowsRemoved")
  BY Listening DEF RowsRemoved
<1>2. Tree(t) /\ Tree(v) /\ Copies(client, t) /\ TellsRemove(Head(toClient), t, v)
  BY <1>1, Meaning DEF Brings
<1>3. PICK p \in DOMAIN t, f \in Nat, n \in Nat, k \in Nat :
        /\ Head(toClient).parent = p /\ Head(toClient).first = f /\ Head(toClient).last = f + n - 1
        /\ Counted(t, p, k) /\ f + n <= k /\ v = Closed(t, p, f, n)
  BY <1>2 DEF TellsRemove
<1>4. IF Known(p) THEN DoRemoveRows(p, f, f + n - 1)
      ELSE UNCHANGED <<client, headers, unreset, fault>>
  BY <1>3 DEF RowsRemoved
<1>5. CASE Knows(client, p)
  <2>1. DoRemoveRows(p, f, f + n - 1)
    BY <1>4, <1>5 DEF Known, Knows
  <2>2. /\ client' = Shrunk(client, p, f, n)
        /\ Structured(client') /\ StillWaits(client, client', unreset') /\ KeepsUp
    BY <1>1, <1>2, <1>3, <1>5, <2>1, RemovesRows
  <2>3. PICK e : e = Shrunk(client, p, f, n)
    OBVIOUS
  <2>4. Copies(e, v)
    BY <1>1, <1>2, <1>3, <1>5, <2>3, CopyRemoved DEF Knows
  <2>5. Stays
    BY <1>1, <2>2, NoticeStays
  <2> QED
    BY <2>2, <2>3, <2>4, <2>5 DEF Follows
<1>6. CASE ~Knows(client, p)
  <2>1. UNCHANGED <<client, headers>>
    BY <1>4, <1>6 DEF Known, Knows
  <2>2. Copies(client, v)
    BY <1>1, <1>2, <1>3, <1>6, UnheardRemoved
  <2>3. Stays
    BY <1>1, <2>1, UnheardStays, NoticeStays
  <2> QED
    BY <1>1, <2>1, <2>2, <2>3 DEF Follows, KeepsUp, HeadersMatchRows
<1> QED
  BY <1>5, <1>6

\* So the step that hears it keeps the invariant.
LEMMA RowsRemovedStep ==
  ASSUME IInv, RowsRemoved
  PROVE  IInv' /\ (Supply => Supply') /\ KeepsUp
<1>1. Message("RowsRemoved") /\ UNCHANGED <<model, changes, toServer, pending, current, target>>
  BY DEF RowsRemoved, server, barriers
<1> QED
  BY <1>1, RowsRemovedFollows, Listened

\* doMoveRows(), where the rows do not move up within their parent.
LEMMA MovesRows ==
  ASSUME Structured(client), NEW t, Tree(t), Copies(client, t),
         NEW sp \in DOMAIN t, NEW dp \in DOMAIN t, Knows(client, sp), Knows(client, dp),
         NEW f \in Nat, NEW n \in Nat, NEW d \in Nat, n > 0, Movable(sp, f, n, dp, d),
         Single => n = 1 \/ sp = dp,
         NEW ks \in Nat, NEW kd \in Nat, Counted(t, sp, ks), Counted(t, dp, kd), f + n <= ks, d <= kd,
         NEW u, u = Moved(t, sp, f, n, dp, d), DoMoveRows(sp, f, f + n - 1, dp, d)
  PROVE  /\ Structured(client') /\ Copies(client', u)
         /\ (Single => StillWaits(client, client', unreset')) /\ KeepsUp
<1>1. PICK w \in Int : w = f + n - 1 /\ w - f + 1 = n
  OBVIOUS
<1>2. DoMoveRows(sp, f, w, dp, d)
  BY <1>1
<1>3. ~(sp = dp /\ d <= f)
  BY DEF Movable
<1>4. /\ client' = Carried(client, sp, f, n, dp, d)
      /\ headers' = IF Root \in {sp, dp} THEN << >> ELSE headers
      /\ unreset' = {<<Shifted(sp, dp, d, n), f>>, <<Shifted(dp, sp, f + n, -n), d + n - 1>>}
  BY <1>1, <1>2, <1>3 DEF DoMoveRows, Carried
<1>5. PICK e : e = Carried(client, sp, f, n, dp, d)
  OBVIOUS
<1>6. sp \in DOMAIN client /\ client[sp].rows >= 0 /\ dp \in DOMAIN client /\ client[dp].rows >= 0
  BY DEF Knows
<1>7. Structured(e)
  BY <1>5, <1>6, CopyMoved
<1>8. Copies(e, u)
  BY <1>5, <1>6, CopyMoved
<1>9. Root \notin {sp, dp} => e[Root].rows = client[Root].rows
  BY <1>5, <1>6, CopyMoved
<1>10. client' = e
  BY <1>4, <1>5
<1>11. ASSUME headers \in Seq(Int)
       PROVE  headers' \in Seq(Int) /\ (HeadersMatchRows => HeadersMatchRows')
  <2>1. CASE Root \in {sp, dp}
    <3>1. headers' = << >>
      BY <1>4, <2>1
    <3> QED
      BY <3>1 DEF HeadersMatchRows
  <2>2. CASE Root \notin {sp, dp}
    <3>1. headers' = headers /\ client'[Root].rows = client[Root].rows
      BY <1>4, <1>9, <1>10, <2>2
    <3> QED
      BY <1>11, <3>1 DEF HeadersMatchRows
  <2> QED
    BY <2>1, <2>2
<1>12. ASSUME Single
       PROVE  StillWaits(client, client', unreset')
  <2>1. client[sp].rows = ks /\ client[dp].rows = kd
    BY <1>6, KnownRows
  <2>2. StillWaits(client, e, {<<Shifted(sp, dp, d, n), f>>, <<Shifted(dp, sp, f + n, -n), d + n - 1>>})
    BY <1>5, <1>6, <1>12, <2>1, CarriedWaits
  <2> QED
    BY <1>4, <1>10, <2>2
<1> QED
  BY <1>7, <1>8, <1>10, <1>11, <1>12 DEF KeepsUp

\* newMessage(), RowsMoved: with both parents known, with one of them, with none.
LEMMA RowsMovedFollows ==
  ASSUME IInv, RowsMoved, NEW t, NEW v, Brings(t, v)
  PROVE  Follows(v) /\ KeepsUp
<1>1. Head(toClient).type = "RowsMoved" /\ Structured(client) /\ Message("RowsMoved")
  BY Listening DEF RowsMoved
<1>2. Tree(t) /\ Tree(v) /\ Copies(client, t) /\ TellsMove(Head(toClient), t, v)
  BY <1>1, Meaning DEF Brings
<1>3. PICK sp \in DOMAIN t, dp \in DOMAIN t, f \in Nat, n \in Nat, d \in Nat, ks \in Nat, kd \in Nat :
        /\ Head(toClient).parent = sp /\ Head(toClient).first = f /\ Head(toClient).last = f + n - 1
        /\ Head(toClient).dest = dp /\ Head(toClient).child = d
        /\ n > 0 /\ Movable(sp, f, n, dp, d) /\ (Single => n = 1 \/ sp = dp)
        /\ Counted(t, sp, ks) /\ Counted(t, dp, kd) /\ f + n <= ks /\ d <= kd
        /\ v = Moved(t, sp, f, n, dp, d)
  BY <1>2 DEF TellsMove
<1>4. /\ Known(sp) <=> Knows(client, sp)
      /\ Known(dp) <=> Knows(client, dp)
  BY DEF Known, Knows
<1>5. PICK w \in Int : w = f + n - 1
  OBVIOUS
<1>6. CASE Knows(client, sp) /\ Knows(client, dp)
  <2>1. DoMoveRows(sp, f, w, dp, d)
    BY <1>3, <1>4, <1>5, <1>6 DEF RowsMoved
  <2>2. /\ Structured(client') /\ Copies(client', v)
        /\ (Single => StillWaits(client, client', unreset')) /\ KeepsUp
    BY <1>1, <1>2, <1>3, <1>5, <1>6, <2>1, MovesRows
  <2>3. Single => Stays
    BY <1>1, <2>2, NoticeStays
  <2> QED
    BY <2>2, <2>3 DEF Follows
<1>7. CASE Knows(client, sp) /\ ~Knows(client, dp)
  <2>1. DoRemoveRows(sp, f, w)
    BY <1>3, <1>4, <1>5, <1>7 DEF RowsMoved
  <2>2. /\ client' = Shrunk(client, sp, f, n)
        /\ Structured(client') /\ StillWaits(client, client', unreset') /\ KeepsUp
    BY <1>1, <1>2, <1>3, <1>5, <1>7, <2>1, RemovesRows
  <2>3. PICK e : e = Shrunk(client, sp, f, n)
    OBVIOUS
  <2>4. Copies(e, v)
    BY <1>1, <1>2, <1>3, <1>7, <2>3, CopyMovedOut
  <2>5. Stays
    BY <1>1, <2>2, NoticeStays
  <2> QED
    BY <2>2, <2>3, <2>4, <2>5 DEF Follows
<1>8. CASE ~Knows(client, sp) /\ Knows(client, dp)
  <2>1. PICK l \in Int : l = d + n - 1 /\ l = d + w - f
    BY <1>5
  <2>2. DoInsertRows(dp, d, l)
    BY <1>3, <1>4, <1>5, <1>8, <2>1 DEF RowsMoved
  <2>3. /\ client' = Grown(client, dp, d, n)
        /\ Structured(client') /\ StillWaits(client, client', unreset') /\ KeepsUp
    BY <1>1, <1>2, <1>3, <1>8, <2>1, <2>2, InsertsRows
  <2>4. PICK e : e = Grown(client, dp, d, n)
    OBVIOUS
  <2>5. Copies(e, v)
    BY <1>1, <1>2, <1>3, <1>8, <2>4, CopyMovedIn
  <2>6. Stays
    BY <1>1, <2>3, NoticeStays
  <2> QED
    BY <2>3, <2>4, <2>5, <2>6 DEF Follows
<1>9. CASE ~Knows(client, sp) /\ ~Knows(client, dp)
  <2>1. UNCHANGED <<client, headers>>
    BY <1>3, <1>4, <1>9 DEF RowsMoved
  <2>2. Copies(client, v)
    BY <1>1, <1>2, <1>3, <1>9, UnheardMoved
  <2>3. Stays
    BY <1>1, <2>1, UnheardStays, NoticeStays
  <2> QED
    BY <1>1, <2>1, <2>2, <2>3 DEF Follows, KeepsUp, HeadersMatchRows
<1> QED
  BY <1>6, <1>7, <1>8, <1>9

\* So the step that hears it keeps the invariant.
LEMMA RowsMovedStep ==
  ASSUME IInv, RowsMoved
  PROVE  IInv' /\ (Supply => Supply') /\ KeepsUp
<1>1. Message("RowsMoved") /\ UNCHANGED <<model, changes, toServer, pending, current, target>>
  BY DEF RowsMoved, server, barriers
<1> QED
  BY <1>1, RowsMovedFollows, Listened

\* newMessage(), ContentChanged.
LEMMA ContentChangedFollows ==
  ASSUME IInv, ContentChanged, NEW t, NEW v, Brings(t, v)
  PROVE  Follows(v) /\ KeepsUp
<1>1. Head(toClient).type = "ContentChanged" /\ Structured(client) /\ Message("ContentChanged")
  BY Listening DEF ContentChanged
<1>2. PICK m : m = Head(toClient)
  OBVIOUS
<1>3. Tree(t) /\ Tree(v) /\ Copies(client, t) /\ TellsContent(m, t, v)
  BY <1>1, <1>2, Meaning DEF Brings
<1>4. PICK p, f, n : p = m.parent /\ f = m.first /\ n = m.last - m.first + 1
  OBVIOUS
<1>5. headers' = headers /\ client' = Outdating(client, p, f, n)
  BY <1>2, <1>4 DEF ContentChanged, Outdating, Touched
<1>6. PICK e : e = Outdating(client, p, f, n)
  OBVIOUS
<1>7. /\ DOMAIN v = DOMAIN t /\ \A q \in DOMAIN t : ~Touched(p, q, f, n) => v[q].value = t[q].value
      /\ \A q, k : Counted(v, q, k) <=> Counted(t, q, k)
  BY <1>3, <1>4 DEF TellsContent
<1>8. Structured(e) /\ Copies(e, v)
  BY <1>1, <1>3, <1>6, <1>7, CopyOutdated
<1>9. e[Root].rows = client[Root].rows
  <2>1. Root \in DOMAIN client /\ client[Root] \in Node
    BY <1>1 DEF Structured
  <2>2. e[Root] = IF Touched(p, Root, f, n) THEN [client[Root] EXCEPT !.outdated = TRUE]
                  ELSE client[Root]
    BY <1>6, <2>1 DEF Outdating
  <2> QED
    BY <2>1, <2>2 DEF Node
<1>10. client' = e
  BY <1>5, <1>6
<1>11. Stays
  <2>1. StillWaits(client, e, unreset')
    BY <1>1, <1>6, OutdatingWaits
  <2> QED
    BY <1>1, <1>10, <2>1, NoticeStays
<1> QED
  BY <1>5, <1>8, <1>9, <1>10, <1>11 DEF Follows, KeepsUp, HeadersMatchRows

\* So the step that hears it keeps the invariant.
LEMMA ContentChangedStep ==
  ASSUME IInv, ContentChanged
  PROVE  IInv' /\ (Supply => Supply') /\ KeepsUp
<1>1. Message("ContentChanged") /\ UNCHANGED <<model, changes, toServer, pending, current, target>>
  BY DEF ContentChanged, server, barriers
<1> QED
  BY <1>1, ContentChangedFollows, Listened

\* newMessage(), HeaderChanged: headers are forgotten, none goes.
LEMMA HeaderChangedFollows ==
  ASSUME IInv, HeaderChanged, NEW t, NEW v, Brings(t, v)
  PROVE  Follows(v) /\ KeepsUp
<1>1. Head(toClient).type = "HeaderChanged" /\ Structured(client) /\ Message("HeaderChanged")
  BY Listening DEF HeaderChanged
<1>2. Tree(t) /\ Tree(v) /\ Copies(client, t) /\ TellsHeader(Head(toClient), t, v)
  BY <1>1, Meaning DEF Brings
<1>3. client' = client
  BY DEF HeaderChanged
<1>4. Copies(client, v)
  <2>1. ASSUME NEW q \in DOMAIN client, q \in DOMAIN t
        PROVE  /\ q \in DOMAIN v /\ v[q].value = t[q].value
               /\ client[q].rows >= 0 => (Counted(t, q, client[q].rows) => Counted(v, q, client[q].rows))
    BY <1>2, <2>1 DEF TellsHeader
  <2> QED
    BY <1>2, <2>1, CopyUnheard
<1>5. Stays
  BY <1>1, <1>3, UnheardStays, NoticeStays
<1>6. ASSUME headers \in Seq(Int)
      PROVE  headers' \in Seq(Int) /\ (HeadersMatchRows => HeadersMatchRows')
  <2>1. PICK g : g = [i \in 1..Len(headers) |->
                        IF i - 1 >= Head(toClient).first /\ i - 1 < Head(toClient).last
                        THEN None ELSE headers[i]]
    OBVIOUS
  <2>2. headers' = g
    BY <2>1 DEF HeaderChanged
  <2>3. PICK k \in Nat : k = Len(headers)
    BY <1>6
  <2>4. DOMAIN g = 1..k /\ \A i \in 1..k : g[i] \in Int
    BY <1>6, <2>1, <2>3 DEF None
  <2>5. g = [i \in 1..k |-> g[i]]
    BY <2>1, <2>3, <2>4
  <2>6. g \in Seq(Int) /\ Len(g) = k
    <3>1. [i \in 1..k |-> g[i]] \in Seq(Int) /\ Len([i \in 1..k |-> g[i]]) = k
      BY <2>4
    <3> QED
      BY <2>5, <3>1
  <2>7. g # << >> => headers # << >>
    BY <1>6, <2>3, <2>6
  <2> QED
    BY <1>3, <1>6, <2>2, <2>3, <2>6, <2>7 DEF HeadersMatchRows
<1> QED
  BY <1>1, <1>3, <1>4, <1>5, <1>6 DEF Follows, KeepsUp

\* So the step that hears it keeps the invariant.
LEMMA HeaderChangedStep ==
  ASSUME IInv, HeaderChanged
  PROVE  IInv' /\ (Supply => Supply') /\ KeepsUp
<1>1. Message("HeaderChanged") /\ UNCHANGED <<model, changes, toServer, pending, current, target>>
  BY DEF HeaderChanged, server, barriers
<1> QED
  BY <1>1, HeaderChangedFollows, Listened

\* newMessage(), LayoutChanged: rows are forgotten and the headers are not.
LEMMA LayoutChangedFollows ==
  ASSUME IInv, LayoutChanged, NEW t, NEW v, Brings(t, v)
  PROVE  Follows(v)
<1>1. /\ Head(toClient).type = "LayoutChanged" /\ Structured(client) /\ Head(toClient) \in Messages
      /\ Message("LayoutChanged")
  BY Listening DEF LayoutChanged
<1>2. PICK m \in Messages : m = Head(toClient)
  BY <1>1
<1>3. Tree(t) /\ Tree(v) /\ Copies(client, t) /\ TellsLayout(m, t, v)
  BY <1>1, <1>2, Meaning DEF Brings
<1>4. PICK hint \in BOOLEAN : hint = m.hint
  BY <1>1, <1>2 DEF Messages, Replies, Notices, Barriers
<1>5. PICK p \in DOMAIN t : m.parents \in {{p}, {}} /\ v = Reversed(t, p)
  BY <1>3 DEF TellsLayout
<1>6. PICK r \in {p, Root} : r = IF m.parents = {} THEN Root ELSE p
  OBVIOUS
<1>7. PICK nodes : nodes = {r} \cap DOMAIN client
  OBVIOUS
<1>8. client' = IF nodes = {} THEN client ELSE Forgotten(CHOOSE q \in nodes : TRUE, hint)
  <2>1. (IF m.parents = {} THEN {Root} ELSE m.parents) = {r}
    BY <1>5, <1>6
  <2> QED
    BY <1>2, <1>4, <1>7, <2>1 DEF LayoutChanged
<1>9. CASE r \in DOMAIN client
  <2>1. (CHOOSE q \in nodes : TRUE) = r /\ nodes # {}
    BY <1>7, <1>9
  <2>2. PICK e : e = Forgotten(r, hint)
    OBVIOUS
  <2>3. client' = e
    BY <1>8, <2>1, <2>2
  <2>4. Structured(e) /\ Copies(e, v)
    BY <1>1, <1>3, <1>5, <1>9, <2>2, CopyForgotten
  <2>5. StillWaits(client, e, unreset')
    BY <1>1, <1>9, <2>2, ForgottenWaits
  <2>6. Stays
    BY <1>1, <2>3, <2>5, NoticeStays
  <2> QED
    BY <2>3, <2>4, <2>6 DEF Follows
<1>10. CASE r \notin DOMAIN client
  <2>1. client' = client
    BY <1>7, <1>8, <1>10
  <2>2. Root \in DOMAIN client
    BY <1>1 DEF Structured
  <2>3. r = p
    BY <1>6, <1>10, <2>2
  <2>4. Copies(client, v)
    BY <1>1, <1>3, <1>5, <1>10, <2>3, UnheardLayout
  <2>5. Stays
    BY <1>1, <2>1, UnheardStays, NoticeStays
  <2> QED
    BY <1>1, <2>1, <2>4, <2>5 DEF Follows
<1> QED
  BY <1>9, <1>10

\* The headers are kept, however many rows are forgotten.
LEMMA LayoutChangedStep ==
  ASSUME IInv, LayoutChanged
  PROVE  IInv' /\ (Supply => Supply') /\ headers' = headers
<1>1. /\ Message("LayoutChanged")
      /\ UNCHANGED <<model, changes, toServer, pending, current, target, headers>>
  BY DEF LayoutChanged, server, barriers
<1>2. /\ ~fault /\ unreset = {} /\ toClient # << >> /\ toClient' = Tail(toClient) /\ Settled
      /\ Head(toClient).type = "LayoutChanged"
  BY <1>1, Listening
<1>3. IInv' /\ (Supply => Supply')
  BY <1>1, <1>2, LayoutChangedFollows, Heeded
<1> QED
  BY <1>1, <1>3

\* newMessage(), RowColumnCountReply: a node that was not asked for takes no count.
LEMMA RowColumnCountReplyFollows ==
  ASSUME IInv, RowColumnCountReply, NEW t, NEW v, Brings(t, v)
  PROVE  Follows(v) /\ KeepsUp
<1>1. /\ Head(toClient).type = "RowColumnCountReply" /\ Structured(client) /\ Head(toClient) \in Messages
      /\ Message("RowColumnCountReply")
  BY Listening DEF RowColumnCountReply
<1>2. PICK m \in Messages : m = Head(toClient)
  BY <1>1
<1>3. Tree(t) /\ Copies(client, t) /\ v = t /\ Answers(m, t)
  BY <1>1, <1>2, Meaning DEF Brings
<1>4. PICK p, n : p = m.index /\ n = m.rows
  OBVIOUS
<1>5. n \in Int /\ n >= -1 /\ (n = -1 \/ (n \in Nat /\ p \in DOMAIN t /\ Counted(t, p, n)))
  BY <1>1, <1>2, <1>3, <1>4 DEF Answers
<1>6. /\ headers' = headers
      /\ client' = IF p \in DOMAIN client /\ client[p].rows = Asked THEN Counting(client, p, n) ELSE client
  BY <1>2, <1>4 DEF RowColumnCountReply, Counting
<1>7. \A k, q : Concerns(Head(toClient), k, q) => k = "count" /\ q = p
  BY <1>1, <1>2, <1>4 DEF Concerns
<1>8. CASE p \in DOMAIN client /\ client[p].rows = Asked
  <2>1. client[p].rows < 0
    BY <1>8 DEF Asked
  <2>2. PICK e : e = Counting(client, p, n)
    OBVIOUS
  <2>3. Structured(e) /\ Copies(e, t) /\ (p # Root => e[Root].rows = client[Root].rows)
    <3>1. Structured(e)
      BY <1>1, <1>3, <1>5, <1>8, <2>1, <2>2, CopyCounted
    <3>2. Copies(e, t)
      BY <1>1, <1>3, <1>5, <1>8, <2>1, <2>2, CopyCounted
    <3>3. p # Root => e[Root].rows = client[Root].rows
      BY <1>1, <1>3, <1>5, <1>8, <2>1, <2>2, CopyCounted
    <3> QED
      BY <3>1, <3>2, <3>3
  <2>4. client' = e
    BY <1>6, <1>8, <2>2
  <2>5. Stays
    <3>1. StillWaits(client, e, unreset') /\ ~Waits(e, "count", p)
      BY <1>1, <1>5, <1>8, <2>2, CountingWaits
    <3> QED
      BY <1>7, <2>4, <3>1 DEF Stays, StillWaits
  <2>6. ASSUME headers \in Seq(Int)
        PROVE  headers' \in Seq(Int) /\ (HeadersMatchRows => HeadersMatchRows')
    <3>1. CASE p = Root
      <4>1. HeadersMatchRows => headers = << >>
        BY <2>1, <2>6, <3>1 DEF HeadersMatchRows
      <4> QED
        BY <1>6, <2>6, <4>1 DEF HeadersMatchRows
    <3>2. CASE p # Root
      BY <1>6, <2>3, <2>4, <2>6, <3>2 DEF HeadersMatchRows
    <3> QED
      BY <3>1, <3>2
  <2> QED
    BY <1>3, <2>3, <2>4, <2>5, <2>6 DEF Follows, KeepsUp
<1>9. CASE ~(p \in DOMAIN client /\ client[p].rows = Asked)
  <2>1. client' = client
    BY <1>6, <1>9
  <2>2. ~Waits(client, "count", p)
    BY <1>9 DEF Waits
  <2>3. Stays
    BY <1>7, <2>1, <2>2 DEF Stays
  <2> QED
    BY <1>1, <1>3, <1>6, <2>1, <2>3 DEF Follows, KeepsUp, HeadersMatchRows
<1> QED
  BY <1>8, <1>9

\* So the step that hears it keeps the invariant.
LEMMA RowColumnCountReplyStep ==
  ASSUME IInv, RowColumnCountReply
  PROVE  IInv' /\ (Supply => Supply') /\ KeepsUp
<1>1. Message("RowColumnCountReply") /\ UNCHANGED <<model, changes, toServer, pending, current, target>>
  BY DEF RowColumnCountReply, server, barriers
<1> QED
  BY <1>1, RowColumnCountReplyFollows, Listened

\* newMessage(), ContentReply: a row that was not asked for takes no content.
LEMMA ContentReplyFollows ==
  ASSUME IInv, ContentReply, NEW t, NEW v, Brings(t, v)
  PROVE  Follows(v) /\ KeepsUp
<1>1. /\ Head(toClient).type = "ContentReply" /\ Structured(client) /\ Head(toClient) \in Messages
      /\ Message("ContentReply")
  BY Listening DEF ContentReply
<1>2. PICK m \in Messages : m = Head(toClient)
  BY <1>1
<1>3. Tree(t) /\ Copies(client, t) /\ v = t /\ Answers(m, t)
  BY <1>1, <1>2, Meaning DEF Brings
<1>4. PICK p : p = m.index
  OBVIOUS
<1>5. p \in DOMAIN t /\ p # Root /\ m.value = t[p].value /\ m.leaf = t[p].leaf
  BY <1>1, <1>2, <1>3, <1>4 DEF Answers
<1>6. t[p].leaf \in BOOLEAN
  BY <1>3, <1>5 DEF Tree, Countable, RowOfModel
<1>7. /\ headers' = headers
      /\ client' = IF p \in DOMAIN client /\ client[p].loading
                   THEN Answering(client, p, t[p].value, t[p].leaf) ELSE client
  <2>1. client' = IF p \in DOMAIN client /\ client[p].loading
                  THEN Answering(client, p, m.value, m.leaf) ELSE client
    BY <1>2, <1>4 DEF ContentReply, Answering
  <2> QED
    BY <1>5, <2>1 DEF ContentReply
<1>8. \A k, q : Concerns(Head(toClient), k, q) => k = "content" /\ q = p
  BY <1>1, <1>2, <1>4 DEF Concerns
<1>9. CASE p \in DOMAIN client /\ client[p].loading
  <2>1. PICK e : e = Answering(client, p, t[p].value, t[p].leaf)
    OBVIOUS
  <2>2. Structured(e) /\ Copies(e, t) /\ e[Root] = client[Root]
    <3>1. Structured(e)
      BY <1>1, <1>3, <1>5, <1>9, <2>1, CopyAnswered
    <3>2. Copies(e, t)
      BY <1>1, <1>3, <1>5, <1>9, <2>1, CopyAnswered
    <3>3. e[Root] = client[Root]
      BY <1>1, <1>3, <1>5, <1>9, <2>1, CopyAnswered
    <3> QED
      BY <3>1, <3>2, <3>3
  <2>3. client' = e
    BY <1>7, <1>9, <2>1
  <2>4. Stays
    <3>1. StillWaits(client, e, unreset') /\ ~Waits(e, "content", p)
      BY <1>1, <1>6, <1>9, <2>1, AnsweringWaits
    <3> QED
      BY <1>8, <2>3, <3>1 DEF Stays, StillWaits
  <2> QED
    BY <1>3, <1>7, <2>2, <2>3, <2>4 DEF Follows, KeepsUp, HeadersMatchRows
<1>10. CASE ~(p \in DOMAIN client /\ client[p].loading)
  <2>1. client' = client
    BY <1>7, <1>10
  <2>2. ~Waits(client, "content", p)
    BY <1>10 DEF Waits
  <2>3. Stays
    BY <1>8, <2>1, <2>2 DEF Stays
  <2> QED
    BY <1>1, <1>3, <1>7, <2>1, <2>3 DEF Follows, KeepsUp, HeadersMatchRows
<1> QED
  BY <1>9, <1>10

\* So the step that hears it keeps the invariant.
LEMMA ContentReplyStep ==
  ASSUME IInv, ContentReply
  PROVE  IInv' /\ (Supply => Supply') /\ KeepsUp
<1>1. Message("ContentReply") /\ UNCHANGED <<model, changes, toServer, pending, current, target>>
  BY DEF ContentReply, server, barriers
<1> QED
  BY <1>1, ContentReplyFollows, Listened

\* newMessage(), HeaderReply.
LEMMA HeaderReplyFollows ==
  ASSUME IInv, HeaderReply, NEW t, NEW v, Brings(t, v)
  PROVE  Follows(v) /\ KeepsUp
<1>1. /\ Head(toClient).type = "HeaderReply" /\ Structured(client) /\ Head(toClient) \in Messages
      /\ Message("HeaderReply")
  BY Listening DEF HeaderReply
<1>2. PICK m \in Messages : m = Head(toClient)
  BY <1>1
<1>3. Copies(client, t) /\ v = t
  BY <1>1, Meaning DEF Brings
<1>4. m.section \in Nat /\ m.value \in Int
  BY <1>1, <1>2 DEF Messages, Replies, Notices, Barriers
<1>5. client' = client
  BY DEF HeaderReply
<1>6. \/ headers' = headers
      \/ ~(m.section >= Len(headers)) /\ headers' = [headers EXCEPT ![m.section + 1] = m.value]
  BY <1>2 DEF HeaderReply
<1>7. Stays
  <2>1. \A k, q : ~Concerns(Head(toClient), k, q)
    BY <1>1 DEF Concerns
  <2> QED
    BY <1>5, <2>1 DEF Stays, Message, Waits, Reaches, HeaderReply
<1>8. ASSUME headers \in Seq(Int)
      PROVE  headers' \in Seq(Int) /\ (HeadersMatchRows => HeadersMatchRows')
  <2>1. headers' \in Seq(Int) /\ Len(headers') = Len(headers)
    <3>1. CASE headers' = headers
      BY <1>8, <3>1
    <3>2. CASE headers' # headers
      <4>1. ~(m.section >= Len(headers)) /\ headers' = [headers EXCEPT ![m.section + 1] = m.value]
        BY <1>6, <3>2
      <4>2. PICK i \in 1..Len(headers) : i = m.section + 1
        BY <1>4, <1>8, <4>1
      <4>3. headers' = [headers EXCEPT ![i] = m.value]
        BY <4>1, <4>2
      <4> QED
        BY <1>4, <1>8, <4>3, ExceptSeq
    <3> QED
      BY <3>1, <3>2
  <2>2. headers' # << >> => headers # << >>
    BY <1>8, <2>1
  <2> QED
    BY <1>5, <1>8, <2>1, <2>2 DEF HeadersMatchRows
<1> QED
  BY <1>1, <1>3, <1>5, <1>7, <1>8 DEF Follows, KeepsUp

\* So the step that hears it keeps the invariant.
LEMMA HeaderReplyStep ==
  ASSUME IInv, HeaderReply
  PROVE  IInv' /\ (Supply => Supply') /\ KeepsUp
<1>1. Message("HeaderReply") /\ UNCHANGED <<model, changes, toServer, pending, current, target>>
  BY DEF HeaderReply, server, barriers
<1> QED
  BY <1>1, HeaderReplyFollows, Listened

\* newMessage(), Reset: clear() forgets all and sends a barrier.
LEMMA ResetStep ==
  ASSUME IInv, Reset
  PROVE  IInv' /\ (Supply => Supply') /\ KeepsUp
<1>1. /\ ~fault /\ toClient # << >> /\ toClient' = Tail(toClient) /\ Settled
  BY Listening DEF Reset
<1>2. PICK t, v : Brings(t, v)
  BY <1>1, Hearing
<1>3. Leads(v, Tail(toClient), model)
  BY <1>2 DEF Brings
<1>4. PICK b : b = [type |-> "SyncBarrier", id |-> target + 1]
  OBVIOUS
<1>5. /\ UNCHANGED <<model, changes, pending, current>>
      /\ target' = target + 1 /\ toServer' = Append(toServer, b)
      /\ client' = NewRoot /\ headers' = << >>
  BY <1>4 DEF Reset, server
<1>6. Typed /\ LoneBarrier /\ Tree(model)
  BY DEF IInv
<1>7. target + 1 \in Int /\ target + 1 # current
  BY <1>1, <1>6 DEF Typed, Settled
<1>8. b \in Barriers
  BY <1>4, <1>7 DEF Barriers
<1>9. NoBarrier(toServer) /\ NoBarrier(toClient)
  BY <1>1, <1>6 DEF LoneBarrier
<1>10. toClient' \in Seq(Messages) /\ NoBarrier(toClient') /\ OneBarrier(toClient')
  <2>1. toClient' \in Seq(Messages) /\ NoBarrier(toClient')
    BY <1>1, <1>6, <1>9, BarrierTaken DEF Typed
  <2> QED
    BY <2>1 DEF NoBarrier, OneBarrier
<1>11. toServer' \in Seq(Requests \cup Barriers) /\ OneBarrier(toServer')
  BY <1>5, <1>6, <1>8, <1>9, BarrierAppended DEF Typed
<1>12. ~Settled'
  BY <1>5, <1>7 DEF Settled
<1>13. Typed' /\ LoneBarrier'
  BY <1>5, <1>6, <1>7, <1>10, <1>11, <1>12 DEF Typed, LoneBarrier
<1>14. Structured(client') /\ \A q \in DOMAIN client' : Blank(client'[q])
  BY <1>5, NewRootIs
<1>15. Forgot'
  BY <1>14 DEF Forgot
<1>16. Heard'
  <2>1. Copies(client', v)
    BY <1>14, CopyBlank
  <2> QED
    BY <1>1, <1>3, <1>5, <2>1 DEF Heard
<1>17. IInv'
  BY <1>5, <1>6, <1>13, <1>14, <1>15, <1>16 DEF IInv
<1>18. ASSUME Supply
       PROVE  Supply'
  <2>1. Bars(toClient', target') /\ Bars(toServer, target')
    BY <1>9, <1>10 DEF Bars, NoBarrier
  <2>2. b \in Requests \cup Barriers /\ b.type = "SyncBarrier" /\ b.id = target'
    BY <1>4, <1>5, <1>8
  <2>3. Bars(toServer', target') /\ ~NoBarrier(toServer')
    BY <1>5, <1>6, <2>1, <2>2, BarsAppended DEF Typed
  <2>4. Barred'
    BY <2>1, <2>3 DEF Barred
  <2>5. ASSUME Single
        PROVE  \E T : Copies(client', T[0]) /\ Leading(T, T[0], toClient', model') /\ Supplied(T)'
    <3>1. PICK T : Copies(client, T[0]) /\ Leading(T, T[0], toClient, model) /\ Supplied(T)
      BY <1>1, <1>18, <2>5 DEF Supply, Answerable
    <3>2. PICK R : Leading(R, T[1], Tail(toClient), model) /\ R[0] = T[1]
      BY <1>1, <1>6, <3>1, LeadingTail DEF Typed
    <3>3. Leading(R, R[0], toClient', model')
      BY <1>1, <1>5, <3>2
    <3>4. Copies(client', R[0])
      BY <1>14, CopyBlank
    <3>5. Supplied(R)'
      BY <1>5, NewRootWaits DEF Supplied
    <3> QED
      BY <3>3, <3>4, <3>5
  <2>6. Single => Answerable'
    BY <2>5 DEF Answerable
  <2> QED
    BY <2>4, <2>6 DEF Supply
<1>19. KeepsUp
  BY <1>5 DEF KeepsUp, HeadersMatchRows
<1> QED
  BY <1>17, <1>18, <1>19

-----------------------------------------------------------------------------
(* Views ask: marks are set or taken back, and requests collected or sent. *)

Marked(e, c) ==
  /\ DOMAIN e = DOMAIN c
  /\ \A q \in DOMAIN c :
       /\ e[q] \in Node /\ e[q].value = c[q].value /\ e[q].outdated = c[q].outdated
       /\ e[q].rows = c[q].rows \/ (e[q].rows < 0 /\ c[q].rows < 0)

Queues == [count : Seq(Requests), data : Seq(Requests)]

\* What a mark waits for that is set is in the requests r that go out, or collected.
Sent(r) ==
  /\ \A k, q : Waits(client', k, q) /\ ~Reaches(unreset', q) =>
       \/ Waits(client, k, q) /\ ~Reaches(unreset, q)
       \/ Holds(r, k, q) \/ Holds(Flushed(pending'), k, q)
  /\ \A k, q : Holds(Flushed(pending), k, q) => Holds(r, k, q) \/ Holds(Flushed(pending'), k, q)

\* A request that is made is under way from then on.
LEMMA SupplyAsking ==
  ASSUME IInv, Supply, ~fault, NEW r \in Seq(Requests), toServer' = toServer \o r, Sent(r),
         \A t : Copies(client, t) => Copies(client', t),
         UNCHANGED <<model, toClient, current, target>>
  PROVE  Supply'
<1>1. Typed /\ Barred /\ (Single => Answerable)
  BY DEF IInv, Supply
<1>2. r \in Seq(Requests \cup Barriers) /\ NoBarrier(r) /\ toServer \in Seq(Requests \cup Barriers)
  BY <1>1, RequestsOnly DEF Typed
<1>3. /\ Bars(toServer, target) => Bars(toServer', target)
      /\ NoBarrier(toServer) <=> NoBarrier(toServer')
  BY <1>2, BarsConcat
<1>4. \A k, q : Holds(toServer, k, q) \/ Holds(r, k, q) => Holds(toServer', k, q)
  BY <1>2, HoldsConcat
<1>5. Barred'
  BY <1>1, <1>3 DEF Barred, Settled
<1>6. ASSUME Single
      PROVE  \E T : Copies(client', T[0]) /\ Leading(T, T[0], toClient', model') /\ Supplied(T)'
  <2>1. PICK T : Copies(client, T[0]) /\ Leading(T, T[0], toClient, model) /\ Supplied(T)
    BY <1>1, <1>6 DEF Answerable
  <2>2. ASSUME NEW k, NEW q, Waits(client', k, q), ~Reaches(unreset', q)
        PROVE  UnderWay(k, q)' \/ Absent(T, q)'
    <3>1. CASE Holds(r, k, q) \/ Holds(Flushed(pending'), k, q)
      BY <1>4, <3>1 DEF UnderWay
    <3>2. CASE Waits(client, k, q) /\ ~Reaches(unreset, q)
      <4>1. UnderWay(k, q) \/ Absent(T, q)
        BY <2>1, <3>2 DEF Supplied
      <4>2. Absent(T, q) => Absent(T, q)'
        BY <1>3 DEF Absent
      <4>3. UnderWay(k, q) => UnderWay(k, q)'
        <5>1. CASE Holds(Flushed(pending), k, q)
          <6>1. Holds(r, k, q) \/ Holds(Flushed(pending'), k, q)
            BY <5>1 DEF Sent
          <6> QED
            BY <1>4, <6>1 DEF UnderWay
        <5>2. CASE Holds(toServer, k, q)
          BY <1>4, <5>2 DEF UnderWay
        <5>3. CASE NoBarrier(toServer) /\ Holds(toClient, k, q)
          BY <1>3, <5>3 DEF UnderWay
        <5> QED
          BY <5>1, <5>2, <5>3 DEF UnderWay
      <4> QED
        BY <4>1, <4>2, <4>3
    <3>3. \/ Waits(client, k, q) /\ ~Reaches(unreset, q)
          \/ Holds(r, k, q) \/ Holds(Flushed(pending'), k, q)
      BY <2>2 DEF Sent
    <3> QED
      BY <3>1, <3>2, <3>3
  <2>3. Supplied(T)'
    BY <2>2 DEF Supplied
  <2> QED
    BY <2>1, <2>3
<1>7. Single => Answerable'
  BY <1>6 DEF Answerable
<1> QED
  BY <1>5, <1>7 DEF Supply

\* What views set and take back leaves the copy as right as it was.
LEMMA Asking ==
  ASSUME IInv, ~fault, Marked(client', client), NEW r \in Seq(Requests), toServer' = toServer \o r,
         pending' \in Queues, Sent(r), UNCHANGED <<model, changes, toClient, current, target>>
  PROVE  /\ IInv' /\ (Supply => Supply')
         /\ client[Root].rows >= 0 => client'[Root].rows = client[Root].rows
<1>1. Typed /\ LoneBarrier /\ Tree(model) /\ Structured(client) /\ Forgot /\ Heard
  BY DEF IInv
<1>2. /\ toServer' \in Seq(Requests \cup Barriers)
      /\ NoBarrier(toServer) => NoBarrier(toServer')
      /\ OneBarrier(toServer) => OneBarrier(toServer')
  <2>1. r \in Seq(Requests \cup Barriers) /\ NoBarrier(r)
    BY RequestsOnly
  <2> QED
    BY <1>1, <2>1, BarrierConcat DEF Typed
<1>3. Typed' /\ LoneBarrier'
  BY <1>1, <1>2 DEF Typed, LoneBarrier, Settled, Queues
<1>4. PICK e : e = client'
  OBVIOUS
<1>5. DOMAIN e = DOMAIN client
  BY <1>4 DEF Marked
<1>6. ASSUME NEW q \in DOMAIN client
      PROVE  /\ e[q] \in Node /\ e[q].value = client[q].value /\ e[q].outdated = client[q].outdated
             /\ e[q].rows = client[q].rows \/ (e[q].rows < 0 /\ client[q].rows < 0)
             /\ e[q].rows \in Int /\ client[q].rows \in Int
  BY <1>1, <1>4 DEF Marked, Structured, Node
<1>7. Structured(e)
  <2>1. ASSUME NEW q \in DOMAIN client
        PROVE  e[q] \in Node /\ (e[q].rows = client[q].rows \/ (e[q].rows <= 0 /\ client[q].rows <= 0))
    BY <1>6
  <2> QED
    BY <1>1, <1>5, <2>1, Retouched
<1>8. ASSUME NEW t, Copies(client, t)
      PROVE  Copies(e, t)
  <2>1. ASSUME NEW q \in DOMAIN client
        PROVE  /\ e[q].rows >= 0 => e[q].rows = client[q].rows
               /\ e[q].outdated \/ (e[q].value = client[q].value /\ e[q].outdated = client[q].outdated)
    BY <1>6
  <2> QED
    BY <1>5, <1>8, <2>1, CopyRetouched
<1>9. \A q \in DOMAIN client : Blank(client[q]) => Blank(e[q])
  BY <1>6 DEF Blank
<1>10. Forgot'
  BY <1>1, <1>4, <1>5, <1>9 DEF Forgot, Settled
<1>11. Heard'
  BY <1>1, <1>4, <1>8 DEF Heard
<1>12. IInv'
  <2>1. Structured(client')
    BY <1>4, <1>7
  <2>2. Tree(model')
    BY <1>1
  <2> QED
    BY <1>3, <1>10, <1>11, <2>1, <2>2 DEF IInv
<1>13. Root \in DOMAIN client
  BY <1>1 DEF Structured
<1>14. client[Root].rows >= 0 => e[Root].rows = client[Root].rows
  BY <1>6, <1>13
<1>15. Supply => Supply'
  BY <1>4, <1>8, SupplyAsking
<1> QED
  BY <1>4, <1>12, <1>14, <1>15

\* As many headers as rows, after only marks were set.
LEMMA HeadersStay ==
  ASSUME client[Root].rows >= 0 => client'[Root].rows = client[Root].rows, headers' = headers
  PROVE  KeepsUp
<1> SUFFICES ASSUME headers \in Seq(Int), HeadersMatchRows PROVE HeadersMatchRows'
  BY DEF KeepsUp
<1>1. headers # << >> => Len(headers) = client[Root].rows /\ client[Root].rows >= 0
  BY DEF HeadersMatchRows
<1> QED
  BY <1>1 DEF HeadersMatchRows

\* A request that joins either queue, and those that were in it before.
LEMMA QueueGrows ==
  ASSUME NEW c \in Seq(Requests), NEW d \in Seq(Requests), NEW m \in Requests
  PROVE  \A k, q : Holds(c \o d, k, q) \/ Concerns(m, k, q) =>
           Holds(Append(c, m) \o d, k, q) /\ Holds(c \o Append(d, m), k, q)
<1>1. m.type # "SyncBarrier"
  BY DEF Requests
<1>2. PICK cm \in Seq(Requests), dm \in Seq(Requests) : cm = Append(c, m) /\ dm = Append(d, m)
  BY AppendProperties
<1>3. NoBarrier(d) /\ NoBarrier(dm)
  BY RequestsOnly
<1>4. ASSUME NEW k, NEW q, Holds(c \o d, k, q) \/ Concerns(m, k, q)
      PROVE  Holds(cm \o d, k, q) /\ Holds(c \o dm, k, q)
  <2>1. Holds(c, k, q) \/ Holds(d, k, q) \/ Concerns(m, k, q)
    BY <1>4, HoldsPart
  <2>2. (Holds(c, k, q) \/ Concerns(m, k, q) => Holds(cm, k, q))
        /\ (Holds(d, k, q) \/ Concerns(m, k, q) => Holds(dm, k, q))
    BY <1>1, <1>2, HoldsAppended
  <2>3. /\ Holds(cm, k, q) \/ Holds(d, k, q) => Holds(cm \o d, k, q)
        /\ Holds(c, k, q) \/ Holds(dm, k, q) => Holds(c \o dm, k, q)
    BY <1>3, HoldsConcat
  <2> QED
    BY <2>1, <2>2, <2>3
<1> QED
  BY <1>2, <1>4

\* Requests are kept or sent, in order.
LEMMA Collected ==
  ASSUME toServer \in Seq(Requests \cup Barriers), NEW requests \in Queues, Collect(requests)
  PROVE  /\ pending' \in Queues
         /\ \E r \in Seq(Requests) :
              /\ toServer' = toServer \o r
              /\ \A k, q : Holds(Flushed(requests), k, q) =>
                   Holds(r, k, q) \/ Holds(Flushed(pending'), k, q)
<1>1. << >> \in Seq(Requests)
  OBVIOUS
<1>2. CASE pending' = requests /\ toServer' = toServer
  <2>1. toServer' = toServer \o << >>
    BY <1>2
  <2> QED
    BY <1>1, <1>2, <2>1
<1>3. CASE pending' = [count |-> << >>, data |-> << >>] /\ toServer' = toServer \o Flushed(requests)
  <2>1. requests.count \in Seq(Requests) /\ requests.data \in Seq(Requests)
    BY DEF Queues
  <2>2. Flushed(requests) \in Seq(Requests)
    BY <2>1, ConcatProperties DEF Flushed
  <2>3. pending' \in Queues
    BY <1>1, <1>3 DEF Queues
  <2> QED
    BY <1>3, <2>2, <2>3
<1> QED
  BY <1>2, <1>3 DEF Collect

\* rowCount() asks for a count.
LEMMA AskRowCountStep ==
  ASSUME IInv, AskRowCount
  PROVE  IInv' /\ (Supply => Supply') /\ KeepsUp
<1>1. Typed /\ Structured(client)
  BY DEF IInv
<1>2. ~fault /\ UNCHANGED <<model, changes, toClient, current, target, headers, unreset>>
  BY DEF AskRowCount, CanAsk, server, barriers
<1>3. PICK p \in DOMAIN client :
        /\ client[p].rows = Unknown /\ client' = [client EXCEPT ![p].rows = Asked]
        /\ Collect([pending EXCEPT !.count = Append(@, [type |-> "RowColumnCountRequest", index |-> p])])
  BY DEF AskRowCount
<1>4. PICK m : m = [type |-> "RowColumnCountRequest", index |-> p]
  OBVIOUS
<1>5. p \in Path /\ client[p] \in Node
  BY <1>1 DEF Structured, Closure
<1>6. m \in Requests
  BY <1>4, <1>5 DEF Requests
<1>7. PICK requests : requests = [pending EXCEPT !.count = Append(@, m)]
  OBVIOUS
<1>8. /\ requests \in Queues /\ Collect(requests)
      /\ \A k, q : Holds(Flushed(pending), k, q) \/ Concerns(m, k, q) => Holds(Flushed(requests), k, q)
  <2>1. Append(pending.count, m) \in Seq(Requests)
    BY <1>1, <1>6, AppendProperties DEF Typed
  <2>2. requests = [count |-> Append(pending.count, m), data |-> pending.data]
    BY <1>1, <1>7 DEF Typed
  <2>3. \A k, q : Holds(Flushed(pending), k, q) \/ Concerns(m, k, q) => Holds(Flushed(requests), k, q)
    <3>1. requests.count = Append(pending.count, m) /\ requests.data = pending.data
      BY <2>2
    <3>2. pending.count \in Seq(Requests) /\ pending.data \in Seq(Requests)
      BY <1>1 DEF Typed
    <3> QED
      BY <1>6, <3>1, <3>2, QueueGrows DEF Flushed
  <2>4. requests \in Queues
    BY <1>1, <2>1, <2>2 DEF Typed, Queues
  <2> QED
    BY <1>3, <1>4, <1>7, <2>3, <2>4
<1>9. PICK r \in Seq(Requests) :
        /\ pending' \in Queues /\ toServer' = toServer \o r
        /\ \A k, q : Holds(Flushed(requests), k, q) => Holds(r, k, q) \/ Holds(Flushed(pending'), k, q)
  BY <1>1, <1>8, Collected DEF Typed
<1>10. Marked(client', client)
  <2>1. DOMAIN client' = DOMAIN client /\ \A q \in DOMAIN client : q # p => client'[q] = client[q]
    BY <1>3
  <2>2. client'[p] = [client[p] EXCEPT !.rows = Asked]
    BY <1>3
  <2>3. /\ client'[p] \in Node /\ client'[p].value = client[p].value
        /\ client'[p].outdated = client[p].outdated /\ client'[p].rows < 0 /\ client[p].rows < 0
    BY <1>3, <1>5, <2>2 DEF Node, Asked, Unknown
  <2> QED
    BY <1>1, <2>1, <2>3 DEF Marked, Structured
<1>11. ASSUME NEW k, NEW q, Waits(client', k, q)
       PROVE  Waits(client, k, q) \/ Concerns(m, k, q)
  <2>1. DOMAIN client' = DOMAIN client /\ q \in DOMAIN client
    BY <1>3, <1>11 DEF Waits
  <2>2. CASE q # p
    <3>1. client'[q] = client[q]
      BY <1>3, <2>1, <2>2
    <3> QED
      BY <1>11, <2>1, <3>1 DEF Waits
  <2>3. CASE q = p
    <3>1. client'[p].loading = client[p].loading
      BY <1>3, <1>5 DEF Node
    <3>2. k = "count" => Concerns(m, k, q)
      BY <1>4, <2>3 DEF Concerns
    <3> QED
      BY <1>11, <2>1, <2>3, <3>1, <3>2 DEF Waits
  <2> QED
    BY <2>2, <2>3
<1>12. Sent(r)
  BY <1>2, <1>8, <1>9, <1>11 DEF Sent
<1>13. /\ IInv' /\ (Supply => Supply')
       /\ client[Root].rows >= 0 => client'[Root].rows = client[Root].rows
  BY <1>2, <1>9, <1>10, <1>12, Asking
<1> QED
  BY <1>2, <1>13, HeadersStay

\* data() asks for content.
LEMMA AskContentStep ==
  ASSUME IInv, AskContent
  PROVE  IInv' /\ (Supply => Supply') /\ KeepsUp
<1>1. Typed /\ Structured(client)
  BY DEF IInv
<1>2. ~fault /\ UNCHANGED <<model, changes, toClient, current, target, headers, unreset>>
  BY DEF AskContent, CanAsk, server, barriers
<1>3. PICK p \in DOMAIN client \ {Root} :
        /\ client' = [client EXCEPT ![p].loading = TRUE]
        /\ Collect([pending EXCEPT !.data = Append(@, [type |-> "ContentRequest", index |-> p])])
  BY DEF AskContent
<1>4. PICK m : m = [type |-> "ContentRequest", index |-> p]
  OBVIOUS
<1>5. p \in Path \ {Root} /\ client[p] \in Node
  BY <1>1 DEF Structured, Closure
<1>6. m \in Requests
  BY <1>4, <1>5 DEF Requests
<1>7. PICK requests : requests = [pending EXCEPT !.data = Append(@, m)]
  OBVIOUS
<1>8. /\ requests \in Queues /\ Collect(requests)
      /\ \A k, q : Holds(Flushed(pending), k, q) \/ Concerns(m, k, q) => Holds(Flushed(requests), k, q)
  <2>1. Append(pending.data, m) \in Seq(Requests)
    BY <1>1, <1>6, AppendProperties DEF Typed
  <2>2. requests = [count |-> pending.count, data |-> Append(pending.data, m)]
    BY <1>1, <1>7 DEF Typed
  <2>3. \A k, q : Holds(Flushed(pending), k, q) \/ Concerns(m, k, q) => Holds(Flushed(requests), k, q)
    <3>1. requests.count = pending.count /\ requests.data = Append(pending.data, m)
      BY <2>2
    <3>2. pending.count \in Seq(Requests) /\ pending.data \in Seq(Requests)
      BY <1>1 DEF Typed
    <3> QED
      BY <1>6, <3>1, <3>2, QueueGrows DEF Flushed
  <2>4. requests \in Queues
    BY <1>1, <2>1, <2>2 DEF Typed, Queues
  <2> QED
    BY <1>3, <1>4, <1>7, <2>3, <2>4
<1>9. PICK r \in Seq(Requests) :
        /\ pending' \in Queues /\ toServer' = toServer \o r
        /\ \A k, q : Holds(Flushed(requests), k, q) => Holds(r, k, q) \/ Holds(Flushed(pending'), k, q)
  BY <1>1, <1>8, Collected DEF Typed
<1>10. Marked(client', client)
  <2>1. DOMAIN client' = DOMAIN client /\ \A q \in DOMAIN client : q # p => client'[q] = client[q]
    BY <1>3
  <2>2. client'[p] = [client[p] EXCEPT !.loading = TRUE]
    BY <1>3
  <2>3. /\ client'[p] \in Node /\ client'[p].value = client[p].value
        /\ client'[p].outdated = client[p].outdated /\ client'[p].rows = client[p].rows
    BY <1>5, <2>2 DEF Node
  <2> QED
    BY <1>1, <2>1, <2>3 DEF Marked, Structured
<1>11. ASSUME NEW k, NEW q, Waits(client', k, q)
       PROVE  Waits(client, k, q) \/ Concerns(m, k, q)
  <2>1. DOMAIN client' = DOMAIN client /\ q \in DOMAIN client
    BY <1>3, <1>11 DEF Waits
  <2>2. CASE q # p
    <3>1. client'[q] = client[q]
      BY <1>3, <2>1, <2>2
    <3> QED
      BY <1>11, <2>1, <3>1 DEF Waits
  <2>3. CASE q = p
    <3>1. client'[p].rows = client[p].rows
      BY <1>3, <1>5 DEF Node
    <3>2. k = "content" => Concerns(m, k, q)
      BY <1>4, <2>3 DEF Concerns
    <3> QED
      BY <1>11, <2>1, <2>3, <3>1, <3>2 DEF Waits
  <2> QED
    BY <2>2, <2>3
<1>12. Sent(r)
  BY <1>2, <1>8, <1>9, <1>11 DEF Sent
<1>13. /\ IInv' /\ (Supply => Supply')
       /\ client[Root].rows >= 0 => client'[Root].rows = client[Root].rows
  BY <1>2, <1>9, <1>10, <1>12, Asking
<1> QED
  BY <1>2, <1>13, HeadersStay

\* The timer's doRequests().
LEMMA SendPendingStep ==
  ASSUME IInv, SendPending
  PROVE  IInv' /\ (Supply => Supply') /\ KeepsUp
<1>1. Typed /\ Structured(client)
  BY DEF IInv
<1>2. /\ ~fault /\ UNCHANGED <<model, changes, toClient, current, target, client, headers, unreset>>
      /\ pending' = [count |-> << >>, data |-> << >>] /\ toServer' = toServer \o Flushed(pending)
  BY DEF SendPending, server, barriers
<1>3. Flushed(pending) \in Seq(Requests) /\ << >> \in Seq(Requests)
  <2>1. pending.count \in Seq(Requests) /\ pending.data \in Seq(Requests)
    BY <1>1 DEF Typed
  <2> QED
    BY <2>1, ConcatProperties DEF Flushed
<1>4. pending' \in Queues
  BY <1>2, <1>3 DEF Queues
<1>5. Marked(client', client)
  BY <1>1, <1>2 DEF Marked, Structured
<1>6. Sent(Flushed(pending))
  BY <1>2 DEF Sent
<1>7. IInv' /\ (Supply => Supply')
  BY <1>2, <1>3, <1>4, <1>5, <1>6, Asking
<1> QED
  BY <1>2, <1>7 DEF KeepsUp, HeadersMatchRows

\* resetLoadingState() takes marks back.
LEMMA ResetLoadingStateStep ==
  ASSUME IInv, ResetLoadingState
  PROVE  IInv' /\ (Supply => Supply') /\ KeepsUp
<1>1. Typed /\ Structured(client)
  BY DEF IInv
<1>2. ~fault /\ UNCHANGED <<model, changes, toClient, current, target, headers, toServer, pending>>
  BY DEF ResetLoadingState, server, barriers
<1>3. << >> \in Seq(Requests) /\ toServer' = toServer \o << >> /\ pending' \in Queues
  BY <1>1, <1>2 DEF Typed, Queues
<1>4. Marked(client', client)
  <2>1. DOMAIN client' = DOMAIN client
    BY DEF ResetLoadingState
  <2>2. ASSUME NEW q \in DOMAIN client
        PROVE  client'[q] = Loadless(client[q]) \/ client'[q] = client[q]
    BY DEF ResetLoadingState
  <2>3. ASSUME NEW q \in DOMAIN client
        PROVE  /\ client'[q] \in Node /\ client'[q].value = client[q].value
               /\ client'[q].outdated = client[q].outdated
               /\ client'[q].rows = client[q].rows \/ (client'[q].rows < 0 /\ client[q].rows < 0)
    <3>1. PICK node \in Node : node = client[q]
      BY <1>1 DEF Structured
    <3>2. /\ Loadless(node) \in Node /\ Loadless(node).value = node.value
          /\ Loadless(node).outdated = node.outdated
          /\ Loadless(node).rows = node.rows \/ (Loadless(node).rows < 0 /\ node.rows < 0)
      BY LoadlessIs
    <3>3. client'[q] = Loadless(node) \/ client'[q] = node
      BY <2>2, <3>1
    <3> QED
      BY <3>1, <3>2, <3>3
  <2> QED
    BY <2>1, <2>3 DEF Marked
<1>5. ASSUME NEW k, NEW q, Waits(client', k, q)
      PROVE  Waits(client, k, q) /\ ~Reaches(unreset, q)
  <2>1. DOMAIN client' = DOMAIN client /\ q \in DOMAIN client
    BY <1>5 DEF ResetLoadingState, Waits
  <2>2. PICK node \in Node : node = client[q]
    BY <1>1, <2>1 DEF Structured
  <2>3. client'[q] = IF Reaches(unreset, q) THEN Loadless(node) ELSE node
    BY <2>1, <2>2 DEF ResetLoadingState, Reaches
  <2>4. ~Reaches(unreset, q)
    <3> SUFFICES ASSUME Reaches(unreset, q) PROVE FALSE
      OBVIOUS
    <3>1. client'[q] = Loadless(node)
      BY <2>3
    <3>2. Loadless(node).rows # Asked /\ Loadless(node).loading = FALSE
      BY LoadlessWaits
    <3> QED
      BY <1>5, <3>1, <3>2 DEF Waits
  <2>5. client'[q] = client[q]
    BY <2>2, <2>3, <2>4
  <2> QED
    BY <1>5, <2>1, <2>4, <2>5 DEF Waits
<1>6. Sent(<< >>)
  BY <1>2, <1>5 DEF Sent
<1>7. /\ IInv' /\ (Supply => Supply')
      /\ client[Root].rows >= 0 => client'[Root].rows = client[Root].rows
  BY <1>2, <1>3, <1>4, <1>6, Asking
<1> QED
  BY <1>2, <1>7, HeadersStay

\* headerData(): the vector has its size, and no section is beyond it.
LEMMA AskHeaderStep ==
  ASSUME IInv, AskHeader
  PROVE  IInv' /\ (Supply => Supply') /\ KeepsUp
<1>1. Typed /\ Structured(client)
  BY DEF IInv
<1>2. ~fault /\ UNCHANGED <<model, changes, toClient, current, target, client, pending, unreset>>
  BY DEF AskHeader, CanAsk, server, barriers
<1>3. client[Root].rows \in Int
  BY <1>1 DEF Structured, Node
<1>4. PICK k \in Int : k = client[Root].rows
  BY <1>3
<1>5. PICK s \in 0..(k - 1) :
        LET sized == IF headers = << >> THEN [i \in 1..k |-> None] ELSE headers
        IN  IF s >= Len(sized)
            THEN fault' = TRUE /\ UNCHANGED <<headers, toServer>>
            ELSE /\ sized[s + 1] = None
                 /\ headers' = [sized EXCEPT ![s + 1] = Loading]
                 /\ toServer' = Append(toServer, [type |-> "HeaderRequest", section |-> s])
                 /\ UNCHANGED fault
  BY <1>4 DEF AskHeader
<1>6. k \in Nat /\ s \in Nat /\ s < k
  BY <1>4
<1>7. PICK sized : sized = IF headers = << >> THEN [i \in 1..k |-> None] ELSE headers
  OBVIOUS
<1>8. PICK m \in Requests : m = [type |-> "HeaderRequest", section |-> s]
  BY <1>6 DEF Requests
<1>9. \/ UNCHANGED <<headers, toServer>>
      \/ /\ ~(s >= Len(sized)) /\ headers' = [sized EXCEPT ![s + 1] = Loading]
         /\ toServer' = Append(toServer, m)
  BY <1>5, <1>7, <1>8
<1>10. \E r \in Seq(Requests) : toServer' = toServer \o r
  <2>1. << >> \in Seq(Requests) /\ <<m>> \in Seq(Requests)
    OBVIOUS
  <2>2. CASE toServer' = toServer
    <3>1. toServer' = toServer \o << >>
      BY <1>1, <2>2 DEF Typed
    <3> QED
      BY <2>1, <3>1
  <2>3. CASE toServer' = Append(toServer, m)
    <3>1. m \in Requests \cup Barriers
      OBVIOUS
    <3>2. toServer' = toServer \o <<m>>
      BY <1>1, <2>3, <3>1 DEF Typed
    <3> QED
      BY <2>1, <3>2
  <2> QED
    BY <1>9, <2>2, <2>3
<1>11. Marked(client', client)
  BY <1>1, <1>2 DEF Marked, Structured
<1>12. pending' \in Queues
  BY <1>1, <1>2 DEF Typed, Queues
<1>13. IInv' /\ (Supply => Supply')
  <2>1. PICK r \in Seq(Requests) : toServer' = toServer \o r
    BY <1>10
  <2>2. Sent(r)
    BY <1>2 DEF Sent
  <2> QED
    BY <1>2, <1>11, <1>12, <2>1, <2>2, Asking
<1>14. ASSUME headers \in Seq(Int)
       PROVE  headers' \in Seq(Int) /\ (HeadersMatchRows => HeadersMatchRows')
  <2>1. sized \in Seq(Int) /\ (HeadersMatchRows => Len(sized) = k)
    <3>1. CASE headers = << >>
      <4>1. [i \in 1..k |-> None] \in Seq(Int) /\ Len([i \in 1..k |-> None]) = k
        BY <1>6 DEF None
      <4> QED
        BY <1>7, <3>1, <4>1
    <3>2. CASE headers # << >>
      BY <1>4, <1>7, <1>14, <3>2 DEF HeadersMatchRows
    <3> QED
      BY <3>1, <3>2
  <2>2. CASE headers' = headers
    BY <1>2, <1>14, <2>2 DEF HeadersMatchRows
  <2>3. CASE headers' # headers
    <3>1. ~(s >= Len(sized)) /\ headers' = [sized EXCEPT ![s + 1] = Loading]
      BY <1>9, <2>3
    <3>2. PICK i \in 1..Len(sized) : i = s + 1
      BY <1>6, <2>1, <3>1
    <3>3. PICK x \in Int : x = Loading
      BY DEF Loading
    <3>4. headers' = [sized EXCEPT ![i] = x]
      BY <3>1, <3>2, <3>3
    <3>5. headers' \in Seq(Int) /\ Len(headers') = Len(sized)
      BY <2>1, <3>4, ExceptSeq
    <3> QED
      BY <1>2, <1>4, <2>1, <3>5 DEF HeadersMatchRows
  <2> QED
    BY <2>2, <2>3
<1> QED
  BY <1>13, <1>14 DEF KeepsUp

-----------------------------------------------------------------------------
(* The theorems. *)

\* The target's model changes.
LEMMA ChangeStep ==
  ASSUME IInv, "moveUp" \notin Operations, Change
  PROVE  IInv' /\ (Supply => Supply') /\ KeepsUp
<1>1. UNCHANGED <<client, headers>>
  <2>0. ASSUME NEW m, Notify(m) PROVE UNCHANGED <<client, headers>>
    BY <2>0 DEF Notify, copy
  <2>1. CASE InsertRows
    BY <2>0, <2>1 DEF InsertRows
  <2>2. CASE RemoveRows
    BY <2>0, <2>2 DEF RemoveRows
  <2>3. CASE MoveRows
    BY <2>0, <2>3 DEF MoveRows
  <2>4. CASE ChangeContent
    BY <2>0, <2>4 DEF ChangeContent
  <2>5. CASE ChangeHeader
    BY <2>0, <2>5 DEF ChangeHeader
  <2>6. CASE ChangeLayout
    BY <2>0, <2>6 DEF ChangeLayout
  <2>7. CASE ResetModel
    BY <2>0, <2>7 DEF ResetModel
  <2> QED
    BY <2>1, <2>2, <2>3, <2>4, <2>5, <2>6, <2>7 DEF Change
<1>2. IInv' /\ (Supply => Supply')
  BY TellsInsertRows, TellsRemoveRows, TellsMoveRows, TellsChangeContent, TellsChangeHeader,
     TellsChangeLayout, TellsResetModel DEF Change
<1> QED
  BY <1>1, <1>2 DEF KeepsUp, HeadersMatchRows

\* The server answers a request.
LEMMA RequestStep ==
  ASSUME IInv, NewRequest
  PROVE  IInv' /\ (Supply => Supply') /\ KeepsUp
<1>1. UNCHANGED <<client, headers>>
  BY DEF NewRequest, RowColumnCountRequest, ContentRequest, HeaderRequest, BarrierRequest, Reply, copy
<1>2. IInv' /\ (Supply => Supply')
  BY AnswersCount, AnswersContent, AnswersHeader, AnswersBarrier DEF NewRequest
<1> QED
  BY <1>1, <1>2 DEF KeepsUp, HeadersMatchRows

\* The client takes a message.
LEMMA MessageStep ==
  ASSUME IInv, NewMessage
  PROVE  IInv' /\ (Supply => Supply') /\ (KeepsUp \/ (LayoutChanged /\ headers' = headers))
<1>1. CASE Ignored
  BY <1>1, IgnoredStep
<1>2. CASE BarrierReply
  BY <1>2, BarrierStep
<1>3. CASE RowColumnCountReply
  BY <1>3, RowColumnCountReplyStep
<1>4. CASE ContentReply
  BY <1>4, ContentReplyStep
<1>5. CASE HeaderReply
  BY <1>5, HeaderReplyStep
<1>6. CASE ContentChanged
  BY <1>6, ContentChangedStep
<1>7. CASE HeaderChanged
  BY <1>7, HeaderChangedStep
<1>8. CASE RowsAdded
  BY <1>8, RowsAddedStep
<1>9. CASE RowsRemoved
  BY <1>9, RowsRemovedStep
<1>10. CASE RowsMoved
  BY <1>10, RowsMovedStep
<1>11. CASE LayoutChanged
  BY <1>11, LayoutChangedStep
<1>12. CASE Reset
  BY <1>12, ResetStep
<1> QED
  BY <1>1, <1>2, <1>3, <1>4, <1>5, <1>6, <1>7, <1>8, <1>9, <1>10, <1>11, <1>12 DEF NewMessage

\* Every step keeps the invariant, and the headers as many as the rows unless a layout changes.
LEMMA NextStep ==
  ASSUME IInv, "moveUp" \notin Operations, [Next]_vars
  PROVE  IInv' /\ (Supply => Supply') /\ (KeepsUp \/ (LayoutChanged /\ headers' = headers))
<1>1. CASE Change
  BY <1>1, ChangeStep
<1>2. CASE NewRequest
  BY <1>2, RequestStep
<1>3. CASE NewMessage
  BY <1>3, MessageStep
<1>4. CASE ResetLoadingState
  BY <1>4, ResetLoadingStateStep
<1>5. CASE AskRowCount
  BY <1>5, AskRowCountStep
<1>6. CASE AskContent
  BY <1>6, AskContentStep
<1>7. CASE AskHeader
  BY <1>7, AskHeaderStep
<1>8. CASE SendPending
  BY <1>8, SendPendingStep
<1>9. CASE UNCHANGED vars
  <2>1. UNCHANGED <<model, changes, toServer, toClient, client, headers, pending, current, target, unreset, fault>>
    BY <1>9 DEF vars
  <2>2. IInv'
    BY <2>1 DEF IInv, Typed, LoneBarrier, Settled, Forgot, Heard
  <2>3. Supply => Supply'
    BY <2>1 DEF Supply, Barred, Settled, Answerable, Supplied, UnderWay, Absent
  <2> QED
    BY <2>1, <2>2, <2>3 DEF KeepsUp, HeadersMatchRows
<1> QED
  BY <1>1, <1>2, <1>3, <1>4, <1>5, <1>6, <1>7, <1>8, <1>9 DEF Next

\* As long as no rows move up within their parent, whatever the client knows is what the model had
\* before the changes it has not heard of yet.
THEOREM Following ==
  ASSUME "moveUp" \notin Operations
  PROVE  Spec => []IInv
<1>1. Init => IInv
  BY InitInvariant
<1>2. IInv /\ [Next]_vars => IInv'
  BY NextStep
<1> QED
  BY <1>1, <1>2, PTL DEF Spec

\* With nothing left on the wire, that is the model as it is.
LEMMA CoherentFollows ==
  ASSUME IInv
  PROVE  Coherent
<1>1. Typed /\ Structured(client) /\ Heard /\ Closure(client)
  BY DEF IInv, Structured
<1>2. ASSUME NEW p \in DOMAIN client
      PROVE  Rows(client, p) = {RowAt(p, i) : i \in 0..(client[p].rows - 1)}
  <2>1. Counted(client, p, client[p].rows) /\ p \in Path
    BY <1>1 DEF Structured, Closure
  <2>2. Rows(client, p) = {RowAt(p, i) : i \in Idx(client, p)}
    BY <1>1, <2>1, RowsIs DEF Closure
  <2> QED
    BY <2>1, <2>2 DEF Counted
<1>3. ASSUME Quiet, NEW p \in DOMAIN client
      PROVE  /\ client[p].rows >= 0 => p \in DOMAIN model /\ client[p].rows = RowCount(model, p)
             /\ ~client[p].outdated /\ p # Root => client[p].value = model[p].value
  <2>1. toClient = << >> /\ ~fault
    BY <1>3 DEF Quiet
  <2>2. PICK t : Copies(client, t) /\ Leads(t, toClient, model)
    BY <1>1, <2>1 DEF Heard
  <2>3. t = model
    BY <2>1, <2>2, LeadsNothing
  <2>4. /\ client[p].rows >= 0 => p \in DOMAIN model /\ Counted(model, p, client[p].rows)
        /\ ~client[p].outdated /\ p # Root => client[p].value = model[p].value
    BY <2>2, <2>3 DEF Copies
  <2>5. ASSUME client[p].rows >= 0 PROVE client[p].rows = RowCount(model, p)
    <3>1. PICK k \in Nat : k = client[p].rows
      BY <1>1, <2>5 DEF Structured, Node
    <3>2. p \in DOMAIN model /\ Counted(model, p, k)
      BY <2>4, <2>5, <3>1
    <3>3. p \in Path /\ DOMAIN model \subseteq Path
      BY <3>2 DEF IInv, Tree, Closure
    <3>4. RowCount(model, p) = k
      BY <3>2, <3>3, CountIs
    <3> QED
      BY <3>1, <3>4
  <2> QED
    BY <2>4, <2>5
<1> QED
  BY <1>2, <1>3 DEF Coherent

\* The copy is a tree with as many children as it counts (the assertions at remotemodel.cpp:854 and
\* after), and what it holds is what the model holds as soon as all that the server told is heard.
THEOREM CopyIsCoherent ==
  ASSUME "moveUp" \notin Operations
  PROVE  Spec => []Coherent
<1>1. IInv => Coherent
  BY CoherentFollows
<1> QED
  BY <1>1, Following, PTL

\* Who waits has asked, or waits for a row that is gone, as long as that is not yet heard.
LEMMA NothingIsLost ==
  ASSUME IInv, Supply, Single
  PROVE  NoLostRequest
<1> SUFFICES ASSUME Quiet, toServer = << >>, Flushed(pending) = << >>, HasModel, NEW p \in DOMAIN client
             PROVE  client[p].rows # Asked /\ ~client[p].loading
  BY DEF NoLostRequest
<1>1. Tree(model) /\ Structured(client) /\ Answerable
  BY DEF IInv, Supply
<1>2. toClient = << >> /\ unreset = {} /\ ~fault
  BY DEF Quiet
<1>3. PICK T : Copies(client, T[0]) /\ Leading(T, T[0], toClient, model) /\ Supplied(T)
  BY <1>1, <1>2 DEF Answerable
<1>4. Len(toClient) = 0 /\ T[0] = model
  BY <1>2, <1>3 DEF Leading
<1>5. p \in DOMAIN model
  <2>1. p = Root \/ p \in DOMAIN model
    BY <1>1, <1>3, <1>4, NodesAreRows
  <2> QED
    BY <1>1, <2>1, RowsHaveRoot DEF HasModel
<1>6. ASSUME NEW k PROVE ~Waits(client, k, p)
  <2>1. \A z : ~Holds(<< >>, k, z)
    BY DEF Holds
  <2>2. ~UnderWay(k, p)
    BY <1>2, <2>1 DEF UnderWay
  <2>3. ~Absent(T, p)
    BY <1>4, <1>5 DEF Absent
  <2>4. ~Reaches(unreset, p)
    BY <1>2 DEF Reaches
  <2> QED
    BY <1>3, <2>2, <2>3, <2>4 DEF Supplied
<1>7. client[p].rows # Asked
  BY <1>6 DEF Waits
<1>8. client[p].loading # TRUE /\ client[p].loading \in BOOLEAN
  BY <1>1, <1>6 DEF Waits, Structured, Node
<1> QED
  BY <1>7, <1>8

\* As long as rows move one by one, or within their parent and not up, no row stays marked as being
\* loaded when nothing is left that could load it ("Reset the loading state for all rows at startRow
\* or later", remotemodel.h:132), so a view can always ask again.
THEOREM NoRequestIsLost ==
  ASSUME "moveUp" \notin Operations, Single
  PROVE  Spec => []NoLostRequest
<1>1. Init => IInv /\ Supply
  BY InitInvariant
<1>2. IInv /\ Supply /\ [Next]_vars => (IInv /\ Supply)'
  BY NextStep
<1>3. IInv /\ Supply => NoLostRequest
  BY NothingIsLost
<1> QED
  BY <1>1, <1>2, <1>3, PTL DEF Spec

\* Once sized, the vertical headers are as many as the top level rows, and every step but a changed
\* layout keeps them so (remotemodel.cpp, doInsertRows(), doRemoveRows(), doMoveRows(), clear()).
THEOREM HeadersStayAsRows ==
  ASSUME "moveUp" \notin Operations
  PROVE  Spec => HeadersKeepUp
<1> DEFINE HInv == IInv /\ headers \in Seq(Int)
<1>1. Init => HInv
  <2> SUFFICES ASSUME Init PROVE HInv
    OBVIOUS
  <2>1. headers = << >>
    BY DEF Init
  <2> QED
    BY <2>1, InitInvariant
<1>2. HInv /\ [Next]_vars => HInv'
  BY NextStep DEF KeepsUp
<1>3. HInv /\ [Next]_vars => [HeadersMatchRows /\ ~LayoutChanged => HeadersMatchRows']_vars
  BY NextStep DEF KeepsUp
<1> HIDE DEF HInv
<1> QED
  BY <1>1, <1>2, <1>3, PTL DEF Spec, HeadersKeepUp
=============================================================================
