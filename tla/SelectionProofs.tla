--------------------------- MODULE SelectionProofs ---------------------------
(***************************************************************************)
(* Proofs about Selection for every set of items and every bound: when     *)
(* everything has arrived both sides have selected the same, unless the    *)
(* last selection has crossed with something, and what the user has chosen *)
(* is not replaced by what was waiting for its row.                        *)
(***************************************************************************)
EXTENDS Selection, SequenceTheorems, FiniteSetTheorems, WellFoundedInduction, TLAPS

-----------------------------------------------------------------------------
(***************************************************************************)
(* The inductive invariant.  h[i] is what the rows of the server were when *)
(* the message i of toClient had been written, h[0] before the first one.  *)
(***************************************************************************)

Type == {"monitored", "request", "load", "select", "rows", "inserted", "removed", "reset"}

Messages == [type : Type, pos : Nat, rows : Seq(Item), crossed : BOOLEAN]
Choice   == Item \cup {None}
Servers  == [rows : Seq(Item), selection : Choice, pending : Nat,
             timer : BOOLEAN, monitored : BOOLEAN]
Clients  == [rows : Seq(Item), selection : Choice, pending : Nat, timer : BOOLEAN,
             request : BOOLEAN, loaded : BOOLEAN, asked : BOOLEAN]

Types ==
  /\ server \in Servers /\ client \in Clients
  /\ toServer \in Seq(Messages) /\ toClient \in Seq(Messages)
  /\ changes \in Nat /\ choices \in Nat /\ raced \in BOOLEAN /\ mine \in BOOLEAN

\* The message m has made s of the rows r.
Follows(m, r, s) ==
  /\ m.type = "inserted" => /\ m.pos \in 1..(Len(r) + 1) /\ Len(m.rows) = 1
                            /\ s = InsertAt(r, m.pos, m.rows[1])
  /\ m.type = "removed" => m.pos \in DOMAIN r /\ s = RemoveAt(r, m.pos)
  /\ m.type = "rows" => m.rows = r
  /\ m.type \in Structure \cup {"rows", "select"}
  /\ m.type \notin Structure => s = r

Histories(w) == [0..Len(w) -> Seq(Item)]

Explains(h, w) == \A i \in 1..Len(w) : Follows(w[i], h[i - 1], h[i])

\* The selection x is given up with the message m, when the rows are r.
Drops(m, r, x) == m.type = "reset" \/ (m.type = "removed" /\ r[m.pos] = x)

\* x is given up with none of the messages of w after j.
Lasts(h, w, j, x) == \A i \in (j + 1)..Len(w) : ~Drops(w[i], h[i - 1], x)

\* What is left of the selection x when w has been read from j on.
Left(h, w, j, x) == IF Lasts(h, w, j, x) THEN x ELSE None

Has(rows, x) == \E k \in DOMAIN rows : rows[k] = x

\* None of the messages of w after j changes the rows.
Steady(w, j) == \A i \in (j + 1)..Len(w) : w[i].type \notin Structure

\* A row that was there, and was never removed, is there; without changes all are.
Remaining(h, w) ==
  /\ \A j \in 0..Len(w), x \in Item :
       Has(h[j], x) /\ Lasts(h, w, j, x) => Has(h[Len(w)], x)
  /\ \A j \in 0..Len(w) : Steady(w, j) => h[j] = h[Len(w)]

HasType(w, t) == \E i \in DOMAIN w : w[i].type = t

\* The message i of w is the last selection in it, and none has crossed with it.
LastWord(w, i) == /\ w[i].type = "select" /\ ~w[i].crossed
                  /\ \A j \in DOMAIN w : i < j => w[j].type # "select"

\* The selection x is what the last message of the server in w says, or was removed.
ServersWord(h, w, x) ==
  \A i \in DOMAIN w : LastWord(w, i) =>
    w[i].pos \in DOMAIN h[i] /\ x = Left(h, w, i, h[i][w[i].pos])

\* What the client c has selected is what its last message in w says.
ClientsWord(w, c) ==
  \A i \in DOMAIN w : LastWord(w, i) =>
    /\ c.loaded /\ c.pending = 0 /\ w[i].pos \in DOMAIN c.rows
    /\ c.selection = c.rows[w[i].pos]

\* The client has the rows r of an earlier moment, or none.
Copy(r) == client.rows = IF client.loaded THEN r ELSE <<>>

Selected == /\ client.selection # None => Has(client.rows, client.selection)
            /\ server.selection # None => Has(server.rows, server.selection)

\* The server is told that it is monitored before anything else, and asked afterwards.
Monitoring ==
  ~server.monitored => /\ toServer # <<>> /\ Head(toServer).type = "monitored"
                       /\ ~server.timer /\ ~HasType(toClient, "select")
                       /\ client.request \/ HasType(toServer, "request")

\* The server is going to send what it has selected.
Answering == client.request \/ HasType(toServer, "request") \/ server.timer

\* Both have selected the same, but for rows whose removal is under way, or what the
\* client is to select is waiting for its row.
Same(h) == \E x \in Choice : /\ client.pending = 0 => x = client.selection
                             /\ server.selection = Left(h, toClient, 0, x)

Agreement(h) == \/ raced \/ HasType(toClient, "select") \/ HasType(toServer, "select")
                \/ Answering \/ Same(h)

\* What the user has chosen waits for nothing.
Mine == mine => client.pending = 0

Explained(h) == /\ Explains(h, toClient) /\ Remaining(h, toClient)
                /\ h[Len(toClient)] = server.rows /\ Copy(h[0])
                /\ ServersWord(h, toClient, server.selection) /\ Agreement(h)

Inv == /\ Types /\ Selected /\ Monitoring /\ ClientsWord(toServer, client) /\ Mine
       /\ \E h \in Histories(toClient) : Explained(h)

-----------------------------------------------------------------------------
(***************************************************************************)
(* Rows.                                                                   *)
(***************************************************************************)

\* One sequence after another.
LEMMA Joined ==
  ASSUME NEW a \in Seq(Item), NEW b \in Seq(Item)
  PROVE  /\ a \o b \in Seq(Item) /\ Len(a \o b) = Len(a) + Len(b)
         /\ \A i \in 1..Len(a) : (a \o b)[i] = a[i]
         /\ \A i \in 1..Len(b) : (a \o b)[Len(a) + i] = b[i]
  OBVIOUS

\* A row that is inserted is there with all others.
LEMMA Inserted ==
  ASSUME NEW r \in Seq(Item), NEW k \in 1..(Len(r) + 1), NEW y \in Item
  PROVE  /\ InsertAt(r, k, y) \in Seq(Item)
         /\ \A x : Has(r, x) => Has(InsertAt(r, k, y), x)
<1> DEFINE s == InsertAt(r, k, y)
           a == SubSeq(r, 1, k - 1)
           b == SubSeq(r, k, Len(r))
<1>1. /\ s \in Seq(Item) /\ Len(s) = Len(r) + 1 /\ Len(r) \in Nat
      /\ \A i \in 1..Len(r) : s[IF i < k THEN i ELSE i + 1] = r[i]
  <2>1. /\ Len(r) \in Nat /\ a \in Seq(Item) /\ Len(a) = k - 1
        /\ \A i \in 1..(k - 1) : a[i] = r[i]
    OBVIOUS
  <2>2. /\ b \in Seq(Item) /\ Len(b) = Len(r) - k + 1
        /\ \A i \in 1..(Len(r) - k + 1) : b[i] = r[k + i - 1]
    OBVIOUS
  <2>3. s = a \o <<y>> \o b
    BY DEF InsertAt
  <2> HIDE DEF s, a, b
  <2>4. /\ s \in Seq(Item) /\ Len(s) = Len(r) + 1
        /\ \A i \in 1..(k - 1) : s[i] = a[i]
        /\ \A i \in 1..(Len(r) - k + 1) : s[k + i] = b[i]
    BY <2>1, <2>2, <2>3
  <2>5. ASSUME NEW i \in 1..Len(r), ~(i < k) PROVE s[i + 1] = r[i]
    <3>1. i - k + 1 \in 1..(Len(r) - k + 1) /\ k + (i - k + 1) = i + 1 /\ k + (i - k + 1) - 1 = i
      BY <2>1, <2>5
    <3>2. PICK j \in 1..(Len(r) - k + 1) : k + j = i + 1 /\ k + j - 1 = i
      BY <3>1
    <3>3. b[j] = r[i]
      BY <2>2, <3>2
    <3>4. s[i + 1] = b[j]
      BY <2>4, <3>2
    <3> QED
      BY <3>3, <3>4
  <2> QED
    BY <2>1, <2>4, <2>5
<1>2. ASSUME NEW x, Has(r, x) PROVE Has(s, x)
  <2>1. PICK i \in 1..Len(r) : r[i] = x
    BY <1>2 DEF Has
  <2>2. (IF i < k THEN i ELSE i + 1) \in 1..Len(s)
    BY <1>1, <2>1
  <2> QED
    BY <1>1, <2>1, <2>2 DEF Has
<1> QED
  BY <1>1, <1>2

\* All rows but the one that is removed remain.
LEMMA Removed ==
  ASSUME NEW r \in Seq(Item), NEW k \in 1..Len(r)
  PROVE  /\ RemoveAt(r, k) \in Seq(Item)
         /\ \A x : Has(r, x) /\ x # r[k] => Has(RemoveAt(r, k), x)
<1> DEFINE s == RemoveAt(r, k)
           a == SubSeq(r, 1, k - 1)
           b == SubSeq(r, k + 1, Len(r))
<1>1. /\ s \in Seq(Item) /\ Len(s) = Len(r) - 1 /\ Len(r) \in Nat
      /\ \A i \in 1..Len(r) : i # k => s[IF i < k THEN i ELSE i - 1] = r[i]
  <2>1. /\ Len(r) \in Nat /\ k \in 1..Len(r) /\ a \in Seq(Item) /\ Len(a) = k - 1
        /\ \A i \in 1..(k - 1) : a[i] = r[i]
    OBVIOUS
  <2>2. /\ b \in Seq(Item) /\ Len(b) = Len(r) - k
        /\ \A i \in 1..(Len(r) - k) : b[i] = r[k + i]
    OBVIOUS
  <2>3. s = a \o b
    BY DEF RemoveAt
  <2> HIDE DEF s, a, b
  <2>4. /\ s \in Seq(Item) /\ Len(s) = Len(r) - 1
        /\ \A i \in 1..(k - 1) : s[i] = a[i]
        /\ \A i \in 1..(Len(r) - k) : s[k - 1 + i] = b[i]
    <3>1. /\ s \in Seq(Item) /\ Len(s) = Len(a) + Len(b)
          /\ \A i \in 1..Len(a) : s[i] = a[i]
          /\ \A i \in 1..Len(b) : s[Len(a) + i] = b[i]
      BY <2>1, <2>2, <2>3, Joined
    <3> QED
      BY <2>1, <2>2, <3>1
  <2>5. ASSUME NEW i \in 1..Len(r), i > k PROVE s[i - 1] = r[i]
    <3>1. i - k \in 1..(Len(r) - k) /\ k - 1 + (i - k) = i - 1 /\ k + (i - k) = i
      BY <2>1, <2>5
    <3>2. PICK j \in 1..(Len(r) - k) : k - 1 + j = i - 1 /\ k + j = i
      BY <3>1
    <3>3. b[j] = r[i]
      BY <2>2, <3>2
    <3>4. s[i - 1] = b[j]
      BY <2>4, <3>2
    <3> QED
      BY <3>3, <3>4
  <2>6. ASSUME NEW i \in 1..Len(r), i < k PROVE s[i] = r[i]
    <3>1. i \in 1..(k - 1)
      BY <2>1, <2>6
    <3>2. a[i] = r[i]
      BY <2>1, <3>1
    <3>3. s[i] = a[i]
      BY <2>4, <3>1
    <3> QED
      BY <3>2, <3>3
  <2>7. \A i \in 1..Len(r) : i # k => i < k \/ i > k
    BY <2>1
  <2> QED
    BY <2>1, <2>4, <2>5, <2>6, <2>7
<1>2. ASSUME NEW x, Has(r, x), x # r[k] PROVE Has(s, x)
  <2>1. PICK i \in 1..Len(r) : r[i] = x /\ i # k
    BY <1>2 DEF Has
  <2>2. (IF i < k THEN i ELSE i - 1) \in 1..Len(s)
    BY <1>1, <2>1
  <2> QED
    BY <1>1, <2>1, <2>2 DEF Has
<1> QED
  BY <1>1, <1>2

\* What is there and is not given up is there afterwards.
LEMMA Kept ==
  ASSUME NEW m \in Messages, NEW r \in Seq(Item), NEW s, Follows(m, r, s),
         NEW x \in Item, Has(r, x), ~Drops(m, r, x)
  PROVE  Has(s, x)
<1>1. CASE m.type = "inserted"
  <2>1. m.rows[1] \in Item
    BY <1>1 DEF Follows, Messages
  <2> QED
    BY <1>1, <2>1, Inserted DEF Follows
<1>2. CASE m.type = "removed"
  BY <1>2, Removed DEF Follows, Drops
<1>3. CASE m.type \notin Structure
  BY <1>3 DEF Follows
<1> QED
  BY <1>1, <1>2, <1>3 DEF Structure, Drops

\* A selected row has a position, which is its own.
LEMMA PositionFinds ==
  ASSUME NEW s, s.rows \in Seq(Item), s.selection # None, Has(s.rows, s.selection)
  PROVE  Position(s) \in DOMAIN s.rows /\ s.rows[Position(s)] = s.selection
<1> DEFINE I == {i \in 1..Len(s.rows) : s.rows[i] = s.selection}
<1>1. I # {} /\ I \subseteq Nat
  BY DEF Has
<1>2. IsWellFoundedOn(OpToRel(<, Nat), Nat)
  BY NatLessThanWellFounded
<1> HIDE DEF I
<1>3. \E i \in I : \A j \in I : i <= j
  <2>1. PICK i \in I : \A j \in I : ~(<<j, i>> \in OpToRel(<, Nat))
    BY <1>1, <1>2, WFMin
  <2>2. \A j \in I : ~(j < i)
    BY <1>1, <2>1 DEF OpToRel
  <2> QED
    BY <1>1, <2>2
<1>4. Min(I) \in I
  BY <1>3 DEF Min
<1>5. Position(s) = Min(I)
  BY <1>1 DEF Position, SelectInSeq, I
<1> QED
  BY <1>4, <1>5 DEF I

-----------------------------------------------------------------------------
(***************************************************************************)
(* Queues and their histories.                                             *)
(***************************************************************************)

\* A queue with one message more.
LEMMA Appended ==
  ASSUME NEW w \in Seq(Messages), NEW m \in Messages
  PROVE  /\ Append(w, m) \in Seq(Messages) /\ Len(Append(w, m)) = Len(w) + 1
         /\ Append(w, m) # <<>>
         /\ w # <<>> => Head(Append(w, m)) = Head(w)
         /\ \A i \in 1..Len(w) : Append(w, m)[i] = w[i]
         /\ Append(w, m)[Len(w) + 1] = m
         /\ \A t : HasType(Append(w, m), t) <=> HasType(w, t) \/ m.type = t
<1> DEFINE v == Append(w, m)
<1>1. /\ v \in Seq(Messages) /\ Len(v) = Len(w) + 1 /\ v # <<>> /\ Len(w) \in Nat
      /\ DOMAIN v = 1..(Len(w) + 1) /\ DOMAIN w = 1..Len(w)
      /\ \A i \in 1..Len(w) : v[i] = w[i]
      /\ v[Len(w) + 1] = m
  OBVIOUS
<1>2. w # <<>> => Head(v) = Head(w)
  OBVIOUS
<1> HIDE DEF v
<1>3. DOMAIN v = DOMAIN w \cup {Len(w) + 1}
  BY <1>1
<1>4. \A t : HasType(v, t) <=> HasType(w, t) \/ m.type = t
  BY <1>1, <1>3 DEF HasType
<1> QED
  BY <1>1, <1>2, <1>4 DEF v

\* Its last selection is the new message, or the one of before.
LEMMA AppendedWord ==
  ASSUME NEW w \in Seq(Messages), NEW m \in Messages, NEW i \in DOMAIN Append(w, m),
         LastWord(Append(w, m), i)
  PROVE  \/ i = Len(w) + 1 /\ m.type = "select" /\ ~m.crossed
         \/ i \in 1..Len(w) /\ m.type # "select" /\ LastWord(w, i)
<1> DEFINE v == Append(w, m)
<1>1. /\ v \in Seq(Messages) /\ Len(w) \in Nat
      /\ DOMAIN v = 1..(Len(w) + 1) /\ DOMAIN w = 1..Len(w)
      /\ \A k \in 1..Len(w) : v[k] = w[k]
      /\ v[Len(w) + 1] = m
  OBVIOUS
<1>2. LastWord(v, i) /\ i \in DOMAIN v
  OBVIOUS
<1> HIDE DEF v
<1>3. CASE i = Len(w) + 1
  BY <1>1, <1>2, <1>3 DEF LastWord
<1>4. CASE i \in 1..Len(w)
  <2>1. i < Len(w) + 1 /\ Len(w) + 1 \in DOMAIN v /\ DOMAIN w \subseteq DOMAIN v
    BY <1>1, <1>4
  <2> QED
    BY <1>1, <1>2, <1>4, <2>1 DEF LastWord
<1> QED
  BY <1>1, <1>2, <1>3, <1>4

\* A queue without its first message.
LEMMA Dropped ==
  ASSUME NEW w \in Seq(Messages), w # <<>>
  PROVE  /\ Tail(w) \in Seq(Messages) /\ Len(Tail(w)) = Len(w) - 1 /\ Len(w) \in Nat \ {0}
         /\ Head(w) \in Messages /\ Head(w) = w[1]
         /\ \A i \in 1..Len(Tail(w)) : Tail(w)[i] = w[i + 1] /\ i + 1 \in DOMAIN w
         /\ \A t : HasType(w, t) <=> HasType(Tail(w), t) \/ Head(w).type = t
<1> DEFINE v == Tail(w)
<1>1. /\ v \in Seq(Messages) /\ Len(v) = Len(w) - 1 /\ Len(w) \in Nat \ {0}
      /\ DOMAIN v = 1..(Len(w) - 1) /\ DOMAIN w = 1..Len(w)
      /\ \A i \in 1..(Len(w) - 1) : v[i] = w[i + 1] /\ i + 1 \in DOMAIN w
      /\ Head(w) \in Messages /\ Head(w) = w[1]
  OBVIOUS
<1> HIDE DEF v
<1>2. ASSUME NEW t, HasType(w, t) PROVE HasType(v, t) \/ w[1].type = t
  <2>1. PICK i \in DOMAIN w : w[i].type = t
    BY <1>2 DEF HasType
  <2>2. i = 1 \/ (i - 1 \in DOMAIN v /\ v[i - 1] = w[i])
    BY <1>1
  <2> QED
    BY <2>1, <2>2 DEF HasType
<1>3. ASSUME NEW t, HasType(v, t) \/ w[1].type = t PROVE HasType(w, t)
  <2>1. 1 \in DOMAIN w
    BY <1>1
  <2> QED
    BY <1>1, <1>3, <2>1 DEF HasType
<1> QED
  BY <1>1, <1>2, <1>3 DEF v

\* Its last selection is the one of before; if there is none it was the first message.
LEMMA DroppedWord ==
  ASSUME NEW w \in Seq(Messages), w # <<>>
  PROVE  /\ \A i \in DOMAIN Tail(w) : LastWord(Tail(w), i) => LastWord(w, i + 1)
         /\ Head(w).type = "select" /\ ~Head(w).crossed /\ ~HasType(Tail(w), "select")
              => LastWord(w, 1)
<1> DEFINE v == Tail(w)
<1>1. /\ v \in Seq(Messages) /\ Len(w) \in Nat \ {0}
      /\ DOMAIN v = 1..(Len(w) - 1) /\ DOMAIN w = 1..Len(w)
      /\ \A i \in 1..(Len(w) - 1) : v[i] = w[i + 1]
      /\ Head(w) = w[1]
  OBVIOUS
<1> HIDE DEF v
<1>2. ASSUME NEW i \in DOMAIN v, LastWord(v, i) PROVE LastWord(w, i + 1)
  <2>1. ASSUME NEW j \in DOMAIN w, i + 1 < j PROVE w[j].type # "select"
    <3>1. j - 1 \in DOMAIN v /\ i < j - 1 /\ v[j - 1] = w[j]
      BY <1>1, <2>1
    <3> QED
      BY <1>2, <3>1 DEF LastWord
  <2> QED
    BY <1>1, <1>2, <2>1 DEF LastWord
<1>3. ASSUME w[1].type = "select", ~w[1].crossed, ~HasType(v, "select") PROVE LastWord(w, 1)
  <2>1. ASSUME NEW j \in DOMAIN w, 1 < j PROVE w[j].type # "select"
    <3>1. j - 1 \in DOMAIN v /\ v[j - 1] = w[j]
      BY <1>1, <2>1
    <3> QED
      BY <1>3, <3>1 DEF HasType
  <2> QED
    BY <1>3, <2>1 DEF LastWord
<1> QED
  BY <1>1, <1>2, <1>3 DEF v

\* Nothing in a queue that has been marked is uncrossed, and nothing else has changed.
LEMMA Marked ==
  ASSUME NEW w \in Seq(Messages)
  PROVE  /\ Mark(w) \in Seq(Messages) /\ Len(Mark(w)) = Len(w)
         /\ \A i \in 1..Len(w) : /\ Mark(w)[i].type = w[i].type /\ Mark(w)[i].pos = w[i].pos
                                 /\ Mark(w)[i].rows = w[i].rows
         /\ \A i \in DOMAIN Mark(w) : ~LastWord(Mark(w), i)
         /\ \A t : HasType(Mark(w), t) <=> HasType(w, t)
         /\ w # <<>> => Mark(w) # <<>> /\ Head(Mark(w)).type = Head(w).type
<1> DEFINE v == Mark(w)
<1>1. DOMAIN w = 1..Len(w) /\ Len(w) \in Nat /\ \A i \in DOMAIN w : w[i] \in Messages
  OBVIOUS
<1>2. /\ v = [i \in 1..Len(w) |-> [w[i] EXCEPT !.crossed = @ \/ w[i].type = "select"]]
      /\ \A i \in 1..Len(w) : v[i] = [w[i] EXCEPT !.crossed = @ \/ w[i].type = "select"]
  BY <1>1 DEF Mark
<1>3. \A i \in 1..Len(w) : /\ v[i] \in Messages /\ v[i].type = w[i].type /\ v[i].pos = w[i].pos
                           /\ v[i].rows = w[i].rows
                           /\ v[i].type = "select" => v[i].crossed
  <2> SUFFICES ASSUME NEW i \in 1..Len(w)
               PROVE  /\ v[i] \in Messages /\ v[i].type = w[i].type /\ v[i].pos = w[i].pos
                      /\ v[i].rows = w[i].rows
                      /\ v[i].type = "select" => v[i].crossed
    OBVIOUS
  <2>1. w[i] \in Messages /\ v[i] = [w[i] EXCEPT !.crossed = @ \/ w[i].type = "select"]
    BY <1>1, <1>2
  <2> HIDE DEF v
  <2> QED
    BY <2>1 DEF Messages
<1>4. DOMAIN v = 1..Len(w)
  BY <1>2
<1> HIDE DEF v
<1>5. v \in Seq(Messages) /\ Len(v) = Len(w)
  <2>1. v \in [1..Len(w) -> Messages]
    BY <1>2, <1>3
  <2> QED
    BY <1>1, <2>1
<1>6. w # <<>> => v # <<>> /\ Head(v).type = Head(w).type
  <2> SUFFICES ASSUME w # <<>> PROVE v # <<>> /\ Head(v).type = Head(w).type
    OBVIOUS
  <2>1. 1 \in 1..Len(w) /\ Head(w) = w[1]
    OBVIOUS
  <2>2. v # <<>> /\ Head(v) = v[1]
    BY <1>5, <2>1
  <2> QED
    BY <1>3, <2>1, <2>2
<1>7. \A i \in DOMAIN v : ~LastWord(v, i)
  BY <1>3, <1>4 DEF LastWord
<1>8. \A t : HasType(v, t) <=> HasType(w, t)
  BY <1>1, <1>3, <1>4 DEF HasType
<1> QED
  BY <1>3, <1>5, <1>6, <1>7, <1>8 DEF v

\* The history h goes on with the rows s.
Extended(h, w, s) == [i \in 0..(Len(w) + 1) |-> IF i <= Len(w) THEN h[i] ELSE s]

\* With a message about the rows, the history goes on, and what is left of a selection
\* is what was left before if the message does not give that up.
LEMMA HistoryGrows ==
  ASSUME NEW w \in Seq(Messages), NEW m \in Messages, NEW h \in Histories(w),
         Explains(h, w), Remaining(h, w),
         NEW s \in Seq(Item), Follows(m, h[Len(w)], s)
  PROVE  LET g == Extended(h, w, s)
             v == Append(w, m)
         IN  /\ g \in Histories(v) /\ Explains(g, v) /\ Remaining(g, v)
             /\ g[0] = h[0] /\ g[Len(v)] = s /\ \A i \in 0..Len(w) : g[i] = h[i]
             /\ \A j \in 0..Len(w), x \in Choice :
                  Lasts(g, v, j, x) <=> Lasts(h, w, j, x) /\ ~Drops(m, h[Len(w)], x)
<1> DEFINE g == Extended(h, w, s)
           v == Append(w, m)
           n == Len(w)
<1>1. /\ v \in Seq(Messages) /\ Len(v) = n + 1 /\ n \in Nat
      /\ \A i \in 1..n : v[i] = w[i]
      /\ v[n + 1] = m
  BY Appended
<1>2. /\ \A i \in 0..n : h[i] \in Seq(Item) /\ g[i] = h[i]
      /\ g[n + 1] = s /\ g = [i \in 0..(n + 1) |-> IF i <= n THEN h[i] ELSE s]
      /\ 0 \in 0..n /\ n \in 0..n
  <2>1. g = [i \in 0..(n + 1) |-> IF i <= n THEN h[i] ELSE s]
    BY DEF Extended
  <2>2. \A i \in 0..n : i \in 0..(n + 1) /\ i <= n
    BY <1>1
  <2>3. n + 1 \in 0..(n + 1) /\ ~(n + 1 <= n) /\ 0 \in 0..n /\ n \in 0..n
    BY <1>1
  <2>4. \A i \in 0..n : h[i] \in Seq(Item)
    BY DEF Histories
  <2> HIDE DEF g
  <2> QED
    BY <2>1, <2>2, <2>3, <2>4
<1>3. g \in Histories(v)
  <2>1. \A i \in 0..(n + 1) : i <= n => i \in 0..n
    BY <1>1
  <2>2. \A i \in 0..(n + 1) : (IF i <= n THEN h[i] ELSE s) \in Seq(Item)
    BY <1>2, <2>1
  <2> HIDE DEF g
  <2> QED
    BY <1>1, <1>2, <2>2 DEF Histories
<1> HIDE DEF g, v
<1>4. Explains(g, v)
  <2> SUFFICES ASSUME NEW i \in 1..(n + 1) PROVE Follows(v[i], g[i - 1], g[i])
    BY <1>1 DEF Explains
  <2>1. CASE i = n + 1
    BY <1>1, <1>2, <2>1
  <2>2. CASE i # n + 1
    <3>1. i \in 1..n /\ i - 1 \in 0..n /\ i \in 0..n
      BY <1>1, <2>2
    <3> QED
      BY <1>1, <1>2, <3>1 DEF Explains
  <2> QED
    BY <2>1, <2>2
<1>5. ASSUME NEW j \in 0..n, NEW x
      PROVE  Lasts(g, v, j, x) <=> Lasts(h, w, j, x) /\ ~Drops(m, h[n], x)
  <2>1. \A i \in (j + 1)..n : v[i] = w[i] /\ g[i - 1] = h[i - 1]
    <3> SUFFICES ASSUME NEW i \in (j + 1)..n PROVE v[i] = w[i] /\ g[i - 1] = h[i - 1]
      OBVIOUS
    <3>1. i \in 1..n /\ i - 1 \in 0..n
      BY <1>1
    <3> QED
      BY <1>1, <1>2, <3>1
  <2>3. v[n + 1] = m /\ g[n + 1 - 1] = h[n]
    <3>1. n + 1 - 1 = n
      BY <1>1
    <3> QED
      BY <1>1, <1>2, <3>1
  <2>4. Lasts(h, w, j, x) <=> \A i \in (j + 1)..n : ~Drops(v[i], g[i - 1], x)
    BY <2>1 DEF Lasts
  <2>5. Lasts(g, v, j, x) <=> /\ \A i \in (j + 1)..n : ~Drops(v[i], g[i - 1], x)
                              /\ ~Drops(v[n + 1], g[n + 1 - 1], x)
    <3> DEFINE A == (j + 1)..(n + 1)
               B == (j + 1)..n
    <3>1. Lasts(g, v, j, x) <=> \A i \in A : ~Drops(v[i], g[i - 1], x)
      BY <1>1 DEF Lasts
    <3>2. n \in Nat /\ j \in 0..n
      BY <1>1
    <3>3. A = B \cup {n + 1}
      BY <3>2
    <3> HIDE DEF A
    <3>4. Lasts(g, v, j, x) <=> /\ \A i \in B : ~Drops(v[i], g[i - 1], x)
                                /\ ~Drops(v[n + 1], g[n + 1 - 1], x)
      <4> HIDE DEF B
      <4> QED
        BY <3>1, <3>3
    <3> QED
      BY <3>4
  <2> QED
    BY <2>3, <2>4, <2>5
<1>6. ASSUME NEW j \in 0..(n + 1), NEW x \in Item, Has(g[j], x), Lasts(g, v, j, x)
      PROVE  Has(s, x)
  <2>1. CASE j = n + 1
    BY <1>2, <2>1
  <2>2. CASE j # n + 1
    <3>1. j \in 0..n
      BY <1>1, <2>2
    <3>2. Has(h[n], x) /\ ~Drops(m, h[n], x)
      BY <1>2, <1>5, <1>6, <3>1 DEF Remaining
    <3>3. h[n] \in Seq(Item)
      BY <1>2
    <3> QED
      BY <3>2, <3>3, Kept
  <2> QED
    BY <1>6, <2>1, <2>2
<1>7. ASSUME NEW j \in 0..(n + 1), Steady(v, j) PROVE g[j] = s
  <2>1. CASE j = n + 1
    BY <1>2, <2>1
  <2>2. CASE j # n + 1
    <3>1. /\ j \in 0..n
          /\ n + 1 \in (j + 1)..Len(v)
          /\ \A i \in (j + 1)..n : i \in (j + 1)..Len(v)
          /\ \A i \in (j + 1)..n : i \in 1..n
      BY <1>1, <2>2
    <3>2. Steady(w, j)
      BY <1>1, <1>7, <3>1 DEF Steady
    <3>3. m.type \notin Structure
      BY <1>1, <1>7, <3>1 DEF Steady
    <3>4. h[j] = h[n]
      BY <3>1, <3>2 DEF Remaining
    <3> QED
      BY <1>2, <3>1, <3>3, <3>4 DEF Follows
  <2> QED
    BY <2>1, <2>2
<1>8. Remaining(g, v)
  BY <1>1, <1>2, <1>6, <1>7 DEF Remaining
<1> QED
  BY <1>1, <1>2, <1>3, <1>4, <1>5, <1>8 DEF g, v

\* What is left of the selection y after one message more.
After(m, r, y) == IF Drops(m, r, y) THEN None ELSE y

\* So it is of what was left before.
LEMMA LeftGrows ==
  ASSUME NEW w \in Seq(Messages), NEW m \in Messages, NEW h \in Histories(w),
         NEW s \in Seq(Item), NEW j \in 0..Len(w), NEW x \in Choice,
         LET g == Extended(h, w, s)
         IN  Lasts(g, Append(w, m), j, x) <=> Lasts(h, w, j, x) /\ ~Drops(m, h[Len(w)], x)
  PROVE  After(m, h[Len(w)], Left(h, w, j, x)) = Left(Extended(h, w, s), Append(w, m), j, x)
  BY DEF After, Left

\* A message about the rows leaves the last word of the server what it is.
LEMMA WordStays ==
  ASSUME NEW w \in Seq(Messages), NEW m \in Messages, NEW h \in Histories(w),
         Explains(h, w), Remaining(h, w), m.type # "select",
         NEW s \in Seq(Item), Follows(m, h[Len(w)], s),
         NEW y, ServersWord(h, w, y)
  PROVE  ServersWord(Extended(h, w, s), Append(w, m), After(m, h[Len(w)], y))
<1> DEFINE g == Extended(h, w, s)
           v == Append(w, m)
           z == After(m, h[Len(w)], y)
<1>1. /\ \A i \in 0..Len(w) : g[i] = h[i]
      /\ \A j \in 0..Len(w), x \in Choice :
           Lasts(g, v, j, x) <=> Lasts(h, w, j, x) /\ ~Drops(m, h[Len(w)], x)
  BY HistoryGrows
<1>2. /\ \A i \in 1..Len(w) : v[i] = w[i]
  BY Appended
<1> SUFFICES ASSUME NEW i \in DOMAIN v, LastWord(v, i)
             PROVE  v[i].pos \in DOMAIN g[i] /\ z = Left(g, v, i, g[i][v[i].pos])
  BY DEF ServersWord
<1>3. i \in 1..Len(w) /\ LastWord(w, i) /\ i \in 0..Len(w) /\ Len(w) \in Nat /\ i \in DOMAIN w
  BY AppendedWord
<1>4. w[i].pos \in DOMAIN h[i] /\ y = Left(h, w, i, h[i][w[i].pos])
  BY <1>3 DEF ServersWord
<1>5. h[i][w[i].pos] \in Choice
  BY <1>3, <1>4 DEF Histories, Choice
<1>6. v[i] = w[i] /\ g[i] = h[i]
  BY <1>1, <1>2, <1>3
<1>7. z = Left(g, v, i, h[i][w[i].pos])
  BY <1>1, <1>3, <1>4, <1>5, LeftGrows
<1> QED
  BY <1>4, <1>6, <1>7

\* Messages.
LEMMA MessageIs ==
  ASSUME NEW t \in Type
  PROVE  /\ Message(t) \in Messages /\ Message(t).type = t /\ Message(t).crossed = FALSE
         /\ \A k \in Nat : /\ [Message(t) EXCEPT !.pos = k] \in Messages
                           /\ [Message(t) EXCEPT !.pos = k].type = t
                           /\ [Message(t) EXCEPT !.pos = k].pos = k
                           /\ [Message(t) EXCEPT !.pos = k].crossed = FALSE
<1>1. <<>> \in Seq(Item)
  OBVIOUS
<1> QED
  BY <1>1 DEF Message, Messages

\* The server's last word is what it has selected now.
LEMMA WordGiven ==
  ASSUME NEW w \in Seq(Messages), NEW h \in Histories(w), Explains(h, w), Remaining(h, w),
         NEW k \in DOMAIN h[Len(w)]
  PROVE  ServersWord(Extended(h, w, h[Len(w)]), Append(w, Select(k)), h[Len(w)][k])
<1> DEFINE n == Len(w)
           s == h[n]
           g == Extended(h, w, s)
           m == Select(k)
           v == Append(w, m)
<1>1. n \in Nat /\ s \in Seq(Item) /\ k \in Nat
  BY DEF Histories
<1>2. m \in Messages /\ m.pos = k /\ m.type = "select"
  <2>1. "select" \in Type
    BY DEF Type
  <2> QED
    BY <1>1, <2>1, MessageIs DEF Select
<1>3. Follows(m, s, s)
  BY <1>2 DEF Follows, Structure
<1>4. g[Len(v)] = s /\ Len(v) = n + 1 /\ v[n + 1] = m
  BY <1>1, <1>2, <1>3, HistoryGrows, Appended
<1> HIDE DEF m
<1> SUFFICES ASSUME NEW i \in DOMAIN v, LastWord(v, i)
             PROVE  v[i].pos \in DOMAIN g[i] /\ s[k] = Left(g, v, i, g[i][v[i].pos])
  BY DEF ServersWord, m
<1>5. i = n + 1
  BY <1>2, AppendedWord
<1>6. Lasts(g, v, n + 1, s[k])
  BY <1>1, <1>4 DEF Lasts
<1> QED
  BY <1>2, <1>4, <1>5, <1>6 DEF Left

\* The history without its first moment.
Later(h, w) == [i \in 0..(Len(w) - 1) |-> h[i + 1]]

\* When the first message has been read, the history begins after it.
LEMMA HistoryPasses ==
  ASSUME NEW w \in Seq(Messages), w # <<>>, NEW h \in Histories(w),
         Explains(h, w), Remaining(h, w)
  PROVE  LET g == Later(h, w)
             v == Tail(w)
         IN  /\ g \in Histories(v) /\ Explains(g, v) /\ Remaining(g, v)
             /\ g[0] = h[1] /\ g[Len(v)] = h[Len(w)] /\ Follows(Head(w), h[0], h[1])
             /\ h[0] \in Seq(Item) /\ h[1] \in Seq(Item)
             /\ \A i \in 0..Len(v) : g[i] = h[i + 1]
             /\ \A j \in 0..Len(v) : \A x : Lasts(g, v, j, x) <=> Lasts(h, w, j + 1, x)
             /\ \A x : Lasts(h, w, 0, x) <=> ~Drops(Head(w), h[0], x) /\ Lasts(g, v, 0, x)
<1> DEFINE g == Later(h, w)
           v == Tail(w)
           n == Len(v)
<1>1. /\ v \in Seq(Messages) /\ Len(w) = n + 1 /\ n \in Nat
      /\ \A i \in 1..n : v[i] = w[i + 1]
      /\ Head(w) = w[1]
  BY Dropped
<1>2. /\ \A i \in 0..n : g[i] = h[i + 1]
      /\ \A i \in 0..(n + 1) : h[i] \in Seq(Item)
      /\ g = [i \in 0..n |-> h[i + 1]]
  BY <1>1 DEF Later, Histories
<1>3. g \in Histories(v)
  BY <1>1, <1>2 DEF Histories
<1>4. /\ g[0] = h[1] /\ g[n] = h[n + 1] /\ Follows(Head(w), h[0], h[1])
      /\ h[0] \in Seq(Item) /\ h[1] \in Seq(Item)
  <2>1. 0 \in 0..n /\ n \in 0..n /\ 0 + 1 = 1 /\ 1 \in 1..Len(w) /\ 1 - 1 = 0
        /\ 0 \in 0..(n + 1) /\ 1 \in 0..(n + 1)
    BY <1>1
  <2>2. Follows(w[1], h[1 - 1], h[1])
    BY <2>1 DEF Explains
  <2> QED
    BY <1>1, <1>2, <2>1, <2>2
<1> HIDE DEF g, v
<1>5. Explains(g, v)
  <2> SUFFICES ASSUME NEW i \in 1..n PROVE Follows(v[i], g[i - 1], g[i])
    BY DEF Explains
  <2>1. i + 1 \in 1..Len(w) /\ i + 1 - 1 = i /\ i \in 0..n /\ i - 1 \in 0..n /\ i - 1 + 1 = i
    BY <1>1
  <2>2. Follows(w[i + 1], h[i + 1 - 1], h[i + 1])
    BY <2>1 DEF Explains
  <2> QED
    BY <1>1, <1>2, <2>1, <2>2
<1>6. ASSUME NEW j \in 0..n, NEW x
      PROVE  Lasts(g, v, j, x) <=> Lasts(h, w, j + 1, x)
  <2>1. \A i \in (j + 1)..n : /\ v[i] = w[i + 1] /\ g[i - 1] = h[i + 1 - 1]
                              /\ i + 1 \in (j + 1 + 1)..Len(w)
    <3> SUFFICES ASSUME NEW i \in (j + 1)..n
                 PROVE  /\ v[i] = w[i + 1] /\ g[i - 1] = h[i + 1 - 1]
                        /\ i + 1 \in (j + 1 + 1)..Len(w)
      OBVIOUS
    <3>1. /\ i \in 1..n /\ i - 1 \in 0..n /\ i - 1 + 1 = i + 1 - 1
          /\ i + 1 \in (j + 1 + 1)..Len(w)
      BY <1>1
    <3> QED
      BY <1>1, <1>2, <3>1
  <2>2. \A i \in (j + 1 + 1)..Len(w) : i - 1 \in (j + 1)..n /\ i = (i - 1) + 1
    BY <1>1
  <2>3. ASSUME Lasts(h, w, j + 1, x) PROVE Lasts(g, v, j, x)
    BY <2>1, <2>3 DEF Lasts
  <2>4. ASSUME Lasts(g, v, j, x) PROVE Lasts(h, w, j + 1, x)
    <3> SUFFICES ASSUME NEW i \in (j + 1 + 1)..Len(w) PROVE ~Drops(w[i], h[i - 1], x)
      BY DEF Lasts
    <3>1. i - 1 \in (j + 1)..n /\ v[i - 1] = w[i] /\ g[i - 1 - 1] = h[i - 1]
      <4>1. i - 1 \in (j + 1)..n /\ (i - 1) + 1 = i
        BY <2>2
      <4> QED
        BY <2>1, <4>1
    <3>2. ~Drops(v[i - 1], g[i - 1 - 1], x)
      BY <2>4, <3>1 DEF Lasts
    <3> QED
      BY <3>1, <3>2
  <2> QED
    BY <2>3, <2>4
<1>7. ASSUME NEW x
      PROVE  Lasts(h, w, 0, x) <=> ~Drops(Head(w), h[0], x) /\ Lasts(g, v, 0, x)
  <2>1. Lasts(g, v, 0, x) <=> Lasts(h, w, 1, x)
    BY <1>1, <1>6
  <2>2. (0 + 1)..Len(w) = {1} \cup ((1 + 1)..Len(w)) /\ 1 - 1 = 0
    BY <1>1
  <2> QED
    BY <1>1, <2>1, <2>2 DEF Lasts
<1>8. Remaining(g, v)
  <2>1. \A j \in 0..n : j + 1 \in 0..Len(w)
    BY <1>1
  <2>2. ASSUME NEW j \in 0..n, NEW x \in Item, Has(g[j], x), Lasts(g, v, j, x)
        PROVE  Has(g[n], x)
    BY <1>1, <1>2, <1>4, <1>6, <2>1, <2>2 DEF Remaining
  <2>3. ASSUME NEW j \in 0..n, Steady(v, j) PROVE g[j] = g[n]
    <3>1. Steady(w, j + 1)
      <4> SUFFICES ASSUME NEW i \in (j + 1 + 1)..Len(w) PROVE w[i].type \notin Structure
        BY DEF Steady
      <4>1. i - 1 \in (j + 1)..n /\ i - 1 \in 1..n /\ (i - 1) + 1 = i
        BY <1>1
      <4>2. v[i - 1].type \notin Structure
        BY <2>3, <4>1 DEF Steady
      <4> QED
        BY <1>1, <4>1, <4>2
    <3> QED
      BY <1>1, <1>2, <1>4, <2>1, <3>1 DEF Remaining
  <2> QED
    BY <2>2, <2>3 DEF Remaining
<1> QED
  BY <1>1, <1>2, <1>3, <1>4, <1>5, <1>6, <1>7, <1>8 DEF g, v

\* What is left of a selection, when the first message has been read.
LEMMA LeftPasses ==
  ASSUME NEW w \in Seq(Messages), w # <<>>, NEW h \in Histories(w),
         Explains(h, w), Remaining(h, w), NEW x
  PROVE  Left(h, w, 0, x) = Left(Later(h, w), Tail(w), 0, After(Head(w), h[0], x))
<1>1. Lasts(h, w, 0, x) <=> /\ ~Drops(Head(w), h[0], x)
                            /\ Lasts(Later(h, w), Tail(w), 0, x)
  BY HistoryPasses
<1> QED
  BY <1>1 DEF After, Left

\* The server's last word remains that, and when it has been read it is what is left of
\* the row it names.
LEMMA WordPasses ==
  ASSUME NEW w \in Seq(Messages), w # <<>>, NEW h \in Histories(w),
         Explains(h, w), Remaining(h, w), NEW y, ServersWord(h, w, y)
  PROVE  /\ ServersWord(Later(h, w), Tail(w), y)
         /\ Head(w).type = "select" /\ ~Head(w).crossed /\ ~HasType(Tail(w), "select") =>
              /\ Head(w).pos \in DOMAIN h[1] /\ h[1] = h[0]
              /\ y = Left(Later(h, w), Tail(w), 0, h[0][Head(w).pos])
<1> DEFINE g == Later(h, w)
           v == Tail(w)
<1>1. /\ Follows(Head(w), h[0], h[1])
      /\ \A i \in 0..Len(v) : g[i] = h[i + 1]
      /\ \A j \in 0..Len(v) : \A x : Lasts(g, v, j, x) <=> Lasts(h, w, j + 1, x)
  BY HistoryPasses
<1>2. /\ Head(w) = w[1] /\ 1 \in DOMAIN w /\ v \in Seq(Messages) /\ Len(v) \in Nat
      /\ \A i \in 1..Len(v) : v[i] = w[i + 1] /\ i + 1 \in DOMAIN w
  BY Dropped
<1>3. /\ \A i \in DOMAIN v : LastWord(v, i) => LastWord(w, i + 1)
      /\ Head(w).type = "select" /\ ~Head(w).crossed /\ ~HasType(v, "select")
           => LastWord(w, 1)
  BY DroppedWord
<1>4. DOMAIN v = 1..Len(v)
  BY <1>2
<1> HIDE DEF g, v
<1>5. ASSUME NEW i \in DOMAIN v, LastWord(v, i)
      PROVE  v[i].pos \in DOMAIN g[i] /\ y = Left(g, v, i, g[i][v[i].pos])
  <2>1. i \in 0..Len(v) /\ i \in 1..Len(v)
    BY <1>2, <1>4
  <2>2. /\ w[i + 1].pos \in DOMAIN h[i + 1]
        /\ y = Left(h, w, i + 1, h[i + 1][w[i + 1].pos])
    BY <1>2, <1>3, <1>5, <2>1 DEF ServersWord
  <2>3. v[i] = w[i + 1] /\ g[i] = h[i + 1]
    BY <1>1, <1>2, <2>1
  <2>4. \A x : Left(g, v, i, x) = Left(h, w, i + 1, x)
    BY <1>1, <2>1 DEF Left
  <2> QED
    BY <2>2, <2>3, <2>4
<1>6. ASSUME Head(w).type = "select", ~Head(w).crossed, ~HasType(v, "select")
      PROVE  /\ Head(w).pos \in DOMAIN h[1] /\ h[1] = h[0]
             /\ y = Left(g, v, 0, h[0][Head(w).pos])
  <2>1. w[1].pos \in DOMAIN h[1] /\ y = Left(h, w, 1, h[1][w[1].pos])
    BY <1>2, <1>3, <1>6 DEF ServersWord
  <2>2. h[1] = h[0]
    BY <1>1, <1>6 DEF Follows, Structure
  <2>3. \A x : Lasts(g, v, 0, x) <=> Lasts(h, w, 1, x)
    <3>1. 0 \in 0..Len(v) /\ 0 + 1 = 1
      BY <1>2
    <3> QED
      BY <1>1, <3>1
  <2> QED
    BY <1>2, <2>1, <2>2, <2>3 DEF Left
<1> QED
  BY <1>5, <1>6 DEF g, v, ServersWord

-----------------------------------------------------------------------------
(***************************************************************************)
(* What the server does.                                                   *)
(***************************************************************************)

\* What is chosen changes the selection and drops what is pending.
LEMMA ServerChosen ==
  ASSUME NEW s \in Servers, NEW k \in DOMAIN s.rows
  PROVE  LET u == Chosen(s, k)
         IN  /\ u \in Servers /\ u.rows = s.rows /\ u.selection = s.rows[k] /\ u.pending = 0
             /\ u.timer = s.timer /\ u.monitored = s.monitored /\ s.rows[k] \in Item
<1>1. s.rows \in Seq(Item) /\ s.rows[k] \in Item /\ s.rows[k] \in Choice
  BY DEF Servers, Choice
<1> QED
  BY <1>1 DEF Chosen, Servers

\* The same at the client.
LEMMA ClientChosen ==
  ASSUME NEW s \in Clients, NEW k \in DOMAIN s.rows
  PROVE  LET u == Chosen(s, k)
         IN  /\ u \in Clients /\ u.rows = s.rows /\ u.selection = s.rows[k] /\ u.pending = 0
             /\ u.request = s.request /\ u.loaded = s.loaded /\ s.rows[k] \in Item
             /\ k \in Nat
<1>1. s.rows \in Seq(Item) /\ s.rows[k] \in Item /\ s.rows[k] \in Choice /\ k \in Nat
  BY DEF Clients, Choice
<1> QED
  BY <1>1 DEF Chosen, Clients

\* A server that is monitored sends what it selects, or has nothing to select.
LEMMA Sends ==
  ASSUME NEW s \in Servers, s.monitored, s.selection # None => Has(s.rows, s.selection),
         SendSelection(s)
  PROVE  \/ \E k \in DOMAIN s.rows : /\ server' = Chosen(s, k)
                                     /\ toClient' = Append(toClient, Select(k))
         \/ /\ s.selection = None /\ s.rows = <<>>
            /\ server' = [s EXCEPT !.pending = 0] /\ toClient' = toClient
<1>1. s.rows \in Seq(Item)
  BY DEF Servers
<1>2. CASE s.selection # None
  <2>1. Position(s) \in DOMAIN s.rows
    BY <1>1, <1>2, PositionFinds
  <2>2. Position(s) # 0
    BY <1>1, <2>1
  <2> QED
    BY <1>2, <2>1, <2>2 DEF SendSelection
<1>3. CASE s.selection = None /\ s.rows # <<>>
  <2>1. 1 \in DOMAIN s.rows
    BY <1>1, <1>3
  <2> QED
    BY <1>3, <2>1 DEF SendSelection
<1>4. CASE s.selection = None /\ s.rows = <<>>
  BY <1>4 DEF SendSelection
<1> QED
  BY <1>2, <1>3, <1>4

\* What the client said last, when one message has been read, or another one written.
LEMMA ClientsWordMoves ==
  ASSUME NEW w \in Seq(Messages), NEW c, ClientsWord(w, c)
  PROVE  /\ w # <<>> => ClientsWord(Tail(w), c)
         /\ \A m \in Messages : m.type # "select" => ClientsWord(Append(w, m), c)
<1>1. ASSUME w # <<>> PROVE ClientsWord(Tail(w), c)
  <2> SUFFICES ASSUME NEW i \in DOMAIN Tail(w), LastWord(Tail(w), i)
               PROVE  /\ c.loaded /\ c.pending = 0 /\ Tail(w)[i].pos \in DOMAIN c.rows
                      /\ c.selection = c.rows[Tail(w)[i].pos]
    BY DEF ClientsWord
  <2>1. i \in 1..Len(Tail(w))
    BY <1>1, Dropped
  <2>2. LastWord(w, i + 1) /\ Tail(w)[i] = w[i + 1] /\ i + 1 \in DOMAIN w
    BY <1>1, <2>1, Dropped, DroppedWord
  <2> QED
    BY <2>2 DEF ClientsWord
<1>2. ASSUME NEW m \in Messages, m.type # "select" PROVE ClientsWord(Append(w, m), c)
  <2> SUFFICES ASSUME NEW i \in DOMAIN Append(w, m), LastWord(Append(w, m), i)
               PROVE  /\ c.loaded /\ c.pending = 0 /\ Append(w, m)[i].pos \in DOMAIN c.rows
                      /\ c.selection = c.rows[Append(w, m)[i].pos]
    BY DEF ClientsWord
  <2>1. i \in 1..Len(w) /\ LastWord(w, i) /\ Append(w, m)[i] = w[i] /\ i \in DOMAIN w
    BY <1>2, AppendedWord, Appended
  <2> QED
    BY <2>1 DEF ClientsWord
<1> QED
  BY <1>1, <1>2

\* A monitored server selects something and says so.
LEMMA ServerSays ==
  ASSUME Inv, Types', server.monitored, server'.monitored, server'.rows = server.rows,
         NEW k \in DOMAIN server.rows, server'.selection = server.rows[k],
         toClient' = Append(toClient, Select(k)), UNCHANGED <<client, mine, raced>>,
         \/ toServer' = toServer
         \/ toServer # <<>> /\ toServer' = Tail(toServer)
  PROVE  Inv'
<1>1. PICK h \in Histories(toClient) : Explained(h)
  BY DEF Inv
<1> DEFINE n == Len(toClient)
<1> PICK g : g = Extended(h, toClient, h[n])
  OBVIOUS
<1>2. /\ toClient \in Seq(Messages) /\ toServer \in Seq(Messages)
      /\ server.rows \in Seq(Item) /\ h[n] = server.rows
      /\ Explains(h, toClient) /\ Remaining(h, toClient) /\ Copy(h[0])
  BY <1>1 DEF Inv, Types, Servers, Explained
<1>3. Select(k) \in Messages /\ Select(k).type = "select"
  <2>1. k \in Nat /\ "select" \in Type
    BY <1>2 DEF Type
  <2> QED
    BY <2>1, MessageIs DEF Select
<1>4. Follows(Select(k), h[n], h[n])
  BY <1>3 DEF Follows, Structure
<1>5. /\ g \in Histories(toClient') /\ Explains(g, toClient') /\ Remaining(g, toClient')
      /\ g[0] = h[0] /\ g[Len(toClient')] = server.rows
  BY <1>2, <1>3, <1>4, HistoryGrows
<1>6. ServersWord(g, toClient', server'.selection)
  BY <1>2, WordGiven
<1>7. HasType(toClient', "select")
  BY <1>2, <1>3, Appended
<1>8. Explained(g)'
  BY <1>2, <1>5, <1>6, <1>7 DEF Explained, Copy, Agreement
<1>9. Selected'
  BY DEF Inv, Selected, Has
<1>10. ClientsWord(toServer', client')
  BY <1>2, ClientsWordMoves DEF Inv
<1>11. Monitoring' /\ Mine'
  BY DEF Inv, Monitoring, Mine
<1> QED
  BY <1>5, <1>8, <1>9, <1>10, <1>11 DEF Inv

\* A server without rows has nothing to say: nothing is left of what the client has
\* selected.
LEMMA ServerSilent ==
  ASSUME Inv, Types', server.monitored, server'.monitored,
         server.rows = <<>>, server.selection = None,
         server'.rows = server.rows, server'.selection = None,
         UNCHANGED <<client, toClient, mine, raced>>,
         \/ toServer' = toServer
         \/ toServer # <<>> /\ Head(toServer).type = "request" /\ toServer' = Tail(toServer)
  PROVE  Inv'
<1>1. PICK h \in Histories(toClient) : Explained(h)
  BY DEF Inv
<1>2. /\ toClient \in Seq(Messages) /\ toServer \in Seq(Messages)
      /\ client \in Clients /\ client.selection \in Choice
      /\ h[Len(toClient)] = <<>>
      /\ Explains(h, toClient) /\ Remaining(h, toClient) /\ Copy(h[0])
      /\ ServersWord(h, toClient, None) /\ Agreement(h)
  BY <1>1 DEF Inv, Types, Clients, Explained
<1>3. Left(h, toClient, 0, client.selection) = None
  <2>1. CASE client.selection = None
    BY <2>1 DEF Left
  <2>2. CASE client.selection # None
    <3>1. Has(client.rows, client.selection) /\ client.selection \in Item
      BY <1>2, <2>2 DEF Inv, Selected, Choice
    <3>2. Has(h[0], client.selection)
      BY <1>2, <3>1 DEF Copy, Has
    <3>3. ~Has(h[Len(toClient)], client.selection)
      BY <1>2 DEF Has
    <3>4. 0 \in 0..Len(toClient)
      BY <1>2
    <3> QED
      BY <1>2, <3>1, <3>2, <3>3, <3>4 DEF Remaining, Left
  <2> QED
    BY <2>1, <2>2
<1>4. Same(h)'
  BY <1>2, <1>3 DEF Same
<1>5. Explained(h)'
  BY <1>2, <1>4 DEF Explained, Copy, Agreement
<1>6. Selected'
  BY DEF Inv, Selected
<1>7. ClientsWord(toServer', client')
  BY <1>2, ClientsWordMoves DEF Inv
<1>8. Monitoring' /\ Mine'
  BY DEF Inv, Monitoring, Mine
<1> QED
  BY <1>5, <1>6, <1>7, <1>8 DEF Inv

\* The rows of the server change, or it sends them.
LEMMA ServerTells ==
  ASSUME Inv, Types', NEW m \in Messages, m.type # "select",
         Follows(m, server.rows, server'.rows),
         server'.selection = After(m, server.rows, server.selection),
         server'.monitored = server.monitored,
         server.timer => server'.timer, server'.timer => server.timer \/ server.monitored,
         toClient' = Append(toClient, m), UNCHANGED <<client, mine, raced>>,
         \/ toServer' = toServer
         \/ /\ toServer # <<>> /\ toServer' = Tail(toServer)
            /\ Head(toServer).type \notin {"monitored", "request", "select"}
  PROVE  Inv'
<1>1. PICK h \in Histories(toClient) : Explained(h)
  BY DEF Inv
<1> DEFINE n == Len(toClient)
<1> PICK g : g = Extended(h, toClient, server'.rows)
  OBVIOUS
<1>2. /\ toClient \in Seq(Messages) /\ toServer \in Seq(Messages)
      /\ server.rows \in Seq(Item) /\ server'.rows \in Seq(Item) /\ h[n] = server.rows
      /\ server.selection \in Choice /\ client.selection \in Choice
      /\ Explains(h, toClient) /\ Remaining(h, toClient) /\ Copy(h[0])
      /\ ServersWord(h, toClient, server.selection) /\ Agreement(h)
  BY <1>1 DEF Inv, Types, Servers, Clients, Explained
<1>3. /\ g \in Histories(toClient') /\ Explains(g, toClient') /\ Remaining(g, toClient')
      /\ g[0] = h[0] /\ g[Len(toClient')] = server'.rows
      /\ \A x \in Choice :
           Lasts(g, toClient', 0, x) <=> Lasts(h, toClient, 0, x) /\ ~Drops(m, h[n], x)
  <2>1. 0 \in 0..n
    BY <1>2
  <2> QED
    BY <1>2, <2>1, HistoryGrows
<1>4. ServersWord(g, toClient', server'.selection)
  BY <1>2, WordStays
<1>5. Same(h) => Same(g)'
  <2> SUFFICES ASSUME Same(h) PROVE Same(g)'
    OBVIOUS
  <2>1. PICK x \in Choice : /\ client.pending = 0 => x = client.selection
                            /\ server.selection = Left(h, toClient, 0, x)
    BY DEF Same
  <2>2. server'.selection = Left(g, toClient', 0, x)
    BY <1>2, <1>3, <2>1 DEF After, Left
  <2> QED
    BY <2>1, <2>2 DEF Same
<1>6. /\ HasType(toClient, "select") <=> HasType(toClient', "select")
      /\ HasType(toServer, "select") <=> HasType(toServer', "select")
      /\ HasType(toServer, "request") <=> HasType(toServer', "request")
  <2>1. HasType(toClient, "select") <=> HasType(toClient', "select")
    BY <1>2, Appended
  <2>2. CASE toServer' = toServer
    BY <2>1, <2>2
  <2>3. CASE /\ toServer # <<>> /\ toServer' = Tail(toServer)
             /\ Head(toServer).type \notin {"monitored", "request", "select"}
    BY <1>2, <2>1, <2>3, Dropped
  <2> QED
    BY <2>2, <2>3
<1>7. Agreement(g)'
  BY <1>2, <1>5, <1>6 DEF Agreement, Answering
<1>8. Explained(g)'
  BY <1>2, <1>3, <1>4, <1>7 DEF Explained, Copy
<1>9. Selected'
  <2>1. ASSUME server'.selection # None PROVE Has(server'.rows, server'.selection)
    <3>1. /\ server'.selection = server.selection /\ ~Drops(m, server.rows, server.selection)
          /\ server.selection \in Item /\ Has(server.rows, server.selection)
      BY <1>2, <2>1 DEF Inv, Selected, After, Choice
    <3> QED
      BY <1>2, <3>1, Kept
  <2> QED
    BY <2>1 DEF Inv, Selected
<1>10. ClientsWord(toServer', client')
  BY <1>2, ClientsWordMoves DEF Inv
<1>11. Monitoring' /\ Mine'
  BY <1>6 DEF Inv, Monitoring, Mine
<1> QED
  BY <1>3, <1>8, <1>9, <1>10, <1>11 DEF Inv

\* The history of a queue is one of the queue that has been marked.
LEMMA HistoryMarked ==
  ASSUME NEW w \in Seq(Messages), NEW h \in Histories(w), Explains(h, w), Remaining(h, w)
  PROVE  /\ h \in Histories(Mark(w)) /\ Explains(h, Mark(w)) /\ Remaining(h, Mark(w))
         /\ \A j \in 0..Len(w) : \A x : Lasts(h, Mark(w), j, x) <=> Lasts(h, w, j, x)
         /\ \A y : ServersWord(h, Mark(w), y)
<1> DEFINE v == Mark(w)
<1>1. /\ v \in Seq(Messages) /\ Len(v) = Len(w) /\ Len(w) \in Nat
      /\ \A i \in 1..Len(w) : v[i].type = w[i].type /\ v[i].pos = w[i].pos /\ v[i].rows = w[i].rows
      /\ \A i \in DOMAIN v : ~LastWord(v, i)
  BY Marked
<1> HIDE DEF v
<1>2. h \in Histories(v)
  BY <1>1 DEF Histories
<1>3. Explains(h, v)
  <2> SUFFICES ASSUME NEW i \in 1..Len(w) PROVE Follows(v[i], h[i - 1], h[i])
    BY <1>1 DEF Explains
  <2>1. Follows(w[i], h[i - 1], h[i])
    BY DEF Explains
  <2> QED
    BY <1>1, <2>1 DEF Follows
<1>4. ASSUME NEW j \in 0..Len(w), NEW x PROVE Lasts(h, v, j, x) <=> Lasts(h, w, j, x)
  <2>1. \A i \in (j + 1)..Len(w) : i \in 1..Len(w)
    BY <1>1
  <2>2. \A i \in 1..Len(w) : Drops(v[i], h[i - 1], x) <=> Drops(w[i], h[i - 1], x)
    BY <1>1 DEF Drops
  <2> QED
    BY <1>1, <2>1, <2>2 DEF Lasts
<1>5. ASSUME NEW j \in 0..Len(w) PROVE Steady(v, j) <=> Steady(w, j)
  <2>1. \A i \in (j + 1)..Len(w) : i \in 1..Len(w)
    BY <1>1
  <2> QED
    BY <1>1, <2>1 DEF Steady
<1>6. Remaining(h, v)
  BY <1>1, <1>4, <1>5 DEF Remaining
<1>7. \A y : ServersWord(h, v, y)
  BY <1>1 DEF ServersWord
<1> QED
  BY <1>2, <1>3, <1>4, <1>6, <1>7 DEF v

\* When there is nothing a message the other way can miss, the rows are the same all along
\* and nothing that is selected is given up.
LEMMA Uncrossed ==
  ASSUME NEW w \in Seq(Messages), NEW h \in Histories(w), Remaining(h, w), ~Crossing(w)
  PROVE  /\ ~HasType(w, "select") /\ h[0] = h[Len(w)]
         /\ \A x : Lasts(h, w, 0, x)
<1>1. Len(w) \in Nat /\ DOMAIN w = 1..Len(w)
  OBVIOUS
<1>2. \A i \in 1..Len(w) : w[i].type \notin Structure /\ w[i].type # "select"
  BY <1>1 DEF Crossing
<1>3. ~HasType(w, "select")
  BY <1>1, <1>2 DEF HasType
<1>4. Steady(w, 0)
  BY <1>1, <1>2 DEF Steady
<1>5. 0 \in 0..Len(w)
  BY <1>1
<1>6. \A x : Lasts(h, w, 0, x)
  BY <1>1, <1>2 DEF Lasts, Drops, Structure
<1> QED
  BY <1>3, <1>4, <1>5, <1>6 DEF Remaining

\* The selection of the client arrives at the server.
LEMMA ServerHears ==
  ASSUME Inv, Types', toServer # <<>>, Head(toServer).type = "select",
         server' = Applied(server, Head(toServer).pos, toClient)[1],
         toClient' = Mark(Applied(server, Head(toServer).pos, toClient)[2]),
         raced' = (Head(toServer).crossed \/ Crossing(toClient)),
         toServer' = Tail(toServer), UNCHANGED <<client, mine>>
  PROVE  Inv'
<1> DEFINE m == Head(toServer)
<1>1. PICK h \in Histories(toClient) : Explained(h)
  BY DEF Inv
<1>2. /\ toClient \in Seq(Messages) /\ toServer \in Seq(Messages)
      /\ server \in Servers /\ client \in Clients /\ client.selection \in Choice
      /\ server.rows \in Seq(Item) /\ h[Len(toClient)] = server.rows
      /\ Explains(h, toClient) /\ Remaining(h, toClient) /\ Copy(h[0])
  BY <1>1 DEF Inv, Types, Servers, Clients, Explained
<1>3. m \in Messages /\ m.pos \in Nat
  BY <1>2, Dropped DEF Messages
<1>4. server.monitored
  BY DEF Inv, Monitoring
<1>5. toClient' = Mark(toClient)
  BY DEF Applied
<1>6. /\ m.pos \in DOMAIN server.rows => server' = Chosen(server, m.pos)
      /\ m.pos \notin DOMAIN server.rows => server' = [server EXCEPT !.pending = m.pos]
  BY DEF Applied
<1>7. /\ server'.rows = server.rows /\ server'.monitored
      /\ m.pos \in DOMAIN server.rows => server'.selection = server.rows[m.pos]
      /\ m.pos \notin DOMAIN server.rows => server'.selection = server.selection
  <2>1. CASE m.pos \in DOMAIN server.rows
    BY <1>2, <1>4, <1>6, <2>1, ServerChosen
  <2>2. CASE m.pos \notin DOMAIN server.rows
    BY <1>2, <1>4, <1>6, <2>2 DEF Servers
  <2> QED
    BY <2>1, <2>2
<1>8. /\ h \in Histories(toClient') /\ Explains(h, toClient') /\ Remaining(h, toClient')
      /\ h[Len(toClient')] = server'.rows
      /\ ServersWord(h, toClient', server'.selection)
      /\ \A x : Lasts(h, toClient', 0, x) <=> Lasts(h, toClient, 0, x)
  <2>1. 0 \in 0..Len(toClient)
    BY <1>2
  <2> QED
    BY <1>2, <1>5, <1>7, <2>1, HistoryMarked, Marked
<1>9. Agreement(h)'
  <2>1. CASE raced'
    BY <2>1 DEF Agreement
  <2>2. CASE HasType(Tail(toServer), "select")
    BY <2>2 DEF Agreement
  <2>3. CASE ~raced' /\ ~HasType(Tail(toServer), "select")
    <3>0. ~Crossing(toClient) /\ ~m.crossed
      BY <2>3, Zenon
    <3>1. /\ ~Crossing(toClient) /\ LastWord(toServer, 1)
          /\ 1 \in DOMAIN toServer /\ m = toServer[1]
      <4>1. LastWord(toServer, 1)
        BY <1>2, <2>3, <3>0, DroppedWord
      <4>2. Len(toServer) \in Nat \ {0} /\ m = toServer[1] /\ DOMAIN toServer = 1..Len(toServer)
        BY <1>2, Dropped
      <4> QED
        BY <3>0, <4>1, <4>2
    <3>2. /\ client.loaded /\ client.pending = 0 /\ m.pos \in DOMAIN client.rows
          /\ client.selection = client.rows[m.pos]
      BY <3>1 DEF Inv, ClientsWord
    <3>3. client.rows = server.rows
      BY <1>2, <3>1, <3>2, Uncrossed DEF Copy
    <3>4. server'.selection = client.selection
      BY <1>7, <3>2, <3>3
    <3>5. Lasts(h, toClient', 0, client.selection)
      BY <1>2, <1>8, <3>1, Uncrossed
    <3>6. Same(h)'
      BY <1>2, <3>4, <3>5 DEF Same, Left
    <3> QED
      BY <3>6 DEF Agreement
  <2> QED
    BY <2>1, <2>2, <2>3
<1>10. Explained(h)'
  BY <1>2, <1>8, <1>9 DEF Explained, Copy
<1>11. Selected'
  BY <1>7 DEF Inv, Selected, Has
<1>12. ClientsWord(toServer', client')
  BY <1>2, ClientsWordMoves DEF Inv
<1>13. Monitoring' /\ Mine'
  BY <1>7 DEF Inv, Monitoring, Mine
<1> QED
  BY <1>8, <1>10, <1>11, <1>12, <1>13 DEF Inv

\* The server learns that it is monitored.
LEMMA ServerMonitored ==
  ASSUME Inv, Types', toServer # <<>>, Head(toServer).type = "monitored",
         server' = [server EXCEPT !.monitored = TRUE], toServer' = Tail(toServer),
         UNCHANGED <<client, toClient, mine, raced>>
  PROVE  Inv'
<1>1. PICK h \in Histories(toClient) : Explained(h)
  BY DEF Inv
<1>2. /\ toClient \in Seq(Messages) /\ toServer \in Seq(Messages) /\ server \in Servers
  BY DEF Inv, Types
<1>3. /\ server'.rows = server.rows /\ server'.monitored /\ server'.timer = server.timer
      /\ server'.selection = server.selection
  BY <1>2 DEF Servers
<1>4. /\ HasType(toServer, "select") <=> HasType(toServer', "select")
      /\ HasType(toServer, "request") <=> HasType(toServer', "request")
  BY <1>2, Dropped
<1>5. Same(h) => Same(h)'
  BY <1>3 DEF Same
<1>6. Explained(h)'
  BY <1>1, <1>3, <1>4, <1>5 DEF Explained, Copy, Agreement, Answering
<1>7. ClientsWord(toServer', client')
  BY <1>2, ClientsWordMoves DEF Inv
<1>8. Selected' /\ Monitoring' /\ Mine'
  BY <1>3 DEF Inv, Selected, Monitoring, Mine
<1> QED
  BY <1>6, <1>7, <1>8 DEF Inv

\* What a server that is not monitored selects is sent when it has been asked for.
LEMMA ServerUnmonitored ==
  ASSUME Inv, Types', ~server.monitored, NEW k \in DOMAIN server.rows,
         server' = [server EXCEPT !.selection = server.rows[k]],
         UNCHANGED <<client, toClient, toServer, mine, raced>>
  PROVE  Inv'
<1>1. PICK h \in Histories(toClient) : Explained(h)
  BY DEF Inv
<1>2. server \in Servers
  BY DEF Inv, Types
<1>3. /\ server'.rows = server.rows /\ server'.monitored = server.monitored
      /\ server'.timer = server.timer /\ server'.selection = server.rows[k]
  BY <1>2 DEF Servers
<1>4. Answering /\ ~HasType(toClient, "select")
  BY DEF Inv, Monitoring, Answering
<1>5. ServersWord(h, toClient, server'.selection)
  BY <1>4 DEF ServersWord, LastWord, HasType
<1>6. Agreement(h)'
  BY <1>3, <1>4 DEF Agreement, Answering
<1>7. Explained(h)'
  BY <1>1, <1>3, <1>5, <1>6 DEF Explained, Copy
<1>8. Selected' /\ Monitoring' /\ Mine' /\ ClientsWord(toServer', client')
  BY <1>3 DEF Inv, Selected, Has, Monitoring, Mine
<1> QED
  BY <1>7, <1>8 DEF Inv

-----------------------------------------------------------------------------
(***************************************************************************)
(* What the client does.                                                   *)
(***************************************************************************)

\* The user selects something, or a timer what was pending, and the client says so.
LEMMA ClientSays ==
  ASSUME Inv, Types', NEW c \in Clients, c.rows = client.rows, c.loaded = client.loaded,
         c.request = client.request, NEW k \in DOMAIN client.rows,
         client' = Chosen(c, k), toServer' = Append(toServer, Select(k)),
         UNCHANGED <<server, toClient, raced>>
  PROVE  Inv'
<1>1. PICK h \in Histories(toClient) : Explained(h)
  BY DEF Inv
<1>2. /\ toServer \in Seq(Messages) /\ client.rows \in Seq(Item)
      /\ client'.rows = client.rows /\ client'.loaded = client.loaded
      /\ client'.request = client.request /\ client'.pending = 0
      /\ client'.selection = client.rows[k] /\ k \in Nat
  BY ClientChosen DEF Inv, Types, Clients
<1>3. Select(k) \in Messages /\ Select(k).type = "select" /\ Select(k).pos = k
  <2>1. "select" \in Type
    BY DEF Type
  <2> QED
    BY <1>2, <2>1, MessageIs DEF Select
<1>4. /\ HasType(toServer', "select")
      /\ HasType(toServer, "request") => HasType(toServer', "request")
      /\ toServer # <<>> => toServer' # <<>> /\ Head(toServer') = Head(toServer)
  BY <1>2, <1>3, Appended
<1>5. Explained(h)'
  BY <1>1, <1>2, <1>4 DEF Explained, Copy, Agreement
<1>6. client.loaded
  BY <1>1, <1>2 DEF Explained, Copy
<1>7. ClientsWord(toServer', client')
  <2> SUFFICES ASSUME NEW i \in DOMAIN toServer', LastWord(toServer', i)
               PROVE  /\ client'.loaded /\ client'.pending = 0
                      /\ toServer'[i].pos \in DOMAIN client'.rows
                      /\ client'.selection = client'.rows[toServer'[i].pos]
    BY DEF ClientsWord
  <2>1. i = Len(toServer) + 1
    BY <1>2, <1>3, AppendedWord
  <2>2. toServer'[i] = Select(k)
    BY <1>2, <1>3, <2>1, Appended
  <2> QED
    BY <1>2, <1>3, <1>6, <2>2
<1>8. Selected' /\ Monitoring' /\ Mine'
  BY <1>2, <1>4 DEF Inv, Selected, Has, Monitoring, Mine
<1> QED
  BY <1>5, <1>7, <1>8 DEF Inv

\* The client asks for something, or does nothing.
LEMMA ClientAsks ==
  ASSUME Inv, Types', client'.rows = client.rows, client'.loaded = client.loaded,
         client'.selection = client.selection, client'.pending = client.pending,
         \/ toServer' = toServer /\ client'.request = client.request
         \/ /\ toServer' = Append(toServer, Message("request"))
         \/ /\ toServer' = Append(toServer, Message("load"))
            /\ client'.request = client.request,
         UNCHANGED <<server, toClient, mine, raced>>
  PROVE  Inv'
<1>1. PICK h \in Histories(toClient) : Explained(h)
  BY DEF Inv
<1>2. toServer \in Seq(Messages)
  BY DEF Inv, Types
<1>3. /\ Message("request") \in Messages /\ Message("request").type = "request"
      /\ Message("load") \in Messages /\ Message("load").type = "load"
  BY MessageIs DEF Type
<1>4. /\ HasType(toServer', "select") <=> HasType(toServer, "select")
      /\ HasType(toServer, "request") => HasType(toServer', "request")
      /\ toServer # <<>> => toServer' # <<>> /\ Head(toServer') = Head(toServer)
      /\ ClientsWord(toServer', client)
      /\ client'.request = client.request \/ HasType(toServer', "request")
  <2>1. CASE toServer' = toServer /\ client'.request = client.request
    BY <2>1 DEF Inv
  <2>2. CASE toServer' = Append(toServer, Message("request"))
    BY <1>2, <1>3, <2>2, Appended, ClientsWordMoves DEF Inv
  <2>3. CASE toServer' = Append(toServer, Message("load")) /\ client'.request = client.request
    BY <1>2, <1>3, <2>3, Appended, ClientsWordMoves DEF Inv
  <2> QED
    BY <2>1, <2>2, <2>3
<1>5. Same(h) => Same(h)'
  BY DEF Same
<1>6. Answering => Answering'
  BY <1>4 DEF Answering
<1>7. Agreement(h)'
  BY <1>1, <1>4, <1>5, <1>6 DEF Explained, Agreement
<1>8. Explained(h)'
  BY <1>1, <1>7 DEF Explained, Copy
<1>9. ClientsWord(toServer', client')
  BY <1>4 DEF ClientsWord
<1>10. Selected' /\ Monitoring' /\ Mine'
  BY <1>4 DEF Inv, Selected, Monitoring, Mine
<1> QED
  BY <1>8, <1>9, <1>10 DEF Inv

\* The selection of the server arrives at the client.
LEMMA ClientHears ==
  ASSUME Inv, Types', toClient # <<>>, Head(toClient).type = "select",
         client' = Applied(client, Head(toClient).pos, toServer)[1],
         toServer' = Mark(Applied(client, Head(toClient).pos, toServer)[2]),
         raced' = (Head(toClient).crossed \/ Crossing(toServer)),
         toClient' = Tail(toClient), ~mine', UNCHANGED server
  PROVE  Inv'
<1> DEFINE m == Head(toClient)
<1>1. PICK h \in Histories(toClient) : Explained(h)
  BY DEF Inv
<1> PICK g : g = Later(h, toClient)
  OBVIOUS
<1>2. /\ toClient \in Seq(Messages) /\ toServer \in Seq(Messages)
      /\ client \in Clients /\ client.rows \in Seq(Item)
      /\ h[Len(toClient)] = server.rows
      /\ Explains(h, toClient) /\ Remaining(h, toClient) /\ Copy(h[0])
      /\ ServersWord(h, toClient, server.selection)
  BY <1>1 DEF Inv, Types, Clients, Explained
<1>3. m \in Messages /\ m.pos \in Nat
  BY <1>2, Dropped DEF Messages
<1>4. server.monitored
  <2>1. HasType(toClient, "select")
    BY <1>2, Dropped
  <2> QED
    BY <2>1 DEF Inv, Monitoring
<1>5. toServer' = Mark(toServer)
  BY DEF Applied
<1>6. /\ m.pos \in DOMAIN client.rows => client' = Chosen(client, m.pos)
      /\ m.pos \notin DOMAIN client.rows => client' = [client EXCEPT !.pending = m.pos]
  BY DEF Applied
<1>7. /\ client'.rows = client.rows /\ client'.loaded = client.loaded
      /\ m.pos \in DOMAIN client.rows => client'.selection = client.rows[m.pos]
      /\ m.pos \notin DOMAIN client.rows => /\ client'.selection = client.selection
                                            /\ client'.pending = m.pos
  <2>1. CASE m.pos \in DOMAIN client.rows
    BY <1>2, <1>6, <2>1, ClientChosen
  <2>2. CASE m.pos \notin DOMAIN client.rows
    BY <1>2, <1>6, <2>2 DEF Clients
  <2> QED
    BY <2>1, <2>2
<1>8. /\ g \in Histories(toClient') /\ Explains(g, toClient') /\ Remaining(g, toClient')
      /\ g[0] = h[1] /\ g[Len(toClient')] = server.rows /\ Follows(m, h[0], h[1])
      /\ h[0] \in Seq(Item)
  BY <1>2, HistoryPasses
<1>9. h[1] = h[0]
  BY <1>8 DEF Follows, Structure
<1>10. ServersWord(g, toClient', server'.selection)
  BY <1>2, WordPasses
<1>11. Agreement(g)'
  <2>1. CASE raced'
    BY <2>1 DEF Agreement
  <2>2. CASE HasType(Tail(toClient), "select")
    BY <2>2 DEF Agreement
  <2>3. CASE ~raced' /\ ~HasType(Tail(toClient), "select")
    <3>1. ~m.crossed
      BY <2>3, Zenon
    <3>2. /\ m.pos \in DOMAIN h[0]
          /\ server.selection = Left(g, toClient', 0, h[0][m.pos])
      BY <1>2, <1>9, <2>3, <3>1, WordPasses
    <3>3. h[0][m.pos] \in Choice
      BY <1>8, <3>2 DEF Choice
    <3>4. client'.pending = 0 => h[0][m.pos] = client'.selection
      <4>1. CASE client.loaded
        BY <1>2, <1>7, <3>2, <4>1 DEF Copy
      <4>2. CASE ~client.loaded
        <5>1. m.pos \notin DOMAIN client.rows /\ m.pos # 0
          BY <1>2, <1>8, <3>2, <4>2 DEF Copy
        <5> QED
          BY <1>7, <5>1
      <4> QED
        BY <4>1, <4>2
    <3>5. Same(g)'
      BY <3>2, <3>3, <3>4 DEF Same
    <3> QED
      BY <3>5 DEF Agreement
  <2> QED
    BY <2>1, <2>2, <2>3
<1>12. Explained(g)'
  BY <1>2, <1>7, <1>8, <1>9, <1>10, <1>11 DEF Explained, Copy
<1>13. Selected'
  BY <1>7 DEF Inv, Selected, Has
<1>14. ClientsWord(toServer', client')
  BY <1>2, <1>5, Marked DEF ClientsWord
<1>15. Monitoring' /\ Mine'
  BY <1>4 DEF Monitoring, Mine
<1> QED
  BY <1>8, <1>12, <1>13, <1>14, <1>15 DEF Inv

\* What the client makes of a change of the rows: it has them as they were afterwards,
\* and of its selection what the change leaves.
LEMMA Learns ==
  ASSUME NEW c \in Clients, NEW m \in Messages, NEW r \in Seq(Item), NEW s \in Seq(Item),
         m.type # "select", Follows(m, r, s),
         c.rows = IF c.loaded THEN r ELSE <<>>,
         c.selection # None => Has(c.rows, c.selection)
  PROVE  LET d == RemoteModelChanged(c, m)
         IN  /\ d \in Clients
             /\ d.rows = IF d.loaded THEN s ELSE <<>>
             /\ d.selection # None => Has(d.rows, d.selection)
             /\ d.selection = After(m, r, c.selection)
             /\ d.pending = IF m.type = "reset" THEN 0 ELSE c.pending
             /\ d.request = c.request
             /\ m.type \notin Structure => /\ d.loaded /\ d.selection = c.selection
                                           /\ c.loaded => d.rows = c.rows
<1> DEFINE d == RemoteModelChanged(c, m)
<1>1. /\ m.rows \in Seq(Item) /\ c.selection \in Choice /\ c.rows \in Seq(Item)
      /\ ~c.loaded => c.rows = <<>> /\ c.selection = None
  BY DEF Messages, Clients, Has
<1>2. ASSUME NEW t
      PROVE  LET u == RowsInserted(c, t)
             IN  /\ u.rows = t /\ u.loaded /\ u.selection = c.selection
                 /\ u.pending = c.pending /\ u.request = c.request
                 /\ t \in Seq(Item) => u \in Clients
  BY DEF RowsInserted, Clients
<1>3. CASE m.type = "rows"
  <2>1. d = RowsInserted(c, m.rows)
    BY <1>3 DEF RemoteModelChanged
  <2>2. m.rows = r /\ s = r /\ After(m, r, c.selection) = c.selection
    BY <1>3 DEF Follows, Structure, After, Drops
  <2>3. /\ d.rows = r /\ d.loaded /\ d.selection = c.selection
        /\ d.pending = c.pending /\ d.request = c.request /\ d \in Clients
    BY <1>2, <2>1, <2>2
  <2> QED
    BY <1>1, <1>3, <2>2, <2>3
<1>4. CASE m.type = "reset"
  <2>1. d = [c EXCEPT !.rows = <<>>, !.selection = None, !.loaded = FALSE,
                      !.asked = FALSE, !.pending = 0]
    BY <1>4 DEF RemoteModelChanged
  <2>2. /\ d.rows = <<>> /\ ~d.loaded /\ d.selection = None /\ d.pending = 0
        /\ d.request = c.request /\ d \in Clients
    <3>1. <<>> \in Seq(Item) /\ None \in Choice /\ 0 \in Nat
      BY DEF Choice
    <3> HIDE DEF d
    <3> QED
      BY <2>1, <3>1 DEF Clients
  <2>3. After(m, r, c.selection) = None
    BY <1>4 DEF After, Drops
  <2> QED
    BY <1>4, <2>2, <2>3 DEF Structure
<1>5. CASE m.type \in {"inserted", "removed"} /\ ~c.loaded
  <2>1. d = c
    BY <1>5 DEF RemoteModelChanged
  <2>2. After(m, r, None) = None
    BY DEF After
  <2> QED
    BY <1>1, <1>5, <2>1, <2>2 DEF Structure
<1>6. CASE m.type = "inserted" /\ c.loaded
  <2>1. d = RowsInserted(c, InsertAt(c.rows, m.pos, m.rows[1]))
    BY <1>6 DEF RemoteModelChanged
  <2>2. s = InsertAt(c.rows, m.pos, m.rows[1]) /\ After(m, r, c.selection) = c.selection
    BY <1>6 DEF Follows, After, Drops
  <2>3. /\ d.rows = s /\ d.loaded /\ d.selection = c.selection
        /\ d.pending = c.pending /\ d.request = c.request /\ d \in Clients
    BY <1>2, <2>1, <2>2
  <2>4. c.selection # None => Has(s, c.selection)
    <3> SUFFICES ASSUME c.selection # None PROVE Has(s, c.selection)
      OBVIOUS
    <3>1. c.selection \in Item /\ Has(r, c.selection) /\ ~Drops(m, r, c.selection)
      BY <1>1, <1>6 DEF Choice, Drops
    <3> QED
      BY <3>1, Kept
  <2> QED
    BY <1>6, <2>2, <2>3, <2>4 DEF Structure
<1>7. CASE m.type = "removed" /\ c.loaded
  <2>1. d = [c EXCEPT !.rows = RemoveAt(@, m.pos),
                      !.selection = IF @ = c.rows[m.pos] THEN None ELSE @]
    BY <1>7 DEF RemoteModelChanged
  <2>2. s = RemoveAt(c.rows, m.pos)
    BY <1>7 DEF Follows
  <2>3. /\ d.rows = s /\ d.loaded /\ d.pending = c.pending /\ d.request = c.request
        /\ d.selection = IF c.selection = c.rows[m.pos] THEN None ELSE c.selection
        /\ d \in Clients
    BY <1>7, <2>1, <2>2 DEF Clients, Choice
  <2>4. d.selection = After(m, r, c.selection)
    BY <1>7, <2>3 DEF After, Drops
  <2>5. d.selection # None => Has(s, d.selection)
    <3> SUFFICES ASSUME d.selection # None PROVE Has(s, d.selection)
      OBVIOUS
    <3>1. d.selection = c.selection /\ ~Drops(m, r, c.selection)
      BY <2>4 DEF After
    <3>2. c.selection \in Item /\ Has(r, c.selection)
      BY <1>1, <1>7, <3>1 DEF Choice
    <3> QED
      BY <3>1, <3>2, Kept
  <2> QED
    BY <1>7, <2>3, <2>4, <2>5 DEF Structure
<1> QED
  BY <1>3, <1>4, <1>5, <1>6, <1>7 DEF Follows, Structure

\* A change of the rows arrives at the client.
LEMMA ClientLearns ==
  ASSUME Inv, Types', toClient # <<>>, Head(toClient).type # "select",
         client' = RemoteModelChanged(client, Head(toClient)),
         toServer' = IF Head(toClient).type \in Structure THEN Mark(toServer) ELSE toServer,
         toClient' = Tail(toClient), mine' => mine, UNCHANGED <<server, raced>>
  PROVE  Inv'
<1> DEFINE m == Head(toClient)
<1>1. PICK h \in Histories(toClient) : Explained(h)
  BY DEF Inv
<1> PICK g : g = Later(h, toClient)
  OBVIOUS
<1>2. /\ toClient \in Seq(Messages) /\ toServer \in Seq(Messages) /\ client \in Clients
      /\ h[Len(toClient)] = server.rows
      /\ Explains(h, toClient) /\ Remaining(h, toClient) /\ Copy(h[0])
      /\ ServersWord(h, toClient, server.selection) /\ Agreement(h)
  BY <1>1 DEF Inv, Types, Explained
<1>3. m \in Messages
  BY <1>2, Dropped
<1>4. /\ g \in Histories(toClient') /\ Explains(g, toClient') /\ Remaining(g, toClient')
      /\ g[0] = h[1] /\ g[Len(toClient')] = server.rows /\ Follows(m, h[0], h[1])
      /\ h[0] \in Seq(Item) /\ h[1] \in Seq(Item)
  BY <1>2, HistoryPasses
<1>5. /\ client'.rows = IF client'.loaded THEN h[1] ELSE <<>>
      /\ client'.selection # None => Has(client'.rows, client'.selection)
      /\ client'.selection = After(m, h[0], client.selection)
      /\ client'.pending = IF m.type = "reset" THEN 0 ELSE client.pending
      /\ client'.request = client.request
      /\ m.type \notin Structure =>
           /\ client'.loaded /\ client'.selection = client.selection
           /\ client.loaded => client'.rows = client.rows
  <2>1. /\ client.rows = IF client.loaded THEN h[0] ELSE <<>>
        /\ client.selection # None => Has(client.rows, client.selection)
    BY <1>2 DEF Copy, Inv, Selected
  <2>2. m.type # "select" /\ client' = RemoteModelChanged(client, m)
    OBVIOUS
  <2> HIDE DEF m
  <2> QED
    BY <1>2, <1>3, <1>4, <2>1, <2>2, Learns
<1>6. ServersWord(g, toClient', server'.selection)
  BY <1>2, WordPasses
<1>7. /\ HasType(toClient', "select") <=> HasType(toClient, "select")
      /\ HasType(toServer', "select") <=> HasType(toServer, "select")
      /\ HasType(toServer', "request") <=> HasType(toServer, "request")
      /\ toServer # <<>> => toServer' # <<>> /\ Head(toServer').type = Head(toServer).type
  <2>1. HasType(toClient', "select") <=> HasType(toClient, "select")
    BY <1>2, Dropped
  <2> QED
    BY <1>2, <2>1, Marked
<1>8. Same(h) => Same(g)'
  <2> SUFFICES ASSUME Same(h) PROVE Same(g)'
    OBVIOUS
  <2>1. PICK x \in Choice : /\ client.pending = 0 => x = client.selection
                            /\ server.selection = Left(h, toClient, 0, x)
    BY DEF Same
  <2>2. server.selection = Left(g, toClient', 0, After(m, h[0], x))
    BY <1>2, <2>1, LeftPasses
  <2>3. After(m, h[0], x) \in Choice
    BY DEF After, Choice
  <2>4. client'.pending = 0 => After(m, h[0], x) = client'.selection
    <3>1. CASE m.type = "reset"
      BY <1>5, <3>1 DEF After, Drops
    <3>2. CASE m.type # "reset"
      BY <1>5, <2>1, <3>2
    <3> QED
      BY <3>1, <3>2
  <2> QED
    BY <2>2, <2>3, <2>4 DEF Same
<1>9. Agreement(g)'
  BY <1>2, <1>5, <1>7, <1>8 DEF Agreement, Answering
<1>10. Explained(g)'
  BY <1>4, <1>5, <1>6, <1>9 DEF Explained, Copy
<1>11. Selected'
  BY <1>5 DEF Inv, Selected
<1>12. ClientsWord(toServer', client')
  <2>1. CASE m.type \in Structure
    BY <1>2, <2>1, Marked DEF ClientsWord
  <2>2. CASE m.type \notin Structure
    <3>1. m.type # "reset" /\ toServer' = toServer /\ ClientsWord(toServer, client)
      BY <2>2 DEF Inv, Structure
    <3> QED
      BY <1>5, <2>2, <3>1 DEF ClientsWord
  <2> QED
    BY <2>1, <2>2
<1>13. Monitoring' /\ Mine'
  BY <1>5, <1>7 DEF Inv, Monitoring, Mine
<1> QED
  BY <1>4, <1>10, <1>11, <1>12, <1>13 DEF Inv

-----------------------------------------------------------------------------
(***************************************************************************)
(* The actions.                                                            *)
(***************************************************************************)

\* The lists that the model of the probe may hold.
LEMMA ListsAre ==
  /\ Lists \subseteq Seq(Item)
  /\ Cardinality(Item) \in Nat
<1>1. Cardinality(Item) \in Nat
  BY SelectionAssumption, FS_CardinalityType
<1> SUFFICES ASSUME NEW r \in Lists PROVE r \in Seq(Item)
  BY <1>1
<1>2. PICK n \in 0..Cardinality(Item) : r \in [1..n -> Item]
  BY DEF Lists, Positions
<1> QED
  BY <1>1, <1>2

\* In the beginning the server has not been asked yet.
LEMMA InitInv == Init => Inv
<1> SUFFICES ASSUME Init PROVE Inv
  OBVIOUS
<1>1. PICK r \in Lists, s \in Item \cup {None} :
        server = [rows |-> r, selection |-> s, pending |-> 0, timer |-> FALSE,
                  monitored |-> FALSE]
  BY DEF Init
<1>2. /\ server \in Servers /\ server.rows \in Seq(Item)
      /\ server.monitored = FALSE /\ server.timer = FALSE
  BY <1>1, ListsAre DEF Servers, Choice
<1>3. /\ client \in Clients /\ client.rows = <<>> /\ client.selection = None
      /\ client.pending = 0 /\ client.request = TRUE /\ client.loaded = FALSE
  <2>1. <<>> \in Seq(Item)
    OBVIOUS
  <2> QED
    BY <2>1 DEF Init, Clients, Choice
<1>4. /\ Message("monitored") \in Messages /\ Message("monitored").type = "monitored"
  BY MessageIs DEF Type
<1>5. /\ toServer \in Seq(Messages) /\ toServer # <<>> /\ DOMAIN toServer = {1}
      /\ toServer[1].type = "monitored" /\ Head(toServer).type = "monitored"
  BY <1>4 DEF Init
<1>6. toClient = <<>> /\ toClient \in Seq(Messages) /\ Len(toClient) = 0 /\ DOMAIN toClient = {}
  BY DEF Init
<1>7. Types
  BY <1>2, <1>3, <1>5, <1>6 DEF Init, Types
<1>8. Selected
  BY <1>3 DEF Init, Selected, Has
<1>9. Monitoring
  BY <1>2, <1>3, <1>5, <1>6 DEF Monitoring, HasType
<1>10. ClientsWord(toServer, client)
  BY <1>5 DEF ClientsWord, LastWord
<1>11. Mine
  BY DEF Init, Mine
<1> PICK h : h = [i \in 0..0 |-> server.rows]
  OBVIOUS
<1>12. h \in Histories(toClient) /\ h[0] = server.rows
  BY <1>2, <1>6 DEF Histories
<1>13. Explains(h, toClient) /\ Remaining(h, toClient)
  <2>1. \A j \in 0..0 : j = 0
    OBVIOUS
  <2> QED
    BY <1>6, <2>1 DEF Explains, Remaining
<1>14. Copy(h[0]) /\ ServersWord(h, toClient, server.selection) /\ Agreement(h)
  BY <1>3, <1>6 DEF Copy, ServersWord, Agreement, Answering
<1>15. Explained(h)
  BY <1>6, <1>12, <1>13, <1>14 DEF Explained
<1> QED
  BY <1>7, <1>8, <1>9, <1>10, <1>11, <1>12, <1>15 DEF Inv

\* rowsInserted() of the model of the probe: the timer groups the answers.
LEMMA InsertRowInv == ASSUME Inv, InsertRow PROVE Inv'
<1>1. /\ server \in Servers /\ server.rows \in Seq(Item) /\ server.selection \in Choice
      /\ toClient \in Seq(Messages) /\ Types
  BY DEF Inv, Types, Servers
<1>2. PICK x \in Item \ ToSet(server.rows), i \in 1..(Len(server.rows) + 1) :
        /\ server' = [server EXCEPT !.rows = InsertAt(@, i, x),
                                    !.timer = @ \/ server.monitored]
        /\ toClient' = Append(toClient, [Message("inserted") EXCEPT !.pos = i, !.rows = <<x>>])
  BY DEF InsertRow
<1> DEFINE m == [Message("inserted") EXCEPT !.pos = i, !.rows = <<x>>]
<1>3. /\ m \in Messages /\ m.type = "inserted" /\ m.pos = i /\ m.rows = <<x>>
  <2>1. i \in Nat /\ <<x>> \in Seq(Item)
    BY <1>1
  <2> QED
    BY <2>1 DEF Message, Messages, Type
<1>4. /\ server' \in Servers /\ server'.rows = InsertAt(server.rows, i, x)
      /\ server'.selection = server.selection /\ server'.monitored = server.monitored
      /\ server'.timer = (server.timer \/ server.monitored)
  <2>1. InsertAt(server.rows, i, x) \in Seq(Item)
    BY <1>1, Inserted
  <2> QED
    BY <1>1, <1>2, <2>1 DEF Servers
<1>5. Follows(m, server.rows, server'.rows)
  BY <1>3, <1>4 DEF Follows, Structure
<1>6. After(m, server.rows, server.selection) = server.selection
  BY <1>3 DEF After, Drops
<1>7. Types'
  <2>1. toClient' \in Seq(Messages)
    BY <1>1, <1>2, <1>3, Appended
  <2> QED
    BY <1>1, <1>4, <2>1 DEF Types, InsertRow
<1> HIDE DEF m
<1>8. m.type # "select" /\ toClient' = Append(toClient, m)
  BY <1>2, <1>3 DEF m
<1>9. UNCHANGED <<client, mine, raced>> /\ toServer' = toServer
  BY DEF InsertRow
<1>10. (server.timer => server'.timer) /\ (server'.timer => server.timer \/ server.monitored)
  BY <1>4, Zenon
<1> QED
  BY <1>3, <1>4, <1>5, <1>6, <1>7, <1>8, <1>9, <1>10, ServerTells

\* rowsRemoved(): what is selected may go with its row.
LEMMA RemoveRowInv == ASSUME Inv, RemoveRow PROVE Inv'
<1>1. /\ server \in Servers /\ server.rows \in Seq(Item) /\ server.selection \in Choice
      /\ toClient \in Seq(Messages) /\ Types
  BY DEF Inv, Types, Servers
<1>2. PICK i \in DOMAIN server.rows :
        /\ server' = [server EXCEPT !.rows = RemoveAt(@, i),
                                    !.selection = IF @ = server.rows[i] THEN None ELSE @]
        /\ toClient' = Append(toClient, [Message("removed") EXCEPT !.pos = i])
  BY DEF RemoveRow
<1>3. i \in 1..Len(server.rows) /\ i \in Nat
  BY <1>1
<1>4. PICK m : m = [Message("removed") EXCEPT !.pos = i]
  OBVIOUS
<1>5. m \in Messages /\ m.type = "removed" /\ m.pos = i
  BY <1>3, <1>4, MessageIs DEF Type
<1>6. /\ server' \in Servers /\ server'.rows = RemoveAt(server.rows, i)
      /\ server'.selection = IF server.selection = server.rows[i] THEN None ELSE server.selection
      /\ server'.monitored = server.monitored /\ server'.timer = server.timer
  <2>1. RemoveAt(server.rows, i) \in Seq(Item)
    BY <1>1, <1>3, Removed
  <2> QED
    BY <1>1, <1>2, <2>1 DEF Servers, Choice
<1>7. Follows(m, server.rows, server'.rows)
  BY <1>5, <1>6 DEF Follows, Structure
<1>8. server'.selection = After(m, server.rows, server.selection)
  BY <1>5, <1>6 DEF After, Drops
<1>9. toClient' = Append(toClient, m)
  BY <1>2, <1>4
<1>10. Types'
  BY <1>1, <1>5, <1>6, <1>9, Appended DEF Types, RemoveRow
<1>11. UNCHANGED <<client, mine, raced>> /\ toServer' = toServer
  BY DEF RemoveRow
<1> QED
  BY <1>5, <1>6, <1>7, <1>8, <1>9, <1>10, <1>11, ServerTells

\* modelReset(): nothing is selected afterwards.
LEMMA ResetModelInv == ASSUME Inv, ResetModel PROVE Inv'
<1>1. /\ server \in Servers /\ server.rows \in Seq(Item) /\ server.selection \in Choice
      /\ toClient \in Seq(Messages) /\ Types
  BY DEF Inv, Types, Servers
<1>2. PICK r \in Lists : server' = [server EXCEPT !.rows = r, !.selection = None,
                                                  !.timer = @ \/ server.monitored]
  BY DEF ResetModel
<1>3. PICK m : m = Message("reset")
  OBVIOUS
<1>4. m \in Messages /\ m.type = "reset"
  BY <1>3, MessageIs DEF Type
<1>5. /\ server' \in Servers /\ server'.selection = None
      /\ server'.monitored = server.monitored
      /\ server'.timer = (server.timer \/ server.monitored)
  <2>1. r \in Seq(Item)
    BY ListsAre
  <2> QED
    BY <1>1, <1>2, <2>1 DEF Servers, Choice
<1>6. Follows(m, server.rows, server'.rows)
  BY <1>4 DEF Follows, Structure
<1>7. server'.selection = After(m, server.rows, server.selection)
  BY <1>4, <1>5 DEF After, Drops
<1>8. UNCHANGED <<client, mine, raced>> /\ toServer' = toServer /\ toClient' = Append(toClient, m)
  BY <1>3 DEF ResetModel
<1>9. Types'
  BY <1>1, <1>4, <1>5, <1>8, Appended DEF Types, ResetModel
<1>10. (server.timer => server'.timer) /\ (server'.timer => server.timer \/ server.monitored)
  BY <1>5, Zenon
<1> QED
  BY <1>4, <1>5, <1>6, <1>7, <1>8, <1>9, <1>10, ServerTells

\* A tool selects something, on a server that is monitored or not.
LEMMA ServerSelectInv == ASSUME Inv, ServerSelect PROVE Inv'
<1>1. /\ server \in Servers /\ server.rows \in Seq(Item) /\ toClient \in Seq(Messages) /\ Types
  BY DEF Inv, Types, Servers
<1>2. PICK k \in DOMAIN server.rows :
        /\ server' = IF server.monitored THEN Chosen(server, k)
                     ELSE [server EXCEPT !.selection = server.rows[k]]
        /\ toClient' = Monitored(<<Select(k)>>)
  BY DEF ServerSelect
<1>3. UNCHANGED <<client, mine, raced, toServer, changes>> /\ choices' \in Nat
  BY <1>1 DEF ServerSelect, Types
<1>4. Select(k) \in Messages
  <2>1. k \in Nat /\ "select" \in Type
    BY <1>1 DEF Type
  <2> QED
    BY <2>1, MessageIs DEF Select
<1>5. CASE server.monitored
  <2>1. /\ server' \in Servers /\ server'.rows = server.rows /\ server'.monitored
        /\ server'.selection = server.rows[k]
    BY <1>1, <1>2, <1>5, ServerChosen
  <2>2. toClient' = Append(toClient, Select(k))
    BY <1>1, <1>2, <1>4, <1>5 DEF Monitored
  <2>3. Types'
    BY <1>1, <1>3, <1>4, <2>1, <2>2, Appended DEF Types
  <2> QED
    BY <1>3, <1>5, <2>1, <2>2, <2>3, ServerSays
<1>6. CASE ~server.monitored
  <2>1. server' = [server EXCEPT !.selection = server.rows[k]] /\ toClient' = toClient
    BY <1>2, <1>6 DEF Monitored
  <2>2. server' \in Servers
    BY <1>1, <2>1 DEF Servers, Choice
  <2>3. Types'
    BY <1>1, <1>3, <2>1, <2>2 DEF Types
  <2> QED
    BY <1>3, <1>6, <2>1, <2>3, ServerUnmonitored
<1> QED
  BY <1>5, <1>6

\* The server sends what it has selected, by its timer or because it has been asked.
LEMMA SendSelectionInv ==
  ASSUME Inv, NEW s \in Servers, s.rows = server.rows, s.selection = server.selection,
         s.monitored, server.monitored, SendSelection(s),
         \/ toServer' = toServer
         \/ toServer # <<>> /\ Head(toServer).type = "request" /\ toServer' = Tail(toServer),
         UNCHANGED <<client, mine, raced, changes, choices>>
  PROVE  Inv'
<1>1. /\ server.rows \in Seq(Item) /\ toClient \in Seq(Messages)
      /\ toServer \in Seq(Messages) /\ Types
      /\ s.selection # None => Has(s.rows, s.selection)
  BY DEF Inv, Types, Servers, Selected
<1>2. toServer' \in Seq(Messages)
  BY <1>1, Dropped
<1>3. CASE \E k \in DOMAIN s.rows : /\ server' = Chosen(s, k)
                                    /\ toClient' = Append(toClient, Select(k))
  <2>1. PICK k \in DOMAIN server.rows : /\ server' = Chosen(s, k)
                                        /\ toClient' = Append(toClient, Select(k))
    BY <1>3
  <2>2. /\ server' \in Servers /\ server'.rows = server.rows /\ server'.monitored
        /\ server'.selection = server.rows[k]
    BY <2>1, ServerChosen
  <2>3. Select(k) \in Messages
    <3>1. k \in Nat /\ "select" \in Type
      BY <1>1 DEF Type
    <3> QED
      BY <3>1, MessageIs DEF Select
  <2>4. Types'
    BY <1>1, <1>2, <2>1, <2>2, <2>3, Appended DEF Types
  <2> QED
    BY <2>1, <2>2, <2>4, ServerSays
<1>4. CASE /\ s.selection = None /\ s.rows = <<>>
           /\ server' = [s EXCEPT !.pending = 0] /\ toClient' = toClient
  <2>1. /\ server' \in Servers /\ server'.rows = server.rows /\ server'.monitored
        /\ server'.selection = None
    BY <1>4 DEF Servers
  <2>2. Types'
    BY <1>1, <1>2, <1>4, <2>1 DEF Types
  <2> QED
    BY <1>4, <2>1, <2>2, ServerSilent
<1> QED
  BY <1>1, <1>3, <1>4, Sends

\* timeout() of the server, which is monitored when the timer runs.
LEMMA ServerTimeoutInv == ASSUME Inv, ServerTimeout PROVE Inv'
<1> PICK s : s = [server EXCEPT !.timer = FALSE]
  OBVIOUS
<1>1. server \in Servers /\ server.monitored
  BY DEF Inv, Types, Monitoring, ServerTimeout
<1>2. /\ s \in Servers /\ s.rows = server.rows /\ s.selection = server.selection
      /\ s.monitored
  BY <1>1 DEF Servers
<1>3. SendSelection(s) /\ UNCHANGED <<client, toServer, changes, choices, raced, mine>>
  BY DEF ServerTimeout
<1> QED
  BY <1>1, <1>2, <1>3, SendSelectionInv

\* newMessage() and modelMonitored() of the server, and the rows that are asked for.
LEMMA ServerReceiveInv == ASSUME Inv, ServerReceive PROVE Inv'
<1> DEFINE m == Head(toServer)
<1>1. /\ server \in Servers /\ server.rows \in Seq(Item) /\ toClient \in Seq(Messages)
      /\ toServer \in Seq(Messages) /\ raced \in BOOLEAN /\ Types
      /\ server.selection \in Choice
  BY DEF Inv, Types, Servers
<1>2. /\ toServer # <<>> /\ toServer' = Tail(toServer)
      /\ UNCHANGED <<client, changes, choices, mine>>
  BY DEF ServerReceive
<1>3. toServer' \in Seq(Messages) /\ m \in Messages /\ m.pos \in Nat
  BY <1>1, <1>2, Dropped DEF Messages
<1>4. CASE /\ m.type = "monitored" /\ server' = [server EXCEPT !.monitored = TRUE]
           /\ UNCHANGED <<toClient, raced>>
  <2>1. server' \in Servers
    BY <1>1, <1>4 DEF Servers
  <2>2. Types'
    BY <1>1, <1>2, <1>3, <1>4, <2>1 DEF Types
  <2> QED
    BY <1>2, <1>4, <2>2, ServerMonitored
<1>5. CASE m.type = "request" /\ SendSelection(server) /\ UNCHANGED raced
  <2>1. server.monitored
    BY <1>5 DEF Inv, Monitoring
  <2> QED
    BY <1>1, <1>2, <1>5, <2>1, SendSelectionInv
<1>6. CASE /\ m.type = "load"
           /\ toClient' = Append(toClient, [Message("rows") EXCEPT !.rows = server.rows])
           /\ UNCHANGED <<server, raced>>
  <2>1. PICK r : r = [Message("rows") EXCEPT !.rows = server.rows]
    OBVIOUS
  <2>2. r \in Messages /\ r.type = "rows" /\ r.rows = server.rows
    BY <1>1, <2>1 DEF Message, Messages, Type
  <2>3. Follows(r, server.rows, server'.rows)
    BY <1>6, <2>2 DEF Follows, Structure
  <2>4. server'.selection = After(r, server.rows, server.selection)
    BY <1>6, <2>2 DEF After, Drops
  <2>5. Types'
    BY <1>1, <1>2, <1>3, <1>6, <2>1, <2>2, Appended DEF Types
  <2> QED
    BY <1>2, <1>6, <2>1, <2>2, <2>3, <2>4, <2>5, ServerTells
<1>7. CASE /\ m.type = "select"
           /\ server' = Applied(server, m.pos, toClient)[1]
           /\ toClient' = Mark(Applied(server, m.pos, toClient)[2])
           /\ raced' = (m.crossed \/ Crossing(toClient))
  <2>1. server' \in Servers
    <3>1. CASE m.pos \in DOMAIN server.rows
      BY <1>1, <1>7, <3>1, ServerChosen DEF Applied
    <3>2. CASE m.pos \notin DOMAIN server.rows
      BY <1>1, <1>3, <1>7, <3>2 DEF Applied, Servers
    <3> QED
      BY <3>1, <3>2
  <2>2. toClient' = Mark(toClient)
    BY <1>7 DEF Applied
  <2>3. raced' \in BOOLEAN
    BY <1>7
  <2>4. Types'
    BY <1>1, <1>2, <1>3, <2>1, <2>2, <2>3, Marked DEF Types
  <2> QED
    BY <1>2, <1>7, <2>4, ServerHears
<1> QED
  BY <1>4, <1>5, <1>6, <1>7 DEF ServerReceive

\* requestSelection().
LEMMA RequestInv == ASSUME Inv, Request PROVE Inv'
<1>1. client \in Clients /\ toServer \in Seq(Messages) /\ Types
  BY DEF Inv, Types
<1>2. /\ client' \in Clients /\ client'.rows = client.rows /\ client'.loaded = client.loaded
      /\ client'.selection = client.selection /\ client'.pending = client.pending
  BY <1>1 DEF Request, Clients
<1>3. toServer' = Append(toServer, Message("request")) /\ Message("request") \in Messages
  BY MessageIs DEF Request, Type
<1>4. UNCHANGED <<server, toClient, changes, choices, raced, mine>>
  BY DEF Request
<1>5. Types'
  BY <1>1, <1>2, <1>3, <1>4, Appended DEF Types
<1> QED
  BY <1>2, <1>3, <1>4, <1>5, ClientAsks

\* rowCount() of the RemoteModel.
LEMMA LoadInv == ASSUME Inv, Load PROVE Inv'
<1>1. client \in Clients /\ toServer \in Seq(Messages) /\ Types
  BY DEF Inv, Types
<1>2. /\ client' \in Clients /\ client'.rows = client.rows /\ client'.loaded = client.loaded
      /\ client'.selection = client.selection /\ client'.pending = client.pending
      /\ client'.request = client.request
  BY <1>1 DEF Load, Clients
<1>3. toServer' = Append(toServer, Message("load")) /\ Message("load") \in Messages
  BY MessageIs DEF Load, Type
<1>4. UNCHANGED <<server, toClient, changes, choices, raced, mine>>
  BY DEF Load
<1>5. Types'
  BY <1>1, <1>2, <1>3, <1>4, Appended DEF Types
<1> QED
  BY <1>2, <1>3, <1>4, <1>5, ClientAsks

\* The client chooses the position k, as it is or with its timer stopped.
LEMMA ClientChooses ==
  ASSUME Inv, NEW c \in Clients, c.rows = client.rows, c.loaded = client.loaded,
         c.request = client.request, NEW k \in DOMAIN client.rows,
         client' = Chosen(c, k), toServer' = Append(toServer, Select(k)),
         UNCHANGED <<server, toClient, changes, raced>>,
         choices' \in Nat, mine' \in BOOLEAN
  PROVE  Inv'
<1>1. /\ toServer \in Seq(Messages) /\ Types /\ client.rows \in Seq(Item)
  BY DEF Inv, Types, Clients
<1>2. client' \in Clients
  BY ClientChosen
<1>3. Select(k) \in Messages
  <2>1. k \in Nat /\ "select" \in Type
    BY <1>1 DEF Type
  <2> QED
    BY <2>1, MessageIs DEF Select
<1>4. Types'
  BY <1>1, <1>2, <1>3, Appended DEF Types
<1> QED
  BY <1>4, ClientSays

\* The user selects something.
LEMMA ClientSelectInv == ASSUME Inv, ClientSelect PROVE Inv'
<1>1. client \in Clients /\ choices \in Nat
  BY DEF Inv, Types
<1>2. PICK k \in DOMAIN client.rows : client' = Chosen(client, k)
                                      /\ toServer' = Append(toServer, Select(k))
  BY DEF ClientSelect
<1>3. UNCHANGED <<server, toClient, changes, raced>> /\ choices' \in Nat /\ mine' \in BOOLEAN
  BY <1>1 DEF ClientSelect
<1> QED
  BY <1>1, <1>2, <1>3, ClientChooses

\* timeout() of the client.
LEMMA ClientTimeoutInv == ASSUME Inv, ClientTimeout PROVE Inv'
<1>1. client \in Clients /\ choices \in Nat /\ mine \in BOOLEAN /\ Types
  BY DEF Inv, Types
<1> PICK c : c = [client EXCEPT !.timer = FALSE]
  OBVIOUS
<1>2. /\ c \in Clients /\ c.rows = client.rows /\ c.loaded = client.loaded
      /\ c.request = client.request /\ c.selection = client.selection
      /\ c.pending = client.pending
  BY <1>1 DEF Clients
<1>3. /\ IF c.pending \in DOMAIN c.rows
         THEN client' = Chosen(c, c.pending) /\ toServer' = Append(toServer, Select(c.pending))
         ELSE client' = c /\ UNCHANGED toServer
      /\ UNCHANGED <<server, toClient, changes, choices, raced, mine>>
  BY DEF ClientTimeout
<1>4. CASE c.pending \in DOMAIN c.rows
  BY <1>1, <1>2, <1>3, <1>4, ClientChooses
<1>5. CASE c.pending \notin DOMAIN c.rows
  <2>1. Types'
    BY <1>1, <1>2, <1>3, <1>5 DEF Types
  <2> QED
    BY <1>2, <1>3, <1>5, <2>1, ClientAsks
<1> QED
  BY <1>4, <1>5

\* newMessage() of the client, and of its RemoteModel.
LEMMA ClientReceiveInv == ASSUME Inv, ClientReceive PROVE Inv'
<1> DEFINE m == Head(toClient)
<1>1. /\ client \in Clients /\ client.rows \in Seq(Item) /\ toClient \in Seq(Messages)
      /\ toServer \in Seq(Messages) /\ raced \in BOOLEAN /\ Types
  BY DEF Inv, Types, Clients
<1>2. /\ toClient # <<>> /\ toClient' = Tail(toClient) /\ UNCHANGED <<server, changes, choices>>
      /\ mine' = (mine /\ m.type \notin {"select", "removed", "reset"})
  BY DEF ClientReceive
<1>3. toClient' \in Seq(Messages) /\ m \in Messages /\ m.pos \in Nat
  BY <1>1, <1>2, Dropped DEF Messages
<1>4. mine' \in BOOLEAN /\ (mine' => mine)
  BY <1>2, Zenon
<1>5. CASE m.type = "select"
  <2>1. /\ client' = Applied(client, m.pos, toServer)[1]
        /\ toServer' = Mark(Applied(client, m.pos, toServer)[2])
        /\ raced' = (m.crossed \/ Crossing(toServer))
    BY <1>5 DEF ClientReceive
  <2>2. client' \in Clients
    <3>1. CASE m.pos \in DOMAIN client.rows
      BY <1>1, <2>1, <3>1, ClientChosen DEF Applied
    <3>2. CASE m.pos \notin DOMAIN client.rows
      BY <1>1, <1>3, <2>1, <3>2 DEF Applied, Clients
    <3> QED
      BY <3>1, <3>2
  <2>3. toServer' = Mark(toServer) /\ raced' \in BOOLEAN
    BY <2>1 DEF Applied
  <2>4. Types'
    BY <1>1, <1>2, <1>3, <1>4, <2>2, <2>3, Marked DEF Types
  <2>5. ~mine'
    BY <1>2, <1>5
  <2> QED
    BY <1>2, <1>5, <2>1, <2>4, <2>5, ClientHears
<1>6. CASE m.type # "select"
  <2>1. /\ client' = RemoteModelChanged(client, m) /\ UNCHANGED raced
        /\ toServer' = IF m.type \in Structure THEN Mark(toServer) ELSE toServer
    BY <1>6 DEF ClientReceive
  <2>2. client' \in Clients
    <3>1. PICK h \in Histories(toClient) : Explained(h)
      BY DEF Inv
    <3>2. /\ h[0] \in Seq(Item) /\ h[1] \in Seq(Item) /\ Follows(m, h[0], h[1])
          /\ client.rows = IF client.loaded THEN h[0] ELSE <<>>
          /\ client.selection # None => Has(client.rows, client.selection)
      BY <1>1, <1>2, <3>1, HistoryPasses DEF Explained, Copy, Inv, Selected
    <3> HIDE DEF m
    <3> QED
      BY <1>1, <1>3, <1>6, <2>1, <3>2, Learns
  <2>3. Types'
    BY <1>1, <1>2, <1>3, <1>4, <2>1, <2>2, Marked DEF Types
  <2> QED
    BY <1>2, <1>4, <1>6, <2>1, <2>3, ClientLearns
<1> QED
  BY <1>5, <1>6

-----------------------------------------------------------------------------
(***************************************************************************)
(* The theorems.                                                           *)
(***************************************************************************)

(* The inductive invariant holds: whatever is under way between the two sides, the   *)
(* last selection in it is what its sender has selected, and without one both have   *)
(* selected the same, will hear of it, or are waiting for a row                      *)
(* (networkselectionmodel.cpp, selectionmodelserver.cpp, selectionmodelclient.cpp).  *)
THEOREM Invariance == FairSpec => []Inv
<1>1. ASSUME Inv, [Next]_vars PROVE Inv'
  <2>1. CASE UNCHANGED vars
    <3>1. UNCHANGED <<server, client, toServer, toClient, changes, choices, raced, mine>>
      BY <2>1 DEF vars
    <3>2. Types'
      BY <1>1, <3>1 DEF Inv, Types
    <3> QED
      BY <1>1, <3>1, <3>2, ClientAsks
  <2>2. CASE InsertRow \/ RemoveRow \/ ResetModel
    BY <1>1, <2>2, InsertRowInv, RemoveRowInv, ResetModelInv
  <2>3. CASE ServerSelect \/ ServerTimeout \/ ServerReceive
    BY <1>1, <2>3, ServerSelectInv, ServerTimeoutInv, ServerReceiveInv
  <2>4. CASE Request \/ Load \/ ClientSelect \/ ClientTimeout \/ ClientReceive
    BY <1>1, <2>4, RequestInv, LoadInv, ClientSelectInv, ClientTimeoutInv, ClientReceiveInv
  <2> QED
    BY <1>1, <2>1, <2>2, <2>3, <2>4 DEF Next
<1> QED
  BY <1>1, InitInv, PTL DEF FairSpec

(* When everything has arrived both sides have selected the same thing, unless the    *)
(* last selection has crossed with another one or with a change of the model that     *)
(* moves its position (select(), sendSelection(), newMessage(), timeout()).           *)
THEOREM AgreeUnlessRacedAlways == FairSpec => []AgreeUnlessRaced
<1>1. Inv => AgreeUnlessRaced
  <2> SUFFICES ASSUME Inv, Quiet, ~raced PROVE client.selection = server.selection
    BY DEF AgreeUnlessRaced
  <2>1. PICK h \in Histories(toClient) : Explained(h)
    BY DEF Inv
  <2>2. ~HasType(toClient, "select") /\ ~HasType(toServer, "select") /\ ~Answering
    BY DEF Quiet, HasType, Answering
  <2>3. Same(h)
    BY <2>1, <2>2 DEF Explained, Agreement
  <2>4. Lasts(h, toClient, 0, client.selection)
    BY DEF Quiet, Lasts
  <2> QED
    BY <2>3, <2>4 DEF Same, Left, Quiet
<1> QED
  BY <1>1, Invariance, PTL

(* What the user has chosen stays until something else arrives or the row goes: a     *)
(* selection that was waiting for its row does not replace it afterwards (select()    *)
(* clears the pending selection that timeout() would apply).                          *)
THEOREM ChoiceKeptAlways == FairSpec => ChoiceKept
<1>1. ASSUME Inv, [Next]_vars
      PROVE  [mine /\ mine' /\ choices' = choices => client.selection' = client.selection]_vars
  <2> SUFFICES ASSUME Next, mine, mine', choices' = choices
               PROVE  client'.selection = client.selection
    BY <1>1
  <2>1. client \in Clients /\ client.rows \in Seq(Item) /\ client.pending = 0 /\ choices \in Nat
    BY <1>1 DEF Inv, Types, Mine, Clients
  <2>2. CASE InsertRow \/ RemoveRow \/ ResetModel \/ ServerSelect \/ ServerTimeout \/ ServerReceive
    BY <2>2 DEF InsertRow, RemoveRow, ResetModel, ServerSelect, ServerTimeout, ServerReceive
  <2>3. CASE Request
    BY <2>1, <2>3 DEF Request, Clients
  <2>4. CASE Load
    BY <2>1, <2>4 DEF Load, Clients
  <2>5. CASE ClientSelect
    BY <2>1, <2>5 DEF ClientSelect
  <2>6. CASE ClientTimeout
    <3> PICK c : c = [client EXCEPT !.timer = FALSE]
      OBVIOUS
    <3>1. c.pending = 0 /\ c.rows = client.rows /\ c.selection = client.selection
      BY <2>1 DEF Clients
    <3>2. c.pending \notin DOMAIN c.rows
      BY <2>1, <3>1
    <3>3. client' = c
      BY <2>6, <3>2 DEF ClientTimeout
    <3> QED
      BY <3>1, <3>3
  <2>7. CASE ClientReceive
    <3> DEFINE m == Head(toClient)
    <3>1. toClient \in Seq(Messages) /\ toClient # <<>>
      BY <1>1, <2>7 DEF Inv, Types, ClientReceive
    <3>2. m.type \notin {"select", "removed", "reset"}
      BY <2>7, Zenon DEF ClientReceive
    <3>3. client' = RemoteModelChanged(client, m)
      BY <2>7, <3>2 DEF ClientReceive
    <3>4. PICK h \in Histories(toClient) : Explained(h)
      BY <1>1 DEF Inv
    <3>5. /\ h[0] \in Seq(Item) /\ h[1] \in Seq(Item) /\ Follows(m, h[0], h[1])
          /\ client.rows = IF client.loaded THEN h[0] ELSE <<>>
          /\ client.selection # None => Has(client.rows, client.selection)
      BY <1>1, <3>1, <3>4, HistoryPasses DEF Explained, Copy, Inv, Selected
    <3>6. m \in Messages /\ m.type # "select"
      BY <3>1, <3>2, Dropped
    <3>7. After(m, h[0], client.selection) = client.selection
      BY <3>2 DEF After, Drops
    <3> HIDE DEF m
    <3> QED
      BY <2>1, <3>3, <3>5, <3>6, <3>7, Learns
  <2> QED
    BY <2>2, <2>3, <2>4, <2>5, <2>6, <2>7 DEF Next
<1> QED
  BY <1>1, Invariance, PTL DEF FairSpec, ChoiceKept

=============================================================================
