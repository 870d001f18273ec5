----------------------------- MODULE SessionProofs -----------------------------
(***************************************************************************)
(* Proofs about Session for every set of names and every bound: names,     *)
(* data versions, what is monitored and the values of properties agree on  *)
(* both sides, whatever is under way between them.                         *)
(***************************************************************************)
EXTENDS Session, SequenceTheorems, TLAPS

-----------------------------------------------------------------------------
(***************************************************************************)
(* The inductive invariant.                                                *)
(***************************************************************************)

Version == {Base, High}

ServerMessage ==
  [type : {"negotiate"}, about : [addr : {None}, version : {High}], enc : Version]
    \cup [type : {"monitored", "unmonitored", "sync"}, about : [addr : Nat], enc : Version]
    \cup [type : {"values"}, about : [addr : Nat, value : Nat], enc : Version]

ClientMessage ==
  [type : {"version", "info"}, about : [addr : {None}], enc : Version]
    \cup [type : {"map"}, about : [addr : {None}, map : [Name -> Nat]], enc : Version]
    \cup [type : {"negotiated"}, about : [addr : {None}, version : {High}], enc : Version]
    \cup [type : {"added", "removed"}, about : [addr : Nat, name : Name], enc : Version]
    \cup [type : {"values"}, about : [addr : Nat, value : Nat], enc : Version]

Wire   == [toServer : Seq(ServerMessage), toClient : Seq(ClientMessage)]
Object == [addr : Nat, value : Nat]

Types ==
  /\ socket \in [Side -> Nat] /\ opened \in 0..MaxConnections
  /\ wire \in [Connection -> Wire] /\ dataVersion \in [Side -> Version]
  /\ address \in [Name -> Nat] /\ nextAddress \in Nat
  /\ value \in [Name -> Nat] /\ enabled \subseteq Nat
  /\ known \in [Name -> Nat] /\ initState \subseteq InitSteps
  /\ object \in [Name -> Object] /\ writes \in Nat /\ raced \in [Name -> BOOLEAN]

\* Connections have been opened, and one that is not accepted has carried nothing.
Link ==
  /\ \A s \in Side : socket[s] # None => socket[s] \in 1..opened
  /\ accepted \subseteq 1..opened /\ closed \subseteq 1..opened
  /\ socket["server"] # None => socket["server"] \in accepted
  /\ \A c \in Connection \ accepted : wire[c].toClient = <<>>
  /\ socket["client"] \notin accepted =>
       /\ \A n \in Name : object[n] = NoObject
       /\ socket["client"] = None \/ initState = {}

\* An address is that of one name for ever: its owner.
Fits(owner, n, a) == a # None => a \in DOMAIN owner /\ owner[a] = n

Tidings(owner) ==
  {m \in ClientMessage :
     /\ m.type = "map" => \A n \in Name : Fits(owner, n, m.about.map[n])
     /\ m.type \in {"added", "removed"} => Fits(owner, m.about.name, m.about.addr)}

OwnedBy(owner) ==
  /\ \A n \in Name : /\ Fits(owner, n, address[n]) /\ Fits(owner, n, known[n])
                     /\ Fits(owner, n, object[n].addr)
  /\ \A c \in Connection : wire[c].toClient \in Seq(Tidings(owner))

Owned == \E owner \in [1..nextAddress -> Name] : OwnedBy(owner)

\* Nothing is written with a payload before both sides have agreed on its version.
AgreedToServer(v) ==
  {m \in ServerMessage : /\ m.type \in {"values", "sync", "monitored"} => v = High
                         /\ m.type \in PayloadVersions => m.enc = High /\ m.about.addr # None}
AgreedToClient(v) ==
  {m \in ClientMessage : /\ m.type \in {"negotiated", "values"} => v = High
                         /\ m.type = "values" => m.enc = High /\ m.about.addr # None}

Versions ==
  /\ \A c \in Connection : /\ wire[c].toServer \in Seq(AgreedToServer(dataVersion["server"]))
                           /\ wire[c].toClient \in Seq(AgreedToClient(dataVersion["server"]))
  /\ dataVersion["client"] = High => dataVersion["server"] = High
  /\ "data" \in initState => dataVersion["client"] = High
  /\ \A n \in Name : object[n].addr # None => dataVersion["client"] = High
  /\ enabled # {} => dataVersion["server"] = High

\* No message of q is in M; one in L is not followed by any in M.
NoneIn(q, M)    == \A i \in DOMAIN q : q[i] \notin M
LastIn(q, M, L) == \E i \in DOMAIN q : q[i] \in L /\ \A j \in DOMAIN q : i < j => q[j] \notin M

Telling(n)           == {m \in ClientMessage : Tells(m, n)}
TellingThat(n, a)    == {m \in Telling(n) : AddressIn(m, n) = a}
Requests(a, types)   == {m \in ServerMessage : IsType(m, a, types)}
Written(a, v)        == {m \in Requests(a, {"values"}) : m.about.value = v}
Reports(a)           == {m \in ClientMessage : IsType(m, a, {"values"})}
Reported(a, v)       == {m \in Reports(a) : m.about.value = v}
Monitoring(a)        == Requests(a, {"monitored", "unmonitored"})

\* The address k known for n and what is under way in q tell the address a.
NameTold(q, n, k, a) ==
  \/ NoneIn(q, Telling(n)) /\ k = a
  \/ LastIn(q, Telling(n), TellingThat(n, a))

\* Address a is among the enabled ones E, or will be when q has been read.
IsMonitored(q, a, E) ==
  \/ NoneIn(q, Monitoring(a)) /\ a \in E
  \/ LastIn(q, Monitoring(a), Requests(a, {"monitored"}))

\* The value v of the client and the value w of the server become the same when what is
\* under way to the server in q and to the client in r has been read: the initial value
\* is still to be asked for; a write of the client is the last word; or what the server
\* has reported last is its value.
Settles(q, r, a, v, w) ==
  \/ LastIn(q, Requests(a, {"values"}), Requests(a, {"sync"}))
  \/ /\ NoneIn(q, Requests(a, {"sync"})) /\ NoneIn(r, Reports(a))
     /\ LastIn(q, Requests(a, {"values"}), Written(a, v))
  \/ /\ NoneIn(q, Requests(a, {"sync"})) /\ NoneIn(q, Requests(a, {"values"}))
     /\ (NoneIn(r, Reports(a)) /\ v = w) \/ LastIn(r, Reports(a), Reported(a, w))

\* The queues of the client's connection.
Up   == wire[socket["client"]].toServer
Down == wire[socket["client"]].toClient

Names ==
  Together /\ compatible => \A n \in Name : NameTold(Down, n, known[n], address[n])

Monitors ==
  Together => \A n \in Name : object[n].addr # None /\ object[n].addr = address[n] =>
    IsMonitored(Up, object[n].addr, enabled)

Settled ==
  Together => \A n \in Name :
    object[n].addr # None /\ object[n].addr = address[n] /\ ~raced[n] =>
      Settles(Up, Down, object[n].addr, object[n].value, value[n])

Inv == Types /\ Link /\ Owned /\ Versions /\ Names /\ Monitors /\ Settled

-----------------------------------------------------------------------------
(***************************************************************************)
(* Queues.                                                                 *)
(***************************************************************************)

LEMMA AppendOne ==
  ASSUME NEW S, NEW q \in Seq(S), NEW e \in S
  PROVE  /\ Append(q, e) \in Seq(S) /\ q \o <<e>> = Append(q, e)
         /\ \A M : NoneIn(Append(q, e), M) <=> NoneIn(q, M) /\ e \notin M
         /\ \A M, L : e \in L => LastIn(Append(q, e), M, L)
         /\ \A M, L : LastIn(q, M, L) /\ e \notin M => LastIn(Append(q, e), M, L)
<1> DEFINE r == Append(q, e)
<1>1. /\ r \in Seq(S) /\ q \o <<e>> = r
      /\ DOMAIN q = 1..Len(q) /\ Len(q) \in Nat /\ DOMAIN r = 1..(Len(q) + 1)
      /\ r[Len(q) + 1] = e /\ \A i \in DOMAIN q : r[i] = q[i]
  OBVIOUS
<1> HIDE DEF r
<1>2. /\ DOMAIN r = DOMAIN q \cup {Len(q) + 1}
      /\ \A i \in DOMAIN q : ~(Len(q) + 1 < i) /\ i < Len(q) + 1
      /\ ~(Len(q) + 1 < Len(q) + 1)
  BY <1>1
<1>3. \A M : NoneIn(r, M) <=> NoneIn(q, M) /\ e \notin M
  BY <1>1, <1>2 DEF NoneIn
<1>4. \A M, L : e \in L => LastIn(r, M, L)
  BY <1>1, <1>2 DEF LastIn
<1>5. \A M, L : LastIn(q, M, L) /\ e \notin M => LastIn(r, M, L)
  BY <1>1, <1>2 DEF LastIn
<1> QED
  BY <1>1, <1>3, <1>4, <1>5 DEF r

LEMMA TailOne ==
  ASSUME NEW S, NEW q \in Seq(S), q # <<>>
  PROVE  /\ Tail(q) \in Seq(S) /\ Head(q) \in S
         /\ \A M : NoneIn(q, M) <=> NoneIn(Tail(q), M) /\ Head(q) \notin M
         /\ \A M, L : LastIn(q, M, L) =>
              LastIn(Tail(q), M, L) \/ (Head(q) \in L /\ NoneIn(Tail(q), M))
<1> DEFINE t == Tail(q)
<1>1. /\ t \in Seq(S) /\ Head(q) \in S /\ Head(q) = q[1] /\ 1 \in DOMAIN q
      /\ \A i \in DOMAIN t : i + 1 \in DOMAIN q /\ t[i] = q[i + 1] /\ i \in Nat /\ i # 0
      /\ \A i \in DOMAIN q : i \in Nat /\ (i = 1 \/ (i - 1 \in DOMAIN t /\ t[i - 1] = q[i]))
  OBVIOUS
<1> HIDE DEF t
<1>2. \A M : NoneIn(q, M) <=> NoneIn(t, M) /\ Head(q) \notin M
  BY <1>1 DEF NoneIn
<1>3. ASSUME NEW M, NEW L, LastIn(q, M, L)
      PROVE  LastIn(t, M, L) \/ (Head(q) \in L /\ NoneIn(t, M))
  <2>1. PICK i \in DOMAIN q : q[i] \in L /\ \A j \in DOMAIN q : i < j => q[j] \notin M
    BY <1>3 DEF LastIn
  <2>2. CASE i = 1
    <3>1. \A j \in DOMAIN t : 1 < j + 1
      BY <1>1
    <3> QED
      BY <1>1, <2>1, <2>2, <3>1 DEF NoneIn
  <2>3. CASE i # 1
    <3>1. i - 1 \in DOMAIN t /\ t[i - 1] \in L
      BY <1>1, <2>1, <2>3
    <3>2. \A j \in DOMAIN t : i - 1 < j => i < j + 1
      <4>1. i \in Nat /\ \A j \in DOMAIN t : j \in Nat
        BY <1>1
      <4> QED
        BY <4>1
    <3>3. \A j \in DOMAIN t : i - 1 < j => t[j] \notin M
      BY <1>1, <2>1, <3>2
    <3> QED
      BY <3>1, <3>3 DEF LastIn
  <2> QED
    BY <2>2, <2>3
<1> QED
  BY <1>1, <1>2, <1>3 DEF t

LEMMA EmptyOne ==
  /\ \A S : <<>> \in Seq(S)
  /\ \A M : NoneIn(<<>>, M)
  BY DEF NoneIn

LEMMA AppendTwo ==
  ASSUME NEW S, NEW q \in Seq(S), NEW e \in S, NEW f \in S
  PROVE  q \o <<e, f>> = Append(Append(q, e), f)
  OBVIOUS

LEMMA SeqSubset ==
  ASSUME NEW S, NEW T, S \subseteq T, NEW q \in Seq(S)
  PROVE  q \in Seq(T)
  OBVIOUS

\* One queue of one connection is another one.
WithDown(w, c, q) == [w EXCEPT ![c].toClient = q]
WithUp(w, c, q)   == [w EXCEPT ![c].toServer = q]

LEMMA PutToClient ==
  ASSUME NEW w \in [Connection -> Wire], NEW c \in Connection, NEW q \in Seq(ClientMessage)
  PROVE  LET u == WithDown(w, c, q) IN
         /\ u \in [Connection -> Wire]
         /\ \A d \in Connection : u[d].toServer = w[d].toServer
         /\ u[c].toClient = q
         /\ \A d \in Connection : d # c => u[d].toClient = w[d].toClient
<1> DEFINE x == [w[c] EXCEPT !.toClient = q]
           u == [w EXCEPT ![c] = x]
<1>1. x \in Wire /\ x.toServer = w[c].toServer /\ x.toClient = q
  BY DEF Wire
<1> HIDE DEF x
<1>2. u \in [Connection -> Wire] /\ u[c] = x /\ \A d \in Connection : d # c => u[d] = w[d]
  BY <1>1
<1>3. WithDown(w, c, q) = u
  BY DEF x, WithDown
<1> QED
  BY <1>1, <1>2, <1>3

LEMMA PutToServer ==
  ASSUME NEW w \in [Connection -> Wire], NEW c \in Connection, NEW q \in Seq(ServerMessage)
  PROVE  LET u == WithUp(w, c, q) IN
         /\ u \in [Connection -> Wire]
         /\ \A d \in Connection : u[d].toClient = w[d].toClient
         /\ u[c].toServer = q
         /\ \A d \in Connection : d # c => u[d].toServer = w[d].toServer
<1> DEFINE x == [w[c] EXCEPT !.toServer = q]
           u == [w EXCEPT ![c] = x]
<1>1. x \in Wire /\ x.toClient = w[c].toClient /\ x.toServer = q
  BY DEF Wire
<1> HIDE DEF x
<1>2. u \in [Connection -> Wire] /\ u[c] = x /\ \A d \in Connection : d # c => u[d] = w[d]
  BY <1>1
<1>3. WithUp(w, c, q) = u
  BY DEF x, WithUp
<1> QED
  BY <1>1, <1>2, <1>3

\* What does not speak of n, of an address or of its value changes nothing that is told.
LEMMA NameKept ==
  ASSUME NEW q \in Seq(ClientMessage), NEW e \in ClientMessage, NEW n, NEW k, NEW a
  PROVE  /\ NameTold(q, n, k, a) /\ e \notin Telling(n) => NameTold(Append(q, e), n, k, a)
         /\ e \in TellingThat(n, a) => NameTold(Append(q, e), n, k, a)
<1>1. /\ \A M : NoneIn(Append(q, e), M) <=> NoneIn(q, M) /\ e \notin M
      /\ \A M, L : e \in L => LastIn(Append(q, e), M, L)
      /\ \A M, L : LastIn(q, M, L) /\ e \notin M => LastIn(Append(q, e), M, L)
  BY AppendOne
<1> QED
  BY <1>1 DEF NameTold

LEMMA MonitorKept ==
  ASSUME NEW q \in Seq(ServerMessage), NEW e \in ServerMessage, NEW a, NEW E
  PROVE  /\ IsMonitored(q, a, E) /\ e \notin Monitoring(a) => IsMonitored(Append(q, e), a, E)
         /\ e \in Requests(a, {"monitored"}) => IsMonitored(Append(q, e), a, E)
<1>1. /\ \A M : NoneIn(Append(q, e), M) <=> NoneIn(q, M) /\ e \notin M
      /\ \A M, L : e \in L => LastIn(Append(q, e), M, L)
      /\ \A M, L : LastIn(q, M, L) /\ e \notin M => LastIn(Append(q, e), M, L)
  BY AppendOne
<1> QED
  BY <1>1 DEF IsMonitored

LEMMA SettlesUp ==
  ASSUME NEW q \in Seq(ServerMessage), NEW r, NEW e \in ServerMessage,
         NEW a, NEW v, NEW w, Settles(q, r, a, v, w),
         e \notin Requests(a, {"sync"}), e \notin Requests(a, {"values"})
  PROVE  Settles(Append(q, e), r, a, v, w)
<1>1. /\ \A M : NoneIn(Append(q, e), M) <=> NoneIn(q, M) /\ e \notin M
      /\ \A M, L : LastIn(q, M, L) /\ e \notin M => LastIn(Append(q, e), M, L)
  BY AppendOne
<1> QED
  BY <1>1 DEF Settles

LEMMA SettlesDown ==
  ASSUME NEW q, NEW r \in Seq(ClientMessage), NEW e \in ClientMessage,
         NEW a, NEW v, NEW w, Settles(q, r, a, v, w), e \notin Reports(a)
  PROVE  Settles(q, Append(r, e), a, v, w)
<1>1. /\ \A M : NoneIn(Append(r, e), M) <=> NoneIn(r, M) /\ e \notin M
      /\ \A M, L : LastIn(r, M, L) /\ e \notin M => LastIn(Append(r, e), M, L)
  BY AppendOne
<1> QED
  BY <1>1 DEF Settles

-----------------------------------------------------------------------------
(***************************************************************************)
(* Sending.                                                                *)
(***************************************************************************)

LEMMA Sides == "server" \in Side /\ "client" \in Side
  BY DEF Side

LEMMA BoundTyped == MaxConnections \in Nat
  BY SessionAssumption

LEMMA SocketOpen ==
  ASSUME Types, Link, NEW s \in Side, socket[s] # None
  PROVE  socket[s] \in Connection /\ socket[s] \in 1..opened
<1>1. socket[s] \in 1..opened /\ opened \in 0..MaxConnections /\ MaxConnections \in Nat
  BY BoundTyped DEF Types, Link
<1>2. 1..opened \subseteq 1..MaxConnections
  BY <1>1
<1> QED
  BY <1>1, <1>2 DEF Connection

LEMMA SendToClient ==
  ASSUME Types, Link, NEW e \in ClientMessage, wire' = FromServer(<<e>>)
  PROVE  /\ wire' \in [Connection -> Wire]
         /\ \A c \in Connection : wire'[c].toServer = wire[c].toServer
         /\ \A c \in Connection :
              \/ wire'[c].toClient = wire[c].toClient
              \/ c \in accepted /\ wire'[c].toClient = Append(wire[c].toClient, e)
         /\ socket["server"] \notin closed \cup {None} =>
              wire'[socket["server"]].toClient
                = Append(wire[socket["server"]].toClient, e)
<1>1. CASE socket["server"] \in closed \cup {None}
  BY <1>1 DEF FromServer, Types
<1>2. CASE socket["server"] \notin closed \cup {None}
  <2>1. PICK c \in Connection : c = socket["server"] /\ c \in accepted
    BY <1>2, SocketOpen, Sides DEF Link
  <2>2. PICK q : q = wire[c].toClient
    OBVIOUS
  <2>3. wire \in [Connection -> Wire] /\ q \in Seq(ClientMessage)
    BY <2>2 DEF Types, Wire
  <2>4. PICK r \in Seq(ClientMessage) : r = Append(q, e) /\ r = q \o <<e>>
    BY <2>3, AppendOne
  <2>5. wire' = WithDown(wire, c, r)
    BY <1>2, <2>1, <2>2, <2>4 DEF FromServer, WithDown
  <2>6. LET u == WithDown(wire, c, r) IN
        /\ u \in [Connection -> Wire]
        /\ \A d \in Connection : u[d].toServer = wire[d].toServer
        /\ u[c].toClient = r
        /\ \A d \in Connection : d # c => u[d].toClient = wire[d].toClient
    BY <2>3, PutToClient
  <2> QED
    BY <2>1, <2>2, <2>4, <2>5, <2>6
<1> QED
  BY <1>1, <1>2

LEMMA SendToServer ==
  ASSUME Types, Link, NEW e \in ServerMessage, wire' = FromClient(<<e>>)
  PROVE  /\ wire' \in [Connection -> Wire]
         /\ \A c \in Connection : wire'[c].toClient = wire[c].toClient
         /\ \A c \in Connection :
              \/ wire'[c].toServer = wire[c].toServer
              \/ wire'[c].toServer = Append(wire[c].toServer, e)
         /\ socket["client"] \notin closed \cup {None} =>
              wire'[socket["client"]].toServer
                = Append(wire[socket["client"]].toServer, e)
<1>1. CASE socket["client"] \in closed \cup {None}
  BY <1>1 DEF FromClient, Types
<1>2. CASE socket["client"] \notin closed \cup {None}
  <2>1. PICK c \in Connection : c = socket["client"]
    BY <1>2, SocketOpen, Sides
  <2>2. PICK q : q = wire[c].toServer
    OBVIOUS
  <2>3. wire \in [Connection -> Wire] /\ q \in Seq(ServerMessage)
    BY <2>2 DEF Types, Wire
  <2>4. PICK r \in Seq(ServerMessage) : r = Append(q, e) /\ r = q \o <<e>>
    BY <2>3, AppendOne
  <2>5. wire' = WithUp(wire, c, r)
    BY <1>2, <2>1, <2>2, <2>4 DEF FromClient, WithUp
  <2>6. LET u == WithUp(wire, c, r) IN
        /\ u \in [Connection -> Wire]
        /\ \A d \in Connection : u[d].toClient = wire[d].toClient
        /\ u[c].toServer = r
        /\ \A d \in Connection : d # c => u[d].toServer = wire[d].toServer
    BY <2>3, PutToServer
  <2> QED
    BY <2>1, <2>2, <2>4, <2>5, <2>6
<1> QED
  BY <1>1, <1>2

LEMMA SendTwoToServer ==
  ASSUME Types, Link, NEW e \in ServerMessage, NEW f \in ServerMessage,
         wire' = FromClient(<<e, f>>)
  PROVE  /\ wire' \in [Connection -> Wire]
         /\ \A c \in Connection : wire'[c].toClient = wire[c].toClient
         /\ \A c \in Connection :
              \/ wire'[c].toServer = wire[c].toServer
              \/ wire'[c].toServer = Append(Append(wire[c].toServer, e), f)
         /\ socket["client"] \notin closed \cup {None} =>
              wire'[socket["client"]].toServer
                = Append(Append(wire[socket["client"]].toServer, e), f)
<1>1. CASE socket["client"] \in closed \cup {None}
  BY <1>1 DEF FromClient, Types
<1>2. CASE socket["client"] \notin closed \cup {None}
  <2>1. PICK c \in Connection : c = socket["client"]
    BY <1>2, SocketOpen, Sides
  <2>2. PICK q : q = wire[c].toServer
    OBVIOUS
  <2>3. wire \in [Connection -> Wire] /\ q \in Seq(ServerMessage)
    BY <2>2 DEF Types, Wire
  <2>4. PICK r \in Seq(ServerMessage) : r = Append(Append(q, e), f) /\ r = q \o <<e, f>>
    <3>1. Append(Append(q, e), f) \in Seq(ServerMessage)
      BY <2>3
    <3>2. q \o <<e, f>> = Append(Append(q, e), f)
      BY <2>3, AppendTwo
    <3> QED
      BY <3>1, <3>2
  <2>5. wire' = WithUp(wire, c, r)
    BY <1>2, <2>1, <2>2, <2>4 DEF FromClient, WithUp
  <2>6. LET u == WithUp(wire, c, r) IN
        /\ u \in [Connection -> Wire]
        /\ \A d \in Connection : u[d].toClient = wire[d].toClient
        /\ u[c].toServer = r
        /\ \A d \in Connection : d # c => u[d].toServer = wire[d].toServer
    BY <2>3, PutToServer
  <2> QED
    BY <2>1, <2>2, <2>4, <2>5, <2>6
<1> QED
  BY <1>1, <1>2

LEMMA SentKeeps ==
  ASSUME NEW T, NEW q \in Seq(T), NEW e \in T, NEW r, r = q \/ r = Append(q, e)
  PROVE  r \in Seq(T)
  BY AppendOne

\* The types of the messages, as they are sent.
LEMMA MessagesTyped ==
  ASSUME Types, NEW a \in Nat, NEW v \in Nat, NEW n \in Name
  PROVE  /\ Encoded("server", "added", [addr |-> a, name |-> n]) \in ClientMessage
         /\ Encoded("server", "removed", [addr |-> a, name |-> n]) \in ClientMessage
         /\ Encoded("server", "values", [addr |-> a, value |-> v]) \in ClientMessage
         /\ Encoded("server", "map", [addr |-> None, map |-> address]) \in ClientMessage
         /\ Encoded("server", "version", [addr |-> None]) \in ClientMessage
         /\ Encoded("server", "info", [addr |-> None]) \in ClientMessage
         /\ Encoded("client", "values", [addr |-> a, value |-> v]) \in ServerMessage
         /\ Encoded("client", "sync", [addr |-> a]) \in ServerMessage
         /\ Encoded("client", "monitored", [addr |-> a]) \in ServerMessage
         /\ Encoded("client", "unmonitored", [addr |-> a]) \in ServerMessage
         /\ Encoded("client", "negotiate", [addr |-> None, version |-> High]) \in ServerMessage
<1>1. dataVersion["server"] \in Version /\ dataVersion["client"] \in Version
  BY Sides DEF Types
<1>2. address \in [Name -> Nat]
  BY DEF Types
<1>3. /\ Encoded("server", "added", [addr |-> a, name |-> n]) \in ClientMessage
      /\ Encoded("server", "removed", [addr |-> a, name |-> n]) \in ClientMessage
  BY <1>1 DEF Encoded, ClientMessage
<1>4. Encoded("server", "values", [addr |-> a, value |-> v]) \in ClientMessage
  BY <1>1 DEF Encoded, ClientMessage
<1>5. Encoded("server", "map", [addr |-> None, map |-> address]) \in ClientMessage
  BY <1>1, <1>2 DEF Encoded, ClientMessage
<1>6. /\ Encoded("server", "version", [addr |-> None]) \in ClientMessage
      /\ Encoded("server", "info", [addr |-> None]) \in ClientMessage
  BY <1>1 DEF Encoded, ClientMessage
<1>7. Encoded("client", "values", [addr |-> a, value |-> v]) \in ServerMessage
  BY <1>1 DEF Encoded, ServerMessage
<1>8. /\ Encoded("client", "sync", [addr |-> a]) \in ServerMessage
      /\ Encoded("client", "monitored", [addr |-> a]) \in ServerMessage
      /\ Encoded("client", "unmonitored", [addr |-> a]) \in ServerMessage
  BY <1>1 DEF Encoded, ServerMessage
<1>9. Encoded("client", "negotiate", [addr |-> None, version |-> High]) \in ServerMessage
  BY <1>1 DEF Encoded, ServerMessage
<1> QED
  BY <1>3, <1>4, <1>5, <1>6, <1>7, <1>8, <1>9

\* The fields a message of either kind has, whatever its type.
LEMMA FieldsTyped ==
  /\ \A m \in ServerMessage :
       /\ m.type \in {"negotiate", "monitored", "unmonitored", "sync", "values"}
       /\ m.about.addr \in Nat /\ m.enc \in Version
       /\ m.type = "negotiate" => m.about.version = High
       /\ m.type = "values" => m.about.value \in Nat
  /\ \A m \in ClientMessage :
       /\ m.type \in {"version", "info", "map", "negotiated", "added", "removed", "values"}
       /\ m.about.addr \in Nat /\ m.enc \in Version
       /\ m.type = "negotiated" => m.about.version = High
       /\ m.type = "map" => m.about.map \in [Name -> Nat]
       /\ m.type \in {"added", "removed"} => m.about.name \in Name
       /\ m.type = "values" => m.about.value \in Nat
  BY DEF ServerMessage, ClientMessage, None

-----------------------------------------------------------------------------
(***************************************************************************)
(* The parts of the invariant that most steps leave alone.                 *)
(***************************************************************************)

LEMMA QueuesTyped ==
  ASSUME Types, NEW c \in Connection
  PROVE  /\ wire \in [Connection -> Wire]
         /\ wire[c].toServer \in Seq(ServerMessage) /\ wire[c].toClient \in Seq(ClientMessage)
  BY DEF Types, Wire

LEMMA LinkKept ==
  ASSUME Link, UNCHANGED linkVars,
         \A c \in Connection : wire'[c].toClient = wire[c].toClient \/ c \in accepted,
         socket["client"] \in accepted \/ UNCHANGED <<object, initState>>
  PROVE  Link'
  BY DEF Link, linkVars

LEMMA TogetherLinked ==
  ASSUME Types, Link, Together
  PROVE  /\ socket["client"] \in Connection /\ socket["server"] = socket["client"]
         /\ socket["client"] \in accepted
         /\ socket["client"] \notin closed \cup {None}
<1>1. socket["client"] # None /\ socket["server"] = socket["client"]
      /\ socket["client"] \notin closed
  BY DEF Together
<1> QED
  BY <1>1, SocketOpen, Sides DEF Link

\* One owner, who is the same before and after.
LEMMA OwnerUnique ==
  ASSUME Inv, NEW m \in Name, NEW n \in Name, address[m] # None,
         address[m] = object[n].addr \/ address[m] = address[n] \/ address[m] = known[n]
  PROVE  m = n
<1>1. PICK owner \in [1..nextAddress -> Name] : OwnedBy(owner)
  BY DEF Inv, Owned
<1> QED
  BY <1>1 DEF OwnedBy, Fits

LEMMA OwnedKept ==
  ASSUME NEW owner \in [1..nextAddress -> Name], OwnedBy(owner), nextAddress' = nextAddress,
         \A n \in Name : /\ Fits(owner, n, address'[n]) /\ Fits(owner, n, known'[n])
                         /\ Fits(owner, n, object'[n].addr),
         \A c \in Connection : wire'[c].toClient \in Seq(Tidings(owner))
  PROVE  Owned'
  BY DEF Owned, OwnedBy

\* With the same two ends, what is together stays so, and on the same connection.
LEMMA SameEnds ==
  ASSUME UNCHANGED linkVars
  PROVE  /\ Together' = Together /\ compatible' = compatible
         /\ Up' = wire'[socket["client"]].toServer /\ Down' = wire'[socket["client"]].toClient
  BY DEF linkVars, Together, Up, Down

\* A message to the client keeps the types, the link and the versions.
LEMMA ServerSends ==
  ASSUME Inv, NEW e \in ClientMessage, wire' = FromServer(<<e>>),
         e.type \in {"added", "removed"}
           \/ (e.type = "values" /\ e.about.addr # None
                 /\ e.enc = dataVersion["server"] /\ enabled # {}),
         UNCHANGED <<clientVars, linkVars, dataVersion>>, enabled' \subseteq enabled
  PROVE  /\ wire' \in [Connection -> Wire] /\ Link' /\ Versions'
         /\ Together => Up' = Up /\ Down' = Append(Down, e)
<1>a. Types /\ Link /\ Versions
  BY DEF Inv
<1>1. /\ wire' \in [Connection -> Wire]
      /\ \A c \in Connection : wire'[c].toServer = wire[c].toServer
      /\ \A c \in Connection :
           \/ wire'[c].toClient = wire[c].toClient
           \/ c \in accepted /\ wire'[c].toClient = Append(wire[c].toClient, e)
      /\ socket["server"] \notin closed \cup {None} =>
           wire'[socket["server"]].toClient = Append(wire[socket["server"]].toClient, e)
  BY <1>a, SendToClient
<1>2. Link'
  BY <1>a, <1>1, LinkKept DEF clientVars
<1>3. Versions'
  <2>1. e \in AgreedToClient(dataVersion["server"])
    BY <1>a DEF AgreedToClient, Versions
  <2>2. \A c \in Connection : wire'[c].toClient \in Seq(AgreedToClient(dataVersion["server"]))
    <3> TAKE c \in Connection
    <3>1. wire[c].toClient \in Seq(AgreedToClient(dataVersion["server"]))
      BY <1>a DEF Versions
    <3> QED
      BY <1>1, <2>1, <3>1, SentKeeps
  <2> QED
    BY <1>a, <1>1, <2>2 DEF Versions, clientVars
<1>4. Together => Up' = Up /\ Down' = Append(Down, e)
  <2> SUFFICES ASSUME Together PROVE Up' = Up /\ Down' = Append(Down, e)
    OBVIOUS
  <2>1. /\ socket["client"] \in Connection /\ socket["server"] = socket["client"]
        /\ socket["client"] \notin closed \cup {None}
    BY <1>a, TogetherLinked
  <2>2. Up' = wire'[socket["client"]].toServer /\ Down' = wire'[socket["client"]].toClient
    BY SameEnds
  <2> QED
    BY <1>1, <2>1, <2>2 DEF Up, Down
<1> QED
  BY <1>1, <1>2, <1>3, <1>4

LEMMA RegisterObjectInv ==
  ASSUME Inv, RegisterObject
  PROVE  Inv'
<1>a. Types /\ Link /\ Owned /\ Versions /\ Names /\ Monitors /\ Settled
  BY DEF Inv
<1>1. PICK n \in Name :
        /\ address[n] = None
        /\ nextAddress' = nextAddress + 1
        /\ address' = [address EXCEPT ![n] = nextAddress + 1]
        /\ value' = [value EXCEPT ![n] = 0]
        /\ wire' = FromServer(<<Encoded("server", "added", [addr |-> nextAddress + 1, name |-> n])>>)
        /\ UNCHANGED <<enabled, clientVars, linkVars, dataVersion, writes, raced>>
  BY DEF RegisterObject
<1>2. PICK b \in Nat : b = nextAddress + 1 /\ b # None /\ b \notin 1..nextAddress
                       /\ 1..b = (1..nextAddress) \cup {b}
  BY <1>a DEF Types, None
<1>3. PICK e \in ClientMessage : e = Encoded("server", "added", [addr |-> b, name |-> n])
  BY <1>a, MessagesTyped
<1>4. e.type = "added" /\ e.about.addr = b /\ e.about.name = n
  BY <1>3 DEF Encoded
<1>5. /\ wire' \in [Connection -> Wire] /\ Link' /\ Versions'
      /\ Together => Up' = Up /\ Down' = Append(Down, e)
  BY <1>1, <1>2, <1>3, <1>4, ServerSends
<1>6. Types'
  <2>1. address' \in [Name -> Nat] /\ nextAddress' \in Nat /\ value' \in [Name -> Nat]
    BY <1>a, <1>1, <1>2 DEF Types
  <2> QED
    BY <1>a, <1>1, <1>5, <2>1 DEF Types, linkVars, clientVars
<1>7. \A m \in Name : address'[m] = IF m = n THEN b ELSE address[m]
  BY <1>a, <1>1, <1>2 DEF Types
<1>8. PICK owner \in [1..nextAddress -> Name] : OwnedBy(owner)
  BY <1>a DEF Owned
<1>9. Owned'
  <2> DEFINE next == [x \in 1..b |-> IF x = b THEN n ELSE owner[x]]
  <2>1. next \in [1..b -> Name] /\ DOMAIN next = 1..b /\ next[b] = n
        /\ \A x \in 1..nextAddress : x \in 1..b /\ next[x] = owner[x]
    BY <1>2
  <2>2. PICK new \in [1..b -> Name] : /\ DOMAIN new = 1..b /\ new[b] = n
                                      /\ \A x \in 1..nextAddress : x \in 1..b /\ new[x] = owner[x]
    BY <2>1
  <2>3. \A m, x : Fits(owner, m, x) => Fits(new, m, x)
    BY <2>2 DEF Fits
  <2>4. Fits(new, n, b)
    BY <1>2, <2>2 DEF Fits
  <2>5. \A m \in Name : /\ Fits(new, m, address'[m]) /\ Fits(new, m, known'[m])
                        /\ Fits(new, m, object'[m].addr)
    BY <1>1, <1>7, <1>8, <2>3, <2>4 DEF OwnedBy, clientVars
  <2>6. Tidings(owner) \subseteq Tidings(new) /\ e \in Tidings(new)
    BY <1>4, <2>3, <2>4 DEF Tidings
  <2>7. \A c \in Connection : wire'[c].toClient \in Seq(Tidings(new))
    <3>1. wire' = FromServer(<<e>>)
      BY <1>1, <1>2, <1>3
    <3>2. ASSUME NEW c \in Connection
          PROVE  wire'[c].toClient = wire[c].toClient
                   \/ wire'[c].toClient = Append(wire[c].toClient, e)
      BY <1>a, <3>1, SendToClient
    <3> TAKE c \in Connection
    <3>3. wire[c].toClient \in Seq(Tidings(new))
      BY <1>8, <2>6, SeqSubset DEF OwnedBy
    <3> QED
      BY <2>6, <3>2, <3>3, SentKeeps
  <2>8. \E new1 \in [1..nextAddress' -> Name] :
          /\ \A m \in Name : /\ Fits(new1, m, address'[m]) /\ Fits(new1, m, known'[m])
                             /\ Fits(new1, m, object'[m].addr)
          /\ \A c \in Connection : wire'[c].toClient \in Seq(Tidings(new1))
    BY <1>1, <1>2, <2>5, <2>7
  <2> QED
    BY <2>8 DEF Owned, OwnedBy
<1>10. \A m \in Name : object[m].addr # b
  BY <1>2, <1>8 DEF OwnedBy, Fits
<1>11. Together' = Together /\ compatible' = compatible /\ known' = known /\ object' = object
       /\ raced' = raced /\ enabled' = enabled
  BY <1>1, SameEnds DEF clientVars
<1>12. Names'
  <2> SUFFICES ASSUME Together, compatible, NEW m \in Name
               PROVE  NameTold(Down', m, known[m], address'[m])
    BY <1>11 DEF Names
  <2>1. Down \in Seq(ClientMessage)
    BY <1>a, TogetherLinked, QueuesTyped DEF Down
  <2>2. NameTold(Down, m, known[m], address[m])
    BY <1>a DEF Names
  <2>3. CASE m = n
    <3>1. address'[m] = b /\ e \in TellingThat(m, b)
      BY <1>4, <1>7, <2>3 DEF TellingThat, Telling, Tells, AddressIn
    <3>2. NameTold(Append(Down, e), m, known[m], b)
      BY <2>1, <3>1, NameKept
    <3>3. Down' = Append(Down, e)
      BY <1>5
    <3> QED
      BY <3>1, <3>2, <3>3
  <2>4. CASE m # n
    <3>1. e \notin Telling(m)
      BY <1>4, <2>4 DEF Telling, Tells
    <3>2. address'[m] = address[m]
      BY <1>7, <2>4
    <3>3. NameTold(Append(Down, e), m, known[m], address[m])
      BY <2>1, <2>2, <3>1, NameKept
    <3>4. Down' = Append(Down, e)
      BY <1>5
    <3> QED
      BY <3>2, <3>3, <3>4
  <2> QED
    BY <2>3, <2>4
<1>13. \A m \in Name : object[m].addr = address'[m] => object[m].addr = address[m] /\ value'[m] = value[m]
  BY <1>a, <1>1, <1>7, <1>10 DEF Types
<1>14. Monitors'
  BY <1>a, <1>5, <1>11, <1>13 DEF Monitors
<1>15. Settled'
  <2> SUFFICES ASSUME Together, NEW m \in Name, object[m].addr # None,
                      object[m].addr = address'[m], ~raced[m]
               PROVE  Settles(Up', Down', object[m].addr, object[m].value, value'[m])
    BY <1>11 DEF Settled
  <2>1. Settles(Up, Down, object[m].addr, object[m].value, value[m])
    BY <1>a, <1>13 DEF Settled
  <2>2. e \notin Reports(object[m].addr) /\ Down \in Seq(ClientMessage)
    BY <1>a, <1>4, TogetherLinked, QueuesTyped DEF Reports, IsType, Down
  <2> QED
    BY <1>5, <1>13, <2>1, <2>2, SettlesDown
<1> QED
  BY <1>5, <1>6, <1>9, <1>12, <1>14, <1>15 DEF Inv

LEMMA ObjectDestroyedInv ==
  ASSUME Inv, ObjectDestroyed
  PROVE  Inv'
<1>a. Types /\ Link /\ Owned /\ Versions /\ Names /\ Monitors /\ Settled
  BY DEF Inv
<1>1. PICK n \in Name :
        /\ address[n] # None
        /\ address' = [address EXCEPT ![n] = None]
        /\ enabled' = enabled \ {address[n]}
        /\ value' = [value EXCEPT ![n] = 0]
        /\ wire' = FromServer(<<Encoded("server", "removed", [addr |-> address[n], name |-> n])>>)
        /\ UNCHANGED <<nextAddress, clientVars, linkVars, dataVersion, writes, raced>>
  BY DEF ObjectDestroyed
<1>2. PICK b \in Nat : b = address[n]
  BY <1>a DEF Types
<1>3. PICK e \in ClientMessage : e = Encoded("server", "removed", [addr |-> b, name |-> n])
  BY <1>a, MessagesTyped
<1>4. e.type = "removed" /\ e.about.addr = b /\ e.about.name = n
  BY <1>3 DEF Encoded
<1>5. /\ wire' \in [Connection -> Wire] /\ Link' /\ Versions'
      /\ Together => Up' = Up /\ Down' = Append(Down, e)
  BY <1>1, <1>2, <1>3, <1>4, ServerSends
<1>6. Types'
  <2>1. address' \in [Name -> Nat] /\ value' \in [Name -> Nat]
    BY <1>a, <1>1 DEF Types, None
  <2> QED
    BY <1>a, <1>1, <1>5, <2>1 DEF Types, linkVars, clientVars
<1>7. \A m \in Name : /\ address'[m] = IF m = n THEN None ELSE address[m]
                      /\ m # n => value'[m] = value[m]
  BY <1>a, <1>1 DEF Types
<1>8. PICK owner \in [1..nextAddress -> Name] : OwnedBy(owner)
  BY <1>a DEF Owned
<1>9. Owned'
  <2>1. e \in Tidings(owner)
    BY <1>2, <1>4, <1>8 DEF Tidings, OwnedBy
  <2>2. \A c \in Connection : wire'[c].toClient \in Seq(Tidings(owner))
    <3>1. wire' = FromServer(<<e>>)
      BY <1>1, <1>2, <1>3
    <3>2. ASSUME NEW c \in Connection
          PROVE  wire'[c].toClient = wire[c].toClient
                   \/ wire'[c].toClient = Append(wire[c].toClient, e)
      BY <1>a, <3>1, SendToClient
    <3> TAKE c \in Connection
    <3>3. wire[c].toClient \in Seq(Tidings(owner))
      BY <1>8 DEF OwnedBy
    <3> QED
      BY <2>1, <3>2, <3>3, SentKeeps
  <2>3. \A m \in Name : /\ Fits(owner, m, address'[m]) /\ Fits(owner, m, known'[m])
                        /\ Fits(owner, m, object'[m].addr)
    BY <1>1, <1>7, <1>8 DEF OwnedBy, Fits, clientVars
  <2> QED
    BY <1>1, <1>8, <2>2, <2>3, OwnedKept
<1>10. Together' = Together /\ compatible' = compatible /\ known' = known /\ object' = object
       /\ raced' = raced
  BY <1>1, SameEnds DEF clientVars
<1>11. Names'
  <2> SUFFICES ASSUME Together, compatible, NEW m \in Name
               PROVE  NameTold(Down', m, known[m], address'[m])
    BY <1>10 DEF Names
  <2>1. Down \in Seq(ClientMessage)
    BY <1>a, TogetherLinked, QueuesTyped DEF Down
  <2>2. NameTold(Down, m, known[m], address[m])
    BY <1>a DEF Names
  <2>3. Down' = Append(Down, e)
    BY <1>5
  <2>4. CASE m = n
    <3>1. address'[m] = None /\ e \in TellingThat(m, None)
      BY <1>4, <1>7, <2>4 DEF TellingThat, Telling, Tells, AddressIn
    <3>2. NameTold(Append(Down, e), m, known[m], None)
      BY <2>1, <3>1, NameKept
    <3> QED
      BY <2>3, <3>1, <3>2
  <2>5. CASE m # n
    <3>1. e \notin Telling(m)
      BY <1>4, <2>5 DEF Telling, Tells
    <3>2. NameTold(Append(Down, e), m, known[m], address[m])
      BY <2>1, <2>2, <3>1, NameKept
    <3>3. address'[m] = address[m]
      BY <1>7, <2>5
    <3> QED
      BY <2>3, <3>2, <3>3
  <2> QED
    BY <2>4, <2>5
<1>12. ASSUME NEW m \in Name, object[m].addr # None, object[m].addr = address'[m]
       PROVE  /\ m # n /\ object[m].addr = address[m] /\ object[m].addr # address[n]
              /\ value'[m] = value[m]
  <2>1. m # n /\ object[m].addr = address[m] /\ value'[m] = value[m]
    BY <1>7, <1>12
  <2> QED
    BY <1>12, <2>1, OwnerUnique
<1>13. Monitors'
  <2> SUFFICES ASSUME Together, NEW m \in Name, object[m].addr # None,
                      object[m].addr = address'[m]
               PROVE  IsMonitored(Up', object[m].addr, enabled')
    BY <1>10 DEF Monitors
  <2>1. IsMonitored(Up, object[m].addr, enabled) /\ object[m].addr # address[n]
    BY <1>a, <1>12 DEF Monitors
  <2>2. Up' = Up
    BY <1>5
  <2> QED
    BY <1>1, <2>1, <2>2 DEF IsMonitored
<1>14. Settled'
  <2> SUFFICES ASSUME Together, NEW m \in Name, object[m].addr # None,
                      object[m].addr = address'[m], ~raced[m]
               PROVE  Settles(Up', Down', object[m].addr, object[m].value, value'[m])
    BY <1>10 DEF Settled
  <2>1. Settles(Up, Down, object[m].addr, object[m].value, value[m]) /\ value'[m] = value[m]
    BY <1>a, <1>12 DEF Settled
  <2>2. e \notin Reports(object[m].addr) /\ Down \in Seq(ClientMessage)
    BY <1>a, <1>4, TogetherLinked, QueuesTyped DEF Reports, IsType, Down
  <2>3. Settles(Up, Append(Down, e), object[m].addr, object[m].value, value[m])
    BY <2>1, <2>2, SettlesDown
  <2>4. Up' = Up /\ Down' = Append(Down, e)
    BY <1>5
  <2> QED
    BY <2>1, <2>3, <2>4
<1> QED
  BY <1>5, <1>6, <1>9, <1>11, <1>13, <1>14 DEF Inv

\* What is under way about an address.
LEMMA UnderWayIs ==
  ASSUME Types, Link, Together, NEW a
  PROVE  /\ Up \in Seq(ServerMessage) /\ Down \in Seq(ClientMessage)
         /\ \A types : UnderWay("toServer", a, types) <=> ~NoneIn(Up, Requests(a, types))
         /\ UnderWay("toClient", a, {"values"}) <=> ~NoneIn(Down, Reports(a))
<1>1. Up \in Seq(ServerMessage) /\ Down \in Seq(ClientMessage) /\ socket["client"] # None
  BY TogetherLinked, QueuesTyped DEF Up, Down
<1>2. /\ \A i \in DOMAIN Up : Up[i] \in ServerMessage
      /\ \A i \in DOMAIN Down : Down[i] \in ClientMessage
  BY <1>1
<1>3. \A types : UnderWay("toServer", a, types) <=> ~NoneIn(Up, Requests(a, types))
  BY <1>1, <1>2 DEF UnderWay, NoneIn, Requests, Up
<1>4. UnderWay("toClient", a, {"values"}) <=> ~NoneIn(Down, Reports(a))
  BY <1>1, <1>2 DEF UnderWay, NoneIn, Reports, Down
<1> QED
  BY <1>1, <1>3, <1>4

LEMMA ServerWriteInv ==
  ASSUME Inv, ServerWrite
  PROVE  Inv'
<1>a. Types /\ Link /\ Owned /\ Versions /\ Names /\ Monitors /\ Settled
  BY DEF Inv
<1>1. PICK n \in Name :
        /\ address[n] # None
        /\ writes' = writes + 1
        /\ value' = [value EXCEPT ![n] = writes + 1]
        /\ wire' = IF address[n] \in enabled
                   THEN FromServer(<<Encoded("server", "values",
                                             [addr |-> address[n], value |-> writes + 1])>>)
                   ELSE wire
        /\ raced' = [raced EXCEPT ![n] =
             \/ UnderWay("toServer", address[n], {"values"})
             \/ address[n] \notin enabled /\ object[n].addr = address[n]
                  /\ ~UnderWay("toServer", address[n], {"sync"})]
        /\ UNCHANGED <<address, nextAddress, enabled, clientVars, linkVars, dataVersion>>
  BY DEF ServerWrite
<1>2. PICK b \in Nat, w \in Nat : b = address[n] /\ b # None /\ w = writes + 1
  BY <1>a, <1>1 DEF Types
<1>3. PICK e \in ClientMessage : e = Encoded("server", "values", [addr |-> b, value |-> w])
  BY <1>a, MessagesTyped
<1>4. e.type = "values" /\ e.about.addr = b /\ e.about.value = w /\ e.enc = dataVersion["server"]
  BY <1>3 DEF Encoded
<1>b. Up' = wire'[socket["client"]].toServer /\ Down' = wire'[socket["client"]].toClient
      /\ Together' = Together /\ compatible' = compatible /\ known' = known
      /\ object' = object /\ address' = address /\ enabled' = enabled
  BY <1>1, SameEnds DEF clientVars
<1>5. /\ wire' \in [Connection -> Wire] /\ Link' /\ Versions'
      /\ Together => Up' = Up
      /\ Together => IF b \in enabled THEN Down' = Append(Down, e) ELSE Down' = Down
  <2>1. CASE b \in enabled
    <3>1. wire' = FromServer(<<e>>)
      BY <1>1, <1>2, <1>3, <2>1
    <3> QED
      BY <1>1, <1>2, <1>4, <2>1, <3>1, ServerSends
  <2>2. CASE b \notin enabled
    <3>1. wire' = wire
      BY <1>1, <1>2, <2>2
    <3>2. Link'
      BY <1>a, <1>1, <3>1, LinkKept DEF clientVars
    <3>3. Versions'
      BY <1>a, <1>1, <3>1 DEF Versions, clientVars
    <3> QED
      BY <1>a, <1>b, <2>2, <3>1, <3>2, <3>3 DEF Types, Up, Down
  <2> QED
    BY <2>1, <2>2
<1>6. Types'
  <2>1. value' \in [Name -> Nat]
    BY <1>a, <1>1, <1>2 DEF Types
  <2>2. raced' \in [Name -> BOOLEAN]
    BY <1>a, <1>1 DEF Types, UnderWay
  <2>3. writes' \in Nat
    BY <1>1, <1>2
  <2> QED
    BY <1>a, <1>1, <1>5, <2>1, <2>2, <2>3 DEF Types, linkVars, clientVars
<1>7. Owned'
  <2>1. PICK owner \in [1..nextAddress -> Name] : OwnedBy(owner)
    BY <1>a DEF Owned
  <2>2. e \in Tidings(owner)
    BY <1>4 DEF Tidings
  <2>3. \A c \in Connection : wire'[c].toClient \in Seq(Tidings(owner))
    <3> TAKE c \in Connection
    <3>1. wire[c].toClient \in Seq(Tidings(owner))
      BY <2>1 DEF OwnedBy
    <3>2. CASE b \in enabled
      <4>1. wire' = FromServer(<<e>>)
        BY <1>1, <1>2, <1>3, <3>2
      <4>2. \/ wire'[c].toClient = wire[c].toClient
            \/ wire'[c].toClient = Append(wire[c].toClient, e)
        BY <1>a, <4>1, SendToClient
      <4> QED
        BY <2>2, <3>1, <4>2, SentKeeps
    <3>3. CASE b \notin enabled
      BY <1>1, <1>2, <3>1, <3>3
    <3> QED
      BY <3>2, <3>3
  <2> QED
    BY <1>1, <2>1, <2>3, OwnedKept DEF OwnedBy, clientVars
<1>8. Names'
  <2> SUFFICES ASSUME Together, compatible, NEW m \in Name
               PROVE  NameTold(Down', m, known[m], address[m])
    BY <1>b DEF Names
  <2>1. Down \in Seq(ClientMessage)
    BY <1>a, TogetherLinked, QueuesTyped DEF Down
  <2>2. NameTold(Down, m, known[m], address[m])
    BY <1>a DEF Names
  <2>3. e \notin Telling(m)
    BY <1>4 DEF Telling, Tells
  <2>4. NameTold(Append(Down, e), m, known[m], address[m])
    BY <2>1, <2>2, <2>3, NameKept
  <2>5. Down' = Append(Down, e) \/ Down' = Down
    BY <1>5
  <2> QED
    BY <2>2, <2>4, <2>5
<1>9. Monitors'
  BY <1>a, <1>b, <1>5 DEF Monitors
<1>10. Settled'
  <2> SUFFICES ASSUME Together, NEW m \in Name, object[m].addr # None,
                      object[m].addr = address[m], ~raced'[m]
               PROVE  Settles(Up', Down', object[m].addr, object[m].value, value'[m])
    BY <1>b DEF Settled
  <2>1. /\ Up \in Seq(ServerMessage) /\ Down \in Seq(ClientMessage)
        /\ \A types : UnderWay("toServer", b, types) <=> ~NoneIn(Up, Requests(b, types))
    BY <1>a, UnderWayIs
  <2>2. CASE m = n
    <3>1. object[m].addr = b /\ value'[m] = w
      BY <1>a, <1>1, <1>2, <2>2 DEF Types
    <3>2. /\ NoneIn(Up, Requests(b, {"values"}))
          /\ b \in enabled \/ ~NoneIn(Up, Requests(b, {"sync"}))
      BY <1>a, <1>1, <1>2, <2>1, <2>2, <3>1 DEF Types
    <3>3. Up' = Up
      BY <1>5
    <3>4. CASE ~NoneIn(Up, Requests(b, {"sync"}))
      <4>1. LastIn(Up, Requests(b, {"values"}), Requests(b, {"sync"}))
        BY <3>2, <3>4 DEF NoneIn, LastIn
      <4> QED
        BY <3>1, <3>3, <4>1 DEF Settles
    <3>5. CASE NoneIn(Up, Requests(b, {"sync"}))
      <4>1. Down' = Append(Down, e)
        BY <1>5, <3>2, <3>5
      <4>2. e \in Reported(b, w)
        BY <1>4 DEF Reported, Reports, IsType
      <4>3. LastIn(Append(Down, e), Reports(b), Reported(b, w))
        BY <2>1, <4>2, AppendOne
      <4> QED
        BY <3>1, <3>2, <3>3, <3>5, <4>1, <4>3 DEF Settles
    <3> QED
      BY <3>4, <3>5
  <2>3. CASE m # n
    <3>1. raced'[m] = raced[m] /\ value'[m] = value[m]
      BY <1>a, <1>1, <2>3 DEF Types
    <3>2. Settles(Up, Down, object[m].addr, object[m].value, value[m])
      BY <1>a, <3>1 DEF Settled
    <3>3. object[m].addr # b
      BY <1>2, <2>3, OwnerUnique
    <3>4. e \notin Reports(object[m].addr)
      BY <1>4, <3>3 DEF Reports, IsType
    <3>5. Settles(Up, Append(Down, e), object[m].addr, object[m].value, value[m])
      BY <2>1, <3>2, <3>4, SettlesDown
    <3>6. Up' = Up /\ (Down' = Append(Down, e) \/ Down' = Down)
      BY <1>5
    <3> QED
      BY <3>1, <3>2, <3>5, <3>6
  <2> QED
    BY <2>2, <2>3
<1> QED
  BY <1>5, <1>6, <1>7, <1>8, <1>9, <1>10 DEF Inv

-----------------------------------------------------------------------------
(***************************************************************************)
(* Connecting and disconnecting.                                           *)
(***************************************************************************)

LEMMA InitInv ==
  ASSUME Init
  PROVE  Inv
<1>1. Types
  <2>1. opened \in 0..MaxConnections
    BY BoundTyped DEF Init
  <2>2. NewWire \in Wire
    BY EmptyOne DEF NewWire, Wire
  <2>3. wire \in [Connection -> Wire]
    BY <2>2 DEF Init
  <2>4. NoObject \in Object
    BY DEF NoObject, Object, None
  <2> QED
    BY <2>1, <2>3, <2>4 DEF Init, Types, Version, None
<1>2. \A c \in Connection : wire[c].toServer = <<>> /\ wire[c].toClient = <<>>
  BY DEF Init, NewWire
<1>3. socket["client"] = None /\ socket["server"] = None /\ opened = 0
      /\ accepted = {} /\ closed = {} /\ initState = {} /\ enabled = {}
      /\ dataVersion["client"] # High
      /\ \A n \in Name : object[n] = NoObject /\ object[n].addr = None
                         /\ address[n] = None /\ known[n] = None
  BY Sides DEF Init, NoObject, Base, High
<1>4. Link
  BY <1>2, <1>3 DEF Link, Side
<1>5. Owned
  <2>1. PICK owner : owner \in [1..nextAddress -> Name]
    <3>1. 1..nextAddress = {}
      BY DEF Init
    <3>2. [x \in 1..nextAddress |-> CHOOSE n \in Name : TRUE] \in [1..nextAddress -> Name]
      BY <3>1
    <3> QED
      BY <3>2
  <2>2. OwnedBy(owner)
    BY <1>2, <1>3, EmptyOne DEF OwnedBy, Fits
  <2> QED
    BY <2>1, <2>2 DEF Owned
<1>6. Versions
  BY <1>2, <1>3, EmptyOne DEF Versions
<1>7. ~Together
  BY <1>3 DEF Together
<1> QED
  BY <1>1, <1>4, <1>5, <1>6, <1>7 DEF Inv, Names, Monitors, Settled

\* When the client's socket has gone, so have its names and its objects.
LEMMA GoneIs ==
  ASSUME Types, ClientGone
  PROVE  /\ socket' \in [Side -> Nat] /\ known' \in [Name -> Nat] /\ object' \in [Name -> Object]
         /\ socket'["client"] = None /\ socket'["server"] = socket["server"]
         /\ \A n \in Name : known'[n] = None /\ object'[n] = NoObject /\ object'[n].addr = None
         /\ ~Together'
<1>1. NoObject \in Object /\ NoObject.addr = None
  BY DEF NoObject, Object, None
<1>2. /\ socket' \in [Side -> Nat]
      /\ socket'["client"] = None /\ socket'["server"] = socket["server"]
  BY DEF Types, ClientGone, Side, None
<1>3. known' \in [Name -> Nat] /\ \A n \in Name : known'[n] = None
  BY DEF ClientGone, None
<1>4. object' \in [Name -> Object] /\ \A n \in Name : object'[n] = NoObject
  BY <1>1 DEF ClientGone
<1> QED
  BY <1>1, <1>2, <1>3, <1>4 DEF Together

\* The client leaves its connection, and what is still under way to it may be lost.
LEMMA ClientLeaves ==
  ASSUME Inv, ClientGone, NEW c \in Connection,
         wire' = wire \/ wire' = WithDown(wire, c, <<>>),
         closed' = closed \/ closed' = closed \cup {c}, c \in 1..opened,
         UNCHANGED <<opened, accepted, dataVersion, serverVars, writes, raced>>,
         initState' \subseteq InitSteps, "data" \in initState' => "data" \in initState
  PROVE  Inv'
<1>a. Types /\ Link /\ Owned /\ Versions
  BY DEF Inv
<1>1. /\ socket' \in [Side -> Nat] /\ known' \in [Name -> Nat] /\ object' \in [Name -> Object]
      /\ socket'["client"] = None /\ socket'["server"] = socket["server"]
      /\ \A n \in Name : known'[n] = None /\ object'[n] = NoObject /\ object'[n].addr = None
      /\ ~Together'
  BY <1>a, GoneIs
<1>2. /\ wire' \in [Connection -> Wire]
      /\ \A d \in Connection : /\ wire'[d].toServer = wire[d].toServer
                               /\ wire'[d].toClient \in {wire[d].toClient, <<>>}
  <2>1. wire \in [Connection -> Wire]
    BY <1>a DEF Types
  <2>2. CASE wire' = wire
    BY <2>1, <2>2
  <2>3. CASE wire' = WithDown(wire, c, <<>>)
    <3>1. PICK q \in Seq(ClientMessage) : q = <<>>
      BY EmptyOne
    <3>2. LET u == WithDown(wire, c, q) IN
          /\ u \in [Connection -> Wire]
          /\ \A d \in Connection : u[d].toServer = wire[d].toServer
          /\ u[c].toClient = q
          /\ \A d \in Connection : d # c => u[d].toClient = wire[d].toClient
      BY <2>1, PutToClient
    <3> QED
      BY <2>3, <3>1, <3>2
  <2> QED
    BY <2>2, <2>3
<1>3. Types'
  BY <1>a, <1>1, <1>2 DEF Types, serverVars
<1>4. Link'
  <2>1. \A s \in Side : socket'[s] # None => socket'[s] \in 1..opened
    BY <1>a, <1>1 DEF Link, Side
  <2> QED
    BY <1>a, <1>1, <1>2, <2>1 DEF Link
<1>5. Owned'
  <2>1. PICK owner \in [1..nextAddress -> Name] : OwnedBy(owner)
    BY <1>a DEF Owned
  <2>2. \A d \in Connection : wire'[d].toClient \in Seq(Tidings(owner))
    BY <1>2, <2>1, EmptyOne DEF OwnedBy
  <2>3. \A n \in Name : /\ Fits(owner, n, address'[n]) /\ Fits(owner, n, known'[n])
                        /\ Fits(owner, n, object'[n].addr)
    BY <1>1, <2>1 DEF OwnedBy, Fits, serverVars
  <2> QED
    BY <2>1, <2>2, <2>3, OwnedKept DEF serverVars
<1>6. Versions'
  BY <1>a, <1>1, <1>2, EmptyOne DEF Versions, serverVars
<1> QED
  BY <1>1, <1>3, <1>4, <1>5, <1>6 DEF Inv, Names, Monitors, Settled

LEMMA DisconnectFromHostInv ==
  ASSUME Inv, DisconnectFromHost
  PROVE  Inv'
<1>1. PICK c \in Connection : c = socket["client"] /\ c \in 1..opened
  BY SocketOpen, Sides DEF Inv, DisconnectFromHost
<1>2. wire' = WithDown(wire, c, <<>>) /\ closed' = closed \cup {c}
  BY <1>1 DEF DisconnectFromHost, WithDown
<1>3. initState' \subseteq InitSteps
  BY DEF Inv, Types, DisconnectFromHost
<1> QED
  BY <1>1, <1>2, <1>3, ClientLeaves DEF DisconnectFromHost

LEMMA ClientConnectionClosedInv ==
  ASSUME Inv, ClientConnectionClosed
  PROVE  Inv'
<1>1. Link /\ opened \in 0..MaxConnections /\ MaxConnections \in Nat
  BY BoundTyped DEF Inv, Types
<1>2. PICK c \in Connection : c = socket["client"] /\ c \in 1..opened
  <2>1. 1..opened \subseteq 1..MaxConnections
    BY <1>1
  <2> QED
    BY <1>1, <2>1 DEF ClientConnectionClosed, Link, Connection
<1>3. initState' \subseteq InitSteps
  BY DEF Inv, Types, ClientConnectionClosed
<1> QED
  BY <1>2, <1>3, ClientLeaves DEF ClientConnectionClosed

LEMMA ServerConnectionClosedInv ==
  ASSUME Inv, ServerConnectionClosed
  PROVE  Inv'
<1>a. Types /\ Link /\ Owned /\ Versions
  BY DEF Inv
<1>1. /\ socket' \in [Side -> Nat]
      /\ socket'["server"] = None /\ socket'["client"] = socket["client"]
  BY <1>a DEF Types, ServerConnectionClosed, Side, None
<1>2. Types'
  BY <1>a, <1>1 DEF Types, ServerConnectionClosed, serverVars, clientVars
<1>3. Link'
  BY <1>a, <1>1 DEF Link, ServerConnectionClosed, serverVars, clientVars, Side
<1>4. Owned'
  BY <1>a DEF Owned, OwnedBy, ServerConnectionClosed, serverVars, clientVars
<1>5. Versions'
  BY <1>a DEF Versions, ServerConnectionClosed, serverVars, clientVars
<1>6. ~Together'
  BY <1>1 DEF Together
<1> QED
  BY <1>2, <1>3, <1>4, <1>5, <1>6 DEF Inv, Names, Monitors, Settled

LEMMA ConnectToHostInv ==
  ASSUME Inv, ConnectToHost
  PROVE  Inv'
<1>a. Types /\ Link /\ Owned /\ Versions
  BY DEF Inv
<1>1. PICK c \in Nat : c = opened + 1 /\ c # None /\ c \notin 1..opened /\ c \in 0..MaxConnections
                       /\ 1..c = (1..opened) \cup {c}
  BY <1>a, BoundTyped DEF Types, ConnectToHost, None
<1>2. socket["client"] = None /\ None \notin 1..opened
  BY <1>a DEF Types, ConnectToHost, None
<1>3. /\ socket' \in [Side -> Nat] /\ opened' = c
      /\ socket'["client"] = c /\ socket'["server"] = socket["server"]
  BY <1>a, <1>1 DEF Types, ConnectToHost, Side
<1>4. Types'
  BY <1>a, <1>1, <1>3 DEF Types, ConnectToHost, serverVars
<1>5. Link'
  <2>1. \A s \in Side : socket'[s] # None => socket'[s] \in 1..c
    BY <1>a, <1>1, <1>3 DEF Link, Side
  <2>2. \A n \in Name : object[n] = NoObject
    BY <1>a, <1>2 DEF Link
  <2> QED
    BY <1>a, <1>1, <1>3, <2>1, <2>2 DEF Link, ConnectToHost
<1>6. Owned'
  BY <1>a DEF Owned, OwnedBy, ConnectToHost, serverVars
<1>7. Versions'
  BY <1>a DEF Versions, ConnectToHost, serverVars
<1>8. ~Together'
  BY <1>a, <1>1, <1>3 DEF Together, Link, Side
<1> QED
  BY <1>4, <1>5, <1>6, <1>7, <1>8 DEF Inv, Names, Monitors, Settled

\* The greeting speaks of no payload, and tells of every name what the server knows.
LEMMA GreetingIs ==
  ASSUME Types, Versions
  PROVE  /\ ServerGreeting \in Seq(ClientMessage)
         /\ ServerGreeting \in Seq(AgreedToClient(dataVersion["server"]))
         /\ \A owner : (\A n \in Name : Fits(owner, n, address[n])) =>
                         ServerGreeting \in Seq(Tidings(owner))
         /\ \A n \in Name : \A k : NameTold(ServerGreeting, n, k, address[n])
<1>1. PICK e : e = Encoded("server", "version", [addr |-> None])
  OBVIOUS
<1>2. PICK f : f = Encoded("server", "info", [addr |-> None])
  OBVIOUS
<1>3. PICK g : g = Encoded("server", "map", [addr |-> None, map |-> address])
  OBVIOUS
<1>4. ServerGreeting = <<e, f, g>>
  BY <1>1, <1>2, <1>3 DEF ServerGreeting
<1>5. e \in ClientMessage /\ f \in ClientMessage /\ g \in ClientMessage
  <2>1. dataVersion["server"] \in Version /\ address \in [Name -> Nat]
    BY Sides DEF Types
  <2>2. e \in ClientMessage /\ f \in ClientMessage
    BY <1>1, <1>2, <2>1 DEF Encoded, ClientMessage
  <2>3. g \in ClientMessage
    BY <1>3, <2>1 DEF Encoded, ClientMessage
  <2> QED
    BY <2>2, <2>3
<1>6. e.type = "version" /\ f.type = "info" /\ g.type = "map" /\ g.about.map = address
  BY <1>1, <1>2, <1>3 DEF Encoded
<1>7. \A S : e \in S /\ f \in S /\ g \in S => <<e, f, g>> \in Seq(S)
  OBVIOUS
<1>8. ServerGreeting \in Seq(AgreedToClient(dataVersion["server"]))
  BY <1>4, <1>5, <1>6, <1>7 DEF AgreedToClient
<1>9. ASSUME NEW owner, \A n \in Name : Fits(owner, n, address[n])
      PROVE  ServerGreeting \in Seq(Tidings(owner))
  <2>1. e \in Tidings(owner) /\ f \in Tidings(owner) /\ g \in Tidings(owner)
    BY <1>5, <1>6, <1>9 DEF Tidings
  <2> QED
    BY <1>4, <1>7, <2>1
<1>10. ASSUME NEW n \in Name, NEW k
       PROVE  NameTold(ServerGreeting, n, k, address[n])
  <2>1. g \in TellingThat(n, address[n])
    BY <1>5, <1>6 DEF TellingThat, Telling, Tells, AddressIn
  <2>2. <<e, f>> \in Seq(ClientMessage) /\ <<e, f, g>> = Append(<<e, f>>, g)
    BY <1>5
  <2>3. NameTold(Append(<<e, f>>, g), n, k, address[n])
    BY <1>5, <2>1, <2>2, NameKept
  <2> QED
    BY <1>4, <2>2, <2>3
<1> QED
  BY <1>4, <1>5, <1>7, <1>8, <1>9, <1>10

LEMMA NewConnectionInv ==
  ASSUME Inv, NewConnection
  PROVE  Inv'
<1>a. Types /\ Link /\ Owned /\ Versions /\ Names /\ Monitors /\ Settled
  BY DEF Inv
<1>1. PICK c \in (1..opened) \ accepted :
        /\ accepted' = accepted \cup {c}
        /\ IF socket["server"] # None
           THEN closed' = closed \cup {c} /\ UNCHANGED <<socket, wire>>
           ELSE /\ socket' = [socket EXCEPT !["server"] = c]
                /\ wire' = IF c \in closed THEN wire
                           ELSE [wire EXCEPT ![c].toClient = ServerGreeting]
                /\ UNCHANGED closed
        /\ UNCHANGED <<opened, compatible, dataVersion, serverVars, clientVars, writes, raced>>
  BY DEF NewConnection
<1>2. c \in Connection
  BY <1>a, <1>1, BoundTyped DEF Types, Connection
<1>3. CASE socket["server"] # None
  <2>1. closed' = closed \cup {c} /\ UNCHANGED <<socket, wire>>
    BY <1>1, <1>3
  <2>2. Types' /\ Owned' /\ Versions'
    BY <1>a, <1>1, <2>1 DEF Types, Owned, OwnedBy, Versions, serverVars, clientVars
  <2>3. Link'
    BY <1>a, <1>1, <2>1 DEF Link, clientVars
  <2>4. Together' => Together
    BY <2>1 DEF Together
  <2>5. Names' /\ Monitors'
    BY <1>a, <1>1, <2>1, <2>4 DEF Names, Monitors, Up, Down, serverVars, clientVars
  <2>6. Settled'
    BY <1>a, <1>1, <2>1, <2>4 DEF Settled, Up, Down, serverVars, clientVars
  <2> QED
    BY <2>2, <2>3, <2>5, <2>6 DEF Inv
<1>4. CASE socket["server"] = None
  <2>1. /\ socket' \in [Side -> Nat] /\ socket'["server"] = c
        /\ socket'["client"] = socket["client"]
    BY <1>a, <1>1, <1>4 DEF Types, Side, Connection
  <2>2. /\ ServerGreeting \in Seq(ClientMessage)
        /\ ServerGreeting \in Seq(AgreedToClient(dataVersion["server"]))
        /\ \A owner : (\A n \in Name : Fits(owner, n, address[n])) =>
                        ServerGreeting \in Seq(Tidings(owner))
        /\ \A n \in Name : \A k : NameTold(ServerGreeting, n, k, address[n])
    BY <1>a, GreetingIs
  <2>3. PICK greeting \in Seq(ClientMessage) : greeting = ServerGreeting
    BY <2>2
  <2>4. /\ wire' \in [Connection -> Wire]
        /\ \A d \in Connection : /\ wire'[d].toServer = wire[d].toServer
                                 /\ wire'[d].toClient \in {wire[d].toClient, greeting}
                                 /\ d # c => wire'[d].toClient = wire[d].toClient
        /\ c \notin closed => wire'[c].toClient = greeting
    <3>1. wire \in [Connection -> Wire]
      BY <1>a DEF Types
    <3>2. LET u == WithDown(wire, c, greeting) IN
          /\ u \in [Connection -> Wire]
          /\ \A d \in Connection : u[d].toServer = wire[d].toServer
          /\ u[c].toClient = greeting
          /\ \A d \in Connection : d # c => u[d].toClient = wire[d].toClient
      BY <1>2, <3>1, PutToClient
    <3>3. CASE c \in closed
      <4>1. wire' = wire
        BY <1>1, <1>4, <3>3
      <4> QED
        BY <3>1, <3>3, <4>1
    <3>4. CASE c \notin closed
      <4>1. wire' = WithDown(wire, c, greeting)
        BY <1>1, <1>4, <2>3, <3>4 DEF WithDown
      <4> QED
        BY <3>2, <4>1
    <3> QED
      BY <3>3, <3>4
  <2>5. closed' = closed
    BY <1>1, <1>4
  <2>6. Types'
    BY <1>a, <1>1, <2>1, <2>4 DEF Types, serverVars, clientVars
  <2>7. Link'
    BY <1>a, <1>1, <2>1, <2>4, <2>5 DEF Link, clientVars, Side
  <2>8. Owned'
    <3>1. PICK owner \in [1..nextAddress -> Name] : OwnedBy(owner)
      BY <1>a DEF Owned
    <3>2. greeting \in Seq(Tidings(owner))
      BY <2>2, <2>3, <3>1 DEF OwnedBy
    <3>3. \A d \in Connection : wire'[d].toClient \in Seq(Tidings(owner))
      BY <2>4, <3>1, <3>2 DEF OwnedBy
    <3> QED
      BY <1>1, <3>1, <3>3, OwnedKept DEF OwnedBy, serverVars, clientVars
  <2>9. Versions'
    <3>1. \A d \in Connection :
            /\ wire'[d].toServer \in Seq(AgreedToServer(dataVersion["server"]))
            /\ wire'[d].toClient \in Seq(AgreedToClient(dataVersion["server"]))
      BY <1>a, <2>2, <2>3, <2>4 DEF Versions
    <3> QED
      BY <1>a, <1>1, <3>1 DEF Versions, serverVars, clientVars
  <2>10. ASSUME Together'
         PROVE  /\ Down' = ServerGreeting
                /\ \A n \in Name : object'[n].addr = None
    <3>1. socket["client"] = c /\ c \notin closed
      BY <2>1, <2>5, <2>10 DEF Together
    <3>2. \A n \in Name : object[n] = NoObject
      BY <1>a, <1>1, <3>1 DEF Link
    <3>3. Down' = wire'[c].toClient
      BY <2>1, <3>1 DEF Down
    <3> QED
      BY <1>1, <2>3, <2>4, <3>1, <3>2, <3>3 DEF NoObject, clientVars
  <2>11. Names'
    <3> SUFFICES ASSUME Together', NEW n \in Name
                 PROVE  NameTold(Down', n, known'[n], address'[n])
      BY DEF Names
    <3>1. NameTold(ServerGreeting, n, known[n], address[n])
      BY <2>2
    <3>2. Down' = ServerGreeting /\ known' = known /\ address' = address
      BY <1>1, <2>10 DEF serverVars, clientVars
    <3> QED
      BY <3>1, <3>2
  <2>12. Monitors' /\ Settled'
    BY <2>10 DEF Monitors, Settled
  <2> QED
    BY <2>6, <2>7, <2>8, <2>9, <2>11, <2>12 DEF Inv
<1> QED
  BY <1>3, <1>4

-----------------------------------------------------------------------------
(***************************************************************************)
(* The steps of the client's objects.                                      *)
(***************************************************************************)

\* A client that has an object is connected and has agreed on the version.
LEMMA HasObject ==
  ASSUME Inv, NEW n \in Name, object[n].addr # None
  PROVE  socket["client"] \in accepted /\ dataVersion["client"] = High
<1>1. object[n] # NoObject
  BY DEF NoObject
<1> QED
  BY <1>1 DEF Inv, Link, Versions

\* A message to the server.
LEMMA ClientSends ==
  ASSUME Inv, NEW e \in ServerMessage, wire' = FromClient(<<e>>),
         e.type \in PayloadVersions => e.enc = High /\ e.about.addr # None,
         dataVersion["client"] = High, UNCHANGED linkVars
  PROVE  /\ wire' \in [Connection -> Wire]
         /\ \A c \in Connection :
              /\ wire'[c].toClient = wire[c].toClient
              /\ wire'[c].toServer \in Seq(AgreedToServer(dataVersion["server"]))
         /\ Together => Up' = Append(Up, e) /\ Down' = Down
<1>a. Types /\ Link /\ Versions
  BY DEF Inv
<1>1. /\ wire' \in [Connection -> Wire]
      /\ \A c \in Connection : wire'[c].toClient = wire[c].toClient
      /\ \A c \in Connection : \/ wire'[c].toServer = wire[c].toServer
                               \/ wire'[c].toServer = Append(wire[c].toServer, e)
      /\ socket["client"] \notin closed \cup {None} =>
           wire'[socket["client"]].toServer = Append(wire[socket["client"]].toServer, e)
  BY <1>a, SendToServer
<1>2. e \in AgreedToServer(dataVersion["server"])
  BY <1>a DEF AgreedToServer, Versions
<1>3. \A c \in Connection : wire'[c].toServer \in Seq(AgreedToServer(dataVersion["server"]))
  <2> TAKE c \in Connection
  <2>1. wire[c].toServer \in Seq(AgreedToServer(dataVersion["server"]))
    BY <1>a DEF Versions
  <2> QED
    BY <1>1, <1>2, <2>1, SentKeeps
<1>4. Together => Up' = Append(Up, e) /\ Down' = Down
  <2> SUFFICES ASSUME Together PROVE Up' = Append(Up, e) /\ Down' = Down
    OBVIOUS
  <2>1. socket["client"] \in Connection /\ socket["client"] \notin closed \cup {None}
    BY <1>a, TogetherLinked
  <2>2. Up' = wire'[socket["client"]].toServer /\ Down' = wire'[socket["client"]].toClient
    BY SameEnds
  <2> QED
    BY <1>1, <2>1, <2>2 DEF Up, Down
<1> QED
  BY <1>1, <1>3, <1>4

LEMMA ClientSendsTwo ==
  ASSUME Inv, NEW e \in ServerMessage, NEW f \in ServerMessage, wire' = FromClient(<<e, f>>),
         e.type \in PayloadVersions => e.enc = High /\ e.about.addr # None,
         f.type \in PayloadVersions => f.enc = High /\ f.about.addr # None,
         dataVersion["client"] = High, UNCHANGED linkVars
  PROVE  /\ wire' \in [Connection -> Wire]
         /\ \A c \in Connection :
              /\ wire'[c].toClient = wire[c].toClient
              /\ wire'[c].toServer \in Seq(AgreedToServer(dataVersion["server"]))
         /\ Together => Up' = Append(Append(Up, e), f) /\ Down' = Down
<1>a. Types /\ Link /\ Versions
  BY DEF Inv
<1>1. /\ wire' \in [Connection -> Wire]
      /\ \A c \in Connection : wire'[c].toClient = wire[c].toClient
      /\ \A c \in Connection :
           \/ wire'[c].toServer = wire[c].toServer
           \/ wire'[c].toServer = Append(Append(wire[c].toServer, e), f)
      /\ socket["client"] \notin closed \cup {None} =>
           wire'[socket["client"]].toServer
             = Append(Append(wire[socket["client"]].toServer, e), f)
  BY <1>a, SendTwoToServer
<1>2. /\ e \in AgreedToServer(dataVersion["server"])
      /\ f \in AgreedToServer(dataVersion["server"])
  BY <1>a DEF AgreedToServer, Versions
<1>3. \A c \in Connection : wire'[c].toServer \in Seq(AgreedToServer(dataVersion["server"]))
  <2> TAKE c \in Connection
  <2>1. wire[c].toServer \in Seq(AgreedToServer(dataVersion["server"]))
    BY <1>a DEF Versions
  <2>2. Append(wire[c].toServer, e) \in Seq(AgreedToServer(dataVersion["server"]))
    BY <1>2, <2>1, AppendOne
  <2>3. Append(Append(wire[c].toServer, e), f) \in Seq(AgreedToServer(dataVersion["server"]))
    BY <1>2, <2>2, AppendOne
  <2> QED
    BY <1>1, <2>1, <2>3
<1>4. Together => Up' = Append(Append(Up, e), f) /\ Down' = Down
  <2> SUFFICES ASSUME Together PROVE Up' = Append(Append(Up, e), f) /\ Down' = Down
    OBVIOUS
  <2>1. socket["client"] \in Connection /\ socket["client"] \notin closed \cup {None}
    BY <1>a, TogetherLinked
  <2>2. Up' = wire'[socket["client"]].toServer /\ Down' = wire'[socket["client"]].toClient
    BY SameEnds
  <2> QED
    BY <1>1, <2>1, <2>2 DEF Up, Down
<1> QED
  BY <1>1, <1>3, <1>4

\* An object takes its address from the names, and keeps it.
LEMMA ClientKeeps ==
  ASSUME Inv, wire' \in [Connection -> Wire],
         \A c \in Connection :
           /\ wire'[c].toClient = wire[c].toClient
           /\ wire'[c].toServer \in Seq(AgreedToServer(dataVersion["server"])),
         UNCHANGED <<linkVars, serverVars, known, initState, dataVersion>>,
         socket["client"] \in accepted, dataVersion["client"] = High,
         \A n \in Name : object'[n].addr \in {None, object[n].addr, known[n]}
  PROVE  Link' /\ Owned' /\ Versions' /\ Names'
<1>a. Types /\ Link /\ Owned /\ Versions /\ Names
  BY DEF Inv
<1>1. Link'
  BY <1>a, LinkKept
<1>2. Owned'
  <2>1. PICK owner \in [1..nextAddress -> Name] : OwnedBy(owner)
    BY <1>a DEF Owned
  <2>2. \A n \in Name : /\ Fits(owner, n, address'[n]) /\ Fits(owner, n, known'[n])
                        /\ Fits(owner, n, object'[n].addr)
    BY <2>1 DEF OwnedBy, Fits, serverVars
  <2>3. \A c \in Connection : wire'[c].toClient \in Seq(Tidings(owner))
    BY <2>1 DEF OwnedBy
  <2> QED
    BY <2>1, <2>2, <2>3, OwnedKept DEF serverVars
<1>3. Versions'
  <2>1. \A c \in Connection : wire[c].toClient \in Seq(AgreedToClient(dataVersion["server"]))
    BY <1>a DEF Versions
  <2> QED
    BY <1>a, <2>1 DEF Versions, serverVars
<1>4. Names'
  <2> SUFFICES ASSUME Together, compatible, NEW n \in Name
               PROVE  NameTold(Down', n, known[n], address[n])
    BY SameEnds DEF Names, serverVars
  <2>1. Down' = Down
    BY <1>a, SameEnds, TogetherLinked DEF Down
  <2>2. NameTold(Down, n, known[n], address[n])
    BY <1>a DEF Names
  <2> QED
    BY <2>1, <2>2
<1> QED
  BY <1>1, <1>2, <1>3, <1>4

LEMMA DeleteObjectInv ==
  ASSUME Inv, DeleteObject
  PROVE  Inv'
<1>a. Types /\ Link /\ Owned /\ Versions /\ Names /\ Monitors /\ Settled
  BY DEF Inv
<1>1. PICK n \in Name :
        /\ object[n].addr # None
        /\ object' = [object EXCEPT ![n] = NoObject]
        /\ wire' = IF known[n] = object[n].addr
                   THEN FromClient(<<Encoded("client", "unmonitored", [addr |-> object[n].addr])>>)
                   ELSE wire
        /\ UNCHANGED <<known, initState, linkVars, serverVars, dataVersion, writes, raced>>
  BY DEF DeleteObject
<1>2. PICK b \in Nat : b = object[n].addr /\ b # None
  BY <1>a, <1>1 DEF Types, Object
<1>3. PICK e \in ServerMessage : e = Encoded("client", "unmonitored", [addr |-> b])
  BY <1>a, MessagesTyped
<1>4. e.type = "unmonitored" /\ e.about.addr = b
  BY <1>3 DEF Encoded
<1>5. socket["client"] \in accepted /\ dataVersion["client"] = High
  BY <1>1, HasObject
<1>6. /\ wire' \in [Connection -> Wire]
      /\ \A c \in Connection :
           /\ wire'[c].toClient = wire[c].toClient
           /\ wire'[c].toServer \in Seq(AgreedToServer(dataVersion["server"]))
      /\ Together => (Up' = Append(Up, e) \/ Up' = Up) /\ Down' = Down
  <2>1. CASE known[n] = object[n].addr
    <3>1. wire' = FromClient(<<e>>)
      BY <1>1, <1>2, <1>3, <2>1
    <3> QED
      BY <1>1, <1>4, <1>5, <3>1, ClientSends DEF PayloadVersions
  <2>2. CASE known[n] # object[n].addr
    <3>1. wire' = wire
      BY <1>1, <2>2
    <3> QED
      BY <1>a, <1>1, <3>1, SameEnds DEF Types, Versions, Up, Down
  <2> QED
    BY <2>1, <2>2
<1>7. \A m \in Name : object'[m] = IF m = n THEN NoObject ELSE object[m]
  BY <1>a, <1>1 DEF Types
<1>8. Types'
  <2>1. object' \in [Name -> Object]
    BY <1>a, <1>1 DEF Types, NoObject, Object, None
  <2> QED
    BY <1>a, <1>1, <1>6, <2>1 DEF Types, linkVars, serverVars
<1>9. Link' /\ Owned' /\ Versions' /\ Names'
  <2>1. \A m \in Name : object'[m].addr \in {None, object[m].addr, known[m]}
    BY <1>7 DEF NoObject
  <2> QED
    BY <1>1, <1>5, <1>6, <2>1, ClientKeeps
<1>10. Together' = Together /\ address' = address /\ enabled' = enabled /\ value' = value
       /\ raced' = raced
  BY <1>1, SameEnds DEF serverVars
<1>11. ASSUME Together, NEW m \in Name, object'[m].addr # None, object'[m].addr = address[m]
       PROVE  /\ object'[m] = object[m] /\ Up \in Seq(ServerMessage)
              /\ e \notin Monitoring(object[m].addr)
              /\ e \notin Requests(object[m].addr, {"sync"})
              /\ e \notin Requests(object[m].addr, {"values"})
  <2>1. m # n /\ object'[m] = object[m]
    BY <1>7, <1>11 DEF NoObject
  <2>2. object[m].addr # b
    BY <1>2, <1>11, <2>1, OwnerUnique
  <2>3. Up \in Seq(ServerMessage)
    BY <1>a, <1>11, TogetherLinked, QueuesTyped DEF Up
  <2> QED
    BY <1>4, <2>1, <2>2, <2>3 DEF Monitoring, Requests, IsType
<1>12. Monitors'
  <2> SUFFICES ASSUME Together, NEW m \in Name, object'[m].addr # None,
                      object'[m].addr = address[m]
               PROVE  IsMonitored(Up', object'[m].addr, enabled)
    BY <1>10 DEF Monitors
  <2>1. IsMonitored(Up, object[m].addr, enabled)
    BY <1>a, <1>11 DEF Monitors
  <2>2. IsMonitored(Append(Up, e), object[m].addr, enabled)
    BY <1>11, <2>1, MonitorKept
  <2>3. Up' = Append(Up, e) \/ Up' = Up
    BY <1>6
  <2> QED
    BY <1>11, <2>1, <2>2, <2>3
<1>13. Settled'
  <2> SUFFICES ASSUME Together, NEW m \in Name, object'[m].addr # None,
                      object'[m].addr = address[m], ~raced[m]
               PROVE  Settles(Up', Down', object'[m].addr, object'[m].value, value[m])
    BY <1>10 DEF Settled
  <2>1. Settles(Up, Down, object[m].addr, object[m].value, value[m])
    BY <1>a, <1>11 DEF Settled
  <2>2. Settles(Append(Up, e), Down, object[m].addr, object[m].value, value[m])
    BY <1>11, <2>1, SettlesUp
  <2>3. (Up' = Append(Up, e) \/ Up' = Up) /\ Down' = Down
    BY <1>6
  <2> QED
    BY <1>11, <2>1, <2>2, <2>3
<1> QED
  BY <1>8, <1>9, <1>12, <1>13 DEF Inv

LEMMA ClientWriteInv ==
  ASSUME Inv, ClientWrite
  PROVE  Inv'
<1>a. Types /\ Link /\ Owned /\ Versions /\ Names /\ Monitors /\ Settled
  BY DEF Inv
<1>1. PICK n \in Name :
        /\ object[n].addr # None
        /\ writes' = writes + 1
        /\ object' = [object EXCEPT ![n].value = writes + 1]
        /\ wire' = FromClient(<<Encoded("client", "values",
                                        [addr |-> object[n].addr, value |-> writes + 1])>>)
        /\ raced' = [raced EXCEPT ![n] = UnderWay("toClient", object[n].addr, {"values"})
                                           \/ UnderWay("toServer", object[n].addr, {"sync"})]
        /\ UNCHANGED <<known, initState, linkVars, serverVars, dataVersion>>
  BY DEF ClientWrite
<1>2. PICK b \in Nat, w \in Nat : b = object[n].addr /\ b # None /\ w = writes + 1
  BY <1>a, <1>1 DEF Types, Object
<1>3. PICK e \in ServerMessage : e = Encoded("client", "values", [addr |-> b, value |-> w])
  BY <1>a, MessagesTyped
<1>4. /\ e.type = "values" /\ e.about.addr = b /\ e.about.value = w
      /\ e.enc = dataVersion["client"]
  BY <1>3 DEF Encoded
<1>5. socket["client"] \in accepted /\ dataVersion["client"] = High
  BY <1>1, HasObject
<1>6. /\ wire' \in [Connection -> Wire]
      /\ \A c \in Connection :
           /\ wire'[c].toClient = wire[c].toClient
           /\ wire'[c].toServer \in Seq(AgreedToServer(dataVersion["server"]))
      /\ Together => Up' = Append(Up, e) /\ Down' = Down
  <2>1. wire' = FromClient(<<e>>)
    BY <1>1, <1>2, <1>3
  <2> QED
    BY <1>1, <1>2, <1>4, <1>5, <2>1, ClientSends
<1>7. \A m \in Name : /\ object'[m].addr = object[m].addr
                      /\ m # n => object'[m] = object[m]
                      /\ m = n => object'[m].value = w
  BY <1>a, <1>1, <1>2 DEF Types, Object
<1>8. Types'
  <2>1. object' \in [Name -> Object]
    BY <1>a, <1>1, <1>2 DEF Types, Object
  <2>2. raced' \in [Name -> BOOLEAN]
    BY <1>a, <1>1 DEF Types, UnderWay
  <2>3. writes' \in Nat
    BY <1>1, <1>2
  <2> QED
    BY <1>a, <1>1, <1>6, <2>1, <2>2, <2>3 DEF Types, linkVars, serverVars
<1>9. Link' /\ Owned' /\ Versions' /\ Names'
  BY <1>1, <1>5, <1>6, <1>7, ClientKeeps
<1>10. Together' = Together /\ address' = address /\ enabled' = enabled /\ value' = value
  BY <1>1, SameEnds DEF serverVars
<1>11. Monitors'
  <2> SUFFICES ASSUME Together, NEW m \in Name, object[m].addr # None,
                      object[m].addr = address[m]
               PROVE  IsMonitored(Up', object[m].addr, enabled)
    BY <1>7, <1>10 DEF Monitors
  <2>1. IsMonitored(Up, object[m].addr, enabled)
    BY <1>a DEF Monitors
  <2>2. Up \in Seq(ServerMessage) /\ e \notin Monitoring(object[m].addr)
    BY <1>a, <1>4, TogetherLinked, QueuesTyped DEF Up, Monitoring, Requests, IsType
  <2>3. IsMonitored(Append(Up, e), object[m].addr, enabled)
    BY <2>1, <2>2, MonitorKept
  <2>4. Up' = Append(Up, e)
    BY <1>6
  <2> QED
    BY <2>3, <2>4
<1>12. Settled'
  <2> SUFFICES ASSUME Together, NEW m \in Name, object[m].addr # None,
                      object[m].addr = address[m], ~raced'[m]
               PROVE  Settles(Up', Down', object[m].addr, object'[m].value, value[m])
    BY <1>7, <1>10 DEF Settled
  <2>1. /\ Up \in Seq(ServerMessage) /\ Down \in Seq(ClientMessage)
        /\ \A types : UnderWay("toServer", b, types) <=> ~NoneIn(Up, Requests(b, types))
        /\ UnderWay("toClient", b, {"values"}) <=> ~NoneIn(Down, Reports(b))
    BY <1>a, UnderWayIs
  <2>2. Up' = Append(Up, e) /\ Down' = Down
    BY <1>6
  <2>3. CASE m = n
    <3>1. /\ NoneIn(Up, Requests(b, {"sync"})) /\ NoneIn(Down, Reports(b))
          /\ object[m].addr = b /\ object'[m].value = w
      BY <1>a, <1>1, <1>2, <1>7, <2>1, <2>3 DEF Types
    <3>2. e \in Written(b, w) /\ e \notin Requests(b, {"sync"})
      BY <1>4 DEF Written, Requests, IsType
    <3>3. /\ NoneIn(Append(Up, e), Requests(b, {"sync"}))
          /\ LastIn(Append(Up, e), Requests(b, {"values"}), Written(b, w))
      BY <2>1, <3>1, <3>2, AppendOne
    <3>4. Settles(Append(Up, e), Down, b, w, value[m])
      BY <3>1, <3>3 DEF Settles
    <3> QED
      BY <2>2, <3>1, <3>4
  <2>4. CASE m # n
    <3>1. raced'[m] = raced[m] /\ object'[m] = object[m]
      BY <1>a, <1>1, <1>7, <2>4 DEF Types
    <3>2. Settles(Up, Down, object[m].addr, object[m].value, value[m])
      BY <1>a, <3>1 DEF Settled
    <3>3. object[m].addr # b
      BY <1>2, <2>4, OwnerUnique
    <3>4. e \notin Requests(object[m].addr, {"sync"}) /\ e \notin Requests(object[m].addr, {"values"})
      BY <1>4, <3>3 DEF Requests, IsType
    <3>5. Settles(Append(Up, e), Down, object[m].addr, object[m].value, value[m])
      BY <2>1, <3>2, <3>4, SettlesUp
    <3> QED
      BY <2>2, <3>1, <3>5
  <2> QED
    BY <2>3, <2>4
<1> QED
  BY <1>8, <1>9, <1>11, <1>12 DEF Inv

LEMMA CreateObjectInv ==
  ASSUME Inv, CreateObject
  PROVE  Inv'
<1>a. Types /\ Link /\ Owned /\ Versions /\ Names /\ Monitors /\ Settled
  BY DEF Inv
<1>1. PICK n \in Name :
        /\ socket["client"] # None /\ InitComplete
        /\ known[n] # None /\ object[n] = NoObject
        /\ object' = [object EXCEPT ![n] = [addr |-> known[n], value |-> 0]]
        /\ wire' = FromClient(<<Encoded("client", "sync", [addr |-> known[n]]),
                                Encoded("client", "monitored", [addr |-> known[n]])>>)
        /\ raced' = [raced EXCEPT ![n] = FALSE]
        /\ UNCHANGED <<known, initState, linkVars, serverVars, dataVersion, writes>>
  BY DEF CreateObject
<1>2. PICK b \in Nat : b = known[n] /\ b # None
  BY <1>a, <1>1 DEF Types
<1>3. PICK e \in ServerMessage : e = Encoded("client", "sync", [addr |-> b])
  BY <1>a, MessagesTyped
<1>4. PICK f \in ServerMessage : f = Encoded("client", "monitored", [addr |-> b])
  BY <1>a, MessagesTyped
<1>5. /\ e.type = "sync" /\ e.about.addr = b /\ e.enc = dataVersion["client"]
      /\ f.type = "monitored" /\ f.about.addr = b
  BY <1>3, <1>4 DEF Encoded
<1>6. socket["client"] \in accepted /\ dataVersion["client"] = High
  <2>1. initState # {} /\ "data" \in initState
    BY <1>1 DEF InitComplete, InitSteps
  <2> QED
    BY <1>a, <1>1, <2>1 DEF Link, Versions
<1>7. /\ wire' \in [Connection -> Wire]
      /\ \A c \in Connection :
           /\ wire'[c].toClient = wire[c].toClient
           /\ wire'[c].toServer \in Seq(AgreedToServer(dataVersion["server"]))
      /\ Together => Up' = Append(Append(Up, e), f) /\ Down' = Down
  <2>1. wire' = FromClient(<<e, f>>)
    BY <1>1, <1>2, <1>3, <1>4
  <2> QED
    BY <1>1, <1>2, <1>5, <1>6, <2>1, ClientSendsTwo DEF PayloadVersions
<1>8. \A m \in Name : /\ m # n => object'[m] = object[m]
                      /\ m = n => object'[m].addr = b
  BY <1>a, <1>1, <1>2 DEF Types
<1>9. Types'
  <2>1. object' \in [Name -> Object]
    BY <1>a, <1>1, <1>2 DEF Types, Object
  <2>2. raced' \in [Name -> BOOLEAN]
    BY <1>a, <1>1 DEF Types
  <2> QED
    BY <1>a, <1>1, <1>7, <2>1, <2>2 DEF Types, linkVars, serverVars
<1>10. Link' /\ Owned' /\ Versions' /\ Names'
  <2>1. \A m \in Name : object'[m].addr \in {None, object[m].addr, known[m]}
    BY <1>2, <1>8
  <2> QED
    BY <1>1, <1>6, <1>7, <2>1, ClientKeeps
<1>11. Together' = Together /\ address' = address /\ enabled' = enabled /\ value' = value
  BY <1>1, SameEnds DEF serverVars
<1>12. ASSUME NEW m \in Name, m # n, object[m].addr # None, object[m].addr = address[m]
       PROVE  object[m].addr # b
  BY <1>2, <1>12, OwnerUnique
<1>13. Monitors'
  <2> SUFFICES ASSUME Together, NEW m \in Name, object'[m].addr # None,
                      object'[m].addr = address[m]
               PROVE  IsMonitored(Up', object'[m].addr, enabled)
    BY <1>11 DEF Monitors
  <2>1. Up \in Seq(ServerMessage) /\ Append(Up, e) \in Seq(ServerMessage)
    BY <1>a, TogetherLinked, QueuesTyped, AppendOne DEF Up
  <2>2. Up' = Append(Append(Up, e), f)
    BY <1>7
  <2>3. CASE m = n
    <3>1. f \in Requests(b, {"monitored"})
      BY <1>5 DEF Requests, IsType
    <3>2. IsMonitored(Append(Append(Up, e), f), b, enabled)
      BY <2>1, <3>1, MonitorKept
    <3> QED
      BY <1>8, <2>2, <2>3, <3>2
  <2>4. CASE m # n
    <3>1. IsMonitored(Up, object[m].addr, enabled) /\ object[m].addr # b
      BY <1>a, <1>8, <1>12, <2>4 DEF Monitors
    <3>2. e \notin Monitoring(object[m].addr) /\ f \notin Monitoring(object[m].addr)
      BY <1>5, <3>1 DEF Monitoring, Requests, IsType
    <3>3. IsMonitored(Append(Up, e), object[m].addr, enabled)
      BY <2>1, <3>1, <3>2, MonitorKept
    <3>4. IsMonitored(Append(Append(Up, e), f), object[m].addr, enabled)
      BY <2>1, <3>2, <3>3, MonitorKept
    <3> QED
      BY <1>8, <2>2, <2>4, <3>4
  <2> QED
    BY <2>3, <2>4
<1>14. Settled'
  <2> SUFFICES ASSUME Together, NEW m \in Name, object'[m].addr # None,
                      object'[m].addr = address[m], ~raced'[m]
               PROVE  Settles(Up', Down', object'[m].addr, object'[m].value, value[m])
    BY <1>11 DEF Settled
  <2>1. Up \in Seq(ServerMessage) /\ Append(Up, e) \in Seq(ServerMessage)
    BY <1>a, TogetherLinked, QueuesTyped, AppendOne DEF Up
  <2>2. Up' = Append(Append(Up, e), f) /\ Down' = Down
    BY <1>7
  <2>3. CASE m = n
    <3>1. e \in Requests(b, {"sync"}) /\ f \notin Requests(b, {"values"})
      BY <1>5 DEF Requests, IsType
    <3>2. LastIn(Append(Up, e), Requests(b, {"values"}), Requests(b, {"sync"}))
      BY <2>1, <3>1, AppendOne
    <3>3. LastIn(Append(Append(Up, e), f), Requests(b, {"values"}), Requests(b, {"sync"}))
      <4>1. PICK q \in Seq(ServerMessage) : q = Append(Up, e)
        BY <2>1
      <4>2. \A M, L : LastIn(q, M, L) /\ f \notin M => LastIn(Append(q, f), M, L)
        BY AppendOne
      <4> QED
        BY <3>1, <3>2, <4>1, <4>2
    <3> QED
      BY <1>8, <2>2, <2>3, <3>3 DEF Settles
  <2>4. CASE m # n
    <3>1. raced'[m] = raced[m] /\ object'[m] = object[m]
      BY <1>a, <1>1, <1>8, <2>4 DEF Types
    <3>2. Settles(Up, Down, object[m].addr, object[m].value, value[m]) /\ object[m].addr # b
      BY <1>a, <1>12, <2>4, <3>1 DEF Settled
    <3>3. /\ e \notin Requests(object[m].addr, {"sync"})
          /\ e \notin Requests(object[m].addr, {"values"})
          /\ f \notin Requests(object[m].addr, {"sync"})
          /\ f \notin Requests(object[m].addr, {"values"})
      BY <1>5, <3>2 DEF Requests, IsType
    <3>4. Settles(Append(Up, e), Down, object[m].addr, object[m].value, value[m])
      BY <2>1, <3>2, <3>3, SettlesUp
    <3>5. Settles(Append(Append(Up, e), f), Down, object[m].addr, object[m].value, value[m])
      BY <2>1, <3>3, <3>4, SettlesUp
    <3> QED
      BY <2>2, <3>1, <3>5
  <2> QED
    BY <2>3, <2>4
<1> QED
  BY <1>9, <1>10, <1>13, <1>14 DEF Inv

-----------------------------------------------------------------------------
(***************************************************************************)
(* The server reads a message.                                             *)
(***************************************************************************)

\* Reading a message keeps what is under way true, if it has the effect it asks for.
LEMMA MonitorRead ==
  ASSUME NEW q \in Seq(ServerMessage), q # <<>>, NEW a, NEW E, NEW F, IsMonitored(q, a, E),
         Head(q) \notin Monitoring(a) /\ a \in E => a \in F,
         Head(q) \in Requests(a, {"monitored"}) => a \in F
  PROVE  IsMonitored(Tail(q), a, F)
<1>1. /\ \A M : NoneIn(q, M) <=> NoneIn(Tail(q), M) /\ Head(q) \notin M
      /\ \A M, L : LastIn(q, M, L) =>
           LastIn(Tail(q), M, L) \/ (Head(q) \in L /\ NoneIn(Tail(q), M))
  BY TailOne
<1>2. CASE NoneIn(q, Monitoring(a)) /\ a \in E
  BY <1>1, <1>2 DEF IsMonitored
<1>3. CASE LastIn(q, Monitoring(a), Requests(a, {"monitored"}))
  BY <1>1, <1>3 DEF IsMonitored
<1> QED
  BY <1>2, <1>3 DEF IsMonitored

LEMMA SettlesRead ==
  ASSUME NEW q \in Seq(ServerMessage), q # <<>>, NEW r \in Seq(ClientMessage),
         NEW a, NEW v, NEW w, Settles(q, r, a, v, w)
  PROVE  /\ Head(q) \notin Requests(a, {"sync"}) /\ Head(q) \notin Requests(a, {"values"}) =>
              Settles(Tail(q), r, a, v, w)
         /\ Head(q) \in Requests(a, {"sync"}) =>
              \A e \in Reported(a, w) : Settles(Tail(q), Append(r, e), a, v, w)
         /\ Head(q) \in Requests(a, {"values"}) =>
              Settles(Tail(q), r, a, v, Head(q).about.value)
<1> DEFINE t == Tail(q)
           h == Head(q)
           Syncs == Requests(a, {"sync"})
           Values == Requests(a, {"values"})
<1>1. /\ \A M : NoneIn(q, M) <=> NoneIn(t, M) /\ h \notin M
      /\ \A M, L : LastIn(q, M, L) => LastIn(t, M, L) \/ (h \in L /\ NoneIn(t, M))
  BY TailOne
<1>2. /\ \A u : Written(a, u) \subseteq Values
      /\ \A e \in Syncs : e \notin Values
      /\ \A e \in Written(a, v) : e.about.value = v
  BY DEF Written, Requests, IsType
<1> HIDE DEF t, h, Syncs, Values
<1>3. \/ LastIn(q, Values, Syncs)
      \/ NoneIn(q, Syncs) /\ NoneIn(r, Reports(a)) /\ LastIn(q, Values, Written(a, v))
      \/ /\ NoneIn(q, Syncs) /\ NoneIn(q, Values)
         /\ (NoneIn(r, Reports(a)) /\ v = w) \/ LastIn(r, Reports(a), Reported(a, w))
  BY DEF Settles, Syncs, Values
<1>4. ASSUME h \notin Syncs, h \notin Values
      PROVE  Settles(t, r, a, v, w)
  <2>1. CASE LastIn(q, Values, Syncs)
    BY <1>1, <1>4, <2>1 DEF Settles, Syncs, Values
  <2>2. CASE NoneIn(q, Syncs) /\ NoneIn(r, Reports(a)) /\ LastIn(q, Values, Written(a, v))
    BY <1>1, <1>2, <1>4, <2>2 DEF Settles, Syncs, Values
  <2>3. CASE /\ NoneIn(q, Syncs) /\ NoneIn(q, Values)
             /\ (NoneIn(r, Reports(a)) /\ v = w) \/ LastIn(r, Reports(a), Reported(a, w))
    BY <1>1, <2>3 DEF Settles, Syncs, Values
  <2> QED
    BY <1>3, <2>1, <2>2, <2>3
<1>5. ASSUME h \in Syncs, NEW e \in Reported(a, w)
      PROVE  Settles(t, Append(r, e), a, v, w)
  <2>1. LastIn(Append(r, e), Reports(a), Reported(a, w))
    BY AppendOne DEF Reported, Reports
  <2>2. LastIn(q, Values, Syncs)
    BY <1>1, <1>3, <1>5
  <2>3. CASE LastIn(t, Values, Syncs)
    BY <2>3 DEF Settles, Syncs, Values
  <2>4. CASE NoneIn(t, Values) /\ ~NoneIn(t, Syncs)
    <3>1. LastIn(t, Values, Syncs)
      BY <2>4 DEF NoneIn, LastIn
    <3> QED
      BY <3>1 DEF Settles, Syncs, Values
  <2>5. CASE NoneIn(t, Values) /\ NoneIn(t, Syncs)
    BY <2>1, <2>5 DEF Settles, Syncs, Values
  <2> QED
    BY <1>1, <2>2, <2>3, <2>4, <2>5
<1>6. ASSUME h \in Values
      PROVE  Settles(t, r, a, v, h.about.value)
  <2>1. CASE LastIn(q, Values, Syncs)
    <3>1. LastIn(t, Values, Syncs)
      BY <1>1, <1>2, <1>6, <2>1
    <3> QED
      BY <3>1 DEF Settles, Syncs, Values
  <2>2. CASE NoneIn(q, Syncs) /\ NoneIn(r, Reports(a)) /\ LastIn(q, Values, Written(a, v))
    <3>1. NoneIn(t, Syncs)
      BY <1>1, <2>2
    <3>2. LastIn(t, Values, Written(a, v)) \/ (h.about.value = v /\ NoneIn(t, Values))
      BY <1>1, <1>2, <2>2
    <3> QED
      BY <2>2, <3>1, <3>2 DEF Settles, Syncs, Values
  <2>3. ~NoneIn(q, Values)
    BY <1>1, <1>6
  <2> QED
    BY <1>3, <2>1, <2>2, <2>3
<1> QED
  BY <1>4, <1>5, <1>6 DEF t, h, Syncs, Values

\* What the wire is when the server has read a message, and when it has answered it.
Read         == [wire EXCEPT ![socket["server"]].toServer = Tail(@)]
Answered(e)  == [Read EXCEPT ![socket["server"]].toClient = Append(@, e)]

LEMMA ServerTakes ==
  ASSUME Inv, ToServer # <<>>
  PROVE  /\ socket["server"] \in Connection /\ socket["server"] \in accepted
         /\ Head(ToServer) \in AgreedToServer(dataVersion["server"])
         /\ Head(ToServer) \in ServerMessage
         /\ Together => /\ Up \in Seq(ServerMessage) /\ Up # <<>> /\ Head(Up) = Head(ToServer)
                        /\ Down \in Seq(ClientMessage)
<1>a. Types /\ Link /\ Versions
  BY DEF Inv
<1>1. PICK c \in Connection : c = socket["server"] /\ c \in accepted
  BY <1>a, SocketOpen, Sides DEF ToServer, Link
<1>2. ToServer = wire[c].toServer
  BY <1>1, <1>a, SocketOpen DEF ToServer, Connection, None
<1>3. ToServer \in Seq(AgreedToServer(dataVersion["server"]))
  BY <1>a, <1>2 DEF Versions
<1>4. Head(ToServer) \in AgreedToServer(dataVersion["server"])
  BY <1>3, TailOne
<1>5. Together => /\ Up \in Seq(ServerMessage) /\ Up # <<>> /\ Head(Up) = Head(ToServer)
                  /\ Down \in Seq(ClientMessage)
  <2> SUFFICES ASSUME Together
               PROVE  /\ Up \in Seq(ServerMessage) /\ Up # <<>> /\ Head(Up) = Head(ToServer)
                      /\ Down \in Seq(ClientMessage)
    OBVIOUS
  <2>1. socket["client"] = c
    BY <1>1, <1>a, TogetherLinked
  <2>2. Up = ToServer /\ wire[c].toServer \in Seq(ServerMessage)
        /\ Down \in Seq(ClientMessage)
    BY <1>a, <1>2, <2>1, QueuesTyped DEF Up, Down
  <2> QED
    BY <1>2, <2>2
<1> QED
  BY <1>1, <1>4, <1>5 DEF AgreedToServer

LEMMA TakenIs ==
  ASSUME Inv, ToServer # <<>>, NEW e \in ClientMessage, NEW answered \in BOOLEAN,
         wire' = IF answered THEN Answered(e) ELSE Read
  PROVE  /\ wire' \in [Connection -> Wire]
         /\ \A c \in Connection : c # socket["server"] =>
              wire'[c].toServer = wire[c].toServer /\ wire'[c].toClient = wire[c].toClient
         /\ wire'[socket["server"]].toServer = Tail(wire[socket["server"]].toServer)
         /\ wire'[socket["server"]].toClient =
              IF answered THEN Append(wire[socket["server"]].toClient, e)
              ELSE wire[socket["server"]].toClient
<1>1. PICK c \in Connection : c = socket["server"]
  BY ServerTakes
<1>2. wire[c].toServer \in Seq(ServerMessage) /\ wire[c].toClient \in Seq(ClientMessage)
      /\ wire \in [Connection -> Wire]
  BY QueuesTyped DEF Inv
<1>3. PICK t \in Seq(ServerMessage) : t = Tail(wire[c].toServer)
  <2>1. wire[c].toServer # <<>>
    BY <1>1, ServerTakes DEF ToServer, Connection, None
  <2> QED
    BY <1>2, <2>1, TailOne
<1>4. PICK u : u = WithUp(wire, c, t)
  OBVIOUS
<1>5. /\ u \in [Connection -> Wire]
      /\ \A d \in Connection : u[d].toClient = wire[d].toClient
      /\ u[c].toServer = t
      /\ \A d \in Connection : d # c => u[d].toServer = wire[d].toServer
  BY <1>2, <1>4, PutToServer
<1>6. Read = u
  BY <1>1, <1>3, <1>4 DEF Read, WithUp
<1>7. CASE ~answered
  BY <1>1, <1>3, <1>5, <1>6, <1>7
<1>8. CASE answered
  <2>1. PICK d \in Seq(ClientMessage) : d = Append(wire[c].toClient, e)
    <3>1. Append(wire[c].toClient, e) \in Seq(ClientMessage)
      BY <1>2, AppendOne
    <3> QED
      BY <3>1
  <2>2. u[c].toClient = wire[c].toClient
    BY <1>5
  <2>3. Answered(e) = WithDown(u, c, d)
    BY <1>1, <1>6, <2>1, <2>2 DEF Answered, WithDown
  <2>4. LET x == WithDown(u, c, d) IN
        /\ x \in [Connection -> Wire]
        /\ \A b \in Connection : x[b].toServer = u[b].toServer
        /\ x[c].toClient = d
        /\ \A b \in Connection : b # c => x[b].toClient = u[b].toClient
    BY <1>5, PutToClient
  <2> QED
    BY <1>1, <1>3, <1>5, <1>8, <2>1, <2>3, <2>4
<1> QED
  BY <1>7, <1>8

\* What every message that is read leaves true.
LEMMA ServerReads ==
  ASSUME Inv, ToServer # <<>>, NEW e \in ClientMessage, NEW answered \in BOOLEAN,
         wire' = IF answered THEN Answered(e) ELSE Read,
         e.type \in {"negotiated", "values"},
         answered => e \in AgreedToClient(dataVersion'["server"]),
         UNCHANGED <<address, nextAddress, clientVars, linkVars, writes, raced>>,
         dataVersion' \in [Side -> Version], dataVersion'["client"] = dataVersion["client"],
         dataVersion'["server"] \in {dataVersion["server"], High},
         value' \in [Name -> Nat], enabled' \subseteq Nat,
         enabled' # {} => dataVersion'["server"] = High
  PROVE  /\ Types' /\ Link' /\ Owned' /\ Versions' /\ Names'
         /\ Together => /\ Up' = Tail(Up)
                        /\ Down' = IF answered THEN Append(Down, e) ELSE Down
         /\ Together' = Together /\ object' = object /\ raced' = raced /\ address' = address
<1>a. Types /\ Link /\ Owned /\ Versions /\ Names
  BY DEF Inv
<1>1. PICK c \in Connection :
        /\ c = socket["server"] /\ c \in accepted
        /\ wire' \in [Connection -> Wire]
        /\ \A d \in Connection : d # c =>
             wire'[d].toServer = wire[d].toServer /\ wire'[d].toClient = wire[d].toClient
        /\ wire'[c].toServer = Tail(wire[c].toServer)
        /\ wire'[c].toClient = IF answered THEN Append(wire[c].toClient, e)
                               ELSE wire[c].toClient
  BY ServerTakes, TakenIs
<1>2. wire[c].toServer # <<>>
  BY <1>1 DEF ToServer, Connection, None
<1>3. Types'
  BY <1>a, <1>1 DEF Types, linkVars, clientVars
<1>4. Link'
  BY <1>a, <1>1, LinkKept DEF clientVars
<1>5. Owned'
  <2>1. PICK owner \in [1..nextAddress -> Name] : OwnedBy(owner)
    BY <1>a DEF Owned
  <2>2. e \in Tidings(owner)
    BY DEF Tidings
  <2>3. \A d \in Connection : wire'[d].toClient \in Seq(Tidings(owner))
    <3> TAKE d \in Connection
    <3>1. wire[d].toClient \in Seq(Tidings(owner))
      BY <2>1 DEF OwnedBy
    <3>2. wire'[d].toClient = wire[d].toClient \/ wire'[d].toClient = Append(wire[d].toClient, e)
      BY <1>1
    <3> QED
      BY <2>2, <3>1, <3>2, SentKeeps
  <2> QED
    BY <2>1, <2>3, OwnedKept DEF OwnedBy, clientVars
<1>6. Versions'
  <2>1. /\ AgreedToServer(dataVersion["server"]) \subseteq AgreedToServer(dataVersion'["server"])
        /\ AgreedToClient(dataVersion["server"]) \subseteq AgreedToClient(dataVersion'["server"])
    BY DEF AgreedToServer, AgreedToClient
  <2>2. \A d \in Connection : wire'[d].toServer \in Seq(AgreedToServer(dataVersion'["server"]))
    <3> TAKE d \in Connection
    <3>1. wire[d].toServer \in Seq(AgreedToServer(dataVersion'["server"]))
      BY <1>a, <2>1, SeqSubset DEF Versions
    <3>2. Tail(wire[c].toServer) \in Seq(AgreedToServer(dataVersion'["server"]))
      <4>1. wire[c].toServer \in Seq(AgreedToServer(dataVersion'["server"]))
        BY <1>a, <2>1, SeqSubset DEF Versions
      <4> QED
        BY <1>2, <4>1, TailOne
    <3> QED
      BY <1>1, <3>1, <3>2
  <2>3. \A d \in Connection : wire'[d].toClient \in Seq(AgreedToClient(dataVersion'["server"]))
    <3> TAKE d \in Connection
    <3>1. wire[d].toClient \in Seq(AgreedToClient(dataVersion'["server"]))
      BY <1>a, <2>1, SeqSubset DEF Versions
    <3>2. answered => Append(wire[d].toClient, e) \in Seq(AgreedToClient(dataVersion'["server"]))
      BY <3>1, AppendOne
    <3> QED
      BY <1>1, <3>1, <3>2
  <2> QED
    BY <1>a, <2>2, <2>3 DEF Versions, clientVars
<1>7. Together => /\ Up' = Tail(Up)
                  /\ Down' = IF answered THEN Append(Down, e) ELSE Down
  <2> SUFFICES ASSUME Together
               PROVE  /\ Up' = Tail(Up)
                      /\ Down' = IF answered THEN Append(Down, e) ELSE Down
    OBVIOUS
  <2>1. socket["client"] = c
    BY <1>1, <1>a, TogetherLinked
  <2>2. Up' = wire'[socket["client"]].toServer /\ Down' = wire'[socket["client"]].toClient
    BY SameEnds
  <2> QED
    BY <1>1, <2>1, <2>2 DEF Up, Down
<1>8. Together' = Together /\ object' = object /\ raced' = raced /\ address' = address
      /\ compatible' = compatible /\ known' = known
  BY SameEnds DEF clientVars
<1>9. Names'
  <2> SUFFICES ASSUME Together, compatible, NEW n \in Name
               PROVE  NameTold(Down', n, known[n], address[n])
    BY <1>8 DEF Names
  <2>1. NameTold(Down, n, known[n], address[n]) /\ Down \in Seq(ClientMessage)
    BY <1>a, ServerTakes DEF Names
  <2>2. e \notin Telling(n)
    BY DEF Telling, Tells
  <2>3. NameTold(Append(Down, e), n, known[n], address[n])
    BY <2>1, <2>2, NameKept
  <2>4. Down' = Append(Down, e) \/ Down' = Down
    BY <1>7
  <2> QED
    BY <2>1, <2>3, <2>4
<1> QED
  BY <1>3, <1>4, <1>5, <1>6, <1>7, <1>8, <1>9

\* The object of the server at the address of one of the client's is the one of its name.
LEMMA ObjectAtIs ==
  ASSUME Inv, NEW n \in Name, object[n].addr # None, object[n].addr = address[n]
  PROVE  ObjectAt(object[n].addr) = {n}
<1>1. \A m \in Name : address[m] = object[n].addr => m = n
  BY OwnerUnique
<1> QED
  BY <1>1 DEF ObjectAt
LEMMA ServerOnlyReads ==
  ASSUME Inv, ToServer # <<>>, wire' = Read, UNCHANGED dataVersion,
         UNCHANGED <<address, nextAddress, clientVars, linkVars, writes, raced>>,
         value' \in [Name -> Nat], enabled' \subseteq Nat,
         enabled' # {} => dataVersion["server"] = High
  PROVE  /\ Types' /\ Link' /\ Owned' /\ Versions' /\ Names'
         /\ Together => Up' = Tail(Up) /\ Down' = Down
         /\ Together' = Together /\ object' = object /\ raced' = raced /\ address' = address
<1>1. PICK e \in ClientMessage : e.type = "values"
  <2> DEFINE x == [type |-> "values", about |-> [addr |-> 0, value |-> 0], enc |-> High]
  <2>1. x \in ClientMessage /\ x.type = "values"
    BY DEF ClientMessage, Version
  <2> QED
    BY <2>1
<1>2. PICK answered \in BOOLEAN : ~answered
  OBVIOUS
<1>3. wire' = IF answered THEN Answered(e) ELSE Read
  BY <1>2
<1>4. dataVersion' \in [Side -> Version] /\ dataVersion'["client"] = dataVersion["client"]
      /\ dataVersion'["server"] = dataVersion["server"]
  BY DEF Inv, Types
<1>5. /\ Types' /\ Link' /\ Owned' /\ Versions' /\ Names'
      /\ Together => /\ Up' = Tail(Up)
                     /\ Down' = IF answered THEN Append(Down, e) ELSE Down
      /\ Together' = Together /\ object' = object /\ raced' = raced /\ address' = address
  BY <1>1, <1>2, <1>3, <1>4, ServerReads
<1> QED
  BY <1>2, <1>5

\* The server answers the negotiation with the version asked for.
LEMMA NegotiateInv ==
  ASSUME Inv, ServerReceive, Head(ToServer).type = "negotiate"
  PROVE  Inv'
<1>a. Types /\ Monitors /\ Settled
  BY DEF Inv
<1>1. /\ ToServer # <<>>
      /\ UNCHANGED <<address, nextAddress, clientVars, linkVars, writes, raced>>
      /\ wire' = Answered(Encoded("server", "negotiated", Head(ToServer).about))
      /\ dataVersion' = [dataVersion EXCEPT !["server"] = Head(ToServer).about.version]
      /\ UNCHANGED <<enabled, value>>
  BY DEF ServerReceive, Answered, Read
<1>2. PICK m \in ServerMessage : m = Head(ToServer)
  BY <1>1, ServerTakes
<1>3. PICK e : e = Encoded("server", "negotiated", m.about)
  OBVIOUS
<1>4. dataVersion["server"] \in Version
  BY <1>a, Sides DEF Types
<1>5. e \in ClientMessage /\ e.type = "negotiated" /\ m.about.version = High
  <2>1. m.about \in [addr : {None}, version : {High}]
    BY <1>2 DEF ServerMessage
  <2> QED
    BY <1>3, <1>4, <2>1 DEF Encoded, ClientMessage
<1>6. PICK answered \in BOOLEAN : answered
  OBVIOUS
<1>7. wire' = IF answered THEN Answered(e) ELSE Read
  BY <1>1, <1>2, <1>3, <1>6
<1>8. /\ dataVersion' \in [Side -> Version] /\ dataVersion'["client"] = dataVersion["client"]
      /\ dataVersion'["server"] = High
  BY <1>a, <1>1, <1>2, <1>5 DEF Types, Side, Version
<1>9. e \in AgreedToClient(dataVersion'["server"])
  BY <1>5, <1>8 DEF AgreedToClient
<1>10. value' \in [Name -> Nat] /\ enabled' \subseteq Nat
  BY <1>a, <1>1 DEF Types
<1>11. /\ Types' /\ Link' /\ Owned' /\ Versions' /\ Names'
       /\ Together => /\ Up' = Tail(Up)
                      /\ Down' = IF answered THEN Append(Down, e) ELSE Down
       /\ Together' = Together /\ object' = object /\ raced' = raced /\ address' = address
  BY <1>1, <1>5, <1>7, <1>8, <1>9, <1>10, ServerReads
<1>12. Together => /\ Up' = Tail(Up) /\ Down' = Append(Down, e)
                   /\ Up \in Seq(ServerMessage) /\ Up # <<>> /\ Head(Up) = m
                   /\ Down \in Seq(ClientMessage)
  BY <1>1, <1>2, <1>6, <1>11, ServerTakes
<1>13. \A a : /\ m \notin Monitoring(a) /\ m \notin Requests(a, {"monitored"})
              /\ m \notin Requests(a, {"sync"}) /\ m \notin Requests(a, {"values"})
              /\ e \notin Reports(a)
  BY <1>1, <1>2, <1>5 DEF Monitoring, Requests, Reports, IsType
<1>14. Monitors'
  <2> SUFFICES ASSUME Together, NEW n \in Name, object[n].addr # None, object[n].addr = address[n]
               PROVE  IsMonitored(Up', object[n].addr, enabled)
    BY <1>1, <1>11 DEF Monitors
  <2>1. IsMonitored(Up, object[n].addr, enabled)
    BY <1>a DEF Monitors
  <2>2. IsMonitored(Tail(Up), object[n].addr, enabled)
    BY <1>12, <1>13, <2>1, MonitorRead
  <2> QED
    BY <1>12, <2>2
<1>15. Settled'
  <2> SUFFICES ASSUME Together, NEW n \in Name, object[n].addr # None, object[n].addr = address[n],
                      ~raced[n]
               PROVE  Settles(Up', Down', object[n].addr, object[n].value, value[n])
    BY <1>1, <1>11 DEF Settled
  <2>1. Settles(Up, Down, object[n].addr, object[n].value, value[n])
    BY <1>a DEF Settled
  <2>2. Settles(Tail(Up), Down, object[n].addr, object[n].value, value[n])
    BY <1>12, <1>13, <2>1, SettlesRead
  <2>3. Settles(Tail(Up), Append(Down, e), object[n].addr, object[n].value, value[n])
    BY <1>5, <1>12, <1>13, <2>2, SettlesDown
  <2> QED
    BY <1>12, <2>3
<1> QED
  BY <1>11, <1>14, <1>15 DEF Inv

\* The client listens to an object, or does not any more.
LEMMA MonitoringInv ==
  ASSUME Inv, ServerReceive, Head(ToServer).type \in {"monitored", "unmonitored"}
  PROVE  Inv'
<1>a. Types /\ Versions /\ Monitors /\ Settled
  BY DEF Inv
<1>1. /\ ToServer # <<>>
      /\ UNCHANGED <<address, nextAddress, clientVars, linkVars, writes, raced>>
      /\ wire' = Read
      /\ UNCHANGED <<dataVersion, value>>
      /\ enabled' = IF Head(ToServer).type = "unmonitored"
                    THEN enabled \ {Head(ToServer).about.addr}
                    ELSE IF ObjectAt(Head(ToServer).about.addr) = {} THEN enabled
                    ELSE enabled \cup {Head(ToServer).about.addr}
  <2>1. CASE Head(ToServer).type = "monitored"
    BY <2>1 DEF ServerReceive, Read
  <2>2. CASE Head(ToServer).type = "unmonitored"
    BY <2>2 DEF ServerReceive, Read
  <2> QED
    BY <2>1, <2>2
<1>2. PICK m \in ServerMessage : /\ m = Head(ToServer) /\ m \in AgreedToServer(dataVersion["server"])
                                 /\ m.type \in {"monitored", "unmonitored"}
  BY <1>1, ServerTakes
<1>3. PICK b \in Nat : b = m.about.addr
  BY FieldsTyped
<1>4. enabled' \subseteq Nat /\ (enabled' # {} => dataVersion["server"] = High)
  BY <1>a, <1>1, <1>2, <1>3 DEF Types, Versions, AgreedToServer
<1>5. value' \in [Name -> Nat]
  BY <1>a, <1>1 DEF Types
<1>6. /\ Types' /\ Link' /\ Owned' /\ Versions' /\ Names'
      /\ Together => Up' = Tail(Up) /\ Down' = Down
      /\ Together' = Together /\ object' = object /\ raced' = raced /\ address' = address
  BY <1>1, <1>4, <1>5, ServerOnlyReads
<1>7. Together => /\ Up \in Seq(ServerMessage) /\ Up # <<>> /\ Head(Up) = m
                  /\ Down \in Seq(ClientMessage)
  BY <1>1, <1>2, ServerTakes
<1>8. Monitors'
  <2> SUFFICES ASSUME Together, NEW n \in Name, object[n].addr # None, object[n].addr = address[n]
               PROVE  IsMonitored(Up', object[n].addr, enabled')
    BY <1>6 DEF Monitors
  <2>1. IsMonitored(Up, object[n].addr, enabled) /\ ObjectAt(object[n].addr) = {n}
    BY <1>a, ObjectAtIs DEF Monitors
  <2>2. m \notin Monitoring(object[n].addr) => object[n].addr # b
    BY <1>2, <1>3 DEF Monitoring, Requests, IsType
  <2>3. m \in Requests(object[n].addr, {"monitored"}) => object[n].addr = b /\ m.type = "monitored"
    BY <1>3 DEF Requests, IsType
  <2>4. /\ m \notin Monitoring(object[n].addr) /\ object[n].addr \in enabled => object[n].addr \in enabled'
        /\ m \in Requests(object[n].addr, {"monitored"}) => object[n].addr \in enabled'
    BY <1>1, <1>2, <1>3, <2>1, <2>2, <2>3
  <2>5. IsMonitored(Tail(Up), object[n].addr, enabled')
    BY <1>7, <2>1, <2>4, MonitorRead
  <2> QED
    BY <1>6, <2>5
<1>9. Settled'
  <2> SUFFICES ASSUME Together, NEW n \in Name, object[n].addr # None, object[n].addr = address[n],
                      ~raced[n]
               PROVE  Settles(Up', Down', object[n].addr, object[n].value, value[n])
    BY <1>1, <1>6 DEF Settled
  <2>1. Settles(Up, Down, object[n].addr, object[n].value, value[n])
    BY <1>a DEF Settled
  <2>2. \A a : m \notin Requests(a, {"sync"}) /\ m \notin Requests(a, {"values"})
    BY <1>2 DEF Requests, IsType
  <2>3. Settles(Tail(Up), Down, object[n].addr, object[n].value, value[n])
    BY <1>7, <2>1, <2>2, SettlesRead
  <2> QED
    BY <1>6, <2>3
<1> QED
  BY <1>6, <1>8, <1>9 DEF Inv

\* The server is asked for the values of an object: it reports what it has, if it has one.
LEMMA SyncInv ==
  ASSUME Inv, ServerReceive, Head(ToServer).type = "sync"
  PROVE  Inv'
<1>a. Types /\ Versions /\ Monitors /\ Settled
  BY DEF Inv
<1>1. /\ ToServer # <<>>
      /\ UNCHANGED <<address, nextAddress, clientVars, linkVars, writes, raced>>
      /\ wire' = IF ObjectAt(Head(ToServer).about.addr) = {} THEN Read
                 ELSE Answered(Encoded("server", "values",
                        [addr  |-> Head(ToServer).about.addr,
                         value |-> value[CHOOSE n \in ObjectAt(Head(ToServer).about.addr) : TRUE]]))
      /\ UNCHANGED <<dataVersion, enabled, value>>
  BY DEF ServerReceive, Read, Answered
<1>2. PICK m \in ServerMessage : /\ m = Head(ToServer) /\ m \in AgreedToServer(dataVersion["server"])
                                 /\ m.type = "sync"
  BY <1>1, ServerTakes
<1>3. PICK b \in Nat : b = m.about.addr
  BY FieldsTyped
<1>4. dataVersion \in [Side -> Version] /\ dataVersion["server"] = High
      /\ value' \in [Name -> Nat] /\ enabled' \subseteq Nat /\ b # None
  BY <1>a, <1>1, <1>2, <1>3 DEF Types, AgreedToServer, PayloadVersions
<1>5. Together => /\ Up \in Seq(ServerMessage) /\ Up # <<>> /\ Head(Up) = m
                  /\ Down \in Seq(ClientMessage)
  BY <1>1, <1>2, ServerTakes
<1>6. ASSUME NEW n \in Name, Together, object[n].addr # None, object[n].addr = address[n]
      PROVE  /\ IsMonitored(Tail(Up), object[n].addr, enabled)
             /\ ~raced[n] => Settles(Up, Down, object[n].addr, object[n].value, value[n])
             /\ m \notin Requests(object[n].addr, {"values"})
             /\ m \in Requests(object[n].addr, {"sync"}) <=> object[n].addr = b
             /\ ObjectAt(object[n].addr) = {n}
  <2>1. IsMonitored(Up, object[n].addr, enabled)
    BY <1>a, <1>6 DEF Monitors
  <2>2. m \notin Monitoring(object[n].addr) /\ m \notin Requests(object[n].addr, {"monitored"})
        /\ m \notin Requests(object[n].addr, {"values"})
        /\ (m \in Requests(object[n].addr, {"sync"}) <=> object[n].addr = b)
    BY <1>2, <1>3 DEF Monitoring, Requests, IsType
  <2>3. IsMonitored(Tail(Up), object[n].addr, enabled)
    BY <1>5, <1>6, <2>1, <2>2, MonitorRead
  <2> QED
    BY <1>a, <1>6, <2>2, <2>3, ObjectAtIs DEF Settled
<1>7. CASE ObjectAt(b) = {}
  <2>1. wire' = Read
    BY <1>1, <1>2, <1>3, <1>7
  <2>2. /\ Types' /\ Link' /\ Owned' /\ Versions' /\ Names'
        /\ Together => Up' = Tail(Up) /\ Down' = Down
        /\ Together' = Together /\ object' = object /\ raced' = raced /\ address' = address
    BY <1>1, <1>4, <2>1, ServerOnlyReads
  <2>3. Monitors'
    BY <1>1, <1>6, <2>2 DEF Monitors
  <2>4. Settled'
    <3> SUFFICES ASSUME Together, NEW n \in Name, object[n].addr # None,
                        object[n].addr = address[n], ~raced[n]
                 PROVE  Settles(Up', Down', object[n].addr, object[n].value, value[n])
      BY <1>1, <2>2 DEF Settled
    <3>1. m \notin Requests(object[n].addr, {"sync"}) /\ m \notin Requests(object[n].addr, {"values"})
      BY <1>6, <1>7
    <3>2. Settles(Up, Down, object[n].addr, object[n].value, value[n])
      BY <1>6
    <3>3. Settles(Tail(Up), Down, object[n].addr, object[n].value, value[n])
      BY <1>5, <3>1, <3>2, SettlesRead
    <3> QED
      BY <2>2, <3>3
  <2> QED
    BY <2>2, <2>3, <2>4 DEF Inv
<1>8. CASE ObjectAt(b) # {}
  <2>1. PICK o \in Name : o = CHOOSE n \in ObjectAt(b) : TRUE
    BY <1>8 DEF ObjectAt
  <2>2. PICK v \in Nat : v = value[o]
    BY <1>a DEF Types
  <2>3. PICK e : e = Encoded("server", "values", [addr |-> b, value |-> v])
    OBVIOUS
  <2>4. /\ e \in ClientMessage /\ e.type = "values" /\ e.about.addr = b /\ e.about.value = v
        /\ e \in AgreedToClient(dataVersion'["server"])
    <3>1. e \in ClientMessage
      BY <1>a, <2>1, <2>3, MessagesTyped
    <3> QED
      BY <1>1, <1>4, <2>3, <3>1 DEF Encoded, AgreedToClient
  <2>5. PICK answered \in BOOLEAN : answered
    OBVIOUS
  <2>6. wire' = IF answered THEN Answered(e) ELSE Read
    BY <1>1, <1>2, <1>3, <1>8, <2>1, <2>2, <2>3, <2>5
  <2>7. /\ dataVersion' \in [Side -> Version] /\ dataVersion'["client"] = dataVersion["client"]
        /\ dataVersion'["server"] = High
    BY <1>1, <1>4
  <2>8. /\ Types' /\ Link' /\ Owned' /\ Versions' /\ Names'
        /\ Together => /\ Up' = Tail(Up)
                       /\ Down' = IF answered THEN Append(Down, e) ELSE Down
        /\ Together' = Together /\ object' = object /\ raced' = raced /\ address' = address
    BY <1>1, <1>4, <2>4, <2>6, <2>7, ServerReads
  <2>9. Together => Up' = Tail(Up) /\ Down' = Append(Down, e)
    BY <2>5, <2>8
  <2>10. Monitors'
    BY <1>1, <1>6, <2>8 DEF Monitors
  <2>11. Settled'
    <3> SUFFICES ASSUME Together, NEW n \in Name, object[n].addr # None,
                        object[n].addr = address[n], ~raced[n]
                 PROVE  Settles(Up', Down', object[n].addr, object[n].value, value[n])
      BY <1>1, <2>8 DEF Settled
    <3>1. Settles(Up, Down, object[n].addr, object[n].value, value[n])
          /\ m \notin Requests(object[n].addr, {"values"})
      BY <1>6
    <3>2. CASE object[n].addr = b
      <4>1. m \in Requests(object[n].addr, {"sync"})
        BY <1>6, <3>2
      <4>2. o = n
        BY <1>6, <2>1, <3>2
      <4>3. e \in Reported(object[n].addr, value[n])
        BY <2>2, <2>4, <3>2, <4>2 DEF Reported, Reports, IsType
      <4>4. Settles(Tail(Up), Append(Down, e), object[n].addr, object[n].value, value[n])
        BY <1>5, <3>1, <4>1, <4>3, SettlesRead
      <4> QED
        BY <2>9, <4>4
    <3>3. CASE object[n].addr # b
      <4>1. m \notin Requests(object[n].addr, {"sync"}) /\ e \notin Reports(object[n].addr)
        BY <1>6, <2>4, <3>3 DEF Reports, IsType
      <4>2. Settles(Tail(Up), Down, object[n].addr, object[n].value, value[n])
        BY <1>5, <3>1, <4>1, SettlesRead
      <4>3. Settles(Tail(Up), Append(Down, e), object[n].addr, object[n].value, value[n])
        BY <1>5, <2>4, <4>1, <4>2, SettlesDown
      <4> QED
        BY <2>9, <4>3
    <3> QED
      BY <3>2, <3>3
  <2> QED
    BY <2>8, <2>10, <2>11 DEF Inv
<1> QED
  BY <1>7, <1>8

\* The client has written a property.
LEMMA ValuesInv ==
  ASSUME Inv, ServerReceive, Head(ToServer).type = "values"
  PROVE  Inv'
<1>a. Types /\ Versions /\ Monitors /\ Settled
  BY DEF Inv
<1>1. /\ ToServer # <<>>
      /\ UNCHANGED <<address, nextAddress, clientVars, linkVars, writes, raced>>
      /\ wire' = Read
      /\ value' = [n \in Name |-> IF n \in ObjectAt(Head(ToServer).about.addr)
                                  THEN Head(ToServer).about.value ELSE value[n]]
      /\ UNCHANGED <<dataVersion, enabled>>
  BY DEF ServerReceive, Read
<1>2. PICK m \in ServerMessage : m = Head(ToServer) /\ m.type = "values"
  BY <1>1, ServerTakes
<1>3. PICK b \in Nat, w \in Nat : b = m.about.addr /\ w = m.about.value
  BY <1>2, FieldsTyped
<1>4. /\ value' \in [Name -> Nat] /\ enabled' \subseteq Nat
      /\ enabled' # {} => dataVersion["server"] = High
      /\ \A n \in Name : value'[n] = IF n \in ObjectAt(b) THEN w ELSE value[n]
  BY <1>a, <1>1, <1>2, <1>3 DEF Types, Versions
<1>5. Together => /\ Up \in Seq(ServerMessage) /\ Up # <<>> /\ Head(Up) = m
                  /\ Down \in Seq(ClientMessage)
  BY <1>1, <1>2, ServerTakes
<1>6. /\ Types' /\ Link' /\ Owned' /\ Versions' /\ Names'
      /\ Together => Up' = Tail(Up) /\ Down' = Down
      /\ Together' = Together /\ object' = object /\ raced' = raced /\ address' = address
  BY <1>1, <1>4, ServerOnlyReads
<1>7. Monitors'
  <2> SUFFICES ASSUME Together, NEW n \in Name, object[n].addr # None, object[n].addr = address[n]
               PROVE  IsMonitored(Up', object[n].addr, enabled)
    BY <1>1, <1>6 DEF Monitors
  <2>1. IsMonitored(Up, object[n].addr, enabled)
    BY <1>a DEF Monitors
  <2>2. m \notin Monitoring(object[n].addr) /\ m \notin Requests(object[n].addr, {"monitored"})
    BY <1>2 DEF Monitoring, Requests, IsType
  <2>3. IsMonitored(Tail(Up), object[n].addr, enabled)
    BY <1>5, <2>1, <2>2, MonitorRead
  <2> QED
    BY <1>6, <2>3
<1>8. Settled'
  <2> SUFFICES ASSUME Together, NEW n \in Name, object[n].addr # None, object[n].addr = address[n],
                      ~raced[n]
               PROVE  Settles(Up', Down', object[n].addr, object[n].value, value'[n])
    BY <1>6 DEF Settled
  <2>1. Settles(Up, Down, object[n].addr, object[n].value, value[n])
    BY <1>a DEF Settled
  <2>2. ObjectAt(object[n].addr) = {n}
    BY ObjectAtIs
  <2>3. CASE object[n].addr = b
    <3>1. value'[n] = w /\ m \in Requests(object[n].addr, {"values"})
      BY <1>2, <1>3, <1>4, <2>2, <2>3 DEF Requests, IsType
    <3>2. Settles(Tail(Up), Down, object[n].addr, object[n].value, w)
      BY <1>3, <1>5, <2>1, <3>1, SettlesRead
    <3> QED
      BY <1>6, <3>1, <3>2
  <2>4. CASE object[n].addr # b
    <3>1. value'[n] = value[n]
      BY <1>4, <2>4 DEF ObjectAt
    <3>2. m \notin Requests(object[n].addr, {"sync"}) /\ m \notin Requests(object[n].addr, {"values"})
      BY <1>2, <1>3, <2>4 DEF Requests, IsType
    <3>3. Settles(Tail(Up), Down, object[n].addr, object[n].value, value[n])
      BY <1>5, <2>1, <3>2, SettlesRead
    <3> QED
      BY <1>6, <3>1, <3>3
  <2> QED
    BY <2>3, <2>4
<1> QED
  BY <1>6, <1>7, <1>8 DEF Inv

LEMMA ServerReceiveInv ==
  ASSUME Inv, ServerReceive
  PROVE  Inv'
<1>1. Head(ToServer) \in ServerMessage
  BY ServerTakes DEF ServerReceive
<1>2. Head(ToServer).type \in {"negotiate", "monitored", "unmonitored", "sync", "values"}
  BY <1>1, FieldsTyped
<1> QED
  BY <1>2, NegotiateInv, MonitoringInv, SyncInv, ValuesInv

-----------------------------------------------------------------------------
(***************************************************************************)
(* The client reads a message.                                             *)
(***************************************************************************)

LEMMA NameRead ==
  ASSUME NEW r \in Seq(ClientMessage), r # <<>>, NEW n, NEW k, NEW a, NameTold(r, n, k, a)
  PROVE  NameTold(Tail(r), n, IF Head(r) \in Telling(n) THEN AddressIn(Head(r), n) ELSE k, a)
<1>1. /\ \A M : NoneIn(r, M) <=> NoneIn(Tail(r), M) /\ Head(r) \notin M
      /\ \A M, L : LastIn(r, M, L) =>
           LastIn(Tail(r), M, L) \/ (Head(r) \in L /\ NoneIn(Tail(r), M))
  BY TailOne
<1>2. \A m \in TellingThat(n, a) : m \in Telling(n) /\ AddressIn(m, n) = a
  BY DEF TellingThat
<1> QED
  BY <1>1, <1>2 DEF NameTold

LEMMA SettlesTold ==
  ASSUME NEW q, NEW r \in Seq(ClientMessage), r # <<>>, NEW a, NEW v, NEW w,
         Settles(q, r, a, v, w)
  PROVE  Settles(q, Tail(r), a, IF Head(r) \in Reports(a) THEN Head(r).about.value ELSE v, w)
<1>1. /\ \A M : NoneIn(r, M) <=> NoneIn(Tail(r), M) /\ Head(r) \notin M
      /\ \A M, L : LastIn(r, M, L) =>
           LastIn(Tail(r), M, L) \/ (Head(r) \in L /\ NoneIn(Tail(r), M))
  BY TailOne
<1>2. \A m \in Reported(a, w) : m \in Reports(a) /\ m.about.value = w
  BY DEF Reported
<1>3. CASE LastIn(q, Requests(a, {"values"}), Requests(a, {"sync"}))
  BY <1>3 DEF Settles
<1>4. CASE /\ NoneIn(q, Requests(a, {"sync"})) /\ NoneIn(r, Reports(a))
           /\ LastIn(q, Requests(a, {"values"}), Written(a, v))
  BY <1>1, <1>4 DEF Settles
<1>5. CASE /\ NoneIn(q, Requests(a, {"sync"})) /\ NoneIn(q, Requests(a, {"values"}))
           /\ (NoneIn(r, Reports(a)) /\ v = w) \/ LastIn(r, Reports(a), Reported(a, w))
  <2>1. CASE NoneIn(r, Reports(a)) /\ v = w
    BY <1>1, <1>5, <2>1 DEF Settles
  <2>2. CASE LastIn(r, Reports(a), Reported(a, w))
    <3>1. LastIn(Tail(r), Reports(a), Reported(a, w))
            \/ (NoneIn(Tail(r), Reports(a)) /\ Head(r) \in Reports(a) /\ Head(r).about.value = w)
      BY <1>1, <1>2, <2>2
    <3> QED
      BY <1>5, <3>1 DEF Settles
  <2> QED
    BY <1>5, <2>1, <2>2
<1> QED
  BY <1>3, <1>4, <1>5 DEF Settles

\* What the wire is when the client has read a message, and when it has asked for more.
ReadByClient == [wire EXCEPT ![socket["client"]].toClient = Tail(@)]
Asked(e)     == [ReadByClient EXCEPT ![socket["client"]].toServer = Append(@, e)]

LEMMA ClientTakes ==
  ASSUME Inv, ToClient # <<>>
  PROVE  /\ socket["client"] \in Connection /\ socket["client"] \in accepted
         /\ socket["client"] # None /\ ToClient = Down /\ Down # <<>>
         /\ Up \in Seq(ServerMessage) /\ Down \in Seq(ClientMessage)
         /\ Head(ToClient) \in AgreedToClient(dataVersion["server"])
         /\ Head(ToClient) \in ClientMessage
         /\ \A owner : OwnedBy(owner) => Head(ToClient) \in Tidings(owner)
<1>a. Types /\ Link /\ Versions
  BY DEF Inv
<1>1. socket["client"] # None
  BY DEF ToClient
<1>2. PICK c \in Connection : c = socket["client"]
  BY <1>a, <1>1, SocketOpen, Sides
<1>3. ToClient = Down /\ Down = wire[c].toClient
  BY <1>1, <1>2 DEF ToClient, Down
<1>4. c \in accepted
  BY <1>a, <1>3 DEF Link
<1>5. Up \in Seq(ServerMessage) /\ Down \in Seq(ClientMessage)
  BY <1>a, <1>2, QueuesTyped DEF Up, Down
<1>6. Head(ToClient) \in AgreedToClient(dataVersion["server"])
  <2>1. ToClient \in Seq(AgreedToClient(dataVersion["server"]))
    BY <1>a, <1>3 DEF Versions
  <2> QED
    BY <2>1, TailOne
<1>7. ASSUME NEW owner, OwnedBy(owner)
      PROVE  Head(ToClient) \in Tidings(owner)
  <2>1. ToClient \in Seq(Tidings(owner))
    BY <1>3, <1>7 DEF OwnedBy
  <2> QED
    BY <2>1, TailOne
<1> QED
  BY <1>1, <1>2, <1>3, <1>4, <1>5, <1>6, <1>7 DEF AgreedToClient

LEMMA ToldIs ==
  ASSUME Inv, ToClient # <<>>, NEW e \in ServerMessage, NEW asked \in BOOLEAN,
         wire' = IF asked THEN Asked(e) ELSE ReadByClient
  PROVE  /\ wire' \in [Connection -> Wire]
         /\ \A c \in Connection : c # socket["client"] =>
              wire'[c].toServer = wire[c].toServer /\ wire'[c].toClient = wire[c].toClient
         /\ wire'[socket["client"]].toClient = Tail(wire[socket["client"]].toClient)
         /\ wire'[socket["client"]].toServer =
              IF asked THEN Append(wire[socket["client"]].toServer, e)
              ELSE wire[socket["client"]].toServer
<1>1. PICK c \in Connection : c = socket["client"]
  BY ClientTakes
<1>2. wire[c].toServer \in Seq(ServerMessage) /\ wire[c].toClient \in Seq(ClientMessage)
      /\ wire \in [Connection -> Wire]
  BY QueuesTyped DEF Inv
<1>3. PICK t \in Seq(ClientMessage) : t = Tail(wire[c].toClient)
  <2>1. wire[c].toClient # <<>>
    BY <1>1, ClientTakes DEF ToClient
  <2> QED
    BY <1>2, <2>1, TailOne
<1>4. PICK u : u = WithDown(wire, c, t)
  OBVIOUS
<1>5. /\ u \in [Connection -> Wire]
      /\ \A d \in Connection : u[d].toServer = wire[d].toServer
      /\ u[c].toClient = t
      /\ \A d \in Connection : d # c => u[d].toClient = wire[d].toClient
  BY <1>2, <1>4, PutToClient
<1>6. ReadByClient = u
  BY <1>1, <1>3, <1>4 DEF ReadByClient, WithDown
<1>7. CASE ~asked
  BY <1>1, <1>3, <1>5, <1>6, <1>7
<1>8. CASE asked
  <2>1. PICK d \in Seq(ServerMessage) : d = Append(wire[c].toServer, e)
    <3>1. Append(wire[c].toServer, e) \in Seq(ServerMessage)
      BY <1>2, AppendOne
    <3> QED
      BY <3>1
  <2>2. u[c].toServer = wire[c].toServer
    BY <1>5
  <2>3. Asked(e) = WithUp(u, c, d)
    BY <1>1, <1>6, <2>1, <2>2 DEF Asked, WithUp
  <2>4. LET x == WithUp(u, c, d) IN
        /\ x \in [Connection -> Wire]
        /\ \A b \in Connection : x[b].toClient = u[b].toClient
        /\ x[c].toServer = d
        /\ \A b \in Connection : b # c => x[b].toServer = u[b].toServer
    BY <1>5, PutToServer
  <2> QED
    BY <1>1, <1>3, <1>5, <1>8, <2>1, <2>3, <2>4
<1> QED
  BY <1>7, <1>8

\* A message that is read has the effect it tells of, and the rest of them is still true.
LEMMA ClientReads ==
  ASSUME Inv, ToClient # <<>>, NEW e \in ServerMessage, NEW asked \in BOOLEAN,
         wire' = IF asked THEN Asked(e) ELSE ReadByClient, e.type = "negotiate",
         UNCHANGED <<linkVars, serverVars, writes, raced>>,
         dataVersion' \in [Side -> Version], dataVersion'["server"] = dataVersion["server"],
         dataVersion["client"] = High => dataVersion'["client"] = High,
         dataVersion'["client"] = High => dataVersion["server"] = High,
         initState' \subseteq InitSteps, "data" \in initState' => dataVersion'["client"] = High,
         NEW m \in ClientMessage, m = Head(ToClient),
         known' \in [Name -> Nat],
         \A n \in Name : known'[n] = IF m \in Telling(n) THEN AddressIn(m, n) ELSE known[n],
         object' \in [Name -> Object],
         \A n \in Name :
           /\ object'[n].addr = object[n].addr
           /\ object'[n].value = IF m \in Reports(object[n].addr) THEN m.about.value
                                 ELSE object[n].value
  PROVE  Inv'
<1>a. Types /\ Link /\ Owned /\ Versions /\ Names /\ Monitors /\ Settled
  BY DEF Inv
<1>1. PICK c \in Connection :
        /\ c = socket["client"] /\ c \in accepted
        /\ wire' \in [Connection -> Wire]
        /\ \A d \in Connection : d # c =>
             wire'[d].toServer = wire[d].toServer /\ wire'[d].toClient = wire[d].toClient
        /\ wire'[c].toClient = Tail(wire[c].toClient)
        /\ wire'[c].toServer = IF asked THEN Append(wire[c].toServer, e)
                               ELSE wire[c].toServer
  BY ClientTakes, ToldIs
<1>2. /\ Down = wire[c].toClient /\ Up = wire[c].toServer /\ Down # <<>> /\ Head(Down) = m
      /\ Up \in Seq(ServerMessage) /\ Down \in Seq(ClientMessage)
  BY <1>1, ClientTakes DEF Up, Down
<1>3. Types'
  BY <1>a, <1>1 DEF Types, linkVars, serverVars
<1>4. Link'
  BY <1>a, <1>1, LinkKept
<1>5. Owned'
  <2>1. PICK owner \in [1..nextAddress -> Name] : OwnedBy(owner)
    BY <1>a DEF Owned
  <2>2. m \in Tidings(owner)
    BY <2>1, ClientTakes
  <2>3. \A n \in Name : Fits(owner, n, known'[n])
    <3> TAKE n \in Name
    <3>1. CASE m \in Telling(n)
      <4>1. CASE m.type = "map"
        BY <2>2, <3>1, <4>1 DEF Tidings, AddressIn
      <4>2. CASE m.type = "added"
        BY <2>2, <3>1, <4>2 DEF Tidings, Telling, Tells, AddressIn
      <4>3. CASE m.type = "removed"
        BY <3>1, <4>3 DEF Fits, AddressIn
      <4> QED
        BY <3>1, <4>1, <4>2, <4>3 DEF Telling, Tells
    <3>2. CASE m \notin Telling(n)
      BY <2>1, <3>2 DEF OwnedBy
    <3> QED
      BY <3>1, <3>2
  <2>4. \A d \in Connection : wire'[d].toClient \in Seq(Tidings(owner))
    <3> TAKE d \in Connection
    <3>1. wire[d].toClient \in Seq(Tidings(owner)) /\ wire[c].toClient \in Seq(Tidings(owner))
      BY <2>1 DEF OwnedBy
    <3>2. Tail(wire[c].toClient) \in Seq(Tidings(owner))
      BY <1>2, <3>1, TailOne
    <3> QED
      BY <1>1, <3>1, <3>2
  <2>5. \A n \in Name : Fits(owner, n, address'[n]) /\ Fits(owner, n, object'[n].addr)
    BY <2>1 DEF OwnedBy, serverVars
  <2> QED
    BY <2>1, <2>3, <2>4, <2>5, OwnedKept DEF serverVars
<1>6. Versions'
  <2>1. \A d \in Connection : wire'[d].toServer \in Seq(AgreedToServer(dataVersion["server"]))
    <3> TAKE d \in Connection
    <3>1. wire[d].toServer \in Seq(AgreedToServer(dataVersion["server"]))
      BY <1>a DEF Versions
    <3>2. e \in AgreedToServer(dataVersion["server"])
      BY DEF AgreedToServer, PayloadVersions
    <3>3. wire'[d].toServer = wire[d].toServer \/ wire'[d].toServer = Append(wire[d].toServer, e)
      BY <1>1
    <3> QED
      BY <3>1, <3>2, <3>3, SentKeeps
  <2>2. \A d \in Connection : wire'[d].toClient \in Seq(AgreedToClient(dataVersion["server"]))
    <3> TAKE d \in Connection
    <3>1. /\ wire[d].toClient \in Seq(AgreedToClient(dataVersion["server"]))
          /\ wire[c].toClient \in Seq(AgreedToClient(dataVersion["server"]))
      BY <1>a DEF Versions
    <3>2. Tail(wire[c].toClient) \in Seq(AgreedToClient(dataVersion["server"]))
      BY <1>2, <3>1, TailOne
    <3> QED
      BY <1>1, <3>1, <3>2
  <2> QED
    BY <1>a, <2>1, <2>2 DEF Versions, serverVars
<1>7. /\ Down' = Tail(Down) /\ (Up' = Up \/ Up' = Append(Up, e))
      /\ Together' = Together /\ compatible' = compatible /\ address' = address
      /\ value' = value /\ enabled' = enabled /\ raced' = raced
  <2>1. Up' = wire'[socket["client"]].toServer /\ Down' = wire'[socket["client"]].toClient
        /\ Together' = Together /\ compatible' = compatible
    BY SameEnds
  <2> QED
    BY <1>1, <1>2, <2>1 DEF serverVars
<1>8. Names'
  <2> SUFFICES ASSUME Together, compatible, NEW n \in Name
               PROVE  NameTold(Down', n, known'[n], address[n])
    BY <1>7 DEF Names
  <2>1. NameTold(Down, n, known[n], address[n])
    BY <1>a DEF Names
  <2>2. NameTold(Tail(Down), n, IF m \in Telling(n) THEN AddressIn(m, n) ELSE known[n], address[n])
    BY <1>2, <2>1, NameRead
  <2> QED
    BY <1>7, <2>2
<1>9. Monitors'
  <2> SUFFICES ASSUME Together, NEW n \in Name, object[n].addr # None, object[n].addr = address[n]
               PROVE  IsMonitored(Up', object[n].addr, enabled)
    BY <1>7 DEF Monitors
  <2>1. IsMonitored(Up, object[n].addr, enabled)
    BY <1>a DEF Monitors
  <2>2. e \notin Monitoring(object[n].addr)
    BY DEF Monitoring, Requests, IsType
  <2>3. IsMonitored(Append(Up, e), object[n].addr, enabled)
    BY <1>2, <2>1, <2>2, MonitorKept
  <2> QED
    BY <1>7, <2>1, <2>3
<1>10. Settled'
  <2> SUFFICES ASSUME Together, NEW n \in Name, object[n].addr # None, object[n].addr = address[n],
                      ~raced[n]
               PROVE  Settles(Up', Down', object[n].addr, object'[n].value, value[n])
    BY <1>7 DEF Settled
  <2>1. Settles(Up, Down, object[n].addr, object[n].value, value[n])
    BY <1>a DEF Settled
  <2>2. PICK v : v = IF m \in Reports(object[n].addr) THEN m.about.value ELSE object[n].value
    OBVIOUS
  <2>3. Settles(Up, Tail(Down), object[n].addr, v, value[n])
    BY <1>2, <2>1, <2>2, SettlesTold
  <2>4. e \notin Requests(object[n].addr, {"sync"}) /\ e \notin Requests(object[n].addr, {"values"})
    BY DEF Requests, IsType
  <2>5. Settles(Append(Up, e), Tail(Down), object[n].addr, v, value[n])
    BY <1>2, <2>3, <2>4, SettlesUp
  <2>6. object'[n].value = v
    BY <2>2
  <2> QED
    BY <1>7, <2>3, <2>5, <2>6
<1> QED
  BY <1>3, <1>4, <1>5, <1>6, <1>8, <1>9, <1>10 DEF Inv

\* A message that tells of no name and reports no value: the greeting's, and the answer to
\* the negotiation.
LEMMA ClientStepsOn ==
  ASSUME Inv, ToClient # <<>>, NEW e \in ServerMessage, NEW asked \in BOOLEAN,
         wire' = IF asked THEN Asked(e) ELSE ReadByClient, e.type = "negotiate",
         UNCHANGED <<linkVars, serverVars, writes, raced, known, object>>,
         NEW m \in ClientMessage, m = Head(ToClient),
         m.type \in {"version", "info", "negotiated"},
         NEW step \in InitSteps, initState' = initState \cup {step},
         step = "data" => m.type = "negotiated",
         dataVersion' = IF m.type = "negotiated"
                        THEN [dataVersion EXCEPT !["client"] = m.about.version]
                        ELSE dataVersion
  PROVE  Inv'
<1>a. Types /\ Versions
  BY DEF Inv
<1>1. m.type = "negotiated" => m.about.version = High /\ dataVersion["server"] = High
  BY ClientTakes, FieldsTyped DEF AgreedToClient
<1>2. /\ dataVersion' \in [Side -> Version] /\ dataVersion'["server"] = dataVersion["server"]
      /\ m.type = "negotiated" => dataVersion'["client"] = High
      /\ m.type # "negotiated" => dataVersion'["client"] = dataVersion["client"]
  BY <1>a, <1>1 DEF Types, Side, Version
<1>3. /\ dataVersion["client"] = High => dataVersion'["client"] = High
      /\ dataVersion'["client"] = High => dataVersion["server"] = High
      /\ "data" \in initState' => dataVersion'["client"] = High
      /\ initState' \subseteq InitSteps
  BY <1>a, <1>1, <1>2 DEF Types, Versions
<1>4. /\ known' \in [Name -> Nat] /\ object' \in [Name -> Object]
      /\ \A n \in Name : m \notin Telling(n) /\ known'[n] = known[n]
      /\ \A a : m \notin Reports(a)
      /\ \A n \in Name : object'[n] = object[n]
  BY <1>a DEF Types, Telling, Tells, Reports, IsType
<1> QED
  BY <1>2, <1>3, <1>4, ClientReads

LEMMA SomeNegotiation ==
  \E e \in ServerMessage : e.type = "negotiate"
<1> DEFINE e == [type |-> "negotiate", about |-> [addr |-> None, version |-> High], enc |-> High]
<1>1. e \in ServerMessage /\ e.type = "negotiate"
  BY DEF ServerMessage, Version
<1> QED
  BY <1>1

LEMMA GreetedInv ==
  ASSUME Inv, ClientReceive, Head(ToClient).type \in {"version", "info", "negotiated"}
  PROVE  Inv'
<1>1. PICK m \in ClientMessage : m = Head(ToClient) /\ ToClient # <<>>
  BY ClientTakes DEF ClientReceive
<1>2. UNCHANGED <<opened, accepted, compatible, serverVars, writes, raced>>
  BY DEF ClientReceive
<1>3. "version" \in InitSteps /\ "info" \in InitSteps /\ "data" \in InitSteps
  BY DEF InitSteps
<1>4. CASE m.type = "version"
  <2>1. initState' = initState \cup {"version"} /\ UNCHANGED dataVersion
    BY <1>1, <1>4 DEF ClientReceive
  <2>2. CASE compatible
    <3>1. wire' = ReadByClient /\ UNCHANGED <<socket, closed, known, object>>
      BY <1>1, <1>4, <2>2 DEF ClientReceive, ReadByClient
    <3>2. PICK e \in ServerMessage : e.type = "negotiate"
      BY SomeNegotiation
    <3>3. PICK asked \in BOOLEAN : ~asked
      OBVIOUS
    <3>4. wire' = IF asked THEN Asked(e) ELSE ReadByClient
      BY <3>1, <3>3
    <3>5. UNCHANGED <<linkVars, serverVars, writes, raced, known, object>>
      BY <1>2, <3>1 DEF linkVars
    <3>6. dataVersion' = IF m.type = "negotiated"
                         THEN [dataVersion EXCEPT !["client"] = m.about.version]
                         ELSE dataVersion
      BY <1>4, <2>1
    <3> QED
      BY <1>1, <1>3, <1>4, <2>1, <3>2, <3>4, <3>5, <3>6, ClientStepsOn
  <2>3. CASE ~compatible
    <3>1. /\ wire' = [wire EXCEPT ![socket["client"]].toClient = <<>>]
          /\ closed' = closed \cup {socket["client"]} /\ ClientGone
      BY <1>1, <1>4, <2>3 DEF ClientReceive
    <3>2. PICK c \in Connection : c = socket["client"] /\ c \in 1..opened
      BY <1>1, ClientTakes, SocketOpen, Sides DEF Inv
    <3>3. wire' = WithDown(wire, c, <<>>) /\ closed' = closed \cup {c}
      BY <3>1, <3>2 DEF WithDown
    <3>4. initState' \subseteq InitSteps /\ ("data" \in initState' => "data" \in initState)
      BY <1>3, <2>1 DEF Inv, Types
    <3> QED
      BY <1>2, <2>1, <3>1, <3>2, <3>3, <3>4, ClientLeaves
  <2> QED
    BY <2>2, <2>3
<1>5. CASE m.type = "info"
  <2>1. /\ initState' = initState \cup {"info"}
        /\ UNCHANGED <<socket, closed, known, object, dataVersion>>
        /\ wire' = Asked(Encoded("client", "negotiate", [addr |-> None, version |-> High]))
    BY <1>1, <1>5 DEF ClientReceive, Asked, ReadByClient
  <2>2. PICK e : e = Encoded("client", "negotiate", [addr |-> None, version |-> High])
    OBVIOUS
  <2>3. e \in ServerMessage /\ e.type = "negotiate"
    <3>1. dataVersion["client"] \in Version
      BY Sides DEF Inv, Types
    <3> QED
      BY <2>2, <3>1 DEF Encoded, ServerMessage
  <2>4. PICK asked \in BOOLEAN : asked
    OBVIOUS
  <2>5. wire' = IF asked THEN Asked(e) ELSE ReadByClient
    BY <2>1, <2>2, <2>4
  <2>6. UNCHANGED <<linkVars, serverVars, writes, raced, known, object>>
    BY <1>2, <2>1 DEF linkVars
  <2>7. dataVersion' = IF m.type = "negotiated"
                       THEN [dataVersion EXCEPT !["client"] = m.about.version]
                       ELSE dataVersion
    BY <1>5, <2>1
  <2> QED
    BY <1>1, <1>3, <1>5, <2>1, <2>3, <2>5, <2>6, <2>7, ClientStepsOn
<1>6. CASE m.type = "negotiated"
  <2>1. /\ initState' = initState \cup {"data"}
        /\ UNCHANGED <<socket, closed, known, object>>
        /\ wire' = ReadByClient
        /\ dataVersion' = [dataVersion EXCEPT !["client"] = m.about.version]
    BY <1>1, <1>6 DEF ClientReceive, ReadByClient
  <2>2. PICK e \in ServerMessage : e.type = "negotiate"
    BY SomeNegotiation
  <2>3. PICK asked \in BOOLEAN : ~asked
    OBVIOUS
  <2>4. wire' = IF asked THEN Asked(e) ELSE ReadByClient
    BY <2>1, <2>3
  <2>5. UNCHANGED <<linkVars, serverVars, writes, raced, known, object>>
    BY <1>2, <2>1 DEF linkVars
  <2>6. dataVersion' = IF m.type = "negotiated"
                       THEN [dataVersion EXCEPT !["client"] = m.about.version]
                       ELSE dataVersion
    BY <1>6, <2>1
  <2> QED
    BY <1>1, <1>3, <1>6, <2>1, <2>2, <2>4, <2>5, <2>6, ClientStepsOn
<1> QED
  BY <1>1, <1>4, <1>5, <1>6

\* The client learns of names.
LEMMA ToldInv ==
  ASSUME Inv, ClientReceive, Head(ToClient).type \in {"map", "added", "removed", "values"}
  PROVE  Inv'
<1>a. Types /\ Versions
  BY DEF Inv
<1>1. PICK m \in ClientMessage : m = Head(ToClient) /\ ToClient # <<>>
  BY ClientTakes DEF ClientReceive
<1>2. /\ UNCHANGED <<opened, accepted, compatible, serverVars, writes, raced>>
      /\ UNCHANGED <<socket, closed, dataVersion>>
      /\ wire' = ReadByClient
      /\ initState' = IF m.type = "map" THEN initState \cup {"map"} ELSE initState
      /\ m.type = "map" => known' = m.about.map
      /\ m.type = "added" => known' = [known EXCEPT ![m.about.name] = m.about.addr]
      /\ m.type = "removed" => known' = [known EXCEPT ![m.about.name] = None]
      /\ m.type = "values" => known' = known
      /\ object' = IF m.type = "values"
                   THEN [n \in Name |-> IF object[n].addr = m.about.addr
                                        THEN [object[n] EXCEPT !.value = m.about.value]
                                        ELSE object[n]]
                   ELSE object
  <2>1. CASE m.type = "map"
    BY <1>1, <2>1 DEF ClientReceive, ReadByClient
  <2>2. CASE m.type = "added"
    BY <1>1, <2>2 DEF ClientReceive, ReadByClient
  <2>3. CASE m.type = "removed"
    BY <1>1, <2>3 DEF ClientReceive, ReadByClient
  <2>4. CASE m.type = "values"
    BY <1>1, <2>4 DEF ClientReceive, ReadByClient
  <2> QED
    BY <1>1, <2>1, <2>2, <2>3, <2>4
<1>3. /\ known' \in [Name -> Nat]
      /\ \A n \in Name : known'[n] = IF m \in Telling(n) THEN AddressIn(m, n) ELSE known[n]
  <2>1. known \in [Name -> Nat] /\ None \in Nat
    BY <1>a DEF Types, None
  <2>2. CASE m.type = "map"
    <3>1. m.about.map \in [Name -> Nat]
      BY <2>2, FieldsTyped
    <3> QED
      BY <1>2, <2>2, <3>1 DEF Telling, Tells, AddressIn
  <2>3. CASE m.type = "added"
    <3>1. m.about.name \in Name /\ m.about.addr \in Nat
      BY <2>3, FieldsTyped
    <3> QED
      BY <1>2, <2>1, <2>3, <3>1 DEF Telling, Tells, AddressIn
  <2>4. CASE m.type = "removed"
    <3>1. m.about.name \in Name
      BY <2>4, FieldsTyped
    <3> QED
      BY <1>2, <2>1, <2>4, <3>1 DEF Telling, Tells, AddressIn
  <2>5. CASE m.type = "values"
    BY <1>2, <2>1, <2>5 DEF Telling, Tells
  <2> QED
    BY <1>1, <2>2, <2>3, <2>4, <2>5
<1>4. /\ object' \in [Name -> Object]
      /\ \A n \in Name :
           /\ object'[n].addr = object[n].addr
           /\ object'[n].value = IF m \in Reports(object[n].addr) THEN m.about.value
                                 ELSE object[n].value
  <2>1. object \in [Name -> Object]
    BY <1>a DEF Types
  <2>2. CASE m.type = "values"
    <3>1. m.about.value \in Nat
      BY <2>2, FieldsTyped
    <3>2. \A n \in Name : object'[n] = IF object[n].addr = m.about.addr
                                       THEN [object[n] EXCEPT !.value = m.about.value]
                                       ELSE object[n]
      BY <1>2, <2>2
    <3>3. \A n \in Name : /\ object'[n] \in Object /\ object'[n].addr = object[n].addr
                          /\ object'[n].value = IF object[n].addr = m.about.addr THEN m.about.value
                                                ELSE object[n].value
      BY <2>1, <3>1, <3>2 DEF Object
    <3>4. object' \in [Name -> Object]
      BY <1>2, <2>2, <3>3
    <3> QED
      BY <2>2, <3>3, <3>4 DEF Reports, IsType
  <2>3. CASE m.type # "values"
    BY <1>2, <2>1, <2>3 DEF Reports, IsType
  <2> QED
    BY <2>2, <2>3
<1>5. /\ dataVersion' \in [Side -> Version] /\ dataVersion' = dataVersion
      /\ dataVersion'["client"] = High => dataVersion["server"] = High
      /\ initState' \subseteq InitSteps /\ ("data" \in initState' => dataVersion'["client"] = High)
  BY <1>a, <1>2 DEF Types, Versions, InitSteps
<1>6. PICK e \in ServerMessage : e.type = "negotiate"
  BY SomeNegotiation
<1>7. PICK asked \in BOOLEAN : ~asked
  OBVIOUS
<1>8. wire' = IF asked THEN Asked(e) ELSE ReadByClient
  BY <1>2, <1>7
<1>9. UNCHANGED <<linkVars, serverVars, writes, raced>>
  BY <1>2 DEF linkVars
<1> QED
  BY <1>1, <1>3, <1>4, <1>5, <1>6, <1>8, <1>9, ClientReads

LEMMA ClientReceiveInv ==
  ASSUME Inv, ClientReceive
  PROVE  Inv'
<1>1. Head(ToClient) \in ClientMessage
  BY ClientTakes DEF ClientReceive
<1>2. Head(ToClient).type \in {"version", "info", "map", "negotiated", "added", "removed", "values"}
  BY <1>1, FieldsTyped
<1> QED
  BY <1>2, GreetedInv, ToldInv

-----------------------------------------------------------------------------
(***************************************************************************)
(* The theorems.                                                           *)
(***************************************************************************)

(* The inductive invariant holds in every state: what is known, agreed, monitored and  *)
(* written on either side is what the messages under way make of it.                   *)
THEOREM Invariance == Spec => []Inv
<1>1. Init => Inv
  BY InitInv
<1>2. Inv /\ [Next]_vars => Inv'
  <2> SUFFICES ASSUME Inv, [Next]_vars PROVE Inv'
    OBVIOUS
  <2>1. CASE UNCHANGED vars
    <3>1. /\ UNCHANGED <<socket, opened, closed, accepted, compatible, wire, dataVersion>>
          /\ UNCHANGED <<address, nextAddress, value, enabled, known, initState, object>>
          /\ UNCHANGED <<writes, raced>>
      BY <2>1 DEF vars, linkVars, serverVars, clientVars
    <3>2. Types' /\ Link' /\ Owned' /\ Versions'
      BY <3>1 DEF Inv, Types, Link, Owned, OwnedBy, Versions
    <3>3. Names' /\ Monitors' /\ Settled'
      BY <3>1 DEF Inv, Names, Monitors, Settled, Together, Up, Down
    <3> QED
      BY <3>2, <3>3 DEF Inv
  <2> QED
    BY <2>1, ConnectToHostInv, NewConnectionInv, DisconnectFromHostInv,
       ClientConnectionClosedInv, ServerConnectionClosedInv, RegisterObjectInv,
       ObjectDestroyedInv, ServerWriteInv, ServerReceiveInv, ClientReceiveInv,
       CreateObjectInv, DeleteObjectInv, ClientWriteInv DEF Next
<1> QED
  BY <1>1, <1>2, PTL DEF Spec

\* A last message, by its index.
LEMMA LastIndex ==
  ASSUME NEW S, NEW q \in Seq(S), NEW M, NEW L, L \subseteq M, LastIn(q, M, L)
  PROVE  \E i \in {j \in DOMAIN q : q[j] \in M} :
           q[i] \in L /\ \A j \in {k \in DOMAIN q : q[k] \in M} : j <= i
<1>1. PICK i \in DOMAIN q : q[i] \in L /\ \A j \in DOMAIN q : i < j => q[j] \notin M
  BY DEF LastIn
<1>2. \A j \in DOMAIN q : ~(i < j) => j <= i
  OBVIOUS
<1> QED
  BY <1>1, <1>2

LEMMA TogetherQueues ==
  ASSUME Inv, Together
  PROVE  /\ ToServer = Up /\ ToClient = Down
         /\ Up \in Seq(ServerMessage) /\ Down \in Seq(ClientMessage)
         /\ socket["client"] \in Connection
<1>1. /\ socket["client"] \in Connection /\ socket["server"] = socket["client"]
      /\ socket["client"] # None
  BY TogetherLinked DEF Inv
<1> QED
  BY <1>1, QueuesTyped DEF Inv, ToServer, ToClient, Up, Down

(* The client's names are the server's, or will be when it has read what is under way, *)
(* whatever is registered and destroyed during the greeting.                           *)
THEOREM NamesAgreeAlways == Spec => []NamesAgree
<1>1. Inv => NamesAgree
  <2> SUFFICES ASSUME Inv, Together, compatible, NEW n \in Name
               PROVE  LET told == {i \in DOMAIN ToClient : Tells(ToClient[i], n)}
                      IN  IF told = {} THEN known[n] = address[n]
                          ELSE \E i \in told : /\ \A j \in told : j <= i
                                               /\ AddressIn(ToClient[i], n) = address[n]
    BY DEF NamesAgree
  <2>1. ToClient = Down /\ Down \in Seq(ClientMessage)
    BY TogetherQueues
  <2>2. NameTold(Down, n, known[n], address[n])
    BY DEF Inv, Names
  <2>3. PICK told : told = {i \in DOMAIN Down : Tells(Down[i], n)}
    OBVIOUS
  <2>4. told = {i \in DOMAIN Down : Down[i] \in Telling(n)}
    <3>1. \A i \in DOMAIN Down : Down[i] \in ClientMessage
      BY <2>1
    <3> QED
      BY <2>3, <3>1 DEF Telling
  <2>5. CASE NoneIn(Down, Telling(n)) /\ known[n] = address[n]
    <3>1. told = {}
      BY <2>4, <2>5 DEF NoneIn
    <3> QED
      BY <2>1, <2>3, <2>5, <3>1
  <2>6. CASE LastIn(Down, Telling(n), TellingThat(n, address[n]))
    <3>1. PICK i \in told : Down[i] \in TellingThat(n, address[n]) /\ \A j \in told : j <= i
      BY <2>1, <2>4, <2>6, LastIndex DEF TellingThat
    <3> QED
      BY <2>1, <2>3, <3>1 DEF TellingThat
  <2> QED
    BY <2>2, <2>5, <2>6 DEF NameTold
<1> QED
  BY <1>1, Invariance, PTL

(* What is read is what was written: both sides have the same data version when a      *)
(* message of an object is encoded and when it is decoded.                             *)
THEOREM DecodedAsEncodedAlways == Spec => []DecodedAsEncoded
<1>1. Inv => DecodedAsEncoded
  <2> SUFFICES ASSUME Inv, Together PROVE DecodedAsEncoded
    BY DEF DecodedAsEncoded
  <2>a. ToServer = Up /\ ToClient = Down /\ socket["client"] \in Connection
    BY TogetherQueues
  <2>b. Versions
    BY DEF Inv
  <2>1. ToServer # <<>> /\ Head(ToServer).type \in PayloadVersions =>
          Head(ToServer).enc = dataVersion["server"]
    <3> SUFFICES ASSUME ToServer # <<>>, Head(ToServer).type \in PayloadVersions
                 PROVE  Head(ToServer).enc = dataVersion["server"]
      OBVIOUS
    <3>1. Up \in Seq(AgreedToServer(dataVersion["server"]))
      BY <2>a, <2>b DEF Versions, Up
    <3>2. Head(Up) \in AgreedToServer(dataVersion["server"])
      BY <2>a, <3>1, TailOne
    <3> QED
      BY <2>a, <3>2 DEF AgreedToServer, PayloadVersions
  <2>2. ToClient # <<>> /\ Head(ToClient).type \in PayloadVersions
          /\ (\E n \in Name : object[n].addr = Head(ToClient).about.addr) =>
          Head(ToClient).enc = dataVersion["client"]
    <3> SUFFICES ASSUME ToClient # <<>>, Head(ToClient).type \in PayloadVersions,
                        NEW n \in Name, object[n].addr = Head(ToClient).about.addr
                 PROVE  Head(ToClient).enc = dataVersion["client"]
      OBVIOUS
    <3>1. Down \in Seq(AgreedToClient(dataVersion["server"]))
      BY <2>a, <2>b DEF Versions, Down
    <3>2. Head(Down) \in AgreedToClient(dataVersion["server"])
      BY <2>a, <3>1, TailOne
    <3>3. Head(Down).type = "values"
      BY <2>a, <3>2, FieldsTyped DEF AgreedToClient, PayloadVersions
    <3>4. Head(Down).enc = High /\ object[n].addr # None
      BY <2>a, <3>2, <3>3 DEF AgreedToClient
    <3> QED
      BY <2>a, <2>b, <3>4 DEF Versions
  <2> QED
    BY <2>1, <2>2 DEF DecodedAsEncoded
<1> QED
  BY <1>1, Invariance, PTL

(* An object the client has and the server still has is monitored, or the last message *)
(* about that under way has it monitored.                                              *)
THEOREM MonitoredAlways == Spec => []Monitored
<1>1. Inv => Monitored
  <2> SUFFICES ASSUME Inv, Together, NEW n \in Name, object[n].addr # None,
                      object[n].addr = address[n]
               PROVE  LET a  == object[n].addr
                          ms == {i \in DOMAIN ToServer :
                                   IsType(ToServer[i], a, {"monitored", "unmonitored"})}
                      IN  IF ms = {} THEN a \in enabled
                          ELSE \E i \in ms : /\ \A j \in ms : j <= i
                                             /\ ToServer[i].type = "monitored"
    BY DEF Monitored
  <2>1. ToServer = Up /\ Up \in Seq(ServerMessage)
    BY TogetherQueues
  <2>2. PICK a : a = object[n].addr
    OBVIOUS
  <2>3. IsMonitored(Up, a, enabled)
    BY <2>2 DEF Inv, Monitors
  <2>4. PICK ms : ms = {i \in DOMAIN Up : IsType(Up[i], a, {"monitored", "unmonitored"})}
    OBVIOUS
  <2>5. ms = {i \in DOMAIN Up : Up[i] \in Monitoring(a)}
    <3>1. \A i \in DOMAIN Up : Up[i] \in ServerMessage
      BY <2>1
    <3> QED
      BY <2>4, <3>1 DEF Monitoring, Requests
  <2>6. CASE NoneIn(Up, Monitoring(a)) /\ a \in enabled
    <3>1. ms = {}
      BY <2>5, <2>6 DEF NoneIn
    <3> QED
      BY <2>1, <2>2, <2>4, <2>6, <3>1
  <2>7. CASE LastIn(Up, Monitoring(a), Requests(a, {"monitored"}))
    <3>1. PICK i \in ms : Up[i] \in Requests(a, {"monitored"}) /\ \A j \in ms : j <= i
      <4>1. Requests(a, {"monitored"}) \subseteq Monitoring(a)
        BY DEF Monitoring, Requests, IsType
      <4> QED
        BY <2>1, <2>5, <2>7, <4>1, LastIndex
    <3>2. Up[i].type = "monitored"
      BY <3>1 DEF Requests, IsType
    <3> QED
      BY <2>1, <2>2, <2>4, <3>1, <3>2
  <2> QED
    BY <2>3, <2>6, <2>7 DEF IsMonitored
<1> QED
  BY <1>1, Invariance, PTL

(* When nothing is under way about an object its property has the same value on both   *)
(* sides, unless the last write was in a race.                                         *)
THEOREM AgreeUnlessRacedAlways == Spec => []AgreeUnlessRaced
<1>1. Inv => AgreeUnlessRaced
  <2> SUFFICES ASSUME Inv, Together, NEW n \in Name, object[n].addr # None,
                      object[n].addr = address[n], ~raced[n],
                      ~UnderWay("toServer", object[n].addr, {"values", "sync"}),
                      ~UnderWay("toClient", object[n].addr, {"values"})
               PROVE  object[n].value = value[n]
    BY DEF AgreeUnlessRaced
  <2>1. PICK a : a = object[n].addr
    OBVIOUS
  <2>2. Settles(Up, Down, a, object[n].value, value[n])
    BY <2>1 DEF Inv, Settled
  <2>3. NoneIn(Up, Requests(a, {"values", "sync"})) /\ NoneIn(Down, Reports(a))
    BY <2>1, UnderWayIs DEF Inv
  <2>4. /\ Requests(a, {"sync"}) \subseteq Requests(a, {"values", "sync"})
        /\ Written(a, object[n].value) \subseteq Requests(a, {"values", "sync"})
        /\ Reported(a, value[n]) \subseteq Reports(a)
    BY DEF Written, Requests, Reported, IsType
  <2>5. ~LastIn(Up, Requests(a, {"values"}), Requests(a, {"sync"}))
    BY <2>3, <2>4 DEF NoneIn, LastIn
  <2>6. ~LastIn(Up, Requests(a, {"values"}), Written(a, object[n].value))
    BY <2>3, <2>4 DEF NoneIn, LastIn
  <2>7. ~LastIn(Down, Reports(a), Reported(a, value[n]))
    BY <2>3, <2>4 DEF NoneIn, LastIn
  <2> QED
    BY <2>2, <2>5, <2>6, <2>7 DEF Settles
<1> QED
  BY <1>1, Invariance, PTL

=============================================================================
