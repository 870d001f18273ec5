--------------------------- MODULE ToolManagerProofs ---------------------------
(***************************************************************************)
(* Proofs about ToolManager for every class hierarchy, every set of tools  *)
(* and every depth of nested calls: tools are initialized in the order of  *)
(* inheritance, none is forgotten, and the client's list agrees.           *)
(***************************************************************************)
EXTENDS ToolManager, SequenceTheorems, FiniteSetTheorems, WellFoundedInduction, TLAPS

-----------------------------------------------------------------------------
(***************************************************************************)
(* The inductive invariants.  What nested calls must not undo: a call that *)
(* is past a class of its chain has left no tool for it disabled, and its  *)
(* copy holds all the tools that are still disabled for the class it is at.*)
(***************************************************************************)

CallRecord == [class : Class, level : Nat, copy : SUBSET Tool, init : SUBSET Tool]

ToolTypes ==
  /\ disabled \subseteq Tool /\ known \subseteq Class
  /\ calls \in Seq(CallRecord)
  /\ \A i \in DOMAIN calls : calls[i].level \in 1..Len(Chain[calls[i].class])
  /\ begun \in Seq([tool : Tool, class : Class])

\* A tool is taken from the disabled ones when its init() begins.
BegunAreEnabled == \A t \in Tool : t \notin disabled <=> \E i \in DOMAIN begun : begun[i].tool = t

\* No disabled tool is left behind by the chain of a call.
NoneLeftBehind(call) ==
  \A t \in disabled :
    /\ Chain[call.class][call.level] \in Supports[t] => t \in call.copy
    /\ \A k \in 1..call.level - 1 : Chain[call.class][k] \notin Supports[t]

ToolInv ==
  /\ ToolTypes /\ BegunAreEnabled
  /\ \A i \in DOMAIN calls : NoneLeftBehind(calls[i])
  /\ InitsInOrder /\ KnownMeansEnabled

\* Tools in their init() are not disabled any more, and in one init() each.
OneInitEach ==
  /\ \A i \in DOMAIN calls : calls[i].init = {} \/ \E t \in Tool \ disabled : calls[i].init = {t}
  /\ \A i, j \in DOMAIN calls : i # j => calls[i].init \cap calls[j].init = {}

Message == [type : {"availableTools", "toolEnabled"}, tools : SUBSET Tool]

\* The interface of a tool is initialized once, and not without support for remoting.
UiCounts == {f \in [Tool -> {0, 1}] : \A t \in Tool \ Remotable : f[t] = 0}

LinkTypes ==
  /\ connections \in [made : Nat, up : BOOLEAN]
  /\ toClient \in Seq(Message)
  /\ \A i \in DOMAIN toClient : toClient[i].type = "toolEnabled" =>
                                  \E t \in Tool : toClient[i].tools = {t}
  /\ client \in [asked : BOOLEAN, waiting : BOOLEAN, listed : SUBSET Tool, enabled : SUBSET Tool]
  /\ initUi \in UiCounts

\* The tools whose init() has returned.
Enabled == Tool \ (disabled \cup InInit)

\* toolEnabled() is under way for these, behind the first k messages.
Announced(k) ==
  {t \in Tool : \E j \in DOMAIN toClient :
                  j > k /\ toClient[j].type = "toolEnabled" /\ toClient[j].tools = {t}}

\* Each list under way, with what is told behind it, and the list the client has, with
\* all that is under way, make the tools that are enabled.
ListsComplete ==
  connections.up => \A i \in DOMAIN toClient : toClient[i].type = "availableTools" =>
                      toClient[i].tools \cup Announced(i) = Enabled

HasList == client.asked /\ ~client.waiting

ClientComplete ==
  /\ client.listed = IF HasList THEN HasUi \ Hidden ELSE {}
  /\ HasList => /\ client.enabled \subseteq client.listed
                /\ (client.enabled \cup Announced(0)) \cap client.listed = Enabled \cap client.listed
  /\ ~HasList => client.enabled = {}
  /\ \A t \in client.enabled \cap Remotable : initUi[t] = 1

Offline == ~connections.up => toClient = <<>> /\ client = NewClient

ClientInv ==
  /\ OneInitEach /\ LinkTypes /\ ListsComplete /\ ClientComplete /\ Offline

-----------------------------------------------------------------------------
(***************************************************************************)
(* Chains of base classes.                                                 *)
(***************************************************************************)

LEMMA ChainProperties ==
  ASSUME NEW c \in Class
  PROVE  /\ Chain[c] \in Seq(Class) /\ Len(Chain[c]) \in Nat \ {0}
         /\ IsChain(Chain[c], c)
<1>1. PICK s \in Chains : IsChain(s, c)
  BY HierarchyAssumption
<1>2. Chain[c] \in Chains /\ IsChain(Chain[c], c)
  BY <1>1 DEF Chain
<1>3. PICK n \in 1..Cardinality(Class) : Chain[c] \in [1..n -> Class]
  BY <1>2 DEF Chains
<1>4. Cardinality(Class) \in Nat
  BY ToolAssumption, FS_CardinalityType
<1>5. n \in Nat \ {0}
  BY <1>3, <1>4
<1>6. Chain[c] \in Seq(Class)
  BY <1>3, <1>5
<1>7. Len(Chain[c]) = n
  BY <1>3, <1>5, <1>6
<1> QED
  BY <1>2, <1>5, <1>6, <1>7

LEMMA LeastNat ==
  ASSUME NEW S \in SUBSET Nat, S # {}
  PROVE  \E i \in S : \A j \in S : i <= j
<1> DEFINE R == OpToRel(<, Nat)
<1>1. IsWellFoundedOn(R, Nat)
  BY NatLessThanWellFounded
<1>2. R = {p \in Nat \X Nat : p[1] < p[2]}
  BY DEF OpToRel
<1> HIDE DEF R
<1>3. PICK i \in S : \A j \in S : ~(<<j, i>> \in R)
  BY <1>1, WFMin
<1>4. \A j \in S : ~(j < i)
  BY <1>2, <1>3
<1>5. i \in Nat /\ S \subseteq Nat
  OBVIOUS
<1>6. \A j \in S : i <= j
  BY <1>4, <1>5
<1> QED
  BY <1>6

\* The chain of a class in the chain of another one is that chain's part up to it: from
\* its end, both take the same steps to the base class.
LEMMA SameStepsDown ==
  ASSUME NEW c \in Class, NEW l \in 1..Len(Chain[c]),
         NEW k \in 0..Len(Chain[Chain[c][l]]) - 1
  PROVE  k < l /\ Chain[Chain[c][l]][Len(Chain[Chain[c][l]]) - k] = Chain[c][l - k]
<1> DEFINE s == Chain[c]
           d == s[l]
           t == Chain[d]
           m == Len(t)
           Same(j) == j < l /\ t[m - j] = s[l - j]
           D == {j \in 0..m - 1 : ~Same(j)}
<1>1. /\ s \in Seq(Class) /\ Len(s) \in Nat \ {0} /\ IsChain(s, c) /\ d \in Class
  BY ChainProperties
<1>2. /\ t \in Seq(Class) /\ m \in Nat \ {0} /\ IsChain(t, d)
  BY <1>1, ChainProperties
<1> HIDE DEF s, d, t, m
<1>3. SUFFICES ASSUME D # {} PROVE FALSE
  <2>1. k \in 0..m - 1
    BY DEF m, t, d, s
  <2>2. Same(k)
    BY <1>3, <2>1
  <2> QED
    BY <2>2 DEF s, d, t, m
<1>4. PICK j \in D : \A i \in D : j <= i
  <2>1. D \in SUBSET Nat
    BY <1>2
  <2> HIDE DEF D
  <2> QED
    BY <1>3, <2>1, LeastNat
<1>5. j \in 0..m - 1 /\ ~Same(j)
  BY <1>4
<1>6. l \in Nat \ {0} /\ l <= Len(s)
  BY <1>1 DEF s
<1>7. CASE j = 0
  <2>1. t[m] = d /\ d = s[l]
    BY <1>2 DEF IsChain, m, d
  <2> QED
    BY <1>2, <1>5, <1>6, <1>7, <2>1
<1>8. CASE j # 0
  <2>1. j - 1 \in 0..m - 1 /\ j - 1 \notin D
    <3>1. j \in Nat /\ m \in Nat /\ 0 < j /\ j <= m - 1
      BY <1>2, <1>5, <1>8
    <3>2. j - 1 \in 0..m - 1 /\ ~(j <= j - 1)
      BY <3>1
    <3> QED
      BY <1>4, <3>2
  <2>2. j - 1 < l /\ t[m - (j - 1)] = s[l - (j - 1)]
    BY <2>1
  <2>3. m - j \in 1..Len(t) - 1 /\ (m - j) + 1 = m - (j - 1)
    BY <1>2, <1>5, <1>8 DEF m
  <2>4. Super[t[(m - j) + 1]] = t[m - j]
    BY <1>2, <2>3 DEF IsChain
  <2>5. t[m - j] \in Class /\ t[m - j] # NoClass
    BY <1>2, <2>3, ToolAssumption
  <2>6. Super[s[l - (j - 1)]] = t[m - j]
    BY <2>2, <2>3, <2>4
  <2>7. l - (j - 1) # 1
    BY <1>1, <2>5, <2>6 DEF IsChain
  <2>8. j < l /\ l - j \in 1..Len(s) - 1 /\ (l - j) + 1 = l - (j - 1)
    BY <1>1, <1>5, <1>6, <1>8, <2>2, <2>7
  <2>9. Super[s[(l - j) + 1]] = s[l - j]
    BY <1>1, <2>8 DEF IsChain
  <2> QED
    BY <1>5, <2>6, <2>8, <2>9
<1> QED
  BY <1>5, <1>7, <1>8

\* The bases of a class in a chain come before it.
LEMMA BasesComeBefore ==
  ASSUME NEW c \in Class, NEW l \in 1..Len(Chain[c])
  PROVE  Bases(Chain[c][l]) \subseteq {Chain[c][i] : i \in 1..l - 1}
<1> DEFINE d == Chain[c][l]
           m == Len(Chain[d])
<1>1. d \in Class
  BY ChainProperties
<1>2. m \in Nat \ {0}
  BY <1>1, ChainProperties
<1>3. l \in Nat \ {0}
  BY ChainProperties
<1>4. ASSUME NEW i \in 1..m - 1
      PROVE  Chain[d][i] \in {Chain[c][j] : j \in 1..l - 1}
  <2>1. m - i \in 0..m - 1 /\ m - (m - i) = i
    BY <1>2
  <2>2. m - i < l /\ Chain[d][m - (m - i)] = Chain[c][l - (m - i)]
    BY <2>1, SameStepsDown
  <2>3. l - (m - i) \in 1..l - 1
    BY <1>2, <1>3, <1>4, <2>2
  <2> QED
    BY <2>1, <2>2, <2>3
<1> QED
  BY <1>4 DEF Bases

-----------------------------------------------------------------------------
(***************************************************************************)
(* The tools of the probe.                                                 *)
(***************************************************************************)

\* The innermost call, which is the one that runs.
LEMMA TopProperties ==
  ASSUME ToolTypes, calls # <<>>
  PROVE  /\ Len(calls) \in DOMAIN calls /\ DOMAIN calls = 1..Len(calls) /\ Len(calls) \in Nat
         /\ Top = calls[Len(calls)] /\ Top \in CallRecord
         /\ Top.level \in 1..Len(Chain[Top.class]) /\ Top.class \in Class
<1>1. Len(calls) \in DOMAIN calls /\ DOMAIN calls = 1..Len(calls) /\ Len(calls) \in Nat
  BY DEF ToolTypes
<1>2. Top \in CallRecord
  BY <1>1 DEF ToolTypes, Top
<1> QED
  BY <1>1, <1>2 DEF ToolTypes, Top, CallRecord

\* A call at a class of its chain is a record of its type.
LEMMA CallTyped ==
  ASSUME disabled \subseteq Tool, NEW c \in Class, NEW l \in 1..Len(Chain[c])
  PROVE  /\ Call(c, l) \in CallRecord
         /\ Call(c, l).class = c /\ Call(c, l).level = l /\ Call(c, l).init = {}
         /\ Call(c, l).copy = Wanting(Chain[c][l])
  BY ChainProperties DEF Call, CallRecord, Wanting

\* The list of the disabled tools a call copies is complete for the class it is at.
LEMMA CopyIsComplete ==
  ASSUME disabled \subseteq Tool, NEW c \in Class, NEW l \in 1..Len(Chain[c]),
         \A t \in disabled, k \in 1..l - 1 : Chain[c][k] \notin Supports[t]
  PROVE  NoneLeftBehind(Call(c, l))
  BY CallTyped DEF NoneLeftBehind, Wanting

LEMMA ToolInit == Init => ToolInv
<1> SUFFICES ASSUME Init PROVE ToolInv
  OBVIOUS
<1>1. ToolTypes
  BY DEF Init, ToolTypes
<1>2. BegunAreEnabled
  BY DEF Init, BegunAreEnabled
<1> QED
  BY <1>1, <1>2 DEF Init, ToolInv, InitsInOrder, KnownMeansEnabled

LEMMA ObjectAddedKeepsTools ==
  ASSUME ToolInv, NEW c \in Class, ObjectAdded(c)
  PROVE  ToolInv'
<1>1. /\ calls \in Seq(CallRecord) /\ disabled \subseteq Tool
      /\ calls' = Append(calls, Call(c, 1))
      /\ UNCHANGED <<disabled, known, begun>>
  BY DEF ToolInv, ToolTypes, ObjectAdded
<1>2. 1 \in 1..Len(Chain[c])
  BY ChainProperties
<1>3. /\ Call(c, 1) \in CallRecord
      /\ Call(c, 1).class = c /\ Call(c, 1).level = 1
  BY <1>1, <1>2, CallTyped
<1>4. NoneLeftBehind(Call(c, 1))
  <2>1. \A t \in disabled, k \in 1..1 - 1 : Chain[c][k] \notin Supports[t]
    OBVIOUS
  <2> QED
    BY <1>1, <1>2, <2>1, CopyIsComplete
<1> DEFINE new == Call(c, 1)
<1>5. /\ calls' \in Seq(CallRecord) /\ DOMAIN calls' = DOMAIN calls \cup {Len(calls) + 1}
      /\ \A i \in DOMAIN calls' : calls'[i] \in {calls[j] : j \in DOMAIN calls} \cup {new}
  <2> HIDE DEF new
  <2> QED
    BY <1>1, <1>3 DEF new
<1> HIDE DEF new
<1>6. ToolTypes'
  BY <1>1, <1>2, <1>3, <1>5 DEF ToolInv, ToolTypes, new
<1>7. \A i \in DOMAIN calls' : NoneLeftBehind(calls'[i])
  BY <1>4, <1>5 DEF ToolInv, new
<1>8. (\A i \in DOMAIN calls : NoneLeftBehind(calls[i]))'
  BY <1>1, <1>7 DEF NoneLeftBehind
<1>9. /\ BegunAreEnabled' /\ InitsInOrder' /\ KnownMeansEnabled'
  BY <1>1 DEF ToolInv, BegunAreEnabled, InitsInOrder, KnownMeansEnabled
<1> QED
  BY <1>6, <1>8, <1>9 DEF ToolInv

\* The tools that must have begun before t at class AtClass have begun.
LEMMA BasesHaveBegun ==
  ASSUME ToolInv, calls # <<>>,
         NEW t \in Tool, Supports[t] \cap Bases(AtClass) # {}
  PROVE  \E j \in DOMAIN begun : begun[j].tool = t
<1>1. /\ Top.class \in Class /\ Top.level \in 1..Len(Chain[Top.class])
      /\ Len(calls) \in DOMAIN calls /\ Top = calls[Len(calls)]
  BY TopProperties DEF ToolInv
<1>2. PICK k \in 1..Top.level - 1 : Chain[Top.class][k] \in Supports[t]
  <2>1. Bases(Chain[Top.class][Top.level]) \subseteq {Chain[Top.class][i] : i \in 1..Top.level - 1}
    BY <1>1, BasesComeBefore
  <2>2. PICK d \in Supports[t] : d \in {Chain[Top.class][i] : i \in 1..Top.level - 1}
    BY <2>1 DEF AtClass
  <2> QED
    BY <2>2
<1>3. NoneLeftBehind(Top)
  BY <1>1 DEF ToolInv
<1>4. t \notin disabled
  BY <1>2, <1>3 DEF NoneLeftBehind
<1> QED
  BY <1>4 DEF ToolInv, BegunAreEnabled

LEMMA ActivateKeepsTools ==
  ASSUME ToolInv, NEW t \in Tool, Activate(t)
  PROVE  ToolInv'
<1>1. /\ Len(calls) \in DOMAIN calls /\ DOMAIN calls = 1..Len(calls) /\ Len(calls) \in Nat
      /\ Top \in CallRecord /\ Top = calls[Len(calls)] /\ Top.class \in Class
      /\ Top.level \in 1..Len(Chain[Top.class])
  BY TopProperties DEF ToolInv, Activate
<1>2. CASE t \in disabled
  <2> DEFINE new == [Top EXCEPT !.copy = @ \ {t}, !.init = {t}]
             b   == [tool |-> t, class |-> AtClass]
             n   == Len(begun) + 1
  <2>1. /\ disabled' = disabled \ {t} /\ begun' = Append(begun, b)
        /\ calls' = [calls EXCEPT ![Len(calls)] = new] /\ UNCHANGED known
    BY <1>2 DEF Activate, SetTop
  <2>2. /\ new \in CallRecord /\ new.class = Top.class /\ new.level = Top.level
        /\ new.copy = Top.copy \ {t}
    BY <1>1 DEF CallRecord
  <2>3. b \in [tool : Tool, class : Class] /\ b.tool = t /\ b.class = AtClass
    BY <1>1, ChainProperties DEF AtClass
  <2> HIDE DEF new, b
  <2>4. /\ DOMAIN calls' = DOMAIN calls /\ calls'[Len(calls)] = new
        /\ \A i \in DOMAIN calls : i # Len(calls) => calls'[i] = calls[i]
        /\ calls' \in Seq(CallRecord)
    BY <1>1, <2>1, <2>2 DEF ToolInv, ToolTypes
  <2>5. /\ begun' \in Seq([tool : Tool, class : Class]) /\ n \in Nat
        /\ DOMAIN begun = 1..n - 1 /\ DOMAIN begun' = 1..n /\ begun'[n] = b
        /\ \A i \in 1..n - 1 : begun'[i] = begun[i]
    BY <2>1, <2>3 DEF ToolInv, ToolTypes
  <2> HIDE DEF n
  <2>6. ToolTypes'
    BY <1>1, <2>1, <2>2, <2>4, <2>5 DEF ToolInv, ToolTypes
  <2>7. BegunAreEnabled'
    <3>1. ASSUME NEW u \in Tool
          PROVE  u \notin disabled' <=> \E i \in DOMAIN begun' : begun'[i].tool = u
      BY <2>1, <2>3, <2>5 DEF ToolInv, BegunAreEnabled
    <3> QED
      BY <3>1 DEF BegunAreEnabled
  <2>8. ASSUME NEW i \in DOMAIN calls'
        PROVE  NoneLeftBehind(calls[i])'
    <3>1. NoneLeftBehind(calls[i])
      BY <2>4 DEF ToolInv
    <3>2. CASE i = Len(calls)
      BY <1>1, <2>1, <2>2, <2>4, <3>1, <3>2 DEF NoneLeftBehind
    <3>3. CASE i # Len(calls)
      BY <2>1, <2>4, <3>1, <3>3 DEF NoneLeftBehind
    <3> QED
      BY <3>2, <3>3
  <2>9. InitsInOrder'
    <3>1. \A i \in DOMAIN begun : begun[i].tool # t
      BY <1>2 DEF ToolInv, BegunAreEnabled
    <3>2. ASSUME NEW i \in DOMAIN begun', NEW j \in DOMAIN begun',
                 begun'[i].tool = begun'[j].tool
          PROVE  i = j
      BY <2>3, <2>5, <3>1, <3>2 DEF ToolInv, InitsInOrder
    <3>3. ASSUME NEW i \in DOMAIN begun', NEW u \in Tool,
                 Supports[u] \cap Bases(begun'[i].class) # {}
          PROVE  \E j \in 1..i : begun'[j].tool = u
      <4>1. CASE i # n
        <5>1. i \in DOMAIN begun /\ begun'[i] = begun[i]
          BY <2>5, <4>1
        <5>2. PICK j \in 1..i : begun[j].tool = u
          BY <3>3, <5>1 DEF ToolInv, InitsInOrder
        <5> QED
          BY <2>5, <5>1, <5>2
      <4>2. CASE i = n
        <5>1. Supports[u] \cap Bases(AtClass) # {}
          BY <2>3, <2>5, <3>3, <4>2
        <5>2. PICK j \in DOMAIN begun : begun[j].tool = u
          BY <5>1, BasesHaveBegun DEF Activate
        <5> QED
          BY <2>5, <4>2, <5>2
      <4> QED
        BY <4>1, <4>2
    <3> QED
      BY <3>2, <3>3 DEF InitsInOrder
  <2>10. KnownMeansEnabled'
    BY <2>1 DEF ToolInv, KnownMeansEnabled
  <2> QED
    BY <2>6, <2>7, <2>8, <2>9, <2>10 DEF ToolInv
<1>3. CASE t \notin disabled
  <2> DEFINE new == [Top EXCEPT !.copy = @ \ {t}]
  <2>1. calls' = [calls EXCEPT ![Len(calls)] = new] /\ UNCHANGED <<disabled, begun, known>>
    BY <1>3 DEF Activate, SetTop
  <2>2. /\ new \in CallRecord /\ new.class = Top.class /\ new.level = Top.level
        /\ new.copy = Top.copy \ {t}
    BY <1>1 DEF CallRecord
  <2> HIDE DEF new
  <2>3. /\ DOMAIN calls' = DOMAIN calls /\ calls'[Len(calls)] = new
        /\ \A i \in DOMAIN calls : i # Len(calls) => calls'[i] = calls[i]
        /\ calls' \in Seq(CallRecord)
    BY <1>1, <2>1, <2>2 DEF ToolInv, ToolTypes
  <2>4. ToolTypes'
    BY <1>1, <2>1, <2>2, <2>3 DEF ToolInv, ToolTypes
  <2>5. ASSUME NEW i \in DOMAIN calls'
        PROVE  NoneLeftBehind(calls[i])'
    <3>1. NoneLeftBehind(calls[i])
      BY <2>3 DEF ToolInv
    <3> QED
      BY <1>1, <1>3, <2>1, <2>2, <2>3, <3>1 DEF NoneLeftBehind
  <2>6. BegunAreEnabled' /\ InitsInOrder' /\ KnownMeansEnabled'
    BY <2>1 DEF ToolInv, BegunAreEnabled, InitsInOrder, KnownMeansEnabled
  <2> QED
    BY <2>4, <2>5, <2>6 DEF ToolInv
<1> QED
  BY <1>2, <1>3

\* A class is known when the chain of a call for it has come to its end.
LEMMA KnownAtEnd ==
  ASSUME ToolInv, calls # <<>>, Top.copy = {}, ~(Top.level < Len(Chain[Top.class])),
         NEW t \in disabled
  PROVE  Supports[t] \cap (Bases(Top.class) \cup {Top.class}) = {}
<1>1. /\ Len(calls) \in DOMAIN calls /\ Top = calls[Len(calls)] /\ Top.class \in Class
      /\ Top.level \in 1..Len(Chain[Top.class])
  BY TopProperties DEF ToolInv
<1>2. Len(Chain[Top.class]) \in Nat \ {0} /\ Chain[Top.class][Len(Chain[Top.class])] = Top.class
  BY <1>1, ChainProperties DEF IsChain
<1>3. Top.level = Len(Chain[Top.class])
  BY <1>1, <1>2
<1>4. NoneLeftBehind(Top)
  BY <1>1 DEF ToolInv
<1>5. Top.class \notin Supports[t]
  BY <1>2, <1>3, <1>4 DEF NoneLeftBehind
<1>6. \A k \in 1..Len(Chain[Top.class]) - 1 : Chain[Top.class][k] \notin Supports[t]
  BY <1>3, <1>4 DEF NoneLeftBehind
<1> QED
  BY <1>5, <1>6 DEF Bases

LEMMA NextClassKeepsTools ==
  ASSUME ToolInv, NextClass
  PROVE  ToolInv'
<1>1. /\ Len(calls) \in DOMAIN calls /\ DOMAIN calls = 1..Len(calls) /\ Len(calls) \in Nat
      /\ Top \in CallRecord /\ Top = calls[Len(calls)] /\ Top.class \in Class
      /\ Top.level \in 1..Len(Chain[Top.class])
  BY TopProperties DEF ToolInv, NextClass
<1>2. UNCHANGED <<disabled, begun>> /\ Top.copy = {} /\ calls # <<>>
  BY DEF NextClass
<1>3. BegunAreEnabled' /\ InitsInOrder'
  BY <1>2 DEF ToolInv, BegunAreEnabled, InitsInOrder
<1>4. CASE Top.level < Len(Chain[Top.class])
  <2> DEFINE l   == Top.level + 1
             new == Call(Top.class, l)
  <2>1. l \in 1..Len(Chain[Top.class])
    BY <1>1, <1>4, ChainProperties
  <2>2. /\ calls' = [calls EXCEPT ![Len(calls)] = new] /\ UNCHANGED known
    BY <1>4 DEF NextClass, SetTop
  <2>3. new \in CallRecord /\ new.class = Top.class /\ new.level = l
    BY <1>1, <2>1, CallTyped DEF ToolInv, ToolTypes
  <2>4. NoneLeftBehind(new)
    <3>1. NoneLeftBehind(Top)
      BY <1>1 DEF ToolInv
    <3>2. ASSUME NEW t \in disabled, NEW k \in 1..l - 1
          PROVE  Chain[Top.class][k] \notin Supports[t]
      <4>1. CASE k = Top.level
        BY <1>2, <3>1, <4>1 DEF NoneLeftBehind
      <4>2. CASE k # Top.level
        <5>1. k \in 1..Top.level - 1
          BY <1>1, <2>1, <4>2 DEF CallRecord
        <5> QED
          BY <3>1, <5>1 DEF NoneLeftBehind
      <4> QED
        BY <4>1, <4>2
    <3> HIDE DEF l
    <3> QED
      BY <1>1, <2>1, <3>2, CopyIsComplete DEF ToolInv, ToolTypes
  <2> HIDE DEF new, l
  <2>5. /\ DOMAIN calls' = DOMAIN calls /\ calls'[Len(calls)] = new
        /\ \A i \in DOMAIN calls : i # Len(calls) => calls'[i] = calls[i]
        /\ calls' \in Seq(CallRecord)
    BY <1>1, <2>2, <2>3 DEF ToolInv, ToolTypes
  <2>6. ToolTypes'
    BY <1>1, <1>2, <2>1, <2>2, <2>3, <2>5 DEF ToolInv, ToolTypes
  <2>7. ASSUME NEW i \in DOMAIN calls'
        PROVE  NoneLeftBehind(calls[i])'
    BY <1>1, <1>2, <2>4, <2>5 DEF ToolInv, NoneLeftBehind
  <2>8. KnownMeansEnabled'
    BY <1>2, <2>2 DEF ToolInv, KnownMeansEnabled
  <2> QED
    BY <1>3, <2>6, <2>7, <2>8 DEF ToolInv
<1>5. CASE ~(Top.level < Len(Chain[Top.class]))
  <2>1. calls' = SubSeq(calls, 1, Len(calls) - 1) /\ known' = known \cup {Top.class}
    BY <1>5 DEF NextClass
  <2>2. /\ calls' \in Seq(CallRecord) /\ DOMAIN calls' \subseteq DOMAIN calls
        /\ \A i \in DOMAIN calls' : calls'[i] = calls[i]
    BY <1>1, <2>1 DEF ToolInv, ToolTypes
  <2>3. ToolTypes'
    BY <1>1, <1>2, <2>1, <2>2 DEF ToolInv, ToolTypes
  <2>4. ASSUME NEW i \in DOMAIN calls'
        PROVE  NoneLeftBehind(calls[i])'
    BY <1>2, <2>2 DEF ToolInv, NoneLeftBehind
  <2>5. KnownMeansEnabled'
    <3>1. ASSUME NEW c \in known', NEW t \in disabled
          PROVE  Supports[t] \cap (Bases(c) \cup {c}) = {}
      <4>1. CASE c \in known
        BY <4>1 DEF ToolInv, KnownMeansEnabled
      <4>2. CASE c = Top.class
        BY <1>2, <1>5, <4>2, KnownAtEnd
      <4> QED
        BY <2>1, <4>1, <4>2
    <3> QED
      BY <1>2, <3>1 DEF KnownMeansEnabled
  <2> QED
    BY <1>3, <2>3, <2>4, <2>5 DEF ToolInv
<1> QED
  BY <1>4, <1>5

LEMMA ActivatedKeepsTools ==
  ASSUME ToolInv, Activated
  PROVE  ToolInv'
<1>1. /\ Len(calls) \in DOMAIN calls /\ DOMAIN calls = 1..Len(calls) /\ Len(calls) \in Nat
      /\ Top \in CallRecord /\ Top = calls[Len(calls)]
  BY TopProperties DEF ToolInv, Activated
<1> DEFINE new == [Top EXCEPT !.init = {}]
<1>2. calls' = [calls EXCEPT ![Len(calls)] = new] /\ UNCHANGED <<disabled, known, begun>>
  BY DEF Activated, SetTop
<1>3. /\ new \in CallRecord /\ new.class = Top.class /\ new.level = Top.level
      /\ new.copy = Top.copy
  BY <1>1 DEF CallRecord
<1> HIDE DEF new
<1>4. /\ DOMAIN calls' = DOMAIN calls /\ calls'[Len(calls)] = new
      /\ \A i \in DOMAIN calls : i # Len(calls) => calls'[i] = calls[i]
      /\ calls' \in Seq(CallRecord)
  BY <1>1, <1>2, <1>3 DEF ToolInv, ToolTypes
<1>5. ToolTypes'
  BY <1>1, <1>2, <1>3, <1>4 DEF ToolInv, ToolTypes
<1>6. ASSUME NEW i \in DOMAIN calls'
      PROVE  NoneLeftBehind(calls[i])'
  BY <1>1, <1>2, <1>3, <1>4 DEF ToolInv, NoneLeftBehind
<1>7. BegunAreEnabled' /\ InitsInOrder' /\ KnownMeansEnabled'
  BY <1>2 DEF ToolInv, BegunAreEnabled, InitsInOrder, KnownMeansEnabled
<1> QED
  BY <1>5, <1>6, <1>7 DEF ToolInv

LEMMA LinkKeepsTools ==
  ASSUME ToolInv, UNCHANGED toolVars
  PROVE  ToolInv'
<1>1. UNCHANGED <<disabled, known, calls, begun>>
  BY DEF toolVars
<1>2. ASSUME NEW i \in DOMAIN calls'
      PROVE  NoneLeftBehind(calls[i])'
  BY <1>1 DEF ToolInv, NoneLeftBehind
<1>3. ToolTypes' /\ BegunAreEnabled' /\ InitsInOrder' /\ KnownMeansEnabled'
  BY <1>1 DEF ToolInv, ToolTypes, BegunAreEnabled, InitsInOrder, KnownMeansEnabled
<1> QED
  BY <1>2, <1>3 DEF ToolInv

LEMMA ToolStep ==
  ASSUME ToolInv, [Next]_vars
  PROVE  ToolInv'
<1>1. ASSUME NEW c \in Class, ObjectAdded(c) PROVE ToolInv'
  BY <1>1, ObjectAddedKeepsTools
<1>2. ASSUME NEW t \in Tool, Activate(t) PROVE ToolInv'
  BY <1>2, ActivateKeepsTools
<1>3. CASE Activated
  BY <1>3, ActivatedKeepsTools
<1>4. CASE NextClass
  BY <1>4, NextClassKeepsTools
<1>5. CASE \/ RequestAvailableTools \/ RequestInProcess \/ Connect \/ Established
           \/ Disconnected \/ ReceiveMessage \/ UNCHANGED vars
  <2>1. UNCHANGED toolVars
    BY <1>5 DEF RequestAvailableTools, RequestInProcess, Connect, Established, Disconnected,
                ReceiveMessage, vars, toolVars
  <2> QED
    BY <2>1, LinkKeepsTools
<1> QED
  BY <1>1, <1>2, <1>3, <1>4, <1>5 DEF Next

(* The tools and the calls that enable them keep their invariant, for every hierarchy *)
(* of classes and every depth of objectAdded() in itself.                             *)
THEOREM ToolInvariance == Spec => []ToolInv
<1> QED
  BY ToolInit, ToolStep, PTL DEF Spec

(* A tool is initialized once, and after the tools of the base classes of its type    *)
(* (ToolManager::objectAdded()), however deep the calls are nested.                   *)
THEOREM InitsInOrderAlways == Spec => []InitsInOrder
<1>1. ToolInv => InitsInOrder
  BY DEF ToolInv
<1> QED
  BY <1>1, ToolInvariance, PTL

(* A class that objectAdded() does not look at again has left no tool disabled that   *)
(* supports it or a base of it (m_knownMetaObjects).                                  *)
THEOREM KnownMeansEnabledAlways == Spec => []KnownMeansEnabled
<1>1. ToolInv => KnownMeansEnabled
  BY DEF ToolInv
<1> QED
  BY <1>1, ToolInvariance, PTL

-----------------------------------------------------------------------------
(***************************************************************************)
(* The tools that are in their init().                                     *)
(***************************************************************************)

\* Calls begin and end without a tool in its init().
LEMMA ObjectAddedKeepsInits ==
  ASSUME ToolInv, OneInitEach, NEW c \in Class, ObjectAdded(c)
  PROVE  OneInitEach' /\ Enabled' = Enabled
<1>1. 1 \in 1..Len(Chain[c])
  BY ChainProperties
<1> DEFINE new == Call(c, 1)
<1>2. new \in CallRecord /\ new.init = {}
  BY <1>1, CallTyped DEF ToolInv, ToolTypes
<1> HIDE DEF new
<1>3. calls' = Append(calls, new) /\ UNCHANGED disabled
  BY DEF ObjectAdded, new
<1>4. /\ DOMAIN calls = 1..Len(calls) /\ Len(calls) \in Nat
      /\ DOMAIN calls' = DOMAIN calls \cup {Len(calls) + 1}
      /\ calls'[Len(calls) + 1].init = {}
      /\ \A i \in DOMAIN calls : calls'[i] = calls[i]
  BY <1>2, <1>3 DEF ToolInv, ToolTypes
<1>5. OneInitEach'
  BY <1>3, <1>4 DEF OneInitEach
<1>6. InInit' = InInit
  BY <1>4 DEF InInit
<1> QED
  BY <1>3, <1>5, <1>6 DEF Enabled

\* A tool goes from the disabled ones into its init().
LEMMA ActivateKeepsInits ==
  ASSUME ToolInv, OneInitEach, NEW t \in Tool, Activate(t)
  PROVE  OneInitEach' /\ Enabled' = Enabled
<1>1. /\ Len(calls) \in DOMAIN calls /\ DOMAIN calls = 1..Len(calls)
      /\ Top \in CallRecord /\ Top = calls[Len(calls)] /\ Top.init = {}
  BY TopProperties DEF ToolInv, Activate
<1> DEFINE new == [Top EXCEPT !.copy = @ \ {t}, !.init = IF t \in disabled THEN {t} ELSE @]
<1>2. new.init = IF t \in disabled THEN {t} ELSE {}
  BY <1>1 DEF CallRecord
<1>3. /\ calls' = [calls EXCEPT ![Len(calls)] = new] /\ disabled' = disabled \ {t}
  <2>1. CASE t \in disabled
    BY <2>1 DEF Activate, SetTop
  <2>2. CASE t \notin disabled
    <3>1. new = [Top EXCEPT !.copy = @ \ {t}]
      BY <1>1, <2>2 DEF CallRecord
    <3>2. disabled' = disabled /\ disabled = disabled \ {t}
      BY <2>2 DEF Activate
    <3> QED
      BY <2>2, <3>1, <3>2 DEF Activate, SetTop
  <2> QED
    BY <2>1, <2>2
<1> HIDE DEF new
<1>4. /\ DOMAIN calls' = DOMAIN calls /\ calls'[Len(calls)] = new
      /\ \A i \in DOMAIN calls : i # Len(calls) => calls'[i] = calls[i]
  BY <1>1, <1>3 DEF ToolInv, ToolTypes
<1>5. OneInitEach'
  BY <1>1, <1>2, <1>3, <1>4 DEF OneInitEach
<1>6. InInit' = InInit \cup (disabled \cap {t})
  BY <1>1, <1>2, <1>4 DEF InInit
<1> QED
  BY <1>3, <1>5, <1>6 DEF Enabled

LEMMA NextClassKeepsInits ==
  ASSUME ToolInv, OneInitEach, NextClass
  PROVE  OneInitEach' /\ Enabled' = Enabled
<1>1. /\ Len(calls) \in DOMAIN calls /\ DOMAIN calls = 1..Len(calls) /\ Len(calls) \in Nat
      /\ Top = calls[Len(calls)] /\ Top.init = {} /\ calls \in Seq(CallRecord)
      /\ UNCHANGED disabled
  BY TopProperties DEF ToolInv, ToolTypes, NextClass
<1>2. CASE Top.level < Len(Chain[Top.class])
  <2> DEFINE new == Call(Top.class, Top.level + 1)
  <2>1. calls' = [calls EXCEPT ![Len(calls)] = new]
    BY <1>2 DEF NextClass, SetTop
  <2>2. new.init = {}
    BY DEF Call
  <2> HIDE DEF new
  <2>3. /\ DOMAIN calls' = DOMAIN calls /\ calls'[Len(calls)] = new
        /\ \A i \in DOMAIN calls : i # Len(calls) => calls'[i] = calls[i]
    BY <1>1, <2>1
  <2>4. \A i \in DOMAIN calls : calls'[i].init = calls[i].init
    BY <1>1, <2>2, <2>3
  <2> QED
    BY <1>1, <2>3, <2>4 DEF OneInitEach, InInit, Enabled
<1>3. CASE ~(Top.level < Len(Chain[Top.class]))
  <2>1. calls' = SubSeq(calls, 1, Len(calls) - 1)
    BY <1>3 DEF NextClass
  <2>2. /\ DOMAIN calls' = DOMAIN calls \ {Len(calls)}
        /\ \A i \in DOMAIN calls' : calls'[i] = calls[i]
    BY <1>1, <2>1
  <2>3. OneInitEach'
    BY <1>1, <2>2 DEF OneInitEach
  <2>4. InInit' = InInit
    BY <1>1, <2>2 DEF InInit
  <2> QED
    BY <1>1, <2>3, <2>4 DEF Enabled
<1> QED
  BY <1>2, <1>3

\* init() returns: one tool more is enabled.
LEMMA ActivatedEnables ==
  ASSUME ToolInv, OneInitEach, NEW t \in Top.init, Activated
  PROVE  OneInitEach' /\ t \in Tool /\ Enabled' = Enabled \cup {t} /\ Top.init = {t}
<1>1. /\ Len(calls) \in DOMAIN calls /\ DOMAIN calls = 1..Len(calls)
      /\ Top \in CallRecord /\ Top = calls[Len(calls)]
  BY TopProperties DEF ToolInv, Activated
<1> DEFINE new == [Top EXCEPT !.init = {}]
<1>2. calls' = [calls EXCEPT ![Len(calls)] = new] /\ UNCHANGED disabled /\ new.init = {}
  BY <1>1 DEF Activated, SetTop, CallRecord
<1> HIDE DEF new
<1>3. /\ DOMAIN calls' = DOMAIN calls /\ calls'[Len(calls)] = new
      /\ \A i \in DOMAIN calls : i # Len(calls) => calls'[i] = calls[i]
  BY <1>1, <1>2 DEF ToolInv, ToolTypes
<1>4. Top.init = {t} /\ t \in Tool \ disabled
  BY <1>1 DEF OneInitEach
<1>5. OneInitEach'
  BY <1>1, <1>2, <1>3 DEF OneInitEach
<1>6. InInit' = InInit \ {t}
  <2>1. \A i \in DOMAIN calls : i # Len(calls) => t \notin calls[i].init
    BY <1>1, <1>4 DEF OneInitEach
  <2>2. ASSUME NEW u \in Tool
        PROVE  u \in InInit' <=> u \in InInit /\ u # t
    BY <1>1, <1>2, <1>3, <1>4, <2>1 DEF InInit
  <2> QED
    BY <2>2 DEF InInit
<1> QED
  BY <1>2, <1>4, <1>5, <1>6 DEF Enabled

-----------------------------------------------------------------------------
(***************************************************************************)
(* What is under way to the client.                                        *)
(***************************************************************************)

\* A message is sent: what has been announced is announced, and its own tool.
LEMMA AnnouncedWhenSent ==
  ASSUME toClient \in Seq(Message), NEW m \in Message, toClient' = Append(toClient, m),
         NEW k \in 0..Len(toClient)
  PROVE  /\ Announced(k)' = Announced(k)
              \cup {t \in Tool : m.type = "toolEnabled" /\ m.tools = {t}}
<1>1. /\ DOMAIN toClient = 1..Len(toClient) /\ Len(toClient) \in Nat
      /\ DOMAIN toClient' = 1..Len(toClient) + 1 /\ toClient'[Len(toClient) + 1] = m
      /\ \A j \in DOMAIN toClient : toClient'[j] = toClient[j]
  OBVIOUS
<1>2. ASSUME NEW t \in Tool
      PROVE  t \in Announced(k)' <=>
               t \in Announced(k) \/ (m.type = "toolEnabled" /\ m.tools = {t})
  <2>1. Len(toClient) + 1 > k
    BY <1>1
  <2> QED
    BY <1>1, <2>1 DEF Announced
<1> QED
  BY <1>2 DEF Announced

\* Nothing is told behind the last message.
LEMMA NothingBehindTheLast ==
  ASSUME toClient \in Seq(Message)
  PROVE  Announced(Len(toClient)) = {}
  BY DEF Announced

\* A message is read: the others are as they were, one place further on.
LEMMA AnnouncedWhenRead ==
  ASSUME toClient \in Seq(Message), toClient # <<>>, toClient' = Tail(toClient),
         NEW k \in Nat
  PROVE  Announced(k)' = Announced(k + 1)
<1>1. /\ DOMAIN toClient = 1..Len(toClient) /\ Len(toClient) \in Nat \ {0}
      /\ DOMAIN toClient' = 1..Len(toClient) - 1
      /\ \A j \in DOMAIN toClient' : toClient'[j] = toClient[j + 1]
  OBVIOUS
<1>2. ASSUME NEW t \in Tool
      PROVE  t \in Announced(k)' <=> t \in Announced(k + 1)
  <2>1. ASSUME t \in Announced(k)' PROVE t \in Announced(k + 1)
    <3>1. PICK j \in DOMAIN toClient' :
            j > k /\ toClient'[j].type = "toolEnabled" /\ toClient'[j].tools = {t}
      BY <2>1 DEF Announced
    <3>2. j + 1 \in DOMAIN toClient /\ j + 1 > k + 1 /\ toClient'[j] = toClient[j + 1]
      BY <1>1, <3>1
    <3> QED
      BY <3>1, <3>2 DEF Announced
  <2>2. ASSUME t \in Announced(k + 1) PROVE t \in Announced(k)'
    <3>1. PICK j \in DOMAIN toClient :
            j > k + 1 /\ toClient[j].type = "toolEnabled" /\ toClient[j].tools = {t}
      BY <2>2 DEF Announced
    <3>2. j - 1 \in DOMAIN toClient' /\ j - 1 > k /\ toClient'[j - 1] = toClient[j]
      BY <1>1, <3>1
    <3> QED
      BY <3>1, <3>2 DEF Announced
  <2> QED
    BY <2>1, <2>2
<1> QED
  BY <1>2 DEF Announced

\* All that is under way is told by the head of it or behind it.
LEMMA AnnouncedByHead ==
  ASSUME toClient \in Seq(Message), toClient # <<>>
  PROVE  Announced(0) = Announced(1) \cup
           {t \in Tool : Head(toClient).type = "toolEnabled" /\ Head(toClient).tools = {t}}
<1>1. /\ DOMAIN toClient = 1..Len(toClient) /\ Len(toClient) \in Nat \ {0}
      /\ Head(toClient) = toClient[1]
  OBVIOUS
<1>2. ASSUME NEW t \in Tool
      PROVE  t \in Announced(0) <=> \/ t \in Announced(1)
                                    \/ toClient[1].type = "toolEnabled" /\ toClient[1].tools = {t}
  <2>1. \A j \in DOMAIN toClient : j > 0 <=> j > 1 \/ j = 1
    BY <1>1
  <2> QED
    BY <1>1, <2>1 DEF Announced
<1> QED
  BY <1>1, <1>2 DEF Announced

LEMMA ClientInit == Init => ClientInv
<1> SUFFICES ASSUME Init PROVE ClientInv
  OBVIOUS
<1>1. OneInitEach /\ ListsComplete /\ Offline
  BY DEF Init, OneInitEach, ListsComplete, Offline
<1>2. LinkTypes
  BY DEF Init, LinkTypes, NewClient, UiCounts
<1>3. ClientComplete
  BY DEF Init, ClientComplete, NewClient, HasList
<1> QED
  BY <1>1, <1>2, <1>3 DEF ClientInv

\* The probe goes on without a word to the client.
LEMMA QuietKeepsClient ==
  ASSUME ClientInv, UNCHANGED linkVars, OneInitEach', Enabled' = Enabled
  PROVE  ClientInv'
<1>1. UNCHANGED <<connections, toServer, toClient, client, initUi>>
  BY DEF linkVars
<1>2. LinkTypes' /\ Offline'
  BY <1>1 DEF ClientInv, LinkTypes, Offline
<1>3. \A k : Announced(k)' = Announced(k)
  BY <1>1 DEF Announced
<1>4. ListsComplete'
  BY <1>1, <1>3 DEF ClientInv, ListsComplete
<1>5. ClientComplete'
  BY <1>1, <1>3 DEF ClientInv, ClientComplete, HasList
<1> QED
  BY <1>2, <1>4, <1>5 DEF ClientInv

\* A message with all that is enabled, or the one tool that has been enabled just now,
\* keeps what is under way complete.
LEMMA SentKeepsLists ==
  ASSUME ClientInv, connections.up, UNCHANGED connections, NEW m \in Message,
         toClient' = Append(toClient, m), UNCHANGED <<client, initUi>>, OneInitEach',
         \/ m.type = "availableTools" /\ m.tools = Enabled /\ Enabled' = Enabled
         \/ \E t \in Tool : /\ m.type = "toolEnabled" /\ m.tools = {t}
                            /\ Enabled' = Enabled \cup {t}
  PROVE  ClientInv'
<1>1. /\ toClient \in Seq(Message) /\ Len(toClient) \in Nat
      /\ DOMAIN toClient = 1..Len(toClient)
      /\ toClient' \in Seq(Message)
      /\ DOMAIN toClient' = 1..Len(toClient) + 1 /\ toClient'[Len(toClient) + 1] = m
      /\ Len(toClient') = Len(toClient) + 1
      /\ \A j \in DOMAIN toClient : toClient'[j] = toClient[j]
  BY DEF ClientInv, LinkTypes
<1> DEFINE told == {t \in Tool : m.type = "toolEnabled" /\ m.tools = {t}}
<1>2. /\ Enabled' = Enabled \cup told
      /\ m.type = "availableTools" => m.tools = Enabled /\ Enabled' = Enabled
  <2>1. CASE m.type = "availableTools"
    BY <2>1
  <2>2. CASE m.type # "availableTools"
    BY <2>2
  <2> QED
    BY <2>1, <2>2
<1>3. \A k \in 0..Len(toClient) : Announced(k)' = Announced(k) \cup told
  BY <1>1, AnnouncedWhenSent
<1> HIDE DEF told
<1>4. LinkTypes'
  <2>1. \A i \in DOMAIN toClient' :
          toClient'[i].type = "toolEnabled" => \E t \in Tool : toClient'[i].tools = {t}
    <3>1. m.type = "toolEnabled" => \E t \in Tool : m.tools = {t}
      OBVIOUS
    <3>2. \A i \in DOMAIN toClient :
            toClient[i].type = "toolEnabled" => \E t \in Tool : toClient[i].tools = {t}
      BY DEF ClientInv, LinkTypes
    <3>3. ASSUME NEW i \in DOMAIN toClient', toClient'[i].type = "toolEnabled"
          PROVE  \E t \in Tool : toClient'[i].tools = {t}
      <4>1. i \in DOMAIN toClient \/ toClient'[i] = m
        BY <1>1
      <4> QED
        BY <1>1, <3>1, <3>2, <3>3, <4>1
    <3> QED
      BY <3>3
  <2> QED
    BY <1>1, <2>1 DEF ClientInv, LinkTypes
<1>5. ListsComplete'
  <2>1. ASSUME NEW i \in DOMAIN toClient', toClient'[i].type = "availableTools"
        PROVE  toClient'[i].tools \cup Announced(i)' = Enabled'
    <3>1. CASE i = Len(toClient) + 1
      <4>1. Announced(i)' = {}
        BY <1>1, <3>1 DEF Announced
      <4> QED
        BY <1>1, <1>2, <2>1, <3>1, <4>1
    <3>2. CASE i # Len(toClient) + 1
      <4>1. i \in DOMAIN toClient /\ i \in 0..Len(toClient) /\ toClient'[i] = toClient[i]
        BY <1>1, <3>2
      <4>2. toClient[i].tools \cup Announced(i) = Enabled
        BY <2>1, <4>1 DEF ClientInv, ListsComplete
      <4> QED
        BY <1>2, <1>3, <4>1, <4>2
    <3> QED
      BY <3>1, <3>2
  <2> QED
    BY <2>1 DEF ListsComplete
<1>6. ClientComplete'
  <2>1. Announced(0)' = Announced(0) \cup told
    BY <1>1, <1>3
  <2> QED
    BY <1>2, <2>1 DEF ClientInv, ClientComplete, HasList
<1>7. Offline'
  BY DEF ClientInv, Offline
<1> QED
  BY <1>4, <1>5, <1>6, <1>7 DEF ClientInv

\* init() returns while there is no client.
LEMMA OfflineKeepsClient ==
  ASSUME ClientInv, ~connections.up, OneInitEach',
         UNCHANGED <<connections, toClient, client, initUi>>
  PROVE  ClientInv'
<1>1. toClient = <<>> /\ client = NewClient
  BY DEF ClientInv, Offline
<1>2. LinkTypes' /\ Offline' /\ ListsComplete'
  BY DEF ClientInv, LinkTypes, Offline, ListsComplete
<1>3. ClientComplete'
  BY <1>1 DEF ClientInv, ClientComplete, HasList, NewClient
<1> QED
  BY <1>2, <1>3 DEF ClientInv

LEMMA ActivatedKeepsClient ==
  ASSUME ToolInv, ClientInv, Activated
  PROVE  ClientInv'
<1>1. PICK t \in Top.init : toClient' = Forward([type |-> "toolEnabled", tools |-> {t}])
  BY DEF Activated
<1>2. OneInitEach' /\ t \in Tool /\ Enabled' = Enabled \cup {t}
  BY <1>1, ActivatedEnables DEF ClientInv
<1>3. UNCHANGED <<connections, client, initUi>>
  BY DEF Activated
<1>4. CASE connections.up
  <2> DEFINE m == [type |-> "toolEnabled", tools |-> {t}]
  <2>1. m \in Message /\ m.type = "toolEnabled" /\ m.tools = {t}
    BY <1>2 DEF Message
  <2>2. toClient' = Append(toClient, m)
    BY <1>1, <1>4 DEF Forward
  <2> HIDE DEF m
  <2> QED
    BY <1>2, <1>3, <1>4, <2>1, <2>2, SentKeepsLists
<1>5. CASE ~connections.up
  BY <1>1, <1>2, <1>3, <1>5, OfflineKeepsClient DEF Forward
<1> QED
  BY <1>4, <1>5

\* The answer to a request is given by the event loop, when no tool is in its init().
LEMMA AnswerKeepsClient ==
  ASSUME ToolInv, ClientInv, calls = <<>>, UNCHANGED toolVars,
         UNCHANGED <<connections, client, initUi>>, toClient' = Forward(AvailableTools)
  PROVE  ClientInv'
<1>1. InInit = {} /\ InInit' = {}
  BY DEF InInit, toolVars
<1>2. Enabled = Tool \ disabled /\ Enabled' = Enabled
  BY <1>1 DEF Enabled, toolVars
<1>3. OneInitEach'
  BY DEF ClientInv, OneInitEach, toolVars
<1>4. CASE connections.up
  <2> DEFINE m == AvailableTools
  <2>1. m \in Message /\ m.type = "availableTools" /\ m.tools = Enabled
    BY <1>2 DEF Message, AvailableTools
  <2>2. toClient' = Append(toClient, m)
    BY <1>4 DEF Forward
  <2> HIDE DEF m
  <2> QED
    BY <1>2, <1>3, <1>4, <2>1, <2>2, SentKeepsLists
<1>5. CASE ~connections.up
  BY <1>3, <1>5, OfflineKeepsClient DEF Forward
<1> QED
  BY <1>4, <1>5

LEMMA ConnectionKeepsClient ==
  ASSUME ClientInv, Connect \/ Established \/ Disconnected
  PROVE  ClientInv'
<1>1. UNCHANGED <<disabled, calls>>
  BY DEF Connect, Established, Disconnected, toolVars
<1>2. OneInitEach' /\ Enabled' = Enabled
  BY <1>1 DEF ClientInv, OneInitEach, Enabled, InInit
<1>3. CASE Connect
  <2>1. toClient = <<>> /\ client = NewClient /\ UNCHANGED <<toClient, client, initUi>>
    BY <1>3 DEF ClientInv, Offline, Connect
  <2>2. connections' \in [made : Nat, up : BOOLEAN] /\ connections'.up
    BY <1>3 DEF ClientInv, LinkTypes, Connect
  <2>3. LinkTypes'
    BY <2>1, <2>2 DEF ClientInv, LinkTypes
  <2>4. ListsComplete' /\ Offline'
    BY <2>1, <2>2 DEF ListsComplete, Offline
  <2>5. ClientComplete'
    BY <2>1 DEF ClientInv, ClientComplete, HasList, NewClient
  <2> QED
    BY <1>2, <2>3, <2>4, <2>5 DEF ClientInv
<1>4. CASE Established
  <2>1. /\ UNCHANGED <<connections, toClient, initUi>> /\ connections.up
        /\ client' = [client EXCEPT !.asked = TRUE, !.waiting = TRUE] /\ ~client.asked
    BY <1>4 DEF Established
  <2>2. client \in [asked : BOOLEAN, waiting : BOOLEAN, listed : SUBSET Tool, enabled : SUBSET Tool]
    BY DEF ClientInv, LinkTypes
  <2>3. /\ client' \in [asked : BOOLEAN, waiting : BOOLEAN, listed : SUBSET Tool,
                        enabled : SUBSET Tool]
        /\ client'.waiting /\ client'.listed = client.listed /\ client'.enabled = client.enabled
    BY <2>1, <2>2
  <2>4. LinkTypes' /\ Offline'
    BY <2>1, <2>3 DEF ClientInv, LinkTypes, Offline
  <2>5. ListsComplete'
    BY <1>2, <2>1 DEF ClientInv, ListsComplete, Announced
  <2>6. ClientComplete'
    BY <2>1, <2>3 DEF ClientInv, ClientComplete, HasList
  <2> QED
    BY <1>2, <2>4, <2>5, <2>6 DEF ClientInv
<1>5. CASE Disconnected
  <2>1. toClient' = <<>> /\ client' = NewClient /\ UNCHANGED initUi
    BY <1>5 DEF Disconnected
  <2>2. connections' \in [made : Nat, up : BOOLEAN]
    BY <1>5 DEF ClientInv, LinkTypes, Disconnected
  <2>3. LinkTypes'
    BY <2>1, <2>2 DEF ClientInv, LinkTypes, NewClient
  <2>4. ListsComplete' /\ Offline'
    BY <2>1 DEF ListsComplete, Offline
  <2>5. ClientComplete'
    BY <2>1 DEF ClientComplete, HasList, NewClient
  <2> QED
    BY <1>2, <2>3, <2>4, <2>5 DEF ClientInv
<1> QED
  BY <1>3, <1>4, <1>5

\* Factories are used for these tools, and for none a second time.
LEMMA FactoriesUsed ==
  ASSUME initUi \in UiCounts, NEW S \in SUBSET Tool, UiInitialized(S)
  PROVE  /\ initUi' \in UiCounts
         /\ \A t \in S \cap Remotable : initUi'[t] = 1
         /\ \A t \in Tool : initUi[t] = 1 => initUi'[t] = 1
  BY DEF UiInitialized, UiCounts

ClientRecord == [asked : BOOLEAN, waiting : BOOLEAN, listed : SUBSET Tool, enabled : SUBSET Tool]

\* What the client makes of the message, told that it has asked.
LEMMA MessageRead ==
  ASSUME ClientInv, toClient # <<>>, ReceiveMessage
  PROVE  /\ client' \in ClientRecord /\ initUi' \in UiCounts
         /\ ClientComplete'
<1> DEFINE m == Head(toClient)
<1>1. /\ toClient \in Seq(Message) /\ toClient' = Tail(toClient) /\ m \in Message
      /\ m = toClient[1] /\ 1 \in DOMAIN toClient
      /\ client \in ClientRecord /\ initUi \in UiCounts
      /\ m.type = "toolEnabled" => \E t \in Tool : m.tools = {t}
  BY DEF ReceiveMessage, ClientInv, LinkTypes, ClientRecord
<1>2. /\ Enabled' = Enabled /\ connections.up
      /\ m.type = "availableTools" => m.tools \cup Announced(1) = Enabled
  BY <1>1 DEF ReceiveMessage, ClientInv, Offline, ListsComplete, Enabled, InInit, toolVars
<1>3. /\ Announced(0)' = Announced(1)
      /\ Announced(0) = Announced(1) \cup {t \in Tool : m.type = "toolEnabled" /\ m.tools = {t}}
  <2>1. Announced(0)' = Announced(0 + 1)
    BY <1>1, AnnouncedWhenRead
  <2> QED
    BY <1>1, <2>1, AnnouncedByHead
<1>4. m.tools \in SUBSET Tool /\ m.type \in {"availableTools", "toolEnabled"}
  BY <1>1 DEF Message
<1>5. /\ client.listed = IF HasList THEN HasUi \ Hidden ELSE {}
      /\ HasList => /\ client.enabled \subseteq client.listed
                    /\ (client.enabled \cup Announced(0)) \cap client.listed
                         = Enabled \cap client.listed
      /\ ~HasList => client.enabled = {}
      /\ \A t \in client.enabled \cap Remotable : initUi[t] = 1
  BY DEF ClientInv, ClientComplete
<1>6. CASE ~client.asked
  <2>1. UNCHANGED <<client, initUi>>
    BY <1>6 DEF ReceiveMessage
  <2> QED
    BY <1>1, <1>5, <1>6, <2>1 DEF ClientComplete, HasList
<1>7. CASE client.asked /\ m.type = "availableTools"
  <2>1. GotTools(m.tools)
    BY <1>7 DEF ReceiveMessage
  <2>2. CASE client.waiting
    <3>1. /\ client' = [client EXCEPT !.waiting = FALSE, !.listed = HasUi \ Hidden,
                                      !.enabled = m.tools \cap (HasUi \ Hidden)]
          /\ UiInitialized(m.tools)
      BY <2>1, <2>2 DEF GotTools
    <3>2. /\ client' \in ClientRecord /\ client'.asked /\ ~client'.waiting
          /\ client'.listed = HasUi \ Hidden
          /\ client'.enabled = m.tools \cap (HasUi \ Hidden)
      BY <1>1, <1>4, <1>7, <3>1, ToolAssumption DEF ClientRecord
    <3>3. /\ initUi' \in UiCounts /\ \A t \in m.tools \cap Remotable : initUi'[t] = 1
      BY <1>1, <1>4, <3>1, FactoriesUsed
    <3> HIDE DEF m
    <3> QED
      BY <1>2, <1>3, <1>7, <3>2, <3>3 DEF ClientComplete, HasList
  <2>3. CASE ~client.waiting
    <3>1. UNCHANGED <<client, initUi>>
      BY <2>1, <2>3 DEF GotTools
    <3>2. Announced(0)' = Announced(0)
      BY <1>3, <1>7
    <3> QED
      BY <1>1, <1>2, <1>5, <3>1, <3>2 DEF ClientComplete, HasList
  <2> QED
    BY <2>2, <2>3
<1>8. CASE client.asked /\ m.type = "toolEnabled"
  <2>1. PICK t \in m.tools : ToolGotEnabled(t)
    BY <1>8 DEF ReceiveMessage
  <2>2. t \in Tool /\ m.tools = {t}
    BY <1>1, <1>8, <2>1
  <2>3. Announced(0) = Announced(1) \cup {t}
    BY <1>3, <1>8, <2>2
  <2>4. CASE t \in client.listed
    <3>1. client' = [client EXCEPT !.enabled = @ \cup {t}] /\ UiInitialized({t})
      BY <2>1, <2>4 DEF ToolGotEnabled
    <3>2. /\ client' \in ClientRecord /\ client'.asked = client.asked
          /\ client'.waiting = client.waiting /\ client'.listed = client.listed
          /\ client'.enabled = client.enabled \cup {t}
      BY <1>1, <2>2, <3>1 DEF ClientRecord
    <3>3. HasList /\ t \in HasUi
      BY <1>5, <2>4
    <3>4. /\ initUi' \in UiCounts
          /\ t \in Remotable => initUi'[t] = 1
          /\ \A u \in Tool : initUi[u] = 1 => initUi'[u] = 1
      BY <1>1, <2>2, <3>1, <3>3, FactoriesUsed
    <3>5. client.enabled \subseteq Tool
      BY <1>1 DEF ClientRecord
    <3> HIDE DEF m
    <3> QED
      BY <1>2, <1>3, <1>5, <2>3, <2>4, <3>2, <3>3, <3>4, <3>5 DEF ClientComplete, HasList
  <2>5. CASE t \notin client.listed
    <3>1. UNCHANGED <<client, initUi>>
      BY <2>1, <2>5 DEF ToolGotEnabled
    <3> HIDE DEF m
    <3> QED
      BY <1>1, <1>2, <1>3, <1>5, <2>3, <2>5, <3>1 DEF ClientComplete, HasList
  <2> QED
    BY <2>4, <2>5
<1> QED
  BY <1>4, <1>6, <1>7, <1>8

LEMMA ReceiveKeepsClient ==
  ASSUME ClientInv, ReceiveMessage
  PROVE  ClientInv'
<1>1. /\ toClient # <<>> /\ toClient' = Tail(toClient)
      /\ UNCHANGED <<disabled, calls, connections>>
  BY DEF ReceiveMessage, toolVars
<1>2. OneInitEach' /\ Enabled' = Enabled
  BY <1>1 DEF ClientInv, OneInitEach, Enabled, InInit
<1>3. client' \in ClientRecord /\ initUi' \in UiCounts /\ ClientComplete'
  BY <1>1, MessageRead
<1>4. /\ toClient \in Seq(Message) /\ toClient' \in Seq(Message)
      /\ \A j \in DOMAIN toClient' : /\ j \in Nat /\ j + 1 \in DOMAIN toClient
                                     /\ toClient'[j] = toClient[j + 1]
  BY <1>1 DEF ClientInv, LinkTypes
<1>5. LinkTypes'
  <2>1. \A i \in DOMAIN toClient' :
          toClient'[i].type = "toolEnabled" => \E t \in Tool : toClient'[i].tools = {t}
    <3>1. \A i \in DOMAIN toClient :
            toClient[i].type = "toolEnabled" => \E t \in Tool : toClient[i].tools = {t}
      BY DEF ClientInv, LinkTypes
    <3> QED
      BY <1>4, <3>1
  <2>2. connections' \in [made : Nat, up : BOOLEAN]
    BY <1>1 DEF ClientInv, LinkTypes
  <2> QED
    BY <1>3, <1>4, <2>1, <2>2 DEF LinkTypes, ClientRecord
<1>6. ListsComplete'
  <2>1. ASSUME NEW i \in DOMAIN toClient', connections.up, toClient'[i].type = "availableTools"
        PROVE  toClient'[i].tools \cup Announced(i)' = Enabled
    <3>1. toClient[i + 1].tools \cup Announced(i + 1) = Enabled
      BY <1>4, <2>1 DEF ClientInv, ListsComplete
    <3>2. Announced(i)' = Announced(i + 1)
      BY <1>1, <1>4, AnnouncedWhenRead
    <3> QED
      BY <1>4, <3>1, <3>2
  <2> QED
    BY <1>1, <1>2, <2>1 DEF ListsComplete
<1>7. Offline'
  BY <1>1 DEF ClientInv, Offline
<1> QED
  BY <1>2, <1>3, <1>5, <1>6, <1>7 DEF ClientInv

LEMMA ClientStep ==
  ASSUME ToolInv, ClientInv, [Next]_vars
  PROVE  ClientInv'
<1>1. ASSUME NEW c \in Class, ObjectAdded(c) PROVE ClientInv'
  <2>1. OneInitEach' /\ Enabled' = Enabled
    BY <1>1, ObjectAddedKeepsInits DEF ClientInv
  <2>2. UNCHANGED linkVars
    BY <1>1 DEF ObjectAdded, linkVars
  <2> QED
    BY <2>1, <2>2, QuietKeepsClient
<1>2. ASSUME NEW t \in Tool, Activate(t) PROVE ClientInv'
  <2>1. OneInitEach' /\ Enabled' = Enabled
    BY <1>2, ActivateKeepsInits DEF ClientInv
  <2>2. UNCHANGED linkVars
    BY <1>2 DEF Activate, linkVars
  <2> QED
    BY <2>1, <2>2, QuietKeepsClient
<1>3. CASE Activated
  BY <1>3, ActivatedKeepsClient
<1>4. CASE NextClass
  <2>1. OneInitEach' /\ Enabled' = Enabled
    BY <1>4, NextClassKeepsInits DEF ClientInv
  <2>2. UNCHANGED linkVars
    BY <1>4 DEF NextClass, linkVars
  <2> QED
    BY <2>1, <2>2, QuietKeepsClient
<1>5. CASE RequestAvailableTools
  BY <1>5, AnswerKeepsClient DEF RequestAvailableTools
<1>6. CASE RequestInProcess
  BY <1>6, AnswerKeepsClient DEF RequestInProcess
<1>7. CASE Connect \/ Established \/ Disconnected
  BY <1>7, ConnectionKeepsClient
<1>8. CASE ReceiveMessage
  BY <1>8, ReceiveKeepsClient
<1>9. CASE UNCHANGED vars
  <2>1. UNCHANGED <<disabled, calls>> /\ UNCHANGED linkVars
    BY <1>9 DEF vars, linkVars
  <2>2. OneInitEach' /\ Enabled' = Enabled
    BY <2>1 DEF ClientInv, OneInitEach, Enabled, InInit
  <2> QED
    BY <2>1, <2>2, QuietKeepsClient
<1> QED
  BY <1>1, <1>2, <1>3, <1>4, <1>5, <1>6, <1>7, <1>8, <1>9 DEF Next

(* The client's list, with all that is under way to it, makes the tools whose init()  *)
(* has returned, whatever is interleaved with what the list answers.                  *)
THEOREM ClientInvariance == Spec => [](ToolInv /\ ClientInv)
<1>1. Init => ToolInv /\ ClientInv
  BY ToolInit, ClientInit
<1>2. ToolInv /\ ClientInv /\ [Next]_vars => (ToolInv /\ ClientInv)'
  BY ToolStep, ClientStep
<1> QED
  BY <1>1, <1>2, PTL DEF Spec

(* A client that has the list and has read all messages shows as enabled just the     *)
(* tools whose init() has returned, the interface of each that supports remoting made *)
(* once and of no other (gotTools(), toolGotEnabled(), clear()).                      *)
THEOREM ClientAgreesAlways == Spec => []ClientAgrees
<1>1. ClientInv => ClientAgrees
  <2> SUFFICES ASSUME ClientInv PROVE ClientAgrees
    OBVIOUS
  <2>1. \A t \in Tool : initUi[t] <= IF t \in Remotable THEN 1 ELSE 0
    BY DEF ClientInv, LinkTypes, UiCounts
  <2>2. ASSUME connections.up, client.asked, ~client.waiting, toClient = <<>>
        PROVE  /\ client.enabled = client.listed \ (disabled \cup InInit)
               /\ \A t \in client.enabled \cap Remotable : initUi[t] = 1
    <3>1. Announced(0) = {}
      BY <2>2 DEF Announced
    <3>2. client.listed \subseteq Tool
      BY DEF ClientInv, LinkTypes
    <3>3. /\ client.enabled \subseteq client.listed
          /\ (client.enabled \cup Announced(0)) \cap client.listed = Enabled \cap client.listed
          /\ \A t \in client.enabled \cap Remotable : initUi[t] = 1
      BY <2>2 DEF ClientInv, ClientComplete, HasList
    <3> QED
      BY <3>1, <3>2, <3>3 DEF Enabled
  <2> QED
    BY <2>1, <2>2 DEF ClientAgrees
<1> QED
  BY <1>1, ClientInvariance, PTL

=============================================================================
