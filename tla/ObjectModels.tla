---------------------------- MODULE ObjectModels ----------------------------
(***************************************************************************)
(* The two models the probe keeps of the target's objects, as operators on *)
(* their state: the sorted list of core/objectlistmodel.cpp, abstracted to *)
(* the bag of its rows, and the tree of core/objecttreemodel.cpp with its  *)
(* two maps.  Row numbers follow from the sort by address, so a row is     *)
(* identified with its object.                                             *)
(***************************************************************************)
EXTENDS Naturals

CONSTANTS Obj,   \* the addresses QObjects can live at
          Null   \* the null pointer

ASSUME ObjAssumption == Null \notin Obj

ObjOrNull == Obj \cup {Null}

-----------------------------------------------------------------------------
(***************************************************************************)
(* QObject hierarchies.  par[o] is o->parent().                            *)
(***************************************************************************)

\* o and what is above it, up to the first object of stop: the least set that
\* holds o and goes on to the parent of each of its members.
Climb(par, o, stop) ==
  {x \in Obj : \A S \in SUBSET Obj :
     o \in S /\ (\A y \in S : par[y] \in S \cup stop \cup {Null}) => x \in S}

SelfAndAncestors(par, o) == Climb(par, o, {})

ChildrenOf(par, o) == {c \in Obj : par[c] = o}

\* Every set of objects has one whose parent is outside: no chain of parent
\* pointers comes back to its start.
Acyclic(par) == \A S \in SUBSET Obj : S # {} => \E o \in S : par[o] \notin S

-----------------------------------------------------------------------------
(***************************************************************************)
(* Child vectors as bags of rows: a second row of one object is possible.  *)
(***************************************************************************)

NoRows == [o \in Obj |-> 0]

\* Mutant of RowRemoved: erases what the binary search found without a look.
RowRemovedBlindly(rows, o) == [rows EXCEPT ![o] = @ - 1]

RowAdded(rows, o)   == [rows EXCEPT ![o] = @ + 1]
RowRemoved(rows, o) == [rows EXCEPT ![o] = IF @ > 0 THEN @ - 1 ELSE 0]

RowsOf(rows) == {o \in Obj : rows[o] > 0}

-----------------------------------------------------------------------------
(***************************************************************************)
(* ObjectTreeModel.  A tree t is a record of m_childParentMap, a partial   *)
(* function (QHash::value of an absent key is the null pointer), and       *)
(* m_parentChildMap, whose absent keys are empty child vectors.            *)
(***************************************************************************)

EmptyTree == [childParent |-> [o \in {} |-> Null], parentChild |-> [o \in ObjOrNull |-> NoRows]]

Knows(t, o) == o \in DOMAIN t.childParent

MappedParent(t, o) == IF Knows(t, o) THEN t.childParent[o] ELSE Null

\* o is in the child vector of the parent the other map names for it.
IsRow(t, o) == t.parentChild[MappedParent(t, o)][o] > 0

\* indexForObject(): valid when every step up to the root is a row.
Indexed(t) ==
  {x \in Obj : \A S \in SUBSET Obj :
     (\A y \in Obj : IsRow(t, y) /\ MappedParent(t, y) \in S \cup {Null} => y \in S) => x \in S}

\* indexForObject() recurses through MappedParent: it returns only if that ends.
TreeAcyclic(t) == Acyclic([o \in Obj |-> MappedParent(t, o)])

\* objectAdded(): o and, root first, each ancestor up to an indexed one.
TreeAdded(t, par, o) ==
  LET new == IF o \in Indexed(t) THEN {} ELSE Climb(par, o, Indexed(t))
  IN  [childParent |-> [x \in DOMAIN t.childParent \cup new |->
                          IF x \in new THEN par[x] ELSE t.childParent[x]],
       parentChild |-> [p \in ObjOrNull |-> [x \in Obj |->
                          IF x \in new /\ par[x] = p THEN t.parentChild[p][x] + 1
                                                     ELSE t.parentChild[p][x]]]]

\* objectRemoved(): the child maps of objects below o keep naming it.
TreeRemoved(t, o) ==
  IF o \in Indexed(t)
  THEN [childParent |-> [x \in DOMAIN t.childParent \ {o} |-> t.childParent[x]],
        parentChild |-> [t.parentChild EXCEPT ![MappedParent(t, o)] = RowRemoved(@, o),
                                              ![o] = NoRows]]
  ELSE t

\* Mutant of TreeReparented: moves to the top level are left out.
TreeReparentedBelow(t, par, o) ==
  IF par[o] = Null \/ ~Knows(t, o) \/ o \notin Indexed(t) THEN t
  ELSE [childParent |-> [t.childParent EXCEPT ![o] = par[o]],
        parentChild |-> [t.parentChild EXCEPT ![t.childParent[o]] = RowRemoved(@, o),
                                              ![par[o]] = RowAdded(@, o)]]

\* objectReparented() of an object the probe considers valid.
TreeReparented(t, par, o) ==
  CASE ~Knows(t, o) -> TreeAdded(t, par, o)
    [] Knows(t, o) /\ (o \notin Indexed(t) \/ t.childParent[o] = par[o]) -> t
    [] OTHER ->
         [childParent |-> [t.childParent EXCEPT ![o] = par[o]],
          parentChild |-> [t.parentChild EXCEPT ![t.childParent[o]] = RowRemoved(@, o),
                                                ![par[o]] = RowAdded(@, o)]]
=============================================================================
