----------------------- MODULE MCMetaObjectRegistry -----------------------
(* Two dynamic classes, D derived from B. *)
EXTENDS MetaObjectRegistry

BaseOf == [c \in {"B", "D"} |-> IF c = "D" THEN "B" ELSE "QObject"]
=============================================================================
