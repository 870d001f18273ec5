---- MODULE MCToolManager ----
(* A class B, D that inherits it and another class C; a tool for each of B and D, one for
   both B and C that the client has no factory for, one without a page for D, and one for C
   whose factory does not support a remote client. *)
EXTENDS ToolManager

SuperOf    == [c \in Class |-> IF c = "D" THEN "B" ELSE NoClass]
SupportsOf == [t \in Tool |-> CASE t = "base" -> {"B"} [] t = "derived" -> {"D"}
                                [] t = "shared" -> {"B", "C"} [] t = "hidden" -> {"D"}
                                [] t = "script" -> {"C"}]
====
