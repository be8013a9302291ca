------------------------------- MODULE MCKnowledgeBase -------------------------------
(* One article whose first body has two chunks and whose second has one.     *)
EXTENDS KnowledgeBase

MCSize == [n \in Revisions |-> IF n = 1 THEN 2 ELSE 1]
====
