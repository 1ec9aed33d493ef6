--------------------------- MODULE MCOperatorSession ---------------------------
(* Instances of OperatorSession for TLC.  One tick stands for 30 seconds: a
   ping interval of 2, a reply timeout of 1, TTLs from 2 upward. *)
EXTENDS OperatorSession

TwoTtls == {2, 5}
================================================================================
