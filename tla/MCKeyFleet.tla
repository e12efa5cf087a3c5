------------------------------- MODULE MCKeyFleet -------------------------------
(* KeyFleet on small instances.                                              *)
EXTENDS KeyFleet

CONSTANTS u1, s1

===============================================================================
