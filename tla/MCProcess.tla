----------------------------- MODULE MCProcess -----------------------------
(***************************************************************************)
(* Process on small instances.                                             *)
(***************************************************************************)
EXTENDS Process

\* The version with three migrations, and the one before it with two.
Versions == [p \in Processes |-> IF p = "current" THEN 3 ELSE 2]
=============================================================================
