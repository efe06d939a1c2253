----------------------------- MODULE MCOperator -----------------------------
(***************************************************************************)
(* Instances of the whole operator for TLC.                                *)
(***************************************************************************)
EXTENDS MCInstaller, OperatorInvariant

CONSTANTS l1, l2

\* The only name has one possible namespace, its default.
OneNs == [n \in Names |-> {"ns1"}]
=============================================================================
