---------------------------- MODULE MCInstaller ----------------------------
(***************************************************************************)
(* Instances of the installer controller for TLC: values that a .cfg       *)
(* cannot write.                                                           *)
(***************************************************************************)
EXTENDS InstallerInvariant, InstallerLifecycle

CONSTANTS k1, k2

\* Every user who names a namespace names the same one; a default is another.
UserNs == [n \in Names |-> {"ns1"}]
RandomNs == [n \in Names |-> {"rnd1"}]

\* The default namespace is drawn from two.
RandomNs2 == [n \in Names |-> {"rnd1", "rnd2"}]

\* No user names a namespace, and each name has a default of its own.
NoUserNs == [n \in Names |-> {}]
OwnNs == [n \in Names |-> IF n = k1 THEN {"ns1"} ELSE {"ns2"}]
=============================================================================
