------------------------- MODULE InstallerLifecycle -------------------------
(***************************************************************************)
(* The installer controller implements the life of its objects: what the   *)
(* stored object, its finalizer and the deployed releases say of a name is *)
(* a behaviour of KmdLifecycle, whatever the worker is doing and whatever  *)
(* copy it is doing it with.                                               *)
(***************************************************************************)
EXTENDS InstallerProperties

\* The stage that the stored object shows.  A deleted object that only the
\* finalizers of others keep is out of the installer's hands: it counts as gone.
Stage(n) ==
  LET kept == InstallerFinalizer \in api[n].finalizers
  IN  IF ~Exists(n) THEN "absent"
      ELSE IF api[n].deleting THEN (IF kept THEN "leaving" ELSE "absent")
      ELSE (IF kept THEN "held" ELSE "requested")

\* The incarnations that a deployed release was made for.
Running(n) ==
  {release[n][ns].uid : ns \in {s \in Namespaces : release[n][s].status = "deployed"}}

StageOf == [n \in Names |-> Stage(n)]
RunningOf == [n \in Names |-> Running(n)]

Life == INSTANCE KmdLifecycle WITH
  stage <- StageOf, incarnation <- born, running <- RunningOf

\* Every step of the installer, of its users and of the cluster is a step of the
\* lifecycle or changes nothing in it: an object passes from requested to held
\* before its control plane comes up, comes back to nobody's hands only through
\* a deletion, and keeps its control plane while nobody deletes it (syncHandler,
\* installWorkflow, uninstallWorkflow).
Lifecycle == Life!Spec
=============================================================================
