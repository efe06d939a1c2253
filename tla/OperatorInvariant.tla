------------------------- MODULE OperatorInvariant -------------------------
(***************************************************************************)
(* The inductive invariant behind ManagersGuarded: that of the installer,   *)
(* and what the summary controller may rely on when it starts a manager,    *)
(* however old the copy of the object that it starts from.                  *)
(***************************************************************************)
EXTENDS KarmadaOperator, InstallerInvariant

HasSummaryFinalizer(n) == Exists(n) /\ SummaryFinalizer \in api[n].finalizers

\* The summary worker has a key, and an object where it uses one.
SummaryWorkOK ==
  /\ swork.pc # "idle" => swork.key \in Names
  /\ swork.pc = "manager" => swork.kmd \in Kmds

\* From a version with the finalizer that is not deleted, the object that is stored
\* still has it: only the deletion of a later version lets the worker remove it.
SummaryVersionsOK ==
  \A n \in Names : \A v \in Versions(n) :
    v # NoKmd /\ ~v.deleting /\ SummaryFinalizer \in v.finalizers => HasSummaryFinalizer(n)

\* The worker starts a manager only under the finalizer, and removes the finalizer
\* only when there is no manager.
SummaryWorkerOK ==
  /\ swork.pc = "manager" => HasSummaryFinalizer(swork.key)
  /\ swork.pc = "unfinalize" => managers[swork.key] = 0

\* A kubeconfig is that of an incarnation which was created.
SecretsNumbered == \A s \in secrets : s[2] \in 0..MaxUid

OperatorInv ==
  /\ IInv
  /\ SummaryTypeOK
  /\ SummaryWorkOK
  /\ SecretsNumbered
  /\ SummaryVersionsOK
  /\ SummaryWorkerOK
  /\ ManagersGuarded

-----------------------------------------------------------------------------
\* A goroutine that is about to write a status took it from a version: it refers to
\* no secret that is yet to come, and claims nothing that is wrong.
LoopsBorn ==
  \A n \in Names, i \in Loops :
    loops[n][i].pc = "write" => loops[n][i].status.secret <= born[n]

LoopsJustified ==
  \A n \in Names, i \in Loops :
    loops[n][i].pc = "write" => Justified(n, loops[n][i].status)

\* What the installer guarantees of ownership alone, it guarantees beside the
\* summary controller.
OperatorOwnershipInv ==
  /\ OperatorInv
  /\ OwnershipInv
  /\ LoopsBorn
  /\ NamespacesDisjoint => LoopsJustified
=============================================================================
