-------------------------- MODULE KarmadaOperator --------------------------
(***************************************************************************)
(* The operator's process: the installer controller and the summary        *)
(* controller, started together by StartControllers over one shared         *)
(* informer.  They never call each other; they meet in the finalizers and  *)
(* in the status of the objects, and a panic of either ends both.          *)
(***************************************************************************)
EXTENDS InstallerProperties, SummaryController

operatorVars == <<vars, summaryVars>>
installerVars == <<wq, work, release, nsState>>

OperatorInit == Init /\ SummaryInit

\* Every event of the informer reaches the handlers of both controllers.
SharedInformerEvent(n) == InformerEvent(n) /\ SummaryHandles(n)

OperatorDies ==
  \/ ProcessDies /\ SummaryRestart
  \/ SummaryPanics /\ Restart /\ SummaryRestart /\ UNCHANGED faults

OperatorNext ==
  \/ UserStep /\ UNCHANGED <<ctlVars, extVars, faults, summaryVars>>
  \/ \E n \in Names : SharedInformerEvent(n)
  \/ \E n \in Names : BackoffElapses(n) /\ UNCHANGED summaryVars
  \/ WorkerStep /\ UNCHANGED summaryVars
  \/ SummaryStep /\ UNCHANGED installerVars
  \/ OperatorDies
  \/ ClusterStep /\ UNCHANGED summaryVars

OperatorSpec == OperatorInit /\ [][OperatorNext]_operatorVars

InstallerWorkerRuns ==
  \/ WorkerStep /\ UNCHANGED summaryVars
  \/ InstallerPanics /\ SummaryRestart

SummaryWorkerRuns ==
  \/ SummaryWorkerStep /\ UNCHANGED installerVars
  \/ SummaryPanics /\ Restart /\ SummaryRestart /\ UNCHANGED faults

\* As for the installer alone, and: the summary worker and its goroutines run.
OperatorFairness ==
  /\ WF_operatorVars(InstallerWorkerRuns)
  /\ WF_operatorVars(SummaryWorkerRuns)
  /\ \A n \in Names :
       /\ WF_operatorVars(SharedInformerEvent(n))
       /\ WF_operatorVars(BackoffElapses(n) /\ UNCHANGED summaryVars)
       /\ WF_operatorVars(SummaryBackoffElapses(n) /\ UNCHANGED installerVars)
       /\ \A i \in Loops : WF_operatorVars(LoopStep(n, i) /\ UNCHANGED installerVars)
  /\ \A ns \in Namespaces : WF_operatorVars(NamespaceGone(ns) /\ UNCHANGED summaryVars)

OperatorFairSpec == OperatorSpec /\ OperatorFairness

-----------------------------------------------------------------------------
(* Properties *)

OperatorTypeOK == TypeOK /\ SummaryTypeOK

\* A manager never outlives what it was started for: while the controller has a
\* manager for a name, the stored object has the summary finalizer, so that no
\* deletion, retry, conflict or stale copy leaves a manager, its goroutines and
\* its informers behind (GetSummaryManager, removekarmadaDeployment).
ManagersGuarded ==
  \A n \in Names :
    managers[n] # 0 => Exists(n) /\ SummaryFinalizer \in api[n].finalizers

\* The generation that the status says was observed does not go back.
ObservedGenerationGrows ==
  [][\A n \in Names :
       Live(n) /\ Live(n)' /\ api[n].uid = api[n].uid' =>
         api'[n].status.obsGen >= api[n].status.obsGen]_operatorVars

\* A ready control plane gets a summary of its contents, or stops being ready.
SummaryPublished ==
  \A n \in Names :
    (Live(n) /\ api[n].status.cpr) ~>
      (~Live(n) \/ ~api[n].status.cpr \/ api[n].status.summary = load[n])

\* The summary controller does not hold up a deletion: it lets a deleted object
\* go unless the status it is shown says that the control plane is not ready.
SummaryLetsGo ==
  \A n \in Names : \A uid \in 1..MaxUid :
    (Exists(n) /\ api[n].uid = uid /\ api[n].deleting /\ api[n].status.cpr) ~>
      \/ ~Exists(n) \/ api[n].uid # uid
      \/ ~api[n].status.cpr
      \/ SummaryFinalizer \notin api[n].finalizers
=============================================================================
