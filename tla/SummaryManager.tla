--------------------------- MODULE SummaryManager ---------------------------
(***************************************************************************)
(* One summary manager: its informers on the control plane, the goroutines *)
(* that the controller starts in Run, one more for each sync of the object *)
(* that succeeds, and Shuntdown.  SummaryController models the manager as  *)
(* the controller sees it; here are its parts.                             *)
(*                                                                         *)
(* Each informer lists when it can and changes its store when it learns of *)
(* a change.  Nothing makes it list: a control plane may not answer, and   *)
(* one that lacks a kind never lists it.                                   *)
(***************************************************************************)
EXTENDS SummaryAggregation, InformerManager, Naturals

CONSTANTS
  Runs,        \* goroutines in Run
  Contents,    \* [Resources -> possible contents of a lister]
  MaxChanges,  \* bound: changes that informers learn of after they listed
  MaxUnits,    \* bound: the largest number that a cluster reports
  Gone,        \* stands for a summary when there is no object
  MaxFaults    \* bound: writes that fail, and statuses that others write back

VARIABLES
  im,          \* the informer manager
  stores,      \* [Resources -> contents of the informer's store]
  changes,     \* changes left
  runs,        \* [Runs -> a goroutine]
  manager,     \* "open", "closing" (shut down), "stopping" (context cancelled too),
               \* "closed" (channel closed too)
  relay,       \* the goroutine of ContextForChannel lives
  status,      \* the summary in the stored object, or Gone
  copy,        \* the same in the informer of the operator
  faults       \* faults left

managerVars == <<im, manager, relay>>
storeVars == <<stores, changes>>
statusVars == <<status, copy, faults>>
summaryManagerVars == <<im, stores, changes, runs, manager, relay, status, copy, faults>>

Pcs == {"none", "start", "lock", "wait", "round", "collect", "write", "check"}
NoRun == [pc |-> "none", copy |-> NoSummary, summary |-> NoSummary]
Nothing == [r \in Resources |-> <<>>]

ASSUME SummaryManagerAssumption ==
  /\ Nobody \notin Runs
  /\ \A r \in Resources : <<>> \in Contents[r]
  /\ MaxChanges \in Nat /\ MaxFaults \in Nat

\* Listers hold finitely many objects; what a cluster reports is counted in some unit,
\* and a part of a summary is told from none.
ASSUME ContentsAssumption ==
  /\ MaxUnits \in Nat
  /\ \A r \in Resources : \A objs \in Contents[r] : IsFiniteSet(DOMAIN objs)
  /\ \A clusters \in Contents[ClusterGvr] :
       /\ clusters # <<>> => clusterSyncHandler(clusters) # NoSummary
       /\ \A c \in Reporting(clusters, "nodes") :
            clusters[c].nodes.total \in 0..MaxUnits /\ clusters[c].nodes.ready \in 0..MaxUnits
       /\ \A c \in Reporting(clusters, "resources"), l \in Lists, name \in ResourceNames :
            Quantity(clusters[c].resources[l], name) \in 0..MaxUnits

TypeOK ==
  /\ im \in [informers : [Resources -> {"created", "listing", "synced", "dead"}],
             handlers : {Resources}, done : BOOLEAN, lock : Runs \cup {Nobody}]
  /\ DOMAIN stores = Resources
  /\ \A r \in Resources : stores[r] \in Contents[r]
  /\ DOMAIN runs = Runs
  /\ \A g \in Runs :
       /\ DOMAIN runs[g] = DOMAIN NoRun
       /\ runs[g].pc \in Pcs
       /\ runs[g].pc = "wait" <=> im.lock = g
  /\ manager \in {"open", "closing", "stopping", "closed"}
  /\ manager \in {"stopping", "closed"} => im.done
  /\ changes \in 0..MaxChanges /\ faults \in 0..MaxFaults

\* NewSummaryManager: every resource is registered before the first Run.
Registered ==
  LET all == NewInformerManager(Resources)
      core == ForResources(all, CoreResources)
      policy == ForResources(core, PolicyResources)
  IN  ForResources(policy, {ClusterGvr, DeploymentGvr})

Init ==
  /\ im = Registered
  /\ stores = Nothing
  /\ changes = MaxChanges
  /\ runs = [g \in Runs |-> NoRun]
  /\ manager = "open"
  /\ relay = TRUE
  /\ status = NoSummary
  /\ copy = NoSummary
  /\ faults = MaxFaults

At(g, pc) == runs[g].pc = pc
Goto(g, pc) == runs' = [runs EXCEPT ![g].pc = pc]
End(g) == runs' = [runs EXCEPT ![g] = NoRun]

-----------------------------------------------------------------------------
(* The informers *)

\* A list that was under way when the context ended may still arrive.
InformerLists(r) ==
  /\ im.informers[r] = "listing"
  /\ im' = [im EXCEPT !.informers[r] = "synced"]
  /\ \E c \in Contents[r] : stores' = [stores EXCEPT ![r] = c]
  /\ UNCHANGED <<changes, runs, manager, relay, statusVars>>

InformerFollows(r) ==
  /\ im.informers[r] = "synced"
  /\ changes > 0
  /\ changes' = changes - 1
  /\ \E c \in Contents[r] \ {stores[r]} : stores' = [stores EXCEPT ![r] = c]
  /\ UNCHANGED <<runs, managerVars, statusVars>>

-----------------------------------------------------------------------------
(* Run *)

\* StartWithChannel, on a manager that the controller still has in its map.  A
\* goroutine beyond the places of Runs is one that is never scheduled.
RunAgain(g) ==
  /\ manager = "open"
  /\ At(g, "none")
  /\ Goto(g, "start")
  /\ UNCHANGED <<managerVars, storeVars, statusVars>>

StartInformers(g) ==
  /\ At(g, "start")
  /\ im' = Start(im)
  /\ Goto(g, "lock")
  /\ UNCHANGED <<manager, relay, storeVars, statusVars>>

\* Mutant: the wait takes the lock for reading.
BeginWaitShared(g) ==
  /\ At(g, "lock")
  /\ im' = Acquire(im, g)
  /\ Goto(g, "wait")
  /\ UNCHANGED <<manager, relay, storeVars, statusVars>>

\* The lock is held for as long as the informers take.
BeginWait(g) ==
  /\ At(g, "lock")
  /\ im.lock = Nobody
  /\ im' = Acquire(im, g)
  /\ Goto(g, "wait")
  /\ UNCHANGED <<manager, relay, storeVars, statusVars>>

AllSynced(g) ==
  /\ At(g, "wait")
  /\ Unsynced(im) = {}
  /\ im' = Release(im)
  /\ Goto(g, "round")
  /\ UNCHANGED <<manager, relay, storeVars, statusVars>>

\* Mutant: a wait that was cut short counts as one that succeeded.
GoOnUnsynced(g) ==
  /\ At(g, "wait")
  /\ im.done /\ Unsynced(im) # {}
  /\ im' = Release(im)
  /\ Goto(g, "round")
  /\ UNCHANGED <<manager, relay, storeVars, statusVars>>

\* WaitForCacheSync gives up on an informer once the context is done.
GiveUp(g) ==
  /\ At(g, "wait")
  /\ im.done /\ Unsynced(im) # {}
  /\ im' = Release(im)
  /\ End(g)
  /\ UNCHANGED <<manager, relay, storeVars, statusVars>>

-----------------------------------------------------------------------------
(* processNext *)

TakeCopy(g) ==
  /\ At(g, "round")
  /\ IF copy = Gone THEN Goto(g, "check")
     ELSE runs' = [runs EXCEPT ![g].pc = "collect", ![g].copy = copy]
  /\ UNCHANGED <<managerVars, storeVars, statusVars>>

\* Mutant: a summary that is there is not brought up to date.
CollectOnce(g) ==
  /\ At(g, "collect")
  /\ runs' = [runs EXCEPT ![g] =
                IF @.copy # NoSummary THEN [NoRun EXCEPT !.pc = "check"]
                ELSE [NoRun EXCEPT !.pc = "write", !.summary = Summary(stores)]]
  /\ UNCHANGED <<managerVars, storeVars, statusVars>>

\* The listers are read one after the other.  What they give is what they would
\* give together had the informers of those read first lagged until now.
Collect(g) ==
  LET summary == Summary(stores)
  IN  /\ At(g, "collect")
      /\ im' = Listers(im, Resources)
      /\ runs' = [runs EXCEPT ![g] =
                    IF @.copy = summary THEN [NoRun EXCEPT !.pc = "check"]
                    ELSE [NoRun EXCEPT !.pc = "write", !.summary = summary]]
      /\ UNCHANGED <<manager, relay, storeVars, statusVars>>

\* SetStatus: the stored object is looked up again.
WriteSummary(g) ==
  /\ At(g, "write")
  /\ \/ /\ status # Gone
        /\ status' = runs[g].summary
        /\ UNCHANGED faults
     \/ /\ status # Gone => faults > 0
        /\ faults' = IF status = Gone THEN faults ELSE faults - 1
        /\ UNCHANGED status
  /\ runs' = [runs EXCEPT ![g] = [NoRun EXCEPT !.pc = "check"]]
  /\ UNCHANGED <<copy, managerVars, storeVars>>

\* worker: after a round, the close channel; otherwise a second's sleep.
EndRound(g) ==
  /\ At(g, "check")
  /\ IF manager = "closed" THEN End(g) ELSE Goto(g, "round")
  /\ UNCHANGED <<managerVars, storeVars, statusVars>>

-----------------------------------------------------------------------------
(* Shuntdown, and the relay of ContextForChannel *)

\* The controller takes the manager out of its map and shuts it down, once.
Shuntdown ==
  /\ manager = "open"
  /\ manager' = "closing"
  /\ UNCHANGED <<im, runs, relay, storeVars, statusVars>>

\* Mutant: Stop takes the lock that a waiting goroutine holds.
StopWithLock ==
  /\ manager = "closing"
  /\ im.lock = Nobody
  /\ im' = Cancel(im)
  /\ manager' = "stopping"
  /\ UNCHANGED <<runs, relay, storeVars, statusVars>>

Stop ==
  /\ manager = "closing"
  /\ im' = Cancel(im)
  /\ manager' = "stopping"
  /\ UNCHANGED <<runs, relay, storeVars, statusVars>>

Close ==
  /\ manager = "stopping"
  /\ manager' = "closed"
  /\ UNCHANGED <<im, runs, relay, storeVars, statusVars>>

RelayEnds ==
  /\ relay
  /\ im.done \/ manager = "closed"
  /\ relay' = FALSE
  /\ im' = Cancel(im)
  /\ UNCHANGED <<runs, manager, storeVars, statusVars>>

-----------------------------------------------------------------------------
(* The object *)

CopyFollows ==
  /\ copy # status
  /\ copy' = status
  /\ UNCHANGED <<status, faults, runs, managerVars, storeVars>>

\* The installer writes back the whole status of a copy without summary.
StatusWrittenBack ==
  /\ status \notin {Gone, NoSummary}
  /\ faults > 0
  /\ faults' = faults - 1
  /\ status' = NoSummary
  /\ UNCHANGED <<copy, runs, managerVars, storeVars>>

\* The finalizer that keeps the object goes after Shuntdown has returned.
ObjectGoes ==
  /\ manager = "closed"
  /\ status # Gone
  /\ status' = Gone
  /\ UNCHANGED <<copy, faults, runs, managerVars, storeVars>>

-----------------------------------------------------------------------------
RunStep(g) ==
  \/ StartInformers(g) \/ BeginWait(g) \/ AllSynced(g) \/ GiveUp(g)
  \/ TakeCopy(g) \/ Collect(g) \/ WriteSummary(g) \/ EndRound(g)

Next ==
  \/ \E r \in Resources : InformerLists(r) \/ InformerFollows(r)
  \/ \E g \in Runs : RunAgain(g) \/ RunStep(g)
  \/ Shuntdown \/ Stop \/ Close \/ RelayEnds
  \/ CopyFollows \/ StatusWrittenBack \/ ObjectGoes

Spec == Init /\ [][Next]_summaryManagerVars

\* The goroutines run, Shuntdown finishes once it has begun, and the operator's
\* informer delivers.  Nothing is assumed of the control plane.
Fairness ==
  /\ \A g \in Runs : WF_summaryManagerVars(RunStep(g))
  /\ WF_summaryManagerVars(Stop \/ Close)
  /\ WF_summaryManagerVars(RelayEnds)
  /\ WF_summaryManagerVars(CopyFollows)

FairSpec == Spec /\ Fairness

-----------------------------------------------------------------------------
(* Properties *)

\* A summary is only made of stores that were filled: no goroutine reads a lister
\* whose informer was not registered, not started or not synced, however many
\* goroutines start the informers and however the manager is shut down meanwhile
\* (NewSummaryManager, Run, WaitForCacheSync).
ListersSynced ==
  \A g \in Runs : runs[g].pc \in {"round", "collect", "write", "check"} =>
    \A r \in Resources : im.informers[r] = "synced"

\* The units that the objects of a lister claim, one by one.
Units(objs, part, n(_)) ==
  {u \in (DOMAIN objs) \X (1..MaxUnits) :
     objs[u[1]][part] # <<>> /\ u[2] <= n(objs[u[1]])}

\* The totals of a summary are those of the control plane's clusters, node by node
\* and unit by unit, whichever clusters report which part of their status, and
\* more is never ready than there is (the aggregate functions).
TotalsExact ==
  LET s == Summary(stores)
      clusters == stores[ClusterGvr]
      nodes == s.members.nodeSummary
      quantities == s.members.resourceSummary
      states == s.members.clusterSummary
  IN  (\E g \in Runs : At(g, "collect")) =>
        /\ s.workLoadSummary.readyNum <= s.workLoadSummary.totalNum
        /\ s.members = NoSummary <=> clusters = <<>>
        /\ s.members # NoSummary =>
             /\ nodes.totalNum = Cardinality(Units(clusters, "nodes", LAMBDA c : c.nodes.total))
             /\ nodes.readyNum = Cardinality(Units(clusters, "nodes", LAMBDA c : c.nodes.ready))
             /\ quantities.totals # NoSummary =>
                  \A l \in Lists, name \in ResourceNames :
                    quantities.totals[l][name] = Cardinality(
                      Units(clusters, "resources", LAMBDA c : Quantity(c.resources[l], name)))
             /\ states.readyNum <= states.totalNum
             /\ states.totalNum <= Size(clusters)

\* Shutting down leaves nothing behind: every goroutine in Run and the relay end,
\* also those that wait, with the lock held, for informers that never sync
\* (Shuntdown, Stop, worker).
CloseEndsAll ==
  manager # "open" ~> (~relay /\ \A g \in Runs : At(g, "none"))

\* An object whose manager stays open ends up with the summary of what its
\* informers hold, although goroutines write over each other, writes fail, and the
\* installer writes statuses back in which the summary is missing (worker,
\* updateKmdStatusSummaryIfNeed).
Active ==
  /\ manager = "open"
  /\ \A r \in Resources : im.informers[r] = "synced"
Settles == <>[]Active => <>[](status = Summary(stores))
=============================================================================
