----------------------------- MODULE MCSummary -----------------------------
(***************************************************************************)
(* Instances of the summary manager for TLC: what the listers may hold.    *)
(***************************************************************************)
EXTENDS SummaryManager

\* A cluster that reports everything, one that has just been registered and says
\* nothing, and one of which only some parts are known.
Quantities == [allocatable |-> [cpu |-> 2, gpu |-> 1], allocating |-> <<>>,
               allocated |-> [cpu |-> 1, pods |-> 2]]
Ready == [nodes |-> [total |-> 2, ready |-> 1], resources |-> Quantities,
          conditions |-> <<[type |-> "Joined", status |-> "True"],
                           [type |-> "Ready", status |-> "True"]>>]
New == [nodes |-> <<>>, resources |-> <<>>, conditions |-> <<>>]
Lost == [nodes |-> [total |-> 1, ready |-> 1], resources |-> <<>>,
         conditions |-> <<[type |-> "Ready", status |-> "Unknown"]>>]

Deployment(available) == [conditions |-> <<[type |-> "Available", status |-> available]>>]

Holds(r) ==
  CASE r = ClusterGvr -> {<<>>, [m1 |-> Ready, m2 |-> New, m3 |-> Lost, m4 |-> Ready]}
    [] r = DeploymentGvr -> {<<>>, [d1 |-> Deployment("True"), d2 |-> Deployment("False")]}
    [] OTHER -> {<<>>, [s1 |-> "object"]}

Listed == [r \in Resources |-> Holds(r)]
=============================================================================
