---------------------------- MODULE KmdLifecycle ----------------------------
(***************************************************************************)
(* What a user of the operator may rely on, without queues, copies, phases *)
(* or namespaces: the life of a KarmadaDeployment and of the control       *)
(* planes that run under its name.                                         *)
(*                                                                         *)
(*   absent     there is no object of the name, or the operator has let go  *)
(*              of one that is being deleted                               *)
(*   requested  it exists, and the operator has not taken charge of it     *)
(*   held       the operator's finalizer keeps it                          *)
(*   leaving    it is being deleted, and still kept                        *)
(***************************************************************************)
EXTENDS Naturals

CONSTANT Names

VARIABLES
  stage,        \* [Names -> the stage of the object]
  incarnation,  \* [Names -> how many objects the name has had]
  running       \* [Names -> the incarnations whose control plane runs]

lifeVars == <<stage, incarnation, running>>

Init ==
  /\ stage = [n \in Names |-> "absent"]
  /\ incarnation = [n \in Names |-> 0]
  /\ running = [n \in Names |-> {}]

Move(n, from, to) == stage[n] = from /\ stage' = [stage EXCEPT ![n] = to]

Request(n) ==
  /\ Move(n, "absent", "requested")
  /\ incarnation' = [incarnation EXCEPT ![n] = @ + 1]
  /\ UNCHANGED running

\* A control plane that outlived its object, kept on purpose or by a failure,
\* stays where it is.
Change(n) ==
  /\ \/ Move(n, "requested", "absent")
     \/ Move(n, "requested", "held")
     \/ Move(n, "held", "leaving")
     \/ Move(n, "leaving", "absent")
  /\ UNCHANGED <<incarnation, running>>

\* A control plane comes up for an object that cannot go away unnoticed: an
\* object is only let go by the operator from "held" on.
Install(n) ==
  /\ stage[n] \in {"held", "leaving"}
  /\ running' = [running EXCEPT ![n] = @ \cup {incarnation[n]}]
  /\ UNCHANGED <<stage, incarnation>>

\* Control planes go away, of one object or of all that share a namespace, but
\* never that of an object nobody is deleting.
TakeDown ==
  /\ running' \in [Names -> SUBSET UNION {running[n] : n \in Names}]
  /\ \A n \in Names :
       /\ running'[n] \subseteq running[n]
       /\ stage[n] = "held" => running[n] \cap {incarnation[n]} \subseteq running'[n]
  /\ UNCHANGED <<stage, incarnation>>

Next ==
  \/ \E n \in Names : Request(n) \/ Change(n) \/ Install(n)
  \/ TakeDown

Spec == Init /\ [][Next]_lifeVars
=============================================================================
