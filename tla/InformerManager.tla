-------------------------- MODULE InformerManager --------------------------
(***************************************************************************)
(* The informer manager that a summary manager keeps for its control       *)
(* plane: a factory of dynamic informers, the handlers registered with     *)
(* them, a context that ends them, and a lock.  The manager is a record    *)
(* and every method a function of it.                                      *)
(*                                                                         *)
(*   informers  resource -> "none", "created", "listing", "synced", "dead" *)
(*   handlers   resources that a handler is registered for                 *)
(*   done       the context is cancelled                                   *)
(*   lock       the goroutine that holds the write lock, or Nobody         *)
(*                                                                         *)
(* The factory has a lock of its own, never held over a call that blocks.  *)
(***************************************************************************)
CONSTANT Nobody  \* holder of a free lock

NewInformerManager(resources) ==
  [informers |-> [r \in resources |-> "none"], handlers |-> {}, done |-> FALSE,
   lock |-> Nobody]

\* informerFactory.ForResource, of each: an informer is made when it is first asked
\* for.
Created(im, resources) ==
  [im EXCEPT !.informers = [r \in DOMAIN @ |->
     IF r \in resources /\ @[r] = "none" THEN "created" ELSE @[r]]]

IsHandlerExist(im, r) == r \in im.handlers

\* ForResource, of each: nothing changes for those that have the handler.
ForResources(im, resources) ==
  LET new == {r \in resources : ~IsHandlerExist(im, r)}
  IN  [Created(im, new) EXCEPT !.handlers = @ \cup new]

\* Lister, of each, starts nothing: the store of an informer that it makes stays
\* empty.
Listers(im, resources) == Created(im, resources)

\* An informer started under a cancelled context ends before it lists.
Start(im) ==
  [im EXCEPT !.informers = [r \in DOMAIN @ |->
     IF @[r] # "created" THEN @[r] ELSE IF im.done THEN "dead" ELSE "listing"]]

\* Stop, or the relay of ContextForChannel: the context alone, without the lock.
Cancel(im) == [im EXCEPT !.done = TRUE]

Started(im) == {r \in DOMAIN im.informers : im.informers[r] \in {"listing", "synced", "dead"}}
Unsynced(im) == {r \in Started(im) : im.informers[r] # "synced"}

Acquire(im, g) == [im EXCEPT !.lock = g]
Release(im) == [im EXCEPT !.lock = Nobody]
=============================================================================
