----------------------------- MODULE WorkQueue -----------------------------
(***************************************************************************)
(* The rate limited work queue of client-go that both controllers take     *)
(* their keys from.  A queue is a record and every method is a function of *)
(* it, so a controller can call several methods in one step.               *)
(*                                                                         *)
(*   queue       keys ready to be handed out, in order                     *)
(*   dirty       keys that still need processing                           *)
(*   processing  keys handed out and not yet Done                          *)
(*   waiting     keys in the delaying queue, until their back-off elapses  *)
(*   failures    NumRequeues of the rate limiter                           *)
(***************************************************************************)
EXTENDS Naturals, Sequences

EmptyQueue(Keys) ==
  [queue |-> <<>>, dirty |-> {}, processing |-> {}, waiting |-> {},
   failures |-> [k \in Keys |-> 0]]

QueueType(Keys, MaxFailures) ==
  [queue : Seq(Keys), dirty : SUBSET Keys, processing : SUBSET Keys,
   waiting : SUBSET Keys, failures : [Keys -> 0..MaxFailures]]

\* Mutant: a key that is being processed is not marked.
AddUnlessBusy(q, k) ==
  IF k \in q.dirty \cup q.processing THEN q
  ELSE [q EXCEPT !.dirty = @ \cup {k}, !.queue = Append(@, k)]

\* A key that is already dirty is not added twice; one that is being
\* processed is only marked, and Done puts it back.
Add(q, k) ==
  IF k \in q.dirty THEN q
  ELSE [q EXCEPT !.dirty = @ \cup {k},
                 !.queue = IF k \in q.processing THEN @ ELSE Append(@, k)]

Get(q) ==
  LET k == Head(q.queue)
  IN  [q EXCEPT !.queue = Tail(@), !.processing = @ \cup {k}, !.dirty = @ \ {k}]

\* Mutant: a key that was marked meanwhile is not put back.
DoneForGood(q, k) == [q EXCEPT !.processing = @ \ {k}]

Done(q, k) ==
  [q EXCEPT !.processing = @ \ {k},
            !.queue = IF k \in q.dirty THEN Append(@, k) ELSE @]

AddAfter(q, k) == [q EXCEPT !.waiting = @ \cup {k}]

\* The rate limiter counts the failure; the key waits for its back-off.
AddRateLimited(q, k) == [AddAfter(q, k) EXCEPT !.failures[k] = @ + 1]

Forget(q, k) == [q EXCEPT !.failures[k] = 0]

\* The back-off of k elapses.
Elapse(q, k) == Add([q EXCEPT !.waiting = @ \ {k}], k)
=============================================================================
