--------------------------- MODULE InstallerProofs ---------------------------
(***************************************************************************)
(* Every reachable state of the installer controller is well formed, and    *)
(* what is installed for a live object is guarded by its finalizer, for any *)
(* names, namespaces, bounds and kinds of failures.                         *)
(*                                                                         *)
(* Types: the invariant that the steps keep is TypeInv.  An Update is made  *)
(* from the informer's copy, which is the stored object only because no     *)
(* version is out of order.                                                *)
(*                                                                         *)
(* Guards: a copy that the worker installs from was live and had the        *)
(* finalizer (or got it from an Update that succeeded, so that the copy was *)
(* the stored object); since then the finalizer can only have gone with the *)
(* worker's own Update, which is not made while the worker installs.  So    *)
(* the stored object is still that incarnation when helm creates the        *)
(* release.  IInv says it of every version the worker may yet see.          *)
(***************************************************************************)
EXTENDS InstallerInvariant, TLAPS, SequenceTheorems

WorkType == [pc : Pcs, key : Names \cup {NoName}, kmd : Kmds \cup {NoKmd},
             ns : Namespaces \cup {""}, tries : 0..MaxConflictRetries]

TypeInv == TypeOK /\ WorkOK /\ LastVersion

-----------------------------------------------------------------------------
(* The methods of the queue keep its type. *)

\* A new queue is a queue (NewRateLimitingQueue).
LEMMA EmptyQueueType ==
  ASSUME NEW Keys, NEW Max \in Nat
  PROVE  EmptyQueue(Keys) \in QueueType(Keys, Max)
BY DEF EmptyQueue, QueueType

\* Add keeps the type (queue.go Add).
LEMMA AddType ==
  ASSUME NEW Keys, NEW Max \in Nat, NEW q \in QueueType(Keys, Max), NEW k \in Keys
  PROVE  Add(q, k) \in QueueType(Keys, Max)
<1>1. /\ q.queue \in Seq(Keys) /\ Append(q.queue, k) \in Seq(Keys)
      /\ q.dirty \cup {k} \in SUBSET Keys
  BY DEF QueueType
<1>2. \A s \in Seq(Keys) : [q EXCEPT !.dirty = @ \cup {k}, !.queue = s] \in QueueType(Keys, Max)
  BY <1>1 DEF QueueType
<1>3. CASE k \in q.dirty BY <1>3 DEF Add
<1>4. CASE k \notin q.dirty /\ k \in q.processing BY <1>1, <1>2, <1>4 DEF Add
<1>5. CASE k \notin q.dirty /\ k \notin q.processing BY <1>1, <1>2, <1>5 DEF Add
<1>6. QED BY <1>3, <1>4, <1>5

\* Get hands out a key of the queue and keeps the type (queue.go Get).
LEMMA GetType ==
  ASSUME NEW Keys, NEW Max \in Nat, NEW q \in QueueType(Keys, Max), q.queue # <<>>
  PROVE  /\ Head(q.queue) \in Keys
         /\ Get(q) \in QueueType(Keys, Max)
<1>1. q.queue \in Seq(Keys) /\ Head(q.queue) \in Keys /\ Tail(q.queue) \in Seq(Keys)
  BY DEF QueueType
<1>2. QED BY <1>1 DEF Get, QueueType

\* Done keeps the type (queue.go Done).
LEMMA DoneType ==
  ASSUME NEW Keys, NEW Max \in Nat, NEW q \in QueueType(Keys, Max), NEW k \in Keys
  PROVE  Done(q, k) \in QueueType(Keys, Max)
<1>1. /\ q.queue \in Seq(Keys) /\ Append(q.queue, k) \in Seq(Keys)
      /\ q.processing \ {k} \in SUBSET Keys
  BY DEF QueueType
<1>2. \A s \in Seq(Keys) : [q EXCEPT !.processing = @ \ {k}, !.queue = s] \in QueueType(Keys, Max)
  BY <1>1 DEF QueueType
<1>3. CASE k \in q.dirty BY <1>1, <1>2, <1>3 DEF Done
<1>4. CASE k \notin q.dirty BY <1>1, <1>2, <1>4 DEF Done
<1>5. QED BY <1>3, <1>4

\* AddRateLimited keeps the type as long as the failures are below the bound.
LEMMA AddRateLimitedType ==
  ASSUME NEW Keys, NEW Max \in Nat, NEW q \in QueueType(Keys, Max), NEW k \in Keys,
         q.failures[k] < Max
  PROVE  AddRateLimited(q, k) \in QueueType(Keys, Max)
<1>1. q.failures[k] + 1 \in 0..Max
  BY DEF QueueType
<1>2. [q.failures EXCEPT ![k] = @ + 1] \in [Keys -> 0..Max]
  BY <1>1 DEF QueueType
<1>3. QED BY <1>2 DEF AddRateLimited, AddAfter, QueueType

\* AddAfter keeps the type (delaying_queue.go AddAfter).
LEMMA AddAfterType ==
  ASSUME NEW Keys, NEW Max \in Nat, NEW q \in QueueType(Keys, Max), NEW k \in Keys
  PROVE  AddAfter(q, k) \in QueueType(Keys, Max)
BY DEF AddAfter, QueueType

\* Forget keeps the type (default_rate_limiters.go Forget).
LEMMA ForgetType ==
  ASSUME NEW Keys, NEW Max \in Nat, NEW q \in QueueType(Keys, Max), NEW k \in Keys
  PROVE  Forget(q, k) \in QueueType(Keys, Max)
<1>1. [q.failures EXCEPT ![k] = 0] \in [Keys -> 0..Max]
  BY DEF QueueType
<1>2. QED BY <1>1 DEF Forget, QueueType

\* A key whose back-off elapses keeps the type (delaying_queue.go waitingLoop).
LEMMA ElapseType ==
  ASSUME NEW Keys, NEW Max \in Nat, NEW q \in QueueType(Keys, Max), NEW k \in Keys
  PROVE  Elapse(q, k) \in QueueType(Keys, Max)
<1>1. [q EXCEPT !.waiting = @ \ {k}] \in QueueType(Keys, Max)
  BY DEF QueueType
<1>2. QED BY <1>1, AddType DEF Elapse

-----------------------------------------------------------------------------
(* Data *)

\* What the head and the tail of a sequence are.
LEMMA HeadAndTail ==
  ASSUME NEW S, NEW s \in Seq(S), s # <<>>
  PROVE  /\ Head(s) \in S
         /\ Head(s) = s[1]
         /\ Tail(s) \in Seq(S)
         /\ Len(s) \in Nat \ {0}
         /\ Len(Tail(s)) = Len(s) - 1
         /\ Tail(s) = <<>> => Len(s) = 1
         /\ \A i \in 1..(Len(s) - 1) : Tail(s)[i] = s[i + 1]
<1>1. Len(s) \in Nat \ {0} /\ Head(s) \in S BY EmptySeq
<1>2. /\ Tail(s) \in Seq(S)
      /\ Len(Tail(s)) = Len(s) - 1
      /\ \A i \in 1..Len(Tail(s)) : Tail(s)[i] = s[i + 1]
  BY HeadTailProperties
<1>3. ASSUME Tail(s) = <<>> PROVE Len(s) = 1
  <2>1. Len(Tail(s)) = 0 BY <1>3, EmptySeq
  <2>2. Len(s) - 1 = 0 BY <1>2, <2>1, Zenon
  <2>3. QED BY <1>1, <2>2
<1>4. Head(s) = s[1] OBVIOUS
<1>5. QED BY <1>1, <1>2, <1>3, <1>4

\* NoKmd is no object.
LEMMA NoKmdIsNone == NoKmd \notin Kmds
BY KmdApiAssumption, Zenon

\* A new status in an object is an object.
LEMMA KmdWithStatus ==
  ASSUME NEW k \in Kmds, NEW s \in Statuses
  PROVE  /\ [k EXCEPT !.status = s] \in Kmds
         /\ [k EXCEPT !.status = s].uid = k.uid
         /\ [k EXCEPT !.status = s].deleting = k.deleting
         /\ [k EXCEPT !.status = s].finalizers = k.finalizers
         /\ [k EXCEPT !.status = s].spec = k.spec
         /\ [k EXCEPT !.status = s].status = s
BY DEF Kmds

\* A changed spec starts a generation of the object.
LEMMA EditedType ==
  ASSUME NEW k \in Kmds, NEW sp \in Specs
  PROVE  [k EXCEPT !.spec = sp, !.gen = @ + 1] \in Kmds
<1>1. k.gen + 1 \in Nat BY DEF Kmds
<1>2. \A g \in Nat : [k EXCEPT !.spec = sp, !.gen = g] \in Kmds BY DEF Kmds
<1>3. QED BY <1>1, <1>2

\* So does the mark of a deletion.
LEMMA MarkedType ==
  ASSUME NEW k \in Kmds
  PROVE  [k EXCEPT !.deleting = TRUE, !.gen = @ + 1] \in Kmds
<1>1. k.gen + 1 \in Nat BY DEF Kmds
<1>2. \A g \in Nat : [k EXCEPT !.deleting = TRUE, !.gen = g] \in Kmds BY DEF Kmds
<1>3. QED BY <1>1, <1>2

\* The copy differs from k in its status alone.
SameBut(obj, k) ==
  /\ obj \in Kmds
  /\ obj.uid = k.uid /\ obj.deleting = k.deleting /\ obj.finalizers = k.finalizers
  /\ obj.spec = k.spec

\* Registering a reason in an object changes nothing but its status.
LEMMA WithReasonType ==
  ASSUME NEW k \in Kmds, NEW r \in Reasons
  PROVE  SameBut(WithReason(k, r), k)
<1>1. k.status \in Statuses BY DEF Kmds
<1>2. [k.status EXCEPT !.ready = r] \in Statuses BY <1>1 DEF Statuses
<1>3. WithReason(k, r) = [k EXCEPT !.status = [k.status EXCEPT !.ready = r]]
  BY DEF WithReason
<1>4. QED BY <1>2, <1>3, KmdWithStatus DEF SameBut

-----------------------------------------------------------------------------
(* Writes and deliveries *)

\* A write stores the object, and puts it last on the way to the informer.
LEMMA WriteOK ==
  ASSUME ApiTypeOK, LastVersion, NEW n \in Names, NEW obj \in Kmds \cup {NoKmd},
         Write(n, obj), UNCHANGED cache
  PROVE  /\ api' \in [Names -> Kmds \cup {NoKmd}]
         /\ watch' \in [Names -> Seq(Kmds \cup {NoKmd})]
         /\ LastVersion'
         /\ api' = [api EXCEPT ![n] = obj]
         /\ \/ watch' = watch
            \/ watch' = [watch EXCEPT ![n] = Append(@, obj)]
<1>1. CASE obj = api[n]
  BY <1>1 DEF Write, ApiTypeOK, LastVersion, Fresh
<1>2. CASE obj # api[n]
  <2>1. /\ api' = [api EXCEPT ![n] = obj]
        /\ watch' = [watch EXCEPT ![n] = Append(@, obj)]
    BY <1>2 DEF Write
  <2>2. watch[n] \in Seq(Kmds \cup {NoKmd}) BY DEF ApiTypeOK
  <2>3. /\ Append(watch[n], obj) \in Seq(Kmds \cup {NoKmd})
        /\ Append(watch[n], obj) # <<>>
        /\ Len(Append(watch[n], obj)) = Len(watch[n]) + 1
        /\ Append(watch[n], obj)[Len(watch[n]) + 1] = obj
    BY <2>2
  <2>4. LastVersion'
    <3> SUFFICES ASSUME NEW m \in Names
                 PROVE  (api[m] = IF Fresh(m) THEN cache[m] ELSE watch[m][Len(watch[m])])'
      BY DEF LastVersion
    <3>1. CASE m = n BY <2>1, <2>3, <3>1 DEF ApiTypeOK, Fresh
    <3>2. CASE m # n BY <2>1, <3>2 DEF ApiTypeOK, Fresh, LastVersion
    <3>3. QED BY <3>1, <3>2
  <2>5. QED BY <2>1, <2>3, <2>4 DEF ApiTypeOK
<1>3. QED BY <1>1, <1>2

\* SetStatus writes an object that differs in its status alone.
LEMMA SetStatusOK ==
  ASSUME ApiTypeOK, LastVersion, NEW n \in Names, NEW s \in Statuses,
         SetStatus(n, s), UNCHANGED cache
  PROVE  /\ api[n] \in Kmds
         /\ [api[n] EXCEPT !.status = s] \in Kmds
         /\ Write(n, [api[n] EXCEPT !.status = s])
         /\ api' \in [Names -> Kmds \cup {NoKmd}]
         /\ watch' \in [Names -> Seq(Kmds \cup {NoKmd})]
         /\ LastVersion'
<1>1. api[n] \in Kmds BY DEF SetStatus, Exists, ApiTypeOK
<1>2. [api[n] EXCEPT !.status = s] \in Kmds BY <1>1, KmdWithStatus
<1>3. Write(n, [api[n] EXCEPT !.status = s]) BY DEF SetStatus
<1>4. QED BY <1>1, <1>2, <1>3, WriteOK

\* What the informer holds after a delivery is older than what is stored.
LEMMA DeliverOK ==
  ASSUME ApiTypeOK, LastVersion, NEW n \in Names, Deliver(n)
  PROVE  /\ ApiTypeOK'
         /\ LastVersion'
<1>1. watch[n] \in Seq(Kmds \cup {NoKmd}) /\ watch[n] # <<>>
  BY DEF ApiTypeOK, Deliver, Fresh
<1>2. /\ Head(watch[n]) \in Kmds \cup {NoKmd}
      /\ Head(watch[n]) = watch[n][1]
      /\ Tail(watch[n]) \in Seq(Kmds \cup {NoKmd})
      /\ Len(watch[n]) \in Nat \ {0}
      /\ Len(Tail(watch[n])) = Len(watch[n]) - 1
      /\ Tail(watch[n]) = <<>> => Len(watch[n]) = 1
      /\ \A i \in 1..(Len(watch[n]) - 1) : Tail(watch[n])[i] = watch[n][i + 1]
  BY <1>1, HeadAndTail
<1>3. /\ cache' = [cache EXCEPT ![n] = Head(watch[n])]
      /\ watch' = [watch EXCEPT ![n] = Tail(@)]
      /\ api' = api /\ born' = born
  BY DEF Deliver
<1>4. ApiTypeOK' BY <1>2, <1>3 DEF ApiTypeOK
<1>5. LastVersion'
  <2> SUFFICES ASSUME NEW m \in Names
               PROVE  (api[m] = IF Fresh(m) THEN cache[m] ELSE watch[m][Len(watch[m])])'
    BY DEF LastVersion
  <2>1. CASE m # n BY <1>3, <2>1 DEF ApiTypeOK, Fresh, LastVersion
  <2>2. CASE m = n
    <3>1. api[n] = watch[n][Len(watch[n])] BY <1>1 DEF LastVersion, Fresh
    <3>2. watch'[n] = Tail(watch[n]) /\ cache'[n] = watch[n][1]
      BY <1>2, <1>3 DEF ApiTypeOK
    <3>3. CASE Tail(watch[n]) = <<>>
      BY <1>2, <1>3, <2>2, <3>1, <3>2, <3>3 DEF Fresh
    <3>4. CASE Tail(watch[n]) # <<>>
      <4>1. Len(watch[n]) - 1 \in 1..(Len(watch[n]) - 1) BY <1>2, <3>4
      <4>2. Tail(watch[n])[Len(watch[n]) - 1] = watch[n][Len(watch[n])] BY <1>2, <4>1
      <4>3. QED BY <1>2, <1>3, <2>2, <3>1, <3>2, <3>4, <4>2 DEF Fresh
    <3>5. QED BY <3>3, <3>4
  <2>3. QED BY <2>1, <2>2
<1>6. QED BY <1>4, <1>5

\* An Update stores an object of the same incarnation, or removes it.
LEMMA UpdateOK ==
  ASSUME ApiTypeOK, LastVersion, NEW n \in Names, NEW obj \in Kmds, api[n] \in Kmds,
         Update(n, obj), UNCHANGED cache
  PROVE  /\ api' \in [Names -> Kmds \cup {NoKmd}]
         /\ watch' \in [Names -> Seq(Kmds \cup {NoKmd})]
         /\ LastVersion'
         /\ \E new \in Kmds \cup {NoKmd} :
              /\ Write(n, new)
              /\ \/ new = NoKmd /\ obj.deleting /\ obj.finalizers = {}
                 \/ /\ new \in Kmds
                    /\ new.uid = obj.uid
                    /\ new.deleting = obj.deleting
                    /\ new.finalizers = obj.finalizers
                    /\ ~(obj.deleting /\ obj.finalizers = {})
                    /\ new.spec = obj.spec
                    /\ new.status = api[n].status
<1> DEFINE gen == IF obj.spec # api[n].spec THEN api[n].gen + 1 ELSE obj.gen
           upd == [obj EXCEPT !.status = api[n].status, !.gen = gen]
<1>1. gen \in Nat /\ api[n].status \in Statuses BY DEF Kmds
<1>2. /\ upd \in Kmds
      /\ upd.uid = obj.uid
      /\ upd.deleting = obj.deleting
      /\ upd.finalizers = obj.finalizers
      /\ upd.spec = obj.spec
      /\ upd.status = api[n].status
  <2> HIDE DEF gen
  <2>1. QED BY <1>1 DEF Kmds
<1>3. \/ Write(n, NoKmd) /\ obj.deleting /\ obj.finalizers = {}
      \/ Write(n, upd) /\ ~(obj.deleting /\ obj.finalizers = {})
  BY DEF Update
<1>4. QED
  <2> HIDE DEF upd
  <2>1. QED BY <1>2, <1>3, WriteOK

\* A new process holds nothing but what is stored.
LEMMA RelistOK ==
  ASSUME ApiTypeOK, Relist
  PROVE  /\ ApiTypeOK'
         /\ LastVersion'
<1>1. \A n \in Names : <<api[n]>> \in Seq(Kmds \cup {NoKmd}) /\ <<>> \in Seq(Kmds \cup {NoKmd})
  BY DEF ApiTypeOK
<1>2. /\ cache' = [n \in Names |-> NoKmd]
      /\ watch' = [n \in Names |-> IF Exists(n) THEN <<api[n]>> ELSE <<>>]
      /\ api' = api /\ born' = born
  BY DEF Relist
<1>3. ApiTypeOK' BY <1>1, <1>2 DEF ApiTypeOK
<1>4. LastVersion'
  <2> SUFFICES ASSUME NEW n \in Names
               PROVE  (api[n] = IF Fresh(n) THEN cache[n] ELSE watch[n][Len(watch[n])])'
    BY DEF LastVersion
  <2>1. CASE Exists(n)
    <3>1. watch'[n] = <<api[n]>> BY <1>2, <2>1
    <3>2. QED BY <1>2, <3>1 DEF Fresh
  <2>2. CASE ~Exists(n)
    <3>1. watch'[n] = <<>> /\ cache'[n] = NoKmd BY <1>2, <2>2
    <3>2. QED BY <1>2, <2>2, <3>1 DEF Fresh, Exists
  <2>3. QED BY <2>1, <2>2
<1>5. QED BY <1>3, <1>4

-----------------------------------------------------------------------------
(* The worker *)

\* A failure leaves the budget a budget.
LEMMA FaultType ==
  ASSUME faults \in 0..MaxFaults, NEW kind, Fault(kind)
  PROVE  faults' \in 0..MaxFaults
BY InstallerAssumption DEF Fault

\* The worker goes on with the same copy.
LEMMA GotoType ==
  ASSUME work \in WorkType, NEW pc \in Pcs, Goto(pc)
  PROVE  /\ work' \in WorkType
         /\ work'.pc = pc /\ work'.key = work.key /\ work'.kmd = work.kmd
BY DEF Goto, WorkType

\* The worker goes on with a changed copy.
LEMMA GotoWithType ==
  ASSUME work \in WorkType, NEW pc \in Pcs, NEW obj \in Kmds, GotoWith(pc, obj)
  PROVE  /\ work' \in WorkType
         /\ work'.pc = pc /\ work'.key = work.key /\ work'.kmd = obj
BY DEF GotoWith, WorkType

\* A worker without a key.
LEMMA IdleType == Idle \in WorkType /\ Idle.pc = "idle"
BY InstallerAssumption DEF Idle, WorkType, Pcs

\* A status that the worker sets, or fails to set, leaves the objects well formed.
LEMMA StatusSetOK ==
  ASSUME TypeInv, NEW s \in Statuses, work.key \in Names,
         StatusSet(s) \/ StatusNotSet, UNCHANGED <<cache, born>>
  PROVE  /\ ApiTypeOK' /\ LastVersion'
         /\ faults' \in 0..MaxFaults
<1>1. CASE StatusSet(s)
  BY <1>1, SetStatusOK DEF StatusSet, TypeInv, TypeOK, ApiTypeOK, key
<1>2. CASE StatusNotSet
  <2>1. faults' \in 0..MaxFaults BY <1>2, FaultType DEF StatusNotSet, TypeInv, TypeOK
  <2>2. UNCHANGED <<api, watch>> BY <1>2 DEF StatusNotSet
  <2>3. QED BY <2>1, <2>2 DEF TypeInv, TypeOK, ApiTypeOK, LastVersion, Fresh
<1>3. QED BY <1>1, <1>2

-----------------------------------------------------------------------------
(* Types.  The cluster around the worker (release, nsState, secrets) is kept *)
(* apart from the objects and from the worker itself.                       *)

ExtTypeOK ==
  /\ release \in [Names -> [Namespaces -> Releases]]
  /\ nsState \in [Namespaces -> {"absent", "active", "terminating"}]
  /\ secrets \subseteq Names \X Nat

\* What an action has to establish of each part of the state.
LEMMA TypeParts ==
  TypeInv <=> /\ ApiTypeOK /\ LastVersion
              /\ wq \in QueueType(Names, MaxRetry)
              /\ work \in WorkType /\ WorkOK
              /\ ExtTypeOK
              /\ faults \in 0..MaxFaults
BY DEF TypeInv, TypeOK, WorkType, ExtTypeOK

\* The same of the next state.
LEMMA TypePartsNext ==
  ASSUME ApiTypeOK', LastVersion', (wq \in QueueType(Names, MaxRetry))',
         (work \in WorkType)', WorkOK', ExtTypeOK', (faults \in 0..MaxFaults)'
  PROVE  TypeInv'
BY DEF TypeInv, TypeOK, WorkType, ExtTypeOK

\* A part that a step leaves alone keeps its type.
LEMMA Untouched ==
  ASSUME TypeInv
  PROVE  /\ UNCHANGED apiVars => ApiTypeOK' /\ LastVersion'
         /\ UNCHANGED wq => (wq \in QueueType(Names, MaxRetry))'
         /\ UNCHANGED work => (work \in WorkType)' /\ WorkOK'
         /\ UNCHANGED extVars => ExtTypeOK'
         /\ UNCHANGED faults => (faults \in 0..MaxFaults)'
BY TypeParts DEF apiVars, extVars, ApiTypeOK, LastVersion, Fresh, WorkOK, ExtTypeOK

\* What WorkOK says of the key and of the copy.
LEMMA WorkerHas ==
  ASSUME TypeInv
  PROVE  /\ work.pc # "idle" => work.key \in Names
         /\ work.pc \in InstallPcs \cup UninstallPcs \cup {"report"} => work.kmd \in Kmds
BY DEF TypeInv, WorkOK

\* The worker goes on with its key, and with a copy if it needs one.
LEMMA WorkOKNext ==
  ASSUME work'.key \in Names,
         work'.kmd \in Kmds \/ work'.pc \notin InstallPcs \cup UninstallPcs \cup {"report"}
  PROVE  WorkOK'
BY DEF WorkOK

\* Users write well formed objects, and no version out of order.
LEMMA UserType ==
  ASSUME TypeInv, NEW n \in Names, Create(n) \/ EditSpec(n) \/ EditLabel(n) \/ Delete(n)
  PROVE  ApiTypeOK' /\ LastVersion'
<1>a. ApiTypeOK /\ LastVersion BY TypeParts
<1> USE <1>a
<1>0. /\ \A k \in UserSpecs(n) : k \in Specs
      /\ UserLabels \subseteq Labels
  BY KmdApiAssumption DEF UserSpecs, Specs
<1>1. CASE Create(n)
  <2>1. PICK spec \in UserSpecs(n), label \in UserLabels :
          Write(n, [uid |-> born[n] + 1, gen |-> 1, deleting |-> FALSE, label |-> label,
                    finalizers |-> {}, spec |-> spec, status |-> NewStatus])
    BY <1>1 DEF Create
  <2>2. NewStatus \in Statuses BY DEF NewStatus, Statuses, Phases, Reasons
  <2>3. born[n] + 1 \in Nat /\ born[n] + 1 \in 0..MaxUid
    <3>1. born[n] \in 0..MaxUid /\ MaxUid \in Nat /\ born[n] < MaxUid
      BY <1>1, KmdApiAssumption DEF Create, ApiTypeOK
    <3> HIDE <1>a
    <3>2. QED BY <3>1
  <2>4. [uid |-> born[n] + 1, gen |-> 1, deleting |-> FALSE, label |-> label,
         finalizers |-> {}, spec |-> spec, status |-> NewStatus] \in Kmds
    BY <1>0, <2>2, <2>3 DEF Kmds
  <2>5. UNCHANGED cache /\ born' = [born EXCEPT ![n] = @ + 1] BY <1>1 DEF Create
  <2>6. born' \in [Names -> 0..MaxUid] BY <2>3, <2>5 DEF ApiTypeOK
  <2>7. QED BY <2>1, <2>4, <2>5, <2>6, WriteOK DEF ApiTypeOK
<1>2. CASE EditSpec(n)
  <2>1. PICK spec \in UserSpecs(n) : Write(n, [api[n] EXCEPT !.spec = spec, !.gen = @ + 1])
    BY <1>2 DEF EditSpec
  <2>2. api[n] \in Kmds BY <1>2 DEF EditSpec, Exists, ApiTypeOK
  <2>3. [api[n] EXCEPT !.spec = spec, !.gen = @ + 1] \in Kmds BY <1>0, <2>2, EditedType
  <2>4. UNCHANGED <<cache, born>> BY <1>2 DEF EditSpec
  <2>5. QED BY <2>1, <2>3, <2>4, WriteOK DEF ApiTypeOK
<1>3. CASE EditLabel(n)
  <2>1. PICK label \in UserLabels : Write(n, [api[n] EXCEPT !.label = label])
    BY <1>3 DEF EditLabel
  <2>2. api[n] \in Kmds BY <1>3 DEF EditLabel, Exists, ApiTypeOK
  <2>3. [api[n] EXCEPT !.label = label] \in Kmds BY <1>0, <2>2 DEF Kmds
  <2>4. UNCHANGED <<cache, born>> BY <1>3 DEF EditLabel
  <2>5. QED BY <2>1, <2>3, <2>4, WriteOK DEF ApiTypeOK
<1>4. CASE Delete(n)
  <2>1. api[n] \in Kmds BY <1>4 DEF Delete, Live, Exists, ApiTypeOK
  <2>2. [api[n] EXCEPT !.deleting = TRUE, !.gen = @ + 1] \in Kmds BY <2>1, MarkedType
  <2>3. UNCHANGED <<cache, born>> BY <1>4 DEF Delete
  <2>4. \/ Write(n, NoKmd)
        \/ Write(n, [api[n] EXCEPT !.deleting = TRUE, !.gen = @ + 1])
    BY <1>4 DEF Delete
  <2>5. QED BY <2>2, <2>3, <2>4, WriteOK DEF ApiTypeOK
<1>5. QED BY <1>1, <1>2, <1>3, <1>4

\* The informer and the queue.
LEMMA QueueStepType ==
  ASSUME TypeInv,
         \/ \E n \in Names : InformerEvent(n) \/ BackoffElapses(n)
         \/ TakeKey \/ Succeed \/ Retry \/ Drop
  PROVE  TypeInv'
<1>0. wq \in QueueType(Names, MaxRetry) /\ MaxRetry \in Nat
  BY TypeParts, InstallerAssumption
<1>1. ASSUME NEW n \in Names, InformerEvent(n) PROVE TypeInv'
  <2>1. Deliver(n) /\ UNCHANGED <<work, extVars, faults>> BY <1>1 DEF InformerEvent
  <2>2. ApiTypeOK' /\ LastVersion' BY <2>1, DeliverOK, TypeParts
  <2>3. wq' \in {wq, Add(wq, n)} BY <1>1 DEF InformerEvent
  <2>4. wq' \in QueueType(Names, MaxRetry) BY <1>0, <2>3, AddType
  <2>5. QED BY <2>1, <2>2, <2>4, Untouched, TypePartsNext
<1>2. ASSUME NEW n \in Names, BackoffElapses(n) PROVE TypeInv'
  <2>1. wq' = Elapse(wq, n) /\ UNCHANGED <<apiVars, work, extVars, faults>>
    BY <1>2 DEF BackoffElapses
  <2>2. wq' \in QueueType(Names, MaxRetry) BY <1>0, <2>1, ElapseType
  <2>3. QED BY <2>1, <2>2, Untouched, TypePartsNext
<1>3. CASE TakeKey
  <2>1. /\ wq' = Get(wq) /\ wq.queue # <<>>
        /\ work' = [Idle EXCEPT !.pc = "sync", !.key = Head(wq.queue)]
        /\ UNCHANGED <<apiVars, extVars, faults>>
    BY <1>3 DEF TakeKey
  <2>2. Head(wq.queue) \in Names /\ wq' \in QueueType(Names, MaxRetry)
    BY <1>0, <2>1, GetType
  <2>3. work' \in WorkType /\ work'.key \in Names /\ work'.pc = "sync"
    BY <2>1, <2>2, IdleType DEF WorkType, Pcs
  <2>4. WorkOK' BY <2>3, WorkOKNext DEF InstallPcs, UninstallPcs
  <2>5. QED BY <2>1, <2>2, <2>3, <2>4, Untouched, TypePartsNext
<1>4. CASE Succeed \/ Retry \/ Drop
  <2>1. work.key \in Names BY <1>4, WorkerHas DEF Succeed, Retry, Drop
  <2>2. work' = Idle /\ UNCHANGED <<apiVars, extVars, faults>>
    BY <1>4 DEF Succeed, Retry, Drop
  <2>3. wq' \in QueueType(Names, MaxRetry)
    <3>1. CASE Succeed \/ Drop
      BY <1>0, <2>1, <3>1, ForgetType, DoneType DEF Succeed, Drop, key
    <3>2. CASE Retry
      BY <1>0, <2>1, <3>2, AddRateLimitedType, DoneType DEF Retry, key
    <3>3. QED BY <1>4, <3>1, <3>2
  <2>4. (work \in WorkType)' /\ WorkOK'
    BY <2>2, IdleType DEF WorkOK, InstallPcs, UninstallPcs
  <2>5. QED BY <2>2, <2>3, <2>4, Untouched, TypePartsNext
<1>5. QED BY <1>1, <1>2, <1>3, <1>4

\* A step of the worker that only moves on.
LEMMA MoveType ==
  ASSUME TypeInv, work.key \in Names, NEW pc \in Pcs, Goto(pc),
         work.kmd \in Kmds \/ pc \notin InstallPcs \cup UninstallPcs \cup {"report"}
  PROVE  (work \in WorkType)' /\ WorkOK'
BY TypeParts, GotoType, WorkOKNext

\* A step of the worker that moves on with another copy.
LEMMA MoveWithType ==
  ASSUME TypeInv, work.key \in Names, NEW pc \in Pcs, NEW obj \in Kmds, GotoWith(pc, obj)
  PROVE  (work \in WorkType)' /\ WorkOK'
BY TypeParts, GotoWithType, WorkOKNext

\* What defaulting makes of an object is an object.
LEMMA DefaultedType ==
  ASSUME NEW n \in Names, NEW ns \in RandomNamespaces[n], NEW k \in Kmds
  PROVE  /\ Defaulted(k, ns) \in Kmds
         /\ Defaulted(k, ns).uid = k.uid
         /\ Defaulted(k, ns).deleting = k.deleting
         /\ Defaulted(k, ns).finalizers = k.finalizers \cup {InstallerFinalizer}
         /\ Defaulted(k, ns).status = k.status
         /\ Defaulted(k, ns).spec.ns = IF k.spec.ns = "" THEN ns ELSE k.spec.ns
         /\ SpecSeen(Defaulted(k, ns).spec, k.spec)
<1> DEFINE lb == IF k.label = "" THEN "false" ELSE k.label
           sn == IF k.spec.ns = "" THEN ns ELSE k.spec.ns
           im == IF k.spec.images = "" THEN DefaultImages ELSE k.spec.images
           fs == k.finalizers \cup {InstallerFinalizer}
           sp == [k.spec EXCEPT !.ns = sn, !.images = im]
<1>1. ns \in Namespaces /\ DefaultImages \in Images BY KmdApiAssumption
<1>2. k.spec \in Specs /\ k.label \in Labels
      /\ k.finalizers \in SUBSET {InstallerFinalizer, SummaryFinalizer}
  BY DEF Kmds
<1>3. sn \in Namespaces \cup {""} /\ im \in Images \cup {""} BY <1>1, <1>2 DEF Specs
<1>4. sp \in Specs /\ sp.ns = sn /\ sp.mode = k.spec.mode /\ sp.images = im
  <2> HIDE DEF sn, im
  <2>1. QED BY <1>2, <1>3 DEF Specs
<1>5. lb \in Labels /\ fs \in SUBSET {InstallerFinalizer, SummaryFinalizer}
  BY <1>2 DEF Labels
<1>6. Defaulted(k, ns) = [k EXCEPT !.label = lb, !.spec = sp, !.finalizers = fs]
  <2>1. k.spec = [mode |-> k.spec.mode, ns |-> k.spec.ns, images |-> k.spec.images]
    BY <1>2 DEF Specs
  <2>2. QED BY <2>1 DEF Defaulted, Kmds
<1>7. QED
  <2> HIDE DEF lb, sp, fs
  <2>1. /\ [k EXCEPT !.label = lb, !.spec = sp, !.finalizers = fs] \in Kmds
        /\ [k EXCEPT !.label = lb, !.spec = sp, !.finalizers = fs].uid = k.uid
        /\ [k EXCEPT !.label = lb, !.spec = sp, !.finalizers = fs].deleting = k.deleting
        /\ [k EXCEPT !.label = lb, !.spec = sp, !.finalizers = fs].finalizers = fs
        /\ [k EXCEPT !.label = lb, !.spec = sp, !.finalizers = fs].status = k.status
        /\ [k EXCEPT !.label = lb, !.spec = sp, !.finalizers = fs].spec = sp
    BY <1>4, <1>5 DEF Kmds
  <2>2. SpecSeen(sp, k.spec) BY <1>4 DEF SpecSeen, sn, im
  <2>3. QED BY <1>4, <1>6, <2>1, <2>2 DEF fs, sn

\* A copy whose finalizers change is an object.
LEMMA FinalizersType ==
  ASSUME NEW k \in Kmds, NEW f
  PROVE  /\ [k EXCEPT !.finalizers = @ \ {f}] \in Kmds
         /\ [k EXCEPT !.finalizers = @ \ {f}].uid = k.uid
         /\ [k EXCEPT !.finalizers = @ \ {f}].deleting = k.deleting
         /\ [k EXCEPT !.finalizers = @ \ {f}].finalizers = k.finalizers \ {f}
         /\ [k EXCEPT !.finalizers = @ \ {f}].spec = k.spec
<1>1. k.finalizers \ {f} \in SUBSET {InstallerFinalizer, SummaryFinalizer} BY DEF Kmds
<1>2. \A fs \in SUBSET {InstallerFinalizer, SummaryFinalizer} :
        /\ [k EXCEPT !.finalizers = fs] \in Kmds
        /\ [k EXCEPT !.finalizers = fs].uid = k.uid
        /\ [k EXCEPT !.finalizers = fs].deleting = k.deleting
        /\ [k EXCEPT !.finalizers = fs].finalizers = fs
        /\ [k EXCEPT !.finalizers = fs].spec = k.spec
  BY DEF Kmds
<1>3. QED BY <1>1, <1>2

\* A copy taken from an informer that has nothing to deliver is the object.
LEMMA FreshIsStored ==
  ASSUME TypeInv, NEW n \in Names, Fresh(n)
  PROVE  cache[n] = api[n]
BY DEF TypeInv, LastVersion

\* syncHandler, up to InstallerFactory.
LEMMA HandlerType ==
  ASSUME TypeInv,
         \/ SyncGone \/ SyncDeleted \/ SyncInstall \/ SyncInstallFails
         \/ NothingToFinalize \/ RemoveFinalizer \/ RemoveFinalizerFails
  PROVE  TypeInv'
<1> DEFINE n == work.key
<1>0. n \in Names
  BY WorkerHas DEF SyncGone, SyncDeleted, SyncInstall, SyncInstallFails,
                   NothingToFinalize, RemoveFinalizer, RemoveFinalizerFails
<1>a. (cache[n] # NoKmd => cache[n] \in Kmds) /\ faults \in 0..MaxFaults
  BY <1>0, TypeParts DEF ApiTypeOK
<1>b. {"ok", "failed", "finalize", "uninstall", "observe"} \subseteq Pcs
      /\ {"ok", "failed"} \cap (InstallPcs \cup UninstallPcs \cup {"report"}) = {}
  BY DEF Pcs, InstallPcs, UninstallPcs
<1> HIDE DEF n
<1>1. CASE SyncGone \/ NothingToFinalize
  <2>1. Goto("ok") /\ UNCHANGED <<apiVars, wq, extVars, faults>>
    BY <1>1 DEF SyncGone, NothingToFinalize
  <2>2. (work \in WorkType)' /\ WorkOK' BY <1>0, <1>b, <2>1, MoveType DEF n
  <2>3. QED BY <2>1, <2>2, Untouched, TypePartsNext
<1>2. CASE SyncDeleted
  <2>1. /\ cache[n] \in Kmds
        /\ GotoWith("uninstall", cache[n]) \/ GotoWith("finalize", cache[n])
        /\ UNCHANGED <<apiVars, wq, extVars, faults>>
    BY <1>2, <1>a DEF SyncDeleted, n, key
  <2>2. (work \in WorkType)' /\ WorkOK' BY <1>0, <1>b, <2>1, MoveWithType DEF n
  <2>3. QED BY <2>1, <2>2, Untouched, TypePartsNext
<1>3. CASE SyncInstall
  <2>1. PICK ns \in RandomNamespaces[n] :
          /\ GotoWith("observe", Defaulted(cache[n], ns))
          /\ IF IsUpdate(cache[n])
             THEN Fresh(n) /\ Update(n, Defaulted(cache[n], ns))
             ELSE UNCHANGED <<api, watch>>
    BY <1>3 DEF SyncInstall, n, key
  <2>2. cache[n] \in Kmds /\ UNCHANGED <<cache, born, wq, extVars, faults>>
    BY <1>3, <1>a DEF SyncInstall, n, key
  <2>3. Defaulted(cache[n], ns) \in Kmds BY <1>0, <2>2, DefaultedType
  <2>4. (work \in WorkType)' /\ WorkOK' BY <1>0, <1>b, <2>1, <2>3, MoveWithType DEF n
  <2>5. ApiTypeOK' /\ LastVersion'
    <3>1. CASE IsUpdate(cache[n])
      <4>1. Update(n, Defaulted(cache[n], ns)) /\ api[n] \in Kmds
        BY <1>0, <2>1, <2>2, <3>1, FreshIsStored
      <4>2. QED BY <1>0, <2>2, <2>3, <4>1, UpdateOK, TypeParts DEF ApiTypeOK
    <3>2. CASE ~IsUpdate(cache[n])
      BY <2>1, <2>2, <3>2, Untouched DEF apiVars
    <3>3. QED BY <3>1, <3>2
  <2>6. QED BY <2>2, <2>4, <2>5, Untouched, TypePartsNext
<1>4. CASE SyncInstallFails
  <2>1. /\ Goto("failed") /\ UNCHANGED <<apiVars, wq, extVars>>
        /\ UNCHANGED faults \/ Fault("api")
    BY <1>4 DEF SyncInstallFails
  <2>2. (work \in WorkType)' /\ WorkOK' BY <1>0, <1>b, <2>1, MoveType DEF n
  <2>3. faults' \in 0..MaxFaults BY <1>a, <2>1, FaultType
  <2>4. QED BY <2>1, <2>2, <2>3, Untouched, TypePartsNext
<1>5. CASE RemoveFinalizer
  <2>1. /\ Goto("ok") /\ UNCHANGED <<cache, born, wq, extVars, faults>>
        /\ cache[n] \in Kmds /\ Fresh(n)
        /\ Update(n, [cache[n] EXCEPT !.finalizers = @ \ {InstallerFinalizer}])
    BY <1>5, <1>a DEF RemoveFinalizer, n, key
  <2>2. [cache[n] EXCEPT !.finalizers = @ \ {InstallerFinalizer}] \in Kmds /\ api[n] \in Kmds
    BY <1>0, <2>1, FinalizersType, FreshIsStored
  <2>3. ApiTypeOK' /\ LastVersion'
    BY <1>0, <2>1, <2>2, UpdateOK, TypeParts DEF ApiTypeOK
  <2>4. (work \in WorkType)' /\ WorkOK' BY <1>0, <1>b, <2>1, MoveType DEF n
  <2>5. QED BY <2>1, <2>3, <2>4, Untouched, TypePartsNext
<1>6. CASE RemoveFinalizerFails
  <2>1. /\ UNCHANGED <<apiVars, wq, extVars>> /\ work.pc = "finalize"
        /\ UNCHANGED faults \/ Fault("api")
        /\ \/ Goto("failed")
           \/ /\ work.tries + 1 < MaxConflictRetries
              /\ work' = [work EXCEPT !.tries = @ + 1]
    BY <1>6 DEF RemoveFinalizerFails
  <2>2. (work \in WorkType)' /\ WorkOK'
    <3>1. CASE Goto("failed") BY <1>0, <1>b, <3>1, MoveType DEF n
    <3>2. CASE work.tries + 1 < MaxConflictRetries /\ work' = [work EXCEPT !.tries = @ + 1]
      <4>1. work \in WorkType /\ work.tries + 1 \in 0..MaxConflictRetries
        <5>1. work \in WorkType BY TypeParts
        <5>2. work.tries \in 0..MaxConflictRetries BY <5>1 DEF WorkType
        <5>3. MaxConflictRetries \in Nat BY InstallerAssumption
        <5>4. QED BY <3>2, <5>1, <5>2, <5>3
      <4>2. \A t \in 0..MaxConflictRetries :
              /\ [work EXCEPT !.tries = t] \in WorkType
              /\ [work EXCEPT !.tries = t].key = work.key
              /\ [work EXCEPT !.tries = t].pc = work.pc
        BY <4>1 DEF WorkType
      <4>3. work' \in WorkType /\ work'.key = work.key /\ work'.pc = "finalize"
        BY <2>1, <3>2, <4>1, <4>2
      <4>4. QED BY <1>0, <4>3, WorkOKNext DEF n, InstallPcs, UninstallPcs
    <3>3. QED BY <2>1, <3>1, <3>2
  <2>3. faults' \in 0..MaxFaults BY <1>a, <2>1, FaultType
  <2>4. QED BY <2>1, <2>2, <2>3, Untouched, TypePartsNext
<1>7. QED BY <1>1, <1>2, <1>3, <1>4, <1>5, <1>6

\* What the workflow registers in its copy is a status.
LEMMA RegisteredType ==
  ASSUME NEW k \in Kmds
  PROVE  /\ \A r \in Reasons : SameBut(WithReason(k, r), k)
         /\ \A ph \in Phases : SameBut([k EXCEPT !.status.phase = ph], k)
         /\ SameBut(WithReason([k EXCEPT !.status.obsGen = k.gen], "Progressing"), k)
         /\ SameBut([k EXCEPT !.status.secret = k.uid, !.status.cpr = TRUE,
                              !.status.phase = "Completed"], k)
<1>0. k.status \in Statuses /\ k.gen \in Nat /\ k.uid \in Nat BY DEF Kmds
<1>1. \A st \in Statuses : SameBut([k EXCEPT !.status = st], k)
  BY KmdWithStatus DEF SameBut
<1>2. \A r \in Reasons : SameBut(WithReason(k, r), k) BY WithReasonType
<1>3. ASSUME NEW ph \in Phases PROVE SameBut([k EXCEPT !.status.phase = ph], k)
  <2>1. [k.status EXCEPT !.phase = ph] \in Statuses BY <1>0 DEF Statuses
  <2>2. [k EXCEPT !.status.phase = ph] = [k EXCEPT !.status = [k.status EXCEPT !.phase = ph]]
    OBVIOUS
  <2>3. QED BY <1>1, <2>1, <2>2
<1>4. SameBut(WithReason([k EXCEPT !.status.obsGen = k.gen], "Progressing"), k)
  <2> DEFINE st == [k.status EXCEPT !.obsGen = k.gen]
             mid == [k EXCEPT !.status = st]
  <2>1. st \in Statuses BY <1>0 DEF Statuses
  <2>2. SameBut(mid, k) BY <1>1, <2>1
  <2>3. mid \in Kmds /\ mid.status = st BY <2>1, KmdWithStatus
  <2>4. [k EXCEPT !.status.obsGen = k.gen] = mid OBVIOUS
  <2> HIDE DEF st, mid
  <2>5. SameBut(WithReason(mid, "Progressing"), mid) BY <2>3, WithReasonType DEF Reasons
  <2>6. QED BY <2>2, <2>4, <2>5 DEF SameBut
<1>5. SameBut([k EXCEPT !.status.secret = k.uid, !.status.cpr = TRUE,
                        !.status.phase = "Completed"], k)
  <2> DEFINE st == [k.status EXCEPT !.secret = k.uid, !.cpr = TRUE, !.phase = "Completed"]
  <2>1. st \in Statuses BY <1>0 DEF Statuses, Phases
  <2>2. [k EXCEPT !.status.secret = k.uid, !.status.cpr = TRUE, !.status.phase = "Completed"]
          = [k EXCEPT !.status = st]
    OBVIOUS
  <2>3. QED BY <1>1, <2>1, <2>2
<1>6. QED BY <1>2, <1>3, <1>4, <1>5

\* The program counters that need a copy, and those that do not.
LEMMA PcSets ==
  /\ InstallPcs \subseteq Pcs /\ UninstallPcs \subseteq Pcs
  /\ {"ok", "failed", "report", "finalize", "uninstall"} \subseteq Pcs
  /\ {"ok", "failed", "idle", "sync", "finalize"} \cap (InstallPcs \cup UninstallPcs \cup {"report"}) = {}
  /\ InstallPcs \cap (UninstallPcs \cup {"report"}) = {}
BY DEF Pcs, InstallPcs, UninstallPcs

\* A step that registers a status, or fails to, and moves on.
LEMMA StatusStepType ==
  ASSUME TypeInv, NEW obj, work.key \in Names, work.kmd \in Kmds, SameBut(obj, work.kmd),
         StatusSet(obj.status) \/ StatusNotSet,
         NEW pc \in Pcs, GotoWith(pc, obj) \/ Goto(pc),
         UNCHANGED <<cache, born, wq, extVars>>
  PROVE  TypeInv'
<1>1. obj \in Kmds /\ obj.status \in Statuses BY DEF SameBut, Kmds
<1>2. ApiTypeOK' /\ LastVersion' /\ faults' \in 0..MaxFaults BY <1>1, StatusSetOK
<1>3. (work \in WorkType)' /\ WorkOK' BY <1>1, MoveType, MoveWithType
<1>4. QED BY <1>2, <1>3, Untouched, TypePartsNext

\* A step that registers a failure in the copy, to report it, and touches at most
\* the releases.
LEMMA ReportStepType ==
  ASSUME TypeInv, work.key \in Names, work.kmd \in Kmds, NEW reason \in Reasons, Report(reason),
         UNCHANGED <<apiVars, wq>>, ExtTypeOK', faults' \in 0..MaxFaults
  PROVE  TypeInv'
<1>1. WithReason(work.kmd, reason) \in Kmds BY WithReasonType DEF SameBut
<1>2. (work \in WorkType)' /\ WorkOK'
  BY <1>1, MoveWithType, PcSets DEF Report, kmd
<1>3. QED BY <1>2, Untouched, TypePartsNext

\* InstallerFactory.
LEMMA FactoryType ==
  ASSUME TypeInv, ObserveGeneration \/ NoInstaller \/ ReportFailure \/ RecordReady
  PROVE  TypeInv'
<1>0. work.key \in Names /\ work.kmd \in Kmds /\ faults \in 0..MaxFaults
  BY WorkerHas, TypeParts
     DEF ObserveGeneration, NoInstaller, ReportFailure, RecordReady, InstallPcs, UninstallPcs
<1>a. {"IntallModeFailed", "Succeeded"} \subseteq Reasons /\ "install" \in Pcs
  BY DEF Reasons, Pcs, InstallPcs
<1>1. CASE ObserveGeneration
  <2>1. PICK obj : /\ obj \in {kmd, WithReason([kmd EXCEPT !.status.obsGen = kmd.gen], "Progressing")}
                   /\ IF obj = kmd THEN UNCHANGED <<api, watch, faults>>
                      ELSE StatusSet(obj.status) \/ StatusNotSet
                   /\ GotoWith("install", obj)
                   /\ UNCHANGED <<cache, born, wq, extVars>>
    BY <1>1 DEF ObserveGeneration
  <2>2. SameBut(obj, work.kmd) BY <1>0, <2>1, RegisteredType DEF kmd, SameBut
  <2>3. CASE obj = kmd
    <3>1. UNCHANGED <<apiVars, wq, extVars, faults>> BY <2>1, <2>3 DEF apiVars
    <3>2. (work \in WorkType)' /\ WorkOK'
      BY <1>0, <1>a, <2>1, <2>2, MoveWithType DEF SameBut
    <3>3. QED BY <3>1, <3>2, Untouched, TypePartsNext
  <2>4. CASE obj # kmd
    BY <1>0, <1>a, <2>1, <2>2, <2>4, StatusStepType
  <2>5. QED BY <2>3, <2>4
<1>2. CASE NoInstaller
  <2>1. /\ Report("IntallModeFailed") /\ UNCHANGED <<apiVars, wq, extVars>>
        /\ UNCHANGED faults \/ Fault("endpoint")
    BY <1>2 DEF NoInstaller
  <2>2. faults' \in 0..MaxFaults BY <1>0, <2>1, FaultType
  <2>3. QED BY <1>0, <1>a, <2>1, <2>2, ReportStepType, Untouched
<1>3. CASE ReportFailure
  <2>1. /\ StatusSet(work.kmd.status) \/ StatusNotSet
        /\ Goto("failed") /\ UNCHANGED <<cache, born, wq, extVars>>
    BY <1>3 DEF ReportFailure, kmd
  <2>2. SameBut(work.kmd, work.kmd) BY <1>0 DEF SameBut
  <2>3. QED BY <1>0, <2>1, <2>2, StatusStepType, PcSets
<1>4. CASE RecordReady
  <2> DEFINE obj == WithReason(kmd, "Succeeded")
  <2>1. SameBut(obj, work.kmd) BY <1>0, <1>a, WithReasonType DEF kmd
  <2>2. /\ UNCHANGED <<cache, born, wq, extVars>>
        /\ \/ StatusSet(obj.status) /\ GotoWith("ok", obj)
           \/ StatusNotSet /\ Goto("failed")
    BY <1>4 DEF RecordReady
  <2> HIDE DEF obj
  <2>3. QED BY <1>0, <2>1, <2>2, StatusStepType, PcSets
<1>5. QED BY <1>1, <1>2, <1>3, <1>4

\* A phase that the workflow enters.
LEMMA EnterPhaseType ==
  ASSUME TypeInv, NEW from \in InstallPcs, NEW phase \in Phases, NEW to \in InstallPcs,
         EnterPhase(from, phase, to)
  PROVE  TypeInv'
<1>0. work.key \in Names /\ work.kmd \in Kmds
  BY WorkerHas, PcSets DEF EnterPhase, InstallPcs
<1> DEFINE obj == [kmd EXCEPT !.status.phase = phase]
<1>1. SameBut(obj, work.kmd) BY <1>0, RegisteredType DEF kmd
<1>2. /\ UNCHANGED <<cache, born, wq, extVars>>
      /\ \/ StatusSet(obj.status) /\ GotoWith(to, obj)
         \/ StatusNotSet /\ Goto("failed")
  BY DEF EnterPhase
<1> HIDE DEF obj
<1>3. QED BY <1>0, <1>1, <1>2, StatusStepType, PcSets

\* What helm leaves behind is a release.
LEMMA ReleaseType ==
  ASSUME ExtTypeOK, NEW n \in Names, NEW ns
  PROVE  /\ [release EXCEPT ![n][ns] = NoRelease] \in [Names -> [Namespaces -> Releases]]
         /\ \A st \in {"pending", "deployed", "failed"} :
              [release EXCEPT ![n][ns].status = st] \in [Names -> [Namespaces -> Releases]]
         /\ \A k \in Kmds :
              [release EXCEPT ![n][ns] = [status |-> "pending", uid |-> k.uid, images |-> k.spec.images]]
                \in [Names -> [Namespaces -> Releases]]
<1>1. NoRelease \in Releases BY DEF NoRelease, Releases
<1>2. \A k \in Kmds : [status |-> "pending", uid |-> k.uid, images |-> k.spec.images] \in Releases
  BY DEF Kmds, Specs, Releases
<1>3. \A r \in Releases :
        [release EXCEPT ![n][ns] = r] \in [Names -> [Namespaces -> Releases]]
  <2> SUFFICES ASSUME NEW r \in Releases
               PROVE  [release EXCEPT ![n][ns] = r] \in [Names -> [Namespaces -> Releases]]
    OBVIOUS
  <2>1. [release[n] EXCEPT ![ns] = r] \in [Namespaces -> Releases] BY DEF ExtTypeOK
  <2>2. [release EXCEPT ![n][ns] = r] = [release EXCEPT ![n] = [release[n] EXCEPT ![ns] = r]]
    OBVIOUS
  <2>3. QED BY <2>1, <2>2 DEF ExtTypeOK
<1>4. ASSUME NEW st \in {"pending", "deployed", "failed"}
      PROVE  [release EXCEPT ![n][ns].status = st] \in [Names -> [Namespaces -> Releases]]
  <2>1. [release EXCEPT ![n][ns].status = st]
          = [release EXCEPT ![n] = [release[n] EXCEPT ![ns] = [release[n][ns] EXCEPT !.status = st]]]
    OBVIOUS
  <2>2. CASE ns \in Namespaces
    <3>a. release[n][ns] \in Releases BY <2>2 DEF ExtTypeOK
    <3>1. [release[n][ns] EXCEPT !.status = st] \in Releases BY <3>a DEF Releases
    <3>2. [release[n] EXCEPT ![ns] = [release[n][ns] EXCEPT !.status = st]] \in [Namespaces -> Releases]
      BY <3>1 DEF ExtTypeOK
    <3>3. QED BY <2>1, <3>2 DEF ExtTypeOK
  <2>3. CASE ns \notin Namespaces
    <3>1. [release[n] EXCEPT ![ns] = [release[n][ns] EXCEPT !.status = st]] = release[n]
      BY <2>3 DEF ExtTypeOK
    <3>2. QED BY <2>1, <3>1 DEF ExtTypeOK
  <2>4. QED BY <2>2, <2>3
<1>5. QED BY <1>1, <1>2, <1>3, <1>4

\* The namespaces of the cluster, whatever the worker does to one.
LEMMA NamespaceType ==
  ASSUME ExtTypeOK, NEW ns
  PROVE  /\ nsState' = [nsState EXCEPT ![ns] = IF @ = "absent" THEN "active" ELSE @]
              => nsState' \in [Namespaces -> {"absent", "active", "terminating"}]
         /\ nsState' = [nsState EXCEPT ![ns] = "absent"]
              => nsState' \in [Namespaces -> {"absent", "active", "terminating"}]
         /\ NamespaceDeleted(ns) => nsState' \in [Namespaces -> {"absent", "active", "terminating"}]
BY DEF ExtTypeOK, NamespaceDeleted

\* installWorkflow, up to the release.
LEMMA DeployType ==
  ASSUME TypeInv,
         \/ Install \/ Preflight \/ ChartNotFetched \/ Deploy \/ EnsureNamespace
         \/ ValuesNotComposed \/ InstallRefused
  PROVE  TypeInv'
<1>0. work.key \in Names /\ work.kmd \in Kmds /\ faults \in 0..MaxFaults /\ ExtTypeOK
  BY WorkerHas, TypeParts
     DEF Install, Preflight, EnterPhase, ChartNotFetched, Deploy, EnsureNamespace,
         ValuesNotComposed, InstallRefused, InstallPcs
<1>a. {"ready", "preflight", "chart", "namespace", "helm"} \subseteq InstallPcs
      /\ {"Preflight", "Deploying"} \subseteq Phases
      /\ {"HelmChartFailed", "HelmInitFailed", "HelmReleaseFailed"} \subseteq Reasons
  BY DEF InstallPcs, Phases, Reasons
<1>1. CASE Install
  <2>1. /\ Goto("ready") \/ Goto("preflight")
        /\ UNCHANGED <<apiVars, wq, extVars, faults>>
    BY <1>1 DEF Install
  <2>2. (work \in WorkType)' /\ WorkOK' BY <1>0, <1>a, <2>1, MoveType, PcSets
  <2>3. QED BY <2>1, <2>2, Untouched, TypePartsNext
<1>2. CASE Preflight \/ Deploy
  BY <1>2, <1>a, EnterPhaseType DEF Preflight, Deploy
<1>3. CASE ChartNotFetched \/ ValuesNotComposed \/ InstallRefused
  <2>1. /\ \E reason \in Reasons : Report(reason)
        /\ UNCHANGED <<apiVars, wq, extVars>>
        /\ UNCHANGED faults \/ Fault("chart") \/ Fault("values")
    BY <1>3, <1>a DEF ChartNotFetched, ValuesNotComposed, InstallRefused
  <2>2. faults' \in 0..MaxFaults BY <1>0, <2>1, FaultType
  <2>3. QED BY <1>0, <2>1, <2>2, ReportStepType, Untouched
<1>4. CASE EnsureNamespace
  <2>1. /\ Goto("helm") \/ Goto("failed")
        /\ UNCHANGED faults \/ Fault("api")
        /\ UNCHANGED <<apiVars, wq, release, secrets>>
        /\ \/ UNCHANGED nsState
           \/ nsState' = [nsState EXCEPT ![kmd.spec.ns] = IF @ = "absent" THEN "active" ELSE @]
    BY <1>4 DEF EnsureNamespace
  <2>2. (work \in WorkType)' /\ WorkOK' BY <1>0, <1>a, <2>1, MoveType, PcSets
  <2>3. ExtTypeOK' BY <1>0, <2>1, NamespaceType DEF ExtTypeOK
  <2>4. faults' \in 0..MaxFaults BY <1>0, <2>1, FaultType
  <2>5. QED BY <2>1, <2>2, <2>3, <2>4, Untouched, TypePartsNext
<1>5. QED BY <1>1, <1>2, <1>3, <1>4

\* installWorkflow, from the release on.
LEMMA CompleteType ==
  ASSUME TypeInv,
         \/ HelmInstalls \/ HelmDeploys \/ HelmInstallFails \/ StoreKubeconfig
         \/ KubeconfigNotStored \/ Completed
  PROVE  TypeInv'
<1> DEFINE n == work.key
           ns == work.kmd.spec.ns
<1>0. work.key \in Names /\ work.kmd \in Kmds /\ faults \in 0..MaxFaults /\ ExtTypeOK
  BY WorkerHas, TypeParts
     DEF HelmInstalls, HelmDeploys, HelmInstallFails, StoreKubeconfig, KubeconfigNotStored,
         Completed, EnterPhase, InstallPcs
<1>a. {"helmWait", "completed", "record", "ready"} \subseteq InstallPcs
      /\ "Completed" \in Phases /\ "HelmReleaseFailed" \in Reasons
  BY DEF InstallPcs, Phases, Reasons
<1>1. CASE HelmInstalls \/ HelmDeploys
  <2>1. /\ Goto("helmWait") \/ Goto("completed")
        /\ UNCHANGED <<apiVars, wq, nsState, secrets, faults>>
        /\ \/ release' = [release EXCEPT ![n][ns] =
                            [status |-> "pending", uid |-> work.kmd.uid, images |-> work.kmd.spec.images]]
           \/ release' = [release EXCEPT ![n][ns].status = "deployed"]
    BY <1>1 DEF HelmInstalls, HelmDeploys, key, kmd
  <2>2. (work \in WorkType)' /\ WorkOK' BY <1>0, <1>a, <2>1, MoveType, PcSets
  <2>3. release' \in [Names -> [Namespaces -> Releases]]
    <3> HIDE DEF n, ns
    <3>1. n \in Names BY <1>0 DEF n
    <3>2. /\ [release EXCEPT ![n][ns] =
                 [status |-> "pending", uid |-> work.kmd.uid, images |-> work.kmd.spec.images]]
               \in [Names -> [Namespaces -> Releases]]
          /\ [release EXCEPT ![n][ns].status = "deployed"] \in [Names -> [Namespaces -> Releases]]
      BY <1>0, <3>1, ReleaseType, Zenon
    <3>3. QED BY <2>1, <3>2, Zenon
  <2>4. ExtTypeOK' BY <1>0, <2>1, <2>3 DEF ExtTypeOK
  <2>5. QED BY <2>1, <2>2, <2>4, Untouched, TypePartsNext
<1>2. CASE HelmInstallFails
  <2>1. /\ Report("HelmReleaseFailed")
        /\ UNCHANGED <<apiVars, wq, nsState, secrets>>
        /\ UNCHANGED faults \/ Fault("helm") \/ Fault("purge")
        /\ \/ release' = [release EXCEPT ![n][ns] = NoRelease]
           \/ release' = [release EXCEPT ![n][ns].status = "failed"]
    BY <1>2 DEF HelmInstallFails, key, kmd
  <2>2. release' \in [Names -> [Namespaces -> Releases]]
    <3> HIDE DEF n, ns
    <3>1. n \in Names BY <1>0 DEF n
    <3>2. /\ [release EXCEPT ![n][ns] = NoRelease] \in [Names -> [Namespaces -> Releases]]
          /\ [release EXCEPT ![n][ns].status = "failed"] \in [Names -> [Namespaces -> Releases]]
      BY <1>0, <3>1, ReleaseType, Zenon
    <3>3. QED BY <2>1, <3>2, Zenon
  <2>3. ExtTypeOK' BY <1>0, <2>1, <2>2 DEF ExtTypeOK
  <2>4. faults' \in 0..MaxFaults BY <1>0, <2>1, FaultType
  <2>5. QED BY <1>0, <1>a, <2>1, <2>3, <2>4, ReportStepType
<1>3. CASE StoreKubeconfig
  <2> DEFINE obj == [kmd EXCEPT !.status.secret = kmd.uid, !.status.cpr = TRUE,
                                !.status.phase = "Completed"]
  <2>1. /\ secrets' = secrets \cup {<<key, kmd.uid>>}
        /\ GotoWith("record", obj)
        /\ UNCHANGED <<apiVars, wq, release, nsState, faults>>
    BY <1>3 DEF StoreKubeconfig
  <2>2. obj \in Kmds BY <1>0, RegisteredType DEF SameBut, kmd
  <2>3. kmd.uid \in Nat BY <1>0 DEF Kmds, kmd
  <2> HIDE DEF obj
  <2>4. (work \in WorkType)' /\ WorkOK' BY <1>0, <1>a, <2>1, <2>2, MoveWithType, PcSets
  <2>5. ExtTypeOK' BY <1>0, <2>1, <2>3 DEF ExtTypeOK, key
  <2>6. QED BY <2>1, <2>4, <2>5, Untouched, TypePartsNext
<1>4. CASE KubeconfigNotStored
  <2>1. /\ Goto("failed") /\ UNCHANGED <<apiVars, wq, extVars>>
        /\ UNCHANGED faults \/ Fault("api")
    BY <1>4 DEF KubeconfigNotStored
  <2>2. (work \in WorkType)' /\ WorkOK' BY <1>0, <2>1, MoveType, PcSets
  <2>3. faults' \in 0..MaxFaults BY <1>0, <2>1, FaultType
  <2>4. QED BY <2>1, <2>2, <2>3, Untouched, TypePartsNext
<1>5. CASE Completed
  BY <1>5, <1>a, EnterPhaseType DEF Completed
<1>6. QED BY <1>1, <1>2, <1>3, <1>4, <1>5

\* uninstallWorkflow.
LEMMA UninstallType ==
  ASSUME TypeInv, UninstallStep
  PROVE  TypeInv'
<1>0. work.key \in Names /\ work.kmd \in Kmds /\ faults \in 0..MaxFaults /\ ExtTypeOK
  BY WorkerHas, TypeParts
     DEF UninstallStep, UninstallNothing, FindRelease, HelmUninstall, Cleanup, DeleteNamespace,
         UninstallPcs
<1>a. {"helmUninstall", "cleanup", "deleteNs"} \subseteq UninstallPcs BY DEF UninstallPcs
<1>1. CASE UninstallNothing
  <2>1. /\ Goto("finalize") /\ UNCHANGED <<apiVars, wq, release>>
        /\ UNCHANGED faults \/ Fault("api")
        /\ secrets' \subseteq secrets
        /\ NamespaceDeleted(kmd.spec.ns) \/ UNCHANGED nsState
    BY <1>1 DEF UninstallNothing
  <2>2. (work \in WorkType)' /\ WorkOK' BY <1>0, <2>1, MoveType, PcSets
  <2>3. ExtTypeOK' BY <1>0, <2>1, NamespaceType DEF ExtTypeOK
  <2>4. faults' \in 0..MaxFaults BY <1>0, <2>1, FaultType
  <2>5. QED BY <2>1, <2>2, <2>3, <2>4, Untouched, TypePartsNext
<1>2. CASE FindRelease
  <2>1. /\ UNCHANGED <<apiVars, wq, extVars>>
        /\ UNCHANGED faults \/ Fault("api")
        /\ \/ Goto("failed")
           \/ \E ns \in Namespaces : work' = [work EXCEPT !.pc = "helmUninstall", !.ns = ns]
    BY <1>2 DEF FindRelease
  <2>2. (work \in WorkType)' /\ WorkOK'
    <3>1. CASE Goto("failed") BY <1>0, <3>1, MoveType, PcSets
    <3>2. ASSUME NEW ns \in Namespaces, work' = [work EXCEPT !.pc = "helmUninstall", !.ns = ns]
          PROVE  (work \in WorkType)' /\ WorkOK'
      <4>1. work \in WorkType /\ "helmUninstall" \in Pcs BY <1>a, TypeParts, PcSets
      <4>2. work' \in WorkType /\ work'.key = work.key /\ work'.kmd = work.kmd
        BY <3>2, <4>1 DEF WorkType
      <4>3. QED BY <1>0, <4>2, WorkOKNext
    <3>3. QED BY <2>1, <3>1, <3>2
  <2>3. faults' \in 0..MaxFaults BY <1>0, <2>1, FaultType
  <2>4. QED BY <2>1, <2>2, <2>3, Untouched, TypePartsNext
<1>3. CASE HelmUninstall
  <2>1. /\ Goto("cleanup") /\ UNCHANGED <<apiVars, wq, nsState, secrets>>
        /\ UNCHANGED faults \/ Fault("helm")
        /\ UNCHANGED release \/ release' = [release EXCEPT ![work.key][work.ns] = NoRelease]
    BY <1>3 DEF HelmUninstall, key
  <2>2. (work \in WorkType)' /\ WorkOK' BY <1>0, <1>a, <2>1, MoveType, PcSets
  <2>3. [release EXCEPT ![work.key][work.ns] = NoRelease] \in [Names -> [Namespaces -> Releases]]
    BY <1>0, ReleaseType, Zenon
  <2>4. ExtTypeOK' BY <1>0, <2>1, <2>3 DEF ExtTypeOK
  <2>5. faults' \in 0..MaxFaults BY <1>0, <2>1, FaultType
  <2>6. QED BY <2>1, <2>2, <2>4, <2>5, Untouched, TypePartsNext
<1>4. CASE Cleanup
  <2>1. /\ Goto("deleteNs") /\ UNCHANGED <<apiVars, wq, release, nsState>>
        /\ UNCHANGED faults \/ Fault("api")
        /\ secrets' \subseteq secrets
    BY <1>4 DEF Cleanup
  <2>2. (work \in WorkType)' /\ WorkOK' BY <1>0, <1>a, <2>1, MoveType, PcSets
  <2>3. ExtTypeOK' BY <1>0, <2>1 DEF ExtTypeOK
  <2>4. faults' \in 0..MaxFaults BY <1>0, <2>1, FaultType
  <2>5. QED BY <2>1, <2>2, <2>3, <2>4, Untouched, TypePartsNext
<1>5. CASE DeleteNamespace
  <2>1. /\ Goto("finalize") \/ Goto("failed")
        /\ UNCHANGED <<apiVars, wq, release, secrets>>
        /\ UNCHANGED faults \/ Fault("api")
        /\ NamespaceDeleted(work.ns) \/ UNCHANGED nsState
    BY <1>5 DEF DeleteNamespace
  <2>2. (work \in WorkType)' /\ WorkOK' BY <1>0, <2>1, MoveType, PcSets
  <2>3. ExtTypeOK' BY <1>0, <2>1, NamespaceType DEF ExtTypeOK
  <2>4. faults' \in 0..MaxFaults BY <1>0, <2>1, FaultType
  <2>5. QED BY <2>1, <2>2, <2>3, <2>4, Untouched, TypePartsNext
<1>6. QED BY <1>1, <1>2, <1>3, <1>4, <1>5 DEF UninstallStep

\* A new process.
LEMMA RestartType ==
  ASSUME TypeInv, Restart, UNCHANGED faults \/ Fault("crash")
  PROVE  TypeInv'
<1>1. /\ Relist /\ wq' = EmptyQueue(Names) /\ work' = Idle /\ UNCHANGED extVars
      /\ UNCHANGED faults \/ Fault("crash")
  BY DEF Restart
<1>2. ApiTypeOK' /\ LastVersion' BY <1>1, RelistOK, TypeParts
<1>3. wq' \in QueueType(Names, MaxRetry) BY <1>1, EmptyQueueType, InstallerAssumption
<1>4. (work \in WorkType)' /\ WorkOK'
  BY <1>1, IdleType DEF WorkOK, InstallPcs, UninstallPcs
<1>5. faults' \in 0..MaxFaults BY <1>1, FaultType, TypeParts
<1>6. QED BY <1>1, <1>2, <1>3, <1>4, <1>5, Untouched, TypePartsNext

\* The cluster around the operator.
LEMMA ClusterType ==
  ASSUME TypeInv,
         \/ \E ns \in Namespaces : NamespaceGone(ns)
         \/ \E s \in secrets : SecretCollected(s[1], s[2])
  PROVE  TypeInv'
<1>0. ExtTypeOK BY TypeParts
<1>1. ASSUME NEW ns \in Namespaces, NamespaceGone(ns) PROVE TypeInv'
  <2>1. /\ nsState' = [nsState EXCEPT ![ns] = "absent"]
        /\ release' = [n \in Names |-> [release[n] EXCEPT ![ns] = NoRelease]]
        /\ UNCHANGED <<apiVars, wq, work, secrets, faults>>
    BY <1>1 DEF NamespaceGone, ctlVars
  <2>2. NoRelease \in Releases BY DEF NoRelease, Releases
  <2>3. release' \in [Names -> [Namespaces -> Releases]]
    BY <1>0, <2>1, <2>2 DEF ExtTypeOK
  <2>4. ExtTypeOK' BY <1>0, <2>1, <2>3, NamespaceType DEF ExtTypeOK
  <2>5. QED BY <2>1, <2>4, Untouched, TypePartsNext
<1>2. ASSUME NEW s \in secrets, SecretCollected(s[1], s[2]) PROVE TypeInv'
  <2>1. /\ secrets' \subseteq secrets
        /\ UNCHANGED <<apiVars, wq, work, release, nsState, faults>>
    BY <1>2 DEF SecretCollected, ctlVars
  <2>2. ExtTypeOK' BY <1>0, <2>1 DEF ExtTypeOK
  <2>3. QED BY <2>1, <2>2, Untouched, TypePartsNext
<1>3. QED BY <1>1, <1>2

-----------------------------------------------------------------------------
\* The state a new operator starts in is well formed (NewController).
LEMMA TypeInit == Init => TypeInv
<1> SUFFICES ASSUME Init PROVE TypeInv
  OBVIOUS
<1>1. ApiTypeOK /\ LastVersion
  <2>1. /\ api = [n \in Names |-> NoKmd] /\ watch = [n \in Names |-> <<>>]
        /\ cache = [n \in Names |-> NoKmd] /\ born = [n \in Names |-> 0]
    BY DEF Init, ApiInit
  <2>2. 0 \in 0..MaxUid
    <3>1. MaxUid \in Nat BY KmdApiAssumption, Zenon
    <3>2. QED BY <3>1
  <2>3. <<>> \in Seq(Kmds \cup {NoKmd}) BY EmptySeq
  <2>4. ApiTypeOK BY <2>1, <2>2, <2>3 DEF ApiTypeOK
  <2>5. LastVersion BY <2>1 DEF LastVersion, Fresh
  <2>6. QED BY <2>4, <2>5
<1>2. wq \in QueueType(Names, MaxRetry)
  BY EmptyQueueType, InstallerAssumption DEF Init
<1>3. work \in WorkType /\ WorkOK
  BY IdleType DEF Init, WorkOK, InstallPcs, UninstallPcs
<1>4. ExtTypeOK BY DEF Init, ExtTypeOK, NoRelease, Releases
<1>5. faults \in 0..MaxFaults BY InstallerAssumption DEF Init
<1>6. QED BY <1>1, <1>2, <1>3, <1>4, <1>5, TypeParts

\* Every step keeps the state well formed.
LEMMA TypeNext == TypeInv /\ [Next]_vars => TypeInv'
<1> SUFFICES ASSUME TypeInv, [Next]_vars PROVE TypeInv'
  OBVIOUS
<1>1. CASE UserStep /\ UNCHANGED <<ctlVars, extVars, faults>>
  <2>1. ApiTypeOK' /\ LastVersion' BY <1>1, UserType DEF UserStep
  <2>2. UNCHANGED <<wq, work, extVars, faults>> BY <1>1 DEF ctlVars
  <2>3. QED BY <2>1, <2>2, Untouched, TypePartsNext
<1>2. CASE \E n \in Names : InformerEvent(n) \/ BackoffElapses(n) BY <1>2, QueueStepType
<1>3. CASE WorkerStep
  <2>1. CASE TakeKey \/ Succeed \/ Retry \/ Drop BY <2>1, QueueStepType
  <2>2. CASE SyncStep BY <2>2, HandlerType, FactoryType DEF SyncStep
  <2>3. CASE InstallStep BY <2>3, DeployType, CompleteType DEF InstallStep
  <2>4. CASE UninstallStep BY <2>4, UninstallType
  <2>5. QED BY <1>3, <2>1, <2>2, <2>3, <2>4 DEF WorkerStep
<1>4. CASE ProcessDies BY <1>4, RestartType DEF ProcessDies, InstallerPanics, Crash
<1>5. CASE ClusterStep BY <1>5, ClusterType DEF ClusterStep
<1>6. CASE UNCHANGED vars
  <2>1. UNCHANGED <<apiVars, wq, work, extVars, faults>> BY <1>6 DEF vars, apiVars, extVars
  <2>2. QED BY <2>1, Untouched, TypePartsNext
<1>7. QED BY <1>1, <1>2, <1>3, <1>4, <1>5, <1>6 DEF Next

\* Every reachable state is well formed: objects, queue, worker and releases.
THEOREM TypeCorrect == Spec => []TypeOK
<1>1. TypeInv => TypeOK BY DEF TypeInv
<1>2. QED BY TypeInit, TypeNext, <1>1, PTL DEF Spec

-----------------------------------------------------------------------------
\* The part of the invariant that is about what is stored.
StorageOK == UidsBorn /\ VersionsOK /\ GuardedByFinalizer

\* The invariant, as its type part, its storage part and its worker part.
LEMMA InvParts == IInv <=> TypeInv /\ StorageOK /\ WorkerOK
BY DEF IInv, TypeInv, StorageOK

\* A step keeps what the worker relies on, of every object.
Keeps ==
  \A m \in Names : /\ \A k \in Kmds : Held(m, k) => Held(m, k)'
                   /\ Unguarded(m) => Unguarded(m)'

-----------------------------------------------------------------------------
(* Versions *)

\* The stored object is a version, and versions are objects.
LEMMA StoredIsVersion ==
  ASSUME TypeInv, NEW n \in Names
  PROVE  /\ api[n] \in Versions(n)
         /\ Versions(n) \subseteq Kmds \cup {NoKmd}
<1>1. watch[n] \in Seq(Kmds \cup {NoKmd}) /\ cache[n] \in Kmds \cup {NoKmd}
  BY TypeParts DEF ApiTypeOK
<1>2. CASE Fresh(n)
  <2>1. api[n] = cache[n] BY <1>2, FreshIsStored
  <2>2. QED BY <1>1, <2>1 DEF Versions
<1>3. CASE ~Fresh(n)
  <2>1. api[n] = watch[n][Len(watch[n])] BY <1>3 DEF TypeInv, LastVersion
  <2>2. Len(watch[n]) \in Nat \ {0} BY <1>1, <1>3, EmptySeq DEF Fresh
  <2>3. Len(watch[n]) \in 1..Len(watch[n]) BY <2>2
  <2>4. QED BY <1>1, <2>1, <2>3 DEF Versions
<1>4. QED BY <1>2, <1>3

\* Nothing but the stored object is a version when nothing is left to deliver.
LEMMA FreshVersions ==
  ASSUME TypeInv, NEW n \in Names, Fresh(n)
  PROVE  Versions(n) = {api[n]}
<1>1. watch[n] = <<>> /\ Len(<<>>) = 0 /\ cache[n] = api[n]
  BY FreshIsStored DEF Fresh
<1>2. 1..Len(watch[n]) = {} BY <1>1
<1>3. QED BY <1>1, <1>2 DEF Versions

\* A write makes one version.
LEMMA VersionsWrite ==
  ASSUME TypeInv, NEW n \in Names, NEW obj \in Kmds \cup {NoKmd}, Write(n, obj), UNCHANGED cache
  PROVE  /\ api' = [api EXCEPT ![n] = obj]
         /\ \A m \in Names : m # n => Versions(m)' = Versions(m)
         /\ Versions(n)' \subseteq Versions(n) \cup {obj}
<1>0. ApiTypeOK /\ LastVersion BY TypeParts
<1>1. /\ api' = [api EXCEPT ![n] = obj]
      /\ watch' = watch \/ watch' = [watch EXCEPT ![n] = Append(@, obj)]
  BY <1>0, WriteOK
<1>2. CASE watch' = watch BY <1>1, <1>2 DEF Versions
<1>3. CASE watch' = [watch EXCEPT ![n] = Append(@, obj)]
  <2>1. watch[n] \in Seq(Kmds \cup {NoKmd}) BY <1>0 DEF ApiTypeOK
  <2>2. /\ Len(watch[n]) \in Nat
        /\ Len(Append(watch[n], obj)) = Len(watch[n]) + 1
        /\ \A i \in 1..Len(watch[n]) : Append(watch[n], obj)[i] = watch[n][i]
        /\ Append(watch[n], obj)[Len(watch[n]) + 1] = obj
    BY <2>1, AppendProperties, LenProperties
  <2>3. watch'[n] = Append(watch[n], obj) BY <1>0, <1>3 DEF ApiTypeOK
  <2>4. ASSUME NEW i \in 1..Len(watch'[n])
        PROVE  watch'[n][i] \in Versions(n) \cup {obj}
    <3>1. i \in 1..Len(watch[n]) \/ i = Len(watch[n]) + 1 BY <2>2, <2>3
    <3>2. QED BY <2>2, <2>3, <3>1 DEF Versions
  <2>5. Versions(n)' \subseteq Versions(n) \cup {obj} BY <2>4 DEF Versions
  <2>6. \A m \in Names : m # n => watch'[m] = watch[m] BY <1>0, <1>3 DEF ApiTypeOK
  <2>7. QED BY <1>1, <2>5, <2>6 DEF Versions
<1>4. QED BY <1>1, <1>2, <1>3

\* A delivery makes none.
LEMMA VersionsDeliver ==
  ASSUME TypeInv, NEW n \in Names, Deliver(n)
  PROVE  \A m \in Names : Versions(m)' \subseteq Versions(m)
<1>0. ApiTypeOK BY TypeParts
<1>1. watch[n] \in Seq(Kmds \cup {NoKmd}) /\ watch[n] # <<>>
      /\ cache' = [cache EXCEPT ![n] = Head(watch[n])]
      /\ watch' = [watch EXCEPT ![n] = Tail(@)]
  BY <1>0 DEF ApiTypeOK, Deliver, Fresh
<1>2. /\ Len(watch[n]) \in Nat \ {0} /\ Head(watch[n]) = watch[n][1]
      /\ Len(Tail(watch[n])) = Len(watch[n]) - 1
      /\ \A i \in 1..(Len(watch[n]) - 1) : Tail(watch[n])[i] = watch[n][i + 1]
  BY <1>1, HeadAndTail
<1>3. Versions(n)' \subseteq Versions(n)
  <2>1. cache'[n] = watch[n][1] /\ watch'[n] = Tail(watch[n])
    BY <1>0, <1>1, <1>2 DEF ApiTypeOK
  <2>2. 1 \in 1..Len(watch[n]) BY <1>2
  <2>3. cache'[n] \in Versions(n) BY <2>1, <2>2 DEF Versions
  <2>4. ASSUME NEW i \in 1..Len(watch'[n]) PROVE watch'[n][i] \in Versions(n)
    <3>1. i \in 1..(Len(watch[n]) - 1) BY <1>2, <2>1
    <3>2. watch'[n][i] = watch[n][i + 1] BY <1>2, <2>1, <3>1
    <3>3. i + 1 \in 1..Len(watch[n]) BY <1>2, <3>1
    <3>4. QED BY <3>2, <3>3 DEF Versions
  <2>5. QED BY <2>3, <2>4 DEF Versions
<1>4. \A m \in Names : m # n => cache'[m] = cache[m] /\ watch'[m] = watch[m]
  BY <1>0, <1>1 DEF ApiTypeOK
<1>5. QED BY <1>3, <1>4 DEF Versions

\* A new process has no version but the stored object.
LEMMA VersionsRelist ==
  ASSUME TypeInv, Relist
  PROVE  \A m \in Names : Versions(m)' \subseteq Versions(m) \cup {NoKmd}
<1> SUFFICES ASSUME NEW m \in Names PROVE Versions(m)' \subseteq Versions(m) \cup {NoKmd}
  OBVIOUS
<1>1. cache'[m] = NoKmd /\ watch'[m] = IF Exists(m) THEN <<api[m]>> ELSE <<>>
  BY DEF Relist
<1>2. Len(<<api[m]>>) = 1 /\ <<api[m]>>[1] = api[m] /\ Len(<<>>) = 0 OBVIOUS
<1>3. \A i \in 1..Len(watch'[m]) : watch'[m][i] = api[m]
  <2>1. CASE Exists(m) BY <1>1, <1>2, <2>1
  <2>2. CASE ~Exists(m) BY <1>1, <1>2, <2>2
  <2>3. QED BY <2>1, <2>2
<1>4. api[m] \in Versions(m) BY StoredIsVersion
<1>5. QED BY <1>1, <1>3, <1>4 DEF Versions

-----------------------------------------------------------------------------
(* The storage part *)

\* Numbers behind Outlived and UidsBorn.
LEMMA Numbers ==
  ASSUME TypeInv, NEW n \in Names
  PROVE  /\ born[n] \in Nat
         /\ \A v \in Versions(n) : v # NoKmd => v \in Kmds /\ v.uid \in Nat
         /\ \A ns \in Namespaces : release[n][ns].uid \in Nat
<1>1. born[n] \in Nat
  <2>1. MaxUid \in Nat BY KmdApiAssumption, Zenon
  <2>2. born[n] \in 0..MaxUid BY TypeParts DEF ApiTypeOK
  <2>3. QED BY <2>1, <2>2
<1>2. \A v \in Versions(n) : v # NoKmd => v \in Kmds /\ v.uid \in Nat
  BY StoredIsVersion DEF Kmds
<1>3. \A ns \in Namespaces : release[n][ns].uid \in Nat
  BY TypeParts DEF ExtTypeOK, Releases
<1>4. QED BY <1>1, <1>2, <1>3

\* A write keeps the storage part if every version of its object stays in its
\* place, and the new one is guarded.
LEMMA WriteKeeps ==
  ASSUME TypeInv, TypeInv', StorageOK, NEW n \in Names, NEW obj \in Kmds \cup {NoKmd},
         Write(n, obj), UNCHANGED <<cache, release>>,
         \A m \in Names : born'[m] \in Nat /\ born'[m] >= born[m],
         obj # NoKmd => obj.uid <= born'[n],
         \A v \in Versions(n) : v # NoKmd =>
           /\ ~v.deleting /\ InstallerFinalizer \in v.finalizers => Held(n, v)'
           /\ v.deleting => Outlived(n, v)',
         obj # NoKmd /\ ~obj.deleting =>
           \A ns \in Namespaces : Owns(n, obj.uid, ns) => InstallerFinalizer \in obj.finalizers
  PROVE  StorageOK'
<1>1. /\ api' = [api EXCEPT ![n] = obj]
      /\ \A m \in Names : m # n => Versions(m)' = Versions(m)
      /\ Versions(n)' \subseteq Versions(n) \cup {obj}
  BY VersionsWrite
<1>2. api'[n] = obj /\ \A m \in Names : m # n => api'[m] = api[m]
  BY <1>1, TypeParts DEF ApiTypeOK
<1>3. UidsBorn'
  <2> SUFFICES ASSUME NEW m \in Names
               PROVE  /\ \A v \in Versions(m)' : v # NoKmd => v.uid <= born'[m]
                      /\ \A ns \in Namespaces : release'[m][ns].uid <= born'[m]
    BY DEF UidsBorn
  <2>1. born[m] \in Nat /\ born'[m] \in Nat /\ born'[m] >= born[m] BY Numbers
  <2>2. \A v \in Versions(m) : v # NoKmd => v.uid <= born[m] /\ v.uid \in Nat
    BY Numbers DEF StorageOK, UidsBorn
  <2>3. \A ns \in Namespaces : release[m][ns].uid <= born[m] /\ release[m][ns].uid \in Nat
    BY Numbers DEF StorageOK, UidsBorn
  <2>4. \A v \in Versions(m)' : v # NoKmd => v.uid <= born'[m]
    BY <1>1, <2>1, <2>2
  <2>5. \A ns \in Namespaces : release'[m][ns].uid <= born'[m]
    BY <2>1, <2>3
  <2>6. QED BY <2>4, <2>5
<1>4. VersionsOK'
  <2> SUFFICES ASSUME NEW m \in Names, NEW v \in Versions(m)', v # NoKmd
               PROVE  /\ ~v.deleting /\ InstallerFinalizer \in v.finalizers => Held(m, v)'
                      /\ v.deleting => Outlived(m, v)'
    BY DEF VersionsOK
  <2>1. CASE m # n
    <3>1. v \in Versions(m) BY <1>1, <2>1
    <3>2. /\ ~v.deleting /\ InstallerFinalizer \in v.finalizers => Held(m, v)
          /\ v.deleting => Outlived(m, v)
      BY <3>1 DEF StorageOK, VersionsOK
    <3>3. QED BY <1>2, <2>1, <3>2 DEF Held, Outlived, Exists
  <2>2. CASE m = n /\ v \in Versions(n) BY <2>2
  <2>3. CASE m = n /\ v = obj BY <1>2, <2>3 DEF Held, Outlived, Exists
  <2>4. QED BY <1>1, <2>1, <2>2, <2>3
<1>5. GuardedByFinalizer'
  <2> SUFFICES ASSUME NEW m \in Names, Live(m)', NEW ns \in Namespaces, Owns(m, api[m].uid, ns)'
               PROVE  InstallerFinalizer \in api'[m].finalizers
    BY DEF GuardedByFinalizer
  <2>1. CASE m # n
    BY <1>2, <2>1 DEF StorageOK, GuardedByFinalizer, Live, Exists, Owns
  <2>2. CASE m = n
    BY <1>2, <2>2 DEF Live, Exists, Owns
  <2>3. QED BY <2>1, <2>2
<1>6. QED BY <1>3, <1>4, <1>5 DEF StorageOK

\* A write that leaves the incarnation, its deletion and the installer's finalizer alone.
LEMMA IdentityWrite ==
  ASSUME TypeInv, TypeInv', StorageOK, NEW n \in Names, NEW obj \in Kmds, api[n] \in Kmds,
         obj.uid = api[n].uid, obj.deleting = api[n].deleting,
         InstallerFinalizer \in obj.finalizers <=> InstallerFinalizer \in api[n].finalizers,
         Write(n, obj), UNCHANGED <<cache, born, release>>
  PROVE  StorageOK' /\ Keeps
<1>0. NoKmd \notin Kmds BY KmdApiAssumption, Zenon
<1>1. api' = [api EXCEPT ![n] = obj] BY VersionsWrite
<1>2. api'[n] = obj /\ \A m \in Names : m # n => api'[m] = api[m]
  BY <1>1, TypeParts DEF ApiTypeOK
<1>3. \A m \in Names : Exists(m)' = Exists(m) BY <1>0, <1>2 DEF Exists
<1>4. \A m \in Names, k \in Kmds : /\ Held(m, k) => Held(m, k)'
                                   /\ Outlived(m, k) => Outlived(m, k)'
  BY <1>0, <1>2, <1>3 DEF Held, Outlived
<1>5. \A m \in Names : Unguarded(m) => Unguarded(m)'
  BY <1>0, <1>2, <1>3 DEF Unguarded, Live
<1>6. Keeps BY <1>4, <1>5 DEF Keeps
<1>7. \A v \in Versions(n) : v # NoKmd =>
        /\ ~v.deleting /\ InstallerFinalizer \in v.finalizers => Held(n, v)'
        /\ v.deleting => Outlived(n, v)'
  BY <1>4, Numbers DEF StorageOK, VersionsOK
<1>8. \A m \in Names : born'[m] \in Nat /\ born'[m] >= born[m] BY Numbers
<1>9. obj.uid <= born'[n]
  BY <1>0, StoredIsVersion DEF StorageOK, UidsBorn
<1>10. ~obj.deleting => \A ns \in Namespaces : Owns(n, obj.uid, ns) => InstallerFinalizer \in obj.finalizers
  BY <1>0 DEF StorageOK, GuardedByFinalizer, Live, Exists
<1>11. QED BY <1>6, <1>7, <1>8, <1>9, <1>10, WriteKeeps

\* Users: a new object is a new incarnation without finalizer; an edit changes
\* nothing that matters here; a deletion marks what has finalizers.
LEMMA UserKeeps ==
  ASSUME TypeInv, TypeInv', StorageOK, NEW n \in Names,
         Create(n) \/ EditSpec(n) \/ EditLabel(n) \/ Delete(n), UNCHANGED release
  PROVE  StorageOK' /\ Keeps
<1>0. NoKmd \notin Kmds BY KmdApiAssumption, Zenon
<1>a. api[n] \in Kmds \cup {NoKmd} BY TypeParts DEF ApiTypeOK
<1>1. CASE Create(n)
  <2>1. PICK spec \in UserSpecs(n), label \in UserLabels :
          Write(n, [uid |-> born[n] + 1, gen |-> 1, deleting |-> FALSE, label |-> label,
                    finalizers |-> {}, spec |-> spec, status |-> NewStatus])
    BY <1>1 DEF Create
  <2> DEFINE obj == [uid |-> born[n] + 1, gen |-> 1, deleting |-> FALSE, label |-> label,
                     finalizers |-> {}, spec |-> spec, status |-> NewStatus]
  <2>2. /\ UNCHANGED cache /\ api[n] = NoKmd
        /\ born' = [born EXCEPT ![n] = @ + 1]
    BY <1>1 DEF Create, Exists
  <2>3. obj \in Kmds \cup {NoKmd} /\ obj.uid = born[n] + 1 /\ obj.finalizers = {} /\ ~obj.deleting
    <3>1. obj.uid = born[n] + 1 /\ obj.finalizers = {} /\ ~obj.deleting OBVIOUS
    <3>2. spec \in Specs /\ label \in Labels BY KmdApiAssumption DEF UserSpecs, Specs
    <3>3. NewStatus \in Statuses BY DEF NewStatus, Statuses, Phases, Reasons
    <3>4. born[n] + 1 \in Nat BY Numbers
    <3>5. obj \in Kmds BY <3>2, <3>3, <3>4 DEF Kmds
    <3>6. QED BY <3>1, <3>5
  <2> HIDE DEF obj
  <2>4. Write(n, obj) BY <2>1 DEF obj
  <2>5. api'[n] = obj /\ \A m \in Names : m # n => api'[m] = api[m]
    <3>1. api' = [api EXCEPT ![n] = obj] BY <2>2, <2>3, <2>4, VersionsWrite
    <3>2. QED BY <3>1, TypeParts DEF ApiTypeOK
  <2>6. \A m \in Names : born'[m] \in Nat /\ born'[m] >= born[m]
    BY <2>2, Numbers, TypeParts DEF ApiTypeOK
  <2>7. born'[n] = born[n] + 1 /\ born[n] \in Nat
    BY <2>2, Numbers, TypeParts DEF ApiTypeOK
  <2>8. \A v \in Versions(n) : v # NoKmd =>
          /\ ~(~v.deleting /\ InstallerFinalizer \in v.finalizers)
          /\ v.uid <= born[n] /\ v.uid \in Nat
    BY <2>2, Numbers DEF StorageOK, VersionsOK, UidsBorn, Held, Exists
  <2>9. \A v \in Versions(n) : v # NoKmd =>
          /\ ~v.deleting /\ InstallerFinalizer \in v.finalizers => Held(n, v)'
          /\ v.deleting => Outlived(n, v)'
    BY <2>3, <2>5, <2>7, <2>8 DEF Outlived, Exists
  <2>10. \A ns \in Namespaces : ~Owns(n, obj.uid, ns)
    BY <2>3, <2>7, Numbers DEF StorageOK, UidsBorn, Owns
  <2>11. StorageOK'
    BY <2>2, <2>3, <2>4, <2>6, <2>7, <2>9, <2>10, WriteKeeps
  <2>12. Keeps
    BY <2>2, <2>3, <2>5 DEF Keeps, Held, Unguarded, Live, Exists
  <2>13. QED BY <2>11, <2>12
<1>2. CASE EditSpec(n)
  <2>1. PICK spec \in UserSpecs(n) : Write(n, [api[n] EXCEPT !.spec = spec, !.gen = @ + 1])
    BY <1>2 DEF EditSpec
  <2> DEFINE obj == [api[n] EXCEPT !.spec = spec, !.gen = @ + 1]
  <2>2. api[n] \in Kmds /\ spec \in Specs /\ UNCHANGED <<cache, born>>
    BY <1>2, <1>a, KmdApiAssumption DEF EditSpec, Exists, UserSpecs, Specs
  <2>3. /\ obj \in Kmds
        /\ obj.uid = api[n].uid /\ obj.deleting = api[n].deleting
        /\ obj.finalizers = api[n].finalizers
    BY <2>2, EditedType DEF Kmds
  <2> HIDE DEF obj
  <2>4. Write(n, obj) BY <2>1 DEF obj
  <2>5. QED BY <2>2, <2>3, <2>4, IdentityWrite
<1>3. CASE EditLabel(n)
  <2>1. PICK label \in UserLabels : Write(n, [api[n] EXCEPT !.label = label])
    BY <1>3 DEF EditLabel
  <2> DEFINE obj == [api[n] EXCEPT !.label = label]
  <2>2. api[n] \in Kmds /\ label \in Labels /\ UNCHANGED <<cache, born>>
    BY <1>3, <1>a, KmdApiAssumption DEF EditLabel, Exists
  <2>3. /\ obj \in Kmds
        /\ obj.uid = api[n].uid /\ obj.deleting = api[n].deleting
        /\ obj.finalizers = api[n].finalizers
    BY <2>2 DEF Kmds
  <2> HIDE DEF obj
  <2>4. Write(n, obj) BY <2>1 DEF obj
  <2>5. QED BY <2>2, <2>3, <2>4, IdentityWrite
<1>4. CASE Delete(n) /\ api[n].finalizers = {}
  <2>1. Write(n, NoKmd) /\ UNCHANGED <<cache, born>> /\ api[n] \in Kmds
    BY <1>4, <1>a DEF Delete, Live, Exists
  <2>2. api'[n] = NoKmd /\ \A m \in Names : m # n => api'[m] = api[m]
    <3>1. api' = [api EXCEPT ![n] = NoKmd] BY <2>1, VersionsWrite
    <3>2. QED BY <3>1, TypeParts DEF ApiTypeOK
  <2>3. \A v \in Versions(n) : v # NoKmd =>
          /\ ~v.deleting /\ InstallerFinalizer \in v.finalizers => Held(n, v)'
          /\ v.deleting => Outlived(n, v)'
    BY <1>4, <2>2 DEF StorageOK, VersionsOK, Held, Outlived, Exists
  <2>4. \A m \in Names : born'[m] \in Nat /\ born'[m] >= born[m] BY <2>1, Numbers
  <2>5. StorageOK' BY <2>1, <2>3, <2>4, WriteKeeps
  <2>6. Keeps BY <1>4, <2>2 DEF Keeps, Held, Unguarded, Live, Exists
  <2>7. QED BY <2>5, <2>6
<1>5. CASE Delete(n) /\ api[n].finalizers # {}
  <2> DEFINE obj == [api[n] EXCEPT !.deleting = TRUE, !.gen = @ + 1]
  <2>1. Write(n, obj) /\ UNCHANGED <<cache, born>> /\ api[n] \in Kmds
    BY <1>5, <1>a DEF Delete, Live, Exists
  <2>2. /\ obj \in Kmds /\ obj.uid = api[n].uid /\ obj.deleting
        /\ obj.finalizers = api[n].finalizers
    BY <2>1, MarkedType DEF Kmds
  <2> HIDE DEF obj
  <2>3. api'[n] = obj /\ \A m \in Names : m # n => api'[m] = api[m]
    <3>1. api' = [api EXCEPT ![n] = obj] BY <2>1, <2>2, VersionsWrite
    <3>2. QED BY <3>1, TypeParts DEF ApiTypeOK
  <2>4. /\ \A k : Held(n, k) => Held(n, k)'
        /\ \A k : Outlived(n, k) => Outlived(n, k)'
    BY <1>0, <2>1, <2>2, <2>3 DEF Held, Outlived, Exists
  <2>5. \A v \in Versions(n) : v # NoKmd =>
          /\ ~v.deleting /\ InstallerFinalizer \in v.finalizers => Held(n, v)'
          /\ v.deleting => Outlived(n, v)'
    BY <2>4 DEF StorageOK, VersionsOK
  <2>6. \A m \in Names : born'[m] \in Nat /\ born'[m] >= born[m] BY <2>1, Numbers
  <2>7. obj.uid <= born'[n]
    BY <1>0, <2>1, <2>2, StoredIsVersion DEF StorageOK, UidsBorn
  <2>8. StorageOK' BY <2>1, <2>2, <2>5, <2>6, <2>7, WriteKeeps
  <2>9. Keeps BY <1>0, <2>2, <2>3, <2>4 DEF Keeps, Held, Unguarded, Live, Exists
  <2>10. QED BY <2>8, <2>9
<1>6. QED BY <1>1, <1>2, <1>3, <1>4, <1>5

\* Steps that leave the objects alone, and make no release.
LEMMA ReleaseKeeps ==
  ASSUME TypeInv, StorageOK, UNCHANGED apiVars,
         \A n \in Names, ns \in Namespaces :
           \/ release'[n][ns] = release[n][ns]
           \/ release'[n][ns] = NoRelease
           \/ release[n][ns] # NoRelease /\ release'[n][ns].uid = release[n][ns].uid
  PROVE  StorageOK' /\ Keeps
<1>1. UNCHANGED <<api, watch, cache, born>> BY DEF apiVars
<1>2. Keeps BY <1>1 DEF Keeps, Held, Unguarded, Live, Exists
<1>3. \A n \in Names : Versions(n)' = Versions(n) BY <1>1 DEF Versions
<1>4. UidsBorn'
  <2>1. NoRelease.uid = 0 BY DEF NoRelease
  <2>2. \A n \in Names, ns \in Namespaces : release'[n][ns].uid <= born[n]
    BY <2>1, Numbers DEF StorageOK, UidsBorn
  <2>3. QED BY <1>1, <1>3, <2>2 DEF StorageOK, UidsBorn
<1>5. VersionsOK' BY <1>1, <1>3 DEF StorageOK, VersionsOK, Held, Outlived, Exists
<1>6. GuardedByFinalizer'
  BY <1>1 DEF StorageOK, GuardedByFinalizer, Live, Exists, Owns
<1>7. QED BY <1>2, <1>4, <1>5, <1>6 DEF StorageOK

\* Steps that leave the objects and the releases alone.
LEMMA StillKeeps ==
  ASSUME TypeInv, StorageOK, UNCHANGED apiVars, UNCHANGED release
  PROVE  StorageOK' /\ Keeps
BY ReleaseKeeps

\* A status that the worker sets, or fails to set.
LEMMA StatusKeeps ==
  ASSUME TypeInv, TypeInv', StorageOK, NEW s \in Statuses, work.key \in Names,
         StatusSet(s) \/ StatusNotSet \/ UNCHANGED <<api, watch>>, UNCHANGED <<cache, born, release>>
  PROVE  StorageOK' /\ Keeps
<1>1. CASE StatusSet(s)
  <2> DEFINE obj == [api[key] EXCEPT !.status = s]
  <2>1. Write(key, obj) /\ api[key] \in Kmds
    BY <1>1, TypeParts DEF StatusSet, SetStatus, Exists, ApiTypeOK, key
  <2>2. /\ obj \in Kmds /\ obj.uid = api[key].uid /\ obj.deleting = api[key].deleting
        /\ obj.finalizers = api[key].finalizers
    BY <2>1, KmdWithStatus
  <2> HIDE DEF obj
  <2>3. QED BY <2>1, <2>2, IdentityWrite DEF key
<1>2. CASE UNCHANGED <<api, watch>>
  BY <1>2, StillKeeps DEF apiVars
<1>3. QED BY <1>1, <1>2 DEF StatusNotSet

\* What the worker relies on holds as long as it goes on with the same incarnation,
\* and does not turn to uninstalling.
LEMMA WorkerKeeps ==
  ASSUME TypeInv, WorkerOK, Keeps, work.key \in Names, work'.key = work.key,
         work'.pc \in InstallPcs =>
           /\ work.pc \in InstallPcs
           /\ work.kmd \in Kmds /\ work'.kmd \in Kmds /\ work'.kmd.uid = work.kmd.uid,
         work'.pc \in UninstallPcs \cup {"finalize"} => work.pc \in UninstallPcs \cup {"finalize"}
  PROVE  WorkerOK'
<1>1. ASSUME work'.pc \in InstallPcs PROVE Held(work.key, work.kmd)'
  <2>1. Held(work.key, work.kmd) /\ work.kmd \in Kmds BY <1>1 DEF WorkerOK
  <2>2. \A m \in Names, k \in Kmds :
          Held(m, k) => /\ api'[m] # NoKmd
                        /\ api'[m].uid = k.uid
                        /\ InstallerFinalizer \in api'[m].finalizers
    BY DEF Keeps, Held, Exists
  <2>3. /\ api'[work.key] # NoKmd /\ api'[work.key].uid = work.kmd.uid
        /\ InstallerFinalizer \in api'[work.key].finalizers
    BY <2>1, <2>2
  <2>4. QED BY <1>1, <2>3 DEF Held, Exists
<1>2. ASSUME work'.pc \in UninstallPcs \cup {"finalize"} PROVE Unguarded(work.key)'
  BY <1>2 DEF WorkerOK, Keeps, Unguarded, Live, Exists
<1>3. QED BY <1>1, <1>2 DEF WorkerOK

\* A worker that neither installs nor uninstalls relies on nothing.
LEMMA WorkerFree ==
  ASSUME work'.pc \notin InstallPcs \cup UninstallPcs \cup {"finalize"}
  PROVE  WorkerOK'
BY DEF WorkerOK

\* A worker that is not concerned by a step.
LEMMA WorkerStays ==
  ASSUME TypeInv, WorkerOK, Keeps, UNCHANGED work
  PROVE  WorkerOK'
<1>1. CASE work.pc = "idle" BY <1>1, WorkerFree, PcSets
<1>2. CASE work.pc # "idle" BY <1>2, WorkerHas, WorkerKeeps
<1>3. QED BY <1>1, <1>2

-----------------------------------------------------------------------------
(* The steps *)

\* Users, the informer, timers and the cluster.
LEMMA GuardOthers ==
  ASSUME TypeInv, TypeInv', StorageOK, WorkerOK,
         \/ UserStep /\ UNCHANGED <<ctlVars, extVars, faults>>
         \/ \E n \in Names : InformerEvent(n) \/ BackoffElapses(n)
         \/ \E ns \in Namespaces : NamespaceGone(ns)
         \/ \E s \in secrets : SecretCollected(s[1], s[2])
  PROVE  StorageOK' /\ WorkerOK'
<1>1. CASE UserStep /\ UNCHANGED <<ctlVars, extVars, faults>>
  <2>1. UNCHANGED <<work, release>> BY <1>1 DEF ctlVars, extVars
  <2>2. StorageOK' /\ Keeps BY <1>1, <2>1, UserKeeps DEF UserStep
  <2>3. QED BY <2>1, <2>2, WorkerStays
<1>2. ASSUME NEW n \in Names, InformerEvent(n) PROVE StorageOK' /\ WorkerOK'
  <2>1. Deliver(n) /\ UNCHANGED <<api, born, work, release>>
    BY <1>2 DEF InformerEvent, Deliver, extVars
  <2>2. \A m \in Names : Versions(m)' \subseteq Versions(m) BY <2>1, VersionsDeliver
  <2>3. UidsBorn' BY <2>1, <2>2 DEF StorageOK, UidsBorn
  <2>4. VersionsOK' BY <2>1, <2>2 DEF StorageOK, VersionsOK, Held, Outlived, Exists
  <2>5. GuardedByFinalizer' BY <2>1 DEF StorageOK, GuardedByFinalizer, Live, Exists, Owns
  <2>6. Keeps BY <2>1 DEF Keeps, Held, Unguarded, Live, Exists
  <2>7. QED BY <2>1, <2>3, <2>4, <2>5, <2>6, WorkerStays DEF StorageOK
<1>3. ASSUME NEW n \in Names, BackoffElapses(n) PROVE StorageOK' /\ WorkerOK'
  <2>1. UNCHANGED <<apiVars, work, release>> BY <1>3 DEF BackoffElapses, extVars
  <2>2. QED BY <2>1, StillKeeps, WorkerStays
<1>4. ASSUME NEW ns \in Namespaces, NamespaceGone(ns) PROVE StorageOK' /\ WorkerOK'
  <2>1. /\ release' = [n \in Names |-> [release[n] EXCEPT ![ns] = NoRelease]]
        /\ UNCHANGED <<apiVars, work>>
    BY <1>4 DEF NamespaceGone, ctlVars
  <2>2. \A n \in Names, x \in Namespaces :
          release'[n][x] = release[n][x] \/ release'[n][x] = NoRelease
    BY <2>1, TypeParts DEF ExtTypeOK
  <2>3. StorageOK' /\ Keeps BY <2>1, <2>2, ReleaseKeeps
  <2>4. QED BY <2>1, <2>3, WorkerStays
<1>5. ASSUME NEW s \in secrets, SecretCollected(s[1], s[2]) PROVE StorageOK' /\ WorkerOK'
  <2>1. UNCHANGED <<apiVars, work, release>> BY <1>5 DEF SecretCollected, ctlVars
  <2>2. QED BY <2>1, StillKeeps, WorkerStays
<1>6. QED BY <1>1, <1>2, <1>3, <1>4, <1>5

\* Taking a key and giving it back.
LEMMA GuardQueue ==
  ASSUME TypeInv, TypeInv', StorageOK, WorkerOK, TakeKey \/ Succeed \/ Retry \/ Drop
  PROVE  StorageOK' /\ WorkerOK'
<1>1. UNCHANGED <<apiVars, release>> BY DEF TakeKey, Succeed, Retry, Drop, extVars
<1>2. work' = Idle \/ work' = [Idle EXCEPT !.pc = "sync", !.key = Head(wq.queue)]
  BY DEF TakeKey, Succeed, Retry, Drop
<1>3. work'.pc \in {"idle", "sync"}
  <2>1. \A h : [Idle EXCEPT !.pc = "sync", !.key = h].pc = "sync" BY DEF Idle
  <2>2. QED BY <1>2, <2>1, IdleType
<1>4. QED BY <1>1, <1>3, StillKeeps, WorkerFree, PcSets

\* A process that starts relies on nothing, and holds nothing but what is stored.
LEMMA GuardRestart ==
  ASSUME TypeInv, TypeInv', StorageOK, WorkerOK, Restart
  PROVE  StorageOK' /\ WorkerOK'
<1>1. Relist /\ work' = Idle /\ UNCHANGED release
  BY DEF Restart, extVars
<1>2. UNCHANGED <<api, born>> BY <1>1 DEF Relist
<1>3. \A m \in Names : Versions(m)' \subseteq Versions(m) \cup {NoKmd} BY <1>1, VersionsRelist
<1>4. UidsBorn' BY <1>1, <1>2, <1>3 DEF StorageOK, UidsBorn
<1>5. VersionsOK' BY <1>2, <1>3 DEF StorageOK, VersionsOK, Held, Outlived, Exists
<1>6. GuardedByFinalizer' BY <1>1, <1>2 DEF StorageOK, GuardedByFinalizer, Live, Exists, Owns
<1>7. WorkerOK' BY <1>1, IdleType, WorkerFree, PcSets
<1>8. QED BY <1>4, <1>5, <1>6, <1>7 DEF StorageOK

\* syncHandler takes a copy of a deleted object, to uninstall it.
LEMMA GuardSyncDeleted ==
  ASSUME TypeInv, TypeInv', StorageOK, WorkerOK, SyncDeleted
  PROVE  StorageOK' /\ WorkerOK'
<1>0. PICK n \in Names : n = work.key BY WorkerHas DEF SyncDeleted
<1>1. /\ cache[n] # NoKmd /\ cache[n].deleting
      /\ GotoWith("uninstall", cache[n]) \/ GotoWith("finalize", cache[n])
      /\ UNCHANGED <<apiVars, release>>
  BY <1>0 DEF SyncDeleted, key, extVars
<1>2. cache[n] \in Kmds /\ cache[n] \in Versions(n)
  BY <1>1, TypeParts DEF ApiTypeOK, Versions
<1>3. Unguarded(n) BY <1>1, <1>2 DEF StorageOK, VersionsOK, Outlived, Unguarded, Live
<1>4. work'.pc \in {"uninstall", "finalize"} /\ work'.key = n
  BY <1>0, <1>1, <1>2, TypeParts, GotoWithType, PcSets
<1>5. Unguarded(work.key)'
  BY <1>1, <1>3, <1>4 DEF Unguarded, Live, Exists, apiVars
<1>6. work'.pc \notin InstallPcs BY <1>4 DEF InstallPcs
<1>7. QED BY <1>1, <1>5, <1>6, StillKeeps DEF WorkerOK

\* syncHandler takes a copy to install from: either it already has the finalizer,
\* or the Update that stores it was made from the stored object.
LEMMA GuardSyncInstall ==
  ASSUME TypeInv, TypeInv', StorageOK, WorkerOK, SyncInstall
  PROVE  StorageOK' /\ WorkerOK'
<1>0. PICK n \in Names : n = work.key BY WorkerHas DEF SyncInstall
<1>a. NoKmd \notin Kmds BY KmdApiAssumption, Zenon
<1>1. PICK ns \in RandomNamespaces[n] :
        /\ GotoWith("observe", Defaulted(cache[n], ns))
        /\ IF IsUpdate(cache[n])
           THEN Fresh(n) /\ Update(n, Defaulted(cache[n], ns))
           ELSE UNCHANGED <<api, watch>>
  BY <1>0 DEF SyncInstall, key
<1>2. /\ cache[n] \in Kmds /\ ~cache[n].deleting /\ cache[n] \in Versions(n)
      /\ UNCHANGED <<cache, born, release>>
  BY <1>0, TypeParts DEF SyncInstall, key, extVars, ApiTypeOK, Versions
<1>3. PICK obj \in Kmds : obj = Defaulted(cache[n], ns) BY <1>2, DefaultedType
<1>4. /\ obj.uid = cache[n].uid /\ ~obj.deleting
      /\ obj.finalizers = cache[n].finalizers \cup {InstallerFinalizer}
  <2>1. /\ Defaulted(cache[n], ns).uid = cache[n].uid
        /\ Defaulted(cache[n], ns).deleting = cache[n].deleting
        /\ Defaulted(cache[n], ns).finalizers = cache[n].finalizers \cup {InstallerFinalizer}
    BY <1>2, DefaultedType
  <2>2. QED BY <1>2, <1>3, <2>1
<1>5. work'.pc = "observe" /\ work'.key = n /\ work'.kmd = obj
  <2>1. "observe" \in Pcs BY DEF Pcs, InstallPcs
  <2>2. QED BY <1>0, <1>1, <1>3, <2>1, TypeParts, GotoWithType
<1>6. StorageOK' /\ Held(n, obj)'
  <2>1. CASE IsUpdate(cache[n])
    <3>1. Fresh(n) /\ Update(n, obj) BY <1>1, <1>3, <2>1
    <3>2. api[n] = cache[n] /\ Versions(n) = {api[n]} BY <3>1, FreshIsStored, FreshVersions
    <3>3. PICK new \in Kmds :
            /\ Write(n, new)
            /\ new.uid = obj.uid /\ ~new.deleting /\ new.finalizers = obj.finalizers
      BY <1>2, <1>4, <3>1, <3>2, UpdateOK, TypeParts
    <3>4. api'[n] = new
      <4>1. api' = [api EXCEPT ![n] = new] BY <1>2, <3>3, VersionsWrite
      <4>2. QED BY <4>1, TypeParts DEF ApiTypeOK
    <3>5. /\ api'[n] # NoKmd /\ api'[n].uid = obj.uid /\ obj.uid = api[n].uid
          /\ InstallerFinalizer \in api'[n].finalizers
      BY <1>4, <1>a, <3>2, <3>3, <3>4
    <3>6. Held(n, obj)' BY <3>5 DEF Held, Exists
    <3>7. \A v \in Versions(n) : v # NoKmd =>
            /\ ~v.deleting /\ InstallerFinalizer \in v.finalizers => Held(n, v)'
            /\ v.deleting => Outlived(n, v)'
      BY <1>2, <3>2, <3>5 DEF Held, Exists
    <3>8. \A m \in Names : born'[m] \in Nat /\ born'[m] >= born[m] BY <1>2, Numbers
    <3>9. new.uid <= born'[n]
      BY <1>2, <1>4, <1>a, <3>3 DEF StorageOK, UidsBorn
    <3>10. InstallerFinalizer \in new.finalizers BY <1>4, <3>3
    <3>11. StorageOK' BY <1>2, <3>3, <3>7, <3>8, <3>9, <3>10, WriteKeeps
    <3>12. QED BY <3>6, <3>11
  <2>2. CASE ~IsUpdate(cache[n])
    <3>1. UNCHANGED apiVars BY <1>1, <1>2, <2>2 DEF apiVars
    <3>2. InstallerFinalizer \in cache[n].finalizers BY <2>2 DEF IsUpdate
    <3>3. Held(n, cache[n]) BY <1>2, <1>a, <3>2 DEF StorageOK, VersionsOK
    <3>4. Held(n, obj)' BY <1>4, <3>1, <3>3 DEF Held, Exists, apiVars
    <3>5. QED BY <1>2, <3>1, <3>4, StillKeeps
  <2>3. QED BY <2>1, <2>2
<1>7. WorkerOK'
  <2>1. Held(work.key, work.kmd)' BY <1>5, <1>6 DEF Held, Exists
  <2>2. work'.pc \notin UninstallPcs \cup {"finalize"} BY <1>5 DEF UninstallPcs
  <2>3. QED BY <2>1, <2>2 DEF WorkerOK
<1>8. QED BY <1>6, <1>7

\* The finalizer goes from a stored object that is being deleted: the copy is the
\* only version left, and a live object would not have the finalizer.
LEMMA GuardRemoveFinalizer ==
  ASSUME TypeInv, TypeInv', StorageOK, WorkerOK, RemoveFinalizer
  PROVE  StorageOK' /\ WorkerOK'
<1>0. PICK n \in Names : n = work.key BY WorkerHas DEF RemoveFinalizer
<1>a. NoKmd \notin Kmds BY KmdApiAssumption, Zenon
<1>1. /\ work.pc = "finalize" /\ Fresh(n) /\ cache[n] # NoKmd
      /\ InstallerFinalizer \in cache[n].finalizers
      /\ Update(n, [cache[n] EXCEPT !.finalizers = @ \ {InstallerFinalizer}])
      /\ Goto("ok") /\ UNCHANGED <<cache, born, release>>
  BY <1>0 DEF RemoveFinalizer, key, extVars
<1>2. api[n] = cache[n] /\ Versions(n) = {api[n]} BY <1>1, FreshIsStored, FreshVersions
<1>3. api[n] \in Kmds BY <1>1, <1>2, TypeParts DEF ApiTypeOK
<1>4. api[n].deleting
  BY <1>0, <1>1, <1>2 DEF WorkerOK, Unguarded, Live, Exists
<1>5. PICK obj \in Kmds : obj = [cache[n] EXCEPT !.finalizers = @ \ {InstallerFinalizer}]
  BY <1>2, <1>3, FinalizersType
<1>6. obj.uid = api[n].uid /\ obj.deleting
  BY <1>2, <1>3, <1>4, <1>5, FinalizersType
<1>7. PICK new \in Kmds \cup {NoKmd} :
        Write(n, new) /\ (new # NoKmd => new.uid = obj.uid /\ new.deleting)
  <2>1. Update(n, obj) /\ UNCHANGED cache BY <1>1, <1>5
  <2>2. ApiTypeOK /\ LastVersion BY TypeParts
  <2>3. PICK new \in Kmds \cup {NoKmd} :
          /\ Write(n, new)
          /\ new = NoKmd \/ (new.uid = obj.uid /\ new.deleting = obj.deleting)
    BY <1>3, <2>1, <2>2, UpdateOK
  <2>4. QED BY <1>6, <2>3
<1>8. api'[n] = new
  <2>1. api' = [api EXCEPT ![n] = new] BY <1>1, <1>7, VersionsWrite
  <2>2. QED BY <2>1, TypeParts DEF ApiTypeOK
<1>9. \A v \in Versions(n) : v # NoKmd =>
        /\ ~v.deleting /\ InstallerFinalizer \in v.finalizers => Held(n, v)'
        /\ v.deleting => Outlived(n, v)'
  BY <1>2, <1>4, <1>6, <1>7, <1>8 DEF Outlived, Exists
<1>10. \A m \in Names : born'[m] \in Nat /\ born'[m] >= born[m] BY <1>1, Numbers
<1>11. new # NoKmd => new.uid <= born'[n]
  BY <1>1, <1>2, <1>3, <1>6, <1>7, <1>a DEF StorageOK, UidsBorn
<1>12. StorageOK' BY <1>1, <1>7, <1>9, <1>10, <1>11, WriteKeeps
<1>13. WorkerOK'
  <2>1. work'.pc = "ok" BY <1>1, TypeParts, GotoType, PcSets
  <2>2. QED BY <2>1, WorkerFree, PcSets
<1>14. QED BY <1>12, <1>13

\* A step that leaves the objects and the releases alone and moves the worker on.
LEMMA GuardMove ==
  ASSUME TypeInv, StorageOK, WorkerOK, UNCHANGED <<apiVars, release>>, work.key \in Names,
         work'.key = work.key,
         work'.pc \in InstallPcs =>
           /\ work.pc \in InstallPcs
           /\ work.kmd \in Kmds /\ work'.kmd \in Kmds /\ work'.kmd.uid = work.kmd.uid,
         work'.pc \in UninstallPcs \cup {"finalize"} => work.pc \in UninstallPcs \cup {"finalize"}
  PROVE  StorageOK' /\ WorkerOK'
BY StillKeeps, WorkerKeeps

\* A step that ends the sync, or is about to report why it failed.
LEMMA GuardEnd ==
  ASSUME TypeInv, StorageOK, UNCHANGED <<apiVars, release>>,
         work'.pc \in {"ok", "failed", "report"}
  PROVE  StorageOK' /\ WorkerOK'
<1>1. work'.pc \notin InstallPcs \cup UninstallPcs \cup {"finalize"}
  BY DEF InstallPcs, UninstallPcs
<1>2. QED BY <1>1, StillKeeps, WorkerFree

\* What the worker's next program counter is.
LEMMA Moves ==
  ASSUME TypeInv, NEW pc \in Pcs
  PROVE  /\ Goto(pc) => work'.pc = pc /\ work'.key = work.key /\ work'.kmd = work.kmd
         /\ \A obj \in Kmds : GotoWith(pc, obj) =>
              work'.pc = pc /\ work'.key = work.key /\ work'.kmd = obj
         /\ \A r \in Reasons : work.kmd \in Kmds /\ Report(r) => work'.pc = "report"
<1>1. work \in WorkType BY TypeParts
<1>2. \A obj \in Kmds : GotoWith(pc, obj) =>
        work'.pc = pc /\ work'.key = work.key /\ work'.kmd = obj
  BY <1>1, GotoWithType
<1>3. ASSUME NEW r \in Reasons, work.kmd \in Kmds, Report(r) PROVE work'.pc = "report"
  <2>1. GotoWith("report", WithReason(work.kmd, r)) BY <1>3 DEF Report, kmd
  <2>2. WithReason(work.kmd, r) \in Kmds BY <1>3, WithReasonType DEF SameBut
  <2>3. QED BY <1>1, <2>1, <2>2, GotoWithType, PcSets
<1>4. QED BY <1>1, <1>2, <1>3, GotoType

\* The rest of syncHandler.
LEMMA GuardHandler ==
  ASSUME TypeInv, TypeInv', StorageOK, WorkerOK,
         \/ SyncGone \/ SyncDeleted \/ SyncInstall \/ SyncInstallFails
         \/ NothingToFinalize \/ RemoveFinalizer \/ RemoveFinalizerFails
  PROVE  StorageOK' /\ WorkerOK'
<1>1. CASE SyncGone \/ NothingToFinalize \/ SyncInstallFails
  <2>1. Goto("ok") \/ Goto("failed") BY <1>1 DEF SyncGone, NothingToFinalize, SyncInstallFails
  <2>2. UNCHANGED <<apiVars, release>>
    BY <1>1 DEF SyncGone, NothingToFinalize, SyncInstallFails, extVars
  <2>3. work'.pc \in {"ok", "failed"} BY <2>1, Moves, PcSets
  <2>4. QED BY <2>2, <2>3, GuardEnd
<1>2. CASE RemoveFinalizerFails
  <2>1. /\ UNCHANGED <<apiVars, release>> /\ work.pc = "finalize"
        /\ Goto("failed") \/ work' = [work EXCEPT !.tries = @ + 1]
    BY <1>2 DEF RemoveFinalizerFails, extVars
  <2>2. CASE Goto("failed")
    <3>1. work'.pc = "failed" BY <2>2, Moves, PcSets
    <3>2. QED BY <2>1, <3>1, GuardEnd
  <2>3. CASE work' = [work EXCEPT !.tries = @ + 1]
    <3>1. work'.pc = "finalize" /\ work'.key = work.key
      BY <2>1, <2>3, TypeParts DEF WorkType
    <3>2. work.key \in Names BY <2>1, WorkerHas
    <3>3. QED BY <2>1, <3>1, <3>2, GuardMove, PcSets
  <2>4. QED BY <2>1, <2>2, <2>3
<1>3. QED BY <1>1, <1>2, GuardSyncDeleted, GuardSyncInstall, GuardRemoveFinalizer

\* A step that registers a status and goes on with the copy, or fails.
LEMMA GuardStatus ==
  ASSUME TypeInv, TypeInv', StorageOK, WorkerOK, work.key \in Names, work.kmd \in Kmds,
         NEW obj, SameBut(obj, work.kmd),
         StatusSet(obj.status) \/ StatusNotSet \/ UNCHANGED <<api, watch>>,
         NEW pc \in Pcs, GotoWith(pc, obj) \/ Goto(pc),
         pc \in InstallPcs => work.pc \in InstallPcs,
         pc \notin UninstallPcs \cup {"finalize"},
         UNCHANGED <<cache, born, release>>
  PROVE  StorageOK' /\ WorkerOK'
<1>1. obj \in Kmds /\ obj.uid = work.kmd.uid /\ obj.status \in Statuses BY DEF SameBut, Kmds
<1>2. StorageOK' /\ Keeps BY <1>1, StatusKeeps
<1>3. work'.pc = pc /\ work'.key = work.key /\ work'.kmd \in {obj, work.kmd} BY <1>1, Moves
<1>4. WorkerOK' BY <1>1, <1>2, <1>3, WorkerKeeps
<1>5. QED BY <1>2, <1>4

\* InstallerFactory.
LEMMA GuardFactory ==
  ASSUME TypeInv, TypeInv', StorageOK, WorkerOK,
         ObserveGeneration \/ NoInstaller \/ ReportFailure \/ RecordReady
  PROVE  StorageOK' /\ WorkerOK'
<1>0. work.key \in Names /\ work.kmd \in Kmds
  BY WorkerHas
     DEF ObserveGeneration, NoInstaller, ReportFailure, RecordReady, InstallPcs, UninstallPcs
<1>a. {"IntallModeFailed", "Succeeded"} \subseteq Reasons
      /\ "install" \in InstallPcs /\ "observe" \in InstallPcs
      /\ {"ok", "failed", "install"} \cap (UninstallPcs \cup {"finalize"}) = {}
  BY DEF Reasons, InstallPcs, UninstallPcs
<1>1. CASE ObserveGeneration
  <2>1. PICK obj : /\ obj \in {kmd, WithReason([kmd EXCEPT !.status.obsGen = kmd.gen], "Progressing")}
                   /\ IF obj = kmd THEN UNCHANGED <<api, watch, faults>>
                      ELSE StatusSet(obj.status) \/ StatusNotSet
                   /\ GotoWith("install", obj)
                   /\ UNCHANGED <<cache, born, release>>
                   /\ work.pc = "observe"
    BY <1>1 DEF ObserveGeneration, extVars
  <2>2. SameBut(obj, work.kmd) BY <1>0, <2>1, RegisteredType DEF kmd, SameBut
  <2>3. StatusSet(obj.status) \/ StatusNotSet \/ UNCHANGED <<api, watch>> BY <2>1
  <2>4. QED BY <1>0, <1>a, <2>1, <2>2, <2>3, GuardStatus, PcSets
<1>2. CASE NoInstaller
  <2>1. Report("IntallModeFailed") /\ UNCHANGED <<apiVars, release>>
    BY <1>2 DEF NoInstaller, extVars
  <2>2. work'.pc = "report" BY <1>0, <1>a, <2>1, Moves, PcSets
  <2>3. QED BY <2>1, <2>2, GuardEnd
<1>3. CASE ReportFailure
  <2>1. /\ StatusSet(work.kmd.status) \/ StatusNotSet
        /\ Goto("failed") /\ UNCHANGED <<cache, born, release>>
    BY <1>3 DEF ReportFailure, kmd, extVars
  <2>2. SameBut(work.kmd, work.kmd) BY <1>0 DEF SameBut
  <2>3. "failed" \notin InstallPcs BY PcSets
  <2>4. QED BY <1>0, <1>a, <2>1, <2>2, <2>3, GuardStatus, PcSets
<1>4. CASE RecordReady
  <2> DEFINE obj == WithReason(kmd, "Succeeded")
  <2>1. SameBut(obj, work.kmd) BY <1>0, <1>a, WithReasonType DEF kmd
  <2>2. /\ UNCHANGED <<cache, born, release>>
        /\ \/ StatusSet(obj.status) /\ GotoWith("ok", obj)
           \/ StatusNotSet /\ Goto("failed")
    BY <1>4 DEF RecordReady, extVars
  <2>3. {"ok", "failed"} \cap InstallPcs = {} BY PcSets
  <2> HIDE DEF obj
  <2>4. QED BY <1>0, <1>a, <2>1, <2>2, <2>3, GuardStatus, PcSets
<1>5. QED BY <1>1, <1>2, <1>3, <1>4

\* A phase that the workflow enters.
LEMMA GuardPhase ==
  ASSUME TypeInv, TypeInv', StorageOK, WorkerOK,
         NEW from \in InstallPcs, NEW phase \in Phases, NEW to \in InstallPcs,
         EnterPhase(from, phase, to)
  PROVE  StorageOK' /\ WorkerOK'
<1>0. work.pc \in InstallPcs /\ work.key \in Names /\ work.kmd \in Kmds
  BY WorkerHas, PcSets DEF EnterPhase
<1>a. to \notin UninstallPcs \cup {"finalize"} /\ "failed" \notin UninstallPcs \cup {"finalize"}
  BY DEF InstallPcs, UninstallPcs
<1> DEFINE obj == [kmd EXCEPT !.status.phase = phase]
<1>1. SameBut(obj, work.kmd) BY <1>0, RegisteredType DEF kmd
<1>2. /\ UNCHANGED <<cache, born, release>>
      /\ \/ StatusSet(obj.status) /\ GotoWith(to, obj)
         \/ StatusNotSet /\ Goto("failed")
  BY DEF EnterPhase, extVars
<1> HIDE DEF obj
<1>3. QED BY <1>0, <1>a, <1>1, <1>2, GuardStatus, PcSets

\* helm creates a release: the object is held, so it has the finalizer.
LEMMA GuardHelmInstalls ==
  ASSUME TypeInv, TypeInv', StorageOK, WorkerOK, HelmInstalls
  PROVE  StorageOK' /\ WorkerOK'
<1>0. work.key \in Names /\ work.kmd \in Kmds /\ work.pc = "helm" /\ "helm" \in InstallPcs
      /\ "helmWait" \in InstallPcs
  BY WorkerHas DEF HelmInstalls, InstallPcs
<1>a. NoKmd \notin Kmds BY KmdApiAssumption, Zenon
<1> DEFINE rel == [status |-> "pending", uid |-> work.kmd.uid, images |-> work.kmd.spec.images]
<1>1. /\ release' = [release EXCEPT ![work.key][work.kmd.spec.ns] = rel]
      /\ Goto("helmWait") /\ UNCHANGED apiVars
  BY DEF HelmInstalls, key, kmd
<1>2. rel.uid = work.kmd.uid OBVIOUS
<1> HIDE DEF rel
<1>3. /\ \A m \in Names, x \in Namespaces :
           \/ release'[m][x] = release[m][x]
           \/ m = work.key /\ release'[m][x] = rel
  BY <1>1, TypeParts DEF ExtTypeOK
<1>4. Held(work.key, work.kmd) BY <1>0 DEF WorkerOK
<1>5. api[work.key] \in Versions(work.key) /\ api[work.key] # NoKmd
      /\ api[work.key].uid = work.kmd.uid /\ InstallerFinalizer \in api[work.key].finalizers
  BY <1>0, <1>4, StoredIsVersion DEF Held, Exists
<1>6. rel.uid <= born[work.key] BY <1>0, <1>2, <1>5 DEF StorageOK, UidsBorn
<1>7. UNCHANGED <<api, watch, cache, born>> BY <1>1 DEF apiVars
<1>8. \A m \in Names : Versions(m)' = Versions(m) BY <1>7 DEF Versions
<1>9. UidsBorn' BY <1>3, <1>6, <1>7, <1>8 DEF StorageOK, UidsBorn
<1>10. VersionsOK' BY <1>7, <1>8 DEF StorageOK, VersionsOK, Held, Outlived, Exists
<1>11. GuardedByFinalizer'
  <2> SUFFICES ASSUME NEW m \in Names, Live(m)', NEW x \in Namespaces, Owns(m, api[m].uid, x)'
               PROVE  InstallerFinalizer \in api'[m].finalizers
    BY DEF GuardedByFinalizer
  <2>1. CASE m = work.key BY <1>5, <1>7, <2>1
  <2>2. CASE m # work.key
    <3>1. release'[m][x] = release[m][x] BY <1>3, <2>2
    <3>2. QED BY <1>7, <3>1 DEF StorageOK, GuardedByFinalizer, Live, Exists, Owns
  <2>3. QED BY <2>1, <2>2
<1>12. Keeps BY <1>7 DEF Keeps, Held, Unguarded, Live, Exists
<1>13. work'.pc = "helmWait" /\ work'.key = work.key /\ work'.kmd = work.kmd
  BY <1>0, <1>1, Moves, PcSets
<1>14. work'.pc \notin UninstallPcs \cup {"finalize"} BY <1>13 DEF UninstallPcs
<1>15. WorkerOK' BY <1>0, <1>12, <1>13, <1>14, WorkerKeeps
<1>16. QED BY <1>9, <1>10, <1>11, <1>15 DEF StorageOK

\* helm finishes, one way or the other, the release it created.
LEMMA GuardHelmEnds ==
  ASSUME TypeInv, TypeInv', StorageOK, WorkerOK, HelmDeploys \/ HelmInstallFails
  PROVE  StorageOK' /\ WorkerOK'
<1>0. work.key \in Names /\ work.kmd \in Kmds /\ work.pc = "helmWait"
      /\ {"helmWait", "completed"} \subseteq InstallPcs /\ "HelmReleaseFailed" \in Reasons
      /\ {"completed", "report"} \cap (UninstallPcs \cup {"finalize"}) = {}
      /\ "report" \notin InstallPcs
  BY WorkerHas DEF HelmDeploys, HelmInstallFails, InstallPcs, UninstallPcs, Reasons
<1> DEFINE n == work.key
           ns == work.kmd.spec.ns
<1>1. /\ UNCHANGED apiVars
      /\ \/ release' = [release EXCEPT ![n][ns] = NoRelease]
         \/ /\ release[n][ns] # NoRelease
            /\ \E st \in {"deployed", "failed"} : release' = [release EXCEPT ![n][ns].status = st]
      /\ Goto("completed") \/ Report("HelmReleaseFailed")
  BY DEF HelmDeploys, HelmInstallFails, key, kmd
<1> HIDE DEF n, ns
<1>2. \A m \in Names, x \in Namespaces :
        \/ release'[m][x] = release[m][x]
        \/ release'[m][x] = NoRelease
        \/ release[m][x] # NoRelease /\ release'[m][x].uid = release[m][x].uid
  <2>1. ASSUME release' = [release EXCEPT ![n][ns] = NoRelease]
        PROVE  \A m \in Names, x \in Namespaces :
                 release'[m][x] = release[m][x] \/ release'[m][x] = NoRelease
    BY <2>1, TypeParts DEF ExtTypeOK
  <2>2. ASSUME NEW st, release[n][ns] # NoRelease, release' = [release EXCEPT ![n][ns].status = st],
               NEW m \in Names, NEW x \in Namespaces
        PROVE  \/ release'[m][x] = release[m][x]
               \/ release[m][x] # NoRelease /\ release'[m][x].uid = release[m][x].uid
    <3>1. CASE m = n /\ x = ns
      <4>1. release'[m][x] = [release[m][x] EXCEPT !.status = st]
        BY <2>2, <3>1, TypeParts DEF ExtTypeOK
      <4>2. release[m][x] \in Releases BY TypeParts DEF ExtTypeOK
      <4>3. release'[m][x].uid = release[m][x].uid BY <4>1, <4>2 DEF Releases
      <4>4. QED BY <2>2, <3>1, <4>3
    <3>2. CASE ~(m = n /\ x = ns)
      BY <2>2, <3>2, TypeParts DEF ExtTypeOK
    <3>3. QED BY <3>1, <3>2
  <2>3. QED BY <1>1, <2>1, <2>2
<1>3. StorageOK' /\ Keeps BY <1>1, <1>2, ReleaseKeeps
<1>4. \/ work'.pc = "completed" /\ work'.key = work.key /\ work'.kmd = work.kmd
      \/ work'.pc = "report"
  BY <1>0, <1>1, Moves, PcSets
<1>5. WorkerOK'
  <2>1. CASE work'.pc = "completed" /\ work'.key = work.key /\ work'.kmd = work.kmd
    BY <1>0, <1>3, <2>1, WorkerKeeps
  <2>2. CASE work'.pc = "report" BY <1>0, <2>2, WorkerFree
  <2>3. QED BY <1>4, <2>1, <2>2
<1>6. QED BY <1>3, <1>5

\* installWorkflow.
LEMMA GuardInstall ==
  ASSUME TypeInv, TypeInv', StorageOK, WorkerOK, InstallStep
  PROVE  StorageOK' /\ WorkerOK'
<1>a. {"install", "preflight", "chart", "namespace", "helm", "completed", "record", "ready"}
        \subseteq InstallPcs
      /\ {"Preflight", "Deploying", "Completed"} \subseteq Phases
      /\ {"HelmChartFailed", "HelmInitFailed", "HelmReleaseFailed"} \subseteq Reasons
      /\ InstallPcs \cap (UninstallPcs \cup {"finalize"}) = {}
  BY DEF InstallPcs, UninstallPcs, Phases, Reasons
<1>1. CASE Install \/ EnsureNamespace
  <2>0. work.key \in Names /\ work.kmd \in Kmds /\ work.pc \in InstallPcs
    BY <1>1, <1>a, WorkerHas DEF Install, EnsureNamespace
  <2>1. /\ UNCHANGED <<apiVars, release>>
        /\ \E pc \in {"ready", "preflight", "helm", "failed"} : Goto(pc)
    BY <1>1 DEF Install, EnsureNamespace, extVars
  <2>2. /\ work'.pc \in {"ready", "preflight", "helm", "failed"}
        /\ work'.key = work.key /\ work'.kmd = work.kmd
    BY <1>a, <2>1, Moves, PcSets
  <2>3. work'.pc \notin UninstallPcs \cup {"finalize"} BY <2>2 DEF UninstallPcs
  <2>4. QED BY <2>0, <2>1, <2>2, <2>3, GuardMove
<1>2. CASE Preflight \/ Deploy \/ Completed
  BY <1>2, <1>a, GuardPhase DEF Preflight, Deploy, Completed
<1>3. CASE ChartNotFetched \/ ValuesNotComposed \/ InstallRefused \/ KubeconfigNotStored
  <2>0. work.kmd \in Kmds
    BY <1>3, <1>a, WorkerHas
       DEF ChartNotFetched, ValuesNotComposed, InstallRefused, KubeconfigNotStored, InstallPcs
  <2>1. /\ UNCHANGED <<apiVars, release>>
        /\ (\E r \in Reasons : Report(r)) \/ Goto("failed")
    BY <1>3, <1>a DEF ChartNotFetched, ValuesNotComposed, InstallRefused, KubeconfigNotStored, extVars
  <2>2. work'.pc \in {"failed", "report"} BY <2>0, <2>1, Moves, PcSets
  <2>3. QED BY <2>1, <2>2, GuardEnd
<1>4. CASE StoreKubeconfig
  <2>0. work.key \in Names /\ work.kmd \in Kmds /\ work.pc \in InstallPcs
    BY <1>4, <1>a, WorkerHas DEF StoreKubeconfig
  <2> DEFINE obj == [kmd EXCEPT !.status.secret = kmd.uid, !.status.cpr = TRUE,
                                !.status.phase = "Completed"]
  <2>1. SameBut(obj, work.kmd) BY <2>0, RegisteredType DEF kmd
  <2>2. GotoWith("record", obj) /\ UNCHANGED <<apiVars, release>> BY <1>4 DEF StoreKubeconfig
  <2> HIDE DEF obj
  <2>3. obj \in Kmds /\ obj.uid = work.kmd.uid BY <2>1 DEF SameBut
  <2>4. work'.pc = "record" /\ work'.key = work.key /\ work'.kmd = obj
    BY <1>a, <2>2, <2>3, Moves, PcSets
  <2>5. work'.pc \notin UninstallPcs \cup {"finalize"} BY <2>4 DEF UninstallPcs
  <2>6. QED BY <2>0, <2>2, <2>3, <2>4, <2>5, GuardMove
<1>5. QED BY <1>1, <1>2, <1>3, <1>4, GuardHelmInstalls, GuardHelmEnds DEF InstallStep

\* uninstallWorkflow.
LEMMA GuardUninstall ==
  ASSUME TypeInv, TypeInv', StorageOK, WorkerOK, UninstallStep
  PROVE  StorageOK' /\ WorkerOK'
<1>0. work.key \in Names /\ work.pc \in UninstallPcs
  BY WorkerHas
     DEF UninstallStep, UninstallNothing, FindRelease, HelmUninstall, Cleanup, DeleteNamespace,
         UninstallPcs
<1>1. /\ UNCHANGED apiVars
      /\ UNCHANGED release \/ release' = [release EXCEPT ![work.key][work.ns] = NoRelease]
      /\ \/ \E pc \in {"failed", "finalize", "cleanup", "deleteNs"} : Goto(pc)
         \/ \E ns \in Namespaces : work' = [work EXCEPT !.pc = "helmUninstall", !.ns = ns]
  BY DEF UninstallStep, UninstallNothing, FindRelease, HelmUninstall, Cleanup, DeleteNamespace,
         key, extVars
<1>2. \A m \in Names, x \in Namespaces :
        release'[m][x] = release[m][x] \/ release'[m][x] = NoRelease
  <2>1. \A n, ns : release' = [release EXCEPT ![n][ns] = NoRelease] =>
          \A m \in Names, x \in Namespaces :
            release'[m][x] = release[m][x] \/ release'[m][x] = NoRelease
    BY TypeParts DEF ExtTypeOK
  <2>2. QED BY <1>1, <2>1
<1>3. StorageOK' /\ Keeps BY <1>1, <1>2, ReleaseKeeps
<1>4. /\ work'.key = work.key
      /\ work'.pc \in {"failed", "finalize", "cleanup", "deleteNs", "helmUninstall"}
  <2>1. {"failed", "finalize", "cleanup", "deleteNs"} \subseteq Pcs BY DEF Pcs, UninstallPcs
  <2>2. work \in WorkType BY TypeParts
  <2>3. ASSUME NEW ns \in Namespaces, work' = [work EXCEPT !.pc = "helmUninstall", !.ns = ns]
        PROVE  work'.key = work.key /\ work'.pc = "helmUninstall"
    BY <2>2, <2>3 DEF WorkType
  <2>4. QED BY <1>1, <2>1, <2>3, Moves
<1>5. work'.pc \notin InstallPcs BY <1>4 DEF InstallPcs
<1>6. WorkerOK' BY <1>0, <1>3, <1>4, <1>5, WorkerKeeps
<1>7. QED BY <1>3, <1>6

-----------------------------------------------------------------------------
\* Nothing is installed, and nothing is under way, when the operator starts.
LEMMA InvInit == Init => IInv
<1> SUFFICES ASSUME Init PROVE IInv
  OBVIOUS
<1>1. TypeInv BY TypeInit
<1>2. /\ api = [n \in Names |-> NoKmd] /\ watch = [n \in Names |-> <<>>]
      /\ cache = [n \in Names |-> NoKmd] /\ born = [n \in Names |-> 0]
      /\ release = [n \in Names |-> [ns \in Namespaces |-> NoRelease]]
      /\ work = Idle
  BY DEF Init, ApiInit
<1>3. \A n \in Names : Versions(n) = {NoKmd}
  <2> SUFFICES ASSUME NEW n \in Names PROVE Versions(n) = {NoKmd}
    OBVIOUS
  <2>1. Fresh(n) BY <1>2 DEF Fresh
  <2>2. QED BY <1>1, <1>2, <2>1, FreshVersions
<1>4. UidsBorn
  <2>1. NoRelease.uid = 0 /\ 0 <= 0 BY DEF NoRelease
  <2>2. QED BY <1>2, <1>3, <2>1 DEF UidsBorn
<1>5. VersionsOK BY <1>3 DEF VersionsOK
<1>6. GuardedByFinalizer BY <1>2 DEF GuardedByFinalizer, Live, Exists
<1>7. WorkerOK BY <1>2, IdleType, PcSets DEF WorkerOK
<1>8. QED BY <1>1, <1>4, <1>5, <1>6, <1>7, InvParts DEF StorageOK

\* Every step keeps the invariant.
LEMMA InvNext == IInv /\ [Next]_vars => IInv'
<1> SUFFICES ASSUME IInv, [Next]_vars PROVE IInv'
  OBVIOUS
<1>0. TypeInv /\ StorageOK /\ WorkerOK /\ TypeInv' BY InvParts, TypeNext
<1>1. CASE \/ UserStep /\ UNCHANGED <<ctlVars, extVars, faults>>
           \/ \E n \in Names : InformerEvent(n) \/ BackoffElapses(n)
           \/ ClusterStep
  <2>1. StorageOK' /\ WorkerOK' BY <1>0, <1>1, GuardOthers DEF ClusterStep
  <2>2. QED BY <1>0, <2>1 DEF IInv, TypeInv, StorageOK
<1>2. CASE WorkerStep
  <2>1. StorageOK' /\ WorkerOK'
    <3>1. CASE TakeKey \/ Succeed \/ Retry \/ Drop BY <1>0, <3>1, GuardQueue
    <3>2. CASE SyncStep BY <1>0, <3>2, GuardHandler, GuardFactory DEF SyncStep
    <3>3. CASE InstallStep BY <1>0, <3>3, GuardInstall
    <3>4. CASE UninstallStep BY <1>0, <3>4, GuardUninstall
    <3>5. QED BY <1>2, <3>1, <3>2, <3>3, <3>4 DEF WorkerStep
  <2>2. QED BY <1>0, <2>1 DEF IInv, TypeInv, StorageOK
<1>3. CASE ProcessDies
  <2>1. StorageOK' /\ WorkerOK' BY <1>0, <1>3, GuardRestart DEF ProcessDies, InstallerPanics, Crash
  <2>2. QED BY <1>0, <2>1 DEF IInv, TypeInv, StorageOK
<1>4. CASE UNCHANGED vars
  <2>1. UNCHANGED <<apiVars, work, release>> BY <1>4 DEF vars, apiVars
  <2>2. StorageOK' /\ WorkerOK' BY <1>0, <2>1, StillKeeps, WorkerStays
  <2>3. QED BY <1>0, <2>2 DEF IInv, TypeInv, StorageOK
<1>5. QED BY <1>1, <1>2, <1>3, <1>4 DEF Next

\* The invariant holds of every reachable state.
THEOREM Invariant == Spec => []IInv
BY InvInit, InvNext, PTL DEF Spec

\* As long as an object is live, what was installed for it is guarded by its
\* finalizer: whatever the informer still shows, wherever the process crashes, and
\* however often the name is deleted and created again (syncHandler,
\* initDefaultValues, UpgradeFromPath).
THEOREM InstancesGuarded == Spec => []GuardedByFinalizer
<1>1. IInv => GuardedByFinalizer BY DEF IInv
<1>2. QED BY Invariant, <1>1, PTL
=============================================================================
